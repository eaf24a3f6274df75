--------------------------- MODULE ProviderBroker ---------------------------
(***************************************************************************)
(* The root-owned broker of one model provider's key: the lifecycle row    *)
(* with its two ciphertext slots (provider_lifecycle.py), the journal of   *)
(* upstream attempts (provider_broker_service.py), the single-threaded     *)
(* service over both (provider_proxy_service.py), the one-shot worker that *)
(* holds the key (provider_worker.py), and their clients: the fetch of the *)
(* agent's process, Telegram and the local terminal.                       *)
(*                                                                         *)
(* The broker serves one connection at a time. What interleaves with it is *)
(* its own death between two transactions or file operations, the worker,  *)
(* which is a process of its own, and the clients, which may leave while   *)
(* their bytes still wait in the broker's socket.                          *)
(***************************************************************************)
EXTENDS Naturals, FiniteSets

CONSTANTS
    Requests,       \* ids of provider calls
    Owners,         \* (operator, profile) bindings
    MaxCodes,       \* bound on enrolment challenges
    MaxKeys,        \* bound on ciphertexts ever made; ciphertexts are 1..MaxKeys
    MaxMishaps,     \* bound on crashes, refusals, expiries and clients that leave
    MaxRevokes,     \* bound on revocation cards
    First           \* ciphertexts active at the start: 0 for none, 1 for one

VARIABLES
    row,        \* the provider's row of provider_lifecycle
    codes,      \* the rows of provider_challenges
    files,      \* the two slots and the published ciphertext
    attempts,   \* the rows of provider_attempts
    pc,         \* where the broker's thread stands
    workers,    \* the one-shot worker of each request
    clients,    \* the agent's fetch of each request
    host,       \* ready file, this installation, the agent's provider adapter
    user,       \* Telegram and the terminal
    seen        \* history: uploads, key of each revision, revoked, refused

vars == <<row, codes, files, attempts, pc, workers, clients, host, user, seen>>

Codes == 1..MaxCodes
Keys == 0..MaxKeys          \* 0: no ciphertext
Revisions == 0..MaxKeys     \* 0: none
Slots == {"a", "b"}
NoOwner == "nobody"

\* provider_challenges
ChallengeRow ==
    [phase : {"none", "issued", "claimed", "terminal", "superseded", "expired"},
     owner : Owners \cup {NoOwner}]

\* provider_lifecycle
LifecycleRow ==
    [phase : {"unconfigured", "committing", "ready", "revoking", "unavailable"},
     owner : Owners \cup {NoOwner}, rev : Revisions, active : Slots \cup {"none"},
     hash : [Slots -> Keys], pslot : Slots \cup {"none"}, phash : Keys,
     prev : Revisions]

\* provider_attempts
AttemptRow ==
    [phase : {"none", "prepared", "attempted", "terminal", "ambiguous"},
     rev : Revisions]

Idle == [at |-> "idle", code |-> 0, key |-> 0, slot |-> "none", req |-> "none"]
Down == [Idle EXCEPT !.at = "down"]

Spend == seen.mishaps < MaxMishaps
Mishap(s) == [s EXCEPT !.mishaps = @ + 1]

-----------------------------------------------------------------------------
(* Files                                                                    *)

\* _attest_ciphertext
Attested(f, k) == k # 0 /\ files[f] = k

\* ready_provider_ids and _active_providers: the row is ready under this
\* installation, and slot and published file both carry its hash.
ReadyNow ==
    /\ row.phase = "ready" /\ host.home /\ row.active \in Slots
    /\ Attested(row.active, row.hash[row.active])
    /\ Attested("active", row.hash[row.active])

\* provider_dispatch_binding
Dispatchable == ReadyNow /\ row.rev >= 1

\* inspect_binding: what /provider shows. It reads the row and no file.
inspect_binding ==
    IF row.phase = "unconfigured" THEN "unconfigured"
    ELSE IF row.phase = "ready" /\ row.hash[row.active] # 0 THEN "ready"
    ELSE "unavailable"

\* Mutant: the slot is always the first.
nextSlotFixed == "a"

\* The slot the next ciphertext goes to: never the one in use.
nextSlot == IF row.active = "a" THEN "b" ELSE "a"

\* The broker is ready for the next connection; a refused control request
\* leaves the ready file to the next turn of the loop.
refresh_ready ==
    /\ pc.at = "idle" /\ host.ready # ReadyNow
    /\ host' = [host EXCEPT !.ready = ReadyNow]
    /\ UNCHANGED <<row, codes, files, attempts, pc, workers, clients, user, seen>>

-----------------------------------------------------------------------------
(* The process                                                              *)

\* A worker that was not yet acknowledged reads the end of the stream and
\* gives up; one that was acknowledged goes on to the provider.
Unacked == {"loaded", "asking"}

Dropped(ws, R) ==
    [r \in Requests |-> IF r \in R /\ ws[r].at \in Unacked
                        THEN [ws[r] EXCEPT !.at = "gone"] ELSE ws[r]]

\* What the fetch reports once its channel is lost: frames already sent to it
\* are read before the end of the stream.
Fails(c, attempted) ==
    [c EXCEPT !.at = IF attempted THEN "attempted" ELSE "untouched"]

Cut(cs) ==
    [r \in Requests |->
        LET c == IF cs[r].at = "waiting" THEN Fails(cs[r], cs[r].frame) ELSE cs[r]
        IN  [c EXCEPT !.open = @ /\ c.at = "none"]]

\* The connections of the operator's doors end without an answer.
Lost == [user EXCEPT !.tg = "none", !.term = "none", !.gone = {}]

\* The process dies wherever it stands: kill, power, or an error no handler
\* takes. Its ready file stays.
crash ==
    /\ pc.at # "down" /\ Spend
    /\ pc' = Down
    /\ workers' = Dropped(workers, Requests)
    /\ clients' = Cut(clients)
    /\ user' = Lost
    /\ seen' = Mishap(seen)
    /\ UNCHANGED <<row, codes, files, attempts, host>>

\* SIGTERM is seen between two connections; the ready file goes too.
stop ==
    /\ pc.at = "idle" /\ Spend
    /\ pc' = Down
    /\ clients' = Cut(clients)
    /\ user' = Lost
    /\ host' = [host EXCEPT !.ready = FALSE]
    /\ seen' = Mishap(seen)
    /\ UNCHANGED <<row, codes, files, attempts, workers>>

\* open_journal: what was only prepared never reached the provider; what was
\* attempted may have.
open_journal ==
    [r \in Requests |->
        IF attempts[r].phase = "prepared" THEN [attempts[r] EXCEPT !.phase = "terminal"]
        ELSE IF attempts[r].phase = "attempted" THEN [attempts[r] EXCEPT !.phase = "ambiguous"]
        ELSE attempts[r]]

\* initialize_lifecycle: overdue codes expire (any subset of the issued ones
\* may be overdue), claimed ones end.
initialize_lifecycle(late) ==
    [c \in Codes |->
        IF codes[c].phase = "claimed" THEN [codes[c] EXCEPT !.phase = "terminal"]
        ELSE IF c \in late THEN [codes[c] EXCEPT !.phase = "expired"]
        ELSE codes[c]]

start ==
    /\ pc.at = "down"
    /\ \E late \in SUBSET {c \in Codes : codes[c].phase = "issued"} :
        /\ late # {} => Spend
        /\ codes' = initialize_lifecycle(late)
        /\ seen' = IF late = {} THEN seen ELSE Mishap(seen)
    /\ attempts' = open_journal
    /\ pc' = [Idle EXCEPT !.at = "reconciling"]
    /\ UNCHANGED <<row, files, workers, clients, host, user>>

Unavailable == [row EXCEPT !.phase = "unavailable"]

Unconfigured ==
    [row EXCEPT !.phase = "unconfigured", !.active = "none",
                !.hash = [s \in Slots |-> 0], !.pslot = "none", !.phash = 0,
                !.prev = 0]

Committed ==
    [row EXCEPT !.phase = "ready", !.rev = row.prev, !.active = row.pslot,
                !.pslot = "none", !.phash = 0, !.prev = 0]

\* The key each revision stands for, once it is the active one.
Learnt(s, r) == [s EXCEPT !.keyOf[r.rev] = @ \cup {r.hash[r.active]}]

NoFiles == [f \in {"active"} \cup Slots |-> 0]

\* _publish_active
Published(slot) == [files EXCEPT !["active"] = files[slot]]

\* reconcile_lifecycle, one case per phase: a pending publication is made, and
\* if it fails the provider is unavailable.
reconcileCommitting ==
    /\ pc.at = "reconciling" /\ host.home /\ row.phase = "committing"
    /\ \/ /\ Attested(row.pslot, row.phash)
          /\ files' = Published(row.pslot)
          /\ row' = Committed
          /\ seen' = Learnt(seen, Committed)
       \/ /\ Spend
          /\ row' = Unavailable
          /\ seen' = Mishap(seen)
          /\ UNCHANGED files
    /\ pc' = Idle
    /\ UNCHANGED <<codes, attempts, workers, clients, host, user>>

\* Files removed in order: published, then the slots.
unlinkOrder == <<"active", "a", "b">>

Removed(n) ==
    [f \in DOMAIN files |->
        IF \E i \in 1..n : unlinkOrder[i] = f THEN 0 ELSE files[f]]

\* _delete_provider_files from reconcile_lifecycle
reconcileRevoking ==
    /\ pc.at = "reconciling" /\ host.home /\ row.phase = "revoking"
    /\ \/ /\ files' = NoFiles
          /\ row' = Unconfigured
          /\ seen' = seen
       \/ \E n \in 0..2 :
             /\ Spend
             /\ files' = Removed(n)
             /\ row' = Unavailable
             /\ seen' = Mishap(seen)
    /\ pc' = Idle
    /\ UNCHANGED <<codes, attempts, workers, clients, host, user>>

reconcileSettled ==
    /\ pc.at = "reconciling"
    /\ ~host.home \/ row.phase \in {"unconfigured", "ready", "unavailable"}
    /\ row' = IF ~host.home /\ row.owner # NoOwner THEN Unavailable
              ELSE IF row.phase = "ready" /\ ~ReadyNow THEN Unavailable
              ELSE row
    /\ pc' = Idle
    /\ UNCHANGED <<codes, files, attempts, workers, clients, host, user, seen>>

\* The service is set up again under another installation id, which refuses
\* the codes of the old one.
reinstall ==
    /\ pc.at = "down" /\ Spend /\ host.home
    /\ host' = [host EXCEPT !.home = FALSE]
    /\ user' = [user EXCEPT !.shown = {}]
    /\ seen' = Mishap(seen)
    /\ UNCHANGED <<row, codes, files, attempts, pc, workers, clients>>

-----------------------------------------------------------------------------
(* The operator's doors                                                     *)

\* bot.ts, /provider connect and /provider revoke
connectProvider(o) ==
    /\ pc.at # "down" /\ user.tg = "none"
    /\ \E c \in Codes : codes[c].phase = "none"
    /\ user' = [user EXCEPT !.tg = "begin", !.by = o]
    /\ UNCHANGED <<row, codes, files, attempts, pc, workers, clients, host, seen>>

askRevoke(o) ==
    /\ user.tg = "none" /\ user.cards < MaxRevokes /\ ~user.card
    /\ user' = [user EXCEPT !.card = TRUE, !.by = o, !.cards = @ + 1]
    /\ UNCHANGED <<row, codes, files, attempts, pc, workers, clients, host, seen>>

\* The card's button works once.
tapRevoke ==
    /\ user.card /\ user.tg = "none"
    /\ user' = [user EXCEPT !.card = FALSE,
                            !.tg = IF pc.at = "down" THEN "none" ELSE "revoke"]
    /\ UNCHANGED <<row, codes, files, attempts, pc, workers, clients, host, seen>>

\* aisy provider credential set --code=...
setMaterial(c) ==
    /\ pc.at # "down" /\ user.term = "none" /\ c \in user.shown
    /\ user' = [user EXCEPT !.term = "asked", !.code = c]
    /\ UNCHANGED <<row, codes, files, attempts, pc, workers, clients, host, seen>>

sendMaterial ==
    /\ user.term = "asked" /\ pc.at = "claimed" /\ "terminal" \notin user.gone
    /\ user' = [user EXCEPT !.term = "sent"]
    /\ UNCHANGED <<row, codes, files, attempts, pc, workers, clients, host, seen>>

\* withDeadline: the client leaves; what it wrote stays to be read.
clientLeaves(d) ==
    /\ d \notin user.gone /\ Spend
    /\ IF d = "telegram" THEN user.tg # "none" ELSE user.term # "none"
    /\ user' = [user EXCEPT !.gone = @ \cup {d}]
    /\ seen' = Mishap(seen)
    /\ UNCHANGED <<row, codes, files, attempts, pc, workers, clients, host>>

\* An answer, good or bad, to a client that left is lost, and nothing more.
TgDone == [user EXCEPT !.tg = "none", !.gone = @ \ {"telegram"}]
TermDone == [user EXCEPT !.term = "none", !.gone = @ \ {"terminal"}, !.code = 0]

Answered(u) ==
    /\ user' = u
    /\ pc' = Idle
    /\ host' = [host EXCEPT !.ready = ReadyNow]

Refused(u) == user' = u /\ pc' = Idle /\ UNCHANGED host

Foreign(o) == row.phase # "unconfigured" /\ row.owner # o

-----------------------------------------------------------------------------
(* Enrolment                                                                *)

\* begin_challenge: the new code supersedes the one still open.
begin_challenge ==
    /\ pc.at = "idle" /\ user.tg = "begin"
    /\ IF Foreign(user.by)
       THEN Refused(TgDone) /\ UNCHANGED codes
       ELSE LET c == CHOOSE x \in Codes : codes[x].phase = "none" /\
                        \A y \in Codes : codes[y].phase = "none" => x <= y
            IN  /\ codes' = [x \in Codes |->
                       IF x = c THEN [phase |-> "issued", owner |-> user.by]
                       ELSE IF codes[x].phase = "issued"
                       THEN [codes[x] EXCEPT !.phase = "superseded"]
                       ELSE codes[x]]
                /\ Answered(IF "telegram" \in user.gone THEN TgDone
                            ELSE [TgDone EXCEPT !.shown = @ \cup {c}])
    /\ UNCHANGED <<row, files, attempts, workers, clients, seen>>

\* claim_challenge: once, and in time.
claim_challenge ==
    /\ pc.at = "idle" /\ user.term = "asked"
    /\ \/ /\ codes[user.code].phase = "issued"
          /\ codes' = [codes EXCEPT ![user.code].phase = "claimed"]
          /\ pc' = [Idle EXCEPT !.at = "claimed", !.code = user.code]
          /\ seen' = [seen EXCEPT !.claims[user.code] = @ + 1]
          /\ UNCHANGED <<user, host>>
       \/ /\ codes[user.code].phase = "issued" /\ Spend
          /\ codes' = [codes EXCEPT ![user.code].phase = "expired"]
          /\ seen' = Mishap(seen)
          /\ Refused(TermDone)
       \/ /\ codes[user.code].phase # "issued"
          /\ Refused(TermDone)
          /\ UNCHANGED <<codes, seen>>
    /\ UNCHANGED <<row, files, attempts, workers, clients>>

\* handle_control_connection, its error paths: the code is spent, the client
\* told. A key the client was told was refused is remembered.
FailSubmit ==
    /\ codes' = [codes EXCEPT ![pc.code].phase = "terminal"]
    /\ Refused(TermDone)

Told(s) == IF "terminal" \in user.gone \/ pc.key = 0 THEN s
           ELSE [s EXCEPT !.refused = @ \cup {pc.key}]

receive_claimed_material ==
    /\ pc.at = "claimed"
    /\ \/ /\ user.term = "sent"
          /\ pc' = [pc EXCEPT !.at = "validating"]
          /\ UNCHANGED <<codes, user, host>>
       \/ /\ user.term = "asked" /\ "terminal" \in user.gone
          /\ FailSubmit
    /\ UNCHANGED <<row, files, attempts, workers, clients, seen>>

\* validate_once: the one-shot validator asks the provider.
validate_once ==
    /\ pc.at = "validating"
    /\ pc' = [pc EXCEPT !.at = "valid"]
    /\ UNCHANGED <<row, codes, files, attempts, workers, clients, host, user, seen>>

\* validate_material: its verdict, read in full.
validate_material ==
    /\ pc.at = "valid"
    /\ pc' = [pc EXCEPT !.at = "rotating"]
    /\ UNCHANGED <<row, codes, files, attempts, workers, clients, host, user, seen>>

\* The validator refuses its frame, peer or destination, the provider rejects
\* the key, or no verdict comes in time.
validationRefused ==
    /\ pc.at \in {"validating", "valid"} /\ Spend
    /\ FailSubmit
    /\ seen' = Mishap(seen)
    /\ UNCHANGED <<row, files, attempts, workers, clients>>

Busy == Foreign(codes[pc.code].owner)
        \/ row.phase \in {"committing", "revoking", "unavailable"}

\* rotate_material up to the end of encrypt_host_material: the slot's file is
\* replaced before the database knows.
encrypt_host_material ==
    /\ pc.at = "rotating" /\ ~Busy /\ seen.made < MaxKeys
    /\ LET k == seen.made + 1
       IN  /\ files' = [files EXCEPT ![nextSlot] = k]
           /\ pc' = [pc EXCEPT !.at = "encrypted", !.key = k, !.slot = nextSlot]
           /\ seen' = [seen EXCEPT !.made = k]
    /\ UNCHANGED <<row, codes, attempts, workers, clients, host, user>>

\* Busy, or the child failed or timed out and its file was removed.
encryptionRefused ==
    /\ pc.at = "rotating" /\ (Busy \/ Spend)
    /\ FailSubmit
    /\ seen' = IF Busy THEN seen ELSE Mishap(seen)
    /\ UNCHANGED <<row, files, attempts, workers, clients>>

beginCommit ==
    /\ pc.at = "encrypted"
    /\ row' = [row EXCEPT !.phase = "committing", !.owner = codes[pc.code].owner,
                          !.hash[pc.slot] = pc.key, !.pslot = pc.slot,
                          !.phash = pc.key, !.prev = row.rev + 1]
    /\ pc' = [pc EXCEPT !.at = "committing"]
    /\ host' = [host EXCEPT !.home = TRUE]
    /\ UNCHANGED <<codes, files, attempts, workers, clients, user, seen>>

publish_active ==
    /\ pc.at = "committing" /\ Attested(pc.slot, pc.key)
    /\ files' = Published(pc.slot)
    /\ pc' = [pc EXCEPT !.at = "published"]
    /\ UNCHANGED <<row, codes, attempts, workers, clients, host, user, seen>>

\* The link, the rename, the sync or the second look fails.
publishFails ==
    /\ pc.at = "committing" /\ Spend
    /\ \/ UNCHANGED files
       \/ files' = Published(pc.slot)
    /\ FailSubmit
    /\ seen' = Mishap(Told(seen))
    /\ UNCHANGED <<row, attempts, workers, clients>>

commitReady ==
    /\ pc.at = "published"
    /\ row.phase = "committing" /\ row.pslot = pc.slot /\ row.phash = pc.key
    /\ row' = Committed
    /\ codes' = [codes EXCEPT ![pc.code].phase = "terminal"]
    /\ pc' = [pc EXCEPT !.at = "enrolled"]
    /\ seen' = Learnt(seen, Committed)
    /\ UNCHANGED <<files, attempts, workers, clients, host, user>>

answerSubmit ==
    /\ pc.at = "enrolled"
    /\ Answered(TermDone)
    /\ UNCHANGED <<row, codes, files, attempts, workers, clients, seen>>

-----------------------------------------------------------------------------
(* Revocation                                                               *)

\* revoke_binding up to its first transaction
revoke_binding ==
    /\ pc.at = "idle" /\ user.tg = "revoke"
    /\ IF row.phase = "unconfigured"
       THEN Answered(TgDone) /\ UNCHANGED <<row, attempts>>
       ELSE IF Foreign(user.by) \/ row.phase # "ready"
       THEN Refused(TgDone) /\ UNCHANGED <<row, attempts>>
       ELSE /\ row' = [row EXCEPT !.phase = "revoking"]
            /\ attempts' = [r \in Requests |->
                   IF attempts[r].phase = "prepared"
                   THEN [attempts[r] EXCEPT !.phase = "terminal"] ELSE attempts[r]]
            /\ pc' = [Idle EXCEPT !.at = "deleting"]
            /\ UNCHANGED <<user, host>>
    /\ UNCHANGED <<codes, files, workers, clients, seen>>

\* _delete_provider_files, one file at a time
delete_provider_files ==
    /\ pc.at = "deleting"
    /\ \E i \in 1..3 :
        /\ files[unlinkOrder[i]] # 0
        /\ \A j \in 1..(i - 1) : files[unlinkOrder[j]] = 0
        /\ files' = [files EXCEPT ![unlinkOrder[i]] = 0]
        /\ seen' = [seen EXCEPT !.revoked = @ \cup {files[unlinkOrder[i]]}]
    /\ UNCHANGED <<row, codes, attempts, pc, workers, clients, host, user>>

finishRevoke ==
    /\ pc.at = "deleting" /\ files = NoFiles
    /\ row' = Unconfigured
    /\ pc' = [Idle EXCEPT !.at = "revoked"]
    /\ UNCHANGED <<codes, files, attempts, workers, clients, host, user, seen>>

answerRevoke ==
    /\ pc.at = "revoked"
    /\ Answered(TgDone)
    /\ UNCHANGED <<row, codes, files, attempts, workers, clients, seen>>

\* A file could not be removed or the directory not synced.
revokeFails ==
    /\ pc.at = "deleting" /\ Spend
    /\ row' = Unavailable
    /\ Refused(TgDone)
    /\ seen' = Mishap(seen)
    /\ UNCHANGED <<codes, files, attempts, workers, clients>>

-----------------------------------------------------------------------------
(* A provider call                                                          *)

\* The agent's process starts and composes its provider only if the ready
\* file names it.
composeProvider ==
    /\ \A r \in Requests : clients[r].at # "waiting"
    /\ host.adapter # host.ready
    /\ host' = [host EXCEPT !.adapter = host.ready]
    /\ UNCHANGED <<row, codes, files, attempts, pc, workers, clients, user, seen>>

\* makeProviderBrokerFetch: the request is written as soon as the broker's
\* socket accepts it; with no broker the call fails untouched.
fetch(r) ==
    /\ host.adapter /\ clients[r].at = "none"
    /\ clients' = [clients EXCEPT
                      ![r].at = IF pc.at = "down" THEN "untouched" ELSE "waiting",
                      ![r].open = pc.at # "down"]
    /\ UNCHANGED <<row, codes, files, attempts, pc, workers, host, user, seen>>

\* The fetch reads the frame that announces the attempt.
readAttempted(r) ==
    /\ clients[r].at = "waiting" /\ clients[r].frame /\ ~clients[r].saw
    /\ clients' = [clients EXCEPT ![r].saw = TRUE]
    /\ UNCHANGED <<row, codes, files, attempts, pc, workers, host, user, seen>>

\* Its timer or its caller ends it: it reports what it has read.
abort(r) ==
    /\ clients[r].at = "waiting" /\ Spend
    /\ clients' = [clients EXCEPT ![r] = Fails(clients[r], clients[r].saw)]
    /\ seen' = Mishap(seen)
    /\ UNCHANGED <<row, codes, files, attempts, pc, workers, host, user>>

\* Requests the broker has not taken yet. Those of a client that left are
\* still in its socket.
Queued(r) == attempts[r].phase = "none" /\ clients[r].at \in {"waiting", "untouched"}
             /\ clients[r].open

\* Closed by the broker with an error frame; a client that left misses it.
ErrorFrame(r, attempted) ==
    [clients EXCEPT ![r] =
        IF clients[r].at = "waiting"
        THEN [Fails(clients[r], attempted) EXCEPT !.open = FALSE]
        ELSE [clients[r] EXCEPT !.open = FALSE]]

\* _receive_client_request: the client left before its request was complete.
receive_client_request(r) ==
    /\ pc.at = "idle" /\ Queued(r) /\ clients[r].at # "waiting"
    /\ clients' = ErrorFrame(r, FALSE)
    /\ UNCHANGED <<row, codes, files, attempts, pc, workers, host, user, seen>>

\* The provider must be ready now.
authorize(r) ==
    /\ pc.at = "idle" /\ Queued(r)
    /\ host' = [host EXCEPT !.ready = ReadyNow]
    /\ IF Dispatchable
       THEN /\ attempts' = [attempts EXCEPT ![r] =
                               [phase |-> "prepared", rev |-> row.rev]]
            /\ pc' = [Idle EXCEPT !.at = "prepared", !.req = r]
            /\ clients' = [clients EXCEPT ![r].open = FALSE]
       ELSE /\ clients' = ErrorFrame(r, FALSE)
            /\ UNCHANGED <<attempts, pc>>
    /\ UNCHANGED <<row, codes, files, workers, user, seen>>

\* _connect_worker: systemd starts the worker, which loads the published
\* ciphertext, and gets the request.
connect_worker(r) ==
    /\ pc.at = "prepared" /\ pc.req = r
    /\ workers' = [workers EXCEPT ![r] = [at |-> "loaded", key |-> files["active"]]]
    /\ pc' = [pc EXCEPT !.at = "relaying"]
    /\ UNCHANGED <<row, codes, files, attempts, clients, host, user, seen>>

\* A failure before the attempt ends as terminal, after it as ambiguous.
Settled(r) ==
    [attempts EXCEPT ![r].phase = IF @ = "prepared" THEN "terminal" ELSE "ambiguous"]

\* The socket refuses: an OS error, no frame for the client, the channel ends.
connectFails(r) ==
    /\ pc.at = "prepared" /\ pc.req = r /\ Spend
    /\ attempts' = Settled(r)
    /\ clients' = ErrorFrame(r, FALSE)
    /\ pc' = Idle
    /\ seen' = Mishap(seen)
    /\ UNCHANGED <<row, codes, files, workers, host, user>>

\* proxy_once up to _attempt_handshake: the destination is resolved, then the
\* worker asks before the first byte.
askToAttempt(r) ==
    /\ workers[r].at = "loaded"
    /\ workers' = [workers EXCEPT ![r].at = "asking"]
    /\ UNCHANGED <<row, codes, files, attempts, pc, clients, host, user, seen>>

\* The worker refuses its request, its key or the destination, or dies.
workerRefuses(r) ==
    /\ workers[r].at \in Unacked /\ Spend
    /\ workers' = [workers EXCEPT ![r].at = "gone"]
    /\ seen' = Mishap(seen)
    /\ UNCHANGED <<row, codes, files, attempts, pc, clients, host, user>>

\* handle_connection: the attempt is durable before anybody is told.
markAttempted(r) ==
    /\ pc.at = "relaying" /\ pc.req = r /\ workers[r].at = "asking"
    /\ attempts' = [attempts EXCEPT ![r].phase = "attempted"]
    /\ pc' = [pc EXCEPT !.at = "telling"]
    /\ UNCHANGED <<row, codes, files, workers, clients, host, user, seen>>

\* The client is told before the worker. Writing to a client that left fails.
tellClient(r) ==
    /\ pc.at = "telling" /\ pc.req = r
    /\ IF clients[r].at = "waiting"
       THEN /\ clients' = [clients EXCEPT ![r].frame = TRUE]
            /\ pc' = [pc EXCEPT !.at = "acking"]
            /\ UNCHANGED <<attempts, workers>>
       ELSE /\ attempts' = Settled(r)
            /\ workers' = Dropped(workers, {r})
            /\ pc' = Idle
            /\ UNCHANGED clients
    /\ UNCHANGED <<row, codes, files, host, user, seen>>

ackWorker(r) ==
    /\ pc.at = "acking" /\ pc.req = r /\ workers[r].at = "asking"
    /\ workers' = [workers EXCEPT ![r].at = "acked"]
    /\ pc' = [pc EXCEPT !.at = "streaming"]
    /\ UNCHANGED <<row, codes, files, attempts, clients, host, user, seen>>

\* The first upstream byte.
upload(r) ==
    /\ workers[r].at = "acked"
    /\ workers' = [workers EXCEPT ![r].at = "sent"]
    /\ seen' = [seen EXCEPT !.uploads[r] = @ + 1]
    /\ UNCHANGED <<row, codes, files, attempts, pc, clients, host, user>>

\* _stream_response: the provider's answer is complete, or the transport, the
\* deadline or a bound ends it.
respond(r) ==
    /\ workers[r].at = "sent"
    /\ workers' = [workers EXCEPT ![r].at = "answered"]
    /\ UNCHANGED <<row, codes, files, attempts, pc, clients, host, user, seen>>

transportRefused(r) ==
    /\ workers[r].at \in {"acked", "sent"} /\ Spend
    /\ workers' = [workers EXCEPT ![r].at = "gone"]
    /\ seen' = Mishap(seen)
    /\ UNCHANGED <<row, codes, files, attempts, pc, clients, host, user>>

\* The answer is relayed and the attempt ends; a client that left makes it
\* ambiguous.
relay(r) ==
    /\ pc.at = "streaming" /\ pc.req = r /\ workers[r].at = "answered"
    /\ IF clients[r].at = "waiting"
       THEN /\ clients' = [clients EXCEPT ![r].at = "ok"]
            /\ attempts' = [attempts EXCEPT ![r].phase = "terminal"]
       ELSE /\ attempts' = Settled(r)
            /\ UNCHANGED clients
    /\ pc' = Idle
    /\ UNCHANGED <<row, codes, files, workers, host, user, seen>>

\* A chunk could not be written to a client that left, while the worker is
\* still at it: the broker turns away and the worker goes on alone.
turnAway(r) ==
    /\ pc.at = "streaming" /\ pc.req = r /\ clients[r].at # "waiting"
    /\ workers[r].at = "sent"
    /\ attempts' = Settled(r)
    /\ pc' = Idle
    /\ UNCHANGED <<row, codes, files, workers, clients, host, user, seen>>

\* _worker_failure, or the end of the worker's stream.
worker_failure(r) ==
    /\ pc.at \in {"relaying", "acking", "streaming"} /\ pc.req = r
    /\ workers[r].at = "gone"
    /\ attempts' = Settled(r)
    /\ clients' = ErrorFrame(r, attempts[r].phase = "attempted")
    /\ pc' = Idle
    /\ UNCHANGED <<row, codes, files, workers, host, user, seen>>

-----------------------------------------------------------------------------
Init ==
    /\ \E k \in First, o \in Owners :
        /\ row = [phase |-> IF k = 0 THEN "unconfigured" ELSE "ready",
                  owner |-> IF k = 0 THEN NoOwner ELSE o, rev |-> k,
                  active |-> IF k = 0 THEN "none" ELSE "a",
                  hash |-> [s \in Slots |-> IF s = "a" THEN k ELSE 0],
                  pslot |-> "none", phash |-> 0, prev |-> 0]
        /\ files = [f \in {"active"} \cup Slots |-> IF f = "b" THEN 0 ELSE k]
        /\ host = [ready |-> k # 0, home |-> TRUE, adapter |-> k # 0]
        /\ seen = [uploads |-> [r \in Requests |-> 0],
                   claims |-> [c \in Codes |-> 0], made |-> k,
                   keyOf |-> [v \in Revisions |-> IF v = k /\ k # 0 THEN {k} ELSE {}],
                   revoked |-> {}, refused |-> {}, mishaps |-> 0]
    /\ codes = [c \in Codes |-> [phase |-> "none", owner |-> NoOwner]]
    /\ attempts = [r \in Requests |-> [phase |-> "none", rev |-> 0]]
    /\ pc = Idle
    /\ workers = [r \in Requests |-> [at |-> "none", key |-> 0]]
    /\ clients = [r \in Requests |->
                    [at |-> "none", frame |-> FALSE, saw |-> FALSE, open |-> TRUE]]
    /\ user = [tg |-> "none", by |-> CHOOSE o \in Owners : TRUE, term |-> "none",
               code |-> 0, gone |-> {}, card |-> FALSE, cards |-> 0, shown |-> {}]

Process == crash \/ stop \/ start \/ reconcileCommitting \/ reconcileRevoking
           \/ reconcileSettled \/ reinstall \/ refresh_ready

Operator ==
    \/ \E o \in Owners : connectProvider(o) \/ askRevoke(o)
    \/ tapRevoke \/ sendMaterial
    \/ \E c \in Codes : setMaterial(c)
    \/ \E d \in {"telegram", "terminal"} : clientLeaves(d)

Enrolment ==
    \/ begin_challenge \/ claim_challenge \/ receive_claimed_material
    \/ validate_once \/ validate_material \/ validationRefused \/ encrypt_host_material
    \/ encryptionRefused \/ beginCommit \/ publish_active \/ publishFails
    \/ commitReady \/ answerSubmit

Revocation == revoke_binding \/ delete_provider_files \/ finishRevoke
              \/ answerRevoke \/ revokeFails

Call(r) ==
    \/ fetch(r) \/ readAttempted(r) \/ abort(r) \/ receive_client_request(r)
    \/ authorize(r)
    \/ connect_worker(r) \/ connectFails(r) \/ askToAttempt(r)
    \/ workerRefuses(r) \/ markAttempted(r) \/ tellClient(r) \/ ackWorker(r)
    \/ upload(r) \/ respond(r) \/ transportRefused(r) \/ relay(r)
    \/ turnAway(r) \/ worker_failure(r)

Next ==
    \/ Process \/ Operator \/ Enrolment \/ Revocation \/ composeProvider
    \/ \E r \in Requests : Call(r)

Spec == Init /\ [][Next]_vars

-----------------------------------------------------------------------------
TypeOK ==
    /\ row \in LifecycleRow
    /\ codes \in [Codes -> ChallengeRow]
    /\ files \in [{"active"} \cup Slots -> Keys]
    /\ attempts \in [Requests -> AttemptRow]
    /\ workers \in [Requests ->
          [at : {"none", "loaded", "asking", "acked", "sent", "answered", "gone"},
           key : Keys]]
    /\ clients \in [Requests ->
          [at : {"none", "waiting", "ok", "attempted", "untouched"},
           frame : BOOLEAN, saw : BOOLEAN, open : BOOLEAN]]

\* A byte reaches the provider at most once per request, never before the
\* attempt is durable and the client's socket holds the frame that says so,
\* and an attempt closed as terminal after it was answered in full.
UploadIsAccounted ==
    \A r \in Requests :
        /\ seen.uploads[r] <= 1
        /\ seen.uploads[r] = 1 =>
              /\ attempts[r].phase \in {"attempted", "ambiguous", "terminal"}
              /\ clients[r].frame
              /\ attempts[r].phase = "terminal" => clients[r].at = "ok"

\* A revision number never stands for two keys, and a worker holds the key of
\* the revision its attempt was journalled under, whatever was rotated,
\* refused or revoked since.
RevisionIsOneKey ==
    /\ \A v \in Revisions : Cardinality(seen.keyOf[v]) <= 1
    /\ \A r \in Requests :
          workers[r].at # "none" => workers[r].key \in seen.keyOf[attempts[r].rev]

\* The slot in use is never written: while a row is ready, and all through a
\* rotation wherever it is cut, its file carries the row's hash; the published
\* file is the one in use or, during a rotation, the pending one.
SlotInUseIsWhole ==
    row.phase \in {"ready", "committing"} =>
        /\ row.active \in Slots => files[row.active] = row.hash[row.active]
        /\ row.phase = "ready" => files["active"] = row.hash[row.active]
        /\ row.phase = "committing" =>
              /\ files[row.pslot] = row.phash /\ row.pslot # row.active
              /\ files["active"] \in {0, row.phash} \/ files["active"] = row.hash[row.active]

\* Once a revocation is complete no file holds a revoked key, and no later
\* enrolment, restart or rotation brings one back.
RevokedIsGone ==
    row.phase \notin {"revoking", "unavailable"} =>
        seen.revoked \cap {files[f] : f \in DOMAIN files} = {}

\* Between two connections what /provider shows as ready is what a call would
\* be granted, although only the call looks at the files.
ShownIsUsable == pc.at = "idle" /\ inspect_binding = "ready" => Dispatchable

\* A code is claimed once.
OneClaim == \A c \in Codes : seen.claims[c] <= 1

\* What the broker keeps through crashes, refusals and clients that leave.
BrokerIsSound ==
    TypeOK /\ UploadIsAccounted /\ RevisionIsOneKey /\ SlotInUseIsWhole
    /\ RevokedIsGone /\ ShownIsUsable /\ OneClaim

\* "failed/ambiguous stage does not change the active revision": a key the
\* terminal was told was refused never becomes the active one.
RefusedKeyStaysOut ==
    row.phase = "ready" => row.hash[row.active] \notin seen.refused

\* "Revoke closes the epoch, drains workers": when a revocation is answered no
\* worker is still at the provider with a revoked key.
RevokeDrains ==
    pc.at = "revoked" =>
        \A r \in Requests :
            workers[r].at \in {"acked", "sent"} => workers[r].key \notin seen.revoked

\* A call the agent reports as not attempted sent nothing.
UntouchedMeansUnsent ==
    \A r \in Requests : clients[r].at = "untouched" => seen.uploads[r] = 0
=============================================================================
