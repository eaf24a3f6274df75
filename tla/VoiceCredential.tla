-------------------------- MODULE VoiceCredential --------------------------
(***************************************************************************)
(* The root-owned broker of the voice credential: its SQLite row and       *)
(* permits (voice_credential_broker.py), the ciphertext files and the      *)
(* activation, recovery and revocation over both                           *)
(* (voice_credential_backend.py), the single-threaded service that runs    *)
(* them (voice_proxy_service.py), the one-shot workers it starts           *)
(* (voice_transcription_worker.py) and the operator's two doors, Telegram  *)
(* and the local terminal.                                                 *)
(*                                                                         *)
(* The service handles one packet at a time, so two requests never         *)
(* interleave; what does interleave is the death of the process, which may *)
(* come between any two transactions or file operations, the worker, which *)
(* is a process of its own and survives the broker, and time.              *)
(***************************************************************************)
EXTENDS Naturals, FiniteSets

CONSTANTS
    Permits,        \* dispatch permits that may be minted
    MaxCodes,       \* bound on enrolment challenges
    MaxKeys,        \* bound on ciphertexts ever made; ciphertexts are 1..MaxKeys
    MaxMishaps,     \* bound on crashes, refusals and expiries
    MaxRevokes,     \* bound on the operator's revocations
    First           \* ciphertexts active at the start: 0 for none, 1 for one

VARIABLES
    db,         \* the row of credential_binding
    permits,    \* the rows of dispatch_permit
    files,      \* the ciphertexts on disk
    mem,        \* what only the broker's memory holds
    pc,         \* where the broker's thread stands
    workers,    \* the one-shot worker of each permit
    host,       \* worker socket, the parent's private session, the late ones
    user,       \* the operator's side: codes shown, the card, open requests
    seen        \* history: claims per code, uploads per permit, cut, revoked

vars == <<db, permits, files, mem, pc, workers, host, user, seen>>

Codes == 1..MaxCodes
Keys == 0..MaxKeys              \* 0: no ciphertext
Revisions == 0..(MaxKeys + 1)   \* 0: none

Open == {"prepared", "claimed", "attempted"}
Usable == {"active", "validating"}

\* credential_binding: state, active revision and its ciphertext, the target
\* of an activation, and the one challenge of the binding.
BindingRow ==
    [state : {"unconfigured", "validating", "committing", "active",
              "revoking", "revoked"},
     rev : Revisions, hash : Keys, trev : Revisions, thash : Keys,
     code : 0..MaxCodes, challenge : {"none", "active", "claimed", "expired"}]

\* dispatch_permit
PermitRow ==
    [state : {"none", "terminal-none", "terminal-attempted"} \cup Open,
     rev : Revisions]

\* The active ciphertext, the stage of a revision and the retired copy of one.
Files ==
    [active : Keys, stage : [Revisions -> Keys], backup : [Revisions -> Keys],
     made : Keys]

Steps ==
    {"down", "idle", "begun", "claimed", "validating", "encrypting", "staged",
     "committing", "backed-up", "renamed", "published",
     "fencing", "fenced", "removing", "removed", "revoked", "confirmed",
     "connecting", "marking", "waiting"}

Idle == [at |-> "idle", permit |-> "none", rev |-> 0, hash |-> 0, again |-> FALSE]
Down == [Idle EXCEPT !.at = "down"]

Spend(n) == seen.mishaps + n <= MaxMishaps

-----------------------------------------------------------------------------
(* Permits of the database                                                  *)

OpenPermits(ps) == {p \in Permits : ps[p].state \in Open}

Settle(ps, S, to) ==
    [p \in Permits |-> IF p \in S THEN [ps[p] EXCEPT !.state = to] ELSE ps[p]]

\* A new process closes what the previous one left open: what was only
\* prepared was never used, the rest may have been.
reconcile_restart ==
    LET prepared == {p \in Permits : permits[p].state = "prepared"}
        begun == {p \in Permits : permits[p].state \in {"claimed", "attempted"}}
    IN  Settle(Settle(permits, prepared, "terminal-none"), begun, "terminal-attempted")

\* The transitions a permit may take when asked.
Allowed == {<<"prepared", "claimed">>, <<"prepared", "terminal-none">>,
            <<"claimed", "attempted">>, <<"attempted", "terminal-attempted">>}

\* transition_permit: whether the request is granted, and the rows after it.
\* An overdue prepared permit is closed and the request refused.
Overdue(ps, p) == ps[p].state = "prepared" /\ p \in host.late

Granted(ps, p, to) == ~Overdue(ps, p) /\ <<ps[p].state, to>> \in Allowed

transition_permit(ps, p, to) ==
    IF Overdue(ps, p) THEN Settle(ps, {p}, "terminal-none")
    ELSE IF Granted(ps, p, to) THEN Settle(ps, {p}, to)
    ELSE ps

\* active_credential: the one usable binding.
Available == db.state \in Usable /\ db.rev > 0

-----------------------------------------------------------------------------
(* The process                                                              *)

Clients == {"telegram", "terminal"}
NoAsk == [c \in Clients |-> "none"]

\* Everything only memory holds is gone, and with it the private session and
\* the connections of the clients. Workers are units of their own and stay.
Die ==
    /\ pc' = Down
    /\ mem' = [ticket |-> FALSE, permits |-> {}]
    /\ host' = [host EXCEPT !.session = IF @ = "held" THEN "lost" ELSE @]
    /\ user' = [user EXCEPT !.ask = NoAsk, !.gone = {}]

\* control_connection: the request is answered. Nobody is there to take the
\* good answer of a client that gave up: writing it ends the process, while a
\* refusal that cannot be written is dropped.
Answered(c) == [user EXCEPT !.ask[c] = "none", !.gone = @ \ {c}]

Answer(c) ==
    IF c \in user.gone THEN Die
    ELSE pc' = Idle /\ user' = Answered(c) /\ UNCHANGED <<mem, host>>

RefuseClient(c) == pc' = Idle /\ user' = Answered(c) /\ UNCHANGED <<mem, host>>

\* The tables an existing database must have, checked whenever it is opened.
WellFormed == db \in BindingRow /\ permits \in [Permits -> PermitRow]

\* BrokerService.__init__ and the first drain of serve: the database is opened
\* and checked, open permits are settled, pending events delivered.
start ==
    /\ pc.at = "down" /\ WellFormed
    /\ permits' = reconcile_restart
    /\ pc' = Idle
    /\ UNCHANGED <<db, files, mem, workers, host, user, seen>>

\* The process is killed between two of its steps. An activation that had
\* reached the database's committing state is cut.
crash ==
    /\ pc.at # "down" /\ Spend(1)
    /\ Die
    /\ seen' = [seen EXCEPT !.mishaps = @ + 1,
                            !.cut = @ \/ db.state = "committing"]
    /\ UNCHANGED <<db, permits, files, workers>>

\* cancel_activation: every permit held in memory is closed as unused. One
\* that no longer can be (overdue, or closed by a revocation) stops the service.
CancelAll(ps, S) ==
    [p \in Permits |-> IF p \in S THEN transition_permit(ps, p, "terminal-none")[p]
                       ELSE ps[p]]
CancelRefused(ps, S) == \E p \in S : ~Granted(ps, p, "terminal-none")

\* The private session ends, because the parent is gone or a packet was refused.
EndSession(ps, S, to) ==
    /\ permits' = CancelAll(ps, S)
    /\ mem' = [ticket |-> FALSE, permits |-> {}]
    /\ host' = [host EXCEPT !.session = to]
    /\ IF CancelRefused(ps, S)
         THEN pc' = Down /\ user' = [user EXCEPT !.ask = NoAsk, !.gone = {}]
         ELSE pc' = Idle /\ UNCHANGED user

\* The parent is the one process of its unit, and no session is open.
grant_private_session == host.session = "unopened"

\* bootstrap_connection: the parent opens its private session once per life.
bootstrap_connection ==
    /\ pc.at = "idle" /\ grant_private_session
    /\ host' = [host EXCEPT !.session = "held"]
    /\ UNCHANGED <<db, permits, files, mem, pc, workers, user, seen>>

\* The parent ends and is started again by its service manager.
parentRestarts ==
    /\ host.session = "lost" \/ (host.session = "held" /\ pc.at = "idle")
    /\ Spend(1)
    /\ seen' = [seen EXCEPT !.mishaps = @ + 1]
    /\ IF host.session = "held"
         THEN EndSession(permits, mem.permits, "unopened")
         ELSE /\ host' = [host EXCEPT !.session = "unopened"]
              /\ UNCHANGED <<permits, mem, pc, user>>
    /\ UNCHANGED <<db, files, workers>>

-----------------------------------------------------------------------------
(* The operator's doors                                                     *)

Reachable == pc.at # "down"

\* /voice connect: the bot asks the broker for a code.
voiceConnect ==
    /\ Reachable /\ user.ask["telegram"] = "none" /\ user.codes < MaxCodes
    /\ user' = [user EXCEPT !.ask["telegram"] = "begin"]
    /\ UNCHANGED <<db, permits, files, mem, pc, workers, host, seen>>

\* /voice revoke: a card replaces the previous one.
voiceRevoke ==
    /\ ~user.card /\ user.revokes < MaxRevokes
    /\ user' = [user EXCEPT !.card = TRUE, !.revokes = @ + 1]
    /\ UNCHANGED <<db, permits, files, mem, pc, workers, host, seen>>

\* The tap on the card: it is spent first, then the broker is asked.
voiceRevokeTap ==
    /\ user.card /\ user.ask["telegram"] = "none"
    /\ user' = [user EXCEPT !.card = FALSE,
                            !.ask["telegram"] = IF Reachable THEN "revoke" ELSE "none"]
    /\ UNCHANGED <<db, permits, files, mem, pc, workers, host, seen>>

\* aisy voice credential set: the key is read from the terminal and sent with
\* any code that was ever shown.
runVoiceCredentialSetCommand(c) ==
    /\ Reachable /\ user.ask["terminal"] = "none" /\ c \in 1..user.codes
    /\ user' = [user EXCEPT !.ask["terminal"] = "submit", !.code = c]
    /\ UNCHANGED <<db, permits, files, mem, pc, workers, host, seen>>

\* exchange: a client gives up after its timeout. What it sent stays in the
\* socket and is served all the same.
exchangeTimeout(c) ==
    /\ user.ask[c] # "none" /\ c \notin user.gone /\ Spend(1)
    /\ user' = [user EXCEPT !.gone = @ \cup {c}]
    /\ seen' = [seen EXCEPT !.mishaps = @ + 1]
    /\ UNCHANGED <<db, permits, files, mem, pc, workers, host>>

-----------------------------------------------------------------------------
(* Enrolment and activation                                                 *)

\* begin_enrollment: a new code takes the place of the previous one. The
\* credential itself is untouched.
begin_enrollment ==
    /\ pc.at = "idle" /\ user.ask["telegram"] = "begin"
    /\ db' = [db EXCEPT !.code = user.codes + 1, !.challenge = "active"]
    /\ host' = [host EXCEPT !.lateCode = FALSE]
    /\ pc' = [Idle EXCEPT !.at = "begun"]
    /\ UNCHANGED <<permits, files, mem, workers, user, seen>>

\* The code is shown, unless the bot gave up waiting for it.
showCode ==
    /\ pc.at = "begun"
    /\ IF "telegram" \in user.gone THEN Die
       ELSE /\ pc' = Idle
            /\ user' = [Answered("telegram") EXCEPT !.codes = @ + 1]
            /\ UNCHANGED <<mem, host>>
    /\ UNCHANGED <<db, permits, files, workers, seen>>

\* claim_enrollment_code: a code that is not the current active challenge is
\* refused, an overdue one expires.
claim_enrollment_code ==
    LET c == user.code
        current == db.code = c /\ db.challenge = "active"
    IN
    /\ pc.at = "idle" /\ user.ask["terminal"] = "submit"
    /\ IF ~current THEN RefuseClient("terminal") /\ UNCHANGED <<db, seen>>
       ELSE IF host.lateCode
         THEN /\ db' = [db EXCEPT !.challenge = "expired"]
              /\ RefuseClient("terminal")
              /\ UNCHANGED seen
         ELSE /\ db' = [db EXCEPT !.challenge = "claimed"]
              /\ pc' = [Idle EXCEPT !.at = "claimed"]
              /\ seen' = [seen EXCEPT !.claims[c] = @ + 1]
              /\ UNCHANGED <<mem, host, user>>
    /\ UNCHANGED <<permits, files, workers>>

\* begin_validation: the state of the credential is not asked; the target is
\* the next revision, and the activation remembers what is active now.
begin_validation ==
    /\ pc.at = "claimed"
    /\ db' = [db EXCEPT !.state = "validating", !.trev = db.rev + 1, !.thash = 0]
    /\ pc' = [pc EXCEPT !.at = "validating", !.rev = db.rev, !.hash = db.hash]
    /\ UNCHANGED <<permits, files, mem, workers, host, user, seen>>

\* abort_validation: the previous credential is active again.
Aborted ==
    [db EXCEPT !.state = IF db.rev > 0 THEN "active" ELSE "unconfigured",
               !.trev = 0, !.thash = 0, !.code = 0, !.challenge = "none"]

\* The vendor accepts the key, or refuses it: then the validation is aborted
\* and the failure, which the service does not catch, ends the process.
validate_deepgram_credential ==
    /\ pc.at = "validating"
    /\ \/ /\ pc' = [pc EXCEPT !.at = "encrypting"]
          /\ UNCHANGED <<db, mem, host, user, seen>>
       \/ /\ Spend(1)
          /\ db' = Aborted /\ Die
          /\ seen' = [seen EXCEPT !.mishaps = @ + 1]
    /\ UNCHANGED <<permits, files, workers>>

\* encrypt: the ciphertext is written to a new stage file. A stage left by an
\* earlier attempt is removed and refuses this one.
encrypt ==
    /\ pc.at = "encrypting"
    /\ IF files.stage[db.trev] # 0
         THEN /\ files' = [files EXCEPT !.stage[db.trev] = 0]
              /\ db' = Aborted /\ Die
         ELSE /\ files.made < MaxKeys
              /\ files' = [files EXCEPT !.made = @ + 1,
                                        !.stage[db.trev] = files.made + 1]
              /\ pc' = [pc EXCEPT !.at = "staged"]
              /\ UNCHANGED <<db, mem, host, user>>
    /\ UNCHANGED <<permits, workers, seen>>

\* The encryption helper cannot be attested, fails, or has to be killed: the
\* stage is removed and the validation aborted.
encryptFails ==
    /\ pc.at = "encrypting" /\ Spend(1)
    /\ files' = [files EXCEPT !.stage[db.trev] = 0]
    /\ db' = Aborted /\ Die
    /\ seen' = [seen EXCEPT !.mishaps = @ + 1]
    /\ UNCHANGED <<permits, workers>>

\* Mutant: the new revision is committed while permits of the old one are open.
mark_committingBusy ==
    /\ pc.at = "staged"
    /\ db' = [db EXCEPT !.state = "committing", !.thash = files.stage[db.trev]]
    /\ pc' = [pc EXCEPT !.at = "committing"]
    /\ UNCHANGED <<files, permits, mem, workers, host, user, seen>>

\* mark_committing: refused while a permit of the binding is open; then the
\* stage is discarded and the validation aborted.
mark_committing ==
    /\ pc.at = "staged"
    /\ IF OpenPermits(permits) # {}
         THEN /\ files' = [files EXCEPT !.stage[db.trev] = 0]
              /\ db' = Aborted /\ Die
         ELSE /\ db' = [db EXCEPT !.state = "committing",
                                  !.thash = files.stage[db.trev]]
              /\ pc' = [pc EXCEPT !.at = "committing"]
              /\ UNCHANGED <<files, mem, host, user>>
    /\ UNCHANGED <<permits, workers, seen>>

\* CiphertextStore.activate, first half: the active file must be the one the
\* activation saw; a retired copy of it is linked unless it exists already.
Verified ==
    pc.rev = 0 \/ (files.active = pc.hash /\ files.backup[pc.rev] \in {0, pc.hash})

backupActive ==
    /\ pc.at = "committing"
    /\ IF Verified
         THEN /\ files' = IF pc.rev = 0 THEN files
                          ELSE [files EXCEPT !.backup[pc.rev] = pc.hash]
              /\ pc' = [pc EXCEPT !.at = "backed-up"]
              /\ UNCHANGED <<mem, host, user, seen>>
         ELSE /\ Die
              /\ seen' = [seen EXCEPT !.cut = TRUE]
              /\ UNCHANGED files
    /\ UNCHANGED <<db, permits, workers>>

\* Second half: the stage replaces the active file.
replaceActive ==
    /\ pc.at = "backed-up"
    /\ files' = [files EXCEPT !.active = files.stage[db.trev], !.stage[db.trev] = 0]
    /\ pc' = [pc EXCEPT !.at = "renamed"]
    /\ UNCHANGED <<db, permits, mem, workers, host, user, seen>>

\* publish_credential
publish_credential ==
    /\ pc.at = "renamed"
    /\ db.state = "committing"
    /\ db' = [db EXCEPT !.state = "active", !.rev = db.trev, !.hash = db.thash,
                        !.trev = 0, !.thash = 0, !.code = 0, !.challenge = "none"]
    /\ pc' = [pc EXCEPT !.at = "published"]
    /\ UNCHANGED <<permits, files, mem, workers, host, user, seen>>

\* retire the previous ciphertext, deliver the events, answer the terminal.
retire ==
    /\ pc.at = "published"
    /\ files' = [files EXCEPT !.backup[pc.rev] = 0]
    /\ Answer("terminal")
    /\ seen' = [seen EXCEPT !.revoked = FALSE]
    /\ UNCHANGED <<db, permits, workers>>

-----------------------------------------------------------------------------
(* Revocation                                                               *)

\* revoke and begin_revoke: the tap on the confirmation card reaches the
\* broker. The state becomes revoking and permits not yet claimed are closed.
\* With nothing to revoke, or an active file that is not the recorded one, the
\* failure ends the process; any other state refuses.
revoke ==
    /\ pc.at = "idle" /\ user.ask["telegram"] = "revoke"
    /\ LET again == db.state = "revoking"
           broken == ~again /\ (db.hash = 0 \/ files.active # db.hash)
       IN  IF broken THEN Die /\ UNCHANGED <<db, permits, seen>>
           ELSE IF again \/ db.state = "active"
             THEN /\ db' = [db EXCEPT !.state = "revoking"]
                  /\ permits' = IF again THEN permits
                                ELSE Settle(permits,
                                            {p \in Permits : permits[p].state = "prepared"},
                                            "terminal-none")
                  /\ pc' = [Idle EXCEPT !.at = "fencing", !.rev = db.rev,
                                        !.hash = db.hash, !.again = again]
                  /\ seen' = [seen EXCEPT !.revoked = TRUE]
                  /\ UNCHANGED <<mem, host, user>>
             ELSE RefuseClient("telegram") /\ UNCHANGED <<db, permits, seen>>
    /\ UNCHANGED <<files, workers>>

\* systemd_worker_fence: the worker socket is stopped and no worker may be
\* alive. Otherwise the revocation stays pending and the process ends.
systemd_worker_fence ==
    /\ pc.at = "fencing"
    /\ \/ /\ \A p \in Permits : workers[p].at = "none"
          /\ pc' = [pc EXCEPT !.at = "fenced"]
          /\ host' = [host EXCEPT !.socket = FALSE]
          /\ UNCHANGED <<mem, user, seen>>
       \/ /\ \/ \E p \in Permits : workers[p].at # "none"
             \/ Spend(1)
          /\ pc' = Down
          /\ mem' = [ticket |-> FALSE, permits |-> {}]
          /\ host' = [host EXCEPT !.session = IF @ = "held" THEN "lost" ELSE @,
                                  !.socket = FALSE]
          /\ seen' = IF \E p \in Permits : workers[p].at # "none" THEN seen
                     ELSE [seen EXCEPT !.mishaps = @ + 1]
          /\ user' = [user EXCEPT !.ask = NoAsk, !.gone = {}]
    /\ UNCHANGED <<db, permits, files, workers>>

\* fence_revoke_permits: what was claimed may have been used.
fence_revoke_permits ==
    /\ pc.at = "fenced"
    /\ permits' = Settle(permits,
                         {p \in Permits : /\ permits[p].rev = pc.rev
                                          /\ permits[p].state \in {"claimed", "attempted"}},
                         "terminal-attempted")
    /\ pc' = [pc EXCEPT !.at = "removing"]
    /\ UNCHANGED <<db, files, mem, workers, host, user, seen>>

\* remove_active: a missing file is accepted only from a revocation resumed.
remove_active ==
    /\ pc.at = "removing"
    /\ IF files.active = pc.hash \/ (files.active = 0 /\ pc.again)
         THEN /\ files' = [files EXCEPT !.active = 0]
              /\ pc' = [pc EXCEPT !.at = "removed"]
              /\ UNCHANGED <<mem, host, user>>
         ELSE Die /\ UNCHANGED files
    /\ UNCHANGED <<db, permits, workers, seen>>

\* complete_revoke: revisions start again from zero.
complete_revoke ==
    /\ pc.at = "removed"
    /\ db' = [db EXCEPT !.state = "revoked", !.rev = 0, !.hash = 0, !.trev = 0,
                        !.thash = 0, !.code = 0, !.challenge = "none"]
    /\ pc' = [pc EXCEPT !.at = "revoked"]
    /\ UNCHANGED <<permits, files, mem, workers, host, user, seen>>

\* The worker socket is restored; if it cannot be, the caller is told that the
\* revocation is not confirmed although it is complete.
start_systemd_worker_socket ==
    /\ pc.at = "revoked"
    /\ \/ /\ pc' = [pc EXCEPT !.at = "confirmed"]
          /\ host' = [host EXCEPT !.socket = TRUE]
          /\ UNCHANGED <<mem, user, seen>>
       \/ /\ Spend(1)
          /\ RefuseClient("telegram")
          /\ seen' = [seen EXCEPT !.mishaps = @ + 1]
    /\ UNCHANGED <<db, permits, files, workers>>

confirmRevoked ==
    /\ pc.at = "confirmed"
    /\ Answer("telegram")
    /\ UNCHANGED <<db, permits, files, workers, seen>>

-----------------------------------------------------------------------------
(* Media, permits and dispatch over the private session                     *)

Served == pc.at = "idle" /\ host.session = "held"

\* stage-media
stage ==
    /\ Served /\ ~mem.ticket
    /\ \E p \in Permits : permits[p].state = "none"
    /\ mem' = [mem EXCEPT !.ticket = TRUE]
    /\ UNCHANGED <<db, permits, files, pc, workers, host, user, seen>>

\* cancel-media, or the ticket's two minutes are over.
prune_media ==
    /\ pc.at = "idle" /\ mem.ticket /\ Spend(1)
    /\ mem' = [mem EXCEPT !.ticket = FALSE]
    /\ seen' = [seen EXCEPT !.mishaps = @ + 1]
    /\ UNCHANGED <<db, permits, files, pc, workers, host, user>>

\* prepare: a permit for the active revision. Without a usable credential the
\* refusal ends the session.
prepare_permit(p) ==
    /\ Served /\ mem.ticket
    /\ permits[p].state = "none"
    /\ IF Available
         THEN /\ permits' = [permits EXCEPT ![p] = [state |-> "prepared", rev |-> db.rev]]
              /\ mem' = [ticket |-> FALSE, permits |-> mem.permits \cup {p}]
              /\ seen' = [seen EXCEPT !.afterRevoke = @ \/ seen.revoked]
              /\ UNCHANGED <<pc, host, user>>
         ELSE EndSession(permits, mem.permits, "lost") /\ UNCHANGED seen
    /\ UNCHANGED <<db, files, workers>>

\* cancel-prepared: a permit that can no longer be closed ends the session.
cancelPrepared(p) ==
    /\ Served /\ p \in mem.permits
    /\ IF Granted(permits, p, "terminal-none")
         THEN /\ permits' = transition_permit(permits, p, "terminal-none")
              /\ mem' = [mem EXCEPT !.permits = @ \ {p}]
              /\ UNCHANGED <<pc, host, user>>
         ELSE EndSession(transition_permit(permits, p, "terminal-none"),
                         mem.permits \ {p}, "lost")
    /\ UNCHANGED <<db, files, workers, seen>>

\* dispatch: the permit leaves memory and is claimed before anything else.
dispatch(p) ==
    /\ Served /\ p \in mem.permits
    /\ mem' = [mem EXCEPT !.permits = @ \ {p}]
    /\ permits' = transition_permit(permits, p, "claimed")
    /\ pc' = IF Granted(permits, p, "claimed")
             THEN [Idle EXCEPT !.at = "connecting", !.permit = p] ELSE pc
    /\ UNCHANGED <<db, files, workers, host, user, seen>>

\* The service's error path asks for terminal-attempted, whatever the state.
Refuse(p) ==
    /\ permits' = transition_permit(permits, p, "terminal-attempted")
    /\ pc' = Idle

\* The credential the service manager decrypts for a worker as it starts.
KeyLoaded == files.active # 0

\* The relay is connected: the service manager starts a worker with the
\* ciphertext that is active now. No socket or no file: the claim is refused.
relayConnect ==
    LET p == pc.permit
        up == host.socket /\ KeyLoaded /\ Available
    IN  /\ pc.at = "connecting"
        /\ \/ /\ up
              /\ workers' = [workers EXCEPT ![p] = [at |-> "started", key |-> files.active]]
              /\ pc' = [pc EXCEPT !.at = "marking"]
              /\ UNCHANGED <<permits, seen>>
           \/ /\ ~up \/ Spend(1)
              /\ Refuse(p)
              /\ seen' = IF up THEN [seen EXCEPT !.mishaps = @ + 1] ELSE seen
              /\ UNCHANGED workers
        /\ UNCHANGED <<db, files, mem, host, user>>

\* The worker refuses its claim, its policy or its audio before the mark: it
\* sends a result where the broker expects the mark.
workerRefuses ==
    /\ pc.at = "marking" /\ Spend(1)
    /\ Refuse(pc.permit)
    /\ workers' = [workers EXCEPT ![pc.permit].at = "none"]
    /\ seen' = [seen EXCEPT !.mishaps = @ + 1]
    /\ UNCHANGED <<db, files, mem, host, user>>

\* mark-attempted: the worker asks before its first byte and is answered after
\* the commit.
mark_attempted ==
    /\ pc.at = "marking"
    /\ permits' = transition_permit(permits, pc.permit, "attempted")
    /\ workers' = [workers EXCEPT ![pc.permit].at = "acked"]
    /\ pc' = [pc EXCEPT !.at = "waiting"]
    /\ UNCHANGED <<db, files, mem, host, user, seen>>

\* The acknowledgement is lost: the worker ends without a byte sent.
relayLost ==
    /\ pc.at = "waiting" /\ workers[pc.permit].at = "acked" /\ Spend(1)
    /\ Refuse(pc.permit)
    /\ workers' = [workers EXCEPT ![pc.permit].at = "none"]
    /\ seen' = [seen EXCEPT !.mishaps = @ + 1]
    /\ UNCHANGED <<db, files, mem, host, user>>

\* The worker's one HTTPS request.
upload(p) ==
    /\ workers[p].at = "acked"
    /\ workers' = [workers EXCEPT ![p].at = "uploaded"]
    /\ seen' = [seen EXCEPT !.uploads[p] = @ + 1,
                            !.wrongKey = @ \/ (/\ permits[p].state = "attempted"
                                               /\ workers[p].key # db.hash)]
    /\ UNCHANGED <<db, permits, files, mem, pc, host, user>>

\* commit-result: a transcript, or the error of the one request, is committed
\* and then acknowledged.
commit_result ==
    /\ pc.at = "waiting" /\ workers[pc.permit].at = "uploaded"
    /\ permits' = transition_permit(permits, pc.permit, "terminal-attempted")
    /\ pc' = Idle
    /\ workers' = [workers EXCEPT ![pc.permit].at = "none"]
    /\ UNCHANGED <<db, files, mem, host, user, seen>>

\* A worker whose broker died: its relay is closed, and it ends.
workerEnds(p) ==
    /\ workers[p].at # "none" /\ pc.permit # p
    /\ workers' = [workers EXCEPT ![p].at = "none"]
    /\ UNCHANGED <<db, permits, files, mem, pc, host, user, seen>>

\* Time: the ten minutes of a code, the two minutes of a permit.
expire ==
    /\ Spend(1)
    /\ seen' = [seen EXCEPT !.mishaps = @ + 1]
    /\ \/ /\ db.challenge = "active" /\ ~host.lateCode
          /\ host' = [host EXCEPT !.lateCode = TRUE]
       \/ \E p \in Permits \ host.late :
            /\ permits[p].state = "prepared"
            /\ host' = [host EXCEPT !.late = @ \cup {p}]
    /\ UNCHANGED <<db, permits, files, mem, pc, workers, user>>

-----------------------------------------------------------------------------

NoRow == [state |-> "unconfigured", rev |-> 0, hash |-> 0, trev |-> 0,
          thash |-> 0, code |-> 0, challenge |-> "none"]

Init ==
    /\ \E k \in First :
         /\ db = IF k = 0 THEN NoRow
                 ELSE [NoRow EXCEPT !.state = "active", !.rev = 1, !.hash = 1]
         /\ files = [active |-> k, stage |-> [r \in Revisions |-> 0],
                     backup |-> [r \in Revisions |-> 0], made |-> k]
    /\ permits = [p \in Permits |-> [state |-> "none", rev |-> 0]]
    /\ mem = [ticket |-> FALSE, permits |-> {}]
    /\ pc = Down
    /\ workers = [p \in Permits |-> [at |-> "none", key |-> 0]]
    /\ host = [socket |-> TRUE, session |-> "unopened", late |-> {}, lateCode |-> FALSE]
    /\ user = [codes |-> 0, revokes |-> 0, card |-> FALSE, ask |-> NoAsk,
               code |-> 0, gone |-> {}]
    /\ seen = [claims |-> [c \in Codes |-> 0], uploads |-> [p \in Permits |-> 0],
               cut |-> FALSE, revoked |-> FALSE, afterRevoke |-> FALSE,
               wrongKey |-> FALSE, mishaps |-> 0]

Next ==
    \/ start \/ crash \/ bootstrap_connection \/ parentRestarts
    \/ voiceConnect \/ voiceRevoke \/ voiceRevokeTap
    \/ \E c \in Codes : runVoiceCredentialSetCommand(c)
    \/ \E c \in Clients : exchangeTimeout(c)
    \/ begin_enrollment \/ showCode \/ claim_enrollment_code
    \/ begin_validation \/ validate_deepgram_credential \/ encrypt
    \/ encryptFails \/ mark_committing \/ backupActive \/ replaceActive \/ publish_credential
    \/ retire
    \/ revoke \/ systemd_worker_fence \/ fence_revoke_permits
    \/ remove_active \/ complete_revoke \/ start_systemd_worker_socket
    \/ confirmRevoked
    \/ stage \/ prune_media
    \/ \E p \in Permits : prepare_permit(p) \/ cancelPrepared(p) \/ dispatch(p)
    \/ relayConnect \/ workerRefuses \/ mark_attempted \/ relayLost
    \/ commit_result
    \/ \E p \in Permits : upload(p) \/ workerEnds(p)
    \/ expire

Spec == Init /\ [][Next]_vars

-----------------------------------------------------------------------------
(* What the broker promises                                                 *)

\* The variables have their types.
TypeOK ==
    /\ WellFormed
    /\ files \in Files
    /\ pc.at \in Steps

\* The epoch of a permit: while a permit is open the revision it was made for
\* is the active one, so no rotation or revocation has completed under it, and
\* no rotation is even being committed (CREDENTIAL_EPOCH_BUSY).
EpochIsStable ==
    \A p \in OpenPermits(permits) :
        /\ permits[p].rev = db.rev
        /\ db.state \in {"active", "validating", "revoking"}

\* At most one upload leaves under a permit, and a permit closed as unused has
\* none: the caller may release the money it reserved. Holds over crashes of
\* the broker, whose restart settles the permits of workers still running.
UploadIsAccounted ==
    \A p \in Permits :
        /\ seen.uploads[p] <= 1
        /\ seen.uploads[p] = 1 \/ workers[p].at = "acked" =>
               permits[p].state \in {"attempted", "terminal-attempted"}

\* A code is claimed at most once and only the latest one can be.
OneClaim == \A c \in Codes : seen.claims[c] <= 1

\* Unless an activation was cut while it was being committed, a usable
\* credential is the file on disk; a worker under an open permit uploads with
\* that one only.
RowMatchesFile ==
    ~seen.cut => /\ db.state \in Usable /\ db.rev > 0 /\ ~seen.revoked =>
                        files.active = db.hash
                 /\ ~seen.wrongKey

\* After a completed revocation there is no ciphertext in place, no open
\* permit and no worker that could still hold the key.
RevokedIsGone ==
    db.state = "revoked" =>
        /\ files.active = 0
        /\ OpenPermits(permits) = {}
        /\ \A p \in Permits : workers[p].at = "none"

\* The voice broker as a whole.
VoiceIsSound ==
    /\ TypeOK
    /\ EpochIsStable
    /\ UploadIsAccounted
    /\ OneClaim
    /\ RowMatchesFile
    /\ RevokedIsGone

\* Section 2.4 of docs/specs/25: the revocation's linearization point is the
\* durable change to revoking, after which no new permit is made until another
\* credential is published.
RevokingIsFinal == ~seen.afterRevoke

\* Section 4: an activation cut after the rename is resolved by the recorded
\* ciphertext hash, and two active revisions do not exist: a usable credential
\* is always the one on disk.
CommitIsResolved == db.state \in Usable /\ db.rev > 0 => files.active = db.hash

\* Section 2.4: a relay lost after the claim leaves the permit settled, never
\* open, once the broker is back at its loop.
LostRelayIsTerminal ==
    pc.at = "idle" =>
        \A p \in Permits : permits[p].state \notin {"claimed", "attempted"}
=============================================================================
