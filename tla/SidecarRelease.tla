-------------------------- MODULE SidecarRelease --------------------------
(***************************************************************************)
(* The installers of the two root-owned sidecars, the provider broker      *)
(* (provider_proxy_install.py) and the voice proxy                         *)
(* (voice_proxy_install.py): install, rollback and uninstall of a release  *)
(* held in the directories `current` and `previous`, with the              *)
(* configuration and the systemd units that go with it.                    *)
(*                                                                         *)
(* Nothing serializes two installers of one component: the delivery's lock *)
(* is released before the installer starts.  So each durable effect is a   *)
(* step, and the processes interleave and are killed between them.         *)
(* systemd is external: a command succeeds or fails, and a restart makes   *)
(* the services run what is then on the disk.                              *)
(***************************************************************************)
EXTENDS Naturals, FiniteSets

CONSTANTS
    Components, \* {"provider", "voice"}
    Releases,   \* the releases that may be installed
    First,      \* the release a host already has, or "none"
    Procs,      \* installer processes that may run at once
    MaxOps,     \* bound on the installer processes started
    MaxFailures \* bound on kills and failed commands

ASSUME ReleaseAssumption ==
    /\ Releases \cap {"none", "part"} = {} /\ First \in Releases \cup {"none"}
    /\ MaxFailures \in Nat

VARIABLES
    component,          \* the sidecar this is about
    current, previous,  \* what the two directories hold
    stages,             \* stages[p]: what the staging directory p made holds
    config, units,      \* the release the configuration and the units are of
    running,            \* what the services run: code and configuration
    proc,               \* proc[p]: what the process p is doing
    checked,            \* the releases whose self-check has passed
    calm,               \* no kill so far and no two processes side by side
    before,             \* current and previous when the last process started
    last,               \* how the last process ended
    ops, mishaps

releaseVars == <<component, current, previous, stages, config, units, running, proc, checked, calm, before, last, ops, mishaps>>

disk == <<component, current, previous, stages, config, units, running>>

Held == Releases \cup {"none", "part"}   \* a directory half removed is a part

Off == [code |-> "none", config |-> "none"]

Idle == [pc |-> "idle", op |-> "none", rel |-> "none", back |-> FALSE]

(* The manifest of a release, read back from the directory it is in. *)
installed_metadata(root) == root \in Releases

(* The self-check of a release needs its manifest and its launcher. *)
release_handshake(root) == installed_metadata(root)

Spoilt == mishaps < MaxFailures /\ mishaps' = mishaps + 1

Alone == \A p \in Procs : proc[p] = Idle

Ends(p, how) == proc' = [proc EXCEPT ![p] = Idle] /\ last' = [op |-> proc[p].op, rel |-> proc[p].rel, how |-> how]

Goes(p, pc) == proc' = [proc EXCEPT ![p].pc = pc] /\ UNCHANGED last

Starts(p, op, rel, pc) ==
    /\ proc[p] = Idle /\ ops < MaxOps /\ ops' = ops + 1
    /\ proc' = [proc EXCEPT ![p] = [pc |-> pc, op |-> op, rel |-> rel, back |-> FALSE]]
    /\ calm' = (calm /\ Alone)
    /\ before' = [current |-> current, previous |-> previous, config |-> config]
    /\ last' = [op |-> "none", rel |-> "none", how |-> "running"]

----------------------------------------------------------------------------
(* install *)

(* The bundle is verified against the digest and the commit it was promised with
   and copied, each file hashed from the descriptor it is copied from, into a
   staging directory of the process's own. *)
verify_bundle(rel) == rel \in Releases

stage_bundle(p, rel) ==
    /\ verify_bundle(rel) /\ stages[p] = "none"
    /\ Starts(p, "install", rel, "staged")
    /\ stages' = [stages EXCEPT ![p] = rel]
    /\ UNCHANGED <<component, current, previous, config, units, running, checked, mishaps>>

(* The self-check of the staged release; a refusal removes the staging directory. *)
handshakeStaged(p, ok) ==
    /\ proc[p].pc = "staged"
    /\ IF ok /\ release_handshake(stages[p])
       THEN /\ checked' = checked \cup {stages[p]} /\ Goes(p, "checked")
            /\ UNCHANGED <<stages, mishaps>>
       ELSE /\ IF ok THEN UNCHANGED mishaps ELSE Spoilt
            /\ stages' = [stages EXCEPT ![p] = "none"] /\ Ends(p, "refused") /\ UNCHANGED checked
    /\ UNCHANGED <<component, current, previous, config, units, running, calm, before, ops>>

(* The first release is renamed into place, a later one exchanged with it. *)
activateCurrent(p) ==
    /\ proc[p].pc = "checked" /\ stages[p] # "none"
    /\ current' = stages[p] /\ stages' = [stages EXCEPT ![p] = current]
    /\ Goes(p, IF current = "none" THEN "configure" ELSE "exchanged")
    /\ UNCHANGED <<component, previous, config, units, running, checked, calm, before, ops, mishaps>>

\* Mutant: the older release stays the one to roll back to.
activatePreviousKept(p) ==
    /\ proc[p].pc = "exchanged" /\ stages[p] # "none"
    /\ previous' = (IF previous = "none" THEN stages[p] ELSE previous)
    /\ stages' = [stages EXCEPT ![p] = "none"]
    /\ Goes(p, "configure")
    /\ UNCHANGED <<component, current, config, units, running, checked, calm, before, ops, mishaps>>

(* What was current becomes previous; what was previous is removed. *)
activatePrevious(p) ==
    /\ proc[p].pc = "exchanged" /\ stages[p] # "none"
    /\ previous' = stages[p] /\ stages' = [stages EXCEPT ![p] = "none"]
    /\ Goes(p, "configure")
    /\ UNCHANGED <<component, current, config, units, running, checked, calm, before, ops, mishaps>>

(* Another process's uninstall has removed the staging directory. *)
activateFails(p) ==
    /\ proc[p].pc \in {"checked", "exchanged"} /\ stages[p] = "none" /\ Ends(p, "failed")
    /\ UNCHANGED <<disk, checked, calm, before, ops, mishaps>>

(* The release the configuration is written for: an install's own, from its
   manifest; after a rollback the one read from current. *)
config_bytes(p) == IF proc[p].op = "install" /\ ~proc[p].back THEN proc[p].rel ELSE current

atomicConfig(p) ==
    /\ proc[p].pc = "configure" /\ installed_metadata(config_bytes(p))
    /\ config' = config_bytes(p) /\ Goes(p, "units")
    /\ UNCHANGED <<component, current, previous, stages, units, running, checked, calm, before, ops, mishaps>>

(* The units of current are validated and replaced one after the other. *)
validate_units == current \in Releases

install_units(p, part) ==
    /\ proc[p].pc = "units" /\ validate_units
    /\ IF part
       THEN /\ units # current /\ Spoilt /\ calm' = FALSE /\ Ends(p, "killed")
            /\ units' = "part"
       ELSE units' = current /\ Goes(p, "restart") /\ UNCHANGED <<mishaps, calm>>
    /\ UNCHANGED <<component, current, previous, stages, config, running, checked, before, ops>>

(* daemon-reload, enable, restart, is-active. *)
restart_services(p) ==
    /\ proc[p].pc = "restart"
    /\ running' = [code |-> current, config |-> config]
    /\ Ends(p, IF proc[p].back THEN "rolled back" ELSE "done")
    /\ UNCHANGED <<component, current, previous, stages, config, units, checked, calm, before, ops, mishaps>>

(* A command fails, after a restart has already been asked for or before, or a file
   that the step needs is not there.  An install goes back to the previous release
   if there is one; a second failure ends it. *)
stepFails(p) ==
    /\ proc[p].pc \in {"configure", "units", "restart"}
    /\ \/ Spoilt
       \/ proc[p].pc = "configure" /\ ~installed_metadata(config_bytes(p)) /\ UNCHANGED mishaps
       \/ proc[p].pc = "units" /\ ~validate_units /\ UNCHANGED mishaps
    /\ running' \in {running} \cup (IF proc[p].pc = "restart" THEN {[code |-> current, config |-> config]} ELSE {})
    /\ IF proc[p].op = "install" /\ ~proc[p].back /\ previous # "none"
       THEN proc' = [proc EXCEPT ![p].pc = "rollback", ![p].back = TRUE] /\ UNCHANGED last
       ELSE Ends(p, "failed")
    /\ UNCHANGED <<component, current, previous, stages, config, units, checked, calm, before, ops>>

(* An install, step by step. *)
install_release(p) ==
    \/ \E rel \in Releases : stage_bundle(p, rel)
    \/ \E ok \in BOOLEAN : handshakeStaged(p, ok)
    \/ activateCurrent(p) \/ activatePrevious(p) \/ activateFails(p)
    \/ atomicConfig(p)
    \/ \E part \in BOOLEAN : install_units(p, part)
    \/ restart_services(p) \/ stepFails(p)

----------------------------------------------------------------------------
(* rollback: by the operator, and by an install that failed *)

rollback_release(p) ==
    /\ Starts(p, "rollback", "none", "rollback")
    /\ current \in Releases   \* the helper runs the installer of the active release
    /\ UNCHANGED <<disk, checked, mishaps>>

(* previous passes its self-check, the two are exchanged, and current passes it;
   otherwise they are exchanged back. *)
rollback(p, ok) ==
    /\ proc[p].pc = "rollback"
    /\ IF current # "none" /\ release_handshake(previous)
       THEN IF ok
            THEN /\ current' = previous /\ previous' = current /\ Goes(p, "rolled") /\ UNCHANGED mishaps
            ELSE /\ Spoilt /\ Ends(p, "failed") /\ UNCHANGED <<current, previous>>
       ELSE ok /\ Ends(p, "failed") /\ UNCHANGED <<current, previous, mishaps>>
    /\ UNCHANGED <<component, stages, config, units, running, checked, calm, before, ops>>

rollbackHandshake(p, ok) ==
    /\ proc[p].pc = "rolled"
    /\ IF ok /\ release_handshake(current)
       THEN Goes(p, "configure") /\ UNCHANGED <<current, previous, mishaps>>
       ELSE /\ IF ok THEN UNCHANGED mishaps ELSE Spoilt
            /\ current' = previous /\ previous' = current /\ Ends(p, "failed")
    /\ UNCHANGED <<component, stages, config, units, running, checked, calm, before, ops>>

----------------------------------------------------------------------------
(* uninstall, which keeps the encrypted credentials *)

(* The providers an uninstall names must be those in the configuration. *)
configured_providers == config # "none"

(* The provider's refuses a release without its configuration. *)
uninstall_preserving_state(p) ==
    /\ component = "provider" /\ current \in Releases /\ configured_providers
    /\ Starts(p, "uninstall", "none", "disable")
    /\ UNCHANGED <<disk, checked, mishaps>>

(* The voice proxy's takes what it finds. *)
uninstall_preserving_encrypted_state(p) ==
    /\ component = "voice" /\ current \in Releases
    /\ Starts(p, "uninstall", "none", "disable")
    /\ UNCHANGED <<disk, checked, mishaps>>

(* disable --now and stop; a failing command ends it. *)
disable(p) ==
    /\ proc[p].pc = "disable"
    /\ \/ running' = Off /\ Goes(p, "unlink") /\ UNCHANGED mishaps
       \/ Spoilt /\ Ends(p, "failed") /\ UNCHANGED running
    /\ UNCHANGED <<component, current, previous, stages, config, units, checked, calm, before, ops>>

unlinkUnits(p) ==
    /\ proc[p].pc = "unlink" /\ units' = "none" /\ Goes(p, "remove")
    /\ UNCHANGED <<component, current, previous, stages, config, running, checked, calm, before, ops, mishaps>>

(* The whole tree is removed, staging directories of other processes included. *)
removeTree(p, part) ==
    /\ proc[p].pc = "remove"
    /\ IF part
       THEN /\ Spoilt /\ calm' = FALSE /\ Ends(p, "killed")
            /\ current' = (IF current = "none" THEN "none" ELSE "part") /\ UNCHANGED <<previous, stages>>
       ELSE /\ current' = "none" /\ previous' = "none" /\ stages' = [q \in Procs |-> "none"]
            /\ Goes(p, "unconfigure") /\ UNCHANGED <<calm, mishaps>>
    /\ UNCHANGED <<component, config, units, running, checked, before, ops>>

removeConfig(p) ==
    /\ proc[p].pc = "unconfigure" /\ config' = "none" /\ Ends(p, "done")
    /\ UNCHANGED <<component, current, previous, stages, units, running, checked, calm, before, ops, mishaps>>

----------------------------------------------------------------------------
(* A process is killed between two steps. *)
kill(p) ==
    /\ proc[p] # Idle /\ Spoilt /\ calm' = FALSE /\ Ends(p, "killed")
    /\ UNCHANGED <<disk, checked, before, ops>>

(* A host restart, or the unit's own: the services load what is on the disk. *)
reboot ==
    /\ units \in Releases /\ current \in Releases /\ Alone
    /\ running # [code |-> current, config |-> config]
    /\ running' = [code |-> current, config |-> config]
    /\ UNCHANGED <<component, current, previous, stages, config, units, proc, checked, calm, before, last, ops, mishaps>>

ReleaseInit ==
    /\ component \in Components
    /\ current = First /\ previous = "none" /\ stages = [p \in Procs |-> "none"]
    /\ config = First /\ units = First /\ running = [code |-> First, config |-> First]
    /\ proc = [p \in Procs |-> Idle] /\ checked = {First} \cap Releases
    /\ calm = TRUE /\ before = [current |-> First, previous |-> "none", config |-> First]
    /\ last = [op |-> "none", rel |-> "none", how |-> "running"]
    /\ ops = 0 /\ mishaps = 0

ReleaseNext ==
    \/ \E p \in Procs :
          \/ install_release(p)
          \/ rollback_release(p)
          \/ \E ok \in BOOLEAN : rollback(p, ok) \/ rollbackHandshake(p, ok)
          \/ \E part \in BOOLEAN : removeTree(p, part)
          \/ uninstall_preserving_state(p) \/ uninstall_preserving_encrypted_state(p) \/ disable(p) \/ unlinkUnits(p) \/ removeConfig(p)
          \/ kill(p)
    \/ reboot

ReleaseSpec == ReleaseInit /\ [][ReleaseNext]_releaseVars

----------------------------------------------------------------------------
Ways == {"running", "done", "refused", "failed", "rolled back", "killed"}

ReleaseTypeOK ==
    /\ current \in Held /\ previous \in Held /\ stages \in [Procs -> Held]
    /\ config \in Releases \cup {"none"} /\ units \in Held
    /\ checked \subseteq Releases /\ last.how \in Ways /\ mishaps \in 0 .. MaxFailures

(* Whatever interleaves and whoever is killed, what becomes current has passed its
   self-check as a whole staged tree. *)
OnlyCheckedIsCurrent == current \in checked \cup {"none", "part"}

(* With no kill and no second process: a release installed is what is configured
   and what runs, and the one before it can be rolled back to. *)
InstalledIsServed ==
    calm /\ Alone /\ last.op = "install" /\ last.how = "done" =>
       /\ {current, config, units, running.code, running.config} = {last.rel}
       /\ previous = before.current \/ before.current = "none"

(* A failed install that could go back has gone back: the release before it is
   current, configured and has its units, and serves again if the restart did. *)
FailedIsUndone ==
    calm /\ Alone /\ last.op = "install" /\ before.current \in Releases =>
       /\ last.how = "rolled back" =>
             {current, config, units, running.code, running.config} = {before.current}
       /\ last.how = "refused" => current = before.current /\ previous = before.previous

(* A rollback exchanges the two, or changes neither. *)
RolledBackIsExchanged ==
    calm /\ Alone /\ last.op = "rollback" =>
       {current, previous} = {before.current, before.previous}

(* An uninstall leaves nothing but the state directory. *)
UninstalledIsGone ==
    calm /\ Alone /\ last.op = "uninstall" /\ last.how = "done" =>
       {current, previous, config, units, running.code} = {"none"}

(* Nothing staged is left behind. *)
StagesAreTemporary == calm /\ Alone => \A p \in Procs : stages[p] = "none"

(* The installers' promises (provider_proxy_install.py and voice_proxy_install.py,
   install_release, rollback_release, uninstall): only a self-checked tree is ever
   current, and a process that runs alone to its end leaves directories,
   configuration, units and services of one release. *)
ReleaseIsSound ==
    ReleaseTypeOK /\ OnlyCheckedIsCurrent /\ InstalledIsServed /\ FailedIsUndone
    /\ RolledBackIsExchanged /\ UninstalledIsGone /\ StagesAreTemporary

(* Spec 25: a production deployment keeps the release before it as the point to
   roll back to.  So once a release has been installed over another one, and
   whatever retries that took, previous is not the release that is current. *)
RollbackPointSurvives ==
    Alone /\ last.op = "install" /\ last.how = "done" /\ current \in Releases => previous # current
=============================================================================
