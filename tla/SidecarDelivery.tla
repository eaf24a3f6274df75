-------------------------- MODULE SidecarDelivery --------------------------
(***************************************************************************)
(* The delivery of a sidecar bundle to a host over SSH                     *)
(* (sidecar_bundle_delivery.py) and the root helper that installs it       *)
(* (sidecar_bundle_install.py, system_runtime_binding.py).                 *)
(*                                                                         *)
(* A deployment has a ledger file and an inbox directory.  The receiver's  *)
(* commands `begin` and `seal`, and the helper's claim and completion,     *)
(* hold the lock file quota.lock; `receipt` and `member` do not.  A locked *)
(* section is one step here, and every step that writes several files also *)
(* exists in the variants a kill leaves behind: each `cut` names how far   *)
(* the writes came.  A file written with O_EXCL is created first and       *)
(* filled afterwards, so a kill may leave it torn; one written by _replace *)
(* may not.  Deployment identifiers are random and never drawn twice.      *)
(***************************************************************************)
EXTENDS Naturals, FiniteSets, Sequences

CONSTANTS
    Ids,        \* deployment identifiers
    Helpers,    \* processes of the root helper that may run at once
    MaxOpen,    \* MAX_OPEN_DEPLOYMENTS
    MaxTombs,   \* MAX_REPLAY_TOMBSTONES
    MaxRuns,    \* bound on the helper processes started
    MaxKills,   \* bound on the processes that are killed
    MaxMoves    \* bound on the restarts of the runtime's unit

VARIABLES
    ledger,     \* ledger[d]: the phase in d's ledger file
    written,    \* the identifiers in the order of their ledgers' last writes
    stale,      \* the identifiers whose ledger is past its phase's age limit
    inbox,      \* inbox[d]: d's directory
    helper,     \* helper[h]: what the helper process h is doing
    born,       \* process identities handed out so far
    orphans,    \* deployments whose component installer outlived its helper
    ran,        \* ran[d]: how often d's component installer was started
    activated,  \* the deployments whose component installer succeeded
    unit,       \* the incarnation of the runtime's unit; 0 when it is down
    kills,      \* kills so far
    moves       \* unit restarts so far

vars == <<ledger, written, stale, inbox, helper, born, orphans, ran, activated, unit, kills, moves>>

Parts == {"bundle", "authority", "receipt", "member", "sealed", "claim"}

Phases == {"receiving", "sealed", "claimed", "completing", "completed"}

NoInbox == [there |-> FALSE, files |-> {}, torn |-> {}, owner |-> 0]

Idle == [pc |-> "idle", id |-> "none", self |-> 0, bound |-> 0]

HelperStates == [pc : {"idle", "bound", "claimed", "running", "activated"},
                 id : Ids \cup {"none"}, self : Nat, bound : Nat]

Inboxes == [there : BOOLEAN, files : SUBSET Parts, torn : SUBSET Parts, owner : Nat]

(* A file read back exactly: it is there and it is whole. *)
read_exact_file(d, part) == part \in inbox[d].files \ inbox[d].torn

authority(d) == inbox[d].there /\ read_exact_file(d, "authority")

parse_receipt(d) == read_exact_file(d, "receipt")

inventory(d) == {"bundle", "member"} \subseteq inbox[d].files

(* What seal and claim demand of an inbox: the exact files the receipt lists. *)
verify_delivery(d) ==
    authority(d) /\ parse_receipt(d) /\ inventory(d) /\ read_exact_file(d, "member")

ledger_state(phase) == phase \in Phases

(* The identity of a process names its boot and its start time: an identity is
   live exactly as long as its own process. *)
process_identity(n) == \E h \in Helpers : helper[h].pc # "idle" /\ helper[h].self = n

load_sealed_delivery(d) ==
    verify_delivery(d) /\ read_exact_file(d, "sealed") /\ ledger[d] = "sealed"

(* A file created with O_EXCL: whole, or torn by a kill. *)
write_exclusive(box, part, cut) ==
    [box EXCEPT !.files = @ \cup {part}, !.torn = IF cut THEN @ \cup {part} ELSE @]

(* The ledger file is replaced by one of another phase; "none" unlinks it. *)
replace(led, d, phase) == [led EXCEPT ![d] = phase]

Touch(d) == Append(SelectSeq(written, LAMBDA x : x # d), d)

(* What a kill inside _remove_inbox leaves: the deepest entries go first. *)
HalfRemoved(box) == {[box EXCEPT !.files = R, !.torn = @ \cap R] : R \in SUBSET (box.files \ {"member"})}

----------------------------------------------------------------------------
(* Pruning, under the lock, before a `begin` and after a completion, of the
   ledgers led and the inboxes box. *)

ClaimReads(box, d) == "claim" \in box[d].files \ box[d].torn

\* Mutant: a claimed inbox is removed by age alone.
reclaimableByAge(led, box, d) ==
    /\ box[d].there
    /\ \/ led[d] = "completing"
       \/ led[d] \in {"receiving", "sealed", "claimed"} /\ d \in stale

(* An inbox that pruning removes. *)
reclaimable(led, box, d) ==
    /\ box[d].there
    /\ \/ led[d] = "completing"
       \/ led[d] \in {"receiving", "sealed"} /\ d \in stale
       \/ /\ led[d] = "claimed" /\ d \in stale
          /\ ClaimReads(box, d) /\ ~process_identity(box[d].owner)

(* The phase in the ledger once pruning has passed over it. *)
settledPhase(led, box, d) ==
    CASE led[d] = "completing" -> "completed"
      [] led[d] \in {"receiving", "sealed"} /\ (~box[d].there \/ reclaimable(led, box, d)) -> "none"
      [] OTHER -> led[d]

(* Pruning reads every ledger and lists every inbox first, and refuses before it
   has changed anything. *)
PruneRefusesAtOnce(led, box) ==
    \/ \E d \in Ids : led[d] # "none" /\ ~ledger_state(led[d])
    \/ \E d \in Ids : box[d].there /\ led[d] = "none"

(* It refuses on the way at a ledger that contradicts its inbox. *)
PruneRefusesAt(led, box, d) ==
    /\ box[d].there
    /\ \/ led[d] = "completed"
       \/ led[d] = "claimed" /\ d \in stale /\ ~ClaimReads(box, d)

Tombstones(led, box, order) ==
    SelectSeq(order, LAMBDA d : /\ led[d] \in {"claimed", "completing", "completed"}
                                /\ ~box[d].there \/ reclaimable(led, box, d))

(* The oldest tombstones beyond the bound are unlinked. *)
Trimmed(led, box, order) ==
    LET tombs == Tombstones(led, box, order)
        n == IF Len(tombs) > MaxTombs THEN Len(tombs) - MaxTombs ELSE 0
    IN  {tombs[i] : i \in 1 .. n}

PrunedLedger(led, box, S) == [d \in Ids |-> IF d \in S THEN settledPhase(led, box, d) ELSE led[d]]

PrunedInbox(led, box, S) == [d \in Ids |-> IF d \in S /\ reclaimable(led, box, d) THEN NoInbox ELSE box[d]]

(* What a pruning of led and box may leave: everything passed over and the
   tombstones trimmed, or, where it refuses, what it had done before. *)
prune_delivery_state(led, box, order) ==
    LET bad == {d \in Ids : PruneRefusesAt(led, box, d)} IN
    IF PruneRefusesAtOnce(led, box) THEN {[ok |-> FALSE, led |-> led, box |-> box]}
    ELSE IF bad # {}
    THEN {[ok |-> FALSE, led |-> PrunedLedger(led, box, S), box |-> PrunedInbox(led, box, S)] :
            S \in SUBSET (Ids \ bad)}
    ELSE {[ok |-> TRUE, box |-> PrunedInbox(led, box, Ids),
           led |-> [d \in Ids |-> IF d \in Trimmed(led, box, order) THEN "none"
                                  ELSE PrunedLedger(led, box, Ids)[d]]]}

Killed == kills < MaxKills /\ kills' = kills + 1

(* A begin whose pruning is killed or refuses: some ledgers are done, and the kill
   may have left one inbox half removed. *)
beginInterrupted ==
    /\ ~PruneRefusesAtOnce(ledger, inbox)
    /\ \/ \E p \in prune_delivery_state(ledger, inbox, written) :
             ~p.ok /\ ledger' = p.led /\ inbox' = p.box /\ UNCHANGED kills
       \/ \E S \in SUBSET {d \in Ids : ~PruneRefusesAt(ledger, inbox, d)}, d \in Ids :
             /\ d \notin S /\ reclaimable(ledger, inbox, d) /\ Killed
             /\ ledger' = PrunedLedger(ledger, inbox, S)
             /\ \E half \in HalfRemoved(inbox[d]) :
                   inbox' = [PrunedInbox(ledger, inbox, S) EXCEPT ![d] = half]
    /\ stale' = {d \in stale : ledger'[d] = ledger[d]}
    /\ UNCHANGED <<written, helper, born, orphans, ran, activated, unit, moves>>

----------------------------------------------------------------------------
(* The receiver's forced command. *)

(* begin: prune, check the quota, create the ledger, then the inbox and what it
   starts with. *)
begin_delivery(d, cut) ==
    /\ ledger[d] = "none" /\ d \notin {written[i] : i \in DOMAIN written}
    /\ \E p \in prune_delivery_state(ledger, inbox, written) :
          /\ p.ok /\ Cardinality({e \in Ids : p.box[e].there}) < MaxOpen
          /\ ledger' = replace(p.led, d, IF cut = "ledger torn" THEN "torn" ELSE "receiving")
          /\ LET started == [NoInbox EXCEPT !.there = TRUE, !.files = {"bundle"}]
             IN  inbox' = [p.box EXCEPT ![d] =
                             CASE cut \in {"ledger torn", "ledger"} -> NoInbox
                               [] cut = "inbox" -> [NoInbox EXCEPT !.there = TRUE]
                               [] OTHER -> write_exclusive(started, "authority", cut = "authority torn")]
    /\ IF cut = "whole" THEN UNCHANGED kills ELSE Killed
    /\ written' = Touch(d)
    /\ stale' = {e \in stale : ledger'[e] = ledger[e]}
    /\ UNCHANGED <<helper, born, orphans, ran, activated, unit, moves>>

BeginCuts == {"whole", "ledger torn", "ledger", "inbox", "authority torn"}

store_receipt(d, cut) ==
    /\ authority(d) /\ "receipt" \notin inbox[d].files
    /\ IF cut THEN Killed ELSE UNCHANGED kills
    /\ inbox' = [inbox EXCEPT ![d] = write_exclusive(@, "receipt", cut)]
    /\ UNCHANGED <<ledger, written, stale, helper, born, orphans, ran, activated, unit, moves>>

store_member(d, cut) ==
    /\ authority(d) /\ parse_receipt(d) /\ "bundle" \in inbox[d].files
    /\ "member" \notin inbox[d].files
    /\ IF cut THEN Killed ELSE UNCHANGED kills
    /\ inbox' = [inbox EXCEPT ![d] = write_exclusive(@, "member", cut)]
    /\ UNCHANGED <<ledger, written, stale, helper, born, orphans, ran, activated, unit, moves>>

(* seal: the marker first, then the ledger; repeating it finishes a cut one. *)
seal_delivery(d, cut) ==
    /\ verify_delivery(d) /\ ledger[d] \in {"receiving", "sealed"}
    /\ "sealed" \in inbox[d].files => read_exact_file(d, "sealed")
    /\ ledger[d] = "receiving" \/ "sealed" \notin inbox[d].files
    /\ IF cut = "whole" THEN UNCHANGED kills ELSE Killed
    /\ inbox' = [inbox EXCEPT ![d] =
                   IF "sealed" \in @.files THEN @ ELSE write_exclusive(@, "sealed", cut = "marker torn")]
    /\ IF cut = "whole" /\ ledger[d] = "receiving"
       THEN ledger' = replace(ledger, d, "sealed") /\ written' = Touch(d) /\ stale' = stale \ {d}
       ELSE UNCHANGED <<ledger, written, stale>>
    /\ UNCHANGED <<helper, born, orphans, ran, activated, unit, moves>>

(* The forced command of the operator's key. *)
receiver_main(d) ==
    \/ \E cut \in BeginCuts : begin_delivery(d, cut)
    \/ \E cut \in BOOLEAN : store_receipt(d, cut)
    \/ \E cut \in BOOLEAN : store_member(d, cut)
    \/ \E cut \in {"whole", "marker torn", "marker"} : seal_delivery(d, cut)

----------------------------------------------------------------------------
(* The root helper: install <deployment>. *)

(* The unit as the user's systemd shows it, and its main process in /proc. *)
show_systemd == unit

inspect_process(main) == main # 0

resolve_runtime_binding == IF inspect_process(show_systemd) THEN show_systemd ELSE 0

(* The entry point in the bundle, which the helper reads before it runs it. *)
read_regular(d) == inbox[d].there /\ read_exact_file(d, "member")

execute(h, d) ==
    /\ helper[h] = Idle /\ resolve_runtime_binding # 0 /\ load_sealed_delivery(d)
    /\ born < MaxRuns /\ born' = born + 1
    /\ helper' = [helper EXCEPT ![h] = [pc |-> "bound", id |-> d, self |-> born', bound |-> unit]]
    /\ UNCHANGED <<ledger, written, stale, inbox, orphans, ran, activated, unit, kills, moves>>

(* A claim whose owner is dead is taken over; a live one's is not. *)
claimFree(d) ==
    \/ "claim" \notin inbox[d].files
    \/ read_exact_file(d, "claim") /\ ~process_identity(inbox[d].owner)

(* The claim file first, then the ledger. *)
claim_sealed_delivery(h, cut) ==
    LET d == helper[h].id IN
    /\ helper[h].pc = "bound"
    /\ IF load_sealed_delivery(d) /\ claimFree(d)
       THEN /\ inbox' = [inbox EXCEPT ![d] =
                           IF cut = "claim torn" /\ "claim" \notin @.files
                           THEN write_exclusive(@, "claim", TRUE)
                           ELSE [write_exclusive(@, "claim", FALSE) EXCEPT !.owner = helper[h].self]]
            /\ IF cut = "whole"
               THEN /\ ledger' = replace(ledger, d, "claimed") /\ written' = Touch(d)
                    /\ stale' = stale \ {d}
                    /\ helper' = [helper EXCEPT ![h].pc = "claimed"] /\ UNCHANGED kills
               ELSE /\ Killed /\ helper' = [helper EXCEPT ![h] = Idle]
                    /\ UNCHANGED <<ledger, written, stale>>
       ELSE /\ cut = "whole" /\ helper' = [helper EXCEPT ![h] = Idle]
            /\ UNCHANGED <<ledger, written, stale, inbox, kills>>
    /\ UNCHANGED <<born, orphans, ran, activated, unit, moves>>

(* The binding is confirmed again before the component's installer is started;
   a change refuses, and the delivery stays claimed. *)
reconfirm(h) ==
    /\ helper[h].pc = "claimed"
    /\ IF read_regular(helper[h].id) /\ resolve_runtime_binding = helper[h].bound
       THEN /\ helper' = [helper EXCEPT ![h].pc = "running"]
            /\ ran' = [ran EXCEPT ![helper[h].id] = @ + 1]
       ELSE /\ helper' = [helper EXCEPT ![h] = Idle] /\ UNCHANGED ran
    /\ UNCHANGED <<ledger, written, stale, inbox, born, orphans, activated, unit, kills, moves>>

(* The component's installer answers: success, a refusal or a timeout. *)
run(h, ok) ==
    /\ helper[h].pc = "running"
    /\ helper' = [helper EXCEPT ![h] = IF ok THEN [@ EXCEPT !.pc = "activated"] ELSE Idle]
    /\ activated' = IF ok THEN activated \cup {helper[h].id} ELSE activated
    /\ UNCHANGED <<ledger, written, stale, inbox, born, orphans, ran, unit, kills, moves>>

(* Completion: completing, the inbox, completed, then a pruning.  A refusal on the
   way does not change the helper's answer. *)
complete_claimed_delivery(h, cut) ==
    LET d == helper[h].id
        done == replace(ledger, d, "completed")
        gone == [inbox EXCEPT ![d] = NoInbox] IN
    /\ helper[h].pc = "activated"
    /\ helper' = [helper EXCEPT ![h] = Idle]
    /\ IF inbox[d].there /\ parse_receipt(d) /\ ledger[d] = "claimed"
       THEN /\ IF cut = "whole" THEN UNCHANGED kills ELSE Killed
            /\ CASE cut = "whole" ->
                      \E p \in prune_delivery_state(done, gone, Touch(d)) : ledger' = p.led /\ inbox' = p.box
                 [] cut = "pruning" -> ledger' = done /\ inbox' = gone
                 [] cut = "removed" -> ledger' = replace(ledger, d, "completing") /\ inbox' = gone
                 [] cut = "removing" ->
                      /\ ledger' = replace(ledger, d, "completing")
                      /\ \E half \in HalfRemoved(inbox[d]) : inbox' = [inbox EXCEPT ![d] = half]
                 [] cut = "marked" -> ledger' = replace(ledger, d, "completing") /\ UNCHANGED inbox
            /\ written' = Touch(d) /\ stale' = {e \in stale : ledger'[e] = ledger[e]}
       ELSE cut = "whole" /\ UNCHANGED <<ledger, written, stale, inbox, kills>>
    /\ UNCHANGED <<born, orphans, ran, activated, unit, moves>>

CompleteCuts == {"whole", "marked", "removing", "removed", "pruning"}

----------------------------------------------------------------------------
(* The environment. *)

(* A helper is killed; the component's installer it had started goes on. *)
kill(h) ==
    /\ helper[h].pc # "idle" /\ Killed
    /\ orphans' = IF helper[h].pc = "running" THEN orphans \cup {helper[h].id} ELSE orphans
    /\ helper' = [helper EXCEPT ![h] = Idle]
    /\ UNCHANGED <<ledger, written, stale, inbox, born, ran, activated, unit, moves>>

orphanEnds(d) ==
    /\ d \in orphans /\ orphans' = orphans \ {d}
    /\ \E ok \in BOOLEAN : activated' = IF ok THEN activated \cup {d} ELSE activated
    /\ UNCHANGED <<ledger, written, stale, inbox, helper, born, ran, unit, kills, moves>>

(* A ledger passes its age limit by the wall clock: a day while it is open, an
   hour once claimed. *)
grow(d) ==
    /\ ledger[d] \in {"receiving", "sealed", "claimed"} /\ inbox[d].there
    /\ d \notin stale
    /\ stale' = stale \cup {d}
    /\ UNCHANGED <<ledger, written, inbox, helper, born, orphans, ran, activated, unit, kills, moves>>

unitMoves ==
    /\ moves < MaxMoves /\ moves' = moves + 1
    /\ unit' \in {0, moves'}
    /\ UNCHANGED <<ledger, written, stale, inbox, helper, born, orphans, ran, activated, kills>>

Init ==
    /\ ledger = [d \in Ids |-> "none"] /\ written = <<>> /\ stale = {}
    /\ inbox = [d \in Ids |-> NoInbox]
    /\ helper = [h \in Helpers |-> Idle] /\ born = 0 /\ orphans = {}
    /\ ran = [d \in Ids |-> 0] /\ activated = {}
    /\ unit = MaxMoves + 1 /\ kills = 0 /\ moves = 0

Next ==
    \/ \E d \in Ids :
          \/ receiver_main(d)
          \/ \E h \in Helpers : execute(h, d)
          \/ orphanEnds(d)
          \/ grow(d)
    \/ \E h \in Helpers :
          \/ \E cut \in {"whole", "claim torn", "claim"} : claim_sealed_delivery(h, cut)
          \/ reconfirm(h)
          \/ \E ok \in BOOLEAN : run(h, ok)
          \/ \E cut \in CompleteCuts : complete_claimed_delivery(h, cut)
          \/ kill(h)
    \/ beginInterrupted
    \/ unitMoves

Spec == Init /\ [][Next]_vars

----------------------------------------------------------------------------
TypeOK ==
    /\ ledger \in [Ids -> Phases \cup {"none", "torn"}]
    /\ stale \subseteq Ids /\ orphans \subseteq Ids /\ activated \subseteq Ids
    /\ inbox \in [Ids -> Inboxes] /\ helper \in [Helpers -> HelperStates]
    /\ ran \in [Ids -> Nat] /\ kills \in 0 .. MaxKills

InUse(d) == \E h \in Helpers : helper[h].id = d /\ helper[h].pc = "running"

(* The component's installer of a delivery is started at most once. *)
OnceEach == \A d \in Ids : ran[d] <= 1

(* While it runs under its helper, the bundle it installs from is whole. *)
BundleStaysWhole == \A d \in Ids : InUse(d) => verify_delivery(d) /\ read_exact_file(d, "sealed")

(* A delivery that has run is never open again, whatever is pruned. *)
ReplayIsRefused ==
    \A d \in Ids : ran[d] > 0 => /\ ledger[d] \notin {"receiving", "sealed", "torn"}
                                 /\ ledger[d] = "none" => ~inbox[d].there

(* A completed delivery was activated. *)
CompletedIsActivated == \A d \in Ids : ledger[d] \in {"completing", "completed"} => d \in activated

(* No inbox is without its ledger, which would refuse every later begin. *)
InboxHasLedger == \A d \in Ids : inbox[d].there => ledger[d] \in Phases \ {"completed"}

(* At most MaxOpen inboxes are on the disk. *)
QuotaHolds == Cardinality({d \in Ids : inbox[d].there}) <= MaxOpen

(* The receiver's promises under kills, ages and helpers side by side
   (sidecar_bundle_delivery.py begin_delivery, seal_delivery,
   claim_sealed_delivery, complete_claimed_delivery): a delivery is run once, from
   a bundle that stays whole while it is used; it never opens again; what is
   completed was activated; every inbox has its ledger; the quota holds. *)
DeliveryIsSound ==
    TypeOK /\ OnceEach /\ BundleStaysWhole /\ ReplayIsRefused /\ CompletedIsActivated
    /\ InboxHasLedger /\ QuotaHolds

(* Spec 28, section 4: what a kill leaves is cleaned up by the next begin.  So no
   state may be one that pruning refuses, for every later begin would too. *)
BeginConverges == ~PruneRefusesAtOnce(ledger, inbox) /\ \A d \in Ids : ~PruneRefusesAt(ledger, inbox, d)
=============================================================================
