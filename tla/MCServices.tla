------------------------------ MODULE MCServices -----------------------------
(***************************************************************************)
(* One run for the services beside the runtime: the containers it owns,    *)
(* the voice and provider credential brokers, the managed installation,    *)
(* and the delivery and the release of sidecars. They share no state here. *)
(* A behaviour is a behaviour of one of them, chosen by subject in the     *)
(* initial state; the others do not move.                                  *)
(***************************************************************************)
EXTENDS SidecarRelease, Integers, Sequences, TLC

CONSTANTS
    DockerSlots, DeliveryIds, DeliveryHelpers

VARIABLES
    subject,
    mgr, rows, seq, obj, flight, who, pc, handle, owned, noDisc, task, boots, lost,
    db, permits, files, mem, voicePc, workers, host, user, seen,
    row, codes, brokerFiles, attempts, brokerPc, brokerWorkers, clients, brokerHost, brokerUser,
    brokerSeen,
    remote, releases, runtime, integrity, gens, active, journal, launcher, barrier, op, used,
    switched,
    ledger, written, stale, inbox, helper, born, orphans, ran, activated, unit, kills, moves

(* Two operations of the transcription sidecar. *)
DockerKindOf == <<"whisper", "whisper">>

(* One dispatch permit and one provider call; a key is active at the start. *)
VoicePermits == {"p1"}
BrokerRequests == {"r1"}
BrokerOwners == {"o1", "o2"}
FirstKeys == {1}

(* Three commits in a row. *)
InstallCommits == {"a", "b", "c"}
InstallAncestors == {<<"a", "b">>, <<"a", "c">>, <<"b", "c">>}
InstallFirst == "a"

dockerVars ==
    <<mgr, rows, seq, obj, flight, who, pc, handle, owned, noDisc, task, boots, lost>>
voiceVars ==
    <<db, permits, files, mem, voicePc, workers, host, user, seen>>
brokerVars ==
    <<row, codes, brokerFiles, attempts, brokerPc, brokerWorkers, clients, brokerHost, brokerUser,
      brokerSeen>>
installVars ==
    <<remote, releases, runtime, integrity, gens, active, journal, launcher, barrier, op, used,
      switched>>
deliveryVars ==
    <<ledger, written, stale, inbox, helper, born, orphans, ran, activated, unit, kills, moves>>
servicesVars == <<subject, dockerVars, voiceVars, brokerVars, installVars, deliveryVars, releaseVars>>

Docker == INSTANCE OwnedDocker WITH
    KindOf <- DockerKindOf, Slots <- DockerSlots, MaxEpoch <- 3, MaxBoots <- 2, MaxLost <- 1
Voice == INSTANCE VoiceCredential WITH
    Permits <- VoicePermits, MaxCodes <- 2, MaxKeys <- 2, MaxMishaps <- 2, MaxRevokes <- 1, First <-
    FirstKeys, pc <- voicePc
Broker == INSTANCE ProviderBroker WITH
    Requests <- BrokerRequests, Owners <- BrokerOwners, MaxCodes <- 1, MaxKeys <- 2, MaxMishaps <-
    2, MaxRevokes <- 1, First <- FirstKeys, files <- brokerFiles, pc <- brokerPc, workers <-
    brokerWorkers, host <- brokerHost, user <- brokerUser, seen <- brokerSeen
Install == INSTANCE ManagedInstall WITH
    Commits <- InstallCommits, Ancestors <- InstallAncestors, First <- InstallFirst, MaxOps <- 3,
    MaxMoves <- 2, MaxMishaps <- 2
Delivery == INSTANCE SidecarDelivery WITH
    Ids <- DeliveryIds, Helpers <- DeliveryHelpers, MaxOpen <- 1, MaxTombs <- 1, MaxRuns <- 2,
    MaxKills <- 1, MaxMoves <- 1

\* A component that is not the subject is not there: its variables keep this value, those of
\* SidecarRelease, whose invariant the run names, an initial one.
Unused == "unused"

dockerUnused ==
    /\ mgr = Unused /\ rows = Unused /\ seq = Unused /\ obj = Unused /\ flight = Unused
    /\ who = Unused /\ pc = Unused /\ handle = Unused /\ owned = Unused /\ noDisc = Unused
    /\ task = Unused /\ boots = Unused /\ lost = Unused
voiceUnused ==
    /\ db = Unused /\ permits = Unused /\ files = Unused /\ mem = Unused /\ voicePc = Unused
    /\ workers = Unused /\ host = Unused /\ user = Unused /\ seen = Unused
brokerUnused ==
    /\ row = Unused /\ codes = Unused /\ brokerFiles = Unused /\ attempts = Unused
    /\ brokerPc = Unused /\ brokerWorkers = Unused /\ clients = Unused /\ brokerHost = Unused
    /\ brokerUser = Unused /\ brokerSeen = Unused
installUnused ==
    /\ remote = Unused /\ releases = Unused /\ runtime = Unused /\ integrity = Unused
    /\ gens = Unused /\ active = Unused /\ journal = Unused /\ launcher = Unused
    /\ barrier = Unused /\ op = Unused /\ used = Unused /\ switched = Unused
deliveryUnused ==
    /\ ledger = Unused /\ written = Unused /\ stale = Unused /\ inbox = Unused
    /\ helper = Unused /\ born = Unused /\ orphans = Unused /\ ran = Unused
    /\ activated = Unused /\ unit = Unused /\ kills = Unused /\ moves = Unused
releaseUnused == ReleaseInit /\ component = "provider"

ServicesInit ==
    \/ /\ subject = "docker" /\ Docker!Init
       /\ voiceUnused /\ brokerUnused /\ installUnused /\ deliveryUnused /\ releaseUnused
    \/ /\ subject = "voice" /\ Voice!Init
       /\ dockerUnused /\ brokerUnused /\ installUnused /\ deliveryUnused /\ releaseUnused
    \/ /\ subject = "broker" /\ Broker!Init
       /\ dockerUnused /\ voiceUnused /\ installUnused /\ deliveryUnused /\ releaseUnused
    \/ /\ subject = "install" /\ Install!Init
       /\ dockerUnused /\ voiceUnused /\ brokerUnused /\ deliveryUnused /\ releaseUnused
    \/ /\ subject = "delivery" /\ Delivery!Init
       /\ dockerUnused /\ voiceUnused /\ brokerUnused /\ installUnused /\ releaseUnused
    \/ /\ subject = "release" /\ ReleaseInit
       /\ dockerUnused /\ voiceUnused /\ brokerUnused /\ installUnused /\ deliveryUnused

ServicesNext ==
    /\ UNCHANGED subject
    /\ \/ /\ subject = "docker" /\ Docker!Next
          /\ UNCHANGED <<voiceVars, brokerVars, installVars, deliveryVars, releaseVars>>
       \/ /\ subject = "voice" /\ Voice!Next
          /\ UNCHANGED <<dockerVars, brokerVars, installVars, deliveryVars, releaseVars>>
       \/ /\ subject = "broker" /\ Broker!Next
          /\ UNCHANGED <<dockerVars, voiceVars, installVars, deliveryVars, releaseVars>>
       \/ /\ subject = "install" /\ Install!Next
          /\ UNCHANGED <<dockerVars, voiceVars, brokerVars, deliveryVars, releaseVars>>
       \/ /\ subject = "delivery" /\ Delivery!Next
          /\ UNCHANGED <<dockerVars, voiceVars, brokerVars, installVars, releaseVars>>
       \/ /\ subject = "release" /\ ReleaseNext
          /\ UNCHANGED <<dockerVars, voiceVars, brokerVars, installVars, deliveryVars>>

ServicesSpec == ServicesInit /\ [][ServicesNext]_servicesVars

\* Slots and installer processes are compared for equality only.
Symmetry == Permutations(DockerSlots) \cup Permutations(Procs)

\* Every object of the runtime in the Engine has a row in the ledger that leads to its removal, and
\* no container runs for a manager that is gone (execution-owned-docker-resources.ts).
OwnershipHolds == subject = "docker" => Docker!OwnershipHolds

\* An upload needs a permit of the current key and is accounted once; the key in use is a whole
\* ciphertext (voice_credential_broker.py).
VoiceIsSound == subject = "voice" => Voice!VoiceIsSound

\* A provider call is attempted once under the key of its owner, and the published key is a whole
\* slot (provider_lifecycle.py).
BrokerIsSound == subject = "broker" => Broker!BrokerIsSound

\* The active generation runs a verified build, an update only moves forward and a rollback is
\* authorised (managed-install.ts).
InstallIsSound == subject = "install" => Install!InstallIsSound

\* A delivered bundle is installed at most once, whole and under the identifier it was sealed for
\* (sidecar_bundle_delivery.py).
DeliveryIsSound == subject = "delivery" => Delivery!DeliveryIsSound
=============================================================================
