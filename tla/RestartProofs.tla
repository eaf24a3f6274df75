---------------------------- MODULE RestartProofs ----------------------------
(***************************************************************************)
(* Proofs about restarting the agent: the restart loop of the supervisor and*)
(* the restart receipt of the bot.  They share no variable, so the two     *)
(* parts are independent; each holds for every value of its constants.     *)
(***************************************************************************)
EXTENDS RestartBudget, RestartReceipt, TLAPS

(***************************************************************************)
(* The restart loop, for every crash window, crash budget and every number *)
(* of crashes, faults and clock changes.                                   *)
(*                                                                         *)
(* The argument has two halves.  Ownership says what each holder of the    *)
(* two leases is doing; it is inductive by itself and excludes a runtime   *)
(* started by hand from a supervised one.  StateFile says how the parent's *)
(* copy of state.json relates to the file: it rests on Ownership, because  *)
(* only the manager lease keeps the recovery command from writing the file *)
(* under a parent that is about to publish.                                *)
(***************************************************************************)

\* The parent states in which run() holds the manager lease.
Managing == {"fencing", "recovering", "looping", "serving", "exited", "exhausted", "unavailable",
             "docker", "backoff", "quarantined", "stopping"}

\* The ones in which it also holds the liveness fence.
Fenced == {"recovering", "docker", "looping", "exhausted", "backoff", "quarantined"}

\* The ones in which the state file is healthy and the parent's copy exact.
Healthy == Managing \ {"fencing", "quarantined"}

\* Who holds which lease, and who may be alive beside whom.
Ownership ==
    /\ parent \in Managing \cup {"off", "blocked"}
    /\ child \in {"none", "starting", "running", "crashed", "exit75"}
    /\ orphan \in {"none", "starting", "running"}
    /\ manager = "parent" <=> parent \in Managing
    /\ manager = "direct" <=> direct = "probed"
    /\ manager = "cli" <=> cli # "off"
    /\ parent \in Fenced => fence = "parent"
    /\ fence = "direct" <=> direct # "off"
    /\ fence = "cli" <=> cli = "sealing"
    /\ fence = "child" <=> child = "running"
    /\ fence = "orphan" <=> orphan = "running"
    /\ child # "none" => parent = "serving"
    /\ direct \in {"probed", "running"} => parent \in {"off", "blocked", "fencing"}

LEMMA OwnershipInit == Init => Ownership
BY DEF Init, Ownership, Managing, Fenced

LEMMA OwnershipNext == Ownership /\ [Next]_vars => Ownership'
<1> SUFFICES ASSUME Ownership, [Next]_vars PROVE Ownership'
  OBVIOUS
<1> USE DEF Ownership, Managing, Fenced
<1>1. CASE ParentStarts
  BY <1>1 DEF ParentStarts
<1>2. CASE LoadAndPublish
  BY <1>2 DEF LoadAndPublish
<1>3. CASE OwnedDockerRecovery
  BY <1>3 DEF OwnedDockerRecovery
<1>4. CASE Spawn
  BY <1>4 DEF Spawn
<1>5. CASE SeeExit
  BY <1>5 DEF SeeExit
<1>6. CASE Account
  BY <1>6 DEF Account, Publish
<1>7. CASE BackoffEnds
  BY <1>7 DEF BackoffEnds
<1>8. CASE setQuarantine
  BY <1>8 DEF setQuarantine, Publish
<1>9. CASE Abort
  BY <1>9 DEF Abort
<1>10. CASE CleanShutdown
  BY <1>10 DEF CleanShutdown
<1>11. CASE ParentCrashes
  BY <1>11 DEF ParentCrashes
<1>12. CASE ChildAcquires
  BY <1>12 DEF ChildAcquires
<1>13. CASE PlannedRestart
  BY <1>13 DEF PlannedRestart
<1>14. CASE ChildExits
  BY <1>14 DEF ChildExits
<1>15. CASE OrphanAcquires
  BY <1>15 DEF OrphanAcquires
<1>16. CASE OrphanEnds
  BY <1>16 DEF OrphanEnds
<1>17. CASE acquireExecutionRunLiveness
  BY <1>17 DEF acquireExecutionRunLiveness
<1>18. CASE ProbeManager
  BY <1>18 DEF ProbeManager
<1>19. CASE ProbeReleased
  BY <1>19 DEF ProbeReleased
<1>20. CASE DirectEnds
  BY <1>20 DEF DirectEnds
<1>21. CASE CliStarts
  BY <1>21 DEF CliStarts
<1>22. CASE CliRecovers
  BY <1>22 DEF CliRecovers, CliReleases
<1>23. CASE CliSeals
  BY <1>23 DEF CliSeals, CliReleases
<1>24. CASE CliTimesOut
  BY <1>24 DEF CliTimesOut, CliReleases
<1>25. CASE Tick
  BY <1>25 DEF Tick
<1>26. CASE ClockSetBack
  BY <1>26 DEF ClockSetBack
<1>27. CASE UNCHANGED vars
  BY <1>27 DEF vars
<1> QED
  BY <1>1, <1>2, <1>3, <1>4, <1>5, <1>6, <1>7, <1>8, <1>9, <1>10, <1>11, <1>12, <1>13, <1>14,
     <1>15, <1>16, <1>17, <1>18, <1>19, <1>20, <1>21, <1>22, <1>23, <1>24, <1>25, <1>26, <1>27,
     Zenon DEF Next, ParentStep

THEOREM OwnershipInvariant == Spec => []Ownership
BY OwnershipInit, OwnershipNext, PTL DEF Spec

\* A runtime started by hand never runs beside a supervised one, an orphan, or a
\* parent that is past its fence (acquireExecutionRunLiveness: the fence is taken
\* before the manager lease is probed, and kept).
THEOREM DirectExcludes == Spec => []DirectExcludesSupervised
<1>1. Ownership => DirectExcludesSupervised
  BY DEF Ownership, DirectExcludesSupervised
<1> QED
  BY <1>1, OwnershipInvariant, PTL

(***************************************************************************)
(* The state file.                                                         *)
(***************************************************************************)
Revisions == disk.revision \in Nat /\ mem.revision \in Nat

\* A missing file carries no quarantine; past its fence and out of quarantine the
\* parent's copy is the file and carries none; a quarantined parent's copy either
\* agrees on the quarantine or is too old to be accepted over it.
StateFile ==
    /\ Revisions
    /\ disk.revision = 0 => disk.quarantine = "none"
    /\ parent \in Healthy => mem = disk /\ disk.quarantine = "none"
    /\ parent = "quarantined" /\ disk.quarantine # "none" =>
          mem.quarantine = disk.quarantine \/ mem.revision < disk.revision

\* What a publication leaves behind: the file as it was, or the candidate, which
\* then carries a later revision.
LEMMA StoreEffect ==
  ASSUME NEW candidate, NEW outcome \in Outcomes(candidate), Store(candidate, outcome)
  PROVE  /\ disk' = disk \/ (disk' = candidate /\ candidate.revision > disk.revision)
         /\ outcome = "ok" => disk' = candidate
<1>1. CASE Acceptable(candidate)
  <2>1. candidate.revision > disk.revision
    BY <1>1 DEF Acceptable
  <2>2. (disk' = disk \/ disk' = candidate) /\ (outcome = "ok" => disk' = candidate)
    BY DEF Store
  <2> QED
    BY <2>1, <2>2
<1>2. CASE ~Acceptable(candidate)
  <2>1. Outcomes(candidate) = {"refused"}
    BY <1>2 DEF Outcomes
  <2> QED
    BY <2>1 DEF Store
<1> QED
  BY <1>1, <1>2

LEMMA StateFileInit == Init => StateFile
BY DEF Init, StateFile, Revisions, Missing, Healthy, Managing

LEMMA StateFileNext == Ownership /\ StateFile /\ [Next]_vars => StateFile'
<1> SUFFICES ASSUME Ownership, StateFile, [Next]_vars PROVE StateFile'
  OBVIOUS
<1> USE DEF StateFile, Revisions, Healthy, Managing
<1>1. CASE ParentStarts
  BY <1>1 DEF ParentStarts, Missing
<1>2. CASE LoadAndPublish
  <2>1. CASE disk.revision = 0
    <3> DEFINE initial == [revision |-> 1, clean |-> FALSE, window |-> <<>>, quarantine |-> "none"]
    <3>1. PICK outcome \in Outcomes(initial) :
            /\ Store(initial, outcome)
            /\ mem' = initial
            /\ parent' = IF outcome = "ok" THEN "recovering" ELSE "quarantined"
      BY <1>2, <2>1, SMT DEF LoadAndPublish
    <3>2. /\ disk' = disk \/ disk' = initial
          /\ outcome = "ok" => disk' = initial
      BY <3>1, StoreEffect, Zenon
    <3> QED
      BY <2>1, <3>1, <3>2
  <2>2. CASE disk.revision > 0 /\ disk.quarantine # "none"
    BY <1>2, <2>2 DEF LoadAndPublish
  <2>3. CASE disk.revision > 0 /\ disk.quarantine = "none"
    <3> DEFINE epoch == [revision |-> disk.revision + 1, clean |-> FALSE,
                         window |-> disk.window, quarantine |-> "none"]
    <3>1. PICK outcome \in Outcomes(epoch) :
            /\ Store(epoch, outcome)
            /\ mem' = IF outcome = "ok" THEN epoch ELSE disk
            /\ parent' = IF outcome = "ok" THEN "recovering" ELSE "quarantined"
      <4>1. disk.revision # 0
        BY <2>3
      <4> QED
        BY <1>2, <2>3, <4>1, Zenon DEF LoadAndPublish
    <3>2. /\ disk' = disk \/ disk' = epoch
          /\ outcome = "ok" => disk' = epoch
      BY <3>1, StoreEffect, Zenon
    <3> QED
      BY <2>3, <3>1, <3>2
  <2> QED
    BY <2>1, <2>2, <2>3
<1>3. CASE OwnedDockerRecovery
  BY <1>3 DEF OwnedDockerRecovery
<1>4. CASE Spawn
  BY <1>4 DEF Spawn
<1>5. CASE SeeExit
  BY <1>5 DEF SeeExit
<1>6. CASE Account
  <2>1. CASE planned
    BY <1>6, <2>1 DEF Account
  <2>2. CASE ~planned
    <3>1. PICK window, succeeded :
            /\ succeeded \in {"exhausted", "backoff"}
            /\ Publish(nextState(window, mem.clean, "none"), succeeded, "quarantined")
      BY <1>6, <2>2, Zenon DEF Account
    <3> DEFINE candidate == nextState(window, mem.clean, "none")
    <3>2. candidate.revision \in Nat /\ candidate.quarantine = "none"
      BY SMT DEF nextState
    <3>3. PICK outcome \in Outcomes(candidate) :
            /\ Store(candidate, outcome)
            /\ mem' = IF outcome = "ok" THEN candidate ELSE mem
            /\ parent' = IF outcome = "ok" THEN succeeded ELSE "quarantined"
      BY <3>1, Zenon DEF Publish
    <3>4. /\ disk' = disk \/ (disk' = candidate /\ candidate.revision > disk.revision)
          /\ outcome = "ok" => disk' = candidate
      BY <3>3, StoreEffect, Zenon
    <3>5. mem = disk /\ disk.quarantine = "none"
      BY <1>6 DEF Account
    <3> HIDE DEF candidate
    <3> QED
      BY <3>1, <3>2, <3>3, <3>4, <3>5
  <2> QED
    BY <2>1, <2>2
<1>7. CASE BackoffEnds
  BY <1>7 DEF BackoffEnds
<1>8. CASE setQuarantine
  <2> DEFINE candidate == nextState(mem.window, mem.clean, requestedCode)
  <2>1. candidate.revision = mem.revision + 1
    BY DEF nextState
  <2>2. PICK outcome \in Outcomes(candidate) :
          /\ Store(candidate, outcome)
          /\ mem' = IF outcome = "ok" THEN candidate ELSE mem
          /\ parent' = "quarantined"
    BY <1>8, Zenon DEF setQuarantine, Publish
  <2>3. /\ disk' = disk \/ (disk' = candidate /\ candidate.revision > disk.revision)
        /\ outcome = "ok" => disk' = candidate
    BY <2>2, StoreEffect, Zenon
  <2>4. mem = disk /\ disk.quarantine = "none"
    BY <1>8 DEF setQuarantine
  <2> HIDE DEF candidate
  <2> QED
    BY <2>1, <2>2, <2>3, <2>4
<1>9. CASE Abort
  BY <1>9 DEF Abort
<1>10. CASE CleanShutdown
  <2>1. cleanState.revision = mem.revision + 1 /\ cleanState.quarantine = mem.quarantine
    BY DEF cleanState, nextState
  <2>2. CASE parent = "blocked"
    BY <1>10, <2>2 DEF CleanShutdown
  <2>3. CASE parent \in {"stopping", "quarantined"}
    <3>1. PICK outcome \in Outcomes(cleanState) :
            /\ Store(cleanState, outcome)
            /\ parent' = "off" \/ (parent = "stopping" /\ parent' = "quarantined")
            /\ UNCHANGED mem
      <4>1. CASE parent = "stopping"
        <5>1. /\ UNCHANGED mem
              /\ \E outcome \in Outcomes(cleanState) :
                    /\ Store(cleanState, outcome)
                    /\ parent' = "off" \/ parent' = "quarantined"
          BY <1>10, <4>1 DEF CleanShutdown
        <5> QED
          BY <4>1, <5>1, Zenon
      <4>2. CASE parent = "quarantined"
        <5>1. /\ UNCHANGED mem /\ parent' = "off"
              /\ \E outcome \in Outcomes(cleanState) : Store(cleanState, outcome)
          BY <1>10, <4>2 DEF CleanShutdown
        <5> QED
          BY <5>1, Zenon
      <4> QED
        BY <2>3, <4>1, <4>2, Zenon
    <3>2. disk' = disk \/ (disk' = cleanState /\ cleanState.revision > disk.revision)
      BY <3>1, StoreEffect, Zenon
    <3> QED
      BY <2>1, <2>3, <3>1, <3>2
  <2> QED
    BY <1>10, <2>2, <2>3 DEF CleanShutdown
<1>11. CASE ParentCrashes
  BY <1>11 DEF ParentCrashes
<1>12. CASE ChildAcquires
  BY <1>12 DEF ChildAcquires
<1>13. CASE PlannedRestart
  BY <1>13 DEF PlannedRestart
<1>14. CASE ChildExits
  BY <1>14 DEF ChildExits
<1>15. CASE OrphanAcquires
  BY <1>15 DEF OrphanAcquires
<1>16. CASE OrphanEnds
  BY <1>16 DEF OrphanEnds
<1>17. CASE acquireExecutionRunLiveness
  BY <1>17 DEF acquireExecutionRunLiveness
<1>18. CASE ProbeManager
  BY <1>18 DEF ProbeManager
<1>19. CASE ProbeReleased
  BY <1>19 DEF ProbeReleased
<1>20. CASE DirectEnds
  BY <1>20 DEF DirectEnds
<1>21. CASE CliStarts
  BY <1>21 DEF CliStarts
<1>22. CASE CliRecovers
  <2>1. parent \notin Managing /\ UNCHANGED <<mem, parent>>
    BY <1>22 DEF CliRecovers, Ownership
  <2>2. disk' = disk \/ disk' = recovered
    BY <1>22, StoreEffect, Zenon DEF CliRecovers
  <2>3. recovered.revision = disk.revision + 1
    BY DEF recovered
  <2> QED
    BY <2>1, <2>2, <2>3
<1>23. CASE CliSeals
  <2>1. parent \notin Managing /\ UNCHANGED <<mem, parent>>
    BY <1>23 DEF CliSeals, Ownership
  <2>2. disk' = disk \/ disk' = sealed
    BY <1>23, StoreEffect, Zenon DEF CliSeals
  <2>3. sealed.revision = disk.revision + 1
    BY DEF sealed
  <2> QED
    BY <2>1, <2>2, <2>3
<1>24. CASE CliTimesOut
  BY <1>24 DEF CliTimesOut
<1>25. CASE Tick
  BY <1>25 DEF Tick
<1>26. CASE ClockSetBack
  BY <1>26 DEF ClockSetBack
<1>27. CASE UNCHANGED vars
  BY <1>27 DEF vars
<1> QED
  BY <1>1, <1>2, <1>3, <1>4, <1>5, <1>6, <1>7, <1>8, <1>9, <1>10, <1>11, <1>12, <1>13, <1>14,
     <1>15, <1>16, <1>17, <1>18, <1>19, <1>20, <1>21, <1>22, <1>23, <1>24, <1>25, <1>26, <1>27,
     Zenon DEF Next, ParentStep

THEOREM StateFileInvariant == Spec => []StateFile
BY StateFileInit, StateFileNext, OwnershipInvariant, PTL DEF Spec

\* While a quarantine is on disk no parent is in its loop and no child is served
\* (run returns to quarantineAndWait on every path that records one).
THEOREM ZeroChildren == Spec => []QuarantineHoldsZeroChildren
<1>1. StateFile => QuarantineHoldsZeroChildren
  BY DEF StateFile, QuarantineHoldsZeroChildren, Healthy, Managing
<1> QED
  BY <1>1, StateFileInvariant, PTL

\* Only the recovery command lifts a quarantine, and only that of the exhausted
\* budget: no parent publishes an older copy of the state over it, however its
\* own publications failed (publish in supervisor-state.ts).
THEOREM Sticky == Spec => QuarantineIsSticky
<1> DEFINE Lifted == disk.quarantine # "none" /\ disk'.quarantine # disk.quarantine
           Allowed == cli = "fencing" /\ disk.quarantine = "RESTART_BUDGET_EXHAUSTED"
<1>1. StateFile /\ [Next]_vars => [Lifted => Allowed]_vars
  <2> SUFFICES ASSUME StateFile, Next, disk.quarantine # "none",
                      disk'.quarantine # disk.quarantine
               PROVE  Allowed
    OBVIOUS
  <2>1. disk' # disk
    OBVIOUS
  <2>2. parent \notin Healthy /\ disk.revision # 0
    BY DEF StateFile
  <2>3. CASE LoadAndPublish
    BY <2>1, <2>2, <2>3, Zenon DEF LoadAndPublish
  <2>4. CASE CleanShutdown
    <3>1. parent = "quarantined" /\ \E outcome \in Outcomes(cleanState) : Store(cleanState, outcome)
      <4>1. parent # "stopping"
        BY <2>2 DEF Healthy, Managing
      <4> QED
        BY <2>1, <2>4, <4>1, Zenon DEF CleanShutdown
    <3>2. disk' = cleanState /\ cleanState.revision > disk.revision
      BY <2>1, <3>1, StoreEffect, Zenon
    <3>3. cleanState.revision = mem.revision + 1 /\ cleanState.quarantine = mem.quarantine
      BY DEF cleanState, nextState
    <3> QED
      BY <3>1, <3>2, <3>3 DEF StateFile, Revisions
  <2>5. CASE CliRecovers
    BY <2>1, <2>5, Zenon DEF CliRecovers
  <2>6. CASE CliSeals
    <3>1. disk' = sealed
      BY <2>1, <2>6, StoreEffect, Zenon DEF CliSeals
    <3> QED
      BY <3>1 DEF sealed
  <2>7. CASE Account \/ setQuarantine
    BY <2>2, <2>7 DEF Account, setQuarantine, Healthy, Managing
  <2>8. CASE ParentStarts \/ OwnedDockerRecovery \/ Spawn \/ SeeExit \/ BackoffEnds \/ Abort \/ ParentCrashes
    BY <2>1, <2>8, Zenon DEF ParentStarts, OwnedDockerRecovery, Spawn, SeeExit, BackoffEnds, Abort,
       ParentCrashes
  <2>9. CASE ChildAcquires \/ PlannedRestart \/ ChildExits \/ OrphanAcquires \/ OrphanEnds
             \/ acquireExecutionRunLiveness \/ ProbeManager \/ ProbeReleased \/ DirectEnds
    BY <2>1, <2>9, Zenon DEF ChildAcquires, PlannedRestart, ChildExits, OrphanAcquires, OrphanEnds,
       acquireExecutionRunLiveness, ProbeManager, ProbeReleased, DirectEnds
  <2>10. CASE CliStarts \/ CliTimesOut \/ Tick \/ ClockSetBack
    BY <2>1, <2>10, Zenon DEF CliStarts, CliTimesOut, Tick, ClockSetBack
  <2> QED
    BY <2>3, <2>4, <2>5, <2>6, <2>7, <2>8, <2>9, <2>10, Zenon DEF Next, ParentStep
<1> QED
  BY <1>1, StateFileInvariant, PTL DEF Spec, QuarantineIsSticky

(***************************************************************************)
(* The restart receipt, for every set of chats, updates and callers.       *)
(*                                                                         *)
(* Backing carries the safety of an exit: a prepared receipt that nobody   *)
(* withdrew is in place and durable, and every caller holds it or holds a  *)
(* withdrawn one.  Evidence carries the single restart: until a file       *)
(* operation fails, the running process knows both receipt files exactly,  *)
(* so it recognises the update it has already served.                      *)
(***************************************************************************)

\* The empty values are of their types and distinct from the intents.
LEMMA SlotValues ==
    /\ None \in Slots /\ Idle \in Activities /\ Down \in Instances
    /\ None.upd = 0 /\ None \notin Intents
    /\ ~Down.up /\ ~Down.ambiguous /\ ~Down.committed
    /\ Down.prepared = None /\ Down.recovered = None
    /\ Idle.at = "idle" /\ Idle.intent = None
BY DEF Slots, None, Idle, Activities, Down, Instances, Intents

\* Writing one of the two receipt files leaves the other.
LEMMA DirectoryUpdates ==
    ASSUME NEW d \in Directories, NEW i \in Slots
    PROVE  /\ d.path \in Slots /\ d.prev \in Slots
           /\ [d EXCEPT !.path = i] \in Directories
           /\ [d EXCEPT !.path = i].path = i /\ [d EXCEPT !.path = i].prev = d.prev
           /\ [d EXCEPT !.prev = i] \in Directories
           /\ [d EXCEPT !.prev = i].prev = i /\ [d EXCEPT !.prev = i].path = d.path
BY DEF Directories

\* The fields of a process instance.
LEMMA InstanceFields ==
    ASSUME NEW r \in Instances
    PROVE  /\ r.up \in BOOLEAN /\ r.ambiguous \in BOOLEAN /\ r.committed \in BOOLEAN
           /\ r.prepared \in Slots /\ r.previous \in Slots /\ r.recovered \in Slots
BY DEF Instances

\* Setting the prepared receipt or the ambiguous flag leaves the other fields.
LEMMA InstanceUpdates ==
    ASSUME NEW r \in Instances, NEW i \in Slots
    PROVE  /\ [r EXCEPT !.prepared = i] \in Instances
           /\ [r EXCEPT !.prepared = i].up = r.up
           /\ [r EXCEPT !.prepared = i].ambiguous = r.ambiguous
           /\ [r EXCEPT !.prepared = i].prepared = i
           /\ [r EXCEPT !.prepared = i].recovered = r.recovered
           /\ [r EXCEPT !.ambiguous = TRUE] \in Instances
           /\ [r EXCEPT !.ambiguous = TRUE].up = r.up
           /\ [r EXCEPT !.ambiguous = TRUE].ambiguous
           /\ [r EXCEPT !.ambiguous = TRUE].prepared = r.prepared
           /\ [r EXCEPT !.ambiguous = TRUE].recovered = r.recovered
BY Zenon DEF Instances

\* Updates of two fields at once.
LEMMA DoubleUpdates ==
    ASSUME NEW r \in Instances
    PROVE  /\ [r EXCEPT !.previous = None, !.recovered = None] \in Instances
           /\ [r EXCEPT !.previous = None, !.recovered = None].up = r.up
           /\ [r EXCEPT !.previous = None, !.recovered = None].ambiguous = r.ambiguous
           /\ [r EXCEPT !.previous = None, !.recovered = None].prepared = r.prepared
           /\ [r EXCEPT !.previous = None, !.recovered = None].recovered = None
           /\ [r EXCEPT !.recovered = None, !.ambiguous = TRUE] \in Instances
           /\ [r EXCEPT !.recovered = None, !.ambiguous = TRUE].up = r.up
           /\ [r EXCEPT !.recovered = None, !.ambiguous = TRUE].ambiguous
           /\ [r EXCEPT !.recovered = None, !.ambiguous = TRUE].prepared = r.prepared
           /\ [r EXCEPT !.committed = TRUE, !.ambiguous = TRUE] \in Instances
           /\ [r EXCEPT !.committed = TRUE, !.ambiguous = TRUE].up = r.up
           /\ [r EXCEPT !.committed = TRUE, !.ambiguous = TRUE].ambiguous
           /\ [r EXCEPT !.committed = TRUE, !.ambiguous = TRUE].prepared = r.prepared
<1>1. None \in Slots
  BY SlotValues
<1> QED
  BY <1>1, Zenon DEF Instances

\* What a starting process takes over from the directory.
LEMMA StartUpEffect ==
    ASSUME NEW i \in Slots, NEW b \in BOOLEAN, StartUp(i, b)
    PROVE  /\ run' \in Instances /\ run'.up /\ (run'.ambiguous <=> b)
           /\ run'.prepared = None /\ run'.recovered = i
BY SlotValues, Zenon DEF StartUp, Instances, Down

\* Giving one caller another activity keeps the type.
LEMMA ActivityUpdates ==
    ASSUME NEW w \in [Callers -> Activities], NEW c \in Callers, NEW a \in Activities
    PROVE  /\ [w EXCEPT ![c] = a] \in [Callers -> Activities]
           /\ [w EXCEPT ![c] = a][c] = a
           /\ \A d \in Callers : d # c => [w EXCEPT ![c] = a][d] = w[d]
BY Zenon

\* A caller moves on with the intent it holds.
LEMMA ActivityMoves ==
    ASSUME NEW w \in [Callers -> Activities], NEW c \in Callers, w[c].at # "idle",
           NEW a \in {"saying", "committing", "authorizing"}
    PROVE  /\ [w EXCEPT ![c].at = a] \in [Callers -> Activities]
           /\ [w EXCEPT ![c].at = a][c].intent = w[c].intent
           /\ \A d \in Callers : d # c => [w EXCEPT ![c].at = a][d] = w[d]
<1> DEFINE moved == [w[c] EXCEPT !.at = a]
<1>1. w[c] \in [at : {"saying", "committing", "authorizing"}, intent : Intents]
  BY SlotValues DEF Activities
<1>2. moved \in Activities /\ moved.intent = w[c].intent
  BY <1>1 DEF Activities
<1> HIDE DEF moved
<1>3. [w EXCEPT ![c].at = a] = [w EXCEPT ![c] = moved]
  BY Zenon DEF moved
<1> QED
  BY <1>2, <1>3, ActivityUpdates, ZenonT(60)

\* The first start finds an empty directory.
LEMMA ReceiptTypesInit == ReceiptInit => ReceiptTypeOK
<1> SUFFICES ASSUME ReceiptInit PROVE ReceiptTypeOK
  OBVIOUS
<1>1. files \in Directories /\ stable \in Directories
  BY SlotValues DEF ReceiptInit, Directories
<1>2. run \in Instances /\ who \in [Callers -> Activities] /\ exited \in Slots
  BY SlotValues, Zenon DEF ReceiptInit
<1>3. tg \in Pollings /\ ran \in [Updates -> Nat]
  BY ReceiptBounds DEF ReceiptInit, Pollings
<1>4. intents \in 0 .. MaxIntents /\ deaths \in 0 .. MaxDeaths /\ failures \in 0 .. MaxFailures /\ turns \in 0 .. 1
  BY ReceiptBounds DEF ReceiptInit
<1>5. withdrawn \subseteq Intents /\ bound \subseteq Updates
  BY Zenon DEF ReceiptInit
<1>6. exitPermit \in BOOLEAN /\ outstanding \in BOOLEAN /\ rotation \in BOOLEAN
  BY Zenon DEF ReceiptInit
<1> QED
  BY <1>1, <1>2, <1>3, <1>4, <1>5, <1>6, Zenon DEF ReceiptTypeOK

\* A failing file-system call uses up one of the failures, a succeeding one none.
LEMMA FaultEffect ==
    ASSUME ReceiptTypeOK
    PROVE  /\ Fault => failures' \in 0 .. MaxFailures /\ failures' # 0
           /\ NoFault => failures' \in 0 .. MaxFailures /\ failures' = failures
BY ReceiptBounds DEF ReceiptTypeOK, Fault, NoFault

\* A process that dies loses everything but the directory.
LEMMA DieEffect ==
    ASSUME ReceiptTypeOK, Die
    PROVE  /\ run' \in Instances /\ ~run'.up /\ run'.prepared = None
           /\ exitPermit' \in BOOLEAN /\ outstanding' \in BOOLEAN /\ turns' \in 0 .. 1
           /\ who' \in [Callers -> Activities] /\ \A c \in Callers : who'[c] = Idle
           /\ tg' \in Pollings
<1>1. run' \in Instances /\ ~run'.up /\ run'.prepared = None
  BY SlotValues, Zenon DEF Die
<1>2. exitPermit' \in BOOLEAN /\ outstanding' \in BOOLEAN
  BY Zenon DEF Die
<1>5. turns' \in 0 .. 1
  BY DEF Die
<1>3. who' \in [Callers -> Activities] /\ \A c \in Callers : who'[c] = Idle
  BY SlotValues, Zenon DEF Die
<1>4. tg' \in Pollings
  BY DEF Die, ReceiptTypeOK, Pollings
<1> QED
  BY <1>1, <1>2, <1>3, <1>4, <1>5, Zenon

\* What withdrawing an intent changes (cancel, cancelPublishedReceipt).
LEMMA CancelEffect ==
    ASSUME ReceiptTypeOK, NEW intent \in Intents, run.prepared = intent,
           cancelPublishedReceipt(intent)
    PROVE  /\ files' \in Directories /\ stable' \in Directories /\ run' \in Instances
           /\ failures' \in 0 .. MaxFailures
           /\ withdrawn' \in {withdrawn, withdrawn \cup {intent}}
           /\ run'.up = run.up /\ run'.recovered = run.recovered /\ files'.prev = files.prev
           /\ run.ambiguous => run'.ambiguous
           /\ files'.path \in {files.path, None}
           /\ \/ files' = files /\ stable' = stable /\ run'.prepared = run.prepared
              \/ intent \in withdrawn' /\ run'.prepared \in {None, intent}
           /\ failures' = 0 => failures = 0
           /\ failures' = 0 /\ files.path = run.prepared => files'.path = run'.prepared /\ run'.prepared = None
<1> DEFINE removed == [files EXCEPT !.path = None]
<1>2. /\ intent \in Slots /\ None \in Slots
      /\ run \in Instances /\ files \in Directories /\ stable \in Directories
  BY DEF ReceiptTypeOK, Slots
<1>1. /\ removed \in Directories /\ removed.path = None /\ removed.prev = files.prev
  BY <1>2, DirectoryUpdates, Zenon
<1> HIDE DEF removed
<1>3. CASE /\ files.path = intent
           /\ files' = removed /\ stable' = files'
           /\ run' = [run EXCEPT !.prepared = None]
           /\ withdrawn' = withdrawn \cup {intent} /\ NoFault
  <2>1. /\ run' \in Instances /\ run'.up = run.up /\ run'.ambiguous = run.ambiguous
        /\ run'.prepared = None /\ run'.recovered = run.recovered
    BY <1>2, <1>3, InstanceUpdates, SlotValues, Zenon
  <2>2. failures' \in 0 .. MaxFailures /\ failures' = failures
    BY <1>3, FaultEffect
  <2> QED
    BY <1>1, <1>3, <2>1, <2>2, Zenon
<1>4. CASE /\ files.path # intent
           /\ run' = [run EXCEPT !.ambiguous = TRUE]
           /\ UNCHANGED <<files, stable, withdrawn>> /\ NoFault
  <2>1. /\ run' \in Instances /\ run'.up = run.up /\ run'.ambiguous
        /\ run'.prepared = run.prepared /\ run'.recovered = run.recovered
    BY <1>2, <1>4, InstanceUpdates, Zenon
  <2>2. failures' \in 0 .. MaxFailures /\ failures' = failures
    BY <1>4, FaultEffect
  <2> QED
    BY <1>2, <1>4, <2>1, <2>2, Zenon
<1>5. CASE /\ files.path = intent /\ Fault
           /\ files' \in {files, removed} /\ UNCHANGED stable
           /\ run' = [run EXCEPT !.ambiguous = TRUE]
           /\ withdrawn' = withdrawn \cup {intent}
  <2>1. /\ run' \in Instances /\ run'.up = run.up /\ run'.ambiguous
        /\ run'.prepared = run.prepared /\ run'.recovered = run.recovered
    BY <1>2, <1>5, InstanceUpdates, Zenon
  <2>2. failures' \in 0 .. MaxFailures /\ failures' # 0
    BY <1>5, FaultEffect
  <2> QED
    BY <1>1, <1>2, <1>5, <2>1, <2>2, Zenon
<1> QED
  BY <1>3, <1>4, <1>5, Zenon DEF cancelPublishedReceipt, removed

\* What publishing a receipt changes, in each of its outcomes (publishIntent).
LEMMA PublishEffect ==
    ASSUME ReceiptTypeOK, NEW intent \in Intents, run.prepared = None, publishIntent(intent)
    PROVE  /\ files' \in Directories /\ stable' \in Directories /\ run' \in Instances
           /\ failures' \in 0 .. MaxFailures
           /\ run'.up = run.up /\ run'.recovered = run.recovered /\ files'.prev = files.prev
           /\ failures' = 0 => failures = 0
           /\ \/ /\ run'.prepared = None
                 /\ failures' = 0 => files' = files
              \/ /\ run'.prepared = intent /\ files'.path = intent /\ stable'.path = intent
<1> DEFINE published == [files EXCEPT !.path = intent]
<1>1. intent \in Slots /\ run \in Instances /\ files \in Directories /\ stable \in Directories
  BY DEF ReceiptTypeOK, Slots
<1>2. /\ published \in Directories /\ published.path = intent /\ published.prev = files.prev
  BY <1>1, DirectoryUpdates, Zenon
<1> HIDE DEF published
<1>3. CASE /\ files.path = None
           /\ files' = published /\ stable' = published
           /\ run' = [run EXCEPT !.prepared = intent] /\ NoFault
  <2>1. /\ run' \in Instances /\ run'.up = run.up
        /\ run'.prepared = intent /\ run'.recovered = run.recovered
    BY <1>1, <1>3, InstanceUpdates, Zenon
  <2>2. failures' \in 0 .. MaxFailures /\ failures' = failures
    BY <1>3, FaultEffect
  <2> QED
    BY <1>1, <1>2, <1>3, <2>1, <2>2, Zenon
<1>4. CASE /\ run' = [run EXCEPT !.ambiguous = TRUE] \/ run' = run
           /\ \/ UNCHANGED <<files, stable>> /\ NoFault
              \/ Fault /\ files' \in {files, published} /\ stable' \in {stable, files, published}
  <2>1. /\ run' \in Instances /\ run'.up = run.up
        /\ run'.prepared = run.prepared /\ run'.recovered = run.recovered
    BY <1>1, <1>4, InstanceUpdates, Zenon
  <2>2. CASE UNCHANGED <<files, stable>> /\ NoFault
    <3>1. failures' \in 0 .. MaxFailures /\ failures' = failures
      BY <2>2, FaultEffect
    <3> QED
      BY <1>1, <2>1, <2>2, <3>1, Zenon
  <2>3. CASE Fault /\ files' \in {files, published} /\ stable' \in {stable, files, published}
    <3>1. failures' \in 0 .. MaxFailures /\ failures' # 0
      BY <2>3, FaultEffect
    <3> QED
      BY <1>1, <1>2, <2>1, <2>3, <3>1, Zenon
  <2> QED
    BY <1>4, <2>2, <2>3
<1> QED
  BY <1>3, <1>4, Zenon DEF publishIntent, published

\* What preparing an exit changes, in each of its outcomes (prepare).
LEMMA PrepareEffect ==
    ASSUME ReceiptTypeOK, NEW c \in Callers, NEW u \in 0 .. MaxUpdate,
           NEW then \in {"saying", "committing"}, prepare(c, u, then)
    PROVE  /\ files' \in Directories /\ stable' \in Directories /\ run' \in Instances
           /\ who' \in [Callers -> Activities]
           /\ intents' \in 0 .. MaxIntents /\ failures' \in 0 .. MaxFailures
           /\ run'.up = run.up /\ run'.recovered = run.recovered /\ files'.prev = files.prev
           /\ run.ambiguous => run' = run /\ files' = files
           /\ failures' = 0 => failures = 0
           /\ \A d \in Callers : d # c => who'[d] = who[d]
           /\ \/ /\ run'.prepared = run.prepared
                 /\ run.prepared = None \/ (files' = files /\ stable' = stable)
                 /\ who'[c] = Idle \/ (who'[c].intent = run.prepared /\ run.prepared # None)
                 /\ failures' = 0 => files' = files
              \/ /\ run.prepared = None /\ run'.prepared # None /\ run'.prepared.upd = u
                 /\ files'.path = run'.prepared /\ stable'.path = run'.prepared
                 /\ who'[c].intent = run'.prepared
<1>1. /\ run \in Instances /\ files \in Directories /\ stable \in Directories
      /\ who \in [Callers -> Activities] /\ run.prepared \in Slots
  BY InstanceFields, Zenon DEF ReceiptTypeOK
<1>2. \A i \in Slots : i # None => [at |-> then, intent |-> i] \in Activities
  BY DEF Activities, Slots
<1>3. intents \in 0 .. MaxIntents
  BY DEF ReceiptTypeOK
<1>4. CASE /\ ~run.ambiguous /\ run.prepared # None
           /\ who' = [who EXCEPT ![c] = [at |-> then, intent |-> run.prepared]]
           /\ UNCHANGED <<files, stable, run, intents>> /\ NoFault
  <2>1. /\ who' \in [Callers -> Activities] /\ who'[c] = [at |-> then, intent |-> run.prepared]
        /\ \A d \in Callers : d # c => who'[d] = who[d]
    BY <1>1, <1>2, <1>4, ActivityUpdates, ZenonT(60)
  <2>2. failures' \in 0 .. MaxFailures /\ failures' = failures
    BY <1>4, FaultEffect
  <2>3. who'[c].intent = run.prepared
    BY <2>1
  <2> QED
    BY <1>1, <1>3, <1>4, <2>1, <2>2, <2>3, Zenon
<1>5. CASE /\ who' = [who EXCEPT ![c] = Idle]
           /\ UNCHANGED <<files, stable, run, intents>> /\ NoFault
  <2>1. /\ who' \in [Callers -> Activities] /\ who'[c] = Idle
        /\ \A d \in Callers : d # c => who'[d] = who[d]
    BY <1>1, <1>5, ActivityUpdates, SlotValues, ZenonT(60)
  <2>2. failures' \in 0 .. MaxFailures /\ failures' = failures
    BY <1>5, FaultEffect
  <2> QED
    BY <1>1, <1>3, <1>5, <2>1, <2>2, Zenon
<1>6. CASE /\ ~run.ambiguous /\ run.prepared = None
           /\ intents < MaxIntents
           /\ LET intent == [id |-> intents + 1, upd |-> u] IN
              /\ publishIntent(intent)
              /\ who' = [who EXCEPT ![c] =
                            IF run'.prepared = intent THEN [at |-> then, intent |-> intent] ELSE Idle]
           /\ intents' = intents + 1
  <2> DEFINE intent == [id |-> intents + 1, upd |-> u]
             claim == IF run'.prepared = intent THEN [at |-> then, intent |-> intent] ELSE Idle
  <2>1. intents' \in 0 .. MaxIntents
    BY <1>3, <1>6, ReceiptBounds
  <2>2. intent \in Intents /\ intent.upd = u
    BY <1>3, <1>6, ReceiptBounds DEF Intents
  <2>3. publishIntent(intent) /\ who' = [who EXCEPT ![c] = claim]
    BY <1>6, Zenon
  <2> HIDE DEF intent
  <2>4. intent \in Slots /\ intent # None
    BY <2>2, SlotValues DEF Slots
  <2>5. claim \in Activities
    BY <1>2, <2>4, SlotValues, Zenon
  <2>6. claim = Idle \/ (claim.intent = intent /\ run'.prepared = intent)
    OBVIOUS
  <2>7. run'.prepared = intent => claim.intent = intent
    OBVIOUS
  <2> HIDE DEF claim
  <2>8. /\ who' \in [Callers -> Activities] /\ who'[c] = claim
        /\ \A d \in Callers : d # c => who'[d] = who[d]
    BY <1>1, <2>3, <2>5, ActivityUpdates, ZenonT(60)
  <2>9. /\ files' \in Directories /\ stable' \in Directories /\ run' \in Instances
        /\ failures' \in 0 .. MaxFailures
        /\ run'.up = run.up /\ run'.recovered = run.recovered /\ files'.prev = files.prev
        /\ failures' = 0 => failures = 0
        /\ \/ /\ run'.prepared = None
              /\ failures' = 0 => files' = files
           \/ /\ run'.prepared = intent /\ files'.path = intent /\ stable'.path = intent
    BY <1>6, <2>2, <2>3, PublishEffect, Zenon
  <2>10. CASE run'.prepared = intent /\ files'.path = intent /\ stable'.path = intent
    BY <1>6, <2>1, <2>2, <2>4, <2>7, <2>8, <2>9, <2>10, Zenon
  <2>11. CASE /\ run'.prepared = None
              /\ failures' = 0 => files' = files
    BY <1>6, <2>1, <2>4, <2>6, <2>8, <2>9, <2>11, Zenon
  <2> QED
    BY <2>9, <2>10, <2>11, Zenon
<1> QED
  BY <1>4, <1>5, <1>6, Zenon DEF prepare

\* Every step keeps the types.
LEMMA ReceiptTypesNext == ReceiptTypeOK /\ [ReceiptNext]_receiptVars => ReceiptTypeOK'
<1> SUFFICES ASSUME ReceiptTypeOK, [ReceiptNext]_receiptVars PROVE ReceiptTypeOK'
  OBVIOUS
<1>1. /\ run \in Instances /\ files \in Directories /\ stable \in Directories
      /\ who \in [Callers -> Activities] /\ exited \in Slots
      /\ exitPermit \in BOOLEAN /\ outstanding \in BOOLEAN /\ rotation \in BOOLEAN
      /\ withdrawn \subseteq Intents /\ bound \subseteq Updates
  BY Zenon DEF ReceiptTypeOK
<1>2. tg \in Pollings /\ turns \in 0 .. 1 /\ ran \in [Updates -> Nat]
  BY DEF ReceiptTypeOK
<1>3. intents \in 0 .. MaxIntents /\ deaths \in 0 .. MaxDeaths /\ failures \in 0 .. MaxFailures
  BY DEF ReceiptTypeOK
<1>4. /\ None \in Slots /\ Idle \in Activities /\ "telegram" \in Callers /\ "nightly" \in Callers
      /\ TRUE \in BOOLEAN /\ FALSE \in BOOLEAN
  BY SlotValues DEF Callers
<1>5. deaths < MaxDeaths /\ deaths' = deaths + 1 => deaths' \in 0 .. MaxDeaths
  BY <1>3, ReceiptBounds
<1>6. /\ files.path \in Slots /\ files.prev \in Slots
      /\ [files EXCEPT !.prev = None] \in Directories
  BY <1>1, <1>4, DirectoryUpdates
<1>7. tg.tried < tg.fetched => NextUpdate \in Updates /\ [tg EXCEPT !.tried = NextUpdate] \in Pollings
  BY <1>2, ReceiptBounds DEF NextUpdate, Updates, Pollings
<1>8. CASE Start
  <2>1. run' \in Instances /\ files' \in Directories /\ stable' \in Directories /\ failures' \in 0 .. MaxFailures
    <3>1. Consumed \in Directories
      BY <1>4, <1>6 DEF Consumed, Directories
    <3> QED
      BY <1>1, <1>4, <1>6, <1>8, <3>1, FaultEffect, StartUpEffect, Zenon DEF Start, consumePrevious
  <2> QED
    BY <1>1, <1>2, <1>3, <1>4, <1>8, <2>1, Zenon DEF Start, ReceiptTypeOK
<1>9. CASE Fetch
  <2>1. tg' \in Pollings
    BY <1>2, <1>9, ReceiptBounds DEF Fetch, Pollings
  <2> QED
    BY <1>1, <1>2, <1>3, <1>9, <2>1, Zenon DEF Fetch, ReceiptTypeOK
<1>10. CASE Absorb
  BY <1>1, <1>2, <1>3, <1>7, <1>10, Zenon DEF Absorb, ReceiptTypeOK
<1>11. CASE acknowledgePrevious
  <2>1. files' \in Directories /\ stable' \in Directories
    BY <1>1, <1>6, <1>11, Zenon DEF acknowledgePrevious
  <2>2. run' \in Instances
    BY <1>1, <1>11, DoubleUpdates, Zenon DEF acknowledgePrevious
  <2>3. failures' \in 0 .. MaxFailures
    BY <1>11, FaultEffect, Zenon DEF acknowledgePrevious
  <2> QED
    BY <1>1, <1>2, <1>3, <1>11, <2>1, <2>2, <2>3, Zenon DEF acknowledgePrevious, ReceiptTypeOK
<1>12. CASE Handle
  <2>1. NextUpdate \in Updates /\ tg' \in Pollings
    BY <1>7, <1>12, Zenon DEF Handle, Passes
  <2>2. ran' \in [Updates -> Nat]
    BY <1>2, <1>12, <2>1 DEF Handle
  <2>3. NextUpdate \in 0 .. MaxUpdate
    BY <2>1, ReceiptBounds DEF Updates
  <2>4. /\ files' \in Directories /\ stable' \in Directories /\ run' \in Instances
        /\ who' \in [Callers -> Activities]
        /\ intents' \in 0 .. MaxIntents /\ failures' \in 0 .. MaxFailures
    BY <1>1, <1>3, <1>4, <1>12, <2>3, PrepareEffect, Zenon DEF Handle
  <2> QED
    BY <1>1, <1>2, <1>3, <1>12, <2>1, <2>2, <2>4, Zenon DEF Handle, ReceiptTypeOK
<1>13. CASE TickNightlyRecovery
  <2>1. 0 \in 0 .. MaxUpdate
    BY ReceiptBounds
  <2>2. /\ files' \in Directories /\ stable' \in Directories /\ run' \in Instances
        /\ who' \in [Callers -> Activities]
        /\ intents' \in 0 .. MaxIntents /\ failures' \in 0 .. MaxFailures
    BY <1>4, <1>13, <2>1, PrepareEffect, Zenon DEF TickNightlyRecovery
  <2> QED
    BY <1>1, <1>2, <1>3, <1>13, <2>2, Zenon DEF TickNightlyRecovery, ReceiptTypeOK
<1>14. CASE RotationAsksForRestart
  BY <1>1, <1>2, <1>3, <1>14, Zenon DEF RotationAsksForRestart, ReceiptTypeOK
<1>15. CASE SayDelivered
  <2>1. who' \in [Callers -> Activities]
    <3>1. who["telegram"].at # "idle"
      BY <1>15 DEF SayDelivered
    <3> QED
      BY <1>1, <1>4, <1>15, <3>1, ActivityMoves, Zenon DEF SayDelivered
  <2> QED
    BY <1>1, <1>2, <1>3, <1>15, <2>1, Zenon DEF SayDelivered, ReceiptTypeOK
<1>16. ASSUME NEW c \in Callers, who[c].at # "idle" PROVE who[c].intent \in Intents
  BY <1>1, <1>16, SlotValues DEF Activities
<1>17. \A i \in Intents : withdrawn \cup {i} \subseteq Intents
  BY <1>1
<1>18. CASE SayFails
  <2>1. who["telegram"].intent \in Intents
    <3>1. "saying" # "idle"
      OBVIOUS
    <3> QED
      BY <1>4, <1>16, <1>18, <3>1, Zenon DEF SayFails
  <2>2. who' \in [Callers -> Activities]
    BY <1>1, <1>4, <1>18, ActivityUpdates, Zenon DEF SayFails
  <2>3. /\ files' \in Directories /\ stable' \in Directories /\ run' \in Instances
        /\ failures' \in 0 .. MaxFailures /\ withdrawn' \subseteq Intents
    BY <1>1, <1>17, <1>18, <2>1, CancelEffect, FaultEffect, Zenon DEF SayFails, cancel
  <2> QED
    BY <1>1, <1>2, <1>3, <1>18, <2>2, <2>3, Zenon DEF SayFails, ReceiptTypeOK
<1>19. ASSUME NEW c \in Callers, commitExit(c) PROVE ReceiptTypeOK'
  <2>1. who[c].intent \in Intents
    <3>1. "committing" # "idle"
      OBVIOUS
    <3> QED
      BY <1>16, <1>19, <3>1, Zenon DEF commitExit
  <2>2. UNCHANGED <<rotation, exited, bound, ran, intents, deaths>>
    BY <1>19, Zenon DEF commitExit
  <2>3. CASE /\ who' = [who EXCEPT ![c] = Idle]
             /\ UNCHANGED <<files, stable, run, exitPermit, outstanding, turns, tg, withdrawn>> /\ NoFault
    <3>1. who' \in [Callers -> Activities]
      BY <1>1, <1>4, <2>3, ActivityUpdates, ZenonT(60)
    <3> QED
      BY <1>1, <1>2, <1>3, <2>2, <2>3, <3>1, FaultEffect, Zenon DEF ReceiptTypeOK
  <2>4. CASE /\ run.prepared = who[c].intent
             /\ cancelPreparedAtCommit(who[c].intent)
             /\ who' = [who EXCEPT ![c] = Idle]
             /\ UNCHANGED <<exitPermit, outstanding, turns, tg>>
    <3>1. who' \in [Callers -> Activities]
      BY <1>1, <1>4, <2>4, ActivityUpdates, ZenonT(60)
    <3>2. /\ files' \in Directories /\ stable' \in Directories /\ run' \in Instances
          /\ failures' \in 0 .. MaxFailures /\ withdrawn' \subseteq Intents
      BY <1>1, <1>17, <2>1, <2>4, CancelEffect, Zenon DEF cancelPreparedAtCommit
    <3> QED
      BY <1>1, <1>2, <1>3, <2>2, <2>4, <3>1, <3>2, Zenon DEF ReceiptTypeOK
  <2>5. CASE /\ outstanding' = TRUE
             /\ who' = [who EXCEPT ![c].at = "authorizing"]
             /\ UNCHANGED <<files, stable, run, exitPermit, turns, tg, withdrawn>> /\ NoFault
    <3>1. who[c].at # "idle"
      BY <1>19 DEF commitExit
    <3>2. who' \in [Callers -> Activities]
      BY <1>1, <2>5, <3>1, ActivityMoves, Zenon
    <3> QED
      BY <1>1, <1>2, <1>3, <1>4, <2>2, <2>5, <3>2, FaultEffect, Zenon DEF ReceiptTypeOK
  <2>6. CASE Die /\ UNCHANGED <<files, stable, withdrawn>> /\ NoFault
    BY <1>1, <1>2, <1>3, <2>2, <2>6, DieEffect, FaultEffect, Zenon DEF ReceiptTypeOK
  <2> QED
    BY <1>19, <2>3, <2>4, <2>5, <2>6, Zenon DEF commitExit
<1>20. ASSUME NEW c \in Callers, PermitGranted(c) PROVE ReceiptTypeOK'
  <2>1. who[c].intent \in Intents
    <3>1. "authorizing" # "idle"
      OBVIOUS
    <3> QED
      BY <1>16, <1>20, <3>1, Zenon DEF PermitGranted
  <2>2. UNCHANGED <<rotation, ran, intents, deaths>>
    BY <1>20, Zenon DEF PermitGranted
  <2>3. CASE /\ exitPermit' = TRUE /\ outstanding' = FALSE
             /\ cancelPreparedAtCommit(who[c].intent)
             /\ who' = [who EXCEPT ![c] = Idle]
             /\ UNCHANGED <<turns, tg, exited, bound>>
    <3>1. who' \in [Callers -> Activities]
      BY <1>1, <1>4, <2>3, ActivityUpdates, ZenonT(60)
    <3>2. /\ files' \in Directories /\ stable' \in Directories /\ run' \in Instances
          /\ failures' \in 0 .. MaxFailures /\ withdrawn' \subseteq Intents
      <4>1. CASE /\ run' = [run EXCEPT !.ambiguous = TRUE]
                 /\ UNCHANGED <<files, stable, withdrawn>> /\ NoFault
        BY <1>1, <1>4, <4>1, InstanceUpdates, FaultEffect, Zenon
      <4>2. CASE run.prepared = who[c].intent /\ cancelPublishedReceipt(who[c].intent)
        BY <1>1, <1>17, <2>1, <4>2, CancelEffect, Zenon
      <4> QED
        BY <2>3, <4>1, <4>2, Zenon DEF cancelPreparedAtCommit
    <3> QED
      BY <1>1, <1>2, <1>3, <1>4, <2>2, <2>3, <3>1, <3>2, Zenon DEF ReceiptTypeOK
  <2>4. CASE exitAuthorized(c)
    <3>1. bound' \subseteq Updates
      <4>1. {who[c].intent.upd} \ {0} \subseteq Updates
        BY <2>1, ReceiptBounds DEF Intents, Updates
      <4> QED
        BY <1>1, <2>4, <4>1, Zenon DEF exitAuthorized
    <3>2. exited' \in Slots
      BY <2>1, <2>4, Zenon DEF exitAuthorized, Slots
    <3> QED
      BY <1>1, <1>2, <1>3, <2>2, <2>4, <3>1, <3>2, DieEffect, FaultEffect, Zenon DEF exitAuthorized, ReceiptTypeOK
  <2>5. CASE /\ Fault
             /\ exitPermit' = TRUE /\ outstanding' = FALSE
             /\ run' = [run EXCEPT !.committed = TRUE, !.ambiguous = TRUE]
             /\ who' = [who EXCEPT ![c] = Idle]
             /\ UNCHANGED <<files, stable, turns, tg, exited, withdrawn, bound>>
    <3>1. who' \in [Callers -> Activities] /\ run' \in Instances
      BY <1>1, <1>4, <2>5, ActivityUpdates, DoubleUpdates, Zenon
    <3> QED
      BY <1>1, <1>2, <1>3, <1>4, <2>2, <2>5, <3>1, FaultEffect, Zenon DEF ReceiptTypeOK
  <2> QED
    BY <1>20, <2>3, <2>4, <2>5, Zenon DEF PermitGranted
<1>21. CASE PermitRefused
  BY <1>1, <1>2, <1>3, <1>21, DieEffect, FaultEffect, Zenon DEF PermitRefused, ReceiptTypeOK
<1>22. CASE PermitExpires
  BY <1>1, <1>2, <1>3, <1>4, <1>22, Zenon DEF PermitExpires, ReceiptTypeOK
<1>23. CASE TurnStartsOrEnds
  <2>1. turns' \in 0 .. 1
    BY <1>2, <1>23 DEF TurnStartsOrEnds
  <2> QED
    BY <1>1, <1>2, <1>3, <1>23, <2>1, Zenon DEF TurnStartsOrEnds, ReceiptTypeOK
<1>24. CASE Crash
  BY <1>1, <1>2, <1>3, <1>5, <1>24, DieEffect, Zenon DEF Crash, ReceiptTypeOK
<1>25. CASE PowerLoss
  BY <1>1, <1>2, <1>3, <1>5, <1>25, DieEffect, Zenon DEF PowerLoss, ReceiptTypeOK
<1>26. CASE UNCHANGED receiptVars
  BY <1>1, <1>2, <1>3, <1>26, Zenon DEF receiptVars, ReceiptTypeOK
<1> QED
  BY <1>8, <1>9, <1>10, <1>11, <1>12, <1>13, <1>14, <1>15, <1>18, <1>19, <1>20, <1>21, <1>22, <1>23,
     <1>24, <1>25, <1>26, Zenon DEF ReceiptNext

\* The receipt files, the process and its callers keep their types for every set of chats, updates and
\* callers and every number of deaths and failures.
THEOREM ReceiptTypes == ReceiptSpec => []ReceiptTypeOK
BY ReceiptTypesInit, ReceiptTypesNext, PTL DEF ReceiptSpec

\* What the running process knows of the receipt, and what it leaves when it exits: a prepared
\* intent that nobody withdrew is on disk and durable, every caller holds the prepared intent or a
\* withdrawn one, and a process that is gone has no callers.
Backing ==
    /\ run.prepared # None /\ run.prepared \notin withdrawn =>
           files.path = run.prepared /\ stable.path = run.prepared
    /\ \A c \in Callers : who[c].at # "idle" =>
           run.up /\ (who[c].intent = run.prepared \/ who[c].intent \in withdrawn)
    /\ exited # None => ~run.up
    /\ ExitIsBackedUnlessWithdrawn

\* No exit is recorded before the first start.
LEMMA BackingInit == ReceiptInit => Backing
BY SlotValues, Zenon DEF ReceiptInit, Backing, ExitIsBackedUnlessWithdrawn, ExitIsBacked

\* A process that dies leaves the directory and the exit it recorded.
LEMMA BackingDies ==
    ASSUME ReceiptTypeOK, Backing, Die, UNCHANGED <<exited, withdrawn>>,
           files' \in {files, stable}, stable' \in {files, stable}
    PROVE  Backing'
<1>1. run'.prepared = None /\ ~run'.up /\ \A c \in Callers : who'[c] = Idle
  BY DieEffect, Zenon
<1>2. ExitIsBackedUnlessWithdrawn'
  BY Zenon DEF Backing, ExitIsBackedUnlessWithdrawn, ExitIsBacked
<1> QED
  BY <1>1, <1>2, SlotValues, Zenon DEF Backing

\* A step of a running process that ends no process.
LEMMA BackingRuns ==
    ASSUME ReceiptTypeOK, Backing, run.up, exited' = exited, run'.up,
           withdrawn \subseteq withdrawn',
           run'.prepared # None /\ run'.prepared \notin withdrawn' =>
               files'.path = run'.prepared /\ stable'.path = run'.prepared,
           \A c \in Callers : who'[c].at # "idle" =>
               who'[c].intent = run'.prepared \/ who'[c].intent \in withdrawn'
    PROVE  Backing'
BY Zenon DEF Backing, ExitIsBackedUnlessWithdrawn, ExitIsBacked

\* Callers move on or give up.
LEMMA BackingCalls ==
    ASSUME ReceiptTypeOK, Backing, run.up, run'.up, run'.prepared = run.prepared,
           UNCHANGED <<files, stable, exited, withdrawn>>,
           \A d \in Callers : who'[d].at # "idle" =>
               who[d].at # "idle" /\ who'[d].intent = who[d].intent
    PROVE  Backing'
<1>1. run'.prepared # None /\ run'.prepared \notin withdrawn' =>
          files'.path = run'.prepared /\ stable'.path = run'.prepared
  BY Zenon DEF Backing
<1>2. \A d \in Callers : who'[d].at # "idle" =>
          who'[d].intent = run'.prepared \/ who'[d].intent \in withdrawn'
  BY Zenon DEF Backing
<1> QED
  BY <1>1, <1>2, BackingRuns, Zenon

\* A prepared receipt is durable before the caller may exit.
LEMMA BackingPrepare ==
    ASSUME ReceiptTypeOK, Backing, NEW c \in Callers, NEW u \in 0 .. MaxUpdate,
           NEW then \in {"saying", "committing"}, prepare(c, u, then), run.up,
           UNCHANGED <<exited, withdrawn>>
    PROVE  Backing'
<1>1. /\ run'.up = run.up
      /\ \A d \in Callers : d # c => who'[d] = who[d]
      /\ \/ /\ run'.prepared = run.prepared
            /\ run.prepared = None \/ (files' = files /\ stable' = stable)
            /\ who'[c] = Idle \/ (who'[c].intent = run.prepared /\ run.prepared # None)
         \/ /\ run.prepared = None /\ run'.prepared # None
            /\ files'.path = run'.prepared /\ stable'.path = run'.prepared
            /\ who'[c].intent = run'.prepared
  BY PrepareEffect, Zenon
<1>2. \A d \in Callers : who[d].at # "idle" => who[d].intent # None
  BY SlotValues DEF ReceiptTypeOK, Activities
<1>3. CASE /\ run'.prepared = run.prepared
           /\ run.prepared = None \/ (files' = files /\ stable' = stable)
           /\ who'[c] = Idle \/ (who'[c].intent = run.prepared /\ run.prepared # None)
  <2>1. \A d \in Callers : who'[d].at # "idle" =>
            who'[d].intent = run'.prepared \/ who'[d].intent \in withdrawn'
    BY <1>1, <1>3, SlotValues, Zenon DEF Backing
  <2>2. run'.prepared # None /\ run'.prepared \notin withdrawn' =>
            files'.path = run'.prepared /\ stable'.path = run'.prepared
    BY <1>3, Zenon DEF Backing
  <2> QED
    BY <1>1, <2>1, <2>2, BackingRuns, Zenon
<1>4. CASE /\ run.prepared = None /\ run'.prepared # None
           /\ files'.path = run'.prepared /\ stable'.path = run'.prepared
           /\ who'[c].intent = run'.prepared
  <2>1. \A d \in Callers : who'[d].at # "idle" =>
            who'[d].intent = run'.prepared \/ who'[d].intent \in withdrawn'
    BY <1>1, <1>2, <1>4, Zenon DEF Backing
  <2> QED
    BY <1>1, <1>4, <2>1, BackingRuns, Zenon
<1> QED
  BY <1>1, <1>3, <1>4, Zenon

\* A withdrawal removes the receipt or leaves it prepared: its other holders stay accounted for.
LEMMA BackingCancel ==
    ASSUME ReceiptTypeOK, Backing, NEW c \in Callers, who[c].at # "idle",
           run.prepared = who[c].intent, cancelPublishedReceipt(who[c].intent),
           who' = [who EXCEPT ![c] = Idle], exited' = exited
    PROVE  Backing'
<1>1. who[c].intent \in Intents
  BY SlotValues DEF ReceiptTypeOK, Activities
<1>2. /\ withdrawn \subseteq withdrawn' /\ run'.up = run.up
      /\ \/ files' = files /\ stable' = stable /\ run'.prepared = run.prepared
         \/ who[c].intent \in withdrawn' /\ run'.prepared \in {None, who[c].intent}
  BY <1>1, CancelEffect, Zenon
<1>3. who'[c] = Idle /\ \A d \in Callers : d # c => who'[d] = who[d]
  BY ActivityUpdates, SlotValues, ZenonT(60) DEF ReceiptTypeOK
<1>4. \A d \in Callers : who'[d].at # "idle" =>
          who'[d].intent = run'.prepared \/ who'[d].intent \in withdrawn'
  BY <1>2, <1>3, SlotValues, Zenon DEF Backing
<1>5. run'.prepared # None /\ run'.prepared \notin withdrawn' =>
          files'.path = run'.prepared /\ stable'.path = run'.prepared
  BY <1>2, Zenon DEF Backing
<1>6. run.up
  BY Zenon DEF Backing
<1> QED
  BY <1>2, <1>4, <1>5, <1>6, BackingRuns, Zenon

\* Acknowledging the previous receipt leaves the prepared one.
LEMMA AcknowledgeEffect ==
    ASSUME ReceiptTypeOK, acknowledgePrevious
    PROVE  /\ run.up /\ run'.up /\ run'.prepared = run.prepared /\ run'.recovered = None
           /\ run.ambiguous => run'.ambiguous
           /\ files'.path = files.path /\ stable'.path \in {stable.path, files.path}
           /\ failures' = 0 => failures = 0 /\ files'.prev = None
<1> DEFINE erased == [files EXCEPT !.prev = None]
<1>1. files \in Directories /\ run \in Instances /\ None \in Slots
  BY SlotValues DEF ReceiptTypeOK
<1>2. erased.path = files.path /\ erased.prev = None
  BY <1>1, DirectoryUpdates, Zenon
<1> HIDE DEF erased
<1>3. run.up
  BY Zenon DEF acknowledgePrevious, Passes
<1>4. CASE /\ files' = erased /\ stable' = files'
           /\ run' = [run EXCEPT !.previous = None, !.recovered = None] /\ NoFault
  BY <1>1, <1>2, <1>3, <1>4, DoubleUpdates, FaultEffect, Zenon
<1>5. CASE /\ Fault
           /\ files' \in {files, erased} /\ UNCHANGED stable
           /\ run' = [run EXCEPT !.recovered = None, !.ambiguous = TRUE]
  <2>1. run'.recovered = None
    BY <1>1, <1>5, Zenon DEF Instances
  <2> QED
    BY <1>1, <1>2, <1>3, <1>5, <2>1, DoubleUpdates, FaultEffect, Zenon
<1> QED
  BY <1>4, <1>5, Zenon DEF acknowledgePrevious, erased

\* Every step keeps every exit backed by a durable receipt, or withdrawn.
LEMMA BackingNext == ReceiptTypeOK /\ Backing /\ [ReceiptNext]_receiptVars => Backing'
<1> SUFFICES ASSUME ReceiptTypeOK, Backing, [ReceiptNext]_receiptVars PROVE Backing'
  OBVIOUS
<1>1. "telegram" \in Callers /\ "nightly" \in Callers
  BY DEF Callers
<1>2. \A c \in Callers : who[c].at # "idle" =>
          run.up /\ (who[c].intent = run.prepared \/ who[c].intent \in withdrawn)
  BY Zenon DEF Backing
<1>3. CASE UNCHANGED <<files, stable, run, who, exited, withdrawn>>
  BY <1>3, Zenon DEF Backing, ExitIsBackedUnlessWithdrawn, ExitIsBacked
<1>4. CASE Start
  <2>1. ~run.up /\ exited' = None /\ UNCHANGED <<who, withdrawn>>
    BY <1>4, Zenon DEF Start
  <2>2. run'.prepared = None /\ run'.up
    <3>1. files.path \in Slots /\ files.prev \in Slots
      BY DEF ReceiptTypeOK, Directories
    <3> QED
      BY <1>4, <3>1, StartUpEffect, SlotValues, Zenon DEF Start, consumePrevious
  <2> QED
    BY <1>2, <2>1, <2>2, Zenon DEF Backing, ExitIsBackedUnlessWithdrawn, ExitIsBacked
<1>5. CASE acknowledgePrevious
  <2>1. UNCHANGED <<who, exited, withdrawn>>
    BY <1>5, Zenon DEF acknowledgePrevious
  <2>2. run'.prepared # None /\ run'.prepared \notin withdrawn' =>
            files'.path = run'.prepared /\ stable'.path = run'.prepared
    BY <1>5, <2>1, AcknowledgeEffect, Zenon DEF Backing
  <2>3. run.up /\ run'.up /\ run'.prepared = run.prepared
    BY <1>5, AcknowledgeEffect, Zenon
  <2> QED
    BY <1>2, <2>1, <2>2, <2>3, BackingRuns, Zenon
<1>6. CASE Handle
  <2>1. CASE prepare("telegram", NextUpdate, "saying")
    <3>1. NextUpdate \in 0 .. MaxUpdate
      <4>1. tg.tried < tg.fetched /\ tg \in Pollings
        BY <1>6, Zenon DEF Handle, Passes, ReceiptTypeOK
      <4> QED
        BY <4>1, ReceiptBounds DEF NextUpdate, Pollings
    <3> QED
      BY <1>1, <1>6, <2>1, <3>1, BackingPrepare, Zenon DEF Handle, Passes
  <2>2. CASE UNCHANGED <<files, stable, run, who>>
    BY <1>3, <1>6, <2>2, Zenon DEF Handle
  <2> QED
    BY <1>6, <2>1, <2>2, Zenon DEF Handle
<1>7. CASE TickNightlyRecovery
  <2>1. 0 \in 0 .. MaxUpdate
    BY ReceiptBounds
  <2> QED
    BY <1>1, <1>7, <2>1, BackingPrepare, Zenon DEF TickNightlyRecovery
<1>8. CASE SayDelivered
  <2>1. who["telegram"].at = "saying" /\ UNCHANGED <<files, stable, run, exited, withdrawn>>
    BY <1>8, Zenon DEF SayDelivered
  <2>2. \A c \in Callers : who'[c].at # "idle" => who[c].at # "idle" /\ who'[c].intent = who[c].intent
    <3>1. who["telegram"].at # "idle"
      BY <2>1
    <3> QED
      <4>1. who' = [who EXCEPT !["telegram"].at = "committing"] /\ who \in [Callers -> Activities]
        BY <1>8, Zenon DEF SayDelivered, ReceiptTypeOK
      <4>2. "committing" \in {"saying", "committing", "authorizing"}
        OBVIOUS
      <4>3. /\ who'["telegram"].intent = who["telegram"].intent
            /\ \A d \in Callers : d # "telegram" => who'[d] = who[d]
        BY <1>1, <3>1, <4>1, <4>2, ActivityMoves, Zenon
      <4> QED
        BY <3>1, <4>3, Zenon
  <2>3. run.up
    BY <1>1, <1>2, <2>1
  <2> QED
    BY <2>1, <2>2, <2>3, BackingCalls, Zenon
\* a caller gives up and nothing else changes
<1>9. ASSUME NEW c \in Callers, who[c].at # "idle", who' = [who EXCEPT ![c] = Idle],
             UNCHANGED <<files, stable, exited, withdrawn>>, run'.prepared = run.prepared, run'.up = run.up
      PROVE  Backing'
  <2>1. who'[c] = Idle /\ \A d \in Callers : d # c => who'[d] = who[d]
    BY <1>9, ActivityUpdates, SlotValues, ZenonT(60) DEF ReceiptTypeOK
  <2>2. \A d \in Callers : who'[d].at # "idle" => who[d].at # "idle" /\ who'[d].intent = who[d].intent
    BY <2>1, SlotValues, Zenon
  <2> QED
    BY <1>2, <1>9, <2>2, BackingCalls, Zenon
<1>10. CASE SayFails
  <2>1. /\ who["telegram"].at # "idle" /\ exited' = exited
        /\ who' = [who EXCEPT !["telegram"] = Idle]
    BY <1>10 DEF SayFails
  <2>2. CASE UNCHANGED <<files, stable, run, withdrawn>>
    BY <1>1, <1>9, <2>1, <2>2, Zenon
  <2>3. CASE /\ run.prepared = who["telegram"].intent
             /\ cancelPublishedReceipt(who["telegram"].intent)
    BY <1>1, <2>1, <2>3, BackingCancel, Zenon
  <2> QED
    BY <1>10, <2>2, <2>3, Zenon DEF SayFails, cancel
<1>11. ASSUME NEW c \in Callers, commitExit(c) PROVE Backing'
  <2>1. who[c].at # "idle" /\ exited' = exited
    BY <1>11 DEF commitExit
  <2>2. CASE who' = [who EXCEPT ![c] = Idle] /\ UNCHANGED <<files, stable, run, withdrawn>>
    BY <1>9, <2>1, <2>2, Zenon
  <2>3. CASE /\ run.prepared = who[c].intent /\ who' = [who EXCEPT ![c] = Idle]
             /\ cancelPreparedAtCommit(who[c].intent)
    BY <2>1, <2>3, BackingCancel, Zenon DEF cancelPreparedAtCommit
  <2>4. CASE /\ who' = [who EXCEPT ![c].at = "authorizing"]
             /\ UNCHANGED <<files, stable, run, withdrawn>>
    <3>1. \A d \in Callers : who'[d].at # "idle" => who[d].at # "idle" /\ who'[d].intent = who[d].intent
      <4>1. who \in [Callers -> Activities]
        BY Zenon DEF ReceiptTypeOK
      <4>2. "authorizing" \in {"saying", "committing", "authorizing"}
        OBVIOUS
      <4>3. /\ who'[c].intent = who[c].intent
            /\ \A d \in Callers : d # c => who'[d] = who[d]
        BY <2>1, <2>4, <4>1, <4>2, ActivityMoves, Zenon
      <4> QED
        BY <2>1, <4>3, Zenon
    <3> QED
      BY <1>2, <2>1, <2>4, <3>1, BackingCalls, Zenon
  <2>5. CASE Die /\ UNCHANGED <<files, stable, withdrawn>>
    BY <2>1, <2>5, BackingDies, Zenon
  <2> QED
    BY <1>11, <2>2, <2>3, <2>4, <2>5, Zenon DEF commitExit
<1>12. ASSUME NEW c \in Callers, PermitGranted(c) PROVE Backing'
  <2>1. who[c].at # "idle"
    BY <1>12 DEF PermitGranted
  <2>2. CASE /\ cancelPreparedAtCommit(who[c].intent)
             /\ who' = [who EXCEPT ![c] = Idle] /\ exited' = exited
    <3>1. CASE run' = [run EXCEPT !.ambiguous = TRUE] /\ UNCHANGED <<files, stable, withdrawn>>
      <4>1. run'.prepared = run.prepared /\ run'.up = run.up
        BY <3>1, InstanceUpdates, SlotValues, Zenon DEF ReceiptTypeOK
      <4> QED
        BY <1>9, <2>1, <2>2, <3>1, <4>1, Zenon
    <3>2. CASE run.prepared = who[c].intent /\ cancelPublishedReceipt(who[c].intent)
      BY <2>1, <2>2, <3>2, BackingCancel, Zenon
    <3> QED
      BY <2>2, <3>1, <3>2, Zenon DEF cancelPreparedAtCommit
  <2>3. CASE exitAuthorized(c)
    <3>1. run'.prepared = None /\ ~run'.up /\ \A d \in Callers : who'[d] = Idle
      BY <2>3, DieEffect, Zenon DEF exitAuthorized
    <3>2. who[c].intent # None
      BY <2>1, SlotValues DEF ReceiptTypeOK, Activities
    <3>3. ExitIsBackedUnlessWithdrawn'
      BY <1>2, <2>1, <2>3, <3>2, Zenon DEF exitAuthorized, Backing, ExitIsBackedUnlessWithdrawn, ExitIsBacked
    <3> QED
      BY <3>1, <3>3, SlotValues, Zenon DEF Backing
  <2>4. CASE /\ run' = [run EXCEPT !.committed = TRUE, !.ambiguous = TRUE]
             /\ who' = [who EXCEPT ![c] = Idle]
             /\ UNCHANGED <<files, stable, exited, withdrawn>>
    <3>1. run'.prepared = run.prepared /\ run'.up = run.up
      BY <2>4, DoubleUpdates, Zenon DEF ReceiptTypeOK
    <3> QED
      BY <1>9, <2>1, <2>4, <3>1, Zenon
  <2> QED
    BY <1>12, <2>2, <2>3, <2>4, Zenon DEF PermitGranted
<1>13. CASE PermitRefused \/ Crash \/ PowerLoss
  BY <1>13, BackingDies, Zenon DEF PermitRefused, Crash, PowerLoss
<1>14. CASE Fetch \/ Absorb \/ RotationAsksForRestart \/ PermitExpires \/ TurnStartsOrEnds
  BY <1>3, <1>14, Zenon DEF Fetch, Absorb, RotationAsksForRestart, PermitExpires, TurnStartsOrEnds
<1>15. CASE UNCHANGED receiptVars
  BY <1>3, <1>15, Zenon DEF receiptVars
<1> QED
  BY <1>4, <1>5, <1>6, <1>7, <1>8, <1>10, <1>11, <1>12, <1>13, <1>14, <1>15, Zenon DEF ReceiptNext

\* A process that exited for a restart left its receipt behind, durable and in place, until the next
\* start; the one exception is an intent that another caller withdrew (commitExit, cancel).
THEOREM ExitIsBackedAlways == ReceiptSpec => []ExitIsBackedUnlessWithdrawn
<1>1. ReceiptSpec => []Backing
  BY ReceiptTypes, BackingInit, BackingNext, PTL DEF ReceiptSpec
<1>2. Backing => ExitIsBackedUnlessWithdrawn
  BY DEF Backing
<1> QED
  BY <1>1, <1>2, PTL

\* As long as no file operation failed, a running process knows the directory: the retained receipt
\* is the one it recovered, the receipt in place the one it prepared, and that one names an update
\* it has already taken up.
Evidence ==
    failures = 0 /\ run.up =>
        /\ files.prev = run.recovered
        /\ files.path = run.prepared
        /\ run.prepared.upd <= tg.tried

\* Nothing was recovered before the first start.
LEMMA EvidenceInit == ReceiptInit => Evidence
BY SlotValues, Zenon DEF ReceiptInit, Evidence

\* Preparing changes the receipt on the path and its copy in memory together.
LEMMA EvidencePrepare ==
    ASSUME ReceiptTypeOK, Evidence, NEW c \in Callers, NEW u \in 0 .. MaxUpdate,
           NEW then \in {"saying", "committing"}, prepare(c, u, then),
           tg.tried <= tg'.tried, u <= tg'.tried, tg' \in Pollings
    PROVE  Evidence'
<1> SUFFICES ASSUME failures' = 0, run'.up
             PROVE  (files.prev = run.recovered /\ files.path = run.prepared /\ run.prepared.upd <= tg.tried)'
  BY Zenon DEF Evidence
<1>1. failures = 0 /\ run.up /\ files'.prev = files.prev /\ run'.recovered = run.recovered
  BY PrepareEffect, Zenon
<1>2. files.prev = run.recovered /\ files.path = run.prepared /\ run.prepared.upd <= tg.tried
  BY <1>1, Zenon DEF Evidence
<1>3. \/ run'.prepared = run.prepared /\ files' = files
      \/ run'.prepared.upd = u /\ files'.path = run'.prepared
  BY PrepareEffect, Zenon
<1>4. run.prepared.upd \in Int /\ tg.tried \in Int /\ tg'.tried \in Int
  BY DEF ReceiptTypeOK, Instances, Pollings, Slots, Intents, None
<1>5. run'.prepared.upd <= tg'.tried
  BY <1>2, <1>3, <1>4
<1> QED
  BY <1>1, <1>2, <1>3, <1>5, Zenon

\* Without a failing call the files agree with what the running process believes of them.
LEMMA EvidenceNext == ReceiptTypeOK /\ Backing /\ Evidence /\ [ReceiptNext]_receiptVars => Evidence'
<1> SUFFICES ASSUME ReceiptTypeOK, Backing, Evidence, [ReceiptNext]_receiptVars PROVE Evidence'
  OBVIOUS
<1>1. "telegram" \in Callers /\ "nightly" \in Callers
  BY DEF Callers
<1>2. /\ tg.tried \in 0 .. MaxUpdate /\ tg.fetched \in 0 .. MaxUpdate /\ tg.confirmed \in 0 .. MaxUpdate
      /\ run.prepared.upd \in Int /\ tg \in Pollings
  BY DEF ReceiptTypeOK, Pollings, Instances, Slots, Intents, None
<1>3. run \in Instances /\ files \in Directories /\ None \in Slots
  BY SlotValues DEF ReceiptTypeOK
\* nothing in the directory or in the process's view of it changes
<1>4. ASSUME files' = files, failures' = failures, run' = run, tg'.tried \in Int, tg.tried <= tg'.tried
      PROVE  Evidence'
  <2> SUFFICES ASSUME failures' = 0, run'.up
               PROVE  (files.prev = run.recovered /\ files.path = run.prepared /\ run.prepared.upd <= tg.tried)'
    BY Zenon DEF Evidence
  <2>1. files.prev = run.recovered /\ files.path = run.prepared /\ run.prepared.upd <= tg.tried
    BY <1>4, Zenon DEF Evidence
  <2>2. run.prepared.upd <= tg'.tried
    BY <1>2, <1>4, <2>1
  <2> QED
    BY <1>4, <2>1, <2>2, Zenon
<1>5. tg' = tg => tg'.tried \in Int /\ tg.tried <= tg'.tried
  BY <1>2
<1>6. CASE Start
  <2>1. UNCHANGED tg /\ 0 <= tg'.tried
    BY <1>2, <1>6 DEF Start
  <2>2. files.path \in Slots /\ files.prev \in Slots /\ FALSE \in BOOLEAN
    BY <1>3 DEF Directories
  <2>3. CASE files.path = None /\ StartUp(files.prev, FALSE) /\ UNCHANGED files
    <3>1. run'.prepared = None /\ run'.recovered = files.prev
      BY <2>2, <2>3, StartUpEffect, Zenon
    <3> QED
      BY <2>1, <2>3, <3>1, SlotValues, Zenon DEF Evidence
  <2>4. CASE files' = Consumed /\ StartUp(files.path, FALSE)
    <3>1. run'.prepared = None /\ run'.recovered = files.path
      BY <2>2, <2>4, StartUpEffect, Zenon
    <3>2. files'.path = None /\ files'.prev = files.path
      BY <2>4 DEF Consumed
    <3> QED
      BY <2>1, <3>1, <3>2, SlotValues, Zenon DEF Evidence
  <2>5. CASE Fault
    BY <2>5, FaultEffect, Zenon DEF Evidence
  <2> QED
    BY <1>6, <2>3, <2>4, <2>5, Zenon DEF Start, consumePrevious
<1>7. CASE Fetch
  <2>1. tg'.tried = tg.tried
    BY <1>2, <1>7 DEF Fetch
  <2> QED
    BY <1>2, <1>4, <1>7, <2>1 DEF Fetch
<1>8. CASE Absorb
  <2>1. tg'.tried \in Int /\ tg.tried <= tg'.tried
    BY <1>2, <1>8 DEF Absorb, NextUpdate, Pollings
  <2> QED
    BY <1>4, <1>8, <2>1, Zenon DEF Absorb
<1>9. CASE acknowledgePrevious
  <2>1. tg' = tg
    BY <1>9, Zenon DEF acknowledgePrevious
  <2> QED
    BY <1>9, <2>1, AcknowledgeEffect, Zenon DEF Evidence
<1>10. CASE Handle
  <2>1. tg' = [tg EXCEPT !.tried = NextUpdate] /\ tg.tried < tg.fetched
    BY <1>10, Zenon DEF Handle, Passes
  <2>2. /\ tg' \in Pollings /\ tg'.tried \in Int /\ tg.tried <= tg'.tried
        /\ NextUpdate \in 0 .. MaxUpdate /\ NextUpdate <= tg'.tried
    BY <1>2, <2>1, ReceiptBounds DEF NextUpdate, Pollings
  <2>3. CASE prepare("telegram", NextUpdate, "saying")
    BY <1>1, <2>2, <2>3, EvidencePrepare, Zenon
  <2>4. CASE UNCHANGED <<files, stable, run, who, intents, failures>>
    BY <1>4, <2>2, <2>4, Zenon
  <2> QED
    BY <1>10, <2>3, <2>4, Zenon DEF Handle
<1>11. CASE TickNightlyRecovery
  <2>1. 0 \in 0 .. MaxUpdate /\ tg' = tg
    BY <1>11, ReceiptBounds DEF TickNightlyRecovery
  <2>2. 0 <= tg'.tried /\ tg.tried <= tg'.tried /\ tg' \in Pollings
    BY <1>2, <2>1
  <2> QED
    BY <1>1, <1>11, <2>1, <2>2, EvidencePrepare, Zenon DEF TickNightlyRecovery
<1>12. CASE RotationAsksForRestart \/ SayDelivered \/ PermitExpires \/ TurnStartsOrEnds
  <2>1. files' = files /\ failures' = failures /\ run' = run /\ tg' = tg
    BY <1>12, Zenon DEF RotationAsksForRestart, SayDelivered, PermitExpires, TurnStartsOrEnds
  <2> QED
    BY <1>4, <1>5, <2>1, Zenon
\* the receipt is withdrawn
<1>13. ASSUME NEW c \in Callers, who[c].at # "idle", run.prepared = who[c].intent,
              cancelPublishedReceipt(who[c].intent), tg' = tg
       PROVE  Evidence'
  <2>1. who[c].intent \in Intents
    BY <1>13, SlotValues DEF ReceiptTypeOK, Activities
  <2> SUFFICES ASSUME failures' = 0, run'.up
               PROVE  (files.prev = run.recovered /\ files.path = run.prepared /\ run.prepared.upd <= tg.tried)'
    BY Zenon DEF Evidence
  <2>2. failures = 0 /\ run.up /\ files'.prev = files.prev /\ run'.recovered = run.recovered
    BY <1>13, <2>1, CancelEffect, Zenon
  <2>3. files.prev = run.recovered /\ files.path = run.prepared
    BY <2>2, Zenon DEF Evidence
  <2>4. files'.path = run'.prepared /\ run'.prepared = None
    BY <1>13, <2>1, <2>3, CancelEffect, Zenon
  <2>5. 0 <= tg'.tried
    BY <1>2, <1>13
  <2> QED
    BY <2>2, <2>3, <2>4, <2>5, SlotValues, Zenon
<1>14. CASE SayFails
  <2>1. who["telegram"].at # "idle" /\ tg' = tg
    BY <1>14 DEF SayFails
  <2>2. CASE UNCHANGED <<files, stable, run, withdrawn>> /\ NoFault
    BY <1>4, <1>5, <2>1, <2>2, Zenon DEF NoFault
  <2>3. CASE /\ run.prepared = who["telegram"].intent
             /\ cancelPublishedReceipt(who["telegram"].intent)
    BY <1>1, <1>13, <2>1, <2>3, Zenon
  <2> QED
    BY <1>14, <2>2, <2>3, Zenon DEF SayFails, cancel
<1>15. CASE Die
  BY <1>15, DieEffect, Zenon DEF Evidence
<1>16. ASSUME NEW c \in Callers, commitExit(c) PROVE Evidence'
  <2>1. who[c].at # "idle"
    BY <1>16 DEF commitExit
  <2>2. CASE UNCHANGED <<files, run, tg>> /\ NoFault
    BY <1>4, <1>5, <2>2, Zenon DEF NoFault
  <2>3. CASE /\ run.prepared = who[c].intent /\ tg' = tg
             /\ cancelPreparedAtCommit(who[c].intent)
    BY <1>13, <2>1, <2>3, Zenon DEF cancelPreparedAtCommit
  <2> QED
    BY <1>15, <1>16, <2>2, <2>3, Zenon DEF commitExit
<1>17. ASSUME NEW c \in Callers, PermitGranted(c) PROVE Evidence'
  <2>1. who[c].at # "idle"
    BY <1>17 DEF PermitGranted
  <2>2. CASE /\ run' = [run EXCEPT !.ambiguous = TRUE] /\ UNCHANGED <<files, tg>> /\ NoFault
    <3>1. run'.up = run.up /\ run'.prepared = run.prepared /\ run'.recovered = run.recovered
      BY <1>3, <2>2, InstanceUpdates, Zenon
    <3> QED
      BY <2>2, <3>1, Zenon DEF Evidence, NoFault
  <2>3. CASE run.prepared = who[c].intent /\ cancelPublishedReceipt(who[c].intent) /\ tg' = tg
    BY <1>13, <2>1, <2>3, Zenon
  <2>4. CASE Fault
    BY <2>4, FaultEffect, Zenon DEF Evidence
  <2> QED
    BY <1>15, <1>17, <2>2, <2>3, <2>4, Zenon DEF PermitGranted, cancelPreparedAtCommit, exitAuthorized
<1>18. CASE PermitRefused \/ Crash \/ PowerLoss
  BY <1>15, <1>18, Zenon DEF PermitRefused, Crash, PowerLoss
<1>19. CASE UNCHANGED receiptVars
  BY <1>4, <1>5, <1>19, Zenon DEF receiptVars
<1> QED
  BY <1>6, <1>7, <1>8, <1>9, <1>10, <1>11, <1>12, <1>14, <1>16, <1>17, <1>18, <1>19, Zenon DEF ReceiptNext

\* A restart happens once: while a receipt that names an update is in the directory no process
\* handles that update, and a process in doubt about the directory publishes nothing and asks for
\* no permit (bot.use, acknowledgePrevious, cancelPublishedReceipt).
THEOREM RestartsOnce == ReceiptSpec => RestartHappensOnce
<1>1. ReceiptSpec => [](ReceiptTypeOK /\ Backing /\ Evidence)
  BY ReceiptTypes, BackingInit, BackingNext, EvidenceInit, EvidenceNext, PTL DEF ReceiptSpec
<1>2. ASSUME ReceiptTypeOK, Evidence, [ReceiptNext]_receiptVars, failures = 0,
             NEW u \in Updates, ran'[u] > ran[u]
      PROVE  files.prev.upd # u /\ files.path.upd # u
  <2>0. ran \in [Updates -> Nat]
    BY <1>2 DEF ReceiptTypeOK
  <2>1. ran' # ran
    BY <1>2, <2>0
  <2>2. Handle
    BY <1>2, <2>1, Zenon DEF ReceiptNext, receiptVars, Start, Fetch, Absorb, acknowledgePrevious,
       TickNightlyRecovery, RotationAsksForRestart, SayDelivered, SayFails, commitExit, PermitGranted,
       PermitRefused, PermitExpires, TurnStartsOrEnds, Crash, PowerLoss
  <2>3. u = NextUpdate
    <3>1. ran' = [ran EXCEPT ![NextUpdate] = @ + 1]
      BY <2>2 DEF Handle
    <3> QED
      BY <1>2, <2>0, <3>1
  <2>4. run.up /\ (run.recovered = None \/ run.recovered.upd # u) /\ ~(run.recovered # None /\ run.recovered.upd < u)
    BY <2>2, <2>3, Zenon DEF Handle, Passes, Acknowledges
  <2>5. files.prev = run.recovered /\ files.path = run.prepared /\ run.prepared.upd <= tg.tried
    BY <1>2, <2>4, Zenon DEF Evidence
  <2>6. run.prepared.upd \in Int /\ tg.tried \in Int
    BY <1>2 DEF ReceiptTypeOK, Instances, Pollings, Slots, Intents, None
  <2>7. run.prepared.upd # u
    BY <2>3, <2>5, <2>6 DEF NextUpdate
  <2>8. u # 0
    BY DEF Updates
  <2> QED
    BY <2>4, <2>5, <2>7, <2>8, SlotValues, Zenon
<1>3. ASSUME ReceiptTypeOK, [ReceiptNext]_receiptVars, run.up, run.ambiguous, run'.up
      PROVE  /\ run'.ambiguous
             /\ files'.path # None => files'.path = files.path
             /\ outstanding' => outstanding
  <2>1. "telegram" \in Callers /\ "nightly" \in Callers /\ run \in Instances
    BY <1>3 DEF Callers, ReceiptTypeOK
  <2>2. CASE UNCHANGED <<files, run, outstanding>>
    BY <1>3, <2>2, Zenon
  <2>3. ~Start /\ ~Die
    BY <1>3, DieEffect, Zenon DEF Start
  <2>4. CASE acknowledgePrevious
    BY <1>3, <2>4, AcknowledgeEffect, Zenon DEF acknowledgePrevious
  <2>5. CASE Handle
    <3>1. UNCHANGED <<files, run>>
      BY <1>3, <2>5, Zenon DEF Handle, prepare
    <3> QED
      BY <2>2, <2>5, <3>1, Zenon DEF Handle
  <2>6. CASE TickNightlyRecovery
    <3>1. UNCHANGED <<files, run>>
      BY <1>3, <2>6, Zenon DEF TickNightlyRecovery, prepare
    <3> QED
      BY <2>2, <2>6, <3>1, Zenon DEF TickNightlyRecovery
  <2>7. CASE SayFails
    BY <1>3, <2>2, <2>7, Zenon DEF SayFails, cancel
  <2>8. ASSUME NEW c \in Callers, commitExit(c) PROVE UNCHANGED <<files, run, outstanding>>
    BY <1>3, <2>8, Zenon DEF commitExit
  <2>9. ASSUME NEW c \in Callers, PermitGranted(c)
        PROVE  /\ run'.ambiguous
               /\ files'.path # None => files'.path = files.path
               /\ ~outstanding'
    <3>1. ~exitAuthorized(c)
      BY <2>3, Zenon DEF exitAuthorized
    <3>2. ~outstanding'
      BY <2>9, <3>1, Zenon DEF PermitGranted
    <3>3. CASE run' = [run EXCEPT !.ambiguous = TRUE] /\ UNCHANGED files
      BY <2>1, <3>2, <3>3, InstanceUpdates, SlotValues, Zenon
    <3>4. CASE run.prepared = who[c].intent /\ cancelPublishedReceipt(who[c].intent)
      <4>1. who[c].intent \in Intents
        BY <1>3, <2>9, SlotValues DEF ReceiptTypeOK, Activities, PermitGranted
      <4> QED
        BY <1>3, <3>2, <3>4, <4>1, CancelEffect, Zenon
    <3>5. CASE run' = [run EXCEPT !.committed = TRUE, !.ambiguous = TRUE] /\ UNCHANGED files
      BY <2>1, <3>2, <3>5, DoubleUpdates, Zenon
    <3> QED
      BY <2>9, <3>1, <3>3, <3>4, <3>5, Zenon DEF PermitGranted, cancelPreparedAtCommit
  <2>10. ~PermitRefused /\ ~Crash /\ ~PowerLoss
    BY <2>3, Zenon DEF PermitRefused, Crash, PowerLoss
  <2>11. CASE Fetch \/ Absorb \/ RotationAsksForRestart \/ SayDelivered \/ PermitExpires \/ TurnStartsOrEnds
    BY <2>2, <2>11, Zenon DEF Fetch, Absorb, RotationAsksForRestart, SayDelivered, PermitExpires,
       TurnStartsOrEnds
  <2>12. CASE UNCHANGED receiptVars
    BY <2>2, <2>12, Zenon DEF receiptVars
  <2> QED
    BY <1>3, <2>2, <2>3, <2>4, <2>5, <2>6, <2>7, <2>8, <2>9, <2>10, <2>11, <2>12, Zenon DEF ReceiptNext
<1>4. ReceiptTypeOK /\ Evidence /\ [ReceiptNext]_receiptVars =>
          (failures = 0 => \A u \in Updates :
              ran'[u] > ran[u] => files.prev.upd # u /\ files.path.upd # u)
  BY <1>2, Zenon
<1>5. ReceiptTypeOK /\ [ReceiptNext]_receiptVars =>
          (run.up /\ run.ambiguous /\ run'.up =>
              /\ run'.ambiguous
              /\ files'.path # None => files'.path = files.path
              /\ outstanding' => outstanding)
  BY <1>3, Zenon
<1> QED
  BY <1>1, <1>4, <1>5, PTL DEF ReceiptSpec, RestartHappensOnce, RetainedReceiptBlocksReplay, AmbiguityIsClosed
=============================================================================
