---------------------- MODULE PrivateSqliteLeaseProofs ----------------------
(***************************************************************************)
(* Proofs about the SQLite lease, for every set of clients and processes.  *)
(*                                                                         *)
(* Holding ties a lock to its transaction.  Published says that without a  *)
(* deletion the path, the anchor and every client mean one inode.  On it   *)
(* rest Undisturbed, the path of an acquire nobody interferes with, and    *)
(* RaceIsOpen, which names in every state of the first race a client that  *)
(* is still going to get through.                                          *)
(***************************************************************************)
EXTENDS PrivateSqliteLease, TLAPS

\* The steps at which a client has located the database, and made a file of its own.
Located == {"match", "recheck", "open", "anchor", "amatch", "arecheck", "aread", "alink", "aunlink",
            "areread", "begin", "held", "probe", "probing"}
Making == {"link", "unlink", "alink", "aunlink"}

\* The type invariant by the groups of variables the actions share.
FilesTyped ==
    /\ db \in 0 .. MaxInodes /\ temps \subseteq Inodes
    /\ anchor \in Anchors \cup {NoAnchor} /\ atemps \subseteq Anchors /\ inodes \in 0 .. MaxInodes
LocksTyped ==
    lock \in [Inodes -> Clients \cup {Nobody}] /\ heldPaths \in [Processes -> 0 .. MaxInodes] /\ won \in BOOLEAN
WatchTyped == listening \in [Clients -> BOOLEAN] /\ told \in [Clients -> BOOLEAN]
FaultsTyped == calls \in 0 .. MaxCalls /\ kills \in 0 .. MaxKills /\ removals \in 0 .. MaxRemovals
PrivateTyped ==
    /\ ino \in [Clients -> 0 .. MaxInodes] /\ mine \in [Clients -> 0 .. MaxInodes]
    /\ seen \in [Clients -> Anchors \cup {NoAnchor}]
PcTyped == pc \in [Clients -> Steps] /\ result \in [Clients -> Results]
StepsTyped == PcTyped /\ solo \in [Clients -> BOOLEAN]

\* What a client's step says of the inodes it remembers.
Remembers ==
    /\ \A c \in Clients : pc[c] \in Located => ino[c] # 0
    /\ \A c \in Clients : pc[c] \in Making => mine[c] # 0
    /\ \A c \in Clients : pc[c] = "amatch" => seen[c] # NoAnchor

\* The types, with what the clients remember.
LeaseTyped ==
    FilesTyped /\ LocksTyped /\ WatchTyped /\ FaultsTyped /\ PrivateTyped /\ StepsTyped /\ Remembers

\* Goto, End and Disturb keep the types of the variables they assign.
LEMMA StepMoves ==
    ASSUME StepsTyped, NEW c \in Clients
    PROVE  /\ \A s \in Steps : Goto(c, s) => PcTyped'
           /\ \A a \in Results : End(c, a) => PcTyped'
           /\ Disturb(c) => (solo \in [Clients -> BOOLEAN])'
<1>1. "held" \in Steps /\ "idle" \in Steps
  BY DEF Steps
<1> QED
  BY <1>1, Zenon DEF StepsTyped, PcTyped, Goto, End, Disturb

\* The steps and the answers the actions name are steps and answers.
LEMMA StepNames ==
    /\ {"idle", "absent", "link", "unlink", "recover", "match", "recheck", "open", "anchor", "amatch",
        "arecheck", "aread", "alink", "aunlink", "areread", "begin", "held", "inspect", "probe",
        "probing"} \subseteq Steps
    /\ {Nobody, "held", "busy", "unsafe", "corrupt", "unavailable", "absent", "free"} \subseteq Results
BY DEF Steps, Results

\* Every step of acquirePrivateSqliteLease and of the probe disturbs the other callers.
LEMMA StepsDisturb == \A c \in Clients : AcquireStep(c) \/ Probe(c) \/ ProbeEnds(c) => Disturb(c)
BY ZenonT(60) DEF AcquireStep, Probe, ProbeEnds, bootstrapDatabase, LinkDatabase, UnlinkDatabase,
   RecoverDatabase, MatchDatabase, RecheckDatabase, OpenDatabase, ensureAnchor, MatchAnchor,
   RecheckAnchor, readAnchor, publishAnchor, UnlinkAnchor, ReadAnchorAgain, BeginImmediate

\* Every step keeps the types and what a client's step says of the inodes it remembers.
LEMMA LeaseTypedNext == LeaseTyped /\ [LeaseNext]_leaseVars => LeaseTyped'
<1> SUFFICES ASSUME LeaseTyped, [LeaseNext]_leaseVars PROVE LeaseTyped'
  OBVIOUS
<1>1. FilesTyped /\ LocksTyped /\ WatchTyped /\ FaultsTyped /\ PrivateTyped /\ StepsTyped
  BY DEF LeaseTyped
<1>0. /\ 0 \in 0 .. MaxInodes /\ db \in 0 .. MaxInodes /\ NoAnchor \in Anchors \cup {NoAnchor}
      /\ anchor \in Anchors \cup {NoAnchor}
      /\ inodes < MaxInodes => inodes + 1 \in 0 .. MaxInodes /\ inodes + 1 \in Inodes /\ inodes + 1 # 0
      /\ calls < MaxCalls => calls + 1 \in 0 .. MaxCalls
      /\ kills < MaxKills => kills + 1 \in 0 .. MaxKills
      /\ removals < MaxRemovals => removals + 1 \in 0 .. MaxRemovals
  BY <1>1, LeaseAssumption DEF FilesTyped, FaultsTyped, Inodes
<1>a. \A c \in Clients :
        /\ ino[c] \in 0 .. MaxInodes
        /\ pc[c] \in Located => ino[c] \in Inodes
        /\ pc[c] \in Making => mine[c] \in Inodes
  BY <1>1, LeaseAssumption DEF LeaseTyped, PrivateTyped, Remembers, Inodes
<1>b. /\ {"aread", "alink", "begin", "probe", "probing", "held", "match"} \subseteq Located
      /\ {"link", "alink"} \subseteq Making
  BY DEF Located, Making
<1>c. \A f, i \in Inodes : [file |-> f, of |-> i] \in Anchors
  BY DEF Anchors
<1>2. FilesTyped'
  <2>1. ASSUME NEW c \in Clients, bootstrapDatabase(c) PROVE FilesTyped'
    BY <1>0, <1>1, <2>1, LeaseAssumption, Zenon DEF bootstrapDatabase, FilesTyped, PrivateTyped, Remembers,
       Located, Making, Inodes, Anchors
  <2>2. ASSUME NEW c \in Clients, LinkDatabase(c) PROVE FilesTyped'
    BY <1>0, <1>1, <2>2, LeaseAssumption DEF LinkDatabase, FilesTyped, PrivateTyped, Remembers,
       Located, Making, Inodes, Anchors
  <2>3. ASSUME NEW c \in Clients, UnlinkDatabase(c) PROVE FilesTyped'
    BY <1>0, <1>1, <2>3, LeaseAssumption, Zenon DEF UnlinkDatabase, FilesTyped, PrivateTyped, Remembers,
       Located, Making, Inodes, Anchors
  <2>4. ASSUME NEW c \in Clients, MatchDatabase(c) PROVE FilesTyped'
    BY <1>0, <1>1, <2>4, LeaseAssumption, Zenon DEF MatchDatabase, FilesTyped, PrivateTyped, Remembers,
       Located, Making, Inodes, Anchors
  <2>5. ASSUME NEW c \in Clients, MatchAnchor(c) PROVE FilesTyped'
    BY <1>0, <1>1, <2>5, LeaseAssumption DEF MatchAnchor, FilesTyped, PrivateTyped, Remembers,
       Located, Making, Inodes, Anchors
  <2>6. ASSUME NEW c \in Clients, readAnchor(c) PROVE FilesTyped'
    BY <1>0, <1>1, <1>a, <1>b, <1>c, <2>6 DEF readAnchor, FilesTyped
  <2>7. ASSUME NEW c \in Clients, publishAnchor(c) PROVE FilesTyped'
    BY <1>0, <1>1, <1>a, <1>b, <1>c, <2>7 DEF publishAnchor, FilesTyped
  <2>8. ASSUME NEW c \in Clients, UnlinkAnchor(c) PROVE FilesTyped'
    BY <1>0, <1>1, <2>8, LeaseAssumption DEF UnlinkAnchor, FilesTyped, PrivateTyped, Remembers,
       Located, Making, Inodes, Anchors
  <2>9. ASSUME NEW both \in BOOLEAN, Remove(both) PROVE FilesTyped'
    BY <1>0, <1>1, <2>9, LeaseAssumption DEF Remove, FilesTyped, PrivateTyped, Remembers, Located,
       Making, Inodes, Anchors
  <2> QED
    BY <1>1, <2>1, <2>2, <2>3, <2>4, <2>5, <2>6, <2>7, <2>8, <2>9, ZenonT(60) DEF LeaseNext,
       AcquireStep, leaseVars, FilesTyped, Files, Locks, Watch, Faults, Private, Acquire,
       RecoverDatabase, RecheckDatabase, OpenDatabase, ensureAnchor, RecheckAnchor, ReadAnchorAgain,
       BeginImmediate, onLost, notifyLoss, release, Inspect, Probe, ProbeEnds, ProcessDies
<1>3. LocksTyped'
  <2>1. ASSUME NEW c \in Clients, BeginImmediate(c) PROVE LocksTyped'
    BY <1>0, <1>1, <1>a, <2>1, Zenon DEF BeginImmediate, Locks, LocksTyped
  <2>2. ASSUME NEW c \in Clients, release(c) PROVE LocksTyped'
    BY <1>0, <1>1, <1>a, <2>2, Zenon DEF release, LocksTyped
  <2>3. ASSUME NEW c \in Clients, Probe(c) PROVE LocksTyped'
    BY <1>0, <1>1, <1>a, <2>3, Zenon DEF Probe, LocksTyped
  <2>4. ASSUME NEW c \in Clients, ProbeEnds(c) PROVE LocksTyped'
    BY <1>0, <1>1, <1>a, <2>4, Zenon DEF ProbeEnds, LocksTyped
  <2>5. ASSUME NEW p \in Processes, ProcessDies(p) PROVE LocksTyped'
    BY <1>0, <1>1, <1>a, <2>5, Zenon DEF ProcessDies, LocksTyped
  <2> QED
    BY <1>1, <2>1, <2>2, <2>3, <2>4, <2>5, ZenonT(60) DEF LeaseNext, AcquireStep, leaseVars,
       LocksTyped, Files, Locks, Watch, Faults, Private, Acquire, bootstrapDatabase, LinkDatabase,
       UnlinkDatabase, RecoverDatabase, MatchDatabase, RecheckDatabase, OpenDatabase, ensureAnchor,
       MatchAnchor, RecheckAnchor, readAnchor, publishAnchor, UnlinkAnchor, ReadAnchorAgain, onLost,
       notifyLoss, Inspect, Remove
<1>4. WatchTyped'
  <2>1. ASSUME NEW c \in Clients, onLost(c) PROVE WatchTyped'
    BY <1>0, <1>1, <1>a, <2>1, Zenon DEF onLost, WatchTyped
  <2>2. ASSUME NEW c \in Clients, notifyLoss(c) PROVE WatchTyped'
    BY <1>0, <1>1, <1>a, <2>2, Zenon DEF notifyLoss, WatchTyped
  <2>3. ASSUME NEW c \in Clients, release(c) PROVE WatchTyped'
    BY <1>0, <1>1, <1>a, <2>3, Zenon DEF release, WatchTyped
  <2>4. ASSUME NEW p \in Processes, ProcessDies(p) PROVE WatchTyped'
    BY <1>0, <1>1, <1>a, <2>4, Zenon DEF ProcessDies, WatchTyped
  <2> QED
    BY <1>1, <2>1, <2>2, <2>3, <2>4, ZenonT(60) DEF LeaseNext, AcquireStep, leaseVars, WatchTyped,
       Files, Locks, Watch, Faults, Private, Acquire, bootstrapDatabase, LinkDatabase,
       UnlinkDatabase, RecoverDatabase, MatchDatabase, RecheckDatabase, OpenDatabase, ensureAnchor,
       MatchAnchor, RecheckAnchor, readAnchor, publishAnchor, UnlinkAnchor, ReadAnchorAgain,
       BeginImmediate, Inspect, Probe, ProbeEnds, Remove
<1>5. FaultsTyped'
  <2>1. ASSUME NEW c \in Clients, Acquire(c) PROVE FaultsTyped'
    BY <1>0, <1>1, <1>a, <2>1, Zenon DEF Acquire, FaultsTyped
  <2>2. ASSUME NEW c \in Clients, Inspect(c) PROVE FaultsTyped'
    BY <1>0, <1>1, <1>a, <2>2, Zenon DEF Inspect, FaultsTyped
  <2>3. ASSUME NEW p \in Processes, ProcessDies(p) PROVE FaultsTyped'
    BY <1>0, <1>1, <1>a, <2>3, Zenon DEF ProcessDies, FaultsTyped
  <2>4. ASSUME NEW both \in BOOLEAN, Remove(both) PROVE FaultsTyped'
    BY <1>0, <1>1, <1>a, <2>4, Zenon DEF Remove, FaultsTyped
  <2> QED
    BY <1>1, <2>1, <2>2, <2>3, <2>4, ZenonT(60) DEF LeaseNext, AcquireStep, leaseVars, FaultsTyped,
       Files, Locks, Watch, Faults, Private, bootstrapDatabase, LinkDatabase, UnlinkDatabase,
       RecoverDatabase, MatchDatabase, RecheckDatabase, OpenDatabase, ensureAnchor, MatchAnchor,
       RecheckAnchor, readAnchor, publishAnchor, UnlinkAnchor, ReadAnchorAgain, BeginImmediate,
       onLost, notifyLoss, release, Probe, ProbeEnds
<1>6. PrivateTyped'
  <2>1. ASSUME NEW c \in Clients, Acquire(c) PROVE PrivateTyped'
    BY <1>0, <1>1, <1>a, <2>1, Zenon DEF Acquire, PrivateTyped
  <2>2. ASSUME NEW c \in Clients, bootstrapDatabase(c) PROVE PrivateTyped'
    BY <1>0, <1>1, <1>a, <2>2, Zenon DEF bootstrapDatabase, PrivateTyped
  <2>3. ASSUME NEW c \in Clients, RecoverDatabase(c) PROVE PrivateTyped'
    BY <1>0, <1>1, <1>a, <2>3, Zenon DEF RecoverDatabase, PrivateTyped
  <2>4. ASSUME NEW c \in Clients, RecheckDatabase(c) PROVE PrivateTyped'
    BY <1>0, <1>1, <1>a, <2>4, Zenon DEF RecheckDatabase, PrivateTyped
  <2>5. ASSUME NEW c \in Clients, ensureAnchor(c) PROVE PrivateTyped'
    BY <1>0, <1>1, <1>a, <2>5, Zenon DEF ensureAnchor, PrivateTyped
  <2>6. ASSUME NEW c \in Clients, readAnchor(c) PROVE PrivateTyped'
    BY <1>0, <1>1, <1>a, <2>6, Zenon DEF readAnchor, Compare, PrivateTyped
  <2>7. ASSUME NEW c \in Clients, ReadAnchorAgain(c) PROVE PrivateTyped'
    BY <1>0, <1>1, <1>a, <2>7, Zenon DEF ReadAnchorAgain, Compare, PrivateTyped
  <2>8. ASSUME NEW c \in Clients, Inspect(c) PROVE PrivateTyped'
    BY <1>0, <1>1, <1>a, <2>8, Zenon DEF Inspect, PrivateTyped
  <2> QED
    BY <1>1, <2>1, <2>2, <2>3, <2>4, <2>5, <2>6, <2>7, <2>8, ZenonT(60) DEF LeaseNext, AcquireStep,
       leaseVars, PrivateTyped, Files, Locks, Watch, Faults, Private, LinkDatabase, UnlinkDatabase,
       MatchDatabase, OpenDatabase, MatchAnchor, RecheckAnchor, publishAnchor, UnlinkAnchor,
       BeginImmediate, onLost, notifyLoss, release, Probe, ProbeEnds, ProcessDies, Remove
<1>7. PcTyped'
  <2>1. ASSUME NEW c \in Clients, Acquire(c) PROVE PcTyped'
    BY <1>1, <2>1, StepMoves, StepNames DEF Acquire, StepsTyped, PcTyped
  <2>2. ASSUME NEW c \in Clients, bootstrapDatabase(c) PROVE PcTyped'
    BY <1>1, <2>2, StepMoves, StepNames DEF bootstrapDatabase, StepsTyped, PcTyped
  <2>3. ASSUME NEW c \in Clients, LinkDatabase(c) PROVE PcTyped'
    BY <1>1, <2>3, StepMoves, StepNames DEF LinkDatabase, StepsTyped, PcTyped
  <2>4. ASSUME NEW c \in Clients, UnlinkDatabase(c) PROVE PcTyped'
    BY <1>1, <2>4, StepMoves, StepNames DEF UnlinkDatabase, StepsTyped, PcTyped
  <2>5. ASSUME NEW c \in Clients, RecoverDatabase(c) PROVE PcTyped'
    BY <1>1, <2>5, StepMoves, StepNames DEF RecoverDatabase, StepsTyped, PcTyped
  <2>6. ASSUME NEW c \in Clients, MatchDatabase(c) PROVE PcTyped'
    BY <1>1, <2>6, StepMoves, StepNames DEF MatchDatabase, StepsTyped, PcTyped
  <2>7. ASSUME NEW c \in Clients, RecheckDatabase(c) PROVE PcTyped'
    BY <1>1, <2>7, StepMoves, StepNames DEF RecheckDatabase, StepsTyped, PcTyped
  <2>8. ASSUME NEW c \in Clients, OpenDatabase(c) PROVE PcTyped'
    BY <1>1, <2>8, StepMoves, StepNames DEF OpenDatabase, StepsTyped, PcTyped
  <2>9. ASSUME NEW c \in Clients, ensureAnchor(c) PROVE PcTyped'
    BY <1>1, <2>9, StepMoves, StepNames DEF ensureAnchor, StepsTyped, PcTyped
  <2>10. ASSUME NEW c \in Clients, MatchAnchor(c) PROVE PcTyped'
    BY <1>1, <2>10, StepMoves, StepNames DEF MatchAnchor, StepsTyped, PcTyped
  <2>11. ASSUME NEW c \in Clients, RecheckAnchor(c) PROVE PcTyped'
    BY <1>1, <2>11, StepMoves, StepNames DEF RecheckAnchor, StepsTyped, PcTyped
  <2>12. ASSUME NEW c \in Clients, readAnchor(c) PROVE PcTyped'
    BY <1>1, <2>12, StepMoves, StepNames DEF readAnchor, Compare, StepsTyped, PcTyped
  <2>13. ASSUME NEW c \in Clients, publishAnchor(c) PROVE PcTyped'
    BY <1>1, <2>13, StepMoves, StepNames DEF publishAnchor, StepsTyped, PcTyped
  <2>14. ASSUME NEW c \in Clients, UnlinkAnchor(c) PROVE PcTyped'
    BY <1>1, <2>14, StepMoves, StepNames DEF UnlinkAnchor, StepsTyped, PcTyped
  <2>15. ASSUME NEW c \in Clients, ReadAnchorAgain(c) PROVE PcTyped'
    BY <1>1, <2>15, StepMoves, StepNames DEF ReadAnchorAgain, Compare, StepsTyped, PcTyped
  <2>16. ASSUME NEW c \in Clients, BeginImmediate(c) PROVE PcTyped'
    BY <1>1, <2>16, StepMoves, StepNames DEF BeginImmediate, StepsTyped, PcTyped
  <2>17. ASSUME NEW c \in Clients, release(c) PROVE PcTyped'
    BY <1>1, <2>17, StepMoves, StepNames DEF release, StepsTyped, PcTyped
  <2>18. ASSUME NEW c \in Clients, Inspect(c) PROVE PcTyped'
    BY <1>1, <2>18, StepMoves, StepNames DEF Inspect, StepsTyped, PcTyped
  <2>19. ASSUME NEW c \in Clients, Probe(c) PROVE PcTyped'
    BY <1>1, <2>19, StepMoves, StepNames DEF Probe, StepsTyped, PcTyped
  <2>20. ASSUME NEW c \in Clients, ProbeEnds(c) PROVE PcTyped'
    BY <1>1, <2>20, StepMoves, StepNames DEF ProbeEnds, StepsTyped, PcTyped
  <2>21. ASSUME NEW p \in Processes, ProcessDies(p) PROVE PcTyped'
    BY <1>1, <2>21, StepMoves, StepNames DEF ProcessDies, StepsTyped, PcTyped
  <2> QED
    BY <1>1, <2>1, <2>2, <2>3, <2>4, <2>5, <2>6, <2>7, <2>8, <2>9, <2>10, <2>11, <2>12, <2>13,
       <2>14, <2>15, <2>16, <2>17, <2>18, <2>19, <2>20, <2>21, Zenon DEF LeaseNext, AcquireStep,
       leaseVars, StepsTyped, PcTyped, onLost, notifyLoss, Remove
<1>8. (solo \in [Clients -> BOOLEAN])'
  BY <1>1, StepsDisturb, StepMoves, ZenonT(60) DEF LeaseNext, leaseVars, StepsTyped, PcTyped, Acquire,
     onLost, notifyLoss, release, Inspect, ProcessDies, Remove
<1>9. Remembers'
  <2>1. ASSUME NEW c \in Clients, Acquire(c) PROVE Remembers'
    BY <1>0, <1>1, <2>1 DEF Acquire, Goto, End, Private, LeaseTyped, Remembers, Located, Making,
       StepsTyped, PcTyped, PrivateTyped
  <2>2. ASSUME NEW c \in Clients, bootstrapDatabase(c) PROVE Remembers'
    BY <1>0, <1>1, <2>2 DEF bootstrapDatabase, Goto, End, Private, LeaseTyped, Remembers, Located,
       Making, StepsTyped, PcTyped, PrivateTyped
  <2>3. ASSUME NEW c \in Clients, LinkDatabase(c) PROVE Remembers'
    BY <1>0, <1>1, <2>3 DEF LinkDatabase, Goto, End, Private, LeaseTyped, Remembers, Located,
       Making, StepsTyped, PcTyped, PrivateTyped
  <2>4. ASSUME NEW c \in Clients, UnlinkDatabase(c) PROVE Remembers'
    BY <1>0, <1>1, <2>4 DEF UnlinkDatabase, Goto, End, Private, LeaseTyped, Remembers, Located,
       Making, StepsTyped, PcTyped, PrivateTyped
  <2>5. ASSUME NEW c \in Clients, RecoverDatabase(c) PROVE Remembers'
    BY <1>0, <1>1, <2>5 DEF RecoverDatabase, Goto, End, Private, LeaseTyped, Remembers, Located,
       Making, StepsTyped, PcTyped, PrivateTyped
  <2>6. ASSUME NEW c \in Clients, MatchDatabase(c) PROVE Remembers'
    BY <1>0, <1>1, <2>6 DEF MatchDatabase, Goto, End, Private, LeaseTyped, Remembers, Located,
       Making, StepsTyped, PcTyped, PrivateTyped
  <2>7. ASSUME NEW c \in Clients, RecheckDatabase(c) PROVE Remembers'
    BY <1>0, <1>1, <2>7 DEF RecheckDatabase, Goto, End, Private, LeaseTyped, Remembers, Located,
       Making, StepsTyped, PcTyped, PrivateTyped
  <2>8. ASSUME NEW c \in Clients, OpenDatabase(c) PROVE Remembers'
    BY <1>0, <1>1, <2>8 DEF OpenDatabase, Goto, End, Private, LeaseTyped, Remembers, Located,
       Making, StepsTyped, PcTyped, PrivateTyped
  <2>9. ASSUME NEW c \in Clients, ensureAnchor(c) PROVE Remembers'
    BY <1>0, <1>1, <2>9 DEF ensureAnchor, Goto, End, Private, LeaseTyped, Remembers, Located,
       Making, StepsTyped, PcTyped, PrivateTyped
  <2>10. ASSUME NEW c \in Clients, MatchAnchor(c) PROVE Remembers'
    BY <1>0, <1>1, <2>10 DEF MatchAnchor, Goto, End, Private, LeaseTyped, Remembers, Located,
       Making, StepsTyped, PcTyped, PrivateTyped
  <2>11. ASSUME NEW c \in Clients, RecheckAnchor(c) PROVE Remembers'
    BY <1>0, <1>1, <2>11 DEF RecheckAnchor, Goto, End, Private, LeaseTyped, Remembers, Located,
       Making, StepsTyped, PcTyped, PrivateTyped
  <2>12. ASSUME NEW c \in Clients, readAnchor(c) PROVE Remembers'
    BY <1>0, <1>1, <2>12 DEF readAnchor, Compare, Goto, End, Private, LeaseTyped, Remembers,
       Located, Making, StepsTyped, PcTyped, PrivateTyped
  <2>13. ASSUME NEW c \in Clients, publishAnchor(c) PROVE Remembers'
    BY <1>0, <1>1, <2>13 DEF publishAnchor, Goto, End, Private, LeaseTyped, Remembers, Located,
       Making, StepsTyped, PcTyped, PrivateTyped
  <2>14. ASSUME NEW c \in Clients, UnlinkAnchor(c) PROVE Remembers'
    BY <1>0, <1>1, <2>14 DEF UnlinkAnchor, Goto, End, Private, LeaseTyped, Remembers, Located,
       Making, StepsTyped, PcTyped, PrivateTyped
  <2>15. ASSUME NEW c \in Clients, ReadAnchorAgain(c) PROVE Remembers'
    BY <1>0, <1>1, <2>15 DEF ReadAnchorAgain, Compare, Goto, End, Private, LeaseTyped, Remembers,
       Located, Making, StepsTyped, PcTyped, PrivateTyped
  <2>16. ASSUME NEW c \in Clients, BeginImmediate(c) PROVE Remembers'
    BY <1>0, <1>1, <2>16 DEF BeginImmediate, Goto, End, Private, LeaseTyped, Remembers, Located,
       Making, StepsTyped, PcTyped, PrivateTyped
  <2>17. ASSUME NEW c \in Clients, release(c) PROVE Remembers'
    BY <1>0, <1>1, <2>17 DEF release, Goto, End, Private, LeaseTyped, Remembers, Located, Making,
       StepsTyped, PcTyped, PrivateTyped
  <2>18. ASSUME NEW c \in Clients, Inspect(c) PROVE Remembers'
    BY <1>0, <1>1, <2>18 DEF Inspect, Goto, End, Private, LeaseTyped, Remembers, Located, Making,
       StepsTyped, PcTyped, PrivateTyped
  <2>19. ASSUME NEW c \in Clients, Probe(c) PROVE Remembers'
    BY <1>0, <1>1, <2>19 DEF Probe, Goto, End, Private, LeaseTyped, Remembers, Located, Making,
       StepsTyped, PcTyped, PrivateTyped
  <2>20. ASSUME NEW c \in Clients, ProbeEnds(c) PROVE Remembers'
    BY <1>0, <1>1, <2>20 DEF ProbeEnds, Goto, End, Private, LeaseTyped, Remembers, Located, Making,
       StepsTyped, PcTyped, PrivateTyped
  <2>21. ASSUME NEW p \in Processes, ProcessDies(p) PROVE Remembers'
    BY <1>0, <1>1, <2>21 DEF ProcessDies, Goto, End, Private, LeaseTyped, Remembers, Located,
       Making, StepsTyped, PcTyped, PrivateTyped
  <2> QED
    BY <2>1, <2>2, <2>3, <2>4, <2>5, <2>6, <2>7, <2>8, <2>9, <2>10, <2>11, <2>12, <2>13, <2>14,
       <2>15, <2>16, <2>17, <2>18, <2>19, <2>20, <2>21, Zenon DEF LeaseNext, AcquireStep, leaseVars,
       LeaseTyped, Remembers, Private, onLost, notifyLoss, Remove
<1> QED
  BY <1>2, <1>3, <1>4, <1>5, <1>6, <1>7, <1>8, <1>9 DEF LeaseTyped, StepsTyped, PcTyped

\* Before the first call nothing exists and every client is idle.
LEMMA LeaseTypedInit == LeaseInit => LeaseTyped
<1> SUFFICES ASSUME LeaseInit PROVE LeaseTyped
  OBVIOUS
<1>1. 0 \in 0 .. MaxInodes /\ 0 \in 0 .. MaxCalls /\ 0 \in 0 .. MaxKills /\ 0 \in 0 .. MaxRemovals
  BY LeaseAssumption
<1>2. FilesTyped /\ FaultsTyped /\ PrivateTyped /\ StepsTyped
  BY <1>1, StepNames DEF LeaseInit, FilesTyped, FaultsTyped, PrivateTyped, StepsTyped, PcTyped
<1>3. LocksTyped /\ WatchTyped
  BY <1>1, Zenon DEF LeaseInit, LocksTyped, WatchTyped
<1>4. Remembers
  BY DEF LeaseInit, Remembers, Located, Making
<1> QED
  BY <1>2, <1>3, <1>4 DEF LeaseTyped

\* Every file, lock, registration and program counter of the lease keeps its type, whatever the number
\* of clients and processes.
THEOREM LeaseTypes == LeaseSpec => []LeaseTypeOK
<1>1. LeaseTyped => LeaseTypeOK
  BY Zenon DEF LeaseTyped, LeaseTypeOK, FilesTyped, LocksTyped, WatchTyped, FaultsTyped, PrivateTyped, StepsTyped, PcTyped
<1> QED
  BY <1>1, LeaseTypedInit, LeaseTypedNext, PTL DEF LeaseSpec

\* The steps after new Database succeeded, and the steps at which a transaction is open.
Opened == {"anchor", "amatch", "arecheck", "aread", "alink", "aunlink", "areread", "begin"}

Locking == {"held", "probing"}

\* An open transaction and the lock on its inode belong together.
Holding ==
    /\ \A c \in Clients : pc[c] \in Locking => lock[ino[c]] = c
    /\ \A i \in Inodes : lock[i] # Nobody => pc[lock[i]] \in Locking /\ ino[lock[i]] = i

\* Inodes are handed out in order.
Counted ==
    /\ db <= inodes /\ \A c \in Clients : mine[c] <= inodes
    /\ \A i \in temps : i <= inodes

\* Before the first publication nobody has got past the bootstrap.
Unpublished == db = 0 => anchor = NoAnchor /\ \A c \in Clients : pc[c] \in {"idle", "absent", "link"}

\* As long as nobody deletes the files, the path, the anchor and every client mean one inode.
Published ==
    removals = 0 =>
        /\ Unpublished
        /\ \A c \in Clients : pc[c] \in Located => ino[c] = db
        /\ anchor # NoAnchor => anchor.of = db /\ ~Doubled(db)
        /\ \A c \in Clients : pc[c] \in Opened => ~Doubled(db)

\* What an undisturbed acquire finds at each of its steps.
OnTrack(c) ==
    /\ pc[c] \notin {"probe", "probing"}
    /\ pc[c] = "idle" => result[c] = "busy"
    /\ pc[c] \in {"absent", "link"} => db = 0
    /\ pc[c] = "unlink" => db = mine[c]
    /\ pc[c] = "match" => Doubled(db)
    /\ pc[c] \in {"recheck", "open"} => ~Doubled(db)
    /\ pc[c] = "amatch" => seen[c] = anchor /\ AnchorDoubled
    /\ pc[c] \in {"arecheck", "aread", "areread"} => ~AnchorDoubled
    /\ pc[c] = "alink" => anchor = NoAnchor
    /\ pc[c] = "aunlink" => anchor = [file |-> mine[c], of |-> ino[c]]
    /\ pc[c] = "areread" => anchor # NoAnchor

\* An acquire that ran alone since it began is on track.
Undisturbed == removals = 0 => \A c \in Clients : solo[c] => OnTrack(c)

\* Client c will get past what is published so far: while the database has its bootstrap name, the
\* client that linked it is about to unlink that name; likewise for the anchor; and once both are settled,
\* a client that is on its way or whose probe just found the lease free.
Carries(c) ==
    /\ Doubled(db) => pc[c] = "unlink" /\ mine[c] = db
    /\ ~Doubled(db) /\ anchor = NoAnchor => pc[c] \in {"unlink", "recover", "open", "anchor", "aread", "alink"}
    /\ AnchorDoubled => pc[c] = "aunlink" /\ anchor = [file |-> mine[c], of |-> ino[c]]
    /\ anchor # NoAnchor /\ ~AnchorDoubled =>
          \/ pc[c] \in {"unlink", "recover", "open", "anchor", "aread", "alink", "aunlink", "areread",
                        "begin", "probe", "probing"}
          \/ pc[c] = "idle" /\ result[c] = "free"

\* The first race: nobody has held the lease, no process died and nothing was deleted.
Racing == kills = 0 /\ removals = 0 /\ ~won

\* In the first race nobody is registered, and from the first publication on some client carries it.
RaceIsOpen ==
    Racing =>
        /\ \A p \in Processes : heldPaths[p] = 0
        /\ \A c \in Clients : pc[c] # "held"
        /\ db = 0 => \A c \in Clients : result[c] \in {Nobody, "absent"}
        /\ db # 0 => \E c \in Clients : Carries(c)

\* A step of client c leaves what the others remember alone.
Others(c) ==
    \A d \in Clients \ {c} :
        /\ pc'[d] = pc[d] /\ result'[d] = result[d]
        /\ ino'[d] = ino[d] /\ mine'[d] = mine[d] /\ seen'[d] = seen[d]

\* A step of one client changes no other client's program counter, answer or remembered identity.
LEMMA ClientSteps ==
    ASSUME LeaseTyped, NEW c \in Clients,
           \/ Acquire(c) \/ AcquireStep(c) \/ onLost(c) \/ notifyLoss(c) \/ release(c)
           \/ Inspect(c) \/ Probe(c) \/ ProbeEnds(c)
    PROVE  Others(c)
<1>1. /\ pc \in [Clients -> Steps] /\ result \in [Clients -> Results]
      /\ ino \in [Clients -> 0 .. MaxInodes] /\ mine \in [Clients -> 0 .. MaxInodes]
      /\ seen \in [Clients -> Anchors \cup {NoAnchor}]
  BY DEF LeaseTyped, StepsTyped, PcTyped, PrivateTyped
<1>2. /\ \A s : Goto(c, s) => \A d \in Clients \ {c} : pc'[d] = pc[d] /\ result'[d] = result[d]
      /\ \A a : End(c, a) => \A d \in Clients \ {c} : pc'[d] = pc[d] /\ result'[d] = result[d]
  BY <1>1 DEF Goto, End
<1>3. Acquire(c) => Others(c)
  BY <1>1, <1>2 DEF Acquire, Others, Private
<1>4. bootstrapDatabase(c) => Others(c)
  BY <1>1, <1>2 DEF bootstrapDatabase, Others, Private
<1>5. LinkDatabase(c) => Others(c)
  BY <1>1, <1>2 DEF LinkDatabase, Others, Private
<1>6. UnlinkDatabase(c) => Others(c)
  BY <1>1, <1>2 DEF UnlinkDatabase, Others, Private
<1>7. RecoverDatabase(c) => Others(c)
  BY <1>1, <1>2 DEF RecoverDatabase, Others, Private
<1>8. MatchDatabase(c) => Others(c)
  BY <1>1, <1>2 DEF MatchDatabase, Others, Private
<1>9. RecheckDatabase(c) => Others(c)
  BY <1>1, <1>2 DEF RecheckDatabase, Others, Private
<1>10. OpenDatabase(c) => Others(c)
  BY <1>1, <1>2 DEF OpenDatabase, Others, Private
<1>11. ensureAnchor(c) => Others(c)
  BY <1>1, <1>2 DEF ensureAnchor, Others, Private
<1>12. MatchAnchor(c) => Others(c)
  BY <1>1, <1>2 DEF MatchAnchor, Others, Private
<1>13. RecheckAnchor(c) => Others(c)
  BY <1>1, <1>2 DEF RecheckAnchor, Others, Private
<1>14. readAnchor(c) => Others(c)
  BY <1>1, <1>2 DEF readAnchor, Compare, Others, Private
<1>15. publishAnchor(c) => Others(c)
  BY <1>1, <1>2 DEF publishAnchor, Others, Private
<1>16. UnlinkAnchor(c) => Others(c)
  BY <1>1, <1>2 DEF UnlinkAnchor, Others, Private
<1>17. ReadAnchorAgain(c) => Others(c)
  BY <1>1, <1>2 DEF ReadAnchorAgain, Compare, Others, Private
<1>18. BeginImmediate(c) => Others(c)
  BY <1>1, <1>2 DEF BeginImmediate, Others, Private
<1>19. onLost(c) => Others(c)
  BY <1>1, <1>2 DEF onLost, Others, Private
<1>20. notifyLoss(c) => Others(c)
  BY <1>1, <1>2 DEF notifyLoss, Others, Private
<1>21. release(c) => Others(c)
  BY <1>1, <1>2, Zenon DEF release, Others, Private
<1>22. Inspect(c) => Others(c)
  BY <1>1, <1>2 DEF Inspect, Others, Private
<1>23. Probe(c) => Others(c)
  BY <1>1, <1>2 DEF Probe, Others, Private
<1>24. ProbeEnds(c) => Others(c)
  BY <1>1, <1>2 DEF ProbeEnds, Others, Private
<1> QED
  BY <1>3, <1>4, <1>5, <1>6, <1>7, <1>8, <1>9, <1>10, <1>11, <1>12, <1>13, <1>14, <1>15, <1>16,
     <1>17, <1>18, <1>19, <1>20, <1>21, <1>22, <1>23, <1>24 DEF AcquireStep

\* A transaction is opened only on an inode nobody has locked (BEGIN IMMEDIATE), and closed by its
\* owner (release, the end of a probe) or with its process.
LEMMA HoldingNext == LeaseTyped /\ Holding /\ [LeaseNext]_leaseVars => Holding'
<1> SUFFICES ASSUME LeaseTyped, Holding, [LeaseNext]_leaseVars PROVE Holding'
  OBVIOUS
<1>1. /\ pc \in [Clients -> Steps] /\ ino \in [Clients -> 0 .. MaxInodes]
      /\ lock \in [Inodes -> Clients \cup {Nobody}] /\ Nobody \notin Clients
  BY LeaseAssumption DEF LeaseTyped, StepsTyped, PcTyped, PrivateTyped, LocksTyped
<1>2. \A c \in Clients : pc[c] \in Located => ino[c] \in Inodes
  BY <1>1, LeaseAssumption DEF LeaseTyped, Remembers, Inodes
<1>3. ASSUME NEW c \in Clients, Others(c), pc[c] \notin Locking, pc'[c] \notin Locking, lock' = lock
      PROVE  Holding'
  BY <1>1, <1>3 DEF Holding, Others
<1>4. ASSUME NEW c \in Clients, Acquire(c), Others(c) PROVE Holding'
  BY <1>1, <1>3, <1>4 DEF Acquire, Goto, End, Locking, Locks
<1>5. ASSUME NEW c \in Clients, bootstrapDatabase(c), Others(c) PROVE Holding'
  BY <1>1, <1>3, <1>5 DEF bootstrapDatabase, Goto, End, Locking, Locks
<1>6. ASSUME NEW c \in Clients, LinkDatabase(c), Others(c) PROVE Holding'
  BY <1>1, <1>3, <1>6 DEF LinkDatabase, Goto, End, Locking, Locks
<1>7. ASSUME NEW c \in Clients, UnlinkDatabase(c), Others(c) PROVE Holding'
  BY <1>1, <1>3, <1>7 DEF UnlinkDatabase, Goto, End, Locking, Locks
<1>8. ASSUME NEW c \in Clients, RecoverDatabase(c), Others(c) PROVE Holding'
  BY <1>1, <1>3, <1>8 DEF RecoverDatabase, Goto, End, Locking, Locks
<1>9. ASSUME NEW c \in Clients, MatchDatabase(c), Others(c) PROVE Holding'
  BY <1>1, <1>3, <1>9 DEF MatchDatabase, Goto, End, Locking, Locks
<1>10. ASSUME NEW c \in Clients, RecheckDatabase(c), Others(c) PROVE Holding'
  BY <1>1, <1>3, <1>10 DEF RecheckDatabase, Goto, End, Locking, Locks
<1>11. ASSUME NEW c \in Clients, OpenDatabase(c), Others(c) PROVE Holding'
  BY <1>1, <1>3, <1>11 DEF OpenDatabase, Goto, End, Locking, Locks
<1>12. ASSUME NEW c \in Clients, ensureAnchor(c), Others(c) PROVE Holding'
  BY <1>1, <1>3, <1>12 DEF ensureAnchor, Goto, End, Locking, Locks
<1>13. ASSUME NEW c \in Clients, MatchAnchor(c), Others(c) PROVE Holding'
  BY <1>1, <1>3, <1>13 DEF MatchAnchor, Goto, End, Locking, Locks
<1>14. ASSUME NEW c \in Clients, RecheckAnchor(c), Others(c) PROVE Holding'
  BY <1>1, <1>3, <1>14 DEF RecheckAnchor, Goto, End, Locking, Locks
<1>15. ASSUME NEW c \in Clients, readAnchor(c), Others(c) PROVE Holding'
  BY <1>1, <1>3, <1>15 DEF readAnchor, Compare, Goto, End, Locking, Locks
<1>16. ASSUME NEW c \in Clients, publishAnchor(c), Others(c) PROVE Holding'
  BY <1>1, <1>3, <1>16 DEF publishAnchor, Goto, End, Locking, Locks
<1>17. ASSUME NEW c \in Clients, UnlinkAnchor(c), Others(c) PROVE Holding'
  BY <1>1, <1>3, <1>17 DEF UnlinkAnchor, Goto, End, Locking, Locks
<1>18. ASSUME NEW c \in Clients, ReadAnchorAgain(c), Others(c) PROVE Holding'
  BY <1>1, <1>3, <1>18 DEF ReadAnchorAgain, Compare, Goto, End, Locking, Locks
<1>19. ASSUME NEW c \in Clients, BeginImmediate(c), Others(c) PROVE Holding'
  BY <1>1, <1>2, <1>19 DEF BeginImmediate, Goto, End, Private, Holding, Others, Locking, Located,
     Locks
<1>20. ASSUME NEW c \in Clients, release(c), Others(c) PROVE Holding'
  BY <1>1, <1>2, <1>20 DEF release, Goto, End, Private, Holding, Others, Locking, Located, Locks,
     Nobody
<1>21. ASSUME NEW c \in Clients, Inspect(c), Others(c) PROVE Holding'
  BY <1>1, <1>3, <1>21 DEF Inspect, Goto, End, Locking, Locks
<1>22. ASSUME NEW c \in Clients, Probe(c), Others(c) PROVE Holding'
  <2>1. CASE lock' = lock /\ pc'[c] = "idle"
    BY <1>3, <1>22, <2>1 DEF Probe, Locking
  <2>2. CASE /\ lock[ino[c]] = Nobody /\ lock' = [lock EXCEPT ![ino[c]] = c]
             /\ pc'[c] = "probing"
    <3>1. pc[c] = "probe" /\ ino' = ino /\ ino[c] \in Inodes
      BY <1>2, <1>22 DEF Probe, Private, Located
    <3> QED
      BY <1>1, <1>22, <2>2, <3>1 DEF Holding, Others, Locking
  <2> QED
    BY <1>1, <1>22, <2>1, <2>2 DEF Probe, Goto, End
<1>23. ASSUME NEW c \in Clients, ProbeEnds(c), Others(c) PROVE Holding'
  <2>1. /\ pc[c] = "probing" /\ pc'[c] = "idle" /\ ino' = ino /\ ino[c] \in Inodes
        /\ lock' = [lock EXCEPT ![ino[c]] = Nobody]
    BY <1>1, <1>2, <1>23 DEF ProbeEnds, End, Private, Located
  <2>2. lock[ino[c]] = c
    BY <2>1 DEF Holding, Locking
  <2> QED
    BY <1>1, <1>23, <2>1, <2>2 DEF Holding, Others, Locking
<1>24. ASSUME NEW p \in Processes, ProcessDies(p) PROVE Holding'
  <2>1. ASSUME NEW c \in Clients, pc'[c] \in Locking PROVE lock'[ino'[c]] = c
    <3>1. ProcessOf[c] # p /\ pc'[c] = pc[c] /\ ino'[c] = ino[c]
      BY <1>24, <2>1 DEF ProcessDies, Private, Locking
    <3>2. ino[c] \in Inodes /\ lock[ino[c]] = c
      BY <1>2, <2>1, <3>1 DEF Holding, Locking, Located
    <3> QED
      BY <1>24, <3>1, <3>2 DEF ProcessDies
  <2>2. ASSUME NEW i \in Inodes, lock'[i] # Nobody PROVE pc'[lock'[i]] \in Locking /\ ino'[lock'[i]] = i
    <3>1. lock'[i] = lock[i] /\ lock[i] \in Clients /\ ProcessOf[lock[i]] # p
      BY <1>1, <1>24, <2>2 DEF ProcessDies
    <3> QED
      BY <1>24, <2>2, <3>1, Zenon DEF ProcessDies, Private, Holding
  <2> QED
    BY <2>1, <2>2 DEF Holding
<1> QED
  BY <1>4, <1>5, <1>6, <1>7, <1>8, <1>9, <1>10, <1>11, <1>12, <1>13, <1>14, <1>15, <1>16, <1>17,
     <1>18, <1>19, <1>20, <1>21, <1>22, <1>23, <1>24, ClientSteps, ZenonT(60) DEF LeaseNext,
     AcquireStep, leaseVars, Holding, onLost, notifyLoss, Remove, Locks, Private

\* Files get fresh inodes: a new one exceeds every inode in use.
LEMMA CountedNext == LeaseTyped /\ Counted /\ [LeaseNext]_leaseVars => Counted'
<1> SUFFICES ASSUME LeaseTyped, Counted, [LeaseNext]_leaseVars PROVE Counted'
  OBVIOUS
<1>1. /\ mine \in [Clients -> 0 .. MaxInodes] /\ inodes \in Int /\ db \in Int /\ temps \subseteq Int /\ 0 <= inodes
  BY LeaseAssumption DEF LeaseTyped, FilesTyped, PrivateTyped, Inodes
<1>2. ASSUME NEW c \in Clients, Acquire(c) PROVE Counted'
  BY <1>1, <1>2 DEF Acquire, Counted, Files, Private
<1>3. ASSUME NEW c \in Clients, bootstrapDatabase(c) PROVE Counted'
  <2>1. CASE UNCHANGED <<temps, mine, inodes>>
    BY <1>1, <1>3, <2>1 DEF bootstrapDatabase, Counted
  <2>2. CASE /\ inodes' = inodes + 1 /\ mine' = [mine EXCEPT ![c] = inodes + 1]
             /\ temps' = temps \cup {inodes + 1}
    BY <1>1, <1>3, <2>2 DEF bootstrapDatabase, Counted
  <2> QED
    BY <1>3, <2>1, <2>2, Zenon DEF bootstrapDatabase
<1>4. ASSUME NEW c \in Clients, LinkDatabase(c) PROVE Counted'
  BY <1>1, <1>4 DEF LinkDatabase, Counted, Files, Private
<1>5. ASSUME NEW c \in Clients, UnlinkDatabase(c) PROVE Counted'
  BY <1>1, <1>5 DEF UnlinkDatabase, Counted, Files, Private
<1>6. ASSUME NEW c \in Clients, MatchDatabase(c) PROVE Counted'
  BY <1>1, <1>6 DEF MatchDatabase, Counted, Files, Private
<1>7. ASSUME NEW c \in Clients, readAnchor(c) PROVE Counted'
  <2>1. CASE UNCHANGED <<mine, inodes>>
    BY <1>1, <1>7, <2>1 DEF readAnchor, Counted
  <2>2. CASE /\ inodes' = inodes + 1 /\ mine' = [mine EXCEPT ![c] = inodes + 1]
    BY <1>1, <1>7, <2>2 DEF readAnchor, Counted
  <2> QED
    BY <1>7, <2>1, <2>2, Zenon DEF readAnchor
<1>8. ASSUME NEW both \in BOOLEAN, Remove(both) PROVE Counted'
  BY <1>1, <1>8 DEF Remove, Counted, Private
<1> QED
  BY <1>2, <1>3, <1>4, <1>5, <1>6, <1>7, <1>8, ZenonT(60) DEF LeaseNext, AcquireStep, leaseVars,
     Counted, Files, Private, RecoverDatabase, RecheckDatabase, OpenDatabase, ensureAnchor,
     MatchAnchor, RecheckAnchor, publishAnchor, UnlinkAnchor, ReadAnchorAgain, BeginImmediate,
     onLost, notifyLoss, release, Inspect, Probe, ProbeEnds, ProcessDies

\* As long as the count of deletions is 0 there was none, and the step is none.
LEMMA RemovalsStay ==
    ASSUME LeaseTyped, [LeaseNext]_leaseVars, removals' = 0
    PROVE  removals = 0 /\ ~ \E both \in BOOLEAN : Remove(both)
<1>1. removals' \in {removals, removals + 1}
  BY ZenonT(60) DEF LeaseNext, AcquireStep, leaseVars, Faults, Acquire, bootstrapDatabase,
     LinkDatabase, UnlinkDatabase, RecoverDatabase, MatchDatabase, RecheckDatabase, OpenDatabase,
     ensureAnchor, MatchAnchor, RecheckAnchor, readAnchor, publishAnchor, UnlinkAnchor,
     ReadAnchorAgain, BeginImmediate, onLost, notifyLoss, release, Inspect, Probe, ProbeEnds,
     ProcessDies, Remove
<1> QED
  BY <1>1 DEF LeaseTyped, FaultsTyped, Remove

\* Without a deletion the published database stays the one every client located, the anchor names it,
\* and its second link is gone before anybody opens it.
LEMMA PublishedNext == LeaseTyped /\ Counted /\ Published /\ [LeaseNext]_leaseVars => Published'
<1> SUFFICES ASSUME LeaseTyped, Counted, Published, [LeaseNext]_leaseVars, removals' = 0 PROVE Published'
  BY DEF Published
<1>0. removals = 0 /\ ~ \E both \in BOOLEAN : Remove(both)
  BY RemovalsStay
<1>1. /\ pc \in [Clients -> Steps] /\ ino \in [Clients -> 0 .. MaxInodes] /\ mine \in [Clients -> 0 .. MaxInodes]
      /\ inodes \in Int /\ db \in Int
  BY LeaseAssumption DEF LeaseTyped, StepsTyped, PcTyped, PrivateTyped, FilesTyped
<1>2. Unpublished /\ (db = 0 => \A c \in Clients : pc[c] \in {"idle", "absent", "link"})
      /\ (\A c \in Clients : pc[c] \in Located => ino[c] = db)
      /\ (anchor # NoAnchor => anchor.of = db /\ ~Doubled(db))
      /\ (\A c \in Clients : pc[c] \in Opened => ~Doubled(db))
  BY <1>0 DEF Published, Unpublished
<1>3. ASSUME NEW c \in Clients, Acquire(c), Others(c) PROVE Published'
  BY <1>1, <1>2, <1>3 DEF Acquire, Goto, End, Private, Files, Others, Published, Unpublished,
     Counted, Doubled, Located, Opened
<1>4. ASSUME NEW c \in Clients, bootstrapDatabase(c), Others(c) PROVE Published'
  <2>1. /\ UNCHANGED <<db, anchor, ino>> /\ pc[c] = "absent" /\ pc'[c] \in {"idle", "link"}
        /\ temps' \in {temps, temps \cup {inodes + 1}}
    BY <1>1, <1>4 DEF bootstrapDatabase, Goto, End
  <2>2. Doubled(db)' => Doubled(db)
    BY <1>1, <2>1 DEF Counted, Doubled
  <2> QED
    BY <1>2, <1>4, <2>1, <2>2 DEF Others, Published, Unpublished, Located, Opened
<1>5. ASSUME NEW c \in Clients, LinkDatabase(c), Others(c) PROVE Published'
  BY <1>1, <1>2, <1>5 DEF LinkDatabase, Goto, End, Private, Files, Others, Published, Unpublished,
     Counted, Doubled, Located, Opened, LeaseTyped, Remembers, Making
<1>6. ASSUME NEW c \in Clients, UnlinkDatabase(c), Others(c) PROVE Published'
  BY <1>1, <1>2, <1>6 DEF UnlinkDatabase, Goto, End, Private, Files, Others, Published, Unpublished,
     Counted, Doubled, Located, Opened
<1>7. ASSUME NEW c \in Clients, RecoverDatabase(c), Others(c) PROVE Published'
  BY <1>1, <1>2, <1>7 DEF RecoverDatabase, Goto, End, Private, Files, Others, Published,
     Unpublished, Counted, Doubled, Located, Opened
<1>8. ASSUME NEW c \in Clients, MatchDatabase(c), Others(c) PROVE Published'
  BY <1>1, <1>2, <1>8 DEF MatchDatabase, Goto, End, Private, Files, Others, Published, Unpublished,
     Counted, Doubled, Located, Opened
<1>9. ASSUME NEW c \in Clients, RecheckDatabase(c), Others(c) PROVE Published'
  BY <1>1, <1>2, <1>9 DEF RecheckDatabase, Goto, End, Private, Files, Others, Published,
     Unpublished, Counted, Doubled, Located, Opened
<1>10. ASSUME NEW c \in Clients, OpenDatabase(c), Others(c) PROVE Published'
  BY <1>1, <1>2, <1>10 DEF OpenDatabase, Goto, End, Private, Files, Others, Published, Unpublished,
     Counted, Doubled, Located, Opened
<1>11. ASSUME NEW c \in Clients, ensureAnchor(c), Others(c) PROVE Published'
  BY <1>1, <1>2, <1>11 DEF ensureAnchor, Goto, End, Private, Files, Others, Published, Unpublished,
     Counted, Doubled, Located, Opened
<1>12. ASSUME NEW c \in Clients, MatchAnchor(c), Others(c) PROVE Published'
  BY <1>1, <1>2, <1>12 DEF MatchAnchor, Goto, End, Private, Files, Others, Published, Unpublished,
     Counted, Doubled, Located, Opened
<1>13. ASSUME NEW c \in Clients, RecheckAnchor(c), Others(c) PROVE Published'
  BY <1>1, <1>2, <1>13 DEF RecheckAnchor, Goto, End, Private, Files, Others, Published, Unpublished,
     Counted, Doubled, Located, Opened
<1>14. ASSUME NEW c \in Clients, readAnchor(c), Others(c) PROVE Published'
  BY <1>1, <1>2, <1>14 DEF readAnchor, Compare, Goto, End, Private, Files, Others, Published,
     Unpublished, Counted, Doubled, Located, Opened
<1>15. ASSUME NEW c \in Clients, publishAnchor(c), Others(c) PROVE Published'
  BY <1>1, <1>2, <1>15 DEF publishAnchor, Goto, End, Private, Files, Others, Published, Unpublished,
     Counted, Doubled, Located, Opened
<1>16. ASSUME NEW c \in Clients, UnlinkAnchor(c), Others(c) PROVE Published'
  BY <1>1, <1>2, <1>16 DEF UnlinkAnchor, Goto, End, Private, Files, Others, Published, Unpublished,
     Counted, Doubled, Located, Opened
<1>17. ASSUME NEW c \in Clients, ReadAnchorAgain(c), Others(c) PROVE Published'
  BY <1>1, <1>2, <1>17 DEF ReadAnchorAgain, Compare, Goto, End, Private, Files, Others, Published,
     Unpublished, Counted, Doubled, Located, Opened
<1>18. ASSUME NEW c \in Clients, BeginImmediate(c), Others(c) PROVE Published'
  BY <1>1, <1>2, <1>18 DEF BeginImmediate, Goto, End, Private, Files, Others, Published,
     Unpublished, Counted, Doubled, Located, Opened
<1>19. ASSUME NEW c \in Clients, release(c), Others(c) PROVE Published'
  BY <1>1, <1>2, <1>19 DEF release, Nobody, Goto, End, Private, Files, Others, Published,
     Unpublished, Counted, Doubled, Located, Opened
<1>20. ASSUME NEW c \in Clients, Inspect(c), Others(c) PROVE Published'
  BY <1>1, <1>2, <1>20 DEF Inspect, Goto, End, Private, Files, Others, Published, Unpublished,
     Counted, Doubled, Located, Opened
<1>21. ASSUME NEW c \in Clients, Probe(c), Others(c) PROVE Published'
  <2>1. UNCHANGED <<db, temps, anchor, ino>> /\ pc[c] = "probe" /\ pc'[c] \in {"idle", "probing"}
    BY <1>1, <1>21 DEF Probe, Goto, End, Files, Private
  <2> QED
    BY <1>2, <1>21, <2>1 DEF Others, Published, Unpublished, Doubled, Located, Opened
<1>22. ASSUME NEW c \in Clients, ProbeEnds(c), Others(c) PROVE Published'
  BY <1>1, <1>2, <1>22 DEF ProbeEnds, Goto, End, Private, Files, Others, Published, Unpublished,
     Counted, Doubled, Located, Opened
<1>23. ASSUME NEW p \in Processes, ProcessDies(p) PROVE Published'
  BY <1>1, <1>2, <1>23 DEF ProcessDies, Private, Files, Published, Unpublished, Doubled, Located,
     Opened
<1>24. ASSUME UNCHANGED <<db, temps, anchor, pc, ino>> PROVE Published'
  BY <1>0, <1>24 DEF Published, Unpublished, Doubled
<1> QED
  BY <1>0, <1>3, <1>4, <1>5, <1>6, <1>7, <1>8, <1>9, <1>10, <1>11, <1>12, <1>13, <1>14, <1>15,
     <1>16, <1>17, <1>18, <1>19, <1>20, <1>21, <1>22, <1>23, <1>24, ClientSteps, Zenon DEF
     LeaseNext, AcquireStep, leaseVars, onLost, notifyLoss, Files, Private

\* The path of an acquire nobody disturbed: each check it makes next will pass.
LEMMA UndisturbedNext == LeaseTyped /\ Published /\ Undisturbed /\ [LeaseNext]_leaseVars => Undisturbed'
<1> SUFFICES ASSUME LeaseTyped, Published, Undisturbed, [LeaseNext]_leaseVars, removals' = 0
             PROVE  Undisturbed'
  BY DEF Undisturbed
<1>0. removals = 0 /\ ~ \E both \in BOOLEAN : Remove(both)
  BY RemovalsStay
<1>1. /\ pc \in [Clients -> Steps] /\ ino \in [Clients -> 0 .. MaxInodes] /\ mine \in [Clients -> 0 .. MaxInodes]
      /\ seen \in [Clients -> Anchors \cup {NoAnchor}] /\ result \in [Clients -> Results]
      /\ atemps \subseteq Anchors /\ NoAnchor \notin Anchors
  BY LeaseAssumption DEF LeaseTyped, StepsTyped, PcTyped, PrivateTyped, FilesTyped, Anchors, NoAnchor, Inodes
<1>2. /\ db = 0 => anchor = NoAnchor /\ \A c \in Clients : pc[c] \in {"idle", "absent", "link"}
      /\ \A c \in Clients : pc[c] \in Located => ino[c] = db
      /\ anchor # NoAnchor => anchor.of = db /\ ~Doubled(db)
      /\ \A c \in Clients : pc[c] \in Opened => ~Doubled(db)
      /\ \A c \in Clients : pc[c] \in Making => mine[c] # 0
  BY <1>0 DEF Published, Unpublished, LeaseTyped, Remembers
<1>3. ASSUME NEW c \in Clients, Acquire(c) PROVE OnTrack(c)'
  BY <1>1, <1>2, <1>3 DEF Acquire, Goto, End, OnTrack, Files, Doubled, AnchorDoubled
<1>4. ASSUME NEW c \in Clients, bootstrapDatabase(c), OnTrack(c) PROVE OnTrack(c)'
  BY <1>1, <1>2, <1>4 DEF bootstrapDatabase, Goto, End, Private, Files, OnTrack, Doubled,
     AnchorDoubled, Located, Opened, Making
<1>5. ASSUME NEW c \in Clients, LinkDatabase(c), OnTrack(c) PROVE OnTrack(c)'
  BY <1>1, <1>2, <1>5, Zenon DEF LinkDatabase, Goto, End, Private, Files, OnTrack, Doubled, AnchorDoubled,
     Located, Opened, Making
<1>6. ASSUME NEW c \in Clients, UnlinkDatabase(c), OnTrack(c) PROVE OnTrack(c)'
  BY <1>1, <1>2, <1>6 DEF UnlinkDatabase, Goto, End, Private, Files, OnTrack, Doubled,
     AnchorDoubled, Located, Opened, Making
<1>7. ASSUME NEW c \in Clients, RecoverDatabase(c), OnTrack(c) PROVE OnTrack(c)'
  BY <1>1, <1>2, <1>7 DEF RecoverDatabase, Goto, End, Private, Files, OnTrack, Doubled,
     AnchorDoubled, Located, Opened, Making
<1>8. ASSUME NEW c \in Clients, MatchDatabase(c), OnTrack(c) PROVE OnTrack(c)'
  BY <1>1, <1>2, <1>8 DEF MatchDatabase, Goto, End, Private, Files, OnTrack, Doubled, AnchorDoubled,
     Located, Opened, Making
<1>9. ASSUME NEW c \in Clients, RecheckDatabase(c), OnTrack(c) PROVE OnTrack(c)'
  BY <1>1, <1>2, <1>9 DEF RecheckDatabase, Goto, End, Private, Files, OnTrack, Doubled,
     AnchorDoubled, Located, Opened, Making
<1>10. ASSUME NEW c \in Clients, OpenDatabase(c), OnTrack(c) PROVE OnTrack(c)'
  BY <1>1, <1>2, <1>10 DEF OpenDatabase, Goto, End, Private, Files, OnTrack, Doubled, AnchorDoubled,
     Located, Opened, Making
<1>11. ASSUME NEW c \in Clients, ensureAnchor(c), OnTrack(c) PROVE OnTrack(c)'
  BY <1>1, <1>2, <1>11, Zenon DEF ensureAnchor, Goto, End, Private, Files, OnTrack, Doubled, AnchorDoubled,
     Located, Opened, Making
<1>12. ASSUME NEW c \in Clients, MatchAnchor(c), OnTrack(c) PROVE OnTrack(c)'
  BY <1>1, <1>2, <1>12 DEF MatchAnchor, Goto, End, Private, Files, OnTrack, Doubled, AnchorDoubled,
     Located, Opened, Making
<1>13. ASSUME NEW c \in Clients, RecheckAnchor(c), OnTrack(c) PROVE OnTrack(c)'
  BY <1>1, <1>2, <1>13 DEF RecheckAnchor, Goto, End, Private, Files, OnTrack, Doubled,
     AnchorDoubled, Located, Opened, Making
<1>14. ASSUME NEW c \in Clients, readAnchor(c), OnTrack(c) PROVE OnTrack(c)'
  BY <1>1, <1>2, <1>14, Zenon DEF readAnchor, Compare, Goto, End, Private, Files, OnTrack, Doubled,
     AnchorDoubled, Located, Opened, Making
<1>15. ASSUME NEW c \in Clients, publishAnchor(c), OnTrack(c) PROVE OnTrack(c)'
  BY <1>1, <1>2, <1>15, Zenon DEF publishAnchor, Goto, End, Private, Files, OnTrack, Doubled,
     AnchorDoubled, Located, Opened, Making
<1>16. ASSUME NEW c \in Clients, UnlinkAnchor(c), OnTrack(c) PROVE OnTrack(c)'
  <2>1. /\ anchor = [file |-> mine[c], of |-> ino[c]] /\ mine[c] # 0
        /\ anchor' = anchor /\ atemps' = atemps \ {anchor} /\ pc'[c] = "areread"
    BY <1>1, <1>2, <1>16 DEF UnlinkAnchor, Goto, OnTrack, Making
  <2>2. anchor' # NoAnchor
    BY <2>1 DEF NoAnchor
  <2> QED
    BY <2>1, <2>2 DEF OnTrack, AnchorDoubled
<1>17. ASSUME NEW c \in Clients, ReadAnchorAgain(c), OnTrack(c) PROVE OnTrack(c)'
  BY <1>1, <1>2, <1>17, Zenon DEF ReadAnchorAgain, Compare, Goto, End, Private, Files, OnTrack, Doubled,
     AnchorDoubled, Located, Opened, Making
<1>18. ASSUME NEW c \in Clients, BeginImmediate(c), OnTrack(c) PROVE OnTrack(c)'
  BY <1>1, <1>2, <1>18, Zenon DEF BeginImmediate, Goto, End, Private, Files, OnTrack, Doubled,
     AnchorDoubled, Located, Opened, Making
<1>19. ASSUME NEW c \in Clients, Probe(c), OnTrack(c) PROVE OnTrack(c)'
  BY <1>1, <1>2, <1>19 DEF Probe, Goto, End, Private, Files, OnTrack, Doubled, AnchorDoubled,
     Located, Opened, Making
<1>20. ASSUME NEW c \in Clients, ProbeEnds(c), OnTrack(c) PROVE OnTrack(c)'
  BY <1>1, <1>2, <1>20, Zenon DEF ProbeEnds, Goto, End, Private, Files, OnTrack, Doubled, AnchorDoubled,
     Located, Opened, Making
<1>21. ASSUME NEW c \in Clients, AcquireStep(c) \/ Probe(c) \/ ProbeEnds(c) PROVE Undisturbed'
  <2>1. Disturb(c)
    BY <1>21, StepsDisturb
  <2>2. OnTrack(c) => OnTrack(c)'
    BY <1>21, <1>4, <1>5, <1>6, <1>7, <1>8, <1>9, <1>10, <1>11, <1>12, <1>13, <1>14, <1>15, <1>16,
       <1>17, <1>18, <1>19, <1>20, Zenon DEF AcquireStep
  <2> QED
    BY <1>0, <2>1, <2>2, Zenon DEF Undisturbed, Disturb
<1>22. ASSUME NEW c \in Clients, onLost(c) \/ notifyLoss(c) PROVE Undisturbed'
  BY <1>0, <1>22, Zenon DEF onLost, notifyLoss, Undisturbed, OnTrack, Files, Private, Doubled,
     AnchorDoubled
<1>23. ASSUME NEW c \in Clients, Acquire(c) PROVE Undisturbed'
  BY <1>3, <1>23, Zenon DEF Acquire, Undisturbed
<1>24. ASSUME solo' = [c \in Clients |-> FALSE] PROVE Undisturbed'
  BY <1>24, Zenon DEF Undisturbed
<1>25. ASSUME UNCHANGED leaseVars PROVE Undisturbed'
  BY <1>0, <1>25, Zenon DEF leaseVars, Undisturbed, OnTrack, Doubled, AnchorDoubled
<1> QED
  BY <1>0, <1>21, <1>22, <1>23, <1>24, <1>25, Zenon DEF LeaseNext, release, Inspect, ProcessDies

\* While nobody has won, no process died and nothing was deleted, BEGIN IMMEDIATE only fails.
LEMMA RaceStaysOpen ==
    ASSUME LeaseTyped, [LeaseNext]_leaseVars, Racing'
    PROVE  /\ Racing /\ ~ \E both \in BOOLEAN : Remove(both)
           /\ ~ \E p \in Processes : ProcessDies(p)
           /\ \A c \in Clients : BeginImmediate(c) => lock[ino[c]] # Nobody
<1>1. kills' \in {kills, kills + 1}
  BY ZenonT(60) DEF LeaseNext, AcquireStep, leaseVars, Faults, Locks, Acquire, bootstrapDatabase,
     LinkDatabase, UnlinkDatabase, RecoverDatabase, MatchDatabase, RecheckDatabase, OpenDatabase,
     ensureAnchor, MatchAnchor, RecheckAnchor, readAnchor, publishAnchor, UnlinkAnchor,
     ReadAnchorAgain, BeginImmediate, onLost, notifyLoss, release, Inspect, Probe, ProbeEnds,
     ProcessDies, Remove
<1>a. won => won'
  BY ZenonT(60) DEF LeaseNext, AcquireStep, leaseVars, Faults, Locks, Acquire, bootstrapDatabase,
     LinkDatabase, UnlinkDatabase, RecoverDatabase, MatchDatabase, RecheckDatabase, OpenDatabase,
     ensureAnchor, MatchAnchor, RecheckAnchor, readAnchor, publishAnchor, UnlinkAnchor,
     ReadAnchorAgain, BeginImmediate, onLost, notifyLoss, release, Inspect, Probe, ProbeEnds,
     ProcessDies, Remove
<1>2. kills = 0 /\ ~ \E p \in Processes : ProcessDies(p)
  <2>1. kills' = 0 /\ kills \in 0 .. MaxKills
    BY DEF LeaseTyped, FaultsTyped, Racing
  <2>2. \A p \in Processes : ProcessDies(p) => kills' = kills + 1
    BY Zenon DEF ProcessDies
  <2> QED
    BY <1>1, <2>1, <2>2, LeaseAssumption
<1>3. removals = 0 /\ ~ \E both \in BOOLEAN : Remove(both)
  BY RemovalsStay DEF Racing
<1> QED
  BY <1>a, <1>2, <1>3, Zenon DEF Racing, BeginImmediate

\* Until the race is won some client carries it: the one that published the file everybody waits for,
\* or one that passed it, or the probe that holds the lock for a moment.
LEMMA RaceIsOpenNext ==
    LeaseTyped /\ Holding /\ Counted /\ Published /\ RaceIsOpen /\ [LeaseNext]_leaseVars => RaceIsOpen'
<1> SUFFICES ASSUME LeaseTyped, Holding, Counted, Published, RaceIsOpen, [LeaseNext]_leaseVars, Racing'
             PROVE  RaceIsOpen'
  BY DEF RaceIsOpen
<1>0. /\ removals = 0 /\ ~won /\ ~ (\E both \in BOOLEAN : Remove(both)) /\ ~ (\E p \in Processes : ProcessDies(p))
      /\ \A c \in Clients : BeginImmediate(c) => lock[ino[c]] # Nobody
  BY RaceStaysOpen DEF Racing
<1>1. /\ pc \in [Clients -> Steps] /\ ino \in [Clients -> 0 .. MaxInodes] /\ mine \in [Clients -> 0 .. MaxInodes]
      /\ result \in [Clients -> Results] /\ lock \in [Inodes -> Clients \cup {Nobody}]
      /\ atemps \subseteq Anchors /\ NoAnchor \notin Anchors /\ db \in Int /\ inodes \in Int
      /\ temps \subseteq Int /\ 0 \notin temps
  BY LeaseAssumption DEF LeaseTyped, StepsTyped, PcTyped, PrivateTyped, FilesTyped, LocksTyped, Anchors, NoAnchor, Inodes
<1>2. /\ db = 0 => anchor = NoAnchor /\ \A c \in Clients : pc[c] \in {"idle", "absent", "link"}
      /\ \A c \in Clients : pc[c] \in Located => ino[c] = db
      /\ anchor # NoAnchor => anchor.of = db /\ ~Doubled(db)
      /\ \A c \in Clients : pc[c] \in Opened => ~Doubled(db)
      /\ \A c \in Clients : pc[c] \in Making => mine[c] # 0
      /\ db <= inodes
  BY <1>0 DEF Published, Unpublished, LeaseTyped, Remembers, Counted
<1>a. \A c \in Clients : pc[c] \in Located => ino[c] \in Inodes
  BY <1>1, LeaseAssumption DEF LeaseTyped, Remembers, Inodes
<1>3. /\ \A p \in Processes : heldPaths[p] = 0
      /\ \A c \in Clients : pc[c] # "held"
      /\ db = 0 => \A c \in Clients : result[c] \in {Nobody, "absent"}
      /\ db # 0 => \E c \in Clients : Carries(c)
  BY <1>0, RaceStaysOpen DEF RaceIsOpen
<1>4. \A c \in Clients : ~pathMatchesHeldIdentity(ProcessOf[c])
  BY <1>3, LeaseAssumption DEF pathMatchesHeldIdentity
<1>5. \A c \in Clients : ~release(c)
  BY <1>3 DEF release
<1>6. heldPaths' = heldPaths
  BY <1>0, <1>5, ZenonT(60) DEF LeaseNext, AcquireStep, leaseVars, Locks, Acquire,
     bootstrapDatabase, LinkDatabase, UnlinkDatabase, RecoverDatabase, MatchDatabase,
     RecheckDatabase, OpenDatabase, ensureAnchor, MatchAnchor, RecheckAnchor, readAnchor,
     publishAnchor, UnlinkAnchor, ReadAnchorAgain, BeginImmediate, onLost, notifyLoss, Inspect,
     Probe, ProbeEnds
<1>7. ASSUME NEW c \in Clients PROVE pc'[c] # "held"
  <2>1. ASSUME NEW d \in Clients, Acquire(d), Others(d) PROVE pc'[c] # "held"
    BY <1>1, <1>3, <2>1 DEF Acquire, Goto, End, Others
  <2>2. ASSUME NEW d \in Clients, bootstrapDatabase(d), Others(d) PROVE pc'[c] # "held"
    BY <1>1, <1>3, <2>2 DEF bootstrapDatabase, Goto, End, Others
  <2>3. ASSUME NEW d \in Clients, LinkDatabase(d), Others(d) PROVE pc'[c] # "held"
    BY <1>1, <1>3, <2>3 DEF LinkDatabase, Goto, End, Others
  <2>4. ASSUME NEW d \in Clients, UnlinkDatabase(d), Others(d) PROVE pc'[c] # "held"
    BY <1>1, <1>3, <2>4 DEF UnlinkDatabase, Goto, End, Others
  <2>5. ASSUME NEW d \in Clients, RecoverDatabase(d), Others(d) PROVE pc'[c] # "held"
    BY <1>1, <1>3, <2>5 DEF RecoverDatabase, Goto, End, Others
  <2>6. ASSUME NEW d \in Clients, MatchDatabase(d), Others(d) PROVE pc'[c] # "held"
    BY <1>1, <1>3, <2>6 DEF MatchDatabase, Goto, End, Others
  <2>7. ASSUME NEW d \in Clients, RecheckDatabase(d), Others(d) PROVE pc'[c] # "held"
    BY <1>1, <1>3, <2>7 DEF RecheckDatabase, Goto, End, Others
  <2>8. ASSUME NEW d \in Clients, OpenDatabase(d), Others(d) PROVE pc'[c] # "held"
    BY <1>1, <1>3, <2>8 DEF OpenDatabase, Goto, End, Others
  <2>9. ASSUME NEW d \in Clients, ensureAnchor(d), Others(d) PROVE pc'[c] # "held"
    BY <1>1, <1>3, <2>9 DEF ensureAnchor, Goto, End, Others
  <2>10. ASSUME NEW d \in Clients, MatchAnchor(d), Others(d) PROVE pc'[c] # "held"
    BY <1>1, <1>3, <2>10 DEF MatchAnchor, Goto, End, Others
  <2>11. ASSUME NEW d \in Clients, RecheckAnchor(d), Others(d) PROVE pc'[c] # "held"
    BY <1>1, <1>3, <2>11 DEF RecheckAnchor, Goto, End, Others
  <2>12. ASSUME NEW d \in Clients, readAnchor(d), Others(d) PROVE pc'[c] # "held"
    BY <1>1, <1>3, <2>12 DEF readAnchor, Compare, Goto, End, Others
  <2>13. ASSUME NEW d \in Clients, publishAnchor(d), Others(d) PROVE pc'[c] # "held"
    BY <1>1, <1>3, <2>13, Zenon DEF publishAnchor, Goto, End, Others
  <2>14. ASSUME NEW d \in Clients, UnlinkAnchor(d), Others(d) PROVE pc'[c] # "held"
    BY <1>1, <1>3, <2>14 DEF UnlinkAnchor, Goto, End, Others
  <2>15. ASSUME NEW d \in Clients, ReadAnchorAgain(d), Others(d) PROVE pc'[c] # "held"
    BY <1>1, <1>3, <2>15 DEF ReadAnchorAgain, Compare, Goto, End, Others
  <2>16. ASSUME NEW d \in Clients, BeginImmediate(d), Others(d) PROVE pc'[c] # "held"
    <3>1. End(d, "busy")
      BY <1>0, <2>16, Zenon DEF BeginImmediate
    <3> QED
      BY <1>1, <1>3, <2>16, <3>1 DEF End, Others
  <2>17. ASSUME NEW d \in Clients, Inspect(d), Others(d) PROVE pc'[c] # "held"
    BY <1>1, <1>3, <2>17 DEF Inspect, Goto, End, Others
  <2>18. ASSUME NEW d \in Clients, Probe(d), Others(d) PROVE pc'[c] # "held"
    BY <1>1, <1>3, <2>18 DEF Probe, Goto, End, Others
  <2>19. ASSUME NEW d \in Clients, ProbeEnds(d), Others(d) PROVE pc'[c] # "held"
    BY <1>1, <1>3, <2>19 DEF ProbeEnds, Goto, End, Others
  <2> QED
    BY <1>0, <1>3, <1>5, <2>1, <2>2, <2>3, <2>4, <2>5, <2>6, <2>7, <2>8, <2>9, <2>10, <2>11, <2>12,
       <2>13, <2>14, <2>15, <2>16, <2>17, <2>18, <2>19, ClientSteps, Zenon DEF LeaseNext,
       AcquireStep, leaseVars, onLost, notifyLoss
<1>8. ASSUME db' = 0 PROVE \A c \in Clients : result'[c] \in {Nobody, "absent"}
  <2>1. db = 0 /\ \A c \in Clients : ~LinkDatabase(c)
    <3>1. \/ db = db'
          \/ \E c \in Clients : LinkDatabase(c)
      BY <1>0, ZenonT(60) DEF LeaseNext, AcquireStep, leaseVars, Files, Acquire, bootstrapDatabase,
         UnlinkDatabase, RecoverDatabase, MatchDatabase, RecheckDatabase, OpenDatabase,
         ensureAnchor, MatchAnchor, RecheckAnchor, readAnchor, publishAnchor, UnlinkAnchor,
         ReadAnchorAgain, BeginImmediate, onLost, notifyLoss, release, Inspect, Probe, ProbeEnds
    <3>2. \A c \in Clients : LinkDatabase(c) => db' # 0
      BY <1>2, Zenon DEF LinkDatabase, Making
    <3> QED
      BY <1>8, <3>1, <3>2
  <2>2. ASSUME NEW d \in Clients, Acquire(d) \/ bootstrapDatabase(d) \/ Inspect(d), Others(d)
        PROVE  \A c \in Clients : result'[c] \in {Nobody, "absent"}
    BY <1>1, <1>2, <1>3, <1>4, <2>1, <2>2 DEF Acquire, bootstrapDatabase, Inspect, Goto, End, Others
  <2>3. ASSUME NEW d \in Clients
        PROVE  ~ (\/ UnlinkDatabase(d) \/ RecoverDatabase(d) \/ MatchDatabase(d) \/ RecheckDatabase(d)
                  \/ OpenDatabase(d) \/ ensureAnchor(d) \/ MatchAnchor(d) \/ RecheckAnchor(d)
                  \/ readAnchor(d) \/ publishAnchor(d) \/ UnlinkAnchor(d) \/ ReadAnchorAgain(d)
                  \/ BeginImmediate(d) \/ release(d) \/ Probe(d) \/ ProbeEnds(d))
    BY <1>2, <2>1, Zenon DEF UnlinkDatabase, RecoverDatabase, MatchDatabase, RecheckDatabase, OpenDatabase,
       ensureAnchor, MatchAnchor, RecheckAnchor, readAnchor, publishAnchor, UnlinkAnchor,
       ReadAnchorAgain, BeginImmediate, release, Probe, ProbeEnds
  <2> QED
    BY <1>0, <1>3, <2>1, <2>2, <2>3, ClientSteps, Zenon DEF LeaseNext, AcquireStep, leaseVars,
       onLost, notifyLoss
<1>9. ASSUME db' # 0 PROVE \E c \in Clients : Carries(c)'
  <2>1. ASSUME db = 0 PROVE \E c \in Clients : Carries(c)'
    <3>1. \E c \in Clients : LinkDatabase(c)
      BY <1>0, <1>9, <2>1, ZenonT(60) DEF LeaseNext, AcquireStep, leaseVars, Files, Acquire,
         bootstrapDatabase, UnlinkDatabase, RecoverDatabase, MatchDatabase, RecheckDatabase,
         OpenDatabase, ensureAnchor, MatchAnchor, RecheckAnchor, readAnchor, publishAnchor,
         UnlinkAnchor, ReadAnchorAgain, BeginImmediate, onLost, notifyLoss, release, Inspect, Probe,
         ProbeEnds
    <3> QED
      BY <1>1, <1>2, <2>1, <3>1 DEF LinkDatabase, Goto, Private, Carries, Doubled, AnchorDoubled
  <2>2. ASSUME NEW k \in Clients, db # 0, Carries(k) PROVE \E c \in Clients : Carries(c)'
    <3>0. ASSUME NEW c \in Clients, Others(c), k # c, UNCHANGED <<db, temps, anchor, atemps>>
          PROVE  \E d \in Clients : Carries(d)'
      <4>1. Carries(k)'
        BY <2>2, <3>0, Zenon DEF Others, Carries, Doubled, AnchorDoubled
      <4> QED
        BY <4>1
    <3>1. ASSUME NEW c \in Clients, Acquire(c), Others(c) PROVE \E d \in Clients : Carries(d)'
      <4>0. UNCHANGED <<db, temps, anchor, atemps>>
        BY <2>2, <3>1, Zenon DEF Acquire, Files
      <4>1. CASE k # c
        BY <3>0, <3>1, <4>0, <4>1
      <4>2. CASE k = c
        <5>1. pc[c] = "idle" /\ ~Doubled(db) /\ ~AnchorDoubled /\ anchor # NoAnchor
          BY <2>2, <3>1, <4>2, Zenon DEF Acquire, Carries
        <5>2. pc'[c] = "recover"
          BY <1>1, <1>2, <1>4, <2>2, <3>1, <5>1 DEF Acquire, Goto, End, Located
        <5> QED
          BY <4>0, <5>1, <5>2, Zenon DEF Carries, Doubled, AnchorDoubled
      <4> QED
        BY <4>1, <4>2
    <3>2. ASSUME NEW c \in Clients, bootstrapDatabase(c), Others(c) PROVE \E d \in Clients : Carries(d)'
      <4>0. UNCHANGED <<db, anchor, atemps>> /\ (Doubled(db)' <=> Doubled(db))
        <5>1. UNCHANGED <<db, anchor, atemps>> /\ temps' \in {temps, temps \cup {inodes + 1}}
          BY <3>2, Zenon DEF bootstrapDatabase
        <5>2. db # inodes + 1
          BY <1>1, <1>2
        <5> QED
          BY <5>1, <5>2 DEF Doubled
      <4>1. CASE k # c
        <5>1. pc'[k] = pc[k] /\ result'[k] = result[k] /\ mine'[k] = mine[k] /\ ino'[k] = ino[k]
          BY <3>2, <4>1 DEF Others
        <5>2. Doubled(db)' => Doubled(db)
          BY <4>0 DEF Doubled
        <5>3. Doubled(db) => anchor = NoAnchor /\ pc[k] = "unlink"
          BY <1>2, <2>2 DEF Carries
        <5>4. AnchorDoubled' <=> AnchorDoubled
          BY <4>0, Zenon DEF AnchorDoubled
        <5>5. Carries(k)'
          BY <2>2, <4>0, <5>1, <5>2, <5>3, <5>4 DEF Carries
        <5> QED
          BY <5>5
      <4>2. CASE k = c
        BY <1>1, <2>2, <3>2, <4>2, Zenon DEF bootstrapDatabase, Carries, AnchorDoubled
      <4> QED
        BY <4>1, <4>2
    <3>3. ASSUME NEW c \in Clients, LinkDatabase(c), Others(c) PROVE \E d \in Clients : Carries(d)'
      <4>0. UNCHANGED <<db, temps, anchor, atemps>>
        BY <2>2, <3>3, Zenon DEF LinkDatabase, Files
      <4>1. CASE k # c
        BY <3>0, <3>3, <4>0, <4>1
      <4>2. CASE k = c
        BY <1>1, <2>2, <3>3, <4>2, Zenon DEF LinkDatabase, Carries, AnchorDoubled
      <4> QED
        BY <4>1, <4>2
    <3>4. ASSUME NEW c \in Clients, UnlinkDatabase(c), Others(c) PROVE \E d \in Clients : Carries(d)'
      <4>0. UNCHANGED <<db, anchor, atemps>> /\ temps' = temps \ {mine[c]}
        BY <3>4, Zenon DEF UnlinkDatabase
      <4>1. CASE k # c
        <5>1. pc'[k] = pc[k] /\ result'[k] = result[k] /\ mine'[k] = mine[k] /\ ino'[k] = ino[k]
          BY <3>4, <4>1 DEF Others
        <5>2. Doubled(db)' => Doubled(db)
          BY <4>0 DEF Doubled
        <5>3. Doubled(db) => anchor = NoAnchor /\ pc[k] = "unlink"
          BY <1>2, <2>2 DEF Carries
        <5>4. AnchorDoubled' <=> AnchorDoubled
          BY <4>0, Zenon DEF AnchorDoubled
        <5>5. Carries(k)'
          BY <2>2, <4>0, <5>1, <5>2, <5>3, <5>4 DEF Carries
        <5> QED
          BY <5>5
      <4>2. CASE k = c
        <5>1. pc[c] = "unlink" /\ pc'[c] = "recover" /\ (Doubled(db) => mine[c] = db)
          BY <1>1, <2>2, <3>4, <4>2 DEF UnlinkDatabase, Goto, Carries
        <5>2. ~Doubled(db)'
          BY <4>0, <5>1, Zenon DEF Doubled, AnchorDoubled
        <5>3. ~AnchorDoubled'
          BY <2>2, <4>0, <4>2, <5>1, Zenon DEF Carries, AnchorDoubled
        <5> QED
          BY <4>0, <5>1, <5>2, <5>3, Zenon DEF Carries
      <4> QED
        BY <4>1, <4>2
    <3>5. ASSUME NEW c \in Clients, RecoverDatabase(c), Others(c) PROVE \E d \in Clients : Carries(d)'
      <4>0. UNCHANGED <<db, temps, anchor, atemps>>
        BY <2>2, <3>5, Zenon DEF RecoverDatabase, Files
      <4>1. CASE k # c
        BY <3>0, <3>5, <4>0, <4>1
      <4>2. CASE k = c
        <5>1. pc[c] = "recover" /\ ~Doubled(db) /\ ~AnchorDoubled
          BY <2>2, <3>5, <4>2, Zenon DEF RecoverDatabase, Carries
        <5>2. pc'[c] = "open"
          BY <1>1, <1>2, <1>4, <2>2, <3>5, <5>1 DEF RecoverDatabase, Goto, End, Located
        <5> QED
          BY <4>0, <5>1, <5>2 DEF Carries, Doubled, AnchorDoubled
      <4> QED
        BY <4>1, <4>2
    <3>6. ASSUME NEW c \in Clients, MatchDatabase(c), Others(c) PROVE \E d \in Clients : Carries(d)'
      <4>0. UNCHANGED <<db, anchor, atemps>> /\ temps' = temps \ {ino[c]}
        BY <3>6, Zenon DEF MatchDatabase
      <4>1. CASE k # c
        <5>1. pc'[k] = pc[k] /\ result'[k] = result[k] /\ mine'[k] = mine[k] /\ ino'[k] = ino[k]
          BY <3>6, <4>1 DEF Others
        <5>2. Doubled(db)' => Doubled(db)
          BY <4>0 DEF Doubled
        <5>3. Doubled(db) => anchor = NoAnchor /\ pc[k] = "unlink"
          BY <1>2, <2>2 DEF Carries
        <5>4. AnchorDoubled' <=> AnchorDoubled
          BY <4>0, Zenon DEF AnchorDoubled
        <5>5. Carries(k)'
          BY <2>2, <4>0, <5>1, <5>2, <5>3, <5>4, Zenon DEF Carries
        <5> QED
          BY <5>5
      <4>2. CASE k = c
        BY <1>1, <2>2, <3>6, <4>2, Zenon DEF MatchDatabase, Carries, AnchorDoubled
      <4> QED
        BY <4>1, <4>2
    <3>7. ASSUME NEW c \in Clients, RecheckDatabase(c), Others(c) PROVE \E d \in Clients : Carries(d)'
      <4>0. UNCHANGED <<db, temps, anchor, atemps>>
        BY <2>2, <3>7, Zenon DEF RecheckDatabase, Files
      <4>1. CASE k # c
        BY <3>0, <3>7, <4>0, <4>1
      <4>2. CASE k = c
        BY <1>1, <2>2, <3>7, <4>2, Zenon DEF RecheckDatabase, Carries, AnchorDoubled
      <4> QED
        BY <4>1, <4>2
    <3>8. ASSUME NEW c \in Clients, OpenDatabase(c), Others(c) PROVE \E d \in Clients : Carries(d)'
      <4>0. UNCHANGED <<db, temps, anchor, atemps>>
        BY <2>2, <3>8, Zenon DEF OpenDatabase, Files
      <4>1. CASE k # c
        BY <3>0, <3>8, <4>0, <4>1
      <4>2. CASE k = c
        <5>1. pc[c] = "open" /\ ~Doubled(db) /\ ~AnchorDoubled
          BY <2>2, <3>8, <4>2, Zenon DEF OpenDatabase, Carries
        <5>2. pc'[c] = "anchor"
          BY <1>1, <1>2, <1>4, <2>2, <3>8, <5>1 DEF OpenDatabase, Goto, End, Located
        <5> QED
          BY <4>0, <5>1, <5>2, Zenon DEF Carries, Doubled, AnchorDoubled
      <4> QED
        BY <4>1, <4>2
    <3>9. ASSUME NEW c \in Clients, ensureAnchor(c), Others(c) PROVE \E d \in Clients : Carries(d)'
      <4>0. UNCHANGED <<db, temps, anchor, atemps>>
        BY <2>2, <3>9, Zenon DEF ensureAnchor, Files
      <4>1. CASE k # c
        BY <3>0, <3>9, <4>0, <4>1
      <4>2. CASE k = c
        <5>1. pc[c] = "anchor" /\ ~Doubled(db) /\ ~AnchorDoubled
          BY <2>2, <3>9, <4>2, Zenon DEF ensureAnchor, Carries
        <5>2. pc'[c] = "aread"
          BY <1>1, <1>2, <1>4, <2>2, <3>9, <5>1 DEF ensureAnchor, Goto, End, Located
        <5> QED
          BY <4>0, <5>1, <5>2 DEF Carries, Doubled, AnchorDoubled
      <4> QED
        BY <4>1, <4>2
    <3>10. ASSUME NEW c \in Clients, MatchAnchor(c), Others(c) PROVE \E d \in Clients : Carries(d)'
      <4>0. UNCHANGED <<db, temps, anchor>> /\ atemps' = atemps \ {seen[c]}
        BY <3>10, Zenon DEF MatchAnchor
      <4>1. CASE k # c
        <5>1. pc'[k] = pc[k] /\ result'[k] = result[k] /\ mine'[k] = mine[k] /\ ino'[k] = ino[k]
          BY <3>10, <4>1 DEF Others
        <5>2. AnchorDoubled' => AnchorDoubled
          BY <4>0 DEF AnchorDoubled
        <5>3. AnchorDoubled => anchor # NoAnchor /\ pc[k] = "aunlink"
          BY <1>1, <2>2, Zenon DEF Carries, AnchorDoubled
        <5>4. Doubled(db)' <=> Doubled(db)
          BY <4>0, Zenon DEF Doubled
        <5>5. Carries(k)'
          BY <2>2, <4>0, <5>1, <5>2, <5>3, <5>4, Zenon DEF Carries
        <5> QED
          BY <5>5
      <4>2. CASE k = c
        BY <1>1, <2>2, <3>10, <4>2, Zenon DEF MatchAnchor, Carries, AnchorDoubled
      <4> QED
        BY <4>1, <4>2
    <3>11. ASSUME NEW c \in Clients, RecheckAnchor(c), Others(c) PROVE \E d \in Clients : Carries(d)'
      <4>0. UNCHANGED <<db, temps, anchor, atemps>>
        BY <2>2, <3>11, Zenon DEF RecheckAnchor, Files
      <4>1. CASE k # c
        BY <3>0, <3>11, <4>0, <4>1
      <4>2. CASE k = c
        BY <1>1, <2>2, <3>11, <4>2, Zenon DEF RecheckAnchor, Carries, AnchorDoubled
      <4> QED
        BY <4>1, <4>2
    <3>12. ASSUME NEW c \in Clients, readAnchor(c), Others(c) PROVE \E d \in Clients : Carries(d)'
      <4>1. CASE anchor # NoAnchor
        <5>1. UNCHANGED <<db, temps, anchor, atemps>>
          BY <3>12, <4>1, Zenon DEF readAnchor, Compare, Files
        <5>2. CASE k # c
          BY <3>0, <3>12, <5>1, <5>2
        <5>3. CASE k = c
          <6>1. /\ pc[c] = "aread" /\ ~AnchorDoubled /\ ~Doubled(db) /\ anchor.of = ino[c]
            BY <1>2, <2>2, <3>12, <4>1, <5>3, Zenon DEF readAnchor, Carries, Located
          <6>2. pc'[c] = "begin"
            BY <1>1, <3>12, <4>1, <6>1, Zenon DEF readAnchor, Compare, Goto
          <6> QED
            BY <4>1, <5>1, <6>1, <6>2, Zenon DEF Carries, Doubled, AnchorDoubled
        <5> QED
          BY <5>2, <5>3
      <4>2. CASE anchor = NoAnchor
        <5>1. /\ UNCHANGED <<db, temps, anchor>>
              /\ atemps' = atemps \cup {[file |-> inodes + 1, of |-> ino[c]]}
              /\ pc[c] = "aread" /\ pc'[c] = "alink"
          BY <1>1, <3>12, <4>2, Zenon DEF readAnchor, Compare, Goto
        <5>2. [file |-> inodes + 1, of |-> ino[c]] # NoAnchor
          <6>1. inodes + 1 # 0
            BY LeaseAssumption DEF LeaseTyped, FilesTyped
          <6> QED
            BY <6>1 DEF NoAnchor
        <5>3. ~AnchorDoubled' /\ ~AnchorDoubled
          BY <1>1, <4>2, <5>1, <5>2, Zenon DEF AnchorDoubled
        <5>4. k # c => pc'[k] = pc[k] /\ mine'[k] = mine[k]
          BY <3>12 DEF Others
        <5>5. ~Doubled(db)
          BY <1>2, <3>12, Zenon DEF readAnchor, Opened
        <5> QED
          BY <2>2, <4>2, <5>1, <5>3, <5>4, <5>5, Zenon DEF Carries, Doubled
      <4> QED
        BY <4>1, <4>2
    <3>13. ASSUME NEW c \in Clients, publishAnchor(c), Others(c) PROVE \E d \in Clients : Carries(d)'
      <4>1. CASE anchor # NoAnchor
        <5>1. UNCHANGED <<db, temps, anchor, atemps>>
          BY <3>13, <4>1, Zenon DEF publishAnchor, Files
        <5>2. CASE k # c
          BY <3>0, <3>13, <5>1, <5>2
        <5>3. CASE k = c
          <6>1. /\ pc[c] = "alink" /\ ~AnchorDoubled /\ ~Doubled(db) /\ anchor.of = ino[c]
            BY <1>2, <2>2, <3>13, <4>1, <5>3, Zenon DEF publishAnchor, Carries, Located
          <6>2. pc'[c] = "aunlink"
            BY <1>1, <3>13, <4>1, <6>1 DEF publishAnchor, Goto
          <6> QED
            BY <4>1, <5>1, <6>1, <6>2, Zenon DEF Carries, Doubled, AnchorDoubled
        <5> QED
          BY <5>2, <5>3
      <4>2. CASE anchor = NoAnchor
        <5>1. /\ anchor' = [file |-> mine[c], of |-> ino[c]] /\ pc'[c] = "aunlink"
              /\ UNCHANGED <<db, temps, atemps, mine, ino>>
          BY <1>1, <3>13, <4>2 DEF publishAnchor, Goto, Private
        <5>2. mine[c] # 0 /\ ~Doubled(db)
          BY <1>2, <3>13, Zenon DEF publishAnchor, Making, Opened
        <5>3. anchor' # NoAnchor
          BY <5>1, <5>2, Zenon DEF NoAnchor
        <5>4. Carries(c)'
          BY <5>1, <5>2, <5>3, Zenon DEF Carries, Doubled, AnchorDoubled
        <5> QED
          BY <5>4
      <4> QED
        BY <4>1, <4>2
    <3>14. ASSUME NEW c \in Clients, UnlinkAnchor(c), Others(c) PROVE \E d \in Clients : Carries(d)'
      <4>0. UNCHANGED <<db, temps, anchor>> /\ atemps' = atemps \ {[file |-> mine[c], of |-> ino[c]]}
        BY <3>14, Zenon DEF UnlinkAnchor
      <4>1. CASE k # c
        <5>1. pc'[k] = pc[k] /\ result'[k] = result[k] /\ mine'[k] = mine[k] /\ ino'[k] = ino[k]
          BY <3>14, <4>1 DEF Others
        <5>2. AnchorDoubled' => AnchorDoubled
          BY <4>0 DEF AnchorDoubled
        <5>3. AnchorDoubled => anchor # NoAnchor /\ pc[k] = "aunlink"
          BY <1>1, <2>2, Zenon DEF Carries, AnchorDoubled
        <5>4. Doubled(db)' <=> Doubled(db)
          BY <4>0, Zenon DEF Doubled
        <5>5. Carries(k)'
          BY <2>2, <4>0, <5>1, <5>2, <5>3, <5>4 DEF Carries
        <5> QED
          BY <5>5
      <4>2. CASE k = c
        <5>1. pc[c] = "aunlink" /\ pc'[c] = "areread" /\ (AnchorDoubled => anchor = [file |-> mine[c], of |-> ino[c]])
          BY <1>1, <2>2, <3>14, <4>2, Zenon DEF UnlinkAnchor, Goto, Carries
        <5>2. ~AnchorDoubled'
          BY <4>0, <5>1, Zenon DEF Doubled, AnchorDoubled
        <5>3. ~Doubled(db)' /\ anchor # NoAnchor
          BY <1>2, <2>2, <4>0, <4>2, <5>1, Zenon DEF Carries, Doubled, Opened
        <5> QED
          BY <4>0, <5>1, <5>2, <5>3, Zenon DEF Carries
      <4> QED
        BY <4>1, <4>2
    <3>15. ASSUME NEW c \in Clients, ReadAnchorAgain(c), Others(c) PROVE \E d \in Clients : Carries(d)'
      <4>0. UNCHANGED <<db, temps, anchor, atemps>>
        BY <2>2, <3>15, Zenon DEF ReadAnchorAgain, Files
      <4>1. CASE k # c
        BY <3>0, <3>15, <4>0, <4>1
      <4>2. CASE k = c
        <5>1. pc[c] = "areread" /\ ~Doubled(db) /\ ~AnchorDoubled /\ anchor # NoAnchor
          BY <2>2, <3>15, <4>2, Zenon DEF ReadAnchorAgain, Carries
        <5>2. pc'[c] = "begin"
          BY <1>1, <1>2, <1>4, <2>2, <3>15, <5>1 DEF ReadAnchorAgain, Compare, Goto, End, Located
        <5> QED
          BY <4>0, <5>1, <5>2, Zenon DEF Carries, Doubled, AnchorDoubled
      <4> QED
        BY <4>1, <4>2
    <3>16. ASSUME NEW c \in Clients, BeginImmediate(c), Others(c) PROVE \E d \in Clients : Carries(d)'
      <4>0. UNCHANGED <<db, temps, anchor, atemps>>
        BY <2>2, <3>16, Zenon DEF BeginImmediate, Files
      <4>1. CASE k # c
        BY <3>0, <3>16, <4>0, <4>1
      <4>2. CASE k = c
        <5>1. /\ anchor # NoAnchor /\ ~AnchorDoubled /\ ~Doubled(db) /\ ino[c] = db /\ ino[c] \in Inodes
          BY <1>2, <1>a, <2>2, <3>16, <4>2, Zenon DEF BeginImmediate, Carries, Located
        <5>2. CASE lock[ino[c]] = Nobody
          <6>1. pc'[c] = "probing"
            BY <1>0, <1>1, <1>2, <3>16, <5>1, <5>2, Zenon DEF BeginImmediate, Goto
          <6> QED
            BY <4>0, <5>1, <6>1, Zenon DEF Carries, Doubled, AnchorDoubled
        <5>3. CASE lock[ino[c]] # Nobody
          <6>1. PICK d \in Clients : pc[d] = "probing"
            BY <1>1, <1>3, <5>1, <5>3 DEF Holding, Locking
          <6>2. pc[c] # "probing"
            BY <3>16, Zenon DEF BeginImmediate
          <6>3. pc'[d] = "probing"
            BY <3>16, <6>1, <6>2, Zenon DEF Others
          <6>4. Carries(d)'
            BY <4>0, <5>1, <6>3, Zenon DEF Carries, Doubled, AnchorDoubled
          <6> QED
            BY <6>4
        <5> QED
          BY <5>2, <5>3
      <4> QED
        BY <4>1, <4>2
    <3>17. ASSUME NEW c \in Clients, Inspect(c), Others(c) PROVE \E d \in Clients : Carries(d)'
      <4>0. UNCHANGED <<db, temps, anchor, atemps>>
        BY <2>2, <3>17, Zenon DEF Inspect, Files
      <4>1. CASE k # c
        BY <3>0, <3>17, <4>0, <4>1
      <4>2. CASE k = c
        <5>1. pc[c] = "idle" /\ ~Doubled(db) /\ ~AnchorDoubled /\ anchor # NoAnchor
          BY <2>2, <3>17, <4>2, Zenon DEF Inspect, Carries
        <5>2. pc'[c] = "probe"
          BY <1>1, <1>2, <1>4, <2>2, <3>17, <5>1 DEF Inspect, Goto, End, Located
        <5> QED
          BY <4>0, <5>1, <5>2 DEF Carries, Doubled, AnchorDoubled
      <4> QED
        BY <4>1, <4>2
    <3>18. ASSUME NEW c \in Clients, Probe(c), Others(c) PROVE \E d \in Clients : Carries(d)'
      <4>0. UNCHANGED <<db, temps, anchor, atemps>>
        BY <2>2, <3>18, Zenon DEF Probe, Files
      <4>1. CASE k # c
        BY <3>0, <3>18, <4>0, <4>1
      <4>2. CASE k = c
        <5>1. /\ anchor # NoAnchor /\ ~AnchorDoubled /\ ~Doubled(db) /\ ino[c] = db /\ ino[c] \in Inodes
          BY <1>2, <1>a, <2>2, <3>18, <4>2, Zenon DEF Probe, Carries, Located
        <5>2. CASE lock[ino[c]] = Nobody
          <6>1. pc'[c] = "probing"
            BY <1>0, <1>1, <1>2, <3>18, <5>1, <5>2 DEF Probe, Goto
          <6> QED
            BY <4>0, <5>1, <6>1 DEF Carries, Doubled, AnchorDoubled
        <5>3. CASE lock[ino[c]] # Nobody
          <6>1. PICK d \in Clients : pc[d] = "probing"
            BY <1>1, <1>3, <5>1, <5>3 DEF Holding, Locking
          <6>2. pc[c] # "probing"
            BY <3>18, Zenon DEF Probe
          <6>3. pc'[d] = "probing"
            BY <3>18, <6>1, <6>2 DEF Others
          <6>4. Carries(d)'
            BY <4>0, <5>1, <6>3 DEF Carries, Doubled, AnchorDoubled
          <6> QED
            BY <6>4
        <5> QED
          BY <5>2, <5>3
      <4> QED
        BY <4>1, <4>2
    <3>19. ASSUME NEW c \in Clients, ProbeEnds(c), Others(c) PROVE \E d \in Clients : Carries(d)'
      <4>0. UNCHANGED <<db, temps, anchor, atemps>>
        BY <2>2, <3>19, Zenon DEF ProbeEnds, Files
      <4>1. CASE k # c
        BY <3>0, <3>19, <4>0, <4>1
      <4>2. CASE k = c
        <5>1. pc[c] = "probing" /\ ~Doubled(db) /\ ~AnchorDoubled /\ anchor # NoAnchor
          BY <2>2, <3>19, <4>2, Zenon DEF ProbeEnds, Carries
        <5>2. pc'[c] = "idle" /\ result'[c] = "free"
          BY <1>1, <1>2, <1>4, <2>2, <3>19, <5>1 DEF ProbeEnds, Goto, End, Located
        <5> QED
          BY <4>0, <5>1, <5>2 DEF Carries, Doubled, AnchorDoubled
      <4> QED
        BY <4>1, <4>2
    <3>20. ASSUME UNCHANGED <<db, temps, anchor, atemps, pc, result, ino, mine>> PROVE Carries(k)'
      BY <2>2, <3>20, Zenon DEF Carries, Doubled, AnchorDoubled
    <3> QED
      BY <1>0, <1>5, <3>1, <3>2, <3>3, <3>4, <3>5, <3>6, <3>7, <3>8, <3>9, <3>10, <3>11, <3>12,
         <3>13, <3>14, <3>15, <3>16, <3>17, <3>18, <3>19, <3>20, ClientSteps, Zenon DEF LeaseNext,
         AcquireStep, leaseVars, onLost, notifyLoss, Files, Private
  <2> QED
    BY <1>3, <2>1, <2>2
<1> QED
  BY <1>3, <1>6, <1>7, <1>8, <1>9, Zenon DEF RaceIsOpen

\* The inductive invariant of the lease.
LeaseInvariant ==
    LeaseTyped /\ Holding /\ Counted /\ Published /\ Undisturbed /\ RaceIsOpen

\* The inductive invariant holds before the first call.
LEMMA LeaseInvariantInit == LeaseInit => LeaseInvariant
<1> SUFFICES ASSUME LeaseInit PROVE LeaseInvariant
  OBVIOUS
<1>1. Holding /\ Published /\ RaceIsOpen
  BY DEF LeaseInit, Holding, Locking, Published, Unpublished, Located, Opened, Doubled, RaceIsOpen, NoAnchor
<1>2. Counted
  BY LeaseAssumption DEF LeaseInit, Counted
<1>3. Undisturbed
  BY Zenon DEF LeaseInit, Undisturbed
<1> QED
  BY <1>1, <1>2, <1>3, LeaseTypedInit DEF LeaseInvariant

\* Every step preserves the inductive invariant.
LEMMA LeaseInvariantNext == LeaseInvariant /\ [LeaseNext]_leaseVars => LeaseInvariant'
BY LeaseTypedNext, HoldingNext, CountedNext, PublishedNext, UndisturbedNext, RaceIsOpenNext DEF LeaseInvariant

\* The only assignment to the database path is the link into an empty place, or a deletion.
LEMMA NothingReplaces == LeaseTyped /\ [LeaseNext]_leaseVars => (db # 0 /\ db' # 0 => db' = db)
BY ZenonT(60) DEF LeaseNext, AcquireStep, leaseVars, Files, Acquire, bootstrapDatabase,
   LinkDatabase, UnlinkDatabase, RecoverDatabase, MatchDatabase, RecheckDatabase, OpenDatabase,
   ensureAnchor, MatchAnchor, RecheckAnchor, readAnchor, publishAnchor, UnlinkAnchor,
   ReadAnchorAgain, BeginImmediate, onLost, notifyLoss, release, Inspect, Probe, ProbeEnds,
   ProcessDies, Remove

\* The inductive invariant implies the three state properties of the lease.
LEMMA LeaseInvariantSuffices == LeaseInvariant => AtMostOneHeld /\ SoloAcquireSucceeds /\ RaceHasAWinner
<1> SUFFICES ASSUME LeaseInvariant PROVE AtMostOneHeld /\ SoloAcquireSucceeds /\ RaceHasAWinner
  OBVIOUS
<1>1. AtMostOneHeld
  <2>1. \A c \in Clients : isHeld(c) => lock[db] = c
    BY DEF LeaseInvariant, isHeld, Holding, Locking
  <2> QED
    BY <2>1 DEF AtMostOneHeld
<1>2. SoloAcquireSucceeds
  BY Zenon DEF LeaseInvariant, SoloAcquireSucceeds, Undisturbed, OnTrack
<1>3. RaceHasAWinner
  <2>1. SUFFICES ASSUME Racing
                 PROVE  \E c \in Clients : ~ (/\ pc[c] = "idle"
                                              /\ result[c] \in {"unsafe", "corrupt", "unavailable", "busy"})
    BY DEF RaceHasAWinner, Racing
  <2>2. CASE db = 0
    BY <2>1, <2>2, LeaseAssumption DEF LeaseInvariant, RaceIsOpen, Nobody
  <2>3. CASE db # 0
    <3>1. PICK c \in Clients : Carries(c)
      BY <2>1, <2>3 DEF LeaseInvariant, RaceIsOpen
    <3> QED
      BY <3>1 DEF Carries
  <2> QED
    BY <2>2, <2>3
<1> QED
  BY <1>1, <1>2, <1>3

\* For any number of clients spread over any number of processes: two leases are never both held, even
\* when the files are deleted under a holder; an undisturbed acquire ends held or busy whatever a crash
\* left behind; the losers of a race always have a winner; and a published database is never replaced
\* in place (acquirePrivateSqliteLease, ensureAnchor, inspectPrivateSqliteLease, release).
THEOREM LeaseHolds == LeaseSpec => LeaseIsExclusiveAndAvailable
<1>1. LeaseInvariant => LeaseTyped
  BY DEF LeaseInvariant
<1> QED
  BY <1>1, LeaseInvariantInit, LeaseInvariantNext, LeaseInvariantSuffices, NothingReplaces, PTL
     DEF LeaseSpec, LeaseIsExclusiveAndAvailable, DatabaseIsNeverReplaced
=============================================================================
