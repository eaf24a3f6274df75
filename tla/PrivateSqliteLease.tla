-------------------------- MODULE PrivateSqliteLease --------------------------
(***************************************************************************)
(* The cross-process lease of private-sqlite-lease.ts: a database file     *)
(* published by an exclusive hard link, an identity anchor beside it       *)
(* published the same way, and an open BEGIN IMMEDIATE as the lock.        *)
(*                                                                         *)
(* Each step is one visible file-system or SQLite operation.  Several      *)
(* clients may live in one process and share its heldPaths.  A crash ends  *)
(* a process between any two steps; the kernel drops its locks and its     *)
(* temporary links stay.  An operator may delete the lease files.          *)
(* Ownership, mode and schema checks are about files this code never       *)
(* produces and are left out: every file here is private and well formed.  *)
(***************************************************************************)
EXTENDS Integers, FiniteSets

CONSTANTS
    Clients,       \* callers of acquirePrivateSqliteLease
    Processes,
    ProcessOf,     \* the process each client runs in
    MaxInodes,     \* bound on the files created
    MaxCalls,      \* bound on the calls of acquire and inspect
    MaxKills, MaxRemovals

VARIABLES
    db,        \* inode at the database path, 0 when absent
    temps,     \* inodes that also have a bootstrap name
    anchor,    \* the identity file: [file, of], NoAnchor when absent
    atemps,    \* identity files that also have a temporary name
    lock,      \* inode -> the connection inside BEGIN IMMEDIATE
    heldPaths, \* process -> inode it registered for the path, 0 for none
    pc, ino, seen, result,
    mine,      \* the temporary file this client made
    listening, \* an onLost listener is registered
    told,      \* ghost: the listener was called
    solo,      \* ghost: nobody else has acted since this client began its acquire
    won,       \* ghost: some client has held the lease
    inodes, calls, kills, removals

leaseVars == <<db, temps, anchor, atemps, lock, heldPaths, pc, ino, seen, result, mine, listening, told,
               solo, won, inodes, calls, kills, removals>>

Nobody == "none"
Inodes == 1 .. MaxInodes

ASSUME LeaseAssumption ==
    /\ MaxInodes \in Nat /\ MaxCalls \in Nat /\ MaxKills \in Nat /\ MaxRemovals \in Nat
    /\ Clients # {} /\ Nobody \notin Clients /\ ProcessOf \in [Clients -> Processes]

NoAnchor == [file |-> 0, of |-> 0]
Anchors == [file : Inodes, of : Inodes]

Steps == {"idle", "absent", "link", "unlink", "recover", "match", "recheck", "open",
          "anchor", "amatch", "arecheck", "aread", "alink", "aunlink", "areread", "begin", "held",
          "inspect", "probe", "probing"}

Results == {Nobody, "held", "busy", "unsafe", "corrupt", "unavailable", "absent", "free"}

LeaseTypeOK ==
    /\ db \in 0 .. MaxInodes /\ temps \subseteq Inodes
    /\ anchor \in Anchors \cup {NoAnchor} /\ atemps \subseteq Anchors
    /\ lock \in [Inodes -> Clients \cup {Nobody}]
    /\ heldPaths \in [Processes -> 0 .. MaxInodes]
    /\ pc \in [Clients -> Steps] /\ ino \in [Clients -> 0 .. MaxInodes]
    /\ seen \in [Clients -> Anchors \cup {NoAnchor}]
    /\ mine \in [Clients -> 0 .. MaxInodes]
    /\ result \in [Clients -> Results]
    /\ listening \in [Clients -> BOOLEAN] /\ told \in [Clients -> BOOLEAN]
    /\ solo \in [Clients -> BOOLEAN] /\ won \in BOOLEAN
    /\ inodes \in 0 .. MaxInodes /\ calls \in 0 .. MaxCalls
    /\ kills \in 0 .. MaxKills /\ removals \in 0 .. MaxRemovals

LeaseInit ==
    /\ db = 0 /\ temps = {} /\ anchor = NoAnchor /\ atemps = {}
    /\ lock = [i \in Inodes |-> Nobody] /\ heldPaths = [p \in Processes |-> 0]
    /\ pc = [c \in Clients |-> "idle"] /\ ino = [c \in Clients |-> 0]
    /\ seen = [c \in Clients |-> NoAnchor] /\ mine = [c \in Clients |-> 0]
    /\ result = [c \in Clients |-> Nobody]
    /\ listening = [c \in Clients |-> FALSE] /\ told = [c \in Clients |-> FALSE]
    /\ solo = [c \in Clients |-> FALSE] /\ won = FALSE
    /\ inodes = 0 /\ calls = 0 /\ kills = 0 /\ removals = 0

\* privateRegular asks for nlink = 1; a published file still has its temporary name
Doubled(i) == i \in temps
AnchorDoubled == anchor \in atemps

\* pathMatchesHeldIdentity
pathMatchesHeldIdentity(p) == heldPaths[p] # 0 /\ heldPaths[p] = db

isHeld(c) ==
    /\ pc[c] = "held"
    /\ pathMatchesHeldIdentity(ProcessOf[c])
    /\ db = ino[c] /\ ~Doubled(db)
    /\ anchor # NoAnchor /\ ~AnchorDoubled /\ anchor.of = seen[c].of

\* Everyone else is disturbed by a step of client c.
Disturb(c) == solo' = [d \in Clients |-> d = c /\ solo[d]]

Goto(c, step) == pc' = [pc EXCEPT ![c] = step] /\ UNCHANGED result
End(c, answer) ==
    /\ pc' = [pc EXCEPT ![c] = IF answer = "held" THEN "held" ELSE "idle"]
    /\ result' = [result EXCEPT ![c] = answer]

Files == <<db, temps, anchor, atemps, inodes>>
Locks == <<lock, heldPaths, won>>
Watch == <<listening, told>>
Faults == <<calls, kills, removals>>
Private == <<ino, seen, mine>>

(***************************************************************************)
(* acquirePrivateSqliteLease                                               *)
(***************************************************************************)
Acquire(c) ==
    /\ pc[c] = "idle" /\ calls < MaxCalls /\ calls' = calls + 1
    /\ IF pathMatchesHeldIdentity(ProcessOf[c]) THEN End(c, "busy")
       ELSE Goto(c, IF db = 0 THEN "absent" ELSE "recover")
    /\ solo' = [d \in Clients |-> d = c]
    /\ ino' = [ino EXCEPT ![c] = 0] /\ mine' = [mine EXCEPT ![c] = 0]
    /\ seen' = [seen EXCEPT ![c] = NoAnchor]
    /\ UNCHANGED <<Files, Locks, Watch, kills, removals>>

\* readAnchor before a bootstrap, then the private database under its temporary name
bootstrapDatabase(c) ==
    /\ pc[c] = "absent"
    /\ \/ anchor # NoAnchor
          /\ End(c, IF AnchorDoubled THEN "unsafe" ELSE "corrupt")
          /\ UNCHANGED <<temps, inodes, mine>>
       \/ anchor = NoAnchor /\ inodes < MaxInodes
          /\ inodes' = inodes + 1 /\ temps' = temps \cup {inodes + 1}
          /\ mine' = [mine EXCEPT ![c] = inodes + 1]
          /\ Goto(c, "link")
    /\ Disturb(c)
    /\ UNCHANGED <<db, anchor, atemps, Locks, Watch, Faults, ino, seen>>

\* Mutant: the database is published by a rename, over the one that is there.
LinkDatabaseByRename(c) ==
    /\ pc[c] = "link"
    /\ db' = mine[c]
    /\ Goto(c, "unlink") /\ Disturb(c)
    /\ UNCHANGED <<temps, anchor, atemps, inodes, Locks, Watch, Faults, Private>>

\* linkSync: EEXIST is not an error
LinkDatabase(c) ==
    /\ pc[c] = "link"
    /\ db' = IF db = 0 THEN mine[c] ELSE db
    /\ Goto(c, "unlink") /\ Disturb(c)
    /\ UNCHANGED <<temps, anchor, atemps, inodes, Locks, Watch, Faults, Private>>

UnlinkDatabase(c) ==
    /\ pc[c] = "unlink"
    /\ temps' = temps \ {mine[c]}
    /\ Goto(c, "recover") /\ Disturb(c)
    /\ UNCHANGED <<db, anchor, atemps, inodes, Locks, Watch, Faults, Private>>

\* recoverPublishedLink for the database
RecoverDatabase(c) ==
    /\ pc[c] = "recover"
    /\ IF db = 0 THEN End(c, "unavailable") ELSE Goto(c, IF Doubled(db) THEN "match" ELSE "open")
    /\ ino' = [ino EXCEPT ![c] = db]
    /\ Disturb(c)
    /\ UNCHANGED <<Files, Locks, Watch, Faults, seen, mine>>

MatchDatabase(c) ==
    /\ pc[c] = "match"
    /\ IF ino[c] \in temps THEN Goto(c, "recheck") ELSE End(c, "unsafe")
    /\ temps' = temps \ {ino[c]}
    /\ Disturb(c)
    /\ UNCHANGED <<db, anchor, atemps, inodes, Locks, Watch, Faults, Private>>

RecheckDatabase(c) ==
    /\ pc[c] = "recheck"
    /\ IF db = 0 THEN End(c, "unavailable")
       ELSE IF Doubled(db) THEN End(c, "unsafe") ELSE Goto(c, "open")
    /\ ino' = [ino EXCEPT ![c] = db]
    /\ Disturb(c)
    /\ UNCHANGED <<Files, Locks, Watch, Faults, seen, mine>>

\* new Database, lstat against the earlier identity, validateDatabase
OpenDatabase(c) ==
    /\ pc[c] = "open"
    /\ IF db = 0 THEN End(c, "corrupt")
       ELSE IF db # ino[c] \/ Doubled(db) THEN End(c, "unsafe") ELSE Goto(c, "anchor")
    /\ Disturb(c)
    /\ UNCHANGED <<Files, Locks, Watch, Faults, Private>>

(***************************************************************************)
(* ensureAnchor: recover a doubled link, read, publish when absent, read   *)
(* again.                                                                  *)
(***************************************************************************)
ensureAnchor(c) ==
    /\ pc[c] = "anchor"
    /\ seen' = [seen EXCEPT ![c] = anchor]
    /\ Goto(c, IF anchor # NoAnchor /\ AnchorDoubled THEN "amatch" ELSE "aread")
    /\ Disturb(c)
    /\ UNCHANGED <<Files, Locks, Watch, Faults, ino, mine>>

MatchAnchor(c) ==
    /\ pc[c] = "amatch"
    /\ IF seen[c] \in atemps THEN Goto(c, "arecheck") ELSE End(c, "unsafe")
    /\ atemps' = atemps \ {seen[c]}
    /\ Disturb(c)
    /\ UNCHANGED <<db, temps, anchor, inodes, Locks, Watch, Faults, Private>>

\* a vanished anchor is absent here: ENOENT is swallowed
RecheckAnchor(c) ==
    /\ pc[c] = "arecheck"
    /\ IF anchor # NoAnchor /\ AnchorDoubled THEN End(c, "unsafe") ELSE Goto(c, "aread")
    /\ Disturb(c)
    /\ UNCHANGED <<Files, Locks, Watch, Faults, Private>>

\* readAnchor compared with the expected identity
Compare(c) ==
    /\ anchor # NoAnchor
    /\ seen' = [seen EXCEPT ![c] = anchor]
    /\ IF AnchorDoubled THEN End(c, "unsafe")
       ELSE IF anchor.of # ino[c] THEN End(c, "corrupt") ELSE Goto(c, "begin")

readAnchor(c) ==
    /\ pc[c] = "aread"
    /\ \/ Compare(c) /\ UNCHANGED <<atemps, inodes, mine>>
       \/ anchor = NoAnchor /\ inodes < MaxInodes
          /\ inodes' = inodes + 1 /\ mine' = [mine EXCEPT ![c] = inodes + 1]
          /\ atemps' = atemps \cup {[file |-> inodes + 1, of |-> ino[c]]}
          /\ Goto(c, "alink") /\ UNCHANGED seen
    /\ Disturb(c)
    /\ UNCHANGED <<db, temps, anchor, Locks, Watch, Faults, ino>>

publishAnchor(c) ==
    /\ pc[c] = "alink"
    /\ anchor' = IF anchor = NoAnchor THEN [file |-> mine[c], of |-> ino[c]] ELSE anchor
    /\ Goto(c, "aunlink") /\ Disturb(c)
    /\ UNCHANGED <<db, temps, atemps, inodes, Locks, Watch, Faults, Private>>

UnlinkAnchor(c) ==
    /\ pc[c] = "aunlink"
    /\ atemps' = atemps \ {[file |-> mine[c], of |-> ino[c]]}
    /\ Goto(c, "areread") /\ Disturb(c)
    /\ UNCHANGED <<db, temps, anchor, inodes, Locks, Watch, Faults, Private>>

ReadAnchorAgain(c) ==
    /\ pc[c] = "areread"
    /\ \/ Compare(c)
       \/ anchor = NoAnchor /\ End(c, "corrupt") /\ UNCHANGED seen
    /\ Disturb(c)
    /\ UNCHANGED <<Files, Locks, Watch, Faults, ino, mine>>

\* BEGIN IMMEDIATE with no busy timeout, then the registration in heldPaths
BeginImmediate(c) ==
    /\ pc[c] = "begin"
    /\ \/ /\ lock[ino[c]] = Nobody
          /\ lock' = [lock EXCEPT ![ino[c]] = c]
          /\ heldPaths' = [heldPaths EXCEPT ![ProcessOf[c]] = ino[c]]
          /\ End(c, "held") /\ won' = TRUE
       \/ lock[ino[c]] # Nobody /\ End(c, "busy") /\ UNCHANGED Locks
    /\ Disturb(c)
    /\ UNCHANGED <<Files, Watch, Faults, Private>>

(***************************************************************************)
(* The lease object                                                        *)
(***************************************************************************)
onLost(c) ==
    /\ pc[c] = "held" /\ ~listening[c] /\ ~told[c]
    /\ IF isHeld(c) THEN listening' = [listening EXCEPT ![c] = TRUE] /\ UNCHANGED told
                    ELSE told' = [told EXCEPT ![c] = TRUE] /\ UNCHANGED listening
    /\ UNCHANGED <<Files, Locks, Faults, Private, pc, result, solo>>

\* the 25 ms timer; listeners are told once and dropped
notifyLoss(c) ==
    /\ listening[c] /\ ~isHeld(c)
    /\ listening' = [listening EXCEPT ![c] = FALSE] /\ told' = [told EXCEPT ![c] = TRUE]
    /\ UNCHANGED <<Files, Locks, Faults, Private, pc, result, solo>>

release(c) ==
    /\ pc[c] = "held"
    /\ heldPaths' = [heldPaths EXCEPT ![ProcessOf[c]] = IF @ = ino[c] THEN 0 ELSE @]
    /\ lock' = [lock EXCEPT ![ino[c]] = Nobody]
    /\ listening' = [listening EXCEPT ![c] = FALSE] /\ told' = [told EXCEPT ![c] = FALSE]
    /\ End(c, Nobody) /\ solo' = [d \in Clients |-> FALSE]
    /\ UNCHANGED <<Files, won, Faults, Private>>

(***************************************************************************)
(* inspectPrivateSqliteLease: the probe itself takes the lock for a moment.*)
(***************************************************************************)
Inspect(c) ==
    /\ pc[c] = "idle" /\ calls < MaxCalls /\ calls' = calls + 1
    /\ IF pathMatchesHeldIdentity(ProcessOf[c]) THEN End(c, "busy")
       ELSE IF db = 0 /\ anchor = NoAnchor THEN End(c, "absent")
       ELSE IF Doubled(db) \/ (anchor # NoAnchor /\ AnchorDoubled) THEN End(c, "unsafe")
       ELSE IF db # 0 /\ anchor # NoAnchor THEN Goto(c, "probe")
       ELSE End(c, "corrupt")
    /\ ino' = [ino EXCEPT ![c] = db]
    /\ solo' = [d \in Clients |-> FALSE]
    /\ UNCHANGED <<Files, Locks, Watch, kills, removals, seen, mine>>

Probe(c) ==
    /\ pc[c] = "probe"
    /\ \/ anchor.of # ino[c] /\ End(c, "corrupt") /\ UNCHANGED lock
       \/ anchor.of = ino[c] /\ lock[ino[c]] # Nobody /\ End(c, "busy") /\ UNCHANGED lock
       \/ anchor.of = ino[c] /\ lock[ino[c]] = Nobody
          /\ Goto(c, "probing") /\ lock' = [lock EXCEPT ![ino[c]] = c]
    /\ Disturb(c)
    /\ UNCHANGED <<Files, heldPaths, won, Watch, Faults, Private>>

ProbeEnds(c) ==
    /\ pc[c] = "probing"
    /\ lock' = [lock EXCEPT ![ino[c]] = Nobody]
    /\ End(c, "free") /\ Disturb(c)
    /\ UNCHANGED <<Files, heldPaths, won, Watch, Faults, Private>>

(***************************************************************************)
(* Faults                                                                  *)
(***************************************************************************)
ProcessDies(p) ==
    LET gone == {c \in Clients : ProcessOf[c] = p} IN
    /\ kills < MaxKills /\ \E c \in gone : pc[c] # "idle"
    /\ kills' = kills + 1
    /\ pc' = [c \in Clients |-> IF c \in gone THEN "idle" ELSE pc[c]]
    /\ result' = [c \in Clients |-> IF c \in gone THEN Nobody ELSE result[c]]
    /\ lock' = [i \in Inodes |-> IF lock[i] \in gone THEN Nobody ELSE lock[i]]
    /\ heldPaths' = [heldPaths EXCEPT ![p] = 0]
    /\ listening' = [c \in Clients |-> c \notin gone /\ listening[c]]
    /\ told' = [c \in Clients |-> c \notin gone /\ told[c]]
    /\ solo' = [c \in Clients |-> FALSE]
    /\ UNCHANGED <<Files, won, calls, removals, Private>>

\* An operator deletes the database, alone or together with its anchor.
Remove(both) ==
    /\ removals < MaxRemovals /\ db # 0
    /\ removals' = removals + 1
    /\ db' = 0 /\ anchor' = IF both THEN NoAnchor ELSE anchor
    /\ solo' = [c \in Clients |-> FALSE]
    /\ UNCHANGED <<temps, atemps, inodes, Locks, Watch, calls, kills, Private, pc, result>>

AcquireStep(c) ==
    \/ bootstrapDatabase(c) \/ LinkDatabase(c) \/ UnlinkDatabase(c)
    \/ RecoverDatabase(c) \/ MatchDatabase(c) \/ RecheckDatabase(c) \/ OpenDatabase(c)
    \/ ensureAnchor(c) \/ MatchAnchor(c) \/ RecheckAnchor(c) \/ readAnchor(c) \/ publishAnchor(c)
    \/ UnlinkAnchor(c) \/ ReadAnchorAgain(c) \/ BeginImmediate(c)

LeaseNext ==
    \/ \E c \in Clients :
        \/ Acquire(c) \/ AcquireStep(c) \/ onLost(c) \/ notifyLoss(c) \/ release(c)
        \/ Inspect(c) \/ Probe(c) \/ ProbeEnds(c)
    \/ \E p \in Processes : ProcessDies(p)
    \/ \E both \in BOOLEAN : Remove(both)

LeaseSpec == LeaseInit /\ [][LeaseNext]_leaseVars

\* The 25 ms timer of a registered listener keeps firing.
LeaseFairSpec == LeaseSpec /\ \A c \in Clients : WF_leaseVars(notifyLoss(c))

(***************************************************************************)
(* Properties                                                              *)
(***************************************************************************)
\* Two live leases never both answer isHeld, even when the operator deletes the files under a
\* holder and another process bootstraps a fresh pair.
AtMostOneHeld == \A c, d \in Clients : isHeld(c) /\ isHeld(d) => c = d

\* As long as no one deletes the files, an acquire nobody interferes with ends with the lease or
\* with busy: whatever half-published link a crash left behind, one undisturbed call repairs it.
SoloAcquireSucceeds ==
    \A c \in Clients :
        solo[c] /\ pc[c] = "idle" /\ removals = 0 => result[c] = "busy"

\* However the first callers race, the losers' unsafe or busy answers come with a winner: not
\* everyone fails.
RaceHasAWinner ==
    kills = 0 /\ removals = 0 /\ ~won =>
        ~ \A c \in Clients : pc[c] = "idle" /\ result[c] \in {"unsafe", "corrupt", "unavailable", "busy"}

\* A published database is never replaced in place: only a deletion makes room for another.
DatabaseIsNeverReplaced == [][db # 0 /\ db' # 0 => db' = db]_leaseVars

\* A registered listener is told of a lease that stays lost, or the lease is released.
LossIsNoticed ==
    \A c \in Clients : (listening[c] /\ db # ino[c]) ~> (told[c] \/ ~listening[c])

\* The lease excludes, and it is available: one holder at most, a winner in
\* every race, and no half-published file that locks everyone out.
LeaseIsExclusiveAndAvailable ==
    []AtMostOneHeld /\ []SoloAcquireSucceeds /\ []RaceHasAWinner /\ DatabaseIsNeverReplaced
=============================================================================
