------------------------------ MODULE MCRecords ------------------------------
(***************************************************************************)
(* One run for what the agent keeps for its operator: protected memory,    *)
(* projects and sessions, the attachment inbox, monitoring and its follow- *)
(* ups. They share no state here. A behaviour is a behaviour of one of     *)
(* them, chosen by subject in the initial state; the others do not move.   *)
(***************************************************************************)
EXTENDS MonitoringFollowups, Sequences, TLC

CONSTANTS
    MemoryCallers, MemoryFacts

VARIABLES
    subject,
    memoryRow, retiredBy, forgotten, keyword, vectors, file, wal, outbox, delivered, task, scan, open,
    overlapped,
    disk, op, leases, running, up, contextsBudget,
    inboxDisk, proc, workers, inboxBudget,
    world, src, ev, dig, windows, ledger, tg, tick, screen, watchCtx, watchBudget

(* Two facts with one key. *)
MemoryKeyOf == [f \in MemoryFacts |-> "key"]

(* The workspace with its first session, a project and a session that can be created. *)
NoContext == "none"
ContextProjects == {"w", "p"}
ContextWorkspace == "w"
ContextSessions == {"w1", "p1", "n"}
ContextOf == [s \in ContextSessions |-> IF s = "p1" THEN "p" ELSE "w"]
ContextInitProjects == {"w"}
ContextInitSessions == {"w1"}
ContextFirst == "w1"

(* Two attachments of two sessions. *)
InboxFiles == {"f1", "f2"}
InboxSessions == {"s1", "s2"}
InboxSessionOf == [f \in InboxFiles |-> IF f = "f1" THEN "s1" ELSE "s2"]

(* A source that is registered and one that may be. *)
WatchSources == {"s1", "s2"}
WatchKnown == {"s1"}
WatchTexts == {1, 2}

memoryVars ==
    <<memoryRow, retiredBy, forgotten, keyword, vectors, file, wal, outbox, delivered, task, scan, open,
      overlapped>>
contextsVars ==
    <<disk, op, leases, running, up, contextsBudget>>
inboxVars ==
    <<inboxDisk, proc, workers, inboxBudget>>
watchVars ==
    <<world, src, ev, dig, windows, ledger, tg, tick, screen, watchCtx, watchBudget>>
recordsVars == <<subject, memoryVars, contextsVars, inboxVars, watchVars, followupVars>>

Memory == INSTANCE ProtectedMemory WITH
    Callers <- MemoryCallers, Facts <- MemoryFacts, KeyOf <- MemoryKeyOf,
    row <- memoryRow
Contexts == INSTANCE ProjectSessions WITH
    Projects <- ContextProjects, Workspace <- ContextWorkspace, Sessions <- ContextSessions,
    ProjectOf <- ContextOf, None <- NoContext, InitProjects <- ContextInitProjects, InitSessions <-
    ContextInitSessions, First <- ContextFirst, MaxGen <- 3, MaxLeases <- 1, MaxDeletions <- 1,
    MaxMishaps <- 1, budget <- contextsBudget
Inbox == INSTANCE MediaInbox WITH
    Files <- InboxFiles, Sessions <- InboxSessions, SessionOf <- InboxSessionOf, Old <- 2, Retained
    <- 1, MaxEntries <- 3, MaxStarts <- 4, MaxCrashes <- 2, MaxMishaps <- 1, disk <- inboxDisk,
    budget <- inboxBudget
Watch == INSTANCE Monitoring WITH
    Sources <- WatchSources, Texts <- WatchTexts, Span <- 2, Ttl <- 2, MaxAge <- 2, MaxRows <- 1,
    MaxSources <- 2, MaxItems <- 2, MaxCalls <- 1, MaxEntries <- 2, MaxTime <- 3, Known <-
    WatchKnown, MaxMishaps <- 1, MaxTaps <- 2, ctx <- watchCtx,
    budget <- watchBudget

\* A component that is not the subject is not there: its variables keep this value, those of
\* MonitoringFollowups, whose invariant the run names, their initial one.
Unused == "unused"

memoryUnused ==
    /\ memoryRow = Unused /\ retiredBy = Unused /\ forgotten = Unused /\ keyword = Unused
    /\ vectors = Unused /\ file = Unused /\ wal = Unused /\ outbox = Unused
    /\ delivered = Unused /\ task = Unused /\ scan = Unused /\ open = Unused
    /\ overlapped = Unused
contextsUnused ==
    /\ disk = Unused /\ op = Unused /\ leases = Unused /\ running = Unused /\ up = Unused
    /\ contextsBudget = Unused
inboxUnused ==
    /\ inboxDisk = Unused /\ proc = Unused /\ workers = Unused /\ inboxBudget = Unused
watchUnused ==
    /\ world = Unused /\ src = Unused /\ ev = Unused /\ dig = Unused /\ windows = Unused
    /\ ledger = Unused /\ tg = Unused /\ tick = Unused /\ screen = Unused /\ watchCtx = Unused
    /\ watchBudget = Unused

RecordsInit ==
    \/ /\ subject = "memory" /\ Memory!Init
       /\ contextsUnused /\ inboxUnused /\ watchUnused /\ FollowupInit
    \/ /\ subject = "contexts" /\ Contexts!Init
       /\ memoryUnused /\ inboxUnused /\ watchUnused /\ FollowupInit
    \/ /\ subject = "inbox" /\ Inbox!Init
       /\ memoryUnused /\ contextsUnused /\ watchUnused /\ FollowupInit
    \/ /\ subject = "watch" /\ Watch!Init
       /\ memoryUnused /\ contextsUnused /\ inboxUnused /\ FollowupInit
    \/ /\ subject = "followups" /\ FollowupInit
       /\ memoryUnused /\ contextsUnused /\ inboxUnused /\ watchUnused

RecordsNext ==
    /\ UNCHANGED subject
    /\ \/ /\ subject = "memory" /\ Memory!Next
          /\ UNCHANGED <<contextsVars, inboxVars, watchVars, followupVars>>
       \/ /\ subject = "contexts" /\ Contexts!Next
          /\ UNCHANGED <<memoryVars, inboxVars, watchVars, followupVars>>
       \/ /\ subject = "inbox" /\ Inbox!Next
          /\ UNCHANGED <<memoryVars, contextsVars, watchVars, followupVars>>
       \/ /\ subject = "watch" /\ Watch!Next
          /\ UNCHANGED <<memoryVars, contextsVars, inboxVars, followupVars>>
       \/ /\ subject = "followups" /\ FollowupNext
          /\ UNCHANGED <<memoryVars, contextsVars, inboxVars, watchVars>>

RecordsSpec == RecordsInit /\ [][RecordsNext]_recordsVars

\* Callers and facts are compared for equality only.
Symmetry == Permutations(MemoryCallers) \cup Permutations(MemoryFacts)

\* The ledger, the canonical files and the two indexes tell of the same facts whenever no operation
\* is in progress or left to recover (protected-memory-sqlite-store.ts).
MemoryStaysWhole == subject = "memory" => Memory!MemoryStaysWhole

\* What a human asked to forget is never published again (do_not_remember in protected-memory-
\* publication.ts).
ForgetIsPermanent == [][subject = "memory" => Memory!KeepsForgotten]_memoryVars

\* The selected context exists, no deleted session is selected or leased, and no two transitions of
\* the registry run at once (project-service.ts, session-deletion.ts).
ContextsAreSound == subject = "contexts" => Contexts!ContextsAreSound

\* One runtime owns the inbox, and a published attachment is whole (telegram-attachment-inbox.ts).
InboxIsSound == subject = "inbox" => Inbox!InboxIsSound

\* A digest is sent at most once, only with collected items of sources that were granted
\* (monitoring/index.ts).
MonitoringIsSound == subject = "watch" => Watch!MonitoringIsSound
=============================================================================
