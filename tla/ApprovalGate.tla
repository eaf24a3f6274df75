---------------------------- MODULE ApprovalGate ----------------------------
(***************************************************************************)
(* How one tool call of a turn is admitted: the hook gate's pre           *)
(* (core-ts runtime/hook-gate.ts) over the safety policy (safety/index.ts),*)
(* the remembered approvals (safety/grants.ts), the strict project policy  *)
(* (app project-policy-overlay.ts, conversational-policy-control.ts), the  *)
(* execution mode (app execution-mode.ts) and the approval card            *)
(* (core-ts gateway/index.ts, telegram-gw approval-flow.ts, bot.ts).       *)
(*                                                                         *)
(* One project and one work binding. A call is a record of what the code   *)
(* looks at: its tool, catalogue tier, effect and similarity key. A save   *)
(* of several files is one step that says how many writes were done when   *)
(* it failed. Redaction of results, card wording and the MCP resolver are  *)
(* left out.                                                               *)
(***************************************************************************)
EXTENDS Naturals, FiniteSets

CONSTANTS
    Calls,          \* the calls a turn may make
    Contexts,       \* provenance of a call: [narrowed, tainted]
    Modes,          \* the execution modes the operator chooses from
    PolicyModes,    \* the strict modes that can be set, of project-policy-overlay.ts
    OldGrants,      \* grants a schema-2 file holds at the first start
    StepUp,         \* the installation verifies a second factor
    MaxFaults       \* bound: failed writes, failed sends and edits, crashes

VARIABLES
    xm,       \* execution mode: in memory, its file, its guard file, the guard as remembered
    overlay,  \* strict modes in memory and on disk, the guard file, the fence
    handle,   \* the folder handle of policy.resolve-path: "none", "fresh" or "stale"
    grants,   \* remembered approvals in memory and in the file
    usable,   \* isBindingUsable: the project is not archived
    floor,    \* the runner was built in mode confirm (toolTiers)
    run,      \* the gate's call
    card,     \* the card of a call that waits
    taught,   \* history: similarity keys a Tier-2 tap has confirmed
    required, \* history: strict modes reported as set and not relaxed since
    faults

vars == <<xm, overlay, handle, grants, usable, floor, run, card, taught, required, faults>>

Scopes == {"project", "path"}
Verbs == {"confirm", "session", "reject"}
ExecutionModes == {"auto", "confirm", "plan", "bypass"}
NoKey == "none"
Idle == [pc |-> "ready", how |-> "none", mode |-> "auto", tier |-> 0, remember |-> FALSE,
         call |-> [tool |-> "none", op |-> "call", tier |-> 0, acting |-> FALSE, del |-> FALSE,
                   outbound |-> FALSE, path |-> FALSE, hard |-> FALSE, key |-> NoKey,
                   mode |-> "none"],
         narrowed |-> FALSE, tainted |-> FALSE]
NoTurn == [Idle EXCEPT !.pc = "none"]
Refused == [Idle EXCEPT !.pc = "refused"]

Similar(key, life) == [kind |-> "similar", name |-> key, life |-> life]
ToolGrant(tool) == [kind |-> "tool", name |-> tool, life |-> "always"]
Durable(gs) == {g \in gs : g.life = "always"}

Init ==
    /\ xm = [mode |-> "auto", file |-> "auto", guard |-> FALSE, guarded |-> FALSE]
    /\ overlay = [mem |-> [s \in Scopes |-> {}], disk |-> [s \in Scopes |-> {}],
                  guard |-> FALSE, fenced |-> FALSE]
    /\ handle = "none"
    /\ grants = [mem |-> OldGrants, disk |-> OldGrants]
    /\ usable = TRUE /\ floor = FALSE
    /\ run = NoTurn
    /\ card = [state |-> "none", stepUp |-> FALSE]
    /\ taught = {}
    /\ required = [s \in Scopes |-> {}]
    /\ faults = 0

Fault == faults < MaxFaults /\ faults' = faults + 1
NoFault == UNCHANGED faults
NoCard == [state |-> "none", stepUp |-> FALSE]

-----------------------------------------------------------------------------
(* The verdict of a call, computed without a pause                         *)

\* What the safety policy's patterns say of a call.
Classified(c) ==
    c.tier \in 0..3 /\ {c.hard, c.outbound, c.acting, c.del} \subseteq BOOLEAN

\* The tier floor of mode confirm is read once, when the runner is built.
tierOf(c) ==
    IF c.op = "relax" THEN 3 ELSE IF floor /\ c.acting /\ c.tier < 2 THEN 2 ELSE c.tier

hasSimilar(c) ==
    /\ xm.mode # "confirm" /\ usable /\ c.key # NoKey
    /\ \E life \in {"session", "always"} : Similar(c.key, life) \in grants.mem

has(c) ==
    xm.mode \notin {"confirm", "plan"} /\ usable /\ ToolGrant(c.tool) \in grants.mem

Denied(c, x) == c.hard \/ x.tainted \/ (x.narrowed /\ c.outbound)

bypasses(c) == xm.mode = "bypass" /\ c.tool = "bash"

evaluate(c, x) ==
    IF bypasses(c) THEN "allow"
    ELSE IF Denied(c, x) THEN "deny"
    ELSE IF tierOf(c) = 3 \/ (tierOf(c) = 2 /\ ~hasSimilar(c) /\ ~has(c)) THEN "ask"
    ELSE "allow"

\* Strict modes that apply to a call: the project's, and the folder's below it.
AppliedIn(modes, c) == modes["project"] \cup (IF c.path THEN modes["path"] ELSE {})

Opaque(c) == c.outbound \/ c.tool = "bash"

narrowPolicy(c) ==
    LET modes == AppliedIn(overlay.mem, c) IN
    IF c.op # "call" THEN "unchanged"
    ELSE IF overlay.fenced
            \/ ("no-egress" \in modes /\ Opaque(c))
            \/ ("read-only" \in modes /\ c.acting) THEN "deny"
    ELSE IF ("ask-before-delete" \in modes /\ c.del)
            \/ ("confirm-writes" \in modes /\ c.acting) THEN "ask"
    ELSE "unchanged"

\* A learned grant answers an ask of Tier 2 only, in mode auto, for the operator's own text.
Baseline(c, x, learned) ==
    IF \/ evaluate(c, x) = "allow"
       \/ /\ learned /\ tierOf(c) = 2 /\ xm.mode = "auto"
          /\ ~x.narrowed /\ ~x.tainted
    THEN "allow" ELSE "ask"

\* A folder's handle must still name the folder when the card is described.
describeRelaxation(c) == c.path => handle = "fresh"

pre(c, x, learned) ==
    /\ run.pc = "ready"
    /\ LET verdict == evaluate(c, x)
           base == Baseline(c, x, learned)
           narrowed == narrowPolicy(c)
           asks == narrowed = "ask" \/ base = "ask"
           admitted == [pc |-> IF asks THEN "asking" ELSE "run",
                        how |-> IF verdict = "allow" /\ ~asks
                                THEN IF bypasses(c) THEN "bypass"
                                     ELSE IF tierOf(c) = 2 THEN "grant" ELSE "tier"
                                ELSE IF asks THEN "none" ELSE "learned",
                        mode |-> xm.mode, call |-> c,
                        tier |-> IF verdict = "ask" THEN tierOf(c)
                                 ELSE IF asks THEN 2 ELSE tierOf(c),
                        remember |-> /\ narrowed # "ask" /\ verdict = "ask" /\ tierOf(c) = 2
                                     /\ xm.mode # "confirm" /\ c.key # NoKey,
                        narrowed |-> x.narrowed, tainted |-> x.tainted]
       IN  IF \/ verdict = "deny" \/ narrowed = "deny"
              \/ (c.op = "relax" /\ ~describeRelaxation(c))
           THEN run' = Idle
           ELSE run' = admitted
    /\ UNCHANGED <<xm, overlay, handle, grants, usable, floor, card, taught, required, faults>>

-----------------------------------------------------------------------------
(* The card                                                                *)

\* A card whose message could not be sent is a rejection.
SendCard ==
    \/ run' = [run EXCEPT !.pc = "waiting"] /\ NoFault
    \/ run' = Idle /\ Fault

issueCard ==
    /\ run.pc = "asking"
    /\ SendCard
    /\ card' = [state |-> IF run'.pc = "waiting" THEN "live" ELSE "none", stepUp |-> FALSE]
    /\ UNCHANGED <<xm, overlay, handle, grants, usable, floor, taught, required>>

CardExpires ==
    /\ run.pc = "waiting" /\ card.state = "live"
    /\ card' = [card EXCEPT !.state = "expired"]
    /\ UNCHANGED <<xm, overlay, handle, grants, usable, floor, run, taught, required, faults>>

\* A confirmed Tier-2 card teaches its key. A failed save takes the durable rule back.
recordSimilar(key, life) ==
    LET g == Similar(key, life)
        new == grants.mem \cup {g}
    IN  IF ~usable \/ g \in grants.mem THEN UNCHANGED grants /\ NoFault
        ELSE IF life = "session" THEN grants' = [grants EXCEPT !.mem = new] /\ NoFault
        ELSE \/ grants' = [mem |-> new, disk |-> Durable(new)] /\ NoFault
             \/ /\ \E written \in {grants.disk, Durable(new)} :
                       grants' = [grants EXCEPT !.disk = written]
                /\ Fault

answerConfirmed(life) ==
    /\ run' = [run EXCEPT !.pc = "run", !.how = "card"]
    /\ card' = NoCard
    /\ IF run.remember
       THEN /\ recordSimilar(run.call.key, life)
            /\ taught' = taught \cup {run.call.key}
       ELSE UNCHANGED <<grants, taught>> /\ NoFault

answerRejected ==
    run' = Idle /\ card' = NoCard /\ UNCHANGED <<grants, taught>> /\ NoFault

\* The message under the card is edited before the waiting call hears of the answer. When that
\* edit fails the call keeps waiting, and a consumed card is gone.
editFails(state) ==
    /\ card' = [state |-> state, stepUp |-> FALSE]
    /\ Fault /\ UNCHANGED <<run, grants, taught>>

Confirmable(code) == card.state = "live" /\ (run.tier = 3 /\ StepUp => code = "right")

\* resolveTap and applyOutcome; code is the second factor that came with the tap.
applyOutcome(verb, code) ==
    \/ /\ verb # "reject" /\ Confirmable(code)
       /\ \/ answerConfirmed(IF verb = "session" THEN "session" ELSE "always")
          \/ editFails("consumed")
    \/ /\ verb # "reject" /\ card.state = "live" /\ run.tier = 3 /\ StepUp /\ code = "none"
       /\ card' = [card EXCEPT !.stepUp = TRUE]
       /\ UNCHANGED <<run, grants, taught>> /\ NoFault
    \/ /\ \/ verb = "reject" \/ card.state # "live"
          \/ (run.tier = 3 /\ StepUp /\ code = "wrong")
       /\ answerRejected \/ editFails(card.state)

tap(verb) ==
    /\ run.pc = "waiting"
    /\ applyOutcome(verb, "none")
    /\ UNCHANGED <<xm, overlay, handle, usable, floor, required>>

\* The next text message is the code of the card that asked for one.
stepUpCode(code) ==
    /\ run.pc = "waiting" /\ card.stepUp
    /\ applyOutcome("confirm", code)
    /\ UNCHANGED <<xm, overlay, handle, usable, floor, required>>

-----------------------------------------------------------------------------
(* The admitted call                                                       *)

\* The policy store's save: guard, state, removal of the guard. done counts the writes that
\* were made before one failed; 3 writes and a failed directory sync still report failure.
save(new) ==
    \/ /\ overlay' = [overlay EXCEPT !.mem = new, !.disk = new] /\ NoFault
    \/ /\ \E done \in 0..3 :
             overlay' = [overlay EXCEPT !.fenced = TRUE, !.guard = done \in {1, 2},
                                        !.disk = IF done >= 2 THEN new ELSE @]
       /\ Fault

\* The strict modes of the scope after the call's change.
Change(c, modes) == IF c.op = "tighten" THEN modes \cup {c.mode} ELSE modes \ {c.mode}

Scope(c) == IF c.path THEN "path" ELSE "project"

\* The folder of the handle is looked at again after a relaxation was saved; a folder swapped
\* meanwhile gets its strict mode back.
configure(c) ==
    LET s == Scope(c)
        stale == c.path /\ handle # "fresh"
        change == Change(c, overlay.mem[s])
    IN  /\ handle' = IF c.path THEN "none" ELSE IF change = overlay.mem[s] THEN handle
                     ELSE IF handle = "fresh" THEN "stale" ELSE handle
        /\ IF stale \/ overlay.fenced \/ change = overlay.mem[s]
           THEN UNCHANGED <<overlay, required>> /\ NoFault
           ELSE \/ /\ save([overlay.mem EXCEPT ![s] = change])
                   /\ required' = [required EXCEPT
                        ![s] = IF c.op = "relax" THEN @ \ {c.mode}
                               ELSE IF overlay'.fenced THEN @ ELSE @ \cup {c.mode}]
                \/ /\ c.op = "relax" /\ c.path /\ NoFault   \* swapped during the save: restored
                   /\ UNCHANGED <<overlay, required>>

\* What a call of another tool does to files is outside the gate.
execute ==
    /\ run.pc = "run"
    /\ run' = Idle
    /\ IF run.call.op = "call" THEN UNCHANGED <<overlay, handle, required, faults>>
       ELSE configure(run.call)
    /\ UNCHANGED <<xm, grants, usable, floor, card, taught>>

resolvePath ==
    /\ run.pc = "ready"
    /\ handle' = "fresh"
    /\ UNCHANGED <<xm, overlay, grants, usable, floor, run, card, taught, required, faults>>

\* Another program replaces the folder the handle names.
SwapFolder ==
    /\ run.pc \in {"ready", "asking", "waiting", "run"}
    /\ handle = "fresh" /\ handle' = "stale"
    /\ UNCHANGED <<xm, overlay, grants, usable, floor, run, card, taught, required, faults>>

-----------------------------------------------------------------------------
(* The runner, the operator's menus and the process                        *)

buildMainRunner ==
    /\ run.pc = "none"
    /\ run' = Idle /\ floor' = (xm.mode = "confirm") /\ handle' = "none"
    /\ UNCHANGED <<xm, overlay, grants, usable, card, taught, required, faults>>

EndTurn ==
    /\ run.pc = "ready"
    /\ run' = NoTurn
    /\ handle' = IF handle = "fresh" THEN "stale" ELSE handle   \* a handle is one turn's
    /\ UNCHANGED <<xm, overlay, grants, usable, floor, card, taught, required, faults>>

enterBypass ==
    \/ xm' = [mode |-> "bypass", file |-> "bypass", guard |-> FALSE, guarded |-> FALSE] /\ NoFault
    \/ /\ Fault
       /\ \/ xm' = xm                                           \* the guard was not written
          \/ \E written \in {xm.file, "bypass"} :
                xm' = [xm EXCEPT !.guard = TRUE, !.guarded = TRUE, !.file = written]

\* Mutant: the bypass is left without the guard file that covers a failed write.
leaveUnguarded(next) ==
    \/ xm' = [mode |-> next, file |-> next, guard |-> FALSE, guarded |-> FALSE] /\ NoFault
    \/ Fault /\ xm' = [xm EXCEPT !.mode = next]

leaveOrRepair(next) ==
    \/ xm' = [mode |-> next, file |-> next, guard |-> FALSE, guarded |-> FALSE] /\ NoFault
    \/ /\ Fault
       /\ \/ ~xm.guarded /\ xm' = xm
          \/ \E written \in {xm.file, next} :
                xm' = [mode |-> next, file |-> written, guard |-> TRUE, guarded |-> TRUE]

setMode(next) ==
    /\ run.pc # "refused"
    /\ next # xm.mode \/ xm.guarded
    /\ IF next = "bypass" THEN enterBypass
       ELSE IF xm.mode = "bypass" \/ xm.guarded THEN leaveOrRepair(next)
       ELSE \/ xm' = [xm EXCEPT !.file = next, !.mode = next] /\ NoFault
            \/ \E written \in {xm.file, next} : xm' = [xm EXCEPT !.file = written] /\ Fault
    /\ UNCHANGED <<overlay, handle, grants, usable, floor, run, card, taught, required>>

\* The operator's /revoke. Grants leave memory first; the file follows if it can be written.
revokeAll ==
    /\ run.pc # "refused" /\ grants.mem # {}
    /\ \/ /\ grants' = [mem |-> {}, disk |-> IF Durable(grants.mem) = {} THEN grants.disk ELSE {}]
          /\ NoFault
       \/ /\ Durable(grants.mem) # {} /\ Fault
          /\ grants' = [grants EXCEPT !.mem = {}]
    /\ UNCHANGED <<xm, overlay, handle, usable, floor, run, card, taught, required>>

ArchiveOrRestore ==
    /\ run.pc # "refused"
    /\ usable' = ~usable
    /\ UNCHANGED <<xm, overlay, handle, grants, floor, run, card, taught, required, faults>>

RestartMode == IF xm.guard THEN "auto" ELSE xm.file

LoadPolicy == [overlay EXCEPT !.mem = overlay.disk, !.fenced = FALSE]

\* A crash or a restart: cards and session grants are gone; a policy guard refuses the start.
Restart ==
    /\ run.pc # "refused" /\ Fault
    /\ xm' = [xm EXCEPT !.mode = RestartMode, !.guarded = xm.guard]
    /\ overlay' = LoadPolicy
    /\ grants' = [grants EXCEPT !.mem = grants.disk]
    /\ run' = IF overlay.guard THEN Refused ELSE NoTurn
    /\ card' = NoCard /\ handle' = "none" /\ floor' = FALSE
    /\ UNCHANGED <<usable, taught, required>>

\* The operator inspects the policy file and removes the guard.
OperatorRepairs ==
    /\ run.pc = "refused"
    /\ overlay' = [overlay EXCEPT !.guard = FALSE]
    /\ required' = overlay.disk
    /\ run' = NoTurn
    /\ UNCHANGED <<xm, handle, grants, usable, floor, card, taught, faults>>

Next ==
    \/ \E c \in Calls, x \in Contexts, learned \in BOOLEAN : pre(c, x, learned)
    \/ issueCard \/ CardExpires
    \/ \E verb \in Verbs : tap(verb)
    \/ \E code \in {"right", "wrong"} : stepUpCode(code)
    \/ execute \/ resolvePath \/ SwapFolder
    \/ buildMainRunner \/ EndTurn
    \/ \E m \in Modes : setMode(m)
    \/ revokeAll \/ ArchiveOrRestore \/ Restart \/ OperatorRepairs

Spec == Init /\ [][Next]_vars

-----------------------------------------------------------------------------
TypeOK ==
    /\ xm \in [mode : ExecutionModes, file : ExecutionModes, guard : BOOLEAN, guarded : BOOLEAN]
    /\ overlay.mem \in [Scopes -> SUBSET PolicyModes]
    /\ overlay.disk \in [Scopes -> SUBSET PolicyModes]
    /\ handle \in {"none", "fresh", "stale"}
    /\ run.pc \in {"none", "ready", "asking", "waiting", "run", "refused"}
    /\ card.state \in {"none", "live", "expired", "consumed"}
    /\ Classified(run.call)
    /\ run.pc # "waiting" => card = NoCard

\* Every remembered approval was in the old file or was confirmed on a card of Tier 2.
RememberedWasConfirmed ==
    \A g \in (grants.mem \cup grants.disk) \ OldGrants : g.kind = "similar" /\ g.name \in taught

\* A strict mode that was reported as set holds in memory and on disk, or everything is denied.
TighteningHolds ==
    \A s \in Scopes :
        /\ overlay.guard \/ required[s] \subseteq overlay.disk[s]
        /\ overlay.fenced \/ run.pc = "refused" \/ required[s] \subseteq overlay.mem[s]

\* A call about to run: what the code never runs, and what it runs only after a tap.
RunIsCovered ==
    LET c == run.call
        strict == AppliedIn(required, c)
    IN  run.pc = "run" =>
        /\ ~(run.mode = "bypass" /\ c.tool = "bash") => ~Denied(c, run)
        /\ c.op = "call" => /\ ~("read-only" \in strict /\ c.acting)
                            /\ ~("no-egress" \in strict /\ Opaque(c))
                            /\ "confirm-writes" \in strict /\ c.acting => run.how = "card"
        /\ c.op = "relax" => run.how = "card"
        /\ run.how = "bypass" => c.tool = "bash"
        /\ run.how = "learned" => ~run.narrowed /\ ~run.tainted /\ run.tier = 2

\* Leaving the host-shell bypass is final: no failed write and no crash brings it back.
BypassStaysLeft == xm.mode # "bypass" => RestartMode # "bypass"

\* What the gate guarantees over failed writes, expired cards, crashes and mode switches: only
\* confirmed approvals are remembered, a reported strict mode holds, a call that runs is
\* covered, and a bypass that was left does not return.
GateIsSound ==
    TypeOK /\ RememberedWasConfirmed /\ TighteningHolds /\ RunIsCovered /\ BypassStaysLeft

\* In mode confirm every acting call is confirmed on a card, the next call already
\* (bin/aisy.ts: "The mode is read per call, so a switch takes effect on the next tool").
ConfirmModeAsks ==
    run.pc = "run" /\ run.mode = "confirm" /\ run.call.acting => run.how = "card"
=============================================================================
