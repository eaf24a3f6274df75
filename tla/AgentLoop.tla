------------------------------ MODULE AgentLoop ------------------------------
(***************************************************************************)
(* One session of the agent loop (core-ts/src/agent-loop/index.ts): a turn  *)
(* calls the model, lints and executes a plan or dispatches free tool calls *)
(* in rounds, asks once more when the operator's request demands an action  *)
(* and no evidence of it exists, and ends with a checkpoint.  A provider    *)
(* with a tool loop of its own (claude-subscription-provider.ts) runs tools *)
(* while the model call is open.  The process may crash at any point; the   *)
(* turn is then delivered again under its own turnId and resumes from the   *)
(* last checkpoint of the session log.                                      *)
(***************************************************************************)
EXTENDS Integers, Sequences, FiniteSets

CONSTANTS
    Inputs,         \* turns: [contract, token, from: "operator", "untrusted" or "tool", forget: BOOLEAN]
    Calls,          \* tool calls: [family, tainted, quotes]
    Plans,          \* plans: [steps: Seq(irreversible?), lint: BOOLEAN]
    MaxReplans, MaxTotalToolCalls, MaxRounds, Repeats,
    MaxTurns, MaxCrashes, MaxAttempts

VARIABLES
    ckpt,       \* the latest turn.checkpoint of this turn in the session log
    history,    \* the transcript holds untrusted material that is not the model's own
    session,    \* SessionState and the guardian's window
    input,      \* the turn being delivered
    pc, turn,   \* where runTurn awaits, and its local variables
    provider,   \* the open provider call: its ordinals and its executions
    stopped,    \* input.signal.aborted
    forgot,     \* the operator asked this session to forget a reference, and the turn was run
    quoted,     \* a tool ran with that reference in its arguments
    result,     \* what the last runTurn returned
    used,       \* ordinals of the tool effects of this turn
    reused,     \* two effects of one turn had the same ordinal
    turns, crashes

vars == <<ckpt, history, session, input, pc, turn, provider, stopped, forgot, quoted, result, used, reused, turns, crashes>>

None == "none"
NoPlan == [steps |-> <<>>, lint |-> FALSE]     \* an empty plan passes the linter: this is no plan
NoInput == [contract |-> None, token |-> NoPlan, from |-> None, forget |-> FALSE]
NoEvidence == [mutation |-> "missing", inspected |-> FALSE, delegated |-> FALSE]
NoResponse == [plan |-> NoPlan, calls |-> <<>>]
NoTurn == [at |-> None, plan |-> NoPlan, start |-> 0, i |-> 0, ord |-> 0, next |-> 0, resp |-> NoResponse,
           todo |-> <<>>, ran |-> FALSE, rounds |-> 0, evidence |-> NoEvidence, recovered |-> FALSE,
           probed |-> {}]

-----------------------------------------------------------------------------
(* The action contract (action-contract.ts). *)

\* A tool result as the contract's verdict sees it: the latest successful mutation is "verified" by
\* its own receipt or by a later successful inspection.
actionEvidence(ev, family, ok, receipt) ==
    IF ~ok THEN ev
    ELSE [mutation  |-> CASE family = "mutate"  -> IF receipt THEN "verified" ELSE "done"
                          [] family = "inspect" -> IF ev.mutation = "done" THEN "verified" ELSE ev.mutation
                          [] OTHER -> ev.mutation,
          inspected |-> ev.inspected \/ family = "inspect",
          delegated |-> ev.delegated \/ family = "delegate"]

mutationVerdict(ev) == ev.mutation = "verified"

evaluateActionContract(contract, ev, planVerified) ==
    \/ contract = "answer-only"
    \/ planVerified
    \/ contract = "inspect-required" /\ ev.inspected
    \/ contract = "delegate-required" /\ ev.delegated
    \/ contract = "delegate-and-mutate" /\ ev.delegated /\ mutationVerdict(ev)
    \/ contract = "mutate-required" /\ mutationVerdict(ev)

(* The loop guardian (guardian.ts): the last calls repeat a pattern of length p. *)
isCycle(w, p) ==
    /\ Len(w) >= p * Repeats
    /\ LET tail == SubSeq(w, Len(w) - p * Repeats + 1, Len(w))
       IN \A k \in (p + 1)..Len(tail) : tail[k] = tail[k - p]
Trips(w) == \E p \in 1..3 : isCycle(w, p)

(* The session log's answer to resume(sessionId, turnId) (session-log.ts). *)
resume == IF ckpt.status = "in-progress" THEN ckpt ELSE [status |-> None, next |-> 0, hi |-> 0]

irreversible(p) == \E k \in DOMAIN p.steps : p.steps[k]

-----------------------------------------------------------------------------
(* Ends of a turn. *)

Return(r) ==
    /\ result' = r
    /\ pc' = "idle" /\ turn' = NoTurn /\ provider' = [open |-> FALSE, last |-> provider.last, execs |-> {}]

\* Every regular end, a halt included, writes a complete checkpoint.
Complete(r) ==
    /\ Return(r)
    /\ ckpt' = [ckpt EXCEPT !.status = "complete"]
    /\ UNCHANGED <<history, input, stopped, used, reused, forgot, quoted, turns, crashes>>

\* An error that is not a Halt leaves the checkpoint in progress.
Throws ==
    /\ Return([state |-> "threw"])
    /\ UNCHANGED <<ckpt, history, session, input, stopped, used, reused, forgot, quoted, turns, crashes>>

Halts(reason) == Complete([state |-> "halted"])

\* Everything but what a step inside the turn may change.
Rest == UNCHANGED <<history, input, stopped, result, used, reused, forgot, quoted, turns, crashes>>

Ask(t, at) ==
    /\ pc' = "model" /\ turn' = [t EXCEPT !.at = at]
    /\ provider' = [provider EXCEPT !.open = TRUE, !.execs = {}]

enterReplan(t, at) ==
    /\ session' = [session EXCEPT !.replans = @ + 1, !.window = <<>>]
    /\ IF session.replans + 1 > MaxReplans
       THEN Halts("cap-exceeded")
       ELSE Ask(t, at) /\ UNCHANGED ckpt /\ Rest

-----------------------------------------------------------------------------
(* The operator and the transport. *)

\* A message arrives: a new turn of the session, under a new turnId.
Deliver ==
    /\ pc = "idle" /\ turns < MaxTurns
    /\ input = NoInput \/ ckpt.status = "complete"
    /\ input' \in Inputs
    /\ turns' = turns + 1
    /\ ckpt' = [status |-> None, next |-> 0, hi |-> 0]
    /\ used' = {} /\ stopped' = FALSE /\ result' = [state |-> None]
    /\ provider' = [provider EXCEPT !.last = 0]
    /\ UNCHANGED <<history, session, pc, turn, reused, forgot, quoted, crashes>>

\* Narrowing is set by untrusted material and cleared by a clean operator turn only.
Narrowed ==
    \/ history \/ input.from = "untrusted"
    \/ session.narrowed /\ input.from # "operator"

\* runTurn up to its first model call: the resume point, the first checkpoint, narrowing, forgetting.
runTurn ==
    /\ pc = "idle" /\ input # NoInput /\ ckpt.status # "complete"
    /\ ckpt' = [status |-> "in-progress", next |-> resume.next, hi |-> resume.hi]
    /\ session' = [session EXCEPT !.narrowed = Narrowed, !.quarantined = @ \/ input.forget]
    /\ history' = (history \/ input.from = "untrusted")
    /\ Ask([NoTurn EXCEPT !.start = resume.next, !.next = resume.next, !.ord = resume.hi], "first")
    /\ forgot' = (forgot \/ input.forget)
    /\ result' = [state |-> None]
    /\ UNCHANGED <<input, stopped, used, reused, quoted, turns, crashes>>

Stop ==
    /\ pc # "idle" /\ ~stopped
    /\ stopped' = TRUE
    /\ UNCHANGED <<ckpt, history, session, input, pc, turn, provider, result, used, reused, forgot, quoted, turns, crashes>>

\* The process dies: only the session log is left.
Crash ==
    /\ crashes < MaxCrashes /\ pc # "idle"
    /\ crashes' = crashes + 1
    /\ pc' = "idle" /\ turn' = NoTurn /\ provider' = [open |-> FALSE, last |-> 0, execs |-> {}]
    /\ session' = [narrowed |-> FALSE, replans |-> 0, calls |-> 0, quarantined |-> FALSE, window |-> <<>>]
    /\ stopped' = FALSE /\ result' = [state |-> None]
    /\ UNCHANGED <<ckpt, history, input, used, reused, forgot, quoted, turns>>

-----------------------------------------------------------------------------
(* The open provider call. *)

Effect(ord) == used' = used \cup {ord} /\ reused' = (reused \/ ord \in used) /\ UNCHANGED forgot

\* Mutant: the attempt's ordinal is not recorded.
attemptUnmarked(ord) == ckpt' = [ckpt EXCEPT !.status = "in-progress", !.next = turn.next]

checkpointAttempt(ord) == ckpt' = [ckpt EXCEPT !.status = "in-progress", !.next = turn.next, !.hi = ord]

\* The provider's own tool loop: it numbers the call after its last one and after the loop's base,
\* marks the attempt, and runs it behind the same gate.  A late execution misses the response.
\* An ordinal that is not above the checkpoint's is refused before the effect, and is spent.
nextOrdinal == (IF provider.last > turn.ord THEN provider.last ELSE turn.ord) + 1

invoke ==
    /\ pc = "model" /\ provider.open
    /\ IF nextOrdinal <= ckpt.hi
       THEN /\ provider' = [provider EXCEPT !.last = nextOrdinal]
            /\ UNCHANGED <<ckpt, used, reused, forgot>>
       ELSE /\ Cardinality(provider.execs) < 1 /\ nextOrdinal <= MaxAttempts
            /\ checkpointAttempt(nextOrdinal)
            /\ Effect(nextOrdinal)
            /\ \E ex \in {{}} \cup {{[ord |-> nextOrdinal, family |-> c.family, ok |-> ok]} : c \in Calls, ok \in BOOLEAN} :
                   provider' = [provider EXCEPT !.last = nextOrdinal, !.execs = ex]
    /\ UNCHANGED <<history, session, input, pc, turn, stopped, result, quoted, turns, crashes>>

\* What callModel does with the answer before the turn goes on.
Answered(r) ==
    LET told == [turn EXCEPT !.resp = r]
    IN IF provider.execs = {} THEN told
       ELSE LET x == CHOOSE y \in provider.execs : TRUE
            IN [told EXCEPT !.evidence = actionEvidence(@, x.family, x.ok, FALSE),
                            !.ord = IF x.ord > @ /\ x.ord <= ckpt.hi THEN x.ord ELSE @]

Responses == {[plan |-> p, calls |-> <<>>] : p \in Plans}
             \cup {[plan |-> NoPlan, calls |-> cs] : cs \in {<<>>} \cup {<<c>> : c \in Calls}}

EnterPlan(t, p, i) ==
    /\ pc' = "plan" /\ turn' = [t EXCEPT !.plan = p, !.i = i, !.next = i, !.probed = {}]
    /\ provider' = [provider EXCEPT !.open = FALSE, !.execs = {}]

EnterRounds(t) ==
    /\ pc' = "rounds" /\ turn' = [t EXCEPT !.plan = NoPlan, !.todo = t.resp.calls, !.ran = FALSE]
    /\ provider' = [provider EXCEPT !.open = FALSE, !.execs = {}]

clarification == pc = "model" /\ turn.at \in {"first", "step"} /\ UNCHANGED session
                 /\ Complete([state |-> "awaiting-clarification"])

\* The first answer, and the ones after a plan that failed the linter.
firstAnswer(t, p) ==
    \/ /\ p = NoPlan
       /\ EnterRounds(t) /\ UNCHANGED <<ckpt, session>> /\ Rest
    \/ /\ p # NoPlan /\ ~p.lint
       /\ enterReplan(t, "first")
    \/ /\ p # NoPlan /\ p.lint /\ irreversible(p) /\ input.token # p
       /\ Complete([state |-> "awaiting-approval"]) /\ UNCHANGED session
    \/ /\ p # NoPlan /\ p.lint /\ (irreversible(p) => input.token = p)
       /\ EnterPlan(t, p, t.start) /\ UNCHANGED <<ckpt, session>> /\ Rest

\* The answer after a step whose probe failed: the new plan starts at its first step.
stepAnswer(t, p) ==
    \/ /\ p = NoPlan
       /\ EnterRounds(t) /\ UNCHANGED <<ckpt, session>> /\ Rest
    \/ /\ p # NoPlan /\ ~p.lint
       /\ Halts("plan-lint-failed") /\ UNCHANGED session
    \/ /\ p # NoPlan /\ p.lint
       /\ EnterPlan(t, p, 0) /\ UNCHANGED session /\ Rest
       /\ ckpt' = [ckpt EXCEPT !.next = 0]

roundAnswer(t) ==
    /\ EnterRounds([t EXCEPT !.rounds = IF t.at = "round" THEN @ + 1 ELSE @])
    /\ UNCHANGED <<ckpt, session>> /\ Rest

callModel ==
    /\ pc = "model"
    /\ \E r \in Responses :
           LET t == Answered(r)
           IN \/ turn.at = "first" /\ firstAnswer(t, r.plan)
              \/ turn.at = "step" /\ stepAnswer(t, r.plan)
              \/ turn.at \in {"round", "recover"} /\ roundAnswer(t)

\* The budget probe, an abort or an exhausted provider halts the turn; any other error escapes it.
callModelFails ==
    /\ pc = "model"
    /\ \/ UNCHANGED session /\ Halts("budget-capped")
       \/ UNCHANGED session /\ Halts("all-providers-down")
       \/ stopped /\ UNCHANGED session /\ Halts("stopped")
       \/ ~stopped /\ Throws

-----------------------------------------------------------------------------
(* dispatch: one tool call, from a plan step (no arguments) or from a round. *)

PlanCall(k) == [family |-> "mutate", tainted |-> FALSE, quotes |-> FALSE]

Current == IF turn.plan # NoPlan THEN PlanCall(turn.i) ELSE Head(turn.todo)

HasCall == \/ pc = "plan" /\ turn.i < Len(turn.plan.steps)
           \/ pc = "rounds" /\ turn.todo # <<>> /\ turn.rounds < MaxRounds

\* The stop signal, the ordinal and its checkpoint, the cap and the guardian, in this order.
dispatch ==
    /\ HasCall /\ turn.ord < MaxAttempts
    /\ LET ord == turn.ord + 1
           w == Append(session.window, Current)
           counted == [session EXCEPT !.calls = @ + 1]
       IN \/ stopped /\ UNCHANGED session /\ Halts("stopped")
          \/ ~stopped /\ ord <= ckpt.hi /\ Throws
          \/ /\ ~stopped /\ ord > ckpt.hi /\ session.calls + 1 > MaxTotalToolCalls
             /\ session' = counted /\ Halts("cap-exceeded")
          \/ /\ ~stopped /\ ord > ckpt.hi /\ session.calls + 1 <= MaxTotalToolCalls
             /\ session' = [counted EXCEPT !.window = w]
             /\ IF Trips(w)
                THEN Halts("loop-guardian")
                ELSE /\ checkpointAttempt(ord)
                     /\ pc' = "gate"
                     /\ turn' = [turn EXCEPT !.ord = ord, !.next = IF turn.plan # NoPlan THEN turn.i ELSE @]
                     /\ UNCHANGED provider /\ Rest

\* The call is over: the plan's step is probed, the round goes on with its next call.
Dispatched(t, executed) ==
    /\ pc' = IF t.plan # NoPlan THEN "probe" ELSE "rounds"
    /\ turn' = [t EXCEPT !.todo = IF t.plan # NoPlan THEN @ ELSE Tail(@), !.ran = @ \/ executed]
    /\ UNCHANGED provider

Ran(ok, receipt) ==
    /\ history' = TRUE
    /\ Dispatched([turn EXCEPT !.evidence = actionEvidence(@, Current.family, ok, receipt)], TRUE)

\* preToolDispatch answers for the tool: a result, but no effect.
intercept ==
    /\ pc = "gate"
    /\ \E ok \in BOOLEAN : Ran(ok, FALSE)
    /\ UNCHANGED <<ckpt, session, input, stopped, result, used, reused, forgot, quoted, turns, crashes>>

Blocked == (session.narrowed /\ Current.tainted) \/ (session.quarantined /\ Current.quotes)

\* hookGate.pre awaits the policy and the operator; then the loop's own two blocks.
denied ==
    /\ pc = "gate"
    /\ Dispatched(turn, FALSE)
    /\ UNCHANGED <<ckpt, history, session, input, stopped, result, used, reused, forgot, quoted, turns, crashes>>

allowed ==
    /\ pc = "gate" /\ ~Blocked
    /\ pc' = "execute"
    /\ UNCHANGED <<turn, provider, ckpt, session>> /\ Rest

\* executeTool and the result filters; an interruption the classifier knows escapes the turn.
executeTool ==
    /\ pc = "execute"
    /\ Effect(turn.ord) /\ quoted' = (quoted \/ (forgot /\ Current.quotes))
    /\ \/ /\ \E ok \in BOOLEAN, receipt \in BOOLEAN : Ran(ok, receipt)
          /\ UNCHANGED <<ckpt, session, input, stopped, result, turns, crashes>>
       \/ /\ Return([state |-> "threw"])
          /\ UNCHANGED <<ckpt, history, session, input, stopped, turns, crashes>>

-----------------------------------------------------------------------------
(* The plan, the rounds and the end of the turn. *)

runProbe ==
    /\ pc = "probe"
    /\ \/ /\ pc' = "plan"
          /\ turn' = [turn EXCEPT !.i = @ + 1, !.next = turn.i + 1, !.probed = @ \cup {turn.i}]
          /\ ckpt' = [ckpt EXCEPT !.next = turn.i + 1]
          /\ UNCHANGED <<session, provider>> /\ Rest
       \/ enterReplan(turn, "step")

Satisfied(verified) == evaluateActionContract(input.contract, turn.evidence, verified)

Finish(verified) ==
    /\ Complete([state |-> "ok", required |-> input.contract # "answer-only", verified |-> Satisfied(verified),
                 evidenced |-> turn.evidence # NoEvidence, planned |-> verified, resumed |-> turn.start > 0,
                 probed |-> turn.probed = 0..(Len(turn.plan.steps) - 1), recovered |-> turn.recovered])
    /\ UNCHANGED session

planDone ==
    /\ pc = "plan" /\ turn.i >= Len(turn.plan.steps)
    /\ IF Len(turn.plan.steps) = 0 /\ input.contract # "answer-only"
       THEN EnterRounds(turn) /\ UNCHANGED <<ckpt, session>> /\ Rest
       ELSE Finish(Len(turn.plan.steps) > 0)

\* All calls of the round were dispatched: the model sees the results, if there are any.
roundDone ==
    /\ pc = "rounds" /\ turn.todo = <<>> /\ turn.ran
    /\ Ask([turn EXCEPT !.ran = FALSE], "round")
    /\ UNCHANGED <<ckpt, session>> /\ Rest

roundsOver == pc = "rounds" /\ ~turn.ran /\ (turn.todo = <<>> \/ turn.rounds >= MaxRounds)

\* One recovery: the model is told which evidence is missing.
recover ==
    /\ roundsOver /\ ~Satisfied(FALSE) /\ ~turn.recovered
    /\ Ask([turn EXCEPT !.recovered = TRUE], "recover")
    /\ UNCHANGED <<ckpt, session>> /\ Rest

roundsDone ==
    /\ roundsOver /\ (Satisfied(FALSE) \/ turn.recovered)
    /\ Finish(FALSE)

-----------------------------------------------------------------------------
Init ==
    /\ ckpt = [status |-> None, next |-> 0, hi |-> 0]
    /\ history = FALSE
    /\ session = [narrowed |-> FALSE, replans |-> 0, calls |-> 0, quarantined |-> FALSE, window |-> <<>>]
    /\ input = NoInput /\ pc = "idle" /\ turn = NoTurn
    /\ provider = [open |-> FALSE, last |-> 0, execs |-> {}]
    /\ stopped = FALSE /\ result = [state |-> None]
    /\ forgot = FALSE /\ quoted = FALSE /\ used = {} /\ reused = FALSE /\ turns = 0 /\ crashes = 0

Next ==
    \/ Deliver \/ runTurn \/ Stop \/ Crash
    \/ invoke \/ clarification \/ callModel \/ callModelFails
    \/ dispatch \/ intercept \/ denied \/ allowed \/ executeTool
    \/ runProbe \/ planDone \/ roundDone \/ recover \/ roundsDone

Spec == Init /\ [][Next]_vars

-----------------------------------------------------------------------------
TypeOK ==
    /\ ckpt.status \in {None, "in-progress", "complete"} /\ ckpt.next \in Nat /\ ckpt.hi \in 0..MaxAttempts
    /\ pc \in {"idle", "model", "plan", "gate", "execute", "probe", "rounds"}
    /\ turn.ord <= ckpt.hi \/ pc = "idle"
    /\ session.calls \in 0..(MaxTotalToolCalls + 1) /\ session.replans \in 0..(MaxReplans + 1)
    /\ used \subseteq 1..MaxAttempts

\* Every tool effect of a turn has an ordinal of its own, across the loop's and the provider's
\* numbering, errors, crashes and redeliveries of the turn (checkpointAttempt before the effect).
EffectsAreDistinct == ~reused /\ \A o \in used : o <= ckpt.hi

\* A turn that demanded an action and ends "verified" without a plan has the evidence the contract
\* names; one that ends "unverified" was asked once more; a plan that counts as done in the run that
\* began it had every one of its steps probed.
OutcomeIsEarned ==
    result.state = "ok" =>
        /\ (result.required /\ result.verified) => (result.evidenced \/ result.planned)
        /\ ~result.verified => result.recovered
        /\ (result.planned /\ ~result.resumed) => result.probed

\* A reference the operator asked to forget never reaches a tool's arguments in this session again
\* (the quarantine of forgotten references in dispatch).
ForgottenStaysOut == ~quoted

\* The turn is accounted for: types, distinct effects, earned outcomes.
TurnIsAccounted == TypeOK /\ EffectsAreDistinct /\ OutcomeIsEarned
=============================================================================
