----------------------------- MODULE Monitoring -----------------------------
(***************************************************************************)
(* Monitoring: the registry of sources, the evidence collected from them,  *)
(* the daily digest and its delivery to Telegram                           *)
(* (core-ts/src/monitoring/index.ts, app/src/monitoring-live-runtime.ts,   *)
(* monitoring-runtime.ts, monitoring-telegram-send-ledger.ts,              *)
(* telegram-monitoring-delivery.ts, telegram-monitoring-controls.ts,       *)
(* monitoring-exact-domain-egress.ts).                                     *)
(*                                                                         *)
(* One process runs one tick at a time.  The tick awaits the collector,    *)
(* the scorer, the outbound guard and Telegram; in each of those gaps the  *)
(* operator's taps, the nightly sweep, an archive of the project and a     *)
(* crash may come.  SQLite writes and the two JSON ledgers survive a       *)
(* crash; the tick, the screen and its tokens do not.                      *)
(*                                                                         *)
(* Time is counted in half days: an odd slot is past the hour of the       *)
(* digest, and `now \div 2` is the local date.  Each source offers one     *)
(* item whose text changes; a text is a number, and two sources may carry  *)
(* the same one.                                                           *)
(***************************************************************************)
EXTENDS Integers, Sequences, FiniteSets
LOCAL INSTANCE SequencesExt

CONSTANTS
    Sources,      \* identifiers of sources that may be registered
    Texts,        \* texts an item can have: 1..n
    Span,         \* windowHours, in slots
    Ttl,          \* digestTtlHours, in slots
    MaxAge,       \* olderThan of the nightly sweep, in slots
    MaxRows,      \* maxRows of the nightly sweep
    MaxSources,   \* sources polled in one tick
    MaxItems,     \* items collected in one tick
    MaxCalls,     \* scorer calls in one tick
    MaxEntries,   \* entries the send ledger keeps
    MaxTime,      \* bound: last slot
    Known,        \* sources that are registered at the start
    MaxMishaps,   \* bound: crashes, failures, archives and changed texts
    MaxTaps       \* bound: the operator's taps and messages

VARIABLES
    world,        \* external: the text each source offers now
    src,          \* monitoring_sources
    ev,           \* monitoring_evidence, one item per source
    dig,          \* monitoring_digests, in the order they were created
    windows,      \* monitoring window store: status and slot per local date
    ledger,       \* send ledger: status per digest, and insertion order
    tg,           \* external: messages Telegram accepted, per digest
    tick,         \* the tick that is running
    screen,       \* the operator's screen: its live tokens, and the form
    ctx,          \* the project's availability, the clock, the operator's last word
    budget        \* remaining bounds

vars == <<world, src, ev, dig, windows, ledger, tg, tick, screen, ctx, budget>>

Dates == 0..(MaxTime \div 2)
Ids == 1..Cardinality(Dates)

SourceRow == [status: {"none", "active", "paused", "deleted"},
              reason: {"none", "operator", "context-unavailable", "collector-error"},
              cursor: Texts \cup {0}, last: -1..MaxTime]

NoSource == [status |-> "none", reason |-> "none", cursor |-> 0, last |-> -1]

\* score: 0 needs scoring, 1 noise, 2 worth a digest; of: the text scored
EvidenceRow == [text: Texts \cup {0}, at: -1..MaxTime, score: 0..2, of: Texts \cup {0}]

NoRow == [text |-> 0, at |-> -1, score |-> 0, of |-> 0]

Item == [source: Sources, text: Texts, of: Texts]

DigestRow == [window: 0..MaxTime, status: {"ready", "paused", "delivered", "expired"},
              items: SUBSET Item]

NoWindow == [status |-> "none", slot |-> 0]
WindowRow == [status: {"none", "claimed", "evaluated"}, slot: 0..MaxTime]

Idle == [phase |-> "idle", queue |-> {}, src |-> "none", snap |-> NoSource,
         seen |-> 0, at |-> -1, asked |-> 0, items |-> 0, calls |-> 0,
         due |-> <<>>, id |-> 0]

Blank == [view |-> "none", src |-> "none", resume |-> FALSE]

Init ==
    /\ world = [s \in Sources |-> 1]
    /\ src = [s \in Sources |-> IF s \in Known THEN [NoSource EXCEPT !.status = "active"]
                                  ELSE NoSource]
    /\ ev = [s \in Sources |-> NoRow]
    /\ dig = <<>>
    /\ windows = [d \in Dates |-> NoWindow]
    /\ ledger = [status |-> [d \in Ids |-> "none"], order |-> <<>>]
    /\ tg = [d \in Ids |-> 0]
    /\ tick = Idle
    /\ screen \in {[Blank EXCEPT !.view = "list"]} \cup
                  {[Blank EXCEPT !.view = "source", !.src = s] : s \in Known}
    /\ ctx = [up |-> TRUE, now |-> 0, told |-> [s \in Sources |-> "nothing"]]
    /\ budget = [mishaps |-> MaxMishaps, taps |-> MaxTaps]

bindingAvailable == ctx.up

tap == budget.taps > 0 /\ budget' = [budget EXCEPT !.taps = @ - 1]
mishap == budget.mishaps > 0 /\ budget' = [budget EXCEPT !.mishaps = @ - 1]

-----------------------------------------------------------------------------
(* The store. *)

\* safeSource answers null for a removed row, so an update of it throws.
updatable(s) == src[s].status \in {"active", "paused"}

setStatus(s, status, reason) ==
    src' = [src EXCEPT ![s].status = status, ![s].reason = reason]

listDueSources ==
    {s \in Sources : src[s].status = "active" /\ src[s].last < ctx.now}

\* A row of another source already holds the text: the batch's item is a
\* duplicate, and the row of this source keeps what it had.
duplicate(s, text) == \E o \in Sources \ {s} : ev[o].text = text

\* An unchanged item only gets a new collection time; a changed one loses
\* its score.
ingest(s, text) ==
    ev' = IF text = 0 THEN ev
          ELSE IF ev[s].text = text THEN [ev EXCEPT ![s].at = ctx.now]
          ELSE IF duplicate(s, text) THEN ev
          ELSE [ev EXCEPT ![s] = [text |-> text, at |-> ctx.now, score |-> 0, of |-> 0]]

pendingForScoring(s, row) == row.text # 0 /\ row.score = 0

candidates(slot) ==
    {s \in Sources : ev[s].text # 0 /\ ev[s].score # 0
                     /\ ev[s].at >= slot - Span /\ ev[s].at <= slot}

expired(d) == d.window + Ttl < ctx.now

expire(ds) ==
    [i \in DOMAIN ds |->
        IF ds[i].status = "ready" /\ expired(ds[i])
        THEN [ds[i] EXCEPT !.status = "expired"] ELSE ds[i]]

\* A digest that is due while its project is archived is paused.
pauseUnavailable(ds) ==
    [i \in DOMAIN ds |->
        IF ds[i].status = "ready" /\ ~bindingAvailable
        THEN [ds[i] EXCEPT !.status = "paused"] ELSE ds[i]]

listDueDigests(ds) == {i \in DOMAIN ds : ds[i].status = "ready"}

livePointers == UNION {{it.source : it \in dig[i].items} :
                         i \in {j \in DOMAIN dig : ~expired(dig[j])}}

\* prune: by age, then by volume, oldest first; never what a live digest
\* points at.
tooOld == {s \in Sources : ev[s].text # 0 /\ ev[s].at < ctx.now - MaxAge} \ livePointers

oldest(rows, n) ==
    CHOOSE S \in SUBSET rows :
        Cardinality(S) = n /\ \A s \in S, o \in rows \ S : ev[s].at <= ev[o].at

tooMany ==
    LET rows == {s \in Sources : ev[s].text # 0} \ tooOld
        over == Cardinality(rows) - MaxRows
    IN IF over <= 0 THEN {} ELSE oldest(rows, over) \ livePointers

prune ==
    /\ tooOld \cup tooMany # {}
    /\ ev' = [s \in Sources |-> IF s \in tooOld \cup tooMany THEN NoRow ELSE ev[s]]
    /\ UNCHANGED <<world, src, dig, windows, ledger, tg, tick, screen, ctx, budget>>

-----------------------------------------------------------------------------
(* Collection. *)

\* Up to maxSources of the due ones, with the tick's budgets.
tickBegin ==
    /\ tick.phase = "idle"
    /\ \E Q \in SUBSET listDueSources :
          /\ Cardinality(Q) = IF Cardinality(listDueSources) < MaxSources
                              THEN Cardinality(listDueSources) ELSE MaxSources
          /\ tick' = [Idle EXCEPT !.phase = "poll", !.queue = Q,
                                  !.items = MaxItems, !.calls = MaxCalls]
    /\ UNCHANGED <<world, src, ev, dig, windows, ledger, tg, screen, ctx, budget>>

polled(s) == [tick EXCEPT !.queue = @ \ {s}]
onward == [tick EXCEPT !.phase = "poll", !.src = "none", !.snap = NoSource,
                       !.seen = 0, !.at = -1, !.asked = 0]

\* pollOne up to the collector's await.  A source removed since the list
\* was taken throws out of the whole tick.
pollOne(s) ==
    /\ tick.phase = "poll" /\ s \in tick.queue /\ tick.items > 0
    /\ IF ~updatable(s) THEN tick' = Idle /\ UNCHANGED src
       ELSE IF src[s].status # "active" THEN tick' = polled(s) /\ UNCHANGED src
       ELSE IF ~bindingAvailable
       THEN tick' = polled(s) /\ setStatus(s, "paused", "context-unavailable")
       ELSE tick' = [polled(s) EXCEPT !.phase = "collect", !.src = s, !.snap = src[s]]
            /\ UNCHANGED src
    /\ UNCHANGED <<world, ev, dig, windows, ledger, tg, screen, ctx, budget>>

\* The exact-domain port asks for the grant before each hop and again after
\* the response: a removed source hands no body to the collector.
granted(s) == src[s].status # "deleted"

collectFails ==
    LET s == tick.src IN
    /\ tick.phase = "collect"
    /\ IF granted(s) THEN mishap ELSE UNCHANGED budget
    /\ IF updatable(s)
       THEN setStatus(s, "paused", "collector-error") /\ tick' = onward
       ELSE tick' = Idle /\ UNCHANGED src
    /\ UNCHANGED <<world, ev, dig, windows, ledger, tg, screen, ctx>>

\* The batch is empty when the validator of the last answer still holds.
fetchChanged(s) == IF tick.snap.cursor = world[s] THEN 0 ELSE world[s]

collectDone ==
    LET s == tick.src
        batch == fetchChanged(s)
    IN
    /\ tick.phase = "collect" /\ granted(s)
    /\ ingest(s, batch)
    /\ tick' = [tick EXCEPT
                  !.phase = IF pendingForScoring(s, ev'[s]) /\ tick.calls > 0
                            THEN "score" ELSE "settle",
                  !.asked = ev'[s].text, !.seen = world[s], !.at = ctx.now,
                  !.items = @ - (IF batch = 0 THEN 0 ELSE 1)]
    /\ UNCHANGED <<world, src, dig, windows, ledger, tg, screen, ctx, budget>>

\* saveScore writes the row whatever its text is by now; a row that was
\* swept meanwhile throws, and the item is simply not scored.
saveScore(s, score) ==
    ev' = IF ev[s].text = 0 THEN ev
          ELSE [ev EXCEPT ![s].score = score, ![s].of = tick.asked]

\* What a valid answer of the scorer can say: noise, or worth a digest.
Verdicts == {1, 2}

scored(score) ==
    /\ tick.phase = "score"
    /\ saveScore(tick.src, score)
    /\ tick' = [tick EXCEPT !.phase = "settle", !.calls = @ - 1]
    /\ UNCHANGED <<world, src, dig, windows, ledger, tg, screen, ctx, budget>>

\* A timeout or an invalid answer leaves the item pending.
scorerFails ==
    /\ tick.phase = "score" /\ mishap
    /\ tick' = [tick EXCEPT !.phase = "settle", !.calls = @ - 1]
    /\ UNCHANGED <<world, src, ev, dig, windows, ledger, tg, screen, ctx>>

\* The end of pollOne writes back the record it read before the awaits, with
\* status active.
settle ==
    LET s == tick.src IN
    /\ tick.phase = "settle"
    /\ IF updatable(s)
       THEN /\ src' = [src EXCEPT ![s] = [tick.snap EXCEPT !.cursor = tick.seen, !.last = tick.at]]
            /\ tick' = onward
       ELSE tick' = Idle /\ UNCHANGED src
    /\ UNCHANGED <<world, ev, dig, windows, ledger, tg, screen, ctx, budget>>

-----------------------------------------------------------------------------
(* The digest of the day: claim, build, complete, in one synchronous run. *)

today == ctx.now \div 2
digestIsDue == ctx.now % 2 = 1

claim == IF windows[today].status = "none"
         THEN [windows EXCEPT ![today] = [status |-> "claimed", slot |-> ctx.now]]
         ELSE windows

getDigestForWindow(slot) == \E i \in DOMAIN dig : dig[i].window = slot

worthy(slot) == {s \in candidates(slot) : ev[s].score = 2}

buildDigest(slot) ==
    Append(dig,
           IF bindingAvailable
           THEN [window |-> slot, status |-> "ready",
                 items |-> {[source |-> s, text |-> ev[s].text, of |-> ev[s].of] : s \in worthy(slot)}]
           ELSE [window |-> slot, status |-> "paused", items |-> {}])

evaluate(slot) ==
    IF ~getDigestForWindow(slot) /\ worthy(slot) # {} THEN buildDigest(slot) ELSE dig

complete(ws) == [ws EXCEPT ![today].status = "evaluated"]

delivering(ds) ==
    [Idle EXCEPT !.phase = "deliver",
                 !.due = SetToSortSeq(listDueDigests(pauseUnavailable(expire(ds))), <)]

digestDay(w, built) ==
    /\ windows' = w
    /\ dig' = pauseUnavailable(expire(built))
    /\ tick' = delivering(built)

collectionOver == tick.phase = "poll" /\ (tick.queue = {} \/ tick.items = 0)

\* The rest of the tick up to the first delivery, with the list of digests
\* that are due.
digest ==
    /\ collectionOver
    /\ IF digestIsDue /\ claim[today].status = "claimed"
       THEN digestDay(complete(claim), evaluate(claim[today].slot))
       ELSE digestDay(IF digestIsDue THEN claim ELSE windows, dig)
    /\ UNCHANGED <<world, src, ev, ledger, tg, screen, ctx, budget>>

\* A crash after the claim, or after the digest and before the completion.
digestCut ==
    /\ collectionOver /\ digestIsDue /\ claim[today].status = "claimed"
    /\ mishap
    /\ windows' = claim
    /\ dig' \in {dig, evaluate(claim[today].slot)}
    /\ tick' = Idle /\ screen' = Blank
    /\ UNCHANGED <<world, src, ev, ledger, tg, ctx>>

-----------------------------------------------------------------------------
(* Delivery. *)

next == [tick EXCEPT !.phase = "deliver", !.due = Tail(@), !.id = 0]

deliveryOver ==
    /\ tick.phase = "deliver" /\ tick.due = <<>>
    /\ tick' = Idle
    /\ UNCHANGED <<world, src, ev, dig, windows, ledger, tg, screen, ctx, budget>>

\* The list is taken again before each attempt, which pauses what became
\* unavailable; then the binding and the outbound lock guard the message.
guard ==
    /\ tick.phase = "deliver" /\ tick.due # <<>>
    /\ dig' = pauseUnavailable(dig)
    /\ tick' = IF dig'[Head(tick.due)].status = "ready"
               THEN [tick EXCEPT !.phase = "guarded", !.id = Head(tick.due)] ELSE next
    /\ UNCHANGED <<world, src, ev, windows, ledger, tg, screen, ctx, budget>>

guardRefuses ==
    /\ tick.phase = "deliver" /\ tick.due # <<>> /\ bindingAvailable /\ mishap
    /\ tick' = next
    /\ UNCHANGED <<world, src, ev, dig, windows, ledger, tg, screen, ctx>>

full == Cardinality({d \in Ids : ledger.status[d] = "sending"}) >= MaxEntries

\* At the limit the oldest entry that was sent makes room.
room ==
    LET sent == SelectSeq(ledger.order, LAMBDA d : ledger.status[d] = "sent")
    IN IF Len(ledger.order) < MaxEntries THEN ledger
       ELSE [status |-> [ledger.status EXCEPT ![Head(sent)] = "none"],
             order |-> SelectSeq(ledger.order, LAMBDA d : d # Head(sent))]

save(d, status) ==
    IF ledger.status[d] = "none"
    THEN [status |-> [room.status EXCEPT ![d] = status], order |-> Append(room.order, d)]
    ELSE [ledger EXCEPT !.status[d] = status]

markable(d) == bindingAvailable /\ dig[d].status = "ready"

markDelivered(d) ==
    dig' = IF markable(d) THEN [dig EXCEPT ![d].status = "delivered"]
           ELSE IF dig[d].status = "ready" THEN [dig EXCEPT ![d].status = "paused"]
           ELSE dig

\* Mutant: a send whose outcome is unknown is tried again.
sendRetries ==
    /\ tick.phase = "guarded"
    /\ LET d == tick.id IN
       IF ledger.status[d] = "sent"
       THEN markDelivered(d) /\ tick' = next /\ UNCHANGED ledger
       ELSE /\ ledger' = save(d, "sending")
            /\ tick' = [tick EXCEPT !.phase = "sending"] /\ UNCHANGED dig
    /\ UNCHANGED <<world, src, ev, windows, tg, screen, ctx, budget>>

\* The ledger's send up to the transport: a cached receipt answers without
\* I/O, an entry left at "sending" is ambiguous, and a new claim is saved
\* before the message leaves.
send ==
    /\ tick.phase = "guarded"
    /\ LET d == tick.id IN
       IF ledger.status[d] = "sent"
       THEN markDelivered(d) /\ tick' = next /\ UNCHANGED ledger
       ELSE IF ledger.status[d] = "sending" \/ full THEN tick' = next /\ UNCHANGED <<ledger, dig>>
       ELSE /\ ledger' = save(d, "sending")
            /\ tick' = [tick EXCEPT !.phase = "sending"] /\ UNCHANGED dig
    /\ UNCHANGED <<world, src, ev, windows, tg, screen, ctx, budget>>

delivered ==
    /\ tick.phase = "sending"
    /\ tg' = [tg EXCEPT ![tick.id] = @ + 1]
    /\ ledger' = save(tick.id, "sent")
    /\ markDelivered(tick.id)
    /\ tick' = next
    /\ UNCHANGED <<world, src, ev, windows, screen, ctx, budget>>

\* Telegram refuses, or accepts and its answer is lost: the same exception.
sendFails ==
    /\ tick.phase = "sending" /\ mishap
    /\ tg' \in {tg, [tg EXCEPT ![tick.id] = @ + 1]}
    /\ tick' = next
    /\ UNCHANGED <<world, src, ev, dig, windows, ledger, screen, ctx>>

\* A crash while the message is out, or after the answer and its receipt.
sendCut ==
    /\ tick.phase = "sending" /\ mishap
    /\ tg' \in {tg, [tg EXCEPT ![tick.id] = @ + 1]}
    /\ ledger' \in {ledger} \cup {l \in {save(tick.id, "sent")} : tg' # tg}
    /\ tick' = Idle /\ screen' = Blank
    /\ UNCHANGED <<world, src, ev, dig, windows, ctx>>

\* A crash anywhere else: what the tick and the screen held is gone.
crash ==
    /\ tick.phase \notin {"idle", "sending"} /\ mishap
    /\ tick' = Idle /\ screen' = Blank
    /\ UNCHANGED <<world, src, ev, dig, windows, ledger, tg, ctx>>

-----------------------------------------------------------------------------
(* The operator's screen.  A screen's tokens die with the next one; a tap   *)
(* spends its token first and then asks for the binding.                    *)

view(v, s) == [view |-> v, src |-> s, resume |-> s # "none" /\ src'[s].status # "active"]

spent == [Blank EXCEPT !.view = "spent"]

rest == <<world, ev, dig, windows, ledger, tg, tick>>

open ==
    /\ tap /\ bindingAvailable
    /\ screen' = [Blank EXCEPT !.view = "list"]
    /\ UNCHANGED <<src, ctx, rest>>

tapAdd ==
    /\ tap /\ screen.view = "list"
    /\ screen' = IF bindingAvailable THEN [Blank EXCEPT !.view = "form"] ELSE spent
    /\ UNCHANGED <<src, ctx, rest>>

registerSource(s) ==
    /\ tap /\ screen.view = "form" /\ src[s].status = "none"
    /\ IF bindingAvailable
       THEN src' = [src EXCEPT ![s].status = "active"] /\ screen' = view("source", s)
       ELSE UNCHANGED src /\ screen' = spent
    /\ UNCHANGED <<ctx, rest>>

tapSource(s) ==
    /\ tap /\ screen.view = "list" /\ src[s].status \in {"active", "paused"}
    /\ UNCHANGED src
    /\ screen' = IF bindingAvailable THEN view("source", s) ELSE spent
    /\ UNCHANGED <<ctx, rest>>

\* The direction of the toggle was fixed when the screen was drawn.
tapToggle ==
    LET s == screen.src IN
    /\ tap /\ screen.view = "source"
    /\ IF bindingAvailable /\ updatable(s)
       THEN /\ IF screen.resume THEN setStatus(s, "active", "none")
                                ELSE setStatus(s, "paused", "operator")
            /\ screen' = view("source", s)
            /\ ctx' = [ctx EXCEPT !.told[s] = IF screen.resume THEN "resume" ELSE "pause"]
       ELSE screen' = spent /\ UNCHANGED <<src, ctx>>
    /\ UNCHANGED rest

tapConfirmRemove ==
    /\ tap /\ screen.view = "source"
    /\ screen' = IF bindingAvailable THEN [screen EXCEPT !.view = "remove"] ELSE spent
    /\ UNCHANGED <<src, ctx, rest>>

tapRemove ==
    LET s == screen.src IN
    /\ tap /\ screen.view = "remove"
    /\ IF bindingAvailable
       THEN /\ src' = [src EXCEPT ![s] = [NoSource EXCEPT !.status = "deleted", !.reason = "operator",
                                                          !.last = src[s].last]]
            /\ screen' = [Blank EXCEPT !.view = "list"]
            /\ ctx' = [ctx EXCEPT !.told[s] = "remove"]
       ELSE screen' = spent /\ UNCHANGED <<src, ctx>>
    /\ UNCHANGED rest

-----------------------------------------------------------------------------
(* The surroundings. *)

clock ==
    /\ ctx.now < MaxTime
    /\ ctx' = [ctx EXCEPT !.now = @ + 1]
    /\ UNCHANGED <<world, src, ev, dig, windows, ledger, tg, tick, screen, budget>>

archive ==
    /\ ctx.up /\ mishap
    /\ ctx' = [ctx EXCEPT !.up = FALSE]
    /\ UNCHANGED <<world, src, ev, dig, windows, ledger, tg, tick, screen>>

restore ==
    /\ ~ctx.up
    /\ ctx' = [ctx EXCEPT !.up = TRUE]
    /\ UNCHANGED <<world, src, ev, dig, windows, ledger, tg, tick, screen, budget>>

edit(s) ==
    /\ mishap
    /\ \E t \in Texts \ {world[s]} : world' = [world EXCEPT ![s] = t]
    /\ UNCHANGED <<src, ev, dig, windows, ledger, tg, tick, screen, ctx>>

Collect ==
    \/ tickBegin
    \/ \E s \in Sources : pollOne(s)
    \/ collectFails
    \/ collectDone
    \/ \E score \in Verdicts : scored(score)
    \/ scorerFails
    \/ settle

Deliver ==
    \/ digest
    \/ digestCut
    \/ deliveryOver
    \/ guard
    \/ guardRefuses
    \/ send
    \/ delivered
    \/ sendFails
    \/ sendCut
    \/ crash

Operate ==
    \/ open
    \/ tapAdd
    \/ \E s \in Sources : registerSource(s)
    \/ \E s \in Sources : tapSource(s)
    \/ tapToggle
    \/ tapConfirmRemove
    \/ tapRemove

Surroundings ==
    \/ prune
    \/ clock
    \/ archive
    \/ restore
    \/ \E s \in Sources : edit(s)

Next == Collect \/ Deliver \/ Operate \/ Surroundings

Spec == Init /\ [][Next]_vars

-----------------------------------------------------------------------------
TypeOK ==
    /\ world \in [Sources -> Texts]
    /\ src \in [Sources -> SourceRow]
    /\ ev \in [Sources -> EvidenceRow]
    /\ dig \in Seq(DigestRow) /\ Len(dig) <= Cardinality(Ids)
    /\ windows \in [Dates -> WindowRow]
    /\ tg \in [Ids -> Nat]

\* One digest for one window, whatever crash fell between the claim, the
\* digest and the completion; an evaluated day is never built again.
OneDigestPerDay ==
    \A i, j \in DOMAIN dig : i # j => dig[i].window \div 2 # dig[j].window \div 2

\* Telegram never holds a digest twice, and a digest is delivered only when
\* Telegram has it.
OneMessagePerDigest ==
    /\ \A d \in Ids : tg[d] <= 1
    /\ \A d \in DOMAIN dig : dig[d].status = "delivered" => tg[d] = 1

\* What a digest says of an item was said of the text it links to, and the
\* nightly sweep keeps that row as long as the digest may be read.
DigestsAreBacked ==
    /\ \A d \in DOMAIN dig : \A it \in dig[d].items : it.of = it.text
    /\ \A d \in DOMAIN dig : ~expired(dig[d]) =>
          \A it \in dig[d].items : ev[it.source].text # 0

\* A text is stored once, under one source.
NoTextTwice ==
    \A s, o \in Sources : s # o /\ ev[s].text # 0 => ev[s].text # ev[o].text

\* A removed source stays removed: the poll that was out when the operator
\* removed it does not revive it with the record it had read.
RemovalIsFinal ==
    \A s \in Sources : ctx.told[s] = "remove" => src[s].status = "deleted" /\ src[s].cursor = 0

\* All the promises of the monitoring design that hold in the code.
MonitoringIsSound ==
    /\ TypeOK /\ OneDigestPerDay /\ OneMessagePerDigest
    /\ DigestsAreBacked /\ NoTextTwice /\ RemovalIsFinal

\* A source the operator paused is not polled until the operator resumes it:
\* "Пауза останавливает poll".
PauseHolds ==
    \A s \in Sources : ctx.told[s] = "pause" => src[s].status # "active"

=============================================================================
