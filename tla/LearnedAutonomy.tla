--------------------------- MODULE LearnedAutonomy ---------------------------
(***************************************************************************)
(* Learned autonomy of one workflow in one project: the evidence ledger    *)
(* (core-ts runtime/autonomy-evidence.ts), the registry of learned grants  *)
(* (runtime/autonomy-promotion.ts), their files, and the composition in    *)
(* bin/aisy.ts that collects answers during a turn, writes them when the   *)
(* turn is over, and offers a ripe workflow on a card that nobody waits    *)
(* for. Titles, journal events and the hash of an envelope are left out; a *)
(* card carries the envelope it was issued for. The clock never steps back.*)
(***************************************************************************)
EXTENDS Naturals, Sequences, SequencesExt, FiniteSets

CONSTANTS
    Sessions, MinConfirmed, MinDistinctSessions, MinWindowDays, MinShadowMatches,
    Ttl,         \* lifetime of a grant
    MaxTime,     \* bound: days
    MaxLog,      \* bound: entries of the ledger
    MaxAnswers,  \* bound: answers of one turn
    MaxCards,    \* bound: offers
    MaxFaults    \* bound: failed writes and crashes

VARIABLES
    now, session,
    ledger,   \* the entries in memory and in evidence.jsonl
    reg,      \* grants and used cards in memory and in grants.json
    buffer,   \* pendingDemonstrations: the answers of the turn
    offers,   \* the promotion cards nobody has answered yet, with their envelopes
    cards,    \* cards issued so far
    cascade,  \* history: a correction or a forgotten project since the last promotion
    lost,     \* history: the registry's file is behind its memory
    faults

vars == <<now, session, ledger, reg, buffer, offers, cards, cascade, lost, faults>>

\* The envelope of an offer; its card is confirmed for exactly this envelope.
Offer(version, card) == [version |-> version, issued |-> now, card |-> card]
Empty == [grants |-> <<>>, used |-> {}]

Init ==
    /\ now = 0 /\ session \in Sessions
    /\ ledger = [mem |-> <<>>, disk |-> <<>>]
    /\ reg = [mem |-> Empty, disk |-> Empty]
    /\ buffer = <<>> /\ offers = {} /\ cards = 0
    /\ cascade = FALSE /\ lost = FALSE /\ faults = 0

Fault == faults < MaxFaults /\ faults' = faults + 1
NoFault == UNCHANGED faults

-----------------------------------------------------------------------------
(* The ledger                                                              *)

Demonstration(outcome) == [kind |-> "demonstration", ok |-> outcome = "confirmed",
                           at |-> now, session |-> session]
Shadow(outcome) == [kind |-> "shadow", ok |-> outcome = "confirmed", at |-> now]
Demotion == [kind |-> "demote", ok |-> FALSE, at |-> now]

Kind(log, k) == SelectSeq(log, LAMBDA e : e.kind = k)

\* Entries of a kind newer than the last demotion, by their time stamps.
LiveEntries(log, k) ==
    LET demotions == Kind(log, "demote") IN
    IF demotions = <<>> THEN Kind(log, k)
    ELSE SelectSeq(log, LAMBDA e : e.kind = k /\ e.at > Last(demotions).at)

Confirmed(log) == SelectSeq(LiveEntries(log, "demonstration"), LAMBDA e : e.ok)

streak(shadows) ==
    LET misses == {i \in DOMAIN shadows : ~shadows[i].ok}
    IN  IF misses = {} THEN Len(shadows) ELSE Len(shadows) - Max(misses)

WindowDays(seq) ==
    IF Len(seq) < 2 THEN 0 ELSE LET times == {seq[i].at : i \in DOMAIN seq}
                                IN  Max(times) - Min(times)

Tail5(seq) == SubSeq(seq, IF Len(seq) > 5 THEN Len(seq) - 4 ELSE 1, Len(seq))

candidateFor(log) ==
    LET confirmed == Confirmed(log)
        live == LiveEntries(log, "demonstration")
    IN  /\ Kind(log, "demonstration") # <<>>
        /\ Len(confirmed) >= MinConfirmed
        /\ Cardinality({confirmed[i].session : i \in DOMAIN confirmed}) >= MinDistinctSessions
        /\ WindowDays(confirmed) >= MinWindowDays
        /\ \A i \in DOMAIN Tail5(live) : Tail5(live)[i].ok
        /\ streak(LiveEntries(log, "shadow")) >= MinShadowMatches

\* Each entry is appended to the file and then to memory; a failed append ends the flush of
\* this answer with the entries before it in both.
append(entries) ==
    \/ ledger' = [l \in {"mem", "disk"} |-> ledger[l] \o entries] /\ NoFault
    \/ /\ \E done \in 0..(Len(entries) - 1) :
             ledger' = [l \in {"mem", "disk"} |-> ledger[l] \o SubSeq(entries, 1, done)]
       /\ Fault

-----------------------------------------------------------------------------
(* The registry                                                            *)

Unrevoked(r) == {i \in DOMAIN r.grants : ~r.grants[i].revoked}
Revoked(r) == [r EXCEPT !.grants = [i \in DOMAIN @ |-> [@[i] EXCEPT !.revoked = TRUE]]]
lastVersion(r) == IF r.grants = <<>> THEN 0 ELSE Max({r.grants[i].version : i \in DOMAIN r.grants})

active(r) == {i \in Unrevoked(r) : now >= r.grants[i].issued /\ now < r.grants[i].expires}

\* The state is changed in memory and then saved; a failed save is not undone. The rename may
\* have happened before the failure.
save(r) ==
    \/ reg' = [mem |-> r, disk |-> r] /\ lost' = FALSE /\ NoFault
    \/ /\ Fault
       /\ \/ reg' = [mem |-> r, disk |-> reg.disk] /\ lost' = TRUE
          \/ reg' = [mem |-> r, disk |-> r] /\ lost' = TRUE

\* Nothing live means nothing to save, even when an earlier save failed.
revoke ==
    IF Unrevoked(reg.mem) = {} THEN UNCHANGED <<reg, lost>> /\ NoFault
    ELSE save(Revoked(reg.mem))

\* Mutant: a new version is pushed beside the old one, which stays unrevoked.
promoteBeside(proof) ==
    IF proof.card \in reg.mem.used \/ proof.version # lastVersion(reg.mem) + 1
    THEN UNCHANGED <<reg, lost>> /\ NoFault
    ELSE save([grants |-> Append(reg.mem.grants,
                    [version |-> proof.version, issued |-> proof.issued,
                     expires |-> proof.issued + Ttl, revoked |-> FALSE, card |-> proof.card]),
               used |-> reg.mem.used \cup {proof.card}])

\* proof is the confirmed card: the envelope it was issued for, and its identity.
promote(proof) ==
    IF \/ proof.card \in reg.mem.used
       \/ proof.version # lastVersion(reg.mem) + 1
    THEN UNCHANGED <<reg, lost>> /\ NoFault
    ELSE LET old == Revoked(reg.mem)
             granted == [version |-> proof.version, issued |-> proof.issued,
                         expires |-> proof.issued + Ttl, revoked |-> FALSE, card |-> proof.card]
         IN  save([grants |-> Append(old.grants, granted), used |-> old.used \cup {proof.card}])

-----------------------------------------------------------------------------
(* The composition                                                         *)

\* The operator answers an ordinary card of Tier 1 or 2 of the operator's own turn.
observeApproval(outcome) ==
    /\ Len(buffer) < MaxAnswers
    /\ Len(ledger.mem) + 3 * Len(buffer) + (IF outcome = "confirmed" THEN 2 ELSE 3) <= MaxLog
    /\ buffer' = Append(buffer, outcome)
    /\ UNCHANGED <<now, session, ledger, reg, offers, cards, cascade, lost, faults>>

\* A correction: the grant is revoked first, then the ledger is demoted. A failed save of the
\* registry ends the answer before the demotion.
demoteLearnedAutonomy(before) ==
    \/ /\ revoke /\ cascade' = TRUE
       /\ IF faults' = faults THEN ledger' = [l \in {"mem", "disk"} |-> Append(before[l], Demotion)]
          ELSE ledger' = before
    \/ /\ Unrevoked(reg.mem) = {} /\ cascade' = TRUE    \* the demotion itself was not appended
       /\ ledger' = before /\ UNCHANGED <<reg, lost>> /\ Fault

observed(outcome) ==
    [l \in {"mem", "disk"} |-> ledger[l] \o <<Demonstration(outcome), Shadow(outcome)>>]

\* One buffered answer of a completed turn.
flushDemonstrations ==
    /\ buffer # <<>>
    /\ buffer' = Tail(buffer)
    /\ \/ /\ Head(buffer) = "confirmed"
          /\ append(<<Demonstration("confirmed"), Shadow("confirmed")>>)
          /\ UNCHANGED <<reg, cascade, lost>>
       \/ /\ Head(buffer) = "rejected"
          /\ \/ demoteLearnedAutonomy(observed("rejected"))
             \/ \E done \in 0..1 :
                   /\ ledger' = [l \in {"mem", "disk"} |->
                                    ledger[l] \o SubSeq(<<Demonstration("rejected"),
                                                          Shadow("rejected")>>, 1, done)]
                   /\ Fault /\ UNCHANGED <<reg, cascade, lost>>
    /\ UNCHANGED <<now, session, offers, cards>>

\* A turn that did not complete throws its answers away.
DiscardBuffer ==
    /\ buffer # <<>> /\ buffer' = <<>>
    /\ UNCHANGED <<now, session, ledger, reg, offers, cards, cascade, lost, faults>>

\* After a turn a ripe workflow without a live grant is put on a card; the turn is not held up.
offerRipeAutonomy ==
    /\ buffer = <<>> /\ cards < MaxCards
    /\ candidateFor(ledger.mem) /\ active(reg.mem) = {}
    /\ cards' = cards + 1
    /\ offers' = offers \cup {Offer(lastVersion(reg.mem) + 1, cards + 1)}
    /\ UNCHANGED <<now, session, ledger, reg, buffer, cascade, lost, faults>>

\* The card is answered, turns later perhaps.
OfferAnswered(offer, decision) ==
    /\ offers' = offers \ {offer}
    /\ IF decision = "confirmed"
       THEN /\ promote(offer)
            /\ cascade' = (cascade /\ reg'.mem = reg.mem)
       ELSE UNCHANGED <<reg, lost, cascade>> /\ NoFault
    /\ UNCHANGED <<now, session, ledger, buffer, cards>>

forget(kept) ==
    \/ ledger' = [mem |-> kept, disk |-> kept] /\ NoFault
    \/ kept # ledger.mem /\ UNCHANGED ledger /\ Fault

\* The project is archived: grants first, then the entries; a failure is swallowed.
forgetProject ==
    /\ ledger.mem # <<>>
    /\ cascade' = TRUE
    /\ \/ /\ Unrevoked(reg.mem) = {} /\ UNCHANGED <<reg, lost>>
          /\ forget(Kind(ledger.mem, "demote"))
       \/ /\ Unrevoked(reg.mem) # {} /\ revoke
          /\ IF faults' # faults THEN UNCHANGED ledger
             ELSE ledger' = [l \in {"mem", "disk"} |-> Kind(ledger.mem, "demote")]
    /\ UNCHANGED <<now, session, buffer, offers, cards>>

\* A session is archived: its demonstrations go, grants and shadows stay.
forgetSession(s) ==
    /\ s # session /\ ledger.mem # <<>>
    /\ forget(SelectSeq(ledger.mem, LAMBDA e : e.kind # "demonstration" \/ e.session # s))
    /\ UNCHANGED <<now, session, reg, buffer, offers, cards, cascade, lost>>

\* The port of the hook gate: a call of this workflow runs without a card.
learnedAutonomyPort == active(reg.mem) # {}

SwitchSession ==
    /\ buffer = <<>>
    /\ session' \in Sessions \ {session}
    /\ UNCHANGED <<now, ledger, reg, buffer, offers, cards, cascade, lost, faults>>

Tick ==
    /\ now < MaxTime /\ now' = now + 1
    /\ UNCHANGED <<session, ledger, reg, buffer, offers, cards, cascade, lost, faults>>

Restart ==
    /\ Fault
    /\ ledger' = [ledger EXCEPT !.mem = ledger.disk]
    /\ reg' = [reg EXCEPT !.mem = reg.disk]
    /\ buffer' = <<>> /\ offers' = {}
    /\ UNCHANGED <<now, session, cards, cascade, lost>>

Next ==
    \/ \E o \in {"confirmed", "rejected"} : observeApproval(o)
    \/ \E offer \in offers, d \in {"confirmed", "rejected"} : OfferAnswered(offer, d)
    \/ flushDemonstrations \/ DiscardBuffer \/ offerRipeAutonomy
    \/ forgetProject \/ \E s \in Sessions : forgetSession(s)
    \/ SwitchSession \/ Tick \/ Restart

Spec == Init /\ [][Next]_vars

-----------------------------------------------------------------------------
TypeOK ==
    /\ now \in 0..MaxTime /\ session \in Sessions
    /\ \A l \in {"mem", "disk"} :
          /\ Len(ledger[l]) <= MaxLog
          /\ reg[l].used \subseteq 1..cards
    /\ ledger.mem = ledger.disk

\* One answer to "what is allowed": one unrevoked grant, versions in order, one card each.
GrantsAreVersioned ==
    \A l \in {"mem", "disk"} :
        LET gs == reg[l].grants IN
        /\ Cardinality(Unrevoked(reg[l])) <= 1
        /\ \A i \in DOMAIN gs : gs[i].version = i /\ gs[i].card \in reg[l].used
        /\ \A i, j \in DOMAIN gs : i # j => gs[i].card # gs[j].card
        /\ \A i \in Unrevoked(reg[l]) : i = Len(gs)

\* A correction or a forgotten project leaves no live grant behind, in memory at once and in the
\* file unless saving it failed.
CascadeHolds ==
    cascade /\ ~lost => Unrevoked(reg.mem) = {} /\ Unrevoked(reg.disk) = {}

\* Maturity is earned after the last correction: the entries that make a workflow ripe come
\* after the last demotion in the file, whatever their time stamps.
MaturityIsEarnedAgain ==
    LET log == ledger.mem
        after == {i \in DOMAIN log : \A j \in i..Len(log) : log[j].kind # "demote"}
        fresh == {i \in after : log[i].kind = "demonstration"}
    IN  candidateFor(log) => Cardinality({i \in fresh : log[i].ok}) >= MinConfirmed

\* What the ledger and the registry guarantee over corrections, forgotten projects, offers that
\* are answered late, failed writes and restarts.
AutonomyIsEarned == TypeOK /\ GrantsAreVersioned /\ CascadeHolds /\ MaturityIsEarnedAgain

\* Autonomy leaves with the evidence it stood on (autonomy-promotion.ts, forgetLearnedAutonomy).
GrantStandsOnEvidence == learnedAutonomyPort => Confirmed(ledger.mem) # <<>>
=============================================================================
