--------------------- MODULE DurableDelegationTurnProofs ---------------------
(***************************************************************************)
(* Proofs about DurableDelegationTurn, for every number of operations,     *)
(* turns and crashes and for both budget policies.                         *)
(***************************************************************************)
EXTENDS DurableDelegationTurn, TLAPS

\* The current attempt of operation s has a result.
Settled(s) == slots[s].journal[slots[s].attempt] = "settled"

\* A turn that waits for its operator, or carries a decision that is not yet
\* consumed.
Waiting == actor.status # "none" \/ cont.phase \in {"paused", "cancelling"}

InRun == {"operation", "lookup", "prepared", "io", "ambiguous", "resolve", "applied"}

\* An effect was started only from a prepared entry of the journal, which
\* stays; a process about to start one has just written the entry.
EffectsAreJournalled ==
  /\ \A s \in 1..N, a \in 1..2 :
       /\ effects[s][a] <= 1
       /\ effects[s][a] = 1 => slots[s].journal[a] # "none"
  /\ pc \in {"prepared", "io", "ambiguous"} => Journal(Current) = "prepared"
  /\ pc = "prepared" => effects[cursor][slots[cursor].attempt] = 0

\* A second attempt is granted by a confirmed decision about the first.
RetriesAreGranted ==
  /\ \A s \in 1..N : effects[s][2] > 0 => slots[s].attempt = 2
  /\ \A s \in 1..N : slots[s].attempt = 2 => Op(s, 1) \in confirmed /\ s \notin TaskOnly
  /\ actor.status \in {"approved", "claimed"} => actor.op \in confirmed
  /\ actor.status # "none" => actor.op.slot \notin TaskOnly
  /\ pc = "resolve" => /\ actor.status \in {"claimed", "refused"}
                       /\ actor.op = Current /\ cont.phase = "paused"

\* Which turn a process serves, and in which phase it finds it.
TurnIsOpen ==
  /\ Open \/ run = "active" \/ pc \notin {"down", "idle"} => cont.turn > 0
  /\ cont.op # NoOp => cont.op.turn = cont.turn
  /\ pc \in InRun => Open
  /\ pc \in InRun \ {"operation"} => cursor <= N
  /\ pc = "applied" => slots[cursor].resolution # "none"
  /\ pc \in {"turn", "ended", "lookup", "prepared", "io"} =>
       cont.phase = "active" /\ actor.status = "none"
  /\ pc = "ambiguous" /\ cont.phase = "active" => actor.status = "none"
  /\ pc = "turn" /\ run = "none" => cursor = 1
  /\ pc = "stop" /\ cont.phase \in {"active", "paused"} => actor.status = "cancelling"
  /\ card => actor.status = "asked" /\ pc \in {"interrupted", "card", "down"}

\* A replay cannot get past the operation its turn waits at: what precedes it
\* is settled, and it is itself neither settled nor fresh.
ReplayStopsAtAmbiguity ==
  /\ pc \in InRun => \A s \in 1..N : s < cursor => Settled(s)
  /\ Waiting =>
       /\ cont.op # NoOp
       /\ \A s \in 1..N : s < cont.op.slot => Settled(s)
       /\ slots[cont.op.slot].resolution = "none" =>
            /\ slots[cont.op.slot].attempt = cont.op.attempt
            /\ Journal(cont.op) = "prepared" /\ cont.phase # "active"
       /\ pc = "operation" => cursor <= cont.op.slot

\* A stop takes over a turn that waits: nobody is asked, or stopped, in an
\* active turn, and a turn that is being cancelled has no other actor.
StopTakesOver ==
  /\ actor.status # "none" => run = "active"
  /\ pc \in InRun => run = "active"
  /\ pc = "manual" => cont.phase = "terminal"
  /\ actor.status \in {"asked", "shown", "cancelling"} => cont.phase # "active"
  /\ pc = "idle" /\ actor.status # "none" => cont.phase # "active"
  /\ cont.phase = "cancelling" => actor.status \in {"cancelling", "none"}

IInv ==
  /\ TypeOK /\ ActorServesTurn /\ StopTakesOver
  /\ EffectsAreJournalled /\ RetriesAreGranted /\ TurnIsOpen /\ ReplayStopsAtAmbiguity
-----------------------------------------------------------------------------
(* What the writes do, field by field. *)

\* A record of the continuation stays one when a field gets a value of its
\* type.
LEMMA ContFields ==
  ASSUME NEW q \in ContType
  PROVE  /\ \A v \in {"missing", "active", "paused", "cancelling", "terminal"} :
              [q EXCEPT !.phase = v] \in ContType
         /\ \A v \in Nat : [q EXCEPT !.revision = v] \in ContType
         /\ \A v \in Ops \cup {NoOp} : [q EXCEPT !.op = v] \in ContType
         /\ \A v \in BOOLEAN : [q EXCEPT !.cancelled = v] \in ContType
<1>1. \A v \in {"missing", "active", "paused", "cancelling", "terminal"} :
        [q EXCEPT !.phase = v] \in ContType
  BY DEF ContType
<1>2. \A v \in Nat : [q EXCEPT !.revision = v] \in ContType
  BY DEF ContType
<1>3. \A v \in Ops \cup {NoOp} : [q EXCEPT !.op = v] \in ContType
  BY DEF ContType
<1>4. \A v \in BOOLEAN : [q EXCEPT !.cancelled = v] \in ContType
  BY DEF ContType
<1> QED
  BY <1>1, <1>2, <1>3, <1>4

\* SetPhase moves the phase and counts the revision, nothing else.
LEMMA SetPhaseWrites ==
  ASSUME TypeOK, NEW p \in {"active", "paused", "cancelling"}, SetPhase(p)
  PROVE  /\ cont' \in ContType
         /\ cont'.phase = p /\ cont'.turn = cont.turn /\ cont'.op = cont.op
         /\ cont'.cancelled = cont.cancelled
<1> DEFINE c1 == [cont EXCEPT !.phase = p]
           r == cont.revision + 1
<1>1. cont \in ContType /\ r \in Nat
  BY DEF TypeOK, ContType
<1>2. p \in {"missing", "active", "paused", "cancelling", "terminal"}
  OBVIOUS
<1>3. c1 \in ContType
  BY <1>1, <1>2, ContFields, Zenon
<1>4. cont' = [c1 EXCEPT !.revision = r]
  BY <1>1 DEF SetPhase, ContType
<1> HIDE DEF r
<1>5. cont' \in ContType
  BY <1>1, <1>3, <1>4, ContFields, Zenon
<1>6. /\ cont'.phase = p /\ cont'.turn = cont.turn /\ cont'.op = cont.op
      /\ cont'.cancelled = cont.cancelled
  BY <1>1, <1>4 DEF ContType
<1> QED
  BY <1>5, <1>6

\* A retired record is terminal and has neither ambiguity nor receipt.
LEMMA RetiredWrites ==
  ASSUME TypeOK, cont' = Retired
  PROVE  /\ cont' \in ContType
         /\ cont'.phase = "terminal" /\ cont'.turn = cont.turn /\ cont'.op = NoOp
         /\ cont'.cancelled = FALSE
<1> DEFINE r == cont.revision + 1
           c1 == [cont EXCEPT !.phase = "terminal"]
           c2 == [c1 EXCEPT !.revision = r]
           c3 == [c2 EXCEPT !.op = NoOp]
<1>1. cont \in ContType /\ r \in Nat
  BY DEF TypeOK, ContType
<1>2. cont' = [c3 EXCEPT !.cancelled = FALSE]
  BY <1>1 DEF Retired, ContType
<1> HIDE DEF r
<1>3. c1 \in ContType
  BY <1>1, ContFields, Zenon
<1>4. c2 \in ContType
  BY <1>1, <1>3, ContFields, Zenon
<1>5. c3 \in ContType
  BY <1>4, ContFields, Zenon
<1>6. cont' \in ContType
  BY <1>2, <1>5, ContFields, Zenon
<1>7. cont'.cancelled = FALSE
  BY <1>2, <1>5, Zenon DEF ContType
<1>8. cont'.phase = "terminal" /\ cont'.turn = cont.turn /\ cont'.op = NoOp
  BY <1>1, <1>2 DEF ContType
<1> QED
  BY <1>6, <1>7, <1>8

\* pause names the operation at hand.
LEMMA PauseWrites ==
  ASSUME TypeOK, NEW o \in Ops,
         cont' = [cont EXCEPT !.phase = "paused", !.revision = @ + 1, !.op = o]
  PROVE  /\ cont' \in ContType
         /\ cont'.phase = "paused" /\ cont'.turn = cont.turn /\ cont'.op = o
         /\ cont'.cancelled = cont.cancelled
<1> DEFINE r == cont.revision + 1
           c1 == [cont EXCEPT !.phase = "paused"]
           c2 == [c1 EXCEPT !.revision = r]
<1>1. cont \in ContType /\ r \in Nat
  BY DEF TypeOK, ContType
<1>2. cont' = [c2 EXCEPT !.op = o]
  BY <1>1 DEF ContType
<1> HIDE DEF r
<1>3. c1 \in ContType
  BY <1>1, ContFields, Zenon
<1>4. c2 \in ContType
  BY <1>1, <1>3, ContFields, Zenon
<1>5. o \in Ops \cup {NoOp}
  OBVIOUS
<1>6. cont' \in ContType
  BY <1>2, <1>4, <1>5, ContFields, Zenon
<1>7. /\ cont'.phase = "paused" /\ cont'.turn = cont.turn /\ cont'.op = o
      /\ cont'.cancelled = cont.cancelled
  BY <1>1, <1>2 DEF ContType
<1> QED
  BY <1>6, <1>7

\* The end of a cancellation keeps the ambiguity and leaves the receipt.
LEMMA CancelWrites ==
  ASSUME TypeOK,
         cont' = [cont EXCEPT !.phase = "terminal", !.revision = @ + 1, !.cancelled = TRUE]
  PROVE  /\ cont' \in ContType
         /\ cont'.phase = "terminal" /\ cont'.turn = cont.turn /\ cont'.op = cont.op
<1> DEFINE r == cont.revision + 1
           c1 == [cont EXCEPT !.phase = "terminal"]
           c2 == [c1 EXCEPT !.revision = r]
<1>1. cont \in ContType /\ r \in Nat
  BY DEF TypeOK, ContType
<1>2. cont' = [c2 EXCEPT !.cancelled = TRUE]
  BY <1>1 DEF ContType
<1> HIDE DEF r
<1>3. c1 \in ContType
  BY <1>1, ContFields, Zenon
<1>4. c2 \in ContType
  BY <1>1, <1>3, ContFields, Zenon
<1>5. cont' \in ContType
  BY <1>2, <1>4, ContFields, Zenon
<1>6. cont'.phase = "terminal" /\ cont'.turn = cont.turn /\ cont'.op = cont.op
  BY <1>1, <1>2 DEF ContType
<1> QED
  BY <1>5, <1>6

\* A journal entry of the operation at hand is written, and nothing else.
LEMMA JournalWrites ==
  ASSUME TypeOK, cursor <= N, NEW v \in {"none", "prepared", "settled", "stopped"},
         slots' = [slots EXCEPT ![cursor].journal[slots[cursor].attempt] = v]
  PROVE  /\ slots' \in [1..N -> SlotType]
         /\ \A s \in 1..N : /\ slots'[s].attempt = slots[s].attempt
                            /\ slots'[s].resolution = slots[s].resolution
         /\ \A s \in 1..N, a \in 1..2 :
              slots'[s].journal[a] =
                IF s = cursor /\ a = slots[cursor].attempt THEN v ELSE slots[s].journal[a]
<1> DEFINE q == slots[cursor]
           j == [q.journal EXCEPT ![q.attempt] = v]
           w == [q EXCEPT !.journal = j]
<1>1. cursor \in 1..N /\ slots \in [1..N -> SlotType] /\ q \in SlotType
  BY DEF TypeOK
<1>2. slots' = [slots EXCEPT ![cursor] = w]
  BY <1>1
<1>3. /\ j \in [1..2 -> {"none", "prepared", "settled", "stopped"}]
      /\ \A a \in 1..2 : j[a] = IF a = q.attempt THEN v ELSE q.journal[a]
  BY <1>1 DEF SlotType
<1> HIDE DEF j
<1>4. w \in SlotType /\ w.attempt = q.attempt /\ w.resolution = q.resolution /\ w.journal = j
  BY <1>1, <1>3 DEF SlotType
<1> HIDE DEF w
<1> QED
  BY <1>1, <1>2, <1>3, <1>4

\* control.resolve writes the resolution of the operation at hand, and a
\* confirmed one its second attempt; the journal is left alone.
LEMMA ResolveWrites ==
  ASSUME TypeOK, cursor <= N, resolve
  PROVE  /\ slots' \in [1..N -> SlotType]
         /\ \A s \in 1..N : slots'[s].journal = slots[s].journal
         /\ \A s \in 1..N : s # cursor => slots'[s] = slots[s]
         /\ slots'[cursor].resolution # "none"
         /\ slots'[cursor].attempt = IF actor.status = "claimed" THEN 2 ELSE slots[cursor].attempt
         /\ actor.status = "claimed" => slots[cursor].attempt = 1
<1> DEFINE q == slots[cursor]
           q1 == [q EXCEPT !.attempt = 2]
           w1 == [q1 EXCEPT !.resolution = "retry-once"]
           w2 == [q EXCEPT !.resolution = "cancel"]
           w == IF actor.status = "claimed" THEN w1 ELSE w2
<1>1. cursor \in 1..N /\ slots \in [1..N -> SlotType] /\ q \in SlotType
  BY DEF TypeOK
<1>2. slots' = [slots EXCEPT ![cursor] = w]
  BY <1>1 DEF resolve
<1>3. q1 \in SlotType /\ q1.attempt = 2 /\ q1.journal = q.journal
  BY <1>1 DEF SlotType
<1>4. w1 \in SlotType /\ w1.attempt = 2 /\ w1.journal = q.journal /\ w1.resolution = "retry-once"
  BY <1>3 DEF SlotType
<1>5. /\ w2 \in SlotType /\ w2.attempt = q.attempt /\ w2.journal = q.journal
      /\ w2.resolution = "cancel"
  BY <1>1 DEF SlotType
<1> HIDE DEF w1, w2
<1>6. /\ w \in SlotType /\ w.journal = q.journal /\ w.resolution # "none"
      /\ w.attempt = IF actor.status = "claimed" THEN 2 ELSE q.attempt
  BY <1>4, <1>5
<1>7. actor.status = "claimed" => q.attempt = 1
  BY DEF resolve
<1> HIDE DEF w
<1> QED
  BY <1>1, <1>2, <1>6, <1>7
-----------------------------------------------------------------------------
(* Where a replay can be. *)

\* An operation that is looked up and has no result is the one its turn waits
\* at, or the turn waits at none.
LEMMA LookupStops ==
  ASSUME TurnBounds, IInv, AtJournal, Journal(Current) # "settled"
  PROVE  /\ cursor \in 1..N /\ Current \in Ops
         /\ cont.phase = "active" => actor.status = "none"
         /\ Journal(Current) # "prepared" => cont.phase = "active"
         /\ pc = "operation" /\ Waiting => cont.op = Current
<1>1. cursor \in 1..N
  BY DEF AtJournal, IInv, TypeOK, TurnIsOpen, InRun
<1>2. slots[cursor].attempt \in 1..2 /\ cont.turn \in 1..MaxTurns
  BY <1>1 DEF AtJournal, IInv, TypeOK, TurnIsOpen, InRun, ContType, SlotType
<1>3. Current \in Ops
  BY <1>1, <1>2 DEF Current, Op, Ops
<1>4. Journal(Current) = slots[cursor].journal[slots[cursor].attempt]
  BY DEF Current, Op, Journal
<1>5. CASE pc = "lookup"
  BY <1>1, <1>3, <1>5 DEF IInv, TurnIsOpen
<1>6. CASE pc = "operation" /\ slots[cursor].resolution = "none" /\ ~Waiting
  BY <1>1, <1>3, <1>6 DEF IInv, TurnIsOpen, Waiting, InRun, Open
<1>7. CASE pc = "operation" /\ slots[cursor].resolution = "none" /\ Waiting
  <2>1. /\ cont.op \in Ops /\ cont.op.turn = cont.turn /\ cursor <= cont.op.slot
        /\ \A s \in 1..N : s < cont.op.slot => Settled(s)
    BY <1>7 DEF IInv, TypeOK, ContType, TurnIsOpen, ReplayStopsAtAmbiguity
  <2>2. cont.op.slot = cursor
    BY <1>1, <1>4, <2>1 DEF Settled, Ops
  <2>3. /\ slots[cursor].attempt = cont.op.attempt
        /\ Journal(cont.op) = "prepared" /\ cont.phase # "active"
    BY <1>7, <2>2 DEF IInv, ReplayStopsAtAmbiguity
  <2>4. cont.op = Current
    BY <2>1, <2>2, <2>3 DEF Current, Op, Ops
  <2> QED
    BY <1>1, <1>3, <2>3, <2>4
<1> QED
  BY <1>5, <1>6, <1>7 DEF AtJournal
-----------------------------------------------------------------------------
(* Each action keeps the invariant. *)

\* capture: a new turn starts with an empty run and without an actor.
LEMMA capture_Keeps == ASSUME TurnBounds, IInv, capture PROVE IInv'
<1>1. /\ pc = "idle" /\ cont.turn < MaxTurns /\ pc' = "turn" /\ cursor' = 1 /\ card' = FALSE
      /\ cont' = [phase |-> "active", turn |-> cont.turn + 1, revision |-> 1, op |-> NoOp,
                  cancelled |-> FALSE]
      /\ slots' = FreshSlots /\ run' = "none" /\ effects' = NoEffects /\ confirmed' = {}
      /\ UNCHANGED <<actor, boot, crashes>>
  BY DEF capture
<1>2. actor.status = "none"
  BY DEF capture, IInv, ActorServesTurn, Open
<1>3. card' \in BOOLEAN
  BY <1>1, Zenon
<1>4. /\ cont'.phase = "active" /\ cont'.op = NoOp /\ cont'.turn = cont.turn + 1
      /\ cont'.turn \in 1..MaxTurns
  BY <1>1, TurnBounds DEF IInv, TypeOK, ContType, TurnBounds
<1>5. cont'.cancelled = FALSE /\ cont'.cancelled \in BOOLEAN
  BY <1>1, Zenon
<1>6. cont' \in ContType
  BY <1>1, <1>4, <1>5 DEF ContType
<1>7. /\ slots' \in [1..N -> SlotType]
      /\ \A s \in 1..N : slots'[s].attempt = 1
  BY <1>1 DEF FreshSlots, SlotType
<1>8. /\ effects' \in [1..N -> [1..2 -> Nat]]
      /\ \A s \in 1..N, a \in 1..2 : effects'[s][a] = 0
  BY <1>1 DEF NoEffects
<1>9. cursor' \in 1..(N + 1)
  BY <1>1, TurnBounds DEF TurnBounds
<1>10. TypeOK'
  BY <1>1, <1>3, <1>4, <1>5, <1>6, <1>7, <1>8, <1>9 DEF IInv, TypeOK
<1>11. ActorServesTurn' /\ TurnIsOpen'
  BY <1>1, <1>2, <1>4 DEF IInv, TypeOK, ActorServesTurn, TurnIsOpen, Open, InRun
<1>12. EffectsAreJournalled'
  BY <1>1, <1>7, <1>8 DEF EffectsAreJournalled
<1>13. RetriesAreGranted'
  <2>1. \A s \in 1..N : effects'[s][2] = 0
    BY <1>8
  <2> QED
    BY <1>1, <1>2, <1>7, <2>1 DEF RetriesAreGranted
<1>14. ReplayStopsAtAmbiguity'
  BY <1>1, <1>2, <1>4 DEF ReplayStopsAtAmbiguity, Waiting, InRun
<1>15. StopTakesOver'
  BY <1>1, <1>2, <1>4 DEF IInv, StopTakesOver, ActorServesTurn, TurnIsOpen, Open, InRun
<1> QED
  BY <1>10, <1>11, <1>12, <1>13, <1>14, <1>15 DEF IInv

\* dispatch: the child starts at its first operation.
LEMMA dispatch_Keeps == ASSUME TurnBounds, IInv, dispatch PROVE IInv'
<1>1. /\ pc = "turn" /\ pc' = "operation" /\ cursor = 1 /\ run' = "active"
      /\ cont.phase = "active" /\ actor.status = "none" /\ cont.turn > 0
      /\ UNCHANGED <<cont, actor, slots, cursor, card, boot, effects, confirmed, crashes>>
  BY DEF dispatch, Goto, observed, IInv, TurnIsOpen
<1>2. TypeOK'
  BY <1>1 DEF IInv, TypeOK
<1>3. ActorServesTurn' /\ TurnIsOpen'
  BY <1>1 DEF IInv, ActorServesTurn, TurnIsOpen, Open, InRun
<1>4. EffectsAreJournalled' /\ RetriesAreGranted'
  BY <1>1 DEF IInv, EffectsAreJournalled, RetriesAreGranted, Op, Journal,
     Current
<1>5. ReplayStopsAtAmbiguity'
  BY <1>1 DEF IInv, ReplayStopsAtAmbiguity, Waiting, InRun, Settled, Journal
<1>6. StopTakesOver'
  BY <1>1 DEF IInv, StopTakesOver, ActorServesTurn, TurnIsOpen, Open, InRun
<1> QED
  BY <1>2, <1>3, <1>4, <1>5, <1>6 DEF IInv

\* retireParent: a parent that ends has no actor.
LEMMA retireParent_Keeps == ASSUME TurnBounds, IInv, retireParent PROVE IInv'
<1>1. card' \in BOOLEAN /\ boot' \in BOOLEAN
  BY Zenon DEF retireParent, IInv, TypeOK
<1>2. /\ pc = "turn" /\ pc' = "idle" /\ boot' = FALSE /\ actor.status = "none"
      /\ cont' \in ContType /\ cont'.phase = "terminal" /\ cont'.turn = cont.turn /\ cont'.op = NoOp
      /\ cont'.cancelled = FALSE
      /\ UNCHANGED <<actor, slots, run, cursor, card, effects, confirmed, crashes>>
  BY RetiredWrites DEF retireParent, observed, IInv
<1>3. TypeOK'
  BY <1>1, <1>2 DEF IInv, TypeOK
<1>4. ActorServesTurn' /\ TurnIsOpen'
  BY <1>2 DEF IInv, ActorServesTurn, TurnIsOpen, Open, InRun
<1>5. EffectsAreJournalled' /\ RetriesAreGranted'
  BY <1>2 DEF IInv, EffectsAreJournalled, RetriesAreGranted, Op, Journal,
     Current
<1>6. ReplayStopsAtAmbiguity'
  BY <1>2 DEF IInv, ReplayStopsAtAmbiguity, Waiting, InRun, Settled, Journal
<1>7. StopTakesOver'
  BY <1>2 DEF IInv, StopTakesOver, ActorServesTurn, TurnIsOpen, Open, InRun
<1> QED
  BY <1>3, <1>4, <1>5, <1>6, <1>7 DEF IInv

\* retireFailedTurn: a turn that fails has no actor, whether or not it is retired.
LEMMA retireFailedTurn_Keeps == ASSUME TurnBounds, IInv, retireFailedTurn PROVE IInv'
<1>1. /\ pc = "turn" /\ pc' \in {"idle", "down"} /\ actor.status = "none" /\ cont.phase = "active"
      /\ UNCHANGED <<actor, slots, run, cursor, card, boot, effects, confirmed, crashes>>
  BY DEF retireFailedTurn, Goto, observed, IInv, TurnIsOpen
<1>2. \/ UNCHANGED cont
      \/ /\ cont' \in ContType /\ cont'.phase = "terminal" /\ cont'.turn = cont.turn
         /\ cont'.op = NoOp /\ cont'.cancelled = FALSE
  BY RetiredWrites DEF retireFailedTurn, IInv
<1>3. TypeOK'
  BY <1>1, <1>2 DEF IInv, TypeOK
<1>4. ActorServesTurn' /\ TurnIsOpen'
  BY <1>1, <1>2 DEF IInv, ActorServesTurn, TurnIsOpen, Open, InRun
<1>5. EffectsAreJournalled' /\ RetriesAreGranted'
  BY <1>1, <1>2 DEF IInv, EffectsAreJournalled, RetriesAreGranted, Op, Journal, Current
<1>6. ReplayStopsAtAmbiguity'
  BY <1>1, <1>2 DEF IInv, ReplayStopsAtAmbiguity, Waiting, InRun, Settled, Journal
<1>7. StopTakesOver'
  BY <1>1, <1>2 DEF IInv, StopTakesOver, ActorServesTurn, TurnIsOpen, Open, InRun
<1> QED
  BY <1>3, <1>4, <1>5, <1>6, <1>7 DEF IInv

\* replaySettled: a replay steps over a settled operation, which is not the one its turn waits at.
LEMMA replaySettled_Keeps == ASSUME TurnBounds, IInv, replaySettled PROVE IInv'
<1>1. cursor \in 1..N /\ Settled(cursor)
  BY DEF replaySettled, AtJournal, Journal, Current, Op, Settled, IInv, TypeOK, TurnIsOpen, InRun
<1>2. /\ pc \in {"lookup", "operation"} /\ pc' = "operation" /\ cursor' = cursor + 1
      /\ UNCHANGED <<cont, actor, slots, run, card, boot, effects, confirmed, crashes>>
      /\ pc = "operation" => slots[cursor].resolution = "none"
  BY DEF replaySettled, AtJournal, durable, observed
<1>3. TypeOK'
  BY <1>1, <1>2 DEF IInv, TypeOK
<1>4. ActorServesTurn' /\ EffectsAreJournalled' /\ RetriesAreGranted' /\ TurnIsOpen'
  BY <1>2 DEF IInv, ActorServesTurn, EffectsAreJournalled, RetriesAreGranted, TurnIsOpen, Open, InRun,
     Op, Journal, Current
<1>5. \A s \in 1..N : s < cursor' => Settled(s)
  <2>1. \A s \in 1..N : s < cursor => Settled(s)
    BY <1>2, Zenon DEF IInv, ReplayStopsAtAmbiguity, InRun
  <2>2. \A s \in 1..N : s < cursor + 1 => s < cursor \/ s = cursor
    BY <1>1
  <2> QED
    BY <1>1, <1>2, <2>1, <2>2, Zenon
<1>6. Waiting => cursor' <= cont.op.slot
  <2> SUFFICES ASSUME Waiting PROVE cursor + 1 <= cont.op.slot
    BY <1>2
  <2>1. pc = "operation"
    BY <1>2 DEF IInv, TurnIsOpen, Waiting
  <2>2. /\ cont.op \in Ops /\ cursor <= cont.op.slot
        /\ slots[cont.op.slot].resolution = "none" =>
             slots[cont.op.slot].attempt = cont.op.attempt /\ Journal(cont.op) = "prepared"
    BY <2>1 DEF IInv, TypeOK, ContType, ReplayStopsAtAmbiguity
  <2>3. cont.op.slot # cursor
    BY <1>1, <1>2, <2>1, <2>2 DEF Settled, Journal
  <2> QED
    BY <1>1, <2>2, <2>3 DEF Ops
<1>7. ReplayStopsAtAmbiguity'
  BY <1>2, <1>5, <1>6 DEF IInv, ReplayStopsAtAmbiguity, Settled, Waiting, Journal
<1>8. StopTakesOver'
  BY <1>2 DEF IInv, StopTakesOver, ActorServesTurn, TurnIsOpen, Open, InRun
<1> QED
  BY <1>3, <1>4, <1>7, <1>8 DEF IInv

\* replayStopped: an operation that was stopped ends the run of an active turn.
LEMMA replayStopped_Keeps == ASSUME TurnBounds, IInv, replayStopped PROVE IInv'
<1>1. /\ pc \in {"lookup", "operation"} /\ pc' = "ended"
      /\ cont.phase = "active" /\ actor.status = "none" /\ cont.turn > 0
      /\ UNCHANGED <<cont, actor, slots, run, cursor, card, boot, effects, confirmed, crashes>>
  BY LookupStops DEF replayStopped, AtJournal, Goto, durable, observed, IInv, TurnIsOpen, InRun
<1>2. TypeOK'
  BY <1>1 DEF IInv, TypeOK
<1>3. ActorServesTurn' /\ TurnIsOpen'
  BY <1>1 DEF IInv, ActorServesTurn, TurnIsOpen, Open, InRun
<1>4. EffectsAreJournalled' /\ RetriesAreGranted'
  BY <1>1 DEF IInv, EffectsAreJournalled, RetriesAreGranted, Op, Journal,
     Current
<1>5. ReplayStopsAtAmbiguity'
  BY <1>1 DEF IInv, ReplayStopsAtAmbiguity, Waiting, InRun, Settled, Journal
<1>6. StopTakesOver'
  BY <1>1 DEF IInv, StopTakesOver, ActorServesTurn, TurnIsOpen, Open, InRun
<1> QED
  BY <1>2, <1>3, <1>4, <1>5, <1>6 DEF IInv

\* replayAmbiguous: a replay stops at an unsettled entry.
LEMMA replayAmbiguous_Keeps == ASSUME TurnBounds, IInv, replayAmbiguous PROVE IInv'
<1>1. /\ pc \in {"lookup", "operation"} /\ pc' = "ambiguous"
      /\ cursor \in 1..N /\ Journal(Current) = "prepared"
      /\ cont.phase = "active" => actor.status = "none"
      /\ UNCHANGED <<cont, actor, slots, run, cursor, card, boot, effects, confirmed, crashes>>
  BY LookupStops DEF replayAmbiguous, AtJournal, Goto, durable, observed
<1>2. TypeOK'
  BY <1>1 DEF IInv, TypeOK
<1>3. ActorServesTurn' /\ TurnIsOpen'
  BY <1>1 DEF IInv, ActorServesTurn, TurnIsOpen, Open, InRun
<1>4. EffectsAreJournalled' /\ RetriesAreGranted'
  BY <1>1 DEF IInv, EffectsAreJournalled, RetriesAreGranted, Op, Journal,
     Current
<1>5. ReplayStopsAtAmbiguity'
  BY <1>1 DEF IInv, ReplayStopsAtAmbiguity, Waiting, InRun, Settled, Journal
<1>6. StopTakesOver'
  BY <1>1 DEF IInv, StopTakesOver, ActorServesTurn, TurnIsOpen, Open, InRun
<1> QED
  BY <1>2, <1>3, <1>4, <1>5, <1>6 DEF IInv

\* prepare: only an operation of an active turn without an actor is prepared.
LEMMA prepare_Keeps == ASSUME TurnBounds, IInv, prepare PROVE IInv'
<1>1. /\ cursor \in 1..N /\ Current \in Ops /\ cont.phase = "active" /\ actor.status = "none"
      /\ slots[cursor].journal[slots[cursor].attempt] = "none"
  BY LookupStops DEF prepare, Journal, Current, Op
<1>2. /\ pc \in {"lookup", "operation"} /\ pc' = "prepared"
      /\ UNCHANGED <<cont, actor, run, cursor, card, boot, effects, confirmed, crashes>>
      /\ slots' = [slots EXCEPT ![cursor].journal[slots[cursor].attempt] = "prepared"]
  BY DEF prepare, AtJournal, Goto, observed
<1>3. /\ slots' \in [1..N -> SlotType] /\ slots[cursor].attempt \in 1..2
      /\ \A s \in 1..N : /\ slots'[s].attempt = slots[s].attempt
                         /\ slots'[s].resolution = slots[s].resolution
      /\ \A s \in 1..N, a \in 1..2 :
           slots'[s].journal[a] = IF s = cursor /\ a = slots[cursor].attempt
                                  THEN "prepared" ELSE slots[s].journal[a]
  <2>1. cursor <= N /\ slots[cursor].attempt \in 1..2 /\ TypeOK
    BY <1>1 DEF IInv, TypeOK, SlotType
  <2> QED
    BY <1>2, <2>1, JournalWrites
<1>4. TypeOK'
  BY <1>2, <1>3 DEF IInv, TypeOK
<1>5. ActorServesTurn' /\ TurnIsOpen'
  BY <1>1, <1>2, <1>3 DEF IInv, ActorServesTurn, TurnIsOpen, Open, InRun
<1>6. EffectsAreJournalled'
  <2>1. effects[cursor][slots[cursor].attempt] = 0
    BY <1>1, <1>3 DEF IInv, TypeOK, EffectsAreJournalled
  <2> QED
    BY <1>1, <1>2, <1>3, <2>1 DEF IInv, EffectsAreJournalled, Journal, Current, Op
<1>7. RetriesAreGranted'
  BY <1>1, <1>2, <1>3 DEF IInv, RetriesAreGranted, Op
<1>8. \A s \in 1..N : s < cursor => Settled(s)'
  <2> SUFFICES ASSUME NEW s \in 1..N, s < cursor PROVE Settled(s)'
    OBVIOUS
  <2>1. Settled(s) /\ s # cursor /\ slots[s].attempt \in 1..2
    BY <1>1, <1>2 DEF IInv, TypeOK, SlotType, ReplayStopsAtAmbiguity, InRun
  <2> QED
    BY <1>3, <2>1 DEF Settled
<1>9. ReplayStopsAtAmbiguity'
  BY <1>1, <1>2, <1>8 DEF ReplayStopsAtAmbiguity, Waiting
<1>10. StopTakesOver'
  BY <1>1, <1>2 DEF IInv, StopTakesOver, ActorServesTurn, TurnIsOpen, Open, InRun
<1> QED
  BY <1>4, <1>5, <1>6, <1>7, <1>9, <1>10 DEF IInv

\* start: the effect starts from the fresh entry, once.
LEMMA start_Keeps == ASSUME TurnBounds, IInv, start PROVE IInv'
<1> DEFINE a0 == slots[cursor].attempt
<1>1. /\ cursor \in 1..N /\ cont.phase = "active" /\ actor.status = "none" /\ a0 \in 1..2
      /\ effects[cursor][a0] = 0 /\ slots[cursor].journal[a0] = "prepared"
      /\ effects \in [1..N -> [1..2 -> Nat]]
  BY DEF start, IInv, TypeOK, SlotType, TurnIsOpen, InRun, EffectsAreJournalled, Journal, Current, Op
<1>2. /\ pc = "prepared" /\ pc' = "io"
      /\ UNCHANGED <<cont, actor, slots, run, cursor, card, boot, confirmed, crashes>>
      /\ effects' = [effects EXCEPT ![cursor][a0] = @ + 1]
  BY DEF start, Goto, durable
<1>3. /\ effects' \in [1..N -> [1..2 -> Nat]]
      /\ \A s \in 1..N, a \in 1..2 :
           effects'[s][a] = IF s = cursor /\ a = a0 THEN 1 ELSE effects[s][a]
  BY <1>1, <1>2
<1> HIDE DEF a0
<1>4. TypeOK'
  BY <1>2, <1>3 DEF IInv, TypeOK
<1>5. ActorServesTurn' /\ TurnIsOpen'
  BY <1>1, <1>2 DEF IInv, ActorServesTurn, TurnIsOpen, Open, InRun
<1>6. EffectsAreJournalled'
  BY <1>1, <1>2, <1>3 DEF IInv, EffectsAreJournalled, Journal, Current, Op
<1>7. RetriesAreGranted'
  <2>1. \A s \in 1..N : effects'[s][2] = IF s = cursor /\ a0 = 2 THEN 1 ELSE effects[s][2]
    BY <1>3
  <2>2. \A s \in 1..N : effects'[s][2] > 0 => slots[s].attempt = 2
    BY <2>1 DEF IInv, RetriesAreGranted, a0
  <2> QED
    BY <1>2, <2>2 DEF IInv, RetriesAreGranted, Op
<1>8. ReplayStopsAtAmbiguity'
  BY <1>1, <1>2 DEF IInv, ReplayStopsAtAmbiguity, Waiting, InRun, Settled
<1>9. StopTakesOver'
  BY <1>1, <1>2 DEF IInv, StopTakesOver, ActorServesTurn, TurnIsOpen, Open, InRun
<1> QED
  BY <1>4, <1>5, <1>6, <1>7, <1>8, <1>9 DEF IInv

\* settle: a result is settled where the replay is, and the replay goes on.
LEMMA settle_Keeps == ASSUME TurnBounds, IInv, settle PROVE IInv'
<1>1. cursor \in 1..N /\ cont.phase = "active" /\ actor.status = "none"
  BY DEF settle, IInv, TypeOK, TurnIsOpen, InRun
<1>2. /\ pc = "io" /\ pc' = "operation" /\ cursor' = cursor + 1
      /\ UNCHANGED <<cont, actor, run, card, boot, effects, confirmed, crashes>>
      /\ slots' = [slots EXCEPT ![cursor].journal[slots[cursor].attempt] = "settled"]
  BY DEF settle, observed
<1>3. /\ slots' \in [1..N -> SlotType]
      /\ \A s \in 1..N : /\ slots'[s].attempt = slots[s].attempt
                         /\ slots'[s].resolution = slots[s].resolution
      /\ \A s \in 1..N, a \in 1..2 :
           slots'[s].journal[a] = IF s = cursor /\ a = slots[cursor].attempt
                                  THEN "settled" ELSE slots[s].journal[a]
  BY <1>1, <1>2, JournalWrites DEF IInv
<1>4. TypeOK'
  BY <1>1, <1>2, <1>3 DEF IInv, TypeOK
<1>5. ActorServesTurn' /\ TurnIsOpen'
  BY <1>1, <1>2, <1>3 DEF IInv, ActorServesTurn, TurnIsOpen, Open, InRun
<1>6. EffectsAreJournalled' /\ RetriesAreGranted'
  BY <1>1, <1>2, <1>3 DEF IInv, EffectsAreJournalled, RetriesAreGranted, Op
<1>7. \A s \in 1..N : s < cursor' => Settled(s)'
  <2> SUFFICES ASSUME NEW s \in 1..N, s <= cursor PROVE Settled(s)'
    BY <1>1, <1>2
  <2>1. s # cursor => Settled(s)
    BY <1>1, <1>2 DEF IInv, ReplayStopsAtAmbiguity, InRun
  <2>2. slots[s].attempt \in 1..2
    BY DEF IInv, TypeOK, SlotType
  <2> QED
    BY <1>1, <1>3, <2>1, <2>2 DEF Settled
<1>8. ReplayStopsAtAmbiguity'
  BY <1>1, <1>2, <1>7 DEF ReplayStopsAtAmbiguity, Waiting
<1>9. StopTakesOver'
  BY <1>1, <1>2 DEF IInv, StopTakesOver, ActorServesTurn, TurnIsOpen, Open, InRun
<1> QED
  BY <1>4, <1>5, <1>6, <1>8, <1>9 DEF IInv

\* settleStopped: a stopped operation ends the run.
LEMMA settleStopped_Keeps == ASSUME TurnBounds, IInv, settleStopped PROVE IInv'
<1>1. cursor \in 1..N /\ cont.phase = "active" /\ actor.status = "none"
  BY DEF settleStopped, IInv, TypeOK, TurnIsOpen, InRun
<1>2. /\ pc = "io" /\ pc' = "ended" /\ UNCHANGED cursor
      /\ UNCHANGED <<cont, actor, run, card, boot, effects, confirmed, crashes>>
      /\ slots' = [slots EXCEPT ![cursor].journal[slots[cursor].attempt] = "stopped"]
  BY DEF settleStopped, Goto, observed
<1>3. /\ slots' \in [1..N -> SlotType]
      /\ \A s \in 1..N : /\ slots'[s].attempt = slots[s].attempt
                         /\ slots'[s].resolution = slots[s].resolution
      /\ \A s \in 1..N, a \in 1..2 :
           slots'[s].journal[a] = IF s = cursor /\ a = slots[cursor].attempt
                                  THEN "stopped" ELSE slots[s].journal[a]
  BY <1>1, <1>2, JournalWrites DEF IInv
<1>4. TypeOK'
  BY <1>1, <1>2, <1>3 DEF IInv, TypeOK
<1>5. ActorServesTurn' /\ TurnIsOpen'
  BY <1>1, <1>2, <1>3 DEF IInv, ActorServesTurn, TurnIsOpen, Open, InRun
<1>6. EffectsAreJournalled' /\ RetriesAreGranted'
  BY <1>1, <1>2, <1>3 DEF IInv, EffectsAreJournalled, RetriesAreGranted, Op
<1>8. ReplayStopsAtAmbiguity'
  BY <1>1, <1>2 DEF ReplayStopsAtAmbiguity, Waiting, InRun
<1>9. StopTakesOver'
  BY <1>1, <1>2 DEF IInv, StopTakesOver, ActorServesTurn, TurnIsOpen, Open, InRun
<1> QED
  BY <1>4, <1>5, <1>6, <1>8, <1>9 DEF IInv

\* unsettled: an unknown outcome leaves its prepared entry.
LEMMA unsettled_Keeps == ASSUME TurnBounds, IInv, unsettled PROVE IInv'
<1>1. /\ pc \in {"prepared", "io"} /\ pc' = "ambiguous"
      /\ UNCHANGED <<cont, actor, slots, run, cursor, card, boot, effects, confirmed, crashes>>
  BY DEF unsettled, Goto, durable, observed
<1>2. TypeOK'
  BY <1>1 DEF IInv, TypeOK
<1>3. ActorServesTurn' /\ TurnIsOpen'
  BY <1>1 DEF IInv, ActorServesTurn, TurnIsOpen, Open, InRun
<1>4. EffectsAreJournalled' /\ RetriesAreGranted'
  BY <1>1 DEF IInv, EffectsAreJournalled, RetriesAreGranted, Op, Journal,
     Current
<1>5. ReplayStopsAtAmbiguity'
  BY <1>1 DEF IInv, ReplayStopsAtAmbiguity, Waiting, InRun, Settled, Journal
<1>6. StopTakesOver'
  BY <1>1 DEF IInv, StopTakesOver, ActorServesTurn, TurnIsOpen, Open, InRun
<1> QED
  BY <1>2, <1>3, <1>4, <1>5, <1>6 DEF IInv

\* endRun: a run ends only when nobody is asked.
LEMMA endRun_Keeps == ASSUME TurnBounds, IInv, endRun PROVE IInv'
<1>1. /\ pc' = "turn" /\ run' = "retired"
      /\ UNCHANGED <<cont, actor, slots, cursor, card, boot, effects, confirmed, crashes>>
  BY DEF endRun, Goto, observed
<1>2. cont.phase = "active" /\ actor.status = "none"
  <2>1. CASE pc = "ended"
    BY <2>1 DEF IInv, TurnIsOpen
  <2>2. CASE pc = "operation" /\ cursor > N
    <3>1. ~Waiting
      <4>1. Waiting => cont.op # NoOp /\ cursor <= cont.op.slot
        BY <2>2, Zenon DEF IInv, ReplayStopsAtAmbiguity
      <4>2. cont.op # NoOp => cont.op.slot \in 1..N
        BY DEF IInv, TypeOK, ContType, Ops, NoOp
      <4> QED
        BY <2>2, <4>1, <4>2 DEF IInv, TypeOK
    <3> QED
      BY <2>2, <3>1 DEF IInv, TurnIsOpen, InRun, Open, Waiting
  <2>3. CASE AtJournal /\ Journal(Current) = "none"
    BY <2>3, LookupStops
  <2> QED
    BY <2>1, <2>2, <2>3 DEF endRun
<1>3. TypeOK'
  BY <1>1 DEF IInv, TypeOK
<1>4. ActorServesTurn' /\ EffectsAreJournalled' /\ RetriesAreGranted'
  BY <1>1 DEF IInv, ActorServesTurn, EffectsAreJournalled, RetriesAreGranted, Open, Op
<1>5. TurnIsOpen'
  BY <1>1, <1>2 DEF IInv, TurnIsOpen, Open, InRun
<1>6. ReplayStopsAtAmbiguity'
  BY <1>1, <1>2 DEF ReplayStopsAtAmbiguity, Waiting, InRun
<1>7. StopTakesOver'
  BY <1>1, <1>2 DEF IInv, StopTakesOver, ActorServesTurn, TurnIsOpen, Open, InRun
<1> QED
  BY <1>3, <1>4, <1>5, <1>6, <1>7 DEF IInv

\* pause: the parent is paused at the operation of the ambiguity.
LEMMA pause_Keeps == ASSUME TurnBounds, IInv, pause PROVE IInv'
<1>1. /\ cursor \in 1..N /\ pc = "ambiguous" /\ cont.phase = "active" /\ actor.status = "none"
      /\ cont.turn > 0 /\ Journal(Current) = "prepared" /\ cont \in ContType
      /\ slots[cursor].attempt \in 1..2
  BY DEF pause, IInv, TypeOK, SlotType, TurnIsOpen, EffectsAreJournalled, InRun
<1>2. Current \in Ops /\ Current.slot = cursor /\ Current.attempt = slots[cursor].attempt
      /\ Current.turn = cont.turn
  BY <1>1 DEF Current, Op, Ops, ContType
<1>3. /\ cont' \in ContType /\ cont'.phase = "paused" /\ cont'.turn = cont.turn
      /\ cont'.op = Current /\ cont'.cancelled = cont.cancelled
  BY <1>2, PauseWrites DEF pause, IInv
<1>4. UNCHANGED <<actor, slots, run, pc, cursor, card, boot, effects, confirmed, crashes>>
  BY DEF pause, memory, observed
<1>5. Current # NoOp
  BY <1>1, <1>2 DEF NoOp
<1> HIDE DEF Current
<1>6. TypeOK'
  BY <1>1, <1>3, <1>4, <1>5 DEF IInv, TypeOK
<1>7. ActorServesTurn' /\ TurnIsOpen'
  BY <1>1, <1>2, <1>3, <1>4 DEF IInv, ActorServesTurn, TurnIsOpen, Open, InRun
<1>8. EffectsAreJournalled' /\ RetriesAreGranted'
  BY <1>1, <1>3, <1>4 DEF IInv, EffectsAreJournalled, RetriesAreGranted, Op, Journal, Current
<1>9. ReplayStopsAtAmbiguity'
  BY <1>1, <1>2, <1>3, <1>4, <1>5 DEF IInv, ReplayStopsAtAmbiguity, InRun, Settled, Journal
<1>10. StopTakesOver'
  BY <1>1, <1>3, <1>4 DEF IInv, StopTakesOver, ActorServesTurn, TurnIsOpen, Open, InRun
<1> QED
  BY <1>6, <1>7, <1>8, <1>9, <1>10 DEF IInv

\* retireManual: a mutation that is ambiguous has no actor.
LEMMA retireManual_Keeps == ASSUME TurnBounds, IInv, retireManual PROVE IInv'
<1>1. cursor \in TaskOnly /\ cont.op = Current /\ pc = "ambiguous" /\ cont.phase = "paused"
  BY DEF retireManual, PausedHere
<1>2. actor.status = "none"
  BY <1>1, SMTT(30) DEF IInv, ActorServesTurn, RetriesAreGranted, Current, Op
<1>3. /\ cont' \in ContType /\ cont'.phase = "terminal" /\ cont'.turn = cont.turn
      /\ cont'.op = NoOp /\ cont'.cancelled = FALSE
  BY RetiredWrites DEF retireManual, IInv
<1>4. /\ pc' = "manual"
      /\ UNCHANGED <<actor, slots, run, cursor, card, boot, effects, confirmed, crashes>>
  BY DEF retireManual, Goto, observed
<1>5. TypeOK'
  BY <1>3, <1>4 DEF IInv, TypeOK
<1>6. ActorServesTurn' /\ TurnIsOpen' /\ ReplayStopsAtAmbiguity'
  BY <1>1, <1>2, <1>3, <1>4 DEF IInv, ActorServesTurn, TurnIsOpen, ReplayStopsAtAmbiguity, Open, InRun,
     Waiting
<1>7. EffectsAreJournalled' /\ RetriesAreGranted'
  BY <1>2, <1>3, <1>4 DEF IInv, EffectsAreJournalled, RetriesAreGranted, Op
<1>8. StopTakesOver'
  BY <1>1, <1>2, <1>3, <1>4 DEF IInv, StopTakesOver, ActorServesTurn, TurnIsOpen, Open, InRun
<1> QED
  BY <1>5, <1>6, <1>7, <1>8 DEF IInv

\* endManual: the run of a retired parent leaves the registry.
LEMMA endManual_Keeps == ASSUME TurnBounds, IInv, endManual PROVE IInv'
<1>1. /\ pc = "manual" /\ pc' = "down" /\ run' = "retired"
      /\ UNCHANGED <<cont, actor, slots, cursor, card, boot, effects, confirmed, crashes>>
  BY DEF endManual, Goto, observed
<1>2. TypeOK'
  BY <1>1 DEF IInv, TypeOK
<1>3. ActorServesTurn' /\ TurnIsOpen'
  BY <1>1 DEF IInv, ActorServesTurn, TurnIsOpen, Open, InRun
<1>4. EffectsAreJournalled' /\ RetriesAreGranted'
  BY <1>1 DEF IInv, EffectsAreJournalled, RetriesAreGranted, Op, Journal,
     Current
<1>5. ReplayStopsAtAmbiguity'
  BY <1>1 DEF IInv, ReplayStopsAtAmbiguity, Waiting, InRun, Settled, Journal
<1>6. StopTakesOver'
  BY <1>1 DEF IInv, StopTakesOver, ActorServesTurn, TurnIsOpen, Open, InRun
<1> QED
  BY <1>2, <1>3, <1>4, <1>5, <1>6 DEF IInv

\* ask: the operator is asked about the operation the parent is paused at.
LEMMA ask_Keeps == ASSUME TurnBounds, IInv, ask PROVE IInv'
<1>1. card' \in BOOLEAN /\ boot' \in BOOLEAN
  BY Zenon DEF ask, IInv, TypeOK
<1>2. /\ pc = "ambiguous" /\ pc' = "interrupted" /\ cursor \notin TaskOnly /\ actor.status = "none"
      /\ cont.phase = "paused" /\ cont.op = Current /\ card' = TRUE
      /\ actor'.status = "asked" /\ actor'.op = cont.op
      /\ UNCHANGED <<cont, slots, run, cursor, boot, effects, confirmed, crashes>>
  BY DEF ask, PausedHere, observed
<1>3. actor' \in ActorType
  BY <1>2 DEF ask, IInv, TypeOK, ContType, ActorType
<1>4. cont.op.slot = cursor
  BY <1>2 DEF Current, Op
<1>5. TypeOK'
  BY <1>1, <1>2, <1>3, <1>4 DEF IInv, TypeOK
<1>6. ActorServesTurn' /\ TurnIsOpen'
  BY <1>2, <1>3, <1>4 DEF IInv, ActorServesTurn, TurnIsOpen, Open, InRun
<1>7. EffectsAreJournalled' /\ RetriesAreGranted'
  BY <1>2, <1>3, <1>4 DEF IInv, EffectsAreJournalled, RetriesAreGranted, Op, Journal,
     Current
<1>8. ReplayStopsAtAmbiguity'
  BY <1>2, <1>3, <1>4 DEF IInv, ReplayStopsAtAmbiguity, Waiting, InRun, Settled, Journal
<1>9. StopTakesOver'
  BY <1>2, <1>3, <1>4 DEF IInv, StopTakesOver, ActorServesTurn, TurnIsOpen, Open, InRun
<1> QED
  BY <1>5, <1>6, <1>7, <1>8, <1>9 DEF IInv

\* resolveAmbiguity: a confirmed decision becomes a claim.
LEMMA resolveAmbiguity_Keeps == ASSUME TurnBounds, IInv, resolveAmbiguity PROVE IInv'
<1>1. /\ pc = "ambiguous" /\ pc' = "resolve" /\ cont.phase = "paused" /\ cont.op = Current
      /\ actor.status \in {"approved", "claimed", "refused"} /\ cont.op = actor.op
      /\ actor'.status = (IF actor.status = "refused" THEN "refused" ELSE "claimed")
      /\ actor'.op = actor.op /\ actor' \in ActorType
      /\ UNCHANGED <<cont, slots, run, cursor, card, boot, effects, confirmed, crashes>>
  BY DEF resolveAmbiguity, PausedHere, Held, Goto, observed, IInv, TypeOK, ActorType
<1>2. TypeOK'
  BY <1>1 DEF IInv, TypeOK
<1>3. ActorServesTurn' /\ TurnIsOpen'
  BY <1>1 DEF IInv, ActorServesTurn, TurnIsOpen, Open, InRun
<1>4. EffectsAreJournalled' /\ RetriesAreGranted'
  BY <1>1 DEF IInv, EffectsAreJournalled, RetriesAreGranted, Op, Journal,
     Current
<1>5. ReplayStopsAtAmbiguity'
  BY <1>1 DEF IInv, ReplayStopsAtAmbiguity, Waiting, InRun, Settled, Journal
<1>6. StopTakesOver'
  BY <1>1 DEF IInv, StopTakesOver, ActorServesTurn, TurnIsOpen, Open, InRun
<1> QED
  BY <1>2, <1>3, <1>4, <1>5, <1>6 DEF IInv

\* ambiguityRefused: a refused ambiguity changes nothing durable.
LEMMA ambiguityRefused_Keeps == ASSUME TurnBounds, IInv, ambiguityRefused PROVE IInv'
<1>1. /\ pc = "ambiguous" /\ pc' = "interrupted"
      /\ UNCHANGED <<cont, actor, slots, run, cursor, card, boot, effects, confirmed, crashes>>
  BY DEF ambiguityRefused, Goto, durable, observed
<1>2. TypeOK'
  BY <1>1 DEF IInv, TypeOK
<1>3. ActorServesTurn' /\ TurnIsOpen'
  BY <1>1 DEF IInv, ActorServesTurn, TurnIsOpen, Open, InRun
<1>4. EffectsAreJournalled' /\ RetriesAreGranted'
  BY <1>1 DEF IInv, EffectsAreJournalled, RetriesAreGranted, Op, Journal,
     Current
<1>5. ReplayStopsAtAmbiguity'
  BY <1>1 DEF IInv, ReplayStopsAtAmbiguity, Waiting, InRun, Settled, Journal
<1>6. StopTakesOver'
  BY <1>1 DEF IInv, StopTakesOver, ActorServesTurn, TurnIsOpen, Open, InRun
<1> QED
  BY <1>2, <1>3, <1>4, <1>5, <1>6 DEF IInv

\* resolve: a second attempt is granted to a confirmed retry only.
LEMMA resolve_Keeps == ASSUME TurnBounds, IInv, resolve PROVE IInv'
<1>1. /\ pc = "resolve" /\ cursor \in 1..N /\ slots[cursor].attempt \in 1..2
      /\ actor.status \in {"claimed", "refused"} /\ actor.op = Current
      /\ cont.phase = "paused" /\ cont.op = actor.op
  BY DEF resolve, IInv, TypeOK, SlotType, TurnIsOpen, InRun, RetriesAreGranted, ActorServesTurn
<1>2. /\ pc' = "applied"
      /\ UNCHANGED <<cont, actor, run, cursor, card, boot, effects, confirmed, crashes>>
  BY DEF resolve, Goto, observed
<1>3. /\ slots' \in [1..N -> SlotType]
      /\ \A s \in 1..N : slots'[s].journal = slots[s].journal
      /\ \A s \in 1..N : s # cursor => slots'[s] = slots[s]
      /\ slots'[cursor].resolution # "none"
      /\ slots'[cursor].attempt = IF actor.status = "claimed" THEN 2 ELSE slots[cursor].attempt
      /\ actor.status = "claimed" => slots[cursor].attempt = 1
  BY <1>1, ResolveWrites DEF IInv
<1>4. TypeOK'
  BY <1>2, <1>3 DEF IInv, TypeOK
<1>5. ActorServesTurn' /\ TurnIsOpen'
  BY <1>1, <1>2, <1>3 DEF IInv, ActorServesTurn, TurnIsOpen, Open, InRun
<1>6. EffectsAreJournalled'
  BY <1>2, <1>3 DEF IInv, EffectsAreJournalled
<1>7. RetriesAreGranted'
  <2>1. actor.status = "claimed" => Op(cursor, 1) \in confirmed /\ cursor \notin TaskOnly
    BY <1>1, <1>3 DEF IInv, RetriesAreGranted, Current, Op
  <2>2. \A s \in 1..N : slots'[s].attempt = 2 => Op(s, 1) \in confirmed /\ s \notin TaskOnly
    BY <1>1, <1>3, <2>1 DEF IInv, RetriesAreGranted
  <2>3. \A s \in 1..N : effects[s][2] > 0 => slots'[s].attempt = 2
    BY <1>1, <1>3 DEF IInv, RetriesAreGranted
  <2> QED
    BY <1>2, <2>2, <2>3 DEF IInv, RetriesAreGranted, Op
<1>8. ReplayStopsAtAmbiguity'
  <2>1. cont.op # NoOp /\ cont.op.slot = cursor
    BY <1>1 DEF Current, Op, NoOp
  <2>2. \A s \in 1..N : s < cursor => Settled(s)'
    BY <1>1, <1>3 DEF IInv, ReplayStopsAtAmbiguity, InRun, Settled
  <2> QED
    BY <1>2, <1>3, <2>1, <2>2 DEF ReplayStopsAtAmbiguity
<1>9. StopTakesOver'
  BY <1>1, <1>2 DEF IInv, StopTakesOver, ActorServesTurn, TurnIsOpen, Open, InRun
<1> QED
  BY <1>4, <1>5, <1>6, <1>7, <1>8, <1>9 DEF IInv

\* resumeParent: the parent goes on with its decision still unconsumed.
LEMMA resumeParent_Keeps == ASSUME TurnBounds, IInv, resumeParent PROVE IInv'
<1>1. /\ cont.phase = "paused" /\ cont.op = actor.op /\ actor.op = ResolvedOp /\ cursor \in 1..N
      /\ slots[cursor].resolution # "none" /\ actor.status \in {"claimed", "refused"}
      /\ pc \in {"applied", "operation"}
  BY DEF resumeParent, Applying, Carried, Held, IInv, TypeOK, TurnIsOpen, InRun
<1>2. /\ cont' \in ContType /\ cont'.phase = "active" /\ cont'.turn = cont.turn
      /\ cont'.op = cont.op /\ cont'.cancelled = cont.cancelled
  BY SetPhaseWrites DEF resumeParent, IInv
<1>3. /\ pc' = "applied"
      /\ UNCHANGED <<actor, slots, run, cursor, card, boot, effects, confirmed, crashes>>
  BY DEF resumeParent, Goto, observed
<1>4. TypeOK'
  BY <1>1, <1>2, <1>3 DEF IInv, TypeOK
<1>5. ActorServesTurn' /\ TurnIsOpen'
  BY <1>1, <1>2, <1>3 DEF IInv, ActorServesTurn, TurnIsOpen, Open, InRun
<1>6. EffectsAreJournalled' /\ RetriesAreGranted'
  BY <1>2, <1>3 DEF IInv, EffectsAreJournalled, RetriesAreGranted, Op
<1>7. cont.op.slot = cursor
  BY <1>1 DEF ResolvedOp, Current, Op
<1>8. ReplayStopsAtAmbiguity'
  BY <1>1, <1>2, <1>3, <1>7 DEF IInv, ReplayStopsAtAmbiguity, InRun, Waiting, Settled
<1>9. StopTakesOver'
  BY <1>1, <1>2, <1>3 DEF IInv, StopTakesOver, ActorServesTurn, TurnIsOpen, Open, InRun
<1> QED
  BY <1>4, <1>5, <1>6, <1>8, <1>9 DEF IInv

\* finishActor: the decision is consumed before anything is prepared.
LEMMA finishActor_Keeps == ASSUME TurnBounds, IInv, finishActor PROVE IInv'
<1>1. /\ pc \in {"applied", "operation"} /\ pc' \in {"lookup", "ended"}
      /\ pc' = "lookup" => cursor <= N
      /\ cont.phase = "active" /\ actor'.status = "none" /\ actor' \in ActorType
      /\ UNCHANGED <<cont, slots, run, cursor, card, boot, effects, confirmed, crashes>>
  BY DEF finishActor, Applying, Proceed, Goto, observed, NoActor, ActorType, IInv,
     TurnIsOpen, InRun
<1>2. TypeOK'
  BY <1>1 DEF IInv, TypeOK
<1>3. ActorServesTurn' /\ TurnIsOpen'
  BY <1>1 DEF IInv, ActorServesTurn, TurnIsOpen, Open, InRun
<1>4. EffectsAreJournalled' /\ RetriesAreGranted'
  BY <1>1 DEF IInv, EffectsAreJournalled, RetriesAreGranted, Op, Journal,
     Current
<1>5. ReplayStopsAtAmbiguity'
  BY <1>1 DEF IInv, ReplayStopsAtAmbiguity, Waiting, InRun, Settled, Journal
<1>6. StopTakesOver'
  BY <1>1 DEF IInv, StopTakesOver, ActorServesTurn, TurnIsOpen, Open, InRun
<1> QED
  BY <1>2, <1>3, <1>4, <1>5, <1>6 DEF IInv

\* alreadyApplied: an applied resolution is passed.
LEMMA alreadyApplied_Keeps == ASSUME TurnBounds, IInv, alreadyApplied PROVE IInv'
<1>1. /\ pc \in {"applied", "operation"} /\ pc' \in {"lookup", "ended"}
      /\ pc' = "lookup" => cursor <= N
      /\ cont.phase = "active" /\ actor.status = "none"
      /\ UNCHANGED <<cont, actor, slots, run, cursor, card, boot, effects, confirmed, crashes>>
  BY DEF alreadyApplied, Applying, Proceed, Goto, durable, observed, IInv, TurnIsOpen, InRun
<1>2. TypeOK'
  BY <1>1 DEF IInv, TypeOK
<1>3. ActorServesTurn' /\ TurnIsOpen'
  BY <1>1 DEF IInv, ActorServesTurn, TurnIsOpen, Open, InRun
<1>4. EffectsAreJournalled' /\ RetriesAreGranted'
  BY <1>1 DEF IInv, EffectsAreJournalled, RetriesAreGranted, Op, Journal,
     Current
<1>5. ReplayStopsAtAmbiguity'
  BY <1>1 DEF IInv, ReplayStopsAtAmbiguity, Waiting, InRun, Settled, Journal
<1>6. StopTakesOver'
  BY <1>1 DEF IInv, StopTakesOver, ActorServesTurn, TurnIsOpen, Open, InRun
<1> QED
  BY <1>2, <1>3, <1>4, <1>5, <1>6 DEF IInv

\* applicationRefused: a refused resolution changes nothing durable.
LEMMA applicationRefused_Keeps == ASSUME TurnBounds, IInv, applicationRefused PROVE IInv'
<1>1. /\ pc \in {"applied", "operation"} /\ pc' = "interrupted"
      /\ UNCHANGED <<cont, actor, slots, run, cursor, card, boot, effects, confirmed, crashes>>
  BY DEF applicationRefused, Applying, Goto, durable, observed
<1>2. TypeOK'
  BY <1>1 DEF IInv, TypeOK
<1>3. ActorServesTurn' /\ TurnIsOpen'
  BY <1>1 DEF IInv, ActorServesTurn, TurnIsOpen, Open, InRun
<1>4. EffectsAreJournalled' /\ RetriesAreGranted'
  BY <1>1 DEF IInv, EffectsAreJournalled, RetriesAreGranted, Op, Journal,
     Current
<1>5. ReplayStopsAtAmbiguity'
  BY <1>1 DEF IInv, ReplayStopsAtAmbiguity, Waiting, InRun, Settled, Journal
<1>6. StopTakesOver'
  BY <1>1 DEF IInv, StopTakesOver, ActorServesTurn, TurnIsOpen, Open, InRun
<1> QED
  BY <1>2, <1>3, <1>4, <1>5, <1>6 DEF IInv

\* deliverCard: a card is shown while its question is asked.
LEMMA deliverCard_Keeps == ASSUME TurnBounds, IInv, deliverCard PROVE IInv'
<1>1. card' \in BOOLEAN /\ boot' \in BOOLEAN
  BY Zenon DEF deliverCard
<1>2. /\ pc \in {"interrupted", "card"} /\ pc' \in {"down", "idle"} /\ card' = FALSE /\ boot' = FALSE
      /\ actor.status = "asked"
      /\ actor' \in ActorType /\ actor'.op = actor.op /\ actor'.status = "shown"
      /\ UNCHANGED <<cont, slots, run, cursor, effects, confirmed, crashes>>
  BY DEF deliverCard, observed, IInv, TypeOK, TurnIsOpen, ActorType
<1>3. TypeOK'
  BY <1>1, <1>2 DEF IInv, TypeOK
<1>4. ActorServesTurn' /\ TurnIsOpen'
  BY <1>2 DEF IInv, ActorServesTurn, TurnIsOpen, Open, InRun
<1>5. EffectsAreJournalled' /\ RetriesAreGranted'
  BY <1>2 DEF IInv, EffectsAreJournalled, RetriesAreGranted, Op, Journal,
     Current
<1>6. ReplayStopsAtAmbiguity'
  BY <1>2 DEF IInv, ReplayStopsAtAmbiguity, Waiting, InRun, Settled, Journal
<1>7. StopTakesOver'
  BY <1>2 DEF IInv, StopTakesOver, ActorServesTurn, TurnIsOpen, Open, InRun
<1> QED
  BY <1>3, <1>4, <1>5, <1>6, <1>7 DEF IInv

\* failInterrupted: an interruption changes nothing durable.
LEMMA failInterrupted_Keeps == ASSUME TurnBounds, IInv, failInterrupted PROVE IInv'
<1>1. /\ pc \in {"interrupted", "card"} /\ pc' = "down"
      /\ UNCHANGED <<cont, actor, slots, run, cursor, card, boot, effects, confirmed, crashes>>
  BY DEF failInterrupted, Goto, durable, observed
<1>2. TypeOK'
  BY <1>1 DEF IInv, TypeOK
<1>3. ActorServesTurn' /\ TurnIsOpen'
  BY <1>1 DEF IInv, ActorServesTurn, TurnIsOpen, Open, InRun
<1>4. EffectsAreJournalled' /\ RetriesAreGranted'
  BY <1>1 DEF IInv, EffectsAreJournalled, RetriesAreGranted, Op, Journal,
     Current
<1>5. ReplayStopsAtAmbiguity'
  BY <1>1 DEF IInv, ReplayStopsAtAmbiguity, Waiting, InRun, Settled, Journal
<1>6. StopTakesOver'
  BY <1>1 DEF IInv, StopTakesOver, ActorServesTurn, TurnIsOpen, Open, InRun
<1> QED
  BY <1>2, <1>3, <1>4, <1>5, <1>6 DEF IInv

\* answer: a confirmed answer is about the operation asked for.
LEMMA answer_Keeps == ASSUME TurnBounds, IInv, NEW yes \in BOOLEAN, answer(yes) PROVE IInv'
<1>1. /\ pc = "idle" /\ actor.status = "shown" /\ actor.op \in Ops
      /\ actor' \in ActorType /\ actor'.op = actor.op
      /\ actor'.status = (IF yes THEN "approved" ELSE "refused")
      /\ confirmed' = (IF yes THEN confirmed \cup {actor.op} ELSE confirmed)
      /\ UNCHANGED <<cont, slots, run, pc, cursor, card, boot, effects, crashes>>
  BY DEF answer, Held, memory, IInv, TypeOK, ContType, ActorType, ReplayStopsAtAmbiguity,
     Waiting
<1>2. TypeOK'
  BY <1>1 DEF IInv, TypeOK
<1>3. ActorServesTurn' /\ TurnIsOpen'
  BY <1>1 DEF IInv, ActorServesTurn, TurnIsOpen, Open, InRun
<1>4. EffectsAreJournalled' /\ RetriesAreGranted'
  BY <1>1 DEF IInv, EffectsAreJournalled, RetriesAreGranted, Op, Journal,
     Current
<1>5. ReplayStopsAtAmbiguity'
  BY <1>1 DEF IInv, ReplayStopsAtAmbiguity, Waiting, InRun, Settled, Journal
<1>6. StopTakesOver'
  BY <1>1 DEF IInv, StopTakesOver, ActorServesTurn, TurnIsOpen, Open, InRun
<1> QED
  BY <1>2, <1>3, <1>4, <1>5, <1>6 DEF IInv

\* answerExpired: an expired question is withdrawn.
LEMMA answerExpired_Keeps == ASSUME TurnBounds, IInv, answerExpired PROVE IInv'
<1>1. /\ pc = "idle" /\ actor'.status = "none" /\ actor' \in ActorType
      /\ UNCHANGED <<cont, slots, run, pc, cursor, card, boot, effects, confirmed, crashes>>
  BY DEF answerExpired, memory, observed, NoActor, ActorType
<1>2. TypeOK'
  BY <1>1 DEF IInv, TypeOK
<1>3. ActorServesTurn' /\ TurnIsOpen'
  BY <1>1 DEF IInv, ActorServesTurn, TurnIsOpen, Open, InRun
<1>4. EffectsAreJournalled' /\ RetriesAreGranted'
  BY <1>1 DEF IInv, EffectsAreJournalled, RetriesAreGranted, Op, Journal,
     Current
<1>5. ReplayStopsAtAmbiguity'
  BY <1>1 DEF IInv, ReplayStopsAtAmbiguity, Waiting, InRun, Settled, Journal
<1>6. StopTakesOver'
  BY <1>1 DEF IInv, StopTakesOver, ActorServesTurn, TurnIsOpen, Open, InRun
<1> QED
  BY <1>2, <1>3, <1>4, <1>5, <1>6 DEF IInv

\* requestResume: a planned restart changes nothing durable.
LEMMA requestResume_Keeps == ASSUME TurnBounds, IInv, requestResume PROVE IInv'
<1>1. /\ pc = "idle" /\ pc' = "down"
      /\ UNCHANGED <<cont, actor, slots, run, cursor, card, boot, effects, confirmed, crashes>>
  BY DEF requestResume, Goto, durable, observed
<1>2. TypeOK'
  BY <1>1 DEF IInv, TypeOK
<1>3. ActorServesTurn' /\ TurnIsOpen'
  BY <1>1 DEF IInv, ActorServesTurn, TurnIsOpen, Open, InRun
<1>4. EffectsAreJournalled' /\ RetriesAreGranted'
  BY <1>1 DEF IInv, EffectsAreJournalled, RetriesAreGranted, Op, Journal,
     Current
<1>5. ReplayStopsAtAmbiguity'
  BY <1>1 DEF IInv, ReplayStopsAtAmbiguity, Waiting, InRun, Settled, Journal
<1>6. StopTakesOver'
  BY <1>1 DEF IInv, StopTakesOver, ActorServesTurn, TurnIsOpen, Open, InRun
<1> QED
  BY <1>2, <1>3, <1>4, <1>5, <1>6 DEF IInv

\* requestStop: a stop takes the actor over.
LEMMA requestStop_Keeps == ASSUME TurnBounds, IInv, requestStop PROVE IInv'
<1>1. /\ pc = "idle" /\ pc' = "stop" /\ actor.status # "none" /\ cont.turn > 0
      /\ actor' \in ActorType /\ actor'.op = actor.op /\ actor'.status = "cancelling"
      /\ UNCHANGED <<cont, slots, run, cursor, card, boot, effects, confirmed, crashes>>
  BY DEF requestStop, Goto, observed, IInv, TypeOK, ActorType, TurnIsOpen, Open
<1>2. TypeOK'
  BY <1>1 DEF IInv, TypeOK
<1>3. ActorServesTurn' /\ TurnIsOpen'
  BY <1>1 DEF IInv, ActorServesTurn, TurnIsOpen, Open, InRun
<1>4. EffectsAreJournalled' /\ RetriesAreGranted'
  BY <1>1 DEF IInv, EffectsAreJournalled, RetriesAreGranted, Op, Journal,
     Current
<1>5. ReplayStopsAtAmbiguity'
  BY <1>1 DEF IInv, ReplayStopsAtAmbiguity, Waiting, InRun, Settled, Journal
<1>6. StopTakesOver'
  BY <1>1 DEF IInv, StopTakesOver, ActorServesTurn, TurnIsOpen, Open, InRun
<1> QED
  BY <1>2, <1>3, <1>4, <1>5, <1>6 DEF IInv

\* beginCancellation: a cancellation keeps the operation it is about.
LEMMA beginCancellation_Keeps == ASSUME TurnBounds, IInv, beginCancellation PROVE IInv'
<1>1. /\ pc = "stop" /\ cont.phase \in {"active", "paused"} /\ actor.status = "cancelling"
      /\ cont' \in ContType /\ cont'.phase = "cancelling" /\ cont'.turn = cont.turn /\ cont'.op = cont.op
      /\ cont'.cancelled = cont.cancelled
      /\ UNCHANGED <<actor, slots, run, pc, cursor, card, boot, effects, confirmed, crashes>>
  BY SetPhaseWrites DEF beginCancellation, memory, observed, IInv, TurnIsOpen
<1>2. cont.op # NoOp
  BY <1>1 DEF IInv, ReplayStopsAtAmbiguity, Waiting
<1>3. ~cont'.cancelled
  BY <1>1 DEF IInv, TypeOK
<1>4. TypeOK'
  BY <1>1, <1>2, <1>3 DEF IInv, TypeOK
<1>5. ActorServesTurn' /\ TurnIsOpen'
  BY <1>1, <1>2, <1>3 DEF IInv, ActorServesTurn, TurnIsOpen, Open, InRun
<1>6. EffectsAreJournalled' /\ RetriesAreGranted'
  BY <1>1, <1>2, <1>3 DEF IInv, EffectsAreJournalled, RetriesAreGranted, Op, Journal,
     Current
<1>7. ReplayStopsAtAmbiguity'
  BY <1>1, <1>2, <1>3 DEF IInv, ReplayStopsAtAmbiguity, Waiting, InRun, Settled, Journal
<1>8. StopTakesOver'
  BY <1>1, <1>2, <1>3 DEF IInv, StopTakesOver, ActorServesTurn, TurnIsOpen, Open, InRun
<1> QED
  BY <1>4, <1>5, <1>6, <1>7, <1>8 DEF IInv

\* finishActorCancellation: the actor ends in a cancelling parent.
LEMMA finishActorCancellation_Keeps == ASSUME TurnBounds, IInv, finishActorCancellation PROVE IInv'
<1>1. /\ pc = "stop" /\ cont.phase = "cancelling"
      /\ actor'.status = "none" /\ actor' \in ActorType
      /\ UNCHANGED <<cont, slots, run, pc, cursor, card, boot, effects, confirmed, crashes>>
  BY DEF finishActorCancellation, memory, observed, NoActor, ActorType
<1>2. TypeOK'
  BY <1>1 DEF IInv, TypeOK
<1>3. ActorServesTurn' /\ TurnIsOpen'
  BY <1>1 DEF IInv, ActorServesTurn, TurnIsOpen, Open, InRun
<1>4. EffectsAreJournalled' /\ RetriesAreGranted'
  BY <1>1 DEF IInv, EffectsAreJournalled, RetriesAreGranted, Op, Journal,
     Current
<1>5. ReplayStopsAtAmbiguity'
  BY <1>1 DEF IInv, ReplayStopsAtAmbiguity, Waiting, InRun, Settled, Journal
<1>6. StopTakesOver'
  BY <1>1 DEF IInv, StopTakesOver, ActorServesTurn, TurnIsOpen, Open, InRun
<1> QED
  BY <1>2, <1>3, <1>4, <1>5, <1>6 DEF IInv

\* finishCancellation: a cancelled parent has no actor.
LEMMA finishCancellation_Keeps == ASSUME TurnBounds, IInv, finishCancellation PROVE IInv'
<1>1. /\ pc = "stop" /\ cont.phase = "cancelling" /\ actor.status = "none"
      /\ cont' \in ContType /\ cont'.phase = "terminal" /\ cont'.turn = cont.turn /\ cont'.op = cont.op
      /\ UNCHANGED <<actor, slots, run, pc, cursor, card, boot, effects, confirmed, crashes>>
  BY CancelWrites DEF finishCancellation, memory, observed, IInv
<1>2. TypeOK'
  BY <1>1 DEF IInv, TypeOK
<1>3. ActorServesTurn' /\ TurnIsOpen'
  BY <1>1 DEF IInv, ActorServesTurn, TurnIsOpen, Open, InRun
<1>4. EffectsAreJournalled' /\ RetriesAreGranted'
  BY <1>1 DEF IInv, EffectsAreJournalled, RetriesAreGranted, Op, Journal,
     Current
<1>5. ReplayStopsAtAmbiguity'
  BY <1>1 DEF IInv, ReplayStopsAtAmbiguity, Waiting, InRun, Settled, Journal
<1>6. StopTakesOver'
  BY <1>1 DEF IInv, StopTakesOver, ActorServesTurn, TurnIsOpen, Open, InRun
<1> QED
  BY <1>2, <1>3, <1>4, <1>5, <1>6 DEF IInv

\* retireCancelledRun: the cancelled run leaves the registry.
LEMMA retireCancelledRun_Keeps == ASSUME TurnBounds, IInv, retireCancelledRun PROVE IInv'
<1>1. card' \in BOOLEAN /\ boot' \in BOOLEAN
  BY Zenon DEF retireCancelledRun, IInv, TypeOK
<1>2. /\ pc = "stop" /\ pc' = "idle" /\ boot' = FALSE /\ run' = "retired" /\ cont.phase = "terminal"
      /\ UNCHANGED <<cont, actor, slots, cursor, card, effects, confirmed, crashes>>
  BY DEF retireCancelledRun, observed
<1>3. TypeOK'
  BY <1>1, <1>2 DEF IInv, TypeOK
<1>4. ActorServesTurn' /\ TurnIsOpen'
  BY <1>2 DEF IInv, ActorServesTurn, TurnIsOpen, Open, InRun
<1>5. EffectsAreJournalled' /\ RetriesAreGranted'
  BY <1>2 DEF IInv, EffectsAreJournalled, RetriesAreGranted, Op, Journal,
     Current
<1>6. ReplayStopsAtAmbiguity'
  BY <1>2 DEF IInv, ReplayStopsAtAmbiguity, Waiting, InRun, Settled, Journal
<1>7. StopTakesOver'
  BY <1>2 DEF IInv, StopTakesOver, ActorServesTurn, TurnIsOpen, Open, InRun
<1> QED
  BY <1>3, <1>4, <1>5, <1>6, <1>7 DEF IInv

\* bootIdle: a process without a run opens for turns.
LEMMA bootIdle_Keeps == ASSUME TurnBounds, IInv, bootIdle PROVE IInv'
<1>1. card' \in BOOLEAN /\ boot' \in BOOLEAN
  BY Zenon DEF bootIdle, IInv, TypeOK
<1>2. /\ pc = "down" /\ pc' = "idle" /\ cursor' = 1 /\ card' = FALSE /\ boot' = FALSE
      /\ run # "active"
      /\ UNCHANGED <<cont, actor, slots, run, effects, confirmed, crashes>>
  BY DEF bootIdle, Boot, durable, observed
<1>3. TypeOK'
  BY <1>1, <1>2 DEF IInv, TypeOK
<1>4. ActorServesTurn' /\ TurnIsOpen'
  BY <1>2 DEF IInv, ActorServesTurn, TurnIsOpen, Open, InRun
<1>5. EffectsAreJournalled' /\ RetriesAreGranted'
  BY <1>2 DEF IInv, EffectsAreJournalled, RetriesAreGranted, Op, Journal,
     Current
<1>6. ReplayStopsAtAmbiguity'
  BY <1>2 DEF IInv, ReplayStopsAtAmbiguity, Waiting, InRun, Settled, Journal
<1>7. StopTakesOver'
  BY <1>2 DEF IInv, StopTakesOver, ActorServesTurn, TurnIsOpen, Open, InRun
<1> QED
  BY <1>3, <1>4, <1>5, <1>6, <1>7 DEF IInv

\* bootStop: startup goes on with a stop.
LEMMA bootStop_Keeps == ASSUME TurnBounds, IInv, bootStop PROVE IInv'
<1>1. card' \in BOOLEAN /\ boot' \in BOOLEAN
  BY Zenon DEF bootStop, IInv, TypeOK
<1>2. /\ pc = "down" /\ pc' = "stop" /\ cursor' = 1 /\ card' = FALSE /\ boot' = TRUE
      /\ \/ actor.status = "cancelling" /\ cont.turn > 0
         \/ cont.phase = "terminal" /\ cont.turn > 0
      /\ UNCHANGED <<cont, actor, slots, run, effects, confirmed, crashes>>
  BY DEF bootStop, Boot, Recovered, durable, observed, IInv, TurnIsOpen
<1>3. TypeOK'
  BY <1>1, <1>2 DEF IInv, TypeOK
<1>4. ActorServesTurn' /\ TurnIsOpen'
  BY <1>2 DEF IInv, ActorServesTurn, TurnIsOpen, Open, InRun
<1>5. EffectsAreJournalled' /\ RetriesAreGranted'
  BY <1>2 DEF IInv, EffectsAreJournalled, RetriesAreGranted, Op, Journal,
     Current
<1>6. ReplayStopsAtAmbiguity'
  BY <1>2 DEF IInv, ReplayStopsAtAmbiguity, Waiting, InRun, Settled, Journal
<1>7. StopTakesOver'
  BY <1>2 DEF IInv, StopTakesOver, ActorServesTurn, TurnIsOpen, Open, InRun
<1> QED
  BY <1>3, <1>4, <1>5, <1>6, <1>7 DEF IInv

\* bootCard: startup asks again.
LEMMA bootCard_Keeps == ASSUME TurnBounds, IInv, bootCard PROVE IInv'
<1>1. card' \in BOOLEAN /\ boot' \in BOOLEAN
  BY Zenon DEF bootCard, IInv, TypeOK
<1>2. /\ pc = "down" /\ pc' = "card" /\ cursor' = 1 /\ card' = TRUE /\ boot' = TRUE
      /\ actor.status \in {"asked", "shown"} /\ Open /\ cont.turn > 0
      /\ actor' \in ActorType /\ actor'.op = actor.op /\ actor'.status = "asked"
      /\ UNCHANGED <<cont, slots, run, effects, confirmed, crashes>>
  BY DEF bootCard, Boot, Recovered, observed, IInv, TypeOK, TurnIsOpen, ActorType
<1>3. TypeOK'
  BY <1>1, <1>2 DEF IInv, TypeOK
<1>4. ActorServesTurn' /\ TurnIsOpen'
  BY <1>2 DEF IInv, ActorServesTurn, TurnIsOpen, Open, InRun
<1>5. EffectsAreJournalled' /\ RetriesAreGranted'
  BY <1>2 DEF IInv, EffectsAreJournalled, RetriesAreGranted, Op, Journal,
     Current
<1>6. ReplayStopsAtAmbiguity'
  BY <1>2 DEF IInv, ReplayStopsAtAmbiguity, Waiting, InRun, Settled, Journal
<1>7. StopTakesOver'
  BY <1>2 DEF IInv, StopTakesOver, ActorServesTurn, TurnIsOpen, Open, InRun
<1> QED
  BY <1>3, <1>4, <1>5, <1>6, <1>7 DEF IInv

\* bootReplay: a replay starts before the operation its turn waits at.
LEMMA bootReplay_Keeps == ASSUME TurnBounds, IInv, bootReplay PROVE IInv'
<1>1. card' \in BOOLEAN /\ boot' \in BOOLEAN
  BY Zenon DEF bootReplay, IInv, TypeOK
<1>2. /\ pc = "down" /\ pc' = "operation" /\ cursor' = 1 /\ card' = FALSE /\ boot' = TRUE
      /\ run = "active" /\ Open /\ cont.turn > 0
      /\ UNCHANGED <<cont, actor, slots, run, effects, confirmed, crashes>>
  BY DEF bootReplay, Boot, Recovered, durable, observed, IInv, TurnIsOpen
<1>3. Waiting => cont.op.slot >= 1
  BY <1>2 DEF IInv, TypeOK, ContType, ReplayStopsAtAmbiguity, Ops, NoOp
<1>4. TypeOK'
  BY <1>1, <1>2, <1>3 DEF IInv, TypeOK
<1>5. ActorServesTurn' /\ TurnIsOpen'
  BY <1>2, <1>3 DEF IInv, ActorServesTurn, TurnIsOpen, Open, InRun
<1>6. EffectsAreJournalled' /\ RetriesAreGranted'
  BY <1>2, <1>3 DEF IInv, EffectsAreJournalled, RetriesAreGranted, Op, Journal,
     Current
<1>7. ReplayStopsAtAmbiguity'
  <2>1. \A s \in 1..N : ~(s < cursor')
    BY <1>2
  <2>2. /\ Waiting' <=> Waiting
        /\ \A s \in 1..N : Settled(s)' <=> Settled(s)
        /\ Journal(cont.op)' = Journal(cont.op)
    BY <1>2 DEF Waiting, Settled, Journal
  <2>3. Waiting => cursor' <= cont.op.slot
    BY <1>2, <1>3
  <2>4. ASSUME Waiting
        PROVE  /\ cont.op # NoOp
               /\ \A s \in 1..N : s < cont.op.slot => Settled(s)
               /\ slots[cont.op.slot].resolution = "none" =>
                    /\ slots[cont.op.slot].attempt = cont.op.attempt
                    /\ Journal(cont.op) = "prepared" /\ cont.phase # "active"
    BY <2>4 DEF IInv, ReplayStopsAtAmbiguity
  <2> HIDE DEF Waiting, Settled, Journal, NoOp
  <2> QED
    BY <1>2, <2>1, <2>2, <2>3, <2>4 DEF ReplayStopsAtAmbiguity
<1>8. StopTakesOver'
  BY <1>2, <1>3 DEF IInv, StopTakesOver, ActorServesTurn, TurnIsOpen, Open, InRun
<1> QED
  BY <1>4, <1>5, <1>6, <1>7, <1>8 DEF IInv

\* crash: a crash forgets the process and keeps what is durable.
LEMMA crash_Keeps == ASSUME TurnBounds, IInv, crash PROVE IInv'
<1>1. card' \in BOOLEAN /\ boot' \in BOOLEAN
  BY Zenon DEF crash
<1>2. /\ pc' = "down" /\ card' = FALSE /\ boot' = FALSE /\ crashes' \in 0..MaxCrashes
      /\ UNCHANGED <<cont, actor, slots, run, cursor, effects, confirmed>>
  BY TurnBounds DEF crash, durable, observed, IInv, TypeOK, TurnBounds
<1>3. TypeOK'
  BY <1>1, <1>2 DEF IInv, TypeOK
<1>4. ActorServesTurn' /\ TurnIsOpen'
  BY <1>2 DEF IInv, ActorServesTurn, TurnIsOpen, Open, InRun
<1>5. EffectsAreJournalled' /\ RetriesAreGranted'
  BY <1>2 DEF IInv, EffectsAreJournalled, RetriesAreGranted, Op, Journal,
     Current
<1>6. ReplayStopsAtAmbiguity'
  BY <1>2 DEF IInv, ReplayStopsAtAmbiguity, Waiting, InRun, Settled, Journal
<1>7. StopTakesOver'
  BY <1>2 DEF IInv, StopTakesOver, ActorServesTurn, TurnIsOpen, Open, InRun
<1> QED
  BY <1>3, <1>4, <1>5, <1>6, <1>7 DEF IInv
-----------------------------------------------------------------------------
(* The theorems. *)

\* IInv is inductive: every step of the process, the operator and the machine
\* keeps it.
LEMMA Induction == ASSUME TurnBounds, IInv, [Next]_vars PROVE IInv'
<1>1. CASE UNCHANGED vars
  <2>1. UNCHANGED <<cont, actor, slots, run, pc, cursor, card, boot, effects, confirmed, crashes>>
    BY <1>1 DEF vars, durable, memory, observed
  <2>2. TypeOK'
    BY <2>1 DEF IInv, TypeOK
  <2>3. ActorServesTurn' /\ TurnIsOpen' /\ StopTakesOver'
    BY <2>1 DEF IInv, ActorServesTurn, TurnIsOpen, StopTakesOver, Open
  <2>4. EffectsAreJournalled' /\ RetriesAreGranted'
    BY <2>1 DEF IInv, EffectsAreJournalled, RetriesAreGranted, Op, Journal, Current
  <2>5. ReplayStopsAtAmbiguity'
    BY <2>1 DEF IInv, ReplayStopsAtAmbiguity, Waiting, Settled, Journal
  <2> QED
    BY <2>2, <2>3, <2>4, <2>5 DEF IInv
<1>2. CASE Step
  BY <1>2, retireParent_Keeps, retireFailedTurn_Keeps, replaySettled_Keeps, replayStopped_Keeps,
     replayAmbiguous_Keeps, prepare_Keeps, start_Keeps, settle_Keeps, settleStopped_Keeps,
     unsettled_Keeps, endRun_Keeps, pause_Keeps, retireManual_Keeps, endManual_Keeps, ask_Keeps,
     resolveAmbiguity_Keeps, ambiguityRefused_Keeps, resolve_Keeps, resumeParent_Keeps,
     finishActor_Keeps, alreadyApplied_Keeps, applicationRefused_Keeps, deliverCard_Keeps,
     failInterrupted_Keeps, requestResume_Keeps, beginCancellation_Keeps,
     finishActorCancellation_Keeps, finishCancellation_Keeps, retireCancelledRun_Keeps,
     bootIdle_Keeps, bootStop_Keeps, bootCard_Keeps, bootReplay_Keeps, Zenon DEF Step
<1>3. CASE capture \/ dispatch \/ answerExpired \/ requestStop \/ crash
  BY <1>3, capture_Keeps, dispatch_Keeps, answerExpired_Keeps, requestStop_Keeps, crash_Keeps, Zenon
<1>4. CASE answer(TRUE) \/ answer(FALSE)
  BY <1>4, answer_Keeps, Zenon
<1> QED
  BY <1>1, <1>2, <1>3, <1>4 DEF Next

\* The initial state has no turn.
LEMMA Initially == ASSUME TurnBounds, Init PROVE IInv
<1>1. cont.phase = "missing" /\ cont.turn = 0 /\ cont.op = NoOp /\ actor.status = "none"
      /\ pc = "down" /\ run = "none"
  BY DEF Init, NoActor
<1>2. card = FALSE /\ card \in BOOLEAN /\ boot \in BOOLEAN
  BY Zenon DEF Init
<1>3. cont.cancelled = FALSE /\ cont.cancelled \in BOOLEAN
  BY Zenon DEF Init
<1>4. cont \in ContType
  BY <1>3, TurnBounds DEF Init, ContType, TurnBounds
<1>5. actor \in ActorType
  BY DEF Init, NoActor, ActorType
<1>6. slots \in [1..N -> SlotType] /\ \A s \in 1..N : slots[s].attempt = 1
  BY DEF Init, FreshSlots, SlotType
<1>7. effects \in [1..N -> [1..2 -> Nat]] /\ \A s \in 1..N, a \in 1..2 : effects[s][a] = 0
  BY DEF Init, NoEffects
<1>8. cursor \in 1..(N + 1) /\ crashes \in 0..MaxCrashes /\ confirmed \subseteq Ops
  BY TurnBounds DEF Init, TurnBounds
<1>9. TypeOK
  BY <1>1, <1>2, <1>3, <1>4, <1>5, <1>6, <1>7, <1>8 DEF TypeOK
<1>10. ActorServesTurn /\ StopTakesOver /\ TurnIsOpen /\ ReplayStopsAtAmbiguity
  BY <1>1, <1>2 DEF ActorServesTurn, StopTakesOver, TurnIsOpen, ReplayStopsAtAmbiguity, Waiting, InRun,
     Open
<1>11. EffectsAreJournalled /\ RetriesAreGranted
  <2>1. \A s \in 1..N : effects[s][2] = 0
    BY <1>7
  <2> QED
    BY <1>1, <1>6, <1>7, <2>1 DEF EffectsAreJournalled, RetriesAreGranted
<1> QED
  BY <1>9, <1>10, <1>11 DEF IInv

\* The inductive invariant holds in every state of every behaviour.
THEOREM Invariance == Spec => []IInv
<1>1. Init => IInv
  BY Initially, TurnBounds
<1>2. IInv /\ [Next]_vars => IInv'
  BY Induction, TurnBounds
<1> QED
  BY <1>1, <1>2, PTL DEF Spec

\* Every variable keeps its type, and the continuation's record is always one
\* that load accepts.
THEOREM TypeCorrect == Spec => []TypeOK
<1>1. IInv => TypeOK
  BY DEF IInv
<1> QED
  BY <1>1, Invariance, PTL

\* No attempt of an operation is started twice, whatever crashes, replays and
\* stops come between: runOperation starts an effect from a fresh journal entry.
THEOREM StartsOnce == Spec => []EffectStartsOnce
<1>1. IInv => EffectStartsOnce
  BY DEF IInv, EffectsAreJournalled, EffectStartsOnce
<1> QED
  BY <1>1, Invariance, PTL

\* A second attempt runs after the operator confirmed the retry of this very
\* operation, and a mutation has none.
THEOREM RetriesAreConfirmed == Spec => []RetryWasConfirmed
<1>1. IInv => RetryWasConfirmed
  BY DEF IInv, RetriesAreGranted, RetryWasConfirmed
<1> QED
  BY <1>1, Invariance, PTL

\* A question to the operator is about the operation its open turn is paused at.
THEOREM ActorsServeTheirTurn == Spec => []ActorServesTurn
<1>1. IInv => ActorServesTurn
  BY DEF IInv
<1> QED
  BY <1>1, Invariance, PTL

\* An effect starts in an active turn whose decisions are all consumed.
THEOREM EffectsNeedAnActiveTurn == Spec => EffectsStartInActiveTurn
<1>1. IInv /\ [Next]_vars =>
        [pc = "prepared" /\ pc' = "io" => cont.phase = "active" /\ actor.status = "none"]_vars
  BY DEF IInv, TurnIsOpen
<1> QED
  BY <1>1, Invariance, PTL DEF Spec, EffectsStartInActiveTurn

\* A step of a turn that is being stopped neither confirms nor starts
\* anything, and leaves the turn stopped.
LEMMA StoppingStep ==
  ASSUME TurnBounds, IInv, Next, Stopping
  PROVE  observed' = observed /\ cont'.phase # "active" /\ actor'.status \in {"cancelling", "none"}
<1>1. /\ Open /\ cont.phase # "active" /\ actor.status \in {"cancelling", "none"}
      /\ pc \notin {"turn", "ended", "lookup", "prepared", "io", "resolve"}
      /\ pc = "idle" => cont.phase \notin {"missing", "terminal"}
  BY DEF IInv, ActorServesTurn, StopTakesOver, TurnIsOpen, RetriesAreGranted, Stopping, Open
<1>2. cont \in ContType /\ actor \in ActorType /\ ~card
  BY <1>1 DEF IInv, TypeOK, TurnIsOpen
<1>3. ~Decided /\ actor.status # "shown" /\ actor.status # "claimed"
  BY <1>1 DEF Decided
<1>4. ~capture /\ ~start /\ ~answer(TRUE) /\ ~answer(FALSE) /\ ~answerExpired /\ ~deliverCard
  BY <1>1, <1>2, <1>3 DEF capture, start, answer, answerExpired, deliverCard
<1>5. /\ ~retireParent /\ ~retireFailedTurn /\ ~dispatch /\ ~ask /\ ~resolveAmbiguity /\ ~resolve
      /\ ~resumeParent /\ ~finishActor /\ ~pause /\ ~bootCard
  <2>1. ~retireParent /\ ~retireFailedTurn /\ ~dispatch /\ ~resolve /\ ~finishActor /\ ~pause
    BY <1>1 DEF retireParent, retireFailedTurn, dispatch, resolve, finishActor, pause
  <2>2. ~resolveAmbiguity /\ ~resumeParent /\ ~bootCard
    BY <1>1 DEF resolveAmbiguity, resumeParent, Carried, bootCard
  <2>3. ~ask
    BY <1>1 DEF ask, PausedHere, Stopping
  <2> QED
    BY <2>1, <2>2, <2>3
<1>6. CASE \/ replaySettled \/ replayStopped \/ replayAmbiguous \/ prepare \/ settle \/ settleStopped
           \/ unsettled \/ endRun \/ endManual \/ ambiguityRefused \/ alreadyApplied
           \/ applicationRefused \/ failInterrupted \/ requestResume \/ retireCancelledRun
           \/ bootIdle \/ bootStop \/ bootReplay \/ crash
  <2>1. UNCHANGED <<cont, actor, observed>>
    BY <1>6 DEF replaySettled, replayStopped, replayAmbiguous, prepare, settle, settleStopped,
       unsettled, endRun, endManual, ambiguityRefused, alreadyApplied, applicationRefused,
       failInterrupted, requestResume, retireCancelledRun, bootIdle, bootStop, bootReplay, crash,
       durable
  <2> QED
    BY <1>1, <2>1
<1>7. CASE retireManual
  BY <1>1, <1>7, RetiredWrites DEF retireManual, IInv
<1>8. CASE beginCancellation
  BY <1>1, <1>8, SetPhaseWrites DEF beginCancellation, IInv
<1>9. CASE finishCancellation
  BY <1>1, <1>9, CancelWrites DEF finishCancellation, IInv
<1>10. CASE finishActorCancellation
  BY <1>1, <1>10 DEF finishActorCancellation, NoActor
<1>11. CASE requestStop
  BY <1>1, <1>2, <1>11 DEF requestStop, ActorType
<1> QED
  BY <1>4, <1>5, <1>6, <1>7, <1>8, <1>9, <1>10, <1>11, Zenon DEF Next, Step

\* From the moment /stop wins, requestStop and its cancellation, nothing is
\* started or confirmed and the turn is never active again.
THEOREM StopAlwaysWins == Spec => StopWins
<1>1. IInv /\ [Next]_vars =>
        [Stopping => /\ observed' = observed /\ cont'.phase # "active"
                     /\ actor'.status \in {"cancelling", "none"}]_vars
  BY StoppingStep, TurnBounds, Zenon
<1> QED
  BY <1>1, Invariance, PTL DEF Spec, StopWins

\* All of TurnIsConsistent, in every state a crash can leave behind.
THEOREM TurnStaysConsistent == Spec => []TurnIsConsistent
BY TypeCorrect, StartsOnce, RetriesAreConfirmed, ActorsServeTheirTurn, PTL DEF TurnIsConsistent

\* All of EffectsNeedALiveTurn: effects wait for an active turn, stops are final.
THEOREM EffectsAreLive == Spec => EffectsNeedALiveTurn
BY EffectsNeedAnActiveTurn, StopAlwaysWins, PTL DEF EffectsNeedALiveTurn
=============================================================================
