------------------------ MODULE SemanticEgressOutbox ------------------------
(***************************************************************************)
(* The delivery of the consent store's outbox to its sink                  *)
(* (semantic-egress-outbox-worker.ts, readOutbox and ackOutboxHead of the  *)
(* store).  Workers in one process share one pass over a store.  The sink  *)
(* is external: it accepts an event once and calls a repeated one a        *)
(* duplicate.  A delivery whose timer fired may still arrive.              *)
(***************************************************************************)
EXTENDS Integers, Sequences, FiniteSets

CONSTANTS Workers, BatchSize, MaxEvents, MaxCrashes, MaxLate

\* The worker refuses a batch size below one (createSemanticEgressOutboxWorker).
ASSUME BatchAssumption == BatchSize \in Nat \ {0}

VARIABLES
    appended,   \* rows of semantic_egress_outbox, by sequence number 1..appended
    acked,      \* their acked flags
    accepted,   \* the sink's events, in the order it accepted them
    pass,       \* ACTIVE_OUTBOX_PASSES: the pass over this store, or none
    stopped,    \* the workers that were stopped
    late,       \* deliveries the worker gave up on, that may still arrive
    outCrashes

outboxVars == <<appended, acked, accepted, pass, stopped, late, outCrashes>>

NoPass == [owner |-> "none", at |-> "idle", batch |-> <<>>, aborted |-> FALSE]

OutboxInit ==
    /\ appended = 0 /\ acked = {} /\ accepted = <<>>
    /\ pass = NoPass /\ stopped = {} /\ late = {} /\ outCrashes = 0

Unacked == (1..appended) \ acked
HeadOf(S) == CHOOSE e \in S : \A f \in S : e <= f

\* readOutbox: the unacknowledged rows in sequence order, at most BatchSize of them.
Batch ==
    LET n == IF Cardinality(Unacked) < BatchSize THEN Cardinality(Unacked) ELSE BatchSize
        Nth(i) == CHOOSE e \in Unacked : Cardinality({f \in Unacked : f <= e}) = i
    IN [i \in 1..n |-> Nth(i)]

\* A transition of the authority stores its event in the same transaction.
storeOutboxEvent ==
    /\ appended < MaxEvents
    /\ appended' = appended + 1
    /\ UNCHANGED <<acked, accepted, pass, stopped, late, outCrashes>>

\* run: a pass in progress is joined, which changes nothing.
run(w) ==
    /\ w \notin stopped /\ pass = NoPass
    /\ pass' = [NoPass EXCEPT !.owner = w, !.at = "read"]
    /\ UNCHANGED <<appended, acked, accepted, stopped, late, outCrashes>>

\* stop, or the abort of the owner's signal: only the owner's pass is aborted.
stop(w) ==
    /\ w \notin stopped
    /\ stopped' = stopped \cup {w}
    /\ pass' = IF pass.owner = w THEN [pass EXCEPT !.aborted = TRUE] ELSE pass
    /\ UNCHANGED <<appended, acked, accepted, late, outCrashes>>

EndPass == pass' = NoPass

readOutbox ==
    /\ pass.at = "read"
    /\ IF pass.aborted \/ Unacked = {} THEN EndPass
       ELSE pass' = [pass EXCEPT !.at = "deliver", !.batch = Batch]
    /\ UNCHANGED <<appended, acked, accepted, stopped, late, outCrashes>>

\* The read fails or times out.
readFails ==
    /\ pass.at = "read" /\ EndPass
    /\ UNCHANGED <<appended, acked, accepted, stopped, late, outCrashes>>

Accept(e) == accepted' = IF \E i \in 1..Len(accepted) : accepted[i] = e THEN accepted ELSE Append(accepted, e)

\* The sink answers accepted or duplicate-exact in time.
deliver ==
    /\ pass.at = "deliver" /\ ~pass.aborted
    /\ Accept(Head(pass.batch))
    /\ pass' = [pass EXCEPT !.at = "ack"]
    /\ UNCHANGED <<appended, acked, stopped, late, outCrashes>>

\* The delivery fails, or its timer or the abort comes first: the pass ends, and the sink may see
\* the event later or never.
deliverFails(arrives) ==
    /\ pass.at = "deliver"
    /\ arrives => Cardinality(late) < MaxLate
    /\ late' = IF arrives THEN late \cup {Head(pass.batch)} ELSE late
    /\ EndPass
    /\ UNCHANGED <<appended, acked, accepted, stopped, outCrashes>>

LateDelivery(e) ==
    /\ e \in late
    /\ late' = late \ {e}
    /\ Accept(e)
    /\ UNCHANGED <<appended, acked, pass, stopped, outCrashes>>

\* Mutant: the event after the acknowledged one is acknowledged with it.
ackUpTo(e) == acked \cup {e} \cup (1..(e + 1) \cap 1..appended)

\* ackHeadTransaction acknowledges the head of the outbox, and no other event.
ackOutboxHead(e) ==
    IF e \in acked THEN acked
    ELSE IF e = HeadOf(Unacked) THEN acked \cup {e} ELSE acked

acknowledge ==
    LET e == Head(pass.batch)
        after == ackOutboxHead(e)
    IN
    /\ pass.at = "ack"
    /\ IF pass.aborted THEN EndPass /\ UNCHANGED acked
       ELSE /\ acked' = after
            /\ IF e \in after /\ Len(pass.batch) > 1
               THEN pass' = [pass EXCEPT !.at = "deliver", !.batch = Tail(@)]
               ELSE EndPass
    /\ UNCHANGED <<appended, accepted, stopped, late, outCrashes>>

\* The acknowledgement fails or times out; a timed-out one may have been stored.
ackFails(stored) ==
    /\ pass.at = "ack"
    /\ acked' = IF stored THEN ackOutboxHead(Head(pass.batch)) ELSE acked
    /\ EndPass
    /\ UNCHANGED <<appended, accepted, stopped, late, outCrashes>>

\* The process dies and its workers are started anew; a delivery on its way may still arrive.
OutboxCrash ==
    /\ outCrashes < MaxCrashes
    /\ outCrashes' = outCrashes + 1
    /\ pass' = NoPass /\ stopped' = {}
    /\ UNCHANGED <<appended, acked, accepted, late>>

OutboxNext ==
    \/ storeOutboxEvent
    \/ \E w \in Workers : run(w) \/ stop(w)
    \/ readOutbox \/ readFails \/ deliver \/ acknowledge
    \/ \E b \in BOOLEAN : deliverFails(b) \/ ackFails(b)
    \/ \E e \in late : LateDelivery(e)
    \/ OutboxCrash

OutboxSpec == OutboxInit /\ [][OutboxNext]_outboxVars

(* The sink learns every event, once each and in the order the store wrote *)
(* them, and an acknowledged event is one the sink has: whatever is        *)
(* retried, cut off or delivered late (runOnce, ackHeadTransaction).       *)
SinkFollowsOutbox ==
    /\ accepted = [i \in 1..Len(accepted) |-> i]
    /\ \A e \in acked : e <= Len(accepted)
    /\ acked \subseteq 1..appended
=============================================================================
