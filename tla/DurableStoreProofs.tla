------------------------- MODULE DurableStoreProofs -------------------------
(***************************************************************************)
(* Proofs about two durable stores: the outbox of the egress events, whose *)
(* rows are only appended and acknowledged in order, and the envelope of a *)
(* turn, one row that is compared and replaced.  They share no state; the  *)
(* two parts are independent of each other.                                *)
(***************************************************************************)
EXTENDS SemanticEgressOutbox, DurableExecutionEnvelope, FiniteSetTheorems, TLAPS

(***************************************************************************)
(* Proofs about SemanticEgressOutbox for any number of workers, events,    *)
(* crashes and late deliveries, and any batch size the worker accepts.     *)
(***************************************************************************)

\* A batch that is being delivered: rows of the outbox, one after the other.
IsBatch(b) ==
  /\ b \in Seq(Nat) /\ b # <<>>
  /\ \A i \in 1..Len(b) : b[i] = b[1] + i - 1
  /\ 1 <= b[1] /\ b[1] + Len(b) - 1 <= appended

OutboxTypes ==
  /\ appended \in Nat /\ accepted \in Seq(Nat)
  /\ late \subseteq Nat
  /\ pass \in [owner : Workers \cup {"none"}, at : {"idle", "read", "deliver", "ack"},
               batch : Seq(Nat), aborted : BOOLEAN]

\* The sink holds a prefix of the outbox.
Prefix == Len(accepted) <= appended /\ accepted = [i \in 1..Len(accepted) |-> i]

\* What is acknowledged is a prefix of what the sink holds.
AckedPrefix == \E k \in 0..Len(accepted) : acked = 1..k

\* A delivery on its way, now or late, is of an event the sink has or of the next one.
InFlight ==
  /\ \A e \in late : 1 <= e /\ e <= Len(accepted) + 1 /\ e <= appended
  /\ pass.at \in {"deliver", "ack"} => IsBatch(pass.batch)
  /\ pass.at = "deliver" => pass.batch[1] <= Len(accepted) + 1
  /\ pass.at = "ack" => pass.batch[1] <= Len(accepted)

\* The inductive invariant.
OutboxInv == OutboxTypes /\ Prefix /\ AckedPrefix /\ InFlight

-----------------------------------------------------------------------------
(* The operators. *)

\* The least number of a non-empty interval is its left end.
LEMMA HeadOfInterval ==
  ASSUME NEW k \in Nat, NEW m \in Nat, k < m
  PROVE  HeadOf((k + 1)..m) = k + 1
<1> DEFINE S == (k + 1)..m
<1>1. k + 1 \in S /\ \A f \in S : k + 1 <= f
  OBVIOUS
<1>2. \A e \in S : (\A f \in S : e <= f) => e = k + 1
  BY <1>1
<1> QED
  BY <1>1, <1>2 DEF HeadOf

\* What remains of the outbox after an acknowledged prefix.
LEMMA UnackedInterval ==
  ASSUME NEW k \in Nat, appended \in Nat, acked = 1..k
  PROVE  Unacked = (k + 1)..appended
BY DEF Unacked

\* The i-th unacknowledged row, counted as readOutbox counts, is the one i places further on.
LEMMA CountUpTo ==
  ASSUME NEW k \in Nat, NEW m \in Nat, NEW e \in (k + 1)..m
  PROVE  Cardinality({f \in (k + 1)..m : f <= e}) = e - k
<1>1. {f \in (k + 1)..m : f <= e} = (k + 1)..e
  OBVIOUS
<1>2. Cardinality((k + 1)..e) = e - (k + 1) + 1
  BY FS_Interval
<1>3. e - (k + 1) + 1 = e - k
  OBVIOUS
<1> QED
  BY <1>1, <1>2, <1>3, Zenon

\* readOutbox returns consecutive rows from the first unacknowledged one.
LEMMA BatchIsBatch ==
  ASSUME NEW k \in Nat, appended \in Nat, acked = 1..k, Unacked # {}
  PROVE  IsBatch(Batch) /\ Batch[1] = k + 1
<1> DEFINE m == appended
           n == IF Cardinality(Unacked) < BatchSize THEN Cardinality(Unacked) ELSE BatchSize
           Nth(i) == CHOOSE e \in Unacked : Cardinality({f \in Unacked : f <= e}) = i
<1>1. Unacked = (k + 1)..m /\ k < m
  BY UnackedInterval
<1>2. Cardinality(Unacked) = m - k
  BY <1>1, FS_Interval
<1>3. n \in 1..(m - k)
  BY <1>1, <1>2, BatchAssumption
<1>4. ASSUME NEW i \in 1..n PROVE Nth(i) = k + i
  <2>1. \A e \in Unacked : Cardinality({f \in Unacked : f <= e}) = e - k
    BY <1>1, CountUpTo
  <2>2. k + i \in Unacked
    BY <1>1, <1>3
  <2>3. \A e \in Unacked : Cardinality({f \in Unacked : f <= e}) = i <=> e = k + i
    BY <1>1, <2>1
  <2> QED
    BY <2>2, <2>3
<1>5. Batch = [i \in 1..n |-> Nth(i)]
  BY DEF Batch
<1> HIDE DEF n, Nth
<1>6. Batch = [i \in 1..n |-> k + i]
  BY <1>4, <1>5
<1>7. Batch \in Seq(Nat) /\ Len(Batch) = n /\ \A i \in 1..n : Batch[i] = k + i
  BY <1>3, <1>6
<1> QED
  BY <1>3, <1>7 DEF IsBatch

\* The sink takes an event it has, or the next one, and holds a prefix again.
LEMMA AcceptKeepsPrefix ==
  ASSUME OutboxTypes, Prefix, NEW e \in Nat, 1 <= e, e <= Len(accepted) + 1, e <= appended, Accept(e)
  PROVE  /\ accepted' \in Seq(Nat) /\ Len(accepted') <= appended
         /\ accepted' = [i \in 1..Len(accepted') |-> i]
         /\ Len(accepted) <= Len(accepted') /\ e <= Len(accepted')
<1>1. CASE e <= Len(accepted)
  <2>1. e \in 1..Len(accepted) /\ accepted[e] = e
    BY <1>1 DEF OutboxTypes, Prefix
  <2>2. accepted' = accepted
    BY <2>1 DEF Accept
  <2>3. Len(accepted) \in Nat
    BY DEF OutboxTypes
  <2> QED
    BY <1>1, <2>2, <2>3 DEF OutboxTypes, Prefix
<1>2. CASE e = Len(accepted) + 1
  <2>1. ~ \E i \in 1..Len(accepted) : accepted[i] = e
    BY <1>2 DEF OutboxTypes, Prefix
  <2>2. accepted' = Append(accepted, e)
    BY <2>1 DEF Accept
  <2>3. /\ accepted' \in Seq(Nat) /\ Len(accepted') = Len(accepted) + 1
        /\ \A i \in 1..Len(accepted') : accepted'[i] = i
    BY <1>2, <2>2 DEF OutboxTypes, Prefix
  <2> QED
    BY <1>2, <2>3
<1> QED
  BY <1>1, <1>2 DEF OutboxTypes

\* Acknowledging an event the sink holds leaves an acknowledged prefix of what it holds.
LEMMA AckKeepsPrefix ==
  ASSUME OutboxTypes, Prefix, AckedPrefix, NEW e \in 1..Len(accepted)
  PROVE  \E k \in 0..Len(accepted) : ackOutboxHead(e) = 1..k
<1>1. PICK k \in 0..Len(accepted) : acked = 1..k
  BY DEF AckedPrefix
<1>2. k \in Nat /\ Len(accepted) \in Nat /\ appended \in Nat /\ Len(accepted) <= appended
  BY <1>1 DEF OutboxTypes, Prefix
<1>3. CASE e \in acked
  BY <1>1, <1>3 DEF ackOutboxHead
<1>4. CASE e \notin acked
  <2>1. k < e /\ k < appended
    BY <1>1, <1>2, <1>4
  <2>2. HeadOf(Unacked) = k + 1
    BY <1>1, <1>2, <2>1, UnackedInterval, HeadOfInterval
  <2>3. CASE e = k + 1
    <3>1. ackOutboxHead(e) = acked \cup {e}
      BY <1>4, <2>2, <2>3 DEF ackOutboxHead
    <3>2. acked \cup {e} = 1..(k + 1)
      BY <1>1, <1>2, <2>3
    <3>3. k + 1 \in 0..Len(accepted)
      BY <1>2, <2>3
    <3> QED
      BY <3>1, <3>2, <3>3, Zenon
  <2>4. CASE e # k + 1
    BY <1>1, <1>4, <2>2, <2>4 DEF ackOutboxHead
  <2> QED
    BY <2>3, <2>4
<1> QED
  BY <1>3, <1>4

\* What is left of a batch after its first row is a batch.
LEMMA TailIsBatch ==
  ASSUME appended \in Nat, NEW b, IsBatch(b), Len(b) > 1
  PROVE  IsBatch(Tail(b)) /\ Tail(b)[1] = b[1] + 1
<1>1. /\ Tail(b) \in Seq(Nat) /\ Len(Tail(b)) = Len(b) - 1
      /\ \A i \in 1..(Len(b) - 1) : Tail(b)[i] = b[i + 1]
  BY DEF IsBatch
<1>2. b[2] = b[1] + 1 /\ b[1] \in Nat /\ Len(b) \in Nat
  BY DEF IsBatch
<1>3. \A i \in 1..Len(Tail(b)) : Tail(b)[i] = Tail(b)[1] + i - 1
  BY <1>1, <1>2 DEF IsBatch
<1>4. Tail(b)[1] = b[1] + 1
  BY <1>1, <1>2
<1>5. Len(Tail(b)) # 0 /\ b[1] + 1 + Len(Tail(b)) - 1 <= appended /\ 1 <= b[1] + 1
  <2>1. 1 <= b[1] /\ b[1] + Len(b) - 1 <= appended
    BY Zenon DEF IsBatch
  <2>2. Len(Tail(b)) = Len(b) - 1
    BY <1>1
  <2> QED
    BY <1>2, <2>1, <2>2, SMTT(30)
<1>6. Tail(b) # <<>>
  BY <1>5
<1> QED
  BY <1>1, <1>3, <1>4, <1>5, <1>6 DEF IsBatch

-----------------------------------------------------------------------------
(* The invariant. *)

LEMMA OutboxInitInv == OutboxInit => OutboxInv
<1> SUFFICES ASSUME OutboxInit PROVE OutboxInv
  OBVIOUS
<1>1. OutboxTypes /\ Prefix
  BY DEF OutboxInit, OutboxTypes, Prefix, NoPass
<1>2. AckedPrefix
  <2>1. acked = 1..0 /\ 0 \in 0..Len(accepted)
    BY DEF OutboxInit
  <2> QED
    BY <2>1 DEF AckedPrefix
<1>3. InFlight
  BY DEF OutboxInit, InFlight, NoPass
<1> QED
  BY <1>1, <1>2, <1>3 DEF OutboxInv

LEMMA OutboxNextInv == OutboxInv /\ [OutboxNext]_outboxVars => OutboxInv'
<1> SUFFICES ASSUME OutboxInv, [OutboxNext]_outboxVars PROVE OutboxInv'
  OBVIOUS
<1> USE DEF OutboxInv
<1>n. /\ appended \in Nat /\ Len(accepted) \in Nat
      /\ NoPass.at = "idle" /\ "idle" \notin {"deliver", "ack"}
  BY DEF OutboxTypes, NoPass
<1>1. CASE storeOutboxEvent
  <2>1. appended' = appended + 1 /\ UNCHANGED <<acked, accepted, pass, late>>
    BY <1>1 DEF storeOutboxEvent
  <2>2. OutboxTypes'
    BY <2>1 DEF OutboxTypes
  <2>3. Prefix' /\ AckedPrefix'
    BY <1>n, <2>1 DEF Prefix, AckedPrefix
  <2>4. IsBatch(pass.batch) => IsBatch(pass.batch)'
    <3> SUFFICES ASSUME IsBatch(pass.batch) PROVE IsBatch(pass.batch)'
      OBVIOUS
    <3>1. pass.batch[1] \in Nat /\ Len(pass.batch) \in Nat
      BY DEF IsBatch
    <3>2. pass.batch[1] + Len(pass.batch) - 1 <= appended + 1
      BY <1>n, <3>1 DEF IsBatch
    <3> QED
      BY <2>1, <3>2, Zenon DEF IsBatch
  <2>5. \A e \in late : e \in Nat /\ e <= appended + 1
    BY <1>n DEF OutboxTypes, InFlight
  <2>6. InFlight'
    BY <2>1, <2>4, <2>5, Zenon DEF InFlight
  <2> QED
    BY <2>2, <2>3, <2>6
<1>2. ASSUME NEW w \in Workers, run(w) \/ stop(w) PROVE OutboxInv'
  <2>1. UNCHANGED <<appended, acked, accepted, late>>
    BY <1>2 DEF run, stop
  <2>2. CASE run(w)
    <3>1. pass'.at \notin {"deliver", "ack"} /\ OutboxTypes'
      BY <1>n, <2>1, <2>2 DEF run, NoPass, OutboxTypes
    <3> QED
      BY <2>1, <3>1, Zenon DEF Prefix, AckedPrefix, InFlight
  <2>3. CASE stop(w)
    <3>1. pass'.at = pass.at /\ pass'.batch = pass.batch /\ OutboxTypes'
      BY <2>1, <2>3 DEF stop, OutboxTypes
    <3> QED
      BY <2>1, <3>1 DEF Prefix, AckedPrefix, InFlight, IsBatch
  <2> QED
    BY <1>2, <2>2, <2>3
<1>3. ASSUME pass' = NoPass, UNCHANGED <<appended, acked, accepted, late>> PROVE OutboxInv'
  BY <1>n, <1>3 DEF NoPass, OutboxTypes, Prefix, AckedPrefix, InFlight
<1>4. CASE readOutbox
  <2>1. UNCHANGED <<appended, acked, accepted, late>>
    BY <1>4 DEF readOutbox
  <2>2. CASE pass.aborted \/ Unacked = {}
    BY <1>3, <1>4, <2>1, <2>2 DEF readOutbox, EndPass
  <2>3. CASE ~(pass.aborted \/ Unacked = {})
    <3>1. pass' = [pass EXCEPT !.at = "deliver", !.batch = Batch]
      BY <1>4, <2>3 DEF readOutbox
    <3>2. PICK k \in 0..Len(accepted) : acked = 1..k
      BY DEF AckedPrefix
    <3>3. IsBatch(Batch) /\ Batch[1] = k + 1
      BY <1>n, <2>3, <3>2, BatchIsBatch
    <3>4. pass'.at = "deliver" /\ pass'.batch = Batch /\ OutboxTypes'
      BY <2>1, <3>1, <3>3 DEF OutboxTypes, IsBatch
    <3>5. Batch[1] <= Len(accepted) + 1
      BY <1>n, <3>2, <3>3
    <3> QED
      BY <2>1, <3>3, <3>4, <3>5 DEF Prefix, AckedPrefix, InFlight, IsBatch
  <2> QED
    BY <2>2, <2>3
<1>5. CASE readFails
  BY <1>3, <1>5 DEF readFails, EndPass
<1>6. CASE deliver
  <2> DEFINE e == Head(pass.batch)
  <2>1. /\ e = pass.batch[1] /\ e \in Nat /\ 1 <= e /\ e <= appended /\ e <= Len(accepted) + 1
        /\ IsBatch(pass.batch)
    BY <1>6, <1>n DEF deliver, InFlight, IsBatch
  <2>2. /\ Accept(e) /\ UNCHANGED <<appended, acked, late>>
        /\ pass' = [pass EXCEPT !.at = "ack"]
    BY <1>6 DEF deliver
  <2>3. /\ accepted' \in Seq(Nat) /\ Len(accepted') <= appended
        /\ accepted' = [i \in 1..Len(accepted') |-> i]
        /\ Len(accepted) <= Len(accepted') /\ e <= Len(accepted')
    BY <2>1, <2>2, AcceptKeepsPrefix
  <2> HIDE DEF e
  <2>4. OutboxTypes' /\ Prefix' /\ pass'.at = "ack" /\ pass'.batch = pass.batch
    BY <2>2, <2>3 DEF OutboxTypes, Prefix
  <2>5. AckedPrefix' /\ Len(accepted') \in Nat
    BY <1>n, <2>2, <2>3 DEF AckedPrefix
  <2>6. InFlight'
    BY <1>n, <2>1, <2>2, <2>3, <2>4, <2>5, SMTT(40) DEF InFlight, IsBatch, OutboxTypes
  <2> QED
    BY <2>4, <2>5, <2>6
<1>7. CASE acknowledge
  <2> DEFINE e == Head(pass.batch)
             after == ackOutboxHead(e)
  <2>1. /\ e = pass.batch[1] /\ e \in 1..Len(accepted) /\ IsBatch(pass.batch)
        /\ UNCHANGED <<appended, accepted, late>>
    BY <1>7, <1>n DEF acknowledge, InFlight, IsBatch
  <2>2. CASE pass.aborted
    BY <1>3, <1>7, <2>1, <2>2 DEF acknowledge, EndPass
  <2>3. CASE ~pass.aborted
    <3>1. \E k \in 0..Len(accepted) : after = 1..k
      BY <2>1, AckKeepsPrefix
    <3>2. acked' = after
      BY <1>7, <2>3 DEF acknowledge
    <3>3. AckedPrefix' /\ Prefix'
      BY <2>1, <3>1, <3>2 DEF AckedPrefix, Prefix
    <3>4. CASE e \in after /\ Len(pass.batch) > 1
      <4>1. pass' = [pass EXCEPT !.at = "deliver", !.batch = Tail(pass.batch)]
        BY <1>7, <2>3, <3>4 DEF acknowledge
      <4>2. IsBatch(Tail(pass.batch)) /\ Tail(pass.batch)[1] = e + 1
        BY <1>n, <2>1, <3>4, TailIsBatch
      <4>3. OutboxTypes' /\ pass'.at = "deliver" /\ pass'.batch = Tail(pass.batch)
        BY <2>1, <4>1, <4>2 DEF OutboxTypes, IsBatch
      <4>4. IsBatch(pass.batch)'
        BY <2>1, <4>2, <4>3 DEF IsBatch
      <4>5. e + 1 <= Len(accepted) + 1
        BY <1>n, <2>1
      <4>6. InFlight'
        BY <2>1, <4>2, <4>3, <4>4, <4>5 DEF InFlight
      <4> QED
        BY <3>3, <4>3, <4>6
    <3>5. CASE ~(e \in after /\ Len(pass.batch) > 1)
      <4>1. pass' = NoPass
        BY <1>7, <2>3, <3>5 DEF acknowledge, EndPass
      <4> QED
        BY <1>n, <2>1, <3>3, <4>1 DEF NoPass, OutboxTypes, InFlight
    <3> QED
      BY <3>4, <3>5
  <2> QED
    BY <2>2, <2>3
<1>8. ASSUME NEW b \in BOOLEAN, deliverFails(b) PROVE OutboxInv'
  <2>1. /\ pass.at = "deliver" /\ pass' = NoPass /\ UNCHANGED <<appended, acked, accepted>>
        /\ late' \subseteq late \cup {Head(pass.batch)}
    BY <1>8 DEF deliverFails, EndPass
  <2>2. /\ Head(pass.batch) = pass.batch[1] /\ pass.batch[1] \in Nat /\ 1 <= pass.batch[1]
        /\ pass.batch[1] <= appended /\ pass.batch[1] <= Len(accepted) + 1
    BY <2>1, <1>n DEF InFlight, IsBatch
  <2> QED
    BY <1>n, <2>1, <2>2 DEF NoPass, OutboxTypes, Prefix, AckedPrefix, InFlight
<1>9. ASSUME NEW b \in BOOLEAN, ackFails(b) PROVE OutboxInv'
  <2>1. /\ Head(pass.batch) \in 1..Len(accepted) /\ pass' = NoPass
        /\ UNCHANGED <<appended, accepted, late>>
        /\ acked' = acked \/ acked' = ackOutboxHead(Head(pass.batch))
    BY <1>9, <1>n DEF ackFails, EndPass, InFlight, IsBatch
  <2>2. AckedPrefix'
    BY <2>1, AckKeepsPrefix DEF AckedPrefix
  <2> QED
    BY <1>n, <2>1, <2>2 DEF NoPass, OutboxTypes, Prefix, InFlight
<1>10. ASSUME NEW e \in late, LateDelivery(e) PROVE OutboxInv'
  <2>1. /\ e \in Nat /\ 1 <= e /\ e <= Len(accepted) + 1 /\ e <= appended
        /\ Accept(e) /\ late' = late \ {e} /\ UNCHANGED <<appended, acked, pass>>
    BY <1>10 DEF LateDelivery, InFlight, OutboxTypes
  <2>2. /\ accepted' \in Seq(Nat) /\ Len(accepted') <= appended
        /\ accepted' = [i \in 1..Len(accepted') |-> i]
        /\ Len(accepted) <= Len(accepted')
    BY <2>1, AcceptKeepsPrefix
  <2>3. OutboxTypes' /\ Prefix' /\ Len(accepted') \in Nat
    BY <2>1, <2>2 DEF OutboxTypes, Prefix
  <2>4. AckedPrefix'
    BY <1>n, <2>1, <2>2, <2>3 DEF AckedPrefix
  <2>5. InFlight'
    BY <1>n, <2>1, <2>2, <2>3 DEF InFlight, IsBatch, OutboxTypes
  <2> QED
    BY <2>3, <2>4, <2>5
<1>11. CASE OutboxCrash
  BY <1>3, <1>11 DEF OutboxCrash
<1>12. CASE UNCHANGED outboxVars
  BY <1>12 DEF outboxVars, OutboxTypes, Prefix, AckedPrefix, InFlight, IsBatch
<1> QED
  BY <1>1, <1>2, <1>4, <1>5, <1>6, <1>7, <1>8, <1>9, <1>10, <1>11, <1>12 DEF OutboxNext

LEMMA OutboxInvImplies == OutboxInv => SinkFollowsOutbox
<1> SUFFICES ASSUME OutboxInv PROVE SinkFollowsOutbox
  OBVIOUS
<1>1. PICK k \in 0..Len(accepted) : acked = 1..k
  BY DEF OutboxInv, AckedPrefix
<1>2. Len(accepted) \in Nat /\ appended \in Nat
  BY DEF OutboxInv, OutboxTypes
<1> QED
  BY <1>1, <1>2 DEF OutboxInv, Prefix, SinkFollowsOutbox

\* The sink learns every event once and in the order of the outbox, and an acknowledged event is one
\* the sink has, whatever is retried, cut off or delivered late (runOnce, ackHeadTransaction).
THEOREM SinkFollows == OutboxSpec => []SinkFollowsOutbox
<1>1. OutboxInit => OutboxInv
  BY OutboxInitInv
<1>2. OutboxInv /\ [OutboxNext]_outboxVars => OutboxInv'
  BY OutboxNextInv
<1>3. OutboxInv => SinkFollowsOutbox
  BY OutboxInvImplies
<1> QED
  BY <1>1, <1>2, <1>3, PTL DEF OutboxSpec

\* No acknowledgement is taken back and no event is taken from the sink or reordered there: the
\* outbox's consumers may rely on what they have seen.
THEOREM DeliveryIsFinal ==
  OutboxSpec => [][/\ acked \subseteq acked'
                   /\ Len(accepted) <= Len(accepted')
                   /\ \A i \in 1..Len(accepted) : accepted'[i] = accepted[i]]_outboxVars
<1> DEFINE Final == /\ acked \subseteq acked'
                    /\ Len(accepted) <= Len(accepted')
                    /\ \A i \in 1..Len(accepted) : accepted'[i] = accepted[i]
<1>1. OutboxInit => OutboxInv
  BY OutboxInitInv
<1>2. OutboxInv /\ [OutboxNext]_outboxVars => OutboxInv'
  BY OutboxNextInv
<1>3. OutboxInv /\ [OutboxNext]_outboxVars => [Final]_outboxVars
  <2> SUFFICES ASSUME OutboxInv, OutboxNext PROVE Final
    OBVIOUS
  <2>1. OutboxInv'
    BY <1>2
  <2>2. Len(accepted) \in Nat /\ accepted \in Seq(Nat)
    BY DEF OutboxInv, OutboxTypes
  <2>3. accepted' = accepted \/ \E e \in Nat : accepted' = Append(accepted, e)
    <3>1. ASSUME NEW e, Accept(e) PROVE accepted' = accepted \/ accepted' = Append(accepted, e)
      BY <3>1 DEF Accept
    <3>2. CASE deliver
      <4>1. Head(pass.batch) \in Nat
        BY <3>2 DEF deliver, OutboxInv, InFlight, IsBatch
      <4> QED
        BY <3>1, <3>2, <4>1 DEF deliver
    <3>3. ASSUME NEW e \in late, LateDelivery(e) PROVE <2>3
      BY <3>1, <3>3 DEF LateDelivery, OutboxInv, OutboxTypes
    <3>4. CASE ~deliver /\ ~ \E e \in late : LateDelivery(e)
      BY <3>4 DEF OutboxNext, storeOutboxEvent, run, stop, readOutbox, readFails, acknowledge,
                  deliverFails, ackFails, OutboxCrash
    <3> QED
      BY <3>2, <3>3, <3>4
  <2>4. acked \subseteq acked'
    <3>1. \A e : acked \subseteq ackOutboxHead(e)
      BY DEF ackOutboxHead
    <3>2. CASE acknowledge
      BY <3>1, <3>2 DEF acknowledge
    <3>3. ASSUME NEW b \in BOOLEAN, ackFails(b) PROVE acked \subseteq acked'
      BY <3>1, <3>3 DEF ackFails
    <3>4. CASE ~acknowledge /\ ~ \E b \in BOOLEAN : ackFails(b)
      BY <3>4 DEF OutboxNext, storeOutboxEvent, run, stop, readOutbox, readFails, deliver,
                  deliverFails, LateDelivery, OutboxCrash
    <3> QED
      BY <3>2, <3>3, <3>4
  <2>5. /\ Len(accepted) <= Len(accepted')
        /\ \A i \in 1..Len(accepted) : accepted'[i] = accepted[i]
    <3>1. CASE accepted' = accepted
      BY <2>2, <3>1
    <3>2. ASSUME NEW e \in Nat, accepted' = Append(accepted, e)
          PROVE  /\ Len(accepted') = Len(accepted) + 1
                 /\ \A i \in 1..Len(accepted) : accepted'[i] = accepted[i]
      BY <2>2, <3>2
    <3> QED
      BY <2>2, <2>3, <3>1, <3>2
  <2> QED
    BY <2>4, <2>5, Zenon
<1> QED
  BY <1>1, <1>2, <1>3, PTL DEF OutboxSpec

-----------------------------------------------------------------------------
(***************************************************************************)
(* Proofs about DurableExecutionEnvelope for any number of turns and runs, *)
(* any contents and any bound on revisions and on the clock.               *)
(***************************************************************************)

\* What every row satisfies: cleanRecord accepts it, its reply was delivered after the turn's end,
\* and its release is no earlier than its receipt.
RowInv(r) ==
  /\ r \in RowType /\ CleanRecord(r)
  /\ r.telegram.delivery = "delivered" => r.phase = "terminal"
  /\ r.releasedAt # Null => r.receiptAt <= r.releasedAt

\* The inductive invariant: one sound row at most, of a turn that was started.
EnvelopeInv ==
  /\ used \subseteq Envelopes /\ now \in Time
  /\ \A r \in store : RowInv(r) /\ r.envelope \in used
  /\ OneRow

\* What a rewrite of the active row r as n may do to it.
RowStep(r, n) ==
  /\ RowInv(n) /\ n.envelope = r.envelope
  /\ IsRef(r.actor) => Evolves(r.actor, n.actor)
  /\ Evolves(r.control, n.control)
  /\ \A k \in Runs : IsRef(r.inventory[k]) => Evolves(r.inventory[k], n.inventory[k])
  /\ r.phase = "paused-awaiting-approval" /\ n.phase \in {"running", "resume-ready"} =>
       n.actor.revision > r.actor.revision

USE DEF Time, NullableTime, Null, Phases

-----------------------------------------------------------------------------
(* The rows that the calls write. *)

\* A reference of a row has its type, and evolves into itself.
LEMMA RefFacts ==
  ASSUME NEW r \in RowType
  PROVE  /\ r.actor \in RefType /\ r.control \in RefType
         /\ \A k \in Runs : r.inventory[k] \in RefType
         /\ Evolves(r.actor, r.actor) /\ Evolves(r.control, r.control)
         /\ \A k \in Runs : Evolves(r.inventory[k], r.inventory[k])
BY DEF RowType, RefType, Evolves

\* Every reference that a call may bring has its type.
LEMMA RefsHaveType ==
  ASSUME NEW e \in Envelopes
  PROVE  Refs(e) \subseteq RefType
BY EnvelopeBounds DEF Refs, NoRef, RefType

\* start writes a sound row.
LEMMA NewRowIsSound ==
  ASSUME NEW e \in Envelopes, NEW i \in [Runs -> Refs(e)], NEW a \in Refs(e),
         NEW c \in Refs(e), now \in Time, CleanRecord(NewRow(e, i, a, c))
  PROVE  RowInv(NewRow(e, i, a, c)) /\ NewRow(e, i, a, c).envelope = e
<1>1. i \in [Runs -> RefType] /\ a \in RefType /\ c \in RefType
  BY RefsHaveType
<1>2. NewRow(e, i, a, c) \in RowType
  BY <1>1, EnvelopeBounds DEF NewRow, RowType
<1> QED
  BY <1>2 DEF RowInv, NewRow

\* transition writes a sound row whose references moved forward.
LEMMA TransitionStep ==
  ASSUME NEW r, RowInv(r), now \in Time,
         NEW p \in Graph[r.phase], NEW t \in (IF p = "terminal" THEN Time ELSE {Null}),
         NEW i \in [Runs -> Refs(r.envelope)], NEW a \in Refs(r.envelope),
         NEW c \in Refs(r.envelope), transition(r, p, i, a, c, t)
  PROVE  \E n : Rewrite(r, n) /\ RowStep(r, n)
<1> DEFINE n == [r EXCEPT !.phase = p, !.inventory = i, !.actor = a,
                   !.control = c, !.receiptAt = t, !.updatedAt = now]
<1>1. r \in RowType /\ r.phase \in Phases /\ r.envelope \in Envelopes /\ CleanRecord(r)
  BY DEF RowInv, RowType
<1>2. p \in Phases /\ r.phase # "terminal"
  BY <1>1 DEF Graph
<1>3. i \in [Runs -> RefType] /\ a \in RefType /\ c \in RefType /\ t \in NullableTime
  BY <1>1, RefsHaveType
<1>4. n \in RowType
  BY <1>1, <1>2, <1>3 DEF RowType
<1>5. /\ n.phase = p /\ n.inventory = i /\ n.actor = a /\ n.control = c /\ n.receiptAt = t
      /\ n.envelope = r.envelope /\ n.telegram = r.telegram /\ n.releasedAt = r.releasedAt
  BY <1>1 DEF RowType
<1>6. /\ CleanRecord(n) /\ Rewrite(r, n) /\ Evolves(r.control, c)
      /\ IsRef(r.actor) => Evolves(r.actor, a)
      /\ \A k \in Runs : IsRef(r.inventory[k]) => Evolves(r.inventory[k], i[k])
      /\ r.phase = "paused-awaiting-approval" /\ p = "resume-ready" => a.revision > r.actor.revision
  BY DEF transition
<1>7. r.telegram.delivery # "delivered" /\ r.releasedAt = Null
  BY <1>1, <1>2 DEF RowInv, CleanRecord
<1>8. r.phase = "paused-awaiting-approval" => p # "running"
  BY <1>1 DEF Graph
<1> HIDE DEF n
<1>9. RowInv(n)
  BY <1>4, <1>5, <1>6, <1>7 DEF RowInv
<1> QED
  BY <1>5, <1>6, <1>8, <1>9 DEF RowStep

\* A rewrite that keeps phase and references is a step of the row once its result is sound.
LEMMA KeepingStep ==
  ASSUME NEW r, NEW n, RowInv(r), RowInv(n), n.envelope = r.envelope, n.phase = r.phase,
         n.actor = r.actor, n.control = r.control, n.inventory = r.inventory
  PROVE  RowStep(r, n)
BY RefFacts DEF RowStep, RowInv

\* recordTelegramDelivery
LEMMA DeliveryStep ==
  ASSUME NEW r, RowInv(r), now \in Time,
         NEW d \in {"pending", "delivered"}, recordTelegramDelivery(r, d)
  PROVE  \E n : Rewrite(r, n) /\ RowStep(r, n)
<1> DEFINE n == [r EXCEPT !.telegram.revision = @ + 1, !.telegram.delivery = d, !.updatedAt = now]
<1>1. r \in RowType /\ r.telegram \in [revision : 1..MaxTelegram, delivery : {"pending", "delivered"}]
  BY DEF RowInv, RowType
<1>2. /\ r.retiredAt = Null /\ r.telegram.delivery # "delivered" /\ r.telegram.revision < MaxTelegram
      /\ d = "delivered" => r.phase = "terminal"
      /\ r.updatedAt <= now /\ Rewrite(r, n)
  BY DEF recordTelegramDelivery, Active
<1>3. /\ n.envelope = r.envelope /\ n.phase = r.phase /\ n.actor = r.actor
      /\ n.control = r.control /\ n.inventory = r.inventory /\ n.createdAt = r.createdAt
      /\ n.receiptAt = r.receiptAt /\ n.releasedAt = r.releasedAt /\ n.retiredAt = r.retiredAt
      /\ n.updatedAt = now /\ n.telegram.delivery = d
  BY <1>1 DEF RowType
<1>4. n \in RowType
  <2> DEFINE tg == [r.telegram EXCEPT !.revision = @ + 1, !.delivery = d]
  <2>1. tg \in [revision : 1..MaxTelegram, delivery : {"pending", "delivered"}]
    <3>1. r.telegram.revision \in Nat /\ r.telegram.revision + 1 \in 1..MaxTelegram
      BY <1>1, <1>2, EnvelopeBounds
    <3> QED
      BY <1>1, <3>1
  <2>2. n = [r EXCEPT !.telegram = tg, !.updatedAt = now]
    BY <1>1 DEF RowType
  <2> HIDE DEF tg, n
  <2> QED
    BY <1>1, <2>1, <2>2 DEF RowType
<1> HIDE DEF n
<1>5. r.releasedAt = Null
  BY <1>2 DEF RowInv, CleanRecord
<1>6. CleanRecord(n)
  <2>1. r.createdAt \in Int /\ r.updatedAt \in Int /\ r.receiptAt \in Int /\ now \in Int
    BY <1>1, EnvelopeBounds DEF RowType
  <2> QED
    BY <1>2, <1>3, <1>5, <2>1 DEF RowInv, CleanRecord
<1>7. RowInv(n)
  BY <1>2, <1>3, <1>4, <1>5, <1>6 DEF RowInv
<1> QED
  BY <1>2, <1>3, <1>7, KeepingStep

\* recordSupervisorRelease
LEMMA ReleaseStep ==
  ASSUME NEW r, RowInv(r), now \in Time,
         NEW t \in Time, recordSupervisorRelease(r, t)
  PROVE  \E n : Rewrite(r, n) /\ RowStep(r, n)
<1> DEFINE n == [r EXCEPT !.releasedAt = t, !.updatedAt = now]
<1>1. r \in RowType
  BY DEF RowInv
<1>2. /\ r.retiredAt = Null /\ r.phase = "terminal" /\ r.telegram.delivery = "delivered"
      /\ r.updatedAt <= now /\ r.updatedAt <= t /\ r.receiptAt <= t /\ t <= now /\ Rewrite(r, n)
  BY DEF recordSupervisorRelease, Active
<1>3. /\ n.envelope = r.envelope /\ n.phase = r.phase /\ n.actor = r.actor
      /\ n.control = r.control /\ n.inventory = r.inventory /\ n.createdAt = r.createdAt
      /\ n.receiptAt = r.receiptAt /\ n.releasedAt = t /\ n.retiredAt = r.retiredAt
      /\ n.updatedAt = now /\ n.telegram = r.telegram
  BY <1>1 DEF RowType
<1>4. n \in RowType
  BY <1>1 DEF RowType
<1> HIDE DEF n
<1>5. CleanRecord(n)
  <2>1. r.createdAt \in Int /\ r.updatedAt \in Int /\ r.receiptAt \in Int /\ now \in Int /\ t \in Int
    BY <1>1, EnvelopeBounds DEF RowType
  <2> QED
    BY <1>2, <1>3, <2>1 DEF RowInv, CleanRecord
<1>6. RowInv(n)
  BY <1>2, <1>3, <1>4, <1>5 DEF RowInv
<1> QED
  BY <1>2, <1>3, <1>6, KeepingStep

\* retireTerminal
LEMMA RetireStep ==
  ASSUME NEW r, RowInv(r), now \in Time, retireTerminal(r)
  PROVE  \E n : Rewrite(r, n) /\ RowStep(r, n)
<1> DEFINE n == [r EXCEPT !.retiredAt = now, !.updatedAt = now]
<1>1. r \in RowType
  BY DEF RowInv
<1>2. /\ r.phase = "terminal" /\ r.telegram.delivery = "delivered"
      /\ r.releasedAt # Null /\ r.updatedAt <= now /\ Rewrite(r, n)
  BY DEF retireTerminal
<1>3. /\ n.envelope = r.envelope /\ n.phase = r.phase /\ n.actor = r.actor
      /\ n.control = r.control /\ n.inventory = r.inventory /\ n.createdAt = r.createdAt
      /\ n.receiptAt = r.receiptAt /\ n.releasedAt = r.releasedAt /\ n.retiredAt = now
      /\ n.updatedAt = now /\ n.telegram = r.telegram
  BY <1>1 DEF RowType
<1>4. n \in RowType
  BY <1>1 DEF RowType
<1> HIDE DEF n
<1>5. CleanRecord(n)
  <2>1. /\ r.createdAt \in Int /\ r.updatedAt \in Int /\ r.receiptAt \in Int /\ now \in Int
        /\ r.releasedAt \in Int
    BY <1>1, EnvelopeBounds DEF RowType
  <2> QED
    BY <1>2, <1>3, <2>1 DEF RowInv, CleanRecord
<1>6. RowInv(n)
  BY <1>2, <1>3, <1>4, <1>5 DEF RowInv
<1> QED
  BY <1>2, <1>3, <1>6, KeepingStep

-----------------------------------------------------------------------------
(* The store. *)

\* A step of the store: the clock, a row's first version in an empty slot, the deletion of a
\* retired row, or a step of the one row.
StoreStep ==
  \/ store' = store /\ used' = used
  \/ /\ \A r \in store : r.retiredAt # Null
     /\ store' = {} /\ used' = used
  \/ \E n : /\ \A r \in store : r.retiredAt # Null
            /\ store' = {n} /\ RowInv(n) /\ n.envelope \notin used
            /\ n.envelope \in Envelopes /\ used' = used \cup {n.envelope}
  \/ \E r, n : store = {r} /\ store' = {n} /\ RowStep(r, n) /\ used' = used

LEMMA EveryStep ==
  ASSUME EnvelopeInv, EnvelopeNext
  PROVE  StoreStep /\ now' \in Time
<1>1. ASSUME NEW r \in store, \E n : Rewrite(r, n) /\ RowStep(r, n), UNCHANGED <<used, now>>
      PROVE  StoreStep /\ now' \in Time
  <2>1. PICK n : Rewrite(r, n) /\ RowStep(r, n)
    BY <1>1
  <2>2. store = {r} /\ store' = {n}
    BY <2>1 DEF EnvelopeInv, OneRow, Rewrite
  <2> QED
    BY <1>1, <2>1, <2>2 DEF StoreStep, EnvelopeInv
<1>2. ASSUME ~ \E r \in store : Active(r)
      PROVE  Purged(store) = {} /\ \A r \in store : r.retiredAt # Null
  BY <1>2 DEF Purged, Active
<1>3. ASSUME NEW e \in Envelopes, NEW i \in [Runs -> Refs(e)], NEW a \in Refs(e), NEW c \in Refs(e),
             startEnvelope(e, i, a, c)
      PROVE  StoreStep /\ now' \in Time
  <2>1. RowInv(NewRow(e, i, a, c)) /\ NewRow(e, i, a, c).envelope = e
    BY <1>3, NewRowIsSound DEF EnvelopeInv, startEnvelope
  <2>2. /\ store' = {NewRow(e, i, a, c)} /\ \A r \in store : r.retiredAt # Null
        /\ used' = used \cup {e} /\ e \notin used /\ now' = now
    BY <1>2, <1>3 DEF startEnvelope
  <2> QED
    BY <2>1, <2>2 DEF StoreStep, EnvelopeInv
<1>4. CASE startInterrupted
  BY <1>2, <1>4 DEF startInterrupted, StoreStep, EnvelopeInv
<1>5. ASSUME NEW r \in Purged(store), NEW p \in Graph[r.phase],
             NEW t \in (IF p = "terminal" THEN Time ELSE {Null}),
             NEW i \in [Runs -> Refs(r.envelope)], NEW a \in Refs(r.envelope),
             NEW c \in Refs(r.envelope), transition(r, p, i, a, c, t)
      PROVE  StoreStep /\ now' \in Time
  <2>1. r \in store /\ RowInv(r) /\ now \in Time
    BY DEF Purged, EnvelopeInv
  <2>2. \E n : Rewrite(r, n) /\ RowStep(r, n)
    BY <1>5, <2>1, TransitionStep
  <2>3. UNCHANGED <<used, now>>
    BY <1>5 DEF transition
  <2> QED
    BY <1>1, <2>1, <2>2, <2>3
<1>6. ASSUME NEW r \in store, NEW d \in {"pending", "delivered"}, recordTelegramDelivery(r, d)
      PROVE  StoreStep /\ now' \in Time
  BY <1>1, <1>6, DeliveryStep DEF EnvelopeInv, recordTelegramDelivery
<1>7. ASSUME NEW r \in store, NEW t \in Time, recordSupervisorRelease(r, t)
      PROVE  StoreStep /\ now' \in Time
  BY <1>1, <1>7, ReleaseStep DEF EnvelopeInv, recordSupervisorRelease
<1>8. ASSUME NEW r \in store, retireTerminal(r)
      PROVE  StoreStep /\ now' \in Time
  BY <1>1, <1>8, RetireStep DEF EnvelopeInv, retireTerminal
<1>9. ASSUME NEW t \in Time, Clock(t)
      PROVE  StoreStep /\ now' \in Time
  BY <1>9 DEF Clock, StoreStep
<1> QED
  BY <1>3, <1>4, <1>5, <1>6, <1>7, <1>8, <1>9 DEF EnvelopeNext

LEMMA EnvelopeInitInv == EnvelopeInit => EnvelopeInv
BY DEF EnvelopeInit, EnvelopeInv, OneRow

LEMMA EnvelopeNextInv == EnvelopeInv /\ [EnvelopeNext]_envelopeVars => EnvelopeInv'
<1> SUFFICES ASSUME EnvelopeInv, [EnvelopeNext]_envelopeVars PROVE EnvelopeInv'
  OBVIOUS
<1>1. CASE UNCHANGED envelopeVars
  BY <1>1 DEF envelopeVars, EnvelopeInv, OneRow, RowInv, RowType, CleanRecord
<1>2. CASE EnvelopeNext
  <2>1. StoreStep /\ now' \in Time
    BY <1>2, EveryStep
  <2>2. \A n : RowInv(n)' = RowInv(n)
    BY DEF RowInv
  <2>3. CASE store' = store /\ used' = used
    BY <2>1, <2>2, <2>3 DEF EnvelopeInv, OneRow
  <2>4. CASE store' = {} /\ used' = used
    BY <2>1, <2>4 DEF EnvelopeInv, OneRow
  <2>5. ASSUME NEW n, store' = {n}, RowInv(n), n.envelope \in Envelopes, used' = used \cup {n.envelope}
        PROVE  EnvelopeInv'
    BY <2>1, <2>2, <2>5 DEF EnvelopeInv, OneRow
  <2>6. ASSUME NEW r, NEW n, store = {r}, store' = {n}, RowStep(r, n), used' = used
        PROVE  EnvelopeInv'
    BY <2>1, <2>2, <2>6 DEF EnvelopeInv, OneRow, RowStep
  <2> QED
    BY <2>1, <2>3, <2>4, <2>5, <2>6 DEF StoreStep
<1> QED
  BY <1>1, <1>2

LEMMA EnvelopeInvImplies == EnvelopeInv => TurnIsSettled
<1> SUFFICES ASSUME EnvelopeInv PROVE TurnIsSettled
  OBVIOUS
<1>1. EnvelopeTypeOK /\ OneRow /\ DeliveredTurnHasEnded
  BY DEF EnvelopeInv, RowInv, EnvelopeTypeOK, DeliveredTurnHasEnded
<1>2. RetiredTurnIsSettled
  <2> SUFFICES ASSUME NEW r \in store, r.retiredAt # Null
               PROVE  /\ r.telegram.delivery = "delivered"
                      /\ r.receiptAt # Null /\ r.releasedAt # Null
                      /\ r.createdAt <= r.receiptAt /\ r.receiptAt <= r.releasedAt
                      /\ r.releasedAt <= r.retiredAt
    BY DEF RetiredTurnIsSettled
  <2> QED
    BY DEF EnvelopeInv, RowInv, CleanRecord
<1> QED
  BY <1>1, <1>2 DEF TurnIsSettled

\* What recovery may conclude from the rows it finds: one row at most, which parseRow accepts; a
\* retired turn ended, was delivered and released, at times in this order although the clock may
\* step back; a delivered reply belongs to a turn that has ended (durable-execution-envelope.ts).
THEOREM TurnSettles == EnvelopeSpec => []TurnIsSettled
<1>1. EnvelopeInit => EnvelopeInv
  BY EnvelopeInitInv
<1>2. EnvelopeInv /\ [EnvelopeNext]_envelopeVars => EnvelopeInv'
  BY EnvelopeNextInv
<1>3. EnvelopeInv => TurnIsSettled
  BY EnvelopeInvImplies
<1> QED
  BY <1>1, <1>2, <1>3, PTL DEF EnvelopeSpec

-----------------------------------------------------------------------------
(* What no step takes away. *)

\* The three action properties of EvidenceMovesForward, for one step.
KeptStep == \A r \in store : r.retiredAt = Null => \E q \in store' : q.envelope = r.envelope
ForwardStep ==
  \A r \in store, q \in store' : q.envelope = r.envelope =>
     /\ IsRef(r.actor) => Evolves(r.actor, q.actor)
     /\ Evolves(r.control, q.control)
     /\ \A n \in Runs : IsRef(r.inventory[n]) => Evolves(r.inventory[n], q.inventory[n])
ResumeStep ==
  \A r \in store, q \in store' :
     (/\ q.envelope = r.envelope
      /\ r.phase = "paused-awaiting-approval" /\ q.phase \in {"running", "resume-ready"}) =>
        q.actor.revision > r.actor.revision

LEMMA StepMovesForward ==
  ASSUME EnvelopeInv, EnvelopeNext
  PROVE  KeptStep /\ ForwardStep /\ ResumeStep
<1>1. StoreStep
  BY EveryStep
<1>2. CASE store' = store
  <2>1. \A r, q \in store : r = q /\ r \in RowType
    BY DEF EnvelopeInv, OneRow, RowInv
  <2>2. KeptStep
    BY <1>2 DEF KeptStep
  <2>3. ForwardStep
    BY <1>2, <2>1, RefFacts DEF ForwardStep
  <2>4. ResumeStep
    BY <1>2, <2>1 DEF ResumeStep
  <2> QED
    BY <2>2, <2>3, <2>4
<1>3. CASE store' = {} /\ \A r \in store : r.retiredAt # Null
  BY <1>3 DEF KeptStep, ForwardStep, ResumeStep
<1>4. ASSUME NEW n, \A r \in store : r.retiredAt # Null, store' = {n}, n.envelope \notin used
      PROVE  KeptStep /\ ForwardStep /\ ResumeStep
  BY <1>4 DEF EnvelopeInv, KeptStep, ForwardStep, ResumeStep
<1>5. ASSUME NEW r, NEW n, store = {r}, store' = {n}, RowStep(r, n)
      PROVE  KeptStep /\ ForwardStep /\ ResumeStep
  BY <1>5 DEF RowStep, KeptStep, ForwardStep, ResumeStep
<1> QED
  BY <1>1, <1>2, <1>3, <1>4, <1>5 DEF StoreStep

\* What no later call takes away: the row of a turn that is not retired, the references it has seen
\* of its participants, and the newer actor revision a paused turn is resumed on (start's purge,
\* sameRefEvolution and validTransition in durable-execution-envelope.ts).
THEOREM EvidenceMoves == EnvelopeSpec => EvidenceMovesForward
<1>1. EnvelopeInit => EnvelopeInv
  BY EnvelopeInitInv
<1>2. EnvelopeInv /\ [EnvelopeNext]_envelopeVars => EnvelopeInv'
  BY EnvelopeNextInv
<1>3. EnvelopeInv /\ [EnvelopeNext]_envelopeVars => [KeptStep]_envelopeVars /\ [ForwardStep]_envelopeVars /\ [ResumeStep]_envelopeVars
  BY StepMovesForward
<1>4. EnvelopeSpec => [][KeptStep]_envelopeVars /\ [][ForwardStep]_envelopeVars /\ [][ResumeStep]_envelopeVars
  BY <1>1, <1>2, <1>3, PTL DEF EnvelopeSpec
<1> QED
  BY <1>4 DEF EvidenceMovesForward, EvidenceIsKept, ReferencesMoveForward, ResumesOnNewActor,
              KeptStep, ForwardStep, ResumeStep
=============================================================================
