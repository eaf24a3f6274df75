--------------------- MODULE SemanticEgressConsentProofs ---------------------
(***************************************************************************)
(* Proofs about the consent to semantic egress, for any number of callers  *)
(* and connections, every lifetime of a nonce and every bound.             *)
(*                                                                         *)
(* Three layers: the types of the state; the slot's lock, which only its   *)
(* holder is inside of (Mutex); and, on top of the lock, that a revocation *)
(* is complete (Revocation).  What the store can read (Readable) needs the *)
(* types only: every row the authority computes is compared with the row   *)
(* it replaces in the transaction that writes it.                          *)
(***************************************************************************)
EXTENDS SemanticEgressConsent, SequenceTheorems, TLAPS

ConsentStates == Live \cup {"NONE", "AWAITING_CONSENT", "REVOKING", "REVOKED", "BLOCKED"}

Rows ==
    [state : ConsentStates, rev : Nat, gen : Nat, conn : Connections \cup {NoConnection},
     card : Nat, boot : Nat, fromRev : Nat, fromGen : Nat, issued : Int, expires : Int,
     invalid : Int, accepted : Int, consumed : Int, revoking : Int, created : Int, updated : Int]

NonceRows ==
    [kind : {"grant", "use"}, issued : Int, expires : Int, consumed : Int, invalid : Int,
     done : BOOLEAN]

UseProofs ==
    [nonce : Nat, rev : Nat, conn : Connections \cup {NoConnection}, issued : Int, expires : Int]

Tasks ==
    [op : {"none", "begin", "confirm", "activate", "issue", "consume", "publish", "release",
           "mutate", "complete", "purge", "recover"},
     at : {"idle", "loaded", "mark", "wait", "inside", "publishing", "drain", "purged"},
     exp : Nat]

\* The types of the store, of the process and of the calls.
Types ==
    /\ rec \in Rows
    /\ nonces \in Seq(NonceRows)
    /\ derived \in BOOLEAN /\ refused \in BOOLEAN
    /\ now \in Nat /\ boot \in Nat
    /\ proofs \subseteq UseProofs
    /\ lease \in [Callers -> [proof : UseProofs, closed : BOOLEAN]]
    /\ task \in [Callers -> Tasks]

(***************************************************************************)
(* The rows the authority computes are rows.                               *)
(***************************************************************************)

LEMMA RowUpdates ==
  ASSUME NEW r \in Rows
  PROVE  /\ \A s \in ConsentStates : [r EXCEPT !.state = s] \in Rows
         /\ \A n \in Nat : [r EXCEPT !.rev = n] \in Rows
         /\ \A n \in Nat : [r EXCEPT !.gen = n] \in Rows
         /\ \A i \in Int : [r EXCEPT !.accepted = i] \in Rows
         /\ \A i \in Int : [r EXCEPT !.consumed = i] \in Rows
         /\ \A i \in Int : [r EXCEPT !.updated = i] \in Rows
         /\ \A i \in Int : [r EXCEPT !.invalid = i] \in Rows
         /\ \A i \in Int : [r EXCEPT !.revoking = i] \in Rows
<1>1. \A s \in ConsentStates : [r EXCEPT !.state = s] \in Rows
  BY SMT DEF Rows
<1>2. \A n \in Nat : [r EXCEPT !.rev = n] \in Rows
  BY SMT DEF Rows
<1>3. \A n \in Nat : [r EXCEPT !.gen = n] \in Rows
  BY SMT DEF Rows
<1>4. \A i \in Int : [r EXCEPT !.accepted = i] \in Rows
  BY SMT DEF Rows
<1>5. \A i \in Int : [r EXCEPT !.consumed = i] \in Rows
  BY SMT DEF Rows
<1>6. \A i \in Int : [r EXCEPT !.updated = i] \in Rows
  BY SMT DEF Rows
<1>7. \A i \in Int : [r EXCEPT !.invalid = i] \in Rows
  BY SMT DEF Rows
<1>8. \A i \in Int : [r EXCEPT !.revoking = i] \in Rows
  BY SMT DEF Rows
<1> QED
  BY <1>1, <1>2, <1>3, <1>4, <1>5, <1>6, <1>7, <1>8, Zenon

LEMMA NextRecordTyped ==
  ASSUME rec \in Rows, now \in Nat, NEW target \in ConsentStates
  PROVE  nextRecord(rec, target) \in Rows
<1> DEFINE r1 == [rec EXCEPT !.state = target]
           r2 == [r1 EXCEPT !.rev = @ + 1]
           r3 == [r2 EXCEPT !.gen = @ + 1]
           r4 == [r3 EXCEPT !.updated = now]
           r5 == [r4 EXCEPT !.revoking = IF target = "REVOKING" THEN now ELSE @]
<1>1. r1 \in Rows
  BY RowUpdates, Zenon
<1>2. r2 \in Rows
  <2>1. r1.rev + 1 \in Nat
    BY <1>1, SMT DEF Rows
  <2> HIDE DEF r1
  <2> QED
    BY <1>1, <2>1, RowUpdates
<1>3. r3 \in Rows
  <2>1. r2.gen + 1 \in Nat
    BY <1>2, SMT DEF Rows
  <2> HIDE DEF r2
  <2> QED
    BY <1>2, <2>1, RowUpdates
<1>4. r4 \in Rows
  <2> HIDE DEF r3
  <2> QED
    BY <1>3, RowUpdates
<1>5. r5 \in Rows
  <2>1. (IF target = "REVOKING" THEN now ELSE r4.revoking) \in Int
    BY <1>4, SMT DEF Rows
  <2> HIDE DEF r4
  <2> QED
    BY <1>4, <2>1, RowUpdates
<1>6. nextRecord(rec, target) = r5
  BY DEF nextRecord
<1> QED
  BY <1>5, <1>6, Zenon

LEMMA ConsentedTyped ==
  ASSUME rec \in Rows, now \in Nat, NEW accepted \in Int
  PROVE  consentedRecord(accepted) \in Rows
<1> DEFINE r1 == [rec EXCEPT !.state = "CONSENTED"]
           r2 == [r1 EXCEPT !.rev = @ + 1]
           r3 == [r2 EXCEPT !.gen = @ + 1]
           r4 == [r3 EXCEPT !.accepted = accepted]
           r5 == [r4 EXCEPT !.consumed = now]
           r6 == [r5 EXCEPT !.updated = now]
<1>1. r1 \in Rows
  BY RowUpdates DEF ConsentStates, Live
<1>2. r2 \in Rows
  <2>1. r1.rev + 1 \in Nat
    BY <1>1, SMT DEF Rows
  <2> HIDE DEF r1
  <2> QED
    BY <1>1, <2>1, RowUpdates
<1>3. r3 \in Rows
  <2>1. r2.gen + 1 \in Nat
    BY <1>2, SMT DEF Rows
  <2> HIDE DEF r2
  <2> QED
    BY <1>2, <2>1, RowUpdates
<1>4. r4 \in Rows
  <2> HIDE DEF r3
  <2> QED
    BY <1>3, RowUpdates
<1>5. r5 \in Rows
  <2> HIDE DEF r4
  <2> QED
    BY <1>4, RowUpdates
<1>6. r6 \in Rows
  <2> HIDE DEF r5
  <2> QED
    BY <1>5, RowUpdates
<1>7. consentedRecord(accepted) = r6
  BY DEF consentedRecord
<1> QED
  BY <1>6, <1>7, Zenon

LEMMA InvalidatedTyped ==
  ASSUME rec \in Rows, now \in Nat
  PROVE  invalidatedRecord(rec) \in Rows
<1> DEFINE r1 == [rec EXCEPT !.rev = @ + 1]
           r2 == [r1 EXCEPT !.gen = @ + 1]
           r3 == [r2 EXCEPT !.updated = now]
           r4 == [r3 EXCEPT !.invalid = now]
<1>1. r1 \in Rows
  <2>1. rec.rev + 1 \in Nat
    BY SMT DEF Rows
  <2> QED
    BY <2>1, RowUpdates
<1>2. r2 \in Rows
  <2>1. r1.gen + 1 \in Nat
    BY <1>1, SMT DEF Rows
  <2> HIDE DEF r1
  <2> QED
    BY <1>1, <2>1, RowUpdates
<1>3. r3 \in Rows
  <2> HIDE DEF r2
  <2> QED
    BY <1>2, RowUpdates
<1>4. r4 \in Rows
  <2> HIDE DEF r3
  <2> QED
    BY <1>3, RowUpdates
<1>5. invalidatedRecord(rec) = r4
  BY DEF invalidatedRecord
<1> QED
  BY <1>4, <1>5, Zenon

LEMMA RecoveredTyped ==
  ASSUME rec \in Rows, now \in Nat
  PROVE  Recovered(rec) \in Rows
<1>1. "SUSPENDED" \in ConsentStates
  BY DEF ConsentStates, Live
<1> QED
  BY <1>1, InvalidatedTyped, NextRecordTyped DEF Recovered

LEMMA PendingTyped ==
  ASSUME rec \in Rows, nonces \in Seq(NonceRows), now \in Nat, boot \in Nat, NEW b \in Connections
  PROVE  pendingRecord(b) \in Rows /\ grantNonce \in NonceRows
<1>1. pendingRecord(b) \in Rows
  BY LivesAssumption, SMTT(60) DEF Types, pendingRecord, Rows, ConsentStates, Null
<1>2. grantNonce \in NonceRows
  BY LivesAssumption DEF Types, grantNonce, NonceRows, Null
<1> QED
  BY <1>1, <1>2

LEMMA UseTyped ==
  ASSUME rec \in Rows, nonces \in Seq(NonceRows), now \in Nat, NEW b \in Connections
  PROVE  useProof(b) \in UseProofs /\ useNonce \in NonceRows
BY LivesAssumption DEF Types, useProof, useNonce, UseProofs, NonceRows, Rows, Null

LEMMA SequenceUpdate ==
  ASSUME NEW S, NEW s \in Seq(S), NEW n, NEW e, n \in 1 .. Len(s) => e \in S
  PROVE  /\ [s EXCEPT ![n] = e] \in Seq(S)
         /\ Len([s EXCEPT ![n] = e]) = Len(s)
         /\ \A j \in 1 .. Len(s) : [s EXCEPT ![n] = e][j] = IF j = n THEN e ELSE s[j]
<1>1. CASE n \in 1 .. Len(s)
  <2>1. e \in S
    BY <1>1
  <2> QED
    BY <1>1, <2>1, ExceptSeq, SMT
<1>2. CASE n \notin 1 .. Len(s)
  <2>1. s \in [1 .. Len(s) -> S] /\ DOMAIN s = 1 .. Len(s)
    BY LenProperties, Zenon
  <2>2. [s EXCEPT ![n] = e] = s
    BY <1>2, <2>1, Zenon
  <2> QED
    BY <1>2, <2>2, Zenon
<1> QED
  BY <1>1, <1>2

LEMMA NonceFields ==
  ASSUME NEW r \in NonceRows, NEW i \in Int
  PROVE  /\ [r EXCEPT !.consumed = i] \in NonceRows
         /\ [r EXCEPT !.invalid = i] \in NonceRows
         /\ [r EXCEPT !.done = TRUE] \in NonceRows
<1>1. [r EXCEPT !.consumed = i] \in NonceRows
  BY SMT DEF NonceRows
<1>2. [r EXCEPT !.invalid = i] \in NonceRows
  BY SMT DEF NonceRows
<1>3. [r EXCEPT !.done = TRUE] \in NonceRows
  BY Zenon DEF NonceRows
<1> QED
  BY <1>1, <1>2, <1>3, Zenon

\* The three updates of a nonce row: each changes its field of one row and no other row.
LEMMA NonceUpdates ==
  ASSUME nonces \in Seq(NonceRows), NEW n, NEW i \in Int,
         NEW s \in {[nonces EXCEPT ![n].consumed = i], [nonces EXCEPT ![n].invalid = i],
                    [nonces EXCEPT ![n].done = TRUE]}
  PROVE  /\ s \in Seq(NonceRows) /\ Len(s) = Len(nonces)
         /\ \A j \in 1 .. Len(nonces) : j # n => s[j] = nonces[j]
<1>1. ASSUME NEW e, n \in 1 .. Len(nonces) => e \in NonceRows, s = [nonces EXCEPT ![n] = e]
      PROVE  /\ s \in Seq(NonceRows) /\ Len(s) = Len(nonces)
             /\ \A j \in 1 .. Len(nonces) : j # n => s[j] = nonces[j]
  <2>1. s \in Seq(NonceRows) /\ Len(s) = Len(nonces)
    BY <1>1, SequenceUpdate, SMT
  <2>2. \A j \in 1 .. Len(nonces) : s[j] = IF j = n THEN e ELSE nonces[j]
    BY <1>1, SequenceUpdate, SMT
  <2> QED
    BY <2>1, <2>2, Zenon
<1>2. n \in 1 .. Len(nonces) => nonces[n] \in NonceRows
  BY ElementOfSeq, Zenon
<1>3. CASE s = [nonces EXCEPT ![n].consumed = i]
  <2>1. n \in 1 .. Len(nonces) => [nonces[n] EXCEPT !.consumed = i] \in NonceRows
    BY <1>2, NonceFields, Zenon
  <2> QED
    BY <1>1, <1>3, <2>1, Zenon
<1>4. CASE s = [nonces EXCEPT ![n].invalid = i]
  <2>1. n \in 1 .. Len(nonces) => [nonces[n] EXCEPT !.invalid = i] \in NonceRows
    BY <1>2, NonceFields, Zenon
  <2> QED
    BY <1>1, <1>4, <2>1, Zenon
<1>5. CASE s = [nonces EXCEPT ![n].done = TRUE]
  <2>1. n \in 1 .. Len(nonces) => [nonces[n] EXCEPT !.done = TRUE] \in NonceRows
    BY <1>2, NonceFields, Zenon
  <2> QED
    BY <1>1, <1>5, <2>1, Zenon
<1> QED
  BY <1>3, <1>4, <1>5, Zenon

LEMMA NoneTyped ==
  /\ NoRecord \in Rows
  /\ NoLease \in [proof : UseProofs, closed : BOOLEAN]
  /\ Idle \in Tasks
BY DEF NoRecord, NoLease, NoProof, Idle, Rows, UseProofs, Tasks, Null, ConsentStates

LEMMA TypesInit == Init => Types
<1> SUFFICES ASSUME Init PROVE Types
  OBVIOUS
<1>1. nonces \in Seq(NonceRows) /\ now \in Nat /\ boot \in Nat /\ proofs \subseteq UseProofs
  BY SMT DEF Init
<1>2. derived \in BOOLEAN /\ refused \in BOOLEAN
  BY Zenon DEF Init
<1>3. rec \in Rows /\ task \in [Callers -> Tasks] /\ lease \in [Callers -> [proof : UseProofs, closed : BOOLEAN]]
  BY NoneTyped, Zenon DEF Init
<1> QED
  BY <1>1, <1>2, <1>3, Zenon DEF Types

(***************************************************************************)
(* The slot's lock.  A step of a caller moves it past the queue in one of  *)
(* five ways.                                                              *)
(***************************************************************************)
Locked == {"inside", "publishing", "purged"}
Queued == Locked \cup {"wait"}

\* The queue holds each waiting call once, and only its head is inside the lock.
Mutex ==
    /\ queue \in Seq(Callers)
    /\ \A i, j \in 1 .. Len(queue) : queue[i] = queue[j] => i = j
    /\ \A i \in 1 .. Len(queue) : task[queue[i]].at \in Queued
    /\ \A c \in Callers : task[c].at \in Locked => Holder(c)

Step(c) == task' \in [Callers -> Tasks] /\ \A d \in Callers \ {c} : task'[d] = task[d]

Rests == UNCHANGED <<task, queue>>
Solo(c) == Step(c) /\ task[c].at \notin Queued /\ task'[c].at \notin Queued /\ UNCHANGED queue
Joins(c) == Step(c) /\ task[c].at \notin Queued /\ task'[c].at = "wait" /\ queue' = Append(queue, c)
Enters(c) == Step(c) /\ Holder(c) /\ task'[c].at \in Locked /\ UNCHANGED queue
Leaves(c) == Step(c) /\ Holder(c) /\ task'[c].at \notin Queued /\ queue' = Tail(queue)

LEMMA MutexMoves ==
  ASSUME task \in [Callers -> Tasks], Mutex, NEW c \in Callers,
         Rests \/ Solo(c) \/ Joins(c) \/ Enters(c) \/ Leaves(c)
  PROVE  Mutex'
<1>0. Len(queue) \in Nat /\ \A i \in 1 .. Len(queue) : queue[i] \in Callers
  BY LenProperties, ElementOfSeq, Zenon DEF Mutex
<1>1. CASE Rests
  BY <1>1, Zenon DEF Rests, Mutex, Holder
<1>2. CASE Solo(c)
  <2>1. \A i \in 1 .. Len(queue) : queue[i] # c
    BY <1>2, Zenon DEF Solo, Mutex
  <2> QED
    BY <1>0, <1>2, <2>1, Zenon DEF Solo, Step, Mutex, Holder, Queued
<1>3. CASE Joins(c)
  <2>1. \A i \in 1 .. Len(queue) : queue[i] # c
    BY <1>3, Zenon DEF Joins, Mutex
  <2>2. /\ queue' \in Seq(Callers) /\ Len(queue') = Len(queue) + 1
        /\ \A i \in 1 .. Len(queue) : queue'[i] = queue[i]
        /\ queue'[Len(queue) + 1] = c
    <3>1. queue \in Seq(Callers) /\ queue' = Append(queue, c)
      BY <1>3, Zenon DEF Joins, Mutex
    <3> QED
      BY <3>1, AppendProperties
  <2>3. \A i, j \in 1 .. Len(queue') : queue'[i] = queue'[j] => i = j
    <3>1. \A i \in 1 .. Len(queue') : i \in 1 .. Len(queue) \/ i = Len(queue) + 1
      BY <1>0, <2>2, SMT
    <3> QED
      BY <2>1, <2>2, <3>1, Zenon DEF Mutex
  <2>4. \A i \in 1 .. Len(queue') : task'[queue'[i]].at \in Queued
    <3> SUFFICES ASSUME NEW i \in 1 .. Len(queue') PROVE task'[queue'[i]].at \in Queued
      OBVIOUS
    <3>1. CASE i \in 1 .. Len(queue)
      <4>1. queue'[i] = queue[i] /\ queue[i] \in Callers \ {c}
        BY <1>0, <2>1, <2>2, <3>1, Zenon
      <4> QED
        BY <1>3, <3>1, <4>1, Zenon DEF Joins, Step, Mutex
    <3>2. CASE i = Len(queue) + 1
      BY <1>3, <2>2, <3>2, Zenon DEF Joins, Queued
    <3> QED
      BY <1>0, <2>2, <3>1, <3>2, SMT
  <2>5. \A d \in Callers : task'[d].at \in Locked => Holder(d)'
    <3> SUFFICES ASSUME NEW d \in Callers, task'[d].at \in Locked PROVE Holder(d)'
      OBVIOUS
    <3>1. d # c
      BY <1>3, Zenon DEF Joins, Locked
    <3>2. Holder(d)
      BY <1>3, <3>1, Zenon DEF Joins, Step, Mutex
    <3> QED
      BY <1>3, <3>2, SMT DEF Joins, Holder, Mutex
  <2> QED
    BY <2>2, <2>3, <2>4, <2>5, Zenon DEF Mutex
<1>4. CASE Enters(c)
  <2>1. \A i \in 1 .. Len(queue) : task'[queue[i]].at \in Queued
    BY <1>0, <1>4, Zenon DEF Enters, Step, Mutex, Queued
  <2>2. \A d \in Callers : task'[d].at \in Locked => Holder(d)
    BY <1>4, Zenon DEF Enters, Step, Mutex
  <2> QED
    BY <1>4, <2>1, <2>2, Zenon DEF Enters, Mutex, Holder
<1>5. CASE Leaves(c)
  <2>1. /\ queue # <<>> /\ queue[1] = c
        /\ queue' \in Seq(Callers) /\ Len(queue') = Len(queue) - 1
        /\ \A i \in 1 .. Len(queue') : queue'[i] = queue[i + 1]
    <3>1. queue # <<>> /\ Head(queue) = c
      BY <1>5, Zenon DEF Leaves, Holder
    <3>2. queue[1] = c
      BY <3>1, SMT DEF Mutex
    <3> QED
      BY <1>5, <3>1, <3>2, HeadTailProperties, Zenon DEF Leaves, Mutex
  <2>2. \A i \in 1 .. Len(queue') : i + 1 \in 1 .. Len(queue) /\ i + 1 # 1
    BY <1>0, <2>1, SMT
  <2>3. 1 \in 1 .. Len(queue)
    BY <1>0, <2>1, SMT DEF Mutex
  <2>4. \A i, j \in 1 .. Len(queue') : queue'[i] = queue'[j] => i = j
    <3> SUFFICES ASSUME NEW i \in 1 .. Len(queue'), NEW j \in 1 .. Len(queue'), queue'[i] = queue'[j]
                 PROVE  i = j
      OBVIOUS
    <3>1. i + 1 = j + 1
      BY <2>1, <2>2, Zenon DEF Mutex
    <3> QED
      BY <3>1, SMT
  <2>5. \A i \in 1 .. Len(queue') : queue'[i] \in Callers \ {c}
    BY <1>0, <2>1, <2>2, <2>3, Zenon DEF Mutex
  <2>6. \A i \in 1 .. Len(queue') : task'[queue'[i]].at \in Queued
    <3> SUFFICES ASSUME NEW i \in 1 .. Len(queue') PROVE task'[queue'[i]].at \in Queued
      OBVIOUS
    <3>1. task'[queue'[i]] = task[queue'[i]]
      BY <1>5, <2>5, Zenon DEF Leaves, Step
    <3>2. task[queue[i + 1]].at \in Queued
      BY <2>2, Zenon DEF Mutex
    <3> QED
      BY <2>1, <3>1, <3>2, Zenon
  <2>7. \A d \in Callers : task'[d].at \notin Locked
    BY <1>5, Zenon DEF Leaves, Step, Mutex, Holder, Queued
  <2> QED
    BY <2>1, <2>4, <2>6, <2>7, Zenon DEF Mutex
<1> QED
  BY <1>1, <1>2, <1>3, <1>4, <1>5

Operations == {"none", "begin", "confirm", "activate", "issue", "consume", "publish", "release",
               "mutate", "complete", "purge", "recover"}
Places == {"idle", "loaded", "mark", "wait", "inside", "publishing", "drain", "purged"}

LEMMA TaskUpdates ==
  ASSUME task \in [Callers -> Tasks], NEW c \in Callers
  PROVE  /\ \A t \in Tasks : task' = [task EXCEPT ![c] = t] => Step(c) /\ task'[c] = t
         /\ \A a \in Places : task' = [task EXCEPT ![c].at = a] => Step(c) /\ task'[c].at = a
         /\ \A a \in Places, n \in Nat :
               task' = [task EXCEPT ![c].at = a, ![c].exp = n] => Step(c) /\ task'[c].at = a
<1>1. ASSUME NEW t \in Tasks, task' = [task EXCEPT ![c] = t] PROVE Step(c) /\ task'[c] = t
  BY <1>1 DEF Step
<1>2. ASSUME NEW a \in Places, task' = [task EXCEPT ![c].at = a] PROVE Step(c) /\ task'[c].at = a
  BY <1>2, SMTT(40) DEF Step, Tasks, Places
<1>3. ASSUME NEW a \in Places, NEW n \in Nat, task' = [task EXCEPT ![c].at = a, ![c].exp = n]
      PROVE  Step(c) /\ task'[c].at = a
  <2> DEFINE t == [task[c] EXCEPT !.at = a, !.exp = n]
  <2>1. task[c] \in Tasks
    BY Zenon
  <2>2. t \in Tasks /\ t.at = a
    <3> DEFINE u == [task[c] EXCEPT !.at = a]
    <3>1. u \in Tasks /\ u.at = a
      BY <2>1, Zenon DEF Tasks, Places
    <3>2. t = [u EXCEPT !.exp = n]
      BY Zenon
    <3> HIDE DEF u, t
    <3> QED
      BY <3>1, <3>2, Zenon DEF Tasks
  <2>3. task' = [task EXCEPT ![c] = t]
    BY <1>3, Zenon
  <2> HIDE DEF t
  <2> QED
    BY <1>1, <2>2, <2>3, Zenon
<1> QED
  BY <1>1, <1>2, <1>3

\* A call is started from Idle, and ends in it.
LEMMA StartsAndReturns ==
  ASSUME task \in [Callers -> Tasks], rec \in Rows, NEW c \in Callers
  PROVE  /\ \A o \in Operations, a \in Places :
               /\ Start(c, [Idle EXCEPT !.op = o, !.at = a]) =>
                     Step(c) /\ task[c].at = "idle" /\ task'[c].at = a
               /\ Start(c, [Idle EXCEPT !.op = o, !.at = a, !.exp = rec.rev]) =>
                     Step(c) /\ task[c].at = "idle" /\ task'[c].at = a
         /\ Return(c) => Step(c) /\ task'[c].at = "idle"
         /\ \A a \in Places : Proceed(c, a) => Step(c) /\ task'[c].at = a
<1>1. rec.rev \in Nat
  BY DEF Rows
<1>2. ASSUME NEW o \in Operations, NEW a \in Places
      PROVE  /\ [Idle EXCEPT !.op = o, !.at = a] \in Tasks
             /\ [Idle EXCEPT !.op = o, !.at = a].at = a
             /\ [Idle EXCEPT !.op = o, !.at = a, !.exp = rec.rev] \in Tasks
             /\ [Idle EXCEPT !.op = o, !.at = a, !.exp = rec.rev].at = a
  BY <1>1, <1>2 DEF Idle, Tasks, Operations, Places
<1>3. Idle \in Tasks /\ Idle.at = "idle"
  BY DEF Idle, Tasks
<1>4. ASSUME NEW o \in Operations, NEW a \in Places
      PROVE  /\ Start(c, [Idle EXCEPT !.op = o, !.at = a]) =>
                   Step(c) /\ task[c].at = "idle" /\ task'[c].at = a
             /\ Start(c, [Idle EXCEPT !.op = o, !.at = a, !.exp = rec.rev]) =>
                   Step(c) /\ task[c].at = "idle" /\ task'[c].at = a
  BY <1>2, <1>3, TaskUpdates, Zenon DEF Start
<1>5. Return(c) => Step(c) /\ task'[c].at = "idle"
  BY <1>3, TaskUpdates, Zenon DEF Return
<1>6. ASSUME NEW a \in Places PROVE Proceed(c, a) => Step(c) /\ task'[c].at = a
  BY <1>1, TaskUpdates, Zenon DEF Proceed
<1> QED
  BY <1>4, <1>5, <1>6, Zenon

LEMMA DrainMoves ==
  ASSUME task \in [Callers -> Tasks], NEW c \in Callers, drainUses(c)
  PROVE  Joins(c)
<1> DEFINE t == [op |-> "purge", at |-> "wait", exp |-> task[c].exp]
<1>1. t \in Tasks /\ t.at = "wait"
  BY SMT DEF Tasks
<1>2. task' = [task EXCEPT ![c] = t] /\ task[c].at = "drain" /\ queue' = Append(queue, c)
  BY SMT DEF drainUses, Enqueue
<1> HIDE DEF t
<1>3. Step(c) /\ task'[c].at = "wait"
  BY <1>1, <1>2, TaskUpdates, Zenon
<1> QED
  BY <1>2, <1>3, Zenon DEF Joins, Queued, Locked

\* What a step of a caller does to the queue (its mutex in the code is a chain of promises).
LEMMA Moves ==
  ASSUME task \in [Callers -> Tasks], rec \in Rows, now \in Nat, Mutex, NEW c \in Callers,
         CallNext(c) \/ StepNext(c)
  PROVE  Rests \/ Solo(c) \/ Joins(c) \/ Enters(c) \/ Leaves(c)
<1> USE StartsAndReturns DEF Operations, Places
<1>0. task[c].at \in Locked => Holder(c)
  BY DEF Mutex
<1>1. CASE refusedCall(c)
  BY <1>1, Zenon DEF refusedCall, Rests
<1>2. CASE beginConsent(c) \/ confirmConsent(c) \/ activate(c) \/ issueUseProof(c)
  BY <1>2, ZenonT(60) DEF beginConsent, confirmConsent, activate, issueUseProof, Solo, Queued, Locked
<1>3. CASE consumeUseProof(c) \/ publish(c) \/ release(c) \/ callMutator(c) \/ completeRevoke(c)
  BY <1>3, ZenonT(60) DEF consumeUseProof, publish, release, callMutator, completeRevoke, Enqueue,
     Joins, Queued, Locked
<1>4. CASE recoverForBoot(c)
  BY <1>4, Zenon DEF recoverForBoot, Enqueue, Rests, Joins, Queued, Locked
<1>5. CASE \E b \in Connections : beginCommit(c, b) \/ issueCommit(c, b)
  BY <1>5, Zenon DEF beginCommit, issueCommit, Solo, Queued, Locked
<1>6. CASE \E k \in 1 .. Len(nonces), a \in 0 .. now : confirmCommit(c, k, a)
  BY <1>6, Zenon DEF confirmCommit, Solo, Queued, Locked
<1>7. CASE \E b \in Connections, h \in {"healthy", "unavailable", "revoked"} : activateCommit(c, b, h)
  <2>1. task[c].at = "loaded" /\ UNCHANGED queue
    BY <1>7, Zenon DEF activateCommit
  <2>2. Return(c) \/ \E n \in Nat : task' = [task EXCEPT ![c].at = "mark", ![c].exp = n]
    <3>1. nextRecord(rec, "ACTIVE").rev \in Nat
      BY NextRecordTyped DEF Rows, ConsentStates, Live
    <3>2. PICK b, h : activateCommit(c, b, h)
      BY <1>7
    <3>3. \/ Return(c)
          \/ /\ ActivationTarget(b, h) = "ACTIVE"
             /\ task' = [task EXCEPT ![c].at = "mark",
                                     ![c].exp = nextRecord(rec, ActivationTarget(b, h)).rev]
      BY <3>2, Zenon DEF activateCommit
    <3> QED
      BY <3>1, <3>3, Zenon
  <2> QED
    BY <2>1, <2>2, TaskUpdates, Zenon DEF Solo, Queued, Locked
<1>8. CASE markActivated(c)
  BY <1>8, Zenon DEF markActivated, Solo, Queued, Locked
<1>9. CASE consumeLoad(c)
  BY <1>9, Zenon DEF consumeLoad, Sleeps, Leave, Enters, Leaves, Queued, Locked
<1>10. CASE \E p \in proofs : consumeCommit(c, p)
  BY <1>0, <1>10, Zenon DEF consumeCommit, Inside, Leave, Leaves, Queued, Locked
<1>11. CASE leaseLoad(c)
  BY <1>11, Zenon DEF leaseLoad, Sleeps, Leave, Enters, Leaves, Queued, Locked
<1>12. CASE publishStart(c)
  BY <1>0, <1>12, TaskUpdates, Zenon DEF publishStart, Inside, Leave, Enters, Leaves, Queued, Locked
<1>13. CASE releaseEnd(c)
  BY <1>0, <1>13, Zenon DEF releaseEnd, Inside, Leave, Leaves, Queued, Locked
<1>14. CASE \E w \in BOOLEAN : publishEnd(c, w)
  BY <1>0, <1>14, Zenon DEF publishEnd, Leave, Leaves, Queued, Locked
<1>15. CASE mutatorLoad(c)
  BY <1>15, Zenon DEF mutatorLoad, Sleeps, Leave, Enters, Leaves, Queued, Locked
<1>16. CASE mutatorFails(c)
  BY <1>0, <1>16, Zenon DEF mutatorFails, Inside, Leave, Leaves, Queued, Locked
<1>17. CASE \E op \in Mutators : mutatorCommit(c, op)
  BY <1>0, <1>17, Zenon DEF mutatorCommit, Inside, Leave, Leaves, Queued, Locked
<1>18. CASE completeFence(c)
  BY <1>18, TaskUpdates, Zenon DEF completeFence, Sleeps, Leave, Leaves, Queued, Locked
<1>19. CASE drainUses(c)
  BY <1>19, DrainMoves, Zenon
<1>20. CASE purgeLoad(c)
  BY <1>20, Zenon DEF purgeLoad, Sleeps, Leave, Enters, Leaves, Queued, Locked
<1>21. CASE \E p \in BOOLEAN : purgeAndVerify(c, p)
  BY <1>0, <1>21, TaskUpdates, Zenon DEF purgeAndVerify, Inside, Leave, Enters, Leaves, Queued, Locked
<1>22. CASE purgeCommit(c)
  BY <1>0, <1>22, Zenon DEF purgeCommit, Leave, Leaves, Queued, Locked
<1>23. CASE recoverLocked(c)
  BY <1>23, Zenon DEF recoverLocked, Sleeps, Leave, Leaves, Queued, Locked
<1> QED
  BY <1>1, <1>2, <1>3, <1>4, <1>5, <1>6, <1>7, <1>8, <1>9, <1>10, <1>11, <1>12, <1>13, <1>14,
     <1>15, <1>16, <1>17, <1>18, <1>19, <1>20, <1>21, <1>22, <1>23, Zenon DEF CallNext, StepNext

(***************************************************************************)
(* The types of the store.                                                 *)
(***************************************************************************)
Leases == [proof : UseProofs, closed : BOOLEAN]

LEMMA LeaseUpdates ==
  ASSUME lease \in [Callers -> Leases], NEW c \in Callers
  PROVE  /\ AllClosed \in [Callers -> Leases]
         /\ settleUse(c) => lease' \in [Callers -> Leases]
         /\ \A p \in UseProofs :
               [lease EXCEPT ![c] = [proof |-> p, closed |-> FALSE]] \in [Callers -> Leases]
<1>1. NoLease \in Leases
  BY NoneTyped DEF Leases
<1>2. \A l \in Leases : [l EXCEPT !.closed = TRUE] \in Leases
  BY Zenon DEF Leases
<1>3. \A p \in UseProofs : [proof |-> p, closed |-> FALSE] \in Leases
  BY Zenon DEF Leases
<1>4. AllClosed \in [Callers -> Leases]
  BY <1>1, <1>2, Zenon DEF AllClosed
<1>5. settleUse(c) => lease' \in [Callers -> Leases]
  BY <1>1, Zenon DEF settleUse
<1>6. ASSUME NEW p \in UseProofs
      PROVE  [lease EXCEPT ![c] = [proof |-> p, closed |-> FALSE]] \in [Callers -> Leases]
  BY <1>3, Zenon
<1> QED
  BY <1>4, <1>5, <1>6, Zenon

\* The part of Types that the steps of callers share with the clock.
StoreTypes ==
    /\ rec \in Rows /\ nonces \in Seq(NonceRows)
    /\ derived \in BOOLEAN /\ refused \in BOOLEAN
    /\ now \in Nat /\ boot \in Nat
    /\ proofs \subseteq UseProofs /\ lease \in [Callers -> Leases]

LEMMA RecoveryTyped ==
  ASSUME StoreTypes, recoverTransaction
  PROVE  rec' \in Rows /\ nonces' \in Seq(NonceRows) /\ refused' \in BOOLEAN
<1>1. Recovered(rec) \in Rows
  BY RecoveredTyped, Zenon DEF StoreTypes
<1>2. [nonces EXCEPT ![rec.card].invalid = now] \in Seq(NonceRows)
  <2>1. nonces \in Seq(NonceRows) /\ now \in Int
    BY SMT DEF StoreTypes
  <2> QED
    BY <2>1, NonceUpdates, Zenon
<1>3. rec' = Recovered(rec) \/ rec' = rec
  BY Zenon DEF recoverTransaction
<1>4. nonces' = [nonces EXCEPT ![rec.card].invalid = now] \/ nonces' = nonces
  BY Zenon DEF recoverTransaction
<1>5. refused' \in BOOLEAN
  BY Zenon DEF recoverTransaction
<1> QED
  BY <1>1, <1>2, <1>3, <1>4, <1>5, Zenon DEF StoreTypes

LEMMA TargetsTyped ==
  /\ \A b, h : ActivationTarget(b, h) \in ConsentStates \cup {"none"}
  /\ \A op, state : MutatorTarget(op, state) \in ConsentStates \cup {"none"}
<1>1. ASSUME NEW b, NEW h PROVE ActivationTarget(b, h) \in ConsentStates \cup {"none"}
  BY Zenon DEF ActivationTarget, ConsentStates, Live
<1>2. ASSUME NEW op, NEW state PROVE MutatorTarget(op, state) \in ConsentStates \cup {"none"}
  BY Zenon DEF MutatorTarget, ConsentStates, Live
<1> QED
  BY <1>1, <1>2, Zenon

\* completeRequest marks a nonce row, and changes no other field of any.
LEMMA CompleteEffect ==
  ASSUME nonces \in Seq(NonceRows), NEW c \in Callers, completeRequest(c)
  PROVE  /\ nonces' \in Seq(NonceRows) /\ Len(nonces') = Len(nonces)
         /\ \A j \in 1 .. Len(nonces) :
               /\ nonces'[j].kind = nonces[j].kind
               /\ nonces'[j].issued = nonces[j].issued
               /\ nonces'[j].expires = nonces[j].expires
               /\ nonces'[j].consumed = nonces[j].consumed
               /\ nonces'[j].invalid = nonces[j].invalid
<1> DEFINE n == lease[c].proof.nonce
<1>1. CASE nonces' = nonces
  BY <1>1, Zenon
<1>2. CASE nonces' = [nonces EXCEPT ![n].done = TRUE]
  <2>1. 0 \in Int
    OBVIOUS
  <2>2. /\ nonces' \in Seq(NonceRows) /\ Len(nonces') = Len(nonces)
        /\ \A j \in 1 .. Len(nonces) : j # n => nonces'[j] = nonces[j]
    BY <1>2, <2>1, NonceUpdates, Zenon
  <2>3. ASSUME NEW j \in 1 .. Len(nonces), j = n
        PROVE  nonces'[j] = [nonces[j] EXCEPT !.done = TRUE]
    <3>1. DOMAIN nonces = 1 .. Len(nonces)
      BY LenProperties, Zenon
    <3> HIDE DEF n
    <3> QED
      BY <1>2, <2>3, <3>1, Zenon
  <2>4. ASSUME NEW r \in NonceRows
        PROVE  /\ [r EXCEPT !.done = TRUE].kind = r.kind
               /\ [r EXCEPT !.done = TRUE].issued = r.issued
               /\ [r EXCEPT !.done = TRUE].expires = r.expires
               /\ [r EXCEPT !.done = TRUE].consumed = r.consumed
               /\ [r EXCEPT !.done = TRUE].invalid = r.invalid
    BY SMT DEF NonceRows
  <2>5. \A j \in 1 .. Len(nonces) : nonces[j] \in NonceRows
    BY ElementOfSeq, Zenon
  <2> HIDE DEF n
  <2> QED
    BY <2>2, <2>3, <2>4, <2>5, ZenonT(60)
<1> QED
  BY <1>1, <1>2, Zenon DEF completeRequest

LEMMA StoreTyped ==
  ASSUME StoreTypes, NEW c \in Callers, CallNext(c) \/ StepNext(c)
  PROVE  StoreTypes'
<1>0. /\ AllClosed \in [Callers -> Leases]
      /\ settleUse(c) => lease' \in [Callers -> Leases]
      /\ \A p \in UseProofs :
            [lease EXCEPT ![c] = [proof |-> p, closed |-> FALSE]] \in [Callers -> Leases]
  BY LeaseUpdates, Zenon DEF StoreTypes
<1>1. \A n : Consume(n) \in Seq(NonceRows)
  <2>1. nonces \in Seq(NonceRows) /\ now \in Int
    BY SMT DEF StoreTypes
  <2> QED
    BY <2>1, NonceUpdates, Zenon DEF Consume
<1>2. \A target \in ConsentStates : nextRecord(rec, target) \in Rows
  BY NextRecordTyped, Zenon DEF StoreTypes
<1>3. completeRequest(c) => nonces' \in Seq(NonceRows)
  BY CompleteEffect, Zenon DEF StoreTypes
<1> USE DEF StoreTypes, Keep, Clock
<1>4. CASE refusedCall(c) \/ beginConsent(c) \/ confirmConsent(c) \/ activate(c) \/ issueUseProof(c)
           \/ consumeUseProof(c) \/ publish(c) \/ release(c) \/ callMutator(c) \/ completeRevoke(c)
  BY <1>0, <1>4, Zenon DEF refusedCall, beginConsent, confirmConsent, activate, issueUseProof,
     consumeUseProof, publish, release, callMutator, completeRevoke
<1>5. CASE recoverForBoot(c) \/ recoverLocked(c)
  BY <1>0, <1>5, RecoveryTyped, Zenon DEF recoverForBoot, recoverLocked
<1>6. ASSUME NEW b \in Connections, beginCommit(c, b) PROVE StoreTypes'
  <2>1. pendingRecord(b) \in Rows /\ Append(nonces, grantNonce) \in Seq(NonceRows)
    BY PendingTyped, AppendProperties, Zenon
  <2> QED
    BY <1>6, <2>1, Zenon DEF beginCommit
<1>7. ASSUME NEW b \in Connections, issueCommit(c, b) PROVE StoreTypes'
  <2>1. useProof(b) \in UseProofs /\ Append(nonces, useNonce) \in Seq(NonceRows)
    BY UseTyped, AppendProperties, Zenon
  <2> QED
    BY <1>7, <2>1, Zenon DEF issueCommit
<1>8. ASSUME NEW k, NEW a \in 0 .. now, confirmCommit(c, k, a) PROVE StoreTypes'
  <2>1. a \in Int
    BY SMT
  <2>2. consentedRecord(a) \in Rows
    BY <2>1, ConsentedTyped, Zenon
  <2> QED
    BY <1>1, <1>8, <2>2, Zenon DEF confirmCommit
<1>9. ASSUME NEW b, NEW h, activateCommit(c, b, h) PROVE StoreTypes'
  BY <1>2, <1>9, TargetsTyped, Zenon DEF activateCommit
<1>10. CASE \E p \in proofs : consumeCommit(c, p)
  BY <1>0, <1>1, <1>10, Zenon DEF consumeCommit
<1>11. CASE leaseLoad(c) \/ publishStart(c)
  BY <1>0, <1>11, Zenon DEF leaseLoad, publishStart
<1>12. CASE releaseEnd(c)
  BY <1>0, <1>3, <1>12, Zenon DEF releaseEnd
<1>13. CASE \E w \in BOOLEAN : publishEnd(c, w)
  BY <1>0, <1>3, <1>13, Zenon DEF publishEnd
<1>14. ASSUME NEW op, mutatorCommit(c, op) PROVE StoreTypes'
  BY <1>0, <1>2, <1>14, TargetsTyped, Zenon DEF mutatorCommit
<1>15. CASE markActivated(c) \/ consumeLoad(c) \/ mutatorLoad(c) \/ mutatorFails(c)
            \/ completeFence(c) \/ drainUses(c) \/ purgeLoad(c)
  BY <1>0, <1>15, Zenon DEF markActivated, consumeLoad, mutatorLoad, mutatorFails, completeFence,
     drainUses, purgeLoad
<1>16. CASE \E p \in BOOLEAN : purgeAndVerify(c, p)
  BY <1>16, Zenon DEF purgeAndVerify
<1>17. CASE purgeCommit(c)
  <2>1. "REVOKED" \in ConsentStates
    BY DEF ConsentStates
  <2> QED
    BY <1>2, <1>17, <2>1, Zenon DEF purgeCommit
<1> QED
  BY <1>4, <1>5, <1>6, <1>7, <1>8, <1>9, <1>10, <1>11, <1>12, <1>13, <1>14, <1>15, <1>16, <1>17,
     Zenon DEF CallNext, StepNext

\* What every later proof stands on: the types and the lock.
Lock == Types /\ Mutex

LEMMA LockInit == Init => Lock
<1> SUFFICES ASSUME Init PROVE Lock
  OBVIOUS
<1>1. Mutex
  BY SMT DEF Init, Mutex, Idle, Locked
<1> QED
  BY <1>1, TypesInit, Zenon DEF Lock

\* The steps that are no caller's.
LEMMA LockClock ==
  ASSUME Lock, Crash \/ Tick \/ StepBack \/ UNCHANGED vars
  PROVE  Lock'
<1>1. now' \in Nat /\ boot' \in Nat
  BY SMT DEF Lock, Types, Crash, Tick, StepBack, vars
<1>2. CASE Crash
  <2>1. task' \in [Callers -> Tasks] /\ lease' \in [Callers -> [proof : UseProofs, closed : BOOLEAN]]
    BY <1>2, NoneTyped, Zenon DEF Crash
  <2>2. queue' = <<>> /\ \A c \in Callers : task'[c] = Idle
    BY <1>2, Zenon DEF Crash
  <2>3. Mutex'
    BY <2>2, SMT DEF Mutex, Idle, Locked
  <2>4. Types'
    BY <1>1, <1>2, <2>1, Zenon DEF Crash, Keep, Lock, Types
  <2> QED
    BY <2>3, <2>4, Zenon DEF Lock
<1>3. CASE Tick \/ StepBack \/ UNCHANGED vars
  <2>1. UNCHANGED <<rec, nonces, derived, queue, task, lease, proofs, refused>>
    BY <1>3, Zenon DEF Tick, StepBack, Keep, vars
  <2> QED
    BY <1>1, <2>1, Zenon DEF Lock, Types, Mutex, Holder
<1> QED
  BY <1>2, <1>3, Zenon

LEMMA LockStep ==
  ASSUME Lock, NEW c \in Callers, CallNext(c) \/ StepNext(c)
  PROVE  Lock'
<1>1. StoreTypes'
  BY StoreTyped, Zenon DEF Lock, Types, StoreTypes, Leases
<1>2. Rests \/ Solo(c) \/ Joins(c) \/ Enters(c) \/ Leaves(c)
  BY Moves, Zenon DEF Lock, Types
<1>3. Mutex'
  BY <1>2, MutexMoves, Zenon DEF Lock, Types
<1>4. task' \in [Callers -> Tasks]
  BY <1>2, Zenon DEF Rests, Solo, Joins, Enters, Leaves, Step, Lock, Types
<1> QED
  BY <1>1, <1>3, <1>4, Zenon DEF Lock, Types, StoreTypes, Leases

\* The lock of a slot is held by one call at a time, and by none that is not in its queue.
THEOREM LockInvariant == Spec => []Lock
<1>1. Lock /\ [Next]_vars => Lock'
  BY LockClock, LockStep, Zenon DEF Next
<1> QED
  BY LockInit, <1>1, PTL DEF Spec

(***************************************************************************)
(* A revocation is complete.  Three things move against each other: the    *)
(* row, which calls outside the lock write too; the derived data; and the  *)
(* calls that are publishing or have purged, which are inside the lock.    *)
(***************************************************************************)

\* A purge that has been verified and is not yet recorded has left nothing in the index.
Revocation ==
    /\ RevocationIsComplete
    /\ \A c \in Callers : task[c].at = "purged" => ~derived

LEMMA Exclusion ==
  ASSUME Mutex, NEW c \in Callers, NEW d \in Callers, task[c].at \in Locked, task[d].at \in Locked
  PROVE  c = d
BY Zenon DEF Mutex, Holder

LEMMA NextFields ==
  ASSUME NEW r \in Rows, now \in Nat, NEW target \in ConsentStates
  PROVE  /\ nextRecord(r, target).state = target
         /\ nextRecord(r, target).rev = r.rev + 1
         /\ nextRecord(r, target).gen = r.gen + 1
         /\ nextRecord(r, target).updated = now
         /\ nextRecord(r, target).revoking = IF target = "REVOKING" THEN now ELSE r.revoking
         /\ \A f \in {"conn", "card", "boot", "fromRev", "fromGen", "issued", "expires", "invalid",
                      "accepted", "consumed", "created"} : nextRecord(r, target)[f] = r[f]
BY Zenon DEF nextRecord, Rows

LEMMA RecoveredState ==
  ASSUME rec \in Rows, now \in Nat, recoverTransaction
  PROVE  rec'.state \in {rec.state, "SUSPENDED"}
<1>1. invalidatedRecord(rec).state = rec.state
  BY Zenon DEF invalidatedRecord, Rows
<1>2. nextRecord(rec, "SUSPENDED").state = "SUSPENDED"
  BY NextFields, Zenon DEF ConsentStates, Live
<1>3. Recovered(rec).state \in {rec.state, "SUSPENDED"}
  BY <1>1, <1>2, Zenon DEF Recovered
<1> QED
  BY <1>3, Zenon DEF recoverTransaction

\* A row outside the lock never turns into one that is being or has been revoked.
Revocable(state) == state \notin {"REVOKING", "REVOKED"}

\* A step that leaves the derived data alone, brings no call into a publication or past a purge,
\* and writes no row that is being or has been revoked.
Harmless(c) ==
    /\ Rests \/ (Step(c) /\ task'[c].at \notin {"publishing", "purged"})
    /\ derived' = derived
    /\ rec'.state = rec.state \/ Revocable(rec'.state)

LEMMA HarmlessSteps ==
  ASSUME Revocation, NEW c \in Callers, Harmless(c)
  PROVE  Revocation'
<1>1. \A d \in Callers : task'[d].at \in {"publishing", "purged"} => task'[d] = task[d]
  BY Zenon DEF Harmless, Rests, Step
<1> QED
  BY <1>1, Zenon DEF Harmless, Revocable, Revocation, RevocationIsComplete

LEMMA RevocationStep ==
  ASSUME Lock, Revocation, NEW c \in Callers, CallNext(c) \/ StepNext(c)
  PROVE  Revocation'
<1>0. task \in [Callers -> Tasks] /\ rec \in Rows /\ now \in Nat /\ rec.rev \in Nat
  BY SMT DEF Lock, Types, Rows
<1>a. /\ \A o \in Operations, a \in Places :
            /\ Start(c, [Idle EXCEPT !.op = o, !.at = a]) => Step(c) /\ task'[c].at = a
            /\ Start(c, [Idle EXCEPT !.op = o, !.at = a, !.exp = rec.rev]) =>
                  Step(c) /\ task'[c].at = a
      /\ Return(c) => Step(c) /\ task'[c].at = "idle"
      /\ \A a \in Places : Proceed(c, a) => Step(c) /\ task'[c].at = a
      /\ \A a \in Places : task' = [task EXCEPT ![c].at = a] => Step(c) /\ task'[c].at = a
  BY <1>0, StartsAndReturns, TaskUpdates, Zenon
<1>b. ASSUME NEW target \in ConsentStates PROVE nextRecord(rec, target).state = target
  BY <1>0, NextFields, Zenon
<1>c. task[c].at \in Locked => \A d \in Callers \ {c} : task[d].at \notin {"publishing", "purged"}
  BY Exclusion, Zenon DEF Lock, Locked
<1> USE DEF Operations, Places, Keep
<1>1. CASE refusedCall(c) \/ beginConsent(c) \/ confirmConsent(c) \/ activate(c) \/ issueUseProof(c)
           \/ consumeUseProof(c) \/ publish(c) \/ release(c) \/ callMutator(c) \/ completeRevoke(c)
  <2>1. Harmless(c)
    BY <1>a, <1>1, Zenon DEF refusedCall, beginConsent, confirmConsent, activate, issueUseProof,
       consumeUseProof, publish, release, callMutator, completeRevoke, Harmless, Rests
  <2> QED
    BY <2>1, HarmlessSteps, Zenon
<1>2. CASE recoverForBoot(c) \/ recoverLocked(c)
  <2>1. rec'.state \in {rec.state, "SUSPENDED"}
    BY <1>0, <1>2, RecoveredState, Zenon DEF recoverForBoot, recoverLocked
  <2>2. Harmless(c)
    BY <1>a, <1>2, <2>1, Zenon DEF recoverForBoot, recoverLocked, Harmless, Rests, Revocable
  <2> QED
    BY <2>2, HarmlessSteps, Zenon
<1>3. CASE \E b \in Connections : beginCommit(c, b) \/ issueCommit(c, b)
  <2>1. \A b : pendingRecord(b).state = "AWAITING_CONSENT"
    BY Zenon DEF pendingRecord
  <2>2. Harmless(c)
    BY <1>a, <1>3, <2>1, Zenon DEF beginCommit, issueCommit, Harmless, Revocable
  <2> QED
    BY <2>2, HarmlessSteps, Zenon
<1>4. ASSUME NEW k, NEW a, confirmCommit(c, k, a) PROVE Revocation'
  <2>1. consentedRecord(a).state = "CONSENTED"
    BY <1>0, Zenon DEF consentedRecord, Rows
  <2>2. Harmless(c)
    BY <1>a, <1>4, <2>1, Zenon DEF confirmCommit, Harmless, Revocable
  <2> QED
    BY <2>2, HarmlessSteps, Zenon
<1>5. ASSUME NEW b, NEW h, activateCommit(c, b, h) PROVE Revocation'
  <2>1. ActivationTarget(b, h) \in {"BLOCKED", "ACTIVE", "DEGRADED", "none"}
    BY Zenon DEF ActivationTarget
  <2>2. rec'.state = rec.state \/ Revocable(rec'.state)
    BY <1>b, <1>5, <2>1, Zenon DEF activateCommit, Revocable, ConsentStates, Live
  <2>3. Step(c) /\ task'[c].at \in {"mark", "idle"}
    <3>1. CASE Return(c)
      BY <1>a, <3>1, Zenon
    <3>2. CASE ~Return(c)
      <4>1. task' = [task EXCEPT ![c].at = "mark", ![c].exp = nextRecord(rec, "ACTIVE").rev]
        BY <1>5, <3>2, Zenon DEF activateCommit
      <4>2. nextRecord(rec, "ACTIVE").rev \in Nat
        <5>1. nextRecord(rec, "ACTIVE") \in Rows
          BY <1>0, NextRecordTyped, Zenon DEF ConsentStates, Live
        <5> QED
          BY <5>1, Zenon DEF Rows
      <4> QED
        BY <1>0, <4>1, <4>2, TaskUpdates, Zenon
    <3> QED
      BY <3>1, <3>2, Zenon
  <2>4. Harmless(c)
    BY <1>5, <2>2, <2>3, Zenon DEF activateCommit, Harmless
  <2> QED
    BY <2>4, HarmlessSteps, Zenon
<1>6. CASE \/ markActivated(c) \/ consumeLoad(c) \/ \E p \in proofs : consumeCommit(c, p)
           \/ leaseLoad(c) \/ releaseEnd(c) \/ mutatorLoad(c) \/ mutatorFails(c) \/ completeFence(c)
           \/ purgeLoad(c)
  <2>1. Harmless(c)
    BY <1>a, <1>6, Zenon DEF markActivated, consumeLoad, consumeCommit, leaseLoad, releaseEnd,
       mutatorLoad, mutatorFails, completeFence, purgeLoad, Harmless
  <2> QED
    BY <2>1, HarmlessSteps, Zenon
<1>7. CASE drainUses(c)
  <2>1. Harmless(c)
    BY <1>0, <1>7, DrainMoves, Zenon DEF drainUses, Joins, Harmless
  <2> QED
    BY <2>1, HarmlessSteps, Zenon
<1>8. CASE publishStart(c)
  <2>1. CASE task' = [task EXCEPT ![c].at = "publishing"] /\ rec.state = "ACTIVE"
    <3>1. /\ task'[c].at = "publishing" /\ \A d \in Callers \ {c} : task'[d] = task[d]
          /\ rec' = rec /\ derived' = derived
      BY <1>a, <1>8, <2>1, Zenon DEF publishStart, Step
    <3> QED
      BY <2>1, <3>1, Zenon DEF Revocation, RevocationIsComplete
  <2>2. CASE Return(c)
    <3>1. Harmless(c)
      BY <1>a, <1>8, <2>2, Zenon DEF publishStart, Harmless
    <3> QED
      BY <3>1, HarmlessSteps, Zenon
  <2> QED
    BY <1>8, <2>1, <2>2, Zenon DEF publishStart, signedProofContext
<1>9. CASE \E w \in BOOLEAN : publishEnd(c, w)
  <2>1. task[c].at = "publishing" /\ rec' = rec /\ Step(c) /\ task'[c].at = "idle"
    BY <1>a, <1>9, Zenon DEF publishEnd
  <2>2. \A d \in Callers : task'[d].at \notin {"publishing", "purged"}
    BY <1>c, <2>1, Zenon DEF Step, Locked
  <2> QED
    BY <2>1, <2>2, Zenon DEF Revocation, RevocationIsComplete
<1>10. CASE \E op \in Mutators : mutatorCommit(c, op)
  <2>1. task[c].at = "inside" /\ derived' = derived /\ Step(c) /\ task'[c].at = "idle"
    BY <1>a, <1>10, Zenon DEF mutatorCommit, Inside
  <2>2. \A d \in Callers : task'[d].at \notin {"publishing", "purged"}
    BY <1>c, <2>1, Zenon DEF Step, Locked
  <2>3. rec'.state = rec.state \/ rec'.state # "REVOKED"
    <3>1. PICK op \in Mutators : mutatorCommit(c, op)
      BY <1>10
    <3>2. MutatorTarget(op, rec.state) \in {"DEGRADED", "SUSPENDED", "REVOKING", "BLOCKED", "none"}
      BY Zenon DEF MutatorTarget
    <3> QED
      BY <1>b, <3>1, <3>2, Zenon DEF mutatorCommit, ConsentStates, Live
  <2> QED
    BY <2>1, <2>2, <2>3, Zenon DEF Revocation, RevocationIsComplete
<1>11. CASE \E p \in BOOLEAN : purgeAndVerify(c, p)
  <2>1. CASE derived' = FALSE /\ task' = [task EXCEPT ![c].at = "purged"]
    <3>1. task'[c].at = "purged" /\ (\A d \in Callers \ {c} : task'[d] = task[d]) /\ rec' = rec
      BY <1>a, <1>11, <2>1, Zenon DEF purgeAndVerify, Step
    <3> QED
      BY <2>1, <3>1, Zenon DEF Revocation, RevocationIsComplete
  <2>2. CASE Return(c) /\ derived' = derived
    <3>1. Harmless(c)
      BY <1>a, <1>11, <2>2, Zenon DEF purgeAndVerify, Harmless
    <3> QED
      BY <3>1, HarmlessSteps, Zenon
  <2> QED
    BY <1>11, <2>1, <2>2, Zenon DEF purgeAndVerify
<1>12. CASE purgeCommit(c)
  <2>1. task[c].at = "purged" /\ derived' = derived /\ Step(c) /\ task'[c].at = "idle"
    BY <1>a, <1>12, Zenon DEF purgeCommit
  <2>2. \A d \in Callers : task'[d].at \notin {"publishing", "purged"}
    BY <1>c, <2>1, Zenon DEF Step, Locked
  <2>3. ~derived
    BY <2>1, Zenon DEF Revocation
  <2> QED
    BY <2>1, <2>2, <2>3, Zenon DEF Revocation, RevocationIsComplete
<1> QED
  BY <1>1, <1>2, <1>3, <1>4, <1>5, <1>6, <1>7, <1>8, <1>9, <1>10, <1>11, <1>12, Zenon
     DEF CallNext, StepNext

\* Once the row says REVOKED no answer of the provider is in the index, and none is on its way:
\* publish, purgeAndVerify and the writes that revoke exclude each other under the slot's lock.
THEOREM RevocationCompletes == Spec => []RevocationIsComplete
<1>0. Idle.at = "idle" /\ NoRecord.state = "NONE"
  BY DEF Idle, NoRecord
<1>1. Init => Revocation
  <2> SUFFICES ASSUME Init PROVE Revocation
    OBVIOUS
  <2>1. rec.state = "NONE" /\ \A c \in Callers : task[c].at = "idle"
    BY <1>0, Zenon DEF Init
  <2> QED
    BY <2>1, Zenon DEF Revocation, RevocationIsComplete
<1>2. Revocation /\ (Crash \/ Tick \/ StepBack \/ UNCHANGED vars) => Revocation'
  <2> SUFFICES ASSUME Revocation, Crash \/ Tick \/ StepBack \/ UNCHANGED vars PROVE Revocation'
    OBVIOUS
  <2>1. rec' = rec /\ derived' = derived
    BY Zenon DEF Crash, Tick, StepBack, Keep, vars
  <2>2. task' = task \/ \A c \in Callers : task'[c].at = "idle"
    BY <1>0, Zenon DEF Crash, Tick, StepBack, vars
  <2> QED
    BY <2>1, <2>2, Zenon DEF Revocation, RevocationIsComplete
<1>3. Lock /\ Revocation /\ [Next]_vars => Revocation'
  BY <1>2, RevocationStep, Zenon DEF Next
<1>4. Revocation => RevocationIsComplete
  BY DEF Revocation
<1> QED
  BY LockInvariant, <1>1, <1>3, <1>4, PTL DEF Spec

(***************************************************************************)
(* The store can read what it holds.  A row is compared with the one it    *)
(* replaces in the transaction that writes it, so the argument is about    *)
(* single steps.  What it needs beyond the property: the row's nonce is a  *)
(* grant's and a proof's is not, and a card that waits has not been        *)
(* consumed.                                                               *)
(***************************************************************************)
\* The row rests on a grant nonce that was issued, at a time of the clock.
Linked(r) == r.card \in 1 .. Len(nonces) /\ validateRecordNonceLink(r) /\ r.issued >= 0

Readable ==
    /\ ~refused
    /\ rec.rev <= MaxRevision /\ Len(nonces) <= MaxNonces
    /\ rec.state = "NONE" => rec = NoRecord
    /\ rec.state # "NONE" => cleanRecord(rec) /\ Linked(rec)
    /\ rec.state = "AWAITING_CONSENT" => rec.consumed = Null
    /\ \A i \in 1 .. Len(nonces) : validatePersistedNonceRow(nonces[i])
    /\ \A p \in proofs : p.nonce \in 1 .. Len(nonces) /\ nonces[p.nonce].kind = "use"

LEMMA NextClean ==
  ASSUME rec \in Rows, now \in Nat, cleanRecord(rec), nextRecordAllowed(rec),
         rec.state # "AWAITING_CONSENT",
         NEW target \in ConsentStates, target # "AWAITING_CONSENT",
         target = "REVOKED" => rec.state = "REVOKING"
  PROVE  cleanRecord(nextRecord(rec, target))
<1> DEFINE next == nextRecord(rec, target)
<1>1. /\ next.state = target /\ next.rev = rec.rev + 1 /\ next.gen = rec.gen + 1
      /\ next.updated = now
      /\ next.revoking = IF target = "REVOKING" THEN now ELSE rec.revoking
      /\ next.fromRev = rec.fromRev /\ next.fromGen = rec.fromGen /\ next.issued = rec.issued
      /\ next.expires = rec.expires /\ next.accepted = rec.accepted
      /\ next.consumed = rec.consumed /\ next.created = rec.created
  BY NextFields, ZenonT(60)
<1>2. /\ rec.rev \in Nat /\ rec.gen \in Nat /\ rec.fromRev \in Nat /\ rec.fromGen \in Nat
      /\ rec.updated \in Int /\ rec.created \in Int /\ rec.issued \in Int /\ rec.expires \in Int
      /\ rec.accepted \in Int /\ rec.consumed \in Int /\ rec.revoking \in Int
  BY Zenon DEF Rows
<1> HIDE DEF next
<1>3. cleanRecord(next)
  BY <1>1, <1>2, SMT DEF cleanRecord, nextRecordAllowed
<1> QED
  BY <1>3, Zenon DEF next

\* A row the authority computes from the row it has read keeps the grant the row rests on.
LEMMA NextLinked ==
  ASSUME rec \in Rows, now \in Nat, Linked(rec), NEW target \in ConsentStates
  PROVE  Linked(nextRecord(rec, target))
<1> DEFINE next == nextRecord(rec, target)
<1>1. /\ next.card = rec.card /\ next.issued = rec.issued /\ next.expires = rec.expires
      /\ next.invalid = rec.invalid /\ next.consumed = rec.consumed
  BY NextFields, Zenon
<1> QED
  BY <1>1, Zenon DEF Linked, validateRecordNonceLink

\* The writes of activate, of the mutators and of completeRevoke.
Writes(target, exp) ==
    LET next == nextRecord(rec, target)
        goes == target # "none" /\ nextRecordAllowed(rec)
        out == Outcome(exp, next)
    IN
    /\ next.rev <= MaxRevision
    /\ rec' = IF goes /\ out = "committed" THEN next ELSE rec
    /\ refused' = (refused \/ (goes /\ out = "invalid"))
    /\ UNCHANGED <<nonces, proofs>>

LEMMA ReadableWrite ==
  ASSUME Types, Readable, NEW target \in ConsentStates \cup {"none"}, NEW exp, Writes(target, exp),
         target \notin {"NONE", "AWAITING_CONSENT", "CONSENTED"}
  PROVE  Readable'
<1> DEFINE next == nextRecord(rec, target)
           goes == target # "none" /\ nextRecordAllowed(rec)
           out == Outcome(exp, next)
<1>0. rec \in Rows /\ now \in Nat
  BY Zenon DEF Types
<1>1. CASE goes /\ out \in {"committed", "invalid"}
  <2>1. target \in ConsentStates
    BY <1>1, Zenon
  <2>2. next.state = target /\ next.gen = rec.gen + 1
    BY <1>0, <2>1, NextFields, Zenon
  <2>3. stateTransitionAllowed(rec.state, target)
    BY <1>1, <2>2, Zenon DEF Outcome
  <2>4. /\ rec.state \notin {"NONE", "AWAITING_CONSENT"}
        /\ target = "REVOKED" => rec.state = "REVOKING"
    BY <2>3, Zenon DEF stateTransitionAllowed
  <2>5. cleanRecord(next) /\ Linked(next)
    BY <1>0, <1>1, <2>1, <2>4, NextClean, NextLinked, Zenon DEF Readable
  <2>6. out = "committed"
    BY <1>1, <2>2, <2>5, Zenon DEF Outcome
  <2>7. rec' = next /\ ~refused' /\ next.rev <= MaxRevision
    BY <1>1, <2>6, Zenon DEF Writes, Readable
  <2>8. nonces' = nonces /\ proofs' = proofs
    BY Zenon DEF Writes
  <2> HIDE DEF next, goes, out
  <2>9. Linked(rec)'
    BY <2>5, <2>7, <2>8, Zenon DEF Linked, validateRecordNonceLink
  <2>10. cleanRecord(rec')
    BY <2>5, <2>7, Zenon
  <2> QED
    BY <2>2, <2>7, <2>8, <2>9, <2>10, Zenon DEF Readable
<1>2. CASE ~(goes /\ out \in {"committed", "invalid"})
  <2>1. rec' = rec /\ ~refused' /\ nonces' = nonces /\ proofs' = proofs
    BY <1>2, Zenon DEF Writes, Readable
  <2> QED
    BY <2>1, Zenon DEF Readable, Linked, validateRecordNonceLink
<1> QED
  BY <1>1, <1>2, Zenon

LEMMA ConsumeEffect ==
  ASSUME nonces \in Seq(NonceRows), now \in Nat, NEW n \in 1 .. Len(nonces)
  PROVE  /\ Consume(n) \in Seq(NonceRows) /\ Len(Consume(n)) = Len(nonces)
         /\ \A j \in 1 .. Len(nonces) : j # n => Consume(n)[j] = nonces[j]
         /\ Consume(n)[n].consumed = now /\ Consume(n)[n].kind = nonces[n].kind
         /\ Consume(n)[n].issued = nonces[n].issued /\ Consume(n)[n].expires = nonces[n].expires
         /\ Consume(n)[n].invalid = nonces[n].invalid
<1> DEFINE e == [nonces[n] EXCEPT !.consumed = now]
<1>1. nonces[n] \in NonceRows /\ now \in Int
  BY ElementOfSeq, SMT
<1>2. /\ e \in NonceRows /\ e.consumed = now /\ e.kind = nonces[n].kind
      /\ e.issued = nonces[n].issued /\ e.expires = nonces[n].expires
      /\ e.invalid = nonces[n].invalid
  <2>1. e \in NonceRows
    BY <1>1, NonceFields, Zenon
  <2> QED
    BY <1>1, <2>1, Zenon DEF NonceRows
<1>3. Consume(n) = [nonces EXCEPT ![n] = e]
  BY Zenon DEF Consume
<1> HIDE DEF e
<1>4. /\ Consume(n) \in Seq(NonceRows) /\ Len(Consume(n)) = Len(nonces)
      /\ \A j \in 1 .. Len(nonces) : Consume(n)[j] = IF j = n THEN e ELSE nonces[j]
  BY <1>2, <1>3, SequenceUpdate, SMT
<1> QED
  BY <1>2, <1>4, Zenon

Invalidate(n) == [nonces EXCEPT ![n].invalid = now]

LEMMA InvalidateEffect ==
  ASSUME nonces \in Seq(NonceRows), now \in Nat, NEW n \in 1 .. Len(nonces)
  PROVE  /\ Invalidate(n) \in Seq(NonceRows) /\ Len(Invalidate(n)) = Len(nonces)
         /\ \A j \in 1 .. Len(nonces) : j # n => Invalidate(n)[j] = nonces[j]
         /\ Invalidate(n)[n].invalid = now /\ Invalidate(n)[n].kind = nonces[n].kind
         /\ Invalidate(n)[n].issued = nonces[n].issued /\ Invalidate(n)[n].expires = nonces[n].expires
         /\ Invalidate(n)[n].consumed = nonces[n].consumed
<1> DEFINE e == [nonces[n] EXCEPT !.invalid = now]
<1>1. nonces[n] \in NonceRows /\ now \in Int
  BY ElementOfSeq, SMT
<1>2. /\ e \in NonceRows /\ e.invalid = now /\ e.kind = nonces[n].kind
      /\ e.issued = nonces[n].issued /\ e.expires = nonces[n].expires
      /\ e.consumed = nonces[n].consumed
  <2>1. e \in NonceRows
    BY <1>1, NonceFields, Zenon
  <2> QED
    BY <1>1, <2>1, Zenon DEF NonceRows
<1>3. Invalidate(n) = [nonces EXCEPT ![n] = e]
  BY Zenon DEF Invalidate
<1> HIDE DEF e
<1>4. /\ Invalidate(n) \in Seq(NonceRows) /\ Len(Invalidate(n)) = Len(nonces)
      /\ \A j \in 1 .. Len(nonces) : Invalidate(n)[j] = IF j = n THEN e ELSE nonces[j]
  BY <1>2, <1>3, SequenceUpdate, SMT
<1> QED
  BY <1>2, <1>4, Zenon

LEMMA ReadableRests ==
  ASSUME Readable, UNCHANGED <<rec, nonces, refused, proofs>>
  PROVE  Readable'
BY Zenon DEF Readable, Linked, validateRecordNonceLink

\* The store marks the request completed.
LEMMA ReadableComplete ==
  ASSUME Types, Readable, NEW c \in Callers, completeRequest(c), UNCHANGED <<rec, refused, proofs>>
  PROVE  Readable'
<1>1. /\ Len(nonces') = Len(nonces)
      /\ \A j \in 1 .. Len(nonces) :
            /\ nonces'[j].kind = nonces[j].kind /\ nonces'[j].issued = nonces[j].issued
            /\ nonces'[j].expires = nonces[j].expires /\ nonces'[j].consumed = nonces[j].consumed
            /\ nonces'[j].invalid = nonces[j].invalid
  BY CompleteEffect, Zenon DEF Types
<1>2. Linked(rec) => Linked(rec)'
  BY <1>1, Zenon DEF Linked, validateRecordNonceLink
<1>3. \A i \in 1 .. Len(nonces') : validatePersistedNonceRow(nonces'[i])
  BY <1>1, Zenon DEF Readable, validatePersistedNonceRow
<1>4. \A p \in proofs' : p.nonce \in 1 .. Len(nonces') /\ nonces'[p.nonce].kind = "use"
  BY <1>1, Zenon DEF Readable
<1> QED
  BY <1>1, <1>2, <1>3, <1>4, Zenon DEF Readable

\* A use proof is consumed: its nonce is not the grant's.
LEMMA ReadableConsume ==
  ASSUME Types, Readable, NEW p \in proofs, NonceUsable(p.nonce), nonces' = Consume(p.nonce),
         UNCHANGED <<rec, refused, proofs>>
  PROVE  Readable'
<1> DEFINE n == p.nonce
<1>1. n \in 1 .. Len(nonces) /\ nonces[n].kind = "use"
  BY Zenon DEF Readable
<1>2. /\ Len(nonces') = Len(nonces) /\ \A j \in 1 .. Len(nonces) : j # n => nonces'[j] = nonces[j]
      /\ nonces'[n].consumed = now /\ nonces'[n].kind = nonces[n].kind
      /\ nonces'[n].issued = nonces[n].issued /\ nonces'[n].expires = nonces[n].expires
      /\ nonces'[n].invalid = nonces[n].invalid
  BY <1>1, ConsumeEffect, Zenon DEF Types
<1>3. Linked(rec) => rec.card # n
  BY <1>1, Zenon DEF Linked, validateRecordNonceLink
<1>4. Linked(rec) => Linked(rec)'
  BY <1>2, <1>3, Zenon DEF Linked, validateRecordNonceLink
<1>5. validatePersistedNonceRow(nonces'[n])
  BY <1>1, <1>2, Zenon DEF Readable, validatePersistedNonceRow, NonceUsable
<1>6. \A i \in 1 .. Len(nonces') : validatePersistedNonceRow(nonces'[i])
  BY <1>2, <1>5, Zenon DEF Readable
<1>7. \A q \in proofs' : q.nonce \in 1 .. Len(nonces') /\ nonces'[q.nonce].kind = "use"
  BY <1>2, Zenon DEF Readable
<1> QED
  BY <1>2, <1>4, <1>6, <1>7, Zenon DEF Readable

\* What a new nonce leaves as it was.
LEMMA AppendKeeps ==
  ASSUME Types, Readable, NEW e \in NonceRows, nonces' = Append(nonces, e),
         Len(nonces) < MaxNonces, validatePersistedNonceRow(e)
  PROVE  /\ Len(nonces') = Len(nonces) + 1 /\ nonces'[Len(nonces) + 1] = e
         /\ \A i \in 1 .. Len(nonces) : i \in 1 .. Len(nonces') /\ nonces'[i] = nonces[i]
         /\ Len(nonces') <= MaxNonces
         /\ \A i \in 1 .. Len(nonces') : validatePersistedNonceRow(nonces'[i])
         /\ Linked(rec) /\ rec' = rec => Linked(rec)'
<1>1. nonces \in Seq(NonceRows) /\ Len(nonces) \in Nat
  BY LenProperties, Zenon DEF Types
<1>2. /\ Len(nonces') = Len(nonces) + 1 /\ nonces'[Len(nonces) + 1] = e
      /\ \A i \in 1 .. Len(nonces) : nonces'[i] = nonces[i]
  BY <1>1, AppendProperties, SMT
<1>3. /\ \A i \in 1 .. Len(nonces) : i \in 1 .. Len(nonces')
      /\ \A i \in 1 .. Len(nonces') : i \in 1 .. Len(nonces) \/ i = Len(nonces) + 1
  BY <1>1, <1>2, SMT
<1>4. Len(nonces') <= MaxNonces
  BY <1>1, <1>2, LivesAssumption, SMT
<1>5. \A i \in 1 .. Len(nonces') : validatePersistedNonceRow(nonces'[i])
  BY <1>2, <1>3, Zenon DEF Readable
<1>6. Linked(rec) /\ rec' = rec => Linked(rec)'
  BY <1>2, <1>3, Zenon DEF Linked, validateRecordNonceLink
<1> QED
  BY <1>2, <1>3, <1>4, <1>5, <1>6, Zenon

LEMMA ReadableIssue ==
  ASSUME Types, Readable, NEW c \in Callers, NEW b \in Connections, issueCommit(c, b)
  PROVE  Readable'
<1>1. CASE UNCHANGED <<nonces, proofs>>
  BY <1>1, ReadableRests, Zenon DEF issueCommit
<1>2. CASE nonces' = Append(nonces, useNonce) /\ proofs' = proofs \cup {useProof(b)}
  <2>1. useNonce \in NonceRows
    BY UseTyped, Zenon DEF Types
  <2>2. validatePersistedNonceRow(useNonce)
    BY LivesAssumption, SMT DEF validatePersistedNonceRow, useNonce, Null, Types
  <2>3. rec' = rec /\ refused' = refused /\ Len(nonces) < MaxNonces
    BY Zenon DEF issueCommit
  <2>4. /\ Len(nonces') = Len(nonces) + 1 /\ nonces'[Len(nonces) + 1] = useNonce
        /\ \A i \in 1 .. Len(nonces) : i \in 1 .. Len(nonces') /\ nonces'[i] = nonces[i]
        /\ Len(nonces') <= MaxNonces
        /\ \A i \in 1 .. Len(nonces') : validatePersistedNonceRow(nonces'[i])
        /\ Linked(rec) => Linked(rec)'
    BY <1>2, <2>1, <2>2, <2>3, AppendKeeps, Zenon
  <2>5. useProof(b).nonce = Len(nonces) + 1 /\ useNonce.kind = "use"
    BY Zenon DEF useProof, useNonce
  <2>6. Len(nonces) + 1 \in 1 .. Len(nonces')
    BY <2>4, LenProperties, SMT DEF Types
  <2>7. \A p \in proofs' : p.nonce \in 1 .. Len(nonces') /\ nonces'[p.nonce].kind = "use"
    BY <1>2, <2>4, <2>5, <2>6, Zenon DEF Readable
  <2> QED
    BY <2>3, <2>4, <2>7, Zenon DEF Readable
<1> QED
  BY <1>1, <1>2, Zenon DEF issueCommit

LEMMA ReadableBegin ==
  ASSUME Types, Readable, NEW c \in Callers, NEW b \in Connections, beginCommit(c, b)
  PROVE  Readable'
<1> DEFINE next == pendingRecord(b)
<1>1. /\ next.state = "AWAITING_CONSENT" /\ next.consumed = Null /\ next.gen = rec.gen + 1
      /\ next.card = Len(nonces) + 1 /\ next.invalid = Null
      /\ next.issued = now /\ next.expires = now + GrantLife
  BY Zenon DEF pendingRecord
<1>2. cleanRecord(next)
  <2>1. /\ next.updated = now /\ next.created = now /\ next.rev = next.fromRev
        /\ next.gen = next.fromGen /\ next.rev = rec.rev + 1 /\ next.gen = rec.gen + 1
    BY Zenon DEF pendingRecord
  <2>2. now \in Nat /\ rec.rev \in Nat /\ rec.gen \in Nat
    BY Zenon DEF Types, Rows
  <2> HIDE DEF next
  <2>3. /\ next.updated >= next.created /\ next.expires > next.issued
        /\ next.rev - next.fromRev = next.gen - next.fromGen
    BY <1>1, <2>1, <2>2, LivesAssumption, SMT
  <2> QED
    BY <1>1, <2>1, <2>3, Zenon DEF cleanRecord
<1>3. Outcome(task[c].exp, next) # "invalid"
  BY <1>1, <1>2, Zenon DEF Outcome
<1> HIDE DEF next
<1>6. now >= 0
  BY SMT DEF Types
<1>4. CASE UNCHANGED <<rec, nonces>>
  <2>1. ~refused' /\ proofs' = proofs
    BY <1>3, Zenon DEF beginCommit, Readable, next
  <2> QED
    BY <1>4, <2>1, Zenon DEF Readable, Linked, validateRecordNonceLink
<1>5. CASE rec' = next /\ nonces' = Append(nonces, grantNonce)
  <2>1. grantNonce \in NonceRows
    BY PendingTyped, Zenon DEF Types
  <2>2. /\ validatePersistedNonceRow(grantNonce) /\ grantNonce.kind = "grant"
        /\ grantNonce.issued = now /\ grantNonce.expires = now + GrantLife
        /\ grantNonce.consumed = Null /\ grantNonce.invalid = Null
    BY LivesAssumption, SMT DEF validatePersistedNonceRow, grantNonce, Null, Types
  <2>3. ~refused' /\ proofs' = proofs /\ Len(nonces) < MaxNonces /\ next.rev <= MaxRevision
    BY <1>3, Zenon DEF beginCommit, Readable, next
  <2>4. /\ Len(nonces') = Len(nonces) + 1 /\ nonces'[Len(nonces) + 1] = grantNonce
        /\ \A i \in 1 .. Len(nonces) : i \in 1 .. Len(nonces') /\ nonces'[i] = nonces[i]
        /\ Len(nonces') <= MaxNonces
        /\ \A i \in 1 .. Len(nonces') : validatePersistedNonceRow(nonces'[i])
    BY <1>5, <2>1, <2>2, <2>3, AppendKeeps, Zenon
  <2>5. Len(nonces) + 1 \in 1 .. Len(nonces')
    BY <2>4, LenProperties, SMT DEF Types
  <2>6. Linked(rec)'
    BY <1>1, <1>5, <1>6, <2>2, <2>4, <2>5, Zenon DEF Linked, validateRecordNonceLink
  <2>7. \A p \in proofs' : p.nonce \in 1 .. Len(nonces') /\ nonces'[p.nonce].kind = "use"
    BY <2>3, <2>4, Zenon DEF Readable
  <2>8. cleanRecord(rec')
    BY <1>2, <1>5, Zenon
  <2> QED
    BY <1>1, <1>5, <2>3, <2>4, <2>6, <2>7, <2>8, Zenon DEF Readable
<1> QED
  BY <1>4, <1>5, Zenon DEF beginCommit, next

LEMMA ReadableConfirm ==
  ASSUME Types, Readable, NEW c \in Callers, NEW k, NEW a \in Int, confirmCommit(c, k, a)
  PROVE  Readable'
<1> DEFINE next == consentedRecord(a)
           out == Outcome(task[c].exp, next)
<1>0. /\ rec \in Rows /\ nonces \in Seq(NonceRows) /\ now \in Nat
      /\ rec.rev \in Nat /\ rec.gen \in Nat /\ rec.fromRev \in Nat /\ rec.fromGen \in Nat
      /\ rec.updated \in Int /\ rec.created \in Int /\ rec.issued \in Int /\ rec.expires \in Int
  BY Zenon DEF Types, Rows
<1>1. /\ next.state = "CONSENTED" /\ next.rev = rec.rev + 1 /\ next.gen = rec.gen + 1
      /\ next.accepted = a /\ next.consumed = now /\ next.updated = now
      /\ next.fromRev = rec.fromRev /\ next.fromGen = rec.fromGen /\ next.issued = rec.issued
      /\ next.expires = rec.expires /\ next.created = rec.created
      /\ next.card = rec.card /\ next.invalid = rec.invalid
  BY <1>0, Zenon DEF consentedRecord, Rows
<1>2. ASSUME ApprovalHolds(k, a), rec.state = "AWAITING_CONSENT" PROVE cleanRecord(next)
  <2>1. cleanRecord(rec)
    BY <1>2, Zenon DEF Readable
  <2>2. /\ rec.issued = rec.created /\ rec.expires > rec.issued
        /\ rec.rev - rec.fromRev = rec.gen - rec.fromGen
        /\ rec.rev = rec.fromRev \/ rec.rev = rec.fromRev + 1
    BY <1>2, <2>1, Zenon DEF cleanRecord
  <2>3. rec.issued <= a /\ a <= now /\ now < rec.expires
    BY <1>2, Zenon DEF ApprovalHolds
  <2> HIDE DEF next
  <2>4. /\ next.updated >= next.created /\ next.issued <= next.accepted
        /\ next.accepted <= next.consumed /\ next.consumed < next.expires
        /\ next.updated >= next.consumed
    BY <1>0, <1>1, <2>2, <2>3, SMT
  <2>5. next.rev - next.fromRev = next.gen - next.fromGen /\ next.rev > next.fromRev
    <3>1. next.rev = rec.rev + 1 /\ next.fromRev = rec.fromRev
      BY <1>1, Zenon
    <3>2. next.gen = rec.gen + 1 /\ next.fromGen = rec.fromGen
      BY <1>1, Zenon
    <3>3. next.rev > next.fromRev
      BY <1>0, <2>2, <3>1, SMT
    <3>4. next.rev - next.fromRev = next.gen - next.fromGen
      <4>1. /\ rec.rev \in Nat /\ rec.gen \in Nat /\ rec.fromRev \in Nat /\ rec.fromGen \in Nat
            /\ rec.rev - rec.fromRev = rec.gen - rec.fromGen
        BY <1>0, <2>2, Zenon
      <4> QED
        BY <3>1, <3>2, <4>1, SMT
    <3> QED
      BY <3>3, <3>4
  <2> QED
    BY <1>1, <2>2, <2>4, <2>5, Zenon DEF cleanRecord
<1> HIDE DEF next
<1>3. ApprovalHolds(k, a) => out # "invalid"
  BY <1>1, <1>2, Zenon DEF Outcome, stateTransitionAllowed
<1>4. ~refused' /\ proofs' = proofs
  BY <1>3, Zenon DEF confirmCommit, Readable, next
<1>5. CASE UNCHANGED <<rec, nonces>>
  BY <1>4, <1>5, Zenon DEF Readable, Linked, validateRecordNonceLink
<1>6. CASE /\ ApprovalHolds(k, a) /\ out = "committed" /\ NonceUsable(rec.card)
           /\ rec' = next /\ nonces' = Consume(rec.card)
  <2>1. rec.state = "AWAITING_CONSENT"
    BY <1>1, <1>6, Zenon DEF Outcome, stateTransitionAllowed
  <2>2. cleanRecord(rec') /\ Linked(rec) /\ next.rev <= MaxRevision
    BY <1>2, <1>6, <2>1, Zenon DEF Readable, confirmCommit, next
  <2> DEFINE n == rec.card
  <2>3. n \in 1 .. Len(nonces) /\ nonces[n].kind = "grant"
    BY <2>2, Zenon DEF Linked, validateRecordNonceLink
  <2>4. /\ Len(nonces') = Len(nonces) /\ \A j \in 1 .. Len(nonces) : j # n => nonces'[j] = nonces[j]
        /\ nonces'[n].consumed = now /\ nonces'[n].kind = nonces[n].kind
        /\ nonces'[n].issued = nonces[n].issued /\ nonces'[n].expires = nonces[n].expires
        /\ nonces'[n].invalid = nonces[n].invalid
    BY <1>0, <1>6, <2>3, ConsumeEffect, Zenon
  <2>5. Linked(rec)'
    BY <1>1, <1>6, <2>2, <2>4, Zenon DEF Linked, validateRecordNonceLink
  <2>6. validatePersistedNonceRow(nonces'[n])
    BY <1>6, <2>3, <2>4, Zenon DEF Readable, validatePersistedNonceRow, NonceUsable
  <2>7. \A i \in 1 .. Len(nonces') : validatePersistedNonceRow(nonces'[i])
    BY <2>4, <2>6, Zenon DEF Readable
  <2>8. \A p \in proofs' : p.nonce \in 1 .. Len(nonces') /\ nonces'[p.nonce].kind = "use"
    BY <1>4, <2>4, Zenon DEF Readable
  <2> QED
    BY <1>1, <1>4, <1>6, <2>2, <2>4, <2>5, <2>7, <2>8, Zenon DEF Readable
<1> QED
  BY <1>5, <1>6, Zenon DEF confirmCommit, next

\* The row of an earlier boot's card, once it is invalidated.
LEMMA InvalidatedClean ==
  ASSUME Types, Readable, rec.state = "AWAITING_CONSENT", rec.invalid = Null, now >= rec.updated
  PROVE  cleanRecord(invalidatedRecord(rec)) /\ now >= rec.issued
<1> DEFINE next == invalidatedRecord(rec)
<1>0. /\ rec \in Rows /\ nonces \in Seq(NonceRows) /\ now \in Nat
      /\ rec.rev \in Nat /\ rec.gen \in Nat /\ rec.fromRev \in Nat /\ rec.fromGen \in Nat
      /\ rec.updated \in Int /\ rec.created \in Int /\ rec.issued \in Int /\ rec.expires \in Int
  BY Zenon DEF Types, Rows
<1>1. /\ next.state = "AWAITING_CONSENT" /\ next.rev = rec.rev + 1 /\ next.gen = rec.gen + 1
      /\ next.updated = now /\ next.invalid = now /\ next.consumed = rec.consumed
      /\ next.fromRev = rec.fromRev /\ next.fromGen = rec.fromGen /\ next.issued = rec.issued
      /\ next.expires = rec.expires /\ next.created = rec.created /\ next.card = rec.card
  BY <1>0, Zenon DEF invalidatedRecord, Rows
<1> HIDE DEF next
<1>2. cleanRecord(rec) /\ Linked(rec) /\ rec.consumed = Null
  BY Zenon DEF Readable
<1>3. cleanRecord(next) /\ now >= rec.issued
  <2>1. /\ rec.issued = rec.created /\ rec.expires > rec.issued /\ rec.rev = rec.fromRev
        /\ rec.rev - rec.fromRev = rec.gen - rec.fromGen /\ rec.updated = rec.created
    <3>1. \/ rec.invalid = Null /\ rec.rev = rec.fromRev /\ rec.updated = rec.created
          \/ rec.invalid >= rec.issued /\ rec.updated = rec.invalid
      BY <1>2, Zenon DEF cleanRecord
    <3>2. /\ rec.issued = rec.created /\ rec.expires > rec.issued
          /\ rec.rev - rec.fromRev = rec.gen - rec.fromGen /\ rec.updated >= rec.created
      BY <1>2, Zenon DEF cleanRecord
    <3>3. rec.issued >= 0
      BY <1>2, Zenon DEF Linked
    <3> QED
      BY <1>0, <3>1, <3>2, <3>3, SMT DEF Null
  <2>2. /\ next.updated >= next.created /\ next.rev - next.fromRev = next.gen - next.fromGen
        /\ next.invalid >= next.issued /\ next.rev = next.fromRev + 1
    BY <1>0, <1>1, <2>1, SMT
  <2> QED
    BY <1>1, <2>1, <2>2, Zenon DEF cleanRecord
<1> QED
  BY <1>3, Zenon DEF next

\* The card of an earlier boot is invalidated in its row and in its nonce.
LEMMA ReadableInvalidated ==
  ASSUME Types, Readable, rec.state = "AWAITING_CONSENT", rec.invalid = Null, now >= rec.updated,
         rec' = invalidatedRecord(rec), rec'.rev <= MaxRevision, ~refused',
         nonces' = Invalidate(rec.card), proofs' = proofs
  PROVE  Readable'
<1> DEFINE next == invalidatedRecord(rec)
           n == rec.card
<1>0. rec \in Rows /\ nonces \in Seq(NonceRows) /\ now \in Nat
  BY Zenon DEF Types
<1>1. /\ next.state = "AWAITING_CONSENT" /\ next.rev = rec.rev + 1 /\ next.gen = rec.gen + 1
      /\ next.updated = now /\ next.invalid = now /\ next.consumed = rec.consumed
      /\ next.fromRev = rec.fromRev /\ next.fromGen = rec.fromGen /\ next.issued = rec.issued
      /\ next.expires = rec.expires /\ next.created = rec.created /\ next.card = rec.card
  BY <1>0, Zenon DEF invalidatedRecord, Rows
<1> HIDE DEF next
<1>2. cleanRecord(rec) /\ Linked(rec) /\ rec.consumed = Null
  BY Zenon DEF Readable
<1>3. cleanRecord(next) /\ now >= rec.issued
  BY InvalidatedClean, Zenon DEF next
<1>4. n \in 1 .. Len(nonces) /\ nonces[n].consumed = Null /\ nonces[n].issued = rec.issued
  BY <1>2, Zenon DEF Linked, validateRecordNonceLink
<1>5. /\ Len(nonces') = Len(nonces) /\ \A j \in 1 .. Len(nonces) : j # n => nonces'[j] = nonces[j]
      /\ nonces'[n].invalid = now /\ nonces'[n].kind = nonces[n].kind
      /\ nonces'[n].issued = nonces[n].issued /\ nonces'[n].expires = nonces[n].expires
      /\ nonces'[n].consumed = nonces[n].consumed
  BY <1>0, <1>4, InvalidateEffect, Zenon
<1>6. Linked(rec)'
  BY <1>1, <1>2, <1>5, Zenon DEF Linked, validateRecordNonceLink, next
<1>8. validatePersistedNonceRow(nonces'[n])
  BY <1>3, <1>4, <1>5, Zenon DEF Readable, validatePersistedNonceRow
<1>9. \A i \in 1 .. Len(nonces') : validatePersistedNonceRow(nonces'[i])
  BY <1>5, <1>8, Zenon DEF Readable
<1>10. \A p \in proofs' : p.nonce \in 1 .. Len(nonces') /\ nonces'[p.nonce].kind = "use"
  BY <1>5, Zenon DEF Readable
<1>11. cleanRecord(rec') /\ rec'.state = "AWAITING_CONSENT" /\ rec'.consumed = Null
  BY <1>1, <1>2, <1>3, Zenon DEF next
<1> QED
  BY <1>3, <1>5, <1>6, <1>9, <1>10, <1>11, Zenon DEF Readable, next

LEMMA ReadableRecover ==
  ASSUME Types, Readable, recoverTransaction, proofs' = proofs
  PROVE  Readable'
<1> DEFINE next == Recovered(rec)
           runs == next = rec \/ now >= rec.updated
<1>0. /\ rec \in Rows /\ now \in Nat /\ rec.rev \in Nat /\ Null \notin Nat
      /\ NoRecord.state = "NONE" /\ rec.rev + 1 # rec.rev
  BY SMTT(40) DEF Types, Rows, Null, NoRecord
<1>1. next.rev <= MaxRevision
  BY Zenon DEF recoverTransaction
<1>2. CASE ~runs
  <2>1. rec' = rec /\ nonces' = nonces /\ ~refused'
    BY <1>2, Zenon DEF recoverTransaction, Readable
  <2> QED
    BY <2>1, Zenon DEF Readable, Linked, validateRecordNonceLink
<1>3. CASE runs /\ rec.state = "AWAITING_CONSENT" /\ rec.boot # boot /\ rec.invalid = Null
  <2>1. next = invalidatedRecord(rec)
    BY <1>3, Zenon DEF Recovered
  <2>2. next.invalid = now /\ next.rev = rec.rev + 1 /\ next.state = rec.state
    BY <1>0, <2>1, Zenon DEF invalidatedRecord, Rows
  <2>3. next # rec /\ next # NoRecord /\ next.invalid # rec.invalid
    BY <1>0, <1>3, <2>2, Zenon
  <2>4. rec' = next /\ nonces' = Invalidate(rec.card) /\ now >= rec.updated
    BY <1>3, <2>3, Zenon DEF recoverTransaction, Invalidate
  <2>5. cleanRecord(next)
    BY <1>3, <2>1, <2>4, InvalidatedClean, Zenon
  <2>6. ~refused'
    BY <2>5, Zenon DEF recoverTransaction, Readable
  <2> QED
    BY <1>1, <1>3, <2>1, <2>4, <2>6, ReadableInvalidated, Zenon
<1>4. CASE runs /\ rec.state \in {"ACTIVE", "DEGRADED"}
  <2>1. next = nextRecord(rec, "SUSPENDED")
    BY <1>4, Zenon DEF Recovered
  <2>2. "SUSPENDED" \in ConsentStates
    BY DEF ConsentStates, Live
  <2>3. next.invalid = rec.invalid /\ next.rev = rec.rev + 1 /\ next.state = "SUSPENDED"
    <3>1. /\ nextRecord(rec, "SUSPENDED").invalid = rec.invalid
          /\ nextRecord(rec, "SUSPENDED").rev = rec.rev + 1
          /\ nextRecord(rec, "SUSPENDED").state = "SUSPENDED"
      BY <1>0, <2>2, NextFields, Zenon
    <3> QED
      BY <2>1, <3>1, Zenon
  <2>4. nextRecordAllowed(rec)
    BY <1>0, <1>4, <2>3, Zenon DEF nextRecordAllowed
  <2>5. cleanRecord(next) /\ Linked(next)
    BY <1>0, <1>4, <2>1, <2>2, <2>4, NextClean, NextLinked, Zenon DEF Readable
  <2>6. rec' = next /\ nonces' = nonces /\ ~refused'
    BY <1>4, <2>3, <2>5, Zenon DEF recoverTransaction, Readable
  <2> HIDE DEF next, runs
  <2>7. Linked(rec)' /\ cleanRecord(rec')
    BY <2>5, <2>6, Zenon DEF Linked, validateRecordNonceLink
  <2> QED
    BY <1>1, <2>3, <2>6, <2>7, Zenon DEF Readable
<1>5. CASE runs /\ next = rec
  <2>1. rec' = rec /\ nonces' = nonces
    BY <1>5, Zenon DEF recoverTransaction
  <2>2. ~refused'
    BY <1>5, Zenon DEF recoverTransaction, Readable
  <2> QED
    BY <2>1, <2>2, Zenon DEF Readable, Linked, validateRecordNonceLink
<1> QED
  BY <1>2, <1>3, <1>4, <1>5, Zenon DEF Recovered

LEMMA ReadableStep ==
  ASSUME Types, Readable, NEW c \in Callers, CallNext(c) \/ StepNext(c)
  PROVE  Readable'
<1>1. CASE UNCHANGED <<rec, nonces, refused, proofs>>
  BY <1>1, ReadableRests, Zenon
<1>2. CASE recoverForBoot(c) \/ recoverLocked(c)
  BY <1>1, <1>2, ReadableRecover, Zenon DEF recoverForBoot, recoverLocked
<1>3. CASE \E b \in Connections : beginCommit(c, b) \/ issueCommit(c, b)
  BY <1>3, ReadableBegin, ReadableIssue, Zenon
<1>4. CASE \E k \in 1 .. Len(nonces), a \in 0 .. now : confirmCommit(c, k, a)
  <2>1. \A a \in 0 .. now : a \in Int
    BY SMT DEF Types
  <2> QED
    BY <1>4, <2>1, ReadableConfirm, Zenon
<1>5. ASSUME NEW b, NEW h, activateCommit(c, b, h) PROVE Readable'
  <2>1. /\ ActivationTarget(b, h) \in ConsentStates \cup {"none"}
        /\ ActivationTarget(b, h) \in {"BLOCKED", "ACTIVE", "DEGRADED", "none"}
    BY TargetsTyped, Zenon DEF ActivationTarget
  <2>2. Writes(ActivationTarget(b, h), task[c].exp)
    BY <1>5, Zenon DEF activateCommit, Writes
  <2> QED
    BY <2>1, <2>2, ReadableWrite, Zenon
<1>6. ASSUME NEW op, mutatorCommit(c, op) PROVE Readable'
  <2>1. /\ MutatorTarget(op, rec.state) \in ConsentStates \cup {"none"}
        /\ MutatorTarget(op, rec.state) \in {"DEGRADED", "SUSPENDED", "REVOKING", "BLOCKED", "none"}
    BY TargetsTyped, Zenon DEF MutatorTarget
  <2>2. Writes(MutatorTarget(op, rec.state), task[c].exp)
    BY <1>6, Zenon DEF mutatorCommit, Writes
  <2> QED
    BY <2>1, <2>2, ReadableWrite, Zenon
<1>7. CASE purgeCommit(c)
  <2>1. /\ "REVOKED" \in ConsentStates \cup {"none"}
        /\ "REVOKED" \notin {"NONE", "AWAITING_CONSENT", "CONSENTED"}
    BY DEF ConsentStates
  <2>2. Writes("REVOKED", task[c].exp)
    BY <1>7, Zenon DEF purgeCommit, Writes
  <2> QED
    BY <2>1, <2>2, ReadableWrite, Zenon
<1>8. CASE \E p \in proofs : consumeCommit(c, p)
  BY <1>1, <1>8, ReadableConsume, Zenon DEF consumeCommit
<1>9. CASE releaseEnd(c) \/ \E w \in BOOLEAN : publishEnd(c, w)
  BY <1>1, <1>9, ReadableComplete, Zenon DEF releaseEnd, publishEnd
<1> QED
  BY <1>1, <1>2, <1>3, <1>4, <1>5, <1>6, <1>7, <1>8, <1>9, Zenon DEF CallNext, StepNext, Keep,
     refusedCall, beginConsent, confirmConsent, activate, issueUseProof, consumeUseProof, publish,
     release, callMutator, completeRevoke, markActivated, consumeLoad, leaseLoad, publishStart,
     mutatorLoad, mutatorFails, completeFence, drainUses, purgeLoad, purgeAndVerify

\* The store can always read what it holds and never has to refuse a row the authority computed,
\* whatever the clock does and wherever the process died.
THEOREM ConsentIsReadable == Spec => []StoredConsentIsReadable
<1>1. Init => Readable
  <2> SUFFICES ASSUME Init PROVE Readable
    OBVIOUS
  <2>1. NoRecord.state = "NONE" /\ NoRecord.rev = 0 /\ 0 <= MaxRevision /\ 0 <= MaxNonces
    BY LivesAssumption, SMT DEF NoRecord
  <2>2. nonces = <<>> /\ Len(nonces) = 0 /\ \A i \in 1 .. Len(nonces) : FALSE
    BY SMT DEF Init
  <2> QED
    BY <2>1, <2>2, Zenon DEF Init, Readable
<1>2. Readable /\ (Crash \/ Tick \/ StepBack \/ UNCHANGED vars) => Readable'
  <2>1. Crash \/ Tick \/ StepBack \/ UNCHANGED vars => UNCHANGED <<rec, nonces, refused, proofs>>
    BY Zenon DEF Crash, Tick, StepBack, Keep, vars
  <2> QED
    BY <2>1, ReadableRests, Zenon
<1>3. Lock /\ Readable /\ [Next]_vars => Readable'
  BY <1>2, ReadableStep, Zenon DEF Next, Lock
<1>4. Lock /\ Readable => StoredConsentIsReadable
  <2> SUFFICES ASSUME Lock, Readable PROVE StoredConsentIsReadable
    OBVIOUS
  <2>1. rec.state \in ConsentStates /\ rec.rev \in 0 .. MaxRevision
    BY LivesAssumption, SMT DEF Lock, Types, Rows, Readable
  <2>2. \A i \in 1 .. Len(queue) : task[queue[i]] # Idle
    <3>1. Idle.at \notin Queued
      BY DEF Idle, Queued, Locked
    <3> QED
      BY <3>1, Zenon DEF Lock, Mutex
  <2>3. TypeOK
    BY <2>1, <2>2, Zenon DEF TypeOK, ConsentStates, Readable, Lock, Mutex
  <2>4. NoRecord.state = "NONE"
    BY DEF NoRecord
  <2> QED
    BY <2>3, <2>4, Zenon DEF StoredConsentIsReadable, Readable, Linked
<1> QED
  BY LockInvariant, <1>1, <1>3, <1>4, PTL DEF Spec
=============================================================================
