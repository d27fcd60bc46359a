----------------------- MODULE WebhookDeliveryProofs -----------------------
(***************************************************************************)
(* Proofs about WebhookDelivery, for any number of deliveries, workers,    *)
(* replays and attempts.                                                   *)
(*                                                                         *)
(* A worker decides while it holds the row lock, a replay on a row that it *)
(* read without one.  The invariant says why the lock is enough for the    *)
(* workers: whoever else writes a row waits for its lock, so that the row  *)
(* a worker sends stays the pending row with the count it read.            *)
(***************************************************************************)
EXTENDS WebhookDelivery, TLAPS

\* A row that is still to be sent has an attempt left.
PendingHasAnAttemptLeft ==
    \A d \in Deliveries : delivery[d].status = "pending" => settled[d] < max_attempts

\* A replay that has read a row finds it again.
ReplaysHaveRows ==
    \A o \in Operators : replay[o] # Idle => delivery[replay[o].id] # NoRow

IInv ==
    /\ TypeOK
    /\ ReplaysHaveRows
    /\ OnlyPendingIsSent
    /\ AttemptsAreCounted
    /\ PendingHasAnAttemptLeft

-----------------------------------------------------------------------------
(* Types.                                                                  *)

Rows == WebhookDelivery \cup {NoRow}

\* The fields of a row, whether it is there or not.
LEMMA RowType ==
    ASSUME NEW row \in Rows
    PROVE  /\ row.attempt_count \in Nat
           /\ row.status \in {"absent", "pending", "delivered", "failed"}
           /\ row.status = "absent" => row = NoRow
           /\ row.status # "absent" => row \in WebhookDelivery
BY DEF Rows, WebhookDelivery, NoRow

LEMMA RecordedType ==
    ASSUME NEW attempts \in Nat, NEW outcome
    PROVE  /\ Recorded(attempts, outcome) \in WebhookDelivery
           /\ Recorded(attempts, outcome).attempt_count = attempts
           /\ Recorded(attempts, outcome).status = "pending" => attempts < max_attempts
BY AttemptsAssumption DEF Recorded, WebhookDelivery, Exhausted

LEMMA RequeuedType ==
    ASSUME NEW row \in WebhookDelivery, NEW seen \in WebhookDelivery
    PROVE  /\ Requeued(row, seen) \in WebhookDelivery
           /\ Requeued(row, seen).status \in {row.status, "pending"}
BY DEF Requeued, WebhookDelivery

\* What a run of a worker is, phase by phase.
LEMMA RunType ==
    ASSUME TypeOK, NEW w \in Workers
    PROVE  /\ worker[w] # Idle => worker[w] \in Run
           /\ worker[w].phase = "picking" =>
                 /\ worker[w] \in [phase : {"picking"}, todo : SUBSET Deliveries]
                 /\ worker[w].todo \subseteq Deliveries
           /\ worker[w].phase = "sending" =>
                 /\ worker[w].todo \subseteq Deliveries
                 /\ worker[w].id \in Deliveries
                 /\ worker[w].count \in Nat
           /\ worker[w].phase = "answered" =>
                 /\ worker[w].todo \subseteq Deliveries
                 /\ worker[w].id \in Deliveries
                 /\ worker[w].count \in Nat
                 /\ worker[w].outcome \in Outcome
BY DEF TypeOK, Run, Idle

LEMMA ReplayType ==
    ASSUME TypeOK, NEW o \in Operators, replay[o] # Idle
    PROVE  replay[o].id \in Deliveries /\ replay[o].seen \in WebhookDelivery
BY DEF TypeOK, Replay

-----------------------------------------------------------------------------
(* A step of a worker that leaves the tables alone.                        *)

\* It is enough that the row it holds afterwards, if any, is one it held before with the
\* same count, or one that is pending, that nobody holds, and whose count it has read.
LEMMA WorkerStep ==
    ASSUME IInv, NEW w \in Workers, NEW run \in Run \cup {Idle},
           worker' = [worker EXCEPT ![w] = run],
           UNCHANGED <<delivery, replay, settled>>,
           run.phase \in {"sending", "answered"} =>
              \/ Holds(w, run.id) /\ run.count = worker[w].count
              \/ Obtainable(run.id) /\ run.count = delivery[run.id].attempt_count
    PROVE  IInv'
<1>1. worker' \in [Workers -> Run \cup {Idle}] /\ worker'[w] = run
      /\ \A v \in Workers \ {w} : worker'[v] = worker[v]
  BY DEF IInv, TypeOK
<1>2. TypeOK'
  BY <1>1 DEF IInv, TypeOK
<1>3. \A v \in Workers \ {w} : \A d \in Deliveries : Holds(v, d)' <=> Holds(v, d)
  BY <1>1 DEF Holds
<1>4. ASSUME NEW d \in Deliveries, Holds(w, d)'
      PROVE  /\ delivery[d].status = "pending"
             /\ delivery[d].attempt_count = run.count
             /\ \A v \in Workers \ {w} : ~Holds(v, d)
  <2>1. run.phase \in {"sending", "answered"} /\ run.id = d
    BY <1>1, <1>4 DEF Holds
  <2> QED
    BY <2>1 DEF IInv, OnlyPendingIsSent, Obtainable, Locked
<1>5. OnlyPendingIsSent'
  <2> SUFFICES ASSUME NEW u \in Workers, NEW d \in Deliveries, Holds(u, d)'
               PROVE  /\ delivery[d].status = "pending"
                      /\ delivery[d].attempt_count = worker'[u].count
                      /\ \A v \in Workers : Holds(v, d)' => v = u
    BY DEF OnlyPendingIsSent
  <2>1. CASE u = w
    BY <2>1, <1>1, <1>3, <1>4
  <2>2. CASE u # w
    <3>1. Holds(u, d) /\ ~Holds(w, d)'
      BY <2>2, <1>3, <1>4
    <3> QED BY <3>1, <2>2, <1>1, <1>3 DEF IInv, OnlyPendingIsSent
  <2> QED BY <2>1, <2>2
<1> QED BY <1>2, <1>5 DEF IInv, ReplaysHaveRows, AttemptsAreCounted, PendingHasAnAttemptLeft

LEMMA WorkersKeepInvariant ==
    ASSUME IInv, NEW w \in Workers,
           \/ select_due(w)
           \/ \E d \in Deliveries : lock(w, d) \/ skip(w, d)
           \/ finish(w)
           \/ \E outcome \in Outcome : post(w, outcome)
           \/ crash(w)
    PROVE  IInv'
<1> USE RunType DEF IInv
<1>1. CASE select_due(w)
  <2>1. PICK ids \in SUBSET Due(w) :
             worker' = [worker EXCEPT ![w] = [phase |-> "picking", todo |-> ids]]
    BY <1>1 DEF select_due
  <2>2. ids \subseteq Deliveries
    BY <2>1, ScopeAssumption DEF Due, Workers
  <2>3. [phase |-> "picking", todo |-> ids] \in Run
    BY <2>2 DEF Run
  <2> QED BY <1>1, <2>1, <2>3, WorkerStep DEF select_due
<1>2. ASSUME NEW d \in Deliveries, lock(w, d) PROVE IInv'
  <2> DEFINE run == [phase |-> "sending", todo |-> worker[w].todo \ {d}, id |-> d,
                     count |-> delivery[d].attempt_count]
  <2>1. run \in Run
    BY <1>2, RowType DEF lock, Run, TypeOK, Rows
  <2> QED BY <1>2, <2>1, WorkerStep DEF lock
<1>3. ASSUME NEW d \in Deliveries, skip(w, d) PROVE IInv'
  <2> DEFINE run == [worker[w] EXCEPT !.todo = @ \ {d}]
  <2>1. run \in Run /\ run.phase = "picking"
    BY <1>3 DEF skip, Run
  <2> QED BY <1>3, <2>1, WorkerStep DEF skip
<1>4. CASE finish(w)
  BY <1>4, WorkerStep DEF finish, Idle
<1>5. ASSUME NEW outcome \in Outcome, post(w, outcome) PROVE IInv'
  <2> DEFINE run == [phase |-> "answered", todo |-> worker[w].todo, id |-> worker[w].id,
                     count |-> worker[w].count, outcome |-> outcome]
  <2>1. run \in Run
    BY <1>5 DEF post, Run
  <2>2. Holds(w, run.id)
    BY <1>5 DEF post, Holds
  <2> QED BY <1>5, <2>1, <2>2, WorkerStep DEF post
<1>6. CASE crash(w)
  BY <1>6, WorkerStep DEF crash, Idle
<1> QED BY <1>1, <1>2, <1>3, <1>4, <1>5, <1>6

-----------------------------------------------------------------------------
(* Steps that write rows.                                                  *)

LEMMA EnqueueKeepsInvariant ==
    ASSUME IInv, NEW batch \in SUBSET Deliveries, enqueue_event(batch)
    PROVE  IInv'
<1> DEFINE new == [status |-> "pending", attempt_count |-> 0, next_retry_at |-> "due"]
<1>1. /\ delivery' = [d \in Deliveries |-> IF d \in batch THEN new ELSE delivery[d]]
      /\ \A d \in batch : delivery[d] = NoRow
      /\ UNCHANGED <<worker, replay, settled>>
  BY DEF enqueue_event
<1>2. new \in WebhookDelivery
  BY DEF WebhookDelivery
<1>3. TypeOK'
  BY <1>1, <1>2 DEF IInv, TypeOK
<1>4. ReplaysHaveRows'
  BY <1>1, ReplayType DEF IInv, ReplaysHaveRows, TypeOK, NoRow
<1>5. \A w \in Workers : \A d \in batch : ~Holds(w, d)
  BY <1>1 DEF IInv, OnlyPendingIsSent, NoRow
<1>6. OnlyPendingIsSent'
  BY <1>1, <1>5 DEF IInv, OnlyPendingIsSent, Holds
<1>7. \A d \in batch : settled[d] = 0
  <2> SUFFICES ASSUME NEW d \in batch PROVE settled[d] = 0
    OBVIOUS
  <2>1. settled[d] <= 0 /\ settled[d] \in Nat
    BY <1>1 DEF IInv, AttemptsAreCounted, NoRow, TypeOK
  <2> QED BY <2>1
<1>8. AttemptsAreCounted' /\ PendingHasAnAttemptLeft'
  BY <1>1, <1>7, AttemptsAssumption DEF IInv, AttemptsAreCounted, PendingHasAnAttemptLeft
<1> QED BY <1>3, <1>4, <1>6, <1>8 DEF IInv

LEMMA ElapseKeepsInvariant ==
    ASSUME IInv, NEW d \in Deliveries, elapse(d)
    PROVE  IInv'
<1> DEFINE row == [delivery[d] EXCEPT !.next_retry_at = "due"]
<1>1. /\ delivery[d] \in WebhookDelivery
      /\ delivery' = [delivery EXCEPT ![d] = row]
      /\ UNCHANGED <<worker, replay, settled>>
  BY DEF elapse, IInv, TypeOK, NoRow
<1>2. /\ row \in WebhookDelivery
      /\ row.status = delivery[d].status
      /\ row.attempt_count = delivery[d].attempt_count
  BY <1>1 DEF WebhookDelivery
<1>3. \A e \in Deliveries : /\ delivery'[e].status = delivery[e].status
                            /\ delivery'[e].attempt_count = delivery[e].attempt_count
                            /\ delivery[e] # NoRow => delivery'[e] # NoRow
  <2> HIDE DEF row
  <2> QED BY <1>1, <1>2 DEF IInv, TypeOK, WebhookDelivery, NoRow
<1>4. TypeOK'
  BY <1>1, <1>2 DEF IInv, TypeOK
<1>5. ReplaysHaveRows'
  BY <1>1, <1>3, ReplayType DEF IInv, ReplaysHaveRows
<1>6. OnlyPendingIsSent'
  BY <1>1, <1>3 DEF IInv, OnlyPendingIsSent, Holds
<1>7. AttemptsAreCounted' /\ PendingHasAnAttemptLeft'
  BY <1>1, <1>3 DEF IInv, AttemptsAreCounted, PendingHasAnAttemptLeft
<1> QED BY <1>4, <1>5, <1>6, <1>7 DEF IInv

LEMMA RecordKeepsInvariant ==
    ASSUME IInv, NEW w \in Workers, record(w)
    PROVE  IInv'
<1> DEFINE d == worker[w].id
           attempts == worker[w].count + 1
           row == Recorded(attempts, worker[w].outcome)
           run == [phase |-> "picking", todo |-> worker[w].todo]
<1>1. /\ delivery' = [delivery EXCEPT ![d] = row]
      /\ settled' = [settled EXCEPT ![d] = IF @ <= max_attempts THEN @ + 1 ELSE @]
      /\ worker' = [worker EXCEPT ![w] = run]
      /\ replay' = replay
  BY DEF record, Attempts
<1>2. /\ Holds(w, d)
      /\ d \in Deliveries
      /\ worker[w].count \in Nat
      /\ attempts \in Nat
      /\ run \in Run
  BY RunType DEF IInv, record, Holds, Run
<1>3. /\ delivery[d].status = "pending"
      /\ delivery[d].attempt_count = worker[w].count
      /\ settled[d] \in Nat
      /\ settled[d] < max_attempts
      /\ settled[d] <= worker[w].count
  BY <1>2 DEF IInv, OnlyPendingIsSent, PendingHasAnAttemptLeft, AttemptsAreCounted, TypeOK
<1>4. /\ row \in WebhookDelivery
      /\ row.attempt_count = attempts
      /\ row.status = "pending" => attempts < max_attempts
  BY <1>2, RecordedType
<1> HIDE DEF row
<1>5. /\ settled' \in [Deliveries -> Nat]
      /\ settled'[d] = settled[d] + 1
      /\ \A e \in Deliveries \ {d} : settled'[e] = settled[e]
  <2>1. settled[d] <= max_attempts
    BY <1>3, AttemptsAssumption
  <2>2. settled' = [settled EXCEPT ![d] = settled[d] + 1]
    BY <1>1, <2>1
  <2> QED BY <1>2, <1>3, <2>2 DEF IInv, TypeOK
<1>6. TypeOK'
  BY <1>1, <1>2, <1>3, <1>4, <1>5 DEF IInv, TypeOK
<1>7. ReplaysHaveRows'
  BY <1>1, <1>4, ReplayType DEF IInv, ReplaysHaveRows, TypeOK, WebhookDelivery, NoRow
<1>8. \A v \in Workers, e \in Deliveries : Holds(v, e)' => Holds(v, e) /\ v # w
  BY <1>1 DEF IInv, TypeOK, Holds
<1>9. OnlyPendingIsSent'
  <2> SUFFICES ASSUME NEW v \in Workers, NEW e \in Deliveries, Holds(v, e)'
               PROVE  /\ delivery'[e].status = "pending"
                      /\ delivery'[e].attempt_count = worker'[v].count
                      /\ \A u \in Workers : Holds(u, e)' => u = v
    BY DEF OnlyPendingIsSent
  <2>1. Holds(v, e) /\ v # w
    BY <1>8
  <2>2. e # d
    BY <2>1, <1>2 DEF IInv, OnlyPendingIsSent
  <2>3. delivery'[e] = delivery[e] /\ worker'[v] = worker[v]
    BY <2>1, <2>2, <1>1 DEF IInv, TypeOK
  <2> QED BY <2>1, <2>3, <1>8 DEF IInv, OnlyPendingIsSent
<1>10. \A e \in Deliveries \ {d} : delivery'[e] = delivery[e] /\ settled'[e] = settled[e]
  BY <1>1, <1>5 DEF IInv, TypeOK
<1>11. delivery'[d] = row /\ settled'[d] = settled[d] + 1
  BY <1>1, <1>2, <1>5 DEF IInv, TypeOK
<1>12. /\ settled[d] + 1 <= attempts
       /\ settled[d] + 1 <= max_attempts
       /\ attempts < max_attempts => settled[d] + 1 < max_attempts
  BY <1>2, <1>3, AttemptsAssumption
<1> HIDE DEF d, attempts
<1>13. AttemptsAreCounted'
  BY <1>4, <1>10, <1>11, <1>12 DEF IInv, AttemptsAreCounted
<1>14. PendingHasAnAttemptLeft'
  BY <1>4, <1>10, <1>11, <1>12 DEF IInv, PendingHasAnAttemptLeft
<1> QED BY <1>6, <1>7, <1>9, <1>13, <1>14 DEF IInv

LEMMA ReplaysKeepInvariant ==
    ASSUME IInv, NEW o \in Operators,
           (\E d \in Deliveries : replay_read(o, d)) \/ replay_write(o)
    PROVE  IInv'
<1>1. ASSUME NEW d \in Deliveries, replay_read(o, d) PROVE IInv'
  <2>1. [phase |-> "read", id |-> d, seen |-> delivery[d]] \in Replay
    BY <1>1 DEF replay_read, IInv, TypeOK, Replay
  <2>2. TypeOK' /\ ReplaysHaveRows'
    BY <1>1, <2>1 DEF replay_read, IInv, TypeOK, ReplaysHaveRows
  <2> QED
    BY <1>1, <2>2 DEF replay_read, IInv, OnlyPendingIsSent, Holds, AttemptsAreCounted,
                      PendingHasAnAttemptLeft
<1>2. CASE replay_write(o)
  <2> DEFINE d == replay[o].id
             row == Requeued(delivery[d], replay[o].seen)
  <2>1. /\ d \in Deliveries
        /\ delivery[d] \in WebhookDelivery
        /\ replay[o].seen \in WebhookDelivery
    BY <1>2, ReplayType DEF replay_write, IInv, TypeOK, ReplaysHaveRows
  <2>2. /\ ~Locked(d)
        /\ delivery' = [delivery EXCEPT ![d] = row]
        /\ settled' = [settled EXCEPT ![d] = 0]
        /\ replay' = [replay EXCEPT ![o] = Idle]
        /\ worker' = worker
    BY <1>2 DEF replay_write
  <2>3. row \in WebhookDelivery
    BY <2>1, RequeuedType
  <2> HIDE DEF row
  <2>4. TypeOK'
    BY <2>1, <2>2, <2>3 DEF IInv, TypeOK
  <2>5. ReplaysHaveRows'
    BY <2>1, <2>2, <2>3, ReplayType DEF IInv, ReplaysHaveRows, TypeOK, WebhookDelivery, NoRow
  <2>6. OnlyPendingIsSent'
    BY <2>2 DEF IInv, TypeOK, OnlyPendingIsSent, Locked, Holds
  <2>7. row.attempt_count \in Nat
    BY <2>3 DEF WebhookDelivery
  <2>8. AttemptsAreCounted' /\ PendingHasAnAttemptLeft'
    BY <2>1, <2>2, <2>7, AttemptsAssumption
       DEF IInv, TypeOK, AttemptsAreCounted, PendingHasAnAttemptLeft
  <2> QED BY <2>4, <2>5, <2>6, <2>8 DEF IInv
<1> QED BY <1>1, <1>2

-----------------------------------------------------------------------------
LEMMA InitInvariant == Init => IInv
BY AttemptsAssumption DEF Init, IInv, TypeOK, OnlyPendingIsSent, AttemptsAreCounted,
      PendingHasAnAttemptLeft, ReplaysHaveRows, NoRow, Idle, Holds

LEMMA NextInvariant == IInv /\ [Next]_vars => IInv'
<1> SUFFICES ASSUME IInv, [Next]_vars PROVE IInv'
  OBVIOUS
<1>1. CASE UNCHANGED vars
  BY <1>1 DEF vars, IInv, TypeOK, OnlyPendingIsSent, AttemptsAreCounted,
              PendingHasAnAttemptLeft, ReplaysHaveRows, Holds
<1>2. CASE Next
  BY <1>2, WorkersKeepInvariant, EnqueueKeepsInvariant, ElapseKeepsInvariant,
     RecordKeepsInvariant, ReplaysKeepInvariant DEF Next, Proceed
<1> QED BY <1>1, <1>2

LEMMA Invariance == Spec => []IInv
BY InitInvariant, NextInvariant, PTL DEF Spec

\* Every variable holds values of its type.
THEOREM TypeCorrect == Spec => []TypeOK
BY Invariance, PTL DEF IInv

\* While a worker waits for the receiver the row stays as it read it, and nobody else sends
\* it: however many workers and unlocked replays there are.
THEOREM SentRowsArePending == Spec => []OnlyPendingIsSent
BY Invariance, PTL DEF IInv

\* No recorded attempt is lost, and there are max_attempts at most between two replays.
THEOREM AttemptsAddUp == Spec => []AttemptsAreCounted
BY Invariance, PTL DEF IInv

-----------------------------------------------------------------------------
(* One replay at a time.                                                   *)

OneReplay == \A o, p \in Operators : o = p

\* A row that a replay read as failed is failed until the replay writes.
FailedStaysFailed ==
    \A o \in Operators :
        replay[o] # Idle =>
            /\ replay[o].seen.status \in {"pending", "failed"}
            /\ replay[o].seen.status = "failed" => delivery[replay[o].id].status = "failed"

\* No step of a worker or of the clock changes a row that is failed or delivered.
LEMMA SettledRowsStay ==
    ASSUME IInv, Next, \A o \in Operators : ~replay_write(o),
           NEW d \in Deliveries, delivery[d].status \in {"failed", "delivered"}
    PROVE  delivery'[d].status = delivery[d].status
<1>1. ASSUME NEW batch \in SUBSET Deliveries, enqueue_event(batch)
      PROVE  delivery'[d].status = delivery[d].status
  BY <1>1 DEF enqueue_event, NoRow
<1>2. ASSUME NEW e \in Deliveries, elapse(e)
      PROVE  delivery'[d].status = delivery[d].status
  BY <1>2 DEF elapse, IInv, TypeOK, WebhookDelivery, NoRow
<1>3. ASSUME NEW w \in Workers, record(w)
      PROVE  delivery'[d].status = delivery[d].status
  <2>1. worker[w].id \in Deliveries /\ Holds(w, worker[w].id)
    BY <1>3, RunType DEF IInv, record, Holds
  <2>2. worker[w].id # d
    BY <2>1 DEF IInv, OnlyPendingIsSent
  <2> QED BY <1>3, <2>2 DEF record, IInv, TypeOK
<1> QED BY <1>1, <1>2, <1>3
        DEF Next, Proceed, select_due, lock, skip, finish, post, crash, replay_read

LEMMA NextReplay ==
    OneReplay /\ IInv /\ FailedStaysFailed /\ [Next]_vars => FailedStaysFailed'
<1> SUFFICES ASSUME OneReplay, IInv, FailedStaysFailed, [Next]_vars,
                    NEW o \in Operators, replay'[o] # Idle
             PROVE  /\ replay'[o].seen.status \in {"pending", "failed"}
                    /\ replay'[o].seen.status = "failed" =>
                          delivery'[replay'[o].id].status = "failed"
  BY DEF FailedStaysFailed
<1>1. ASSUME NEW d \in Deliveries, replay_read(o, d)
      PROVE  /\ replay'[o].seen.status \in {"pending", "failed"}
             /\ replay'[o].seen.status = "failed" =>
                   delivery'[replay'[o].id].status = "failed"
  BY <1>1, RowType DEF replay_read, IInv, TypeOK, Rows
<1>2. ~replay_write(o)
  BY DEF replay_write, IInv, TypeOK
<1>3. \A p \in Operators : p = o
  BY DEF OneReplay
<1>4. CASE UNCHANGED vars
  BY <1>4 DEF vars, FailedStaysFailed
<1>5. CASE Next /\ \A d \in Deliveries : ~replay_read(o, d)
  <2>1. replay' = replay
    BY <1>2, <1>3, <1>5 DEF Next, Proceed, enqueue_event, elapse, select_due, lock, skip,
                            finish, post, record, crash
  <2>2. replay[o].id \in Deliveries
    BY <2>1, ReplayType DEF IInv
  <2> QED BY <2>1, <2>2, <1>2, <1>3, <1>5, SettledRowsStay DEF FailedStaysFailed
<1> QED BY <1>1, <1>4, <1>5

\* With one replay at a time a delivered row stays delivered, as replay_delivery says: it
\* takes the second replay of the run webhook_delivered_final to send one again.
THEOREM DeliveredOnce == OneReplay => (Spec => DeliveredIsFinal)
<1> SUFFICES ASSUME OneReplay PROVE Spec => DeliveredIsFinal
  OBVIOUS
<1>1. Init => FailedStaysFailed
  BY DEF Init, FailedStaysFailed
<1>2. IInv /\ FailedStaysFailed /\ [Next]_vars => FailedStaysFailed'
  BY NextReplay
<1>3. IInv /\ FailedStaysFailed /\ [Next]_vars =>
        [\A d \in Deliveries :
            delivery[d].status = "delivered" => delivery'[d].status = "delivered"]_delivery
  <2> SUFFICES ASSUME IInv, FailedStaysFailed, Next, NEW d \in Deliveries,
                      delivery[d].status = "delivered"
               PROVE  delivery'[d].status = "delivered"
    BY DEF vars
  <2>1. ASSUME NEW o \in Operators, replay_write(o)
        PROVE  delivery'[d].status = "delivered"
    <3>1. replay[o].id = d => replay[o].seen.status = "pending"
      BY <2>1 DEF replay_write, FailedStaysFailed
    <3>2. delivery[d] \in WebhookDelivery
      BY DEF IInv, TypeOK, NoRow
    <3> QED BY <2>1, <3>1, <3>2 DEF replay_write, Requeued, IInv, TypeOK, WebhookDelivery
  <2> QED BY <2>1, SettledRowsStay
<1> QED BY <1>1, <1>2, <1>3, Invariance, PTL DEF Spec, DeliveredIsFinal
=============================================================================
