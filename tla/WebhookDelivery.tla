-------------------------- MODULE WebhookDelivery --------------------------
(***************************************************************************)
(* The webhook delivery queue: events are enqueued as rows, workers send   *)
(* the rows that are due and retry failures with a growing delay, and a    *)
(* tenant's administrator may replay a delivery.                           *)
(*                                                                         *)
(* process_due_deliveries runs in the background task of every server      *)
(* process and in POST /webhooks/process.  It selects the ids that are due *)
(* and then takes each row with FOR UPDATE SKIP LOCKED, keeping the lock   *)
(* across the HTTP call until the commit that records its outcome.         *)
(* replay_delivery takes no lock: it reads the row, decides, and writes    *)
(* later; its UPDATE waits for a worker's lock and then sets the columns   *)
(* whose value it changed.                                                 *)
(*                                                                         *)
(* Time is abstract: a row's next_retry_at is none, due, or later.         *)
(* Endpoints are not modelled: the program registers them active, never    *)
(* deactivates one and cannot delete one that has deliveries.              *)
(***************************************************************************)
EXTENDS Naturals, FiniteSets

CONSTANTS
    Deliveries,     \* webhook_delivery_id: the events ever enqueued (the bound)
    Background,     \* the background workers, one per server process
    Manual,         \* runs of POST /webhooks/process
    Operators,      \* replay requests that may be in flight together
    Scope,          \* the deliveries a worker or operator may touch: all, or its tenant's
    Limit,          \* rows a worker takes in one run
    max_attempts    \* column default of webhook_deliveries

Workers == Background \cup Manual

ASSUME AttemptsAssumption == max_attempts \in Nat \ {0}
ASSUME LimitAssumption == Limit \in Nat \ {0}
ASSUME ScopeAssumption ==
    /\ Scope \in [Workers \cup Operators -> SUBSET Deliveries]
    /\ \A w \in Background : Scope[w] = Deliveries

VARIABLES
    delivery,       \* the committed webhook_deliveries rows
    worker,         \* what each run of process_due_deliveries is doing
    replay,         \* what each replay request is doing
    settled         \* history: attempts recorded since enqueue or the last replay,
                    \* counted up to max_attempts + 1

vars == <<delivery, worker, replay, settled>>

-----------------------------------------------------------------------------
WebhookDelivery ==
    [status        : {"pending", "delivered", "failed"},
     attempt_count : Nat,
     next_retry_at : {"none", "due", "later"}]

NoRow == [status |-> "absent", attempt_count |-> 0, next_retry_at |-> "none"]

\* accepted: 2xx.  failed: any other answer, a timeout, an unsafe address.
Outcome == {"accepted", "failed"}

Run ==
    [phase : {"picking"}, todo : SUBSET Deliveries]
    \cup [phase : {"sending"}, todo : SUBSET Deliveries, id : Deliveries, count : Nat]
    \cup [phase : {"answered"}, todo : SUBSET Deliveries, id : Deliveries,
          count : Nat, outcome : Outcome]

Idle == [phase |-> "idle"]

Replay == [phase : {"read"}, id : Deliveries, seen : WebhookDelivery]

\* The worker holds the row lock of delivery d.
Holds(w, d) == worker[w].phase \in {"sending", "answered"} /\ worker[w].id = d

Locked(d) == \E w \in Workers : Holds(w, d)

Init ==
    /\ delivery = [d \in Deliveries |-> NoRow]
    /\ worker = [w \in Workers |-> Idle]
    /\ replay = [o \in Operators |-> Idle]
    /\ settled = [d \in Deliveries |-> 0]

\* One row per matching endpoint, committed together.
enqueue_event(batch) ==
    /\ batch # {}
    /\ \A d \in batch : delivery[d] = NoRow
    /\ delivery' = [d \in Deliveries |->
           IF d \in batch
           THEN [status |-> "pending", attempt_count |-> 0, next_retry_at |-> "due"]
           ELSE delivery[d]]
    /\ UNCHANGED <<worker, replay, settled>>

\* The clock reaches the retry time.
elapse(d) ==
    /\ delivery[d].next_retry_at = "later"
    /\ delivery' = [delivery EXCEPT ![d].next_retry_at = "due"]
    /\ UNCHANGED <<worker, replay, settled>>

Due(w) ==
    {d \in Scope[w] : delivery[d].status = "pending" /\ delivery[d].next_retry_at = "due"}

\* The first query: ids only, no lock.  An empty answer ends the run at once.
select_due(w) ==
    /\ worker[w] = Idle
    /\ \E ids \in SUBSET Due(w) :
          /\ ids # {}
          /\ ids = Due(w) \/ Cardinality(ids) = Limit
          /\ Cardinality(ids) <= Limit
          /\ worker' = [worker EXCEPT ![w] = [phase |-> "picking", todo |-> ids]]
    /\ UNCHANGED <<delivery, replay, settled>>

\* MUTANT: FOR UPDATE SKIP LOCKED without the condition on the status.
Obtainable_Any(d) == ~Locked(d)

\* MUTANT: the status is checked and the row is not locked.
Obtainable_NoLock(d) == delivery[d].status = "pending"

\* The second query returns the row: still pending, and nobody holds it.
Obtainable(d) == delivery[d].status = "pending" /\ ~Locked(d)

lock(w, d) ==
    /\ worker[w].phase = "picking"
    /\ d \in worker[w].todo
    /\ Obtainable(d)
    /\ worker' = [worker EXCEPT ![w] =
           [phase |-> "sending", todo |-> worker[w].todo \ {d}, id |-> d,
            count |-> delivery[d].attempt_count]]
    /\ UNCHANGED <<delivery, replay, settled>>

skip(w, d) ==
    /\ worker[w].phase = "picking"
    /\ d \in worker[w].todo
    /\ ~Obtainable(d)
    /\ worker' = [worker EXCEPT ![w].todo = @ \ {d}]
    /\ UNCHANGED <<delivery, replay, settled>>

finish(w) ==
    /\ worker[w].phase = "picking"
    /\ worker[w].todo = {}
    /\ worker' = [worker EXCEPT ![w] = Idle]
    /\ UNCHANGED <<delivery, replay, settled>>

\* The HTTP call of attempt_delivery, ten seconds at most.
post(w, outcome) ==
    /\ worker[w].phase = "sending"
    /\ worker' = [worker EXCEPT ![w] =
           [phase |-> "answered", todo |-> worker[w].todo, id |-> worker[w].id,
            count |-> worker[w].count, outcome |-> outcome]]
    /\ UNCHANGED <<delivery, replay, settled>>

\* MUTANT: a failure returns before the attempt is counted.
Attempts_Uncounted(count) == count

Attempts(count) == count + 1

Exhausted(attempts) == attempts >= max_attempts

\* MUTANT: the status names of the job scheduler.
Recorded_Renamed(attempts, outcome) ==
    [status        |-> IF outcome = "accepted" THEN "delivered"
                       ELSE IF Exhausted(attempts) THEN "dead" ELSE "pending",
     attempt_count |-> attempts,
     next_retry_at |-> IF outcome = "accepted" \/ Exhausted(attempts) THEN "none" ELSE "later"]

\* What attempt_delivery commits.
Recorded(attempts, outcome) ==
    [status        |-> IF outcome = "accepted" THEN "delivered"
                       ELSE IF Exhausted(attempts) THEN "failed" ELSE "pending",
     attempt_count |-> attempts,
     next_retry_at |-> IF outcome = "accepted" \/ Exhausted(attempts) THEN "none" ELSE "later"]

record(w) ==
    /\ worker[w].phase = "answered"
    /\ LET d == worker[w].id
       IN  /\ delivery' = [delivery EXCEPT ![d] =
                               Recorded(Attempts(worker[w].count), worker[w].outcome)]
           /\ settled' = [settled EXCEPT ![d] = IF @ <= max_attempts THEN @ + 1 ELSE @]
    /\ worker' = [worker EXCEPT ![w] = [phase |-> "picking", todo |-> worker[w].todo]]
    /\ UNCHANGED replay

\* The process dies, or the task is cancelled: PostgreSQL rolls back and unlocks,
\* whether or not the receiver got the call.
crash(w) ==
    /\ worker[w] # Idle
    /\ worker[w].phase = "picking" => worker[w].todo # {}
    /\ worker' = [worker EXCEPT ![w] = Idle]
    /\ UNCHANGED <<delivery, replay, settled>>

\* replay_delivery reads the row through its endpoint's tenant, and refuses one that
\* is delivered.
replay_read(o, d) ==
    /\ replay[o] = Idle
    /\ d \in Scope[o]
    /\ delivery[d] # NoRow
    /\ delivery[d].status # "delivered"
    /\ replay' = [replay EXCEPT ![o] = [phase |-> "read", id |-> d, seen |-> delivery[d]]]
    /\ UNCHANGED <<delivery, worker, settled>>

\* The UPDATE: columns that already had the new value when read are left alone; the
\* new time always differs from the old one.
Requeued(row, seen) ==
    [row EXCEPT !.status = IF seen.status = "pending" THEN @ ELSE "pending",
                !.attempt_count = IF seen.attempt_count = 0 THEN @ ELSE 0,
                !.next_retry_at = "due"]

replay_write(o) ==
    /\ replay[o] # Idle
    /\ LET d == replay[o].id
       IN  /\ ~Locked(d)
           /\ delivery' = [delivery EXCEPT ![d] = Requeued(@, replay[o].seen)]
           /\ settled' = [settled EXCEPT ![d] = 0]
    /\ replay' = [replay EXCEPT ![o] = Idle]
    /\ UNCHANGED worker

\* What a run does once it has begun.
Proceed(w) ==
    \/ \E d \in Deliveries : lock(w, d) \/ skip(w, d)
    \/ finish(w)
    \/ \E outcome \in Outcome : post(w, outcome)
    \/ record(w)

Next ==
    \/ \E batch \in SUBSET Deliveries : enqueue_event(batch)
    \/ \E d \in Deliveries : elapse(d)
    \/ \E w \in Workers :
          \/ select_due(w)
          \/ Proceed(w)
          \/ crash(w)
    \/ \E o \in Operators :
          \/ \E d \in Deliveries : replay_read(o, d)
          \/ replay_write(o)

Spec == Init /\ [][Next]_vars

\* The clock runs, every run goes on (its HTTP call times out), and the background
\* task starts a run again and again.  Manual runs and replays may never come.
FairSpec ==
    /\ Spec
    /\ \A d \in Deliveries : WF_vars(elapse(d))
    /\ \A w \in Workers : WF_vars(Proceed(w))
    /\ \A w \in Background : WF_vars(select_due(w))

-----------------------------------------------------------------------------
(* Properties.                                                             *)

\* Every variable holds values of its type.
TypeOK ==
    /\ delivery \in [Deliveries -> WebhookDelivery \cup {NoRow}]
    /\ worker \in [Workers -> Run \cup {Idle}]
    /\ replay \in [Operators -> Replay \cup {Idle}]
    /\ settled \in [Deliveries -> Nat]

\* While a worker waits for the receiver, the row it is sending stays pending with
\* attempts left, although replays and other workers go on: no row is sent by two
\* workers, and none that was delivered or given up.
OnlyPendingIsSent ==
    \A w \in Workers : \A d \in Deliveries : Holds(w, d) =>
        /\ delivery[d].status = "pending"
        /\ delivery[d].attempt_count = worker[w].count
        /\ \A v \in Workers : Holds(v, d) => v = w

\* No recorded attempt is lost, and between two replays there are max_attempts at
\* most.  (The count itself may pass max_attempts where replays overlapped.)
AttemptsAreCounted ==
    \A d \in Deliveries :
        /\ settled[d] <= delivery[d].attempt_count
        /\ settled[d] <= max_attempts

\* A delivery ends as delivered or failed, provided that replays and crashes stop.
EveryDeliverySettles ==
    <>[][/\ \A w \in Workers : ~crash(w)
         /\ \A o \in Operators : ~replay_write(o)]_vars =>
        \A d \in Deliveries :
            delivery[d].status = "pending" ~> delivery[d].status \in {"delivered", "failed"}

\* replay_delivery refuses delivered rows "to prevent duplicate deliveries to the
\* customer": a delivered row stays delivered.  Two overlapping replays break it.
DeliveredIsFinal ==
    [][\A d \in Deliveries :
          delivery[d].status = "delivered" => delivery'[d].status = "delivered"]_delivery
=============================================================================
