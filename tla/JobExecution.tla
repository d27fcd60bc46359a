---------------------------- MODULE JobExecution ----------------------------
(***************************************************************************)
(* Scheduled jobs and their executions.  A dispatcher turns every due      *)
(* schedule into a pending execution and moves the schedule to its next    *)
(* time; dispatch_due_jobs runs in the background task of every server     *)
(* process and in POST /jobs/dispatch.  An operator may also ask for a run *)
(* at once.  An external worker starts executions and reports how they     *)
(* ended, through the API; a failed one is retried until its attempts are  *)
(* used up.                                                                *)
(*                                                                         *)
(* Every handler reads in one statement and writes in a later one, and no  *)
(* row is locked between them.  The dispatcher's writes are flushed one    *)
(* job behind its loop (the session flushes before each query), so it      *)
(* holds the locks of the jobs it has written while it looks at the next.  *)
(*                                                                         *)
(* Time is counted in ticks.  compute_next_run is the next multiple of the *)
(* job's period; JobCalendar shows that the calendar arithmetic is this    *)
(* kind of function.  Jobs have the same priority: any order is possible.  *)
(***************************************************************************)
EXTENDS Naturals, Sequences, FiniteSets

CONSTANTS
    Jobs,           \* scheduled_job_id
    Dispatchers,    \* runs of dispatch_due_jobs that may be in flight together
    Scope,          \* the jobs a dispatcher sees: all, or its company's
    Clerks,         \* requests of POST /jobs/{id}/run in flight
    Executors,      \* external workers
    Period,         \* ticks between two runs of a job
    max_attempts,   \* column default of job_executions
    Horizon,        \* the last tick (bound)
    MaxRuns         \* executions asked for by hand (bound)

ASSUME ScopeAssumption == Scope \in [Dispatchers -> SUBSET Jobs]
ASSUME PeriodAssumption == Period \in [Jobs -> Nat \ {0}]
ASSUME AttemptsAssumption == max_attempts \in Nat \ {0}
ASSUME HorizonAssumption == Horizon \in Nat

VARIABLES
    now,            \* the clock
    next_run_at,    \* scheduled_jobs: when the job is due, or NotCreated
    executions,     \* job_executions, in the order of their commits
    dispatcher,     \* what each run of dispatch_due_jobs is doing
    clerk,          \* what each run request is doing
    executor        \* the request each external worker has in flight

vars == <<now, next_run_at, executions, dispatcher, clerk, executor>>

-----------------------------------------------------------------------------
NotCreated == 0

\* origin is not a column: it tells the dispatched executions from those asked for.
JobExecution ==
    [job : Jobs, status : {"pending", "running", "succeeded", "failed_retry", "dead"},
     attempt_count : Nat, scheduled_for : Nat, origin : {"dispatch", "run"}]

Pending(j, at, origin) ==
    [job |-> j, status |-> "pending", attempt_count |-> 0, scheduled_for |-> at,
     origin |-> origin]

Idle == [phase |-> "idle"]

\* flushed: how many of the claimed jobs have been written and are locked.
Dispatching ==
    [phase : {"looping"}, at : Nat, todo : SUBSET Jobs, claimed : Seq(Jobs), flushed : Nat]

Requesting == [phase : {"counted"}, job : Jobs, at : Nat]

Reporting ==
    [phase : {"start"}, id : Nat \ {0}, seen : JobExecution]
    \cup [phase : {"complete"}, id : Nat \ {0}, seen : JobExecution, success : BOOLEAN]

Init ==
    /\ now = 0
    /\ next_run_at = [j \in Jobs |-> NotCreated]
    /\ executions = <<>>
    /\ dispatcher = [d \in Dispatchers |-> Idle]
    /\ clerk = [c \in Clerks |-> Idle]
    /\ executor = [w \in Executors |-> Idle]

tick ==
    /\ now < Horizon
    /\ now' = now + 1
    /\ UNCHANGED <<next_run_at, executions, dispatcher, clerk, executor>>

-----------------------------------------------------------------------------
(* Schedules and the dispatcher.                                           *)

compute_next_run(j, after) == ((after \div Period[j]) + 1) * Period[j]

is_due(j) == next_run_at[j] # NotCreated /\ next_run_at[j] <= now

create_scheduled_job(j) ==
    /\ next_run_at[j] = NotCreated
    /\ next_run_at' = [next_run_at EXCEPT ![j] = compute_next_run(j, now)]
    /\ UNCHANGED <<now, executions, dispatcher, clerk, executor>>

\* MUTANT: executions in every status count as running.
Running_AnyStatus(j) == {x \in DOMAIN executions : executions[x].job = j}

Running(j) ==
    {x \in DOMAIN executions : executions[x].job = j /\ executions[x].status = "running"}

can_claim(j) == Running(j) = {}

\* The clock is read and the active schedules are fetched.  A run that finds
\* nothing due changes nothing.
select_due_jobs(d) ==
    /\ dispatcher[d] = Idle
    /\ \E j \in Scope[d] : is_due(j)
    /\ dispatcher' = [dispatcher EXCEPT ![d] =
           [phase |-> "looping", at |-> now, todo |-> {j \in Scope[d] : is_due(j)},
            claimed |-> <<>>, flushed |-> 0]]
    /\ UNCHANGED <<now, next_run_at, executions, clerk, executor>>

Holds(d, j) ==
    /\ dispatcher[d] # Idle
    /\ \E i \in 1..dispatcher[d].flushed : dispatcher[d].claimed[i] = j

\* The write of the job claimed last does not wait for another dispatcher's lock.
CanFlush(d) ==
    \A i \in (dispatcher[d].flushed + 1)..Len(dispatcher[d].claimed) :
        \A e \in Dispatchers \ {d} : ~Holds(e, dispatcher[d].claimed[i])

\* One turn of the loop: the query flushes what the turn before wrote, then counts.
claim(d, j) ==
    /\ dispatcher[d] # Idle
    /\ j \in dispatcher[d].todo
    /\ CanFlush(d)
    /\ LET claimed == dispatcher[d].claimed
       IN  dispatcher' = [dispatcher EXCEPT ![d] =
               [phase |-> "looping", at |-> dispatcher[d].at,
                todo |-> dispatcher[d].todo \ {j},
                claimed |-> IF can_claim(j) THEN Append(claimed, j) ELSE claimed,
                flushed |-> Len(claimed)]]
    /\ UNCHANGED <<now, next_run_at, executions, clerk, executor>>

\* MUTANT: the next time is counted from the time that was due, not from now.
Rescheduled_FromDue(j, at) == compute_next_run(j, next_run_at[j])

Rescheduled(j, at) == compute_next_run(j, at)

Created(claimed, at) == [i \in 1..Len(claimed) |-> Pending(claimed[i], at, "dispatch")]

\* The commit: the executions appear and the schedules move together.
commit_dispatch(d) ==
    /\ dispatcher[d] # Idle
    /\ dispatcher[d].todo = {}
    /\ dispatcher[d].claimed # <<>>
    /\ CanFlush(d)
    /\ LET claimed == dispatcher[d].claimed
           at == dispatcher[d].at
       IN  /\ executions' = executions \o Created(claimed, at)
           /\ next_run_at' = [j \in Jobs |->
                  IF \E i \in DOMAIN claimed : claimed[i] = j
                  THEN Rescheduled(j, at) ELSE next_run_at[j]]
    /\ dispatcher' = [dispatcher EXCEPT ![d] = Idle]
    /\ UNCHANGED <<now, clerk, executor>>

\* Every due job was busy: nothing to commit.
finish_dispatch(d) ==
    /\ dispatcher[d] # Idle
    /\ dispatcher[d].todo = {}
    /\ dispatcher[d].claimed = <<>>
    /\ dispatcher' = [dispatcher EXCEPT ![d] = Idle]
    /\ UNCHANGED <<now, next_run_at, executions, clerk, executor>>

\* The process dies, the task is cancelled, or PostgreSQL ends the transaction to
\* resolve a deadlock: rolled back, and the next interval tries again.  (With nothing
\* claimed and nothing left to do there is nothing to lose.)
fail_dispatch(d) ==
    /\ dispatcher[d] # Idle
    /\ dispatcher[d].todo # {} \/ dispatcher[d].claimed # <<>>
    /\ dispatcher' = [dispatcher EXCEPT ![d] = Idle]
    /\ UNCHANGED <<now, next_run_at, executions, clerk, executor>>

-----------------------------------------------------------------------------
(* POST /jobs/{id}/run.                                                    *)

run_scheduled_job(c, j) ==
    /\ clerk[c] = Idle
    /\ next_run_at[j] # NotCreated
    /\ Cardinality({x \in DOMAIN executions : executions[x].origin = "run"}) < MaxRuns
    /\ can_claim(j)
    /\ clerk' = [clerk EXCEPT ![c] = [phase |-> "counted", job |-> j, at |-> now]]
    /\ UNCHANGED <<now, next_run_at, executions, dispatcher, executor>>

commit_run(c) ==
    /\ clerk[c] # Idle
    /\ executions' = Append(executions, Pending(clerk[c].job, clerk[c].at, "run"))
    /\ clerk' = [clerk EXCEPT ![c] = Idle]
    /\ UNCHANGED <<now, next_run_at, dispatcher, executor>>

-----------------------------------------------------------------------------
(* What the external worker asks for.                                      *)

start_job_execution(w, x) ==
    /\ executor[w] = Idle
    /\ executions[x].status \in {"pending", "failed_retry"}
    /\ executor' = [executor EXCEPT ![w] =
           [phase |-> "start", id |-> x, seen |-> executions[x]]]
    /\ UNCHANGED <<now, next_run_at, executions, dispatcher, clerk>>

\* MUTANT: starting again is not a new attempt.
Started_Uncounted(row, seen) == [row EXCEPT !.status = "running"]

Started(row, seen) ==
    [row EXCEPT !.status = "running", !.attempt_count = seen.attempt_count + 1]

commit_start(w) ==
    /\ executor[w].phase = "start"
    /\ executions' = [executions EXCEPT ![executor[w].id] = Started(@, executor[w].seen)]
    /\ executor' = [executor EXCEPT ![w] = Idle]
    /\ UNCHANGED <<now, next_run_at, dispatcher, clerk>>

CanComplete(row) == row.status \notin {"succeeded", "dead"}

\* MUTANT: one attempt too many.
Exhausted_Late(row) == row.attempt_count > max_attempts

Exhausted(row) == row.attempt_count >= max_attempts

\* MUTANT: the status names of the webhook queue.
next_status_Renamed(row, success) ==
    IF success THEN "succeeded" ELSE IF Exhausted(row) THEN "failed" ELSE "failed_retry"

next_status(row, success) ==
    IF success THEN "succeeded" ELSE IF Exhausted(row) THEN "dead" ELSE "failed_retry"

complete_job_execution(w, x, success) ==
    /\ executor[w] = Idle
    /\ CanComplete(executions[x])
    /\ executor' = [executor EXCEPT ![w] =
           [phase |-> "complete", id |-> x, seen |-> executions[x], success |-> success]]
    /\ UNCHANGED <<now, next_run_at, executions, dispatcher, clerk>>

\* The UPDATE names the status only if it differs from the one that was read.
Completed(row, seen, success) ==
    [row EXCEPT !.status =
        IF next_status(seen, success) = seen.status THEN @ ELSE next_status(seen, success)]

commit_complete(w) ==
    /\ executor[w].phase = "complete"
    /\ executions' = [executions EXCEPT ![executor[w].id] =
           Completed(@, executor[w].seen, executor[w].success)]
    /\ executor' = [executor EXCEPT ![w] = Idle]
    /\ UNCHANGED <<now, next_run_at, dispatcher, clerk>>

-----------------------------------------------------------------------------
Dispatch(d) ==
    \/ select_due_jobs(d)
    \/ \E j \in Jobs : claim(d, j)
    \/ commit_dispatch(d)
    \/ finish_dispatch(d)

StartSome(w) == \E x \in DOMAIN executions : start_job_execution(w, x)

CompleteSome(w) ==
    \E x \in DOMAIN executions, success \in BOOLEAN : complete_job_execution(w, x, success)

Answer(w) == commit_start(w) \/ commit_complete(w)

Next ==
    \/ tick
    \/ \E j \in Jobs : create_scheduled_job(j)
    \/ \E d \in Dispatchers : Dispatch(d) \/ fail_dispatch(d)
    \/ \E c \in Clerks : commit_run(c) \/ \E j \in Jobs : run_scheduled_job(c, j)
    \/ \E w \in Executors : StartSome(w) \/ CompleteSome(w) \/ Answer(w)

Spec == Init /\ [][Next]_vars

\* Requests in flight end, and the background task looks for due jobs again and
\* again.  The external worker keeps taking up what can be started and keeps
\* reporting how it ended; it may report failures, and report on what never ran.
FairSpec ==
    /\ Spec
    /\ \A d \in Dispatchers : WF_vars(Dispatch(d))
    /\ \A w \in Executors :
          WF_vars(Answer(w)) /\ SF_vars(StartSome(w)) /\ SF_vars(CompleteSome(w))

-----------------------------------------------------------------------------
(* Properties.                                                             *)

\* Every variable holds values of its type.
TypeOK ==
    /\ now \in Nat
    /\ next_run_at \in [Jobs -> Nat]
    /\ executions \in Seq(JobExecution)
    /\ dispatcher \in [Dispatchers -> Dispatching \cup {Idle}]
    /\ clerk \in [Clerks -> Requesting \cup {Idle}]
    /\ executor \in [Executors -> Reporting \cup {Idle}]

\* A dispatched job "is not dispatched again until the next period": between two
\* dispatched executions of a job lies one of its times, however late the dispatcher
\* was, and whatever it retried.  Two dispatchers at once break it.
OncePerPeriod ==
    \A x, y \in DOMAIN executions :
        /\ executions[x].origin = "dispatch" /\ executions[y].origin = "dispatch"
        /\ executions[x].job = executions[y].job
        /\ x < y
        => compute_next_run(executions[x].job, executions[x].scheduled_for)
               <= executions[y].scheduled_for

\* An execution is started max_attempts times at most, and given up only then.
AttemptsAreSpent ==
    \A x \in DOMAIN executions :
        /\ executions[x].attempt_count <= max_attempts
        /\ executions[x].status = "dead" => executions[x].attempt_count = max_attempts

\* next_status takes succeeded and dead for terminal: an execution that ended stays as it
\* is.  Each request checks the row it read, so that one that read before the end writes
\* over it.
TerminalIsFinal ==
    [][\A x \in DOMAIN executions :
          executions[x].status \in {"succeeded", "dead"} => executions'[x] = executions[x]]_vars

\* A due job is dispatched, although executions of it that run make the dispatcher
\* pass it over, provided that its transactions stop failing.
DueIsDispatched ==
    <>[][\A d \in Dispatchers : ~fail_dispatch(d)]_vars =>
        \A j \in Jobs : is_due(j) ~> ~is_due(j)

\* No execution is retried for ever: each one ends as succeeded or dead.
EveryExecutionEnds ==
    []<>(\A x \in DOMAIN executions : executions[x].status \in {"succeeded", "dead"})
=============================================================================
