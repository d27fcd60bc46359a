------------------------- MODULE JobExecutionProofs -------------------------
(***************************************************************************)
(* Proofs about JobExecution.                                              *)
(*                                                                         *)
(* Types hold whoever calls.  That a job is dispatched once per period     *)
(* needs a single dispatcher: then the jobs a run has picked stay due      *)
(* until it commits, and every schedule stands beyond the period of each   *)
(* execution dispatched for it.  That attempts are bounded needs a single  *)
(* external worker: then what a request has read is still the row when it  *)
(* writes.                                                                 *)
(***************************************************************************)
EXTENDS JobExecution, TLAPS, SequenceTheorems

OneDispatcher == \A d, e \in Dispatchers : d = e

OneExecutor == \A v, w \in Executors : v = w

RowsExist ==
    \A w \in Executors : executor[w] # Idle => executor[w].id \in DOMAIN executions

TInv == TypeOK /\ RowsExist

-----------------------------------------------------------------------------
(* Lemmas about the operators.                                             *)

\* The next run lies after the moment it is computed for.
LEMMA NextRunIsLater ==
    ASSUME NEW j \in Jobs, NEW after \in Nat
    PROVE  /\ compute_next_run(j, after) \in Nat
           /\ after < compute_next_run(j, after)
<1> DEFINE p == Period[j]
           q == after \div p
           r == after % p
<1>1. p \in Nat /\ p > 0
  BY PeriodAssumption
<1>2. q \in Nat /\ r \in Nat /\ r < p /\ after = p * q + r
  BY <1>1
<1>3. (q + 1) * p = p * q + p
  <2> HIDE DEF q, p, r
  <2> QED  BY <1>1, <1>2
<1>4. p * q \in Nat
  <2> HIDE DEF q, p, r
  <2> QED  BY <1>1, <1>2
<1>5. compute_next_run(j, after) = (q + 1) * p
  BY DEF compute_next_run
<1> QED
  <2> HIDE DEF q, p, r
  <2> QED  BY <1>1, <1>2, <1>3, <1>4, <1>5

\* What a dispatch appends is a sequence of executions, one for each claimed job.
LEMMA CreatedRows ==
    ASSUME NEW claimed \in Seq(Jobs), NEW at \in Nat
    PROVE  /\ Created(claimed, at) \in Seq(JobExecution)
           /\ Len(Created(claimed, at)) = Len(claimed)
           /\ \A i \in 1..Len(claimed) :
                 Created(claimed, at)[i] = Pending(claimed[i], at, "dispatch")
<1>1. Len(claimed) \in Nat /\ \A i \in 1..Len(claimed) : claimed[i] \in Jobs
  BY LenProperties, ElementOfSeq
<1>2. \A i \in 1..Len(claimed) : Pending(claimed[i], at, "dispatch") \in JobExecution
  BY <1>1 DEF Pending, JobExecution
<1>3. Created(claimed, at) \in [1..Len(claimed) -> JobExecution]
  BY <1>2 DEF Created
<1>4. Created(claimed, at) \in Seq(JobExecution)
  BY <1>1, <1>3, SeqDef
<1>5. Len(Created(claimed, at)) = Len(claimed)
  BY <1>1, <1>3, <1>4, LenProperties
<1> QED
  BY <1>4, <1>5 DEF Created

-----------------------------------------------------------------------------
(* Types.                                                                  *)

LEMMA InitTypes == Init => TInv
BY EmptySeq DEF Init, TInv, TypeOK, RowsExist, Idle, NotCreated

\* A request writes a row of the right type.
LEMMA WrittenRows ==
    ASSUME NEW row \in JobExecution, NEW seen \in JobExecution, NEW success \in BOOLEAN
    PROVE  /\ Started(row, seen) \in JobExecution
           /\ Completed(row, seen, success) \in JobExecution
<1>1. ASSUME NEW r \in JobExecution, NEW n \in Nat
      PROVE  [r EXCEPT !.attempt_count = n] \in JobExecution
  BY DEF JobExecution
<1>2. [row EXCEPT !.status = "running"] \in JobExecution
  BY DEF JobExecution
<1>3. seen.attempt_count + 1 \in Nat
  BY DEF JobExecution
<1>4. Started(row, seen) \in JobExecution
  BY <1>1, <1>2, <1>3 DEF Started
<1>5. Completed(row, seen, success) \in JobExecution
  BY DEF Completed, next_status, JobExecution
<1> QED  BY <1>4, <1>5

LEMMA NextTypes == TInv /\ [Next]_vars => TInv'
<1> SUFFICES ASSUME TInv, [Next]_vars PROVE TInv'
  OBVIOUS
<1> USE DEF TInv
<1>a. executions \in Seq(JobExecution) /\ DOMAIN executions = 1..Len(executions)
      /\ Len(executions) \in Nat
  BY LenProperties DEF TypeOK
<1>1. CASE tick
  BY <1>1 DEF tick, TypeOK, RowsExist
<1>2. ASSUME NEW j \in Jobs, create_scheduled_job(j) PROVE TInv'
  <2>1. compute_next_run(j, now) \in Nat
    BY NextRunIsLater DEF TypeOK
  <2> QED
    BY <1>2, <2>1 DEF create_scheduled_job, TypeOK, RowsExist
<1>3. ASSUME NEW d \in Dispatchers, select_due_jobs(d) PROVE TInv'
  <2>1. <<>> \in Seq(Jobs)
    BY EmptySeq
  <2>2. [phase |-> "looping", at |-> now, todo |-> {j \in Scope[d] : is_due(j)},
         claimed |-> <<>>, flushed |-> 0] \in Dispatching
    BY <2>1, ScopeAssumption DEF Dispatching, TypeOK
  <2> QED
    BY <1>3, <2>2 DEF select_due_jobs, TypeOK, RowsExist
<1>4. ASSUME NEW d \in Dispatchers, NEW j \in Jobs, claim(d, j) PROVE TInv'
  <2>1. dispatcher[d] \in Dispatching
    BY <1>4 DEF claim, TypeOK
  <2>2. Len(dispatcher[d].claimed) \in Nat
    BY <2>1, LenProperties DEF Dispatching
  <2>3. Append(dispatcher[d].claimed, j) \in Seq(Jobs)
    BY <2>1, AppendProperties DEF Dispatching
  <2>4. ASSUME NEW c \in Seq(Jobs)
        PROVE  [phase |-> "looping", at |-> dispatcher[d].at, todo |-> dispatcher[d].todo \ {j},
                claimed |-> c, flushed |-> Len(dispatcher[d].claimed)] \in Dispatching
    BY <2>1, <2>2 DEF Dispatching
  <2>5. dispatcher' \in [Dispatchers -> Dispatching \cup {Idle}]
    <3>1. CASE can_claim(j)
      BY <1>4, <2>3, <2>4, <3>1 DEF claim, TypeOK
    <3>2. CASE ~can_claim(j)
      BY <1>4, <2>1, <2>4, <3>2 DEF claim, TypeOK, Dispatching
    <3> QED  BY <3>1, <3>2
  <2> QED
    BY <1>4, <2>5 DEF claim, TypeOK, RowsExist
<1>5. ASSUME NEW d \in Dispatchers, commit_dispatch(d) PROVE TInv'
  <2> DEFINE claimed == dispatcher[d].claimed
             at == dispatcher[d].at
  <2>1. claimed \in Seq(Jobs) /\ at \in Nat
    BY <1>5 DEF commit_dispatch, TypeOK, Dispatching
  <2>2. /\ executions' \in Seq(JobExecution)
        /\ Len(executions') = Len(executions) + Len(claimed)
        /\ DOMAIN executions' = 1..Len(executions')
        /\ Len(claimed) \in Nat
    <3> DEFINE new == Created(claimed, at)
    <3>1. executions' = executions \o new
      BY <1>5 DEF commit_dispatch
    <3>2. new \in Seq(JobExecution) /\ Len(new) = Len(claimed) /\ Len(claimed) \in Nat
      BY <2>1, CreatedRows, LenProperties
    <3> HIDE DEF new
    <3>3. executions \o new \in Seq(JobExecution)
          /\ Len(executions \o new) = Len(executions) + Len(new)
      BY <1>a, <3>2, ConcatProperties
    <3>4. DOMAIN (executions \o new) = 1..Len(executions \o new)
      BY <3>3, LenProperties
    <3> QED  BY <3>1, <3>2, <3>3, <3>4
  <2>3. DOMAIN executions \subseteq DOMAIN executions'
    BY <1>a, <2>2
  <2>4. \A j \in Jobs : Rescheduled(j, at) \in Nat
    BY <2>1, NextRunIsLater DEF Rescheduled
  <2>5. next_run_at' \in [Jobs -> Nat]
    BY <1>5, <2>4 DEF commit_dispatch, TypeOK
  <2> QED
    BY <1>5, <2>2, <2>3, <2>5 DEF commit_dispatch, TypeOK, RowsExist
<1>6. ASSUME NEW d \in Dispatchers, finish_dispatch(d) \/ fail_dispatch(d) PROVE TInv'
  BY <1>6 DEF finish_dispatch, fail_dispatch, TypeOK, RowsExist
<1>7. ASSUME NEW c \in Clerks, NEW j \in Jobs, run_scheduled_job(c, j) PROVE TInv'
  BY <1>7 DEF run_scheduled_job, TypeOK, RowsExist, Requesting
<1>8. ASSUME NEW c \in Clerks, commit_run(c) PROVE TInv'
  <2>1. Pending(clerk[c].job, clerk[c].at, "run") \in JobExecution
    BY <1>8 DEF commit_run, TypeOK, Requesting, Pending, JobExecution
  <2>2. executions' \in Seq(JobExecution) /\ DOMAIN executions' = 1..(Len(executions) + 1)
    BY <1>8, <1>a, <2>1, AppendProperties, LenProperties DEF commit_run
  <2> QED
    BY <1>8, <1>a, <2>2 DEF commit_run, TypeOK, RowsExist
<1>9. ASSUME NEW w \in Executors, NEW x \in DOMAIN executions, start_job_execution(w, x)
      PROVE TInv'
  <2>1. executions[x] \in JobExecution /\ x \in Nat \ {0}
    BY <1>a, ElementOfSeq
  <2> QED
    BY <1>9, <2>1 DEF start_job_execution, TypeOK, RowsExist, Reporting
<1>10. ASSUME NEW w \in Executors, NEW x \in DOMAIN executions, NEW success \in BOOLEAN,
              complete_job_execution(w, x, success)
       PROVE TInv'
  <2>1. executions[x] \in JobExecution /\ x \in Nat \ {0}
    BY <1>a, ElementOfSeq
  <2> QED
    BY <1>10, <2>1 DEF complete_job_execution, TypeOK, RowsExist, Reporting
<1>11. ASSUME NEW w \in Executors, Answer(w) PROVE TInv'
  <2> DEFINE x == executor[w].id
  <2>1. executor[w] \in Reporting /\ executor[w] # Idle
    BY <1>11 DEF Answer, commit_start, commit_complete, TypeOK, Idle
  <2>2. x \in 1..Len(executions) /\ executions[x] \in JobExecution
        /\ executor[w].seen \in JobExecution
    BY <1>a, <2>1, ElementOfSeq DEF RowsExist, Reporting
  <2>3. \E row \in JobExecution : executions' = [executions EXCEPT ![x] = row]
    <3>1. CASE commit_start(w)
      BY <2>2, <3>1, WrittenRows DEF commit_start
    <3>2. CASE commit_complete(w)
      <4>1. executor[w].success \in BOOLEAN
        BY <2>1, <3>2 DEF commit_complete, Reporting
      <4> QED
        BY <2>2, <3>2, <4>1, WrittenRows DEF commit_complete
    <3> QED  BY <1>11, <3>1, <3>2 DEF Answer
  <2>4. executions' \in Seq(JobExecution) /\ Len(executions') = Len(executions)
    BY <1>a, <2>2, <2>3, ExceptSeq
  <2>5. DOMAIN executions' = DOMAIN executions
    BY <1>a, <2>4, LenProperties
  <2>6. /\ executor' = [executor EXCEPT ![w] = Idle]
        /\ UNCHANGED <<now, next_run_at, dispatcher, clerk>>
    BY <1>11 DEF Answer, commit_start, commit_complete
  <2> QED
    BY <2>4, <2>5, <2>6 DEF TypeOK, RowsExist
<1>12. CASE UNCHANGED vars
  BY <1>12 DEF vars, TypeOK, RowsExist
<1> QED
  BY <1>1, <1>2, <1>3, <1>4, <1>5, <1>6, <1>7, <1>8, <1>9, <1>10, <1>11, <1>12
     DEF Next, Dispatch, StartSome, CompleteSome

\* The variables keep their types, whatever dispatchers, operators and workers do.
THEOREM TypeCorrect == Spec => []TypeOK
<1>1. TInv => TypeOK
  BY DEF TInv
<1> QED  BY <1>1, InitTypes, NextTypes, PTL DEF Spec
-----------------------------------------------------------------------------
(* One execution per period.                                               *)

\* What a run of dispatch_due_jobs has picked is due until it commits.
LoopSound ==
    \A d \in Dispatchers : dispatcher[d] # Idle =>
        LET claimed == dispatcher[d].claimed
        IN  /\ \A j \in dispatcher[d].todo :
                  next_run_at[j] # NotCreated /\ next_run_at[j] <= dispatcher[d].at
            /\ \A i \in 1..Len(claimed) :
                  /\ next_run_at[claimed[i]] # NotCreated
                  /\ next_run_at[claimed[i]] <= dispatcher[d].at
                  /\ claimed[i] \notin dispatcher[d].todo
            /\ \A i, k \in 1..Len(claimed) : claimed[i] = claimed[k] => i = k

\* A schedule stands beyond the period of each execution dispatched for it.
ScheduleIsAhead ==
    \A x \in 1..Len(executions) : executions[x].origin = "dispatch" =>
        compute_next_run(executions[x].job, executions[x].scheduled_for)
            <= next_run_at[executions[x].job]

PeriodsApart ==
    \A x, y \in 1..Len(executions) :
        /\ executions[x].origin = "dispatch" /\ executions[y].origin = "dispatch"
        /\ executions[x].job = executions[y].job
        /\ x < y
        => compute_next_run(executions[x].job, executions[x].scheduled_for)
               <= executions[y].scheduled_for

PInv == TInv /\ LoopSound /\ ScheduleIsAhead /\ PeriodsApart

\* The two facts speak of columns that no request of a worker or operator writes.
SameDispatch(before, after) ==
    /\ Len(after) = Len(before)
    /\ \A x \in 1..Len(before) :
          /\ after[x].job = before[x].job
          /\ after[x].origin = before[x].origin
          /\ after[x].scheduled_for = before[x].scheduled_for

LEMMA RowsHaveTypes ==
    ASSUME NEW rows \in Seq(JobExecution), NEW x \in 1..Len(rows)
    PROVE  /\ rows[x].job \in Jobs
           /\ rows[x].scheduled_for \in Nat
           /\ compute_next_run(rows[x].job, rows[x].scheduled_for) \in Nat \ {0}
<1>1. rows[x] \in JobExecution
  BY ElementOfSeq
<1>2. rows[x].job \in Jobs /\ rows[x].scheduled_for \in Nat
  BY <1>1 DEF JobExecution
<1>3. /\ compute_next_run(rows[x].job, rows[x].scheduled_for) \in Nat
      /\ rows[x].scheduled_for < compute_next_run(rows[x].job, rows[x].scheduled_for)
  BY <1>2, NextRunIsLater
<1> QED  BY <1>2, <1>3

LEMMA InitPeriods == Init => PInv
<1> SUFFICES ASSUME Init PROVE PInv
  OBVIOUS
<1>1. executions = <<>> /\ Len(executions) = 0
  BY EmptySeq DEF Init
<1>2. LoopSound
  BY DEF Init, LoopSound
<1>3. ScheduleIsAhead /\ PeriodsApart
  BY <1>1 DEF ScheduleIsAhead, PeriodsApart
<1> QED  BY <1>2, <1>3, InitTypes DEF PInv

\* Steps that touch neither the schedules, the dispatchers, nor the columns
\* ScheduleIsAhead and PeriodsApart read.
LEMMA QuietSteps ==
    ASSUME PInv, SameDispatch(executions, executions'), UNCHANGED <<next_run_at, dispatcher>>
    PROVE  LoopSound' /\ ScheduleIsAhead' /\ PeriodsApart'
<1>1. LoopSound'
  BY DEF PInv, LoopSound
<1>2. ScheduleIsAhead'
  BY DEF PInv, ScheduleIsAhead, SameDispatch, compute_next_run
<1>3. PeriodsApart'
  BY DEF PInv, PeriodsApart, SameDispatch, compute_next_run
<1> QED  BY <1>1, <1>2, <1>3

LEMMA AnswersAreQuiet ==
    ASSUME TInv, NEW w \in Executors, Answer(w)
    PROVE  SameDispatch(executions, executions')
<1> DEFINE x == executor[w].id
           row == executions[x]
<1>1. executor[w] \in Reporting /\ executor[w] # Idle
  BY DEF Answer, commit_start, commit_complete, TInv, TypeOK, Idle
<1>2. /\ executions \in Seq(JobExecution) /\ Len(executions) \in Nat
      /\ DOMAIN executions = 1..Len(executions)
  BY LenProperties DEF TInv, TypeOK
<1>3. x \in 1..Len(executions) /\ row \in JobExecution /\ executor[w].seen \in JobExecution
  BY <1>1, <1>2, ElementOfSeq DEF TInv, RowsExist, Reporting
<1>4. \E new \in JobExecution :
          /\ executions' = [executions EXCEPT ![x] = new]
          /\ new.job = row.job /\ new.origin = row.origin
          /\ new.scheduled_for = row.scheduled_for
  <2>1. CASE commit_start(w)
    <3> DEFINE new == Started(row, executor[w].seen)
    <3>1. new \in JobExecution
      BY <1>3, WrittenRows
    <3>2. /\ new.job = row.job /\ new.origin = row.origin
          /\ new.scheduled_for = row.scheduled_for
      BY <1>3 DEF Started, JobExecution
    <3>3. executions' = [executions EXCEPT ![x] = new]
      BY <2>1 DEF commit_start
    <3> QED  BY <3>1, <3>2, <3>3
  <2>2. CASE commit_complete(w)
    <3> DEFINE new == Completed(row, executor[w].seen, executor[w].success)
    <3>1. executor[w].success \in BOOLEAN
      BY <1>1, <2>2 DEF commit_complete, Reporting
    <3>2. new \in JobExecution
      BY <1>3, <3>1, WrittenRows
    <3>3. /\ new.job = row.job /\ new.origin = row.origin
          /\ new.scheduled_for = row.scheduled_for
      BY <1>3 DEF Completed, JobExecution
    <3>4. executions' = [executions EXCEPT ![x] = new]
      BY <2>2 DEF commit_complete
    <3> QED  BY <3>2, <3>3, <3>4
  <2> QED  BY <2>1, <2>2 DEF Answer
<1>5. PICK new \in JobExecution :
          /\ executions' = [executions EXCEPT ![x] = new]
          /\ new.job = row.job /\ new.origin = row.origin
          /\ new.scheduled_for = row.scheduled_for
  BY <1>4
<1>6. /\ Len(executions') = Len(executions)
      /\ \A y \in 1..Len(executions) : executions'[y] = IF y = x THEN new ELSE executions[y]
  BY <1>2, <1>3, <1>5, ExceptSeq
<1> QED  BY <1>5, <1>6 DEF SameDispatch

\* The commit of a dispatch, when no other dispatcher is running: the rows it appends
\* are of jobs that were due, and their schedules move beyond the moment it began.
LEMMA CommitKeepsPeriods ==
    ASSUME OneDispatcher, PInv, NEW d \in Dispatchers, commit_dispatch(d)
    PROVE  LoopSound' /\ ScheduleIsAhead' /\ PeriodsApart'
<1> DEFINE claimed == dispatcher[d].claimed
           at == dispatcher[d].at
           new == Created(claimed, at)
           old == Len(executions)
           n == Len(claimed)
<1>1. /\ claimed \in Seq(Jobs) /\ at \in Nat /\ n \in Nat
      /\ executions \in Seq(JobExecution) /\ old \in Nat
      /\ next_run_at \in [Jobs -> Nat]
  <2>1. dispatcher[d] \in Dispatching
    BY DEF commit_dispatch, PInv, TInv, TypeOK
  <2> QED  BY <2>1, LenProperties DEF Dispatching, PInv, TInv, TypeOK
<1>2. /\ new \in Seq(JobExecution) /\ Len(new) = n
      /\ \A i \in 1..n : new[i] = Pending(claimed[i], at, "dispatch")
  BY <1>1, CreatedRows
<1>3. executions' = executions \o new
  BY DEF commit_dispatch
<1>4. /\ \A j \in Jobs : next_run_at'[j] =
            IF \E i \in 1..n : claimed[i] = j THEN compute_next_run(j, at) ELSE next_run_at[j]
      /\ dispatcher' = [dispatcher EXCEPT ![d] = Idle]
  <2>1. DOMAIN claimed = 1..n
    BY <1>1, LenProperties
  <2> QED  BY <2>1 DEF commit_dispatch, Rescheduled
<1>5. /\ \A i \in 1..n : claimed[i] \in Jobs /\ next_run_at[claimed[i]] <= at
      /\ \A i, k \in 1..n : claimed[i] = claimed[k] => i = k
  BY <1>1, ElementOfSeq DEF commit_dispatch, PInv, LoopSound
<1>6. LoopSound'
  <2>1. \A e \in Dispatchers : e = d /\ dispatcher'[e] = Idle
    BY <1>4 DEF OneDispatcher, PInv, TInv, TypeOK
  <2> QED  BY <2>1 DEF LoopSound
<1> HIDE DEF new, claimed, at
<1>7. /\ executions' \in Seq(JobExecution) /\ Len(executions') = old + n
      /\ \A x \in 1..(old + n) : executions'[x] = IF x <= old THEN executions[x] ELSE new[x - old]
  <2>1. /\ executions \o new \in Seq(JobExecution)
        /\ Len(executions \o new) = Len(executions) + Len(new)
        /\ \A x \in 1..(Len(executions) + Len(new)) :
              (executions \o new)[x] =
                  IF x <= Len(executions) THEN executions[x] ELSE new[x - Len(executions)]
    BY <1>1, <1>2, ConcatProperties, Zenon
  <2> QED  BY <1>2, <1>3, <2>1, Zenon
\* An old row is as before; a new one is that of a claimed job.
<1>8. ASSUME NEW x \in 1..(old + n)
      PROVE  \/ x \in 1..old /\ executions'[x] = executions[x]
             \/ \E i \in 1..n : /\ x = old + i
                                /\ executions'[x].job = claimed[i]
                                /\ executions'[x].scheduled_for = at
  <2>1. CASE x <= old
    BY <1>1, <1>7, <2>1
  <2>2. CASE ~(x <= old)
    <3>1. x - old \in 1..n /\ x = old + (x - old)
      BY <1>1, <2>2
    <3>2. executions'[x] = Pending(claimed[x - old], at, "dispatch")
      BY <1>2, <1>7, <2>2, <3>1
    <3> QED  BY <3>1, <3>2 DEF Pending
  <2> QED  BY <2>1, <2>2
<1>9. ASSUME NEW i \in 1..n
      PROVE  /\ next_run_at'[claimed[i]] = compute_next_run(claimed[i], at)
             /\ compute_next_run(claimed[i], at) \in Nat
             /\ at < compute_next_run(claimed[i], at)
  BY <1>1, <1>4, <1>5, NextRunIsLater
\* The executions there were lie behind the new moment of dispatch.
<1>10. ASSUME NEW x \in 1..old, executions[x].origin = "dispatch",
              NEW i \in 1..n, executions[x].job = claimed[i]
       PROVE  compute_next_run(executions[x].job, executions[x].scheduled_for) <= at
  <2>1. compute_next_run(executions[x].job, executions[x].scheduled_for)
            <= next_run_at[executions[x].job]
    BY <1>10 DEF PInv, ScheduleIsAhead
  <2>2. next_run_at[claimed[i]] <= at /\ next_run_at[claimed[i]] \in Nat
    BY <1>1, <1>5
  <2>3. compute_next_run(executions[x].job, executions[x].scheduled_for) \in Nat
    BY <1>1, RowsHaveTypes
  <2> QED  BY <1>1, <1>10, <2>1, <2>2, <2>3
<1>11. ScheduleIsAhead'
  <2> SUFFICES ASSUME NEW x \in 1..(old + n), executions'[x].origin = "dispatch"
               PROVE  compute_next_run(executions'[x].job, executions'[x].scheduled_for)
                          <= next_run_at'[executions'[x].job]
    BY <1>7 DEF ScheduleIsAhead, compute_next_run
  <2>1. CASE x \in 1..old /\ executions'[x] = executions[x]
    <3> DEFINE j == executions[x].job
               nx == compute_next_run(j, executions[x].scheduled_for)
    <3>1. j \in Jobs /\ nx \in Nat
      BY <1>1, <2>1, RowsHaveTypes
    <3>2. CASE \E i \in 1..n : claimed[i] = j
      <4>1. PICK i \in 1..n : claimed[i] = j
        BY <3>2
      <4>2. nx <= at
        BY <1>10, <2>1, <4>1
      <4>3. next_run_at'[j] \in Nat /\ at < next_run_at'[j]
        BY <1>9, <4>1
      <4> QED
        <5> HIDE DEF nx, j
        <5>1. nx <= next_run_at'[j]
          BY <1>1, <3>1, <4>2, <4>3
        <5> QED  BY <2>1, <5>1 DEF nx, j
    <3>3. CASE ~(\E i \in 1..n : claimed[i] = j)
      BY <1>4, <2>1, <3>1, <3>3 DEF PInv, ScheduleIsAhead
    <3> QED  BY <3>2, <3>3
  <2>2. ASSUME NEW i \in 1..n, executions'[x].job = claimed[i], executions'[x].scheduled_for = at
        PROVE  compute_next_run(executions'[x].job, executions'[x].scheduled_for)
                   <= next_run_at'[executions'[x].job]
    BY <1>9, <2>2
  <2> QED  BY <1>8, <2>1, <2>2
<1>12. PeriodsApart'
  <2> SUFFICES ASSUME NEW x \in 1..(old + n), NEW y \in 1..(old + n),
                      executions'[x].origin = "dispatch", executions'[y].origin = "dispatch",
                      executions'[x].job = executions'[y].job, x < y
               PROVE  compute_next_run(executions'[x].job, executions'[x].scheduled_for)
                          <= executions'[y].scheduled_for
    BY <1>7 DEF PeriodsApart, compute_next_run
  <2>1. CASE y \in 1..old /\ executions'[y] = executions[y]
    <3>1. x \in 1..old
      BY <1>1, <2>1
    <3>2. executions'[x] = executions[x]
      BY <1>1, <1>7, <3>1
    <3> QED  BY <2>1, <3>1, <3>2 DEF PInv, PeriodsApart
  <2>2. ASSUME NEW k \in 1..n, y = old + k, executions'[y].job = claimed[k],
               executions'[y].scheduled_for = at
        PROVE  compute_next_run(executions'[x].job, executions'[x].scheduled_for)
                   <= executions'[y].scheduled_for
    <3>1. CASE x \in 1..old /\ executions'[x] = executions[x]
      BY <1>10, <2>2, <3>1
    <3>2. ASSUME NEW i \in 1..n, x = old + i, executions'[x].job = claimed[i] PROVE FALSE
      <4>1. i = k
        BY <1>5, <2>2, <3>2
      <4> QED  BY <1>1, <2>2, <3>2, <4>1
    <3> QED  BY <1>8, <3>1, <3>2
  <2> QED  BY <1>8, <2>1, <2>2
<1> QED  BY <1>6, <1>11, <1>12

\* The other steps of a dispatcher: a job is picked while it is due.
LEMMA LoopKeepsPeriods ==
    ASSUME PInv, TypeOK', NEW d \in Dispatchers,
           \/ select_due_jobs(d)
           \/ \E j \in Jobs : claim(d, j)
           \/ finish_dispatch(d)
           \/ fail_dispatch(d)
    PROVE  LoopSound' /\ ScheduleIsAhead' /\ PeriodsApart'
<1>1. UNCHANGED <<executions, next_run_at>>
  BY DEF select_due_jobs, claim, finish_dispatch, fail_dispatch
<1>2. ScheduleIsAhead' /\ PeriodsApart'
  BY <1>1 DEF PInv, ScheduleIsAhead, PeriodsApart, compute_next_run
<1>3. LoopSound'
  <2>1. CASE select_due_jobs(d)
    <3>1. Len(<<>>) = 0
      BY EmptySeq
    <3>2. dispatcher'[d].claimed = <<>> /\ dispatcher'[d].at = now
          /\ dispatcher'[d].todo = {j \in Scope[d] : is_due(j)}
          /\ \A e \in Dispatchers \ {d} : dispatcher'[e] = dispatcher[e]
      BY <2>1 DEF select_due_jobs, PInv, TInv, TypeOK
    <3> QED
      BY <1>1, <3>1, <3>2 DEF is_due, PInv, LoopSound
  <2>2. ASSUME NEW j \in Jobs, claim(d, j) PROVE LoopSound'
    <3> DEFINE claimed == dispatcher[d].claimed
    <3>1. /\ claimed \in Seq(Jobs) /\ Len(claimed) \in Nat /\ dispatcher[d] # Idle
          /\ j \in dispatcher[d].todo
      <4>1. dispatcher[d] \in Dispatching
        BY <2>2 DEF claim, PInv, TInv, TypeOK
      <4> QED  BY <2>2, <4>1, LenProperties DEF Dispatching, claim
    <3>2. /\ dispatcher'[d].at = dispatcher[d].at
          /\ dispatcher'[d].todo = dispatcher[d].todo \ {j}
          /\ dispatcher'[d].claimed = claimed \/ dispatcher'[d].claimed = Append(claimed, j)
          /\ \A e \in Dispatchers \ {d} : dispatcher'[e] = dispatcher[e]
      BY <2>2 DEF claim, PInv, TInv, TypeOK
    <3>3. /\ \A k \in dispatcher[d].todo :
                next_run_at[k] # NotCreated /\ next_run_at[k] <= dispatcher[d].at
          /\ \A i \in 1..Len(claimed) :
                /\ next_run_at[claimed[i]] # NotCreated
                /\ next_run_at[claimed[i]] <= dispatcher[d].at
                /\ claimed[i] \notin dispatcher[d].todo
          /\ \A i, k \in 1..Len(claimed) : claimed[i] = claimed[k] => i = k
      BY <3>1 DEF PInv, LoopSound
    <3>4. /\ Len(Append(claimed, j)) = Len(claimed) + 1
          /\ \A i \in 1..Len(claimed) : Append(claimed, j)[i] = claimed[i]
          /\ Append(claimed, j)[Len(claimed) + 1] = j
      BY <3>1, AppendProperties
    <3> DEFINE c == dispatcher'[d].claimed
    <3>5. /\ \A i \in 1..Len(c) :
                /\ next_run_at[c[i]] # NotCreated
                /\ next_run_at[c[i]] <= dispatcher[d].at
                /\ c[i] \notin dispatcher[d].todo \ {j}
          /\ \A i, k \in 1..Len(c) : c[i] = c[k] => i = k
      <4>1. CASE c = claimed
        BY <3>3, <4>1
      <4>2. CASE c = Append(claimed, j)
        <5> DEFINE m == Len(claimed)
        <5>1. Len(c) = m + 1 /\ c[m + 1] = j /\ (\A i \in 1..m : c[i] = claimed[i]) /\ m \in Nat
          BY <3>1, <3>4, <4>2
        <5> HIDE DEF c, m
        <5>2. \A i \in 1..Len(c) : i \in 1..m \/ i = m + 1
          BY <5>1
        <5>3. \A i \in 1..m : claimed[i] # j
          BY <3>1, <3>3 DEF m
        <5> QED  BY <3>1, <3>3, <5>1, <5>2, <5>3 DEF m
      <4> QED  BY <3>2, <4>1, <4>2
    <3> HIDE DEF c
    <3>6. ASSUME NEW e \in Dispatchers, dispatcher'[e] # Idle
          PROVE  /\ \A k \in dispatcher'[e].todo :
                       next_run_at'[k] # NotCreated /\ next_run_at'[k] <= dispatcher'[e].at
                 /\ \A i \in 1..Len(dispatcher'[e].claimed) :
                       /\ next_run_at'[dispatcher'[e].claimed[i]] # NotCreated
                       /\ next_run_at'[dispatcher'[e].claimed[i]] <= dispatcher'[e].at
                       /\ dispatcher'[e].claimed[i] \notin dispatcher'[e].todo
                 /\ \A i, k \in 1..Len(dispatcher'[e].claimed) :
                       dispatcher'[e].claimed[i] = dispatcher'[e].claimed[k] => i = k
      <4>1. CASE e = d
        BY <1>1, <3>2, <3>3, <3>5, <4>1 DEF c
      <4>2. CASE e # d
        BY <1>1, <3>2, <3>6, <4>2 DEF PInv, LoopSound
      <4> QED  BY <4>1, <4>2
    <3> QED  BY <3>6 DEF LoopSound
  <2>3. CASE finish_dispatch(d) \/ fail_dispatch(d)
    <3>1. /\ dispatcher'[d] = Idle
          /\ \A e \in Dispatchers \ {d} : dispatcher'[e] = dispatcher[e]
      BY <2>3 DEF finish_dispatch, fail_dispatch, PInv, TInv, TypeOK
    <3> QED  BY <1>1, <3>1 DEF PInv, LoopSound
  <2> QED  BY <2>1, <2>2, <2>3
<1> QED  BY <1>2, <1>3

LEMMA NextPeriods == OneDispatcher /\ PInv /\ [Next]_vars => PInv'
<1> SUFFICES ASSUME OneDispatcher, PInv, [Next]_vars
             PROVE  LoopSound' /\ ScheduleIsAhead' /\ PeriodsApart'
  BY NextTypes DEF PInv
<1>a. TInv' /\ TypeOK'
  BY NextTypes DEF PInv, TInv
<1>b. /\ executions \in Seq(JobExecution) /\ Len(executions) \in Nat
      /\ next_run_at \in [Jobs -> Nat]
  BY LenProperties DEF PInv, TInv, TypeOK
<1>1. CASE UNCHANGED <<executions, next_run_at, dispatcher>>
  BY <1>1, QuietSteps DEF SameDispatch
<1>2. ASSUME NEW j \in Jobs, create_scheduled_job(j)
      PROVE  LoopSound' /\ ScheduleIsAhead' /\ PeriodsApart'
  <2>1. /\ next_run_at[j] = NotCreated
        /\ UNCHANGED <<executions, dispatcher>>
        /\ \A k \in Jobs : k # j => next_run_at'[k] = next_run_at[k]
    BY <1>2, <1>b DEF create_scheduled_job
  <2>2. LoopSound'
    <3>1. ASSUME NEW d \in Dispatchers, dispatcher[d] # Idle
          PROVE  /\ dispatcher[d].todo \subseteq Jobs
                 /\ \A i \in 1..Len(dispatcher[d].claimed) : dispatcher[d].claimed[i] \in Jobs
      BY <3>1, ElementOfSeq DEF PInv, TInv, TypeOK, Dispatching
    <3>2. ASSUME NEW d \in Dispatchers, dispatcher'[d] # Idle
          PROVE  /\ \A k \in dispatcher'[d].todo :
                       next_run_at'[k] # NotCreated /\ next_run_at'[k] <= dispatcher'[d].at
                 /\ \A i \in 1..Len(dispatcher'[d].claimed) :
                       /\ next_run_at'[dispatcher'[d].claimed[i]] # NotCreated
                       /\ next_run_at'[dispatcher'[d].claimed[i]] <= dispatcher'[d].at
                       /\ dispatcher'[d].claimed[i] \notin dispatcher'[d].todo
                 /\ \A i, k \in 1..Len(dispatcher'[d].claimed) :
                       dispatcher'[d].claimed[i] = dispatcher'[d].claimed[k] => i = k
      BY <2>1, <3>1, <3>2 DEF PInv, LoopSound
    <3> QED  BY <3>2 DEF LoopSound
  <2>3. ScheduleIsAhead'
    <3> SUFFICES ASSUME NEW x \in 1..Len(executions), executions[x].origin = "dispatch"
                 PROVE  compute_next_run(executions[x].job, executions[x].scheduled_for)
                            <= next_run_at'[executions[x].job]
      BY <2>1 DEF ScheduleIsAhead, compute_next_run
    <3>1. compute_next_run(executions[x].job, executions[x].scheduled_for)
              <= next_run_at[executions[x].job]
      BY DEF PInv, ScheduleIsAhead
    <3>2. /\ executions[x].job \in Jobs
          /\ compute_next_run(executions[x].job, executions[x].scheduled_for) \in Nat \ {0}
      BY <1>b, RowsHaveTypes
    <3>3. executions[x].job # j
      BY <2>1, <3>1, <3>2 DEF NotCreated
    <3> QED  BY <2>1, <3>1, <3>2, <3>3
  <2>4. PeriodsApart'
    BY <2>1 DEF PInv, PeriodsApart, compute_next_run
  <2> QED  BY <2>2, <2>3, <2>4
<1>3. ASSUME NEW d \in Dispatchers, Dispatch(d) \/ fail_dispatch(d)
      PROVE  LoopSound' /\ ScheduleIsAhead' /\ PeriodsApart'
  BY <1>3, <1>a, LoopKeepsPeriods, CommitKeepsPeriods DEF Dispatch
<1>4. ASSUME NEW c \in Clerks, commit_run(c)
      PROVE  LoopSound' /\ ScheduleIsAhead' /\ PeriodsApart'
  <2> DEFINE row == Pending(clerk[c].job, clerk[c].at, "run")
  <2>1. /\ row \in JobExecution /\ row.origin = "run"
        /\ executions' = Append(executions, row)
        /\ UNCHANGED <<next_run_at, dispatcher>>
    BY <1>4 DEF commit_run, PInv, TInv, TypeOK, Requesting, Pending, JobExecution
  <2> HIDE DEF row
  <2>2. /\ Len(executions') = Len(executions) + 1
        /\ \A x \in 1..Len(executions) : executions'[x] = executions[x]
        /\ executions'[Len(executions) + 1] = row
    BY <1>b, <2>1, AppendProperties
  <2>3. \A x \in 1..Len(executions') : executions'[x].origin = "dispatch" =>
            x \in 1..Len(executions) /\ executions'[x] = executions[x]
    BY <1>b, <2>1, <2>2
  <2>4. LoopSound'
    BY <2>1 DEF PInv, LoopSound
  <2>5. ScheduleIsAhead'
    <3> SUFFICES ASSUME NEW x \in 1..Len(executions'), executions'[x].origin = "dispatch"
                 PROVE  compute_next_run(executions'[x].job, executions'[x].scheduled_for)
                            <= next_run_at'[executions'[x].job]
      BY DEF ScheduleIsAhead, compute_next_run
    <3> QED  BY <2>1, <2>3 DEF PInv, ScheduleIsAhead
  <2>6. PeriodsApart'
    <3> SUFFICES ASSUME NEW x \in 1..Len(executions'), NEW y \in 1..Len(executions'),
                        executions'[x].origin = "dispatch", executions'[y].origin = "dispatch",
                        executions'[x].job = executions'[y].job, x < y
                 PROVE  compute_next_run(executions'[x].job, executions'[x].scheduled_for)
                            <= executions'[y].scheduled_for
      BY DEF PeriodsApart, compute_next_run
    <3> QED  BY <2>3 DEF PInv, PeriodsApart
  <2> QED  BY <2>4, <2>5, <2>6
<1>5. ASSUME NEW w \in Executors, Answer(w)
      PROVE  LoopSound' /\ ScheduleIsAhead' /\ PeriodsApart'
  BY <1>5, AnswersAreQuiet, QuietSteps DEF Answer, commit_start, commit_complete, PInv
<1>6. ASSUME \/ tick
             \/ \E c \in Clerks, j \in Jobs : run_scheduled_job(c, j)
             \/ \E w \in Executors : StartSome(w) \/ CompleteSome(w)
             \/ UNCHANGED vars
      PROVE  UNCHANGED <<executions, next_run_at, dispatcher>>
  BY <1>6 DEF tick, run_scheduled_job, StartSome, CompleteSome, start_job_execution,
              complete_job_execution, vars
<1> QED
  BY <1>1, <1>2, <1>3, <1>4, <1>5, <1>6 DEF Next

\* With one dispatcher, no job is dispatched twice in a period, however often it
\* retries, however late it is, and whatever operators and workers do meanwhile.
THEOREM DispatchedOncePerPeriod == OneDispatcher => (Spec => []OncePerPeriod)
<1> SUFFICES ASSUME OneDispatcher PROVE Spec => []OncePerPeriod
  OBVIOUS
<1>1. PInv /\ [Next]_vars => PInv'
  BY NextPeriods
<1>2. PInv => OncePerPeriod
  <2> SUFFICES ASSUME PInv PROVE OncePerPeriod
    OBVIOUS
  <2>1. DOMAIN executions = 1..Len(executions)
    BY LenProperties DEF PInv, TInv, TypeOK
  <2> QED  BY <2>1 DEF PInv, PeriodsApart, OncePerPeriod
<1> QED  BY <1>1, <1>2, InitPeriods, PTL DEF Spec

-----------------------------------------------------------------------------
(* Attempts and ends.                                                      *)

SoundRow(row) ==
    /\ row.attempt_count <= max_attempts
    /\ row.status \in {"pending", "failed_retry"} => row.attempt_count < max_attempts
    /\ row.status = "dead" => row.attempt_count = max_attempts

RowsSound == \A x \in 1..Len(executions) : SoundRow(executions[x])

\* What a request has read is still the row.
ReadsAreCurrent ==
    \A w \in Executors : executor[w] # Idle =>
        /\ executor[w].seen = executions[executor[w].id]
        /\ executor[w].phase = "start" => executor[w].seen.status \in {"pending", "failed_retry"}
        /\ executor[w].phase = "complete" => CanComplete(executor[w].seen)

AInv == TInv /\ RowsSound /\ ReadsAreCurrent

\* The committed rows of one step are those there were, followed by fresh ones.
Extended ==
    /\ Len(executions) <= Len(executions')
    /\ \A x \in 1..Len(executions) : executions'[x] = executions[x]
    /\ \A x \in (Len(executions) + 1)..Len(executions') :
          executions'[x].status = "pending" /\ executions'[x].attempt_count = 0

LEMMA InitAttempts == Init => AInv
<1> SUFFICES ASSUME Init PROVE AInv
  OBVIOUS
<1>1. Len(executions) = 0
  BY EmptySeq DEF Init
<1> QED  BY <1>1, InitTypes DEF AInv, RowsSound, ReadsAreCurrent, Init

LEMMA CommitsExtend ==
    ASSUME TInv,
           \/ \E d \in Dispatchers : commit_dispatch(d)
           \/ \E c \in Clerks : commit_run(c)
    PROVE  Extended /\ UNCHANGED executor
<1>a. executions \in Seq(JobExecution) /\ Len(executions) \in Nat
  BY LenProperties DEF TInv, TypeOK
<1>1. ASSUME NEW d \in Dispatchers, commit_dispatch(d) PROVE Extended /\ UNCHANGED executor
  <2> DEFINE new == Created(dispatcher[d].claimed, dispatcher[d].at)
             n == Len(dispatcher[d].claimed)
  <2>1. dispatcher[d] \in Dispatching
    BY <1>1 DEF commit_dispatch, TInv, TypeOK
  <2>2. /\ new \in Seq(JobExecution) /\ Len(new) = n /\ n \in Nat
        /\ \A i \in 1..n : new[i] = Pending(dispatcher[d].claimed[i], dispatcher[d].at, "dispatch")
    BY <2>1, CreatedRows, LenProperties DEF Dispatching
  <2>3. executions' = executions \o new /\ UNCHANGED executor
    BY <1>1 DEF commit_dispatch
  <2> HIDE DEF new, n
  <2>4. /\ Len(executions \o new) = Len(executions) + Len(new)
        /\ \A x \in 1..(Len(executions) + Len(new)) :
              (executions \o new)[x] =
                  IF x <= Len(executions) THEN executions[x] ELSE new[x - Len(executions)]
    BY <1>a, <2>2, ConcatProperties, Zenon
  <2>5. ASSUME NEW x \in (Len(executions) + 1)..(Len(executions) + n)
        PROVE  executions'[x].status = "pending" /\ executions'[x].attempt_count = 0
    <3>1. /\ x - Len(executions) \in 1..n /\ ~(x <= Len(executions))
          /\ x \in 1..(Len(executions) + n)
      BY <1>a, <2>2
    <3>2. executions'[x] = new[x - Len(executions)]
      BY <2>2, <2>3, <2>4, <3>1
    <3> QED  BY <2>2, <3>1, <3>2 DEF Pending
  <2>6. \A x \in 1..Len(executions) :
            x \in 1..(Len(executions) + n) /\ x <= Len(executions)
    BY <1>a, <2>2
  <2>7. Len(executions') = Len(executions) + n /\ Len(executions) <= Len(executions')
    BY <1>a, <2>2, <2>3, <2>4
  <2> QED  BY <2>2, <2>3, <2>4, <2>5, <2>6, <2>7 DEF Extended
<1>2. ASSUME NEW c \in Clerks, commit_run(c) PROVE Extended /\ UNCHANGED executor
  <2> DEFINE row == Pending(clerk[c].job, clerk[c].at, "run")
  <2>1. /\ row \in JobExecution /\ row.status = "pending" /\ row.attempt_count = 0
        /\ executions' = Append(executions, row) /\ UNCHANGED executor
    BY <1>2 DEF commit_run, TInv, TypeOK, Requesting, Pending, JobExecution
  <2> HIDE DEF row
  <2>2. /\ Len(executions') = Len(executions) + 1
        /\ \A x \in 1..Len(executions) : executions'[x] = executions[x]
        /\ executions'[Len(executions) + 1] = row
    BY <1>a, <2>1, AppendProperties
  <2>3. \A x \in (Len(executions) + 1)..Len(executions') : x = Len(executions) + 1
    BY <1>a, <2>2
  <2> QED  BY <1>a, <2>1, <2>2, <2>3 DEF Extended
<1> QED  BY <1>1, <1>2

\* A request answers on a row that it read, and that has not ended.
LEMMA AnswersAreCurrent ==
    ASSUME AInv, NEW w \in Executors, Answer(w)
    PROVE  LET x == executor[w].id
           IN  /\ x \in 1..Len(executions)
               /\ executions[x].status \notin {"succeeded", "dead"}
               /\ Len(executions') = Len(executions)
               /\ \A y \in 1..Len(executions) : y # x => executions'[y] = executions[y]
               /\ SoundRow(executions'[x])
               /\ executor' = [executor EXCEPT ![w] = Idle]
<1> DEFINE x == executor[w].id
           row == executions[x]
<1>1. executor[w] \in Reporting /\ executor[w] # Idle
  BY DEF Answer, commit_start, commit_complete, AInv, TInv, TypeOK, Idle
<1>2. /\ executions \in Seq(JobExecution) /\ Len(executions) \in Nat
      /\ DOMAIN executions = 1..Len(executions)
  BY LenProperties DEF AInv, TInv, TypeOK
<1>3. x \in 1..Len(executions) /\ row \in JobExecution /\ executor[w].seen = row
  BY <1>1, <1>2, ElementOfSeq DEF AInv, TInv, RowsExist, ReadsAreCurrent
<1>4. SoundRow(row)
  BY <1>3 DEF AInv, RowsSound
<1>5. executor' = [executor EXCEPT ![w] = Idle]
  BY DEF Answer, commit_start, commit_complete
<1>6. /\ row.status \notin {"succeeded", "dead"}
      /\ \E new \in JobExecution : SoundRow(new) /\ executions' = [executions EXCEPT ![x] = new]
  <2>1. CASE commit_start(w)
    <3> DEFINE new == Started(row, row)
    <3>1. row.status \in {"pending", "failed_retry"}
      BY <1>1, <1>3, <2>1 DEF commit_start, AInv, ReadsAreCurrent
    <3>2. new \in JobExecution
      BY <1>3, WrittenRows
    <3>3. new.status = "running" /\ new.attempt_count = row.attempt_count + 1
      BY <1>3 DEF Started, JobExecution
    <3>4. row.attempt_count \in Nat /\ row.attempt_count < max_attempts
      BY <1>3, <1>4, <3>1 DEF SoundRow, JobExecution
    <3>5. SoundRow(new)
      BY <3>3, <3>4, AttemptsAssumption DEF SoundRow
    <3>6. executions' = [executions EXCEPT ![x] = new]
      BY <1>3, <2>1 DEF commit_start
    <3> QED  BY <3>1, <3>2, <3>5, <3>6
  <2>2. CASE commit_complete(w)
    <3> DEFINE success == executor[w].success
               new == Completed(row, row, success)
    <3>1. row.status \notin {"succeeded", "dead"}
      BY <1>1, <1>3, <2>2 DEF commit_complete, AInv, ReadsAreCurrent, CanComplete
    <3>2. success \in BOOLEAN
      BY <1>1, <2>2 DEF commit_complete, Reporting
    <3>3. new \in JobExecution
      BY <1>3, <3>2, WrittenRows
    <3>4. new.status = next_status(row, success) /\ new.attempt_count = row.attempt_count
      BY <1>3 DEF Completed, JobExecution
    <3>5. row.attempt_count \in Nat
      BY <1>3 DEF JobExecution
    <3>6. SoundRow(new)
      BY <1>4, <3>4, <3>5, AttemptsAssumption DEF SoundRow, next_status, Exhausted
    <3>7. executions' = [executions EXCEPT ![x] = new]
      BY <1>3, <2>2 DEF commit_complete
    <3> QED  BY <3>1, <3>3, <3>6, <3>7
  <2> QED  BY <2>1, <2>2 DEF Answer
<1>7. PICK new \in JobExecution : SoundRow(new) /\ executions' = [executions EXCEPT ![x] = new]
  BY <1>6
<1>8. /\ Len(executions') = Len(executions)
      /\ \A y \in 1..Len(executions) : executions'[y] = IF y = x THEN new ELSE executions[y]
  BY <1>2, <1>3, <1>7, ExceptSeq
<1> QED  BY <1>3, <1>5, <1>6, <1>7, <1>8

LEMMA NextAttempts == OneExecutor /\ AInv /\ [Next]_vars => AInv'
<1> SUFFICES ASSUME OneExecutor, AInv, [Next]_vars PROVE RowsSound' /\ ReadsAreCurrent'
  BY NextTypes DEF AInv
<1>a. /\ executions \in Seq(JobExecution) /\ Len(executions) \in Nat
      /\ DOMAIN executions = 1..Len(executions)
      /\ executor \in [Executors -> Reporting \cup {Idle}]
  BY LenProperties DEF AInv, TInv, TypeOK
<1>b. Len(executions') \in Nat
  BY NextTypes, LenProperties DEF AInv, TInv, TypeOK
<1>1. CASE UNCHANGED <<executions, executor>>
  BY <1>1 DEF AInv, RowsSound, ReadsAreCurrent, SoundRow, CanComplete
<1>2. CASE Extended /\ UNCHANGED executor
  <2>1. RowsSound'
    <3> SUFFICES ASSUME NEW x \in 1..Len(executions') PROVE SoundRow(executions'[x])
      BY DEF RowsSound, SoundRow
    <3>1. CASE x \in 1..Len(executions)
      BY <1>2, <3>1 DEF Extended, AInv, RowsSound
    <3>2. CASE x \notin 1..Len(executions)
      <4>1. x \in (Len(executions) + 1)..Len(executions')
        BY <1>a, <1>b, <3>2
      <4>2. executions'[x].status = "pending" /\ executions'[x].attempt_count = 0
        BY <1>2, <4>1 DEF Extended
      <4> QED  BY <4>2, AttemptsAssumption DEF SoundRow
    <3> QED  BY <3>1, <3>2
  <2>2. \A w \in Executors : executor[w] # Idle =>
            executor[w].id \in 1..Len(executions)
    BY <1>a DEF AInv, TInv, RowsExist
  <2>3. ReadsAreCurrent'
    BY <1>2, <2>2 DEF Extended, AInv, ReadsAreCurrent, CanComplete
  <2> QED  BY <2>1, <2>3
<1>3. ASSUME NEW w \in Executors, NEW x \in DOMAIN executions, start_job_execution(w, x)
      PROVE  RowsSound' /\ ReadsAreCurrent'
  <2>1. /\ UNCHANGED executions
        /\ executor'[w] = [phase |-> "start", id |-> x, seen |-> executions[x]]
        /\ executions[x].status \in {"pending", "failed_retry"}
        /\ \A v \in Executors \ {w} : executor'[v] = executor[v]
    BY <1>3, <1>a DEF start_job_execution
  <2> QED  BY <2>1 DEF AInv, RowsSound, ReadsAreCurrent, SoundRow, CanComplete
<1>4. ASSUME NEW w \in Executors, NEW x \in DOMAIN executions, NEW success \in BOOLEAN,
             complete_job_execution(w, x, success)
      PROVE  RowsSound' /\ ReadsAreCurrent'
  <2>1. /\ UNCHANGED executions
        /\ executor'[w] = [phase |-> "complete", id |-> x, seen |-> executions[x],
                           success |-> success]
        /\ CanComplete(executions[x])
        /\ \A v \in Executors \ {w} : executor'[v] = executor[v]
    BY <1>4, <1>a DEF complete_job_execution
  <2> QED  BY <2>1 DEF AInv, RowsSound, ReadsAreCurrent, SoundRow, CanComplete
<1>5. ASSUME NEW w \in Executors, Answer(w) PROVE RowsSound' /\ ReadsAreCurrent'
  <2> DEFINE x == executor[w].id
  <2>1. /\ x \in 1..Len(executions)
        /\ Len(executions') = Len(executions)
        /\ \A y \in 1..Len(executions) : y # x => executions'[y] = executions[y]
        /\ SoundRow(executions'[x])
        /\ executor' = [executor EXCEPT ![w] = Idle]
    BY <1>5, AnswersAreCurrent
  <2>2. RowsSound'
    <3> SUFFICES ASSUME NEW y \in 1..Len(executions) PROVE SoundRow(executions'[y])
      BY <2>1 DEF RowsSound, SoundRow
    <3> QED  BY <2>1 DEF AInv, RowsSound
  <2>3. \A v \in Executors : v = w /\ executor'[v] = Idle
    BY <1>a, <2>1 DEF OneExecutor
  <2> QED  BY <2>2, <2>3 DEF ReadsAreCurrent
<1>6. ASSUME \/ tick
             \/ \E j \in Jobs : create_scheduled_job(j)
             \/ \E d \in Dispatchers :
                   \/ select_due_jobs(d) \/ finish_dispatch(d) \/ fail_dispatch(d)
                   \/ \E j \in Jobs : claim(d, j)
             \/ \E c \in Clerks, j \in Jobs : run_scheduled_job(c, j)
             \/ UNCHANGED vars
      PROVE  UNCHANGED <<executions, executor>>
  BY <1>6 DEF tick, create_scheduled_job, select_due_jobs, finish_dispatch, fail_dispatch,
              claim, run_scheduled_job, vars
<1>7. ASSUME \/ \E d \in Dispatchers : commit_dispatch(d)
             \/ \E c \in Clerks : commit_run(c)
      PROVE  Extended /\ UNCHANGED executor
  BY <1>7, CommitsExtend DEF AInv
<1> QED
  BY <1>1, <1>2, <1>3, <1>4, <1>5, <1>6, <1>7 DEF Next, Dispatch, StartSome, CompleteSome

\* With one external worker, an execution is started max_attempts times at most, and
\* is given up only when they are used up.
THEOREM AttemptsAreBounded == OneExecutor => (Spec => []AttemptsAreSpent)
<1> SUFFICES ASSUME OneExecutor PROVE Spec => []AttemptsAreSpent
  OBVIOUS
<1>1. AInv /\ [Next]_vars => AInv'
  BY NextAttempts
<1>2. AInv => AttemptsAreSpent
  <2> SUFFICES ASSUME AInv PROVE AttemptsAreSpent
    OBVIOUS
  <2>1. DOMAIN executions = 1..Len(executions)
    BY LenProperties DEF AInv, TInv, TypeOK
  <2> QED  BY <2>1 DEF AInv, RowsSound, SoundRow, AttemptsAreSpent
<1> QED  BY <1>1, <1>2, InitAttempts, PTL DEF Spec

=============================================================================
