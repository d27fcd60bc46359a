----------------------- MODULE JournalApprovalProofs -----------------------
(***************************************************************************)
(* Proofs about JournalApproval, for every set of journals, users and      *)
(* sessions.                                                               *)
(*                                                                         *)
(* The difficulty is the stale read: a Commit acts on the row its request  *)
(* loaded, not on the row that is there.  The inductive invariant says     *)
(* what survives of a loaded row while other requests commit: its status   *)
(* was really reached (RequestsSound), since the log only grows.           *)
(***************************************************************************)
EXTENDS JournalApproval, TLAPS, WellFoundedInduction

\* What a request in flight still knows: it passed its endpoint's permission
\* check and its handler's guard on the row it loaded; that row's creator is the
\* journal's, and its status is one the journal's log reached.
RequestSound(q) ==
    /\ q.seen.created_by = journal[q.id].created_by
    /\ Guard(q.op, q.seen, q.user)
    /\ has_permission(q.user, RequiredPermission[q.op])
    /\ Reached(q.id, Len(approval_log[q.id]), q.seen.approval_status)

\* The row a request is about exists while the request is in flight; this is the
\* one fact type correctness needs beyond the types.
RowsExist == \A s \in Sessions : Busy(s) => journal[request[s].id] # NoHeader

RequestsSound == \A s \in Sessions : Busy(s) => RequestSound(request[s])

\* An entry of the log determines the status it leads to, and an approval is by
\* somebody else than the creator who may approve.
EntrySound(e, creator) ==
    /\ e.to_status = "approved" => e.action = "approve"
    /\ e.to_status = "posted" => e.from_status = "approved"
    /\ e.to_status # "draft"
    /\ e.action = "approve" =>
          /\ e.actor_id # creator
          /\ has_permission(e.actor_id, "journal:approve")

\* The entry committed last names the status the row has.  This is the order of the
\* commits, which the repository does not keep; what its history says follows below.
LastCommitRules ==
    \A j \in Journals :
        LET log == approval_log[j]
        IN  IF log = << >>
            THEN journal[j] = NoHeader \/ journal[j].approval_status = "draft"
            ELSE journal[j].approval_status = log[Len(log)].to_status

LogSound ==
    \A j \in Journals : \A n \in 1..Len(approval_log[j]) :
        EntrySound(approval_log[j][n], journal[j].created_by)

IInv ==
    /\ TypeOK
    /\ RowsExist
    /\ HistoryWellFounded
    /\ LastCommitRules
    /\ RequestsSound
    /\ LogSound

-----------------------------------------------------------------------------
(* Type correctness.                                                       *)

LEMMA InitTypeOK == Init => TypeOK
BY DEF Init, TypeOK, Idle

\* What a handler leaves on a loaded row is a row, and so is the row after the
\* UPDATE.
LEMMA EditedType ==
    ASSUME NEW op \in Operation, NEW row \in JournalHeader, NEW user \in Users
    PROVE  Edited(op, row, user) \in JournalHeader
<1>1. CASE op = "submit"
  BY <1>1 DEF Edited, Submitted, JournalHeader, Status
<1>2. CASE op = "approve"
  BY <1>2 DEF Edited, Approved, JournalHeader, Status
<1>3. CASE op = "reject"
  BY <1>3 DEF Edited, Rejected, JournalHeader, Status
<1>4. CASE op = "post"
  BY <1>4 DEF Edited, Posted, JournalHeader, Status
<1>5. CASE op = "void"
  BY <1>5 DEF Edited, Voided, JournalHeader, Status
<1>6. QED
  BY <1>1, <1>2, <1>3, <1>4, <1>5 DEF Operation

LEMMA OrmUpdateType ==
    ASSUME NEW row \in JournalHeader, NEW seen \in JournalHeader,
           NEW edited \in JournalHeader
    PROVE  OrmUpdate(row, seen, edited) \in JournalHeader
BY DEF OrmUpdate, Column, JournalHeader

\* The fields of a request in flight.
LEMMA RequestType ==
    ASSUME TypeOK, NEW s \in Sessions, Busy(s)
    PROVE  /\ request[s] \in Request
           /\ request[s].op \in Operation
           /\ request[s].id \in Journals
           /\ request[s].user \in Users
           /\ request[s].seen \in JournalHeader
           /\ request[s].created_at \in Nat
BY DEF TypeOK, Busy, Idle, Request, Begun

LEMMA LogEntriesType ==
    ASSUME NEW q \in Request
    PROVE  LogEntries(q) \in Seq(ApprovalLog)
<1>1. /\ q.op \in Operation
      /\ q.user \in Users
      /\ q.seen \in JournalHeader
      /\ q.seen.approval_status \in Status
      /\ q.created_at \in Nat
  BY DEF Request, JournalHeader
<1>2. Edited(q.op, q.seen, q.user).approval_status \in Status
  BY <1>1, EditedType DEF JournalHeader
<1>3. CASE q.op = "void"
  BY <1>3 DEF LogEntries
<1>4. CASE q.op # "void"
  <2> DEFINE e == [action      |-> q.op,
                   from_status |-> LoggedFrom(q.op, q.seen),
                   to_status   |-> Edited(q.op, q.seen, q.user).approval_status,
                   actor_id    |-> q.user,
                   created_at  |-> q.created_at]
  <2>1. e \in ApprovalLog
    BY <1>1, <1>2 DEF ApprovalLog, LoggedFrom, Status
  <2>2. LogEntries(q) = <<e>>
    BY <1>4 DEF LogEntries
  <2>3. QED
    BY <2>1, <2>2
<1>5. QED
  BY <1>3, <1>4

LEMMA HeaderIsNotNoHeader == NoHeader \notin JournalHeader
BY NoUserAssumption DEF NoHeader, JournalHeader, Status

LEMMA NextTypeOK ==
    TypeOK /\ RowsExist /\ [Next]_vars => TypeOK' /\ RowsExist'
<1> SUFFICES ASSUME TypeOK, RowsExist, [Next]_vars
             PROVE  TypeOK' /\ RowsExist'
  OBVIOUS
<1>1. ASSUME NEW j \in Journals, NEW u \in Users, create_journal(j, u)
      PROVE  TypeOK' /\ RowsExist'
  <2> DEFINE new == [approval_status |-> "draft", created_by |-> u,
                     approved_by |-> NoUser, is_voided |-> FALSE]
  <2>1. new \in JournalHeader
    BY DEF JournalHeader, Status
  <2>2. journal' = [journal EXCEPT ![j] = new]
    BY <1>1 DEF create_journal
  <2>3. journal' \in [Journals -> JournalHeader \cup {NoHeader}]
    BY <2>1, <2>2 DEF TypeOK
  <2>4. \A i \in Journals : journal[i] # NoHeader => journal'[i] # NoHeader
    BY <2>1, <2>2, HeaderIsNotNoHeader DEF TypeOK
  <2>5. QED
    BY <1>1, <2>3, <2>4, RequestType DEF create_journal, TypeOK, RowsExist, Busy
<1>2. ASSUME NEW w \in WorkflowChoices, create_workflow(w)
      PROVE  TypeOK' /\ RowsExist'
  BY <1>2 DEF create_workflow, TypeOK, RowsExist, Busy
<1>3. ASSUME NEW s \in Sessions, NEW op \in Operation, NEW j \in Journals,
             NEW u \in Users, Read(s, op, j, u)
      PROVE  TypeOK' /\ RowsExist'
  <2> DEFINE q == [phase    |-> IF op = "approve" THEN "loaded" ELSE "checked",
                   op       |-> op,
                   id       |-> j,
                   user     |-> u,
                   seen     |-> journal[j],
                   in_force |-> workflows,
                   created_at |-> request[s].created_at]
  <2>1. journal[j] \in JournalHeader /\ request[s].created_at \in Nat
    BY <1>3 DEF Read, TypeOK, Begun, Request, Idle
  <2>2. workflows \in SUBSET Workflow
    BY WorkflowAssumption DEF TypeOK
  <2>3. q \in Request
    BY <2>1, <2>2 DEF Request
  <2>4. request' = [request EXCEPT ![s] = q]
    BY <1>3 DEF Read
  <2>5. request' \in [Sessions -> Request \cup Begun \cup {Idle}]
    BY <2>3, <2>4 DEF TypeOK
  <2>6. RowsExist'
    BY <1>3, <2>4 DEF Read, RowsExist, Busy, TypeOK
  <2>7. QED
    BY <1>3, <2>5, <2>6 DEF Read, TypeOK
<1>4. ASSUME NEW s \in Sessions, CheckWorkflow(s)
      PROVE  TypeOK' /\ RowsExist'
  <2>1. Busy(s) /\ request[s] \in Request
    BY <1>4, RequestType DEF CheckWorkflow, Busy
  <2>2. [request[s] EXCEPT !.phase = "checked"] \in Request
    BY <2>1 DEF Request
  <2>3. request' = [request EXCEPT ![s] = [request[s] EXCEPT !.phase = "checked"]]
    BY <1>4 DEF CheckWorkflow
  <2>4. request' \in [Sessions -> Request \cup Begun \cup {Idle}]
    BY <2>2, <2>3 DEF TypeOK
  <2>6. RowsExist'
    BY <1>4, <2>1, <2>3 DEF CheckWorkflow, RowsExist, Busy, TypeOK, Request
  <2>7. QED
    BY <1>4, <2>4, <2>6 DEF CheckWorkflow, TypeOK
<1>5. ASSUME NEW s \in Sessions, Commit(s)
      PROVE  TypeOK' /\ RowsExist'
  <2> DEFINE q == request[s]
             edited == Edited(q.op, q.seen, q.user)
             row == OrmUpdate(journal[q.id], q.seen, edited)
  <2>1. /\ Busy(s)
        /\ q \in Request
        /\ q.op \in Operation
        /\ q.id \in Journals
        /\ q.user \in Users
        /\ q.seen \in JournalHeader
    BY <1>5, RequestType DEF Commit, Busy
  <2>2. journal[q.id] \in JournalHeader
    BY <2>1 DEF RowsExist, TypeOK
  <2>3. row \in JournalHeader
    BY <2>1, <2>2, EditedType, OrmUpdateType
  <2>4. LogEntries(q) \in Seq(ApprovalLog)
    BY <2>1, LogEntriesType
  <2>5. /\ journal' = [journal EXCEPT ![q.id] = row]
        /\ approval_log' = [approval_log EXCEPT ![q.id] = @ \o LogEntries(q)]
        /\ request' = [request EXCEPT ![s] = Idle]
        /\ UNCHANGED workflows
    BY <1>5 DEF Commit
  <2>6. journal' \in [Journals -> JournalHeader \cup {NoHeader}]
    BY <2>1, <2>3, <2>5 DEF TypeOK
  <2>7. approval_log' \in [Journals -> Seq(ApprovalLog)]
    BY <2>1, <2>4, <2>5 DEF TypeOK
  <2>8. request' \in [Sessions -> Request \cup Begun \cup {Idle}]
    BY <2>5 DEF TypeOK
  <2>9. \A i \in Journals : journal[i] # NoHeader => journal'[i] # NoHeader
    BY <2>1, <2>3, <2>5, HeaderIsNotNoHeader DEF TypeOK
  <2>10. \A t \in Sessions : Busy(t)' => Busy(t) /\ request'[t] = request[t]
    BY <2>5 DEF Busy, Idle, TypeOK
  <2>11. RowsExist'
    BY <2>9, <2>10, RequestType DEF RowsExist
  <2>12. QED
    BY <2>5, <2>6, <2>7, <2>8, <2>11 DEF TypeOK
<1>6. ASSUME NEW s \in Sessions, Rollback(s)
      PROVE  TypeOK' /\ RowsExist'
  BY <1>6 DEF Rollback, TypeOK, RowsExist, Busy, Idle
<1>7. ASSUME NEW s \in Sessions, NEW j \in Journals, Begin(s, j)
      PROVE  TypeOK' /\ RowsExist'
  <2> DEFINE b == [phase |-> "begun", id |-> j, created_at |-> Len(approval_log[j])]
  <2>1. request' = [request EXCEPT ![s] = b] /\ UNCHANGED <<journal, approval_log, workflows>>
    BY <1>7 DEF Begin
  <2>2. b \in Begun
    BY DEF Begun, TypeOK
  <2>3. request' \in [Sessions -> Request \cup Begun \cup {Idle}]
    BY <2>1, <2>2 DEF TypeOK
  <2>4. \A t \in Sessions : Busy(t)' => Busy(t) /\ request'[t] = request[t]
    BY <2>1 DEF Busy, TypeOK
  <2> QED BY <2>1, <2>3, <2>4 DEF TypeOK, RowsExist
<1>8. CASE UNCHANGED vars
  BY <1>8 DEF vars, TypeOK, RowsExist, Busy
<1>9. QED
  BY <1>1, <1>2, <1>3, <1>4, <1>5, <1>6, <1>7, <1>8 DEF Next

\* Every reachable state is well typed.
THEOREM TypeCorrect == Spec => []TypeOK
<1>1. Init => TypeOK /\ RowsExist
  BY InitTypeOK DEF Init, RowsExist, Busy, Idle
<1>2. QED
  BY <1>1, NextTypeOK, PTL DEF Spec

-----------------------------------------------------------------------------
(* What a commit does to the journal it is about.                          *)

\* A guard that passed pins down the status that was loaded, so that the status
\* every operation but void writes differs from it and reaches the UPDATE.
LEMMA StatusIsWritten ==
    ASSUME NEW op \in Operation, op # "void", NEW seen \in JournalHeader,
           NEW user \in Users, Guard(op, seen, user), NEW row \in JournalHeader
    PROVE  OrmUpdate(row, seen, Edited(op, seen, user)).approval_status
              = Edited(op, seen, user).approval_status
<1> USE DEF Guard, OrmUpdate, Column, JournalHeader
<1>1. CASE op = "submit"
  BY <1>1 DEF Edited, Submitted, CanSubmit
<1>2. CASE op = "approve"
  BY <1>2 DEF Edited, Approved, CanApprove
<1>3. CASE op = "reject"
  BY <1>3 DEF Edited, Rejected, CanReject
<1>4. CASE op = "post"
  BY <1>4 DEF Edited, Posted, CanPost
<1>5. QED
  BY <1>1, <1>2, <1>3, <1>4 DEF Operation

LEMMA VoidKeepsStatus ==
    ASSUME NEW seen \in JournalHeader, NEW user \in Users, NEW row \in JournalHeader
    PROVE  OrmUpdate(row, seen, Edited("void", seen, user)).approval_status
              = row.approval_status
BY DEF OrmUpdate, Column, Edited, Voided, JournalHeader

\* The entry a commit appends.
Entry(q) ==
    [action      |-> q.op,
     from_status |-> LoggedFrom(q.op, q.seen),
     to_status   |-> Edited(q.op, q.seen, q.user).approval_status,
     actor_id    |-> q.user,
     created_at  |-> q.created_at]

LEMMA CommitEffect ==
    ASSUME TypeOK, RowsExist, RequestsSound, NEW s \in Sessions, Commit(s)
    PROVE  LET q == request[s]
               old == approval_log[q.id]
           IN  /\ Busy(s)
               /\ q.id \in Journals
               /\ RequestSound(q)
               /\ \A i \in Journals :
                     /\ journal'[i].created_by = journal[i].created_by
                     /\ journal[i] # NoHeader => journal'[i] # NoHeader
                     /\ i # q.id => journal'[i] = journal[i]
               /\ approval_log' \in [Journals -> Seq(ApprovalLog)]
               /\ \A i \in Journals : i # q.id => approval_log'[i] = approval_log[i]
               /\ \/ /\ q.op = "void"
                     /\ approval_log'[q.id] = old
                     /\ journal'[q.id].approval_status = journal[q.id].approval_status
                  \/ /\ q.op # "void"
                     /\ approval_log'[q.id] = Append(old, Entry(q))
                     /\ journal'[q.id].approval_status = Entry(q).to_status
               /\ \A t \in Sessions : Busy(t)' => Busy(t) /\ request'[t] = request[t]
<1> DEFINE q == request[s]
           edited == Edited(q.op, q.seen, q.user)
           row == OrmUpdate(journal[q.id], q.seen, edited)
<1>1. /\ Busy(s)
      /\ q \in Request
      /\ q.op \in Operation
      /\ q.id \in Journals
      /\ q.user \in Users
      /\ q.seen \in JournalHeader
      /\ RequestSound(q)
  BY RequestType DEF Commit, Busy, RequestsSound
<1>2. journal[q.id] \in JournalHeader
  BY <1>1 DEF RowsExist, TypeOK
<1>3. /\ journal' = [journal EXCEPT ![q.id] = row]
      /\ approval_log' = [approval_log EXCEPT ![q.id] = @ \o LogEntries(q)]
      /\ request' = [request EXCEPT ![s] = Idle]
  BY DEF Commit
<1>4. row \in JournalHeader /\ row.created_by = journal[q.id].created_by
  BY <1>1, <1>2, EditedType, OrmUpdateType DEF OrmUpdate
<1>5. \A i \in Journals :
         /\ journal'[i].created_by = journal[i].created_by
         /\ journal[i] # NoHeader => journal'[i] # NoHeader
         /\ i # q.id => journal'[i] = journal[i]
  BY <1>1, <1>3, <1>4, HeaderIsNotNoHeader DEF TypeOK
<1>6. LogEntries(q) \in Seq(ApprovalLog) /\ approval_log[q.id] \in Seq(ApprovalLog)
  BY <1>1, LogEntriesType DEF TypeOK
<1>7. /\ approval_log' \in [Journals -> Seq(ApprovalLog)]
      /\ approval_log'[q.id] = approval_log[q.id] \o LogEntries(q)
      /\ \A i \in Journals : i # q.id => approval_log'[i] = approval_log[i]
  BY <1>1, <1>3, <1>6 DEF TypeOK
<1>8. journal'[q.id] = row
  BY <1>1, <1>3 DEF TypeOK
<1>9. ASSUME q.op = "void"
      PROVE  /\ approval_log'[q.id] = approval_log[q.id]
             /\ journal'[q.id].approval_status = journal[q.id].approval_status
  <2>1. approval_log'[q.id] = approval_log[q.id]
    BY <1>6, <1>7, <1>9 DEF LogEntries
  <2>2. journal'[q.id].approval_status = journal[q.id].approval_status
    BY <1>1, <1>2, <1>8, <1>9, VoidKeepsStatus
  <2>3. QED
    BY <2>1, <2>2
<1>10. ASSUME q.op # "void"
       PROVE  /\ approval_log'[q.id] = Append(approval_log[q.id], Entry(q))
              /\ journal'[q.id].approval_status = Entry(q).to_status
  <2>1. LogEntries(q) = <<Entry(q)>>
    BY <1>10 DEF LogEntries, Entry
  <2>2. approval_log'[q.id] = Append(approval_log[q.id], Entry(q))
    BY <1>6, <1>7, <2>1
  <2>3. journal'[q.id].approval_status = Entry(q).to_status
    BY <1>1, <1>2, <1>8, <1>10, StatusIsWritten DEF RequestSound, Entry
  <2>4. QED
    BY <2>2, <2>3
<1>11. \A t \in Sessions : Busy(t)' => Busy(t) /\ request'[t] = request[t]
  BY <1>3 DEF Busy, Idle, TypeOK
<1>12. QED
  BY <1>1, <1>5, <1>7, <1>9, <1>10, <1>11

-----------------------------------------------------------------------------
(* The inductive invariant.                                                *)

\* The entry a sound request appends is sound, and departs from a reached status.
LEMMA EntryOfSoundRequest ==
    ASSUME NEW q, q.op \in Operation, q.op # "void", q.seen \in JournalHeader,
           q.user \in Users, RequestSound(q)
    PROVE  /\ EntrySound(Entry(q), journal[q.id].created_by)
           /\ Entry(q).from_status = q.seen.approval_status
<1> USE DEF RequestSound, Guard, EntrySound, Entry, LoggedFrom, Edited, JournalHeader
<1>1. CASE q.op = "submit"
  BY <1>1 DEF Submitted, CanSubmit
<1>2. CASE q.op = "approve"
  <2>1. RequiredPermission["approve"] = "journal:approve"
    BY DEF RequiredPermission
  <2>2. has_permission(q.user, "journal:approve")
    BY <1>2, <2>1
  <2>3. q.user # journal[q.id].created_by
    BY <1>2 DEF CanApprove
  <2>4. QED
    BY <1>2, <2>2, <2>3 DEF Approved, CanApprove
<1>3. CASE q.op = "reject"
  BY <1>3 DEF Rejected
<1>4. CASE q.op = "post"
  BY <1>4 DEF Posted, CanPost
<1>5. QED
  BY <1>1, <1>2, <1>3, <1>4 DEF Operation

LEMMA InitIInv == Init => IInv
<1> SUFFICES ASSUME Init PROVE IInv
  OBVIOUS
<1>1. \A j \in Journals : approval_log[j] = << >> /\ journal[j] = NoHeader
  BY DEF Init
<1>2. \A s \in Sessions : ~Busy(s)
  BY DEF Init, Busy, Idle
<1>3. TypeOK
  BY InitTypeOK
<1>4. QED
  BY <1>1, <1>2, <1>3 DEF IInv, RowsExist, HistoryWellFounded, LastCommitRules,
                          RequestsSound, LogSound

\* Steps that leave every log alone keep what is said of the logs, provided they
\* change only the creator of a journal without entries.
LEMMA LogsKept ==
    ASSUME IInv, UNCHANGED approval_log,
           \A j \in Journals : approval_log[j] # << >> =>
               journal'[j] = journal[j]
    PROVE  HistoryWellFounded' /\ LogSound'
<1>1. \A j \in Journals : approval_log[j] \in Seq(ApprovalLog)
  BY DEF IInv, TypeOK
<1>2. HistoryWellFounded'
  BY DEF IInv, HistoryWellFounded, Reached
<1>3. LogSound'
  <2> SUFFICES ASSUME NEW j \in Journals, NEW n \in 1..Len(approval_log[j])
               PROVE  EntrySound(approval_log[j][n], journal'[j].created_by)
    BY DEF LogSound, EntrySound, has_permission
  <2>1. approval_log[j] # << >>
    BY <1>1
  <2>2. QED
    BY <2>1 DEF IInv, LogSound
<1>4. QED
  BY <1>2, <1>3

LEMMA NextIInv == IInv /\ [Next]_vars => IInv'
<1> SUFFICES ASSUME IInv, [Next]_vars PROVE IInv'
  OBVIOUS
<1> USE DEF IInv
<1>0. TypeOK' /\ RowsExist'
  BY NextTypeOK
<1>1. ASSUME NEW j \in Journals, NEW u \in Users, create_journal(j, u)
      PROVE  IInv'
  <2>1. /\ journal[j] = NoHeader
        /\ journal'[j].approval_status = "draft"
        /\ \A i \in Journals : i # j => journal'[i] = journal[i]
        /\ UNCHANGED <<approval_log, request>>
    BY <1>1 DEF create_journal, TypeOK
  <2>2. approval_log[j] = << >>
    <3>1. approval_log[j] \in Seq(ApprovalLog)
      BY DEF TypeOK
    <3>2. ASSUME approval_log[j] # << >> PROVE FALSE
      <4>1. approval_log[j][Len(approval_log[j])] \in ApprovalLog
        BY <3>1, <3>2
      <4>2. NoHeader.approval_status \in Status
        BY <2>1, <3>2, <4>1 DEF LastCommitRules, ApprovalLog
      <4>3. QED
        BY <4>2 DEF NoHeader, Status
    <3>3. QED
      BY <3>2
  <2>3. HistoryWellFounded' /\ LogSound'
    BY <2>1, <2>2, LogsKept
  <2>4. LastCommitRules'
    BY <2>1, <2>2 DEF LastCommitRules
  <2>5. \A s \in Sessions : Busy(s) => request[s].id # j
    BY <2>1 DEF RowsExist
  <2>6. RequestsSound'
    BY <2>1, <2>5, RequestType
       DEF RequestsSound, RequestSound, Busy, Reached, has_permission
  <2>7. QED
    BY <1>0, <2>3, <2>4, <2>6
<1>2. ASSUME NEW w \in WorkflowChoices, create_workflow(w)
      PROVE  IInv'
  <2>1. UNCHANGED <<journal, approval_log, request>>
    BY <1>2 DEF create_workflow
  <2>2. QED
    BY <1>0, <2>1, LogsKept
       DEF LastCommitRules, RequestsSound, RequestSound, Busy, Reached, has_permission
<1>3. ASSUME NEW s \in Sessions, NEW op \in Operation, NEW j \in Journals,
             NEW u \in Users, Read(s, op, j, u)
      PROVE  IInv'
  <2>1. UNCHANGED <<journal, approval_log>>
    BY <1>3 DEF Read
  <2>2. /\ request'[s].op = op
        /\ request'[s].id = j
        /\ request'[s].user = u
        /\ request'[s].seen = journal[j]
        /\ \A t \in Sessions : t # s => request'[t] = request[t]
    BY <1>3 DEF Read, TypeOK
  <2>3. Reached(j, Len(approval_log[j]), journal[j].approval_status)
    <3>1. approval_log[j] \in Seq(ApprovalLog)
      BY DEF TypeOK
    <3>2. CASE approval_log[j] = << >>
      BY <1>3, <3>2 DEF Read, LastCommitRules, Reached
    <3>3. CASE approval_log[j] # << >>
      <4>1. Len(approval_log[j]) \in 1..Len(approval_log[j])
        BY <3>1, <3>3
      <4>2. QED
        BY <3>3, <4>1 DEF LastCommitRules, Reached
    <3>4. QED
      BY <3>2, <3>3
  <2>4. RequestSound(request'[s])
    BY <1>3, <2>2, <2>3 DEF Read, RequestSound
  <2>5. RequestsSound'
    BY <2>1, <2>2, <2>4 DEF RequestsSound, RequestSound, Busy, Reached, has_permission
  <2>6. QED
    BY <1>0, <2>1, <2>5, LogsKept DEF LastCommitRules
<1>4. ASSUME NEW s \in Sessions, CheckWorkflow(s)
      PROVE  IInv'
  <2>1. UNCHANGED <<journal, approval_log>>
    BY <1>4 DEF CheckWorkflow
  <2>2. Busy(s) /\ request[s] \in Request
    BY <1>4, RequestType DEF CheckWorkflow, Busy
  <2>3. \A t \in Sessions :
           /\ Busy(t)' => Busy(t)
           /\ request'[t].op = request[t].op
           /\ request'[t].id = request[t].id
           /\ request'[t].user = request[t].user
           /\ request'[t].seen = request[t].seen
    BY <1>4, <2>2 DEF CheckWorkflow, TypeOK, Busy, Request
  <2>4. RequestsSound'
    BY <2>1, <2>3 DEF RequestsSound, RequestSound, Reached, has_permission
  <2>5. QED
    BY <1>0, <2>1, <2>4, LogsKept DEF LastCommitRules
<1>5. ASSUME NEW s \in Sessions, Commit(s)
      PROVE  IInv'
  <2> DEFINE q == request[s]
             old == approval_log[q.id]
             new == approval_log'[q.id]
  <2>1. /\ Busy(s)
        /\ q.id \in Journals
        /\ RequestSound(q)
        /\ \A i \in Journals :
              /\ journal'[i].created_by = journal[i].created_by
              /\ journal[i] # NoHeader => journal'[i] # NoHeader
              /\ i # q.id => journal'[i] = journal[i]
        /\ approval_log' \in [Journals -> Seq(ApprovalLog)]
        /\ \A i \in Journals : i # q.id => approval_log'[i] = approval_log[i]
        /\ \/ /\ q.op = "void"
              /\ new = old
              /\ journal'[q.id].approval_status = journal[q.id].approval_status
           \/ /\ q.op # "void"
              /\ new = Append(old, Entry(q))
              /\ journal'[q.id].approval_status = Entry(q).to_status
        /\ \A t \in Sessions : Busy(t)' => Busy(t) /\ request'[t] = request[t]
    BY <1>5, CommitEffect
  <2>2. /\ q.op \in Operation
        /\ q.user \in Users
        /\ q.seen \in JournalHeader
        /\ old \in Seq(ApprovalLog)
        /\ new \in Seq(ApprovalLog)
        /\ \A i \in Journals : approval_log[i] \in Seq(ApprovalLog)
    BY <2>1, RequestType DEF TypeOK
  \* A log keeps its entries, so that a status once reached stays reached.
  <2>3. ASSUME NEW i \in Journals
        PROVE  /\ Len(approval_log[i]) \in Nat
               /\ Len(approval_log'[i]) \in Nat
               /\ Len(approval_log[i]) <= Len(approval_log'[i])
               /\ \A n \in 1..Len(approval_log[i]) : approval_log'[i][n] = approval_log[i][n]
    <3>1. CASE i # q.id
      BY <2>1, <2>2, <3>1
    <3>2. CASE i = q.id /\ q.op = "void"
      BY <2>1, <2>2, <3>2
    <3>3. CASE i = q.id /\ q.op # "void"
      BY <2>1, <2>2, <3>3
    <3>4. QED
      BY <3>1, <3>2, <3>3
  <2>4. ASSUME NEW i \in Journals, NEW n \in 0..Len(approval_log[i]), NEW st,
               NEW m \in Nat, n <= m, Reached(i, n, st)
        PROVE  Reached(i, m, st)'
    BY <2>3, <2>4 DEF Reached
  <2>5. RequestsSound'
    <3> SUFFICES ASSUME NEW t \in Sessions, Busy(t)' PROVE RequestSound(request[t])'
      BY DEF RequestsSound
    <3>1. Busy(t) /\ request'[t] = request[t]
      BY <2>1
    <3>2. PICK p \in Request : p = request[t]
      BY <3>1, RequestType
    <3>3. p.id \in Journals /\ RequestSound(p)
      BY <3>1, <3>2 DEF RequestsSound, Request
    <3>4. Reached(p.id, Len(approval_log[p.id]), p.seen.approval_status)'
      BY <2>3, <2>4, <3>3 DEF RequestSound
    <3>5. RequestSound(p)'
      BY <2>1, <3>3, <3>4 DEF RequestSound, has_permission
    <3>6. QED
      BY <3>1, <3>2, <3>5
  <2>6. HistoryWellFounded'
    <3> SUFFICES ASSUME NEW i \in Journals, NEW n \in 1..Len(approval_log'[i])
                 PROVE  Reached(i, n - 1, approval_log[i][n].from_status)'
      BY DEF HistoryWellFounded
    <3>1. CASE n \in 1..Len(approval_log[i])
      <4>1. Reached(i, n - 1, approval_log[i][n].from_status)
        BY <3>1 DEF HistoryWellFounded
      <4>2. QED
        BY <2>3, <2>4, <3>1, <4>1
    <3>2. CASE n \notin 1..Len(approval_log[i])
      <4>1. /\ i = q.id
            /\ q.op # "void"
            /\ n = Len(old) + 1
            /\ new[n] = Entry(q)
        BY <2>1, <2>2, <3>2
      <4>2. Reached(q.id, Len(old), Entry(q).from_status)
        BY <2>1, <2>2, <4>1, EntryOfSoundRequest DEF RequestSound
      <4>3. QED
        BY <2>3, <2>4, <4>1, <4>2
    <3>3. QED
      BY <3>1, <3>2
  <2>7. LogSound'
    <3> SUFFICES ASSUME NEW i \in Journals, NEW n \in 1..Len(approval_log'[i])
                 PROVE  EntrySound(approval_log[i][n], journal[i].created_by)'
      BY DEF LogSound
    <3>1. CASE n \in 1..Len(approval_log[i])
      <4>1. EntrySound(approval_log[i][n], journal[i].created_by)
        BY <3>1 DEF LogSound
      <4>2. QED
        BY <2>1, <2>3, <3>1, <4>1 DEF EntrySound, has_permission
    <3>2. CASE n \notin 1..Len(approval_log[i])
      <4>1. i = q.id /\ q.op # "void" /\ new[n] = Entry(q)
        BY <2>1, <2>2, <3>2
      <4>2. EntrySound(Entry(q), journal[q.id].created_by)
        BY <2>1, <2>2, <4>1, EntryOfSoundRequest
      <4>3. QED
        BY <2>1, <4>1, <4>2 DEF EntrySound, has_permission
    <3>3. QED
      BY <3>1, <3>2
  <2>8. LastCommitRules'
    <3> SUFFICES ASSUME NEW i \in Journals
                 PROVE  LET log == approval_log'[i]
                        IN  IF log = << >>
                            THEN journal'[i] = NoHeader \/ journal'[i].approval_status = "draft"
                            ELSE journal'[i].approval_status = log[Len(log)].to_status
      BY DEF LastCommitRules
    <3>1. CASE i # q.id
      BY <2>1, <3>1 DEF LastCommitRules
    <3>2. CASE i = q.id /\ q.op = "void"
      BY <2>1, <3>2 DEF LastCommitRules, RowsExist
    <3>3. CASE i = q.id /\ q.op # "void"
      BY <2>1, <2>2, <3>3
    <3>4. QED
      BY <3>1, <3>2, <3>3
  <2>9. QED
    BY <1>0, <2>5, <2>6, <2>7, <2>8
<1>6. ASSUME NEW s \in Sessions, Rollback(s)
      PROVE  IInv'
  <2>1. UNCHANGED <<journal, approval_log>>
    BY <1>6 DEF Rollback
  <2>2. \A t \in Sessions : Busy(t)' => Busy(t) /\ request'[t] = request[t]
    BY <1>6 DEF Rollback, Busy, Idle, TypeOK
  <2>3. RequestsSound'
    BY <2>1, <2>2 DEF RequestsSound, RequestSound, Reached, has_permission
  <2>4. QED
    BY <1>0, <2>1, <2>3, LogsKept DEF LastCommitRules
<1>7. ASSUME NEW s \in Sessions, NEW j \in Journals, Begin(s, j)
      PROVE  IInv'
  <2>1. UNCHANGED <<journal, approval_log>>
    BY <1>7 DEF Begin
  <2>2. \A t \in Sessions : Busy(t)' => Busy(t) /\ request'[t] = request[t]
    BY <1>7 DEF Begin, Busy, TypeOK
  <2>3. RequestsSound'
    BY <2>1, <2>2 DEF RequestsSound, RequestSound, Reached, has_permission
  <2>4. QED
    BY <1>0, <2>1, <2>3, LogsKept DEF LastCommitRules
<1>8. CASE UNCHANGED vars
  <2>1. UNCHANGED <<journal, approval_log, request>>
    BY <1>8 DEF vars
  <2>2. QED
    BY <1>0, <2>1, LogsKept
       DEF LastCommitRules, RequestsSound, RequestSound, Busy, Reached, has_permission
<1>9. QED
  BY <1>1, <1>2, <1>3, <1>4, <1>5, <1>6, <1>7, <1>8 DEF Next

-----------------------------------------------------------------------------
(* The theorems.                                                           *)

LEMMA SpecIInv == Spec => []IInv
BY InitIInv, NextIInv, PTL DEF Spec

\* However requests overlap, no entry of an approval log departs from a status the
\* journal never had.
THEOREM HistoryIsWellFounded == Spec => []HistoryWellFounded
BY SpecIInv, PTL DEF IInv

\* The history as the repository reads it, in the order of created_at, tells the truth
\* about the row: where the entry read last is of a request that no other logged one
\* overlapped, nothing was committed after it, and it names the journal's status.
THEOREM HistoryMatchesRow == Spec => []HistoryEndsInStatus
<1>1. IInv => HistoryEndsInStatus
  <2> SUFFICES ASSUME IInv, NEW j \in Journals
               PROVE  LET log == approval_log[j]
                      IN  IF log = << >>
                          THEN journal[j] = NoHeader \/ journal[j].approval_status = "draft"
                          ELSE \A n \in DOMAIN log :
                                  Alone(log, n) /\ (\A k \in DOMAIN log : ReadBefore(log, k, n)) =>
                                      journal[j].approval_status = log[n].to_status
    BY DEF HistoryEndsInStatus
  <2> DEFINE log == approval_log[j]
  <2>1. log \in Seq(ApprovalLog)
    BY DEF IInv, TypeOK
  <2>2. CASE log = << >>
    BY <2>2 DEF IInv, LastCommitRules
  <2>3. ASSUME log # << >>, NEW n \in DOMAIN log, Alone(log, n),
               \A k \in DOMAIN log : ReadBefore(log, k, n)
        PROVE  journal[j].approval_status = log[n].to_status
    <3>1. n \in 1..Len(log) /\ Len(log) \in Nat
      BY <2>1
    <3>2. n = Len(log)
      <4> SUFFICES ASSUME n + 1 \in (n + 1)..Len(log) PROVE FALSE
        BY <3>1
      <4>1. n + 1 \in DOMAIN log
        BY <2>1, <3>1
      <4>2. log[n + 1].created_at \in Nat
        <5>1. log[n + 1] \in ApprovalLog
          BY <2>1, <4>1
        <5> QED BY <5>1 DEF ApprovalLog
      <4>3. log[n + 1].created_at >= n /\ log[n].created_at = n - 1
        BY <2>3 DEF Alone
      <4>4. log[n + 1].created_at <= log[n].created_at
        BY <2>3, <4>1 DEF ReadBefore
      <4> QED BY <3>1, <4>2, <4>3, <4>4
    <3> QED BY <2>3, <3>2 DEF IInv, LastCommitRules
  <2> QED BY <2>2, <2>3
<1> QED BY <1>1, SpecIInv, PTL

\* A journal that is approved or posted carries an approval by another user than
\* its creator, one whose role may approve.
THEOREM SegregationOfDuties == Spec => []ApprovalBacked
<1>1. IInv => ApprovalBacked
  <2> SUFFICES ASSUME IInv, NEW j \in Journals,
                      journal[j].approval_status \in {"approved", "posted"}
               PROVE  \E n \in 1..Len(approval_log[j]) :
                         /\ approval_log[j][n].action = "approve"
                         /\ approval_log[j][n].actor_id # journal[j].created_by
                         /\ has_permission(approval_log[j][n].actor_id, "journal:approve")
    BY DEF ApprovalBacked
  <2> DEFINE log == approval_log[j]
             last == Len(log)
  <2>1. log \in Seq(ApprovalLog)
    BY DEF IInv, TypeOK
  <2>2. log # << >>
    BY DEF IInv, LastCommitRules, NoHeader
  <2>3. last \in 1..last /\ log[last].to_status = journal[j].approval_status
    BY <2>1, <2>2 DEF IInv, LastCommitRules
  <2>4. PICK n \in 1..last : log[n].to_status = "approved"
    <3>1. CASE journal[j].approval_status = "approved"
      BY <2>3, <3>1
    <3>2. CASE journal[j].approval_status = "posted"
      <4>1. log[last].from_status = "approved"
        BY <2>3, <3>2 DEF IInv, LogSound, EntrySound
      <4>2. Reached(j, last - 1, "approved")
        BY <2>3, <4>1 DEF IInv, HistoryWellFounded
      <4>3. QED
        BY <2>1, <4>2 DEF Reached
    <3>3. QED
      BY <3>1, <3>2
  <2>5. QED
    BY <2>4 DEF IInv, LogSound, EntrySound
<1>2. QED
  BY <1>1, SpecIInv, PTL

\* No UPDATE clears the flag: only voiding sets the column, and to TRUE.
LEMMA UpdateKeepsVoided ==
    ASSUME NEW op \in Operation, NEW row \in JournalHeader, NEW seen \in JournalHeader,
           NEW user \in Users, row.is_voided
    PROVE  OrmUpdate(row, seen, Edited(op, seen, user)).is_voided
<1> USE DEF OrmUpdate, Column, Edited, JournalHeader
<1>1. CASE op = "submit"
  BY <1>1 DEF Submitted
<1>2. CASE op = "approve"
  BY <1>2 DEF Approved
<1>3. CASE op = "reject"
  BY <1>3 DEF Rejected
<1>4. CASE op = "post"
  BY <1>4 DEF Posted
<1>5. CASE op = "void"
  BY <1>5 DEF Voided
<1>6. QED
  BY <1>1, <1>2, <1>3, <1>4, <1>5 DEF Operation

\* A voided journal stays voided, whatever requests with an older copy of the row
\* write, and a journal keeps its creator.
THEOREM VoidingIsFinal == Spec => VoidIsFinal
<1> DEFINE Kept == \A j \in Journals :
                      /\ journal[j].is_voided => journal'[j].is_voided
                      /\ journal[j] # NoHeader =>
                            journal'[j].created_by = journal[j].created_by
<1>1. IInv /\ [Next]_vars => [Kept]_journal
  <2> SUFFICES ASSUME IInv, [Next]_vars, journal' # journal
               PROVE  Kept
    OBVIOUS
  <2>1. ASSUME NEW j \in Journals, NEW u \in Users, create_journal(j, u)
        PROVE  Kept
    BY <2>1 DEF create_journal, IInv, TypeOK, NoHeader
  <2>2. ASSUME NEW s \in Sessions, Commit(s)
        PROVE  Kept
    <3> DEFINE q == request[s]
               row == OrmUpdate(journal[q.id], q.seen, Edited(q.op, q.seen, q.user))
    <3>1. /\ Busy(s)
          /\ q.op \in Operation
          /\ q.id \in Journals
          /\ q.user \in Users
          /\ q.seen \in JournalHeader
      BY <2>2, RequestType DEF Commit, Busy, IInv
    <3>2. journal[q.id] \in JournalHeader
      BY <3>1 DEF IInv, RowsExist, TypeOK
    <3>3. journal' = [journal EXCEPT ![q.id] = row]
      BY <2>2 DEF Commit
    <3>4. /\ journal[q.id].is_voided => row.is_voided
          /\ row.created_by = journal[q.id].created_by
      BY <3>1, <3>2, UpdateKeepsVoided DEF OrmUpdate
    <3>5. QED
      BY <3>1, <3>3, <3>4 DEF IInv, TypeOK
  <2>3. QED
    BY <2>1, <2>2 DEF Next, create_workflow, Begin, Read, CheckWorkflow, Rollback, vars
<1>2. QED
  BY <1>1, SpecIInv, PTL DEF Spec, VoidIsFinal

-----------------------------------------------------------------------------
(* The workflow check.                                                     *)

\* Of the definitions whose threshold an amount reaches, if there are any, one has
\* the highest: thresholds are natural numbers below the amount.
LEMMA SomeDefinitionApplies ==
    ASSUME NEW amount \in Nat, NEW defs \in SUBSET Workflow,
           NEW w \in defs, w.threshold <= amount
    PROVE  \E v \in Applicable(amount, defs) : w.threshold <= v.threshold
<1> DEFINE reached == {v \in defs : v.threshold <= amount}
           below == {amount - v.threshold : v \in reached}
<1>1. \A v \in reached : v.threshold \in Nat /\ v.threshold <= amount
  BY DEF Workflow
<1>2. below \subseteq Nat /\ below # {}
  BY <1>1
<1>3. PICK least \in below : \A n \in below : ~(<<n, least>> \in OpToRel(<, Nat))
  <2> HIDE DEF below
  <2> QED BY <1>2, NatLessThanWellFounded, WFMin
<1>4. \A n \in below : least <= n
  <2> HIDE DEF below
  <2>1. ASSUME NEW n \in below, n < least
        PROVE  FALSE
    <3>1. n \in Nat /\ least \in Nat
      BY <1>2
    <3> QED BY <1>3, <2>1, <3>1 DEF OpToRel
  <2>2. \A n \in below : n \in Nat /\ least \in Nat
    BY <1>2
  <2> QED BY <2>1, <2>2
<1>5. PICK v \in reached : least = amount - v.threshold
  OBVIOUS
<1>6. \A u \in reached : u.threshold <= v.threshold
  <2> TAKE u \in reached
  <2>1. amount - v.threshold <= amount - u.threshold
    BY <1>4, <1>5
  <2> QED BY <2>1, <1>1
<1> QED BY <1>5, <1>6 DEF Applicable

\* What a request remembers of the workflows stays among them, and an approval that
\* has passed the check was allowed when it passed.
WorkflowsRemembered ==
    \A s \in Sessions : Busy(s) => request[s].in_force \subseteq workflows

ChecksSound ==
    /\ TypeOK
    /\ RowsExist
    /\ WorkflowsRemembered
    /\ ApprovalObeysWorkflow

LEMMA ChecksKept ==
    ASSUME ChecksSound, TypeOK', RowsExist', workflows \subseteq workflows',
           \A s \in Sessions : Busy(s)' => Busy(s) /\ request'[s] = request[s]
    PROVE  ChecksSound'
BY DEF ChecksSound, WorkflowsRemembered, ApprovalObeysWorkflow, Busy

LEMMA NextChecks == ChecksSound /\ [Next]_vars => ChecksSound'
<1> SUFFICES ASSUME ChecksSound, [Next]_vars PROVE ChecksSound'
  OBVIOUS
<1>0. TypeOK' /\ RowsExist'
  BY NextTypeOK DEF ChecksSound
<1>1. ASSUME NEW j \in Journals, NEW u \in Users, create_journal(j, u)
      PROVE  ChecksSound'
  BY <1>0, <1>1, ChecksKept DEF create_journal, Busy
<1>2. ASSUME NEW w \in WorkflowChoices, create_workflow(w)
      PROVE  ChecksSound'
  BY <1>0, <1>2, ChecksKept DEF create_workflow, Busy
<1>3. ASSUME NEW s \in Sessions, NEW op \in Operation, NEW j \in Journals,
             NEW u \in Users, Read(s, op, j, u)
      PROVE  ChecksSound'
  <2>1. /\ request'[s].in_force = workflows
        /\ request'[s].op = op
        /\ request'[s].phase = IF op = "approve" THEN "loaded" ELSE "checked"
        /\ \A t \in Sessions \ {s} : request'[t] = request[t]
        /\ workflows' = workflows
    BY <1>3 DEF Read, ChecksSound, TypeOK
  <2>2. WorkflowsRemembered'
    BY <2>1 DEF ChecksSound, WorkflowsRemembered, Busy
  <2>3. ApprovalObeysWorkflow'
    BY <2>1 DEF ChecksSound, ApprovalObeysWorkflow, Busy
  <2> QED BY <1>0, <2>2, <2>3 DEF ChecksSound
<1>4. ASSUME NEW s \in Sessions, CheckWorkflow(s)
      PROVE  ChecksSound'
  <2> DEFINE q == request[s]
             amount == Amount[q.id]
  <2>1. /\ Busy(s)
        /\ request'[s] = [q EXCEPT !.phase = "checked"]
        /\ \A t \in Sessions \ {s} : request'[t] = request[t]
        /\ workflows' = workflows
        /\ RoleSuffices(q)
    BY <1>4 DEF CheckWorkflow, ChecksSound, TypeOK, Busy
  <2>2. /\ q \in Request
        /\ q.in_force \subseteq workflows
        /\ workflows \subseteq Workflow
        /\ amount \in Nat
    BY <2>1, RequestType, WorkflowAssumption, AmountAssumption
       DEF ChecksSound, WorkflowsRemembered, TypeOK, Request
  <2>3. /\ request'[s].in_force = q.in_force
        /\ request'[s].id = q.id
        /\ request'[s].user = q.user
    BY <2>1, <2>2 DEF Request
  <2>4. ASSUME NEW w \in q.in_force, w.threshold <= amount
        PROVE  \E v \in workflows : /\ w.threshold <= v.threshold
                                    /\ v.threshold <= amount
                                    /\ RoleOf[q.user] \in v.roles
    <3>1. w \in workflows
      BY <2>2, <2>4
    <3>2. PICK v \in Applicable(amount, workflows) : w.threshold <= v.threshold
      BY <2>2, <2>4, <3>1, SomeDefinitionApplies
    <3>3. PICK u \in Applicable(amount, workflows) : RoleOf[q.user] \in u.roles
      BY <2>1, <3>2 DEF RoleSuffices
    <3>4. /\ u \in workflows /\ u.threshold <= amount
          /\ v \in workflows /\ v.threshold <= u.threshold
      BY <3>2, <3>3 DEF Applicable
    <3>5. w.threshold \in Nat /\ v.threshold \in Nat /\ u.threshold \in Nat
      BY <2>2, <3>1, <3>4 DEF Workflow
    <3>6. w.threshold <= u.threshold
      BY <3>2, <3>4, <3>5
    <3> QED BY <3>3, <3>4, <3>6
  <2>5. WorkflowsRemembered'
    BY <2>1, <2>2, <2>3 DEF ChecksSound, WorkflowsRemembered, Busy
  <2>6. ApprovalObeysWorkflow'
    <3> SUFFICES ASSUME NEW t \in Sessions, Busy(t)',
                        request'[t].op = "approve", request'[t].phase = "checked",
                        NEW w \in request'[t].in_force,
                        w.threshold <= Amount[request'[t].id]
                 PROVE  \E v \in workflows : /\ w.threshold <= v.threshold
                                             /\ v.threshold <= Amount[request'[t].id]
                                             /\ RoleOf[request'[t].user] \in v.roles
      BY <2>1 DEF ApprovalObeysWorkflow
    <3>1. CASE t = s
      BY <2>3, <2>4, <3>1
    <3>2. CASE t # s
      BY <2>1, <3>2 DEF ChecksSound, ApprovalObeysWorkflow, Busy
    <3> QED BY <3>1, <3>2
  <2> QED BY <1>0, <2>5, <2>6 DEF ChecksSound
<1>5. ASSUME NEW s \in Sessions, Commit(s) \/ Rollback(s)
      PROVE  ChecksSound'
  <2>1. /\ workflows' = workflows
        /\ request' = [request EXCEPT ![s] = Idle]
    BY <1>5 DEF Commit, Rollback
  <2>2. \A t \in Sessions : Busy(t)' => Busy(t) /\ request'[t] = request[t]
    BY <2>1 DEF ChecksSound, TypeOK, Busy, Idle
  <2> QED BY <1>0, <2>1, <2>2, ChecksKept
<1>6. ASSUME NEW s \in Sessions, NEW j \in Journals, Begin(s, j)
      PROVE  ChecksSound'
  <2>1. \A t \in Sessions : Busy(t)' => Busy(t) /\ request'[t] = request[t]
    BY <1>6 DEF Begin, ChecksSound, TypeOK, Busy
  <2> QED BY <1>0, <1>6, <2>1, ChecksKept DEF Begin
<1>7. CASE UNCHANGED vars
  BY <1>0, <1>7, ChecksKept DEF vars, Busy
<1> QED BY <1>1, <1>2, <1>3, <1>4, <1>5, <1>6, <1>7 DEF Next

\* An approval about to be written is one that the workflows allow, although they
\* may have changed between the request's two reads and since.
THEOREM ApprovalsObeyWorkflows == Spec => []ApprovalObeysWorkflow
<1>1. Init => ChecksSound
  BY InitTypeOK DEF Init, ChecksSound, RowsExist, WorkflowsRemembered,
                    ApprovalObeysWorkflow, Busy, Idle
<1>2. ChecksSound => ApprovalObeysWorkflow
  BY DEF ChecksSound
<1> QED BY <1>1, <1>2, NextChecks, PTL DEF Spec

-----------------------------------------------------------------------------
(* The declared state machine.                                             *)

\* A handler whose guard holds on what it loaded leaves a status that VALID_TRANSITIONS
\* allows from there, or takes back an approval.
LEMMA EditsFollowTheMachine ==
    ASSUME NEW op \in Operation, op # "void", NEW seen \in JournalHeader,
           NEW user \in Users, Guard(op, seen, user)
    PROVE  LET from == seen.approval_status
               to   == Edited(op, seen, user).approval_status
           IN  \/ to \in VALID_TRANSITIONS[from]
               \/ from = "approved" /\ to = "rejected"
<1> DEFINE from == seen.approval_status
           to   == Edited(op, seen, user).approval_status
<1>1. \/ from = "draft" /\ to = "submitted"
      \/ from = "submitted" /\ to = "approved"
      \/ from \in {"submitted", "approved"} /\ to = "rejected"
      \/ from = "approved" /\ to = "posted"
  <2> USE DEF Guard, JournalHeader, Edited
  <2>1. CASE op = "submit"
    BY <2>1 DEF Submitted, CanSubmit
  <2>2. CASE op = "approve"
    BY <2>2 DEF Approved, CanApprove
  <2>3. CASE op = "reject"
    BY <2>3 DEF Rejected, CanReject
  <2>4. CASE op = "post"
    BY <2>4 DEF Posted, CanPost
  <2> QED BY <2>1, <2>2, <2>3, <2>4 DEF Operation
<1> HIDE DEF from, to
<1>2. /\ "submitted" \in VALID_TRANSITIONS["draft"]
      /\ "approved" \in VALID_TRANSITIONS["submitted"]
      /\ "rejected" \in VALID_TRANSITIONS["submitted"]
      /\ "posted" \in VALID_TRANSITIONS["approved"]
  BY DEF VALID_TRANSITIONS
<1>3. to \in VALID_TRANSITIONS[from] \/ (from = "approved" /\ to = "rejected")
  BY <1>1, <1>2
<1> QED BY <1>3 DEF from, to

\* The status that a commit leaves, when the status it was decided on is still there.
LEMMA FreshCommit ==
    ASSUME IInv, NEW s \in Sessions, Commit(s),
           request[s].seen.approval_status = journal[request[s].id].approval_status
    PROVE  LET from == journal[request[s].id].approval_status
               to   == journal'[request[s].id].approval_status
           IN  \/ to = from
               \/ to \in VALID_TRANSITIONS[from]
               \/ from = "approved" /\ to = "rejected"
<1> DEFINE q == request[s]
<1>1. /\ q.op \in Operation /\ q.seen \in JournalHeader /\ q.user \in Users
      /\ Guard(q.op, q.seen, q.user)
      /\ \/ journal'[q.id].approval_status = journal[q.id].approval_status
         \/ /\ q.op # "void"
            /\ journal'[q.id].approval_status = Edited(q.op, q.seen, q.user).approval_status
  BY CommitEffect, RequestType DEF IInv, RequestSound, Entry
<1> QED BY <1>1, EditsFollowTheMachine

-----------------------------------------------------------------------------
(* The history as a walk.                                                  *)

\* What the beginnings of transactions say of their reads: an entry's transaction began
\* before its commit; what a request read is still there unless another was committed
\* since the request began; and an entry whose request saw all commits before its own
\* departs from where the last of them led.
BeganInTime ==
    /\ \A s \in Sessions :
          request[s] # Idle => request[s].created_at <= Len(approval_log[request[s].id])
    /\ \A j \in Journals : \A n \in 1..Len(approval_log[j]) :
          approval_log[j][n].created_at <= n - 1

ReadsInTime ==
    \A s \in Sessions : Busy(s) =>
        \/ request[s].seen.approval_status = journal[request[s].id].approval_status
        \/ request[s].created_at < Len(approval_log[request[s].id])

Follows(log, n) ==
    log[n].created_at = n - 1 =>
        log[n].from_status = IF n = 1 THEN "draft" ELSE log[n - 1].to_status

EntriesFollow ==
    \A j \in Journals : \A n \in 1..Len(approval_log[j]) : Follows(approval_log[j], n)

WalkInv == IInv /\ BeganInTime /\ ReadsInTime /\ EntriesFollow

\* A step that leaves rows and logs alone, and adds no request that has read.
LEMMA WalkKept ==
    ASSUME WalkInv, IInv', UNCHANGED approval_log,
           \A s \in Sessions :
              /\ \/ request'[s] = Idle
                 \/ request[s] # Idle /\ request'[s].id = request[s].id
                    /\ request'[s].created_at = request[s].created_at
                 \/ request'[s].created_at <= Len(approval_log[request'[s].id])
              /\ Busy(s)' => \/ /\ Busy(s)
                               /\ request'[s].seen = request[s].seen
                               /\ request'[s].id = request[s].id
                               /\ request'[s].created_at = request[s].created_at
                               /\ journal'[request[s].id] = journal[request[s].id]
                            \/ request'[s].seen = journal'[request'[s].id]
    PROVE  WalkInv'
<1>1. BeganInTime'
  BY DEF WalkInv, BeganInTime
<1>2. ReadsInTime'
  BY DEF WalkInv, ReadsInTime
<1>3. EntriesFollow'
  BY DEF WalkInv, EntriesFollow, Follows
<1> QED BY <1>1, <1>2, <1>3 DEF WalkInv

\* A commit appends an entry that began in time and follows, and tells every request
\* in flight about the journal that something was committed since it began.
LEMMA WalkCommit ==
    ASSUME WalkInv, IInv', NEW s \in Sessions, Commit(s)
    PROVE  WalkInv'
<1> DEFINE q == request[s]
           old == approval_log[q.id]
           new == approval_log'[q.id]
<1>1. /\ Busy(s)
      /\ q.id \in Journals
      /\ RequestSound(q)
      /\ \A i \in Journals : i # q.id => journal'[i] = journal[i]
      /\ \A i \in Journals : i # q.id => approval_log'[i] = approval_log[i]
      /\ \/ /\ q.op = "void"
            /\ new = old
            /\ journal'[q.id].approval_status = journal[q.id].approval_status
         \/ /\ q.op # "void"
            /\ new = Append(old, Entry(q))
            /\ journal'[q.id].approval_status = Entry(q).to_status
      /\ \A t \in Sessions : Busy(t)' => Busy(t) /\ request'[t] = request[t]
  BY CommitEffect DEF WalkInv, IInv
<1>2. /\ q.op \in Operation /\ q.user \in Users /\ q.seen \in JournalHeader
      /\ q.created_at \in Nat
      /\ \A i \in Journals : approval_log[i] \in Seq(ApprovalLog)
      /\ \A t \in Sessions : request[t] # Idle => /\ request[t].id \in Journals
                                               /\ request[t].created_at \in Nat
  BY <1>1, RequestType DEF WalkInv, IInv, TypeOK, Request, Begun
<1>3. \A t \in Sessions : request'[t] # Idle => request[t] # Idle /\ request'[t] = request[t]
  BY DEF Commit, WalkInv, IInv, TypeOK
<1>4. q # Idle /\ q.created_at <= Len(old)
  BY <1>1 DEF Busy, Idle, WalkInv, BeganInTime
<1>5. \A i \in Journals : Len(approval_log'[i]) >= Len(approval_log[i])
  BY <1>1, <1>2
<1>5a. ASSUME NEW j \in Journals, NEW n \in 1..Len(approval_log[j])
      PROVE  approval_log'[j][n] = approval_log[j][n]
  <2>1. CASE j # q.id
    BY <1>1, <2>1
  <2>2. CASE j = q.id /\ q.op = "void"
    BY <1>1, <2>2
  <2>3. CASE j = q.id /\ q.op # "void"
    <3>1. new = Append(old, Entry(q)) /\ old \in Seq(ApprovalLog)
      BY <1>1, <1>2, <2>3
    <3> QED BY <1>5a, <2>3, <3>1
  <2> QED BY <2>1, <2>2, <2>3
<1>6. BeganInTime'
  <2>1. ASSUME NEW t \in Sessions, request'[t] # Idle
        PROVE  request'[t].created_at <= Len(approval_log'[request'[t].id])
    BY <1>2, <1>3, <1>5, <2>1 DEF WalkInv, BeganInTime
  <2>2. ASSUME NEW j \in Journals, NEW n \in 1..Len(approval_log'[j])
        PROVE  approval_log'[j][n].created_at <= n - 1
    <3>1. CASE n \in 1..Len(approval_log[j])
      BY <1>5a, <3>1 DEF WalkInv, BeganInTime
    <3>2. CASE n \notin 1..Len(approval_log[j])
      <4>1. j = q.id /\ n = Len(old) + 1 /\ new[n] = Entry(q)
        BY <1>1, <1>2, <3>2
      <4> QED BY <1>2, <1>4, <4>1 DEF Entry
    <3> QED BY <3>1, <3>2
  <2> QED BY <2>1, <2>2 DEF BeganInTime
<1>7. ReadsInTime'
  <2> SUFFICES ASSUME NEW t \in Sessions, Busy(t)'
               PROVE  \/ request'[t].seen.approval_status = journal'[request'[t].id].approval_status
                      \/ request'[t].created_at < Len(approval_log'[request'[t].id])
    BY DEF ReadsInTime
  <2>1. /\ Busy(t) /\ request'[t] = request[t] /\ request[t] # Idle
        /\ request[t].id \in Journals /\ request[t].created_at \in Nat
    BY <1>1, <1>2 DEF Busy, Idle
  <2>2. CASE request[t].id = q.id /\ q.op # "void"
    <3>1. request[t].created_at <= Len(old)
      BY <2>1, <2>2 DEF WalkInv, BeganInTime
    <3>2. Len(new) = Len(old) + 1
      BY <1>1, <1>2, <2>2
    <3> QED BY <1>2, <2>1, <2>2, <3>1, <3>2
  <2>3. CASE request[t].id # q.id \/ q.op = "void"
    <3>1. /\ journal'[request[t].id].approval_status = journal[request[t].id].approval_status
          /\ approval_log'[request[t].id] = approval_log[request[t].id]
      BY <1>1, <2>1, <2>3
    <3> QED BY <2>1, <3>1 DEF WalkInv, ReadsInTime
  <2> QED BY <2>2, <2>3
<1>8. EntriesFollow'
  <2> SUFFICES ASSUME NEW j \in Journals, NEW n \in 1..Len(approval_log'[j]),
                      approval_log'[j][n].created_at = n - 1
               PROVE  approval_log'[j][n].from_status
                         = IF n = 1 THEN "draft" ELSE approval_log'[j][n - 1].to_status
    BY DEF EntriesFollow, Follows
  <2>1. CASE n \in 1..Len(approval_log[j])
    <3>1. /\ approval_log'[j][n] = approval_log[j][n]
          /\ n # 1 => approval_log'[j][n - 1] = approval_log[j][n - 1]
      <4>1. Len(approval_log[j]) \in Nat
        BY <1>2
      <4>2. n # 1 => n - 1 \in 1..Len(approval_log[j])
        BY <2>1, <4>1
      <4> QED BY <1>5a, <2>1, <4>2
    <3> QED BY <2>1, <3>1 DEF WalkInv, EntriesFollow, Follows
  <2>2. CASE n \notin 1..Len(approval_log[j])
    <3>1. j = q.id /\ q.op # "void" /\ n = Len(old) + 1 /\ new[n] = Entry(q)
      BY <1>1, <1>2, <2>2
    <3>2. q.created_at = Len(old)
      BY <1>2, <3>1 DEF Entry
    <3>3. q.seen.approval_status = journal[q.id].approval_status
      BY <1>1, <1>2, <3>2 DEF WalkInv, ReadsInTime
    <3>4. Entry(q).from_status = q.seen.approval_status
      BY <1>1, <1>2, <3>1, EntryOfSoundRequest
    <3>5. CASE old = << >>
      <4>1. n = 1
        BY <1>2, <3>1, <3>5
      <4>2. journal[q.id] # NoHeader
        BY <1>1 DEF WalkInv, IInv, RowsExist
      <4>3. journal[q.id].approval_status = "draft"
        BY <1>1, <3>5, <4>2 DEF WalkInv, IInv, LastCommitRules
      <4> QED BY <3>1, <3>3, <3>4, <4>1, <4>3
    <3>6. CASE old # << >>
      <4>1. n # 1 /\ new[n - 1] = old[Len(old)]
        BY <1>1, <1>2, <3>1, <3>6
      <4>2. journal[q.id].approval_status = old[Len(old)].to_status
        BY <1>1, <3>6 DEF WalkInv, IInv, LastCommitRules
      <4> QED BY <3>1, <3>3, <3>4, <4>1, <4>2
    <3> QED BY <3>5, <3>6
  <2> QED BY <2>1, <2>2
<1> QED BY <1>6, <1>7, <1>8 DEF WalkInv

LEMMA NextWalk == WalkInv /\ [Next]_vars => WalkInv'
<1> SUFFICES ASSUME WalkInv, [Next]_vars PROVE WalkInv'
  OBVIOUS
<1>0. IInv' /\ TypeOK
  BY NextIInv DEF WalkInv, IInv
<1>1. ASSUME NEW j \in Journals, NEW u \in Users, create_journal(j, u)
      PROVE  WalkInv'
  <2>1. \A s \in Sessions : Busy(s) => request[s].id \in Journals /\ request[s].id # j
    BY <1>1, RequestType DEF create_journal, WalkInv, IInv, RowsExist
  <2>2. \A s \in Sessions : Busy(s) => journal'[request[s].id] = journal[request[s].id]
    BY <1>0, <1>1, <2>1 DEF create_journal, TypeOK
  <2> QED BY <1>0, <1>1, <2>2, WalkKept DEF create_journal, Busy
<1>2. ASSUME NEW w \in WorkflowChoices, create_workflow(w)
      PROVE  WalkInv'
  BY <1>0, <1>2, WalkKept DEF create_workflow, Busy
<1>3. ASSUME NEW s \in Sessions, NEW j \in Journals, Begin(s, j)
      PROVE  WalkInv'
  <2>1. /\ request'[s].id = j
        /\ request'[s].created_at = Len(approval_log[j])
        /\ request'[s].phase = "begun"
        /\ \A t \in Sessions \ {s} : request'[t] = request[t]
        /\ UNCHANGED <<journal, approval_log>>
    BY <1>0, <1>3 DEF Begin, TypeOK
  <2>2. Len(approval_log[j]) \in Nat
    BY <1>0 DEF TypeOK
  <2> QED BY <1>0, <2>1, <2>2, WalkKept DEF Busy
<1>4. ASSUME NEW s \in Sessions, NEW op \in Operation, NEW j \in Journals,
             NEW u \in Users, Read(s, op, j, u)
      PROVE  WalkInv'
  <2>1. /\ request[s] # Idle
        /\ request'[s].id = request[s].id /\ request[s].id = j
        /\ request'[s].created_at = request[s].created_at
        /\ request'[s].seen = journal'[j]
        /\ \A t \in Sessions \ {s} : request'[t] = request[t]
        /\ UNCHANGED <<journal, approval_log>>
    BY <1>0, <1>4 DEF Read, TypeOK, Idle
  <2> QED BY <1>0, <2>1, WalkKept DEF Busy
<1>5. ASSUME NEW s \in Sessions, CheckWorkflow(s)
      PROVE  WalkInv'
  <2>1. Busy(s) /\ request[s] \in Request /\ request[s] # Idle
    BY <1>0, <1>5, RequestType DEF CheckWorkflow, Busy, Idle
  <2>2. /\ request'[s].id = request[s].id
        /\ request'[s].created_at = request[s].created_at
        /\ request'[s].seen = request[s].seen
        /\ \A t \in Sessions \ {s} : request'[t] = request[t]
        /\ UNCHANGED <<journal, approval_log>>
    BY <1>0, <1>5, <2>1 DEF CheckWorkflow, TypeOK, Request
  <2> QED BY <1>0, <2>1, <2>2, WalkKept DEF Busy
<1>6. ASSUME NEW s \in Sessions, Commit(s)
      PROVE  WalkInv'
  BY <1>0, <1>6, WalkCommit
<1>7. ASSUME NEW s \in Sessions, Rollback(s)
      PROVE  WalkInv'
  <2>1. /\ request'[s] = Idle
        /\ \A t \in Sessions \ {s} : request'[t] = request[t]
        /\ UNCHANGED <<journal, approval_log>>
    BY <1>0, <1>7 DEF Rollback, TypeOK
  <2> QED BY <1>0, <2>1, WalkKept DEF Busy, Idle
<1>8. CASE UNCHANGED vars
  BY <1>0, <1>8, WalkKept DEF vars, Busy
<1> QED BY <1>1, <1>2, <1>3, <1>4, <1>5, <1>6, <1>7, <1>8 DEF Next

\* The history as the repository reads it, in the order of created_at, is a walk over the
\* statuses wherever no logged requests overlapped: an entry departs from where the one
\* read before it led, although every decision was made on a row read without a lock.
THEOREM HistoryWalks == Spec => []HistoryIsAWalk
<1>1. Init => WalkInv
  BY InitIInv DEF Init, WalkInv, BeganInTime, ReadsInTime, EntriesFollow, Busy, Idle
<1>2. WalkInv => HistoryIsAWalk
  <2> SUFFICES ASSUME WalkInv, NEW j \in Journals, NEW n \in DOMAIN approval_log[j],
                      Alone(approval_log[j], n)
               PROVE  LET log == approval_log[j]
                      IN  /\ \A i \in DOMAIN log \ {n} :
                                /\ Alone(log, i)
                                /\ ReadBefore(log, i, n)
                                /\ \A m \in DOMAIN log : ReadBefore(log, m, i) \/ ReadBefore(log, n, m)
                                => log[n].from_status = log[i].to_status
                          /\ (\A m \in DOMAIN log : ReadBefore(log, n, m)) => log[n].from_status = "draft"
    BY DEF HistoryIsAWalk
  <2> DEFINE log == approval_log[j]
  <2>1. /\ log \in Seq(ApprovalLog)
        /\ n \in 1..Len(log)
        /\ Len(log) \in Nat
        /\ DOMAIN log = 1..Len(log)
    BY DEF WalkInv, IInv, TypeOK
  <2>2. /\ \A m \in 1..Len(log) : log[m].created_at \in Nat /\ log[m].created_at <= m - 1
        /\ log[n].created_at = n - 1
        /\ log[n].from_status = IF n = 1 THEN "draft" ELSE log[n - 1].to_status
    <3>1. \A m \in 1..Len(log) : log[m] \in ApprovalLog
      BY <2>1
    <3>2. \A m \in 1..Len(log) : log[m].created_at \in Nat
      BY <3>1 DEF ApprovalLog
    <3>3. \A m \in 1..Len(log) : log[m].created_at <= m - 1
      BY <2>1 DEF WalkInv, BeganInTime
    <3>4. log[n].created_at = n - 1
      BY DEF Alone
    <3>5. Follows(log, n)
      BY <2>1 DEF WalkInv, EntriesFollow
    <3> QED BY <3>2, <3>3, <3>4, <3>5 DEF Follows
  <2>3. ASSUME NEW i \in DOMAIN log \ {n}, Alone(log, i), ReadBefore(log, i, n),
               \A m \in DOMAIN log : ReadBefore(log, m, i) \/ ReadBefore(log, n, m)
        PROVE  log[n].from_status = log[i].to_status
    <3>1. i \in 1..Len(log) /\ log[i].created_at = i - 1
      BY <2>1, <2>3 DEF Alone
    <3>2. i < n
      BY <2>1, <2>2, <2>3, <3>1 DEF ReadBefore
    <3>3. i + 1 \in 1..Len(log) /\ i + 1 \in (i + 1)..Len(log)
      BY <2>1, <3>1, <3>2
    <3>4. log[i + 1].created_at >= i
      BY <2>3, <3>3 DEF Alone
    <3>5. ~ReadBefore(log, i + 1, i)
      BY <2>2, <3>1, <3>3, <3>4 DEF ReadBefore
    <3>6. n - 1 <= log[i + 1].created_at
      BY <2>1, <2>2, <2>3, <3>3, <3>5 DEF ReadBefore
    <3>7. log[i + 1].created_at <= i /\ log[i + 1].created_at \in Nat
      BY <2>2, <3>1, <3>3
    <3>8. i = n - 1
      BY <2>1, <3>1, <3>2, <3>6, <3>7
    <3> QED BY <2>1, <2>2, <3>1, <3>8
  <2>4. ASSUME \A m \in DOMAIN log : ReadBefore(log, n, m)
        PROVE  log[n].from_status = "draft"
    <3>1. 1 \in 1..Len(log)
      BY <2>1
    <3>2. n - 1 <= log[1].created_at
      BY <2>1, <2>2, <2>4, <3>1 DEF ReadBefore
    <3>3. log[1].created_at <= 0 /\ log[1].created_at \in Nat
      BY <2>2, <3>1
    <3> QED BY <2>1, <2>2, <3>2, <3>3
  <2> QED BY <2>3, <2>4
<1> QED BY <1>1, <1>2, NextWalk, PTL DEF Spec

\* No two requests in flight are about the same journal.
OneRequestPerJournal ==
    \A s, t \in Sessions :
        Busy(s) /\ Busy(t) /\ request[s].id = request[t].id => s = t

\* What a request decided on is still there when it writes.
ReadsAreCurrent ==
    \A s \in Sessions :
        Busy(s) => request[s].seen.approval_status
                      = journal[request[s].id].approval_status

LEMMA NextReadsAreCurrent ==
    IInv /\ OneRequestPerJournal /\ ReadsAreCurrent /\ [Next]_vars => ReadsAreCurrent'
<1> SUFFICES ASSUME IInv, OneRequestPerJournal, ReadsAreCurrent, [Next]_vars,
                    NEW s \in Sessions, Busy(s)'
             PROVE  request'[s].seen.approval_status
                       = journal'[request'[s].id].approval_status
  BY DEF ReadsAreCurrent
<1>1. ASSUME Busy(s), request'[s] = request[s],
             journal'[request[s].id] = journal[request[s].id]
      PROVE  request'[s].seen.approval_status
                = journal'[request'[s].id].approval_status
  BY <1>1 DEF ReadsAreCurrent
<1>2. ASSUME NEW j \in Journals, NEW u \in Users, create_journal(j, u)
      PROVE  request'[s].seen.approval_status
                = journal'[request'[s].id].approval_status
  <2>1. Busy(s) /\ request'[s] = request[s]
    BY <1>2 DEF create_journal, Busy
  <2>2. request[s].id \in Journals /\ request[s].id # j
    BY <1>2, <2>1, RequestType DEF create_journal, IInv, RowsExist
  <2> QED BY <1>1, <1>2, <2>1, <2>2 DEF create_journal, IInv, TypeOK
<1>3. ASSUME NEW t \in Sessions, NEW op \in Operation, NEW j \in Journals, NEW u \in Users,
             Read(t, op, j, u)
      PROVE  request'[s].seen.approval_status
                = journal'[request'[s].id].approval_status
  BY <1>1, <1>3 DEF Read, Busy, IInv, TypeOK
<1>4. ASSUME NEW t \in Sessions, CheckWorkflow(t)
      PROVE  request'[s].seen.approval_status
                = journal'[request'[s].id].approval_status
  <2>1. Busy(t) /\ journal' = journal
    BY <1>4 DEF CheckWorkflow, Busy
  <2>2. CASE t = s
    <3>1. /\ request'[s].seen = request[s].seen
          /\ request'[s].id = request[s].id
      BY <1>4, <2>1, <2>2, RequestType DEF CheckWorkflow, IInv, TypeOK, Request
    <3> QED BY <2>1, <2>2, <3>1 DEF ReadsAreCurrent
  <2>3. CASE t # s
    BY <1>1, <1>4, <2>1, <2>3 DEF CheckWorkflow, Busy, IInv, TypeOK
  <2> QED BY <2>2, <2>3
<1>5. ASSUME NEW t \in Sessions, Commit(t)
      PROVE  request'[s].seen.approval_status
                = journal'[request'[s].id].approval_status
  <2>1. /\ Busy(t)
        /\ Busy(s) /\ request'[s] = request[s]
        /\ \A i \in Journals : i # request[t].id => journal'[i] = journal[i]
    BY <1>5, CommitEffect DEF IInv
  <2>2. t # s
    BY <1>5 DEF Commit, Busy, Idle, IInv, TypeOK
  <2>3. request[s].id \in Journals /\ request[s].id # request[t].id
    BY <2>1, <2>2, RequestType DEF IInv, OneRequestPerJournal
  <2> QED BY <1>1, <2>1, <2>3
<1>6. ASSUME NEW t \in Sessions, Rollback(t)
      PROVE  request'[s].seen.approval_status
                = journal'[request'[s].id].approval_status
  BY <1>1, <1>6 DEF Rollback, Busy, Idle, IInv, TypeOK
<1>7. ASSUME NEW w \in WorkflowChoices, create_workflow(w)
      PROVE  request'[s].seen.approval_status
                = journal'[request'[s].id].approval_status
  BY <1>1, <1>7 DEF create_workflow, Busy
<1>8. ASSUME NEW t \in Sessions, NEW j \in Journals, Begin(t, j)
      PROVE  request'[s].seen.approval_status
                = journal'[request'[s].id].approval_status
  BY <1>1, <1>8 DEF Begin, Busy, IInv, TypeOK
<1>9. CASE UNCHANGED vars
  BY <1>1, <1>9 DEF vars, Busy
<1> QED BY <1>2, <1>3, <1>4, <1>5, <1>6, <1>7, <1>8, <1>9 DEF Next

\* As long as no two requests about one journal overlap, a posted journal stays posted: the
\* run approval_posted_final, which finds the contrary, needs an overlap on one journal.
THEOREM PostingIsFinal == Spec /\ []OneRequestPerJournal => PostedIsFinal
<1>1. Init => ReadsAreCurrent
  BY DEF Init, ReadsAreCurrent, Busy, Idle
<1>2. IInv /\ ReadsAreCurrent /\ [Next]_vars =>
        [\A j \in Journals :
            journal[j].approval_status = "posted" => journal'[j].approval_status = "posted"]_journal
  <2> SUFFICES ASSUME IInv, ReadsAreCurrent, [Next]_vars, NEW j \in Journals,
                      journal[j].approval_status = "posted"
               PROVE  journal'[j].approval_status = "posted"
    OBVIOUS
  <2>1. ASSUME NEW s \in Sessions, Commit(s)
        PROVE  journal'[j].approval_status = "posted"
    <3>1. CASE request[s].id = j
      BY <2>1, <3>1, CommitEffect, FreshCommit DEF IInv, ReadsAreCurrent, VALID_TRANSITIONS
    <3>2. CASE request[s].id # j
      BY <2>1, <3>2, CommitEffect DEF IInv
    <3> QED BY <3>1, <3>2
  <2>2. ASSUME NEW i \in Journals, NEW u \in Users, create_journal(i, u)
        PROVE  journal'[j].approval_status = "posted"
    BY <2>2 DEF create_journal, IInv, TypeOK, NoHeader
  <2> QED BY <2>1, <2>2 DEF Next, vars, create_workflow, Begin, Read, CheckWorkflow, Rollback
<1> QED BY <1>1, <1>2, NextReadsAreCurrent, SpecIInv, PTL DEF Spec, PostedIsFinal
=============================================================================
