-------------------------- MODULE JournalApproval --------------------------
(***************************************************************************)
(* The approval life of a journal entry: creation, submission, approval,   *)
(* rejection, posting and voiding, as concurrent HTTP requests perform it. *)
(*                                                                         *)
(* A request handler owns one database session.  Its transaction begins    *)
(* with the SELECT of the authenticated user; then it SELECTs the journal, *)
(* decides on what it read, and writes at flush; the flush takes the row   *)
(* lock, which the transaction keeps until it commits.  Nothing re-reads   *)
(* the row and no column carries a version, so between a request's read    *)
(* and its write any number of other requests may commit.  A request is    *)
(* therefore three steps (four for an approval, which also looks up the    *)
(* workflow that applies): Begin, Read, then Commit.  The flush and the    *)
(* commit are one step: nobody sees a flushed row and the lock keeps every *)
(* other writer of it out until the commit.                                *)
(*                                                                         *)
(* approval_logs.created_at is now(), the moment the transaction began,    *)
(* and the approval history is read in its order, which need not be the    *)
(* order of the commits.                                                   *)
(*                                                                         *)
(* The UPDATE names a row by its primary key and sets the columns whose    *)
(* value the handler changed relative to what its session loaded, and no   *)
(* other column.                                                           *)
(*                                                                         *)
(* A request whose guard fails answers 4xx and its transaction is rolled   *)
(* back: it changes nothing and is no step of this module.                 *)
(***************************************************************************)
EXTENDS Naturals, Sequences

CONSTANTS
    Journals,       \* journal_header_id
    Users,          \* user_id
    Sessions,       \* request handlers that may be in flight together
    NoUser,         \* NULL in the column approved_by
    RoleOf,         \* users.role
    Amount,         \* total of the debit lines of a journal
    WorkflowChoices, \* workflow definitions an administrator may add
    MaxLog          \* bound: entries of the approval log of one journal

Roles == {"admin", "accountant", "approver", "viewer"}

Workflow == [threshold : Nat, roles : SUBSET Roles]

ASSUME NoUserAssumption == NoUser \notin Users
ASSUME RoleAssumption == RoleOf \in [Users -> Roles]
ASSUME AmountAssumption == Amount \in [Journals -> Nat]
ASSUME WorkflowAssumption == WorkflowChoices \subseteq Workflow
ASSUME MaxLogAssumption == MaxLog \in Nat

VARIABLES
    journal,        \* the committed journal_headers rows
    approval_log,   \* the committed approval_logs rows, listed in commit order
    workflows,      \* the committed approval_workflows rows
    request         \* what each session's handler is doing

vars == <<journal, approval_log, workflows, request>>

-----------------------------------------------------------------------------
(* Stored rows, and what a handler holds in memory.                        *)

Status == {"draft", "submitted", "approved", "rejected", "posted"}

Operation == {"submit", "approve", "reject", "post", "void"}

JournalHeader ==
    [approval_status : Status,
     created_by      : Users,
     approved_by     : Users \cup {NoUser},
     is_voided       : BOOLEAN]

\* Before create_journal inserted the row.
NoHeader ==
    [approval_status |-> "absent", created_by |-> NoUser,
     approved_by |-> NoUser, is_voided |-> FALSE]

\* created_at is the moment the transaction began, told by the number of the
\* journal's entries that were committed by then: transactions that began between
\* the same two commits may have either order.
ApprovalLog ==
    [action : Operation, from_status : Status, to_status : Status, actor_id : Users,
     created_at : Nat]

\* The transaction has begun; who asks for what stays open until the journal is read.
Begun == [phase : {"begun"}, id : Journals, created_at : Nat]

\* "loaded": the journal is read; "checked": every guard of the handler passed.
\* in_force is a history variable: the workflows when the journal was read.
Request ==
    [phase : {"loaded", "checked"}, op : Operation, id : Journals, user : Users,
     seen : JournalHeader, in_force : SUBSET Workflow, created_at : Nat]

Idle == [phase |-> "idle"]

\* The request holds a row it read.
Busy(s) == request[s].phase \in {"loaded", "checked"}

-----------------------------------------------------------------------------
(* Roles.                                                                  *)

\* The journal permissions of core/rbac.py.
ROLE_PERMISSIONS ==
    [admin      |-> {"journal:create", "journal:approve", "journal:post", "journal:void"},
     accountant |-> {"journal:create", "journal:void"},
     approver   |-> {"journal:approve", "journal:post"},
     viewer     |-> {}]

has_permission(user, permission) == permission \in ROLE_PERMISSIONS[RoleOf[user]]

\* What the endpoint of each operation requires of the caller.
RequiredPermission ==
    [submit  |-> "journal:create",
     approve |-> "journal:approve",
     reject  |-> "journal:approve",
     post    |-> "journal:post",
     void    |-> "journal:void"]

-----------------------------------------------------------------------------
(* The guards of the handlers, on the row the handler read.                *)

CanSubmit(row, user) ==
    /\ row.approval_status = "draft"
    /\ row.created_by = user

\* MUTANT: the creator may approve.
CanApprove_NoSoD(row, user) == row.approval_status = "submitted"

CanApprove(row, user) ==
    /\ row.approval_status = "submitted"
    /\ row.created_by # user

CanReject(row, user) ==
    /\ row.approval_status \in {"submitted", "approved"}
    /\ row.created_by # user

\* MUTANT: posting skips the approval.
CanPost_Unapproved(row) == row.approval_status \in {"submitted", "approved"}

CanPost(row) == row.approval_status = "approved"

CanVoid(row) == ~row.is_voided

Guard(op, row, user) ==
    \/ op = "submit"  /\ CanSubmit(row, user)
    \/ op = "approve" /\ CanApprove(row, user)
    \/ op = "reject"  /\ CanReject(row, user)
    \/ op = "post"    /\ CanPost(row)
    \/ op = "void"    /\ CanVoid(row)

\* MUTANT: the threshold must be exceeded.
Applicable_Exceeded(amount, defs) ==
    LET reached == {w \in defs : w.threshold < amount}
    IN  {w \in reached : \A v \in reached : v.threshold <= w.threshold}

\* The definitions with the highest threshold the amount reaches: the query's
\* ORDER BY ... LIMIT 1 returns one of them.
Applicable(amount, defs) ==
    LET reached == {w \in defs : w.threshold <= amount}
    IN  {w \in reached : \A v \in reached : v.threshold <= w.threshold}

-----------------------------------------------------------------------------
(* What the handler leaves on the loaded object, and what the UPDATE does. *)

\* MUTANT: the status name of an older implementation.
Submitted_Waiting(row) == [row EXCEPT !.approval_status = "waiting"]

Submitted(row) == [row EXCEPT !.approval_status = "submitted"]

Approved(row, user) ==
    [row EXCEPT !.approval_status = "approved", !.approved_by = user]

Rejected(row) ==
    [row EXCEPT !.approval_status = "rejected", !.approved_by = NoUser]

Posted(row) == [row EXCEPT !.approval_status = "posted"]

Voided(row) == [row EXCEPT !.is_voided = TRUE]

Edited(op, row, user) ==
    CASE op = "submit"  -> Submitted(row)
      [] op = "approve" -> Approved(row, user)
      [] op = "reject"  -> Rejected(row)
      [] op = "post"    -> Posted(row)
      [] op = "void"    -> Voided(row)

\* MUTANT: the whole loaded row is written back.
OrmUpdate_WholeRow(row, seen, edited) == edited

\* The columns an UPDATE sets are those that differ from what was loaded.
Column(now, loaded, edited) == IF edited = loaded THEN now ELSE edited

OrmUpdate(row, seen, edited) ==
    [approval_status |-> Column(row.approval_status, seen.approval_status, edited.approval_status),
     created_by      |-> row.created_by,
     approved_by     |-> Column(row.approved_by, seen.approved_by, edited.approved_by),
     is_voided       |-> Column(row.is_voided, seen.is_voided, edited.is_voided)]

\* MUTANT: reject names its status as a literal too, and forgets that it takes back approvals.
LoggedFrom_Literal(op, seen) ==
    CASE op = "submit" -> "draft"
      [] op = "post"   -> "approved"
      [] OTHER         -> "submitted"

\* The handlers name the status they depart from as a literal; only reject, which
\* starts from two, logs the one it read.
LoggedFrom(op, seen) ==
    CASE op = "submit"  -> "draft"
      [] op = "approve" -> "submitted"
      [] op = "post"    -> "approved"
      [] OTHER          -> seen.approval_status

\* Voiding leaves no entry; the other operations append one.
LogEntries(q) ==
    IF q.op = "void" THEN <<>>
    ELSE << [action      |-> q.op,
             from_status |-> LoggedFrom(q.op, q.seen),
             to_status   |-> Edited(q.op, q.seen, q.user).approval_status,
             actor_id    |-> q.user,
             created_at  |-> q.created_at] >>

-----------------------------------------------------------------------------
Init ==
    /\ journal = [j \in Journals |-> NoHeader]
    /\ approval_log = [j \in Journals |-> << >>]
    /\ workflows = {}
    /\ request = [s \in Sessions |-> Idle]

\* POST /journals: the header is inserted as a draft of the caller's.
create_journal(j, u) ==
    /\ has_permission(u, "journal:create")
    /\ journal[j] = NoHeader
    /\ journal' = [journal EXCEPT ![j] =
           [approval_status |-> "draft", created_by |-> u,
            approved_by |-> NoUser, is_voided |-> FALSE]]
    /\ UNCHANGED <<approval_log, workflows, request>>

\* POST /approvals/workflows.
create_workflow(w) ==
    /\ w \notin workflows
    /\ workflows' = workflows \cup {w}
    /\ UNCHANGED <<journal, approval_log, request>>

\* The first statement of a request, the SELECT of the authenticated user, begins its
\* transaction.
Begin(s, j) ==
    /\ request[s] = Idle
    /\ request' = [request EXCEPT ![s] =
           [phase |-> "begun", id |-> j, created_at |-> Len(approval_log[j])]]
    /\ UNCHANGED <<journal, approval_log, workflows>>

\* The caller has the endpoint's permission, the journal is loaded, and the guard of
\* the handler holds on it.
Read(s, op, j, u) ==
    /\ request[s].phase = "begun" /\ request[s].id = j
    /\ has_permission(u, RequiredPermission[op])
    /\ journal[j] # NoHeader
    /\ Guard(op, journal[j], u)
    /\ request' = [request EXCEPT ![s] =
           [phase    |-> IF op = "approve" THEN "loaded" ELSE "checked",
            op       |-> op,
            id       |-> j,
            user     |-> u,
            seen     |-> journal[j],
            in_force |-> workflows,
            created_at |-> request[s].created_at]]
    /\ UNCHANGED <<journal, approval_log, workflows>>

\* A later SELECT of the approve handler: where a definition applies to the
\* journal's total, the approver's role is one of those it names.
RoleSuffices(q) ==
    LET candidates == Applicable(Amount[q.id], workflows)
    IN  \/ candidates = {}
        \/ \E w \in candidates : RoleOf[q.user] \in w.roles

CheckWorkflow(s) ==
    /\ request[s].phase = "loaded"
    /\ RoleSuffices(request[s])
    /\ request' = [request EXCEPT ![s].phase = "checked"]
    /\ UNCHANGED <<journal, approval_log, workflows>>

\* Flush and commit.  MaxLog bounds the log.
Commit(s) ==
    /\ request[s].phase = "checked"
    /\ LET q     == request[s]
           added == LogEntries(q)
       IN  /\ Len(approval_log[q.id]) + Len(added) <= MaxLog
           /\ journal' = [journal EXCEPT ![q.id] =
                              OrmUpdate(@, q.seen, Edited(q.op, q.seen, q.user))]
           /\ approval_log' = [approval_log EXCEPT ![q.id] = @ \o added]
    /\ request' = [request EXCEPT ![s] = Idle]
    /\ UNCHANGED workflows

\* The workflow refuses the approver, the client goes away, the connection or
\* the process is lost: get_db rolls the transaction back, or PostgreSQL does.
Rollback(s) ==
    /\ request[s] # Idle
    /\ request' = [request EXCEPT ![s] = Idle]
    /\ UNCHANGED <<journal, approval_log, workflows>>

Next ==
    \/ \E j \in Journals, u \in Users : create_journal(j, u)
    \/ \E w \in WorkflowChoices : create_workflow(w)
    \/ \E s \in Sessions :
          \/ \E j \in Journals : Begin(s, j)
          \/ \E op \in Operation, j \in Journals, u \in Users : Read(s, op, j, u)
          \/ CheckWorkflow(s)
          \/ Commit(s)
          \/ Rollback(s)

Spec == Init /\ [][Next]_vars

-----------------------------------------------------------------------------
(* Properties.                                                             *)

\* Every variable holds values of its type.
TypeOK ==
    /\ journal \in [Journals -> JournalHeader \cup {NoHeader}]
    /\ approval_log \in [Journals -> Seq(ApprovalLog)]
    /\ workflows \subseteq WorkflowChoices
    /\ request \in [Sessions -> Request \cup Begun \cup {Idle}]

\* The status a journal has was reached by the log's entries [1..n].
Reached(j, n, st) ==
    \/ st = "draft"
    \/ \E i \in 1..n : approval_log[j][i].to_status = st

\* No matter how requests overlap, every logged operation departs from a status
\* that an earlier entry of the same journal really reached: nothing is approved
\* that was never submitted, nothing posted that was never approved.
HistoryWellFounded ==
    \A j \in Journals : \A n \in 1..Len(approval_log[j]) :
        Reached(j, n - 1, approval_log[j][n].from_status)

\* What the order of created_at, in which get_approval_history reads the log, says of
\* two entries (numbered by their commits): the first can be read before the second.
ReadBefore(log, i, k) == log[i].created_at <= log[k].created_at

\* No other logged transaction of the journal overlapped the n-th one: it began after
\* the commits before its own, and the later ones began after its commit.
Alone(log, n) ==
    /\ log[n].created_at = n - 1
    /\ \A k \in (n + 1)..Len(log) : log[k].created_at >= n

\* The history as it is read tells the truth about the row: where the entry that is
\* read last is of a request no other logged one overlapped, it names the status the
\* journal has, whatever requests that logged nothing wrote on stale reads; a journal
\* without entries is a draft (or not created yet).
HistoryEndsInStatus ==
    \A j \in Journals :
        LET log == approval_log[j]
        IN  IF log = << >>
            THEN journal[j] = NoHeader \/ journal[j].approval_status = "draft"
            ELSE \A n \in DOMAIN log :
                    Alone(log, n) /\ (\A k \in DOMAIN log : ReadBefore(log, k, n)) =>
                        journal[j].approval_status = log[n].to_status

\* The history as it is read is a walk: of two entries read one after the other, each
\* of a request no other logged one overlapped, the second departs from the status the
\* first led to, and the first entry of all departs from a draft.
HistoryIsAWalk ==
    \A j \in Journals :
        LET log == approval_log[j]
        IN  \A n \in DOMAIN log : Alone(log, n) =>
               /\ \A i \in DOMAIN log \ {n} :
                     /\ Alone(log, i)
                     /\ ReadBefore(log, i, n)
                     /\ \A m \in DOMAIN log : ReadBefore(log, m, i) \/ ReadBefore(log, n, m)
                     => log[n].from_status = log[i].to_status
               /\ (\A m \in DOMAIN log : ReadBefore(log, n, m)) => log[n].from_status = "draft"

\* Segregation of duties as an auditor reads it off the tables: a journal that is
\* approved or posted has an approval in its log by a user who did not create it
\* and whose role may approve.
ApprovalBacked ==
    \A j \in Journals :
        journal[j].approval_status \in {"approved", "posted"} =>
            \E n \in 1..Len(approval_log[j]) :
                LET e == approval_log[j][n]
                IN  /\ e.action = "approve"
                    /\ e.actor_id # journal[j].created_by
                    /\ has_permission(e.actor_id, "journal:approve")

\* An approval about to be written is one the workflows allow: a definition that
\* was in force when the request read the journal and does not name the approver's
\* role has been outranked by another that names it.
ApprovalObeysWorkflow ==
    \A s \in Sessions :
        LET q == request[s]
        IN  Busy(s) /\ q.op = "approve" /\ q.phase = "checked" =>
                \A w \in q.in_force : w.threshold <= Amount[q.id] =>
                    \E v \in workflows :
                        /\ w.threshold <= v.threshold
                        /\ v.threshold <= Amount[q.id]
                        /\ RoleOf[q.user] \in v.roles

\* A voided journal stays voided and its creator never changes: a request that
\* read the row before it was voided does not write the flag back.
VoidIsFinal ==
    [][\A j \in Journals :
          /\ journal[j].is_voided => journal'[j].is_voided
          /\ journal[j] # NoHeader =>
                journal'[j].created_by = journal[j].created_by]_journal

\* No handler reads this table, and the guard of reject also takes approved journals.
VALID_TRANSITIONS ==
    [draft     |-> {"submitted", "rejected"},
     submitted |-> {"approved", "rejected", "draft"},
     approved  |-> {"posted", "draft"},
     posted    |-> {},
     rejected  |-> {"draft"}]

\* VALID_TRANSITIONS gives "posted" no successor: a posted journal stays posted.
\* The handlers do not ensure it when requests overlap.
PostedIsFinal ==
    [][\A j \in Journals :
          journal[j].approval_status = "posted" => journal'[j].approval_status = "posted"]_journal

=============================================================================
