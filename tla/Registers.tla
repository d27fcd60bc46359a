------------------------------ MODULE Registers ------------------------------
(* The registers that are kept row by row: accounts (sub-accounts, tax rules,   *)
(* partners, employees and budgets are kept in the same way), office tasks,      *)
(* invoices, settings, attendance and archived documents.  A request looks for   *)
(* the rows of its keys and then writes what it decided on: what was committed   *)
(* in between, it has not seen.  One behaviour is about one register.            *)
EXTENDS Integers, Sequences, FiniteSets, SequencesExt

CONSTANTS
    RegisterKeys,   \* codes, names, titles, days: what a register finds its rows by
    Clerks,         \* the requests that may be under way at the same time
    MaxCalls        \* bound: requests in a behaviour

ASSUME RegistersAssumption == MaxCalls \in Nat /\ IsFiniteSet(RegisterKeys)

VARIABLES
    register,       \* the register of this behaviour
    entries,        \* its rows, in the order of insertion
    objects,        \* the files of archived documents that are stored
    call,           \* per clerk, the request under way and the row it has read
    calls,          \* requests so far: the time of day, and the name of an archived file
    unguarded         \* ghost: the keys that nothing kept to one row

registervars == <<register, entries, objects, call, calls, unguarded>>

NoRegister == "none"
RegisterKinds == {NoRegister, "account", "task", "invoice", "setting", "attendance", "document"}

\* A unique constraint backs the check of these.
Constrained == {"invoice", "setting"}

Null == 0
Free == [op |-> "none", keys |-> {}]

\* A row of which only the key is set; a break is an hour unless it is given.
Entry(k) == [key |-> k, live |-> TRUE, in |-> Null, out |-> Null, rest |-> 1, work |-> 0, file |-> Null]

\* The rows of a key that the queries look at.
Live(k) == {n \in DOMAIN entries : entries[n].key = k /\ entries[n].live}
Missing == {k \in RegisterKeys : Live(k) = {}}

\* The one row that scalar_one_or_none returns; for two it raises, and the request fails.
Only(n) == Live(entries[n].key) = {n}

RegisterInit ==
    /\ register \in RegisterKinds
    /\ entries = <<>> /\ objects = {} /\ calls = 0 /\ unguarded = {}
    /\ call = [c \in Clerks |-> Free]

-----------------------------------------------------------------------------
(* A request reads.                                                         *)

\* From here on it goes by what it has read: row n, or that its keys have none.
Begin(c, op, keys, n) ==
    /\ call[c] = Free /\ calls < MaxCalls
    /\ call' = [call EXCEPT ![c] = [op |-> op, keys |-> keys, row |-> n, name |-> calls + 1,
                                    seen |-> IF n = Null THEN Entry(Null) ELSE entries[n]]]
    /\ calls' = calls + 1
    /\ unguarded' = unguarded \cup UNION {keys \cap call[d].keys : d \in Clerks}
    /\ UNCHANGED <<register, entries, objects>>

AskAccount(c) ==
    /\ register = "account"
    /\ \/ \E k \in Missing : Begin(c, "insert", {k}, Null)
       \/ Begin(c, "insert", Missing, Null)
       \/ \E n \in DOMAIN entries : entries[n].live /\ Begin(c, "delete", {}, n)

\* generate_from_templates looks at the titles of the period, create_task at nothing.
AskTask(c) ==
    /\ register = "task"
    /\ \/ \E k \in RegisterKeys : Begin(c, "create_task", {k}, Null)
       \/ Begin(c, "insert", Missing, Null)

\* The update of a setting that exists does not add or remove a row.
AskConstrained(c) ==
    /\ register \in Constrained
    /\ \E k \in Missing : Begin(c, "insert", {k}, Null)

AskAttendance(c) ==
    /\ register = "attendance"
    /\ \/ \E k \in Missing : Begin(c, "clock_in", {k}, Null) \/ Begin(c, "manual", {k}, Null)
       \/ \E n \in DOMAIN entries :
             /\ Only(n)
             /\ \/ entries[n].in = Null /\ Begin(c, "clock_in", {entries[n].key}, n)
                \/ entries[n].in # Null /\ entries[n].out = Null /\ Begin(c, "clock_out", {entries[n].key}, n)

\* A new document has a key of its own; a superseded version may be superseded again.
AskDocument(c) ==
    /\ register = "document"
    /\ \/ \E k \in RegisterKeys :
             /\ \A n \in DOMAIN entries : entries[n].key # k
             /\ \A d \in Clerks : k \notin call[d].keys
             /\ Begin(c, "archive", {k}, Null)
       \/ \E n \in DOMAIN entries : Begin(c, "supersede", {entries[n].key}, n)

-----------------------------------------------------------------------------
(* It writes, and is done.                                                  *)

Done(c) ==
    /\ call' = [call EXCEPT ![c] = Free]
    /\ UNCHANGED <<register, calls>>

Enter(c, new) == entries' = new /\ Done(c) /\ UNCHANGED objects

\* Mutant: no constraint.
insert_Unconstrained(c) ==
    /\ call[c].op = "insert"
    /\ Enter(c, entries \o SetToSeq({Entry(k) : k \in call[c].keys}))
    /\ UNCHANGED unguarded

\* The rows of its keys, or none of them when the constraint refuses one.
insert(c) ==
    /\ call[c].op = "insert"
    /\ LET keys == call[c].keys
           refused == register \in Constrained /\ \E n \in DOMAIN entries : entries[n].key \in keys
       IN  Enter(c, IF refused THEN entries ELSE entries \o SetToSeq({Entry(k) : k \in keys}))
    /\ UNCHANGED unguarded

create_task(c) ==
    /\ call[c].op = "create_task"
    /\ Enter(c, entries \o SetToSeq({Entry(k) : k \in call[c].keys}))
    /\ unguarded' = unguarded \cup call[c].keys

delete(c) ==
    /\ call[c].op = "delete"
    /\ Enter(c, [entries EXCEPT ![call[c].row].live = FALSE])
    /\ UNCHANGED unguarded

\* _calc_work_minutes, in hours
Worked(in, out, rest) == IF out - in > rest THEN out - in - rest ELSE 0

\* The hours of a row with both times are not worked out again.
clock_in(c) ==
    /\ call[c].op = "clock_in"
    /\ LET r == call[c]
       IN  /\ \E k \in r.keys :
                 Enter(c, IF r.row = Null THEN Append(entries, [Entry(k) EXCEPT !.in = calls])
                         ELSE [entries EXCEPT ![r.row].in = calls])
           /\ unguarded' = unguarded \cup IF r.seen.out = Null THEN {} ELSE r.keys

clock_out(c) ==
    /\ call[c].op = "clock_out"
    /\ LET r == call[c]
       IN  Enter(c, [entries EXCEPT ![r.row].out = calls,
                                   ![r.row].work = Worked(r.seen.in, calls, r.seen.rest)])
    /\ UNCHANGED unguarded

create_manual_attendance(c) ==
    /\ call[c].op = "manual"
    /\ \E k \in call[c].keys, in \in {Null, 1}, out \in {Null, 3}, rest \in {0, 1} :
          Enter(c, Append(entries, [Entry(k) EXCEPT
                      !.in = in, !.out = out, !.rest = rest,
                      !.work = IF Null \in {in, out} THEN 0 ELSE Worked(in, out, rest)]))
    /\ UNCHANGED unguarded

-----------------------------------------------------------------------------
(* A document is stored, then registered, then made the successor of another.    *)

put_object(c) ==
    /\ call[c].op \in {"archive", "supersede"} /\ call[c].name \notin objects
    /\ objects' = objects \cup {call[c].name}
    /\ UNCHANGED <<register, entries, call, calls, unguarded>>

archive_document(c) ==
    /\ call[c].op \in {"archive", "supersede"} /\ call[c].name \in objects
    /\ entries' = entries \o SetToSeq({[Entry(k) EXCEPT !.file = call[c].name] : k \in call[c].keys})
    /\ call' = [call EXCEPT ![c] = IF @.op = "archive" THEN Free ELSE [@ EXCEPT !.op = "link"]]
    /\ UNCHANGED <<register, objects, calls, unguarded>>

\* Whether the old version had a successor is not looked at.
supersede_document(c) ==
    /\ call[c].op = "link"
    /\ Enter(c, [entries EXCEPT ![call[c].row].live = FALSE])
    /\ unguarded' = unguarded \cup IF call[c].seen.live THEN {} ELSE call[c].keys

\* The request fails or its process dies: what it had committed stays.
Fail(c) ==
    /\ call[c] # Free
    /\ Enter(c, entries)
    /\ unguarded' = unguarded \cup IF call[c].op = "link" THEN call[c].keys ELSE {}

RegisterNext ==
    \E c \in Clerks :
        \/ AskAccount(c) \/ AskTask(c) \/ AskConstrained(c) \/ AskAttendance(c) \/ AskDocument(c)
        \/ insert(c) \/ create_task(c) \/ delete(c)
        \/ clock_in(c) \/ clock_out(c) \/ create_manual_attendance(c)
        \/ put_object(c) \/ archive_document(c) \/ supersede_document(c) \/ Fail(c)

RegisterSpec == RegisterInit /\ [][RegisterNext]_registervars

-----------------------------------------------------------------------------
(* What the registers keep to.                                              *)

\* What the links of the versions leave to the lists, which show live rows: while a successor
\* waits to be linked, two.
Expected(k) == IF \E c \in Clerks : call[c].op = "link" /\ k \in call[c].keys THEN 2 ELSE 1

\* A key has one live row: two need requests that looked it up before either wrote, or one of
\* the paths that do not look.
OneLiveRow == \A k \in RegisterKeys \ unguarded : Cardinality(Live(k)) <= Expected(k)

\* Where a constraint backs the check, overlapping requests do not get past it either.
ConstraintHolds == register \in Constrained => \A k \in RegisterKeys : Cardinality(Live(k)) <= 1

\* The hours of a day are those between its two times, less the break.
HoursAgree ==
    register = "attendance" =>
        \A n \in DOMAIN entries :
            LET e == entries[n]
            IN  Null \in {e.in, e.out} \/ e.key \in unguarded \/ e.work = Worked(e.in, e.out, e.rest)

\* A document that was archived has a current version, and every version its file, also after
\* a crash between two of the steps.
VersionsStand ==
    register = "document" =>
        \A n \in DOMAIN entries : Live(entries[n].key) # {} /\ entries[n].file \in objects

RegisteredOnce == OneLiveRow /\ ConstraintHolds /\ HoursAgree /\ VersionsStand

=============================================================================
