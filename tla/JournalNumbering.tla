-------------------------- MODULE JournalNumbering --------------------------
(***************************************************************************)
(* How concurrent transactions number the journals they insert.            *)
(*                                                                         *)
(* insert_with_number reads the highest number of the company, tries to    *)
(* insert the header under the next one, and lets the unique constraint    *)
(* (company_id, journal_number) decide.  PostgreSQL at READ COMMITTED:     *)
(* a SELECT sees the committed rows and the transaction's own; an INSERT   *)
(* whose key another open transaction holds waits for that transaction to  *)
(* end; one whose key is committed fails, the savepoint is rolled back and *)
(* the number is read again, MAX_ATTEMPTS times in all.                    *)
(*                                                                         *)
(* Most handlers insert one header in a transaction.  The CSV import       *)
(* inserts one per line of the file and commits them together.             *)
(*                                                                         *)
(* Only numbers of the form JRN-<digits> are modelled: no other form is    *)
(* written by the program, and next_journal_number skips them.             *)
(***************************************************************************)
EXTENDS Integers

CONSTANTS
    Journals,       \* journal_header_id: the headers ever built (the bound)
    Companies,      \* company_id
    Sessions,       \* request handlers that may be in flight together
    MAX_ATTEMPTS    \* of journal_numbering.py

ASSUME AttemptsAssumption == MAX_ATTEMPTS \in Nat \ {0}

VARIABLES
    headers,        \* the committed journal_headers rows
    txn,            \* what each session's transaction is doing
    commits         \* history: transactions committed for each company

vars == <<headers, txn, commits>>

-----------------------------------------------------------------------------
JournalHeader == [journal_header_id : Journals, company_id : Companies, number : Nat]

\* "reading":  in insert_with_number, about to read the highest number.
\* "numbered": the next number is chosen, the header is about to be flushed.
\* "inserted": insert_with_number has returned.
\* since is a history variable: commits when the transaction entered it.
Transaction ==
    [phase : {"reading", "numbered", "inserted"}, company_id : Companies,
     build : Journals, attempt : 0..(MAX_ATTEMPTS - 1), number : Nat,
     pending : SUBSET JournalHeader, since : Nat]

Idle == [phase |-> "idle"]

Busy(s) == txn[s].phase # "idle"

\* Rows the transaction inserted and has not committed.
Pending(s) == IF Busy(s) THEN txn[s].pending ELSE {}

Numbers(rows, c) == {h.number : h \in {g \in rows : g.company_id = c}}

\* MUTANT: numbers of open transactions are seen too, as with a database sequence.
Visible_Dirty(s) == headers \cup UNION {Pending(t) : t \in Sessions}

\* What a query of session s sees.
Visible(s) == headers \cup Pending(s)

Highest(rows, c) ==
    LET all == {0} \cup Numbers(rows, c)
    IN  CHOOSE n \in all : \A m \in all : m <= n

\* MUTANT: the highest number itself.
NextNumber_Highest(rows, c) == Highest(rows, c)

NextNumber(rows, c) == Highest(rows, c) + 1

\* A header object no transaction has built yet.
Unbuilt(j) ==
    /\ \A h \in headers : h.journal_header_id # j
    /\ \A s \in Sessions : Busy(s) =>
          /\ txn[s].build # j
          /\ \A h \in txn[s].pending : h.journal_header_id # j

Init ==
    /\ headers = {}
    /\ txn = [s \in Sessions |-> Idle]
    /\ commits = [c \in Companies |-> 0]

\* A handler opens a transaction and calls insert_with_number for a company.
begin(s, c, j) ==
    /\ ~Busy(s)
    /\ Unbuilt(j)
    /\ txn' = [txn EXCEPT ![s] =
           [phase |-> "reading", company_id |-> c, build |-> j, attempt |-> 0,
            number |-> 0, pending |-> {}, since |-> commits[c]]]
    /\ UNCHANGED <<headers, commits>>

\* MUTANT: the import keeps the number it read for the line before.
next_line_NoRead(s, j) ==
    /\ txn[s].phase = "inserted"
    /\ Unbuilt(j)
    /\ txn' = [txn EXCEPT ![s].phase = "numbered", ![s].build = j,
                          ![s].attempt = 0, ![s].since = commits[txn[s].company_id]]
    /\ UNCHANGED <<headers, commits>>

\* The CSV import goes on to the next line of its file.
next_line(s, j) ==
    /\ txn[s].phase = "inserted"
    /\ Unbuilt(j)
    /\ txn' = [txn EXCEPT ![s].phase = "reading", ![s].build = j,
                          ![s].attempt = 0, ![s].since = commits[txn[s].company_id]]
    /\ UNCHANGED <<headers, commits>>

next_journal_number(s) ==
    /\ txn[s].phase = "reading"
    /\ txn' = [txn EXCEPT ![s].phase = "numbered",
                          ![s].number = NextNumber(Visible(s), txn[s].company_id)]
    /\ UNCHANGED <<headers, commits>>

\* MUTANT: the table without its unique constraint.
Taken_NoConstraint(s) == FALSE

\* The unique constraint refuses the number: it is committed, or the session's own.
Taken(s) == txn[s].number \in Numbers(Visible(s), txn[s].company_id)

\* MUTANT: a number is reserved as soon as it has been read.
Waits_Reserved(s) ==
    \E t \in Sessions \ {s} :
        /\ Busy(t)
        /\ txn[t].company_id = txn[s].company_id
        /\ \/ txn[s].number \in Numbers(Pending(t), txn[s].company_id)
           \/ txn[t].phase = "numbered" /\ txn[t].number = txn[s].number

\* Another transaction has inserted the number and is still open.
Waits(s) ==
    \E t \in Sessions \ {s} : txn[s].number \in Numbers(Pending(t), txn[s].company_id)

Row(s) == [journal_header_id |-> txn[s].build, company_id |-> txn[s].company_id,
           number |-> txn[s].number]

insert(s) ==
    /\ txn[s].phase = "numbered"
    /\ ~Taken(s)
    /\ ~Waits(s)
    /\ txn' = [txn EXCEPT ![s].phase = "inserted", ![s].pending = @ \cup {Row(s)}]
    /\ UNCHANGED <<headers, commits>>

\* MUTANT: one attempt too many.
LastAttempt_Late(s) == txn[s].attempt = MAX_ATTEMPTS

LastAttempt(s) == txn[s].attempt = MAX_ATTEMPTS - 1

\* IntegrityError: the savepoint is rolled back and the number read again.
retry(s) ==
    /\ txn[s].phase = "numbered"
    /\ Taken(s)
    /\ ~LastAttempt(s)
    /\ txn' = [txn EXCEPT ![s].phase = "reading", ![s].attempt = @ + 1]
    /\ UNCHANGED <<headers, commits>>

\* IntegrityError on the last attempt leaves the handler, and the transaction is
\* rolled back with every header it had inserted.
give_up(s) ==
    /\ txn[s].phase = "numbered"
    /\ Taken(s)
    /\ LastAttempt(s)
    /\ txn' = [txn EXCEPT ![s] = Idle]
    /\ UNCHANGED <<headers, commits>>

\* get_db commits after the handler returned.
commit(s) ==
    /\ txn[s].phase = "inserted"
    /\ headers' = headers \cup txn[s].pending
    /\ commits' = [commits EXCEPT ![txn[s].company_id] = @ + 1]
    /\ txn' = [txn EXCEPT ![s] = Idle]

\* Anything else fails in the handler, the client goes away, the process is lost.
rollback(s) ==
    /\ Busy(s)
    /\ txn' = [txn EXCEPT ![s] = Idle]
    /\ UNCHANGED <<headers, commits>>

\* The steps the program takes on its own once a request is in flight.
Advance(s) ==
    \/ next_journal_number(s)
    \/ insert(s)
    \/ retry(s)
    \/ give_up(s)
    \/ commit(s)

Next ==
    \E s \in Sessions :
        \/ \E c \in Companies, j \in Journals : begin(s, c, j)
        \/ \E j \in Journals : next_line(s, j)
        \/ Advance(s)
        \/ rollback(s)

Spec == Init /\ [][Next]_vars

\* The event loop runs every handler, and PostgreSQL wakes a waiting INSERT when
\* the transaction it waits for has ended.  Nothing makes a woken INSERT win
\* against a newcomer: it is not strong fairness.
FairSpec == Spec /\ \A s \in Sessions : WF_vars(Advance(s))

-----------------------------------------------------------------------------
(* Properties.                                                             *)

\* Every variable holds values of its type.
TypeOK ==
    /\ headers \subseteq JournalHeader
    /\ txn \in [Sessions -> Transaction \cup {Idle}]
    /\ commits \in [Companies -> Nat]

\* No two journals of a company carry the same number, whichever transactions are
\* still open: the number identifies the journal in an audit.
UniqueNumbers ==
    \A g, h \in headers \cup UNION {Pending(s) : s \in Sessions} :
        g.company_id = h.company_id /\ g.number = h.number => g = h

\* The committed numbers of a company are 1, 2, ..., n: neither a rollback nor a
\* failed import leaves a gap an auditor would have to explain.
GapFree ==
    \A c \in Companies : Numbers(headers, c) = 1..Highest(headers, c)

\* At most one open transaction of a company holds numbers that are not committed.
\* It is never the one that waits, so imports of many lines cannot deadlock.
OneHolder ==
    /\ \A s, t \in Sessions :
          /\ Pending(s) # {}
          /\ Pending(t) # {}
          /\ txn[s].company_id = txn[t].company_id
          => s = t
    /\ \A s \in Sessions : txn[s].phase = "numbered" /\ Pending(s) # {} => ~Waits(s)

\* Each retry was forced by a transaction that committed for the same company in
\* the meantime: a request gives up only when MAX_ATTEMPTS others got through.
AttemptsAreEarned ==
    \A s \in Sessions :
        Busy(s) => txn[s].attempt <= commits[txn[s].company_id] - txn[s].since

\* A transaction that already inserted a header never fails for want of a number:
\* an import is not thrown away halfway because of competing requests.
HolderNeverRetries ==
    \A s \in Sessions :
        txn[s].phase = "numbered" /\ Pending(s) # {} => ~Taken(s)

\* Every request that asks for a number is answered, provided the requests it
\* competes with do not fail for other reasons for ever (an INSERT may be overtaken
\* after each of their rollbacks).
EveryRequestEnds ==
    <>[][\A s \in Sessions : ~rollback(s)]_vars => \A s \in Sessions : Busy(s) ~> ~Busy(s)

\* The table, read in the order of the numbers, is a book that only grows at its
\* end, by whole transactions.
Book ==
    [c \in Companies |->
        [n \in Numbers(headers, c) |->
            (CHOOSE h \in headers : h.company_id = c /\ h.number = n).journal_header_id]]

Numbering == INSTANCE NumberBook WITH book <- Book

IsABook == Numbering!BookSpec
=============================================================================
