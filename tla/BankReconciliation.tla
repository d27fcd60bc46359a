------------------------- MODULE BankReconciliation -------------------------
(* Bank statements next to the documents: the lines of an imported statement   *)
(* are reconciled with the cash lines of the journals that the documents        *)
(* wrote, by a run over all of them or one by one.  A request reads, and writes *)
(* the columns that it changed of the rows it had read.                         *)
EXTENDS Documents

CONSTANTS
    Statements,     \* world -> [files, fees]: the statement files that are uploaded, sequences
                    \* of [amount, direction, date, names], and the max_fee of the runs
    NoLine          \* no journal line

\* A file is read line by line, and a journal line is a journal's number and the line's in it.
ASSUME StatementsAssumption ==
    /\ \A w \in DOMAIN Statements : \A file \in Statements[w].files : file \in Seq(Range(file))
    /\ NoLine \notin Int \X Int

VARIABLES
    statement,      \* bank_statement_lines, in the order of insertion
    files,          \* what is uploaded in this behaviour
    fees,           \* the max_fee its runs are asked for
    bank,           \* per session, the request under way
    crossed,        \* ghost: statement lines that two requests had read together
    by_run          \* ghost: statement lines matched by a run that no other run overlapped

bankvars == <<statement, files, fees, bank, crossed, by_run>>

-----------------------------------------------------------------------------
(* find_best_match.  The journals are of one day, day 0; a name resembles the    *)
(* description of a journal line or has nothing in common with it.               *)

date_tolerance == 3

\* |a - b|
Distance(a, b) == IF a >= b THEN a - b ELSE b - a

JournalLineOf(c) == journals[c[1]].lines[c[2]]

Comparable(b, c, fee) ==
    /\ Distance(b.amount, JournalLineOf(c).amount) <= fee
    /\ b.date <= date_tolerance

\* Six tenths for the date and four for the name; a difference that a fee explains costs up
\* to a half.  The unit is a tenth over date_tolerance and over 2 * fee.
match_score(b, c, fee) ==
    (6 * (date_tolerance - b.date) + IF journals[c[1]].source \in b.names THEN 4 * date_tolerance ELSE 0)
        * IF fee = 0 THEN 1 ELSE 2 * fee - Distance(b.amount, JournalLineOf(c).amount)

min_score(fee) == 6 * date_tolerance * IF fee = 0 THEN 1 ELSE 2 * fee

\* The candidates that find_best_match may return: one of the best, in the database's order.
BestMatches(b, candidates, fee) ==
    LET good == {c \in candidates : Comparable(b, c, fee) /\ match_score(b, c, fee) >= min_score(fee)}
    IN  {c \in good : \A d \in good : match_score(b, d, fee) <= match_score(b, c, fee)}

-----------------------------------------------------------------------------
(* What a request reads.                                                   *)

CashLines ==
    {c \in UNION {{n} \X (1 .. Len(journals[n].lines)) : n \in 1 .. Len(journals)} :
        JournalLineOf(c).account = Cash}

\* The cash lines of the journals that no statement line names.  Which way the money went is
\* not looked at.
Candidates == {c \in CashLines : \A b \in DOMAIN statement : statement[b].journal_line # c}

Unreconciled == {b \in DOMAIN statement : ~statement[b].is_reconciled}

\* The lines a request changes are among those it has read.
ReadLines(r) == IF r.op = "auto" THEN Unreconciled ELSE {r.line}

-----------------------------------------------------------------------------
(* What it writes.                                                         *)

With(matches, b, c) == [a \in DOMAIN matches \cup {b} |-> IF a = b THEN c ELSE matches[a]]

\* Mutant: a matched candidate stays in the pool.
Extended_NotPopped(seen, matches, b, candidates, fee) ==
    LET best == BestMatches(seen[b], candidates, fee)
    IN  IF best = {} THEN {matches} ELSE {With(matches, b, c) : c \in best}

\* The matches with that of one more line: what the lines before it took is gone.
Extended(seen, matches, b, candidates, fee) ==
    LET best == BestMatches(seen[b], candidates \ {matches[a] : a \in DOMAIN matches}, fee)
    IN  IF best = {} THEN {matches} ELSE {With(matches, b, c) : c \in best}

\* A run that has the lines in left before it, and the runs it may be one line later.
RunAt(left, matches) == [left |-> left, matches |-> matches]
Latest(seen, left) == {b \in left : \A a \in left : seen[a].date <= seen[b].date}
OneLineOn(seen, run, candidates, fee) ==
    UNION {{RunAt(run.left \ {b}, m) : m \in Extended(seen, run.matches, b, candidates, fee)} :
           b \in Latest(seen, run.left)}

\* auto_reconcile: the lines by date, the latest first, those of one day in any order.
Matchings(seen, lines, candidates, fee) ==
    LET after[i \in 0 .. Cardinality(lines)] ==
            IF i = 0 THEN {RunAt(lines, <<>>)}
            ELSE UNION {OneLineOn(seen, run, candidates, fee) : run \in after[i - 1]}
    IN  {run.matches : run \in after[Cardinality(lines)]}

Matched(line, c) == [line EXCEPT !.is_reconciled = TRUE, !.journal_line = c]
Unmatched(line) == [line EXCEPT !.is_reconciled = FALSE, !.journal_line = NoLine]

\* An UPDATE sets the columns that differ from what was read, and no others.
Flushed(row, seen, new) ==
    [row EXCEPT
        !.is_reconciled = IF new.is_reconciled = seen.is_reconciled THEN @ ELSE new.is_reconciled,
        !.journal_line = IF new.journal_line = seen.journal_line THEN @ ELSE new.journal_line]

-----------------------------------------------------------------------------
(* The requests.                                                           *)

BankIdle == [phase |-> "idle"]
Busy(s) == bank[s].phase # "idle"

BankInit ==
    /\ Init
    /\ \E w \in DOMAIN Statements :
          /\ rows = w.rows /\ requests = w.requests
          /\ files = Statements[w].files /\ fees = Statements[w].fees
    /\ statement = <<>>
    /\ bank = [s \in Sessions |-> BankIdle]
    /\ crossed = {}
    /\ by_run = {}

\* Every line of the file is inserted, whether or not it was imported before.
import_statement_csv(file) ==
    /\ received < MaxRequests
    /\ received' = received + 1
    /\ statement' = statement \o [i \in DOMAIN file |->
                        [amount |-> file[i].amount, direction |-> file[i].direction,
                         date |-> file[i].date, names |-> file[i].names,
                         is_reconciled |-> FALSE, journal_line |-> NoLine]]
    /\ UNCHANGED <<rows, next_id, depreciations, journals, notices, chart, requests, records,
                   session, overlapped, runs, excused, files, fees, bank, crossed, by_run>>

\* A request selects its lines.  Nothing asks whether a line is matched already, or what
\* the journal line to match by hand is.
Select(s, r) ==
    /\ ~Busy(s)
    /\ received < MaxRequests
    /\ received' = received + 1
    /\ bank' = [t \in Sessions |->
          IF t = s THEN [phase |-> IF r.op = "auto" THEN "lines" ELSE "ready", request |-> r,
                         seen |-> statement, read |-> ReadLines(r), candidates |-> {},
                         alone |-> \A u \in Sessions : Busy(u) => bank[u].request.op # "auto"]
          ELSE IF Busy(t) /\ r.op = "auto" THEN [bank[t] EXCEPT !.alone = FALSE] ELSE bank[t]]
    /\ crossed' = crossed \cup {b \in ReadLines(r) : \E t \in Sessions : Busy(t) /\ b \in bank[t].read}
    /\ UNCHANGED <<rows, next_id, depreciations, journals, notices, chart, requests, records,
                   session, overlapped, runs, excused, statement, files, fees, by_run>>

\* _load_candidates, in a SELECT of its own.
LoadCandidates(s) ==
    /\ bank[s].phase = "lines"
    /\ bank' = [bank EXCEPT ![s].phase = "ready", ![s].candidates = Candidates]
    /\ UNCHANGED vars
    /\ UNCHANGED <<statement, files, fees, crossed, by_run>>

\* The lines that change are written together.
Write(s, new) ==
    /\ statement' = [b \in DOMAIN statement |->
          IF b \in DOMAIN new THEN Flushed(statement[b], bank[s].seen[b], new[b]) ELSE statement[b]]
    /\ by_run' = IF bank[s].request.op = "auto" /\ bank[s].alone THEN by_run \cup DOMAIN new
                 ELSE by_run \ DOMAIN new
    /\ bank' = [bank EXCEPT ![s] = BankIdle]
    /\ UNCHANGED vars
    /\ UNCHANGED <<files, fees, crossed>>

auto_reconcile(s) ==
    /\ bank[s].phase = "ready" /\ bank[s].request.op = "auto"
    /\ \E m \in Matchings(bank[s].seen, bank[s].read, bank[s].candidates, bank[s].request.fee) :
          Write(s, [b \in DOMAIN m |-> Matched(bank[s].seen[b], m[b])])

manual_match(s) ==
    /\ bank[s].phase = "ready" /\ bank[s].request.op = "match"
    /\ LET r == bank[s].request IN Write(s, [b \in {r.line} |-> Matched(bank[s].seen[b], r.journal_line)])

unmatch(s) ==
    /\ bank[s].phase = "ready" /\ bank[s].request.op = "unmatch"
    /\ LET r == bank[s].request IN Write(s, [b \in {r.line} |-> Unmatched(bank[s].seen[b])])

\* The request fails or its process dies: nothing is written.
Abandon(s) ==
    /\ Busy(s)
    /\ bank' = [bank EXCEPT ![s] = BankIdle]
    /\ UNCHANGED vars
    /\ UNCHANGED <<statement, files, fees, crossed, by_run>>

BankRequests ==
    {[op |-> "auto", fee |-> fee] : fee \in fees}
    \cup {[op |-> "match", line |-> b, journal_line |-> c] : b \in DOMAIN statement, c \in CashLines}
    \cup {[op |-> "unmatch", line |-> b] : b \in DOMAIN statement}

BankNext ==
    \/ Next /\ UNCHANGED bankvars
    \/ \E file \in files : import_statement_csv(file)
    \/ files # {} /\ \E s \in Sessions, r \in BankRequests : Select(s, r)
    \/ \E s \in Sessions :
          LoadCandidates(s) \/ auto_reconcile(s) \/ manual_match(s) \/ unmatch(s) \/ Abandon(s)

BankSpec == BankInit /\ [][BankNext]_<<vars, bankvars>>

-----------------------------------------------------------------------------
(* Properties.                                                             *)

\* Two statement lines that runs of auto_reconcile matched never share a journal line,
\* whatever was imported, matched by hand or taken back between the runs and while they were
\* under way, except for runs that overlapped another run and for lines that another request
\* had read as well.  (What is matched by hand may be any journal line.)
RunsMatchOnce ==
    \A a, b \in by_run \ crossed :
        a # b => statement[a].journal_line # statement[b].journal_line

\* A line is flagged as reconciled exactly when it names a journal line, unless two requests
\* had read it together: each writes only the columns it changed.
FlagsAgree ==
    \A b \in DOMAIN statement \ crossed :
        statement[b].is_reconciled <=> statement[b].journal_line # NoLine

MatchesAreOneToOne == RunsMatchOnce /\ FlagsAgree
=============================================================================
