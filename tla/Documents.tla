------------------------------ MODULE Documents ------------------------------
(* The documents of the back office that move through statuses and write      *)
(* journals on the way: invoices, expense reports, payment requests, tax      *)
(* returns, the records of a month's payroll, of a bonus and of a year-end    *)
(* adjustment, and fixed assets.  A request reads its rows, decides on what   *)
(* it read, and commits its updates, its journals and its notice together;    *)
(* the idempotency middleware wraps it: it looks the key up before, and keeps *)
(* the answer after, each in a transaction of its own.                        *)
EXTENDS Integers, Sequences, SequencesExt, FiniteSets

CONSTANTS
    Worlds,         \* what a behaviour may start from: [rows, journals, notices, requests], the
                    \* document tables (functions from row ids to rows), what they have
                    \* written, and what the clients ask for
    Charts,         \* the charts of accounts the company may have
    Employees,      \* a sequence of [gross, deductions] in the order of employee_code
    Assets,         \* per asset [base, life]: the depreciable base and the months of useful life
    Keys,           \* the Idempotency-Keys they send
    NoKey,          \* a request without one
    Sessions,       \* the requests that may be under way together
    MaxRequests     \* bound: requests received

ASSUME KeyAssumption == NoKey \notin Keys

VARIABLES
    rows,           \* row id -> row: the document tables
    next_id,        \* the next id of a calculated record
    depreciations,  \* depreciation_records, in the order of insertion
    journals,       \* journal headers with their lines, and the rows they are about
    notices,        \* notifications: the rows they are about and the action
    chart,          \* the accounts of the company
    requests,       \* what clients ask for
    records,        \* idempotency_records
    session,        \* per session, the request under way
    received,       \* requests received
    overlapped,     \* ghost: rows that two requests had read together
    runs,           \* ghost: per key, how often a handler committed under it
    excused         \* ghost: keys whose protection was interrupted

vars == <<rows, next_id, depreciations, journals, notices, chart, requests, records,
          session, received, overlapped, runs, excused>>

-----------------------------------------------------------------------------
(* The journals that services/auto_journal.py writes for the documents: the   *)
(* accounts a generator looks up, the lines it builds, and what is left in    *)
(* the session when it gives up.  An account is known by the prefix of its    *)
(* code; a chart is the set of prefixes under which the company has accounts. *)

Receivables == "11"
Cash == "12"
Accumulated == "15"
TaxReceived == "21"
Withheld == "22"
Sales == "41"
Salaries == "51"
Expenses == "52"
Depreciation == "53"

Accounts ==
    {Receivables, Cash, Accumulated, TaxReceived, Withheld,
     Sales, Salaries, Expenses, Depreciation}

Debit(a, n) == <<[debit_credit |-> "debit", account |-> a, amount |-> n]>>
Credit(a, n) == <<[debit_credit |-> "credit", account |-> a, amount |-> n]>>

Added(amounts) ==
    LET sum[n \in 0 .. Len(amounts)] == IF n = 0 THEN 0 ELSE sum[n - 1] + amounts[n]
    IN  sum[Len(amounts)]

Total(lines, side) ==
    Added([n \in DOMAIN lines |-> IF lines[n].debit_credit = side THEN lines[n].amount ELSE 0])

\* _assert_balanced raises when this is false.
Balanced(lines) == Total(lines, "debit") = Total(lines, "credit")

\* What a generator leaves in the session: nothing when an account that it looks up
\* before it numbers the header is missing; the header alone when a later lookup or
\* the balance fails, for the caller suppresses the error; else header and lines.
Drafted(source, lines, first, late, known) ==
    IF ~ first \subseteq known THEN <<>>
    ELSE <<[source |-> source,
            lines |-> IF late \subseteq known /\ Balanced(lines) THEN lines ELSE <<>>]>>

invoice_issue_journal(inv, known) ==
    Drafted("invoice",
            Debit(Receivables, inv.subtotal + inv.tax_amount) \o Credit(Sales, inv.subtotal)
                \o IF inv.tax_amount > 0 THEN Credit(TaxReceived, inv.tax_amount) ELSE <<>>,
            {Receivables, Sales, TaxReceived}, {}, known)

invoice_payment_journal(inv, known) ==
    Drafted("invoice_payment",
            Debit(Cash, inv.subtotal + inv.tax_amount)
                \o Credit(Receivables, inv.subtotal + inv.tax_amount),
            {Cash, Receivables}, {}, known)

expense_payment_journal(rep, known) ==
    Drafted("expense_payment",
            Debit(Expenses, rep.total_amount) \o Credit(Cash, rep.total_amount),
            {Expenses, Cash}, {}, known)

\* Mutant: the pay account is credited with the gross amount.
Wages_CreditsGross(source, gross, deductions, known) ==
    Drafted(source,
            Debit(Salaries, gross) \o Credit(Cash, gross)
                \o IF deductions > 0 THEN Credit(Withheld, deductions) ELSE <<>>,
            {Salaries, Cash}, IF deductions > 0 THEN {Withheld} ELSE {}, known)

\* Payroll and bonus: the account of the deductions is looked up after the header is written.
Wages(source, gross, deductions, known) ==
    Drafted(source,
            Debit(Salaries, gross) \o Credit(Cash, gross - deductions)
                \o IF deductions > 0 THEN Credit(Withheld, deductions) ELSE <<>>,
            {Salaries, Cash}, IF deductions > 0 THEN {Withheld} ELSE {}, known)

payroll_journal(gross, deductions, known) == Wages("payroll", gross, deductions, known)
bonus_journal(gross, deductions, known) == Wages("bonus", gross, deductions, known)

depreciation_journal(amount, known) ==
    Drafted("depreciation",
            Debit(Depreciation, amount) \o Credit(Accumulated, amount),
            {Depreciation, Accumulated}, {}, known)

-----------------------------------------------------------------------------
(* middleware/idempotency.py: the answers kept under Idempotency-Key, a row   *)
(* per key of one user (build_scoped_key prefixes the key with the user).  Of *)
(* a key there is "none", a row that is "kept" for its 24 hours, or one that  *)
(* is "expired": no row is ever deleted.                                      *)

\* The lookup passes over an expired row.  A hit is answered with the kept answer, or
\* with 409 when the body's hash differs; either way the handler does not run.
Hit(answers, key) == answers[key] = "kept"

\* What the lookup may return: it takes any exception of its own for a miss.
LookedUp(answers, key) == IF key = NoKey THEN {FALSE} ELSE {Hit(answers, key), FALSE}

\* Mutant: the answer is kept under a key that the lookup does not compute.
Saved_Elsewhere(answers, key) == answers

\* An INSERT under the key: it fails, and the failure is only logged, when there is a
\* row, an expired one included.
Saved(answers, key) ==
    IF answers[key] = "none" THEN [answers EXCEPT ![key] = "kept"] ELSE answers

\* The row's life ends.
Expired(answers, key) == [answers EXCEPT ![key] = "expired"]

-----------------------------------------------------------------------------
(* The tables of transitions.                                              *)

VALID_INVOICE_TRANSITIONS ==
    [draft |-> {"issued"}, issued |-> {"paid", "cancelled"}, paid |-> {}, cancelled |-> {}]
VALID_EXPENSE_TRANSITIONS ==
    [submitted |-> {"approved", "rejected"}, approved |-> {"paid"}, rejected |-> {}, paid |-> {}]
VALID_PAYROLL_TRANSITIONS ==
    [calculated |-> {"approved", "rejected"}, approved |-> {"paid"},
     rejected |-> {"calculated"}, paid |-> {}]
VALID_BONUS_TRANSITIONS == VALID_PAYROLL_TRANSITIONS
VALID_YE_TRANSITIONS == [calculated |-> {"approved"}, approved |-> {}]
VALID_TAX_TRANSITIONS == [calculated |-> {"filed"}, filed |-> {}]

\* next_payment_status: the statuses that approve, execute and cancel lead to.
next_payment_status ==
    [draft |-> {"approved", "cancelled"}, approved |-> {"executed", "cancelled"},
     executed |-> {}, cancelled |-> {}]

VALID_TRANSITIONS ==
    [invoice |-> VALID_INVOICE_TRANSITIONS, expense |-> VALID_EXPENSE_TRANSITIONS,
     payment |-> next_payment_status, tax_return |-> VALID_TAX_TRANSITIONS,
     payroll |-> VALID_PAYROLL_TRANSITIONS, bonus |-> VALID_BONUS_TRANSITIONS,
     year_end |-> VALID_YE_TRANSITIONS]

Operations == {"transition", "batch", "calculate", "depreciate", "dispose"}
DocumentKinds == {"invoice", "expense"}
BatchKinds == {"payroll", "bonus", "year_end"}

\* A row of a table has its columns: all have a status but the assets.
RowFits(row) ==
    /\ "kind" \in DOMAIN row
    /\ row.kind \in DocumentKinds \cup BatchKinds => "status" \in DOMAIN row
    /\ row.kind \in DocumentKinds => row.status \in DOMAIN VALID_TRANSITIONS[row.kind]

\* An endpoint serves one table: the row that a request names is one of its kind.  Invoices
\* and expense reports are there from the start.
RequestFits(r, db) ==
    /\ r.op \in Operations
    /\ r.op = "batch" => r.kind \in BatchKinds
    /\ r.op = "calculate" => r.kind \in BatchKinds \cup {"tax_return"}
    /\ r.op \in {"depreciate", "dispose"} => r.kind = "asset"
    /\ r.op \notin {"batch", "calculate"} =>
          /\ r.kind \in DocumentKinds => r.row \in DOMAIN db /\ db[r.row].kind = r.kind
          /\ r.kind \notin DocumentKinds /\ r.row \in DOMAIN db =>
                db[r.row].kind \notin DocumentKinds

JournalsOf(js, i, source) ==
    Cardinality({n \in DOMAIN js : js[n].source = source /\ i \in js[n].about})
NoticesOf(ns, i, action) ==
    Cardinality({n \in DOMAIN ns : ns[n].action = action /\ i \in ns[n].about})

\* The statuses that an invoice or expense report with this row has passed since it was made,
\* and the journal that goes with one.
Passed(row) ==
    IF row.status \in {"draft", "submitted"} THEN {}
    ELSE IF row.status = "rejected" THEN {"rejected"}
    ELSE {IF row.kind = "invoice" THEN "issued" ELSE "approved", row.status}

Source(kind, action) ==
    CASE kind = "invoice" /\ action = "issued" -> {"invoice"}
      [] kind = "invoice" /\ action = "paid"   -> {"invoice_payment"}
      [] kind = "expense" /\ action = "paid"   -> {"expense_payment"}
      [] OTHER -> {}

\* How many notices and journals a document has of a status, and how many are due.
Written(js, ns, i, kind, action) ==
    {NoticesOf(ns, i, action)} \cup {JournalsOf(js, i, src) : src \in Source(kind, action)}
Due(row, action) == IF action \in Passed(row) THEN 1 ELSE 0

OfKind(db, kind) == {i \in DOMAIN db : db[i].kind = kind}

Sum(seen, ids, field(_)) ==
    LET list == SetToSeq(ids) IN Added([n \in DOMAIN list |-> field(seen[list[n]])])
Gross(row) == row.gross
Deductions(row) == row.deductions

\* A journal balances and has the amounts of the documents it is about, in their table.
Carries(j, db) ==
    LET debit == Total(j.lines, "debit")
        ids == j.about \cap DOMAIN db
    IN  /\ Balanced(j.lines)
        /\ \A i \in ids :
              /\ j.source \in {"invoice", "invoice_payment"} =>
                     db[i].kind = "invoice" /\ debit = db[i].subtotal + db[i].tax_amount
              /\ j.source = "expense_payment" =>
                     db[i].kind = "expense" /\ debit = db[i].total_amount
              /\ j.source \in {"payroll", "bonus"} => db[i].kind = j.source
        /\ j.source \in {"payroll", "bonus"} /\ j.lines # <<>> /\ ids = j.about =>
              debit = Sum(db, ids, Gross)

\* The amounts of a document are not negative.
HasAmounts(row) ==
    /\ row.kind = "invoice" =>
          /\ {"subtotal", "tax_amount"} \subseteq DOMAIN row
          /\ row.subtotal \in Nat /\ row.tax_amount \in Nat
    /\ row.kind = "expense" => "total_amount" \in DOMAIN row /\ row.total_amount \in Nat
    /\ row.kind \in {"payroll", "bonus"} =>
          /\ {"gross", "deductions"} \subseteq DOMAIN row
          /\ row.gross \in Nat /\ row.deductions \in Nat

ASSUME AmountsAssumption ==
    /\ Employees \in Seq([gross : Nat, deductions : Nat])
    /\ \A a \in DOMAIN Assets : Assets[a].base \in Nat /\ Assets[a].life \in Nat \ {0}

\* Where records are calculated, ids are numbers: those from 1 on are given to the records.
Calculating(asked) == \E r \in asked : r.op = "calculate"

\* A world's rows are of their tables, its requests are served, and its documents have their
\* amounts and their history; its assets are new.
ASSUME WorldsAssumption ==
    \A w \in Worlds :
        /\ \A i \in DOMAIN w.rows : RowFits(w.rows[i])
        /\ \A r \in w.requests : RequestFits(r, w.rows)
        /\ w.journals \in Seq(Range(w.journals)) /\ w.notices \in Seq(Range(w.notices))
        /\ IsFiniteSet(DOMAIN w.rows)
        /\ \A i \in DOMAIN w.rows : HasAmounts(w.rows[i])
        /\ \A i \in OfKind(w.rows, "asset") :
              /\ i \in DOMAIN Assets
              /\ "accumulated" \in DOMAIN w.rows[i] /\ w.rows[i].accumulated = 0
        /\ \A r \in w.requests : r.op = "depreciate" => r.row \in OfKind(w.rows, "asset")
        /\ \A n \in DOMAIN w.journals :
              /\ Carries(w.journals[n], w.rows) /\ w.journals[n].lines # <<>>
              /\ w.journals[n].about \subseteq DOMAIN w.rows
        /\ Calculating(w.requests) => \A i \in DOMAIN w.rows : i \in Int /\ i < 1
        /\ \A i \in DOMAIN w.rows : w.rows[i].kind \in DocumentKinds =>
              \A a \in DOMAIN VALID_TRANSITIONS[w.rows[i].kind] :
                  \A n \in Written(w.journals, w.notices, i, w.rows[i].kind, a) :
                      n = Due(w.rows[i], a)

\* The rows a handler selects.
Selected(db, r) ==
    IF r.op \in {"batch", "calculate"} THEN OfKind(db, r.kind)
    ELSE {r.row} \cap DOMAIN db

\* The rows that may come first in a batch: it is sorted by the employee's code only, and
\* an employee has two records after two calculations at once.
Firsts(db, r) ==
    {i \in Selected(db, r) : \A j \in Selected(db, r) : db[i].employee <= db[j].employee}

\* Mutant: any action of the document's kind.
Allows_KnownAction(row, action) ==
    action \in UNION {VALID_TRANSITIONS[row.kind][st] : st \in DOMAIN VALID_TRANSITIONS[row.kind]}

\* "calculated" is in the table and is no action a request may ask for.
Allows(row, action) ==
    action \in VALID_TRANSITIONS[row.kind][row.status] \ {"calculated"}

\* How a request is judged by what it read.  A batch looks at its first record only.
Verdicts(db, r) ==
    CASE r.op = "transition" -> {r.row \in DOMAIN db /\ Allows(db[r.row], r.action)}
      [] r.op = "batch" -> IF Selected(db, r) = {} THEN {FALSE}
                           ELSE {Allows(db[i], r.action) : i \in Firsts(db, r)}
      [] r.op = "calculate"  -> {r.kind = "tax_return" \/ Employees # <<>>}
      [] r.op = "depreciate" -> {r.row \in DOMAIN db /\ ~db[r.row].is_disposed}
      [] r.op = "dispose"    -> {r.row \in DOMAIN db}

-----------------------------------------------------------------------------
(* What the handlers write.                                                *)

\* Mutant: the last month is not cut to what is left.
period_amount_Uncapped(a, accumulated) ==
    (2 * Assets[a].base + Assets[a].life) \div (2 * Assets[a].life)

\* One month of straight-line depreciation, in the smallest unit the column keeps:
\* an even share of the base, or what is left when that is less.
period_amount(a, accumulated) ==
    LET left == Assets[a].base - accumulated
    IN IF Assets[a].base <= left * Assets[a].life
       THEN (2 * Assets[a].base + Assets[a].life) \div (2 * Assets[a].life)
       ELSE left

\* The columns of a row that was read as old, after the request.
Column(row, old, r) ==
    CASE r.op \in {"transition", "batch"} ->
            [row EXCEPT !.status = r.action]
      [] r.op = "depreciate" ->
            [row EXCEPT !.accumulated = old.accumulated + period_amount(r.row, old.accumulated)]
      [] r.op = "dispose" -> [row EXCEPT !.is_disposed = TRUE]

\* Mutant: only the records in the status that was checked move.
Updated_LikeTheFirst(seen, r) ==
    CASE r.op = "calculate" -> {}
      [] r.op = "batch" -> {i \in Selected(seen, r) : \E f \in Firsts(seen, r) : seen[i].status = seen[f].status}
      [] OTHER -> Selected(seen, r)

\* The rows that get an UPDATE: those whose status the request changes.  An UPDATE that
\* meets no row fails the flush.
Updated(seen, r) ==
    CASE r.op = "calculate" -> {}
      [] r.op \in {"transition", "batch"} ->
            {i \in Selected(seen, r) : seen[i].status # r.action}
      [] OTHER -> Selected(seen, r)

\* The record of the n-th employee in the order of codes.
CalculatedRecord(kind, n) ==
    [kind |-> kind, status |-> "calculated", employee |-> n,
     gross |-> Employees[n].gross, deductions |-> Employees[n].deductions]

calculate_payroll(n) == CalculatedRecord("payroll", n)
calculate_bonus(n) == CalculatedRecord("bonus", n)
calculate_year_end_adjustment(n) == CalculatedRecord("year_end", n)
calculate_tax_return == [kind |-> "tax_return", status |-> "calculated"]

\* What a calculation inserts: a record for each active employee, or the year's return.
Inserted(kind) ==
    IF kind = "tax_return" THEN [i \in {next_id} |-> calculate_tax_return]
    ELSE [i \in next_id .. next_id + Len(Employees) - 1 |->
             LET n == i - next_id + 1
             IN CASE kind = "payroll"  -> calculate_payroll(n)
                  [] kind = "bonus"    -> calculate_bonus(n)
                  [] kind = "year_end" -> calculate_year_end_adjustment(n)]

\* The rows after the commit of a request that read seen.
Committed(seen, r) ==
    IF r.op = "calculate"
    THEN LET kept == DOMAIN rows \ Selected(seen, r)
             new == Inserted(r.kind)
         IN [i \in kept \cup DOMAIN new |-> IF i \in kept THEN rows[i] ELSE new[i]]
    ELSE [i \in DOMAIN rows |->
             IF i \in Updated(seen, r) THEN Column(rows[i], seen[i], r) ELSE rows[i]]

\* What a handler writes besides its rows: its journals, and whether it leaves a notice.
Effect(drafts, noticed) == [drafts |-> drafts, noticed |-> noticed]

transition_invoice(inv, action) ==
    Effect(CASE action = "issued" -> invoice_issue_journal(inv, chart)
             [] action = "paid"   -> invoice_payment_journal(inv, chart)
             [] OTHER             -> <<>>, TRUE)

transition_expense_report(rep, action) ==
    Effect(IF action = "paid" THEN expense_payment_journal(rep, chart) ELSE <<>>, TRUE)

transition_payment_request == Effect(<<>>, FALSE)
transition_tax_return == Effect(<<>>, FALSE)

\* A record that is paid by itself has no journal.
transition_payroll_status == Effect(<<>>, FALSE)

\* All records of the month are summed up, whatever their statuses were.
batch_transition_payroll(seen, ids, action) ==
    Effect(IF action = "paid"
           THEN payroll_journal(Sum(seen, ids, Gross), Sum(seen, ids, Deductions), chart)
           ELSE <<>>, TRUE)

batch_transition_bonus(seen, ids, action) ==
    Effect(IF action = "paid"
           THEN bonus_journal(Sum(seen, ids, Gross), Sum(seen, ids, Deductions), chart)
           ELSE <<>>, TRUE)

batch_transition_year_end == Effect(<<>>, TRUE)

run_depreciation(a, accumulated) ==
    Effect(depreciation_journal(period_amount(a, accumulated), chart), FALSE)

Handler(seen, r) ==
    LET ids == Selected(seen, r)
    IN CASE r.op = "transition" /\ r.kind = "invoice" -> transition_invoice(seen[r.row], r.action)
         [] r.op = "transition" /\ r.kind = "expense" ->
               transition_expense_report(seen[r.row], r.action)
         [] r.op = "transition" /\ r.kind = "payment"    -> transition_payment_request
         [] r.op = "transition" /\ r.kind = "tax_return" -> transition_tax_return
         [] r.op = "transition" /\ r.kind = "payroll"    -> transition_payroll_status
         [] r.op = "batch" /\ r.kind = "payroll"  -> batch_transition_payroll(seen, ids, r.action)
         [] r.op = "batch" /\ r.kind = "bonus"    -> batch_transition_bonus(seen, ids, r.action)
         [] r.op = "batch" /\ r.kind = "year_end" -> batch_transition_year_end
         [] r.op = "depreciate" -> run_depreciation(r.row, seen[r.row].accumulated)
         [] OTHER -> Effect(<<>>, FALSE)

Journaled(seen, r) ==
    LET drafts == Handler(seen, r).drafts
    IN [j \in DOMAIN drafts |->
           [source |-> drafts[j].source, lines |-> drafts[j].lines, about |-> Selected(seen, r)]]

create_notification(seen, r) ==
    IF Handler(seen, r).noticed
    THEN <<[about |-> Selected(seen, r), action |-> r.action]>>
    ELSE <<>>

-----------------------------------------------------------------------------
(* A request.                                                              *)

Idle == [phase |-> "idle"]
Holding(s) == session[s].phase # "idle"
UnderWay(s) == session[s].phase = "read"
KeyOf(s) == session[s].request.key

Init ==
    /\ \E w \in Worlds :
          rows = w.rows /\ journals = w.journals /\ notices = w.notices /\ requests = w.requests
    /\ chart \in Charts
    /\ next_id = 1
    /\ depreciations = <<>>
    /\ records = [k \in Keys |-> "none"]
    /\ session = [s \in Sessions |-> Idle]
    /\ received = 0
    /\ overlapped = {}
    /\ runs = [k \in Keys |-> 0]
    /\ excused = {}

\* The middleware looks the key up: a hit is answered without the handler.  It excuses the
\* key when another request under it is under way, and when the lookup fails and misses the
\* answer that is kept.
Receive(s, r) ==
    /\ session[s] = Idle
    /\ received < MaxRequests
    /\ received' = received + 1
    /\ \E hit \in LookedUp(records, r.key) :
          /\ session' = [session EXCEPT ![s] =
                IF hit THEN Idle ELSE [phase |-> "received", request |-> r]]
          /\ excused' =
                IF /\ r.key # NoKey
                   /\ \/ \E t \in Sessions : Holding(t) /\ KeyOf(t) = r.key
                      \/ Hit(records, r.key) /\ ~hit
                THEN excused \cup {r.key} ELSE excused
    /\ UNCHANGED <<rows, next_id, depreciations, journals, notices, chart, requests,
                   records, overlapped, runs>>

\* The handler selects its rows; it refuses a request that they do not allow.
Read(s) ==
    /\ session[s].phase = "received"
    /\ LET r == session[s].request
           together == {i \in Selected(rows, r) : \E t \in Sessions :
                           UnderWay(t) /\ i \in Selected(session[t].seen, session[t].request)}
       IN \/ /\ TRUE \in Verdicts(rows, r)
             /\ session' = [session EXCEPT ![s] =
                     [phase |-> "read", request |-> r, seen |-> rows]]
             /\ overlapped' = overlapped \cup together
          \/ /\ FALSE \in Verdicts(rows, r)
             /\ session' = [session EXCEPT ![s] = Idle]
             /\ UNCHANGED overlapped
    /\ UNCHANGED <<rows, next_id, depreciations, journals, notices, chart, requests,
                   records, received, runs, excused>>

\* Updates, inserts, journals and the notice are committed together, by the commit
\* inside create_notification or by the one after it.
Commit(s) ==
    /\ UnderWay(s)
    /\ LET r == session[s].request
           seen == session[s].seen
           ids == Selected(seen, r)
       IN /\ Updated(seen, r) \subseteq DOMAIN rows
          /\ rows' = Committed(seen, r)
          /\ next_id' = IF r.op = "calculate" THEN next_id + Cardinality(DOMAIN Inserted(r.kind))
                        ELSE next_id
          /\ depreciations' = IF r.op = "depreciate"
                              THEN Append(depreciations,
                                          [asset |-> r.row,
                                           amount |-> period_amount(r.row, seen[r.row].accumulated)])
                              ELSE depreciations
          /\ journals' = journals \o Journaled(seen, r)
          /\ notices' = notices \o create_notification(seen, r)
          /\ IF r.key = NoKey
             THEN /\ session' = [session EXCEPT ![s] = Idle]
                  /\ UNCHANGED runs
             ELSE /\ session' = [session EXCEPT ![s] = [phase |-> "answered", request |-> r]]
                  /\ runs' = [runs EXCEPT ![r.key] = @ + 1]
    /\ UNCHANGED <<chart, requests, records, received, overlapped, excused>>

\* The middleware keeps the answer of a request that succeeded.
Save(s) ==
    /\ session[s].phase = "answered"
    /\ records' = Saved(records, KeyOf(s))
    /\ session' = [session EXCEPT ![s] = Idle]
    /\ UNCHANGED <<rows, next_id, depreciations, journals, notices, chart, requests,
                   received, overlapped, runs, excused>>

\* The request ends early: its transaction fails or its rows are gone, its process
\* dies, or the answer cannot be kept.  What was not committed is rolled back.
Lose(s) ==
    /\ Holding(s)
    /\ session' = [session EXCEPT ![s] = Idle]
    /\ excused' = IF session[s].phase = "answered" THEN excused \cup {KeyOf(s)} ELSE excused
    /\ UNCHANGED <<rows, next_id, depreciations, journals, notices, chart, requests,
                   records, received, overlapped, runs>>

\* Twenty-four hours pass for a kept answer.
Expire(k) ==
    /\ Hit(records, k)
    /\ records' = Expired(records, k)
    /\ excused' = excused \cup {k}
    /\ UNCHANGED <<rows, next_id, depreciations, journals, notices, chart, requests,
                   session, received, overlapped, runs>>

Next ==
    \/ \E s \in Sessions, r \in requests : Receive(s, r)
    \/ \E s \in Sessions : Read(s) \/ Commit(s) \/ Save(s) \/ Lose(s)
    \/ \E k \in Keys : Expire(k)

Spec == Init /\ [][Next]_vars

-----------------------------------------------------------------------------
(* Properties.                                                             *)

\* A journal written for a document carries its amounts and balances; the only headers
\* that are left without lines are those of payroll and bonus when the company has no
\* account for the deductions, an error that the caller suppresses.
JournalsCarryTheirDocument ==
    \A n \in DOMAIN journals :
        /\ Carries(journals[n], rows)
        /\ journals[n].lines = <<>> =>
              journals[n].source \in {"payroll", "bonus"} /\ Withheld \notin chart

\* With a complete chart an invoice or expense report has the journal and the notice of
\* every status it passed, however its requests overlap or are lost; unless two requests
\* had read it together it has each exactly once, and none of a status it did not pass:
\* a request that is repeated never posts again.
OneRecordPerMove ==
    \A i \in DOMAIN rows :
        rows[i].kind \in DocumentKinds /\ chart = Accounts =>
        \A a \in DOMAIN VALID_TRANSITIONS[rows[i].kind] :
            \A n \in Written(journals, notices, i, rows[i].kind, a) :
                n >= Due(rows[i], a) /\ (i \notin overlapped => n = Due(rows[i], a))

DepreciatedBy(list, i) ==
    Added([n \in DOMAIN list |-> IF list[n].asset = i THEN list[n].amount ELSE 0])
Depreciated(i) == DepreciatedBy(depreciations, i)

\* The accumulated depreciation of an asset never passes its base, and is what its records
\* add up to; two requests that had read it together leave records the asset does not count.
DepreciationAddsUp ==
    \A i \in OfKind(rows, "asset") :
        /\ rows[i].accumulated <= Assets[i].base
        /\ rows[i].accumulated <= Depreciated(i)
        /\ i \notin overlapped => rows[i].accumulated = Depreciated(i)

\* A handler commits once under a key, however often the client sends it again: unless the
\* requests overlap, the answer is lost before it is kept, its life has ended, or the lookup
\* of a kept answer failed (the middleware then runs the handler again).
KeyRunsOnce == \A k \in Keys \ excused : runs[k] <= 1

\* A batch moves its records together: they have one status after it, whatever statuses
\* they had, unless another request had read one of them meanwhile.
BatchMovesTogether ==
    [][\A s \in Sessions :
          /\ UnderWay(s) /\ session[s].request.op = "batch" /\ notices' # notices
          /\ session'[s] # session[s]
          => \A i \in Selected(session[s].seen, session[s].request) \ overlapped :
                rows'[i].status = session[s].request.action]_vars

\* "paid" has no successor in VALID_PAYROLL_TRANSITIONS: a payroll record that was paid
\* stays paid as long as there is a record.
PaidIsFinal ==
    [][\A i \in OfKind(rows, "payroll") :
          rows[i].status = "paid" /\ i \in DOMAIN rows' => rows'[i].status = "paid"]_vars
=============================================================================
