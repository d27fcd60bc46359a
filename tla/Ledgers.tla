------------------------------ MODULE Ledgers ------------------------------
(* What a company reads from its journals: the totals of its accounts, the    *)
(* trial balance, the statements, the ratios and the budget; the checks of a   *)
(* journal before it is kept and of the ledger after.                          *)
(* A book is [accounts, journals]: accounts a function from account ids to     *)
(* [code, type, debit_credit, is_active, is_deleted], with code the first two  *)
(* digits of the account's code; journals a sequence of [transaction_date,     *)
(* is_deleted, is_voided, lines], each line [account, debit_credit, amount,    *)
(* tax_amount, is_deleted].                                                    *)
EXTENDS Yen, FiniteSets

-----------------------------------------------------------------------------
(* ValidationEngine, before a journal is kept.                             *)

Side(lines, side) ==
    SumSeq([l \in DOMAIN lines |-> IF lines[l].debit_credit = side THEN lines[l].amount ELSE 0])

SomeLine(lines, bad(_)) == \E l \in DOMAIN lines : bad(lines[l])

\* The first rule that the journal breaks.
validate(lines, created_by, approver_id) ==
    LET rules == <<
            [code |-> "VAL-001", broken |-> Side(lines, "debit") # Side(lines, "credit")],
            [code |-> "VAL-002", broken |-> \/ Len(lines) < 2
                                            \/ SomeLine(lines, LAMBDA l : None \in {l.account, l.debit_credit})],
            [code |-> "VAL-005", broken |-> SomeLine(lines, LAMBDA l : l.amount = 0)],
            [code |-> "VAL-004", broken |-> SomeLine(lines, LAMBDA l : l.tax_amount < 0)],
            [code |-> "SOD-001", broken |-> approver_id # None /\ created_by = approver_id]>>
        broken == {r \in DOMAIN rules : rules[r].broken}
    IN  IF broken = {} THEN None ELSE rules[CHOOSE r \in broken : \A s \in broken : r <= s].code

-----------------------------------------------------------------------------
(* The totals.                                                             *)

Counts(journal) == ~journal.is_deleted /\ ~journal.is_voided

\* The lines that count, of the journals with a date from start to end.
CountedLines(book, start, end) ==
    {n \in UNION {{i} \X DOMAIN book.journals[i].lines : i \in DOMAIN book.journals} :
        /\ Counts(book.journals[n[1]])
        /\ book.journals[n[1]].transaction_date \in start .. end
        /\ ~book.journals[n[1]].lines[n[2]].is_deleted}

LineOf(book, n) == book.journals[n[1]].lines[n[2]]

AccountTotal(book, lines, a, side) ==
    SumOver({n \in lines : LineOf(book, n).account = a /\ LineOf(book, n).debit_credit = side},
            LAMBDA n : LineOf(book, n).amount)

DebitAndCredit(book, lines, a) ==
    [debit |-> AccountTotal(book, lines, a, "debit"), credit |-> AccountTotal(book, lines, a, "credit")]

\* The lines of an account on both sides together.
Entered(book, lines, a) ==
    SumOver({n \in lines : LineOf(book, n).account = a}, LAMBDA n : LineOf(book, n).amount)

\* Only accounts with lines in the period appear.
account_totals_for_period(book, start, end) ==
    LET lines == CountedLines(book, start, end)
    IN  [a \in {LineOf(book, n).account : n \in lines} |-> DebitAndCredit(book, lines, a)]

\* The accounts of a month include those that are not active any more.
get_monthly_balances(book, start, end) ==
    LET totals == account_totals_for_period(book, start, end)
        shown == {a \in DOMAIN totals : ~book.accounts[a].is_deleted}
        debit == SumOver(shown, LAMBDA a : totals[a].debit)
        credit == SumOver(shown, LAMBDA a : totals[a].credit)
    IN  [items |-> shown, total_debit |-> debit, total_credit |-> credit, is_balanced |-> debit = credit]

\* The accounts that reports list: an account that was deleted or is not active is left
\* out together with its postings.
Listed(book) == {a \in DOMAIN book.accounts : book.accounts[a].is_active /\ ~book.accounts[a].is_deleted}

OfType(book, types) == {a \in Listed(book) : book.accounts[a].type \in types}

\* _get_account_balances: everything since the books began, as of a day.
_get_account_balances(book, as_of) ==
    LET lines == CountedLines(book, 0, as_of)
    IN  [a \in Listed(book) |-> DebitAndCredit(book, lines, a)]

Balance(totals) == totals.debit - totals.credit

get_trial_balance(book, as_of) ==
    LET rows == _get_account_balances(book, as_of)
        debit == SumOver(Listed(book), LAMBDA a : AtLeast(Balance(rows[a]), 0))
        credit == SumOver(Listed(book), LAMBDA a : AtLeast(-Balance(rows[a]), 0))
    IN  [total_debit |-> debit, total_credit |-> credit, is_balanced |-> debit = credit]

\* The file shows what was posted to each side, and not the balances.
export_trial_balance_csv(book, as_of) ==
    LET rows == _get_account_balances(book, as_of)
    IN  [total_debit |-> SumOver(Listed(book), LAMBDA a : rows[a].debit),
         total_credit |-> SumOver(Listed(book), LAMBDA a : rows[a].credit)]

\* The general ledger.  The opening balance is on the account's own side, and left out of
\* accounts that are not active.  Of the two columns named debit_credit that the query
\* selects, a row gives the first, the account's: every entry is on the account's own side,
\* whatever the side of the line.
get_general_ledger(book, start, end) ==
    LET before == CountedLines(book, 0, start - 1)
        lines == CountedLines(book, start, end)
        moved == {a \in {LineOf(book, n).account : n \in lines} : ~book.accounts[a].is_deleted}
        opening(a) ==
            LET balance == Balance(DebitAndCredit(book, before, a))
            IN  CASE a \notin Listed(book) -> 0
                  [] a \in Listed(book) /\ book.accounts[a].debit_credit = "debit" -> balance
                  [] a \in Listed(book) /\ book.accounts[a].debit_credit = "credit" -> -balance
        entries(a, side) ==
            IF book.accounts[a].debit_credit = side THEN Entered(book, lines, a) ELSE 0
        row(a, opened, debit, credit) ==
            [opening_balance |-> opened,
             closing_balance |-> opened + (IF book.accounts[a].type \in {"asset", "expense"}
                                           THEN debit - credit ELSE -(debit - credit)),
             total_debit |-> debit, total_credit |-> credit]
    IN  [a \in Listed(book) \cup moved |->
            row(a, opening(a), entries(a, "debit"), entries(a, "credit"))]

\* Its file ends each account with the opening balance, plus what was debited, less what was
\* credited, on whatever side the account is.
export_general_ledger_csv(book, start, end) ==
    LET ledger == get_general_ledger(book, start, end)
        ending(row) == row.opening_balance + (row.total_debit - row.total_credit)
    IN  [a \in DOMAIN ledger |-> ending(ledger[a])]

\* The journals as a file: a row for each pair of a debit and a credit line, with the amount
\* of the debit line.
export_journals_csv(book, start, end) ==
    LET lines == CountedLines(book, start, end)
        On(side) == {n \in lines : LineOf(book, n).debit_credit = side}
    IN  {<<pair[1], pair[2], LineOf(book, pair[1]).amount>> : pair \in
            {p \in On("debit") \X On("credit") : p[1][1] = p[2][1]}}

-----------------------------------------------------------------------------
(* The statements.                                                         *)

\* Assets and expenses grow on the debit side, the others on the credit side.
_sum_by_type(book, as_of) ==
    LET rows == _get_account_balances(book, as_of)
    IN  [type \in {"revenue", "expense", "asset", "liability", "equity"} |->
            SumOver(OfType(book, {type}),
                    LAMBDA a : IF type \in {"asset", "expense"} THEN Balance(rows[a]) ELSE -Balance(rows[a]))]

get_income_statement(book, as_of) ==
    LET totals == _sum_by_type(book, as_of)
    IN  [total_revenue |-> totals.revenue, total_expense |-> totals.expense,
         net_income |-> totals.revenue - totals.expense]

\* The files of the statements add up their own rows.
export_income_statement_csv(book, as_of) ==
    LET rows == _get_account_balances(book, as_of)
        revenue == SumOver(OfType(book, {"revenue"}), LAMBDA a : -Balance(rows[a]))
        expense == SumOver(OfType(book, {"expense"}), LAMBDA a : Balance(rows[a]))
    IN  [total_revenue |-> revenue, total_expense |-> expense, net_income |-> revenue - expense]

\* The year's income is no part of equity until it is carried over.
get_balance_sheet(book, as_of) ==
    LET totals == _sum_by_type(book, as_of)
    IN  [total_assets |-> totals.asset, total_liabilities |-> totals.liability,
         total_equity |-> totals.equity,
         is_balanced |-> totals.asset = totals.liability + totals.equity]

export_balance_sheet_csv(book, as_of) ==
    LET rows == _get_account_balances(book, as_of)
        Credited(type) == SumOver(OfType(book, {type}), LAMBDA a : -Balance(rows[a]))
    IN  [total_assets |-> -Credited("asset"), total_liabilities |-> Credited("liability"),
         total_equity |-> Credited("equity"),
         liabilities_and_equity |-> Credited("liability") + Credited("equity")]

\* MUTANT: the short-term loans are in no part.
Flow_NoLoans(account) ==
    CASE account.type = "asset" /\ account.code = 10 -> "cash"
      [] account.type = "asset" /\ account.code \in {11, 17} -> "operating"
      [] account.type = "asset" /\ account.code \in 12 .. 19 \ {17} -> "investing"
      [] account.type = "liability" /\ account.code \in {20, 21} -> "operating"
      [] account.type = "liability" /\ account.code \in 23 .. 29 -> "financing"
      [] account.type = "equity" -> "financing"
      [] OTHER -> "nowhere"

\* The part of the cash flow statement that an account of the balance sheet goes to.
Flow(account) ==
    CASE account.type = "asset" /\ account.code = 10 -> "cash"
      [] account.type = "asset" /\ account.code \in {11, 17} -> "operating"
      [] account.type = "asset" /\ account.code \in 12 .. 19 \ {17} -> "investing"
      [] account.type = "liability" /\ account.code \in {20, 21} -> "operating"
      [] account.type = "liability" /\ account.code \in 22 .. 29 -> "financing"
      [] account.type = "equity" -> "financing"
      [] OTHER -> "nowhere"

get_cash_flow_statement(book, as_of) ==
    LET rows == _get_account_balances(book, as_of)
        Part(flow) == SumOver({a \in OfType(book, {"asset", "liability", "equity"}) :
                                  Flow(book.accounts[a]) = flow}, LAMBDA a : -Balance(rows[a]))
        operating == get_income_statement(book, as_of).net_income + Part("operating")
    IN  [operating |-> operating, investing |-> Part("investing"), financing |-> Part("financing"),
         net_cash_flow |-> operating + Part("investing") + Part("financing")]

export_cash_flow_csv(book, as_of) ==
    LET rows == _get_account_balances(book, as_of)
        net_income == SumOver(OfType(book, {"revenue", "expense"}), LAMBDA a : -Balance(rows[a]))
        Rows(flow) == {a \in OfType(book, {"asset", "liability", "equity"}) : Flow(book.accounts[a]) = flow}
        Subtotal(flow) == SumOver(Rows(flow), LAMBDA a : -Balance(rows[a]))
    IN  net_income + Subtotal("operating") + Subtotal("investing") + Subtotal("financing")

\* n / d in units of 1 / scale, half up whatever its sign; None for a zero denominator.
Ratio(n, d, scale) ==
    LET size == ShareHalfUp(IF n < 0 THEN -n ELSE n, scale, IF d < 0 THEN -d ELSE d)
    IN  IF d = 0 THEN None ELSE IF (n < 0) = (d < 0) THEN size ELSE -size

\* FinancialKpiService.compute, in ten thousandths.
compute_kpis(t) ==
    LET net_income == t.revenue - t.expense
    IN  [net_income |-> net_income,
         net_profit_margin |-> Ratio(net_income, t.revenue, 10000),
         expense_ratio |-> Ratio(t.expense, t.revenue, 10000),
         equity_ratio |-> Ratio(t.equity, t.asset, 10000),
         debt_ratio |-> Ratio(t.liability, t.equity, 10000),
         return_on_assets |-> Ratio(net_income, t.asset, 10000)]

get_financial_kpi(book, as_of) == compute_kpis(_sum_by_type(book, as_of))

-----------------------------------------------------------------------------
(* Period close: a month's record, None until the first request.           *)

transition_period_close(record, action) ==
    CASE action = "close" /\ record # "closed" -> "closed"
      [] action = "reopen" /\ record = "closed" -> "open"
      [] OTHER -> ValueError

-----------------------------------------------------------------------------
(* LedgerConsistencyService: what is wrong with the ledger of a day.       *)

check_ledger(book, target_date) ==
    LET checked == {i \in DOMAIN book.journals :
                      Counts(book.journals[i]) /\ book.journals[i].transaction_date <= target_date}
        Lines(i) == book.journals[i].lines
        On(i, side) ==
            SumSeq([l \in DOMAIN Lines(i) |->
                IF Lines(i)[l].debit_credit = side /\ ~Lines(i)[l].is_deleted THEN Lines(i)[l].amount ELSE 0])
        wrong == {i \in checked : On(i, "debit") # On(i, "credit")}
    IN  [status |-> IF wrong = {} THEN "ok" ELSE "imbalanced",
         headers_checked |-> Cardinality(checked), imbalanced |-> wrong,
         total_debit |-> SumOver(checked, LAMBDA i : On(i, "debit")),
         total_credit |-> SumOver(checked, LAMBDA i : On(i, "credit"))]

-----------------------------------------------------------------------------
(* Budget and forecast.                                                    *)

actual_from_balance(totals, normal_balance) ==
    IF normal_balance = "credit" THEN -Balance(totals) ELSE Balance(totals)

\* Percent, in hundredths.
PerCent(n, d) == IF d = 0 THEN 0 ELSE Ratio(n, d, 10000)

line_variance(budgeted, actual) ==
    [budgeted_amount |-> budgeted, actual_amount |-> actual, variance_amount |-> actual - budgeted,
     variance_rate |-> PerCent(actual - budgeted, AtLeast(budgeted, -budgeted)),
     execution_rate |-> PerCent(actual, budgeted), is_over_budget |-> actual > budgeted]

summarize(lines) ==
    LET budgeted == SumSeq([i \in DOMAIN lines |-> lines[i].budgeted_amount])
        actual == SumSeq([i \in DOMAIN lines |-> lines[i].actual_amount])
    IN  [budgeted_total |-> budgeted, actual_total |-> actual, variance_total |-> actual - budgeted,
         execution_rate |-> PerCent(actual, budgeted),
         over_budget_count |-> Cardinality({i \in DOMAIN lines : lines[i].is_over_budget}),
         line_count |-> Len(lines)]

\* What comes in and goes out until each horizon, the day itself included.  Documents are
\* [amount, status, day].
forecast(as_of, invoices, payment_requests, horizons) ==
    LET Due(documents, statuses, horizon) ==
            SumSeq([i \in DOMAIN documents |->
                IF documents[i].status \in statuses /\ documents[i].day \in as_of .. (as_of + horizon)
                THEN documents[i].amount ELSE 0])
    IN  [h \in DOMAIN horizons |->
            LET inflows == Due(invoices, {"issued", "paid"}, horizons[h])
                outflows == Due(payment_requests, {"approved", "executed"}, horizons[h])
            IN  [horizon_days |-> horizons[h], inflows |-> inflows, outflows |-> outflows,
                 net_cashflow |-> inflows - outflows]]
=============================================================================
