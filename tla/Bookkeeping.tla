---------------------------- MODULE Bookkeeping ----------------------------
(* The books of a company over time: journals are written and voided, accounts *)
(* are retired and deleted, months are closed, and the audit scans what was    *)
(* written and logs what it finds.  Ledgers says what the reports make of the  *)
(* books, Audits what a scan finds.  A request is one step here, but for the   *)
(* scan: it reads the journals and the log first and writes at the end, and    *)
(* other requests run in between.                                              *)
EXTENDS Ledgers, Audits

CONSTANTS
    Chart,              \* the accounts a company is created with
    AccountTypes,       \* the types an account may be given later
    Payloads,           \* the journals that may be sent, some of them refused
    Today,              \* the day on which everything is entered
    Auditors,           \* requests for a scan that may be under way together
    MaxJournals,        \* bound: journals written
    MaxChanges          \* bound: accounts changed, journals voided, months closed, reviews, scans

ASSUME BooksAssumption ==
    /\ MaxJournals \in Nat /\ MaxChanges \in Nat
    /\ Years \in Nat /\ Today \in Int
    /\ IsFiniteSet(DOMAIN Chart)
    /\ \A a \in DOMAIN Chart :
          "debit_credit" \in DOMAIN Chart[a] /\ Chart[a].debit_credit \in {"debit", "credit"}
    /\ \A p \in Payloads :
          /\ p.transaction_date \in 0 .. LastDay(12 * Years - 1)
          /\ p.lines \in Seq(Range(p.lines))
          /\ \A i \in DOMAIN p.lines :
                /\ p.lines[i].account \in DOMAIN Chart \cup {None}
                /\ p.lines[i].debit_credit \in {"debit", "credit"}
                /\ p.lines[i].amount \in Int
    /\ None \notin {"VAL-001", "VAL-002", "VAL-004", "VAL-005", "SOD-001"}

VARIABLES
    accounts,       \* Account by id
    journals,       \* the journals in the order they were written
    months,         \* PeriodClose by month, None until the first request
    detections,     \* the log of the audit, in the order it was written
    scan,           \* what each auditor's scan is about to log, or None
    behind,         \* the auditors whose scan read the log before another scan's last write
    overlapped,     \* whether a scan that was behind has written
    changes         \* how many steps changed anything but the journals written

vars == <<accounts, journals, months, detections, scan, behind, overlapped, changes>>

ClosedMonths == {MonthOf(p.transaction_date) : p \in Payloads}

Init ==
    /\ accounts = Chart
    /\ journals = <<>>
    /\ months = [m \in ClosedMonths |-> None]
    /\ detections = <<>>
    /\ scan = [a \in Auditors |-> None]
    /\ behind = {}
    /\ overlapped = FALSE
    /\ changes = 0

Book == [accounts |-> accounts, journals |-> journals]

Change ==
    /\ changes < MaxChanges
    /\ changes' = changes + 1

-----------------------------------------------------------------------------

KeptLine(l) ==
    [account |-> l.account, debit_credit |-> l.debit_credit, amount |-> l.amount,
     tax_amount |-> l.tax_amount, description |-> l.description, is_deleted |-> FALSE]

\* What create_journal keeps of a payload.
Kept(p) ==
    [journal_header_id |-> Len(journals) + 1, transaction_date |-> p.transaction_date,
     created_on |-> Today, hour |-> 12, created_by |-> p.created_by, approved_by |-> None,
     summary |-> p.summary, is_deleted |-> FALSE, is_voided |-> FALSE,
     lines |-> [i \in DOMAIN p.lines |-> KeptLine(p.lines[i])]]

\* No account is looked up: one that is retired or deleted is posted to like the others, and
\* a month that is closed too.
create_journal(p) ==
    /\ Len(journals) < MaxJournals
    /\ validate(p.lines, p.created_by, None) = None
    /\ journals' = Append(journals, Kept(p))
    /\ UNCHANGED <<accounts, months, detections, scan, behind, overlapped, changes>>

void_journal(i) ==
    /\ Change
    /\ ~journals[i].is_voided
    /\ journals' = [journals EXCEPT ![i].is_voided = TRUE]
    /\ UNCHANGED <<accounts, months, detections, scan, behind, overlapped>>

\* The type is any text; the side stays what it was, and so do the postings.
update_account(a, account_type, is_active) ==
    /\ Change
    /\ ~accounts[a].is_deleted
    /\ accounts' = [accounts EXCEPT ![a].type = account_type, ![a].is_active = is_active]
    /\ UNCHANGED <<journals, months, detections, scan, behind, overlapped>>

delete_account(a) ==
    /\ Change
    /\ ~accounts[a].is_deleted
    /\ accounts' = [accounts EXCEPT ![a].is_deleted = TRUE, ![a].is_active = FALSE]
    /\ UNCHANGED <<journals, months, detections, scan, behind, overlapped>>

close_month(m, action) ==
    /\ Change
    /\ transition_period_close(months[m], action) # ValueError
    /\ months' = [months EXCEPT ![m] = transition_period_close(@, action)]
    /\ UNCHANGED <<accounts, journals, detections, scan, behind, overlapped>>

-----------------------------------------------------------------------------

\* The SELECTs of a scan.
scan_read(a) ==
    /\ Change
    /\ scan[a] = None
    /\ scan' = [scan EXCEPT ![a] = scan_company(Range(journals), Range(detections))]
    /\ UNCHANGED <<accounts, journals, months, detections, behind, overlapped>>

\* Its INSERTs and its commit; whoever has read the log by now is behind.
scan_write(a) ==
    /\ scan[a] # None
    /\ detections' = detections \o InSomeOrder(scan[a])
    /\ scan' = [scan EXCEPT ![a] = None]
    /\ behind' = {b \in Auditors \ {a} : scan[b] # None}
    /\ overlapped' = (overlapped \/ a \in behind)
    /\ UNCHANGED <<accounts, journals, months, changes>>

review(d, status) ==
    /\ Change
    /\ detections[d].status # status
    /\ detections' = [detections EXCEPT ![d].status = status]
    /\ UNCHANGED <<accounts, journals, months, scan, behind, overlapped>>

Next ==
    \/ \E p \in Payloads : create_journal(p)
    \/ \E i \in DOMAIN journals : void_journal(i)
    \/ \E a \in DOMAIN accounts, is_active \in BOOLEAN :
        \E account_type \in AccountTypes \cup {accounts[a].type} : update_account(a, account_type, is_active)
    \/ \E a \in DOMAIN accounts : delete_account(a)
    \/ \E m \in ClosedMonths, action \in {"close", "reopen"} : close_month(m, action)
    \/ \E a \in Auditors : scan_read(a) \/ scan_write(a)
    \/ \E d \in DOMAIN detections, status \in VALID_STATUSES : review(d, status)

Spec == Init /\ [][Next]_vars

-----------------------------------------------------------------------------
(* Properties.                                                             *)

Reported == {p.transaction_date : p \in Payloads}

\* The accounts that some journal was posted to by then.
Posted(as_of) == {LineOf(Book, n).account : n \in CountedLines(Book, 0, as_of)}

\* Account by account, the months up to a day add up to what the trial balance shows.
MonthsAddUp(as_of) ==
    LET months_of == {m \in Months : FirstDay[m] <= as_of}
        totals == [m \in months_of |->
                      account_totals_for_period(Book, FirstDay[m], AtMost(LastDay(m), as_of))]
        shown == _get_account_balances(Book, as_of)
        In(m, a) == IF a \in DOMAIN totals[m] THEN Balance(totals[m][a]) ELSE 0
    IN  \A a \in Posted(as_of) : SumOver(months_of, LAMBDA m : In(m, a)) = Balance(shown[a])

\* The accounts whose own side is that of their type: not the accumulated depreciation, an
\* asset on the credit side, whose balance get_general_ledger opens and closes with opposite signs.
Ordinary == {a \in Listed(Book) : (accounts[a].debit_credit = "debit") <=> (accounts[a].type \in {"asset", "expense"})}

\* The accounts that were never posted to against their own side by then.
OnTheirSide(as_of) ==
    {a \in Ordinary : \A n \in CountedLines(Book, 0, as_of) :
        LineOf(Book, n).account = a => LineOf(Book, n).debit_credit = accounts[a].debit_credit}

\* A period of the ledger opens such an account with what the one before it closed it with, and
\* the file of an account on the debit side ends with what the ledger does (of an account on the
\* credit side it subtracts what was entered).
LedgerRollsForward(as_of) ==
    LET before == get_general_ledger(Book, 0, as_of)
        after == get_general_ledger(Book, as_of + 1, Today + 1)
        exported == export_general_ledger_csv(Book, as_of + 1, Today + 1)
    IN  /\ \A a \in OnTheirSide(as_of) : after[a].opening_balance = before[a].closing_balance
        /\ \A a \in Ordinary :
            accounts[a].debit_credit = "debit" => exported[a] = after[a].closing_balance

\* The rows of the exported file add up to what was posted, if each journal has two lines: of
\* others the file repeats the amounts.
FileAddsUp(as_of) ==
    LET counted == {i \in DOMAIN journals : Counts(journals[i]) /\ journals[i].transaction_date <= as_of}
    IN  (\A i \in counted : Len(journals[i].lines) = 2) =>
            SumOver(export_journals_csv(Book, 0, as_of), LAMBDA row : row[3])
                = SumOver(counted, LAMBDA i : TotalDebit(journals[i].lines))

CashOf(as_of) ==
    LET rows == _get_account_balances(Book, as_of)
    IN  SumOver({a \in Listed(Book) : Flow(accounts[a]) = "cash"}, LAMBDA a : Balance(rows[a]))

\* Every account with postings has a type that the statements know.
Typed(as_of) ==
    \A a \in Posted(as_of) : accounts[a].type \in {"revenue", "expense", "asset", "liability", "equity"}

\* The balance sheet, with the income of the year, the ratios and the files agree with the
\* income statement; and the cash flow is the cash, if every asset and liability has a code of its
\* type.
StatementsAgree(as_of) ==
    LET sheet == get_balance_sheet(Book, as_of)
        income == get_income_statement(Book, as_of)
        net_income == income.net_income
        file == export_balance_sheet_csv(Book, as_of)
        flows == get_cash_flow_statement(Book, as_of)
        placed(a) ==
            /\ accounts[a].type = "asset" => accounts[a].code \in 10 .. 19
            /\ accounts[a].type = "liability" => accounts[a].code \in 20 .. 29
    IN  /\ sheet.total_assets = sheet.total_liabilities + sheet.total_equity + net_income
        /\ get_financial_kpi(Book, as_of).net_income = net_income
        /\ export_income_statement_csv(Book, as_of) = income
        /\ file.total_assets = sheet.total_assets
        /\ file.liabilities_and_equity = sheet.total_liabilities + sheet.total_equity
        /\ export_cash_flow_csv(Book, as_of) = flows.net_cash_flow
        /\ (\A a \in Posted(as_of) : placed(a)) => flows.net_cash_flow = CashOf(as_of)

\* The trial balance, its file and the ledgers of one day agree with each other.
LedgersAgree(as_of) ==
    LET file == export_trial_balance_csv(Book, as_of)
    IN  /\ get_trial_balance(Book, as_of).is_balanced
        /\ file.total_debit = file.total_credit
        /\ MonthsAddUp(as_of)
        /\ LedgerRollsForward(as_of)
        /\ FileAddsUp(as_of)

\* Whatever was written, voided, retired, given another type or closed, the check of the ledger
\* finds nothing and every month is balanced unless an account was deleted; and as long as
\* every account with postings is still listed, trial balance, exported journals, months, the
\* general ledger of accounts never posted to against their side and, with types they know,
\* the statements agree, on every day.  reports.py,
\* ledger_totals.py, ledger_consistency.py each query the journals anew, and
\* docs/TestCatalog.md (IT-JRN-008) asks that the months agree with the trial balance.
BooksBalance ==
    \A as_of \in Reported :
        /\ check_ledger(Book, as_of).status = "ok"
        /\ (\A a \in Posted(as_of) : ~accounts[a].is_deleted) =>
               get_monthly_balances(Book, FirstDay[MonthOf(as_of)], as_of).is_balanced
        /\ Posted(as_of) \subseteq Listed(Book) =>
            /\ LedgersAgree(as_of)
            /\ Typed(as_of) => StatementsAgree(as_of)

LoggedOnce ==
    \A d, e \in DOMAIN detections :
        /\ detections[d].journal = detections[e].journal
        /\ detections[d].category = detections[e].category
        => d = e

\* What an inspection of one journal reports, a scan finds as well: a large journal, and a
\* repeated one if the two are with the same counterparty, which only the scan looks at.
ScanSeesTheSame ==
    LET found == Logged(scan_company(Range(journals), {}))
    IN  \A i \in {k \in DOMAIN journals : Counts(journals[k])} :
            LET report == inspect(journals[i], Range(journals))
            IN  /\ (\E p \in report.duplicate : Counterparty(journals[p]) = Counterparty(journals[i]))
                        => <<i, "duplicate">> \in found
                /\ report.large_amount => <<i, "high_amount">> \in found

\* A journal is logged once for each rule it breaks, whatever has become of the entry since,
\* unless two scans overlapped: scan_company skips what it read in the log, and nothing
\* else keeps a detection from being logged twice.  And a journal that is large, or that repeats
\* another of the same counterparty, for the inspection (audit_inspection.py) is so for the
\* scan (audit_detection.py), each with rules of its own.
FoundOnce ==
    /\ overlapped \/ LoggedOnce
    /\ ScanSeesTheSame
=============================================================================
