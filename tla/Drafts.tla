------------------------------- MODULE Drafts -------------------------------
(* The journals proposed for what other services found: a business event, the  *)
(* pay of a month, deposits matched, debts written off.  A line is <<account    *)
(* role, debit, credit>>.                                                       *)
EXTENDS Payments, ConsumptionTax, Receivables

Debits(lines) == FoldLeft(LAMBDA sum, l : sum + l[2], 0, lines)
Credits(lines) == FoldLeft(LAMBDA sum, l : sum + l[3], 0, lines)

\* _build: lines of nothing are left out (an event's draft keeps them), an unbalanced draft is
\* refused.
Draft(lines) ==
    IF Debits(lines) # Credits(lines) THEN ValueError
    ELSE SelectSeq(lines, LAMBDA l : l[2] > 0 \/ l[3] > 0)

Transfer(from, to, amount) == Draft(<<<<to, amount, 0>>, <<from, 0, amount>>>>)

\* EventJournalService.
build_journal_draft(event_type, amount, tax_rate, is_inclusive) ==
    LET tax == calculate_tax(amount, tax_rate, is_inclusive)
        total == tax.excluded + tax.tax
    IN  CASE amount = 0 -> ValueError
          [] amount > 0 /\ event_type = "sales" ->
                 Draft(<<<<"accounts_receivable", total, 0>>, <<"sales", 0, tax.excluded>>,
                         <<"consumption_tax_payable", 0, tax.tax>>>>)
          [] amount > 0 /\ event_type = "purchase_expense" ->
                 Draft(<<<<"expense", tax.excluded, 0>>, <<"consumption_tax_receivable", tax.tax, 0>>,
                         <<"accounts_payable", 0, total>>>>)
          [] amount > 0 /\ event_type = "payment" -> Transfer("bank_deposit", "accounts_payable", amount)
          [] amount > 0 /\ event_type = "collection" ->
                 Transfer("accounts_receivable", "bank_deposit", amount)
          [] amount > 0 /\ event_type = "depreciation" ->
                 Transfer("accumulated_depreciation", "depreciation_expense", amount)
          [] OTHER -> ValueError

-----------------------------------------------------------------------------
(* PayrollJournalDraftService: the pay of a month, and the payments of what was  *)
(* withheld from it.  p is [month, payment_day, gross, insurance, income_tax,     *)
(* residence_tax, other, employer].                                               *)

Deductions(p) == p.insurance + p.income_tax + p.residence_tax + p.other

\* The tenth of the next month, or its last day.
payment_deadline(month, day) == IF day = None THEN LastDay(month + 1) ELSE FirstDay[month + 1] + day - 1

PayrollLines(p) ==
    <<<<"salary_expense", p.gross, 0>>, <<"legal_welfare_expense", p.employer, 0>>,
      <<"social_insurance_withholding", 0, p.insurance>>,
      <<"income_tax_withholding", 0, p.income_tax>>,
      <<"residence_tax_withholding", 0, p.residence_tax>>,
      <<"other_deduction_payable", 0, p.other>>,
      <<"social_insurance_payable", 0, p.employer>>,
      <<"bank_deposit", 0, p.gross - Deductions(p)>>>>

generate_payroll_drafts(p) ==
    LET Payment(due, lines) == IF Debits(lines) = 0 THEN <<>> ELSE <<[due_date |-> due, lines |-> Draft(lines)]>>
        tenth == payment_deadline(p.month, 10)
        Paid(role, amount) == <<<<role, amount, 0>>, <<"bank_deposit", 0, amount>>>>
    IN  IF \/ p.gross = 0 \/ Deductions(p) > p.gross
           \/ p.payment_day \notin 1..monthrange(p.month)
        THEN ValueError
        ELSE [net_pay |-> p.gross - Deductions(p),
              drafts |-> <<[due_date |-> None, lines |-> Draft(PayrollLines(p))]>>
                         \o Payment(tenth, Paid("income_tax_withholding", p.income_tax))
                         \o Payment(tenth, Paid("residence_tax_withholding", p.residence_tax))
                         \o Payment(payment_deadline(p.month, None),
                                <<<<"social_insurance_withholding", p.insurance, 0>>,
                                  <<"social_insurance_payable", p.employer, 0>>,
                                  <<"bank_deposit", 0, p.insurance + p.employer>>>>)]

-----------------------------------------------------------------------------
(* ReceivableJournalDraftService: one draft per deposit.                        *)

SettlementDraft(r) ==
    IF r.status = "unmatched" THEN Transfer("suspense_receipt", "bank_deposit", r.amount)
    ELSE Draft(<<<<"bank_deposit", r.amount, 0>>,
                 <<"transfer_fee_expense", SumOver(DOMAIN r.allocations, LAMBDA i : r.allocations[i].fee), 0>>>>
               \o [i \in DOMAIN r.allocations |->
                      <<"accounts_receivable", 0, r.allocations[i].applied + r.allocations[i].fee>>]
               \o <<<<"advance_received", 0, r.advance>>>>)

generate_receivable_drafts(results) == [i \in DOMAIN results |-> SettlementDraft(results[i])]

-----------------------------------------------------------------------------
(* BadDebtJournalDraftService.                                             *)

\* The tax of the loss is reclaimed in any case: the allowance is used for the rest of it.
UsedAllowance(loss, tax, allowance) == AtMost(allowance, loss - tax)

WriteOff(loss, tax, used) ==
    Draft(<<<<"bad_debt_allowance", used, 0>>, <<"bad_debt_loss", loss - used - tax, 0>>,
            <<"consumption_tax_received", tax, 0>>, <<"accounts_receivable", 0, loss>>>>)

LossTax(loss, rate) == IF rate = 0 THEN 0 ELSE compute_bad_debt_tax(loss, rate).tax

\* What is left of the allowance is moved to what the debts require at the end of the year.
generate_bad_debt_drafts(assessment, allowance_balance, rates, treatment, method) ==
    LET items == SelectSeq(assessment.items, LAMBDA i : i.treatment = "bad_debt_loss" /\ i.loss > 0)
        rate(i) == IF i.receivable_id \in DOMAIN rates THEN rates[i.receivable_id] ELSE 10
        Write(acc, i) ==
            LET tax == LossTax(i.loss, rate(i))
                booked == IF treatment = "exclusive" THEN tax ELSE 0
                used == UsedAllowance(i.loss, booked, acc.allowance)
            IN  [allowance |-> acc.allowance - used, tax |-> acc.tax + tax,
                 expense |-> acc.expense + (i.loss - used - booked),
                 drafts |-> Append(acc.drafts, WriteOff(i.loss, booked, used))]
        written == FoldLeft(Write, [allowance |-> allowance_balance, tax |-> 0, expense |-> 0,
                                    drafts |-> <<>>], items)
        target == assessment.total_reserve_limit
        reversal == IF method = "reversal" THEN written.allowance ELSE Over(written.allowance, target)
        provision == IF method = "reversal" THEN target ELSE Over(target, written.allowance)
        Moved(from, to, amount) == IF amount = 0 THEN <<>> ELSE <<Transfer(from, to, amount)>>
    IN  IF \/ ~ DOMAIN rates \subseteq {i.receivable_id : i \in ToSet(assessment.items)}
           \/ \E i \in ToSet(items) : rate(i) \notin ALLOWED_RATES \cup {0}
        THEN ValueError
        ELSE [drafts |-> written.drafts
                         \o Moved("bad_debt_allowance_reversal", "bad_debt_allowance", reversal)
                         \o Moved("bad_debt_allowance", "bad_debt_allowance_provision", provision),
              total_allowance_used |-> allowance_balance - written.allowance,
              total_consumption_tax_deduction |-> written.tax,
              total_loss_expense |-> written.expense,
              allowance_closing_balance |-> written.allowance - reversal + provision]
=============================================================================
