----------------------------- MODULE Receivables -----------------------------
(* What customers owe: its age and the tasks to collect it, what of it is      *)
(* lost or reserved for, and how much more a customer may order.  Dates are    *)
(* days of Calendar.                                                           *)
EXTENDS Yen, Calendar, FiniteSets

Distinct(s, id(_)) == \A i, j \in DOMAIN s : id(s[i]) = id(s[j]) => i = j

-----------------------------------------------------------------------------
(* ReceivableAgingService.                                                 *)

bucket_of(days_overdue) ==
    CASE days_overdue <= 0 -> "not_due"
      [] days_overdue \in 1..30 -> "overdue_1_30"
      [] days_overdue \in 31..60 -> "overdue_31_60"
      [] days_overdue \in 61..90 -> "overdue_61_90"
      [] days_overdue > 90 -> "overdue_91_plus"

BUCKET_ORDER == {"not_due", "overdue_1_30", "overdue_31_60", "overdue_61_90", "overdue_91_plus"}

\* What is done about the oldest of a customer's debts, and within how many days.
Escalation(bucket) ==
    CASE bucket = "overdue_1_30" -> [action |-> "reminder", lead |-> 7]
      [] bucket = "overdue_31_60" -> [action |-> "call", lead |-> 3]
      [] bucket = "overdue_61_90" -> [action |-> "written_notice", lead |-> 2]
      [] bucket = "overdue_91_plus" -> [action |-> "legal", lead |-> 1]

\* Five years later; the 29th of February becomes the 28th.
statute_expiry(due_date) == Clamped(MonthOf(due_date) + 60, DayOfMonth(due_date))

Outstanding(r) == r.amount - r.paid_amount

Aged(r, as_of, alert_days) ==
    [invoice_id |-> r.invoice_id, customer |-> r.customer, outstanding |-> Outstanding(r),
     days_overdue |-> AtLeast(as_of - r.due_date, 0), bucket |-> bucket_of(as_of - r.due_date),
     statute_alert |-> statute_expiry(r.due_date) - as_of <= alert_days]

\* What is overdue and not too small to be asked for.
Pursued(items, minimum) == {a \in items : a.bucket # "not_due" /\ a.outstanding >= minimum}

TaskFor(customer, items, as_of) ==
    LET own == {a \in items : a.customer = customer}
        worst == CHOOSE a \in own : \A b \in own : b.days_overdue <= a.days_overdue
        step == Escalation(worst.bucket)
    IN  [customer |-> customer, action |-> step.action,
         invoice_ids |-> {a.invoice_id : a \in own},
         outstanding |-> SumOver(own, LAMBDA a : a.outstanding),
         max_days_overdue |-> worst.days_overdue, task_due_date |-> as_of + step.lead,
         statute_alert |-> \E a \in own : a.statute_alert]

\* One task per customer.
analyze(receivables, as_of, minimum, alert_days) ==
    LET items == {Aged(receivables[i], as_of, alert_days)
                    : i \in {j \in DOMAIN receivables : Outstanding(receivables[j]) > 0}}
        pursued == Pursued(items, minimum)
    IN  IF \/ ~Distinct(receivables, LAMBDA r : r.invoice_id)
           \/ \E i \in DOMAIN receivables : receivables[i].amount = 0 \/ Outstanding(receivables[i]) < 0
        THEN ValueError
        ELSE [items |-> items,
              tasks |-> {TaskFor(c, pursued, as_of) : c \in {a.customer : a \in pursued}},
              summary |-> [b \in BUCKET_ORDER |->
                              SumOver({a \in items : a.bucket = b}, LAMBDA a : a.outstanding)],
              total_outstanding |-> SumOver(items, LAMBDA a : a.outstanding)]

\* The report over the invoices that are issued and not paid, by partner; no part of an
\* invoice counts as paid.
get_ar_aging(invoices, as_of) ==
    LET receivables == {[invoice_id |-> i.invoice_id, customer |-> i.partner_id, due_date |-> i.due_date,
                         amount |-> i.total_amount, paid_amount |-> 0]
                           : i \in {v \in invoices : v.status = "issued" /\ v.total_amount > 0}}
        analysis == analyze(InSomeOrder(receivables), as_of, 0, 180)
        Rolled(items) == [buckets |-> [b \in BUCKET_ORDER |-> SumOver({a \in items : a.bucket = b},
                                                                   LAMBDA a : a.outstanding)],
                          total |-> SumOver(items, LAMBDA a : a.outstanding),
                          invoice_count |-> Cardinality(items)]
    IN  [buckets |-> analysis.summary, total |-> analysis.total_outstanding,
         partners |-> [p \in {a.customer : a \in analysis.items} |->
                          Rolled({a \in analysis.items : a.customer = p})]]

-----------------------------------------------------------------------------
(* BadDebtReserveService, BadDebtAssessmentService.                        *)

\* In 1/1000.
STATUTORY_RATES ==
    [wholesale_retail |-> 10, manufacturing |-> 8, finance_insurance |-> 3,
     installment_retail |-> 7, other |-> 6]

compute_reserve(receivables, industry, non_receivable) ==
    IF industry \notin DOMAIN STATUTORY_RATES THEN ValueError
    ELSE Share(Over(receivables, non_receivable), STATUTORY_RATES[industry], 1000)

WRITE_OFF_EVENTS ==
    {"reorganization_plan", "rehabilitation_plan", "special_liquidation_agreement", "debt_forgiveness"}
FORMAL_EVENTS ==
    {"reorganization_filing", "rehabilitation_filing", "bankruptcy_filing",
     "special_liquidation_filing", "bill_suspension"}
KNOWN_EVENTS == WRITE_OFF_EVENTS \cup FORMAL_EVENTS \cup {"none", "insolvency", "deferred_payment"}

\* Half of an amount, half a yen to the even side.
HalfEven(a) == IF a % 4 = 3 THEN (a \div 2) + 1 ELSE a \div 2

Invalid(r) ==
    \/ r.event \notin KNOWN_EVENTS \/ r.amount = 0
    \/ \E part \in {r.secured, r.offsettable, r.written_off, r.repayment_within_5years} : part > r.amount
    \/ r.event \in WRITE_OFF_EVENTS /\ r.written_off = 0

Treated(treatment, loss, reserve, general) ==
    [treatment |-> treatment, loss |-> loss, reserve |-> reserve, general |-> general]

\* No order for a year and more: all but one yen is lost.
TradeSuspended(r, as_of) ==
    /\ r.event = "none" /\ r.is_trade_receivable
    /\ r.last_transaction_date # None /\ r.secured = 0
    /\ as_of - AtLeast(r.last_transaction_date, r.due_date) >= 365

\* The first rule that applies decides.
assess_one(r, as_of) ==
    LET written_off == r.event \in WRITE_OFF_EVENTS
        lost == ~written_off /\ r.unrecoverable
        suspended == ~written_off /\ ~lost /\ TradeSuspended(r, as_of)
        doubtful == ~written_off /\ ~lost /\ ~suspended
    IN  CASE written_off -> Treated(IF r.written_off < r.amount THEN "requires_manual" ELSE "bad_debt_loss",
                                    r.written_off, 0, 0)
          [] lost /\ r.secured > 0 -> Treated("requires_manual", 0, 0, 0)
          [] lost /\ r.secured = 0 -> Treated("bad_debt_loss", r.amount, 0, 0)
          [] suspended -> Treated("bad_debt_loss", r.amount - 1, 0, 0)
          [] doubtful /\ r.event = "deferred_payment" ->
                 Treated("individual_reserve", 0, Over(r.amount, r.repayment_within_5years + r.secured), 0)
          [] doubtful /\ r.event = "insolvency" ->
                 Treated("individual_reserve", 0, r.amount - r.secured, 0)
          [] doubtful /\ r.event \in FORMAL_EVENTS ->
                 Treated("individual_reserve", 0, HalfEven(Over(r.amount, r.secured + r.offsettable)), 0)
          [] doubtful /\ r.event = "none" -> Treated("general_reserve", 0, 0, r.amount)

\* What is left for the general reserve is reserved for together.
assess(receivables, as_of, industry) ==
    LET one(i) == assess_one(receivables[i], as_of)
        all == DOMAIN receivables
        general == SumOver(all, LAMBDA i : one(i).general)
        offsettable == SumOver({i \in all : one(i).treatment = "general_reserve"},
                               LAMBDA i : receivables[i].offsettable)
        individual == SumOver(all, LAMBDA i : one(i).reserve)
        limit == IF general = 0 THEN 0 ELSE compute_reserve(general, industry, offsettable)
    IN  IF \/ ~Distinct(receivables, LAMBDA r : r.receivable_id)
           \/ \E i \in all : Invalid(receivables[i])
           \/ limit = ValueError
        THEN ValueError
        ELSE [items |-> [i \in all |-> [receivable_id |-> receivables[i].receivable_id,
                                       treatment |-> one(i).treatment, loss |-> one(i).loss]],
              total_loss |-> SumOver(all, LAMBDA i : one(i).loss),
              total_individual_reserve |-> individual,
              total_reserve_limit |-> individual + limit]

-----------------------------------------------------------------------------
(* CreditLimitService.                                                     *)

\* The limit, and a temporary one until it expires.
CreditLine(c, as_of) ==
    (IF c.credit_limit = None THEN 0 ELSE c.credit_limit)
        + (IF c.temporary_limit_expiry # None /\ c.temporary_limit_expiry >= as_of
           THEN c.temporary_limit ELSE 0)

Exposure(c) == c.receivable_balance + c.order_backlog + c.notes_receivable - c.advance_received

\* Blocked by a default or by 61 days; else by what would be owed after the order, with a
\* warning from 80 percent of the line on.
judge_credit(c, as_of) ==
    LET line == CreditLine(c, as_of)
        after == Exposure(c) + c.order_amount
    IN  CASE c.has_default_event \/ c.max_days_overdue >= 61 -> "blocked"
          [] ~c.has_default_event /\ c.max_days_overdue < 61 /\ c.credit_limit = None -> "requires_manual"
          [] OTHER -> IF after > line THEN "rejected"
                      ELSE IF line > 0 /\ 5 * after >= 4 * line THEN "warning" ELSE "approved"

check_credit(requests, as_of) ==
    IF \/ ~Distinct(requests, LAMBDA c : c.customer)
       \/ \E i \in DOMAIN requests : /\ requests[i].temporary_limit > 0
                                     /\ requests[i].temporary_limit_expiry = None
    THEN ValueError
    ELSE [judgments |-> [i \in DOMAIN requests |-> judge_credit(requests[i], as_of)],
          total_available_credit |->
              SumOver(DOMAIN requests,
                      LAMBDA i : Over(CreditLine(requests[i], as_of), Exposure(requests[i])))]
=============================================================================
