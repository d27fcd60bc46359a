------------------------------ MODULE Payments ------------------------------
(* Paying: when the taxes and premiums withheld in a month are due, the last   *)
(* month for which somebody pays premiums, the file of transfers for the bank,  *)
(* and what came in and went out of it against what was open.  Dates are days   *)
(* of Calendar, a month of payroll one of its months.                           *)
EXTENDS Yen, Calendar, FiniteSets

\* PaymentTaskService.is_closed_day: weekends, the turn of the year, holidays.
is_closed_day(day, holidays) ==
    \/ weekday(day) >= 5
    \/ MonthOf(day) % 12 = 11 /\ DayOfMonth(day) >= 29
    \/ MonthOf(day) % 12 = 0 /\ DayOfMonth(day) <= 3
    \/ day \in holidays

\* The search gives up after 31 days.
next_business_day(day, holidays) ==
    LET open == {d \in day..(day + 30) : ~is_closed_day(d, holidays)}
    IN  IF open = {} THEN ValueError ELSE CHOOSE d \in open : \A e \in open : d <= e

next_month_day(month, day) == IF day = None THEN LastDay(month + 1) ELSE FirstDay[month + 1] + day - 1

\* The tenth of the next month; twice a year for those with the exception.
withholding_statutory_due_date(month, special) ==
    LET january == 12 * (month \div 12)
    IN  CASE ~special -> next_month_day(month, 10)
          [] special /\ month % 12 < 6 -> FirstDay[january + 6] + 9
          [] special /\ month % 12 >= 6 -> FirstDay[january + 12] + 19

PaymentTask(task_type, amount, statutory, holidays) ==
    LET due == next_business_day(statutory, holidays)
    IN  [task_type |-> task_type, amount |-> amount, statutory_due_date |-> statutory,
         due_date |-> due, shifted |-> due # statutory]

generate_tasks(month, amounts, special, holidays) ==
    LET statutory(task_type) ==
            CASE task_type = "income_tax" -> withholding_statutory_due_date(month, special)
              [] task_type = "residence_tax" -> next_month_day(month, 10)
              [] task_type = "social_insurance" -> next_month_day(month, None)
        tasks == {PaymentTask(t, amounts[t], statutory(t), holidays)
                    : t \in {u \in DOMAIN amounts : amounts[u] > 0}}
    IN  IF \A t \in DOMAIN amounts : amounts[t] = 0 THEN ValueError
        ELSE IF \E t \in tasks : t.due_date = ValueError THEN ValueError
        ELSE [tasks |-> tasks, total_amount |-> SumOver(tasks, LAMBDA t : t.amount),
              earliest_due_date |-> CHOOSE d \in {t.due_date : t \in tasks} :
                                        \A t \in tasks : d <= t.due_date]

-----------------------------------------------------------------------------
(* QualificationLossService: an employee leaves, dies, or reaches an age.        *)

loss_date(event_date, reason) ==
    CASE reason \in {"retirement", "death"} -> event_date + 1
      [] reason = "age_70" -> event_date - 1
      [] reason = "age_75" -> event_date

\* Premiums are paid up to the month before the loss; who comes and goes within a month
\* pays for that month.
compute_loss(event_date, reason, qualification_date, is_over_70) ==
    LET lost == loss_date(event_date, reason)
        same_month == qualification_date # None /\ MonthOf(qualification_date) = MonthOf(lost)
    IN  IF qualification_date # None /\ qualification_date > lost THEN ValueError
        ELSE [loss_date |-> lost,
              final_premium_month |-> IF same_month THEN MonthOf(lost) ELSE MonthOf(lost) - 1,
              event_month_premium_charged |-> same_month \/ MonthOf(lost) - 1 = MonthOf(event_date),
              same_month |-> same_month,
              over70_notification |-> is_over_70 /\ reason \in {"retirement", "death"}]

-----------------------------------------------------------------------------
(* ZenginTransferService.  A line is [amount, transfer_fee,                     *)
(* fee_borne_by_recipient, encodable]: whether its names and numbers have        *)
(* characters and lengths the format allows is a datum.                          *)

Fee(line) == IF line.fee_borne_by_recipient THEN line.transfer_fee ELSE 0

TransferAmount(line) == line.amount - Fee(line)

\* A header, a record per line, a trailer with their number and sum, an end; or nothing.
generate_transfer(header_encodable, lines) ==
    LET all == DOMAIN lines
        data == [i \in all |-> [type |-> "data", amount |-> TransferAmount(lines[i])]]
        total == SumOver(all, LAMBDA i : TransferAmount(lines[i]))
    IN  IF \/ lines = <<>> \/ ~header_encodable
           \/ \E i \in all : lines[i].amount = 0 \/ TransferAmount(lines[i]) <= 0 \/ ~lines[i].encodable
        THEN ValueError
        ELSE [records |-> <<[type |-> "header"]>> \o data
                          \o <<[type |-> "trailer", count |-> Len(lines), amount |-> total], [type |-> "end"]>>,
              total_amount |-> total,
              total_fee_deducted |-> SumOver(all, LAMBDA i : Fee(lines[i]))]

-----------------------------------------------------------------------------
(* Settling what came in and went out of the bank: deposits against open       *)
(* invoices, withdrawals against the payments ordered.  Whether two names are  *)
(* similar enough is a datum: the set of customers a deposit's name resembles. *)
(* Ids are distinct and amounts positive: the services refuse others.           *)

\* The longest list of candidates whose sums are searched.
MAX_SUBSET_CANDIDATES == 24

\* The sums that some of the amounts reach, each with the ids that reach it first.
Reachable(target, amounts) ==
    LET With(reached, a) ==
            [t \in DOMAIN reached \cup {u \in {v + a.amount : v \in DOMAIN reached} : u <= target} |->
                IF t \in DOMAIN reached THEN reached[t]
                ELSE Append(reached[t - a.amount], a.id)]
    IN  FoldLeft(With, 0 :> <<>>, amounts)

\* Two or more that make up the target, or None.
find_subset(target, amounts) ==
    LET reached == Reachable(target, amounts)
    IN  IF Len(amounts) > MAX_SUBSET_CANDIDATES THEN None
        ELSE IF target \notin DOMAIN reached \/ Len(reached[target]) < 2 THEN None
        ELSE reached[target]

-----------------------------------------------------------------------------
(* ReceivableMatchingService.  Invoices are [id, customer, amount, due_date],   *)
(* deposits [id, amount, names].                                                *)

Allocation(id, amount, fee) == [invoice_id |-> id, applied |-> amount, fee |-> fee]

\* The deposit is spent on the open invoices, the oldest first.
Spread(amount, open, outstanding) ==
    LET Pay(acc, invoice) ==
            LET paid == AtMost(outstanding[invoice.id], acc.remaining)
            IN  IF acc.remaining = 0 THEN acc
                ELSE [remaining |-> acc.remaining - paid,
                      allocations |-> Append(acc.allocations, Allocation(invoice.id, paid, 0))]
    IN  FoldLeft(Pay, [remaining |-> amount, allocations |-> <<>>], open)

\* One invoice of that amount; some that add up to it; the one that differs by a fee at
\* most; or else one after the other.
Allocated(deposit, open, outstanding, fee_tolerance) ==
    LET exact == SelectSeq(open, LAMBDA i : outstanding[i.id] = deposit.amount)
        subset == find_subset(deposit.amount,
                      [i \in DOMAIN open |-> [id |-> open[i].id, amount |-> outstanding[open[i].id]]])
        near == SelectSeq(open, LAMBDA i : outstanding[i.id] - deposit.amount \in 1..fee_tolerance)
    IN  IF exact # <<>> THEN <<Allocation(exact[1].id, deposit.amount, 0)>>
        ELSE IF subset # None
             THEN [i \in DOMAIN subset |-> Allocation(subset[i], outstanding[subset[i]], 0)]
        ELSE IF Len(near) = 1
             THEN <<Allocation(near[1].id, deposit.amount, outstanding[near[1].id] - deposit.amount)>>
        ELSE Spread(deposit.amount, open, outstanding).allocations

AppliedTo(allocations, id) ==
    SumOver({i \in DOMAIN allocations : allocations[i].invoice_id = id},
            LAMBDA i : allocations[i].applied)
SettledOn(allocations, id) ==
    AppliedTo(allocations, id)
        + SumOver({i \in DOMAIN allocations : allocations[i].invoice_id = id}, LAMBDA i : allocations[i].fee)
AppliedIn(allocations) == SumOver(DOMAIN allocations, LAMBDA i : allocations[i].applied)

Status(allocations, remaining, left) ==
    CASE allocations = <<>> -> "unmatched"
      [] allocations # <<>> /\ remaining > 0 -> "advance"
      [] OTHER -> IF \E i \in DOMAIN allocations : left[allocations[i].invoice_id] > 0
                  THEN "partial" ELSE "settled"

\* Deposits in the order given, each against what the ones before it left open.  The
\* invoices are in the order of due date and id.
match_receivables(deposits, invoices, fee_tolerance) ==
    LET Settle(acc, deposit) ==
            LET open == SelectSeq(invoices, LAMBDA i : acc.outstanding[i.id] > 0
                                                       /\ i.customer \in deposit.names)
                allocations == Allocated(deposit, open, acc.outstanding, fee_tolerance)
                left == [id \in DOMAIN acc.outstanding |->
                            acc.outstanding[id] - SettledOn(allocations, id)]
                remaining == IF allocations = <<>> THEN 0 ELSE deposit.amount - AppliedIn(allocations)
            IN  [outstanding |-> left,
                 results |-> Append(acc.results,
                                 [id |-> deposit.id, amount |-> deposit.amount,
                                  allocations |-> allocations, advance |-> remaining,
                                  status |-> Status(allocations, remaining, left)])]
        amount(id) == (CHOOSE i \in ToSet(invoices) : i.id = id).amount
    IN  FoldLeft(Settle,
                 [outstanding |-> [id \in {i.id : i \in ToSet(invoices)} |-> amount(id)],
                  results |-> <<>>],
                 deposits)

-----------------------------------------------------------------------------
(* PaymentMatchingService.  Withdrawals and payments are [id, amount, date].    *)

Near(withdrawal, payments, days) ==
    SelectSeq(payments, LAMBDA p : withdrawal.date - p.date \in (-days)..days)

\* One pass over the withdrawals: what Chosen finds among the payments left is taken.
Pass(found, days, Chosen(_, _)) ==
    LET Take(acc, w) ==
            LET ids == Chosen(w, Near(w, acc.payments, days))
            IN  IF ids = None THEN [acc EXCEPT !.withdrawals = Append(@, w)]
                ELSE [acc EXCEPT !.matches = Append(@, [line_id |-> w.id, payment_ids |-> ids]),
                                 !.payments = SelectSeq(@, LAMBDA p : p.id \notin ToSet(ids))]
    IN  FoldLeft(Take, [found EXCEPT !.withdrawals = <<>>], found.withdrawals)

OnlyOne(payments) == IF Len(payments) = 1 THEN <<payments[1].id>> ELSE None

Exact(w, near) == OnlyOne(SelectSeq(near, LAMBDA p : p.amount = w.amount))
Aggregate(w, near) == find_subset(w.amount, near)

\* First the same amount, if no other has it; then sums; then a difference of a fee.
match_payments(withdrawals, payments, days, fee_tolerance) ==
    LET ByFee(w, near) ==
            OnlyOne(SelectSeq(near, LAMBDA p : w.amount - p.amount \in (-fee_tolerance)..fee_tolerance))
        start == [withdrawals |-> withdrawals, payments |-> payments, matches |-> <<>>]
        summed == Pass(Pass(start, days, Exact), days, Aggregate)
    IN  IF fee_tolerance = 0 THEN summed ELSE Pass(summed, days, ByFee)
=============================================================================
