---------------------------- MODULE OrdersToCash ----------------------------
(* From orders to money: goods are shipped, the sales of the shipments are     *)
(* closed into invoices, deposits are settled against the invoices, and what   *)
(* stays open grows old, is reserved for and holds back the next order.  Each  *)
(* service computes from the lists it is given (Sales, Payments, Receivables,  *)
(* Drafts); the lists here are those of one company, and what one service      *)
(* returns is what the next is given.                                          *)
EXTENDS Sales, Drafts

CONSTANTS
    Orders,             \* a sequence of orders, with tax_rate, the rate of their goods
    Terms,              \* a sequence of the customers' terms of payment
    Holidays,
    ShipDays,           \* the days on which goods are shipped
    Portions,           \* the quantities shipped at once
    Transfers,          \* deposits: [amount, names]
    AsOf,               \* the day on which it is asked what is owed
    FeeTolerance,       \* the largest fee a deposit may fall short by
    Allowance,          \* the allowance for bad debts carried over, in Nat
    MaxShipments, MaxDeposits   \* bounds

ASSUME OrdersAssumption ==
    /\ MaxShipments \in Nat /\ MaxDeposits \in Nat
    /\ \A i \in DOMAIN Orders : \E k \in DOMAIN Terms : Terms[k].customer = Orders[i].customer

VARIABLES
    shipments,      \* what was shipped, in the order it was entered
    deposits        \* what came in

ordersVars == <<shipments, deposits>>

OrdersInit ==
    /\ shipments = <<>>
    /\ deposits = <<>>

\* A shipment that is refused is not entered.
ship(order, quantity, day) ==
    LET entered == Append(shipments, [shipment_id |-> Len(shipments) + 1, order_id |-> order.order_id,
                                      quantity |-> quantity, shipped_date |-> day])
    IN  /\ Len(shipments) < MaxShipments
        /\ deposits = <<>>
        /\ process(AsOf, Orders, entered) # ValueError
        /\ shipments' = entered
        /\ UNCHANGED deposits

deposit(transfer) ==
    /\ Len(deposits) < MaxDeposits
    /\ deposits' = Append(deposits, [id |-> Len(deposits) + 1, amount |-> transfer.amount,
                                     names |-> transfer.names])
    /\ UNCHANGED shipments

OrdersNext ==
    \/ \E i \in DOMAIN Orders, quantity \in Portions, day \in ShipDays : ship(Orders[i], quantity, day)
    \/ \E t \in Transfers : deposit(t)

OrdersSpec == OrdersInit /\ [][OrdersNext]_ordersVars

-----------------------------------------------------------------------------
(* What each service is given.                                             *)

OrderOf(entry) == CHOOSE o \in ToSet(Orders) : o.order_id = entry.order_id

\* The sales as lines to be closed.
SalesLines(fulfilled) ==
    LET entries == InSomeOrder(fulfilled.sales_entries)
    IN  [i \in DOMAIN entries |->
            [line_id |-> entries[i].shipment_id, customer |-> OrderOf(entries[i]).customer,
             sales_date |-> entries[i].sales_date, amount |-> entries[i].amount,
             tax_rate |-> OrderOf(entries[i]).tax_rate]]

\* The invoices that ask for something, in the order in which they are due.
Invoices(closed) ==
    LET Asked(i) == [id |-> 1000 * i.closing_date + i.customer, customer |-> i.customer,
                     amount |-> i.total_amount, due_date |-> i.due_date]
        before(i, j) == \/ i.due_date < j.due_date
                        \/ i.due_date = j.due_date /\ i.id <= j.id
    IN  SortSeq(InSomeOrder({Asked(i) : i \in {c \in closed : c.total_amount > 0}}), before)

\* What is open after the deposits, for those who ask how old it is.
Open(invoices, settled) ==
    [i \in DOMAIN invoices |->
        [invoice_id |-> invoices[i].id, customer |-> invoices[i].customer,
         amount |-> invoices[i].amount, due_date |-> invoices[i].due_date,
         paid_amount |-> invoices[i].amount - settled.outstanding[invoices[i].id]]]

\* What of it may be lost: no security, and customers that have gone silent.
Debts(receivables) ==
    LET open == SelectSeq(receivables, LAMBDA r : Outstanding(r) > 0)
    IN  [i \in DOMAIN open |->
            [receivable_id |-> open[i].invoice_id, amount |-> Outstanding(open[i]),
             due_date |-> open[i].due_date, event |-> "none", is_trade_receivable |-> TRUE,
             unrecoverable |-> FALSE, secured |-> 0, offsettable |-> 0, written_off |-> 0,
             repayment_within_5years |-> 0, last_transaction_date |-> open[i].due_date]]

-----------------------------------------------------------------------------
(* Properties.                                                             *)

Left(settled) == SumOver(DOMAIN settled.outstanding, LAMBDA id : settled.outstanding[id])

\* The sales of an order and its backlog are the order, and once it is complete its sales
\* are, however the shipments were cut and rounded.
OrdersAreRecognised(fulfilled) ==
    \A i \in DOMAIN Orders :
        LET order == fulfilled.orders[i]
            own == {e \in fulfilled.sales_entries : e.order_id = order.order_id}
        IN  /\ SumOver(own, LAMBDA e : e.amount) = order.recognized_amount
            /\ order.status = "completed" =>
                   order.recognized_amount = Worth(Orders[i].quantity, Orders[i].unit_price)

\* A shipment is on one invoice, in a period that ends on or after its day, and the invoices
\* ask for their sales and one tax per rate.
InvoicesCoverTheSales(fulfilled, lines, closed) ==
    /\ SumOver(closed, LAMBDA i : Cardinality(i.line_ids)) = Len(lines)
    /\ UNION {i.line_ids : i \in closed} = {l.line_id : l \in ToSet(lines)}
    /\ SumOver(closed, LAMBDA i : i.total_taxable) = fulfilled.total_recognized_amount
    /\ \A i \in closed :
        /\ i.total_debit = i.total_credit
        /\ \A l \in ToSet(lines) : l.line_id \in i.line_ids =>
               l.customer = i.customer /\ l.sales_date <= i.closing_date

\* A deposit is spent on its customer's invoices or kept as an advance, and no invoice is
\* settled by more than it asks for.
DepositsAreSpentOnce(paid, invoices, settled) ==
    LET results == settled.results
        SettledBy(id, k) == SettledOn(results[k].allocations, id)
    IN  /\ \A i \in ToSet(invoices) :
            /\ settled.outstanding[i.id] >= 0
            /\ settled.outstanding[i.id]
                   + SumOver(DOMAIN results, LAMBDA k : SettledBy(i.id, k)) = i.amount
            /\ \A k \in DOMAIN results : SettledBy(i.id, k) > 0 => i.customer \in paid[k].names
        /\ \A k \in DOMAIN results : results[k].status # "unmatched" =>
               AppliedIn(results[k].allocations) + results[k].advance = paid[k].amount
        /\ ValueError \notin ToSet(generate_receivable_drafts(results))

\* What is open is in one bucket and, once it is overdue, in one task.
OpenIsAged(analysis, settled) ==
    /\ analysis.total_outstanding = Left(settled)
    /\ SumOver(BUCKET_ORDER, LAMBDA b : analysis.summary[b]) = analysis.total_outstanding
    /\ SumOver(analysis.tasks, LAMBDA t : t.outstanding)
           = analysis.total_outstanding - analysis.summary["not_due"]

\* What is lost and reserved for is no more than what is open, and the drafts book the loss
\* once: as expense, as tax reclaimed, or out of the allowance, which ends at what is required.
LossesAreBooked(assessment, settled) ==
    /\ assessment.total_loss + assessment.total_reserve_limit <= Left(settled)
    /\ \A treatment \in {"exclusive", "inclusive"}, method \in {"reversal", "difference"} :
        LET booked == generate_bad_debt_drafts(assessment, Allowance, <<>>, treatment, method)
            tax == IF treatment = "exclusive" THEN booked.total_consumption_tax_deduction ELSE 0
        IN  /\ ValueError \notin ToSet(booked.drafts)
            /\ booked.allowance_closing_balance = assessment.total_reserve_limit
            /\ booked.total_allowance_used <= Allowance
            /\ booked.total_loss_expense + booked.total_allowance_used + tax = assessment.total_loss

\* Every yen of an order is counted once on its way: it is recognised or in the backlog, on
\* one invoice, settled by a deposit or open in one bucket, and lost or kept once.  The
\* closing refuses the whole list when roundings made the last shipment of an order negative
\* (order_fulfillment.py:176 takes what is left, sales_closing.py:121 refuses it).
CountedOnce(shipped, paid) ==
    LET fulfilled == process(AsOf, Orders, shipped)
        lines == SalesLines(fulfilled)
        closed == close(lines, Terms, Holidays)
        invoices == Invoices(closed)
        settled == match_receivables(paid, invoices, FeeTolerance)
        receivables == Open(invoices, settled)
        debts == Debts(receivables)
    IN  /\ OrdersAreRecognised(fulfilled)
        /\ (closed = ValueError) <=> (\E l \in ToSet(lines) : l.amount < 0)
        /\ closed # ValueError =>
            /\ InvoicesCoverTheSales(fulfilled, lines, closed)
            /\ DepositsAreSpentOnce(paid, invoices, settled)
            /\ OpenIsAged(analyze(receivables, AsOf, 0, 180), settled)
            /\ \A years \in 0..1 :
                LossesAreBooked(assess(debts, AsOf + 365 * years, "wholesale_retail"), settled)

\* So it is after every shipment and every deposit.
MoneyIsCountedOnce == [][shipments' # <<>> => CountedOnce(shipments', deposits')]_ordersVars
=============================================================================
