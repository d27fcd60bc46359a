-------------------------------- MODULE Sales --------------------------------
(* From an order to an invoice: what its shipments recognise as sales, on      *)
(* which day sales are closed and paid, and the invoices of a closing.  Dates  *)
(* are days of Calendar, unit prices hundredths of a yen.                      *)
EXTENDS ConsumptionTax, Calendar, FiniteSets

Unique(s, id(_)) == \A i, j \in DOMAIN s : id(s[i]) = id(s[j]) => i = j

-----------------------------------------------------------------------------
(* OrderFulfillmentService.                                                *)

\* quantity * unit_price, rounded.
Worth(quantity, unit_price) == ShareHalfUp(quantity, unit_price, 100)

Earlier(s, t) ==
    \/ s.shipped_date < t.shipped_date
    \/ s.shipped_date = t.shipped_date /\ s.shipment_id <= t.shipment_id

ShipmentsOf(order, shipments) ==
    SortSeq(SelectSeq(shipments, LAMBDA s : s.order_id = order.order_id), Earlier)

\* MUTANT: the last shipment is rounded like the others.
Recognised_NoRemainder(order, shipments) ==
    LET Ship(acc, s) ==
            [quantity |-> acc.quantity + s.quantity,
             amount |-> acc.amount + Worth(s.quantity, order.unit_price),
             entries |-> Append(acc.entries,
                            [order_id |-> order.order_id, shipment_id |-> s.shipment_id,
                             sales_date |-> s.shipped_date,
                             amount |-> Worth(s.quantity, order.unit_price)])]
    IN  FoldLeft(Ship, [quantity |-> 0, amount |-> 0, entries |-> <<>>], ShipmentsOf(order, shipments))

\* The sales of an order: the shipment that completes it takes what the roundings left.
Recognised(order, shipments) ==
    LET order_amount == Worth(order.quantity, order.unit_price)
        Ship(acc, s) ==
            LET shipped == acc.quantity + s.quantity
                amount == IF shipped = order.quantity THEN order_amount - acc.amount
                          ELSE Worth(s.quantity, order.unit_price)
            IN  [quantity |-> shipped, amount |-> acc.amount + amount,
                 entries |-> Append(acc.entries,
                                [order_id |-> order.order_id, shipment_id |-> s.shipment_id,
                                 sales_date |-> s.shipped_date, amount |-> amount])]
    IN  FoldLeft(Ship, [quantity |-> 0, amount |-> 0, entries |-> <<>>], ShipmentsOf(order, shipments))

OrderStatus(order, shipped) ==
    CASE shipped = order.quantity -> "completed"
      [] shipped < order.quantity /\ order.credit_status \notin {"approved", "warning"} -> "on_hold"
      [] OTHER -> IF shipped > 0 THEN "partially_shipped" ELSE "not_shipped"

Progress(order, shipments, as_of) ==
    LET sales == Recognised(order, shipments)
        status == OrderStatus(order, sales.quantity)
    IN  [order_id |-> order.order_id, customer |-> order.customer, status |-> status,
         shipped_quantity |-> sales.quantity, recognized_amount |-> sales.amount,
         backlog_amount |-> Worth(order.quantity, order.unit_price) - sales.amount,
         delay_days |-> IF status = "completed" THEN 0 ELSE Over(as_of, order.delivery_date)]

\* An order, or a shipment, that is refused.
Refused(orders, shipments) ==
    \/ ~Unique(orders, LAMBDA o : o.order_id) \/ ~Unique(shipments, LAMBDA s : s.shipment_id)
    \/ \E o \in ToSet(orders) :
        o.quantity = 0 \/ o.delivery_date < o.order_date \/ Recognised(o, shipments).quantity > o.quantity
    \/ \E s \in ToSet(shipments) :
        s.quantity = 0 \/ s.order_id \notin {o.order_id : o \in ToSet(orders)}

\* The backlog of a customer counts what is still open, order by order.
process(as_of, orders, shipments) ==
    LET progress == [i \in DOMAIN orders |-> Progress(orders[i], shipments, as_of)]
        open == {i \in DOMAIN orders : progress[i].backlog_amount > 0}
        entries == UNION {ToSet(Recognised(o, shipments).entries) : o \in ToSet(orders)}
    IN  IF Refused(orders, shipments) THEN ValueError
        ELSE [orders |-> progress, sales_entries |-> entries,
              backlogs |-> [c \in {orders[i].customer : i \in open} |->
                               SumOver({i \in open : orders[i].customer = c},
                                       LAMBDA i : progress[i].backlog_amount)],
              total_recognized_amount |-> SumOver(DOMAIN orders, LAMBDA i : progress[i].recognized_amount)]

-----------------------------------------------------------------------------
(* PaymentTermsService.                                                    *)

\* The closing day of the month, cut to the length of the month of the invoice, or the
\* same of the month after.
compute_closing_date(invoice_date, closing_day) ==
    LET m == MonthOf(invoice_date)
        target == AtMost(closing_day, monthrange(m))
    IN  IF closing_day \notin 1..31 THEN ValueError
        ELSE IF DayOfMonth(invoice_date) > target THEN Clamped(m + 1, target) ELSE Clamped(m, target)

IsBusinessDay(day, holidays) == weekday(day) < 5 /\ day \notin holidays

\* The next business day, or the one before.
Adjust(day, holidays, adjustment) ==
    CASE adjustment = "none" -> day
      [] adjustment = "next" ->
             CHOOSE d \in day..LastDay(12 * Years - 1) :
                 IsBusinessDay(d, holidays) /\ \A e \in day..(d - 1) : ~IsBusinessDay(e, holidays)
      [] adjustment = "previous" ->
             CHOOSE d \in 0..day :
                 IsBusinessDay(d, holidays) /\ \A e \in (d + 1)..day : ~IsBusinessDay(e, holidays)

compute_payment_date(invoice_date, terms, holidays) ==
    LET closing_date == compute_closing_date(invoice_date, terms.closing_day)
        month == MonthOf(closing_date) + terms.payment_month_offset
    IN  IF terms.payment_day \notin 1..31 \/ closing_date = ValueError
           \/ terms.adjustment \notin {"next", "previous", "none"}
        THEN ValueError
        ELSE Adjust(Clamped(month, terms.payment_day), holidays, terms.adjustment)

-----------------------------------------------------------------------------
(* SalesClosingService.                                                    *)

TermsOf(terms, customer) == CHOOSE t \in ToSet(terms) : t.customer = customer

\* One invoice for a customer and closing date: the tax of all its lines, the day it is
\* due, and the journal that records it.
ClosedInvoice(group, term, closing_date, holidays) ==
    LET tax == compute_invoice_tax(group)
    IN  [customer |-> term.customer, closing_date |-> closing_date,
         due_date |-> compute_payment_date(closing_date, term, holidays),
         line_ids |-> {line.line_id : line \in ToSet(group)},
         total_taxable |-> tax.total_taxable, total_tax |-> tax.total_tax,
         total_amount |-> tax.total_amount,
         total_debit |-> tax.total_amount,
         total_credit |-> SumOver(RatesOf(group), LAMBDA r : AmountOf(OfRate(group, r))) + tax.total_tax]

close(lines, terms, holidays) ==
    LET closing(line) == compute_closing_date(line.sales_date, TermsOf(terms, line.customer).closing_day)
        groups == {<<line.customer, closing(line)>> : line \in ToSet(lines)}
        Lines(g) == SelectSeq(lines, LAMBDA line : <<line.customer, closing(line)>> = g)
    IN  IF \/ ~Unique(terms, LAMBDA t : t.customer) \/ ~Unique(lines, LAMBDA l : l.line_id)
           \/ \E line \in ToSet(lines) : \/ line.amount < 0
                                         \/ line.customer \notin {t.customer : t \in ToSet(terms)}
           \/ ~ RatesOf(lines) \subseteq ALLOWED_INVOICE_TAX_RATES
           \/ \E g \in groups : g[2] = ValueError
        THEN ValueError
        ELSE {ClosedInvoice(Lines(g), TermsOf(terms, g[1]), g[2], holidays) : g \in groups}
=============================================================================
