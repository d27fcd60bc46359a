----------------------------- MODULE MCDocuments -----------------------------
(* Finite instances of Documents.  A behaviour has the documents of one       *)
(* world and the requests that concern them.                                  *)
EXTENDS Documents

CONSTANTS k1

MCEmployees == <<[gross |-> 3, deductions |-> 1], [gross |-> 2, deductions |-> 0]>>

\* 10 units over 3 months: 3, 3, 3 and the unit that rounding left.
MCAssets == [machine |-> [base |-> 10, life |-> 3]]

\* Complete; no account for deductions; no account for cash; none at all.
MCCharts == {Accounts, Accounts \ {Withheld}, Accounts \ {Cash}, {}}

Transition(kind, row, action, key) ==
    [op |-> "transition", kind |-> kind, row |-> row, action |-> action, key |-> key]
Batch(kind, action, key) ==
    [op |-> "batch", kind |-> kind, action |-> action, key |-> key]
Calculate(kind, key) ==
    [op |-> "calculate", kind |-> kind, key |-> key]
Depreciate(row, key) ==
    [op |-> "depreciate", kind |-> "asset", row |-> row, key |-> key]
Dispose(row) ==
    [op |-> "dispose", kind |-> "asset", row |-> row, key |-> NoKey]

New(documents, asked) ==
    [rows |-> documents, journals |-> <<>>, notices |-> <<>>, requests |-> asked]

InvoiceWorld ==
    New([invoice |-> [kind |-> "invoice", status |-> "draft", subtotal |-> 10, tax_amount |-> 1]],
        {Transition("invoice", "invoice", a, NoKey) : a \in {"issued", "paid", "cancelled"}})

ExpenseWorld ==
    New([report |-> [kind |-> "expense", status |-> "submitted", total_amount |-> 5]],
        {Transition("expense", "report", a, NoKey) : a \in {"approved", "rejected", "paid"}})

PaymentWorld ==
    New([request |-> [kind |-> "payment", status |-> "draft"]],
        {Transition("payment", "request", a, NoKey)
                     : a \in {"approved", "executed", "cancelled"}})

TaxReturnWorld ==
    New(<<>>,
        {Calculate("tax_return", NoKey)}
         \cup {Transition("tax_return", 1, "filed", NoKey), Transition("tax_return", 2, "filed", NoKey)})

PayrollWorld ==
    New(<<>>,
        {Calculate("payroll", k1), Batch("payroll", "approved", NoKey),
                   Batch("payroll", "paid", NoKey), Transition("payroll", 2, "approved", NoKey),
                   Transition("payroll", 2, "paid", NoKey), Transition("payroll", 1, "rejected", k1)})

BonusWorld ==
    New(<<>>,
        {Calculate("bonus", NoKey), Batch("bonus", "approved", NoKey),
                   Batch("bonus", "paid", NoKey)})

YearEndWorld ==
    New(<<>>,
        {Calculate("year_end", NoKey), Batch("year_end", "approved", NoKey)})

AssetWorld ==
    New([machine |-> [kind |-> "asset", accumulated |-> 0, is_disposed |-> FALSE]],
        {Depreciate("machine", k1), Depreciate("machine", NoKey), Dispose("machine")})

MCWorlds ==
    {InvoiceWorld, ExpenseWorld, PaymentWorld, TaxReturnWorld,
     PayrollWorld, BonusWorld, YearEndWorld, AssetWorld}

OnlyPayroll == {PayrollWorld}
=============================================================================
