---------------------------- MODULE MCBackOffice ----------------------------
(* The back office, one world at a time: those of MCDocuments, one whose        *)
(* receipts are reconciled with an uploaded bank statement, and one without     *)
(* documents for each register.                                                *)
EXTENDS MCDocuments, BankReconciliation, Registers

Issued == [kind |-> "invoice", status |-> "issued", subtotal |-> 10, tax_amount |-> 0]

\* Two invoices of one amount, issued and not paid yet.
BankWorld ==
    [rows |-> [i \in {"first", "second"} |-> Issued],
     journals |-> <<invoice_issue_journal(Issued, Accounts)[1] @@ [about |-> {"first"}],
                    invoice_issue_journal(Issued, Accounts)[1] @@ [about |-> {"second"}]>>,
     notices |-> <<[about |-> {"first"}, action |-> "issued"],
                   [about |-> {"second"}, action |-> "issued"]>>,
     requests |-> {Transition("invoice", row, "paid", NoKey) : row \in {"first", "second"}}]

Deposit(amount, date, names) ==
    [amount |-> amount, direction |-> "in", date |-> date, names |-> names]

\* The first deposit is short by a transfer fee, the second is in full and a day later;
\* only the second names its payer.
BankFile ==
    <<Deposit(9, 0, {}), Deposit(10, 1, {"invoice_payment"})>>

RegisterWorld == New(<<>>, {})

MCAllWorlds == MCWorlds \cup {BankWorld, RegisterWorld}

MCStatements ==
    [w \in MCAllWorlds |-> IF w = BankWorld THEN [files |-> {BankFile}, fees |-> {0, 1}]
                           ELSE [files |-> {}, fees |-> {}]]

-----------------------------------------------------------------------------

BackOfficeInit ==
    /\ BankInit
    /\ RegisterInit
    /\ (register = NoRegister) = (requests # {})
    /\ register # NoRegister => chart = Accounts

BackOfficeNext ==
    \/ BankNext /\ UNCHANGED registervars
    \/ RegisterNext /\ UNCHANGED <<vars, bankvars>>

BackOfficeSpec == BackOfficeInit /\ [][BackOfficeNext]_<<vars, bankvars, registervars>>
=============================================================================
