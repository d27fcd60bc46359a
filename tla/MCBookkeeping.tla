--------------------------- MODULE MCBookkeeping ---------------------------
(* Five accounts of the standard chart, one of them an asset on the credit      *)
(* side, and journals of two months: large, repeated, of five lines (one of      *)
(* them against its account's side), refused.                                  *)
EXTENDS Bookkeeping, TLC

Symmetry == Permutations(Auditors)

Acc(code, type, side) ==
    [code |-> code, type |-> type, debit_credit |-> side, is_active |-> TRUE, is_deleted |-> FALSE]

MCChart ==
    [cash |-> Acc(10, "asset", "debit"), accumulated |-> Acc(17, "asset", "credit"),
     loan |-> Acc(22, "liability", "credit"), sales |-> Acc(40, "revenue", "credit"),
     expense |-> Acc(52, "expense", "debit")]

Ln(account, side, amount) ==
    [account |-> account, debit_credit |-> side, amount |-> amount, tax_amount |-> 0, description |-> None]

Payload(day, summary, lines) ==
    [transaction_date |-> day, created_by |-> "clerk", summary |-> summary, lines |-> lines]

\* The same loan of two lenders: of the bank a line says so, of the broker the summary.
Loan == <<Ln("cash", "debit", 10000000), Ln("loan", "credit", 10000000)>>

MCPayloads ==
    {Payload(14, None, [Loan EXCEPT ![2].description = "bank"]),
     Payload(14, "broker", Loan),
     Payload(45, None, <<Ln("cash", "debit", 1100), Ln("loan", "debit", 400), Ln("expense", "debit", 300),
                         Ln("sales", "credit", 1500), Ln("accumulated", "credit", 300)>>),
     Payload(14, None, <<Ln("cash", "debit", 5), Ln("sales", "credit", 4)>>),
     Payload(14, None, <<Ln("cash", "debit", 5), Ln(None, "credit", 5)>>),
     Payload(14, None, <<Ln("cash", "debit", 0), Ln("sales", "credit", 0)>>)}
=============================================================================
