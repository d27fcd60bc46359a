--------------------------- MODULE ConsumptionTax ---------------------------
(* Consumption tax: the tax in or on an amount, the methods by which the tax  *)
(* on purchases is deducted, interim payments, and what an invoice must show. *)
(* Rates are in percent, dates are numbers yyyymmdd.                          *)
EXTENDS Yen, FiniteSets

\* TaxCalculator: the tax is cut to whole yen, out of the amount or on top of it.
calculate_tax(amount, rate, is_inclusive) ==
    LET tax == IF is_inclusive THEN Share(amount, rate, 100 + rate) ELSE Share(amount, rate, 100)
    IN  [excluded |-> IF is_inclusive THEN amount - tax ELSE amount, tax |-> tax]

ALLOWED_INVOICE_TAX_RATES == {10, 8, 0}
ALLOWED_RATES == {10, 8}

OfRate(lines, rate) == SelectSeq(lines, LAMBDA l : l.tax_rate = rate)
RatesOf(lines) == {lines[i].tax_rate : i \in DOMAIN lines}
AmountOf(lines) == FoldLeft(LAMBDA sum, l : sum + l.amount, 0, lines)

\* One rounding per rate and invoice, not one per line.
TaxByRate(lines, is_inclusive) ==
    SumOver(RatesOf(lines),
            LAMBDA rate : calculate_tax(AmountOf(OfRate(lines, rate)), rate, is_inclusive).tax)

compute_invoice_tax(lines) ==
    IF lines = <<>> \/ ~ RatesOf(lines) \subseteq ALLOWED_INVOICE_TAX_RATES THEN ValueError
    ELSE [total_taxable |-> AmountOf(lines), total_tax |-> TaxByRate(lines, FALSE),
          total_amount |-> AmountOf(lines) + TaxByRate(lines, FALSE)]

compute_sales_return(returns) ==
    IF returns = <<>> \/ ~ RatesOf(returns) \subseteq ALLOWED_RATES THEN ValueError
    ELSE [total_return |-> AmountOf(returns), total_deductible_tax |-> TaxByRate(returns, TRUE)]

compute_bad_debt_tax(bad_debt_amount, rate) ==
    IF rate \notin ALLOWED_RATES THEN ValueError
    ELSE calculate_tax(bad_debt_amount, rate, TRUE)

-----------------------------------------------------------------------------
(* What is paid of the tax on sales.                                       *)

\* The local tax is 22/78 of the national one.
local_tax(national_tax) == Share(national_tax, 22, 78)

\* The 20 percent exception for new invoice issuers.
special_20_percent(sales_tax) ==
    LET payable == calculate_tax(sales_tax, 20, FALSE).tax
    IN  [payable_tax |-> payable, special_deduction |-> sales_tax - payable]

\* Deemed purchases by business category 1 to 6.
SIMPLIFIED_CONSUMPTION_TAX_RATES == <<90, 80, 70, 60, 50, 40>>

compute_simplified(sales_tax, business_category) ==
    IF business_category \notin DOMAIN SIMPLIFIED_CONSUMPTION_TAX_RATES THEN ValueError
    ELSE LET deductible == Share(sales_tax, SIMPLIFIED_CONSUMPTION_TAX_RATES[business_category], 100)
         IN  [deductible_tax |-> deductible, net_tax |-> sales_tax - deductible]

\* Interim payments by last year's national tax.
installment_count(prior) ==
    CASE prior <= 480000 -> 0
      [] prior > 480000 /\ prior <= 4000000 -> 1
      [] prior > 4000000 /\ prior <= 48000000 -> 3
      [] OTHER -> 11

compute_interim(prior) ==
    LET n == installment_count(prior)
        months == [c \in {0, 1, 3, 11} |-> CASE c = 0 -> 0 [] c = 1 -> 6 [] c = 3 -> 3 [] c = 11 -> 1]
        per == FloorTo(Share(prior, months[n], 12), 100)
    IN  [installment_count |-> n, per_installment |-> per, total_interim |-> per * n]

TAXABLE_ENTERPRISE_THRESHOLD == 10000000

judge_taxable_enterprise(base_sales, specific_sales, specific_salaries) ==
    CASE base_sales > TAXABLE_ENTERPRISE_THRESHOLD -> "base_period"
      [] /\ base_sales <= TAXABLE_ENTERPRISE_THRESHOLD
         /\ specific_sales > TAXABLE_ENTERPRISE_THRESHOLD
         /\ specific_salaries > TAXABLE_ENTERPRISE_THRESHOLD -> "specific_period"
      [] OTHER -> "exempt"

\* Purchases from those who issue no qualified invoice.
deduction_rate(date) ==
    CASE date < 20231001 -> 100
      [] date >= 20231001 /\ date <= 20260930 -> 80
      [] date > 20260930 /\ date <= 20290930 -> 50
      [] OTHER -> 0

compute_transitional(purchase_tax, date) ==
    LET deductible == calculate_tax(purchase_tax, deduction_rate(date), FALSE).tax
    IN  [deductible_tax |-> deductible, non_deductible_tax |-> purchase_tax - deductible]

-----------------------------------------------------------------------------
(* The return of a year, from the lines of its journals: [tax_type, tax_rate,  *)
(* amount], without a type where the line has no tax rule.                      *)

TaxTypes == {"taxable", "export", "non_taxable", "exempt"}

\* A type nobody knows is not taken for a taxable one.
classify(rows) ==
    LET OfType(types) == SelectSeq(rows, LAMBDA r : r.tax_type \in types)
        rest == SelectSeq(rows, LAMBDA r : r.tax_type \notin TaxTypes)
        rated == [i \in DOMAIN OfType({"taxable"}) |->
                     [OfType({"taxable"})[i] EXCEPT !.tax_rate = IF @ = None THEN 0 ELSE @]]
    IN  [amount |-> [type \in TaxTypes |-> AmountOf(OfType({type}))],
         unclassified |-> AmountOf(rest), unclassified_count |-> Len(rest),
         taxable_by_rate |-> [rate \in RatesOf(rated) |-> AmountOf(OfRate(rated, rate))]]

\* Rounded once, half up, after the rates are summed.
output_tax(classified) ==
    LET by_rate == classified.taxable_by_rate
    IN  ShareHalfUp(SumOver(DOMAIN by_rate, LAMBDA rate : by_rate[rate] * rate), 1, 100)

TotalOf(classified) ==
    SumOver(TaxTypes, LAMBDA type : classified.amount[type]) + classified.unclassified

tax_return(sale_rows, purchase_rows, filing_type, business_category, tax_adjustment) ==
    LET sales == classify(sale_rows)
        purchases == classify(purchase_rows)
        simplified == filing_type = "simplified"
        tax == output_tax(sales)
        input == IF simplified THEN compute_simplified(tax, business_category).deductible_tax
                 ELSE output_tax(purchases)
        Bought(types) == IF simplified THEN 0 ELSE SumOver(types, LAMBDA type : purchases.amount[type])
    IN  [taxable_sales |-> sales.amount.taxable,
         non_taxable_sales |-> sales.amount.non_taxable + sales.amount.exempt,
         export_taxable_sales |-> sales.amount.export,
         total_sales |-> TotalOf(sales),
         purchases_subject_to_tax |-> Bought({"taxable"}),
         purchases_not_subject_to_tax |-> Bought(TaxTypes \ {"taxable"}),
         total_purchases |-> TotalOf(purchases),
         output_tax |-> tax, input_tax |-> input, tax_payable |-> tax - input + tax_adjustment,
         notice |-> [count |-> sales.unclassified_count + purchases.unclassified_count,
                     amount |-> sales.unclassified + purchases.unclassified]]

-----------------------------------------------------------------------------
(* The credit for purchases: the share of taxable sales is a Decimal of 28     *)
(* digits, and so is its product with the tax.                                 *)

\* 10^k % m
PowerOfTen(k, m) == LET power[i \in 0..k] == IF i = 0 THEN 1 % m ELSE (10 * power[i - 1]) % m
                    IN  power[k]

\* How many zeros follow the point of n / d before the first digit, for 0 < n < d.
Zeros(n, d) == CHOOSE z \in 0..10 : /\ n * 10 ^ z < d
                                    /\ n * 10 ^ (z + 1) >= d

\* The ratio has 28 digits from its first that is not zero on: what is left of it is
\* r / d of its last digit.  A product that is a whole number falls short of it, and
\* the yen is cut off, when that remainder was dropped and not rounded up, unless the
\* product's own 28 digits round it up again.
Loses(a, n, d) ==
    LET z == Zeros(n, d)
        r == (n * PowerOfTen(28 + z, d)) % d
        whole == Share(a, n, d) - 1
        digits == CHOOSE k \in 1..10 : whole < 10 ^ k /\ (k = 1 \/ whole >= 10 ^ (k - 1))
    IN  /\ n < d /\ a > 0 /\ n > 0
        /\ ((a % d) * n) % d = 0
        /\ 0 < r /\ 2 * r < d
        /\ 2 * a * r > d * 10 ^ (z + IF whole = 0 THEN 0 ELSE digits)

RatioShare(a, n, d) == Share(a, n, d) - IF Loses(a, n, d) THEN 1 ELSE 0

FULL_DEDUCTION_SALES_LIMIT == 500000000

\* All of it from 95 percent taxable sales on, in a company that is not large.
compute_purchase_credit(taxable, non_taxable, only, common, nontaxable_only) ==
    LET d == taxable + non_taxable
        total == only + common + nontaxable_only
        full == 20 * non_taxable <= d /\ taxable <= FULL_DEDUCTION_SALES_LIMIT
    IN  IF d = 0 THEN ValueError
        ELSE [full_deduction |-> full, input_tax_total |-> total,
              individual_method_credit |->
                  IF full THEN total ELSE only + RatioShare(common, taxable, d),
              proportional_method_credit |->
                  IF full THEN total ELSE RatioShare(total, taxable, d)]
=============================================================================
