--------------------------- MODULE CorporateTaxes ---------------------------
(* Taxes on the company: corporate tax with its brackets, the local taxes,    *)
(* interim payments, what of entertainment is deducted, the forecast, and the  *)
(* adjustments from accounting income to taxable income.                       *)
EXTENDS Yen

\* A yearly bracket in a business year of so many months.
Bracket(annual, months) == Share(annual, months, 12)

REDUCED_BRACKET_ANNUAL == 8000000

\* Up to the bracket a small business pays a reduced rate; rates in 1/1000.
compute_corporate_tax(taxable_income, months, small_business, excluded_business) ==
    LET income == FloorTo(taxable_income, 1000)
        reduced == IF small_business THEN AtMost(income, Bracket(REDUCED_BRACKET_ANNUAL, months)) ELSE 0
        reduced_rate == IF excluded_business THEN 190 ELSE 150
    IN  IF months \notin 1..12 THEN ValueError
        ELSE [reduced_tax |-> Share(reduced, reduced_rate, 1000),
              standard_tax |-> Share(income - reduced, 232, 1000),
              total_tax |-> FloorTo(ShareSum(<<<<reduced, reduced_rate>>, <<income - reduced, 232>>>>, 1000), 100)]

\* 10.3 percent of the corporate tax in thousands.
compute_local_corporate_tax(corporate_tax_amount) ==
    FloorTo(Share(FloorTo(corporate_tax_amount, 1000), 103, 1000), 100)

\* 3.5, 5.3 and 7 percent of the income up to 4 and 8 million a year and above.
compute_business_tax(taxable_income, months) ==
    LET income == FloorTo(taxable_income, 1000)
        low == Bracket(4000000, months)
        middle == Bracket(8000000, months)
        bases == <<AtMost(income, low), AtMost(Over(income, low), middle - low), Over(income, middle)>>
    IN  IF months \notin 1..12 THEN ValueError
        ELSE [bases |-> bases,
              tax_amount |-> FloorTo(ShareSum(<<<<bases[1], 35>>, <<bases[2], 53>>, <<bases[3], 70>>>>, 1000), 100)]

\* Six months of last year's tax; to be filed when it exceeds 100,000.
compute_interim_corporate_tax(prior, prior_period_months) ==
    LET interim == FloorTo(Share(prior, 6, prior_period_months), 100)
    IN  IF prior_period_months \notin 1..12 THEN ValueError
        ELSE [interim_tax |-> interim, filing_required |-> interim > 100000]

\* Capital in thousands.  A small corporation has the better of 8 million and half of what
\* was spent on dining, one of more than ten billion has nothing.
entertainment_limit(dining, capital) ==
    CASE capital > 10000000 -> 0
      [] capital <= 100000 -> AtLeast(dining \div 2, 8000000)
      [] capital > 100000 /\ capital <= 10000000 -> dining \div 2

compute_entertainment(total, dining, capital) ==
    LET limit == entertainment_limit(dining, capital)
    IN  IF dining > total THEN ValueError
        ELSE [deductible_amount |-> AtMost(total, limit), non_deductible_amount |-> Over(total, limit)]

\* Profit times the factor, in halves, at 30.42 percent; the warnings are those of
\* a loss and of a factor above 1.5.
forecast(total_revenue, total_expense, halves) ==
    LET profit == total_revenue - total_expense
    IN  [estimated_tax_amount |-> Share(AtLeast(profit, 0), 1521 * halves, 10000),
         warnings |-> (IF profit < 0 /\ halves > 0 THEN {"loss"} ELSE {})
                      \cup (IF halves > 3 THEN {"factor"} ELSE {})]

-----------------------------------------------------------------------------
(* Tax adjustments: rules add to the accounting income or subtract from it.     *)

\* A rule is [adjustment_type, calculation_method, value]; rates in 1/10000.
compute_adjustment_amount(rule, base) ==
    CASE rule.calculation_method = "fixed" -> AtLeast(rule.value, 0)
      [] rule.calculation_method = "rate" -> Share(base, rule.value, 10000)
      [] rule.calculation_method = "excess_over_limit" -> Over(base, rule.value)
      [] OTHER -> ValueError

Adjusted(rules, bases, type) ==
    SumOver({i \in DOMAIN rules : rules[i].adjustment_type = type},
            LAMBDA i : compute_adjustment_amount(rules[i], bases[i]))

compute_taxable_income(accounting_income, rules, bases) ==
    accounting_income + Adjusted(rules, bases, "addition") - Adjusted(rules, bases, "subtraction")
=============================================================================
