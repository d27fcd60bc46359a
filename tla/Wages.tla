-------------------------------- MODULE Wages --------------------------------
(* Wages and their taxes: income tax on people (deductions and brackets, what  *)
(* is withheld from wages, bonuses, fees and severance pay, the year-end        *)
(* adjustment, the months of residence tax); overtime and its limits, minimum   *)
(* wages, commuting, paid leave; and what is left of a month's pay and of a     *)
(* bonus after every deduction.  Tax rates are in percent unless noted.         *)
EXTENDS SocialInsurance

SALARY_DEDUCTION_FIXED_FLOOR == 550000
SALARY_DEDUCTION_CAP == 1950000

\* SalaryIncomeDeductionService: never less than the floor, whatever was earned.
salary_deduction(gross) ==
    CASE gross <= 1625000 -> SALARY_DEDUCTION_FIXED_FLOOR
      [] gross > 1625000 /\ gross <= 1800000 -> Share(gross, 40, 100) - 100000
      [] gross > 1800000 /\ gross <= 3600000 -> Share(gross, 30, 100) + 80000
      [] gross > 3600000 /\ gross <= 6600000 -> Share(gross, 20, 100) + 440000
      [] gross > 6600000 /\ gross <= 8500000 -> Share(gross, 10, 100) + 1100000
      [] OTHER -> SALARY_DEDUCTION_CAP

\* The income may be negative here: what is left of a low wage after the floor.
basic_deduction(total_income) ==
    CASE total_income < 0 -> ValueError
      [] total_income \in 0..24000000 -> 480000
      [] total_income \in 24000001..24500000 -> 320000
      [] total_income \in 24500001..25000000 -> 160000
      [] total_income > 25000000 -> 0

dependent_deduction(dependents) == 380000 * dependents

INCOME_TAX_BRACKETS ==
    <<[upper |-> 1950000, rate |-> 5, deduction |-> 0],
      [upper |-> 3300000, rate |-> 10, deduction |-> 97500],
      [upper |-> 6950000, rate |-> 20, deduction |-> 427500],
      [upper |-> 9000000, rate |-> 23, deduction |-> 636000],
      [upper |-> 18000000, rate |-> 33, deduction |-> 1536000],
      [upper |-> 40000000, rate |-> 40, deduction |-> 2796000]>>

\* IncomeTaxService: the first bracket that holds the income cut to thousands.
income_tax(taxable_income) ==
    LET income == FloorTo(taxable_income, 1000)
        bracket == SelectSeq(INCOME_TAX_BRACKETS, LAMBDA b : income <= b.upper)
    IN  IF bracket = <<>> THEN Share(income, 45, 100) - 4796000
        ELSE Over(Share(income, bracket[1].rate, 100), bracket[1].deduction)

\* With the 2.1 percent for reconstruction.
Reconstructed(tax) == Share(tax, 1021, 1000)

-----------------------------------------------------------------------------
(* Withheld month by month: the tax of twelve such months, less every           *)
(* deduction, divided by twelve.                                                *)

\* Before the reconstruction tax; ValueError when the wage is below the floor.
annual_tax(annual_gross, annual_social_insurance, dependents) ==
    LET income == annual_gross - salary_deduction(annual_gross)
    IN  IF basic_deduction(income) = ValueError THEN ValueError
        ELSE income_tax(Over(income, annual_social_insurance + basic_deduction(income)
                                       + dependent_deduction(dependents)))

\* MUTANT: the social insurance of one month is deducted, not that of the year.
estimate_monthly_withholding_OneMonth(gross, social_insurance, dependents) ==
    IF gross = 0 THEN 0
    ELSE LET tax == annual_tax(12 * gross, social_insurance, dependents)
         IN  IF tax = ValueError THEN ValueError ELSE Share(tax, 1021, 12000)

estimate_monthly_withholding(gross, social_insurance, dependents) ==
    IF gross = 0 THEN 0
    ELSE LET tax == annual_tax(12 * gross, 12 * social_insurance, dependents)
         IN  IF tax = ValueError THEN ValueError ELSE Share(tax, 1021, 12000)

\* A bonus: the tax of the year with it less the tax of the year without it.
estimate_bonus_withholding(gross, social_insurance, bonus, bonus_social_insurance, dependents) ==
    IF bonus = 0 THEN 0
    ELSE LET without == annual_tax(12 * gross, 12 * social_insurance, dependents)
             with == annual_tax(12 * gross + bonus, 12 * social_insurance + bonus_social_insurance,
                                dependents)
         IN  IF without = ValueError \/ with = ValueError THEN ValueError
             ELSE Reconstructed(Over(with, without))

\* The rate table of bonuses is the caller's; rate in 1/10000.
compute_bonus_withholding(bonus, rate, prior_month_salary) ==
    IF rate > 10000 THEN ValueError
    ELSE IF bonus > 10 * prior_month_salary
         THEN [requires_monthly_table |-> TRUE]
         ELSE [requires_monthly_table |-> FALSE, withholding_tax |-> Share(bonus, rate, 10000)]

\* YearEndAdjustmentService: what the year's tax is, and what was withheld too much or too little.
compute_year_end(annual_gross, total_income_deductions, withheld, housing_loan_credit) ==
    LET income == Over(annual_gross, salary_deduction(annual_gross) + total_income_deductions)
        year_tax == FloorTo(Reconstructed(Over(income_tax(income), housing_loan_credit)), 100)
    IN  [taxable_income |-> income, year_tax |-> year_tax,
         refund |-> Over(withheld, year_tax), additional_collection |-> Over(year_tax, withheld)]

-----------------------------------------------------------------------------
(* Other payments.                                                         *)

compute_professional_fee(amount) ==
    IF amount <= 1000000 THEN Share(amount, 1021, 10000)
    ELSE 102100 + Share(amount - 1000000, 2042, 10000)

years_of_service(months) == AtLeast((months + 11) \div 12, 1)

severance_deduction(years) ==
    IF years <= 20 THEN AtLeast(400000 * years, 800000)
    ELSE 8000000 + 700000 * (years - 20)

\* Half of what exceeds the deduction is taxed, all of it for an officer of five years or
\* less, all above 3,000,000 for anyone else of five years or less.
compute_retirement(pay, months, officer, short_term, statement_submitted) ==
    LET years == years_of_service(months)
        base == Over(pay, severance_deduction(years))
        taxable ==
            CASE officer -> base
              [] ~officer /\ short_term /\ base > 3000000 -> 1500000 + (base - 3000000)
              [] OTHER -> base \div 2
    IN  IF (officer /\ short_term) \/ ((officer \/ short_term) /\ years > 5) THEN ValueError
        ELSE IF ~statement_submitted THEN Share(pay, 2042, 10000)
        ELSE Reconstructed(income_tax(taxable))

\* Residence tax: eleven equal months cut to hundreds, and a first month with the rest.
compute_residence_tax(annual) ==
    LET ordinary == FloorTo(annual \div 12, 100)
    IN  <<annual - 11 * ordinary>> \o [m \in 1..11 |-> ordinary]

\* Whether a relative counts as a dependent of the health insurance; "other" is the insured's
\* income when they live together, and else what is sent.
dependent_eligible(income, senior_or_disabled, cohabiting, other) ==
    CASE income >= (IF senior_or_disabled THEN 1800000 ELSE 1300000) -> "annual_income_over_limit"
      [] income < (IF senior_or_disabled THEN 1800000 ELSE 1300000)
         /\ (IF cohabiting THEN 2 * income >= other ELSE income >= other) ->
             IF cohabiting THEN "cohabiting_half_income_failed" ELSE "remittance_requirement_failed"
      [] OTHER -> "eligible"

-----------------------------------------------------------------------------
(* Working time and what comes with it.                                        *)

\* calculate_payroll: up to sixty hours a month at 125 percent, the rest at 150, each cut to yen.
overtime_pay(hourly_wage, hours) ==
    Share(hourly_wage * AtMost(hours, 60), 125, 100) + Share(hourly_wage * Over(hours, 60), 150, 100)

\* The premium of late nights and holidays comes on top.
total_premium(hourly_wage, within_60, over_60, late_night, holiday) ==
    Share(hourly_wage * within_60, 125, 100) + Share(hourly_wage * over_60, 150, 100)
        + Share(hourly_wage * late_night, 25, 100) + Share(hourly_wage * holiday, 135, 100)

\* Months are [overtime, holiday], in hours.
overtime_violations(months) ==
    LET total(a, b) == SumOver(a..b, LAMBDA i : months[i].overtime + months[i].holiday)
        n == Len(months)
    IN  (IF SumOver(1..n, LAMBDA i : months[i].overtime) > 720
         THEN {"annual_overtime_over_720"} ELSE {})
        \cup (IF SumOver(1..n, LAMBDA i : IF months[i].overtime > 45 THEN 1 ELSE 0) > 6
              THEN {"over_45_more_than_6_months"} ELSE {})
        \cup (IF \E i \in 1..n : total(i, i) >= 100
              THEN {"single_month_combined_100_or_more"} ELSE {})
        \cup (IF \E i \in 1..n, w \in 2..6 : i + w - 1 <= n /\ total(i, i + w - 1) > 80 * w
              THEN {"multi_month_average_over_80"} ELSE {})

\* In hundredths of a yen: an hourly wage out of a monthly one is rounded there.
minimum_wage_shortfall(minimum, monthly_wage, hours) ==
    Over(100 * minimum, ShareHalfUp(monthly_wage, 100, hours))

FULL_TIME_GRANT == <<10, 11, 12, 14, 16, 18, 20>>
PROPORTIONAL_GRANT ==
    <<<<1, 2, 2, 2, 3, 3, 3>>, <<3, 4, 4, 5, 6, 6, 7>>,
      <<5, 6, 6, 8, 9, 10, 11>>, <<7, 8, 9, 10, 12, 13, 15>>>>

\* Days of paid leave by service and by the days or hours of the week; attendance in percent.
grant_days(months_of_service, weekly_days, weekly_hours, attendance) ==
    LET index == AtMost((months_of_service - 6) \div 12, 6) + 1
    IN  CASE months_of_service < 6 \/ attendance < 80 -> 0
          [] months_of_service >= 6 /\ attendance >= 80 /\ (weekly_hours >= 30 \/ weekly_days >= 5) ->
                 FULL_TIME_GRANT[index]
          [] months_of_service >= 6 /\ attendance >= 80 /\ weekly_hours < 30 /\ weekly_days \in 1..4 ->
                 PROPORTIONAL_GRANT[weekly_days][index]
          [] OTHER -> 0

CAR_DISTANCE_LIMITS ==
    <<<<55, 31600>>, <<45, 28000>>, <<35, 24400>>, <<25, 18700>>,
      <<15, 12900>>, <<10, 7100>>, <<2, 4200>>, <<0, 0>>>>

commute_limit(mode, km) ==
    IF mode = "transit" THEN 150000
    ELSE SelectSeq(CAR_DISTANCE_LIMITS, LAMBDA row : km >= row[1])[1][2]

commute_allowance(mode, allowance, km) ==
    LET non_taxable == AtMost(allowance, commute_limit(mode, km))
    IN  [non_taxable |-> non_taxable, taxable |-> allowance - non_taxable]

-----------------------------------------------------------------------------
(* What is left.                                                           *)

\* pay is [base_salary, overtime_pay, allowances, commute, income_tax, residence_tax, other].
monthly_payslip(pay, standard, business_type, care_applicable, exempt) ==
    LET earned == pay.base_salary + pay.overtime_pay + pay.allowances + pay.commute
        social == employee_premium(standard, standard, DEFAULT_HEALTH_INSURANCE_RATE,
                                   DEFAULT_CARE_INSURANCE_RATE, care_applicable)
        employment == labor_premium(earned, business_type, 0, exempt, 30).employee
        deducted == social + employment + pay.income_tax + pay.residence_tax + pay.other
    IN  [total_earnings |-> earned, total_deductions |-> deducted, net_pay |-> earned - deducted]

\* A bonus, with the rate of the caller's table in 1/10000; no net pay without a rate that
\* applies.
bonus_net_pay(gross, business_type, care_applicable, rate, prior_month_salary, ytd) ==
    LET standard == standard_bonus_amounts(gross, ytd)
        deducted == employee_premium(standard.health, standard.pension, DEFAULT_HEALTH_INSURANCE_RATE,
                                     DEFAULT_CARE_INSURANCE_RATE, care_applicable)
                        + bonus_employment_premium(gross, business_type).employee
        tax == compute_bonus_withholding(gross - deducted, rate, prior_month_salary)
    IN  [total_deductions |-> deducted,
         net_pay |-> IF tax.requires_monthly_table THEN None
                     ELSE gross - deducted - tax.withholding_tax]

-----------------------------------------------------------------------------
(* The notifications of changes in the wage.                               *)

\* A changed fixed wage moves the grade when the three months after it have enough days and
\* the grade of their average is two or more away.
revision_reason(previous_standard, months, fixed_wage_changed) ==
    LET days_ok == \A i \in DOMAIN months : months[i].payment_basis_days >= 17
        new == lookup_health_grade(determine_remuneration(months, 17))
        old == lookup_health_grade(previous_standard)
    IN  CASE ~fixed_wage_changed -> "fixed_wage_not_changed"
          [] fixed_wage_changed /\ ~days_ok -> "insufficient_days"
          [] fixed_wage_changed /\ days_ok /\ (new - old >= 2 \/ old - new >= 2) -> "eligible"
          [] OTHER -> "grade_diff_below_2"
=============================================================================
