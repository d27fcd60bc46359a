----------------------------- MODULE Calculators -----------------------------
(* The services that compute an answer from what they are given and keep       *)
(* nothing, and those that keep a year of pay.  A caller follows orders to      *)
(* their money (OrdersToCash) or a company through its year of pay (PayYear),   *)
(* or picks a topic and asks again and again with a larger amount: a wage, a    *)
(* bonus, a profit, a day.  Each topic says three things of the answers: what   *)
(* grows with the amount, which parts make up which whole, and what stays       *)
(* within what.                                                                *)
EXTENDS OrdersToCash, Imports, PayYear

Corporate == INSTANCE CorporateTaxes
Reports == INSTANCE Ledgers
Jobs == INSTANCE JobCalendar

CONSTANTS
    Ladders         \* for each topic the amounts that are asked for, each larger than the one before

VARIABLE asked      \* what was asked last, as [topic, step], or None

ASSUME LaddersAssumption ==
    \A topic \in DOMAIN Ladders :
        LET ladder == Ladders[topic]
        IN  /\ ladder \in Seq(Nat) /\ ladder # <<>>
            /\ \A i \in 2..Len(ladder) : ladder[i - 1] < ladder[i]

\* The moments asked for are before the last month of the calendar; a day of the week or of
\* the month is not None.
ASSUME MomentsAssumption ==
    /\ None \notin 0..31
    /\ Years \in Nat \ {0}
    /\ "schedule" \in DOMAIN Ladders =>
          \A i \in DOMAIN Ladders["schedule"] : Ladders["schedule"][i] < 24 * FirstDay[12 * Years - 1]

-----------------------------------------------------------------------------
(* Taxes on people.                                                        *)

\* A wage a month, with insurance and up to three relatives.
WageLaws(a) ==
    LET insurance == Share(a, 15, 100)
        withheld(d) == estimate_monthly_withholding(a, insurance, d)
        settled(d) == compute_year_end(12 * a, 12 * insurance + 480000 + dependent_deduction(d),
                                       12 * withheld(d), 0)
    IN  [grows |-> <<[d \in 0..3 |-> withheld(d)], [d \in 0..3 |-> settled(d).year_tax],
                     <<salary_deduction(a), a - salary_deduction(a)>>>>,
         sums |-> {<<settled(d).year_tax + settled(d).refund,
                     12 * withheld(d) + settled(d).additional_collection>> : d \in 0..3},
         within |-> {<<withheld(d), a - insurance>> : d \in 0..3}
                    \cup {<<withheld(d + 1), withheld(d)>> : d \in 0..2}
                    \cup {<<settled(d).refund * settled(d).additional_collection, 0>> : d \in 0..3}]

\* A bonus, with and without bonuses before it in the year or in the month.
BonusLaws(a) ==
    LET before == <<0, 1000000, 5000000, 6000000>>
        tax(d) == estimate_bonus_withholding(300000, 45000, a, Share(a, 15, 100), d)
        one(k) == standard_bonus_amounts(a, before[k])
        notified(k) == compute_standard_bonus(a, before[k], before[k])
        pay == bonus_net_pay(a, "general", TRUE, 1021, 300000, 0)
        premium == bonus_employment_premium(a, "construction")
    IN  [grows |-> <<[d \in 0..2 |-> tax(d)],
                     [k \in 1..4 |-> one(k).health], [k \in 1..4 |-> one(k).pension],
                     [k \in 1..4 |-> notified(k).pension], <<premium.employee, premium.employer>>>>,
         sums |-> {<<one(k).health, notified(k).health>> : k \in 1..4},
         within |-> {<<tax(d), a>> : d \in 0..2}
                    \cup {<<one(k).health, Over(HEALTH_STANDARD_BONUS_ANNUAL_CAP, before[k])>> : k \in 1..4}
                    \cup {<<notified(k).pension, one(k).pension>> : k \in 1..4}
                    \cup {<<premium.employee, premium.employer>>}
                    \cup (IF pay.net_pay = None THEN {<<3000000, a>>}
                          ELSE {<<pay.net_pay + pay.total_deductions, a>>, <<0, pay.net_pay>>})]

\* A fee, a year's residence tax, or pay on leaving after so many months.
FeeLaws(a) ==
    [grows |-> <<<<compute_professional_fee(a)>>>>,
     sums |-> {<<SumSeq(compute_residence_tax(a)), a>>},
     within |-> {<<compute_professional_fee(a), a>>,
                 <<compute_residence_tax(a)[2], compute_residence_tax(a)[1]>>,
                 <<compute_residence_tax(a)[1] - compute_residence_tax(a)[2], 1200>>}]

SeveranceLaws(a) ==
    LET served == <<1, 24, 60, 61, 240, 241, 480>>
        tax(k, officer, short) == compute_retirement(a, served[k], officer, short, TRUE)
    IN  [grows |-> <<[k \in 1..7 |-> tax(k, FALSE, FALSE)], [k \in 1..3 |-> tax(k, TRUE, FALSE)],
                     [k \in 1..3 |-> tax(k, FALSE, TRUE)]>>,
         sums |-> {},
         within |-> {<<tax(k, FALSE, FALSE), a>> : k \in 1..7}
                    \cup {<<tax(k + 1, FALSE, FALSE), tax(k, FALSE, FALSE)>> : k \in 1..6}
                    \cup {<<tax(k, FALSE, FALSE), tax(k, FALSE, TRUE)>> : k \in 1..3}
                    \cup {<<tax(k, FALSE, TRUE), tax(k, TRUE, FALSE)>> : k \in 1..3}]

-----------------------------------------------------------------------------
(* Insurance.                                                              *)

\* A wage a month, and what is insured for it.
GradeLaws(a) ==
    LET health == Standard(HEALTH_GRADE_TABLE, lookup_health_grade(a))
        pension == Standard(PENSION_GRADE_TABLE, lookup_pension_grade(a))
        half(rate) == EmployeeHalf(health, rate)
        premium(care) == employee_premium(health, pension, DEFAULT_HEALTH_INSURANCE_RATE,
                                          DEFAULT_CARE_INSURANCE_RATE, care)
        labor(age) == labor_premium(a, "construction", age, FALSE, 30)
        month(remuneration, days) == [remuneration |-> remuneration, payment_basis_days |-> days]
        average == determine_remuneration(<<month(a, 17), month(a + 3000, 31), month(0, 16)>>, 17)
        moved(old) == revision_reason(Standard(HEALTH_GRADE_TABLE, old), [k \in 1..3 |-> month(a, 20)], TRUE)
        worker(hours) == [three_quarters |-> FALSE, insured_count |-> 51, labor_agreement |-> FALSE,
                          weekly_hours |-> hours, monthly_wage |-> a, over_2_months |-> TRUE,
                          student |-> FALSE]
    IN  [grows |-> <<<<lookup_health_grade(a), lookup_pension_grade(a), premium(FALSE), premium(TRUE)>>,
                     <<labor(30).employee, labor(30).employer>>,
                     [hours \in 19..20 |-> IF short_time_covered(worker(hours)) THEN 1 ELSE 0]>>,
         sums |-> (IF a >= 93000 /\ a < 635000 THEN {<<health, pension>>} ELSE {})
                  \cup {<<average, a + 1500>>},
         within |-> {<<half(rate), ShareUp(health, rate, 10000) - half(rate)>>
                        : rate \in {DEFAULT_HEALTH_INSURANCE_RATE, DEFAULT_CARE_INSURANCE_RATE, 983}}
                    \cup {<<labor(65).employee, 0>>, <<labor(65).employer, labor(64).employer>>}
                    \cup {<<IF moved(old) = "eligible" THEN 2 ELSE 0,
                            AtLeast(lookup_health_grade(a) - old, old - lookup_health_grade(a))>>
                             : old \in {1, 5, 25, 49, 50}}]

\* The wages of a year, as a file and as a sum.
LaborLaws(a) ==
    LET update(declared) == compute_annual_update(a, a, "general", declared, 30)
        row(wage, insured) == [employee_id |-> wage, wage |-> wage, employment_insured |-> insured,
                               workers_comp_insured |-> TRUE]
        file(insured) == compute_wages(<<row(a \div 3, insured), row(a - (a \div 3), insured)>>, "general", 30)
        premium == update(0).estimated
        thirds(entrusted) == compute_installments(premium, TRUE, entrusted)
    IN  [grows |-> <<<<update(0).determined, update(0).total_payment, file(TRUE).determined_premium>>>>,
         sums |-> {<<SumSeq(thirds(entrusted)), premium>> : entrusted \in BOOLEAN}
                  \cup {<<update(50000).settlement + 50000, update(0).settlement>>},
         within |-> {<<file(TRUE).determined_premium, update(0).determined>>,
                     <<update(0).determined, file(TRUE).determined_premium + 2>>,
                     <<file(FALSE).determined_premium, file(TRUE).determined_premium>>}
                    \cup {<<thirds(entrusted)[1] - thirds(entrusted)[Len(thirds(entrusted))], 2>>
                             : entrusted \in BOOLEAN}]

\* Wages paid during a month of leave: what is paid and the benefit together.
LeaveLaws(a) ==
    LET usual == 30 * daily_wage(1800000, 15430)
        Benefits == <<childcare_benefit(1800000, 12, 30, 0, a), childcare_benefit(1800000, 12, 30, 180, a),
                      caregiver_benefit(1800000, 12, 30, 10, a)>>
        short == postnatal_benefit(1800000, 12, 28, 5, a)
    IN  [grows |-> <<[k \in 1..3 |-> a + Benefits[k]], <<a + short>>>>,
         sums |-> {<<childcare_benefit(1800000, 11, 30, 0, a), 0>>},
         within |-> {<<a + Benefits[k], AtLeast(a, Share(usual, 80, 100))>> : k \in 1..3}
                    \cup {<<Benefits[2], Benefits[1]>>}
                    \cup {<<caregiver_benefit(1800000, 12, 30, 80, a), Benefits[3]>>}]

\* The wage of those who go on working after sixty, and the one they had before.
HighAgeLaws(a) ==
    LET answers == UNION {high_age_benefits(62, 60, wage, a) : wage \in {80000, 300000, 400000, 600000}}
        after(current) == high_age_benefits(62, 60, a, current)
        wages == {61785, 150000, 225000, 364725}
    IN  [grows |-> <<[current \in wages |-> Min(after(current))],
                     [current \in wages |-> Max(after(current))]>>,
         sums |-> {<<benefit, 0>> : benefit \in high_age_benefits(65, 60, 400000, a)},
         within |-> {<<a + benefit, AtLeast(a, SUPPLY_LIMIT)>> : benefit \in answers}
                    \cup {<<benefit, Share(a, 15, 100)>> : benefit \in answers}
                    \cup {<<0, benefit>> : benefit \in answers}]

\* A standard remuneration, a daily wage or the cost of a treatment.
HealthLaws(a) ==
    LET days == <<2, 3, 4, 30>>
        sick(k, paid) == injury_allowance(a, 12, days[k], FALSE, paid)
        birth(days_after) == maternity_allowance(a, 12, 42, days_after, FALSE, 0)
        accident(paid) == accident_leave(a, 10, TRUE, paid)
        classes == {"A", "B", "C", "D", "E"}
        limit(class, multiple) == self_pay_limit(a, class, multiple)
    IN  [grows |-> <<[k \in 1..4 |-> sick(k, 0)], <<daily_benefit(a, 11), birth(56), accident(0)>>,
                     [class \in classes |-> limit(class, FALSE)],
                     [class \in classes |-> high_cost_benefit(a, Share(a, 30, 100), class, FALSE)]>>,
         sums |-> {<<sick(2, 0), 0>>, <<birth(60), birth(56)>>,
                   <<sick(4, 0), injury_allowance(a, 12, 27, TRUE, 0)>>},
         within |-> {<<sick(4, 2000), sick(4, 0)>>, <<daily_benefit(a, 11), daily_benefit(a, 12)>>,
                     <<accident(0), 8 * a>>, <<accident(3000), accident(0)>>,
                     <<limit("E", FALSE), limit("D", FALSE)>>, <<limit("C", FALSE), limit("B", FALSE)>>,
                     <<limit("B", FALSE), limit("A", FALSE)>>}
                    \cup {<<limit(class, TRUE), limit(class, FALSE)>> : class \in classes}]

-----------------------------------------------------------------------------
(* Taxes on the company.                                                   *)

\* A taxable income.
CorporateLaws(a) ==
    LET whole(small) == Corporate!compute_corporate_tax(a, 12, small, FALSE)
        half == Corporate!compute_corporate_tax(a, 6, TRUE, FALSE)
        business(months) == Corporate!compute_business_tax(a, months)
        rule(type, method, value) == [adjustment_type |-> type, calculation_method |-> method, value |-> value]
        excess == rule("addition", "excess_over_limit", 8000000)
        limited == rule("subtraction", "rate", 10000)
    IN  [grows |-> <<<<whole(TRUE).total_tax, whole(FALSE).total_tax, half.total_tax>>,
                     <<Corporate!compute_local_corporate_tax(a), business(12).tax_amount, business(5).tax_amount>>,
                     [k \in 1..12 |-> Corporate!compute_interim_corporate_tax(a, k).interim_tax],
                     <<Corporate!forecast(a, 5000000, 2).estimated_tax_amount>>,
                     [k \in 1..3 |-> business(12).bases[k]]>>,
         sums |-> {<<SumSeq(business(months).bases), FloorTo(a, 1000)>> : months \in {1, 5, 12}}
                  \cup {\* what exceeds the limit and what does not are all of it
                        <<Corporate!compute_taxable_income(0, <<excess, limited>>, <<a, AtMost(a, 8000000)>>),
                          a - 2 * AtMost(a, 8000000)>>},
         within |-> {<<whole(TRUE).total_tax, half.total_tax>>, <<half.total_tax, whole(FALSE).total_tax>>,
                     <<business(12).tax_amount, business(5).tax_amount>>,
                     <<whole(FALSE).total_tax, FloorTo(whole(FALSE).reduced_tax + whole(FALSE).standard_tax, 100)>>}
                    \cup {<<Corporate!compute_interim_corporate_tax(a, k + 1).interim_tax,
                            Corporate!compute_interim_corporate_tax(a, k).interim_tax>> : k \in 1..11}]

\* What was spent on entertainment, a part of it on dining.
EntertainmentLaws(a) ==
    LET answer(share, capital) == Corporate!compute_entertainment(a, Share(a, share, 100), capital)
    IN  [grows |-> <<[capital \in {100000, 100001, 10000001} |-> answer(50, capital).deductible_amount],
                     [capital \in {100000, 100001, 10000001} |-> answer(50, capital).non_deductible_amount]>>,
         sums |-> {<<answer(share, capital).deductible_amount + answer(share, capital).non_deductible_amount, a>>
                      : share \in {0, 50, 100}, capital \in {100000, 100001, 10000001}},
         within |-> {<<answer(share, 100001).deductible_amount, answer(share, 100000).deductible_amount>>
                        : share \in {0, 50, 100}}]

\* An amount with and without its consumption tax, and that much tax on sales or purchases.
ConsumptionLaws(a) ==
    LET tax(rate) == calculate_tax(a, rate, FALSE).tax
        back(rate) == calculate_tax(a + tax(rate), rate, TRUE)
        line(amount, rate) == [amount |-> amount, tax_rate |-> rate]
        split(rate) == compute_invoice_tax(<<line(a \div 3, rate), line(5, 0), line(a - (a \div 3), rate)>>)
        returned == compute_sales_return(<<line(a, 10), line(a, 8)>>)
        simplified(category) == compute_simplified(a, category)
        purchase(date) == compute_transitional(a, date)
        credit(taxable) == compute_purchase_credit(taxable, 1000 - taxable, a, a, a)
    IN  [grows |-> <<<<tax(10), tax(8), local_tax(a), compute_interim(a).total_interim>>,
                     [k \in 1..6 |-> simplified(k).net_tax],
                     <<special_20_percent(a).payable_tax>>,
                     [k \in {0, 300, 949, 950, 1000} |-> credit(k).individual_method_credit]>>,
         sums |-> {<<back(rate).tax, tax(rate)>> : rate \in {8, 10}}
                  \cup {<<split(rate).total_tax, tax(rate)>> : rate \in {8, 10}}
                  \cup {<<returned.total_deductible_tax,
                          compute_bad_debt_tax(a, 10).tax + compute_bad_debt_tax(a, 8).tax>>}
                  \cup {<<simplified(2).deductible_tax + simplified(2).net_tax, a>>,
                        <<special_20_percent(a).payable_tax + special_20_percent(a).special_deduction, a>>,
                        <<credit(950).individual_method_credit, 3 * a>>}
                  \cup {<<purchase(date).deductible_tax + purchase(date).non_deductible_tax, a>>
                           : date \in {20230930, 20231001, 20261001, 20291001}},
         within |-> {<<simplified(k).net_tax, simplified(k + 1).net_tax>> : k \in 1..5}
                    \cup {<<purchase(20261001).deductible_tax, purchase(20260930).deductible_tax>>,
                          <<purchase(20291001).deductible_tax, 0>>, <<compute_interim(a).total_interim, a>>,
                          <<special_20_percent(a).payable_tax, simplified(2).net_tax + 1>>}
                    \cup {<<credit(k).individual_method_credit, 3 * a>> : k \in {0, 300, 949}}
                    \cup {<<credit(k).proportional_method_credit, 3 * a>> : k \in {0, 300, 949}}
                    \cup {<<a, credit(k).individual_method_credit>> : k \in {0, 300, 949}}]

\* The lines of a year: what its return shows is all of them, and what cannot be told is said.
ReturnLaws(a) ==
    LET line(type, rate, amount) == [tax_type |-> type, tax_rate |-> rate, amount |-> amount]
        sold == <<line("taxable", 10, a), line("taxable", 8, a \div 3), line("export", 0, 40),
                  line("taxable", 10, 7), line("taxable", None, 90), line("non_taxable", 0, 500),
                  line("exempt", None, 20), line(None, None, a), line("reverse_charge", 10, 11)>>
        bought == <<line("taxable", 8, 1000), line("exempt", None, 300), line(None, None, 5)>>
        general == tax_return(sold, bought, "general", None, 0)
        simplified(category) == tax_return(sold, bought, "simplified", category, 0)
        split == compute_invoice_tax(<<sold[1], sold[2], sold[4]>>)
    IN  [grows |-> <<<<general.output_tax, general.total_sales, general.tax_payable>>,
                     [category \in 1..6 |-> simplified(category).tax_payable],
                     <<tax_return(bought, sold, "general", None, 0).input_tax>>>>,
         sums |-> {<<general.taxable_sales + general.non_taxable_sales + general.export_taxable_sales
                       + general.notice.amount, general.total_sales + 5>>,
                   <<general.purchases_subject_to_tax + general.purchases_not_subject_to_tax + 5,
                     general.total_purchases>>,
                   <<simplified(1).total_purchases, general.total_purchases>>,
                   <<tax_return(Reverse(sold), bought, "general", None, 0).tax_payable, general.tax_payable>>,
                   <<tax_return(sold, sold, "general", None, 70).tax_payable, 70>>,
                   <<general.notice.count, 3>>, <<general.notice.amount, a + 16>>},
         within |-> {<<split.total_tax, general.output_tax>>, <<general.output_tax, split.total_tax + 2>>,
                     <<0, simplified(1).tax_payable>>}
                    \cup {<<simplified(k).tax_payable, simplified(k + 1).tax_payable>> : k \in 1..5}]

\* The sales of two years ago: whoever owes the tax, owes it with higher sales too.
EnterpriseLaws(a) ==
    LET owes(sales, salaries) == IF judge_taxable_enterprise(a, sales, salaries) = "exempt" THEN 0 ELSE 1
    IN  [grows |-> <<<<owes(0, 0), owes(10000001, 10000000), owes(10000001, 10000001)>>>>,
         sums |-> {<<owes(10000001, 10000001), 1>>},
         within |-> {<<owes(10000001, 10000000), owes(10000001, 10000001)>>}]

-----------------------------------------------------------------------------
(* Wages and leave.                                                        *)

\* Hours of overtime in a month, as a number and as a file of two rows.
OvertimeLaws(a) ==
    LET record(hours) == [employee_id |-> 1, hourly_wage |-> 1893, overtime |-> hours, late_night |-> 0,
                          holiday |-> 0]
        imported == compute_attendance(<<record(a \div 2), record(a - (a \div 2))>>)
        like(k) == [m \in 1..k |-> [overtime |-> a, holiday |-> 3]]
        broken(k) == overtime_violations(like(k))
        total == total_premium(1893, AtMost(a, 60), Over(a, 60), 0, 0)
    IN  [grows |-> <<<<overtime_pay(1893, a)>>, [k \in {1, 6, 12} |-> Cardinality(broken(k))]>>,
         sums |-> {<<overtime_pay(1893, a), total>>, <<imported.total_premium, total>>,
                   <<Cardinality(imported.exceeding), IF a > 45 THEN 1 ELSE 0>>},
         within |-> {<<Share(1893 * a, 125, 100), total + 1>>,
                     <<Cardinality(broken(1)), Cardinality(broken(6))>>,
                     <<Cardinality(broken(6)), Cardinality(broken(12))>>}]

\* A commuting allowance, and the distance it is for.
CommuteLaws(a) ==
    LET kms == <<0, 2, 10, 15, 25, 35, 45, 55>>
        by_car(k) == commute_allowance("car", a, kms[k])
        by_train == commute_allowance("transit", a, 5)
    IN  [grows |-> <<[k \in 1..8 |-> by_car(k).taxable], [k \in 1..8 |-> by_car(k).non_taxable],
                     <<by_train.taxable>>>>,
         sums |-> {<<by_car(k).taxable + by_car(k).non_taxable, a>> : k \in 1..8},
         within |-> {<<by_car(k).non_taxable, by_car(k + 1).non_taxable>> : k \in 1..7}
                    \cup {<<by_car(8).non_taxable, by_train.non_taxable>>, <<by_train.non_taxable, 150000>>}]

\* Months of service, and the days of leave they are worth.
GrantLaws(a) ==
    LET part(days) == grant_days(a, days, 20, 80)
        full == grant_days(a, 5, 40, 100)
    IN  [grows |-> <<[days \in 1..5 |-> part(days)], <<full>>>>,
         sums |-> {<<part(5), full>>, <<grant_days(a, 5, 40, 79), 0>>, <<grant_days(a, 1, 30, 80), full>>},
         within |-> {<<part(days), part(days + 1)>> : days \in 1..4}]

\* A monthly wage: what is missing to the minimum, and who is a dependent with such an income.
LowWageLaws(a) ==
    LET missing(minimum) == minimum_wage_shortfall(minimum, a, 160)
        dependent(senior, together) ==
            IF dependent_eligible(12 * a, senior, together, 3000000) = "eligible" THEN 1 ELSE 0
        paid == monthly_payslip([base_salary |-> a, overtime_pay |-> 0, allowances |-> 5000, commute |-> 10000,
                                 income_tax |-> 0, residence_tax |-> 0, other |-> 0],
                                Standard(HEALTH_GRADE_TABLE, lookup_health_grade(a)), "general", FALSE, FALSE)
    IN  [grows |-> <<<<-missing(1000), -missing(1100)>>,
                     [senior \in BOOLEAN |-> -dependent(senior, TRUE)], <<paid.total_deductions>>>>,
         sums |-> {<<paid.net_pay + paid.total_deductions, paid.total_earnings>>},
         within |-> {<<missing(1000), missing(1100)>>, <<missing(1100), missing(1000) + 10000>>,
                     <<dependent(FALSE, TRUE), dependent(TRUE, TRUE)>>}]

\* Days of a leave: whose premiums are waived, and who of those with a birthday that many
\* days into the year pays for care.
LeaveDaysLaws(a) ==
    LET waived(type, target, on_last_day) ==
            IF exempt_on_leave(type, target, on_last_day, a, a > 31) THEN 1 ELSE 0
        birth == [year |-> 1985, md |-> 101 + (a % 31)]
        paying == {y \in 0..100 : care_insurance_applicable(birth, [year |-> 1985 + y, md |-> 115])}
    IN  [grows |-> <<<<waived("childcare", "monthly", FALSE), waived("childcare", "bonus", TRUE)>>>>,
         sums |-> {<<Cardinality(paying), 25>>},
         within |-> {<<waived("childcare", "bonus", FALSE), waived("childcare", "monthly", FALSE)>>,
                     <<waived("maternity", "monthly", FALSE), 0>>}]

\* A remuneration in the files of the payroll software: the rows come in any order.
ImportLaws(a) ==
    LET santei(month) == [insured_number |-> 1, birth_date |-> 1, month |-> month,
                          payment_basis_days |-> 14 + month, currency |-> a, in_kind |-> 1000 * month]
        graded(rows) == Execute("santei", [columns |-> DOMAIN santei(4), rows |-> rows], 2025, "general")
        bonus_row(day, amount) == [insured_number |-> 1, payment_date |-> [month |-> 12 * 2025 + 5, day |-> day],
                               bonus_amount |-> amount]
        paid(rows) == Execute("bonus", [columns |-> DOMAIN bonus_row(1, a), rows |-> rows], 2025, "general")
        revised(k, changed) == [insured_number |-> 1, month |-> k, payment_basis_days |-> 20, currency |-> a,
                                previous_health_standard |-> 300000, fixed_wage_changed |-> changed]
        moved(rows) == Execute("monthly_revision", [columns |-> DOMAIN revised(1, TRUE), rows |-> rows],
                               2025, "general")
        attended(wage) == [columns |-> {"hourly_wage"}, rows |-> <<[hourly_wage |-> wage, overtime |-> 50]>>]
        closed(month, wage) ==
            run_close(2025, month, "general",
                [form \in ToSet(FORM_ORDER) |->
                    CASE form = "attendance" -> attended(wage)
                      [] form = "santei" -> [columns |-> DOMAIN santei(4), rows |-> <<santei(5), santei(6)>>]
                      [] OTHER -> None])
        Ready(answer) == IF answer.close_ready THEN 1 ELSE 0
        forward == paid(<<bonus_row(1, a), bonus_row(20, 1200000)>>)
    IN  [grows |-> <<<<graded(<<santei(4), santei(5), santei(6)>>)[1].health_grade>>,
                     <<forward.total_health, forward.total_pension>>>>,
         sums |-> {<<graded(<<santei(6), santei(4), santei(5)>>)[1].average,
                     graded(<<santei(4), santei(5), santei(6)>>)[1].average>>,
                   <<graded(<<santei(4), santei(5), santei(6)>>)[1].total, 3 * a + 15000>>,
                   <<paid(<<bonus_row(20, 1200000), bonus_row(1, a)>>).total_health, forward.total_health>>,
                   <<moved(<<revised(12, TRUE), revised(2, TRUE), revised(1, TRUE)>>)[1].start_month, 12>>,
                   <<Ready(closed(7, 1000)), 1>>, <<Ready(closed(5, 1000)), 1>>,
                   <<Ready(closed(7, ValueError)), 0>>, <<Ready(closed(6, 1000)), 0>>},
         within |-> {<<forward.total_pension, PENSION_STANDARD_BONUS_PER_PAYMENT_CAP>>,
                     <<forward.total_health, HEALTH_STANDARD_BONUS_ANNUAL_CAP>>}]

-----------------------------------------------------------------------------
(* Journals proposed and money sent.                                       *)

\* What all the drafts leave on an account role.
Leaves(drafts, role) ==
    SumSeq([k \in DOMAIN drafts |->
        SumSeq([l \in DOMAIN drafts[k].lines |->
            IF drafts[k].lines[l][1] = role THEN drafts[k].lines[l][2] - drafts[k].lines[l][3] ELSE 0])])

\* The gross pay of a month: what was withheld is paid on, to the yen.
PayrollDraftLaws(a) ==
    LET p == [month |-> 1, payment_day |-> 25, gross |-> a, insurance |-> Share(a, 15, 100),
              income_tax |-> Share(a, 5, 100), residence_tax |-> Share(a, 2, 100),
              other |-> Share(a, 1, 100), employer |-> Share(a, 16, 100)]
        answer == generate_payroll_drafts(p)
    IN  [grows |-> <<>>,
         sums |-> {<<Leaves(answer.drafts, role), 0>>
                      : role \in {"social_insurance_withholding", "income_tax_withholding",
                                  "residence_tax_withholding", "social_insurance_payable"}}
                  \cup {<<Leaves(answer.drafts, "salary_expense") + Leaves(answer.drafts, "legal_welfare_expense"),
                          p.other - Leaves(answer.drafts, "bank_deposit")>>},
         within |-> {<<LastDay(1), answer.drafts[k].due_date>> : k \in 2..Len(answer.drafts)}]

\* The amount of a business event, tax included or not.
EventLaws(a) ==
    LET types == {"sales", "purchase_expense", "payment", "collection", "depreciation"}
        draft(type, inclusive) == build_journal_draft(type, a, 10, inclusive)
    IN  [grows |-> <<[type \in types |-> Debits(draft(type, FALSE))]>>,
         sums |-> {<<Debits(draft(type, TRUE)), a>> : type \in types}
                  \cup {<<Credits(draft(type, FALSE)), Debits(draft(type, FALSE))>> : type \in types},
         within |-> {<<Debits(draft(type, FALSE)), a + ShareUp(a, 10, 100)>> : type \in types}]

\* A payment of that much, with and without the fee, in the bank's file.
TransferLaws(a) ==
    LET line(amount, recipient) ==
            [amount |-> amount, transfer_fee |-> 330, fee_borne_by_recipient |-> recipient, encodable |-> TRUE]
        file == generate_transfer(TRUE, <<line(a, TRUE), line(5000, FALSE), line(a, FALSE)>>)
        sent == SelectSeq(file.records, LAMBDA r : r.type = "data")
        trailer == file.records[Len(file.records) - 1]
    IN  IF file = ValueError THEN [grows |-> <<>>, sums |-> {}, within |-> {<<a, 330>>}]
        ELSE [grows |-> <<>>,
              sums |-> {<<SumSeq([k \in DOMAIN sent |-> sent[k].amount]), trailer.amount>>,
                        <<trailer.count, Len(sent)>>,
                        <<file.total_amount + file.total_fee_deducted, 2 * a + 5000>>},
              within |-> {<<1, sent[k].amount>> : k \in DOMAIN sent}]

\* Withdrawals of about that much against the payments ordered.
PaymentMatchLaws(a) ==
    LET entry(id, amount, date) == [id |-> id, amount |-> amount, date |-> date]
        withdrawals == <<entry(1, a, 10), entry(2, a + 700, 12), entry(3, a - 300, 9), entry(4, a, 40)>>
        payments == <<entry(11, a, 10), entry(12, 700, 11), entry(13, a, 13), entry(14, a + 140, 9),
                      entry(15, a, 30)>>
        Found(tolerance) == match_payments(withdrawals, payments, 5, tolerance).matches
        paid(m) == SumSeq([k \in DOMAIN m.payment_ids |-> payments[m.payment_ids[k] - 10].amount])
        apart(m) == SumSeq([k \in DOMAIN m.payment_ids |->
                        AtLeast(payments[m.payment_ids[k] - 10].date - withdrawals[m.line_id].date,
                                withdrawals[m.line_id].date - payments[m.payment_ids[k] - 10].date)])
        used(matches) == SumSeq([k \in DOMAIN matches |-> Len(matches[k].payment_ids)])
        once(matches) == UNION {ToSet(matches[k].payment_ids) : k \in DOMAIN matches}
    IN  [grows |-> <<>>,
         sums |-> {<<used(Found(tolerance)), Cardinality(once(Found(tolerance)))>> : tolerance \in {0, 440}}
                  \cup {<<paid(m), withdrawals[m.line_id].amount>> : m \in ToSet(Found(0))},
         within |-> {<<AtLeast(paid(m) - withdrawals[m.line_id].amount, withdrawals[m.line_id].amount - paid(m)),
                       IF Len(m.payment_ids) = 1 THEN 440 ELSE 0>> : m \in ToSet(Found(440))}
                    \cup {<<apart(m), 5 * Len(m.payment_ids)>> : m \in ToSet(Found(440))}
                    \cup {<<Len(Found(0)), Len(Found(440))>>}]

-----------------------------------------------------------------------------
(* Days.                                                                   *)

\* The month of the pay whose taxes and premiums are paid.
PaymentTaskLaws(a) ==
    LET amounts == [income_tax |-> 500, residence_tax |-> 300, social_insurance |-> 900]
        answer(special) == generate_tasks(a, amounts, special, Holidays)
        due(type, special) == (CHOOSE t \in answer(special).tasks : t.task_type = type).due_date
        types == DOMAIN amounts
    IN  [grows |-> <<[type \in types |-> due(type, FALSE)], [type \in types |-> due(type, TRUE)]>>,
         sums |-> {<<answer(special).total_amount, 1700>> : special \in BOOLEAN}
                  \cup {<<IF is_closed_day(due(type, FALSE), Holidays) THEN 1 ELSE 0, 0>> : type \in types},
         within |-> {<<t.statutory_due_date, t.due_date>> : t \in answer(TRUE).tasks}
                    \cup {<<due(type, FALSE), due(type, TRUE)>> : type \in types}
                    \cup {<<answer(FALSE).earliest_due_date, due(type, FALSE)>> : type \in types}
                    \cup {<<LastDay(a) + 1, due(type, FALSE)>> : type \in types}]

\* The day somebody leaves or has a birthday: nobody who was insured pays for no month, and
\* nobody for a month after the loss.
LossLaws(a) ==
    LET reasons == {"retirement", "death", "age_70", "age_75"}
        lost(reason) == loss_date(a, reason)
        final(reason, qualified) == compute_loss(a, reason, qualified, FALSE).final_premium_month
        flag(reason) == compute_loss(a, reason, None, FALSE).event_month_premium_charged
        joined(reason) == {day \in {0, FirstDay[MonthOf(a)], a - 1, a, a + 1} : day <= lost(reason)}
        refused(reason) == compute_loss(a, reason, lost(reason) + 1, FALSE)
    IN  [grows |-> <<[reason \in reasons |-> final(reason, None)],
                     [reason \in reasons |-> final(reason, lost(reason))]>>,
         sums |-> {<<IF refused(reason) = ValueError THEN 1 ELSE 0, 1>> : reason \in reasons}
                  \cup {<<IF flag(reason) THEN MonthOf(a) ELSE MonthOf(a) - 1,
                          final(reason, None) + (IF MonthOf(lost(reason)) < MonthOf(a) THEN 1 ELSE 0)>>
                            : reason \in reasons}
                  \cup {<<IF flag("retirement") THEN 1 ELSE 0, IF a = LastDay(MonthOf(a)) THEN 1 ELSE 0>>},
         within |-> UNION {{<<MonthOf(day), final(reason, day)>> : day \in joined(reason)} : reason \in reasons}
                    \cup UNION {{<<final(reason, day), MonthOf(lost(reason))>> : day \in joined(reason)}
                                   : reason \in reasons}
                    \cup UNION {{<<final(reason, None), final(reason, day)>> : day \in joined(reason)}
                                   : reason \in reasons}
                    \cup {<<final("age_70", None), final("age_75", None)>>,
                          <<final("age_75", None), final("death", None)>>}]

\* The day of an invoice.
TermsLaws(a) ==
    LET days == {1, 10, 28, 29, 30, 31}
        closing(day) == compute_closing_date(a, day)
        terms(day, pays, adjustment) == [closing_day |-> day, payment_month_offset |-> 1, payment_day |-> pays,
                                         adjustment |-> adjustment]
        paid(day, adjustment) == compute_payment_date(a, terms(day, 10, adjustment), Holidays)
    IN  [grows |-> <<[day \in days |-> closing(day)], [day \in days |-> paid(day, "next")],
                     [day \in days |-> paid(day, "previous")]>>,
         sums |-> {<<compute_closing_date(closing(day), day), closing(day)>> : day \in days},
         within |-> {<<a, closing(day)>> : day \in days}
                    \cup {<<closing(day), paid(day, "previous")>> : day \in days}
                    \cup {<<paid(day, "previous"), paid(day, "none")>> : day \in days}
                    \cup {<<paid(day, "none"), paid(day, "next")>> : day \in days}]

\* A day on which it is asked how old the open invoices are, and what is forecast.
AgingLaws(a) ==
    LET invoice(id, partner, due, amount) ==
            [invoice_id |-> id, partner_id |-> partner, due_date |-> due, total_amount |-> amount,
             status |-> IF id = 4 THEN "paid" ELSE "issued"]
        invoices == {invoice(1, 1, 20, 1000), invoice(2, 1, 50, 70), invoice(3, 2, 59, 500), invoice(4, 2, 1, 9)}
        report == get_ar_aging(invoices, a)
        documents == <<[amount |-> 1000, status |-> "issued", day |-> 20],
                       [amount |-> 70, status |-> "paid", day |-> 50],
                       [amount |-> 9, status |-> "draft", day |-> 50]>>
        ahead == Reports!forecast(a, documents, documents, <<0, 30, 60>>)
        Shown(buckets) == SumOver(DOMAIN buckets, LAMBDA b : buckets[b])
    IN  [grows |-> <<<<report.total - report.buckets.not_due, report.buckets.overdue_91_plus,
                       -report.buckets.not_due>>>>,
         sums |-> {<<Shown(report.buckets), 1570>>,
                   <<SumOver(DOMAIN report.partners, LAMBDA p : report.partners[p].total), report.total>>}
                  \cup {<<Shown(report.partners[p].buckets), report.partners[p].total>>
                           : p \in DOMAIN report.partners},
         within |-> {<<ahead[h].inflows, ahead[h + 1].inflows>> : h \in 1..2}
                    \cup {<<0, ahead[h].outflows>> : h \in 1..3}]

-----------------------------------------------------------------------------
(* Risks and budgets.                                                      *)

Severity(judgment) ==
    CASE judgment = "approved" -> 0 [] judgment = "warning" -> 1
      [] judgment = "rejected" -> 2 [] judgment = "requires_manual" -> 2 [] judgment = "blocked" -> 3

\* The amount of an order, judged on two days, one after the temporary limit.
CreditLaws(a) ==
    LET customer(limit, temporary, overdue) ==
            [customer |-> 1, credit_limit |-> limit, temporary_limit |-> temporary, temporary_limit_expiry |-> 50,
             receivable_balance |-> 300, order_backlog |-> 100, notes_receivable |-> 50,
             advance_received |-> 30, max_days_overdue |-> overdue, has_default_event |-> FALSE,
             order_amount |-> a]
        judged(temporary, overdue, day) ==
            check_credit(<<customer(1000, temporary, overdue)>>, day).judgments[1]
        severity(temporary, day) == Severity(judged(temporary, 0, day))
        free(day) == check_credit(<<customer(1000, 500, 0)>>, day).total_available_credit
    IN  [grows |-> <<<<severity(0, 10), severity(500, 50), severity(500, 51)>>>>,
         sums |-> {<<Severity(judged(500, 61, 10)), 3>>, <<severity(500, 51), severity(0, 10)>>,
                   <<free(50) - free(51), 500>>},
         within |-> {<<severity(500, 50), severity(0, 10)>>}
                    \cup (IF judged(500, 0, 50) \in {"approved", "warning"} THEN {<<a, free(50)>>}
                          ELSE {<<free(50) + 1, a>>})]

\* A debt, its security and what became of the debtor.
DebtLaws(a) ==
    LET debt(event) ==
            [receivable_id |-> 1, amount |-> a, due_date |-> 10, event |-> event, is_trade_receivable |-> TRUE,
             unrecoverable |-> FALSE, secured |-> 2, offsettable |-> 1,
             written_off |-> IF event \in WRITE_OFF_EVENTS THEN a ELSE 0,
             repayment_within_5years |-> 2, last_transaction_date |-> None]
        answer(event) == assess(<<debt(event)>>, 500, "manufacturing")
        kept(event) == answer(event).total_loss + answer(event).total_reserve_limit
    IN  [grows |-> <<[event \in KNOWN_EVENTS |-> kept(event)], <<compute_reserve(a, "other", 0)>>>>,
         sums |-> {<<answer(event).total_loss, a>> : event \in WRITE_OFF_EVENTS},
         within |-> {<<kept(event), a>> : event \in KNOWN_EVENTS}
                    \cup {<<compute_reserve(a, "other", 0), compute_reserve(a, "manufacturing", 0)>>,
                          <<kept("bankruptcy_filing"), kept("insolvency")>>}]

\* What an account has come to, against its budget.
BudgetLaws(a) ==
    LET line(budgeted) == Reports!line_variance(budgeted, a)
        budgets == <<100, 1000, 250>>
        lines == [k \in 1..3 |-> line(budgets[k])]
        report == Reports!summarize(lines)
        spent == [debit |-> a, credit |-> 40]
    IN  [grows |-> <<[k \in 1..3 |-> lines[k].execution_rate], [k \in 1..3 |-> lines[k].variance_rate],
                     <<report.over_budget_count, Reports!actual_from_balance(spent, "debit")>>>>,
         sums |-> {<<report.variance_total, SumSeq([k \in 1..3 |-> lines[k].variance_amount])>>,
                   <<report.budgeted_total + report.variance_total, 3 * a>>,
                   <<Reports!actual_from_balance(spent, "debit"), -Reports!actual_from_balance(spent, "credit")>>,
                   <<lines[1].execution_rate - lines[1].variance_rate, 10000>>},
         within |-> {<<report.over_budget_count, report.line_count>>}]

\* A moment: the schedules that run next after it.
Schedules ==
    {[frequency |-> "daily", run_day |-> None, run_hour |-> h] : h \in {0, 9, 23}}
        \cup {[frequency |-> "weekly", run_day |-> d, run_hour |-> 9] : d \in {0, 4, 6}}
        \cup {[frequency |-> "monthly", run_day |-> d, run_hour |-> 9] : d \in {1, 28, 29, 30, 31}}

ScheduleLaws(a) ==
    [grows |-> <<[s \in Schedules |-> Jobs!compute_next_run(s, a)]>>,
     sums |-> {},
     within |-> {<<a + 1, Jobs!compute_next_run(s, a)>> : s \in Schedules}]

-----------------------------------------------------------------------------

Laws(topic, a) ==
    CASE topic = "wage" -> WageLaws(a)
      [] topic = "bonus" -> BonusLaws(a)
      [] topic = "fee" -> FeeLaws(a)
      [] topic = "severance" -> SeveranceLaws(a)
      [] topic = "grade" -> GradeLaws(a)
      [] topic = "labor" -> LaborLaws(a)
      [] topic = "leave" -> LeaveLaws(a)
      [] topic = "high_age" -> HighAgeLaws(a)
      [] topic = "health" -> HealthLaws(a)
      [] topic = "corporate" -> CorporateLaws(a)
      [] topic = "entertainment" -> EntertainmentLaws(a)
      [] topic = "consumption" -> ConsumptionLaws(a)
      [] topic = "tax_return" -> ReturnLaws(a)
      [] topic = "enterprise" -> EnterpriseLaws(a)
      [] topic = "overtime" -> OvertimeLaws(a)
      [] topic = "commute" -> CommuteLaws(a)
      [] topic = "grant" -> GrantLaws(a)
      [] topic = "low_wage" -> LowWageLaws(a)
      [] topic = "leave_days" -> LeaveDaysLaws(a)
      [] topic = "imports" -> ImportLaws(a)
      [] topic = "payroll_drafts" -> PayrollDraftLaws(a)
      [] topic = "events" -> EventLaws(a)
      [] topic = "transfer" -> TransferLaws(a)
      [] topic = "payment_match" -> PaymentMatchLaws(a)
      [] topic = "payment_tasks" -> PaymentTaskLaws(a)
      [] topic = "loss" -> LossLaws(a)
      [] topic = "terms" -> TermsLaws(a)
      [] topic = "aging" -> AgingLaws(a)
      [] topic = "credit" -> CreditLaws(a)
      [] topic = "debt" -> DebtLaws(a)
      [] topic = "budget" -> BudgetLaws(a)
      [] topic = "schedule" -> ScheduleLaws(a)

Amount(question) == Ladders[question.topic][question.step]
Answer(question) == Laws(question.topic, Amount(question))

CalculatorsInit ==
    /\ OrdersInit
    /\ PayInit
    /\ asked = None

\* A caller picks a topic, and asks again with the next amount.
Pick(topic) ==
    /\ asked = None
    /\ OrdersInit
    /\ PayInit
    /\ asked' = [topic |-> topic, step |-> 1]
    /\ UNCHANGED <<ordersVars, payVars>>

AskMore ==
    /\ asked # None
    /\ asked.step < Len(Ladders[asked.topic])
    /\ asked' = [asked EXCEPT !.step = @ + 1]
    /\ UNCHANGED <<ordersVars, payVars>>

\* The callers share no records: each is followed alone.
CalculatorsNext ==
    \/ asked = None /\ PayInit /\ OrdersNext /\ UNCHANGED <<payVars, asked>>
    \/ asked = None /\ OrdersInit /\ PayNext /\ UNCHANGED <<ordersVars, asked>>
    \/ \E topic \in DOMAIN Ladders : Pick(topic)
    \/ AskMore

CalculatorsSpec == CalculatorsInit /\ [][CalculatorsNext]_<<ordersVars, payVars, asked>>

-----------------------------------------------------------------------------
(* Properties.                                                             *)

\* Where an amount is divided, the parts are the whole, whatever was rounded on the way, and
\* what two services compute of the same amount is the same: the instalments of a premium,
\* the months of a residence tax, the tax of an amount and of the amount with its tax, the
\* wages of a file and of a sum.  And nothing exceeds what limits it: a tax what is
\* taxed, a benefit what was earned, a standard bonus its caps, a match its tolerance.
PartsMakeTheWhole ==
    [][asked' # None =>
        /\ \A parts \in Answer(asked').sums : parts[1] = parts[2]
        /\ \A bound \in Answer(asked').within : bound[1] <= bound[2]]_asked

\* Whoever earns, owes or is owed more has no less of what grows with it: brackets,
\* grades and limits leave no step down, over any two amounts asked for one after the other.
MoreIsMore ==
    [][asked # None =>
        LET less == Answer(asked).grows
            more == Answer(asked').grows
        IN  \A i \in DOMAIN less \cap DOMAIN more : \A k \in DOMAIN less[i] : less[i][k] <= more[i][k]]_asked

\* A job runs at the first moment its schedule stands for, and never at once again: the end
\* of a short month stands for the day it does not have.
NextRunIsEarliest ==
    asked # None /\ asked.topic = "schedule" =>
        \A s \in Schedules :
            LET next == Jobs!compute_next_run(s, Amount(asked))
                runs(day) == Jobs!Matches(s, day) /\ Jobs!At(day, s.run_hour) > Amount(asked)
            IN  /\ next % 24 = s.run_hour
                /\ runs(Jobs!DayOf(next))
                /\ \A day \in Jobs!DayOf(Amount(asked)) .. (Jobs!DayOf(next) - 1) : ~runs(day)
=============================================================================
