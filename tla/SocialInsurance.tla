--------------------------- MODULE SocialInsurance ---------------------------
(* Social and labour insurance: the grade of a wage, the premiums and how they *)
(* are split, standard bonuses and their caps, the yearly settlement of labour *)
(* insurance, who is insured or exempt, and the benefits.                      *)
EXTENDS Yen

\* The grades in order: standard remuneration, lower bound, upper bound, in thousands of yen.
Unbounded == 2000000

PENSION_GRADE_TABLE ==
    <<<<88, 0, 93>>, <<98, 93, 101>>, <<104, 101, 107>>, <<110, 107, 114>>, <<118, 114, 122>>,
      <<126, 122, 130>>, <<134, 130, 138>>, <<142, 138, 146>>, <<150, 146, 155>>, <<160, 155, 165>>,
      <<170, 165, 175>>, <<180, 175, 185>>, <<190, 185, 195>>, <<200, 195, 210>>, <<220, 210, 230>>,
      <<240, 230, 250>>, <<260, 250, 270>>, <<280, 270, 290>>, <<300, 290, 310>>, <<320, 310, 330>>,
      <<340, 330, 350>>, <<360, 350, 370>>, <<380, 370, 395>>, <<410, 395, 425>>, <<440, 425, 455>>,
      <<470, 455, 485>>, <<500, 485, 515>>, <<530, 515, 545>>, <<560, 545, 575>>, <<590, 575, 605>>,
      <<620, 605, 635>>, <<650, 635, Unbounded>>>>

HEALTH_GRADE_TABLE ==
    <<<<58, 0, 63>>, <<68, 63, 73>>, <<78, 73, 83>>, <<88, 83, 93>>, <<98, 93, 101>>,
      <<104, 101, 107>>, <<110, 107, 114>>, <<118, 114, 122>>, <<126, 122, 130>>, <<134, 130, 138>>,
      <<142, 138, 146>>, <<150, 146, 155>>, <<160, 155, 165>>, <<170, 165, 175>>, <<180, 175, 185>>,
      <<190, 185, 195>>, <<200, 195, 210>>, <<220, 210, 230>>, <<240, 230, 250>>, <<260, 250, 270>>,
      <<280, 270, 290>>, <<300, 290, 310>>, <<320, 310, 330>>, <<340, 330, 350>>, <<360, 350, 370>>,
      <<380, 370, 395>>, <<410, 395, 425>>, <<440, 425, 455>>, <<470, 455, 485>>, <<500, 485, 515>>,
      <<530, 515, 545>>, <<560, 545, 575>>, <<590, 575, 605>>, <<620, 605, 635>>, <<650, 635, 665>>,
      <<680, 665, 695>>, <<710, 695, 730>>, <<750, 730, 770>>, <<790, 770, 810>>, <<830, 810, 855>>,
      <<880, 855, 905>>, <<930, 905, 955>>, <<980, 955, 1005>>, <<1030, 1005, 1055>>, <<1090, 1055, 1115>>,
      <<1150, 1115, 1175>>, <<1210, 1175, 1235>>, <<1270, 1235, 1295>>, <<1330, 1295, 1355>>, <<1390, 1355, Unbounded>>>>

Holds(row, remuneration) ==
    /\ remuneration >= 1000 * row[2]
    /\ row[3] = Unbounded \/ remuneration < 1000 * row[3]

\* _lookup_grade: the first grade that holds the remuneration, or the last one.
lookup_grade(remuneration, table) ==
    LET held == {g \in DOMAIN table : Holds(table[g], remuneration)}
    IN  IF held = {} THEN Len(table) ELSE CHOOSE g \in held : \A h \in held : g <= h

Standard(table, grade) == 1000 * table[grade][1]

lookup_health_grade(remuneration) == lookup_grade(remuneration, HEALTH_GRADE_TABLE)
lookup_pension_grade(remuneration) == lookup_grade(remuneration, PENSION_GRADE_TABLE)

\* Months with too few paid days do not count; None when none is left.
determine_remuneration(months, min_days) ==
    LET counted == SelectSeq(months, LAMBDA m : m.payment_basis_days >= min_days)
    IN  IF months = <<>> THEN ValueError
        ELSE IF counted = <<>> THEN None
        ELSE FoldLeft(LAMBDA sum, m : sum + m.remuneration, 0, counted) \div Len(counted)

-----------------------------------------------------------------------------
(* Premiums.  Rates are in 1/10000, a premium before the split too.            *)

PENSION_INSURANCE_RATE == 1830
DEFAULT_HEALTH_INSURANCE_RATE == 998
DEFAULT_CARE_INSURANCE_RATE == 160

\* split_premium: half of the premium for the employee, the half yen for the employer.
EmployeeHalf(standard, rate) == ShareHalfDown(standard, rate, 20000)

\* What the employee pays: health, care where it applies, and pension.
employee_premium(health_standard, pension_standard, health_rate, care_rate, care_applicable) ==
    EmployeeHalf(health_standard, health_rate)
        + (IF care_applicable THEN EmployeeHalf(health_standard, care_rate) ELSE 0)
        + EmployeeHalf(pension_standard, PENSION_INSURANCE_RATE)

\* Care insurance is for those of 40 to 64; an age is attained on the eve of the birthday.
\* Dates are [year, md] with md = 100 * month + day, and eve is the day after as_of.
age_attained(birth, eve) == eve.year - birth.year - IF eve.md < birth.md THEN 1 ELSE 0
care_insurance_applicable(birth, eve) == age_attained(birth, eve) \in 40..64

HEALTH_STANDARD_BONUS_ANNUAL_CAP == 5730000
PENSION_STANDARD_BONUS_PER_PAYMENT_CAP == 1500000

\* MUTANT: what was paid before in the year is not looked at.
standard_bonus_amounts_NoCumulative(bonus, health_total_this_year) ==
    LET base == FloorTo(bonus, 1000)
    IN  [health |-> AtMost(base, HEALTH_STANDARD_BONUS_ANNUAL_CAP),
         pension |-> AtMost(base, PENSION_STANDARD_BONUS_PER_PAYMENT_CAP)]

\* The health cap is for the year, the pension cap for each payment.
standard_bonus_amounts(bonus, health_total_this_year) ==
    LET base == FloorTo(bonus, 1000)
    IN  [health |-> AtMost(base, Over(HEALTH_STANDARD_BONUS_ANNUAL_CAP, health_total_this_year)),
         pension |-> AtMost(base, PENSION_STANDARD_BONUS_PER_PAYMENT_CAP)]

\* The notification of bonuses caps the pension by month instead.
compute_standard_bonus(bonus, fiscal_ytd, same_month_prior) ==
    LET base == FloorTo(bonus, 1000)
    IN  [health |-> AtMost(base, Over(HEALTH_STANDARD_BONUS_ANNUAL_CAP, fiscal_ytd)),
         pension |-> AtMost(base, Over(PENSION_STANDARD_BONUS_PER_PAYMENT_CAP, same_month_prior))]

-----------------------------------------------------------------------------
(* Labour insurance; rates are in 1/10000.                                 *)

BUSINESS_TYPE_RATES ==
    [general |-> [employee |-> 60, employer |-> 95],
     agriculture_forestry_fishery_sake |-> [employee |-> 70, employer |-> 105],
     construction |-> [employee |-> 70, employer |-> 115]]

\* Nothing for employment insurance from 65 on; accident insurance all the same.
labor_premium(gross, business_type, age, is_exempt, workers_comp_rate) ==
    IF business_type \notin DOMAIN BUSINESS_TYPE_RATES THEN ValueError
    ELSE LET rates == BUSINESS_TYPE_RATES[business_type]
             due(rate) == IF is_exempt \/ age >= 65 THEN 0 ELSE ShareHalfUp(gross, rate, 10000)
         IN  [employee |-> due(rates.employee),
              employer |-> due(rates.employer) + ShareHalfUp(gross, workers_comp_rate, 10000)]

\* The same premium on a bonus rounds half a yen down.
bonus_employment_premium(bonus, business_type) ==
    LET rates == BUSINESS_TYPE_RATES[business_type]
    IN  [employee |-> ShareHalfDown(bonus, rates.employee, 10000),
         employer |-> ShareHalfDown(bonus, rates.employer, 10000)]

\* The yearly settlement: the premium of last year's wages against what was declared for
\* them, and the estimate for this year.
compute_annual_update(prior_wages, estimated_wages, business_type, declared, workers_comp_rate) ==
    LET rates == BUSINESS_TYPE_RATES[business_type]
        rate == rates.employee + rates.employer + workers_comp_rate
        determined == Share(FloorTo(prior_wages, 1000), rate, 10000)
        estimated == Share(FloorTo(estimated_wages, 1000), rate, 10000)
        contribution == Share(FloorTo(prior_wages, 1000), 2, 100000)
    IN  [determined |-> determined, estimated |-> estimated,
         settlement |-> determined - declared,
         total_payment |-> estimated + (determined - declared) + contribution]

\* MUTANT: the remainder of the division by three is lost.
compute_installments_NoRemainder(estimated, both_insurances, entrusted) ==
    IF entrusted \/ estimated >= (IF both_insurances THEN 400000 ELSE 200000)
    THEN <<estimated \div 3, estimated \div 3, estimated \div 3>>
    ELSE <<estimated>>

\* Three instalments for those who may, the first with the remainder.
compute_installments(estimated, both_insurances, entrusted) ==
    IF entrusted \/ estimated >= (IF both_insurances THEN 400000 ELSE 200000)
    THEN <<(estimated \div 3) + (estimated % 3), estimated \div 3, estimated \div 3>>
    ELSE <<estimated>>

-----------------------------------------------------------------------------
(* Who pays.                                                               *)

exempt_on_leave(leave_type, target, on_last_day, days, over_one_month) ==
    \/ leave_type = "maternity" /\ on_last_day
    \/ leave_type = "childcare" /\ target = "monthly" /\ (on_last_day \/ days >= 14)
    \/ leave_type = "childcare" /\ target = "bonus" /\ over_one_month

\* Hours per week, wage, more than two months, student, insured in the company.
short_time_covered(w) ==
    \/ w.three_quarters
    \/ /\ w.insured_count >= 51 \/ w.labor_agreement
       /\ w.weekly_hours >= 20
       /\ w.monthly_wage >= 88000
       /\ w.over_2_months
       /\ ~w.student

-----------------------------------------------------------------------------
(* Benefits of health, employment and accident insurance.  A benefit that is  *)
(* refused is 0.                                                               *)

DAILY_WAGE_FLOOR == 2869

\* The wage of six months by the day, between the floor and the cap of the benefit.
daily_wage(total_6m, cap) == AtMost(AtLeast(total_6m \div 180, DAILY_WAGE_FLOOR), cap)

\* MUTANT: wages paid during the leave do not reduce the benefit.
Adjusted_Never(wages, gross, paid, floor) == IF 100 * paid >= 80 * wages THEN 0 ELSE gross

\* Wages paid during a leave: from 80 percent of the usual on there is no benefit; above the
\* floor it is cut to what is missing to 80 percent.
Adjusted(wages, gross, paid, floor) ==
    CASE 100 * paid >= 80 * wages -> 0
      [] 100 * paid > floor * wages /\ 100 * paid < 80 * wages ->
             AtMost(gross, Share(wages, 80, 100) - paid)
      [] OTHER -> gross

\* 67 percent for 180 days, then 50.
childcare_benefit(total_6m, insured_months, days, days_before, paid) ==
    LET wages == daily_wage(total_6m, 15430) * days
        early == days_before < 180
        gross == AtMost(Share(wages, IF early THEN 67 ELSE 50, 100),
                        IF early THEN 310143 ELSE 231450)
    IN  IF insured_months < 12 THEN 0
        ELSE Adjusted(wages, gross, paid, IF early THEN 13 ELSE 30)

\* At most 93 days for one relative.
caregiver_benefit(total_6m, insured_months, days, days_before, paid) ==
    LET wages == daily_wage(total_6m, 17270) * AtMost(days, 93 - days_before)
    IN  IF insured_months < 12 \/ days_before >= 93 THEN 0
        ELSE Adjusted(wages, AtMost(Share(wages, 67, 100), 347127), paid, 13)

\* At most 28 days after a birth.
postnatal_benefit(total_6m, insured_months, days, days_before, paid) ==
    LET wages == daily_wage(total_6m, 15430) * AtMost(days, 28 - days_before)
    IN  IF insured_months < 12 \/ days_before >= 28 THEN 0
        ELSE Adjusted(wages, Share(wages, 67, 100), paid, 13)

-----------------------------------------------------------------------------
(* High-age continued employment.                                          *)

WAGE_MONTH_CAP == 486300
WAGE_MONTH_FLOOR == 82380
SUPPLY_LIMIT == 370452
MIN_BENEFIT == 2196

\* Between 61 and 75 percent of the wage at 60 the benefit is (137.25 w - 183 c) / 280, with
\* the two quotients cut to 28 digits: a whole number may come out a little less.
Declining(wage_at_60, current) ==
    LET n == 549 * wage_at_60 - 732 * current
    IN  {n \div 1120} \cup IF n % 1120 = 0 THEN {(n \div 1120) - 1} ELSE {}

\* The benefits that may come out.
high_age_benefits(age, insured_months, wage_at_60, current) ==
    LET wage == AtMost(AtLeast(wage_at_60, WAGE_MONTH_FLOOR), WAGE_MONTH_CAP)
        \* current / wage, cut to four decimals, is at most 0.61
        flat == current < ShareUp(wage, 6101, 10000)
        raw == IF flat THEN {Share(current, 15, 100)} ELSE Declining(wage, current)
    IN  IF \/ age \notin 60..64 \/ insured_months < 60
           \/ 4 * current >= 3 * wage \/ current >= SUPPLY_LIMIT
        THEN {0}
        ELSE {LET benefit == AtMost(AtLeast(r, 0), SUPPLY_LIMIT - current)
              IN  IF benefit <= MIN_BENEFIT THEN 0 ELSE benefit : r \in raw}

-----------------------------------------------------------------------------
(* Health and accident insurance: a daily amount for the days that count.      *)

\* A thirtieth of the standard remuneration to tens of yen, and two thirds of it.
daily_benefit(standard, insured_months) ==
    LET monthly == IF insured_months < 12 THEN AtMost(standard, 300000) ELSE standard
    IN  ShareHalfUp(10 * ShareHalfUp(monthly, 1, 300), 2, 3)

AfterWaiting(days, waiting_completed) == IF waiting_completed THEN days ELSE Over(days, 3)

injury_allowance(standard, insured_months, days, waiting_completed, remuneration) ==
    Over(daily_benefit(standard, insured_months), remuneration) * AfterWaiting(days, waiting_completed)

maternity_allowance(standard, insured_months, before, after, multiple, remuneration) ==
    Over(daily_benefit(standard, insured_months), remuneration)
        * (AtMost(before, IF multiple THEN 98 ELSE 42) + AtMost(after, 56))

\* 60 and 20 percent of what is not earned, each cut to yen.
accident_leave(daily_base, days, waiting_completed, partial_wage) ==
    (Share(Over(daily_base, partial_wage), 60, 100) + Share(Over(daily_base, partial_wage), 20, 100))
        * AfterWaiting(days, waiting_completed)

\* Income classes A (high) to E: what is to be paid by oneself, and from the fourth time on.
SelfPay ==
    [A |-> [base |-> 252600, threshold |-> 842000, multiple |-> 140100],
     B |-> [base |-> 167400, threshold |-> 558000, multiple |-> 93000],
     C |-> [base |-> 80100, threshold |-> 267000, multiple |-> 44400],
     D |-> [base |-> 57600, multiple |-> 44400],
     E |-> [base |-> 35400, multiple |-> 24600]]

self_pay_limit(cost, class, multiple) ==
    CASE multiple -> SelfPay[class].multiple
      [] ~multiple /\ class \in {"D", "E"} -> SelfPay[class].base
      [] ~multiple /\ class \in {"A", "B", "C"} ->
             SelfPay[class].base + Share(Over(cost, SelfPay[class].threshold), 1, 100)

high_cost_benefit(cost, self_paid, class, multiple) == Over(self_paid, self_pay_limit(cost, class, multiple))
=============================================================================
