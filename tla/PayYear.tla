------------------------------- MODULE PayYear -------------------------------
(* One year of pay in one company: the monthly payroll, the bonuses and the    *)
(* year-end adjustment, each of which reads what the others have written.      *)
(* Every calculation replaces the records of its month, term or year for the   *)
(* whole company, in one transaction: an exception for one employee leaves     *)
(* everything as it was, and the request is answered 500.  The calculation of  *)
(* a bonus takes three steps, and several may overlap: it issues the DELETE of *)
(* the term's records, it reads what else the year paid, and it commits.  The  *)
(* other requests are one step.                                                *)
EXTENDS Wages, FiniteSets

CONSTANTS
    Employees,
    Clerks,             \* requests for the calculation of a bonus that may be under way together
    YEAR,               \* the year, for the ages
    Newcomers,          \* those who are not employed yet when the year begins
    OVERTIME,           \* the hours of overtime a month may have
    BONUS_MONTHS,       \* the bonuses, in months of the base salary
    BONUS_DAYS,         \* the days after which a bonus may be calculated, as [year, md]
    MASTER,             \* what an employee is created with: [base_salary, hourly_rate, dependents, birth]
    HEALTH_RATE, CARE_RATE,   \* of the company, in 1/10000, or None
    MAX_DEVIATIONS      \* bound: arrivals, departures, overtime, recalculations, overlaps, early year-ends

PayMonths == 1..12
BonusTerms == {"summer", "winter"}

ASSUME MasterAssumption ==
    /\ IsFiniteSet(Employees)
    /\ Newcomers \subseteq Employees
    /\ \A e \in Employees : MASTER[e].base_salary \in Nat
    /\ BONUS_MONTHS \subseteq Nat
    /\ HEALTH_RATE = None \/ HEALTH_RATE \in Nat
    /\ CARE_RATE = None \/ CARE_RATE \in Nat
    /\ MAX_DEVIATIONS \in Nat

VARIABLES
    employed,       \* the employees created and not deleted: nothing else of them is ever changed
    payroll,        \* PayrollRecord by employee and month, or None
    bonus,          \* by term, the calculations that stand: BonusRecord by employee, the oldest first
    calculating,    \* what each clerk's request is calculating, or None
    bonuses_overlapped, \* whether two calculations of bonuses were ever under way together
    year_end,       \* YearEndAdjustment by employee, or None
    deviations      \* how often the year left the plain course

payVars == <<employed, payroll, bonus, calculating, bonuses_overlapped, year_end, deviations>>

PayInit ==
    /\ employed = Employees \ Newcomers
    /\ payroll = [e \in Employees |-> [m \in PayMonths |-> None]]
    /\ bonus = [t \in BonusTerms |-> <<>>]
    /\ calculating = [c \in Clerks |-> None]
    /\ bonuses_overlapped = FALSE
    /\ year_end = [e \in Employees |-> None]
    /\ deviations = 0

health_rate == IF HEALTH_RATE = None THEN DEFAULT_HEALTH_INSURANCE_RATE ELSE HEALTH_RATE
care_rate == IF CARE_RATE = None THEN DEFAULT_CARE_INSURANCE_RATE ELSE CARE_RATE

\* The premium of a month: the grade of the health insurance serves the pension too.
monthly_social(gross, birth, eve) ==
    LET standard == Standard(HEALTH_GRADE_TABLE, lookup_health_grade(gross))
    IN  employee_premium(standard, standard, health_rate, care_rate,
                         care_insurance_applicable(birth, eve))

\* The day after the last of the month.
EveOf(month) == IF month = 12 THEN [year |-> YEAR + 1, md |-> 101]
                ELSE [year |-> YEAR, md |-> 100 * (month + 1) + 1]

PayrollRecord(e, month, hours) ==
    LET emp == MASTER[e]
        gross == emp.base_salary + overtime_pay(emp.hourly_rate, hours)
        social == monthly_social(gross, emp.birth, EveOf(month))
    IN  [total_gross |-> gross, social_insurance |-> social,
         income_tax |-> estimate_monthly_withholding(gross, social, emp.dependents)]

\* The bonuses of an employee, as <<term, calculation>>: nothing keeps a term from having two.
BonusRows(e) ==
    {n \in UNION {{t} \X DOMAIN bonus[t] : t \in BonusTerms} : e \in DOMAIN bonus[n[1]][n[2]]}

BonusOf(e, n) == bonus[n[1]][n[2]][e]

PaidIn(e, rows) == SumOver(rows, LAMBDA n : BonusOf(e, n).bonus_amount)

\* The year's bonuses but for those that the request itself has deleted.
PaidBonus(e, term, deleted) ==
    PaidIn(e, {n \in BonusRows(e) : ~(n[1] = term /\ n[2] <= deleted)})

\* What was paid counts by its amount, not by its standard amount.
BonusRecord(e, months, today, paid) ==
    LET emp == MASTER[e]
        amount == emp.base_salary * months
        standard == standard_bonus_amounts(amount, paid)
        social == employee_premium(standard.health, standard.pension, health_rate, care_rate,
                                   care_insurance_applicable(emp.birth, today))
    IN  [bonus_amount |-> amount, social_insurance |-> social,
         income_tax |-> estimate_bonus_withholding(emp.base_salary,
                            monthly_social(emp.base_salary, emp.birth, today),
                            amount, social, emp.dependents)]

\* The year of an employee.
Paid(e) == {m \in PayMonths : payroll[e][m] # None}
AnnualGross(e) == SumOver(Paid(e), LAMBDA m : payroll[e][m].total_gross) + PaidIn(e, BonusRows(e))
AnnualTax(e) ==
    SumOver(Paid(e), LAMBDA m : payroll[e][m].income_tax)
        + SumOver(BonusRows(e), LAMBDA n : BonusOf(e, n).income_tax)
BonusSocial(e) == SumOver(BonusRows(e), LAMBDA n : BonusOf(e, n).social_insurance)
AnnualSocial(e) == SumOver(Paid(e), LAMBDA m : payroll[e][m].social_insurance) + BonusSocial(e)

\* The annual tax settles what was withheld: a refund is positive, a collection negative.
YearEndAdjustment(e) ==
    LET gross == AnnualGross(e)
        withheld == AnnualTax(e)
        basic == basic_deduction(gross - salary_deduction(gross))
        adjustment == compute_year_end(gross,
                          AnnualSocial(e) + basic + dependent_deduction(MASTER[e].dependents), withheld, 0)
    IN  IF basic = ValueError THEN [income_tax |-> ValueError]
        ELSE [income_tax |-> adjustment.year_tax, withheld |-> withheld,
              adjustment_amount |-> adjustment.refund - adjustment.additional_collection]

-----------------------------------------------------------------------------

Deviate(more) ==
    /\ deviations + more <= MAX_DEVIATIONS
    /\ deviations' = deviations + more

\* The exception of one employee is everyone's: whoever earns less than the floor of the
\* salary deduction has no basic deduction.
Raises(new) == \E e \in DOMAIN new : new[e].income_tax = ValueError

\* A calculation of new records: all of them, or none.
Calculated(new) ==
    /\ DOMAIN new # {}
    /\ ~Raises(new)

\* The records of the month are replaced by those of the employees who are active now.
calculate_payroll(month, hours) ==
    LET new == [e \in employed |-> PayrollRecord(e, month, hours)]
    IN  /\ Calculated(new)
        /\ payroll' = [e \in Employees |->
                        [payroll[e] EXCEPT ![month] = IF e \in employed THEN new[e] ELSE None]]
        /\ UNCHANGED <<employed, bonus, calculating, bonuses_overlapped, year_end>>

\* The DELETE of the term's records that stand now.
calculate_bonus(c, term, months, today) ==
    /\ calculating[c] = None
    /\ calculating' = [calculating EXCEPT ![c] =
           [term |-> term, months |-> months, today |-> today, deleted |-> Len(bonus[term]), new |-> None]]
    /\ bonuses_overlapped' = (bonuses_overlapped \/ \E d \in Clerks : calculating[d] # None)
    /\ UNCHANGED <<employed, payroll, bonus, year_end>>

\* Records that another request has deleted and not committed are locked.
Waits(c) ==
    \E d \in Clerks \ {c} :
        /\ calculating[d] # None
        /\ calculating[d].new # None
        /\ calculating[d].term = calculating[c].term
        /\ calculating[d].deleted > 0 /\ calculating[c].deleted > 0

\* It has deleted them, and SELECTs who is active and what the year has paid them.
read_paid(c) ==
    LET r == calculating[c]
        new == [e \in employed |-> BonusRecord(e, r.months, r.today, PaidBonus(e, r.term, r.deleted))]
    IN  /\ r # None
        /\ r.new = None
        /\ ~Waits(c)
        /\ calculating' = [calculating EXCEPT ![c] = IF Calculated(new) THEN [r EXCEPT !.new = new] ELSE None]
        /\ UNCHANGED <<employed, payroll, bonus, bonuses_overlapped, year_end, deviations>>

\* What it has deleted another request does not find any more.
commit_bonus(c) ==
    LET r == calculating[c]
        Left(d) ==
            IF calculating[d] # None /\ calculating[d].term = r.term
            THEN [calculating[d] EXCEPT !.deleted = Over(@, r.deleted)] ELSE calculating[d]
    IN  /\ r # None
        /\ r.new # None
        /\ bonus' = [bonus EXCEPT ![r.term] = Append(SubSeq(@, r.deleted + 1, Len(@)), r.new)]
        /\ calculating' = [d \in Clerks |-> IF d = c THEN None ELSE Left(d)]
        /\ UNCHANGED <<employed, payroll, bonuses_overlapped, year_end, deviations>>

calculate_year_end_adjustment ==
    LET new == [e \in employed |-> YearEndAdjustment(e)]
    IN  /\ Calculated(new)
        /\ year_end' = [e \in Employees |-> IF e \in employed THEN new[e] ELSE None]
        /\ UNCHANGED <<employed, payroll, bonus, calculating, bonuses_overlapped>>

\* A month is calculated when the one before it was, or again.
Seen(month) == \E e \in Employees : payroll[e][month] # None

Monthly ==
    \E month \in PayMonths, hours \in OVERTIME :
        /\ month > 1 => Seen(month - 1)
        /\ Deviate((IF Seen(month) THEN 1 ELSE 0) + (IF hours > 0 THEN 1 ELSE 0))
        /\ calculate_payroll(month, hours)

Bonuses ==
    \E c \in Clerks, term \in BonusTerms, months \in BONUS_MONTHS, today \in BONUS_DAYS :
        /\ Deviate((IF bonus[term] # <<>> THEN 1 ELSE 0)
                     + Cardinality({d \in Clerks : calculating[d] # None}))
        /\ calculate_bonus(c, term, months, today)

\* Before December the year-end adjustment is out of the plain course.
YearEnd ==
    /\ Deviate(IF Seen(12) THEN 0 ELSE 1)
    /\ calculate_year_end_adjustment

\* A higher salary is another employee: there is no operation that changes one.
create_employee(e) ==
    /\ e \in Newcomers \ employed
    /\ \A m \in PayMonths : payroll[e][m] = None
    /\ Deviate(1)
    /\ employed' = employed \cup {e}
    /\ UNCHANGED <<payroll, bonus, calculating, bonuses_overlapped, year_end>>

delete_employee(e) ==
    /\ e \in employed
    /\ Deviate(1)
    /\ employed' = employed \ {e}
    /\ UNCHANGED <<payroll, bonus, calculating, bonuses_overlapped, year_end>>

PayNext ==
    \/ Monthly
    \/ Bonuses
    \/ \E c \in Clerks : read_paid(c) \/ commit_bonus(c)
    \/ YearEnd
    \/ \E e \in Employees : create_employee(e)
    \/ \E e \in Employees : delete_employee(e)

PaySpec == PayInit /\ [][PayNext]_payVars

-----------------------------------------------------------------------------
(* Properties.                                                              *)

\* A year of twelve months like those the employee has now, and at most one bonus.
Plain(e) ==
    /\ \A m \in PayMonths : payroll[e][m] # None /\ payroll[e][m] = payroll[e][1]
    /\ payroll[e][1].total_gross = MASTER[e].base_salary
    /\ Cardinality(BonusRows(e)) <= 1
    /\ \A n \in BonusRows(e) :
        \E months \in BONUS_MONTHS, today \in BONUS_DAYS :
            /\ BonusOf(e, n) = BonusRecord(e, months, today, 0)
            /\ monthly_social(MASTER[e].base_salary, MASTER[e].birth, today)
                   = payroll[e][1].social_insurance

ROUNDING_TOLERANCE == 112

\* In a plain year what was withheld month by month and from the bonus is the tax of the
\* year but for the roundings: the estimates of monthly_withholding and the year-end
\* adjustment build the taxable income from the same deductions.
WithholdingReconciles ==
    \A e \in employed : Plain(e) =>
        LET settled == YearEndAdjustment(e)
        IN  /\ settled.adjustment_amount < ROUNDING_TOLERANCE
            /\ - settled.adjustment_amount < ROUNDING_TOLERANCE

\* calculate_bonus (bonus.py:119-120): the standard bonus amounts of the health insurance have
\* a cap for the whole year, and what the year has paid is counted.  So what the bonuses of a
\* year pay for health insurance is at most what the cap costs, but for the roundings.
YearIsCapped ==
    \A e \in Employees :
        LET pension(n) == EmployeeHalf(AtMost(FloorTo(BonusOf(e, n).bonus_amount, 1000),
                                              PENSION_STANDARD_BONUS_PER_PAYMENT_CAP),
                                       PENSION_INSURANCE_RATE)
        IN  BonusSocial(e)
                <= EmployeeHalf(HEALTH_STANDARD_BONUS_ANNUAL_CAP, health_rate)
                     + EmployeeHalf(HEALTH_STANDARD_BONUS_ANNUAL_CAP, care_rate)
                     + SumOver(BonusRows(e), pension) + 2 * Cardinality(BonusTerms)

\* In whatever order the terms are calculated, and calculated again, while people come and go,
\* the cap holds unless two calculations overlapped: of those neither counts the other's.
BonusPremiumIsCapped == bonuses_overlapped \/ YearIsCapped
=============================================================================
