------------------------------ MODULE Imports ------------------------------
(* The files of the payroll software: attendance, wages, bonuses and the       *)
(* remunerations that decide a grade, and the monthly close that runs them.    *)
(* A file is [columns, rows]; a row gives its cells: a number or a flag, None   *)
(* when the cell is blank, ValueError when it cannot be read.  A month is       *)
(* 12 * year + month - 1, hours are whole.                                     *)
EXTENDS Wages, FiniteSets

Cell(row, column) == IF column \in DOMAIN row THEN row[column] ELSE None

\* A blank amount is nothing, a negative one is refused.
parse_decimal(cell) ==
    CASE cell = None -> 0
      [] cell = ValueError -> ValueError
      [] OTHER -> IF cell < 0 THEN ValueError ELSE cell

\* A blank number is refused; of a written one only the digits are read, never the sign.
parse_int(cell) ==
    CASE cell \in {None, ValueError} -> ValueError
      [] OTHER -> IF cell < 0 THEN -cell ELSE cell

\* A flag, a number of an insured person or a date: the default when it is blank, and a
\* default of ValueError where it is required.
OrDefault(cell, default) == IF cell = None THEN default ELSE cell

\* A row without a number of an employee is an employee of its own.
IdOf(row, i) == LET id == Cell(row, "employee_id") IN IF id = None THEN -i ELSE id

parse_csv(file, required, Read(_, _)) ==
    LET rows == [i \in DOMAIN file.rows |-> Read(file.rows[i], i)]
        unread(row) == \E field \in DOMAIN row : row[field] = ValueError
    IN  IF ~ required \subseteq file.columns \/ \E row \in ToSet(rows) : unread(row) THEN ValueError
        ELSE rows

\* What was paid in money and in kind.
Remuneration(row) ==
    LET paid == {parse_decimal(Cell(row, kind)) : kind \in {"currency", "in_kind"}}
    IN  IF ValueError \in paid THEN ValueError
        ELSE parse_decimal(Cell(row, "currency")) + parse_decimal(Cell(row, "in_kind"))

Rows(rows, number) == SelectSeq(rows, LAMBDA row : row.insured_number = number)
Numbers(rows) == {row.insured_number : row \in ToSet(rows)}
DuplicateMonth(rows) ==
    \E i, j \in DOMAIN rows : /\ i # j /\ rows[i].insured_number = rows[j].insured_number
                              /\ rows[i].month = rows[j].month

-----------------------------------------------------------------------------
(* AttendanceImportService.                                                *)

AttendanceRecord(row, i) ==
    [employee_id |-> IdOf(row, i), hourly_wage |-> parse_decimal(Cell(row, "hourly_wage")),
     overtime |-> parse_decimal(Cell(row, "overtime")),
     late_night |-> parse_decimal(Cell(row, "late_night")),
     holiday |-> parse_decimal(Cell(row, "holiday"))]

\* The hours of an employee are added before the sixty hours are counted.
compute_attendance(records) ==
    LET ids == {r.employee_id : r \in ToSet(records)}
        Of(id) == {i \in DOMAIN records : records[i].employee_id = id}
        wage(id) == records[CHOOSE i \in Of(id) : TRUE].hourly_wage
        hours(id, kind) == SumOver(Of(id), LAMBDA i : records[i][kind])
        premium(id) == total_premium(wage(id), AtMost(hours(id, "overtime"), 60),
                                     Over(hours(id, "overtime"), 60), hours(id, "late_night"),
                                     hours(id, "holiday"))
    IN  IF \/ records = <<>>
           \/ \E id \in ids : \E i \in Of(id) : records[i].hourly_wage # wage(id)
        THEN ValueError
        ELSE [total_premium |-> SumOver(ids, premium),
              exceeding |-> {id \in ids : hours(id, "overtime") > 45}]

-----------------------------------------------------------------------------
(* PayrollWageImportService.                                               *)

WageRecord(row, i) ==
    [employee_id |-> IdOf(row, i),
     wage |-> parse_decimal(Cell(row, "wage")),
     employment_insured |-> OrDefault(Cell(row, "employment_insured"), TRUE),
     workers_comp_insured |-> OrDefault(Cell(row, "workers_comp_insured"), TRUE)]

compute_wages(records, business_type, workers_comp_rate) ==
    LET total(insured) == SumOver({i \in DOMAIN records : records[i][insured]}, LAMBDA i : records[i].wage)
        workers_comp_base == FloorTo(total("workers_comp_insured"), 1000)
        employment_base == FloorTo(total("employment_insured"), 1000)
        rates == BUSINESS_TYPE_RATES[business_type]
        premium == Share(employment_base, rates.employee, 10000)
                       + Share(employment_base, rates.employer, 10000)
    IN  IF records = <<>> \/ business_type \notin DOMAIN BUSINESS_TYPE_RATES THEN ValueError
        ELSE [employee_count |-> Cardinality({r.employee_id : r \in ToSet(records)}),
              employment_premium |-> premium,
              general_contribution |-> Share(workers_comp_base, 2, 100000),
              determined_premium |-> Share(workers_comp_base, workers_comp_rate, 10000) + premium]

-----------------------------------------------------------------------------
(* BonusImportService.  A payment_date is [month, day].                        *)

BonusRow(row, i) ==
    [insured_number |-> OrDefault(Cell(row, "insured_number"), ValueError),
     payment_date |-> OrDefault(Cell(row, "payment_date"), ValueError),
     bonus_amount |-> parse_decimal(Cell(row, "bonus_amount")),
     opening_ytd |-> parse_decimal(Cell(row, "opening_ytd"))]

DateBefore(d, e) == d.month < e.month \/ (d.month = e.month /\ d.day < e.day)

\* The bonuses of one employee in the order of their dates: what counts for health goes to
\* the year, what counts for pension to the month.
BonusPayments(rows) ==
    LET earlier(i, j) == \/ DateBefore(rows[i].payment_date, rows[j].payment_date)
                         \/ rows[i].payment_date = rows[j].payment_date /\ i <= j
        opening == Max({r.opening_ytd : r \in ToSet(rows)})
        Pay(paid, i) ==
            LET prior == SelectSeq(paid, LAMBDA p : p.month = rows[i].payment_date.month)
                standard == compute_standard_bonus(rows[i].bonus_amount,
                                opening + SumSeq([k \in DOMAIN paid |-> paid[k].health]),
                                SumSeq([k \in DOMAIN prior |-> prior[k].pension]))
            IN  Append(paid, [month |-> rows[i].payment_date.month, amount |-> rows[i].bonus_amount,
                              health |-> standard.health, pension |-> standard.pension])
    IN  FoldLeft(Pay, <<>>, SortSeq(InSomeOrder(DOMAIN rows), earlier))

compute_bonuses(rows, fiscal_year) ==
    LET paid == [n \in Numbers(rows) |-> BonusPayments(Rows(rows, n))]
        total(field) == SumOver(DOMAIN paid, LAMBDA n : SumSeq([k \in DOMAIN paid[n] |-> paid[n][k][field]]))
        capped(p) == LET base == FloorTo(p.amount, 1000) IN p.health < base \/ p.pension < base
    IN  IF \/ rows = <<>>
           \/ \E r \in ToSet(rows) : r.payment_date.month \notin (12 * fiscal_year + 3)..(12 * fiscal_year + 14)
        THEN ValueError
        ELSE [payments |-> paid, total_health |-> total("health"), total_pension |-> total("pension"),
              capped_numbers |-> {n \in DOMAIN paid : \E p \in ToSet(paid[n]) : capped(p)}]

-----------------------------------------------------------------------------
(* SanteiImportService and SanteiKisoService: the yearly grade out of the       *)
(* remunerations of April, May and June.                                        *)

TARGET_MONTHS == {4, 5, 6}

SanteiRow(row, i) ==
    LET month == parse_int(Cell(row, "month")) IN
    [insured_number |-> OrDefault(Cell(row, "insured_number"), ValueError),
     birth_date |-> OrDefault(Cell(row, "birth_date"), ValueError),
     month |-> IF month \in TARGET_MONTHS THEN month ELSE ValueError,
     payment_basis_days |-> parse_int(Cell(row, "payment_basis_days")),
     remuneration |-> Remuneration(row)]

\* compute_employee: without a month that counts somebody has to decide.
SanteiEmployee(months) ==
    LET average == determine_remuneration(months, 17)
        counted == SelectSeq(months, LAMBDA m : m.payment_basis_days >= 17)
        grade(lookup(_)) == IF average = None THEN None ELSE lookup(average)
    IN  [total |-> SumSeq([k \in DOMAIN counted |-> counted[k].remuneration]), average |-> average,
         health_grade |-> grade(lookup_health_grade), pension_grade |-> grade(lookup_pension_grade),
         requires_manual |-> average = None]

compute_santei(rows) ==
    IF \/ rows = <<>> \/ DuplicateMonth(rows)
       \/ \E r, q \in ToSet(rows) : r.insured_number = q.insured_number /\ r.birth_date # q.birth_date
    THEN ValueError
    ELSE [n \in Numbers(rows) |-> SanteiEmployee(SortSeq(Rows(rows, n), LAMBDA r, q : r.month < q.month))]

-----------------------------------------------------------------------------
(* RevisionImportService: the grade after a change of the fixed wage.           *)

RevisionRow(row, i) ==
    LET month == parse_int(Cell(row, "month")) IN
    [insured_number |-> OrDefault(Cell(row, "insured_number"), ValueError),
     month |-> IF month \in 1..12 THEN month ELSE ValueError,
     payment_basis_days |-> parse_int(Cell(row, "payment_basis_days")),
     remuneration |-> Remuneration(row),
     previous_health_standard |-> parse_decimal(Cell(row, "previous_health_standard")),
     fixed_wage_changed |-> OrDefault(Cell(row, "fixed_wage_changed"), FALSE)]

\* _ordered_months: three months in a row, over the turn of the year too.
After(start, k) == ((start - 1 + k) % 12) + 1
StartMonths(months) == {start \in months : {After(start, k) : k \in 0..2} = months}

\* The first row of the employee says what the grade was and whether the wage changed.
RevisionEmployee(rows, start_year) ==
    LET start == CHOOSE m \in StartMonths({r.month : r \in ToSet(rows)}) : TRUE
        month(k) == CHOOSE r \in ToSet(rows) : r.month = After(start, k)
        reason == revision_reason(rows[1].previous_health_standard, <<month(0), month(1), month(2)>>,
                                  rows[1].fixed_wage_changed)
    IN  [start_month |-> start, revision_month |-> 12 * start_year + start + 2, reason |-> reason]

compute_revisions(rows, start_year) ==
    IF \/ rows = <<>> \/ DuplicateMonth(rows)
       \/ \E n \in Numbers(rows) : \/ Len(Rows(rows, n)) # 3
                                   \/ StartMonths({r.month : r \in ToSet(Rows(rows, n))}) = {}
    THEN ValueError
    ELSE [n \in Numbers(rows) |-> RevisionEmployee(Rows(rows, n), start_year)]

-----------------------------------------------------------------------------
(* PayrollCloseService.                                                    *)

FORM_ORDER == <<"attendance", "santei", "labor_insurance", "monthly_revision", "bonus">>

is_required(form, target_month) ==
    \/ form = "attendance"
    \/ form = "santei" /\ target_month = 7
    \/ form = "labor_insurance" /\ target_month = 6

\* What the form's own import makes of its file.
Execute(form, file, fiscal_year, business_type) ==
    LET Then(rows, Compute(_)) == IF rows = ValueError THEN ValueError ELSE Compute(rows)
    IN  CASE form = "attendance" ->
                 Then(parse_csv(file, {"hourly_wage"}, AttendanceRecord), compute_attendance)
          [] form = "santei" ->
                 Then(parse_csv(file, {"insured_number", "birth_date", "month", "payment_basis_days",
                                       "currency"}, SanteiRow), compute_santei)
          [] form = "labor_insurance" ->
                 Then(parse_csv(file, {"wage"}, WageRecord),
                      LAMBDA rows : compute_wages(rows, business_type, 30))
          [] form = "monthly_revision" ->
                 Then(parse_csv(file, {"insured_number", "month", "payment_basis_days", "currency"},
                                RevisionRow),
                      LAMBDA rows : compute_revisions(rows, fiscal_year))
          [] form = "bonus" ->
                 Then(parse_csv(file, {"insured_number", "payment_date", "bonus_amount"}, BonusRow),
                      LAMBDA rows : compute_bonuses(rows, fiscal_year))

Blocks(form, target_month, status) == is_required(form, target_month) /\ status # "completed"

\* One form that fails does not keep the others from being run.
run_close(fiscal_year, target_month, business_type, files) ==
    LET status(form) ==
            IF files[form] # None
            THEN IF Execute(form, files[form], fiscal_year, business_type) = ValueError THEN "failed"
                 ELSE "completed"
            ELSE IF is_required(form, target_month) THEN "missing_input" ELSE "not_required"
        blocking == SelectSeq(FORM_ORDER, LAMBDA form : Blocks(form, target_month, status(form)))
    IN  IF target_month \notin 1..12 \/ \A form \in ToSet(FORM_ORDER) : files[form] = None THEN ValueError
        ELSE [statuses |-> [k \in DOMAIN FORM_ORDER |-> status(FORM_ORDER[k])],
              blocking_forms |-> blocking, close_ready |-> blocking = <<>>]
=============================================================================
