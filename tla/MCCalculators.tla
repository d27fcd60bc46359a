--------------------------- MODULE MCCalculators ---------------------------
(* Two orders of goods at 333.50 and 0.50 yen; for each calculation the        *)
(* amounts around which its brackets, grades, limits and months change; and    *)
(* a year of a director whose bonuses reach the yearly cap of the health       *)
(* insurance, and of a clerk with relatives and no care insurance who may be   *)
(* employed when the year begins.                                              *)
EXTENDS Calculators

CONSTANTS clerk, director

Symmetry == Permutations(Clerks)

MCMaster ==
    [e \in Employees |->
        CASE e = clerk -> [base_salary |-> 303000, hourly_rate |-> 1894, dependents |-> 2,
              birth |-> [year |-> 1990, md |-> 801]]
          [] e = director ->
             [base_salary |-> 1200000, hourly_rate |-> 0, dependents |-> 0,
              birth |-> [year |-> 1970, md |-> 515]]]

MCDays == {[year |-> 2025, md |-> 1211]}

MCOrders ==
    <<[order_id |-> 1, customer |-> 1, tax_rate |-> 10, quantity |-> 3, unit_price |-> 33350,
       order_date |-> 0, delivery_date |-> 20, credit_status |-> "approved"],
      [order_id |-> 2, customer |-> 2, tax_rate |-> 8, quantity |-> 4, unit_price |-> 50,
       order_date |-> 0, delivery_date |-> 20, credit_status |-> "approved"]>>

MCTerms ==
    <<[customer |-> 1, closing_day |-> 20, payment_month_offset |-> 1, payment_day |-> 31, adjustment |-> "next"],
      [customer |-> 2, closing_day |-> 31, payment_month_offset |-> 1, payment_day |-> 31,
       adjustment |-> "previous"]>>

MCTransfers ==
    {[amount |-> 367, names |-> {1}], [amount |-> 300, names |-> {1}],
     [amount |-> 1100, names |-> {1, 2}], [amount |-> 2, names |-> {2}]}

\* first, first + step, ... of so many.
Steps(first, step, count) == [k \in 1..count |-> first + step * (k - 1)]

Sorted(S) == SortSeq(InSomeOrder(S), LAMBDA x, y : x < y)
Boundaries(amounts) == Sorted(UNION {{a - 1, a, a + 1} : a \in amounts})

MCLadders ==
    [wage |-> Sorted({0} \cup ToSet(Steps(46000, 27000, 40)) \cup ToSet(Steps(2000000, 83000, 8))),
     bonus |-> Boundaries({1000, 730000, 1500000, 1501000, 3600000, 4730000, 5730000, 5731000}),
     fee |-> Boundaries({100, 1200, 12345, 1000000, 2000000}),
     severance |-> Boundaries({800000, 3800000, 5000000, 8000000, 30000000, 100000000}),
     grade |-> Boundaries({63000, 88000, 93000, 101000, 350000, 635000, 665000, 1355000}),
     labor |-> Boundaries({1000, 300000, 12345678, 25806000, 33333333, 100000000}),
     leave |-> Boundaries({39000, 90000, 150000, 200000, 231450, 240000, 300000}),
     high_age |-> Boundaries({14640, 61785, 82380, 183030, 200000, 225000, 244000, 245862,
                           296646, 300000, 364725, 368793, 370452, 486300}),
     health |-> Boundaries({3000, 88000, 267000, 300000, 558000, 842000, 1390000}),
     corporate |-> Boundaries({1, 4000000, 8000000, 10000000, 123456789, 300000000}),
     entertainment |-> Boundaries({10, 8000000, 16000000, 20000000}),
     consumption |-> Boundaries({10, 12, 13, 110, 480000, 4000000, 48000000}),
     tax_return |-> Boundaries({5, 13, 60, 1105, 48000000}),
     enterprise |-> Boundaries({1000, 10000000}),
     overtime |-> Boundaries({15, 45, 60, 75, 77, 97, 100}),
     commute |-> Boundaries({4200, 7100, 12900, 18700, 24400, 28000, 31600, 150000}),
     grant |-> Boundaries({6, 18, 30, 42, 54, 66, 78, 90}),
     low_wage |-> Boundaries({88000, 108333, 150000, 160000, 176000}),
     leave_days |-> Boundaries({1, 14, 28, 31}),
     imports |-> Boundaries({88000, 93000, 300000, 335000, 365000, 1500000, 5730000}),
     payroll_drafts |-> Boundaries({1001, 230000, 303003}),
     events |-> Boundaries({2, 11, 1100, 123456}),
     transfer |-> Boundaries({330, 5000}),
     payment_match |-> Boundaries({560, 700, 840, 1000, 1140}),
     payment_tasks |-> Steps(0, 1, 30),
     loss |-> Boundaries({31, 60, 91, 366}),
     terms |-> Steps(0, 1, 70),
     aging |-> Boundaries({20, 50, 59, 81, 112, 140, 150, 200}),
     credit |-> Boundaries({80, 380, 480, 580, 780, 1080}),
     debt |-> Boundaries({3, 10, 1001}),
     budget |-> Boundaries({40, 100, 250, 1000}),
     schedule |-> Sorted(ToSet(Steps(24 * 25, 8, 24)) \cup ToSet(Steps(24 * 58 + 9, 24, 4)))]
=============================================================================
