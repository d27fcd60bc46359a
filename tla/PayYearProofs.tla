---------------------------- MODULE PayYearProofs ----------------------------
(***************************************************************************)
(* Proofs about PayYear, for all employees, salaries, rates and bonuses.   *)
(*                                                                         *)
(* A term's bonus is counted against the yearly cap of the health          *)
(* insurance by what the other term paid, not by what of it was counted,   *)
(* and either term may be calculated again at any time.  BonusSound says,  *)
(* for as long as no two calculations overlap, that each term has one at   *)
(* most and what was counted of it: no more than was paid, and of both     *)
(* together no more than the cap, the one under way in the place of the    *)
(* one it replaces.                                                        *)
(***************************************************************************)
EXTENDS PayYear, TLAPS, FiniteSetTheorems

-----------------------------------------------------------------------------
(* Sums of two numbers or less.                                            *)

\* f has the sums of g on the sets in dom: a member's number and the sum of the rest.
SumOf(f, g, dom) ==
    f = [s \in dom |-> IF s = {} THEN 0
                       ELSE LET x == CHOOSE y \in s : TRUE IN g[x] + f[s \ {x}]]

LEMMA SumByFirst ==
    ASSUME NEW D, NEW g
    PROVE  SumFunctionOnSet(g, D) = (CHOOSE f : SumOf(f, g, SUBSET D))[D]
BY DEF SumFunctionOnSet, FoldFunctionOnSet, MapThenFoldSet, SumOf

\* For two members the recursion is written out.
LEMMA SumIsWritten ==
    ASSUME NEW x, NEW y, x # y, NEW g, NEW D \in SUBSET {x, y}
    PROVE  \E f : SumOf(f, g, SUBSET D)
<1> DEFINE First(s) == CHOOSE z \in s : TRUE
<1> DEFINE Other(s) == IF First(s) = x THEN y ELSE x
<1> DEFINE One(z) == g[z] + 0
<1> DEFINE f == [s \in SUBSET D |->
        IF s = {} THEN 0 ELSE IF s = {x} THEN One(x) ELSE IF s = {y} THEN One(y)
        ELSE g[First(s)] + One(Other(s))]
<1>1. ASSUME NEW s \in SUBSET D
      PROVE  f[s] = IF s = {} THEN 0 ELSE g[First(s)] + f[s \ {First(s)}]
  <2>1. s = {} \/ s = {x} \/ s = {y} \/ s = {x, y}
    OBVIOUS
  <2>2. First({x}) = x /\ First({y}) = y /\ First({x, y}) \in {x, y}
    OBVIOUS
  <2>3. f[{}] = 0
    OBVIOUS
  <2> HIDE DEF First
  <2>4. CASE s = {}
    BY <2>3, <2>4
  <2>5. CASE s = {x}
    <3>1. s \ {First(s)} = {} /\ f[s] = g[x] + 0
      BY <2>2, <2>5
    <3> QED BY <2>2, <2>3, <2>5, <3>1
  <2>6. CASE s = {y}
    <3>1. s \ {First(s)} = {} /\ f[s] = g[y] + 0
      BY <2>2, <2>6
    <3> QED BY <2>2, <2>3, <2>6, <3>1
  <2>7. CASE s = {x, y}
    <3>1. f[s] = g[First(s)] + One(Other(s))
      BY <2>7
    <3>2. s \ {First(s)} = {Other(s)} /\ Other(s) \in {x, y} /\ {Other(s)} \in SUBSET D
      BY <2>2, <2>7
    <3>3. f[{Other(s)}] = One(Other(s))
      BY <3>2
    <3> HIDE DEF f, Other, One
    <3> QED BY <2>7, <3>1, <3>2, <3>3
  <2> QED BY <2>1, <2>4, <2>5, <2>6, <2>7
<1>2. f = [s \in SUBSET D |-> f[s]]
  OBVIOUS
<1> HIDE DEF f
<1>3. SumOf(f, g, SUBSET D)
  BY <1>1, <1>2 DEF SumOf
<1> QED BY <1>3

LEMMA SumOfTwo ==
    ASSUME NEW x, NEW y, x # y, NEW g, NEW D \in SUBSET {x, y}, \A z \in D : g[z] \in Int
    PROVE  SumFunctionOnSet(g, D) = (IF x \in D THEN g[x] ELSE 0) + (IF y \in D THEN g[y] ELSE 0)
<1> DEFINE f == CHOOSE h : SumOf(h, g, SUBSET D)
<1> DEFINE First(s) == CHOOSE z \in s : TRUE
<1>1. SumOf(f, g, SUBSET D)
  BY SumIsWritten
<1>2. SumFunctionOnSet(g, D) = f[D]
  BY SumByFirst
<1> HIDE DEF f
<1>3. \A s \in SUBSET D : f[s] = IF s = {} THEN 0 ELSE g[First(s)] + f[s \ {First(s)}]
  BY <1>1 DEF SumOf
<1>4. \A s : s # {} => First(s) \in s
  OBVIOUS
<1>5. f[{}] = 0
  BY <1>3
<1> HIDE DEF First
<1>6. \A z \in D : f[{z}] = g[z]
  <2> SUFFICES ASSUME NEW z \in D PROVE f[{z}] = g[z]
    OBVIOUS
  <2>1. First({z}) = z /\ {z} \ {z} = {}
    BY <1>4
  <2>2. f[{z}] = g[z] + f[{}]
    BY <1>3, <2>1
  <2> QED BY <1>5, <2>2
<1>7. D = {} \/ D = {x} \/ D = {y} \/ D = {x, y}
  OBVIOUS
<1>8. CASE D = {x, y}
  <2>1. CASE First(D) = x
    <3>1. D \ {x} = {y}
      BY <1>8
    <3>2. f[D] = g[x] + f[{y}]
      BY <1>3, <1>8, <2>1, <3>1
    <3> QED BY <1>2, <1>6, <1>8, <3>2
  <2>2. CASE First(D) = y
    <3>1. D \ {y} = {x}
      BY <1>8
    <3>2. f[D] = g[y] + f[{x}]
      BY <1>3, <1>8, <2>2, <3>1
    <3> QED BY <1>2, <1>6, <1>8, <3>2
  <2> QED BY <1>4, <1>8, <2>1, <2>2
<1>9. CASE D = {}
  BY <1>2, <1>5, <1>9
<1>10. CASE D = {x}
  BY <1>2, <1>6, <1>10
<1>11. CASE D = {y}
  BY <1>2, <1>6, <1>11
<1> QED BY <1>7, <1>8, <1>9, <1>10, <1>11

-----------------------------------------------------------------------------
(* Premiums.                                                               *)

\* Half a premium is rounded once, with half a yen down.
LEMMA HalfIsRounded ==
    ASSUME NEW a \in Nat, NEW n \in Nat
    PROVE  /\ EmployeeHalf(a, n) \in Nat
           /\ 40000 * EmployeeHalf(a, n) <= 2 * (a * n) + 19999
           /\ 2 * (a * n) + 19999 < 40000 * (EmployeeHalf(a, n) + 1)
<1> DEFINE q == a \div 20000
<1> DEFINE r == a % 20000
<1> DEFINE rest == r * n
<1> DEFINE whole == q * n
<1> DEFINE k == (2 * rest + 19999) \div 40000
<1>1. q \in Nat /\ r \in Nat /\ a = 20000 * q + r
  OBVIOUS
<1>2. rest \in Nat /\ whole \in Nat /\ a * n \in Nat
  <2> HIDE DEF q, r
  <2> QED BY <1>1
<1>3. a * n = 20000 * whole + rest
  <2> HIDE DEF q, r
  <2>1. (20000 * q + r) * n = 20000 * (q * n) + r * n
    BY <1>1
  <2> QED BY <1>1, <2>1
<1>4. EmployeeHalf(a, n) = whole + k
  <2>1. 2 * r * n = 2 * (r * n)
    <3> HIDE DEF r
    <3> QED BY <1>1
  <2> QED BY <2>1 DEF EmployeeHalf, ShareHalfDown
<1> DEFINE product == a * n
<1> DEFINE half == EmployeeHalf(a, n)
<1> HIDE DEF rest, whole, product, half
<1>5. k \in Nat /\ 40000 * k <= 2 * rest + 19999 /\ 2 * rest + 19999 < 40000 * (k + 1)
  BY <1>2
<1> HIDE DEF k
<1>6. product = 20000 * whole + rest /\ half = whole + k /\ product \in Nat
  BY <1>2, <1>3, <1>4 DEF product, half
<1>7. half \in Nat /\ 40000 * half <= 2 * product + 19999 /\ 2 * product + 19999 < 40000 * (half + 1)
  BY <1>2, <1>5, <1>6
<1> QED BY <1>7 DEF product, half

\* Of an amount that is taken apart the halves differ from the half of the whole by a yen at most.
LEMMA HalvesAreLess ==
    ASSUME NEW a \in Nat, NEW b \in Nat, NEW c \in Nat, a + b <= c, NEW n \in Nat
    PROVE  /\ EmployeeHalf(a, n) \in Nat /\ EmployeeHalf(b, n) \in Nat /\ EmployeeHalf(c, n) \in Nat
           /\ EmployeeHalf(a, n) + EmployeeHalf(b, n) <= EmployeeHalf(c, n) + 1
           /\ EmployeeHalf(a, n) <= EmployeeHalf(c, n)
<1>1. a * n \in Nat /\ b * n \in Nat /\ c * n \in Nat
  OBVIOUS
<1>2. a * n + b * n <= c * n
  <2> DEFINE rest == c - (a + b)
  <2>1. rest \in Nat /\ c = (a + b) + rest
    OBVIOUS
  <2> HIDE DEF rest
  <2>2. ((a + b) + rest) * n = (a * n + b * n) + rest * n
    BY <2>1
  <2>3. rest * n \in Nat
    BY <2>1
  <2> QED BY <1>1, <2>1, <2>2, <2>3
<1> DEFINE an == a * n
<1> DEFINE bn == b * n
<1> DEFINE cn == c * n
<1> DEFINE ha == EmployeeHalf(a, n)
<1> DEFINE hb == EmployeeHalf(b, n)
<1> DEFINE hc == EmployeeHalf(c, n)
<1>3. /\ ha \in Nat /\ 40000 * ha <= 2 * an + 19999
      /\ hb \in Nat /\ 40000 * hb <= 2 * bn + 19999
      /\ hc \in Nat /\ 2 * cn + 19999 < 40000 * (hc + 1)
  <2>1. ha \in Nat /\ 40000 * ha <= 2 * an + 19999
    BY HalfIsRounded
  <2>2. hb \in Nat /\ 40000 * hb <= 2 * bn + 19999
    BY HalfIsRounded
  <2>3. hc \in Nat /\ 2 * cn + 19999 < 40000 * (hc + 1)
    BY HalfIsRounded
  <2> QED BY <2>1, <2>2, <2>3
<1>4. an \in Nat /\ bn \in Nat /\ cn \in Nat /\ an + bn <= cn
  BY <1>1, <1>2
<1> HIDE DEF an, bn, cn, ha, hb, hc
<1>5. ha + hb <= hc + 1 /\ ha <= hc
  BY <1>3, <1>4
<1> QED BY <1>3, <1>5 DEF ha, hb, hc

-----------------------------------------------------------------------------
(* The bonuses of a year.                                                  *)

CAP == HEALTH_STANDARD_BONUS_ANNUAL_CAP

Other(term) == IF term = "summer" THEN "winter" ELSE "summer"

PensionOf(amount) ==
    EmployeeHalf(AtMost(FloorTo(amount, 1000), PENSION_STANDARD_BONUS_PER_PAYMENT_CAP), PENSION_INSURANCE_RATE)

\* What an employee pays on a bonus of which so much counts for the health insurance.
Premium(counted, care, amount) ==
    EmployeeHalf(counted, health_rate) + (IF care THEN EmployeeHalf(counted, care_rate) ELSE 0)
        + PensionOf(amount)

\* A record that counted so much of its bonus.
Counted(record, counted) ==
    /\ record.bonus_amount \in Nat /\ counted \in Nat
    /\ counted <= record.bonus_amount /\ counted <= CAP
    /\ \E care \in BOOLEAN : record.social_insurance = Premium(counted, care, record.bonus_amount)

\* What was counted of the bonuses of an employee is within the cap, taken together.
Within(held, records) ==
    \E counted \in [BonusTerms -> Nat] :
        /\ \A t \in held : Counted(records[t], counted[t])
        /\ BonusTerms \subseteq held => counted["summer"] + counted["winter"] <= CAP

\* The terms that paid an employee, and the records, of one calculation for each term.
HeldBy(e) == {t \in BonusTerms : bonus[t] # <<>> /\ e \in DOMAIN bonus[t][1]}
RecordsOf(e) == [t \in BonusTerms |-> bonus[t][1][e]]

\* What will be held and recorded when a request has committed.
HeldNext(e, r) == (HeldBy(e) \ {r.term}) \cup (IF e \in DOMAIN r.new THEN {r.term} ELSE {})
RecordsNext(e, r) == [RecordsOf(e) EXCEPT ![r.term] = r.new[e]]

\* A request is about to replace the calculation that stands.
RequestSound(r) ==
    /\ r = [term |-> r.term, months |-> r.months, today |-> r.today, deleted |-> r.deleted, new |-> r.new]
    /\ r.term \in BonusTerms /\ r.months \in BONUS_MONTHS
    /\ r.deleted = Len(bonus[r.term])
    /\ r.new # None => \A e \in Employees : Within(HeldNext(e, r), RecordsNext(e, r))

BonusSound ==
    /\ bonus = [t \in BonusTerms |-> bonus[t]]
    /\ \A t \in BonusTerms : bonus[t] = <<>> \/ bonus[t] = <<bonus[t][1]>>
    /\ \A e \in Employees : Within(HeldBy(e), RecordsOf(e))
    /\ calculating = [c \in Clerks |-> calculating[c]]
    /\ \A c, d \in Clerks : calculating[c] # None /\ calculating[d] # None => c = d
    /\ \A c \in Clerks : calculating[c] # None => RequestSound(calculating[c])

\* The rates are natural numbers.
LEMMA RatesAreNatural == health_rate \in Nat /\ care_rate \in Nat
BY MasterAssumption DEF health_rate, care_rate, DEFAULT_HEALTH_INSURANCE_RATE, DEFAULT_CARE_INSURANCE_RATE

\* A list of one or none, and a pair.
LEMMA OneOrNone ==
    ASSUME NEW s, NEW x, s = <<>> \/ s = <<x>>
    PROVE  s \in Seq({x}) /\ Len(s) = (IF s = <<>> THEN 0 ELSE 1) /\ DOMAIN s = (IF s = <<>> THEN {} ELSE {1})
<1>1. Len(<<x>>) = 1 /\ <<x>> \in Seq({x}) /\ <<x>> # <<>> /\ DOMAIN <<x>> = {1}
  OBVIOUS
<1>2. CASE s = <<>>
  BY <1>2
<1>3. CASE s = <<x>>
  BY <1>1, <1>3
<1> QED BY <1>2, <1>3

LEMMA PairIs == ASSUME NEW t, NEW k PROVE <<t, k>>[1] = t /\ <<t, k>>[2] = k
OBVIOUS

\* The rows of an employee are the first of each term.
LEMMA RowsAre ==
    ASSUME BonusSound, NEW e
    PROVE  /\ BonusRows(e) = {<<t, 1>> : t \in HeldBy(e)}
           /\ \A t \in BonusTerms : BonusOf(e, <<t, 1>>) = RecordsOf(e)[t]
           /\ \A t \in BonusTerms : Len(bonus[t]) = IF bonus[t] = <<>> THEN 0 ELSE 1
<1>0. \A t \in BonusTerms : bonus[t] = <<>> \/ bonus[t] = <<bonus[t][1]>>
  BY DEF BonusSound
<1>1. \A t \in BonusTerms : DOMAIN bonus[t] = IF bonus[t] = <<>> THEN {} ELSE {1}
  BY <1>0, OneOrNone
<1>2. \A t \in BonusTerms : Len(bonus[t]) = IF bonus[t] = <<>> THEN 0 ELSE 1
  BY <1>0, OneOrNone
<1>3. \A n : n \in BonusRows(e) <=> \E t \in HeldBy(e) : n = <<t, 1>>
  <2> SUFFICES ASSUME NEW n PROVE n \in BonusRows(e) <=> \E t \in HeldBy(e) : n = <<t, 1>>
    OBVIOUS
  <2>1. ASSUME n \in BonusRows(e) PROVE \E t \in HeldBy(e) : n = <<t, 1>>
    <3>1. PICK t \in BonusTerms : n \in {t} \X DOMAIN bonus[t]
      BY <2>1 DEF BonusRows
    <3>2. n = <<t, 1>> /\ bonus[t] # <<>> /\ n[1] = t /\ n[2] = 1
      BY <1>1, <3>1
    <3>3. e \in DOMAIN bonus[n[1]][n[2]]
      BY <2>1 DEF BonusRows
    <3> QED BY <3>2, <3>3 DEF HeldBy
  <2>2. ASSUME NEW t \in HeldBy(e), n = <<t, 1>> PROVE n \in BonusRows(e)
    <3>1. t \in BonusTerms /\ bonus[t] # <<>> /\ e \in DOMAIN bonus[t][1]
      BY DEF HeldBy
    <3>2. n[1] = t /\ n[2] = 1 /\ n \in {t} \X DOMAIN bonus[t]
      BY <1>1, <2>2, <3>1
    <3> QED BY <3>1, <3>2 DEF BonusRows
  <2> QED BY <2>1, <2>2
<1>4. \A t \in BonusTerms : BonusOf(e, <<t, 1>>) = RecordsOf(e)[t]
  BY DEF BonusOf, RecordsOf
<1> QED BY <1>2, <1>3, <1>4

\* What the other term paid, if the own records are deleted.
LEMMA PaidByTheOther ==
    ASSUME BonusSound, NEW e \in Employees, NEW term \in BonusTerms
    PROVE  PaidBonus(e, term, Len(bonus[term]))
               = IF Other(term) \in HeldBy(e) THEN RecordsOf(e)[Other(term)].bonus_amount ELSE 0
<1> DEFINE o == Other(term)
<1> DEFINE rows == BonusRows(e)
<1> DEFINE D == {n \in rows : ~(n[1] = term /\ n[2] <= Len(bonus[term]))}
<1> DEFINE g == [n \in D |-> BonusOf(e, n).bonus_amount]
<1> DEFINE x == <<term, 1>>
<1> DEFINE y == <<o, 1>>
<1>1. PaidBonus(e, term, Len(bonus[term])) = SumFunctionOnSet(g, D)
  BY DEF PaidBonus, PaidIn, SumOver, SumFunction
<1>2. rows = {<<t, 1>> : t \in HeldBy(e)} /\ BonusOf(e, y) = RecordsOf(e)[o]
  BY RowsAre DEF Other, BonusTerms
<1>3. HeldBy(e) \subseteq {term, o} /\ term # o
  BY DEF HeldBy, Other, BonusTerms
<1>4. term \in HeldBy(e) => Len(bonus[term]) = 1
  BY RowsAre DEF HeldBy
<1>5. D = IF o \in HeldBy(e) THEN {y} ELSE {}
  <2> HIDE DEF rows, o
  <2>1. \A t : <<t, 1>>[1] = t /\ <<t, 1>>[2] = 1
    BY PairIs
  <2>2. x \notin D
    <3> SUFFICES ASSUME x \in rows PROVE x[1] = term /\ x[2] <= Len(bonus[term])
      OBVIOUS
    <3>1. term \in HeldBy(e)
      <4>1. PICK t \in HeldBy(e) : x = <<t, 1>>
        BY <1>2
      <4> QED BY <2>1, <4>1
    <3>2. x[1] = term /\ x[2] = 1
      BY PairIs
    <3>3. Len(bonus[term]) = 1
      BY <1>4, <3>1
    <3> HIDE DEF x
    <3> QED BY <3>2, <3>3
  <2>3. y \in D <=> o \in HeldBy(e)
    BY <1>2, <1>3, <2>1
  <2>4. D \subseteq {x, y}
    BY <1>2, <1>3
  <2> QED BY <2>2, <2>3, <2>4
<1>6. o \in HeldBy(e) => RecordsOf(e)[o].bonus_amount \in Int
  BY DEF BonusSound, Within, Counted
<1>7. \A n \in D : g[n] = RecordsOf(e)[o].bonus_amount /\ g[n] \in Int
  <2> HIDE DEF rows, o
  <2>1. ASSUME NEW n \in D PROVE n = y /\ o \in HeldBy(e)
    BY <1>5
  <2> HIDE DEF y, D
  <2> QED BY <1>2, <1>6, <2>1
<1>8. D \in SUBSET {x, y} /\ x # y /\ x \notin D
  <2> HIDE DEF rows, o, D
  <2> QED BY <1>3, <1>5
<1> HIDE DEF D, g, o, x, y
<1>9. SumFunctionOnSet(g, D) = (IF x \in D THEN g[x] ELSE 0) + (IF y \in D THEN g[y] ELSE 0)
  BY <1>7, <1>8, SumOfTwo
<1> QED BY <1>1, <1>5, <1>6, <1>7, <1>8, <1>9 DEF o

\* What a new record counts, beside what the other term has paid.
LEMMA RecordCounts ==
    ASSUME NEW e \in Employees, NEW months \in BONUS_MONTHS, NEW today, NEW paid \in Nat
    PROVE  \E counted \in Nat :
              /\ Counted(BonusRecord(e, months, today, paid), counted)
              /\ paid <= CAP => counted + paid <= CAP
              /\ paid > CAP => counted = 0
<1> DEFINE amount == MASTER[e].base_salary * months
<1> DEFINE base == FloorTo(amount, 1000)
<1> DEFINE counted == AtMost(base, Over(CAP, paid))
<1> DEFINE record == BonusRecord(e, months, today, paid)
<1> DEFINE care == care_insurance_applicable(MASTER[e].birth, today)
<1>1. amount \in Nat
  <2>1. MASTER[e].base_salary \in Nat /\ months \in Nat
    BY MasterAssumption
  <2> QED BY <2>1
<1>2. record.bonus_amount = amount
  BY DEF BonusRecord
<1>3. record.social_insurance = Premium(counted, care, amount)
  BY DEF BonusRecord, standard_bonus_amounts, employee_premium, Premium, PensionOf, CAP
<1>4. care \in BOOLEAN
  BY DEF care_insurance_applicable
<1> HIDE DEF amount, care, record
<1>5. base \in Nat /\ base <= amount
  BY <1>1 DEF FloorTo
<1> HIDE DEF base
<1>6. /\ counted \in Nat /\ counted <= amount /\ counted <= CAP
      /\ paid <= CAP => counted + paid <= CAP
      /\ paid > CAP => counted = 0
  BY <1>1, <1>5 DEF AtMost, AtLeast, Over, CAP, HEALTH_STANDARD_BONUS_ANNUAL_CAP
<1> HIDE DEF counted
<1>7. Counted(record, counted)
  BY <1>1, <1>2, <1>3, <1>4, <1>6 DEF Counted
<1> QED BY <1>6, <1>7 DEF record

\* The calculation of a term, beside what the other one has paid, is within the cap.
LEMMA NewIsWithin ==
    ASSUME BonusSound, NEW r, NEW e \in Employees,
           r.term \in BonusTerms, r.months \in BONUS_MONTHS, r.deleted = Len(bonus[r.term]),
           e \in DOMAIN r.new =>
               r.new[e] = BonusRecord(e, r.months, r.today, PaidBonus(e, r.term, r.deleted))
    PROVE  Within(HeldNext(e, r), RecordsNext(e, r))
<1> DEFINE term == r.term
<1> DEFINE o == Other(term)
<1> DEFINE held == HeldNext(e, r)
<1> DEFINE records == RecordsNext(e, r)
<1>0. term \in BonusTerms /\ r.months \in BONUS_MONTHS /\ r.deleted = Len(bonus[term])
  OBVIOUS
<1>1. o \in BonusTerms /\ o # term /\ BonusTerms = {term, o}
  BY <1>0 DEF BonusTerms, Other
<1>2. /\ records[term] = r.new[e] /\ records[o] = RecordsOf(e)[o]
      /\ o \in held <=> o \in HeldBy(e)
      /\ term \in held <=> e \in DOMAIN r.new
      /\ held \subseteq BonusTerms
  BY <1>0, <1>1 DEF HeldNext, RecordsNext, RecordsOf, HeldBy
<1>3. PICK before \in [BonusTerms -> Nat] : \A t \in HeldBy(e) : Counted(RecordsOf(e)[t], before[t])
  BY DEF BonusSound, Within
<1> DEFINE paid == IF o \in HeldBy(e) THEN RecordsOf(e)[o].bonus_amount ELSE 0
<1>4. paid \in Nat /\ PaidBonus(e, term, r.deleted) = paid
  <2>1. paid \in Nat
    BY <1>3 DEF Counted
  <2> QED BY <1>0, <2>1, PaidByTheOther
<1> HIDE DEF paid
<1>5. PICK counted \in Nat :
        /\ e \in DOMAIN r.new => Counted(r.new[e], counted)
        /\ paid <= CAP => counted + paid <= CAP
        /\ paid > CAP => counted = 0
  <2>1. PICK counted \in Nat :
          /\ Counted(BonusRecord(e, r.months, r.today, paid), counted)
          /\ paid <= CAP => counted + paid <= CAP
          /\ paid > CAP => counted = 0
    BY <1>0, <1>4, RecordCounts
  <2> QED BY <1>4, <2>1
<1> HIDE DEF records, held, o, term
<1> DEFINE after == [before EXCEPT ![term] = counted]
<1>6. after \in [BonusTerms -> Nat] /\ after[term] = counted /\ after[o] = before[o]
  BY <1>1
<1> HIDE DEF after
<1>7. \A t \in held : Counted(records[t], after[t])
  BY <1>1, <1>2, <1>3, <1>5, <1>6
<1>8. ASSUME BonusTerms \subseteq held
      PROVE  after["summer"] + after["winter"] <= CAP
  <2>1. o \in HeldBy(e) /\ Counted(RecordsOf(e)[o], before[o])
    BY <1>1, <1>2, <1>3, <1>8
  <2>2. before[o] \in Nat /\ before[o] <= paid /\ before[o] <= CAP
    BY <2>1 DEF Counted, paid
  <2>3. counted + before[o] <= CAP
    BY <1>4, <1>5, <2>2 DEF CAP, HEALTH_STANDARD_BONUS_ANNUAL_CAP
  <2>4. after[term] + after[o] <= CAP
    BY <1>6, <2>3
  <2>5. after[term] \in Nat /\ after[o] \in Nat
    BY <1>6, <2>2
  <2>6. after[o] + after[term] <= CAP
    BY <2>4, <2>5
  <2>7. CASE term = "summer"
    BY <2>4, <2>7 DEF o, Other
  <2>8. CASE term = "winter"
    BY <2>6, <2>8 DEF o, Other
  <2> QED BY <1>0, <2>7, <2>8 DEF BonusTerms
<1>9. Within(held, records)
  BY <1>6, <1>7, <1>8 DEF Within
<1> QED BY <1>9 DEF held, records

\* Nothing is under way when a calculation begins, unless it overlaps.
LEMMA BeginIsSound ==
    ASSUME BonusSound, NEW c \in Clerks, NEW term \in BonusTerms, NEW months \in BONUS_MONTHS, NEW today,
           calculate_bonus(c, term, months, today), ~bonuses_overlapped'
    PROVE  BonusSound'
<1> DEFINE r == [term |-> term, months |-> months, today |-> today, deleted |-> Len(bonus[term]), new |-> None]
<1>1. /\ \A d \in Clerks : calculating[d] = None
      /\ calculating' = [calculating EXCEPT ![c] = r]
      /\ bonus' = bonus
  BY DEF calculate_bonus
<1>2. RequestSound(r)
  BY DEF RequestSound
<1> HIDE DEF r
<1>3. \A d \in Clerks : calculating'[d] = IF d = c THEN r ELSE None
  BY <1>1 DEF BonusSound
<1>4. ASSUME NEW d \in Clerks, calculating'[d] # None
      PROVE  d = c /\ RequestSound(calculating[d])'
  <2>1. d = c /\ calculating'[d] = r
    BY <1>3, <1>4
  <2> QED BY <1>1, <1>2, <2>1 DEF RequestSound, HeldNext, RecordsNext, HeldBy, RecordsOf
<1>5. calculating' = [d \in Clerks |-> calculating'[d]]
  BY <1>1 DEF BonusSound
<1> QED BY <1>1, <1>4, <1>5 DEF BonusSound, HeldBy, RecordsOf

LEMMA ReadIsSound ==
    ASSUME BonusSound, NEW c \in Clerks, read_paid(c)
    PROVE  BonusSound'
<1> DEFINE r == calculating[c]
<1> DEFINE new == [e \in employed |-> BonusRecord(e, r.months, r.today, PaidBonus(e, r.term, r.deleted))]
<1> DEFINE next == [r EXCEPT !.new = new]
<1>1. /\ r # None /\ RequestSound(r)
      /\ calculating' = [calculating EXCEPT ![c] = IF Calculated(new) THEN next ELSE None]
      /\ bonus' = bonus
  BY DEF read_paid, BonusSound
<1>2. \A d \in Clerks : d # c => calculating[d] = None
  BY <1>1 DEF BonusSound
<1>3. \A e \in employed : new[e] = BonusRecord(e, r.months, r.today, PaidBonus(e, r.term, r.deleted))
  OBVIOUS
<1>4. DOMAIN new = employed
  OBVIOUS
<1> HIDE DEF new
<1>5. /\ next = [term |-> r.term, months |-> r.months, today |-> r.today, deleted |-> r.deleted, new |-> new]
      /\ next.term = r.term /\ next.months = r.months /\ next.today = r.today
      /\ next.deleted = r.deleted /\ next.new = new
  BY <1>1 DEF RequestSound
<1>6. RequestSound(next)
  <2>1. ASSUME new # None, NEW e \in Employees
        PROVE  Within(HeldNext(e, next), RecordsNext(e, next))
    <3>1. ASSUME e \in DOMAIN next.new
          PROVE  next.new[e] = BonusRecord(e, next.months, next.today, PaidBonus(e, next.term, next.deleted))
      BY <1>3, <1>4, <1>5, <3>1
    <3> HIDE DEF r, next
    <3>2. next.term \in BonusTerms /\ next.months \in BONUS_MONTHS /\ next.deleted = Len(bonus[next.term])
      BY <1>1, <1>5 DEF RequestSound
    <3> QED BY <3>1, <3>2, NewIsWithin
  <2> HIDE DEF r, next
  <2> QED BY <1>1, <1>5, <2>1 DEF RequestSound
<1> HIDE DEF next, r
<1>7. \A d \in Clerks : calculating'[d] = None \/ (d = c /\ calculating'[d] = next)
  BY <1>1, <1>2 DEF BonusSound
<1>8. ASSUME NEW d \in Clerks, calculating'[d] # None
      PROVE  d = c /\ RequestSound(calculating[d])'
  <2>1. d = c /\ calculating'[d] = next
    BY <1>7, <1>8
  <2> QED BY <1>1, <1>6, <2>1 DEF RequestSound, HeldNext, RecordsNext, HeldBy, RecordsOf
<1>9. calculating' = [d \in Clerks |-> calculating'[d]]
  BY <1>1 DEF BonusSound
<1> QED BY <1>1, <1>8, <1>9 DEF BonusSound, HeldBy, RecordsOf

LEMMA CommitIsSound ==
    ASSUME BonusSound, NEW c \in Clerks, commit_bonus(c)
    PROVE  BonusSound'
<1> DEFINE r == calculating[c]
<1> DEFINE old == bonus[r.term]
<1>1. /\ r # None /\ RequestSound(r) /\ r.new # None
      /\ bonus' = [bonus EXCEPT ![r.term] = Append(SubSeq(old, r.deleted + 1, Len(old)), r.new)]
  BY DEF commit_bonus, BonusSound
<1>2. \A d \in Clerks : d # c => calculating[d] = None
  BY <1>1 DEF BonusSound
<1>3. calculating' = [d \in Clerks |-> None]
  BY <1>2 DEF commit_bonus
<1>4. r.term \in BonusTerms /\ r.deleted = Len(old)
  BY <1>1 DEF RequestSound
<1>5. Append(SubSeq(old, r.deleted + 1, Len(old)), r.new) = <<r.new>>
  <2> DEFINE x == bonus[r.term][1]
  <2>1. old = <<>> \/ old = <<x>>
    BY <1>4 DEF BonusSound
  <2> HIDE DEF x
  <2>2. old \in Seq({x}) /\ Len(old) \in Nat
    BY <2>1, OneOrNone
  <2> HIDE DEF old, r
  <2>3. SubSeq(old, r.deleted + 1, Len(old)) = <<>>
    BY <1>4, <2>2
  <2>4. \A s : s = <<>> => Append(s, r.new) = <<r.new>>
    OBVIOUS
  <2> QED BY <2>3, <2>4
<1> HIDE DEF r, old
<1>6. bonus' = [bonus EXCEPT ![r.term] = <<r.new>>]
  BY <1>1, <1>5
<1>7. /\ bonus'[r.term] = <<r.new>>
      /\ \A t \in BonusTerms : t # r.term => bonus'[t] = bonus[t]
      /\ bonus' = [t \in BonusTerms |-> bonus'[t]]
  BY <1>4, <1>6 DEF BonusSound
<1>8. <<r.new>> # <<>> /\ <<r.new>>[1] = r.new
  OBVIOUS
<1>9. ASSUME NEW e \in Employees
      PROVE  Within(HeldBy(e), RecordsOf(e))'
  <2>1. HeldBy(e)' = HeldNext(e, r)
    BY <1>4, <1>7, <1>8 DEF HeldBy, HeldNext
  <2>2. RecordsOf(e)' = RecordsNext(e, r)
    BY <1>4, <1>7, <1>8 DEF RecordsOf, RecordsNext
  <2>3. Within(HeldNext(e, r), RecordsNext(e, r))
    BY <1>1 DEF RequestSound
  <2> QED BY <2>1, <2>2, <2>3 DEF Within
<1>10. \A t \in BonusTerms : bonus'[t] = <<>> \/ bonus'[t] = <<bonus'[t][1]>>
  BY <1>7, <1>8 DEF BonusSound
<1> QED BY <1>3, <1>7, <1>9, <1>10 DEF BonusSound

\* No other operation touches a bonus.
LEMMA BonusesStaySound ==
    ASSUME BonusSound, [PayNext]_payVars, ~bonuses_overlapped'
    PROVE  BonusSound'
<1>1. ASSUME NEW c \in Clerks, NEW term \in BonusTerms, NEW months \in BONUS_MONTHS, NEW today \in BONUS_DAYS,
             calculate_bonus(c, term, months, today)
      PROVE  BonusSound'
  BY <1>1, BeginIsSound
<1>2. ASSUME NEW c \in Clerks, read_paid(c) \/ commit_bonus(c)
      PROVE  BonusSound'
  BY <1>2, ReadIsSound, CommitIsSound
<1>3. CASE UNCHANGED <<bonus, calculating>>
  BY <1>3 DEF BonusSound, HeldBy, RecordsOf, RequestSound, HeldNext, RecordsNext
<1> QED BY <1>1, <1>2, <1>3
    DEF PayNext, payVars, Monthly, Bonuses, YearEnd, calculate_payroll, calculate_year_end_adjustment,
        create_employee, delete_employee

\* What has overlapped stays so.
LEMMA OverlapsStay ==
    ASSUME [PayNext]_payVars, bonuses_overlapped
    PROVE  bonuses_overlapped'
BY DEF PayNext, payVars, Monthly, Bonuses, YearEnd, calculate_payroll, calculate_bonus, read_paid, commit_bonus,
       calculate_year_end_adjustment, create_employee, delete_employee

\* A year begins without bonuses.
LEMMA InitBonuses == PayInit => BonusSound
<1> SUFFICES ASSUME PayInit PROVE BonusSound
  OBVIOUS
<1>1. bonus = [t \in BonusTerms |-> <<>>] /\ calculating = [c \in Clerks |-> None]
  BY DEF PayInit
<1>2. ASSUME NEW e \in Employees
      PROVE  Within(HeldBy(e), RecordsOf(e))
  <2>1. [t \in BonusTerms |-> 0] \in [BonusTerms -> Nat] /\ HeldBy(e) = {}
    BY <1>1 DEF HeldBy
  <2> QED BY <2>1 DEF Within, BonusTerms
<1> QED BY <1>1, <1>2 DEF BonusSound

\* The premium is rounded once for the cap, and for each of the bonuses at most.
LEMMA WithinIsCapped ==
    ASSUME BonusSound, NEW e \in Employees
    PROVE  LET pension(n) == EmployeeHalf(AtMost(FloorTo(BonusOf(e, n).bonus_amount, 1000),
                                                 PENSION_STANDARD_BONUS_PER_PAYMENT_CAP),
                                          PENSION_INSURANCE_RATE)
           IN  BonusSocial(e)
                   <= EmployeeHalf(HEALTH_STANDARD_BONUS_ANNUAL_CAP, health_rate)
                        + EmployeeHalf(HEALTH_STANDARD_BONUS_ANNUAL_CAP, care_rate)
                        + SumOver(BonusRows(e), pension) + 2 * Cardinality(BonusTerms)
<1> DEFINE rows == BonusRows(e)
<1> DEFINE held == HeldBy(e)
<1> DEFINE records == RecordsOf(e)
<1> DEFINE socials == [n \in rows |-> BonusOf(e, n).social_insurance]
<1> DEFINE parts == [n \in rows |-> PensionOf(BonusOf(e, n).bonus_amount)]
<1> DEFINE social == [t \in held |-> records[t].social_insurance]
<1> DEFINE pension == [t \in held |-> PensionOf(records[t].bonus_amount)]
<1> DEFINE health == EmployeeHalf(CAP, health_rate)
<1> DEFINE care == EmployeeHalf(CAP, care_rate)
<1> DEFINE Of(f, t) == IF t \in held THEN f[t] ELSE 0
<1>0. held \subseteq BonusTerms /\ BonusTerms = {"summer", "winter"}
  BY DEF HeldBy, BonusTerms
<1>1. BonusSocial(e) = SumFunctionOnSet(socials, rows)
  BY DEF BonusSocial, SumOver, SumFunction
<1>2. SumFunction([n \in rows |-> PensionOf(BonusOf(e, n).bonus_amount)]) = SumFunctionOnSet(parts, rows)
  BY DEF SumFunction
<1>3. PICK counted \in [BonusTerms -> Nat] :
        /\ \A t \in held : Counted(records[t], counted[t])
        /\ BonusTerms \subseteq held => counted["summer"] + counted["winter"] <= CAP
  BY DEF BonusSound, Within
<1>4. health \in Nat /\ care \in Nat /\ health_rate \in Nat /\ care_rate \in Nat /\ CAP \in Nat
  <2>1. CAP \in Nat /\ health_rate \in Nat /\ care_rate \in Nat
    BY RatesAreNatural DEF CAP, HEALTH_STANDARD_BONUS_ANNUAL_CAP
  <2> HIDE DEF held, social, pension, rows, records, socials, parts
  <2>2. EmployeeHalf(CAP, health_rate) \in Nat
    BY <2>1, HalfIsRounded
  <2>3. EmployeeHalf(CAP, care_rate) \in Nat
    BY <2>1, HalfIsRounded
  <2> QED BY <2>1, <2>2, <2>3
<1> DEFINE x == [t \in BonusTerms |-> IF t \in held THEN EmployeeHalf(counted[t], health_rate) ELSE 0]
<1> DEFINE y == [t \in BonusTerms |-> IF t \in held THEN EmployeeHalf(counted[t], care_rate) ELSE 0]
<1>5. ASSUME NEW t \in held
      PROVE  /\ social[t] \in Int /\ pension[t] \in Int
             /\ social[t] <= (x[t] + y[t]) + pension[t]
  <2> DEFINE record == records[t]
  <2> DEFINE base == AtMost(FloorTo(record.bonus_amount, 1000), PENSION_STANDARD_BONUS_PER_PAYMENT_CAP)
  <2>1. t \in BonusTerms /\ Counted(record, counted[t])
    BY <1>0, <1>3
  <2>2. base \in Nat
    <3>1. record.bonus_amount \in Nat
      BY <2>1 DEF Counted
    <3> HIDE DEF record
    <3> QED BY <3>1 DEF AtMost, FloorTo, PENSION_STANDARD_BONUS_PER_PAYMENT_CAP
  <2> HIDE DEF base
  <2>3. EmployeeHalf(base, PENSION_INSURANCE_RATE) \in Nat
    <3> DEFINE rate == PENSION_INSURANCE_RATE
    <3>1. rate \in Nat
      BY DEF PENSION_INSURANCE_RATE
    <3> HIDE DEF rate, held, social, pension, x, y, health, care
    <3>2. EmployeeHalf(base, rate) \in Nat
      BY <2>2, <3>1, HalfIsRounded
    <3> QED BY <3>2 DEF rate
  <2>4. PensionOf(record.bonus_amount) \in Nat
    BY <2>3 DEF PensionOf, base
  <2>5. PICK cared \in BOOLEAN : record.social_insurance = Premium(counted[t], cared, record.bonus_amount)
    BY <2>1 DEF Counted
  <2>6. /\ EmployeeHalf(counted[t], health_rate) \in Nat
        /\ EmployeeHalf(counted[t], care_rate) \in Nat
    BY <1>4, <2>1, HalfIsRounded DEF Counted
  <2>7. /\ social[t] = record.social_insurance /\ pension[t] = PensionOf(record.bonus_amount)
        /\ x[t] = EmployeeHalf(counted[t], health_rate) /\ y[t] = EmployeeHalf(counted[t], care_rate)
    BY <2>1
  <2> HIDE DEF record, social, pension, x, y, held
  <2> QED BY <2>4, <2>5, <2>6, <2>7 DEF Premium
<1> DEFINE sum == SumFunctionOnSet(socials, rows)
<1> DEFINE pensions == SumFunctionOnSet(parts, rows)
<1>6. /\ sum = Of(social, "summer") + Of(social, "winter")
      /\ pensions = Of(pension, "summer") + Of(pension, "winter")
  <2> DEFINE s == "summer"
  <2> DEFINE w == "winter"
  <2> DEFINE x1 == <<s, 1>>
  <2> DEFINE y1 == <<w, 1>>
  <2>1. rows = {<<t, 1>> : t \in held} /\ \A t \in BonusTerms : BonusOf(e, <<t, 1>>) = records[t]
    BY RowsAre
  <2>2. s # w /\ held \subseteq {s, w} /\ {s, w} \subseteq BonusTerms
    BY <1>0
  <2>3. \A t \in held : social[t] \in Int /\ pension[t] \in Int
    BY <1>5
  <2> HIDE DEF s, w, held, records, x, y, health, care
  <2>4. rows \in SUBSET {x1, y1} /\ x1 # y1 /\ (x1 \in rows <=> s \in held) /\ (y1 \in rows <=> w \in held)
    <3> HIDE DEF rows
    <3> QED BY <2>1, <2>2
  <2>5. /\ s \in held => socials[x1] = social[s] /\ parts[x1] = pension[s]
        /\ w \in held => socials[y1] = social[w] /\ parts[y1] = pension[w]
    <3>1. BonusOf(e, x1) = records[s] /\ BonusOf(e, y1) = records[w]
      BY <2>1, <2>2
    <3> HIDE DEF rows, x1, y1
    <3> QED BY <2>4, <3>1
  <2> HIDE DEF rows, x1, y1, social, pension, socials, parts
  <2>6. \A n \in rows : socials[n] \in Int /\ parts[n] \in Int
    BY <2>3, <2>4, <2>5
  <2>7. sum = (IF x1 \in rows THEN socials[x1] ELSE 0) + (IF y1 \in rows THEN socials[y1] ELSE 0)
    BY <2>4, <2>6, SumOfTwo
  <2>8. pensions = (IF x1 \in rows THEN parts[x1] ELSE 0) + (IF y1 \in rows THEN parts[y1] ELSE 0)
    BY <2>4, <2>6, SumOfTwo
  <2>9. sum = Of(social, s) + Of(social, w) /\ pensions = Of(pension, s) + Of(pension, w)
    BY <2>4, <2>5, <2>7, <2>8
  <2> QED BY <2>9 DEF s, w
<1>7. /\ x["summer"] + x["winter"] <= health + 1 /\ x["summer"] \in Nat /\ x["winter"] \in Nat
      /\ y["summer"] + y["winter"] <= care + 1 /\ y["summer"] \in Nat /\ y["winter"] \in Nat
  <2> DEFINE a == IF "summer" \in held THEN counted["summer"] ELSE 0
  <2> DEFINE b == IF "winter" \in held THEN counted["winter"] ELSE 0
  <2>1. a \in Nat /\ b \in Nat /\ a + b <= CAP
    <3>1. \A t \in held : counted[t] \in Nat /\ counted[t] <= CAP
      BY <1>0, <1>3 DEF Counted
    <3>2. "summer" \in held /\ "winter" \in held => counted["summer"] + counted["winter"] <= CAP
      BY <1>0, <1>3
    <3> HIDE DEF held
    <3> QED BY <1>4, <3>1, <3>2
  <2>2. \A n \in Nat : EmployeeHalf(0, n) = 0
    BY DEF EmployeeHalf, ShareHalfDown
  <2>3. /\ x["summer"] = EmployeeHalf(a, health_rate) /\ x["winter"] = EmployeeHalf(b, health_rate)
        /\ y["summer"] = EmployeeHalf(a, care_rate) /\ y["winter"] = EmployeeHalf(b, care_rate)
    <3> HIDE DEF held
    <3> QED BY <1>0, <1>4, <2>2
  <2> HIDE DEF a, b, x, y
  <2>4. /\ EmployeeHalf(a, health_rate) \in Nat /\ EmployeeHalf(b, health_rate) \in Nat
        /\ EmployeeHalf(a, health_rate) + EmployeeHalf(b, health_rate) <= EmployeeHalf(CAP, health_rate) + 1
    BY <1>4, <2>1, HalvesAreLess
  <2>5. /\ EmployeeHalf(a, care_rate) \in Nat /\ EmployeeHalf(b, care_rate) \in Nat
        /\ EmployeeHalf(a, care_rate) + EmployeeHalf(b, care_rate) <= EmployeeHalf(CAP, care_rate) + 1
    BY <1>4, <2>1, HalvesAreLess
  <2> QED BY <2>3, <2>4, <2>5
<1>8. Cardinality(BonusTerms) = 2
  <2>1. IsFiniteSet({"summer"}) /\ Cardinality({"summer"}) = 1 /\ "winter" \notin {"summer"}
    BY FS_Singleton
  <2>2. Cardinality({"summer"} \cup {"winter"}) = Cardinality({"summer"}) + 1
    BY <2>1, FS_AddElement
  <2>3. {"summer"} \cup {"winter"} = BonusTerms
    BY <1>0
  <2> QED BY <2>1, <2>2, <2>3
<1> HIDE DEF health, care, x, y
<1>9. sum <= ((health + care) + pensions) + 2 * Cardinality(BonusTerms)
  <2>1. \A t \in {"summer", "winter"} :
          /\ Of(social, t) \in Int /\ Of(pension, t) \in Int
          /\ Of(social, t) <= (x[t] + y[t]) + Of(pension, t)
    <3>1. \A t \in {"summer", "winter"} : x[t] \in Nat /\ y[t] \in Nat
      BY <1>7
    <3> HIDE DEF held, social, pension
    <3> QED BY <1>5, <3>1
  <2> HIDE DEF Of, held, social, pension, sum, pensions
  <2>2. /\ Of(social, "summer") \in Int /\ Of(pension, "summer") \in Int
        /\ Of(social, "summer") <= (x["summer"] + y["summer"]) + Of(pension, "summer")
    BY <2>1
  <2>3. /\ Of(social, "winter") \in Int /\ Of(pension, "winter") \in Int
        /\ Of(social, "winter") <= (x["winter"] + y["winter"]) + Of(pension, "winter")
    BY <2>1
  <2> QED BY <1>4, <1>6, <1>7, <1>8, <2>2, <2>3
<1> HIDE DEF sum, pensions
<1> QED BY <1>1, <1>2, <1>9 DEF sum, pensions, health, care, CAP, SumOver, PensionOf

\* BonusPremiumIsCapped (calculate_bonus of bonus.py, standard_bonus_amounts of
\* social_insurance.py): in whatever order the terms of a year are calculated, and calculated
\* again, what is paid on the bonuses for health insurance is no more than the yearly cap costs,
\* for as long as no calculation begins while another is under way.
THEOREM BonusPremiumStaysCapped == PaySpec => []BonusPremiumIsCapped
<1> DEFINE Sound == bonuses_overlapped \/ BonusSound
<1>1. PayInit => Sound
  BY InitBonuses
<1>2. Sound /\ [PayNext]_payVars => Sound'
  BY BonusesStaySound, OverlapsStay
<1>3. Sound => BonusPremiumIsCapped
  BY WithinIsCapped DEF BonusPremiumIsCapped, YearIsCapped
<1> QED BY <1>1, <1>2, <1>3, PTL DEF PaySpec
=============================================================================
