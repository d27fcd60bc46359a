------------------------------- MODULE Audits -------------------------------
(* What the audit looks for in journals: one journal against its peers         *)
(* (audit_inspection), and the rules of a scan over a company's journals with  *)
(* the log of what was found (audit_detection).  A journal is a record         *)
(* [journal_header_id, transaction_date, created_on, hour, created_by,         *)
(* approved_by, summary, is_deleted, is_voided, lines], a line [account,       *)
(* debit_credit, amount, description, is_deleted]; dates are days of Calendar. *)
EXTENDS Yen, Calendar, FiniteSets

\* What stands on the debit side, deleted lines left out.
TotalDebit(lines) ==
    SumSeq([l \in DOMAIN lines |->
        IF lines[l].debit_credit = "debit" /\ ~lines[l].is_deleted THEN lines[l].amount ELSE 0])

-----------------------------------------------------------------------------
(* AuditInspectionService.                                                 *)

LARGE_AMOUNT_THRESHOLD == 10000000

\* The lines in any order; deleted ones are among them.
line_signature(lines) ==
    LET Line(l) == <<lines[l].account, lines[l].debit_credit, lines[l].amount>>
    IN  [x \in {Line(l) : l \in DOMAIN lines} |-> Cardinality({l \in DOMAIN lines : Line(l) = x})]

AccountsOn(lines, side) ==
    {lines[l].account : l \in {k \in DOMAIN lines : lines[k].debit_credit = side /\ ~lines[k].is_deleted}}

\* The peers that repeat the journal.
Repeats(target, peers) ==
    {p \in peers :
        /\ ~p.is_deleted /\ ~p.is_voided
        /\ p.journal_header_id # target.journal_header_id
        /\ p.transaction_date = target.transaction_date
        /\ TotalDebit(p.lines) = TotalDebit(target.lines)
        /\ line_signature(p.lines) = line_signature(target.lines)}

inspect(target, peers) ==
    LET lines == target.lines
    IN  [duplicate |-> {p.journal_header_id : p \in Repeats(target, peers)},
         after_hours |-> target.hour \in 0..4,
         circular |-> AccountsOn(lines, "debit") \cap AccountsOn(lines, "credit"),
         large_amount |-> TotalDebit(lines) >= LARGE_AMOUNT_THRESHOLD]

-----------------------------------------------------------------------------
(* The rules of a scan.                                                    *)

HIGH_AMOUNT_THRESHOLD == 1000000
ROUND_AMOUNT_MODULUS == 100000
BACKDATED_MAX_LAG_DAYS == 30
PERIOD_END_LAST_DAYS == 3
PERIOD_END_MIN_SAMPLES == 20

\* Whom a journal is with: what its first described line says, be it deleted, else its summary.
Counterparty(j) ==
    LET described == {l \in DOMAIN j.lines : j.lines[l].description # None}
    IN  IF described = {} THEN j.summary
        ELSE j.lines[CHOOSE l \in described : \A k \in described : l <= k].description

_snapshot_from(j) ==
    [journal_header_id |-> j.journal_header_id, transaction_date |-> j.transaction_date,
     created_on |-> j.created_on, total_amount |-> TotalDebit(j.lines),
     created_by |-> j.created_by, approved_by |-> j.approved_by, counterparty |-> Counterparty(j)]

detect_high_amount(s) == s.total_amount >= HIGH_AMOUNT_THRESHOLD
detect_round_amount(s) ==
    s.total_amount >= ROUND_AMOUNT_MODULUS /\ s.total_amount % ROUND_AMOUNT_MODULUS = 0
detect_weekend_entry(s) == weekday(s.transaction_date) >= 5
detect_backdated(s) == s.created_on - s.transaction_date > BACKDATED_MAX_LAG_DAYS
detect_sod_conflict(s) == s.created_by # None /\ s.created_by = s.approved_by
detect_duplicate(s, others) ==
    \E o \in others :
        /\ o.journal_header_id # s.journal_header_id
        /\ o.total_amount = s.total_amount
        /\ o.transaction_date = s.transaction_date
        /\ o.counterparty = s.counterparty

RiskLevel ==
    [high_amount |-> "high", round_amount |-> "medium", weekend_entry |-> "low",
     backdated |-> "medium", sod_conflict |-> "high", duplicate |-> "medium"]

\* The categories that apply.
run_rules(s, others) ==
    {c \in DOMAIN RiskLevel :
        CASE c = "high_amount"   -> detect_high_amount(s)
          [] c = "round_amount"  -> detect_round_amount(s)
          [] c = "weekend_entry" -> detect_weekend_entry(s)
          [] c = "backdated"     -> detect_backdated(s)
          [] c = "sod_conflict"  -> detect_sod_conflict(s)
          [] c = "duplicate"     -> detect_duplicate(s, others)}

\* More than half of at least twenty journals on the last three days of their months.
detect_period_end_concentration(dates) ==
    LET late == SelectSeq(dates, LAMBDA d :
                    DayOfMonth(d) > monthrange(MonthOf(d)) - PERIOD_END_LAST_DAYS)
    IN  Len(dates) >= PERIOD_END_MIN_SAMPLES /\ 2 * Len(late) > Len(dates)

-----------------------------------------------------------------------------
(* A scan: what it adds to the log, whose entries are [journal, category, status].  *)

Logged(log) == {<<d.journal, d.category>> : d \in log}

\* MUTANT: only what is still open counts as found before.
scan_company_OpenOnly(journals, log) ==
    LET snapshots == {_snapshot_from(j) : j \in {k \in journals : ~k.is_deleted /\ ~k.is_voided}}
        found == UNION {{<<s.journal_header_id, c>> : c \in run_rules(s, snapshots)} : s \in snapshots}
    IN  {[journal |-> f[1], category |-> f[2], status |-> "open"]
            : f \in found \ Logged({d \in log : d.status = "open"})}

\* Whatever the state of an earlier entry, the same is not logged again.
scan_company(journals, log) ==
    LET snapshots == {_snapshot_from(j) : j \in {k \in journals : ~k.is_deleted /\ ~k.is_voided}}
        of_journals == UNION {{<<s.journal_header_id, c>> : c \in run_rules(s, snapshots)} : s \in snapshots}
        dates == LET order == InSomeOrder(snapshots) IN [i \in DOMAIN order |-> order[i].transaction_date]
        of_company == IF detect_period_end_concentration(dates)
                      THEN {<<None, "period_end_concentration">>} ELSE {}
    IN  {[journal |-> f[1], category |-> f[2], status |-> "open"]
            : f \in (of_journals \cup of_company) \ Logged(log)}

VALID_STATUSES == {"open", "confirmed", "dismissed"}
=============================================================================
