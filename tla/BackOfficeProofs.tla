--------------------------- MODULE BackOfficeProofs ---------------------------
(***************************************************************************)
(* Proofs about BankReconciliation and Registers, for all statement files, *)
(* sessions and worlds of documents, every finite set of keys and every    *)
(* set of clerks.                                                          *)
(*                                                                         *)
(* What a run of auto_reconcile may match is defined by recursion on the   *)
(* number of lines it has gone through: that it matches lines and          *)
(* candidates one to one is proved by induction on that number.  BankSound *)
(* then adds to MatchesAreOneToOne what a request knows: of a line that no *)
(* other request has read, what it read is still there, and of what a run  *)
(* with nothing beside it has loaded, no line names a candidate.           *)
(*                                                                         *)
(* RegisteredOnce says what the rows of a key are when no request is under *)
(* way; a request that has read and not yet written relies on more: what   *)
(* it read is still true.  RegistersSound adds this, for the keys whose    *)
(* requests did not overlap, and, for the versions of a document, that a   *)
(* version about to be superseded has a later one already.                 *)
(***************************************************************************)
EXTENDS BankReconciliation, Registers, DocumentsProofs


-----------------------------------------------------------------------------
(* What a run may match.                                                   *)

\* The matches of a run: lines that it has gone through, each with a candidate of its own.
IsAPairing(m, lines, candidates) ==
    /\ DOMAIN m \subseteq lines
    /\ \A b \in DOMAIN m : m[b] \in candidates
    /\ \A a, b \in DOMAIN m : m[a] = m[b] => a = b

IsARun(run, lines, candidates) ==
    /\ run.left \subseteq lines
    /\ IsAPairing(run.matches, lines \ run.left, candidates)

LEMMA OneMoreLine ==
    ASSUME NEW seen, NEW lines, NEW candidates, NEW fee,
           NEW run, IsARun(run, lines, candidates),
           NEW next \in OneLineOn(seen, run, candidates, fee)
    PROVE  IsARun(next, lines, candidates)
<1>0. PICK b \in Latest(seen, run.left) :
          next \in {RunAt(run.left \ {b}, m) :
                      m \in Extended(seen, run.matches, b, candidates, fee)}
  BY DEF OneLineOn
<1>1. PICK m \in Extended(seen, run.matches, b, candidates, fee) : next = RunAt(run.left \ {b}, m)
  BY <1>0
<1>2. next.left = run.left \ {b} /\ next.matches = m
  BY <1>1 DEF RunAt
<1>3. b \in run.left /\ b \in lines /\ b \notin DOMAIN run.matches
  BY <1>1 DEF Latest, IsARun, IsAPairing
<1>4. CASE m = run.matches
  BY <1>2, <1>3, <1>4 DEF IsARun, IsAPairing
<1>5. CASE m # run.matches
  <2>1. PICK c \in candidates \ {run.matches[a] : a \in DOMAIN run.matches} :
            m = With(run.matches, b, c)
    BY <1>1, <1>5 DEF Extended, BestMatches
  <2>2. /\ DOMAIN m = DOMAIN run.matches \cup {b} /\ m[b] = c
        /\ \A a \in DOMAIN run.matches : m[a] = run.matches[a]
    BY <1>3, <2>1 DEF With
  <2> QED BY <1>2, <1>3, <2>1, <2>2 DEF IsARun, IsAPairing
<1> QED BY <1>4, <1>5

\* The runs after each number of lines: the recursive definition has a solution.
RunsAfter(after, n, seen, lines, candidates, fee) ==
    after = [i \in 0 .. n |->
                IF i = 0 THEN {RunAt(lines, <<>>)}
                ELSE UNION {OneLineOn(seen, run, candidates, fee) : run \in after[i - 1]}]

LEMMA RunsAreDefined ==
    ASSUME NEW seen, NEW lines, NEW candidates, NEW fee, NEW n \in Nat
    PROVE  \E after : RunsAfter(after, n, seen, lines, candidates, fee)
<1> DEFINE Next1(runs_) == UNION {OneLineOn(seen, run, candidates, fee) : run \in runs_}
           P == {i \in Nat : \E after : RunsAfter(after, i, seen, lines, candidates, fee)}
<1>1. 0 \in P
  <2>1. RunsAfter([i \in 0 .. 0 |-> {RunAt(lines, <<>>)}], 0, seen, lines, candidates, fee)
    BY DEF RunsAfter
  <2> QED BY <2>1
<1>2. ASSUME NEW i \in P
      PROVE  i + 1 \in P
  <2>1. PICK after : RunsAfter(after, i, seen, lines, candidates, fee)
    OBVIOUS
  <2> DEFINE more == [j \in 0 .. i + 1 |-> IF j = i + 1 THEN Next1(after[i]) ELSE after[j]]
  <2>2. ASSUME NEW j \in 0 .. i + 1
        PROVE  more[j] = IF j = 0 THEN {RunAt(lines, <<>>)} ELSE Next1(more[j - 1])
    <3>1. CASE j = i + 1
      <4>1. j # 0 /\ more[j - 1] = after[i] /\ more[j] = Next1(after[i])
        BY <3>1
      <4> HIDE DEF more, Next1
      <4> QED BY <4>1
    <3>2. CASE j \in 0 .. i
      <4>1. after[j] = IF j = 0 THEN {RunAt(lines, <<>>)} ELSE Next1(after[j - 1])
        BY <2>1, <3>2 DEF RunsAfter
      <4>2. more[j] = after[j] /\ (j # 0 => more[j - 1] = after[j - 1])
        BY <3>2
      <4> HIDE DEF more, Next1
      <4> QED BY <4>1, <4>2
    <3> QED BY <3>1, <3>2
  <2>3. more = [j \in 0 .. i + 1 |-> IF j = 0 THEN {RunAt(lines, <<>>)} ELSE Next1(more[j - 1])]
    BY <2>2
  <2>4. RunsAfter(more, i + 1, seen, lines, candidates, fee)
    <3> HIDE DEF more
    <3> QED BY <2>3 DEF RunsAfter
  <2> QED BY <2>4
<1>3. P = Nat
  <2> HIDE DEF P
  <2>1. P \in SUBSET Nat
    BY DEF P
  <2> QED BY <1>1, <1>2, <2>1, NatSetInduction
<1> QED BY <1>3

\* The lines that a run matches and their candidates are one to one.
LEMMA MatchingsPair ==
    ASSUME NEW seen, NEW lines, IsFiniteSet(lines), NEW candidates, NEW fee,
           NEW m \in Matchings(seen, lines, candidates, fee)
    PROVE  IsAPairing(m, lines, candidates)
<1> DEFINE n == Cardinality(lines)
           after == CHOOSE after : RunsAfter(after, n, seen, lines, candidates, fee)
<1>1. n \in Nat
  BY FS_CardinalityType
<1>2. RunsAfter(after, n, seen, lines, candidates, fee)
  BY <1>1, RunsAreDefined
<1>3. Matchings(seen, lines, candidates, fee) = {run.matches : run \in after[n]}
  BY DEF Matchings, RunsAfter
<1> HIDE DEF after, n
<1> DEFINE P == {i \in Nat : i <= n => \A run \in after[i] : IsARun(run, lines, candidates)}
<1>4. 0 \in P
  <2>1. after[0] = {RunAt(lines, <<>>)}
    BY <1>1, <1>2 DEF RunsAfter
  <2>2. IsARun(RunAt(lines, <<>>), lines, candidates)
    BY DEF IsARun, IsAPairing, RunAt
  <2> QED BY <2>1, <2>2
<1>5. ASSUME NEW i \in P
      PROVE  i + 1 \in P
  <2> SUFFICES ASSUME i + 1 <= n, NEW next \in after[i + 1]
               PROVE  IsARun(next, lines, candidates)
    OBVIOUS
  <2>1. after[i + 1] = UNION {OneLineOn(seen, run, candidates, fee) : run \in after[i]}
    <3>1. i + 1 \in 0 .. n /\ i + 1 # 0 /\ (i + 1) - 1 = i
      BY <1>1
    <3> QED BY <1>2, <3>1 DEF RunsAfter
  <2>2. PICK run \in after[i] : next \in OneLineOn(seen, run, candidates, fee)
    BY <2>1
  <2>3. IsARun(run, lines, candidates)
    BY <1>1, <2>2
  <2> QED BY <2>2, <2>3, OneMoreLine
<1>6. P = Nat
  <2> HIDE DEF P
  <2>1. P \in SUBSET Nat
    BY DEF P
  <2> QED BY <1>4, <1>5, <2>1, NatSetInduction
<1>7. \A run \in after[n] : IsARun(run, lines, candidates)
  BY <1>1, <1>6
<1>8. PICK run \in after[n] : m = run.matches
  BY <1>3
<1> QED BY <1>7, <1>8 DEF IsARun, IsAPairing

-----------------------------------------------------------------------------
(* What is known of the statement and of the requests under way.           *)

\* The columns that a request writes.
SameColumns(row, seen) ==
    row.is_reconciled = seen.is_reconciled /\ row.journal_line = seen.journal_line

StatementTyped ==
    /\ IsAList(statement)
    /\ \A b \in DOMAIN statement : {"is_reconciled", "journal_line"} \subseteq DOMAIN statement[b]
    /\ \A file \in files : IsAList(file)
    /\ bank = [s \in Sessions |-> bank[s]]

CallTyped(s) ==
    LET r == bank[s].request
    IN  /\ bank[s].phase \in {"lines", "ready"}
        /\ bank[s].read \subseteq DOMAIN statement
        /\ bank[s].candidates \subseteq Int \X Int
        /\ \A b \in bank[s].read :
              {"is_reconciled", "journal_line"} \subseteq DOMAIN bank[s].seen[b]
        /\ r.op \in {"match", "unmatch"} => bank[s].read = {r.line}
        /\ r.op = "match" => r.journal_line \in Int \X Int

ReadsHold(s) == \A b \in bank[s].read \ crossed : SameColumns(statement[b], bank[s].seen[b])

\* A run that no other run overlaps: what it may match is not what earlier runs matched.
RunsAlone(s) == bank[s].request.op = "auto" /\ bank[s].alone
OnlyRun(s) ==
    /\ \A t \in Sessions \ {s} : Busy(t) => bank[t].request.op # "auto"
    /\ \A b \in by_run : statement[b].journal_line \notin bank[s].candidates

BankCallSound(s) ==
    /\ CallTyped(s)
    /\ ReadsHold(s)
    /\ RunsAlone(s) => OnlyRun(s)

BankSound ==
    /\ StatementTyped
    /\ \A s \in Sessions : Busy(s) => BankCallSound(s)
    /\ \A s, t \in Sessions : Busy(s) /\ Busy(t) /\ s # t =>
          bank[s].read \cap bank[t].read \subseteq crossed
    /\ by_run \subseteq DOMAIN statement
    /\ RunsMatchOnce
    /\ FlagsAgree

LEMMA InitBank == BankInit => BankSound
<1> SUFFICES ASSUME BankInit
             PROVE  BankSound
  OBVIOUS
<1>1. /\ statement = <<>> /\ DOMAIN statement = {} /\ by_run = {}
      /\ bank = [s \in Sessions |-> BankIdle]
  BY DEF BankInit
<1>2. \A file \in files : IsAList(file)
  BY StatementsAssumption DEF BankInit, IsAList
<1>3. IsAList(<<>>)
  BY DEF IsAList, Range
<1>4. \A s \in Sessions : ~Busy(s)
  BY <1>1 DEF Busy, BankIdle
<1> QED BY <1>1, <1>2, <1>3, <1>4 DEF BankSound, StatementTyped, RunsMatchOnce, FlagsAgree

\* What an import adds is new: no request has read it and no run has matched it.
LEMMA ImportKeepsBank ==
    ASSUME BankSound, NEW file \in files, import_statement_csv(file)
    PROVE  BankSound'
<1> DEFINE new == [i \in DOMAIN file |->
                      [amount |-> file[i].amount, direction |-> file[i].direction,
                       date |-> file[i].date, names |-> file[i].names,
                       is_reconciled |-> FALSE, journal_line |-> NoLine]]
<1>1. statement' = statement \o new /\ UNCHANGED <<files, bank, crossed, by_run>>
  BY DEF import_statement_csv
<1>2. IsAList(file) /\ IsAList(statement)
  BY DEF BankSound, StatementTyped
<1>3. Len(file) \in Nat /\ DOMAIN file = 1 .. Len(file)
  BY <1>2 DEF IsAList
<1>4. /\ \A i \in DOMAIN new : /\ new[i].is_reconciled = FALSE /\ new[i].journal_line = NoLine
                               /\ {"is_reconciled", "journal_line"} \subseteq DOMAIN new[i]
      /\ new \in Seq(Range(new)) /\ DOMAIN new = 1 .. Len(file) /\ Len(new) = Len(file)
  <2>1. DOMAIN new = 1 .. Len(file)
    BY <1>3
  <2>2. \A i \in DOMAIN new : new[i] \in Range(new)
    BY DEF Range
  <2>3. \A i \in DOMAIN new : /\ new[i].is_reconciled = FALSE /\ new[i].journal_line = NoLine
                             /\ {"is_reconciled", "journal_line"} \subseteq DOMAIN new[i]
    OBVIOUS
  <2>4. new = [i \in 1 .. Len(file) |-> new[i]]
    BY <2>1
  <2> HIDE DEF new
  <2>5. new \in Seq(Range(new)) /\ Len(new) = Len(file)
    BY <1>3, <2>1, <2>2, <2>4
  <2> QED BY <2>1, <2>3, <2>5
<1> HIDE DEF new
<1>5. /\ statement \in Seq(Range(statement) \cup Range(new))
      /\ new \in Seq(Range(statement) \cup Range(new))
  BY <1>2, <1>4 DEF IsAList, Range
<1>6. /\ statement' \in Seq(Range(statement) \cup Range(new))
      /\ Len(statement') = Len(statement) + Len(new)
      /\ \A i \in 1 .. Len(statement) + Len(new) :
            statement'[i] = IF i <= Len(statement) THEN statement[i] ELSE new[i - Len(statement)]
  BY <1>1, <1>5, ConcatProperties
<1>7. Len(statement) \in Nat /\ Len(new) \in Nat /\ DOMAIN statement = 1 .. Len(statement)
      /\ DOMAIN new = 1 .. Len(new) /\ DOMAIN statement' = 1 .. Len(statement')
  BY <1>5, <1>6
<1>8. \A b \in DOMAIN statement : b \in DOMAIN statement' /\ statement'[b] = statement[b]
  BY <1>6, <1>7
<1>9. \A b \in DOMAIN statement' \ DOMAIN statement :
         /\ statement'[b].is_reconciled = FALSE /\ statement'[b].journal_line = NoLine
         /\ {"is_reconciled", "journal_line"} \subseteq DOMAIN statement'[b]
  <2> SUFFICES ASSUME NEW b \in DOMAIN statement' \ DOMAIN statement
               PROVE  b - Len(statement) \in DOMAIN new /\ statement'[b] = new[b - Len(statement)]
    BY <1>4
  <2> QED BY <1>6, <1>7
<1>10. StatementTyped'
  <2>1. IsAList(statement')
    BY <1>6 DEF IsAList, Range
  <2> QED BY <1>1, <1>8, <1>9, <2>1 DEF StatementTyped, BankSound
<1>11. ASSUME NEW s \in Sessions, Busy(s)
       PROVE  BankCallSound(s)'
  <2>1. BankCallSound(s) /\ bank[s].read \subseteq DOMAIN statement
    BY <1>11 DEF BankSound, BankCallSound, CallTyped, ReadsHold, RunsAlone, OnlyRun
  <2>3. \A b \in bank[s].read : statement'[b] = statement[b] /\ b \in DOMAIN statement'
    BY <1>8, <2>1
  <2>4. bank[s].request.op = "auto" /\ bank[s].alone =>
            \A b \in by_run : statement'[b].journal_line \notin bank[s].candidates
    BY <1>8, <2>1 DEF BankCallSound, RunsAlone, OnlyRun, BankSound
  <2> QED BY <1>1, <2>1, <2>3, <2>4
         DEF BankCallSound, CallTyped, ReadsHold, RunsAlone, OnlyRun, Busy
<1>12. RunsMatchOnce' /\ by_run' \subseteq DOMAIN statement'
  BY <1>1, <1>8 DEF BankSound, RunsMatchOnce
<1>13. FlagsAgree'
  BY <1>1, <1>8, <1>9 DEF BankSound, FlagsAgree
<1> QED BY <1>1, <1>10, <1>11, <1>12, <1>13 DEF BankSound, Busy

LEMMA RequestsFit ==
    ASSUME NEW r \in BankRequests
    PROVE  /\ r.op \in {"auto", "match", "unmatch"}
           /\ r.op # "auto" => r.line \in DOMAIN statement
           /\ r.op = "match" => r.journal_line \in Int \X Int
<1>1. \A c \in CashLines : c \in Int \X Int
  BY DEF CashLines
<1> QED BY <1>1 DEF BankRequests

LEMMA SelectKeepsBank ==
    ASSUME BankSound, NEW s \in Sessions, NEW r \in BankRequests, Select(s, r)
    PROVE  BankSound'
<1>1. /\ ~Busy(s) /\ UNCHANGED <<statement, files, by_run>>
      /\ crossed' = crossed \cup
            {b \in ReadLines(r) : \E t \in Sessions : Busy(t) /\ b \in bank[t].read}
  BY DEF Select
<1>2. bank' = [t \in Sessions |->
          IF t = s THEN [phase |-> IF r.op = "auto" THEN "lines" ELSE "ready", request |-> r,
                         seen |-> statement, read |-> ReadLines(r), candidates |-> {},
                         alone |-> \A u \in Sessions : Busy(u) => bank[u].request.op # "auto"]
          ELSE IF Busy(t) /\ r.op = "auto" THEN [bank[t] EXCEPT !.alone = FALSE] ELSE bank[t]]
  BY DEF Select
<1>3. /\ bank'[s].phase \in {"lines", "ready"} /\ bank'[s].request = r
      /\ bank'[s].seen = statement /\ bank'[s].read = ReadLines(r) /\ bank'[s].candidates = {}
      /\ bank'[s].alone <=> \A u \in Sessions : Busy(u) => bank[u].request.op # "auto"
  BY <1>2
<1>4. ASSUME NEW t \in Sessions \ {s}
      PROVE  /\ bank'[t].phase = bank[t].phase /\ bank'[t].request = bank[t].request
             /\ bank'[t].seen = bank[t].seen /\ bank'[t].read = bank[t].read
             /\ bank'[t].candidates = bank[t].candidates
             /\ Busy(t) /\ r.op = "auto" => bank'[t].alone # TRUE
             /\ r.op # "auto" => bank'[t].alone = bank[t].alone
  <2>1. CASE Busy(t) /\ r.op = "auto"
    <3>1. bank'[t] = [bank[t] EXCEPT !.alone = FALSE]
      BY <1>2, <2>1
    <3> QED BY <2>1, <3>1
  <2>2. CASE ~ (Busy(t) /\ r.op = "auto")
    BY <1>2, <2>2
  <2> QED BY <2>1, <2>2
<1>5. ReadLines(r) \subseteq DOMAIN statement
  BY RequestsFit DEF ReadLines, Unreconciled
<1>6. Busy(s)' /\ \A t \in Sessions \ {s} : Busy(t)' <=> Busy(t)
  BY <1>3, <1>4 DEF Busy
<1>7. StatementTyped'
  <2>1. bank' = [t \in Sessions |-> bank'[t]]
    BY <1>2
  <2> QED BY <1>1, <2>1 DEF StatementTyped, BankSound
<1>8. BankCallSound(s)'
  <2>1. \A b \in ReadLines(r) : SameColumns(statement'[b], bank'[s].seen[b])
    BY <1>1, <1>3 DEF SameColumns
  <2>2. bank'[s].alone => \A t \in Sessions \ {s} : Busy(t)' => bank'[t].request.op # "auto"
    BY <1>3, <1>4, <1>6
  <2>3. r.op \in {"match", "unmatch"} => ReadLines(r) = {r.line}
    BY DEF ReadLines
  <2>4. CallTyped(s)'
    <3>1. \A b \in ReadLines(r) : {"is_reconciled", "journal_line"} \subseteq DOMAIN statement[b]
      BY <1>5 DEF BankSound, StatementTyped
    <3> QED BY <1>1, <1>3, <1>5, <2>3, <3>1, RequestsFit DEF CallTyped
  <2>5. ReadsHold(s)'
    BY <1>3, <2>1 DEF ReadsHold
  <2>6. RunsAlone(s)' => OnlyRun(s)'
    BY <1>3, <2>1, <2>2 DEF RunsAlone, OnlyRun
  <2> QED BY <2>4, <2>5, <2>6 DEF BankCallSound
<1>9. ASSUME NEW t \in Sessions \ {s}, Busy(t)
      PROVE  BankCallSound(t)'
  <2>1. BankCallSound(t)
    BY <1>9 DEF BankSound
  <2>2. ASSUME RunsAlone(t)'
        PROVE  OnlyRun(t)'
    <3>1. r.op # "auto" /\ RunsAlone(t)
      BY <1>4, <1>9, <2>2 DEF RunsAlone
    <3>2. OnlyRun(t)
      BY <2>1, <3>1 DEF BankCallSound
    <3> QED BY <1>1, <1>3, <1>4, <1>6, <3>1, <3>2 DEF OnlyRun
  <2>3. CallTyped(t)' /\ ReadsHold(t)'
    BY <1>1, <1>4, <2>1 DEF BankCallSound, CallTyped, ReadsHold
  <2> QED BY <2>2, <2>3 DEF BankCallSound
<1>10. ASSUME NEW t \in Sessions, NEW u \in Sessions, Busy(t)', Busy(u)', t # u
       PROVE  bank'[t].read \cap bank'[u].read \subseteq crossed'
  <2>1. CASE t # s /\ u # s
    BY <1>1, <1>4, <1>6, <1>10, <2>1 DEF BankSound
  <2>2. CASE t = s
    BY <1>1, <1>3, <1>4, <1>6, <1>10, <2>2
  <2>3. CASE u = s
    BY <1>1, <1>3, <1>4, <1>6, <1>10, <2>3
  <2> QED BY <2>1, <2>2, <2>3
<1>11. RunsMatchOnce' /\ FlagsAgree' /\ by_run' \subseteq DOMAIN statement'
  BY <1>1 DEF RunsMatchOnce, FlagsAgree, BankSound
<1> QED BY <1>6, <1>7, <1>8, <1>9, <1>10, <1>11 DEF BankSound

LEMMA LoadKeepsBank ==
    ASSUME BankSound, NEW s \in Sessions, LoadCandidates(s)
    PROVE  BankSound'
<1>1. /\ bank[s].phase = "lines" /\ UNCHANGED <<statement, files, crossed, by_run>>
      /\ bank' = [bank EXCEPT ![s].phase = "ready", ![s].candidates = Candidates]
  BY DEF LoadCandidates
<1>2. Busy(s) /\ BankCallSound(s)
  BY <1>1 DEF Busy, BankSound
<1>3. /\ bank'[s].phase = bank[s].phase \/ bank'[s].phase = "ready"
      /\ bank'[s].request = bank[s].request /\ bank'[s].seen = bank[s].seen
      /\ bank'[s].read = bank[s].read /\ bank'[s].alone = bank[s].alone
      /\ bank'[s].candidates = bank[s].candidates \/ bank'[s].candidates = Candidates
      /\ bank' = [t \in Sessions |-> bank'[t]]
      /\ \A t \in Sessions \ {s} : bank'[t] = bank[t]
  <2>1. bank = [t \in Sessions |-> bank[t]]
    BY DEF BankSound, StatementTyped
  <2>2. PICK e : e = [bank[s] EXCEPT !.phase = "ready", !.candidates = Candidates]
    OBVIOUS
  <2>3. bank' = [bank EXCEPT ![s] = e]
    BY <1>1, <2>1, <2>2
  <2>4. /\ e.phase = bank[s].phase \/ e.phase = "ready"
        /\ e.request = bank[s].request /\ e.seen = bank[s].seen
        /\ e.read = bank[s].read /\ e.alone = bank[s].alone
        /\ e.candidates = bank[s].candidates \/ e.candidates = Candidates
    BY <2>2
  <2> QED BY <2>1, <2>3, <2>4
<1>4. Candidates \subseteq Int \X Int
  BY DEF Candidates, CashLines
<1>5. \A b \in by_run : statement[b].journal_line \notin Candidates
  BY DEF Candidates, BankSound
<1>6. \A t \in Sessions : Busy(t)' <=> Busy(t)
  BY <1>2, <1>3 DEF Busy
<1>7. BankCallSound(s)'
  <2>1. CallTyped(s)'
    <3>1. CallTyped(s)
      BY <1>2 DEF BankCallSound
    <3>2. bank'[s].phase \in {"lines", "ready"} /\ bank'[s].candidates \subseteq Int \X Int
      BY <1>3, <1>4, <3>1 DEF CallTyped
    <3>3. /\ bank'[s].request = bank[s].request /\ bank'[s].seen = bank[s].seen
          /\ bank'[s].read = bank[s].read /\ statement' = statement
      BY <1>1, <1>3
    <3> QED BY <3>1, <3>2, <3>3 DEF CallTyped
  <2>2. ReadsHold(s)'
    BY <1>1, <1>2, <1>3 DEF BankCallSound, ReadsHold
  <2>3. ASSUME RunsAlone(s)'
        PROVE  OnlyRun(s)'
    <3>1. OnlyRun(s)
      BY <1>2, <1>3, <2>3 DEF BankCallSound, RunsAlone
    <3> QED BY <1>1, <1>3, <1>5, <1>6, <3>1 DEF OnlyRun
  <2> QED BY <2>1, <2>2, <2>3 DEF BankCallSound
<1>8. ASSUME NEW t \in Sessions \ {s}, Busy(t)
      PROVE  BankCallSound(t)'
  <2>1. BankCallSound(t) /\ bank'[t] = bank[t] /\ UNCHANGED <<statement, crossed>>
    BY <1>1, <1>3, <1>8 DEF BankSound
  <2>2. CallTyped(t)' /\ ReadsHold(t)'
    BY <2>1 DEF BankCallSound, CallTyped, ReadsHold
  <2>3. RunsAlone(t)' => OnlyRun(t)'
    <3>1. RunsAlone(t)' => OnlyRun(t)
      BY <2>1 DEF BankCallSound, RunsAlone
    <3>2. \A u \in Sessions : bank'[u].request = bank[u].request
      BY <1>3
    <3> QED BY <1>1, <1>6, <2>1, <3>1, <3>2 DEF OnlyRun
  <2> QED BY <2>2, <2>3 DEF BankCallSound
<1>9. StatementTyped'
  BY <1>1, <1>3 DEF StatementTyped, BankSound
<1>10. RunsMatchOnce' /\ FlagsAgree'
  BY <1>1 DEF RunsMatchOnce, FlagsAgree, BankSound
<1>11. \A t, u \in Sessions : Busy(t)' /\ Busy(u)' /\ t # u =>
          bank'[t].read \cap bank'[u].read \subseteq crossed'
  <2>1. \A t \in Sessions : bank'[t].read = bank[t].read
    BY <1>3
  <2> QED BY <1>1, <1>6, <2>1 DEF BankSound
<1> QED BY <1>1, <1>6, <1>7, <1>8, <1>9, <1>10, <1>11 DEF BankSound

\* What a request writes: the columns of lines it has read, flagged when they name a line.
LEMMA WriteKeepsBank ==
    ASSUME BankSound, NEW s \in Sessions, Busy(s), NEW new, Write(s, new),
           DOMAIN new \subseteq bank[s].read,
           \A b \in DOMAIN new : new[b].is_reconciled <=> new[b].journal_line # NoLine,
           \A b \in DOMAIN new : new[b].is_reconciled \in BOOLEAN,
           bank[s].request.op = "auto" =>
              /\ \A b \in DOMAIN new : new[b].journal_line \in bank[s].candidates
              /\ \A a, b \in DOMAIN new : a # b => new[a].journal_line # new[b].journal_line
    PROVE  BankSound'
<1> DEFINE seen == bank[s].seen
<1>1. /\ UNCHANGED <<files, crossed>>
      /\ statement' = [b \in DOMAIN statement |->
            IF b \in DOMAIN new THEN Flushed(statement[b], seen[b], new[b]) ELSE statement[b]]
      /\ by_run' = IF bank[s].request.op = "auto" /\ bank[s].alone THEN by_run \cup DOMAIN new
                   ELSE by_run \ DOMAIN new
      /\ bank' = [bank EXCEPT ![s] = BankIdle]
  BY DEF Write
<1>2. /\ BankCallSound(s) /\ bank[s].read \subseteq DOMAIN statement
      /\ bank = [t \in Sessions |-> bank[t]]
  BY
         DEF BankSound, BankCallSound, CallTyped, ReadsHold, RunsAlone, OnlyRun, StatementTyped
<1>3. /\ DOMAIN statement' = DOMAIN statement
      /\ \A b \in DOMAIN statement \ DOMAIN new : statement'[b] = statement[b]
      /\ \A b \in DOMAIN new : statement'[b] = Flushed(statement[b], seen[b], new[b])
  BY <1>1, <1>2
<1>4. ASSUME NEW b \in DOMAIN new
      PROVE  /\ DOMAIN statement'[b] = DOMAIN statement[b]
             /\ SameColumns(statement[b], seen[b]) => SameColumns(statement'[b], new[b])
  <2>1. b \in DOMAIN statement /\ {"is_reconciled", "journal_line"} \subseteq DOMAIN statement[b]
    BY <1>2 DEF BankSound, StatementTyped
  <2>2. /\ DOMAIN Flushed(statement[b], seen[b], new[b]) = DOMAIN statement[b]
        /\ Flushed(statement[b], seen[b], new[b]).is_reconciled =
              IF new[b].is_reconciled = seen[b].is_reconciled THEN statement[b].is_reconciled
              ELSE new[b].is_reconciled
        /\ Flushed(statement[b], seen[b], new[b]).journal_line =
              IF new[b].journal_line = seen[b].journal_line THEN statement[b].journal_line
              ELSE new[b].journal_line
    BY <2>1 DEF Flushed
  <2> QED BY <1>3, <2>2 DEF SameColumns
<1>5. \A t \in Sessions : Busy(t)' => t # s /\ Busy(t) /\ bank'[t] = bank[t]
  BY <1>1, <1>2 DEF Busy, BankIdle
<1>6. StatementTyped'
  <2>1. IsAList(statement')
    <3>1. Len(statement) \in Nat /\ DOMAIN statement = 1 .. Len(statement)
      BY DEF BankSound, StatementTyped, IsAList
    <3> QED BY <1>1, <3>1 DEF IsAList, Range
  <2>2. bank' = [t \in Sessions |-> bank'[t]]
    BY <1>1, <1>2
  <2>3. \A b \in DOMAIN statement' : DOMAIN statement'[b] = DOMAIN statement[b]
    BY <1>3, <1>4
  <2>4. \A b \in DOMAIN statement' :
            {"is_reconciled", "journal_line"} \subseteq DOMAIN statement'[b]
    BY <1>3, <2>3 DEF StatementTyped, BankSound
  <2> QED BY <1>1, <2>1, <2>2, <2>4 DEF StatementTyped, BankSound
<1>7. ASSUME NEW t \in Sessions, Busy(t)'
      PROVE  BankCallSound(t)'
  <2>1. t # s /\ Busy(t) /\ bank'[t] = bank[t] /\ BankCallSound(t)
    BY <1>5, <1>7 DEF BankSound
  <2>2. ASSUME RunsAlone(t)'
        PROVE  OnlyRun(t)'
    <3>1. OnlyRun(t) /\ bank[s].request.op # "auto"
      BY <2>1, <2>2 DEF BankCallSound, RunsAlone, OnlyRun
    <3>2. by_run' = by_run \ DOMAIN new
      BY <1>1, <3>1
    <3>3. \A b \in by_run' : statement'[b] = statement[b]
      BY <1>3, <3>2 DEF BankSound
    <3> QED BY <1>5, <2>1, <3>1, <3>2, <3>3 DEF OnlyRun
  <2>3. \A b \in bank[t].read \ crossed : statement'[b] = statement[b]
    <3>1. bank[s].read \cap bank[t].read \subseteq crossed
      BY <2>1 DEF BankSound
    <3>2. bank[t].read \subseteq DOMAIN statement
      BY <2>1 DEF BankCallSound, CallTyped, ReadsHold, RunsAlone, OnlyRun
    <3> QED BY <1>3, <3>1, <3>2
  <2>4. CallTyped(t)' /\ ReadsHold(t)'
    BY <1>1, <1>3, <2>1, <2>3 DEF BankCallSound, CallTyped, ReadsHold
  <2> QED BY <2>2, <2>4 DEF BankCallSound
<1>8. \A t, u \in Sessions : Busy(t)' /\ Busy(u)' /\ t # u =>
          bank'[t].read \cap bank'[u].read \subseteq crossed'
  BY <1>1, <1>5 DEF BankSound
<1>9. by_run' \subseteq DOMAIN statement'
  BY <1>1, <1>2, <1>3 DEF BankSound
<1>10. RunsMatchOnce'
  <2>1. CASE bank[s].request.op = "auto" /\ bank[s].alone
    <3>1. \A b \in DOMAIN new \ crossed : SameColumns(statement'[b], new[b])
      BY <1>2, <1>4 DEF BankCallSound, ReadsHold
    <3>2. \A b \in by_run : statement[b].journal_line \notin bank[s].candidates
      BY <1>2, <2>1 DEF BankCallSound, RunsAlone, OnlyRun
    <3>3. by_run' = by_run \cup DOMAIN new /\ by_run \subseteq DOMAIN statement
      BY <1>1, <2>1 DEF BankSound
    <3>4. ASSUME NEW a \in by_run' \ crossed, NEW b \in by_run' \ crossed, a # b
          PROVE  statement'[a].journal_line # statement'[b].journal_line
      <4>1. CASE a \in DOMAIN new /\ b \in DOMAIN new
        BY <2>1, <3>1, <3>4, <4>1 DEF SameColumns
      <4>2. CASE a \in DOMAIN new /\ b \notin DOMAIN new
        BY <1>3, <2>1, <3>1, <3>2, <3>3, <4>2 DEF SameColumns
      <4>3. CASE a \notin DOMAIN new /\ b \in DOMAIN new
        BY <1>3, <2>1, <3>1, <3>2, <3>3, <4>3 DEF SameColumns
      <4>4. CASE a \notin DOMAIN new /\ b \notin DOMAIN new
        BY <1>3, <3>3, <3>4, <4>4 DEF BankSound, RunsMatchOnce
      <4> QED BY <4>1, <4>2, <4>3, <4>4
    <3> QED BY <1>1, <3>4 DEF RunsMatchOnce
  <2>2. CASE ~ (bank[s].request.op = "auto" /\ bank[s].alone)
    <3>1. by_run' = by_run \ DOMAIN new
      BY <1>1, <2>2
    <3> QED BY <1>1, <1>3, <3>1 DEF BankSound, RunsMatchOnce
  <2> QED BY <2>1, <2>2
<1>11. FlagsAgree'
  <2> SUFFICES ASSUME NEW b \in DOMAIN statement' \ crossed'
               PROVE  statement'[b].is_reconciled <=> statement'[b].journal_line # NoLine
    BY DEF FlagsAgree
  <2>1. CASE b \in DOMAIN new
    <3>1. SameColumns(statement'[b], new[b])
      BY <1>1, <1>2, <1>4, <2>1
             DEF BankCallSound, CallTyped, ReadsHold, RunsAlone, OnlyRun
    <3> QED BY <2>1, <3>1 DEF SameColumns
  <2>2. CASE b \notin DOMAIN new
    BY <1>1, <1>3, <2>2 DEF BankSound, FlagsAgree
  <2> QED BY <2>1, <2>2
<1> QED BY <1>6, <1>7, <1>8, <1>9, <1>10, <1>11 DEF BankSound

LEMMA AutoKeepsBank ==
    ASSUME BankSound, NEW s \in Sessions, auto_reconcile(s)
    PROVE  BankSound'
<1>1. PICK m \in Matchings(bank[s].seen, bank[s].read, bank[s].candidates, bank[s].request.fee) :
          Write(s, [b \in DOMAIN m |-> Matched(bank[s].seen[b], m[b])])
  BY DEF auto_reconcile
<1>2. bank[s].phase = "ready" /\ bank[s].request.op = "auto" /\ Busy(s) /\ BankCallSound(s)
  BY DEF auto_reconcile, Busy, BankSound
<1>3. IsFiniteSet(bank[s].read)
  <2>1. Len(statement) \in Int /\ DOMAIN statement = 1 .. Len(statement)
    BY DEF BankSound, StatementTyped, IsAList
  <2>2. IsFiniteSet(DOMAIN statement)
    BY <2>1, FS_Interval
  <2> QED BY <1>2, <2>2, FS_Subset DEF BankCallSound, CallTyped
<1>4. IsAPairing(m, bank[s].read, bank[s].candidates)
  BY <1>3, MatchingsPair
<1>5. PICK new : new = [b \in DOMAIN m |-> Matched(bank[s].seen[b], m[b])]
  OBVIOUS
<1>6. DOMAIN new = DOMAIN m /\ \A b \in DOMAIN m : new[b] = Matched(bank[s].seen[b], m[b])
  BY <1>5
<1>7. \A b \in DOMAIN new : new[b].is_reconciled = TRUE /\ new[b].journal_line = m[b]
  <2> SUFFICES ASSUME NEW b \in DOMAIN new
               PROVE  Matched(bank[s].seen[b], m[b]).is_reconciled = TRUE
                      /\ Matched(bank[s].seen[b], m[b]).journal_line = m[b]
    BY <1>6
  <2>1. {"is_reconciled", "journal_line"} \subseteq DOMAIN bank[s].seen[b]
    BY <1>2, <1>4, <1>6 DEF BankCallSound, CallTyped, IsAPairing
  <2> QED BY <2>1 DEF Matched
<1>8. \A b \in DOMAIN new : m[b] \in bank[s].candidates /\ m[b] # NoLine
  BY <1>2, <1>4, <1>6, StatementsAssumption
     DEF BankCallSound, CallTyped, IsAPairing
<1>9. DOMAIN new \subseteq bank[s].read
  BY <1>4, <1>6 DEF IsAPairing
<1>10. \A a, b \in DOMAIN new : a # b => new[a].journal_line # new[b].journal_line
  BY <1>4, <1>6, <1>7 DEF IsAPairing
<1>11. Write(s, new)
  BY <1>1, <1>5
<1> QED BY <1>2, <1>7, <1>8, <1>9, <1>10, <1>11, WriteKeepsBank

LEMMA MatchKeepsBank ==
    ASSUME BankSound, NEW s \in Sessions, manual_match(s)
    PROVE  BankSound'
<1> DEFINE r == bank[s].request
<1>1. bank[s].phase = "ready" /\ r.op = "match" /\ Busy(s) /\ BankCallSound(s)
  BY DEF manual_match, Busy, BankSound
<1>2. PICK new : new = [b \in {r.line} |-> Matched(bank[s].seen[b], r.journal_line)]
  OBVIOUS
<1>3. Write(s, new)
  BY <1>2 DEF manual_match
<1>4. DOMAIN new = {r.line} /\ DOMAIN new \subseteq bank[s].read
  BY <1>1, <1>2 DEF BankCallSound, CallTyped, ReadsHold, RunsAlone, OnlyRun
<1>5. \A b \in DOMAIN new : new[b].is_reconciled = TRUE /\ new[b].journal_line = r.journal_line
  BY <1>1, <1>2, <1>4
         DEF Matched, BankCallSound, CallTyped, ReadsHold, RunsAlone, OnlyRun
<1>6. r.journal_line # NoLine
  BY <1>1, StatementsAssumption
         DEF BankCallSound, CallTyped, ReadsHold, RunsAlone, OnlyRun
<1> QED BY <1>1, <1>3, <1>4, <1>5, <1>6, WriteKeepsBank

LEMMA UnmatchKeepsBank ==
    ASSUME BankSound, NEW s \in Sessions, unmatch(s)
    PROVE  BankSound'
<1> DEFINE r == bank[s].request
<1>1. bank[s].phase = "ready" /\ r.op = "unmatch" /\ Busy(s) /\ BankCallSound(s)
  BY DEF unmatch, Busy, BankSound
<1>2. PICK new : new = [b \in {r.line} |-> Unmatched(bank[s].seen[b])]
  OBVIOUS
<1>3. Write(s, new)
  BY <1>2 DEF unmatch
<1>4. DOMAIN new = {r.line} /\ DOMAIN new \subseteq bank[s].read
  BY <1>1, <1>2 DEF BankCallSound, CallTyped, ReadsHold, RunsAlone, OnlyRun
<1>5. \A b \in DOMAIN new : new[b].is_reconciled = FALSE /\ new[b].journal_line = NoLine
  BY <1>1, <1>2, <1>4
         DEF Unmatched, BankCallSound, CallTyped, ReadsHold, RunsAlone, OnlyRun
<1> QED BY <1>1, <1>3, <1>4, <1>5, WriteKeepsBank

LEMMA AbandonKeepsBank ==
    ASSUME BankSound, NEW s \in Sessions, Abandon(s)
    PROVE  BankSound'
<1>1. UNCHANGED <<statement, files, crossed, by_run>> /\ bank' = [bank EXCEPT ![s] = BankIdle]
  BY DEF Abandon
<1>2. bank' = [t \in Sessions |-> bank'[t]] /\ \A t \in Sessions \ {s} : bank'[t] = bank[t]
  BY <1>1 DEF BankSound, StatementTyped
<1>3. \A t \in Sessions : Busy(t)' => t # s /\ Busy(t) /\ bank'[t] = bank[t]
  BY <1>1, <1>2 DEF Busy, BankIdle, BankSound, StatementTyped
<1>4. ASSUME NEW t \in Sessions, Busy(t)'
      PROVE  BankCallSound(t)'
  <2>1. Busy(t) /\ bank'[t] = bank[t] /\ BankCallSound(t)
    BY <1>3, <1>4 DEF BankSound
  <2> QED BY <1>1, <1>3, <2>1 DEF BankCallSound, CallTyped, ReadsHold, RunsAlone, OnlyRun
<1>5. StatementTyped'
  BY <1>1, <1>2 DEF StatementTyped, BankSound
<1>6. RunsMatchOnce' /\ FlagsAgree'
  BY <1>1 DEF RunsMatchOnce, FlagsAgree, BankSound
<1>7. \A t, u \in Sessions : Busy(t)' /\ Busy(u)' /\ t # u =>
          bank'[t].read \cap bank'[u].read \subseteq crossed'
  BY <1>1, <1>3 DEF BankSound
<1> QED BY <1>1, <1>4, <1>5, <1>6, <1>7 DEF BankSound

LEMMA OthersKeepBank ==
    ASSUME BankSound, UNCHANGED bankvars
    PROVE  BankSound'
<1>1. UNCHANGED <<statement, files, bank, crossed, by_run>>
  BY DEF bankvars
<1>2. \A t \in Sessions : Busy(t) <=> Busy(t)'
  BY <1>1 DEF Busy
<1>3. ASSUME NEW t \in Sessions, Busy(t)
      PROVE  BankCallSound(t)'
  BY <1>1, <1>2, <1>3
         DEF BankCallSound, CallTyped, ReadsHold, RunsAlone, OnlyRun, BankSound
<1>4. (StatementTyped /\ RunsMatchOnce /\ FlagsAgree)'
  BY <1>1 DEF BankSound, StatementTyped, RunsMatchOnce, FlagsAgree
<1> QED BY <1>1, <1>2, <1>3, <1>4 DEF BankSound

LEMMA NextKeepsBank == BankSound /\ [BankNext]_<<vars, bankvars>> => BankSound'
<1> SUFFICES ASSUME BankSound, [BankNext]_<<vars, bankvars>>
             PROVE  BankSound'
  OBVIOUS
<1>1. CASE UNCHANGED bankvars
  BY <1>1, OthersKeepBank
<1>2. CASE BankNext
  BY <1>1, <1>2, ImportKeepsBank, SelectKeepsBank, LoadKeepsBank, AutoKeepsBank, MatchKeepsBank,
     UnmatchKeepsBank, AbandonKeepsBank DEF BankNext
<1> QED BY <1>1, <1>2

\* Runs of auto_reconcile that no other run overlaps never give one journal line to two lines
\* of the statement, although lines may be imported, matched by hand or taken back while they
\* read; a line that another request had read as well is excepted.  A line is flagged exactly
\* when it names a journal line, with the same exception.  For every set of statement files
\* and of documents.
THEOREM MatchesStayOneToOne == BankSpec => []MatchesAreOneToOne
<1>1. BankSound => MatchesAreOneToOne
  BY DEF BankSound, MatchesAreOneToOne
<1> QED BY <1>1, InitBank, NextKeepsBank, PTL DEF BankSpec

-----------------------------------------------------------------------------
(* The documents, with the bank beside them.                               *)

\* A step of the bank counts its request, and leaves the documents alone.
documentvars ==
    <<rows, next_id, depreciations, journals, notices, chart, requests, records, session,
      overlapped, runs, excused>>

LEMMA BankInitIsInit == BankInit => Init
BY DEF BankInit

LEMMA BankStep == [BankNext]_<<vars, bankvars>> => [Next]_vars \/ UNCHANGED documentvars
BY DEF BankNext, vars, bankvars, documentvars, import_statement_csv, Select, LoadCandidates,
   auto_reconcile, manual_match, unmatch, Abandon, Write

LEMMA StayedKeys == KeysSound /\ UNCHANGED documentvars => KeysSound'
BY DEF documentvars, KeysSound, SessionsTyped, KeySound, HoldsKey, Holding, KeyOf

LEMMA StayedReads == ReadsSound /\ UNCHANGED documentvars => ReadsSound'
<1> SUFFICES ASSUME ReadsSound, UNCHANGED documentvars
             PROVE  ReadsSound'
  OBVIOUS
<1>1. UNCHANGED <<rows, requests, session, overlapped>>
  BY DEF documentvars
<1>2. SessionsTyped' /\ RowsFit'
  BY <1>1 DEF ReadsSound, SessionsTyped, RowsFit, Holding
<1>3. ReadsCurrent'
  BY <1>1 DEF ReadsSound, ReadsCurrent, UnderWay, SelectedBy
<1>4. \A s \in Sessions : UnderWay(s)' => SeenFits(s)'
  BY <1>1 DEF ReadsSound, SeenFits, UnderWay
<1> QED BY <1>2, <1>3, <1>4 DEF ReadsSound

LEMMA StayedRecords == RecordsSound /\ UNCHANGED documentvars => RecordsSound'
<1> SUFFICES ASSUME RecordsSound, UNCHANGED documentvars
             PROVE  RecordsSound'
  OBVIOUS
<1>1. UNCHANGED <<rows, journals, notices, chart, session, overlapped>>
  BY DEF documentvars
<1>2. OneRecordPerMove'
  BY <1>1 DEF RecordsSound, OneRecordPerMove
<1>3. IsAList(journals)' /\ IsAList(notices)'
  BY <1>1 DEF RecordsSound
<1>4. \A s \in Sessions : UnderWay(s)' <=> UnderWay(s)
  BY <1>1 DEF UnderWay
<1>5. \A i, row : HasRecords(i, row)' <=> HasRecords(i, row)
  BY <1>1 DEF HasRecords
<1> QED BY <1>1, <1>2, <1>3, <1>4, <1>5 DEF RecordsSound

LEMMA StayedAmounts == AmountsSound /\ UNCHANGED documentvars => AmountsSound'
<1> SUFFICES ASSUME AmountsSound, UNCHANGED documentvars
             PROVE  AmountsSound'
  OBVIOUS
<1>1. UNCHANGED <<rows, next_id, requests, session>>
  BY DEF documentvars
<1> QED BY <1>1 DEF AmountsSound, SeenAmounts, Given, UnderWay

LEMMA StayedDepreciation == DepreciationSound /\ UNCHANGED documentvars => DepreciationSound'
<1> SUFFICES ASSUME DepreciationSound, UNCHANGED documentvars
             PROVE  DepreciationSound'
  OBVIOUS
<1>1. UNCHANGED <<rows, depreciations, requests, session, overlapped>>
  BY DEF documentvars
<1> QED BY <1>1 DEF DepreciationSound, AssetSound, Base, Depreciated, UnderWay

LEMMA StayedJournals == JournalsSound /\ UNCHANGED documentvars => JournalsSound'
<1> SUFFICES ASSUME JournalsSound, UNCHANGED documentvars
             PROVE  JournalsSound'
  OBVIOUS
<1>1. UNCHANGED <<rows, next_id, journals, chart, requests>>
  BY DEF documentvars
<1> QED BY <1>1 DEF JournalsSound, JournalsCarryTheirDocument, Given

LEMMA BankKeys == BankSpec => []KeysSound
<1>1. KeysSound /\ [BankNext]_<<vars, bankvars>> => KeysSound'
  BY BankStep, NextKeys, StayedKeys
<1> QED BY <1>1, BankInitIsInit, InitKeys, PTL DEF BankSpec

LEMMA BankReads == BankSpec => []ReadsSound
<1>1. ReadsSound /\ SessionsTyped' /\ [BankNext]_<<vars, bankvars>> => ReadsSound'
  BY BankStep, NextReads, StayedReads
<1>2. KeysSound => SessionsTyped
  BY DEF KeysSound
<1> QED BY <1>1, <1>2, BankInitIsInit, InitReads, BankKeys, PTL DEF BankSpec

LEMMA BankRecords == BankSpec => []RecordsSound
<1>1. ReadsSound /\ ReadsSound' /\ RecordsSound /\ [BankNext]_<<vars, bankvars>> => RecordsSound'
  BY BankStep, NextRecords, StayedRecords
<1> QED BY <1>1, BankInitIsInit, InitRecords, BankReads, PTL DEF BankSpec

LEMMA BankAmounts == BankSpec => []AmountsSound
<1>1. ReadsSound /\ AmountsSound /\ [BankNext]_<<vars, bankvars>> => AmountsSound'
  BY BankStep, NextAmounts, StayedAmounts
<1> QED BY <1>1, BankInitIsInit, InitAmounts, BankReads, PTL DEF BankSpec

LEMMA BankDepreciation == BankSpec => []DepreciationSound
<1>1. /\ ReadsSound /\ AmountsSound /\ DepreciationSound
      /\ [BankNext]_<<vars, bankvars>>
      => DepreciationSound'
  BY BankStep, NextDepreciation, StayedDepreciation
<1> QED BY <1>1, BankInitIsInit, InitDepreciation, BankReads, BankAmounts, PTL DEF BankSpec

LEMMA BankJournals == BankSpec => []JournalsSound
<1>1. /\ ReadsSound /\ AmountsSound /\ DepreciationSound /\ JournalsSound
      /\ [BankNext]_<<vars, bankvars>>
      => JournalsSound'
  BY BankStep, NextJournals, StayedJournals
<1> QED BY <1>1, BankInitIsInit, InitJournals, BankReads, BankAmounts, BankDepreciation, PTL
       DEF BankSpec

\* With a bank statement beside the documents, whose requests change none of theirs, a handler
\* still commits once under a key, a document has the records of the statuses it passed, its
\* journals carry its amounts, the depreciation of an asset adds up, and a batch moves its
\* records together.
THEOREM DocumentsBesideTheBank ==
    BankSpec => /\ []KeyRunsOnce /\ []OneRecordPerMove
                /\ []JournalsCarryTheirDocument /\ []DepreciationAddsUp
                /\ BatchMovesTogether
<1>1. KeysSound => KeyRunsOnce
  BY KeysAreEnough
<1>2. RecordsSound => OneRecordPerMove
  BY DEF RecordsSound
<1>3. JournalsSound => JournalsCarryTheirDocument
  BY DEF JournalsSound
<1>4. ReadsSound /\ [BankNext]_<<vars, bankvars>> =>
        [\A s \in Sessions :
          /\ UnderWay(s) /\ session[s].request.op = "batch" /\ notices' # notices
          /\ session'[s] # session[s]
          => \A i \in Selected(session[s].seen, session[s].request) \ overlapped :
                rows'[i].status = session[s].request.action]_vars
  <2>1. UNCHANGED documentvars => notices' = notices
    BY DEF documentvars
  <2> QED BY <2>1, BankStep, BatchStep
<1> QED BY <1>1, <1>2, <1>3, <1>4, DepreciationIsEnough, BankKeys, BankReads, BankRecords,
           BankDepreciation, BankJournals, PTL
       DEF BankSpec, BatchMovesTogether

-----------------------------------------------------------------------------
(* The registers.  The rows and the requests.                              *)

Row == [key : RegisterKeys, live : BOOLEAN, in : Nat, out : Nat, rest : Nat, work : Int,
        file : Nat]
SeenRow == [key : RegisterKeys \cup {Null}, live : BOOLEAN, in : Nat, out : Nat, rest : Nat,
            work : Int, file : Nat]

Ops == {"insert", "delete", "create_task", "clock_in", "clock_out", "manual", "archive",
        "supersede", "link"}
Call == [op : Ops, keys : SUBSET RegisterKeys, row : Nat, name : Nat, seen : SeenRow]

\* What may be asked of the register, and which of it concerns a row that was read.
Asked(op) ==
    \/ op = "insert" /\ register \in {"account", "task", "invoice", "setting"}
    \/ op = "delete" /\ register = "account"
    \/ op = "create_task" /\ register = "task"
    \/ op \in {"clock_in", "clock_out", "manual"} /\ register = "attendance"
    \/ op \in {"archive", "supersede", "link"} /\ register = "document"
OfARow == {"delete", "clock_out", "supersede", "link"}
OfNoRow == {"insert", "create_task", "manual", "archive"}
OfOneKey == {"create_task", "clock_in", "clock_out", "manual", "archive", "supersede", "link"}

RegisterTypeOK ==
    /\ register \in RegisterKinds
    /\ entries \in Seq(Row)
    /\ calls \in Nat
    /\ call \in [Clerks -> {Free} \cup Call]

Pending(c) == call[c] # Free

\* The row of a request stays where it was; the row that takes over from it is behind it.
CallSound(c) ==
    LET r == call[c]
    IN  /\ Asked(r.op)
        /\ r.op \in OfARow => r.row # Null
        /\ r.op \in OfNoRow => r.row = Null
        /\ r.op = "delete" => r.keys = {}
        /\ r.op \in OfOneKey => \E k \in RegisterKeys : r.keys = {k}
        /\ r.row # Null =>
              /\ r.row \in DOMAIN entries
              /\ r.op # "delete" => r.keys = {entries[r.row].key}
        /\ r.op = "link" =>
              \E n \in DOMAIN entries : n > r.row /\ entries[n].key = entries[r.row].key

\* Of a key whose requests did not overlap: one is under way at most, and it knows the rows.
Guarded(k) ==
    /\ \A c, d \in Clerks : k \in call[c].keys /\ k \in call[d].keys => c = d
    /\ \A c \in Clerks : Pending(c) /\ k \in call[c].keys =>
          LET r == call[c]
          IN  /\ r.row = Null /\ r.op # "create_task" => Live(k) = {}
              /\ r.row # Null => entries[r.row] = r.seen
              /\ r.op = "link" => \E m, n : Live(k) \subseteq {m, n} /\ (r.seen.live => m = r.row)
    /\ (\A c \in Clerks : k \in call[c].keys => call[c].op # "link") =>
          \A m, n \in Live(k) : m = n

\* No two rows of a key, live or not.
KeysAreUnique ==
    register \in Constrained =>
        \A m, n \in DOMAIN entries : entries[m].key = entries[n].key => m = n

\* After every version there is a current one, or it is current itself.
VersionsFollow ==
    register = "document" =>
        \A n \in DOMAIN entries :
            /\ entries[n].file \in objects
            /\ \E m \in DOMAIN entries :
                   m >= n /\ entries[m].key = entries[n].key /\ entries[m].live

RegistersSound ==
    /\ RegisterTypeOK
    /\ \A c \in Clerks : Pending(c) => CallSound(c)
    /\ \A k \in RegisterKeys \ unguarded : Guarded(k)
    /\ KeysAreUnique
    /\ HoursAgree
    /\ VersionsFollow

-----------------------------------------------------------------------------
(* How a step changes the rows.                                            *)

\* Rows of some of the keys are inserted, one each at most.
Inserts(keys) ==
    /\ entries' \in Seq(Row)
    /\ \A n \in DOMAIN entries : n \in DOMAIN entries' /\ entries'[n] = entries[n]
    /\ \A n \in DOMAIN entries' \ DOMAIN entries :
          /\ \A m \in DOMAIN entries : m < n
          /\ entries'[n].live /\ entries'[n].key \in keys
    /\ \A m, n \in DOMAIN entries' \ DOMAIN entries :
          entries'[m].key = entries'[n].key => m = n

\* The hours of a row agree.
HoursOf(e) == Null \in {e.in, e.out} \/ e.work = Worked(e.in, e.out, e.rest)

LEMMA EntryIsARow ==
    ASSUME NEW k \in RegisterKeys
    PROVE  Entry(k) \in Row /\ Entry(k).key = k /\ Entry(k).live /\ HoursOf(Entry(k))
BY DEF Entry, Row, Null, HoursOf

LEMMA SeqOfSet ==
    ASSUME NEW S, IsFiniteSet(S), NEW T, S \subseteq T
    PROVE  LET list == SetToSeq(S)
           IN  /\ list \in Seq(T)
               /\ DOMAIN list = 1 .. Cardinality(S) /\ Cardinality(S) \in Nat
               /\ \A i \in DOMAIN list : list[i] \in S
               /\ \A i, j \in DOMAIN list : list[i] = list[j] => i = j
<1>1. Cardinality(S) \in Nat /\ ExistsBijection(1 .. Cardinality(S), S)
  BY FS_CardinalityType
<1>2. \E f \in [1 .. Cardinality(S) -> S] : IsInjective(f)
  BY <1>1 DEF ExistsBijection, Bijection, Injection, IsInjective
<1>3. SetToSeq(S) \in [1 .. Cardinality(S) -> S] /\ IsInjective(SetToSeq(S))
  BY <1>2 DEF SetToSeq
<1> HIDE DEF SetToSeq
<1> QED BY <1>1, <1>3 DEF IsInjective

LEMMA AppendedRows ==
    ASSUME entries \in Seq(Row), NEW new \in Seq(Row), entries' = entries \o new
    PROVE  /\ entries' \in Seq(Row)
           /\ \A n \in DOMAIN entries : n \in DOMAIN entries' /\ entries'[n] = entries[n]
           /\ \A n \in DOMAIN entries' \ DOMAIN entries :
                 /\ \A m \in DOMAIN entries : m < n
                 /\ n - Len(entries) \in DOMAIN new
                 /\ entries'[n] = new[n - Len(entries)]
           /\ \A n \in DOMAIN new :
                 /\ n + Len(entries) \in DOMAIN entries' \ DOMAIN entries
                 /\ entries'[n + Len(entries)] = new[n]
BY ConcatProperties, LenProperties

\* A set of rows with different keys, in any order.
LEMMA InsertedSet ==
    ASSUME entries \in Seq(Row), NEW S, IsFiniteSet(S), S \subseteq Row,
           \A x, y \in S : x.key = y.key => x = y, \A x \in S : x.live,
           entries' = entries \o SetToSeq(S)
    PROVE  /\ Inserts({x.key : x \in S})
           /\ \A n \in DOMAIN entries' \ DOMAIN entries : entries'[n] \in S
<1> DEFINE new == SetToSeq(S)
<1>1. /\ new \in Seq(Row)
      /\ \A i \in DOMAIN new : new[i] \in S
      /\ \A i, j \in DOMAIN new : new[i] = new[j] => i = j
  BY SeqOfSet
<1> HIDE DEF new
<1>2. /\ entries' \in Seq(Row)
      /\ \A n \in DOMAIN entries : n \in DOMAIN entries' /\ entries'[n] = entries[n]
      /\ \A n \in DOMAIN entries' \ DOMAIN entries :
                 /\ \A m \in DOMAIN entries : m < n
                 /\ n - Len(entries) \in DOMAIN new
                 /\ entries'[n] = new[n - Len(entries)]
  BY <1>1, AppendedRows DEF new
<1>3. \A n \in DOMAIN entries' \ DOMAIN entries : entries'[n] \in S
  BY <1>1, <1>2
<1>4. ASSUME NEW m \in DOMAIN entries' \ DOMAIN entries,
             NEW n \in DOMAIN entries' \ DOMAIN entries, entries'[m].key = entries'[n].key
      PROVE  m = n
  <2>1. m - Len(entries) = n - Len(entries)
    BY <1>1, <1>2, <1>3, <1>4
  <2>2. m \in Nat /\ n \in Nat /\ Len(entries) \in Nat
    BY <1>2
  <2> QED BY <2>1, <2>2
<1> QED BY <1>2, <1>3, <1>4 DEF Inserts

LEMMA InsertedKeys ==
    ASSUME entries \in Seq(Row), NEW keys \in SUBSET RegisterKeys,
           entries' = entries \o SetToSeq({Entry(k) : k \in keys})
    PROVE  /\ Inserts(keys)
           /\ \A n \in DOMAIN entries' \ DOMAIN entries : HoursOf(entries'[n])
<1> DEFINE S == {Entry(k) : k \in keys}
<1>1. IsFiniteSet(keys)
  BY RegistersAssumption, FS_Subset
<1>2. IsFiniteSet(S)
  <2> DEFINE f == [k \in keys |-> Entry(k)]
  <2>1. f \in Surjection(keys, S)
    BY DEF Surjection
  <2> QED BY <1>1, <2>1, FS_Surjection
<1>3. S \subseteq Row /\ (\A x, y \in S : x.key = y.key => x = y) /\ (\A x \in S : x.live)
  BY EntryIsARow
<1>4. \A x \in S : HoursOf(x) /\ x.key \in keys
  BY EntryIsARow
<1>5. entries' = entries \o SetToSeq(S)
  OBVIOUS
<1> HIDE DEF S
<1>6. /\ Inserts({x.key : x \in S})
      /\ \A n \in DOMAIN entries' \ DOMAIN entries : entries'[n] \in S
  BY <1>2, <1>3, <1>5, InsertedSet
<1> QED BY <1>4, <1>6 DEF Inserts

LEMMA InsertedOne ==
    ASSUME entries \in Seq(Row), NEW e \in Row, e.live,
           entries' = Append(entries, e) \/ entries' = entries \o SetToSeq({e})
    PROVE  /\ Inserts({e.key})
           /\ Len(entries) + 1 \in DOMAIN entries'
           /\ \A n \in DOMAIN entries' \ DOMAIN entries : n = Len(entries) + 1 /\ entries'[n] = e
<1>1. CASE entries' = Append(entries, e)
  BY <1>1 DEF Inserts
<1>2. CASE entries' = entries \o SetToSeq({e})
  <2> DEFINE new == SetToSeq({e})
  <2>1. IsFiniteSet({e}) /\ Cardinality({e}) = 1
    BY FS_Singleton
  <2>2. /\ new \in Seq(Row) /\ DOMAIN new = 1 .. 1
        /\ \A i \in DOMAIN new : new[i] \in {e}
    BY <2>1, SeqOfSet
  <2>3. entries' = entries \o new
    BY <1>2
  <2> HIDE DEF new
  <2>4. DOMAIN new = {1} /\ new[1] = e /\ Len(new) = 1
    BY <2>2
  <2>5. /\ entries' \in Seq(Row) /\ Len(entries') = Len(entries) + 1
        /\ \A i \in 1 .. Len(entries) + 1 :
              entries'[i] = IF i <= Len(entries) THEN entries[i] ELSE e
    <3>1. /\ entries \o new \in Seq(Row) /\ Len(entries \o new) = Len(entries) + Len(new)
          /\ \A i \in 1 .. Len(entries) + Len(new) :
                (entries \o new)[i] = IF i <= Len(entries) THEN entries[i] ELSE new[i - Len(entries)]
      BY <2>2, ConcatProperties
    <3>2. Len(entries) \in Nat
      OBVIOUS
    <3>3. ASSUME NEW i \in 1 .. Len(entries) + 1
          PROVE  entries'[i] = IF i <= Len(entries) THEN entries[i] ELSE e
      <4>1. i <= Len(entries) \/ i = Len(entries) + 1
        BY <3>2
      <4> QED BY <2>3, <2>4, <3>1, <3>2, <4>1
    <3> QED BY <2>3, <2>4, <3>1, <3>3
  <2> QED BY <2>5 DEF Inserts
<1> QED BY <1>1, <1>2

\* One row changes in place and keeps its key; it may go out of the lists, not back in.
Changes(n) ==
    /\ n \in DOMAIN entries
    /\ entries' \in Seq(Row) /\ DOMAIN entries' = DOMAIN entries
    /\ \A m \in DOMAIN entries \ {n} : entries'[m] = entries[m]
    /\ entries'[n].key = entries[n].key /\ (entries'[n].live => entries[n].live)

Persists ==
    /\ entries' \in Seq(Row)
    /\ \A n \in DOMAIN entries : n \in DOMAIN entries' /\ entries'[n].key = entries[n].key

\* Nothing happened to the rows of a key.
Untouched(k) ==
    /\ \A n \in DOMAIN entries : entries[n].key = k => n \in DOMAIN entries' /\ entries'[n] = entries[n]
    /\ \A n \in DOMAIN entries' :
          entries'[n].key = k => n \in DOMAIN entries /\ entries[n].key = k

LEMMA RowsAreTyped ==
    ASSUME RegisterTypeOK, NEW n \in DOMAIN entries
    PROVE  n \in Nat \ {0} /\ entries[n] \in Row
BY DEF RegisterTypeOK

\* Another row in the place of one.
LEMMA EditIsAChange ==
    ASSUME RegisterTypeOK, NEW n \in DOMAIN entries, NEW e \in Row, e.key = entries[n].key,
           e.live => entries[n].live, entries' = [entries EXCEPT ![n] = e]
    PROVE  Changes(n) /\ entries'[n] = e
<1>1. entries \in Seq(Row)
  BY DEF RegisterTypeOK
<1>2. entries' \in Seq(Row) /\ DOMAIN entries' = DOMAIN entries /\ entries'[n] = e
  BY <1>1
<1>3. \A m \in DOMAIN entries \ {n} : entries'[m] = entries[m]
  BY <1>1
<1> QED BY <1>2, <1>3 DEF Changes

LEMMA InsertsTouch ==
    ASSUME RegisterTypeOK, NEW keys, Inserts(keys)
    PROVE  Persists /\ \A k : k \notin keys => Untouched(k)
BY DEF Persists, Untouched, Inserts, RegisterTypeOK

LEMMA ChangeTouches ==
    ASSUME RegisterTypeOK, NEW n, Changes(n)
    PROVE  Persists /\ \A k : k # entries[n].key => Untouched(k)
BY DEF Persists, Untouched, Changes, RegisterTypeOK

LEMMA KeptTouches ==
    ASSUME RegisterTypeOK, entries' = entries
    PROVE  Persists /\ \A k : Untouched(k)
BY DEF Persists, Untouched, RegisterTypeOK

LEMMA UntouchedLive ==
    ASSUME NEW k, Untouched(k)
    PROVE  Live(k)' = Live(k)
BY DEF Untouched, Live

\* The live rows of a key after an insertion: those before and at most one more.
LEMMA InsertedLive ==
    ASSUME NEW keys, Inserts(keys), NEW k
    PROVE  /\ \A n \in Live(k)' : n \in DOMAIN entries => n \in Live(k)
           /\ \A m, n \in Live(k)' : m \notin DOMAIN entries /\ n \notin DOMAIN entries => m = n
BY DEF Inserts, Live

LEMMA ChangedLive ==
    ASSUME NEW n, Changes(n), NEW k
    PROVE  Live(k)' \subseteq Live(k) /\ (~ entries'[n].live => n \notin Live(k)')
BY DEF Changes, Live

-----------------------------------------------------------------------------
(* What a step leaves of the requests.                                     *)

LEMMA FreeIsNoCall == \A r \in Call : r # Free
BY DEF Free, Call, Ops

LEMMA PendingCall ==
    ASSUME RegisterTypeOK, NEW c \in Clerks, Pending(c)
    PROVE  call[c] \in Call
BY DEF RegisterTypeOK, Pending

\* Whose key is asked for is under way.
LEMMA HolderIsPending ==
    ASSUME NEW c \in Clerks, NEW k, k \in call[c].keys
    PROVE  Pending(c)
BY DEF Pending, Free

LEMMA CallPersists ==
    ASSUME RegisterTypeOK, Persists, register' = register, NEW c \in Clerks,
           Pending(c), CallSound(c), call'[c] = call[c]
    PROVE  CallSound(c)'
<1>1. call[c] \in Call
  BY PendingCall
<1>2. Asked(call[c].op)'
  BY DEF CallSound, Asked
<1>3. ASSUME call[c].row # Null
      PROVE  /\ call[c].row \in DOMAIN entries'
             /\ entries'[call[c].row].key = entries[call[c].row].key
             /\ call[c].op # "delete" => call[c].keys = {entries[call[c].row].key}
  BY <1>3 DEF CallSound, Persists
<1>4. ASSUME call[c].op = "link"
      PROVE  \E n \in DOMAIN entries' : n > call[c].row /\ entries'[n].key = entries'[call[c].row].key
  <2>1. PICK n \in DOMAIN entries : n > call[c].row /\ entries[n].key = entries[call[c].row].key
    BY <1>4 DEF CallSound
  <2>2. call[c].row # Null
    BY <1>4 DEF CallSound, OfARow
  <2> QED BY <1>3, <2>1, <2>2 DEF Persists
<1> QED BY <1>2, <1>3, <1>4 DEF CallSound

\* A request ends and its key, or a step happens on other keys: the key keeps its guard.
Ends(c) == call' = [call EXCEPT ![c] = Free]

LEMMA CallsEnd ==
    ASSUME RegisterTypeOK, \A d \in Clerks : Pending(d) => CallSound(d), NEW c \in Clerks,
           Ends(c), Persists, register' = register
    PROVE  \A d \in Clerks : Pending(d)' => CallSound(d)'
<1> SUFFICES ASSUME NEW d \in Clerks, Pending(d)'
             PROVE  CallSound(d)'
  OBVIOUS
<1>1. d # c /\ call'[d] = call[d]
  BY DEF Ends, Pending, RegisterTypeOK
<1> QED BY <1>1, CallPersists DEF Pending

LEMMA GuardOfAnother ==
    ASSUME RegisterTypeOK, \A d \in Clerks : Pending(d) => CallSound(d), NEW k \in RegisterKeys,
           Guarded(k), Untouched(k), NEW c \in Clerks, Ends(c),
           k \notin call[c].keys \/ call[c].op # "link"
    PROVE  Guarded(k)'
<1>1. Live(k)' = Live(k)
  BY UntouchedLive
<1>2. \A d \in Clerks : d # c => call'[d] = call[d]
  BY DEF Ends, RegisterTypeOK
<1>3. call'[c] = Free
  BY DEF Ends, RegisterTypeOK
<1>4. \A d \in Clerks : k \in call'[d].keys => d # c /\ k \in call[d].keys
  BY <1>2, <1>3 DEF Free
<1>5. \A a, d \in Clerks : k \in call'[a].keys /\ k \in call'[d].keys => a = d
  BY <1>4 DEF Guarded
<1>6. ASSUME NEW d \in Clerks, Pending(d)', k \in call'[d].keys
      PROVE  /\ call'[d].row = Null /\ call'[d].op # "create_task" => Live(k)' = {}
             /\ call'[d].row # Null => entries'[call'[d].row] = call'[d].seen
             /\ call'[d].op = "link" =>
                   \E m, n : Live(k)' \subseteq {m, n} /\ (call'[d].seen.live => m = call'[d].row)
  <2>1. d # c /\ k \in call[d].keys /\ call'[d] = call[d] /\ Pending(d)
    BY <1>2, <1>4, <1>6, HolderIsPending
  <2>2. /\ call[d].row = Null /\ call[d].op # "create_task" => Live(k) = {}
        /\ call[d].row # Null => entries[call[d].row] = call[d].seen
        /\ call[d].op = "link" =>
               \E m, n : Live(k) \subseteq {m, n} /\ (call[d].seen.live => m = call[d].row)
    BY <2>1 DEF Guarded
  <2>3. CallSound(d)
    BY <2>1
  <2>4. call[d].row # Null => call[d].row \in DOMAIN entries
    BY <2>3 DEF CallSound
  <2>5. call[d].row # Null => entries[call[d].row].key = k
    BY <2>1, <2>3 DEF CallSound
  <2>6. call[d].row # Null => entries'[call[d].row] = entries[call[d].row]
    BY <2>4, <2>5 DEF Untouched
  <2> QED BY <1>1, <2>1, <2>2, <2>6
<1>7. ASSUME \A d \in Clerks : k \in call'[d].keys => call'[d].op # "link"
      PROVE  \A m, n \in Live(k)' : m = n
  <2>1. \A d \in Clerks : k \in call[d].keys => call[d].op # "link"
    BY <1>2, <1>7
  <2> QED BY <1>1, <2>1 DEF Guarded
<1> QED BY <1>5, <1>6, <1>7 DEF Guarded

LEMMA GuardKept ==
    ASSUME UNCHANGED <<entries, call>>, NEW k, Guarded(k)
    PROVE  Guarded(k)'
<1>1. Live(k)' = Live(k)
  BY DEF Live
<1>2. \A c, d \in Clerks : k \in call'[c].keys /\ k \in call'[d].keys => c = d
  BY DEF Guarded
<1>3. ASSUME NEW c \in Clerks, Pending(c)', k \in call'[c].keys
      PROVE  /\ call'[c].row = Null /\ call'[c].op # "create_task" => Live(k)' = {}
             /\ call'[c].row # Null => entries'[call'[c].row] = call'[c].seen
             /\ call'[c].op = "link" =>
                   \E m, n : Live(k)' \subseteq {m, n} /\ (call'[c].seen.live => m = call'[c].row)
  <2>1. Pending(c) /\ k \in call[c].keys /\ call'[c] = call[c]
    BY <1>3 DEF Pending
  <2>2. /\ call[c].row = Null /\ call[c].op # "create_task" => Live(k) = {}
        /\ call[c].row # Null => entries[call[c].row] = call[c].seen
        /\ call[c].op = "link" =>
              \E m, n : Live(k) \subseteq {m, n} /\ (call[c].seen.live => m = call[c].row)
    BY <2>1 DEF Guarded
  <2> QED BY <1>1, <2>1, <2>2
<1>4. (\A c \in Clerks : k \in call'[c].keys => call'[c].op # "link") =>
          \A m, n \in Live(k)' : m = n
  BY <1>1 DEF Guarded
<1> QED BY <1>2, <1>3, <1>4 DEF Guarded

LEMMA GuardOfItsOwn ==
    ASSUME RegisterTypeOK, NEW k \in RegisterKeys, Guarded(k), NEW c \in Clerks, Ends(c),
           k \in call[c].keys, \A m, n \in Live(k)' : m = n
    PROVE  Guarded(k)'
<1>1. \A d \in Clerks : d # c => call'[d] = call[d]
  BY DEF Ends, RegisterTypeOK
<1>2. call'[c] = Free
  BY DEF Ends, RegisterTypeOK
<1>3. \A d \in Clerks : k \notin call'[d].keys
  BY <1>1, <1>2 DEF Free, Guarded
<1> QED BY <1>3 DEF Guarded

-----------------------------------------------------------------------------
(* What a step leaves of the rows.                                         *)

LEMMA RowsKept ==
    ASSUME entries' = entries, register' = register, objects \subseteq objects',
           unguarded \subseteq unguarded', KeysAreUnique, HoursAgree, VersionsFollow
    PROVE  (KeysAreUnique /\ HoursAgree /\ VersionsFollow)'
<1>1. KeysAreUnique' /\ VersionsFollow'
  BY DEF KeysAreUnique, VersionsFollow
<1>2. HoursAgree'
  BY DEF HoursAgree
<1> QED BY <1>1, <1>2

LEMMA RowsInserted ==
    ASSUME RegisterTypeOK, NEW keys, Inserts(keys), register' = register, objects' = objects,
           unguarded \subseteq unguarded', KeysAreUnique, HoursAgree, VersionsFollow,
           register \in Constrained => \A n \in DOMAIN entries : entries[n].key \notin keys,
           \A n \in DOMAIN entries' \ DOMAIN entries :
              /\ register = "attendance" => HoursOf(entries'[n])
              /\ register = "document" => entries'[n].file \in objects
    PROVE  (KeysAreUnique /\ HoursAgree /\ VersionsFollow)'
<1>1. KeysAreUnique'
  BY DEF KeysAreUnique, Inserts
<1>2. HoursAgree'
  BY DEF HoursAgree, HoursOf, Inserts
<1>3. VersionsFollow'
  <2> SUFFICES ASSUME register = "document", NEW n \in DOMAIN entries'
               PROVE  /\ entries'[n].file \in objects
                      /\ \E m \in DOMAIN entries' :
                            m >= n /\ entries'[m].key = entries'[n].key /\ entries'[m].live
    BY DEF VersionsFollow
  <2>1. CASE n \in DOMAIN entries
    BY <2>1 DEF VersionsFollow, Inserts
  <2>2. CASE n \notin DOMAIN entries
    BY <2>2 DEF Inserts
  <2> QED BY <2>1, <2>2
<1> QED BY <1>1, <1>2, <1>3

LEMMA RowChanged ==
    ASSUME RegisterTypeOK, NEW n, Changes(n), register' = register, objects' = objects,
           unguarded \subseteq unguarded', HoursAgree, VersionsFollow,
           register \notin Constrained,
           register = "attendance" => HoursOf(entries'[n]) \/ entries[n].key \in unguarded',
           register = "document" =>
              /\ entries'[n].file = entries[n].file
              /\ \E m \in DOMAIN entries : m > n /\ entries[m].key = entries[n].key
    PROVE  (KeysAreUnique /\ HoursAgree /\ VersionsFollow)'
<1>1. KeysAreUnique'
  BY DEF KeysAreUnique
<1>2. HoursAgree'
  BY DEF HoursAgree, HoursOf, Changes
<1>3. VersionsFollow'
  <2> SUFFICES ASSUME register = "document", NEW i \in DOMAIN entries'
               PROVE  /\ entries'[i].file \in objects
                      /\ \E m \in DOMAIN entries' :
                            m >= i /\ entries'[m].key = entries'[i].key /\ entries'[m].live
    BY DEF VersionsFollow
  <2>0. i \in DOMAIN entries /\ n \in DOMAIN entries /\ DOMAIN entries \subseteq Nat
    BY DEF Changes, RegisterTypeOK
  <2>1. entries'[i].key = entries[i].key /\ entries'[i].file = entries[i].file
    BY <2>0 DEF Changes
  <2>2. PICK m \in DOMAIN entries : m >= i /\ entries[m].key = entries[i].key /\ entries[m].live
    BY <2>0 DEF VersionsFollow
  <2>3. CASE m # n
    BY <2>0, <2>1, <2>2, <2>3 DEF Changes, VersionsFollow
  <2>4. CASE m = n
    <3>1. PICK later \in DOMAIN entries : later > n /\ entries[later].key = entries[n].key
      OBVIOUS
    <3>2. PICK last \in DOMAIN entries :
             last >= later /\ entries[last].key = entries[later].key /\ entries[last].live
      BY DEF VersionsFollow
    <3>3. last # n /\ last >= i /\ entries[last].key = entries[i].key
      BY <2>0, <2>2, <2>4, <3>1, <3>2
    <3>4. entries'[last] = entries[last] /\ last \in DOMAIN entries'
      BY <3>3 DEF Changes
    <3> QED BY <2>0, <2>1, <3>2, <3>3, <3>4 DEF VersionsFollow
  <2> QED BY <2>3, <2>4
<1> QED BY <1>1, <1>2, <1>3

-----------------------------------------------------------------------------
(* The three ways a request ends.                                          *)

LEMMA TypeEnds ==
    ASSUME RegisterTypeOK, NEW c \in Clerks, Ends(c), Persists, UNCHANGED <<register, calls>>
    PROVE  RegisterTypeOK'
BY DEF RegisterTypeOK, Ends, Persists

\* It inserts rows of its keys.
LEMMA InsertEnds ==
    ASSUME RegistersSound, NEW c \in Clerks, Pending(c), Ends(c), Inserts(call[c].keys),
           UNCHANGED <<register, calls, objects>>, unguarded \subseteq unguarded',
           call[c].row = Null, call[c].op # "link",
           call[c].op = "create_task" => call[c].keys \subseteq unguarded',
           register \in Constrained =>
              \A n \in DOMAIN entries : entries[n].key \notin call[c].keys,
           \A n \in DOMAIN entries' \ DOMAIN entries :
              /\ register = "attendance" => HoursOf(entries'[n])
              /\ register = "document" => entries'[n].file \in objects
    PROVE  RegistersSound'
<1>0. PICK keys : keys = call[c].keys
  OBVIOUS
<1>1. RegisterTypeOK /\ (\A d \in Clerks : Pending(d) => CallSound(d)) /\ Inserts(keys)
  BY <1>0 DEF RegistersSound
<1>2. Persists /\ \A k : k \notin keys => Untouched(k)
  BY <1>1, InsertsTouch
<1>3. RegisterTypeOK' /\ \A d \in Clerks : Pending(d)' => CallSound(d)'
  BY <1>1, <1>2, TypeEnds, CallsEnd
<1>4. ASSUME NEW k \in RegisterKeys \ unguarded'
      PROVE  Guarded(k)'
  <2>1. Guarded(k)
    BY DEF RegistersSound
  <2>2. CASE k \notin keys
    BY <1>0, <1>1, <1>2, <2>1, <2>2, GuardOfAnother
  <2>3. CASE k \in keys
    <3>1. Live(k) = {}
      BY <1>0, <2>1, <2>3 DEF Guarded
    <3>2. \A m, n \in Live(k)' : m = n
      BY <1>1, <3>1, InsertedLive
    <3> QED BY <1>0, <1>1, <2>1, <2>3, <3>2, GuardOfItsOwn
  <2> QED BY <2>2, <2>3
<1>5. (KeysAreUnique /\ HoursAgree /\ VersionsFollow)'
  BY <1>0, <1>1, RowsInserted DEF RegistersSound
<1> QED BY <1>3, <1>4, <1>5 DEF RegistersSound

\* It leaves the rows as they are.
LEMMA NothingEnds ==
    ASSUME RegistersSound, NEW c \in Clerks, Pending(c), Ends(c), entries' = entries,
           UNCHANGED <<register, calls, objects>>, unguarded \subseteq unguarded',
           call[c].op = "link" => call[c].keys \subseteq unguarded'
    PROVE  RegistersSound'
<1>1. RegisterTypeOK /\ (\A d \in Clerks : Pending(d) => CallSound(d))
  BY DEF RegistersSound
<1>2. Persists /\ \A k : Untouched(k)
  BY <1>1, KeptTouches
<1>3. RegisterTypeOK' /\ \A d \in Clerks : Pending(d)' => CallSound(d)'
  BY <1>1, <1>2, TypeEnds, CallsEnd
<1>4. ASSUME NEW k \in RegisterKeys \ unguarded'
      PROVE  Guarded(k)'
  <2>1. Guarded(k)
    BY DEF RegistersSound
  <2> QED BY <1>1, <1>2, <2>1, GuardOfAnother
<1>5. (KeysAreUnique /\ HoursAgree /\ VersionsFollow)'
  BY RowsKept DEF RegistersSound
<1> QED BY <1>3, <1>4, <1>5 DEF RegistersSound

\* It changes the row it has read.
LEMMA ChangeEnds ==
    ASSUME RegistersSound, NEW c \in Clerks, Pending(c), Ends(c), Changes(call[c].row),
           UNCHANGED <<register, calls, objects>>, unguarded \subseteq unguarded',
           register \notin Constrained,
           call[c].op = "link" /\ ~ call[c].seen.live => call[c].keys \subseteq unguarded',
           call[c].op \in {"delete", "link"} => ~ entries'[call[c].row].live,
           register = "attendance" =>
              HoursOf(entries'[call[c].row]) \/ entries[call[c].row].key \in unguarded',
           register = "document" => call[c].op = "link"
                                    /\ entries'[call[c].row].file = entries[call[c].row].file
    PROVE  RegistersSound'
<1>0. PICK row : row = call[c].row
  OBVIOUS
<1>1. RegisterTypeOK /\ (\A d \in Clerks : Pending(d) => CallSound(d)) /\ Changes(row)
  BY <1>0 DEF RegistersSound
<1>a. call[c] \in Call /\ CallSound(c) /\ row \in DOMAIN entries /\ row # Null
  BY <1>0, <1>1, PendingCall DEF Changes, RegisterTypeOK, Null
<1>2. Persists /\ \A k : k # entries[row].key => Untouched(k)
  BY <1>1, ChangeTouches
<1>3. RegisterTypeOK' /\ \A d \in Clerks : Pending(d)' => CallSound(d)'
  BY <1>1, <1>2, TypeEnds, CallsEnd
<1>4. ASSUME NEW k \in RegisterKeys \ unguarded'
      PROVE  Guarded(k)'
  <2>1. Guarded(k)
    BY DEF RegistersSound
  <2>2. CASE k # entries[row].key
    <3>1. k \notin call[c].keys \/ call[c].op # "link"
      BY <1>0, <1>a, <2>2 DEF CallSound
    <3> QED BY <1>1, <1>2, <2>1, <2>2, <3>1, GuardOfAnother
  <2>3. CASE k = entries[row].key /\ call[c].op # "delete"
    <3>1. k \in call[c].keys
      BY <1>0, <1>a, <2>3 DEF CallSound
    <3>2. Live(k)' \subseteq Live(k) /\ (~ entries'[row].live => row \notin Live(k)')
      BY <1>1, ChangedLive
    <3>3. \A m, n \in Live(k)' : m = n
      <4>1. CASE call[c].op = "link"
        <5>1. PICK m, n : Live(k) \subseteq {m, n} /\ m = row
          BY <1>0, <2>1, <3>1, <4>1 DEF Guarded
        <5> QED BY <1>0, <3>2, <4>1, <5>1
      <4>2. CASE call[c].op # "link"
        <5>1. \A d \in Clerks : k \in call[d].keys => call[d].op # "link"
          BY <2>1, <3>1, <4>2 DEF Guarded
        <5>2. \A m, n \in Live(k) : m = n
          BY <2>1, <5>1 DEF Guarded
        <5> QED BY <3>2, <5>2
      <4> QED BY <4>1, <4>2
    <3> QED BY <1>1, <2>1, <3>1, <3>3, GuardOfItsOwn
  <2>4. CASE k = entries[row].key /\ call[c].op = "delete"
    <3>1. register = "account"
      BY <1>a, <2>4 DEF CallSound, Asked
    <3>2. \A d \in Clerks : Pending(d) /\ k \in call[d].keys => call[d].op = "insert" /\ call[d].row = Null
      BY <1>1, <3>1 DEF CallSound, Asked, OfNoRow
    <3>3. Live(k)' \subseteq Live(k)
      BY <1>1, ChangedLive
    <3>4. call'[c] = Free /\ \A d \in Clerks : d # c => call'[d] = call[d]
      BY <1>1 DEF Ends, RegisterTypeOK
    <3>5. \A d \in Clerks : k \in call'[d].keys =>
             /\ d # c /\ call'[d] = call[d] /\ Pending(d)
             /\ call'[d].op = "insert" /\ call'[d].row = Null
      BY <3>2, <3>4, HolderIsPending DEF Free
    <3>6. \A d \in Clerks : k \in call[d].keys => call[d].op # "link"
      BY <3>2, HolderIsPending
    <3>7. \A m, n \in Live(k) : m = n
      BY <2>1, <3>6 DEF Guarded
    <3>8. \A a, d \in Clerks : k \in call'[a].keys /\ k \in call'[d].keys => a = d
      BY <2>1, <3>5 DEF Guarded
    <3>9. \A d \in Clerks : k \in call'[d].keys => Live(k)' = {}
      BY <2>1, <3>3, <3>5 DEF Guarded
    <3> QED BY <3>3, <3>5, <3>7, <3>8, <3>9 DEF Guarded
  <2> QED BY <2>2, <2>3, <2>4
<1>5. register = "document" =>
          \E m \in DOMAIN entries : m > row /\ entries[m].key = entries[row].key
  BY <1>0, <1>a DEF CallSound
<1>6. (KeysAreUnique /\ HoursAgree /\ VersionsFollow)'
  BY <1>0, <1>1, <1>5, RowChanged DEF RegistersSound
<1> QED BY <1>3, <1>4, <1>6 DEF RegistersSound

-----------------------------------------------------------------------------
(* The steps that read.                                                    *)

\* What is asked for keys without rows, or for a row, and not for keys that another looks at.
LEMMA Begins ==
    ASSUME RegistersSound, NEW c \in Clerks, NEW op \in Ops, NEW keys \in SUBSET RegisterKeys,
           NEW n \in Nat, Begin(c, op, keys, n),
           Asked(op), op # "link", op \in OfARow => n # Null, op \in OfNoRow => n = Null,
           op = "delete" => keys = {}, op \in OfOneKey => \E k \in RegisterKeys : keys = {k},
           n # Null => n \in DOMAIN entries /\ (op # "delete" => keys = {entries[n].key}),
           n = Null /\ op # "create_task" => \A k \in keys : Live(k) = {}
    PROVE  RegistersSound'
<1> DEFINE seen == IF n = Null THEN Entry(Null) ELSE entries[n]
           r == [op |-> op, keys |-> keys, row |-> n, name |-> calls + 1, seen |-> seen]
<1>1. RegisterTypeOK /\ \A d \in Clerks : Pending(d) => CallSound(d)
  BY DEF RegistersSound
<1>2. seen \in SeenRow /\ (n # Null => seen = entries[n])
  <2>1. CASE n = Null
    BY <2>1 DEF SeenRow, Entry, Null
  <2>2. CASE n # Null
    <3>1. entries[n] \in Row
      BY <1>1, <2>2, RowsAreTyped
    <3> QED BY <2>2, <3>1 DEF SeenRow, Row
  <2> QED BY <2>1, <2>2
<1>3. r \in Call
  <2> HIDE DEF seen
  <2> QED BY <1>1, <1>2 DEF Call, RegisterTypeOK
<1>4. /\ r.op = op /\ r.keys = keys /\ r.row = n /\ (n # Null => r.seen = entries[n])
      /\ call[c] = Free /\ call' = [call EXCEPT ![c] = r] /\ calls' = calls + 1
      /\ UNCHANGED <<register, entries, objects>>
      /\ unguarded' = unguarded \cup UNION {keys \cap call[d].keys : d \in Clerks}
  BY <1>2 DEF Begin
<1> HIDE DEF r, seen
<1>5. call'[c] = r /\ \A d \in Clerks : d # c => call'[d] = call[d]
  BY <1>1, <1>4 DEF RegisterTypeOK
<1>6. RegisterTypeOK'
  BY <1>1, <1>3, <1>4 DEF RegisterTypeOK
<1>7. ASSUME NEW d \in Clerks, Pending(d)'
      PROVE  CallSound(d)'
  <2>1. CASE d = c
    <3>1. Asked(op)'
      BY <1>4 DEF Asked
    <3> QED BY <1>4, <1>5, <2>1, <3>1 DEF CallSound
  <2>2. CASE d # c
    <3>1. Persists
      BY <1>1, <1>4, KeptTouches
    <3> QED BY <1>1, <1>4, <1>5, <1>7, <2>2, <3>1, CallPersists DEF Pending
  <2> QED BY <2>1, <2>2
<1>8. ASSUME NEW k \in RegisterKeys \ unguarded'
      PROVE  Guarded(k)'
  <2>1. Guarded(k)
    BY <1>4 DEF RegistersSound
  <2>2. Live(k)' = Live(k)
    BY <1>4 DEF Live
  <2>3. \A d \in Clerks : k \notin keys \cap call[d].keys
    BY <1>4
  <2>4. k \notin call[c].keys
    BY <1>4 DEF Free
  <2>5. \A a, d \in Clerks : k \in call'[a].keys /\ k \in call'[d].keys => a = d
    BY <1>4, <1>5, <2>1, <2>3 DEF Guarded
  <2>6. ASSUME NEW d \in Clerks, Pending(d)', k \in call'[d].keys
        PROVE  /\ call'[d].row = Null /\ call'[d].op # "create_task" => Live(k)' = {}
               /\ call'[d].row # Null => entries'[call'[d].row] = call'[d].seen
               /\ call'[d].op = "link" =>
                   \E m, i : Live(k)' \subseteq {m, i} /\ (call'[d].seen.live => m = call'[d].row)
    <3>1. CASE d = c
      BY <1>4, <1>5, <2>2, <2>6, <3>1
    <3>2. CASE d # c
      <4>1. call'[d] = call[d] /\ Pending(d) /\ k \in call[d].keys
        BY <1>5, <2>6, <3>2, HolderIsPending
      <4>2. /\ call[d].row = Null /\ call[d].op # "create_task" => Live(k) = {}
            /\ call[d].row # Null => entries[call[d].row] = call[d].seen
            /\ call[d].op = "link" =>
                  \E m, i : Live(k) \subseteq {m, i} /\ (call[d].seen.live => m = call[d].row)
        BY <2>1, <4>1 DEF Guarded
      <4>3. entries' = entries
        BY <1>4
      <4> QED BY <2>2, <4>1, <4>2, <4>3
    <3> QED BY <3>1, <3>2
  <2>7. ASSUME \A d \in Clerks : k \in call'[d].keys => call'[d].op # "link"
        PROVE  \A m, i \in Live(k)' : m = i
    <3>1. \A d \in Clerks : k \in call[d].keys => call[d].op # "link"
      BY <1>5, <2>4, <2>7
    <3> QED BY <2>1, <2>2, <3>1 DEF Guarded
  <2> QED BY <2>5, <2>6, <2>7 DEF Guarded
<1>9. (KeysAreUnique /\ HoursAgree /\ VersionsFollow)'
  BY <1>4, RowsKept DEF RegistersSound
<1> QED BY <1>6, <1>7, <1>8, <1>9 DEF RegistersSound

LEMMA AsksAreSound ==
    ASSUME RegistersSound, NEW c \in Clerks,
           AskAccount(c) \/ AskTask(c) \/ AskConstrained(c) \/ AskAttendance(c) \/ AskDocument(c)
    PROVE  RegistersSound'
<1> USE DEF Ops, OfARow, OfNoRow, OfOneKey
<1>1. RegisterTypeOK /\ Null \in Nat
  BY DEF RegistersSound, Null
<1>2. DOMAIN entries \subseteq Nat /\ \A n \in DOMAIN entries : n # Null /\ entries[n].key \in RegisterKeys
  BY <1>1, RowsAreTyped DEF Row, Null
<1>3. Missing \subseteq RegisterKeys /\ \A k \in Missing : Live(k) = {}
  BY DEF Missing
<1>4. CASE AskAccount(c)
  <2>1. Asked("insert") /\ Asked("delete")
    BY <1>4 DEF AskAccount, Asked
  <2>2. CASE \E k \in Missing : Begin(c, "insert", {k}, Null)
    BY <1>1, <1>3, <2>1, <2>2, Begins
  <2>3. CASE Begin(c, "insert", Missing, Null)
    BY <1>1, <1>3, <2>1, <2>3, Begins
  <2>4. CASE \E n \in DOMAIN entries : entries[n].live /\ Begin(c, "delete", {}, n)
    BY <1>1, <1>2, <2>1, <2>4, Begins
  <2> QED BY <1>4, <2>2, <2>3, <2>4 DEF AskAccount
<1>5. CASE AskTask(c)
  <2>1. Asked("insert") /\ Asked("create_task")
    BY <1>5 DEF AskTask, Asked
  <2>2. CASE \E k \in RegisterKeys : Begin(c, "create_task", {k}, Null)
    BY <1>1, <1>3, <2>1, <2>2, Begins
  <2>3. CASE Begin(c, "insert", Missing, Null)
    BY <1>1, <1>3, <2>1, <2>3, Begins
  <2> QED BY <1>5, <2>2, <2>3 DEF AskTask
<1>6. CASE AskConstrained(c)
  <2>1. Asked("insert")
    BY <1>6 DEF AskConstrained, Asked, Constrained
  <2>2. PICK k \in Missing : Begin(c, "insert", {k}, Null)
    BY <1>6 DEF AskConstrained
  <2> QED BY <1>1, <1>3, <2>1, <2>2, Begins
<1>7. CASE AskAttendance(c)
  <2>1. Asked("clock_in") /\ Asked("clock_out") /\ Asked("manual")
    BY <1>7 DEF AskAttendance, Asked
  <2>2. CASE \E k \in Missing : Begin(c, "clock_in", {k}, Null)
    BY <1>1, <1>3, <2>1, <2>2, Begins
  <2>3. CASE \E k \in Missing : Begin(c, "manual", {k}, Null)
    BY <1>1, <1>3, <2>1, <2>3, Begins
  <2>4. CASE \E n \in DOMAIN entries : Begin(c, "clock_in", {entries[n].key}, n)
    BY <1>1, <1>2, <2>1, <2>4, Begins
  <2>5. CASE \E n \in DOMAIN entries : Begin(c, "clock_out", {entries[n].key}, n)
    BY <1>1, <1>2, <2>1, <2>5, Begins
  <2> QED BY <1>7, <2>2, <2>3, <2>4, <2>5 DEF AskAttendance
<1>8. CASE AskDocument(c)
  <2>1. Asked("archive") /\ Asked("supersede")
    BY <1>8 DEF AskDocument, Asked
  <2>2. CASE \E k \in RegisterKeys :
                /\ \A n \in DOMAIN entries : entries[n].key # k
                /\ Begin(c, "archive", {k}, Null)
    <3>1. PICK k \in RegisterKeys : /\ \A n \in DOMAIN entries : entries[n].key # k
                                    /\ Begin(c, "archive", {k}, Null)
      BY <2>2
    <3>2. Live(k) = {}
      BY <3>1 DEF Live
    <3> QED BY <1>1, <2>1, <3>1, <3>2, Begins
  <2>3. CASE \E n \in DOMAIN entries : Begin(c, "supersede", {entries[n].key}, n)
    BY <1>1, <1>2, <2>1, <2>3, Begins
  <2> QED BY <1>8, <2>2, <2>3 DEF AskDocument
<1> QED BY <1>4, <1>5, <1>6, <1>7, <1>8

-----------------------------------------------------------------------------
(* The steps that write.                                                   *)

LEMMA OpIsPending ==
    ASSUME RegistersSound, NEW c \in Clerks, call[c].op \in Ops
    PROVE  Pending(c) /\ call[c] \in Call /\ CallSound(c) /\ RegisterTypeOK
BY PendingCall DEF RegistersSound, Pending, Free, Ops

LEMMA DoneEnds ==
    ASSUME NEW c \in Clerks, Done(c)
    PROVE  Ends(c) /\ UNCHANGED <<register, calls>>
BY DEF Done, Ends

LEMMA insertIsSound ==
    ASSUME RegistersSound, NEW c \in Clerks, insert(c)
    PROVE  RegistersSound'
<1>1. call[c].op = "insert" /\ Ends(c) /\ UNCHANGED <<register, calls, objects, unguarded>>
  BY DoneEnds DEF insert, Enter
<1>2. Pending(c) /\ call[c] \in Call /\ CallSound(c) /\ RegisterTypeOK
  BY <1>1, OpIsPending DEF Ops
<1> DEFINE refused == register \in Constrained /\ \E n \in DOMAIN entries : entries[n].key \in call[c].keys
<1>3. CASE refused
  <2>1. entries' = entries
    BY <1>3 DEF insert, Enter
  <2> QED BY <1>1, <1>2, <2>1, NothingEnds
<1>4. CASE ~ refused
  <2>1. PICK keys \in SUBSET RegisterKeys : keys = call[c].keys
    BY <1>2 DEF Call
  <2>2. entries' = entries \o SetToSeq({Entry(k) : k \in keys})
    BY <1>4, <2>1 DEF insert, Enter
  <2>3. Inserts(keys) /\ \A n \in DOMAIN entries' \ DOMAIN entries : HoursOf(entries'[n])
    BY <1>2, <2>2, InsertedKeys DEF RegisterTypeOK
  <2>4. call[c].row = Null /\ register # "document"
    BY <1>1, <1>2 DEF CallSound, OfNoRow, Asked
  <2> QED BY <1>1, <1>2, <1>4, <2>1, <2>3, <2>4, InsertEnds
<1> QED BY <1>3, <1>4

LEMMA create_taskIsSound ==
    ASSUME RegistersSound, NEW c \in Clerks, create_task(c)
    PROVE  RegistersSound'
<1>1. /\ call[c].op = "create_task" /\ Ends(c) /\ UNCHANGED <<register, calls, objects>>
      /\ unguarded' = unguarded \cup call[c].keys
  BY DoneEnds DEF create_task, Enter
<1>2. Pending(c) /\ call[c] \in Call /\ CallSound(c) /\ RegisterTypeOK
  BY <1>1, OpIsPending DEF Ops
<1>3. PICK keys \in SUBSET RegisterKeys : keys = call[c].keys
  BY <1>2 DEF Call
<1>4. entries' = entries \o SetToSeq({Entry(k) : k \in keys})
  BY <1>3 DEF create_task, Enter
<1>5. Inserts(keys) /\ \A n \in DOMAIN entries' \ DOMAIN entries : HoursOf(entries'[n])
  BY <1>2, <1>4, InsertedKeys DEF RegisterTypeOK
<1>6. call[c].row = Null /\ register = "task" /\ register \notin Constrained
  BY <1>1, <1>2 DEF CallSound, OfNoRow, Asked, Constrained
<1> QED BY <1>1, <1>2, <1>3, <1>5, <1>6, InsertEnds

LEMMA deleteIsSound ==
    ASSUME RegistersSound, NEW c \in Clerks, delete(c)
    PROVE  RegistersSound'
<1>1. /\ call[c].op = "delete" /\ Ends(c) /\ UNCHANGED <<register, calls, objects, unguarded>>
      /\ entries' = [entries EXCEPT ![call[c].row].live = FALSE]
  BY DoneEnds DEF delete, Enter
<1>2. Pending(c) /\ call[c] \in Call /\ CallSound(c) /\ RegisterTypeOK
  BY <1>1, OpIsPending DEF Ops
<1>3. register = "account" /\ register \notin Constrained /\ call[c].row \in DOMAIN entries
  BY <1>1, <1>2 DEF CallSound, OfARow, Asked, Constrained
<1>4. Changes(call[c].row) /\ ~ entries'[call[c].row].live
  <2>1. PICK n \in DOMAIN entries : n = call[c].row
    BY <1>3
  <2>2. PICK e : e = [entries[n] EXCEPT !.live = FALSE]
    OBVIOUS
  <2>3. e \in Row /\ e.key = entries[n].key /\ ~ e.live
    BY <1>2, <2>2, RowsAreTyped DEF Row
  <2>4. entries' = [entries EXCEPT ![n] = e]
    BY <1>1, <2>1, <2>2
  <2> QED BY <1>2, <2>1, <2>3, <2>4, EditIsAChange
<1> QED BY <1>1, <1>2, <1>3, <1>4, ChangeEnds

LEMMA clock_inIsSound ==
    ASSUME RegistersSound, NEW c \in Clerks, clock_in(c)
    PROVE  RegistersSound'
<1>1. /\ call[c].op = "clock_in" /\ Ends(c) /\ UNCHANGED <<register, calls, objects>>
      /\ unguarded' = unguarded \cup IF call[c].seen.out = Null THEN {} ELSE call[c].keys
  BY DoneEnds DEF clock_in, Enter
<1>2. Pending(c) /\ call[c] \in Call /\ CallSound(c) /\ RegisterTypeOK
  BY <1>1, OpIsPending DEF Ops
<1>3. register = "attendance" /\ register \notin Constrained
  BY <1>1, <1>2 DEF CallSound, Asked, Constrained
<1>4. PICK k \in RegisterKeys : call[c].keys = {k}
  BY <1>1, <1>2 DEF CallSound, OfOneKey
<1>5. CASE call[c].row = Null
  <2>1. PICK e : e = [Entry(k) EXCEPT !.in = calls]
    OBVIOUS
  <2>2. e \in Row /\ e.live /\ e.key = k /\ HoursOf(e)
    <3>1. e = [key |-> k, live |-> TRUE, in |-> calls, out |-> 0, rest |-> 1, work |-> 0, file |-> 0]
      BY <2>1 DEF Entry, Null
    <3>2. calls \in Nat
      BY <1>2 DEF RegisterTypeOK
    <3> QED BY <3>1, <3>2 DEF Row, HoursOf, Null
  <2>3. entries' = Append(entries, e)
    BY <1>4, <1>5, <2>1 DEF clock_in, Enter
  <2>4. Inserts({e.key}) /\ \A n \in DOMAIN entries' \ DOMAIN entries : HoursOf(entries'[n])
    BY <1>2, <2>2, <2>3, InsertedOne DEF RegisterTypeOK
  <2> QED BY <1>1, <1>2, <1>3, <1>4, <1>5, <2>2, <2>4, InsertEnds
<1>6. CASE call[c].row # Null
  <2>1. entries' = [entries EXCEPT ![call[c].row].in = calls]
    BY <1>4, <1>6 DEF clock_in, Enter
  <2>2. call[c].row \in DOMAIN entries /\ entries[call[c].row].key = k
    BY <1>1, <1>2, <1>4, <1>6 DEF CallSound
  <2>3. Changes(call[c].row) /\ entries'[call[c].row].out = entries[call[c].row].out
    <3>1. PICK n \in DOMAIN entries : n = call[c].row
      BY <2>2
    <3>2. PICK e : e = [entries[n] EXCEPT !.in = calls]
      OBVIOUS
    <3>3. calls \in Nat
      BY <1>2 DEF RegisterTypeOK
    <3>4. e \in Row /\ e.key = entries[n].key /\ e.live = entries[n].live /\ e.out = entries[n].out
      BY <1>2, <3>2, <3>3, RowsAreTyped DEF Row
    <3>5. entries' = [entries EXCEPT ![n] = e]
      BY <2>1, <3>1, <3>2
    <3> QED BY <1>2, <3>1, <3>4, <3>5, EditIsAChange
  <2>4. HoursOf(entries'[call[c].row]) \/ k \in unguarded'
    <3>1. CASE k \in unguarded \/ call[c].seen.out # Null
      BY <1>1, <1>4, <3>1
    <3>2. CASE k \notin unguarded /\ call[c].seen.out = Null
      <4>1. Guarded(k)
        BY <3>2 DEF RegistersSound
      <4>2. entries[call[c].row] = call[c].seen
        BY <1>2, <1>4, <1>6, <4>1 DEF Guarded
      <4> QED BY <2>3, <3>2, <4>2 DEF HoursOf
    <3> QED BY <3>1, <3>2
  <2> QED BY <1>1, <1>2, <1>3, <2>2, <2>3, <2>4, ChangeEnds
<1> QED BY <1>5, <1>6

LEMMA clock_outIsSound ==
    ASSUME RegistersSound, NEW c \in Clerks, clock_out(c)
    PROVE  RegistersSound'
<1> DEFINE r == call[c]
<1>1. /\ r.op = "clock_out" /\ Ends(c) /\ UNCHANGED <<register, calls, objects, unguarded>>
      /\ entries' = [entries EXCEPT ![r.row].out = calls,
                                    ![r.row].work = Worked(r.seen.in, calls, r.seen.rest)]
  BY DoneEnds DEF clock_out, Enter
<1>2. Pending(c) /\ call[c] \in Call /\ CallSound(c) /\ RegisterTypeOK
  BY <1>1, OpIsPending DEF Ops
<1>3. register = "attendance" /\ register \notin Constrained
  BY <1>1, <1>2 DEF CallSound, Asked, Constrained
<1>4. r.row \in DOMAIN entries /\ r.row # Null /\ r.keys = {entries[r.row].key}
  BY <1>1, <1>2 DEF CallSound, OfARow
<1>5. PICK work : work = Worked(r.seen.in, calls, r.seen.rest)
  OBVIOUS
<1>6. work \in Int
  BY <1>2, <1>5 DEF Worked, Call, SeenRow, RegisterTypeOK
<1>7. /\ Changes(r.row) /\ entries'[r.row].out = calls /\ entries'[r.row].work = work
      /\ entries'[r.row].in = entries[r.row].in /\ entries'[r.row].rest = entries[r.row].rest
  <2>1. PICK n \in DOMAIN entries : n = r.row
    BY <1>4
  <2>2. PICK e : e = [entries[n] EXCEPT !.out = calls, !.work = work]
    OBVIOUS
  <2>3. calls \in Nat
    BY <1>2 DEF RegisterTypeOK
  <2>4. /\ e \in Row /\ e.key = entries[n].key /\ e.live = entries[n].live
        /\ e.out = calls /\ e.work = work /\ e.in = entries[n].in /\ e.rest = entries[n].rest
    BY <1>2, <1>6, <2>2, <2>3, RowsAreTyped DEF Row
  <2>5. entries' = [entries EXCEPT ![n] = e]
    <3>1. entries' = [entries EXCEPT ![n].out = calls, ![n].work = work]
      BY <1>1, <1>5, <2>1
    <3> QED BY <1>2, <2>2, <3>1 DEF RegisterTypeOK
  <2> QED BY <1>2, <2>1, <2>4, <2>5, EditIsAChange
<1>8. HoursOf(entries'[r.row]) \/ entries[r.row].key \in unguarded'
  <2> SUFFICES ASSUME entries[r.row].key \notin unguarded
               PROVE  HoursOf(entries'[r.row])
    BY <1>1
  <2>1. entries[r.row].key \in RegisterKeys
    BY <1>2, <1>4, RowsAreTyped DEF Row
  <2>2. Guarded(entries[r.row].key)
    BY <2>1 DEF RegistersSound
  <2>3. entries[r.row] = r.seen
    BY <1>2, <1>4, <2>2 DEF Guarded
  <2> QED BY <1>5, <1>7, <2>3 DEF HoursOf
<1> QED BY <1>1, <1>2, <1>3, <1>7, <1>8, ChangeEnds

LEMMA manualIsSound ==
    ASSUME RegistersSound, NEW c \in Clerks, create_manual_attendance(c)
    PROVE  RegistersSound'
<1>1. call[c].op = "manual" /\ Ends(c) /\ UNCHANGED <<register, calls, objects, unguarded>>
  BY DoneEnds DEF create_manual_attendance, Enter
<1>2. Pending(c) /\ call[c] \in Call /\ CallSound(c) /\ RegisterTypeOK
  BY <1>1, OpIsPending DEF Ops
<1>3. register = "attendance" /\ register \notin Constrained /\ call[c].row = Null
  BY <1>1, <1>2 DEF CallSound, Asked, Constrained, OfNoRow
<1>4. PICK k \in call[c].keys, in \in {Null, 1}, out \in {Null, 3}, rest \in {0, 1} :
          entries' = Append(entries, [Entry(k) EXCEPT
                      !.in = in, !.out = out, !.rest = rest,
                      !.work = IF Null \in {in, out} THEN 0 ELSE Worked(in, out, rest)])
  BY DEF create_manual_attendance, Enter
<1>5. k \in RegisterKeys /\ call[c].keys = {k}
  BY <1>1, <1>2, <1>4 DEF CallSound, OfOneKey
<1>6. PICK e : e = [Entry(k) EXCEPT
                      !.in = in, !.out = out, !.rest = rest,
                      !.work = IF Null \in {in, out} THEN 0 ELSE Worked(in, out, rest)]
  OBVIOUS
<1>7. e \in Row /\ e.live /\ e.key = k /\ HoursOf(e)
  <2>1. PICK work : work = IF Null \in {in, out} THEN 0 ELSE Worked(in, out, rest)
    OBVIOUS
  <2>2. work \in Int /\ in \in Nat /\ out \in Nat /\ rest \in Nat
    BY <2>1 DEF Worked, Null
  <2>3. e = [key |-> k, live |-> TRUE, in |-> in, out |-> out, rest |-> rest, work |-> work, file |-> 0]
    BY <1>6, <2>1 DEF Entry, Null
  <2>4. HoursOf(e)
    BY <2>1, <2>3 DEF HoursOf
  <2> QED BY <1>5, <2>2, <2>3, <2>4 DEF Row
<1>8. Inserts({e.key}) /\ \A n \in DOMAIN entries' \ DOMAIN entries : HoursOf(entries'[n])
  BY <1>2, <1>4, <1>6, <1>7, InsertedOne DEF RegisterTypeOK
<1> QED BY <1>1, <1>2, <1>3, <1>5, <1>7, <1>8, InsertEnds

LEMMA put_objectIsSound ==
    ASSUME RegistersSound, NEW c \in Clerks, put_object(c)
    PROVE  RegistersSound'
<1>1. UNCHANGED <<register, entries, call, calls, unguarded>> /\ objects \subseteq objects'
  BY DEF put_object
<1>2. (KeysAreUnique /\ HoursAgree /\ VersionsFollow)'
  BY <1>1, RowsKept DEF RegistersSound
<1>3. RegisterTypeOK' /\ \A d \in Clerks : Pending(d)' => CallSound(d)'
  BY <1>1 DEF RegistersSound, RegisterTypeOK, Pending, CallSound, Asked
<1>4. \A k \in RegisterKeys \ unguarded' : Guarded(k)'
  BY <1>1, GuardKept DEF RegistersSound
<1> QED BY <1>2, <1>3, <1>4 DEF RegistersSound

LEMMA FailIsSound ==
    ASSUME RegistersSound, NEW c \in Clerks, Fail(c)
    PROVE  RegistersSound'
<1>1. /\ Pending(c) /\ Ends(c) /\ entries' = entries /\ UNCHANGED <<register, calls, objects>>
      /\ unguarded' = unguarded \cup IF call[c].op = "link" THEN call[c].keys ELSE {}
  BY DoneEnds DEF Fail, Enter, Pending
<1> QED BY <1>1, NothingEnds

LEMMA supersedeIsSound ==
    ASSUME RegistersSound, NEW c \in Clerks, supersede_document(c)
    PROVE  RegistersSound'
<1>1. /\ call[c].op = "link" /\ Ends(c) /\ UNCHANGED <<register, calls, objects>>
      /\ entries' = [entries EXCEPT ![call[c].row].live = FALSE]
      /\ unguarded' = unguarded \cup IF call[c].seen.live THEN {} ELSE call[c].keys
  BY DoneEnds DEF supersede_document, Enter
<1>2. Pending(c) /\ call[c] \in Call /\ CallSound(c) /\ RegisterTypeOK
  BY <1>1, OpIsPending DEF Ops
<1>3. register = "document" /\ register \notin Constrained /\ call[c].row \in DOMAIN entries
  BY <1>1, <1>2 DEF CallSound, OfARow, Asked, Constrained
<1>4. /\ Changes(call[c].row) /\ ~ entries'[call[c].row].live
      /\ entries'[call[c].row].file = entries[call[c].row].file
  <2>1. PICK n \in DOMAIN entries : n = call[c].row
    BY <1>3
  <2>2. PICK e : e = [entries[n] EXCEPT !.live = FALSE]
    OBVIOUS
  <2>3. e \in Row /\ e.key = entries[n].key /\ ~ e.live /\ e.file = entries[n].file
    BY <1>2, <2>2, RowsAreTyped DEF Row
  <2>4. entries' = [entries EXCEPT ![n] = e]
    BY <1>1, <2>1, <2>2
  <2> QED BY <1>2, <2>1, <2>3, <2>4, EditIsAChange
<1> QED BY <1>1, <1>2, <1>3, <1>4, ChangeEnds

\* A new document is then done; a new version waits to be linked.
LEMMA archiveIsSound ==
    ASSUME RegistersSound, NEW c \in Clerks, archive_document(c)
    PROVE  RegistersSound'
<1>1. /\ call[c].op \in {"archive", "supersede"} /\ call[c].name \in objects
      /\ UNCHANGED <<register, objects, calls, unguarded>>
  BY DEF archive_document
<1>2. Pending(c) /\ call[c] \in Call /\ CallSound(c) /\ RegisterTypeOK
  BY <1>1, OpIsPending DEF Ops
<1>3. register = "document" /\ register \notin Constrained
  BY <1>1, <1>2 DEF CallSound, Asked, Constrained
<1>4. PICK k \in RegisterKeys : call[c].keys = {k}
  BY <1>1, <1>2 DEF CallSound, OfOneKey
<1>5. PICK e : e = [Entry(k) EXCEPT !.file = call[c].name]
  OBVIOUS
<1>6. e \in Row /\ e.live /\ e.key = k /\ e.file = call[c].name
  <2>1. e = [key |-> k, live |-> TRUE, in |-> 0, out |-> 0, rest |-> 1, work |-> 0, file |-> call[c].name]
    BY <1>5 DEF Entry, Null
  <2>2. call[c].name \in Nat
    BY <1>2 DEF Call
  <2> QED BY <2>1, <2>2 DEF Row
<1>7. {[Entry(i) EXCEPT !.file = call[c].name] : i \in call[c].keys} = {e}
  BY <1>4, <1>5
<1>8. entries' = entries \o SetToSeq({e})
  BY <1>7 DEF archive_document
<1>9. /\ Inserts({k}) /\ Len(entries) + 1 \in DOMAIN entries'
      /\ \A n \in DOMAIN entries' \ DOMAIN entries : n = Len(entries) + 1 /\ entries'[n] = e
  BY <1>2, <1>6, <1>8, InsertedOne DEF RegisterTypeOK
<1>10. CASE call[c].op = "archive"
  <2>1. Ends(c)
    BY <1>10 DEF archive_document, Ends
  <2>2. call[c].row = Null
    BY <1>2, <1>10 DEF CallSound, OfNoRow
  <2> QED BY <1>1, <1>2, <1>3, <1>4, <1>6, <1>9, <1>10, <2>1, <2>2, InsertEnds
<1>11. CASE call[c].op = "supersede"
  <2>1. PICK r : r = [call[c] EXCEPT !.op = "link"]
    OBVIOUS
  <2>2. r \in Call /\ r.op = "link" /\ r.keys = {k} /\ r.row = call[c].row /\ r.seen = call[c].seen
    BY <1>2, <1>4, <2>1 DEF Call, Ops
  <2>3. call' = [call EXCEPT ![c] = r]
    BY <1>11, <2>1 DEF archive_document
  <2>4. call'[c] = r /\ \A d \in Clerks : d # c => call'[d] = call[d]
    BY <1>2, <2>3 DEF RegisterTypeOK
  <2>5. r.row \in DOMAIN entries /\ entries[r.row].key = k /\ r.row # Null
    BY <1>2, <1>4, <1>11, <2>2 DEF CallSound, OfARow
  <2>6. Persists /\ \A i : i # k => Untouched(i)
    BY <1>2, <1>9, InsertsTouch
  <2>7. RegisterTypeOK'
    BY <1>1, <1>2, <2>2, <2>3, <2>6 DEF RegisterTypeOK, Persists
  <2>8. ASSUME NEW d \in Clerks, Pending(d)'
        PROVE  CallSound(d)'
    <3>1. CASE d = c
      <4>1. Asked("link")'
        BY <1>1, <1>3 DEF Asked
      <4>2. r.row \in DOMAIN entries' /\ entries'[r.row].key = k
        BY <2>5, <2>6 DEF Persists
      <4>3. /\ Len(entries) + 1 \in DOMAIN entries' /\ Len(entries) + 1 > r.row
            /\ entries'[Len(entries) + 1].key = k
        BY <1>2, <1>6, <1>9, <2>5 DEF RegisterTypeOK
      <4>4. \E n \in DOMAIN entries' : n > r.row /\ entries'[n].key = entries'[r.row].key
        BY <4>2, <4>3
      <4> QED BY <2>2, <2>4, <2>5, <3>1, <4>1, <4>2, <4>4 DEF CallSound, OfARow, OfNoRow, OfOneKey
    <3>2. CASE d # c
      BY <1>1, <1>2, <2>4, <2>6, <2>8, <3>2, CallPersists DEF Pending, RegistersSound
    <3> QED BY <3>1, <3>2
  <2>9. ASSUME NEW i \in RegisterKeys \ unguarded'
        PROVE  Guarded(i)'
    <3>1. Guarded(i)
      BY <1>1 DEF RegistersSound
    <3>2. \A d \in Clerks : call'[d].keys = call[d].keys
      BY <1>4, <2>2, <2>4
    <3>3. \A a, d \in Clerks : i \in call'[a].keys /\ i \in call'[d].keys => a = d
      BY <3>1, <3>2 DEF Guarded
    <3>4. CASE i # k
      <4>1. Live(i)' = Live(i)
        BY <2>6, <3>4, UntouchedLive
      <4>2. ASSUME NEW d \in Clerks, Pending(d)', i \in call'[d].keys
            PROVE  /\ call'[d].row = Null /\ call'[d].op # "create_task" => Live(i)' = {}
                   /\ call'[d].row # Null => entries'[call'[d].row] = call'[d].seen
                   /\ call'[d].op = "link" =>
                        \E m, n : Live(i)' \subseteq {m, n} /\ (call'[d].seen.live => m = call'[d].row)
        <5>1. d # c /\ call'[d] = call[d] /\ i \in call[d].keys /\ Pending(d)
          BY <1>4, <2>2, <2>4, <3>2, <3>4, <4>2, HolderIsPending
        <5>2. CallSound(d)
          BY <5>1 DEF RegistersSound
        <5>3. call[d].row # Null =>
                 /\ call[d].row \in DOMAIN entries /\ entries[call[d].row].key = i
                 /\ entries[call[d].row] = call[d].seen
          BY <3>1, <5>1, <5>2 DEF CallSound, Guarded
        <5>4. call[d].row # Null => entries'[call[d].row] = call[d].seen
          BY <2>6, <3>4, <5>3 DEF Untouched
        <5> QED BY <3>1, <4>1, <5>1, <5>4 DEF Guarded
      <4>3. ASSUME \A d \in Clerks : i \in call'[d].keys => call'[d].op # "link"
            PROVE  \A m, n \in Live(i)' : m = n
        <5>1. \A d \in Clerks : i \in call[d].keys => call[d].op # "link"
          BY <1>4, <2>4, <3>2, <3>4, <4>3
        <5> QED BY <3>1, <4>1, <5>1 DEF Guarded
      <4> QED BY <3>3, <4>2, <4>3 DEF Guarded
    <3>5. CASE i = k
      <4>1. entries[r.row] = r.seen
        BY <1>2, <1>4, <2>2, <2>5, <3>1, <3>5 DEF Guarded
      <4>2. entries'[r.row] = r.seen
        BY <1>9, <2>5, <4>1 DEF Inserts
      <4>3. \A d \in Clerks : k \in call[d].keys => call[d].op # "link"
        BY <1>4, <1>11, <3>1, <3>5 DEF Guarded
      <4>4. \A m, n \in Live(k) : m = n
        BY <3>1, <3>5, <4>3 DEF Guarded
      <4>5. r.seen.live => r.row \in Live(k)
        BY <2>5, <4>1 DEF Live
      <4>6. PICK old : Live(k) \subseteq {old} /\ (r.seen.live => old = r.row)
        BY <4>4, <4>5
      <4>7. Live(k)' \subseteq {old, Len(entries) + 1}
        BY <1>9, <4>6, InsertedLive DEF Live
      <4>8. \A d \in Clerks : k \in call'[d].keys => d = c
        BY <1>4, <3>1, <3>2, <3>5 DEF Guarded
      <4>9. \E m, n : Live(k)' \subseteq {m, n} /\ (r.seen.live => m = r.row)
        BY <4>6, <4>7
      <4>10. k \in call'[c].keys /\ call'[c].op = "link"
        BY <2>2, <2>4
      <4> QED BY <2>2, <2>4, <2>5, <3>3, <3>5, <4>2, <4>8, <4>9, <4>10 DEF Guarded
    <3> QED BY <3>4, <3>5
  <2>10. (KeysAreUnique /\ HoursAgree /\ VersionsFollow)'
    BY <1>1, <1>2, <1>3, <1>6, <1>9, RowsInserted DEF RegistersSound
  <2> QED BY <2>7, <2>8, <2>9, <2>10 DEF RegistersSound
<1> QED BY <1>1, <1>10, <1>11

-----------------------------------------------------------------------------
(* The theorem.                                                            *)

LEMMA SoundAtFirst == RegisterInit => RegistersSound
<1> SUFFICES ASSUME RegisterInit
             PROVE  RegistersSound
  OBVIOUS
<1>1. entries = <<>> /\ DOMAIN entries = {} /\ \A c \in Clerks : call[c] = Free /\ ~ Pending(c)
  BY DEF RegisterInit, Pending
<1>2. RegisterTypeOK
  BY DEF RegisterInit, RegisterTypeOK
<1>3. \A k : Live(k) = {}
  BY <1>1 DEF Live
<1>4. \A k \in RegisterKeys : Guarded(k)
  BY <1>1, <1>3 DEF Guarded, Free
<1> QED BY <1>1, <1>2, <1>4 DEF RegistersSound, KeysAreUnique, HoursAgree, VersionsFollow

LEMMA SoundAfterAStep == RegistersSound /\ [RegisterNext]_registervars => RegistersSound'
<1> SUFFICES ASSUME RegistersSound, [RegisterNext]_registervars
             PROVE  RegistersSound'
  OBVIOUS
<1>1. CASE RegisterNext
  BY <1>1, AsksAreSound, insertIsSound, create_taskIsSound, deleteIsSound, clock_inIsSound,
     clock_outIsSound, manualIsSound, put_objectIsSound, archiveIsSound, supersedeIsSound,
     FailIsSound DEF RegisterNext
<1>2. CASE UNCHANGED registervars
  <2>1. UNCHANGED <<register, entries, objects, call, calls, unguarded>>
    BY <1>2 DEF registervars
  <2>2. (KeysAreUnique /\ HoursAgree /\ VersionsFollow)'
    BY <2>1, RowsKept DEF RegistersSound
  <2>3. RegisterTypeOK' /\ \A d \in Clerks : Pending(d)' => CallSound(d)'
    BY <2>1 DEF RegistersSound, RegisterTypeOK, Pending, CallSound, Asked
  <2>4. \A k \in RegisterKeys \ unguarded' : Guarded(k)'
    BY <2>1, GuardKept DEF RegistersSound
  <2> QED BY <2>2, <2>3, <2>4 DEF RegistersSound
<1> QED BY <1>1, <1>2

LEMMA AtMostOne ==
    ASSUME NEW S, \A m, n \in S : m = n
    PROVE  IsFiniteSet(S) /\ Cardinality(S) <= 1
<1>1. CASE S = {}
  BY <1>1, FS_EmptySet
<1>2. CASE S # {}
  <2>1. PICK x : S = {x}
    BY <1>2
  <2>2. IsFiniteSet({x}) /\ Cardinality({x}) = 1
    BY FS_Singleton
  <2> QED BY <2>1, <2>2
<1> QED BY <1>1, <1>2

LEMMA AtMostTwo ==
    ASSUME NEW S, NEW m, NEW n, S \subseteq {m, n}
    PROVE  Cardinality(S) <= 2
<1>1. IsFiniteSet({m}) /\ Cardinality({m}) = 1
  BY FS_Singleton
<1>2. {m, n} = {m} \cup {n}
  OBVIOUS
<1>3. IsFiniteSet({m, n}) /\ Cardinality({m, n}) \in {1, 2}
  BY <1>1, <1>2, FS_AddElement
<1>4. IsFiniteSet(S) /\ Cardinality(S) <= Cardinality({m, n})
  BY <1>3, FS_Subset
<1>5. Cardinality(S) \in Nat
  BY <1>4, FS_CardinalityType
<1> QED BY <1>3, <1>4, <1>5

LEMMA SoundIsEnough == RegistersSound => RegisteredOnce
<1> SUFFICES ASSUME RegistersSound
             PROVE  RegisteredOnce
  OBVIOUS
<1>1. OneLiveRow
  <2> SUFFICES ASSUME NEW k \in RegisterKeys \ unguarded
               PROVE  Cardinality(Live(k)) <= Expected(k)
    BY DEF OneLiveRow
  <2>1. Guarded(k)
    BY DEF RegistersSound
  <2>2. CASE \E c \in Clerks : call[c].op = "link" /\ k \in call[c].keys
    <3>1. PICK c \in Clerks : call[c].op = "link" /\ k \in call[c].keys
      BY <2>2
    <3>2. PICK m, n : Live(k) \subseteq {m, n}
      BY <2>1, <3>1, HolderIsPending DEF Guarded
    <3> QED BY <2>2, <3>2, AtMostTwo DEF Expected
  <2>3. CASE \A c \in Clerks : k \in call[c].keys => call[c].op # "link"
    <3>1. \A m, n \in Live(k) : m = n
      BY <2>1, <2>3 DEF Guarded
    <3> QED BY <2>3, <3>1, AtMostOne DEF Expected
  <2> QED BY <2>2, <2>3
<1>2. ConstraintHolds
  <2> SUFFICES ASSUME register \in Constrained, NEW k \in RegisterKeys
               PROVE  Cardinality(Live(k)) <= 1
    BY DEF ConstraintHolds
  <2>1. \A m, n \in Live(k) : m = n
    BY DEF RegistersSound, KeysAreUnique, Live
  <2> QED BY <2>1, AtMostOne
<1>3. VersionsStand
  <2> SUFFICES ASSUME register = "document", NEW n \in DOMAIN entries
               PROVE  Live(entries[n].key) # {} /\ entries[n].file \in objects
    BY DEF VersionsStand
  <2>1. PICK m \in DOMAIN entries : entries[m].key = entries[n].key /\ entries[m].live
    BY DEF RegistersSound, VersionsFollow
  <2>2. m \in Live(entries[n].key)
    BY <2>1 DEF Live
  <2> QED BY <2>2 DEF RegistersSound, VersionsFollow
<1> QED BY <1>1, <1>2, <1>3 DEF RegisteredOnce, RegistersSound

\* A key has one live row unless two requests looked it up before either wrote, or one of the
\* paths that do not look was taken; where a unique constraint backs the check it has one in
\* any case; the hours of a day are worked out from its times; and an archived document keeps
\* a current version and the file of every version, wherever a request stopped.
THEOREM RowsAreUnique == RegisterSpec => []RegisteredOnce
<1>1. RegisterInit => RegistersSound
  BY SoundAtFirst
<1>2. RegistersSound /\ [RegisterNext]_registervars => RegistersSound'
  BY SoundAfterAStep
<1>3. RegistersSound => RegisteredOnce
  BY SoundIsEnough
<1> QED BY <1>1, <1>2, <1>3, PTL DEF RegisterSpec
=============================================================================
