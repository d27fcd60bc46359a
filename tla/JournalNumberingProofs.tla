----------------------- MODULE JournalNumberingProofs -----------------------
(***************************************************************************)
(* Proofs about JournalNumbering.                                          *)
(*                                                                         *)
(* The invariant: in every company the committed numbers are 1..base, and  *)
(* an open transaction that inserted headers holds exactly the block       *)
(* base+1..top.  Such blocks would all start at base+1, so the unique      *)
(* constraint lets one transaction have one.                               *)
(*                                                                         *)
(* It also makes JournalNumbering implement NumberBook: read in the order  *)
(* of their numbers, the committed journals of a company are a book that   *)
(* grows at its end, by whole transactions.  What is added for this is     *)
(* that no journal is entered twice, in one book or in two.                *)
(***************************************************************************)
EXTENDS JournalNumbering, TLAPS, SequenceTheorems

\* What holds of a transaction q while rows are the committed headers and done
\* transactions of its company have committed.
Sound(q, rows, done) ==
    LET c    == q.company_id
        base == Highest(rows, c)
        top  == Highest(rows \cup q.pending, c)
    IN  /\ \A h \in q.pending : h.company_id = c
        /\ top \in Nat
        /\ Numbers(rows \cup q.pending, c) = 1..top
        /\ Numbers(q.pending, c) = (base + 1)..top
        /\ base <= top
        /\ q.attempt <= done - q.since
        /\ q.phase = "numbered" =>
              /\ q.number \in 1..(top + 1)
              /\ q.pending # {} => q.number = top + 1
              /\ q.number <= base => q.attempt < done - q.since

TransactionsSound ==
    \A s \in Sessions : Busy(s) => Sound(txn[s], headers, commits[txn[s].company_id])

CommittedDense ==
    \A c \in Companies :
        /\ Highest(headers, c) \in Nat
        /\ Numbers(headers, c) = 1..Highest(headers, c)

SingleHolder ==
    \A s, t \in Sessions :
        /\ Pending(s) # {}
        /\ Pending(t) # {}
        /\ txn[s].company_id = txn[t].company_id
        => s = t

IInv ==
    /\ TypeOK
    /\ CommittedDense
    /\ SingleHolder
    /\ TransactionsSound

-----------------------------------------------------------------------------
(* The highest number of a block that starts at 1 is its end.              *)

LEMMA HighestOfBlock ==
    ASSUME NEW rows, NEW c, NEW n \in Nat, Numbers(rows, c) = 1..n
    PROVE  Highest(rows, c) = n
<1> DEFINE all == {0} \cup Numbers(rows, c)
<1>1. n \in all /\ \A m \in all : m <= n
  OBVIOUS
<1>2. \A k \in all : (\A m \in all : m <= k) => k = n
  <2> SUFFICES ASSUME NEW k \in all, \A m \in all : m <= k
               PROVE  k = n
    OBVIOUS
  <2>1. n <= k
    BY <1>1
  <2>2. k <= n /\ k \in Nat
    BY <1>1
  <2> QED BY <2>1, <2>2
<1>3. Highest(rows, c) = CHOOSE k \in all : \A m \in all : m <= k
  BY DEF Highest
<1> HIDE DEF all
<1> QED BY <1>1, <1>2, <1>3

\* Numbers distributes over union.
LEMMA NumbersOfUnion ==
    ASSUME NEW rows, NEW more, NEW c
    PROVE  Numbers(rows \cup more, c) = Numbers(rows, c) \cup Numbers(more, c)
BY DEF Numbers

LEMMA BusyIsTransaction ==
    ASSUME TypeOK, NEW s \in Sessions, Busy(s)
    PROVE  txn[s] \in Transaction
BY DEF TypeOK, Busy, Idle

-----------------------------------------------------------------------------
(* Every step but a commit replaces one transaction and leaves the tables. *)

LEMMA LocalStep ==
    ASSUME IInv, NEW s \in Sessions, NEW r \in Transaction \cup {Idle},
           txn' = [txn EXCEPT ![s] = r], UNCHANGED <<headers, commits>>,
           r.phase # "idle" => Sound(r, headers, commits[r.company_id]),
           r.phase # "idle" /\ r.pending # {} =>
               \A t \in Sessions \ {s} :
                   Pending(t) # {} => txn[t].company_id # r.company_id
    PROVE  IInv'
<1>1. txn'[s] = r /\ \A t \in Sessions \ {s} : txn'[t] = txn[t]
  BY DEF IInv, TypeOK
<1>2. TypeOK'
  BY DEF IInv, TypeOK
<1>3. CommittedDense'
  BY DEF IInv, CommittedDense
<1>4. SingleHolder'
  BY <1>1 DEF IInv, SingleHolder, Pending, Busy
<1>5. TransactionsSound'
  BY <1>1 DEF IInv, TransactionsSound, Busy
<1> QED BY <1>2, <1>3, <1>4, <1>5 DEF IInv

\* Where a transaction stands: the facts the steps below start from.
LEMMA Standing ==
    ASSUME IInv, NEW s \in Sessions, Busy(s)
    PROVE  /\ txn[s] \in Transaction
           /\ Pending(s) = txn[s].pending
           /\ Visible(s) = headers \cup txn[s].pending
           /\ Sound(txn[s], headers, commits[txn[s].company_id])
           /\ commits[txn[s].company_id] \in Nat
           /\ Highest(headers, txn[s].company_id) \in Nat
           /\ Numbers(headers, txn[s].company_id) = 1..Highest(headers, txn[s].company_id)
<1>1. txn[s] \in Transaction
  BY BusyIsTransaction DEF IInv
<1>2. txn[s].company_id \in Companies
  BY <1>1 DEF Transaction
<1> QED BY <1>1, <1>2 DEF IInv, TypeOK, CommittedDense, TransactionsSound, Pending, Visible

LEMMA BeginPreserves ==
    ASSUME IInv, NEW s \in Sessions, NEW c \in Companies, NEW j \in Journals, begin(s, c, j)
    PROVE  IInv'
<1> DEFINE r == [phase |-> "reading", company_id |-> c, build |-> j, attempt |-> 0,
                 number |-> 0, pending |-> {}, since |-> commits[c]]
<1>1. commits[c] \in Nat
  BY DEF IInv, TypeOK
<1>a. /\ r.phase = "reading" /\ r.company_id = c /\ r.pending = {}
      /\ r.attempt = 0 /\ r.since = commits[c]
  OBVIOUS
<1>2. r \in Transaction
  BY <1>1, AttemptsAssumption DEF Transaction
<1>3. Numbers({}, c) = {}
  BY DEF Numbers
<1>4. headers \cup {} = headers
  OBVIOUS
<1>5. Sound(r, headers, commits[c])
  <2>1. Highest(headers, c) \in Nat /\ Numbers(headers, c) = 1..Highest(headers, c)
    BY DEF IInv, CommittedDense
  <2>2. (Highest(headers, c) + 1)..Highest(headers, c) = {}
    BY <2>1
  <2>3. 0 <= commits[c] - commits[c]
    BY <1>1
  <2>4. headers \cup r.pending = headers /\ Numbers(r.pending, c) = {}
    BY <1>a, <1>3
  <2>5. Highest(headers \cup r.pending, c) = Highest(headers, c)
    BY <2>4
  <2>6. Numbers(headers \cup r.pending, c) = Numbers(headers, c)
    BY <2>4
  <2>7. Highest(headers, c) <= Highest(headers, c)
    BY <2>1
  <2> HIDE DEF r
  <2> QED BY <1>a, <2>1, <2>2, <2>3, <2>4, <2>5, <2>6, <2>7 DEF Sound
<1>6. txn' = [txn EXCEPT ![s] = r] /\ UNCHANGED <<headers, commits>>
  BY DEF begin
<1>7. r.pending = {} /\ r.company_id = c
  OBVIOUS
<1> HIDE DEF r
<1> QED BY <1>2, <1>5, <1>6, <1>7, LocalStep

\* Without its own headers changing, a transaction keeps its place in the book.
LEMMA SamePending ==
    ASSUME IInv, NEW s \in Sessions, Busy(s), NEW r \in Transaction,
           r.company_id = txn[s].company_id, r.pending = txn[s].pending,
           r.attempt <= commits[r.company_id] - r.since,
           r.phase = "numbered" =>
               LET base == Highest(headers, r.company_id)
                   top  == Highest(headers \cup r.pending, r.company_id)
               IN  /\ r.number \in 1..(top + 1)
                   /\ r.pending # {} => r.number = top + 1
                   /\ r.number <= base => r.attempt < commits[r.company_id] - r.since,
           txn' = [txn EXCEPT ![s] = r], UNCHANGED <<headers, commits>>
    PROVE  IInv'
<1>1. Sound(r, headers, commits[r.company_id])
  BY Standing DEF Sound
<1>2. r.pending # {} =>
         \A t \in Sessions \ {s} : Pending(t) # {} => txn[t].company_id # r.company_id
  BY Standing DEF IInv, SingleHolder
<1> QED BY <1>1, <1>2, LocalStep

LEMMA NextLinePreserves ==
    ASSUME IInv, NEW s \in Sessions, NEW j \in Journals, next_line(s, j)
    PROVE  IInv'
<1> DEFINE q == txn[s]
           r == [q EXCEPT !.phase = "reading", !.build = j, !.attempt = 0,
                          !.since = commits[q.company_id]]
<1>1. Busy(s)
  BY DEF next_line, Busy
<1>2. q \in Transaction /\ commits[q.company_id] \in Nat
  BY <1>1, Standing
<1>a. 0 \in 0..(MAX_ATTEMPTS - 1)
  BY AttemptsAssumption
<1>3. /\ r \in Transaction
      /\ r.company_id = q.company_id
      /\ r.pending = q.pending
      /\ r.attempt = 0
      /\ r.since = commits[q.company_id]
      /\ r.phase = "reading"
  BY <1>2, <1>a DEF Transaction
<1>4. txn' = [txn EXCEPT ![s] = r] /\ UNCHANGED <<headers, commits>>
  BY DEF next_line
<1>5. r.attempt <= commits[r.company_id] - r.since
  BY <1>2, <1>3
<1> HIDE DEF r
<1> QED BY <1>1, <1>3, <1>4, <1>5, SamePending

LEMMA ReadPreserves ==
    ASSUME IInv, NEW s \in Sessions, next_journal_number(s)
    PROVE  IInv'
<1> DEFINE q == txn[s]
           c == q.company_id
           n == Highest(headers \cup q.pending, c) + 1
           r == [q EXCEPT !.phase = "numbered", !.number = n]
<1>1. Busy(s)
  BY DEF next_journal_number, Busy
<1>2. q \in Transaction /\ commits[c] \in Nat
  BY <1>1, Standing
<1>3. n \in Nat /\ Highest(headers, c) \in Nat /\ Highest(headers, c) < n
  <2> DEFINE base == Highest(headers, c)
             top  == Highest(headers \cup q.pending, c)
  <2>1. base \in Nat /\ top \in Nat /\ base <= top
    BY <1>1, Standing DEF Sound
  <2> HIDE DEF base, top
  <2> QED BY <2>1 DEF top, base
<1>4. /\ r \in Transaction
      /\ r.company_id = c
      /\ r.pending = q.pending
      /\ r.attempt = q.attempt
      /\ r.since = q.since
      /\ r.number = n
  BY <1>2, <1>3 DEF Transaction
<1>5. txn' = [txn EXCEPT ![s] = r] /\ UNCHANGED <<headers, commits>>
  BY <1>1, Standing DEF next_journal_number, NextNumber
<1>6. r.attempt <= commits[r.company_id] - r.since
  BY <1>1, <1>4, Standing DEF Sound
<1>7. n \in 1..n /\ ~(n <= Highest(headers, c))
  BY <1>3
<1> HIDE DEF r
<1> QED BY <1>1, <1>4, <1>5, <1>6, <1>7, SamePending

\* Every uncommitted block of a company starts right after the committed numbers.
LEMMA BlockStart ==
    ASSUME IInv, NEW t \in Sessions, Pending(t) # {}
    PROVE  Highest(headers, txn[t].company_id) + 1
               \in Numbers(Pending(t), txn[t].company_id)
<1> DEFINE c == txn[t].company_id
           base == Highest(headers, c)
           top  == Highest(headers \cup txn[t].pending, c)
<1>1. Busy(t)
  BY DEF Pending
<1>2. /\ base \in Nat
      /\ top \in Nat
      /\ Pending(t) = txn[t].pending
      /\ Numbers(Pending(t), c) = (base + 1)..top
      /\ \A h \in Pending(t) : h.company_id = c
  BY <1>1, Standing DEF Sound
<1>3. PICK h \in Pending(t) : TRUE
  OBVIOUS
<1>4. h.number \in Numbers(Pending(t), c)
  BY <1>2 DEF Numbers
<1> HIDE DEF base, top
<1>5. base + 1 \in (base + 1)..top
  BY <1>2, <1>4
<1> QED BY <1>2, <1>5 DEF base

LEMMA InsertPreserves ==
    ASSUME IInv, NEW s \in Sessions, insert(s)
    PROVE  IInv'
<1> DEFINE q == txn[s]
           c == q.company_id
           base == Highest(headers, c)
           top  == Highest(headers \cup q.pending, c)
           row == Row(s)
           r == [q EXCEPT !.phase = "inserted", !.pending = q.pending \cup {row}]
<1>1. Busy(s) /\ q.phase = "numbered" /\ ~Taken(s) /\ ~Waits(s)
  BY DEF insert, Busy
<1>2. /\ q \in Transaction
      /\ Pending(s) = q.pending
      /\ Visible(s) = headers \cup q.pending
      /\ Sound(q, headers, commits[c])
      /\ base \in Nat
      /\ Numbers(headers, c) = 1..base
  BY <1>1, Standing
<1>3. /\ \A h \in q.pending : h.company_id = c
      /\ top \in Nat
      /\ Numbers(headers \cup q.pending, c) = 1..top
      /\ Numbers(q.pending, c) = (base + 1)..top
      /\ base <= top
      /\ q.attempt <= commits[c] - q.since
      /\ q.number \in 1..(top + 1)
  BY <1>1, <1>2 DEF Sound
<1> HIDE DEF base, top
<1>4. q.number = top + 1
  <2>1. q.number \notin 1..top
    BY <1>1, <1>2, <1>3 DEF Taken
  <2> QED BY <1>3, <2>1
<1>5. row \in JournalHeader /\ row.company_id = c /\ row.number = top + 1
  BY <1>2, <1>3, <1>4 DEF Row, JournalHeader, Transaction
<1> HIDE DEF row
<1>6. r \in Transaction
  BY <1>2, <1>5 DEF Transaction
<1>7. /\ r.phase = "inserted"
      /\ r.company_id = c
      /\ r.pending = q.pending \cup {row}
      /\ r.attempt = q.attempt
      /\ r.since = q.since
  BY <1>2 DEF Transaction
<1>8. txn' = [txn EXCEPT ![s] = r] /\ UNCHANGED <<headers, commits>>
  BY DEF insert, row
<1> HIDE DEF r
<1>9. Numbers({row}, c) = {top + 1}
  BY <1>5 DEF Numbers
<1>10. Numbers(headers \cup r.pending, c) = 1..(top + 1)
  <2>1. headers \cup r.pending = (headers \cup q.pending) \cup {row}
    BY <1>7
  <2>2. Numbers((headers \cup q.pending) \cup {row}, c)
           = Numbers(headers \cup q.pending, c) \cup Numbers({row}, c)
    BY NumbersOfUnion
  <2>3. Numbers(headers \cup r.pending, c) = (1..top) \cup {top + 1}
    BY <1>3, <1>9, <2>1, <2>2
  <2>4. (1..top) \cup {top + 1} = 1..(top + 1)
    BY <1>3
  <2> QED BY <2>3, <2>4
<1>11. Highest(headers \cup r.pending, c) = top + 1
  BY <1>3, <1>10, HighestOfBlock
<1>12. Numbers(r.pending, c) = (base + 1)..(top + 1)
  <2>1. Numbers(q.pending \cup {row}, c) = Numbers(q.pending, c) \cup Numbers({row}, c)
    BY NumbersOfUnion
  <2>2. Numbers(r.pending, c) = ((base + 1)..top) \cup {top + 1}
    BY <1>3, <1>7, <1>9, <2>1
  <2>3. ((base + 1)..top) \cup {top + 1} = (base + 1)..(top + 1)
    BY <1>2, <1>3
  <2> QED BY <2>2, <2>3
<1>13. Sound(r, headers, commits[c])
  <2>1. base <= top + 1 /\ top + 1 \in Nat
    BY <1>2, <1>3
  <2>2. \A h \in r.pending : h.company_id = c
    BY <1>3, <1>5, <1>7
  <2> QED BY <1>3, <1>7, <1>10, <1>11, <1>12, <2>1, <2>2 DEF Sound, base
<1>14. ASSUME NEW t \in Sessions \ {s}, Pending(t) # {}, txn[t].company_id = c
       PROVE  FALSE
  <2>1. q.pending = {}
    BY <1>2, <1>14 DEF IInv, SingleHolder
  <2>2. Numbers(q.pending, c) = {}
    BY <2>1 DEF Numbers
  <2>3. top = base
    <3>1. ~(base + 1 \in (base + 1)..top)
      BY <1>3, <2>2
    <3> QED BY <1>2, <1>3, <3>1
  <2>4. base + 1 \in Numbers(Pending(t), c)
    BY <1>14, BlockStart DEF base
  <2> QED BY <1>1, <1>4, <2>3, <2>4 DEF Waits
<1> QED BY <1>6, <1>7, <1>8, <1>13, <1>14, LocalStep

LEMMA RetryPreserves ==
    ASSUME IInv, NEW s \in Sessions, retry(s)
    PROVE  IInv'
<1> DEFINE q == txn[s]
           c == q.company_id
           base == Highest(headers, c)
           top  == Highest(headers \cup q.pending, c)
           r == [q EXCEPT !.phase = "reading", !.attempt = q.attempt + 1]
<1>1. Busy(s) /\ q.phase = "numbered" /\ Taken(s) /\ ~LastAttempt(s)
  BY DEF retry, Busy
<1>2. /\ q \in Transaction
      /\ Visible(s) = headers \cup q.pending
      /\ Sound(q, headers, commits[c])
      /\ commits[c] \in Nat
      /\ base \in Nat
      /\ Numbers(headers, c) = 1..base
  BY <1>1, Standing
<1>3. /\ top \in Nat
      /\ Numbers(headers \cup q.pending, c) = 1..top
      /\ Numbers(q.pending, c) = (base + 1)..top
      /\ q.number \in 1..(top + 1)
      /\ q.pending # {} => q.number = top + 1
      /\ q.number <= base => q.attempt < commits[c] - q.since
  BY <1>1, <1>2 DEF Sound
<1> HIDE DEF base, top
<1>4. q.number \in 1..top
  BY <1>1, <1>2, <1>3 DEF Taken
<1>5. q.pending = {}
  BY <1>3, <1>4
<1>6. q.number <= base
  <2>1. headers \cup q.pending = headers
    BY <1>5
  <2> QED BY <1>4, <2>1 DEF base, top
<1>7. q.attempt \in 0..(MAX_ATTEMPTS - 1) /\ q.since \in Nat
  BY <1>2 DEF Transaction
<1>8. q.attempt + 1 \in 0..(MAX_ATTEMPTS - 1)
  BY <1>1, <1>7, AttemptsAssumption DEF LastAttempt
<1>9. q.attempt + 1 <= commits[c] - q.since
  BY <1>2, <1>3, <1>6, <1>7
<1>10. /\ r \in Transaction
       /\ r.phase = "reading"
       /\ r.company_id = c
       /\ r.pending = q.pending
       /\ r.attempt = q.attempt + 1
       /\ r.since = q.since
  BY <1>2, <1>8 DEF Transaction
<1>11. txn' = [txn EXCEPT ![s] = r] /\ UNCHANGED <<headers, commits>>
  BY DEF retry
<1> HIDE DEF r
<1>12. r.attempt <= commits[r.company_id] - r.since
  BY <1>9, <1>10
<1> QED BY <1>1, <1>10, <1>11, <1>12, SamePending

\* A transaction that ends without committing leaves no trace.
LEMMA EndPreserves ==
    ASSUME IInv, NEW s \in Sessions, give_up(s) \/ rollback(s)
    PROVE  IInv'
<1>1. txn' = [txn EXCEPT ![s] = Idle] /\ UNCHANGED <<headers, commits>>
  BY DEF give_up, rollback
<1>2. Idle.phase = "idle"
  BY DEF Idle
<1> QED BY <1>1, <1>2, LocalStep

LEMMA CommitPreserves ==
    ASSUME IInv, NEW s \in Sessions, commit(s)
    PROVE  IInv'
<1> DEFINE q == txn[s]
           c == q.company_id
           base == Highest(headers, c)
           top  == Highest(headers \cup q.pending, c)
<1>1. Busy(s)
  BY DEF commit, Busy
<1>2. /\ q \in Transaction
      /\ c \in Companies
      /\ Pending(s) = q.pending
      /\ \A h \in q.pending : h.company_id = c
      /\ base \in Nat
      /\ top \in Nat
      /\ base <= top
      /\ Numbers(headers \cup q.pending, c) = 1..top
  BY <1>1, Standing DEF Sound, Transaction
<1>3. /\ headers' = headers \cup q.pending
      /\ commits' = [commits EXCEPT ![c] = commits[c] + 1]
      /\ txn' = [txn EXCEPT ![s] = Idle]
  BY DEF commit
<1>a. ASSUME NEW rows, NEW d, d # c
      PROVE  /\ Numbers(rows \cup q.pending, d) = Numbers(rows, d)
             /\ Highest(rows \cup q.pending, d) = Highest(rows, d)
  <2> DEFINE more == q.pending
  <2>1. \A h \in more : h.company_id # d
    BY <1>2, <1>a
  <2> HIDE DEF more
  <2>2. Numbers(rows \cup more, d) = Numbers(rows, d)
    BY <2>1 DEF Numbers
  <2>3. Highest(rows \cup more, d) = Highest(rows, d)
    BY <2>2 DEF Highest
  <2> QED BY <2>2, <2>3 DEF more
<1>4. /\ txn'[s] = Idle
      /\ \A t \in Sessions \ {s} : txn'[t] = txn[t]
      /\ \A d \in Companies : commits[d] \in Nat
      /\ commits'[c] = commits[c] + 1
      /\ \A d \in Companies \ {c} : commits'[d] = commits[d]
  BY <1>2, <1>3 DEF IInv, TypeOK
<1>5. TypeOK'
  <2>1. headers' \subseteq JournalHeader
    BY <1>2, <1>3 DEF IInv, TypeOK, Transaction
  <2>2. txn' \in [Sessions -> Transaction \cup {Idle}]
    BY <1>3 DEF IInv, TypeOK
  <2>3. commits' \in [Companies -> Nat]
    BY <1>2, <1>3, <1>4 DEF IInv, TypeOK
  <2> QED BY <2>1, <2>2, <2>3 DEF TypeOK
<1>6. CommittedDense'
  <2> SUFFICES ASSUME NEW d \in Companies
               PROVE  /\ Highest(headers', d) \in Nat
                      /\ Numbers(headers', d) = 1..Highest(headers', d)
    BY DEF CommittedDense
  <2>1. CASE d = c
    BY <1>2, <1>3, <2>1
  <2>2. CASE d # c
    <3>1. /\ Numbers(headers \cup q.pending, d) = Numbers(headers, d)
          /\ Highest(headers \cup q.pending, d) = Highest(headers, d)
      BY <1>a, <2>2
    <3> QED BY <1>3, <3>1 DEF IInv, CommittedDense
  <2> QED BY <2>1, <2>2
<1>7. SingleHolder'
  <2>1. Pending(s)' = {}
    BY <1>4 DEF Pending, Busy, Idle
  <2>2. \A t \in Sessions \ {s} : Pending(t)' = Pending(t)
    BY <1>4 DEF Pending, Busy
  <2> QED BY <1>4, <2>1, <2>2 DEF IInv, SingleHolder
<1>8. ASSUME NEW t \in Sessions, Busy(t)'
      PROVE  Sound(txn[t], headers', commits'[txn[t].company_id]) /\ t # s
  <2> DEFINE p == txn[t]
             d == p.company_id
  <2>1. t # s
    BY <1>4, <1>8 DEF Busy, Idle
  <2>2. Busy(t)
    BY <1>4, <1>8, <2>1 DEF Busy
  <2>3. /\ p \in Transaction
        /\ d \in Companies
        /\ Sound(p, headers, commits[d])
        /\ Pending(t) = p.pending
        /\ p.attempt \in Nat
        /\ p.since \in Nat
        /\ p.number \in Nat
    BY <2>2, Standing, AttemptsAssumption DEF Transaction
  <2>4. CASE d # c
    <3>1. /\ Highest(headers', d) = Highest(headers, d)
          /\ Numbers(headers', d) = Numbers(headers, d)
      BY <1>3, <1>a, <2>4
    <3>2. headers' \cup p.pending = (headers \cup p.pending) \cup q.pending
      BY <1>3
    <3>3. /\ Highest(headers' \cup p.pending, d) = Highest(headers \cup p.pending, d)
          /\ Numbers(headers' \cup p.pending, d) = Numbers(headers \cup p.pending, d)
      <4> HIDE DEF q, p, d
      <4>1. /\ Highest((headers \cup p.pending) \cup q.pending, d) = Highest(headers \cup p.pending, d)
            /\ Numbers((headers \cup p.pending) \cup q.pending, d) = Numbers(headers \cup p.pending, d)
        BY <1>a, <2>4
      <4> QED BY <3>2, <4>1
    <3>4. commits'[d] = commits[d]
      BY <1>4, <2>3, <2>4
    <3> QED BY <2>1, <2>3, <3>1, <3>3, <3>4 DEF Sound
  <2>5. CASE d = c /\ q.pending = {}
    <3>1. headers' = headers
      BY <1>3, <2>5
    <3>2. commits'[d] = commits[d] + 1 /\ commits[d] \in Nat
      BY <1>2, <1>4, <2>5
    <3>3. /\ p.attempt <= commits[d] - p.since => p.attempt <= commits'[d] - p.since
          /\ p.attempt < commits[d] - p.since => p.attempt < commits'[d] - p.since
      BY <2>3, <3>2
    <3> QED BY <2>1, <2>3, <3>1, <3>3 DEF Sound
  <2>6. CASE d = c /\ q.pending # {}
    <3>1. p.pending = {}
      BY <1>2, <2>1, <2>3, <2>6 DEF IInv, SingleHolder
    <3>2. headers \cup p.pending = headers /\ headers' \cup p.pending = headers'
      BY <3>1
    <3>3. Highest(headers', d) = top /\ Numbers(headers', d) = 1..top
      BY <1>2, <1>3, <2>6
    <3>4. Numbers(p.pending, d) = {} /\ (top + 1)..top = {}
      BY <1>2, <3>1 DEF Numbers
    <3>5. p.attempt <= commits[d] - p.since
      BY <2>3 DEF Sound
    <3>6. p.attempt < commits'[d] - p.since /\ p.attempt <= commits'[d] - p.since
      <4>1. commits'[d] = commits[d] + 1 /\ commits[d] \in Nat
        BY <1>2, <1>4, <2>6
      <4> QED BY <2>3, <3>5, <4>1
    <3>7. p.phase = "numbered" => p.number \in 1..(base + 1)
      BY <2>3, <2>6, <3>2 DEF Sound
    <3> HIDE DEF base, top
    <3>8. p.phase = "numbered" => p.number \in 1..(top + 1)
      BY <1>2, <2>3, <3>7
    <3>9. top <= top /\ top \in Nat
      BY <1>2
    <3> HIDE DEF p
    <3>10. Highest(headers' \cup p.pending, d) = top /\ Numbers(headers' \cup p.pending, d) = 1..top
      BY <3>2, <3>3
    <3>11. \A h \in p.pending : h.company_id = d
      BY <3>1
    <3> HIDE DEF d
    <3>12. Sound(p, headers', commits'[d])
      BY <3>1, <3>3, <3>4, <3>6, <3>8, <3>9, <3>10, <3>11 DEF Sound, d
    <3> QED BY <2>1, <3>12 DEF p, d
  <2> QED BY <2>4, <2>5, <2>6
<1>9. TransactionsSound'
  <2> SUFFICES ASSUME NEW t \in Sessions, Busy(t)'
               PROVE  Sound(txn'[t], headers', commits'[txn'[t].company_id])
    BY DEF TransactionsSound
  <2> QED BY <1>4, <1>8
<1> QED BY <1>5, <1>6, <1>7, <1>9 DEF IInv

-----------------------------------------------------------------------------
LEMMA InitEstablishes == Init => IInv
<1> SUFFICES ASSUME Init PROVE IInv
  OBVIOUS
<1>1. TypeOK
  BY DEF Init, TypeOK
<1>2. \A s \in Sessions : ~Busy(s)
  BY DEF Init, Busy, Idle
<1>3. CommittedDense
  <2>1. \A c \in Companies : Numbers(headers, c) = 1..0
    BY DEF Init, Numbers
  <2>2. \A c \in Companies : Highest(headers, c) = 0
    BY <2>1, HighestOfBlock
  <2> QED BY <2>1, <2>2 DEF CommittedDense
<1> QED BY <1>1, <1>2, <1>3 DEF IInv, SingleHolder, TransactionsSound, Pending

LEMMA StepPreserves == IInv /\ [Next]_vars => IInv'
<1> SUFFICES ASSUME IInv, [Next]_vars PROVE IInv'
  OBVIOUS
<1>1. CASE UNCHANGED vars
  <2>1. UNCHANGED headers /\ UNCHANGED txn /\ UNCHANGED commits
    BY <1>1 DEF vars
  <2>2. TypeOK'
    BY <2>1 DEF IInv, TypeOK
  <2>3. CommittedDense'
    BY <2>1 DEF IInv, CommittedDense
  <2>4. SingleHolder'
    BY <2>1 DEF IInv, SingleHolder, Pending, Busy
  <2>5. TransactionsSound'
    BY <2>1 DEF IInv, TransactionsSound, Busy
  <2> QED BY <2>2, <2>3, <2>4, <2>5 DEF IInv
<1>2. ASSUME NEW s \in Sessions,
             \/ \E c \in Companies, j \in Journals : begin(s, c, j)
             \/ \E j \in Journals : next_line(s, j)
             \/ Advance(s)
             \/ rollback(s)
      PROVE  IInv'
  BY <1>2, BeginPreserves, NextLinePreserves, ReadPreserves, InsertPreserves,
     RetryPreserves, EndPreserves, CommitPreserves DEF Advance
<1> QED BY <1>1, <1>2 DEF Next

LEMMA Invariance == Spec => []IInv
BY InitEstablishes, StepPreserves, PTL DEF Spec

\* Every variable holds values of its type.
THEOREM TypeCorrect == Spec => []TypeOK
<1>1. IInv => TypeOK
  BY DEF IInv
<1> QED BY <1>1, Invariance, PTL

\* The committed numbers of every company are 1, 2, ..., n, for any number of
\* concurrent creators, imports, retries, failures and rollbacks.
THEOREM NumbersAreGapFree == Spec => []GapFree
<1>1. IInv => GapFree
  BY DEF IInv, CommittedDense, GapFree
<1> QED BY <1>1, Invariance, PTL

\* One transaction of a company at a time holds uncommitted numbers, and it never
\* waits for another: imports cannot deadlock on numbers.
THEOREM OneHolderAtATime == Spec => []OneHolder
<1>1. ASSUME IInv, NEW s \in Sessions, txn[s].phase = "numbered", Pending(s) # {}, Waits(s)
      PROVE  FALSE
  <2> DEFINE c == txn[s].company_id
  <2>1. PICK t \in Sessions \ {s} : txn[s].number \in Numbers(Pending(t), c)
    BY <1>1 DEF Waits
  <2>2. PICK h \in Pending(t) : h.company_id = c
    BY <2>1 DEF Numbers
  <2>3. Busy(t) /\ txn[t].company_id = c
    BY <1>1, <2>2, Standing DEF Sound, Pending
  <2> QED BY <1>1, <2>2, <2>3 DEF IInv, SingleHolder
<1>2. IInv => OneHolder
  BY <1>1 DEF IInv, SingleHolder, OneHolder
<1> QED BY <1>2, Invariance, PTL

\* A retry is always caused by a transaction of the same company that committed
\* since the request began: no request fails unless MAX_ATTEMPTS others succeeded.
THEOREM RetriesAreEarned == Spec => []AttemptsAreEarned
<1>1. ASSUME IInv, NEW s \in Sessions, Busy(s)
      PROVE  txn[s].attempt <= commits[txn[s].company_id] - txn[s].since
  BY <1>1, Standing DEF Sound
<1>2. IInv => AttemptsAreEarned
  BY <1>1 DEF AttemptsAreEarned
<1> QED BY <1>2, Invariance, PTL

\* An import that has inserted a line never collides on a later one.
THEOREM HoldersNeverRetry == Spec => []HolderNeverRetries
<1>1. ASSUME IInv, NEW s \in Sessions, txn[s].phase = "numbered", Pending(s) # {}
      PROVE  ~Taken(s)
  <2> DEFINE c == txn[s].company_id
             top == Highest(headers \cup txn[s].pending, c)
  <2>1. Busy(s)
    BY <1>1 DEF Busy
  <2>2. /\ top \in Nat
        /\ Numbers(Visible(s), c) = 1..top
        /\ txn[s].number = top + 1
    BY <1>1, <2>1, Standing DEF Sound
  <2> HIDE DEF top
  <2> QED BY <2>2 DEF Taken
<1>2. IInv => HolderNeverRetries
  BY <1>1 DEF HolderNeverRetries
<1> QED BY <1>2, Invariance, PTL

-----------------------------------------------------------------------------
(* Uniqueness rests on the constraint alone: INSERT is the one step that   *)
(* adds a row, and it is refused or made to wait where the number exists.  *)

Rows == headers \cup UNION {Pending(s) : s \in Sessions}

LEMMA InsertKeepsUnique ==
    ASSUME TypeOK, UniqueNumbers, NEW s \in Sessions, insert(s)
    PROVE  UniqueNumbers'
<1> DEFINE row == Row(s)
           c == txn[s].company_id
<1>1. Busy(s) /\ ~Taken(s) /\ ~Waits(s)
  BY DEF insert, Busy
<1>2. row.company_id = c /\ row.number = txn[s].number
  BY DEF Row
<1>3. /\ headers' = headers
      /\ Pending(s)' = Pending(s) \cup {row}
      /\ \A t \in Sessions \ {s} : Pending(t)' = Pending(t)
  <2>1. txn[s] \in Transaction
    BY <1>1, BusyIsTransaction
  <2>2. /\ txn' = [txn EXCEPT ![s].phase = "inserted", ![s].pending = @ \cup {row}]
        /\ headers' = headers
    BY DEF insert
  <2>3. /\ txn'[s].phase = "inserted"
        /\ txn'[s].pending = txn[s].pending \cup {row}
        /\ \A t \in Sessions \ {s} : txn'[t] = txn[t]
    BY <2>1, <2>2 DEF TypeOK, Transaction
  <2>4. Pending(s)' = Pending(s) \cup {row}
    BY <1>1, <2>3 DEF Pending, Busy
  <2>5. ASSUME NEW t \in Sessions \ {s}
        PROVE  Pending(t)' = Pending(t)
    BY <2>3 DEF Pending, Busy
  <2> QED BY <2>2, <2>4, <2>5
<1> HIDE DEF row
<1>4. ASSUME NEW g \in Rows, g.company_id = c, g.number = row.number
      PROVE  FALSE
  <2>1. g.number \in Numbers({g}, c)
    BY <1>4 DEF Numbers
  <2>2. CASE g \in headers \cup Pending(s)
    <3>1. g.number \in Numbers(Visible(s), c)
      BY <1>4, <2>2 DEF Visible, Numbers
    <3> QED BY <1>1, <1>2, <1>4, <3>1 DEF Taken
  <2>3. ASSUME NEW t \in Sessions \ {s}, g \in Pending(t)
        PROVE  FALSE
    <3>1. g.number \in Numbers(Pending(t), c)
      BY <1>4, <2>3 DEF Numbers
    <3> QED BY <1>1, <1>2, <1>4, <3>1 DEF Waits
  <2> QED BY <2>2, <2>3 DEF Rows
<1>5. Rows' \subseteq Rows \cup {row}
  BY <1>3 DEF Rows
<1>6. \A g, h \in Rows \cup {row} :
          g.company_id = h.company_id /\ g.number = h.number => g = h
  BY <1>2, <1>4 DEF UniqueNumbers, Rows
<1> QED BY <1>5, <1>6 DEF UniqueNumbers, Rows

LEMMA FewerRowsKeepUnique ==
    ASSUME UniqueNumbers, Rows' \subseteq Rows
    PROVE  UniqueNumbers'
BY DEF UniqueNumbers, Rows

LEMMA OtherStepsAddNoRow ==
    ASSUME TypeOK, [Next]_vars
    PROVE  Rows' \subseteq Rows \/ \E s \in Sessions : insert(s)
<1>1. CASE UNCHANGED vars
  BY <1>1 DEF vars, Rows, Pending, Busy
<1>2. ASSUME NEW s \in Sessions,
             \/ \E c \in Companies, j \in Journals : begin(s, c, j)
             \/ \E j \in Journals : next_line(s, j)
             \/ next_journal_number(s)
             \/ retry(s)
             \/ give_up(s)
             \/ rollback(s)
      PROVE  Rows' \subseteq Rows
  <2>1. headers' = headers
    BY <1>2 DEF begin, next_line, next_journal_number, retry, give_up, rollback
  <2>2. \A t \in Sessions \ {s} : txn'[t] = txn[t]
    BY <1>2 DEF TypeOK, begin, next_line, next_journal_number, retry, give_up, rollback
  <2>3. Pending(s)' \subseteq Pending(s)
    <3>1. ASSUME NEW c \in Companies, NEW j \in Journals, begin(s, c, j)
          PROVE  Pending(s)' = {}
      BY <3>1 DEF begin, TypeOK, Pending
    <3>2. CASE give_up(s) \/ rollback(s)
      BY <3>2 DEF give_up, rollback, TypeOK, Pending, Busy, Idle
    <3>3. CASE (\E j \in Journals : next_line(s, j)) \/ next_journal_number(s) \/ retry(s)
      <4>1. Busy(s)
        BY <3>3 DEF next_line, next_journal_number, retry, Busy
      <4>2. txn[s] \in Transaction
        BY <4>1, BusyIsTransaction
      <4>3. txn'[s].pending = txn[s].pending
        <5>1. ASSUME NEW j \in Journals, next_line(s, j)
              PROVE  txn'[s].pending = txn[s].pending
          BY <4>2, <5>1 DEF TypeOK, Transaction, next_line
        <5>2. CASE next_journal_number(s)
          BY <4>2, <5>2 DEF TypeOK, Transaction, next_journal_number
        <5>3. CASE retry(s)
          BY <4>2, <5>3 DEF TypeOK, Transaction, retry
        <5> QED BY <3>3, <5>1, <5>2, <5>3
      <4> QED BY <4>1, <4>3 DEF Pending
    <3> QED BY <1>2, <3>1, <3>2, <3>3
  <2> QED BY <2>1, <2>2, <2>3 DEF Rows, Pending, Busy
<1>3. ASSUME NEW s \in Sessions, commit(s)
      PROVE  Rows' \subseteq Rows
  <2>1. headers' = headers \cup Pending(s)
    BY <1>3 DEF commit, Pending, Busy
  <2>2. Pending(s)' = {} /\ \A t \in Sessions \ {s} : Pending(t)' = Pending(t)
    BY <1>3 DEF commit, TypeOK, Pending, Busy, Idle
  <2> QED BY <2>1, <2>2 DEF Rows
<1> QED BY <1>1, <1>2, <1>3 DEF Next, Advance

\* Every journal number of a company identifies one journal, committed or about to
\* be, whatever the order in which the transactions run.
THEOREM NumbersAreUnique == Spec => []UniqueNumbers
<1>1. Init => UniqueNumbers
  BY DEF Init, UniqueNumbers, Pending, Busy, Idle
<1>2. TypeOK /\ UniqueNumbers /\ [Next]_vars => UniqueNumbers'
  BY InsertKeepsUnique, FewerRowsKeepUnique, OtherStepsAddNoRow
<1> QED BY <1>1, <1>2, TypeCorrect, PTL DEF Spec

-----------------------------------------------------------------------------
(* The refinement of NumberBook.                                           *)

\* A header object about to be flushed is in no table yet, is built by one
\* transaction, and a journal_header_id names one row.
Unflushed(s) == txn[s].phase \in {"reading", "numbered"}

IdsDistinct ==
    /\ \A g, h \in Rows : g.journal_header_id = h.journal_header_id => g = h
    /\ \A s \in Sessions : Unflushed(s) =>
          \A h \in Rows : h.journal_header_id # txn[s].build
    /\ \A s, t \in Sessions :
          Unflushed(s) /\ Unflushed(t) /\ txn[s].build = txn[t].build => s = t

BInv ==
    /\ IInv
    /\ UniqueNumbers
    /\ IdsDistinct

-----------------------------------------------------------------------------
(* Every journal is built once.                                            *)

\* A step that adds no row and starts to build no header, or a header nobody built.
LEMMA IdsKept ==
    ASSUME IdsDistinct, Rows' \subseteq Rows, NEW s \in Sessions,
           \A t \in Sessions \ {s} : txn'[t] = txn[t],
           Unflushed(s)' => \/ Unflushed(s) /\ txn'[s].build = txn[s].build
                            \/ Unbuilt(txn'[s].build)
    PROVE  IdsDistinct'
<1>1. \A t \in Sessions \ {s} : /\ Unflushed(t)' <=> Unflushed(t)
                                /\ Unflushed(t) => Busy(t)
  BY DEF Unflushed, Busy
<1>2. ASSUME NEW j, Unbuilt(j)
      PROVE  /\ \A h \in Rows : h.journal_header_id # j
             /\ \A t \in Sessions : Unflushed(t) => txn[t].build # j
  BY <1>2 DEF Unbuilt, Rows, Pending, Unflushed, Busy
<1>3. \A g, h \in Rows' : g.journal_header_id = h.journal_header_id => g = h
  BY DEF IdsDistinct
<1>4. ASSUME NEW t \in Sessions, Unflushed(t)', NEW h \in Rows'
      PROVE  h.journal_header_id # txn'[t].build
  <2>1. h \in Rows
    OBVIOUS
  <2>2. CASE t = s
    BY <1>2, <1>4, <2>1, <2>2 DEF IdsDistinct
  <2>3. CASE t # s
    BY <1>1, <1>4, <2>1, <2>3 DEF IdsDistinct
  <2> QED BY <2>2, <2>3
<1>5. ASSUME NEW t \in Sessions, NEW u \in Sessions, Unflushed(t)', Unflushed(u)',
             txn'[t].build = txn'[u].build
      PROVE  t = u
  <2>1. CASE t # s /\ u # s
    BY <1>1, <1>5, <2>1 DEF IdsDistinct
  <2>2. CASE t = s /\ u # s
    BY <1>1, <1>2, <1>5, <2>2 DEF IdsDistinct
  <2>3. CASE t # s /\ u = s
    BY <1>1, <1>2, <1>5, <2>3 DEF IdsDistinct
  <2> QED BY <2>1, <2>2, <2>3
<1> QED BY <1>3, <1>4, <1>5 DEF IdsDistinct

LEMMA InsertKeepsIds ==
    ASSUME TypeOK, IdsDistinct, NEW s \in Sessions, insert(s)
    PROVE  IdsDistinct'
<1> DEFINE row == Row(s)
<1>1. /\ Unflushed(s) /\ Busy(s)
      /\ row.journal_header_id = txn[s].build
  BY DEF insert, Unflushed, Busy, Row
<1>2. /\ txn'[s].phase = "inserted"
      /\ txn'[s].pending = txn[s].pending \cup {row}
      /\ \A t \in Sessions \ {s} : txn'[t] = txn[t]
      /\ headers' = headers
  <2>1. txn[s] \in Transaction
    BY <1>1, BusyIsTransaction
  <2> QED BY <2>1 DEF insert, TypeOK, Transaction
<1> HIDE DEF row
<1>3. Rows' \subseteq Rows \cup {row}
  BY <1>1, <1>2 DEF Rows, Pending, Busy
<1>4. \A t \in Sessions : Unflushed(t)' => t # s /\ Unflushed(t) /\ txn'[t] = txn[t]
  BY <1>2 DEF Unflushed
<1>5. \A h \in Rows : h.journal_header_id # row.journal_header_id
  BY <1>1 DEF IdsDistinct
<1>6. \A t \in Sessions : Unflushed(t)' => row.journal_header_id # txn'[t].build
  BY <1>1, <1>4 DEF IdsDistinct
<1> QED BY <1>3, <1>4, <1>5, <1>6 DEF IdsDistinct

LEMMA NextKeepsIds ==
    ASSUME TypeOK, IdsDistinct, [Next]_vars
    PROVE  IdsDistinct'
<1>1. CASE UNCHANGED vars
  BY <1>1 DEF vars, IdsDistinct, Unflushed, Rows, Pending, Busy
<1>2. ASSUME NEW s \in Sessions, insert(s)
      PROVE  IdsDistinct'
  BY <1>2, InsertKeepsIds
<1>3. ASSUME NEW s \in Sessions,
             \/ \E c \in Companies, j \in Journals : begin(s, c, j)
             \/ \E j \in Journals : next_line(s, j)
             \/ next_journal_number(s)
             \/ retry(s)
             \/ give_up(s)
             \/ commit(s)
             \/ rollback(s),
             Rows' \subseteq Rows
      PROVE  IdsDistinct'
  <2>1. \A t \in Sessions \ {s} : txn'[t] = txn[t]
    BY <1>3 DEF TypeOK, begin, next_line, next_journal_number, retry, give_up, commit, rollback
  <2>2. ASSUME Unflushed(s)'
        PROVE  \/ Unflushed(s) /\ txn'[s].build = txn[s].build
               \/ Unbuilt(txn'[s].build)
    <3>1. CASE \E c \in Companies, j \in Journals : begin(s, c, j)
      BY <3>1 DEF begin, TypeOK
    <3>2. CASE give_up(s) \/ commit(s) \/ rollback(s)
      BY <2>2, <3>2 DEF give_up, commit, rollback, TypeOK, Unflushed, Idle
    <3>3. CASE (\E j \in Journals : next_line(s, j)) \/ next_journal_number(s) \/ retry(s)
      <4>1. txn[s] \in Transaction
        BY <3>3, BusyIsTransaction DEF next_line, next_journal_number, retry, Busy
      <4>2. ASSUME NEW j \in Journals, next_line(s, j)
            PROVE  Unbuilt(txn'[s].build)
        BY <4>1, <4>2 DEF next_line, TypeOK, Transaction
      <4>3. CASE next_journal_number(s)
        BY <4>1, <4>3 DEF next_journal_number, TypeOK, Transaction, Unflushed
      <4>4. CASE retry(s)
        BY <4>1, <4>4 DEF retry, TypeOK, Transaction, Unflushed
      <4> QED BY <3>3, <4>2, <4>3, <4>4
    <3> QED BY <1>3, <3>1, <3>2, <3>3
  <2> QED BY <1>3, <2>1, <2>2, IdsKept
<1> QED BY <1>1, <1>2, <1>3, OtherStepsAddNoRow DEF Next, Advance

-----------------------------------------------------------------------------
(* The rows of a company as a sequence.                                    *)

RowAt(rows, c, n) == CHOOSE h \in rows : h.company_id = c /\ h.number = n

Column(rows, c) == [n \in Numbers(rows, c) |-> RowAt(rows, c, n).journal_header_id]

LEMMA BookOfColumns ==
    Book = [c \in Companies |-> Column(headers, c)]
BY DEF Book, Column, RowAt

\* Where the numbers of a company are 1..n, each stands for a row of it, and the column
\* is a sequence of length n.
LEMMA RowAtPosition ==
    ASSUME NEW rows, NEW c, NEW n \in Nat, Numbers(rows, c) = 1..n, NEW i \in 1..n
    PROVE  /\ RowAt(rows, c, i) \in rows
           /\ RowAt(rows, c, i).company_id = c
           /\ RowAt(rows, c, i).number = i
<1>1. \E h \in rows : h.company_id = c /\ h.number = i
  BY DEF Numbers
<1> QED BY <1>1 DEF RowAt

LEMMA ColumnAtPosition ==
    ASSUME NEW rows, NEW c, NEW n \in Nat, Numbers(rows, c) = 1..n, NEW i \in 1..n
    PROVE  Column(rows, c)[i] = RowAt(rows, c, i).journal_header_id
BY DEF Column

LEMMA ColumnIsSequence ==
    ASSUME NEW rows \in SUBSET JournalHeader, NEW c, NEW n \in Nat, Numbers(rows, c) = 1..n
    PROVE  Column(rows, c) \in Seq(Journals) /\ Len(Column(rows, c)) = n
<1>1. \A i \in 1..n : RowAt(rows, c, i).journal_header_id \in Journals
  BY RowAtPosition DEF JournalHeader
<1>2. Column(rows, c) = [i \in 1..n |-> RowAt(rows, c, i).journal_header_id]
  BY DEF Column
<1>3. Column(rows, c) \in [1..n -> Journals]
  BY <1>1, <1>2
<1> QED BY <1>3

\* Rows added above the numbers of the old ones leave these where they were.
LEMMA OldRowsStay ==
    ASSUME NEW rows, NEW more, NEW c, NEW i,
           \A g, h \in rows \cup more :
               g.company_id = h.company_id /\ g.number = h.number => g = h,
           NEW g \in rows, g.company_id = c, g.number = i
    PROVE  RowAt(rows \cup more, c, i) = g
BY DEF RowAt

\* Appending, position by position.
LEMMA AppendedLength ==
    ASSUME NEW s \in Seq(Journals), NEW u \in Seq(Journals)
    PROVE  s \o u \in Seq(Journals) /\ Len(s \o u) = Len(s) + Len(u)
BY ConcatProperties

LEMMA AppendedAt ==
    ASSUME NEW s \in Seq(Journals), NEW u \in Seq(Journals), NEW i \in 1..(Len(s) + Len(u))
    PROVE  (s \o u)[i] = IF i <= Len(s) THEN s[i] ELSE u[i - Len(s)]
BY ConcatProperties

-----------------------------------------------------------------------------
(* A commit enters the journals of its transaction.                        *)

LEMMA CommitEnters ==
    ASSUME BInv, NEW s \in Sessions, commit(s)
    PROVE  [Numbering!BookNext]_Book
<1> DEFINE q == txn[s]
           c == q.company_id
           more == q.pending
           base == Highest(headers, c)
           top == Highest(headers \cup more, c)
           old == Column(headers, c)
           new == Column(headers \cup more, c)
           batch == SubSeq(new, base + 1, top)
<1>1. Busy(s)
  BY DEF commit, Busy
<1>2. /\ q \in Transaction
      /\ c \in Companies
      /\ Pending(s) = more
      /\ \A h \in more : h.company_id = c
      /\ base \in Nat
      /\ top \in Nat
      /\ base <= top
      /\ Numbers(headers, c) = 1..base
      /\ Numbers(headers \cup more, c) = 1..top
      /\ Numbers(more, c) = (base + 1)..top
  BY <1>1, Standing DEF Sound, Transaction, BInv
<1>3. headers' = headers \cup more
  BY DEF commit
<1>4. /\ headers \in SUBSET JournalHeader
      /\ headers \cup more \in SUBSET JournalHeader
  BY <1>2 DEF BInv, IInv, TypeOK, Transaction
<1>5. headers \cup more \subseteq Rows
  BY <1>2 DEF Rows
<1>6. \A g, h \in headers \cup more :
         g.company_id = h.company_id /\ g.number = h.number => g = h
  BY <1>5 DEF BInv, UniqueNumbers, Rows
<1>7. \A g, h \in headers \cup more : g.journal_header_id = h.journal_header_id => g = h
  BY <1>5 DEF BInv, IdsDistinct
<1> HIDE DEF more, base, top, c, q
<1>8. /\ old \in Seq(Journals) /\ Len(old) = base
      /\ new \in Seq(Journals) /\ Len(new) = top
      /\ \A i \in 1..base : /\ RowAt(headers, c, i) \in headers
                            /\ RowAt(headers, c, i).company_id = c
                            /\ RowAt(headers, c, i).number = i
                            /\ old[i] = RowAt(headers, c, i).journal_header_id
      /\ \A i \in 1..top : /\ RowAt(headers \cup more, c, i) \in headers \cup more
                           /\ RowAt(headers \cup more, c, i).company_id = c
                           /\ RowAt(headers \cup more, c, i).number = i
                           /\ new[i] = RowAt(headers \cup more, c, i).journal_header_id
  <2> HIDE DEF old, new
  <2>1. /\ Column(headers, c) \in Seq(Journals)
        /\ Len(Column(headers, c)) = base
        /\ \A i \in 1..base : /\ RowAt(headers, c, i) \in headers
                             /\ RowAt(headers, c, i).company_id = c
                             /\ RowAt(headers, c, i).number = i
                             /\ Column(headers, c)[i] = RowAt(headers, c, i).journal_header_id
    BY <1>2, <1>4, ColumnIsSequence, RowAtPosition, ColumnAtPosition
  <2>2. Column(headers \cup more, c) \in Seq(Journals) /\ Len(Column(headers \cup more, c)) = top
    BY <1>2, <1>4, ColumnIsSequence
  <2>3. ASSUME NEW i \in 1..top
        PROVE  /\ RowAt(headers \cup more, c, i) \in headers \cup more
               /\ RowAt(headers \cup more, c, i).company_id = c
               /\ RowAt(headers \cup more, c, i).number = i
               /\ Column(headers \cup more, c)[i]
                     = RowAt(headers \cup more, c, i).journal_header_id
    BY <1>2, RowAtPosition, ColumnAtPosition
  <2> QED BY <2>1, <2>2, <2>3 DEF old, new
<1>9. \A i \in 1..base : new[i] = old[i]
  <2> TAKE i \in 1..base
  <2>1. i \in 1..top
    BY <1>2
  <2> DEFINE g == RowAt(headers, c, i)
  <2>2. g \in headers /\ g.company_id = c /\ g.number = i
    BY <1>8
  <2>3. RowAt(headers \cup more, c, i) = g
    <3> HIDE DEF g
    <3> QED BY <1>6, <2>2, OldRowsStay
  <2> HIDE DEF old, new
  <2> QED BY <1>8, <2>1, <2>3
<1>10. /\ batch \in Seq(Journals)
       /\ Len(batch) = top - base
       /\ \A k \in 1..(top - base) : base + k \in 1..top /\ batch[k] = new[base + k]
  <2>1. \A i \in (base + 1)..top : new[i] \in Journals
    BY <1>2, <1>8
  <2>2. /\ SubSeq(new, base + 1, top) \in Seq(Journals)
        /\ Len(SubSeq(new, base + 1, top))
             = IF base + 1 <= top THEN top - (base + 1) + 1 ELSE 0
        /\ \A k \in 1..(top - (base + 1) + 1) :
              SubSeq(new, base + 1, top)[k] = new[base + 1 + k - 1]
    <3> HIDE DEF new
    <3>1. base + 1 \in Int /\ top \in Int
      BY <1>2
    <3> QED BY <2>1, <3>1, SubSeqProperties
  <2> HIDE DEF batch, new
  <2>3. top - (base + 1) + 1 = top - base /\ \A k \in Nat : base + 1 + k - 1 = base + k
    BY <1>2
  <2> QED BY <1>2, <2>2, <2>3 DEF batch
<1>11. new = old \o batch
  <2> HIDE DEF old, new, batch
  <2>1. /\ old \o batch \in Seq(Journals)
        /\ Len(old \o batch) = top
        /\ \A i \in 1..top :
              (old \o batch)[i] = IF i <= base THEN old[i] ELSE batch[i - base]
    <3>1. /\ old \o batch \in Seq(Journals)
          /\ Len(old \o batch) = Len(old) + Len(batch)
      BY <1>8, <1>10, AppendedLength
    <3>2. Len(old) = base /\ Len(old) + Len(batch) = top
      BY <1>2, <1>8, <1>10
    <3>3. ASSUME NEW i \in 1..top
          PROVE  (old \o batch)[i] = IF i <= base THEN old[i] ELSE batch[i - base]
      BY <1>8, <1>10, <3>2, AppendedAt
    <3> QED BY <3>1, <3>2, <3>3
  <2>2. \A i \in 1..top : new[i] = (old \o batch)[i]
    <3> TAKE i \in 1..top
    <3>1. CASE i <= base
      BY <1>2, <1>9, <2>1, <3>1
    <3>2. CASE i > base
      <4>1. i - base \in 1..(top - base) /\ base + (i - base) = i /\ ~(i <= base)
        BY <1>2, <3>2
      <4> QED BY <1>10, <2>1, <4>1
    <3>3. i <= base \/ i > base
      BY <1>2
    <3> QED BY <3>1, <3>2, <3>3
  <2> QED BY <1>8, <2>1, <2>2, SeqEqual
\* The row that a position of the batch stands for is one of the transaction's.
<1>12. \A k \in DOMAIN batch :
          \E h \in more : h.number = base + k /\ batch[k] = h.journal_header_id
  <2> HIDE DEF batch
  <2> TAKE k \in DOMAIN batch
  <2>1. k \in 1..(top - base)
    BY <1>10
  <2> DEFINE h == RowAt(headers \cup more, c, base + k)
  <2>2. /\ base + k \in 1..top
        /\ h \in headers \cup more
        /\ h.company_id = c
        /\ h.number = base + k
        /\ batch[k] = h.journal_header_id
    <3> HIDE DEF new
    <3> QED BY <1>8, <1>10, <2>1
  <2>3. h \notin headers
    <3>1. base + k \notin 1..base
      BY <1>2, <2>1
    <3>2. h \in headers => base + k \in Numbers(headers, c)
      BY <2>2 DEF Numbers
    <3> QED BY <1>2, <3>1, <3>2
  <2> QED BY <2>2, <2>3
<1>13. Numbering!IsInjective(batch)
  <2> SUFFICES ASSUME NEW k \in DOMAIN batch, NEW l \in DOMAIN batch, batch[k] = batch[l]
               PROVE  k = l
    BY Zenon DEF Numbering!IsInjective
  <2>1. k \in Nat /\ l \in Nat
    BY <1>10
  <2> HIDE DEF batch
  <2>2. base + k = base + l
    BY <1>7, <1>12
  <2> QED BY <1>2, <2>1, <2>2
<1>14. \A d \in Companies : Numbers(headers, d) = 1..Highest(headers, d)
                            /\ Highest(headers, d) \in Nat
  BY DEF BInv, IInv, CommittedDense
<1>15. \A d \in Companies : Numbering!Range(batch) \cap Numbering!Range(Column(headers, d)) = {}
  <2> SUFFICES ASSUME NEW d \in Companies, NEW k \in DOMAIN batch,
                      NEW i \in DOMAIN Column(headers, d), batch[k] = Column(headers, d)[i]
               PROVE  FALSE
    BY Zenon DEF Numbering!Range
  <2>1. PICK h \in more : h.number = base + k /\ batch[k] = h.journal_header_id
    BY <1>12
  <2> DEFINE g == RowAt(headers, d, i)
  <2>2. i \in 1..Highest(headers, d)
    BY <1>14 DEF Column
  <2>3. g \in headers /\ Column(headers, d)[i] = g.journal_header_id
    <3> HIDE DEF batch, g
    <3> QED BY <1>4, <1>14, <2>2, RowAtPosition, ColumnAtPosition DEF g
  <2>4. g = h
    BY <1>7, <2>1, <2>3
  <2>5. h.number \in Numbers(headers, c) /\ h.number \in Numbers(more, c)
    BY <1>2, <2>3, <2>4 DEF Numbers
  <2> QED BY <1>2, <2>5
<1>16. /\ Book = [d \in Companies |-> Column(headers, d)]
       /\ Book' = [d \in Companies |-> Column(headers \cup more, d)]
  BY <1>3, BookOfColumns DEF Book, Column, RowAt
<1>17. \A d \in Companies \ {c} : Column(headers \cup more, d) = Column(headers, d)
  <2> TAKE d \in Companies \ {c}
  <2>1. \A h \in more : h.company_id # d
    BY <1>2
  <2>2. Numbers(headers \cup more, d) = Numbers(headers, d)
    BY <2>1 DEF Numbers
  <2>3. \A i : RowAt(headers \cup more, d, i) = RowAt(headers, d, i)
    <3> TAKE i
    <3>1. \A h : (h \in headers \cup more /\ (h.company_id = d /\ h.number = i))
                  <=> (h \in headers /\ (h.company_id = d /\ h.number = i))
      BY <2>1
    <3> QED BY <3>1, Zenon DEF RowAt
  <2> QED BY <2>2, <2>3 DEF Column
<1>18. CASE base = top
  <2>1. batch = << >>
    <3> HIDE DEF batch
    <3> QED BY <1>2, <1>10, <1>18, EmptySeq
  <2>2. new = old
    <3> HIDE DEF old, new, batch
    <3> QED BY <1>8, <1>11, <2>1, ConcatEmptySeq
  <2>3. Book' = Book
    BY <1>16, <1>17, <2>2
  <2> QED BY <2>3
<1>19. CASE base # top
  <2>1. batch # << >>
    <3> HIDE DEF batch
    <3> QED BY <1>2, <1>10, <1>19, EmptySeq
  <2>2. Book[c] = old /\ Book'[c] = new
    BY <1>2, <1>16
  <2>3. Numbering!Added(c) = batch
    BY <1>8, <2>2 DEF Numbering!Added
  <2>4. Book' = [Book EXCEPT ![c] = Book[c] \o batch]
    <3> HIDE DEF old, new, batch
    <3> QED BY <1>2, <1>11, <1>16, <1>17, <2>2 DEF new
  <2>5. \A d \in Companies : Numbering!Range(batch) \cap Numbering!Entered(d) = {}
    BY <1>15, <1>16 DEF Numbering!Entered
  <2>6. Numbering!Enter(c, batch)
    BY <1>13, <2>1, <2>4, <2>5 DEF Numbering!Enter
  <2> QED BY <1>2, <2>3, <2>6 DEF Numbering!BookNext
<1> QED BY <1>18, <1>19

\* The other steps leave the table, and with it the book.
LEMMA OthersKeepTheBook ==
    ASSUME [Next]_vars, \A s \in Sessions : ~commit(s)
    PROVE  Book' = Book
<1>1. headers' = headers
  BY DEF Next, Advance, vars, begin, next_line, next_journal_number, insert, retry, give_up,
         rollback
<1> QED BY <1>1 DEF Book

LEMMA InitIsEmptyBook ==
    ASSUME Init
    PROVE  Numbering!BookInit
<1>1. ASSUME NEW c \in Companies
      PROVE  Column(headers, c) = << >>
  <2>1. headers \in SUBSET JournalHeader /\ Numbers(headers, c) = 1..0
    BY DEF Init, Numbers
  <2>2. Column(headers, c) \in Seq(Journals) /\ Len(Column(headers, c)) = 0
    <3>1. 0 \in Nat
      OBVIOUS
    <3> QED BY <2>1, <3>1, ColumnIsSequence
  <2> QED BY <2>2, EmptySeq
<1> QED BY <1>1, BookOfColumns DEF Numbering!BookInit

\* However transactions overlap, retry, fail and roll back, each company's journals
\* are a book: what commits appends its journals, all of them, behind the last one, and
\* no entry ever moves, disappears or is made twice.
THEOREM NumberingIsABook == Spec => IsABook
<1>1. Init => IdsDistinct
  BY DEF Init, IdsDistinct, Rows, Pending, Busy, Unflushed, Idle
<1>2. TypeOK /\ IdsDistinct /\ [Next]_vars => IdsDistinct'
  BY NextKeepsIds
<1>3. Spec => []BInv
  BY <1>1, <1>2, TypeCorrect, Invariance, NumbersAreUnique, PTL DEF Spec, BInv
<1>4. Init => Numbering!BookInit
  BY InitIsEmptyBook
<1>5. BInv /\ [Next]_vars => [Numbering!BookNext]_Book
  BY CommitEnters, OthersKeepTheBook
<1> QED BY <1>3, <1>4, <1>5, PTL DEF Spec, IsABook, Numbering!BookSpec
=============================================================================
