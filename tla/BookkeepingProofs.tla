-------------------------- MODULE BookkeepingProofs --------------------------
(***************************************************************************)
(* Proofs about Bookkeeping, for every chart, every set of payloads and    *)
(* any number of auditors; and, for they share the calendar, about the     *)
(* schedules of Calculators.                                               *)
(*                                                                         *)
(* First sums: SumFunctionOnSet is defined by recursion on the finite      *)
(* sets.  It is shown to exist, not to depend on the order in which the    *)
(* members are taken, and to behave as a sum does: over a union, over the  *)
(* parts of a set, of a difference, of the same numbers under other names. *)
(* The induction over sets is one over the number of members, and that one *)
(* rests on the well-foundedness of inclusion between finite sets.         *)
(*                                                                         *)
(* The reports agree because each of them adds up the same lines in parts  *)
(* of its own: by account, by month, by journal, by type.  BooksSound says *)
(* what the sums need: every journal that was kept is balanced and names   *)
(* accounts of the chart, and no account changes its side.  From there a   *)
(* report is a sum over a part of the lines or of the accounts, and what   *)
(* BooksBalance says of it is an equation between such sums.               *)
(*                                                                         *)
(* What a journal is logged for is found once, for whoever read the log    *)
(* before another scan's last write is behind, and the others are about to *)
(* log what the log has not (ScansSound).                                  *)
(*                                                                         *)
(* A schedule's next run is compared with every day from the moment on:    *)
(* daily and weekly by the remainders of their days, monthly by the one    *)
(* day of each month that the schedule stands for (OneDayAMonth).          *)
(***************************************************************************)
EXTENDS Bookkeeping, Calculators, TLAPS, FiniteSetTheorems, SequenceTheorems, WellFoundedInduction

-----------------------------------------------------------------------------
(* Induction over the natural numbers, for a set of them.                  *)

\* A set with 0 that has the successor of every member has every natural number.
LEMMA NatSetInduction ==
    ASSUME NEW P \in SUBSET Nat, 0 \in P, \A n \in P : n + 1 \in P
    PROVE  P = Nat
<1> SUFFICES ASSUME NEW n \in Nat, n \notin P
             PROVE  FALSE
  OBVIOUS
<1> DEFINE T == {0 .. m : m \in Nat \ P}
<1>1. T \subseteq FiniteSubsetsOf(Nat) /\ T # {}
  <2>1. \A m \in Nat : 0 .. m \in FiniteSubsetsOf(Nat)
    BY FS_Interval DEF FiniteSubsetsOf
  <2> QED BY <2>1
<1>2. PICK x \in T : \A y \in T : <<y, x>> \notin StrictSubsetOrdering(Nat)
  <2>1. IsWellFoundedOn(StrictSubsetOrdering(Nat), FiniteSubsetsOf(Nat))
    BY FS_StrictSubsetOrderingWellFounded
  <2> HIDE DEF T
  <2> QED BY <1>1, <2>1, WFMin
<1>3. PICK m \in Nat \ P : x = 0 .. m
  BY <1>2
<1>4. m # 0 /\ m - 1 \in Nat /\ (m - 1) + 1 = m
  BY <1>3
<1>5. m - 1 \notin P
  BY <1>3, <1>4
<1>6. 0 .. (m - 1) \in T
  BY <1>4, <1>5
<1>7. <<0 .. (m - 1), 0 .. m>> \in StrictSubsetOrdering(Nat)
  BY <1>3, <1>4 DEF StrictSubsetOrdering
<1> QED BY <1>2, <1>3, <1>6, <1>7

-----------------------------------------------------------------------------
(* The sum of a function's values on a finite set.                         *)

\* The subsets of D with at most n members.
UpTo(D, n) == {s \in SUBSET D : Cardinality(s) <= n}

\* f has the sums of g on the sets in dom: a member's number and the sum of the rest.
SumOf(f, g, dom) ==
    f = [s \in dom |-> IF s = {} THEN 0
                       ELSE LET x == CHOOSE y \in s : TRUE IN g[x] + f[s \ {x}]]

First(s) == CHOOSE y \in s : TRUE

\* A subset without one of its members has one less.
LEMMA OneLess ==
    ASSUME NEW D, IsFiniteSet(D), NEW s \in SUBSET D, NEW x \in s
    PROVE  /\ IsFiniteSet(s) /\ Cardinality(s) \in Nat /\ Cardinality(s \ {x}) \in Nat
           /\ Cardinality(s \ {x}) + 1 = Cardinality(s)
<1>1. IsFiniteSet(s)
  BY FS_Subset
<1>2. Cardinality(s \ {x}) = Cardinality(s) - 1 /\ IsFiniteSet(s \ {x})
  BY <1>1, FS_RemoveElement
<1>3. Cardinality(s) \in Nat /\ Cardinality(s \ {x}) \in Nat
  BY <1>1, <1>2, FS_CardinalityType
<1> QED BY <1>1, <1>2, <1>3

\* The recursion on sets has a solution, built up by the number of members.
LEMMA SumIsDefined ==
    ASSUME NEW D, IsFiniteSet(D), NEW g
    PROVE  \E f : SumOf(f, g, SUBSET D)
<1> DEFINE P == {n \in Nat : \E f : SumOf(f, g, UpTo(D, n))}
<1>1. 0 \in P
  <2> DEFINE f == [s \in UpTo(D, 0) |-> 0]
  <2>1. \A s \in UpTo(D, 0) : s = {}
    <3> TAKE s \in UpTo(D, 0)
    <3>1. IsFiniteSet(s)
      BY FS_Subset DEF UpTo
    <3>2. Cardinality(s) = 0
      BY <3>1, FS_CardinalityType DEF UpTo
    <3> QED BY <3>1, <3>2, FS_EmptySet
  <2>2. SumOf(f, g, UpTo(D, 0))
    BY <2>1 DEF SumOf
  <2> QED BY <2>2
<1>2. ASSUME NEW n \in P
      PROVE  n + 1 \in P
  <2>1. PICK f : SumOf(f, g, UpTo(D, n))
    OBVIOUS
  <2> DEFINE h == [s \in UpTo(D, n + 1) |->
                      IF s = {} THEN 0 ELSE g[First(s)] + f[s \ {First(s)}]]
  <2>2. ASSUME NEW t \in UpTo(D, n)
        PROVE  h[t] = f[t]
    <3>1. Cardinality(t) \in Nat
      BY FS_Subset, FS_CardinalityType DEF UpTo
    <3>2. t \in UpTo(D, n + 1)
      BY <3>1 DEF UpTo
    <3>3. f[t] = IF t = {} THEN 0 ELSE g[First(t)] + f[t \ {First(t)}]
      BY <2>1 DEF SumOf, First
    <3> QED BY <3>2, <3>3
  <2>3. ASSUME NEW s \in UpTo(D, n + 1)
        PROVE  h[s] = IF s = {} THEN 0 ELSE g[First(s)] + h[s \ {First(s)}]
    <3>1. CASE s = {}
      BY <3>1
    <3>2. CASE s # {}
      <4>1. First(s) \in s
        BY <3>2 DEF First
      <4>2. s \ {First(s)} \in UpTo(D, n)
        BY <4>1, OneLess DEF UpTo
      <4>3. h[s \ {First(s)}] = f[s \ {First(s)}]
        BY <2>2, <4>2
      <4> QED BY <3>2, <4>3
    <3> QED BY <3>1, <3>2
  <2> HIDE DEF h
  <2>4. h = [s \in UpTo(D, n + 1) |-> h[s]]
    BY DEF h
  <2>5. SumOf(h, g, UpTo(D, n + 1))
    BY <2>3, <2>4 DEF SumOf, First
  <2> QED BY <2>5
<1>3. P = Nat
  <2> HIDE DEF P
  <2>1. P \in SUBSET Nat
    BY DEF P
  <2> QED BY <1>1, <1>2, <2>1, NatSetInduction
<1>4. Cardinality(D) \in Nat
  BY FS_CardinalityType
<1>5. UpTo(D, Cardinality(D)) = SUBSET D
  BY FS_Subset DEF UpTo
<1> QED BY <1>3, <1>4, <1>5

\* The sum is that solution, by its definition in the community modules.
LEMMA SumByFirst ==
    ASSUME NEW D, NEW g
    PROVE  SumFunctionOnSet(g, D) = (CHOOSE f : SumOf(f, g, SUBSET D))[D]
BY DEF SumFunctionOnSet, FoldFunctionOnSet, MapThenFoldSet, SumOf

\* Induction over the subsets of a finite set.
LEMMA SetInduction ==
    ASSUME NEW D, IsFiniteSet(D), NEW P \in SUBSET (SUBSET D), {} \in P,
           \A s \in P : \A x \in D \ s : s \cup {x} \in P
    PROVE  D \in P
<1> DEFINE Q == {n \in Nat : UpTo(D, n) \subseteq P}
<1>1. 0 \in Q
  <2> SUFFICES ASSUME NEW s \in UpTo(D, 0) PROVE s = {}
    OBVIOUS
  <2>1. IsFiniteSet(s)
    BY FS_Subset DEF UpTo
  <2>2. Cardinality(s) = 0
    BY <2>1, FS_CardinalityType DEF UpTo
  <2> QED BY <2>1, <2>2, FS_EmptySet
<1>2. ASSUME NEW n \in Q
      PROVE  n + 1 \in Q
  <2> SUFFICES ASSUME NEW s \in UpTo(D, n + 1) PROVE s \in P
    OBVIOUS
  <2>1. CASE s = {}
    BY <2>1
  <2>2. CASE s # {}
    <3>1. PICK x \in s : TRUE
      BY <2>2
    <3>2. s \ {x} \in UpTo(D, n)
      BY OneLess DEF UpTo
    <3>3. s \ {x} \in P /\ x \in D \ (s \ {x}) /\ s = (s \ {x}) \cup {x}
      BY <3>2 DEF UpTo
    <3> QED BY <3>3
  <2> QED BY <2>1, <2>2
<1>3. Q = Nat
  <2> HIDE DEF Q
  <2>1. Q \in SUBSET Nat
    BY DEF Q
  <2> QED BY <1>1, <1>2, <2>1, NatSetInduction
<1>4. Cardinality(D) \in Nat
  BY FS_CardinalityType
<1>5. D \in UpTo(D, Cardinality(D))
  BY <1>4 DEF UpTo
<1> QED BY <1>3, <1>4, <1>5

\* The sums of g, on whatever set they are taken.
LEMMA SumsAgree ==
    ASSUME NEW D, IsFiniteSet(D), NEW E \in SUBSET D, NEW f, NEW h, NEW g,
           SumOf(f, g, SUBSET D), SumOf(h, g, SUBSET E)
    PROVE  f[E] = h[E]
<1> DEFINE Q == {n \in Nat : \A s \in UpTo(E, n) : f[s] = h[s]}
<1>0. IsFiniteSet(E)
  BY FS_Subset
<1>1. 0 \in Q
  <2> SUFFICES ASSUME NEW s \in UpTo(E, 0) PROVE f[s] = h[s]
    OBVIOUS
  <2>1. IsFiniteSet(s)
    BY <1>0, FS_Subset DEF UpTo
  <2>2. Cardinality(s) = 0
    BY <2>1, FS_CardinalityType DEF UpTo
  <2>3. s = {}
    BY <2>1, <2>2, FS_EmptySet
  <2>4. f[{}] = 0 /\ h[{}] = 0
    BY DEF SumOf
  <2> QED BY <2>3, <2>4
<1>2. ASSUME NEW n \in Q
      PROVE  n + 1 \in Q
  <2> SUFFICES ASSUME NEW s \in UpTo(E, n + 1) PROVE f[s] = h[s]
    OBVIOUS
  <2>0. s \in SUBSET E /\ s \in SUBSET D
    BY DEF UpTo
  <2>1. CASE s = {}
    BY <2>0, <2>1 DEF SumOf
  <2>2. CASE s # {}
    <3>1. First(s) \in s
      BY <2>2 DEF First
    <3>2. s \ {First(s)} \in UpTo(E, n)
      BY <1>0, <3>1, OneLess DEF UpTo
    <3>3. f[s \ {First(s)}] = h[s \ {First(s)}]
      BY <3>2
    <3>4. f[s] = g[First(s)] + f[s \ {First(s)}]
      BY <2>0, <2>2 DEF SumOf, First
    <3>5. h[s] = g[First(s)] + h[s \ {First(s)}]
      BY <2>0, <2>2 DEF SumOf, First
    <3> QED BY <3>3, <3>4, <3>5
  <2> QED BY <2>1, <2>2
<1>3. Q = Nat
  <2> HIDE DEF Q
  <2>1. Q \in SUBSET Nat
    BY DEF Q
  <2> QED BY <1>1, <1>2, <2>1, NatSetInduction
<1>4. Cardinality(E) \in Nat
  BY <1>0, FS_CardinalityType
<1>5. E \in UpTo(E, Cardinality(E))
  BY <1>4 DEF UpTo
<1> QED BY <1>3, <1>4, <1>5

\* One way to compute all of them.
LEMMA SumTable ==
    ASSUME NEW D, IsFiniteSet(D), NEW g
    PROVE  \E f : /\ SumOf(f, g, SUBSET D)
                  /\ \A s \in SUBSET D : f[s] = SumFunctionOnSet(g, s)
<1>1. PICK f : SumOf(f, g, SUBSET D)
  BY SumIsDefined
<1>2. ASSUME NEW s \in SUBSET D
      PROVE  f[s] = SumFunctionOnSet(g, s)
  <2> DEFINE h == CHOOSE k : SumOf(k, g, SUBSET s)
  <2>1. IsFiniteSet(s)
    BY FS_Subset
  <2>2. SumOf(h, g, SUBSET s)
    BY <2>1, SumIsDefined
  <2>3. SumFunctionOnSet(g, s) = h[s]
    BY SumByFirst
  <2> HIDE DEF h
  <2> QED BY <1>1, <2>2, <2>3, SumsAgree
<1> QED BY <1>1, <1>2

\* Nothing adds up to zero.
LEMMA SumEmpty ==
    ASSUME NEW g
    PROVE  SumFunctionOnSet(g, {}) = 0
<1>1. PICK f : SumOf(f, g, SUBSET {}) /\ \A s \in SUBSET {} : f[s] = SumFunctionOnSet(g, s)
  BY FS_EmptySet, SumTable
<1> QED BY <1>1 DEF SumOf

\* What can be added up.
NumbersOn(g, S) == IsFiniteSet(S) /\ \A x \in S : g[x] \in Int

\* Integers add up to an integer.
LEMMA SumInt ==
    ASSUME NEW S, NEW g, NumbersOn(g, S)
    PROVE  SumFunctionOnSet(g, S) \in Int
<1>0. IsFiniteSet(S)
  BY DEF NumbersOn
<1>1. PICK f : SumOf(f, g, SUBSET S) /\ \A s \in SUBSET S : f[s] = SumFunctionOnSet(g, s)
  BY <1>0, SumTable
<1> DEFINE Q == {n \in Nat : \A s \in UpTo(S, n) : f[s] \in Int}
<1>2. 0 \in Q
  <2> SUFFICES ASSUME NEW s \in UpTo(S, 0) PROVE f[s] \in Int
    OBVIOUS
  <2>1. IsFiniteSet(s)
    BY <1>0, FS_Subset DEF UpTo
  <2>2. Cardinality(s) = 0
    BY <2>1, FS_CardinalityType DEF UpTo
  <2>3. s = {}
    BY <2>1, <2>2, FS_EmptySet
  <2>4. f[{}] = 0
    BY <1>1 DEF SumOf
  <2> QED BY <2>3, <2>4
<1>3. ASSUME NEW n \in Q
      PROVE  n + 1 \in Q
  <2> SUFFICES ASSUME NEW s \in UpTo(S, n + 1) PROVE f[s] \in Int
    OBVIOUS
  <2>0. s \in SUBSET S
    BY DEF UpTo
  <2>1. CASE s = {}
    BY <1>1, <2>0, <2>1 DEF SumOf
  <2>2. CASE s # {}
    <3>1. First(s) \in s
      BY <2>2 DEF First
    <3>2. s \ {First(s)} \in UpTo(S, n)
      BY <1>0, <3>1, OneLess DEF UpTo
    <3>3. f[s \ {First(s)}] \in Int /\ g[First(s)] \in Int
      BY <2>0, <3>1, <3>2 DEF NumbersOn
    <3>4. f[s] = g[First(s)] + f[s \ {First(s)}]
      BY <1>1, <2>0, <2>2 DEF SumOf, First
    <3> QED BY <3>3, <3>4
  <2> QED BY <2>1, <2>2
<1>4. Q = Nat
  <2> HIDE DEF Q
  <2>1. Q \in SUBSET Nat
    BY DEF Q
  <2> QED BY <1>2, <1>3, <2>1, NatSetInduction
<1>5. Cardinality(S) \in Nat
  BY <1>0, FS_CardinalityType
<1>6. S \in UpTo(S, Cardinality(S))
  BY <1>5 DEF UpTo
<1>7. f[S] \in Int
  BY <1>4, <1>5, <1>6
<1> QED BY <1>1, <1>7

\* Whichever member is taken first, the sum is the same.
LEMMA SumLess ==
    ASSUME NEW S, NEW g, NumbersOn(g, S), NEW x \in S
    PROVE  SumFunctionOnSet(g, S) = g[x] + SumFunctionOnSet(g, S \ {x})
<1>0. IsFiniteSet(S)
  BY DEF NumbersOn
<1>1. PICK f : SumOf(f, g, SUBSET S) /\ \A s \in SUBSET S : f[s] = SumFunctionOnSet(g, s)
  BY <1>0, SumTable
<1>2. ASSUME NEW s \in SUBSET S
      PROVE  f[s] \in Int
  <2>1. NumbersOn(g, s)
    BY FS_Subset DEF NumbersOn
  <2> QED BY <1>1, <2>1, SumInt
<1>3. ASSUME NEW s \in SUBSET S, s # {}
      PROVE  First(s) \in s /\ f[s] = g[First(s)] + f[s \ {First(s)}]
  <2>1. First(s) \in s
    BY <1>3 DEF First
  <2> QED BY <1>1, <1>3, <2>1 DEF SumOf, First
<1>4. \A y \in S : g[y] \in Int
  BY DEF NumbersOn
<1> DEFINE Q == {n \in Nat : \A s \in UpTo(S, n) : \A y \in s : f[s] = g[y] + f[s \ {y}]}
<1>5. 0 \in Q
  <2> SUFFICES ASSUME NEW s \in UpTo(S, 0), NEW y \in s PROVE FALSE
    OBVIOUS
  <2>1. s \in SUBSET S /\ Cardinality(s) <= 0
    BY DEF UpTo
  <2>2. Cardinality(s \ {y}) \in Nat /\ Cardinality(s \ {y}) + 1 = Cardinality(s)
    BY <1>0, <2>1, OneLess
  <2> QED BY <2>1, <2>2
<1>6. ASSUME NEW n \in Q
      PROVE  n + 1 \in Q
  <2> SUFFICES ASSUME NEW s \in UpTo(S, n + 1), NEW y \in s
               PROVE  f[s] = g[y] + f[s \ {y}]
    OBVIOUS
  <2>0. s \in SUBSET S /\ s # {} /\ s \ {y} \in SUBSET S
    BY DEF UpTo
  <2> DEFINE z == First(s)
  <2>1. z \in s /\ f[s] = g[z] + f[s \ {z}]
    BY <1>3, <2>0
  <2> HIDE DEF z
  <2>2. CASE y = z
    BY <2>1, <2>2
  <2>3. CASE y # z
    <3>1. s \ {z} \in UpTo(S, n) /\ s \ {y} \in UpTo(S, n)
      BY <1>0, <2>1, OneLess DEF UpTo
    <3>2. f[s \ {z}] = g[y] + f[(s \ {z}) \ {y}]
      BY <2>3, <3>1
    <3>3. f[s \ {y}] = g[z] + f[(s \ {y}) \ {z}]
      BY <2>1, <2>3, <3>1
    <3>4. (s \ {z}) \ {y} = (s \ {y}) \ {z} /\ (s \ {y}) \ {z} \in SUBSET S
      BY <2>0
    <3>5. f[(s \ {y}) \ {z}] \in Int /\ g[y] \in Int /\ g[z] \in Int
      BY <1>2, <1>4, <2>0, <2>1, <3>4
    <3> DEFINE rest == f[(s \ {y}) \ {z}]
    <3>6. f[s \ {z}] = g[y] + rest
      BY <3>2, <3>4
    <3>7. f[s \ {y}] = g[z] + rest /\ rest \in Int
      BY <3>3, <3>5
    <3> HIDE DEF rest
    <3>8. f[s] = g[z] + (g[y] + rest)
      BY <2>1, <3>6
    <3> QED BY <3>5, <3>7, <3>8
  <2> QED BY <2>2, <2>3
<1>7. Q = Nat
  <2> HIDE DEF Q
  <2>1. Q \in SUBSET Nat
    BY DEF Q
  <2> QED BY <1>5, <1>6, <2>1, NatSetInduction
<1>8. Cardinality(S) \in Nat
  BY <1>0, FS_CardinalityType
<1>9. S \in UpTo(S, Cardinality(S))
  BY <1>8 DEF UpTo
<1>10. f[S] = g[x] + f[S \ {x}]
  BY <1>7, <1>8, <1>9
<1> QED BY <1>1, <1>10

\* One more member adds its number.
LEMMA SumMore ==
    ASSUME NEW S, NEW g, NEW x, NumbersOn(g, S \cup {x}), x \notin S
    PROVE  /\ SumFunctionOnSet(g, S \cup {x}) = SumFunctionOnSet(g, S) + g[x]
           /\ SumFunctionOnSet(g, S) \in Int /\ g[x] \in Int /\ NumbersOn(g, S)
<1>1. S = (S \cup {x}) \ {x}
  OBVIOUS
<1>2. NumbersOn(g, S) /\ g[x] \in Int
  BY FS_Subset DEF NumbersOn
<1>3. SumFunctionOnSet(g, S \cup {x}) = g[x] + SumFunctionOnSet(g, S)
  BY <1>1, SumLess
<1> QED BY <1>2, <1>3, SumInt

\* Zeros add up to zero.
LEMMA SumZero ==
    ASSUME NEW S, NEW g, IsFiniteSet(S), \A x \in S : g[x] = 0
    PROVE  SumFunctionOnSet(g, S) = 0
<1> DEFINE P == {s \in SUBSET S : SumFunctionOnSet(g, s) = 0}
<1>1. {} \in P
  BY SumEmpty
<1>2. ASSUME NEW s \in P, NEW x \in S \ s
      PROVE  s \cup {x} \in P
  <2>1. NumbersOn(g, s \cup {x})
    BY FS_Subset DEF NumbersOn
  <2>3. SumFunctionOnSet(g, s) = 0 /\ g[x] = 0
    OBVIOUS
  <2>2. SumFunctionOnSet(g, s \cup {x}) = SumFunctionOnSet(g, s) + g[x]
    <3> HIDE DEF P
    <3> QED BY <2>1, SumMore
  <2>4. SumFunctionOnSet(g, s \cup {x}) = 0
    BY <2>2, <2>3
  <2> QED BY <2>4
<1>3. P \in SUBSET (SUBSET S)
  OBVIOUS
<1> HIDE DEF P
<1>4. S \in P
  BY <1>1, <1>2, <1>3, SetInduction
<1> QED BY <1>4 DEF P

\* One step of SumMinus.
LEMMA MinusMore ==
    ASSUME NEW s, NEW x, x \notin s, NEW f, NEW g, NEW h, NumbersOn(f, s \cup {x}), NumbersOn(g, s \cup {x}),
           NumbersOn(h, s \cup {x})
    PROVE  /\ SumFunctionOnSet(h, s) = SumFunctionOnSet(f, s) - SumFunctionOnSet(g, s)
           /\ h[x] = f[x] - g[x]
           => SumFunctionOnSet(h, s \cup {x}) = SumFunctionOnSet(f, s \cup {x}) - SumFunctionOnSet(g, s \cup {x})
<1>1. /\ SumFunctionOnSet(f, s \cup {x}) = SumFunctionOnSet(f, s) + f[x]
      /\ SumFunctionOnSet(f, s) \in Int /\ f[x] \in Int
  BY SumMore
<1>2. /\ SumFunctionOnSet(g, s \cup {x}) = SumFunctionOnSet(g, s) + g[x]
      /\ SumFunctionOnSet(g, s) \in Int /\ g[x] \in Int
  BY SumMore
<1>3. SumFunctionOnSet(h, s \cup {x}) = SumFunctionOnSet(h, s) + h[x]
  BY SumMore
<1> QED BY <1>1, <1>2, <1>3

\* h is f less g, member by member.
LEMMA SumMinus ==
    ASSUME NEW S, NEW f, NEW g, NEW h, NumbersOn(f, S), NumbersOn(g, S),
           \A x \in S : h[x] = f[x] - g[x]
    PROVE  SumFunctionOnSet(h, S) = SumFunctionOnSet(f, S) - SumFunctionOnSet(g, S)
<1> DEFINE P == {s \in SUBSET S :
                    SumFunctionOnSet(h, s) = SumFunctionOnSet(f, s) - SumFunctionOnSet(g, s)}
<1>1. {} \in P
  BY SumEmpty
<1>2. ASSUME NEW s \in P, NEW x \in S \ s
      PROVE  s \cup {x} \in P
  <2>1. IsFiniteSet(s \cup {x})
    BY FS_Subset DEF NumbersOn
  <2>2. NumbersOn(f, s \cup {x}) /\ NumbersOn(g, s \cup {x}) /\ NumbersOn(h, s \cup {x})
    BY <2>1 DEF NumbersOn
  <2>3. x \notin s /\ SumFunctionOnSet(h, s) = SumFunctionOnSet(f, s) - SumFunctionOnSet(g, s) /\ h[x] = f[x] - g[x]
    OBVIOUS
  <2>7. SumFunctionOnSet(h, s \cup {x}) = SumFunctionOnSet(f, s \cup {x}) - SumFunctionOnSet(g, s \cup {x})
    BY <2>2, <2>3, MinusMore
  <2> QED BY <2>7
<1>3. P \in SUBSET (SUBSET S)
  OBVIOUS
<1> HIDE DEF P
<1>4. S \in P
  BY <1>1, <1>2, <1>3, SetInduction, FS_Subset DEF NumbersOn
<1> QED BY <1>4 DEF P

\* The sum is determined by the numbers of the members.
LEMMA SumSame ==
    ASSUME NEW S, NEW f, NEW g, NumbersOn(f, S), \A x \in S : g[x] = f[x]
    PROVE  SumFunctionOnSet(g, S) = SumFunctionOnSet(f, S)
<1> DEFINE zero == [x \in S |-> 0]
<1>1. NumbersOn(zero, S)
  BY DEF NumbersOn
<1>2. \A x \in S : g[x] = f[x] - zero[x]
  BY DEF NumbersOn
<1>3. SumFunctionOnSet(zero, S) = 0
  BY SumZero DEF NumbersOn
<1> HIDE DEF zero
<1>4. SumFunctionOnSet(g, S) = SumFunctionOnSet(f, S) - SumFunctionOnSet(zero, S)
  BY <1>1, <1>2, SumMinus
<1>5. SumFunctionOnSet(f, S) \in Int
  BY SumInt
<1> QED BY <1>3, <1>4, <1>5

\* Turning every number turns the sum.
LEMMA SumNegated ==
    ASSUME NEW S, NEW f, NEW g, NumbersOn(f, S), \A x \in S : g[x] = -f[x]
    PROVE  SumFunctionOnSet(g, S) = -SumFunctionOnSet(f, S)
<1> DEFINE zero == [x \in S |-> 0]
<1>1. NumbersOn(zero, S)
  BY DEF NumbersOn
<1>2. \A x \in S : g[x] = zero[x] - f[x]
  BY DEF NumbersOn
<1>3. SumFunctionOnSet(zero, S) = 0
  BY SumZero DEF NumbersOn
<1> HIDE DEF zero
<1>4. SumFunctionOnSet(g, S) = SumFunctionOnSet(zero, S) - SumFunctionOnSet(f, S)
  BY <1>1, <1>2, SumMinus
<1>5. SumFunctionOnSet(f, S) \in Int
  BY SumInt
<1> QED BY <1>3, <1>4, <1>5

\* Sets without a common member add up to the sum of both.
LEMMA SumUnion ==
    ASSUME NEW S, NEW T, NEW g, NumbersOn(g, S), NumbersOn(g, T), S \cap T = {}
    PROVE  SumFunctionOnSet(g, S \cup T) = SumFunctionOnSet(g, S) + SumFunctionOnSet(g, T)
<1> DEFINE P == {s \in SUBSET T :
                    SumFunctionOnSet(g, S \cup s) = SumFunctionOnSet(g, S) + SumFunctionOnSet(g, s)}
<1>0. SumFunctionOnSet(g, S) \in Int
  BY SumInt
<1>1. {} \in P
  <2>1. S \cup {} = S
    OBVIOUS
  <2>2. SumFunctionOnSet(g, S \cup {}) = SumFunctionOnSet(g, S) + SumFunctionOnSet(g, {})
    BY <1>0, <2>1, SumEmpty
  <2> QED BY <2>2
<1>2. ASSUME NEW s \in P, NEW x \in T \ s
      PROVE  s \cup {x} \in P
  <2>1. IsFiniteSet(s \cup {x})
    BY FS_Subset DEF NumbersOn
  <2>2. IsFiniteSet(S \cup (s \cup {x}))
    BY <2>1, FS_Union DEF NumbersOn
  <2>3. NumbersOn(g, s \cup {x}) /\ NumbersOn(g, S \cup (s \cup {x}))
    BY <2>1, <2>2 DEF NumbersOn
  <2>4. /\ SumFunctionOnSet(g, s \cup {x}) = SumFunctionOnSet(g, s) + g[x]
        /\ SumFunctionOnSet(g, s) \in Int /\ g[x] \in Int
    BY <2>3, SumMore
  <2>5. S \cup (s \cup {x}) = (S \cup s) \cup {x} /\ x \notin S \cup s
    OBVIOUS
  <2>6. SumFunctionOnSet(g, (S \cup s) \cup {x}) = SumFunctionOnSet(g, S \cup s) + g[x]
    BY <2>3, <2>5, SumMore
  <2>7. SumFunctionOnSet(g, S \cup s) = SumFunctionOnSet(g, S) + SumFunctionOnSet(g, s)
    OBVIOUS
  <2>8. SumFunctionOnSet(g, S \cup (s \cup {x})) = (SumFunctionOnSet(g, S) + SumFunctionOnSet(g, s)) + g[x]
    BY <2>5, <2>6, <2>7
  <2>9. SumFunctionOnSet(g, S \cup (s \cup {x})) = SumFunctionOnSet(g, S) + SumFunctionOnSet(g, s \cup {x})
    BY <1>0, <2>4, <2>8
  <2> QED BY <2>9
<1>3. P \in SUBSET (SUBSET T)
  OBVIOUS
<1> HIDE DEF P
<1>4. T \in P
  BY <1>1, <1>2, <1>3, SetInduction DEF NumbersOn
<1> QED BY <1>4 DEF P

\* A part and what is left of the set add up to the set.
LEMMA SumSplit ==
    ASSUME NEW S, NEW g, NumbersOn(g, S), NEW T \in SUBSET S
    PROVE  /\ SumFunctionOnSet(g, S) = SumFunctionOnSet(g, T) + SumFunctionOnSet(g, S \ T)
           /\ NumbersOn(g, T) /\ NumbersOn(g, S \ T)
           /\ SumFunctionOnSet(g, T) \in Int /\ SumFunctionOnSet(g, S \ T) \in Int
<1>1. NumbersOn(g, T) /\ NumbersOn(g, S \ T)
  BY FS_Subset DEF NumbersOn
<1>2. S = T \cup (S \ T) /\ T \cap (S \ T) = {}
  OBVIOUS
<1>3. SumFunctionOnSet(g, T \cup (S \ T)) = SumFunctionOnSet(g, T) + SumFunctionOnSet(g, S \ T)
  BY <1>1, <1>2, SumUnion
<1> QED BY <1>1, <1>2, <1>3, SumInt

\* What a set adds up to part by part: part says which part a member is in.
LEMMA SumParts ==
    ASSUME NEW S, NEW g, NumbersOn(g, S), NEW K, IsFiniteSet(K),
           NEW part, \A x \in S : part[x] \in K
    PROVE  SumFunctionOnSet(g, S) =
               SumFunctionOnSet([k \in K |-> SumFunctionOnSet(g, {x \in S : part[x] = k})], K)
<1> DEFINE h == [k \in K |-> SumFunctionOnSet(g, {x \in S : part[x] = k})]
<1> DEFINE In(L) == {x \in S : part[x] \in L}
<1> DEFINE P == {L \in SUBSET K : SumFunctionOnSet(g, In(L)) = SumFunctionOnSet(h, L)}
<1>0. \A s \in SUBSET S : NumbersOn(g, s) /\ SumFunctionOnSet(g, s) \in Int
  BY SumSplit
<1>1. {} \in P
  <2>1. In({}) = {}
    OBVIOUS
  <2> HIDE DEF h
  <2> QED BY <2>1, SumEmpty
<1>2. NumbersOn(h, K)
  BY <1>0 DEF NumbersOn
<1>3. \A L \in SUBSET K : NumbersOn(h, L)
  <2> HIDE DEF h
  <2> QED BY <1>2, SumSplit
<1>4. ASSUME NEW L \in P, NEW k \in K \ L
      PROVE  L \cup {k} \in P
  <2> DEFINE Added == {x \in S : part[x] = k}
  <2>1. h[k] = SumFunctionOnSet(g, Added)
    OBVIOUS
  <2>2. In(L \cup {k}) = In(L) \cup Added /\ In(L) \cap Added = {}
    OBVIOUS
  <2>3. In(L) \in SUBSET S /\ Added \in SUBSET S
    OBVIOUS
  <2>4. SumFunctionOnSet(g, In(L)) = SumFunctionOnSet(h, L)
    OBVIOUS
  <2> HIDE DEF In, Added, h
  <2>5. SumFunctionOnSet(g, In(L) \cup Added) = SumFunctionOnSet(g, In(L)) + SumFunctionOnSet(g, Added)
    BY <1>0, <2>2, <2>3, SumUnion
  <2>6. SumFunctionOnSet(h, L \cup {k}) = SumFunctionOnSet(h, L) + h[k]
    <3>1. L \cup {k} \in SUBSET K /\ k \notin L
      OBVIOUS
    <3> HIDE DEF P
    <3> QED BY <1>3, <3>1, SumMore
  <2>7. SumFunctionOnSet(g, In(L \cup {k})) = SumFunctionOnSet(h, L \cup {k})
    BY <2>1, <2>2, <2>4, <2>5, <2>6
  <2> QED BY <2>7
<1>5. P \in SUBSET (SUBSET K)
  OBVIOUS
<1>6. K \in P
  <2> HIDE DEF P
  <2> QED BY <1>1, <1>4, <1>5, SetInduction
<1>7. In(K) = S
  OBVIOUS
<1> HIDE DEF h, In
<1>8. SumFunctionOnSet(g, S) = SumFunctionOnSet(h, K)
  BY <1>6, <1>7
<1> QED BY <1>8 DEF h

\* The sum of one number is that number.
LEMMA SumOne ==
    ASSUME NEW x, NEW g, g[x] \in Int
    PROVE  SumFunctionOnSet(g, {x}) = g[x]
<1>1. NumbersOn(g, {} \cup {x})
  BY FS_Singleton DEF NumbersOn
<1>2. SumFunctionOnSet(g, {} \cup {x}) = SumFunctionOnSet(g, {}) + g[x]
  BY <1>1, SumMore
<1>3. {} \cup {x} = {x}
  OBVIOUS
<1> QED BY <1>2, <1>3, SumEmpty

\* Adding up the same numbers under other names.
LEMMA SumRenamed ==
    ASSUME NEW S, NEW T, NEW g, NEW h, NEW name, NumbersOn(g, S), IsFiniteSet(T),
           \A x \in S : name[x] \in T /\ h[name[x]] = g[x],
           \A y \in T : \E x \in S : name[x] = y,
           \A x, y \in S : name[x] = name[y] => x = y
    PROVE  SumFunctionOnSet(h, T) = SumFunctionOnSet(g, S)
<1> DEFINE f == [y \in T |-> SumFunctionOnSet(g, {x \in S : name[x] = y})]
<1>1. SumFunctionOnSet(g, S) = SumFunctionOnSet(f, T)
  BY SumParts
<1>2. ASSUME NEW y \in T
      PROVE  f[y] = h[y] /\ f[y] \in Int
  <2>1. PICK x \in S : name[x] = y
    OBVIOUS
  <2>2. {z \in S : name[z] = y} = {x}
    BY <2>1
  <2>3. g[x] \in Int /\ h[y] = g[x]
    BY <2>1 DEF NumbersOn
  <2>4. SumFunctionOnSet(g, {x}) = g[x]
    BY <2>3, SumOne
  <2> QED BY <2>2, <2>3, <2>4
<1> HIDE DEF f
<1>3. NumbersOn(f, T) /\ \A y \in T : h[y] = f[y]
  BY <1>2 DEF NumbersOn
<1>4. SumFunctionOnSet(h, T) = SumFunctionOnSet(f, T)
  BY <1>3, SumSame
<1> QED BY <1>1, <1>4

-----------------------------------------------------------------------------
(* The sum of a sequence, as a recursive function adds it up.              *)

IsAList(list) == list \in Seq(Range(list))

\* f has the sums of the first n members, for every n up to k.
SumsOf(f, s, k) ==
    f = [n \in 0 .. k |-> IF n = 0 THEN 0 ELSE f[n - 1] + s[n]]

\* The recursion on a sequence has a solution as well.
LEMMA SumsAreDefined ==
    ASSUME NEW s, NEW k \in Nat
    PROVE  \E f : SumsOf(f, s, k)
<1> DEFINE P == {i \in Nat : \E f : SumsOf(f, s, i)}
<1>1. 0 \in P
  <2>1. SumsOf([n \in 0 .. 0 |-> 0], s, 0)
    BY DEF SumsOf
  <2> QED BY <2>1
<1>2. ASSUME NEW i \in P
      PROVE  i + 1 \in P
  <2>1. PICK f : SumsOf(f, s, i)
    OBVIOUS
  <2> DEFINE g == [n \in 0 .. i + 1 |-> IF n = i + 1 THEN f[i] + s[i + 1] ELSE f[n]]
  <2>2. ASSUME NEW n \in 0 .. i + 1
        PROVE  g[n] = IF n = 0 THEN 0 ELSE g[n - 1] + s[n]
    <3>1. CASE n = i + 1
      <4>1. n # 0 /\ g[n - 1] = f[i] /\ g[n] = f[i] + s[n]
        BY <3>1
      <4> HIDE DEF g
      <4> QED BY <4>1
    <3>2. CASE n \in 0 .. i
      <4>1. f[n] = IF n = 0 THEN 0 ELSE f[n - 1] + s[n]
        BY <2>1, <3>2 DEF SumsOf
      <4>2. g[n] = f[n] /\ (n # 0 => g[n - 1] = f[n - 1])
        BY <3>2
      <4> HIDE DEF g
      <4> QED BY <4>1, <4>2
    <3> QED BY <3>1, <3>2
  <2>3. g = [n \in 0 .. i + 1 |-> IF n = 0 THEN 0 ELSE g[n - 1] + s[n]]
    BY <2>2
  <2>4. SumsOf(g, s, i + 1)
    <3> HIDE DEF g
    <3> QED BY <2>3 DEF SumsOf
  <2> QED BY <2>4
<1>3. P = Nat
  <2> HIDE DEF P
  <2>1. P \in SUBSET Nat
    BY DEF P
  <2> QED BY <1>1, <1>2, <2>1, NatSetInduction
<1> QED BY <1>3

-----------------------------------------------------------------------------
(* The sum of a sequence.                                                  *)

\* The sum of a list is the sum over its positions.
LEMMA SumSeqIsSum ==
    ASSUME NEW s, s \in Seq(Int)
    PROVE  SumSeq(s) = SumFunctionOnSet(s, 1 .. Len(s))
<1> DEFINE sum == CHOOSE f : SumsOf(f, s, Len(s))
<1>0. Len(s) \in Nat
  OBVIOUS
<1>1. SumsOf(sum, s, Len(s))
  BY <1>0, SumsAreDefined
<1>2. SumSeq(s) = sum[Len(s)]
  BY DEF SumSeq, SumsOf
<1> HIDE DEF sum
<1> DEFINE P == {n \in Nat : n <= Len(s) => sum[n] = SumFunctionOnSet(s, 1 .. n)}
<1>3. 0 \in P
  <2>1. sum[0] = 0
    BY <1>0, <1>1 DEF SumsOf
  <2>2. 1 .. 0 = {}
    OBVIOUS
  <2> QED BY <2>1, <2>2, SumEmpty
<1>4. ASSUME NEW n \in P
      PROVE  n + 1 \in P
  <2> SUFFICES ASSUME n + 1 <= Len(s) PROVE sum[n + 1] = SumFunctionOnSet(s, 1 .. n + 1)
    OBVIOUS
  <2>1. n + 1 \in 0 .. Len(s) /\ n + 1 # 0 /\ (n + 1) - 1 = n /\ sum[n] = SumFunctionOnSet(s, 1 .. n)
    BY <1>0
  <2>2. sum[n + 1] = sum[n] + s[n + 1]
    BY <1>1, <2>1 DEF SumsOf
  <2>3. (1 .. n) \cup {n + 1} = 1 .. n + 1 /\ n + 1 \notin 1 .. n
    OBVIOUS
  <2>4. 1 \in Int /\ n + 1 \in Int
    OBVIOUS
  <2>5. IsFiniteSet(1 .. n + 1)
    BY <2>4, FS_Interval
  <2>6. NumbersOn(s, 1 .. n + 1)
    BY <2>5 DEF NumbersOn
  <2>7. SumFunctionOnSet(s, (1 .. n) \cup {n + 1}) = SumFunctionOnSet(s, 1 .. n) + s[n + 1]
    <3> DEFINE i == n + 1
    <3> DEFINE before == 1 .. n
    <3>1. NumbersOn(s, before \cup {i}) /\ i \notin before
      BY <2>3, <2>6
    <3> HIDE DEF i, before, P
    <3>2. SumFunctionOnSet(s, before \cup {i}) = SumFunctionOnSet(s, before) + s[i]
      BY <3>1, SumMore
    <3> QED BY <3>2 DEF i, before
  <2> QED BY <2>1, <2>2, <2>3, <2>7
<1>5. P = Nat
  <2> HIDE DEF P
  <2>1. P \in SUBSET Nat
    BY DEF P
  <2> QED BY <1>3, <1>4, <2>1, NatSetInduction
<1> QED BY <1>0, <1>2, <1>5

-----------------------------------------------------------------------------
(* Books that are sound.                                                   *)

\* A line of a known account, not deleted, on one of two sides.
SoundLine(l, ids) ==
    l.account \in ids /\ l.debit_credit \in {"debit", "credit"} /\ l.amount \in Int /\ ~l.is_deleted

\* A balanced journal, dated within the calendar.
SoundEntry(j, ids) ==
    /\ IsAList(j.lines) /\ \A l \in DOMAIN j.lines : SoundLine(j.lines[l], ids)
    /\ Side(j.lines, "debit") = Side(j.lines, "credit")
    /\ j.transaction_date \in 0 .. LastDay(12 * Years - 1)

\* Books with the accounts their lines name.
SoundBook(book) ==
    /\ IsFiniteSet(DOMAIN book.accounts)
    /\ \A a \in DOMAIN book.accounts : book.accounts[a].debit_credit \in {"debit", "credit"}
    /\ IsAList(book.journals)
    /\ \A i \in DOMAIN book.journals : SoundEntry(book.journals[i], DOMAIN book.accounts)

\* The lines of some journals, as CountedLines names them.
LinesOf(book, J) == UNION {{i} \X DOMAIN book.journals[i].lines : i \in J}
AllLines(book) == LinesOf(book, DOMAIN book.journals)

Amounts(book) == [n \in AllLines(book) |-> LineOf(book, n).amount]

\* What is debited counts up, what is credited counts down.
Signs(book) ==
    [n \in AllLines(book) |-> IF LineOf(book, n).debit_credit = "debit"
                              THEN LineOf(book, n).amount ELSE -LineOf(book, n).amount]

\* What a line of a sound book is, and what it counts for.
LEMMA ALine ==
    ASSUME NEW book, SoundBook(book), NEW n \in AllLines(book)
    PROVE  /\ n[1] \in DOMAIN book.journals /\ n[2] \in DOMAIN book.journals[n[1]].lines
           /\ n = <<n[1], n[2]>>
           /\ SoundLine(LineOf(book, n), DOMAIN book.accounts)
           /\ Amounts(book)[n] \in Int /\ Amounts(book)[n] = LineOf(book, n).amount
           /\ Signs(book)[n] \in Int
           /\ LineOf(book, n).debit_credit = "debit" => Signs(book)[n] = Amounts(book)[n]
           /\ LineOf(book, n).debit_credit = "credit" => Signs(book)[n] = -Amounts(book)[n]
<1>1. /\ n[1] \in DOMAIN book.journals /\ n[2] \in DOMAIN book.journals[n[1]].lines
      /\ n = <<n[1], n[2]>>
  BY DEF AllLines, LinesOf
<1>2. SoundLine(LineOf(book, n), DOMAIN book.accounts)
  BY <1>1 DEF SoundBook, SoundEntry, LineOf
<1> QED BY <1>1, <1>2 DEF SoundLine, Amounts, Signs

\* The lines can be added up.
LEMMA LinesAreFinite ==
    ASSUME NEW book, SoundBook(book)
    PROVE  /\ NumbersOn(Amounts(book), AllLines(book))
           /\ NumbersOn(Signs(book), AllLines(book))
<1> DEFINE ids == DOMAIN book.journals
<1> DEFINE Of(i) == {i} \X DOMAIN book.journals[i].lines
<1> DEFINE sets == {Of(i) : i \in ids}
<1>1. IsFiniteSet(ids)
  <2>1. Len(book.journals) \in Nat /\ ids = 1 .. Len(book.journals)
    BY DEF SoundBook, IsAList
  <2>2. 1 \in Int /\ Len(book.journals) \in Int
    BY <2>1
  <2> QED BY <2>1, <2>2, FS_Interval
<1>2. ASSUME NEW i \in ids
      PROVE  IsFiniteSet(Of(i))
  <2> DEFINE lines == book.journals[i].lines
  <2>1. Len(lines) \in Nat /\ DOMAIN lines = 1 .. Len(lines)
    BY DEF SoundBook, SoundEntry, IsAList
  <2>2. 1 \in Int /\ Len(lines) \in Int
    BY <2>1
  <2>3. IsFiniteSet(DOMAIN lines)
    BY <2>1, <2>2, FS_Interval
  <2> HIDE DEF lines
  <2>4. IsFiniteSet({i} \X DOMAIN lines)
    BY <2>3, FS_Singleton, FS_Product
  <2> QED BY <2>4 DEF lines
<1>3. IsFiniteSet(sets)
  <2> DEFINE f == [i \in ids |-> Of(i)]
  <2>1. f \in Surjection(ids, sets)
    BY DEF Surjection
  <2> HIDE DEF f, sets, ids
  <2> QED BY <1>1, <2>1, FS_Surjection
<1>4. \A s \in sets : IsFiniteSet(s)
  BY <1>2
<1>5. IsFiniteSet(UNION sets)
  <2> HIDE DEF sets
  <2> QED BY <1>3, <1>4, FS_UNION
<1>6. AllLines(book) = UNION sets
  BY DEF AllLines, LinesOf
<1>7. IsFiniteSet(AllLines(book))
  BY <1>5, <1>6
<1> QED BY <1>7, ALine DEF NumbersOn

-----------------------------------------------------------------------------
(* What is debited and what is credited.                                   *)

\* So can any of them.
LEMMA PartOfLines ==
    ASSUME NEW book, SoundBook(book), NEW L \in SUBSET AllLines(book)
    PROVE  /\ IsFiniteSet(L)
           /\ NumbersOn(Amounts(book), L) /\ NumbersOn(Signs(book), L)
           /\ SumFunctionOnSet(Amounts(book), L) \in Int /\ SumFunctionOnSet(Signs(book), L) \in Int
<1>1. NumbersOn(Amounts(book), AllLines(book)) /\ NumbersOn(Signs(book), AllLines(book))
  BY LinesAreFinite
<1>2. NumbersOn(Amounts(book), L)
  BY <1>1, SumSplit
<1>3. NumbersOn(Signs(book), L)
  BY <1>1, SumSplit
<1> QED BY <1>2, <1>3, SumInt DEF NumbersOn

\* The lines of one journal add up to nothing.
LEMMA JournalBalances ==
    ASSUME NEW book, SoundBook(book), NEW i \in DOMAIN book.journals
    PROVE  SumFunctionOnSet(Signs(book), {n \in AllLines(book) : n[1] = i}) = 0
<1> DEFINE lines == book.journals[i].lines
<1> DEFINE On(side) == [l \in DOMAIN lines |-> IF lines[l].debit_credit = side THEN lines[l].amount ELSE 0]
<1> DEFINE sign == [l \in DOMAIN lines |-> IF lines[l].debit_credit = "debit"
                                           THEN lines[l].amount ELSE -lines[l].amount]
<1> DEFINE L == {n \in AllLines(book) : n[1] = i}
<1> DEFINE name == [n \in L |-> n[2]]
<1>1. /\ IsAList(lines) /\ \A l \in DOMAIN lines : SoundLine(lines[l], DOMAIN book.accounts)
      /\ Side(lines, "debit") = Side(lines, "credit")
  BY DEF SoundBook, SoundEntry
<1>2. Len(lines) \in Nat /\ DOMAIN lines = 1 .. Len(lines)
  BY <1>1 DEF IsAList
<1>3. /\ On("debit") \in Seq(Int) /\ On("credit") \in Seq(Int)
      /\ Len(On("debit")) = Len(lines) /\ Len(On("credit")) = Len(lines)
  BY <1>1, <1>2 DEF SoundLine
<1>4. /\ Side(lines, "debit") = SumFunctionOnSet(On("debit"), DOMAIN lines)
      /\ Side(lines, "credit") = SumFunctionOnSet(On("credit"), DOMAIN lines)
  <2>1. Side(lines, "debit") = SumSeq(On("debit")) /\ Side(lines, "credit") = SumSeq(On("credit"))
    BY DEF Side
  <2> QED BY <1>2, <1>3, <2>1, SumSeqIsSum
<1>5. IsFiniteSet(DOMAIN lines)
  <2>1. 1 \in Int /\ Len(lines) \in Int
    BY <1>2
  <2> QED BY <1>2, <2>1, FS_Interval
<1>6. NumbersOn(On("debit"), DOMAIN lines) /\ NumbersOn(On("credit"), DOMAIN lines)
  BY <1>1, <1>5 DEF NumbersOn, SoundLine
<1>7. \A l \in DOMAIN lines : sign[l] = On("debit")[l] - On("credit")[l] /\ sign[l] \in Int
  BY <1>1 DEF SoundLine
<1>8. SumFunctionOnSet(sign, DOMAIN lines) = 0
  <2>1. SumFunctionOnSet(On("debit"), DOMAIN lines) \in Int
    BY <1>6, SumInt
  <2> DEFINE d == On("debit")
  <2> DEFINE c == On("credit")
  <2>2. /\ NumbersOn(d, DOMAIN lines) /\ NumbersOn(c, DOMAIN lines)
        /\ \A l \in DOMAIN lines : sign[l] = d[l] - c[l]
    BY <1>6, <1>7
  <2>3. SumFunctionOnSet(d, DOMAIN lines) = SumFunctionOnSet(c, DOMAIN lines)
        /\ SumFunctionOnSet(d, DOMAIN lines) \in Int
    BY <1>1, <1>4, <2>1
  <2> HIDE DEF d, c, sign, lines
  <2>4. SumFunctionOnSet(sign, DOMAIN lines) = SumFunctionOnSet(d, DOMAIN lines) - SumFunctionOnSet(c, DOMAIN lines)
    BY <2>2, SumMinus
  <2> QED BY <2>3, <2>4
<1>9. /\ L \in SUBSET AllLines(book)
      /\ \A n \in L : name[n] \in DOMAIN lines /\ sign[name[n]] = Signs(book)[n]
      /\ \A l \in DOMAIN lines : \E n \in L : name[n] = l
      /\ \A n, m \in L : name[n] = name[m] => n = m
  <2>1. \A n \in L : n[2] \in DOMAIN lines /\ LineOf(book, n) = lines[n[2]] /\ n = <<i, n[2]>>
    BY ALine DEF LineOf
  <2>2. \A l \in DOMAIN lines : <<i, l>> \in L /\ name[<<i, l>>] = l
    BY DEF AllLines, LinesOf
  <2> QED BY <2>1, <2>2 DEF Signs
<1>10. NumbersOn(Signs(book), L)
  BY <1>9, PartOfLines
<1> HIDE DEF sign, L, name, lines
<1>11. SumFunctionOnSet(sign, DOMAIN lines) = SumFunctionOnSet(Signs(book), L)
  BY <1>5, <1>9, <1>10, SumRenamed
<1> QED BY <1>8, <1>11 DEF L

\* And so do the lines of any journals.
LEMMA LinesBalance ==
    ASSUME NEW book, SoundBook(book), NEW J \in SUBSET DOMAIN book.journals
    PROVE  SumFunctionOnSet(Signs(book), {n \in AllLines(book) : n[1] \in J}) = 0
<1> DEFINE L == {n \in AllLines(book) : n[1] \in J}
<1> DEFINE part == [n \in L |-> n[1]]
<1> DEFINE sums == [i \in J |-> SumFunctionOnSet(Signs(book), {n \in L : part[n] = i})]
<1>1. IsFiniteSet(J)
  <2>1. Len(book.journals) \in Nat /\ DOMAIN book.journals = 1 .. Len(book.journals)
    BY DEF SoundBook, IsAList
  <2>2. 1 \in Int /\ Len(book.journals) \in Int
    BY <2>1
  <2>3. IsFiniteSet(1 .. Len(book.journals))
    BY <2>2, FS_Interval
  <2> QED BY <2>1, <2>3, FS_Subset
<1>2. NumbersOn(Signs(book), L)
  BY PartOfLines
<1>3. \A n \in L : part[n] \in J
  OBVIOUS
<1>4. \A i \in J : sums[i] = 0
  <2> TAKE i \in J
  <2>1. {n \in L : part[n] = i} = {n \in AllLines(book) : n[1] = i}
    OBVIOUS
  <2> QED BY <2>1, JournalBalances
<1> HIDE DEF L, part
<1>5. SumFunctionOnSet(Signs(book), L) = SumFunctionOnSet(sums, J)
  BY <1>1, <1>2, <1>3, SumParts
<1> HIDE DEF sums
<1> QED BY <1>1, <1>4, <1>5, SumZero DEF L

\* The journals that count, of some days.
Counted(book, start, end) ==
    {i \in DOMAIN book.journals :
        Counts(book.journals[i]) /\ book.journals[i].transaction_date \in start .. end}

\* The lines that a report counts are all the lines of the journals that count: they add up to nothing.
LEMMA CountedLinesAre ==
    ASSUME NEW book, SoundBook(book), NEW start, NEW end
    PROVE  /\ CountedLines(book, start, end) = {n \in AllLines(book) : n[1] \in Counted(book, start, end)}
           /\ CountedLines(book, start, end) \in SUBSET AllLines(book)
           /\ SumFunctionOnSet(Signs(book), CountedLines(book, start, end)) = 0
<1>1. \A n \in AllLines(book) : ~book.journals[n[1]].lines[n[2]].is_deleted
  BY ALine DEF SoundLine, LineOf
<1>2. CountedLines(book, start, end) = {n \in AllLines(book) : n[1] \in Counted(book, start, end)}
  BY <1>1, ALine DEF CountedLines, AllLines, LinesOf, Counted
<1> QED BY <1>2, LinesBalance DEF Counted

-----------------------------------------------------------------------------
(* The accounts.                                                           *)

\* The lines of an account, and the accounts of some lines.
OfAccount(book, L, a) == {n \in L : LineOf(book, n).account = a}

\* The balance of an account is what its lines add up to, debits less credits.
LEMMA AccountTotals ==
    ASSUME NEW book, SoundBook(book), NEW L \in SUBSET AllLines(book), NEW a
    PROVE  LET totals == DebitAndCredit(book, L, a)
           IN  /\ totals.debit \in Int /\ totals.credit \in Int
               /\ Balance(totals) = SumFunctionOnSet(Signs(book), OfAccount(book, L, a))
<1> DEFINE On(side) == {n \in L : LineOf(book, n).account = a /\ LineOf(book, n).debit_credit = side}
<1>1. ASSUME NEW side
      PROVE  /\ AccountTotal(book, L, a, side) = SumFunctionOnSet(Amounts(book), On(side))
             /\ AccountTotal(book, L, a, side) \in Int
  <2> DEFINE T == On(side)
  <2> DEFINE g == [n \in T |-> LineOf(book, n).amount]
  <2>1. T \in SUBSET AllLines(book)
    OBVIOUS
  <2>2. AccountTotal(book, L, a, side) = SumFunctionOnSet(g, T)
    BY DEF AccountTotal, SumOver, SumFunction
  <2>3. NumbersOn(Amounts(book), T) /\ SumFunctionOnSet(Amounts(book), T) \in Int
    BY <2>1, PartOfLines
  <2>4. \A n \in T : g[n] = Amounts(book)[n]
    BY <2>1, ALine
  <2> HIDE DEF g, T
  <2>5. SumFunctionOnSet(g, T) = SumFunctionOnSet(Amounts(book), T)
    BY <2>3, <2>4, SumSame
  <2> QED BY <2>2, <2>3, <2>5 DEF T
<1> DEFINE D == On("debit")
<1> DEFINE C == On("credit")
<1>2. /\ D \in SUBSET AllLines(book) /\ C \in SUBSET AllLines(book)
      /\ D \cap C = {} /\ D \cup C = OfAccount(book, L, a)
  <2>1. \A n \in L : LineOf(book, n).debit_credit \in {"debit", "credit"}
    BY ALine DEF SoundLine
  <2> QED BY <2>1 DEF OfAccount
<1>3. /\ \A n \in D : Signs(book)[n] = Amounts(book)[n]
      /\ \A n \in C : Signs(book)[n] = -Amounts(book)[n]
  BY ALine
<1>4. /\ AccountTotal(book, L, a, "debit") = SumFunctionOnSet(Amounts(book), D)
      /\ AccountTotal(book, L, a, "credit") = SumFunctionOnSet(Amounts(book), C)
  BY <1>1
<1> HIDE DEF D, C
<1>5. /\ NumbersOn(Amounts(book), D) /\ NumbersOn(Amounts(book), C)
      /\ NumbersOn(Signs(book), D) /\ NumbersOn(Signs(book), C)
  BY <1>2, PartOfLines
<1>6. SumFunctionOnSet(Signs(book), D) = SumFunctionOnSet(Amounts(book), D)
  BY <1>3, <1>5, SumSame
<1>7. SumFunctionOnSet(Signs(book), C) = -SumFunctionOnSet(Amounts(book), C)
  BY <1>3, <1>5, SumNegated
<1>8. SumFunctionOnSet(Signs(book), D \cup C)
        = SumFunctionOnSet(Signs(book), D) + SumFunctionOnSet(Signs(book), C)
  BY <1>2, <1>5, SumUnion
<1>9. SumFunctionOnSet(Amounts(book), D) \in Int /\ SumFunctionOnSet(Amounts(book), C) \in Int
  BY <1>5, SumInt
<1> QED BY <1>2, <1>4, <1>6, <1>7, <1>8, <1>9 DEF Balance, DebitAndCredit

AccountsOf(book, L) == {LineOf(book, n).account : n \in L}

\* An account without lines has no balance.
LEMMA NoLinesNoBalance ==
    ASSUME NEW book, SoundBook(book), NEW L \in SUBSET AllLines(book), NEW a, a \notin AccountsOf(book, L)
    PROVE  Balance(DebitAndCredit(book, L, a)) = 0
<1>1. OfAccount(book, L, a) = {}
  BY DEF OfAccount, AccountsOf
<1>2. Balance(DebitAndCredit(book, L, a)) = SumFunctionOnSet(Signs(book), OfAccount(book, L, a))
  BY AccountTotals
<1> QED BY <1>1, <1>2, SumEmpty

\* The balances of the accounts, all of those with lines among them, add up to nothing.
LEMMA BalancesBalance ==
    ASSUME NEW book, SoundBook(book), NEW start, NEW end, NEW A, IsFiniteSet(A),
           AccountsOf(book, CountedLines(book, start, end)) \subseteq A
    PROVE  LET balance == [a \in A |-> Balance(DebitAndCredit(book, CountedLines(book, start, end), a))]
           IN  NumbersOn(balance, A) /\ SumFunctionOnSet(balance, A) = 0
<1> DEFINE L == CountedLines(book, start, end)
<1> DEFINE balance == [a \in A |-> Balance(DebitAndCredit(book, L, a))]
<1> DEFINE part == [n \in L |-> LineOf(book, n).account]
<1> DEFINE sums == [a \in A |-> SumFunctionOnSet(Signs(book), {n \in L : part[n] = a})]
<1>1. L \in SUBSET AllLines(book) /\ SumFunctionOnSet(Signs(book), L) = 0
  BY CountedLinesAre
<1>2. \A n \in L : part[n] \in A
  BY DEF AccountsOf
<1>3. \A a \in A : balance[a] = sums[a] /\ sums[a] \in Int
  <2> TAKE a \in A
  <2>1. {n \in L : part[n] = a} = OfAccount(book, L, a) /\ OfAccount(book, L, a) \in SUBSET AllLines(book)
    BY <1>1 DEF OfAccount
  <2>2. Balance(DebitAndCredit(book, L, a)) = SumFunctionOnSet(Signs(book), OfAccount(book, L, a))
    BY <1>1, AccountTotals
  <2>3. SumFunctionOnSet(Signs(book), OfAccount(book, L, a)) \in Int
    BY <2>1, PartOfLines
  <2> QED BY <2>1, <2>2, <2>3
<1>4. NumbersOn(Signs(book), L)
  BY <1>1, PartOfLines
<1> HIDE DEF L, part, balance
<1>5. SumFunctionOnSet(Signs(book), L) = SumFunctionOnSet(sums, A)
  BY <1>2, <1>4, SumParts
<1> HIDE DEF sums
<1>6. NumbersOn(sums, A) /\ NumbersOn(balance, A)
  BY <1>3 DEF NumbersOn
<1>7. SumFunctionOnSet(balance, A) = SumFunctionOnSet(sums, A)
  BY <1>3, <1>6, SumSame
<1> QED BY <1>1, <1>5, <1>6, <1>7 DEF L, balance

-----------------------------------------------------------------------------
(* The check of the ledger, the months and the trial balance.              *)

\* check_ledger adds up each journal by itself, and finds it balanced.
LEMMA LedgerIsOk ==
    ASSUME NEW book, SoundBook(book), NEW day
    PROVE  check_ledger(book, day).status = "ok"
<1> DEFINE Lines(i) == book.journals[i].lines
<1> DEFINE On(i, side) ==
        SumSeq([l \in DOMAIN Lines(i) |->
            IF Lines(i)[l].debit_credit = side /\ ~Lines(i)[l].is_deleted THEN Lines(i)[l].amount ELSE 0])
<1>1. ASSUME NEW i \in DOMAIN book.journals
      PROVE  On(i, "debit") = On(i, "credit")
  <2>1. /\ \A l \in DOMAIN Lines(i) : ~Lines(i)[l].is_deleted
        /\ Side(Lines(i), "debit") = Side(Lines(i), "credit")
    BY DEF SoundBook, SoundEntry, SoundLine
  <2>2. On(i, "debit") = Side(Lines(i), "debit")
    <3>1. [l \in DOMAIN Lines(i) |-> IF Lines(i)[l].debit_credit = "debit" /\ ~Lines(i)[l].is_deleted
                                     THEN Lines(i)[l].amount ELSE 0]
          = [l \in DOMAIN Lines(i) |-> IF Lines(i)[l].debit_credit = "debit" THEN Lines(i)[l].amount ELSE 0]
      BY <2>1
    <3> QED BY <3>1 DEF Side
  <2>3. On(i, "credit") = Side(Lines(i), "credit")
    <3>1. [l \in DOMAIN Lines(i) |-> IF Lines(i)[l].debit_credit = "credit" /\ ~Lines(i)[l].is_deleted
                                     THEN Lines(i)[l].amount ELSE 0]
          = [l \in DOMAIN Lines(i) |-> IF Lines(i)[l].debit_credit = "credit" THEN Lines(i)[l].amount ELSE 0]
      BY <2>1
    <3> QED BY <3>1 DEF Side
  <2> QED BY <2>1, <2>2, <2>3
<1> DEFINE checked == {i \in DOMAIN book.journals :
                          Counts(book.journals[i]) /\ book.journals[i].transaction_date <= day}
<1> DEFINE wrong == {i \in checked : On(i, "debit") # On(i, "credit")}
<1>2. wrong = {}
  <2> HIDE DEF On
  <2> QED BY <1>1
<1>3. check_ledger(book, day).status = IF wrong = {} THEN "ok" ELSE "imbalanced"
  BY DEF check_ledger
<1> HIDE DEF wrong
<1> QED BY <1>2, <1>3

\* If no account with lines in it was deleted, a month is balanced.
LEMMA MonthIsBalanced ==
    ASSUME NEW book, SoundBook(book), NEW start, NEW end,
           \A a \in AccountsOf(book, CountedLines(book, start, end)) : ~book.accounts[a].is_deleted
    PROVE  get_monthly_balances(book, start, end).is_balanced
<1> DEFINE L == CountedLines(book, start, end)
<1> DEFINE A == AccountsOf(book, L)
<1> DEFINE totals == [a \in A |-> DebitAndCredit(book, L, a)]
<1> DEFINE debit == [a \in A |-> totals[a].debit]
<1> DEFINE credit == [a \in A |-> totals[a].credit]
<1> DEFINE balance == [a \in A |-> Balance(DebitAndCredit(book, L, a))]
<1>1. L \in SUBSET AllLines(book)
  BY CountedLinesAre
<1>2. IsFiniteSet(A)
  <2>1. IsFiniteSet(DOMAIN book.accounts)
    BY DEF SoundBook
  <2>2. A \subseteq DOMAIN book.accounts
    BY <1>1, ALine DEF AccountsOf, SoundLine
  <2> QED BY <2>1, <2>2, FS_Subset
<1>3. NumbersOn(balance, A) /\ SumFunctionOnSet(balance, A) = 0
  BY <1>2, BalancesBalance
<1>4. \A a \in A : debit[a] \in Int /\ credit[a] \in Int /\ balance[a] = debit[a] - credit[a]
  BY <1>1, AccountTotals DEF Balance
<1>5. NumbersOn(debit, A) /\ NumbersOn(credit, A)
  BY <1>2, <1>4 DEF NumbersOn
<1>6. account_totals_for_period(book, start, end) = totals
  BY DEF account_totals_for_period, AccountsOf
<1>7. {a \in DOMAIN totals : ~book.accounts[a].is_deleted} = A
  OBVIOUS
<1>8. SumFunctionOnSet(debit, A) = SumFunctionOnSet(credit, A)
          => get_monthly_balances(book, start, end).is_balanced
  <2> HIDE DEF totals, A
  <2> QED BY <1>6, <1>7 DEF get_monthly_balances, SumOver, SumFunction
<1> HIDE DEF debit, credit, balance, A
<1>9. SumFunctionOnSet(balance, A) = SumFunctionOnSet(debit, A) - SumFunctionOnSet(credit, A)
  BY <1>4, <1>5, SumMinus
<1>10. SumFunctionOnSet(debit, A) \in Int /\ SumFunctionOnSet(credit, A) \in Int
  BY <1>5, SumInt
<1> QED BY <1>3, <1>8, <1>9, <1>10

\* What the reports show, if every account with postings is listed.
LEMMA ListedBalances ==
    ASSUME NEW book, SoundBook(book), NEW day,
           AccountsOf(book, CountedLines(book, 0, day)) \subseteq Listed(book)
    PROVE  LET rows == _get_account_balances(book, day)
               balance == [a \in Listed(book) |-> Balance(rows[a])]
           IN  /\ IsFiniteSet(Listed(book))
               /\ NumbersOn(balance, Listed(book)) /\ SumFunctionOnSet(balance, Listed(book)) = 0
               /\ \A a \in Listed(book) :
                     /\ rows[a] = DebitAndCredit(book, CountedLines(book, 0, day), a)
                     /\ rows[a].debit \in Int /\ rows[a].credit \in Int
                     /\ a \notin AccountsOf(book, CountedLines(book, 0, day)) => balance[a] = 0
<1> DEFINE L == CountedLines(book, 0, day)
<1> DEFINE rows == _get_account_balances(book, day)
<1>1. \A a \in Listed(book) : rows[a] = DebitAndCredit(book, L, a)
  BY DEF _get_account_balances
<1>2. IsFiniteSet(Listed(book))
  BY FS_Subset DEF SoundBook, Listed
<1>3. L \in SUBSET AllLines(book)
  BY CountedLinesAre
<1>4. [a \in Listed(book) |-> Balance(rows[a])] = [a \in Listed(book) |-> Balance(DebitAndCredit(book, L, a))]
  BY <1>1
<1>5. /\ NumbersOn([a \in Listed(book) |-> Balance(rows[a])], Listed(book))
      /\ SumFunctionOnSet([a \in Listed(book) |-> Balance(rows[a])], Listed(book)) = 0
  <2>1. LET balance == [a \in Listed(book) |-> Balance(DebitAndCredit(book, L, a))]
        IN  NumbersOn(balance, Listed(book)) /\ SumFunctionOnSet(balance, Listed(book)) = 0
    BY <1>2, BalancesBalance
  <2> QED BY <1>4, <2>1
<1>6. \A a \in Listed(book) : rows[a].debit \in Int /\ rows[a].credit \in Int
  BY <1>1, <1>3, AccountTotals
<1>7. \A a \in Listed(book) : a \notin AccountsOf(book, L) => Balance(rows[a]) = 0
  BY <1>1, <1>3, NoLinesNoBalance
<1> HIDE DEF L, rows
<1> QED BY <1>1, <1>2, <1>5, <1>6, <1>7 DEF L, rows

\* Positive balances on the one side and negative ones on the other come to the same.
LEMMA TrialIsBalanced ==
    ASSUME NEW book, SoundBook(book), NEW day,
           AccountsOf(book, CountedLines(book, 0, day)) \subseteq Listed(book)
    PROVE  /\ get_trial_balance(book, day).is_balanced
           /\ export_trial_balance_csv(book, day).total_debit = export_trial_balance_csv(book, day).total_credit
<1> DEFINE A == Listed(book)
<1> DEFINE rows == _get_account_balances(book, day)
<1> DEFINE balance == [a \in A |-> Balance(rows[a])]
<1> DEFINE over == [a \in A |-> AtLeast(Balance(rows[a]), 0)]
<1> DEFINE under == [a \in A |-> AtLeast(-Balance(rows[a]), 0)]
<1> DEFINE debit == [a \in A |-> rows[a].debit]
<1> DEFINE credit == [a \in A |-> rows[a].credit]
<1>1. /\ IsFiniteSet(A) /\ NumbersOn(balance, A) /\ SumFunctionOnSet(balance, A) = 0
      /\ \A a \in A : rows[a].debit \in Int /\ rows[a].credit \in Int
  BY ListedBalances
<1>2. SumFunctionOnSet(over, A) = SumFunctionOnSet(under, A) => get_trial_balance(book, day).is_balanced
  BY DEF get_trial_balance, SumOver, SumFunction
<1>3. /\ export_trial_balance_csv(book, day).total_debit = SumFunctionOnSet(debit, A)
      /\ export_trial_balance_csv(book, day).total_credit = SumFunctionOnSet(credit, A)
  BY DEF export_trial_balance_csv, SumOver, SumFunction
<1> HIDE DEF A, rows
<1>4. \A a \in A : /\ debit[a] \in Int /\ credit[a] \in Int /\ balance[a] = debit[a] - credit[a]
                   /\ over[a] \in Int /\ under[a] \in Int /\ balance[a] = over[a] - under[a]
  BY <1>1 DEF Balance, AtLeast
<1>5. NumbersOn(debit, A) /\ NumbersOn(credit, A) /\ NumbersOn(over, A) /\ NumbersOn(under, A)
  BY <1>1, <1>4 DEF NumbersOn
<1> HIDE DEF debit, credit, over, under, balance
<1>6. SumFunctionOnSet(balance, A) = SumFunctionOnSet(debit, A) - SumFunctionOnSet(credit, A)
  BY <1>4, <1>5, SumMinus
<1>7. SumFunctionOnSet(balance, A) = SumFunctionOnSet(over, A) - SumFunctionOnSet(under, A)
  BY <1>4, <1>5, SumMinus
<1>8. /\ SumFunctionOnSet(debit, A) \in Int /\ SumFunctionOnSet(credit, A) \in Int
      /\ SumFunctionOnSet(over, A) \in Int /\ SumFunctionOnSet(under, A) \in Int
  BY <1>5, SumInt
<1> QED BY <1>1, <1>2, <1>3, <1>6, <1>7, <1>8

-----------------------------------------------------------------------------
(* The calendar.                                                           *)

\* No month is empty.
LEMMA MonthRange ==
    ASSUME NEW m
    PROVE  monthrange(m) \in 28 .. 31
BY DEF monthrange

\* The first days of the months, by the recursion that defines them.
LEMMA MonthsFollow ==
    /\ FirstDay[0] = 0
    /\ \A m \in Months : FirstDay[m + 1] = FirstDay[m] + monthrange(m)
<1> DEFINE k == 12 * Years
<1> DEFINE s == [n \in Nat |-> monthrange(n - 1)]
<1>0. k \in Nat
  BY BooksAssumption
<1> DEFINE first == CHOOSE f : f = [m \in 0 .. k |-> IF m = 0 THEN 0 ELSE f[m - 1] + monthrange(m - 1)]
<1>1. PICK f : SumsOf(f, s, k)
  BY <1>0, SumsAreDefined
<1>2. f = [m \in 0 .. k |-> IF m = 0 THEN 0 ELSE f[m - 1] + monthrange(m - 1)]
  <2>1. \A m \in 0 .. k : s[m] = monthrange(m - 1)
    BY <1>0
  <2> HIDE DEF s, k
  <2> QED BY <1>1, <2>1 DEF SumsOf
<1>3. first = [m \in 0 .. k |-> IF m = 0 THEN 0 ELSE first[m - 1] + monthrange(m - 1)]
  <2> HIDE DEF k
  <2> QED BY <1>2
<1>4. FirstDay = [m \in 0 .. k |-> first[m]]
  BY DEF FirstDay
<1> HIDE DEF first
<1>5. FirstDay[0] = 0
  BY <1>0, <1>3, <1>4
<1>6. ASSUME NEW m \in Months
      PROVE  FirstDay[m + 1] = FirstDay[m] + monthrange(m)
  <2>1. m \in 0 .. k /\ m + 1 \in 0 .. k /\ m + 1 # 0 /\ (m + 1) - 1 = m
    BY <1>0 DEF Months
  <2>2. first[m + 1] = first[m] + monthrange(m)
    BY <1>3, <2>1
  <2> QED BY <1>4, <2>1, <2>2
<1> QED BY <1>5, <1>6

\* They grow with the months.
LEMMA FirstDaysGrow ==
    /\ \A m \in 0 .. 12 * Years : FirstDay[m] \in Nat
    /\ \A m, n \in 0 .. 12 * Years : m < n => FirstDay[m] < FirstDay[n]
<1> DEFINE k == 12 * Years
<1>0. k \in Nat
  BY BooksAssumption
<1>1. \A m \in Nat : m < k => m \in Months /\ FirstDay[m + 1] = FirstDay[m] + monthrange(m)
  BY <1>0, MonthsFollow DEF Months
<1> HIDE DEF k
<1> DEFINE P == {n \in Nat : n <= k => /\ FirstDay[n] \in Nat
                                       /\ \A m \in 0 .. n - 1 : FirstDay[m] < FirstDay[n]}
<1>2. 0 \in P
  BY MonthsFollow
<1>3. ASSUME NEW n \in P
      PROVE  n + 1 \in P
  <2> SUFFICES ASSUME n + 1 <= k
               PROVE  /\ FirstDay[n + 1] \in Nat
                      /\ \A m \in 0 .. (n + 1) - 1 : FirstDay[m] < FirstDay[n + 1]
    OBVIOUS
  <2>1. /\ n \in Nat /\ n < k /\ FirstDay[n] \in Nat
        /\ \A m \in 0 .. n - 1 : FirstDay[m] < FirstDay[n]
    BY <1>0
  <2>2. FirstDay[n + 1] = FirstDay[n] + monthrange(n) /\ monthrange(n) \in 28 .. 31
    BY <1>1, <2>1, MonthRange
  <2>3. FirstDay[n + 1] \in Nat /\ FirstDay[n] < FirstDay[n + 1]
    BY <2>1, <2>2
  <2>4. ASSUME NEW m \in 0 .. (n + 1) - 1
        PROVE  FirstDay[m] < FirstDay[n + 1]
    <3>1. CASE m = n
      BY <2>3, <3>1
    <3>2. CASE m \in 0 .. n - 1
      <4>1. FirstDay[m] < FirstDay[n]
        BY <2>1, <3>2
      <4>2. FirstDay[m] \in Nat
        <5>1. \A i \in 0 .. n - 1 : FirstDay[i] \in Nat
          <6> DEFINE Q == {i \in Nat : i < k => FirstDay[i] \in Nat}
          <6>1. 0 \in Q
            BY MonthsFollow
          <6>2. ASSUME NEW i \in Q
                PROVE  i + 1 \in Q
            <7> SUFFICES ASSUME i + 1 < k PROVE FirstDay[i + 1] \in Nat
              OBVIOUS
            <7>1. i \in Nat /\ i < k /\ FirstDay[i] \in Nat
              BY <1>0
            <7> QED BY <1>1, <7>1, MonthRange
          <6>3. Q = Nat
            <7> HIDE DEF Q
            <7>1. Q \in SUBSET Nat
              BY DEF Q
            <7> QED BY <6>1, <6>2, <7>1, NatSetInduction
          <6> QED BY <1>0, <2>1, <6>3
        <5> QED BY <3>2, <5>1
      <4> QED BY <2>1, <2>3, <4>1, <4>2
    <3> QED BY <2>1, <3>1, <3>2
  <2> QED BY <2>3, <2>4
<1>4. P = Nat
  <2> HIDE DEF P
  <2>1. P \in SUBSET Nat
    BY DEF P
  <2> QED BY <1>2, <1>3, <2>1, NatSetInduction
<1> QED BY <1>0, <1>4 DEF k

\* Every day of the calendar is in one month.
LEMMA DaysHaveAMonth ==
    ASSUME NEW d \in 0 .. LastDay(12 * Years - 1)
    PROVE  /\ MonthOf(d) \in Months
           /\ FirstDay[MonthOf(d)] <= d /\ d < FirstDay[MonthOf(d) + 1]
           /\ \A m \in Months : FirstDay[m] <= d /\ d < FirstDay[m + 1] => m = MonthOf(d)
<1> DEFINE k == 12 * Years
<1>0. k \in Nat /\ (k - 1) + 1 = k
  BY BooksAssumption
<1>1. \A m \in 0 .. k : FirstDay[m] \in Nat
  BY FirstDaysGrow
<1>2. \A m, n \in 0 .. k : m < n => FirstDay[m] < FirstDay[n]
  BY FirstDaysGrow
<1>3. d \in Nat /\ d < FirstDay[k]
  BY <1>0, <1>1 DEF LastDay
<1>4. Months = 0 .. k - 1
  BY DEF Months
<1> HIDE DEF k
<1>5. \E m \in Months : FirstDay[m] <= d /\ d < FirstDay[m + 1]
  <2> SUFFICES ASSUME \A m \in Months : FirstDay[m] <= d => ~(d < FirstDay[m + 1])
               PROVE  FALSE
    OBVIOUS
  <2> DEFINE P == {n \in Nat : n <= k => FirstDay[n] <= d}
  <2>1. 0 \in P
    BY <1>3, MonthsFollow
  <2>2. ASSUME NEW n \in P
        PROVE  n + 1 \in P
    <3> SUFFICES ASSUME n + 1 <= k PROVE FirstDay[n + 1] <= d
      OBVIOUS
    <3>1. n \in Months /\ FirstDay[n] <= d /\ n + 1 \in 0 .. k
      BY <1>0, <1>4
    <3>2. ~(d < FirstDay[n + 1]) /\ FirstDay[n + 1] \in Nat
      BY <1>1, <3>1
    <3> QED BY <1>3, <3>2
  <2>3. P = Nat
    <3> HIDE DEF P
    <3>1. P \in SUBSET Nat
      BY DEF P
    <3> QED BY <2>1, <2>2, <3>1, NatSetInduction
  <2>4. FirstDay[k] <= d /\ FirstDay[k] \in Nat
    BY <1>0, <1>1, <2>3
  <2> QED BY <1>3, <2>4
<1>6. ASSUME NEW m \in Months, NEW n \in Months,
             FirstDay[m] <= d, d < FirstDay[m + 1], FirstDay[n] <= d, d < FirstDay[n + 1]
      PROVE  m = n
  <2>1. /\ m \in 0 .. k /\ m + 1 \in 0 .. k /\ n \in 0 .. k /\ n + 1 \in 0 .. k
        /\ m \in Int /\ n \in Int
    BY <1>0, <1>4
  <2>2. CASE m < n
    <3>1. FirstDay[m + 1] <= FirstDay[n]
      <4>1. m + 1 = n \/ m + 1 < n
        BY <2>1, <2>2
      <4> QED BY <1>1, <1>2, <2>1, <4>1
    <3> QED BY <1>1, <1>3, <1>6, <2>1, <3>1
  <2>3. CASE n < m
    <3>1. FirstDay[n + 1] <= FirstDay[m]
      <4>1. n + 1 = m \/ n + 1 < m
        BY <2>1, <2>3
      <4> QED BY <1>1, <1>2, <2>1, <4>1
    <3> QED BY <1>1, <1>3, <1>6, <2>1, <3>1
  <2> QED BY <2>1, <2>2, <2>3
<1>7. MonthOf(d) \in Months /\ FirstDay[MonthOf(d)] <= d /\ d < FirstDay[MonthOf(d) + 1]
  BY <1>5 DEF MonthOf
<1> QED BY <1>6, <1>7

-----------------------------------------------------------------------------
(* The months and the general ledger.                                      *)

\* A line is counted in the month of its journal's date, and in no other.
LEMMA LinesOfAMonth ==
    ASSUME NEW book, SoundBook(book), NEW day \in 0 .. LastDay(12 * Years - 1),
           NEW m \in Months, NEW n \in AllLines(book)
    PROVE  n \in CountedLines(book, FirstDay[m], AtMost(LastDay(m), day)) <=>
               /\ n \in CountedLines(book, 0, day)
               /\ MonthOf(book.journals[n[1]].transaction_date) = m
<1> DEFINE j == book.journals[n[1]]
<1> DEFINE d == j.transaction_date
<1> DEFINE end == AtMost(LastDay(m), day)
<1>1. d \in 0 .. LastDay(12 * Years - 1) /\ n[1] \in DOMAIN book.journals
  BY ALine DEF SoundBook, SoundEntry
<1>2. /\ n \in CountedLines(book, 0, day) <=> Counts(j) /\ d \in 0 .. day
      /\ n \in CountedLines(book, FirstDay[m], end) <=> Counts(j) /\ d \in FirstDay[m] .. end
  BY <1>1, CountedLinesAre DEF Counted
<1>3. (FirstDay[m] <= d /\ d < FirstDay[m + 1]) <=> MonthOf(d) = m
  BY <1>1, DaysHaveAMonth
<1>4. FirstDay[m] \in Nat /\ FirstDay[m + 1] \in Nat /\ LastDay(m) = FirstDay[m + 1] - 1
  <2>1. m \in 0 .. 12 * Years /\ m + 1 \in 0 .. 12 * Years
    BY BooksAssumption DEF Months
  <2> QED BY <2>1, FirstDaysGrow DEF LastDay
<1>5. d \in Int /\ day \in Int /\ 0 <= d
  BY <1>1
<1> HIDE DEF d
<1>6. d \in FirstDay[m] .. end <=> (d \in 0 .. day /\ FirstDay[m] <= d /\ d < FirstDay[m + 1])
  BY <1>4, <1>5 DEF AtMost
<1> QED BY <1>2, <1>3, <1>6 DEF d

\* The totals of a period, of accounts with lines in it and of those without.
LEMMA PeriodBalance ==
    ASSUME NEW book, SoundBook(book), NEW start, NEW end, NEW a
    PROVE  LET totals == account_totals_for_period(book, start, end)
               L == CountedLines(book, start, end)
           IN  /\ DOMAIN totals = AccountsOf(book, L)
               /\ a \in DOMAIN totals => totals[a] = DebitAndCredit(book, L, a)
               /\ (IF a \in DOMAIN totals THEN Balance(totals[a]) ELSE 0) = Balance(DebitAndCredit(book, L, a))
               /\ Balance(DebitAndCredit(book, L, a)) \in Int
<1> DEFINE L == CountedLines(book, start, end)
<1> DEFINE totals == account_totals_for_period(book, start, end)
<1>1. L \in SUBSET AllLines(book)
  BY CountedLinesAre
<1>2. totals = [b \in AccountsOf(book, L) |-> DebitAndCredit(book, L, b)]
  BY DEF account_totals_for_period, AccountsOf
<1>3. a \notin AccountsOf(book, L) => Balance(DebitAndCredit(book, L, a)) = 0
  BY <1>1, NoLinesNoBalance
<1>4. Balance(DebitAndCredit(book, L, a)) \in Int
  BY <1>1, AccountTotals DEF Balance
<1> HIDE DEF L, totals
<1>5. DOMAIN totals = AccountsOf(book, L) /\ (a \in DOMAIN totals => totals[a] = DebitAndCredit(book, L, a))
  BY <1>2
<1>6. (IF a \in DOMAIN totals THEN Balance(totals[a]) ELSE 0) = Balance(DebitAndCredit(book, L, a))
  BY <1>3, <1>5
<1> QED BY <1>4, <1>5, <1>6 DEF L, totals

\* Month by month, the lines of an account are all its lines.
LEMMA MonthsDoAddUp ==
    ASSUME SoundBook(Book), NEW day \in 0 .. LastDay(12 * Years - 1), Posted(day) \subseteq Listed(Book)
    PROVE  MonthsAddUp(day)
<1> DEFINE months_of == {m \in Months : FirstDay[m] <= day}
<1> DEFINE totals == [m \in months_of |->
                         account_totals_for_period(Book, FirstDay[m], AtMost(LastDay(m), day))]
<1> DEFINE shown == _get_account_balances(Book, day)
<1> DEFINE In(m, a) == IF a \in DOMAIN totals[m] THEN Balance(totals[m][a]) ELSE 0
<1> DEFINE L == CountedLines(Book, 0, day)
<1> SUFFICES ASSUME NEW a \in Posted(day)
             PROVE  SumFunctionOnSet([m \in months_of |-> In(m, a)], months_of) = Balance(shown[a])
  BY DEF MonthsAddUp, SumOver, SumFunction
<1> DEFINE S == OfAccount(Book, L, a)
<1> DEFINE part == [n \in S |-> MonthOf(journals[n[1]].transaction_date)]
<1> DEFINE g == [m \in months_of |-> In(m, a)]
<1> DEFINE sums == [m \in months_of |-> SumFunctionOnSet(Signs(Book), {n \in S : part[n] = m})]
<1>0. Book.journals = journals
  BY DEF Book
<1>1. L \in SUBSET AllLines(Book) /\ S \in SUBSET AllLines(Book)
  BY CountedLinesAre DEF OfAccount
<1>2. Balance(shown[a]) = SumFunctionOnSet(Signs(Book), S)
  BY <1>1, AccountTotals DEF _get_account_balances
<1>3. \A n \in S : part[n] \in months_of
  <2> TAKE n \in S
  <2> DEFINE d == journals[n[1]].transaction_date
  <2>1. n[1] \in Counted(Book, 0, day)
    BY CountedLinesAre DEF OfAccount
  <2>2. d \in 0 .. day /\ d \in 0 .. LastDay(12 * Years - 1)
    BY <1>0, <2>1 DEF Counted, SoundBook, SoundEntry
  <2>3. MonthOf(d) \in Months /\ FirstDay[MonthOf(d)] <= d
    BY <2>2, DaysHaveAMonth
  <2>4. FirstDay[MonthOf(d)] \in Nat
    BY <2>3, FirstDaysGrow, BooksAssumption DEF Months
  <2>5. FirstDay[MonthOf(d)] <= day
    BY <2>2, <2>3, <2>4
  <2> QED BY <2>3, <2>5
<1>4. ASSUME NEW m \in months_of
      PROVE  g[m] = sums[m] /\ sums[m] \in Int
  <2> DEFINE M == CountedLines(Book, FirstDay[m], AtMost(LastDay(m), day))
  <2>1. M \in SUBSET AllLines(Book)
    BY CountedLinesAre
  <2>2. {n \in S : part[n] = m} = OfAccount(Book, M, a)
    <3>1. \A n \in AllLines(Book) : n \in M <=> n \in L /\ MonthOf(journals[n[1]].transaction_date) = m
      BY <1>0, LinesOfAMonth
    <3> HIDE DEF M, L
    <3> QED BY <1>1, <2>1, <3>1 DEF OfAccount
  <2>3. In(m, a) = Balance(DebitAndCredit(Book, M, a)) /\ In(m, a) \in Int
    BY PeriodBalance
  <2>4. Balance(DebitAndCredit(Book, M, a)) = SumFunctionOnSet(Signs(Book), OfAccount(Book, M, a))
    BY <2>1, AccountTotals
  <2> HIDE DEF M, In, S, part
  <2> QED BY <2>2, <2>3, <2>4
<1>5. IsFiniteSet(months_of)
  <2>1. 0 \in Int /\ 12 * Years - 1 \in Int
    BY BooksAssumption
  <2>2. IsFiniteSet(Months)
    BY <2>1, FS_Interval DEF Months
  <2> QED BY <2>2, FS_Subset
<1>6. NumbersOn(Signs(Book), S)
  BY <1>1, PartOfLines
<1> HIDE DEF S, part, g, months_of
<1>7. SumFunctionOnSet(Signs(Book), S) = SumFunctionOnSet(sums, months_of)
  BY <1>3, <1>5, <1>6, SumParts
<1> HIDE DEF sums
<1>8. NumbersOn(sums, months_of)
  BY <1>4, <1>5 DEF NumbersOn
<1>9. SumFunctionOnSet(g, months_of) = SumFunctionOnSet(sums, months_of)
  BY <1>4, <1>8, SumSame
<1> QED BY <1>2, <1>7, <1>9 DEF g

\* What is left of an empty period.
LEMMA NothingBefore ==
    ASSUME NEW book, SoundBook(book), NEW a
    PROVE  Balance(DebitAndCredit(book, CountedLines(book, 0, -1), a)) = 0
<1>1. CountedLines(book, 0, -1) = {}
  BY CountedLinesAre DEF Counted
<1>2. {} \in SUBSET AllLines(book) /\ a \notin AccountsOf(book, {})
  BY DEF AccountsOf
<1> QED BY <1>1, <1>2, NoLinesNoBalance

\* The row of an account in the general ledger, if it is listed.
Turned(book, a, side) == IF book.accounts[a].debit_credit = "debit" THEN side ELSE -side
Grown(book, a, side) == IF book.accounts[a].type \in {"asset", "expense"} THEN side ELSE -side

\* What an account's lines are, all on its own side.
Netted(book, L, a) == Turned(book, a, Entered(book, L, a))

LEMMA EnteredIsANumber ==
    ASSUME NEW book, SoundBook(book), NEW L \in SUBSET AllLines(book), NEW a
    PROVE  /\ Entered(book, L, a) = SumFunctionOnSet(Amounts(book), OfAccount(book, L, a))
           /\ Entered(book, L, a) \in Int
<1> DEFINE T == OfAccount(book, L, a)
<1> DEFINE g == [n \in T |-> LineOf(book, n).amount]
<1>1. T \in SUBSET AllLines(book)
  BY DEF OfAccount
<1>2. Entered(book, L, a) = SumFunctionOnSet(g, T)
  BY DEF Entered, SumOver, SumFunction, OfAccount
<1>3. NumbersOn(Amounts(book), T) /\ SumFunctionOnSet(Amounts(book), T) \in Int
  BY <1>1, PartOfLines
<1>4. \A n \in T : g[n] = Amounts(book)[n]
  BY <1>1, ALine
<1> HIDE DEF g, T
<1>5. SumFunctionOnSet(g, T) = SumFunctionOnSet(Amounts(book), T)
  BY <1>3, <1>4, SumSame
<1> QED BY <1>2, <1>3, <1>5 DEF T

\* Of an account that was only posted to on its own side, that is the balance.
LEMMA NettedIsTheBalance ==
    ASSUME NEW book, SoundBook(book), NEW L \in SUBSET AllLines(book), NEW a,
           book.accounts[a].debit_credit \in {"debit", "credit"},
           \A n \in L : LineOf(book, n).account = a => LineOf(book, n).debit_credit = book.accounts[a].debit_credit
    PROVE  Netted(book, L, a) = Balance(DebitAndCredit(book, L, a))
<1> DEFINE T == OfAccount(book, L, a)
<1>1. T \in SUBSET AllLines(book)
  BY DEF OfAccount
<1>2. NumbersOn(Amounts(book), T)
  BY <1>1, PartOfLines
<1>3. Balance(DebitAndCredit(book, L, a)) = SumFunctionOnSet(Signs(book), T)
  BY AccountTotals
<1>4. Entered(book, L, a) = SumFunctionOnSet(Amounts(book), T)
  BY EnteredIsANumber
<1>5. \A n \in T : LineOf(book, n).debit_credit = book.accounts[a].debit_credit
  BY DEF OfAccount
<1>6. CASE book.accounts[a].debit_credit = "debit"
  <2>1. \A n \in T : Signs(book)[n] = Amounts(book)[n]
    BY <1>1, <1>5, <1>6, ALine
  <2> HIDE DEF T
  <2>2. SumFunctionOnSet(Signs(book), T) = SumFunctionOnSet(Amounts(book), T)
    BY <1>2, <2>1, SumSame
  <2> QED BY <1>3, <1>4, <1>6, <2>2 DEF Netted, Turned
<1>7. CASE book.accounts[a].debit_credit = "credit"
  <2>1. \A n \in T : Signs(book)[n] = -Amounts(book)[n]
    BY <1>1, <1>5, <1>7, ALine
  <2> HIDE DEF T
  <2>2. SumFunctionOnSet(Signs(book), T) = -SumFunctionOnSet(Amounts(book), T)
    BY <1>2, <2>1, SumNegated
  <2> QED BY <1>3, <1>4, <1>7, <2>2 DEF Netted, Turned
<1> QED BY <1>6, <1>7

LEMMA LedgerRow ==
    ASSUME NEW book, SoundBook(book), NEW start, NEW end, NEW a \in Listed(book)
    PROVE  LET before == Balance(DebitAndCredit(book, CountedLines(book, 0, start - 1), a))
               net == Netted(book, CountedLines(book, start, end), a)
               row == get_general_ledger(book, start, end)[a]
           IN  /\ row.opening_balance = Turned(book, a, before)
               /\ row.closing_balance = Turned(book, a, before) + Grown(book, a, net)
               /\ export_general_ledger_csv(book, start, end)[a] = Turned(book, a, before) + net
<1> DEFINE before == CountedLines(book, 0, start - 1)
<1> DEFINE lines == CountedLines(book, start, end)
<1> DEFINE moved == {b \in {LineOf(book, n).account : n \in lines} : ~book.accounts[b].is_deleted}
<1> DEFINE opening(b) ==
        LET balance == Balance(DebitAndCredit(book, before, b))
        IN  CASE b \notin Listed(book) -> 0
              [] b \in Listed(book) /\ book.accounts[b].debit_credit = "debit" -> balance
              [] b \in Listed(book) /\ book.accounts[b].debit_credit = "credit" -> -balance
<1> DEFINE entries(b, side) ==
        IF book.accounts[b].debit_credit = side THEN Entered(book, lines, b) ELSE 0
<1> DEFINE movement(b) ==
        LET balance == entries(b, "debit") - entries(b, "credit")
        IN  IF book.accounts[b].type \in {"asset", "expense"} THEN balance ELSE -balance
<1> DEFINE was == Balance(DebitAndCredit(book, before, a))
<1> DEFINE net == Netted(book, lines, a)
<1>1. a \in DOMAIN book.accounts /\ book.accounts[a].debit_credit \in {"debit", "credit"}
  BY DEF Listed, SoundBook
<1>2. opening(a) = Turned(book, a, was)
  BY <1>1 DEF Turned
<1>3. entries(a, "debit") - entries(a, "credit") = net
  <2> DEFINE sum == Entered(book, lines, a)
  <2>1. lines \in SUBSET AllLines(book)
    BY CountedLinesAre
  <2>2. sum \in Int
    BY <2>1, EnteredIsANumber
  <2> HIDE DEF sum
  <2>3. sum - 0 = sum /\ 0 - sum = -sum
    BY <2>2
  <2>4. CASE book.accounts[a].debit_credit = "debit"
    BY <2>3, <2>4 DEF sum, Netted, Turned
  <2>5. CASE book.accounts[a].debit_credit = "credit"
    BY <2>3, <2>5 DEF sum, Netted, Turned
  <2> QED BY <1>1, <2>4, <2>5
<1>4. movement(a) = Grown(book, a, net)
  BY <1>3 DEF Grown
<1>5. get_general_ledger(book, start, end) =
          [b \in Listed(book) \cup moved |->
              [opening_balance |-> opening(b), closing_balance |-> opening(b) + movement(b),
               total_debit |-> entries(b, "debit"), total_credit |-> entries(b, "credit")]]
  BY DEF get_general_ledger
<1> DEFINE ledger == get_general_ledger(book, start, end)
<1> HIDE DEF opening, movement, entries, moved, ledger, net
<1>6. /\ a \in DOMAIN ledger
      /\ ledger[a].opening_balance = opening(a) /\ ledger[a].closing_balance = opening(a) + movement(a)
      /\ ledger[a].total_debit = entries(a, "debit") /\ ledger[a].total_credit = entries(a, "credit")
  BY <1>5 DEF ledger
<1>7. export_general_ledger_csv(book, start, end)[a] =
          ledger[a].opening_balance + (ledger[a].total_debit - ledger[a].total_credit)
  BY <1>6 DEF export_general_ledger_csv, ledger
<1> HIDE DEF was
<1> QED BY <1>2, <1>3, <1>4, <1>6, <1>7 DEF was, net, ledger

\* A period opens with what was before it: the lines up to a day and those after it are all lines.
LEMMA LedgerDoesRollForward ==
    ASSUME SoundBook(Book), NEW day \in Int
    PROVE  LedgerRollsForward(day)
<1> SUFFICES ASSUME NEW a \in Ordinary
             PROVE  LET before == get_general_ledger(Book, 0, day)
                        after == get_general_ledger(Book, day + 1, Today + 1)
                        exported == export_general_ledger_csv(Book, day + 1, Today + 1)
                    IN  /\ a \in OnTheirSide(day) => after[a].opening_balance = before[a].closing_balance
                        /\ accounts[a].debit_credit = "debit" => exported[a] = after[a].closing_balance
  BY DEF LedgerRollsForward, OnTheirSide
<1> DEFINE until == Balance(DebitAndCredit(Book, CountedLines(Book, 0, day), a))
<1> DEFINE entered == Netted(Book, CountedLines(Book, 0, day), a)
<1> DEFINE then == Netted(Book, CountedLines(Book, day + 1, Today + 1), a)
<1>1. a \in Listed(Book) /\ Book.accounts = accounts /\ accounts[a].debit_credit \in {"debit", "credit"}
  BY DEF Ordinary, Book, Listed, SoundBook
<1>2. until \in Int
  BY PeriodBalance
<1>3. Turned(Book, a, until) = Grown(Book, a, until) /\ (accounts[a].debit_credit = "debit" => Grown(Book, a, then) = then)
  BY <1>1 DEF Ordinary, Turned, Grown
<1>4. 0 - 1 = -1 /\ (day + 1) - 1 = day
  OBVIOUS
<1> DEFINE none == Balance(DebitAndCredit(Book, CountedLines(Book, 0, 0 - 1), a))
<1>5. none = 0
  BY <1>4, NothingBefore
<1>6. get_general_ledger(Book, 0, day)[a].closing_balance = Turned(Book, a, none) + Grown(Book, a, entered)
  BY <1>1, LedgerRow
<1>7. /\ get_general_ledger(Book, day + 1, Today + 1)[a].opening_balance = Turned(Book, a, until)
      /\ get_general_ledger(Book, day + 1, Today + 1)[a].closing_balance
             = Turned(Book, a, until) + Grown(Book, a, then)
      /\ export_general_ledger_csv(Book, day + 1, Today + 1)[a] = Turned(Book, a, until) + then
  BY <1>1, <1>4, LedgerRow
<1>11. a \in OnTheirSide(day) => entered = until
  <2>1. CountedLines(Book, 0, day) \in SUBSET AllLines(Book)
    BY CountedLinesAre
  <2> QED BY <1>1, <2>1, NettedIsTheBalance DEF OnTheirSide
<1> HIDE DEF until, then, none, entered
<1>8. Turned(Book, a, none) = 0
  <2>1. none \in Int
    BY <1>5
  <2>1a. -none = 0 - none
    BY <2>1
  <2>2. 0 - none = 0
    BY <1>5
  <2>3. -none = 0
    BY <2>1a, <2>2
  <2> QED BY <1>5, <2>3 DEF Turned
<1>10. Grown(Book, a, until) \in Int
  BY <1>2 DEF Grown
<1>9. a \in OnTheirSide(day) =>
        get_general_ledger(Book, day + 1, Today + 1)[a].opening_balance
            = get_general_ledger(Book, 0, day)[a].closing_balance
  BY <1>3, <1>6, <1>7, <1>8, <1>10, <1>11
<1> QED BY <1>3, <1>7, <1>9

-----------------------------------------------------------------------------
(* The journals as a file.                                                 *)

\* Sums of two numbers, in a set and in a list.
LEMMA SumOfTwo ==
    ASSUME NEW x, NEW y, x # y, NEW g, g[x] \in Int, g[y] \in Int
    PROVE  SumFunctionOnSet(g, {x} \cup {y}) = g[x] + g[y]
<1>1. IsFiniteSet({x} \cup {y})
  BY FS_Singleton, FS_Union
<1>2. NumbersOn(g, {x} \cup {y})
  BY <1>1 DEF NumbersOn
<1> DEFINE first == {x}
<1>3. NumbersOn(g, first \cup {y}) /\ y \notin first
  BY <1>2
<1>4. SumFunctionOnSet(g, first) = g[x]
  BY SumOne
<1> HIDE DEF first
<1>5. SumFunctionOnSet(g, first \cup {y}) = SumFunctionOnSet(g, first) + g[y]
  BY <1>3, SumMore
<1> QED BY <1>4, <1>5 DEF first

LEMMA SumSeqOfTwo ==
    ASSUME NEW s, s \in Seq(Int), Len(s) = 2
    PROVE  SumSeq(s) = s[1] + s[2]
<1>1. 1 .. Len(s) = {1} \cup {2} /\ 1 # 2
  OBVIOUS
<1>2. s[1] \in Int /\ s[2] \in Int
  OBVIOUS
<1>3. SumFunctionOnSet(s, {1} \cup {2}) = s[1] + s[2]
  BY <1>1, <1>2, SumOfTwo
<1>4. SumSeq(s) = SumFunctionOnSet(s, 1 .. Len(s))
  BY SumSeqIsSum
<1> QED BY <1>1, <1>3, <1>4

\* The lines of a side.
OfSide(book, L, side) == {n \in L : LineOf(book, n).debit_credit = side}

\* A row of the file, for a debit line and a credit line.
ARow(book, p, q) == <<p, q, LineOf(book, p).amount>>

\* What is a row of the file.
LEMMA RowsOfAFile ==
    ASSUME NEW book, NEW end, NEW row
    PROVE  LET L == CountedLines(book, 0, end)
           IN  row \in export_journals_csv(book, 0, end) <=>
                   \E p \in OfSide(book, L, "debit") : \E q \in OfSide(book, L, "credit") :
                       p[1] = q[1] /\ row = ARow(book, p, q)
<1> DEFINE L == CountedLines(book, 0, end)
<1> DEFINE pairs == {p \in OfSide(book, L, "debit") \X OfSide(book, L, "credit") : p[1][1] = p[2][1]}
<1>1. export_journals_csv(book, 0, end) = {<<pair[1], pair[2], LineOf(book, pair[1]).amount>> : pair \in pairs}
  BY DEF export_journals_csv, OfSide
<1>2. \A p \in OfSide(book, L, "debit"), q \in OfSide(book, L, "credit") :
          p[1] = q[1] => <<p, q>> \in pairs /\ <<p, q>>[1] = p /\ <<p, q>>[2] = q
  OBVIOUS
<1>3. \A pair \in pairs : /\ pair[1] \in OfSide(book, L, "debit") /\ pair[2] \in OfSide(book, L, "credit")
                          /\ pair[1][1] = pair[2][1]
  OBVIOUS
<1> HIDE DEF pairs
<1>4. ASSUME row \in export_journals_csv(book, 0, end)
      PROVE  \E p \in OfSide(book, L, "debit") : \E q \in OfSide(book, L, "credit") :
                 p[1] = q[1] /\ row = ARow(book, p, q)
  <2>1. PICK pair \in pairs : row = <<pair[1], pair[2], LineOf(book, pair[1]).amount>>
    BY <1>1, <1>4
  <2>2. row = ARow(book, pair[1], pair[2])
    BY <2>1 DEF ARow
  <2> QED BY <1>3, <2>2
<1>5. ASSUME NEW p \in OfSide(book, L, "debit"), NEW q \in OfSide(book, L, "credit"),
             p[1] = q[1], row = ARow(book, p, q)
      PROVE  row \in export_journals_csv(book, 0, end)
  <2> DEFINE pair == <<p, q>>
  <2>1. pair \in pairs /\ pair[1] = p /\ pair[2] = q
    BY <1>2, <1>5
  <2>2. row = <<pair[1], pair[2], LineOf(book, pair[1]).amount>>
    BY <1>5, <2>1 DEF ARow
  <2> HIDE DEF pair
  <2> QED BY <1>1, <2>1, <2>2
<1> HIDE DEF L
<1> QED BY <1>4, <1>5 DEF L

\* A journal of two lines has one row, if one is debited and the other credited, and the amount is the same.
LEMMA RowsOfTwoLines ==
    ASSUME NEW book, SoundBook(book), NEW end, NEW i \in Counted(book, 0, end),
           Len(book.journals[i].lines) = 2
    PROVE  LET rows == {row \in export_journals_csv(book, 0, end) : row[1][1] = i}
               g == [row \in export_journals_csv(book, 0, end) |-> row[3]]
           IN  /\ SumFunctionOnSet(g, rows) = TotalDebit(book.journals[i].lines)
               /\ TotalDebit(book.journals[i].lines) \in Int
<1> DEFINE lines == book.journals[i].lines
<1> DEFINE L == CountedLines(book, 0, end)
<1> DEFINE file == export_journals_csv(book, 0, end)
<1> DEFINE rows == {row \in file : row[1][1] = i}
<1> DEFINE g == [row \in file |-> row[3]]
<1> DEFINE n1 == <<i, 1>>
<1> DEFINE n2 == <<i, 2>>
<1>1. /\ i \in DOMAIN book.journals /\ DOMAIN lines = {1, 2} /\ Len(lines) = 2
      /\ SoundLine(lines[1], DOMAIN book.accounts) /\ SoundLine(lines[2], DOMAIN book.accounts)
      /\ Side(lines, "debit") = Side(lines, "credit")
  <2>1. i \in DOMAIN book.journals
    BY DEF Counted
  <2>2. DOMAIN lines = 1 .. 2
    BY <2>1 DEF SoundBook, SoundEntry, IsAList
  <2> QED BY <2>1, <2>2 DEF SoundBook, SoundEntry
<1>2. \A n \in L : n[1] = i => n = n1 \/ n = n2
  <2>1. L \in SUBSET AllLines(book)
    BY CountedLinesAre
  <2> QED BY <1>1, <2>1, ALine
<1>3. /\ n1 \in L /\ n2 \in L
      /\ LineOf(book, n1) = lines[1] /\ LineOf(book, n2) = lines[2]
  <2>1. n1 \in AllLines(book) /\ n2 \in AllLines(book)
    BY <1>1 DEF AllLines, LinesOf
  <2> QED BY <2>1, CountedLinesAre DEF LineOf
<1>4. \A row : row \in rows <=>
          \E p, q \in {n1, n2} : /\ LineOf(book, p).debit_credit = "debit"
                                 /\ LineOf(book, q).debit_credit = "credit"
                                 /\ row = ARow(book, p, q)
  <2>1. n1[1] = i /\ n2[1] = i
    OBVIOUS
  <2>2. \A p, q : ARow(book, p, q)[1] = p
    BY DEF ARow
  <2> HIDE DEF L, n1, n2
  <2> QED BY <1>2, <1>3, <2>1, <2>2, RowsOfAFile DEF OfSide, L
<1>5. \A p, q : ARow(book, p, q)[3] = LineOf(book, p).amount
  BY DEF ARow
<1> DEFINE On(side) == [l \in DOMAIN lines |-> IF lines[l].debit_credit = side THEN lines[l].amount ELSE 0]
<1> DEFINE kept == [l \in DOMAIN lines |-> IF lines[l].debit_credit = "debit" /\ ~lines[l].is_deleted
                                           THEN lines[l].amount ELSE 0]
<1>6. On("debit") \in Seq(Int) /\ On("credit") \in Seq(Int) /\ Len(On("debit")) = 2 /\ Len(On("credit")) = 2
  <2>1. DOMAIN lines = 1 .. Len(lines) /\ Len(lines) \in Nat
    BY <1>1
  <2>2. \A l \in DOMAIN lines : lines[l].amount \in Int
    BY <1>1 DEF SoundLine
  <2> HIDE DEF lines
  <2>3. On("debit") \in Seq(Int) /\ Len(On("debit")) = Len(lines)
    BY <2>1, <2>2
  <2>4. On("credit") \in Seq(Int) /\ Len(On("credit")) = Len(lines)
    BY <2>1, <2>2
  <2> QED BY <1>1, <2>3, <2>4
<1>7. TotalDebit(lines) = Side(lines, "debit")
  <2>1. kept = On("debit")
    BY <1>1 DEF SoundLine
  <2> QED BY <2>1 DEF TotalDebit, Side
<1>8. /\ Side(lines, "debit") = On("debit")[1] + On("debit")[2]
      /\ Side(lines, "credit") = On("credit")[1] + On("credit")[2]
  <2>1. Side(lines, "debit") = SumSeq(On("debit")) /\ Side(lines, "credit") = SumSeq(On("credit"))
    BY DEF Side
  <2> HIDE DEF On
  <2> QED BY <1>6, <2>1, SumSeqOfTwo
<1> DEFINE a1 == lines[1].amount
<1> DEFINE a2 == lines[2].amount
<1>9. /\ lines[1].debit_credit \in {"debit", "credit"} /\ lines[2].debit_credit \in {"debit", "credit"}
      /\ a1 \in Int /\ a2 \in Int
  BY <1>1 DEF SoundLine
<1>10. /\ On("debit")[1] = IF lines[1].debit_credit = "debit" THEN a1 ELSE 0
       /\ On("debit")[2] = IF lines[2].debit_credit = "debit" THEN a2 ELSE 0
       /\ On("credit")[1] = IF lines[1].debit_credit = "credit" THEN a1 ELSE 0
       /\ On("credit")[2] = IF lines[2].debit_credit = "credit" THEN a2 ELSE 0
  BY <1>1
<1> HIDE DEF On, kept
<1>11. TotalDebit(lines) \in Int
  BY <1>7, <1>8, <1>9, <1>10
<1>12. \A x \in rows : x \in file /\ g[x] = x[3]
  OBVIOUS
<1> HIDE DEF rows, g, file, L, n1, n2
<1>13. CASE lines[1].debit_credit = "debit" /\ lines[2].debit_credit = "credit"
  <2>1. rows = {ARow(book, n1, n2)}
    BY <1>3, <1>4, <1>13
  <2>2. g[ARow(book, n1, n2)] = a1
    BY <1>3, <1>5, <1>12, <2>1
  <2>3. SumFunctionOnSet(g, rows) = a1
    BY <1>9, <2>1, <2>2, SumOne
  <2>4. TotalDebit(lines) = a1
    BY <1>7, <1>8, <1>9, <1>10, <1>13
  <2> QED BY <1>11, <2>3, <2>4 DEF rows, g, file
<1>14. CASE lines[1].debit_credit = "credit" /\ lines[2].debit_credit = "debit"
  <2>1. rows = {ARow(book, n2, n1)}
    BY <1>3, <1>4, <1>14
  <2>2. g[ARow(book, n2, n1)] = a2
    BY <1>3, <1>5, <1>12, <2>1
  <2>3. SumFunctionOnSet(g, rows) = a2
    BY <1>9, <2>1, <2>2, SumOne
  <2>4. TotalDebit(lines) = a2
    BY <1>7, <1>8, <1>9, <1>10, <1>14
  <2> QED BY <1>11, <2>3, <2>4 DEF rows, g, file
<1>15. CASE lines[1].debit_credit = lines[2].debit_credit
  <2>1. rows = {}
    BY <1>3, <1>4, <1>15
  <2>2. SumFunctionOnSet(g, rows) = 0
    BY <2>1, SumEmpty
  <2>3. TotalDebit(lines) = 0
    BY <1>1, <1>7, <1>8, <1>9, <1>10, <1>15
  <2> QED BY <1>11, <2>2, <2>3 DEF rows, g, file
<1> QED BY <1>9, <1>13, <1>14, <1>15

\* The rows, journal by journal.
LEMMA FileDoesAddUp ==
    ASSUME SoundBook(Book), NEW day \in Int
    PROVE  FileAddsUp(day)
<1> DEFINE counted == {i \in DOMAIN journals : Counts(journals[i]) /\ journals[i].transaction_date <= day}
<1> DEFINE file == export_journals_csv(Book, 0, day)
<1> DEFINE g == [row \in file |-> row[3]]
<1> DEFINE totals == [i \in counted |-> TotalDebit(journals[i].lines)]
<1> SUFFICES ASSUME \A i \in counted : Len(journals[i].lines) = 2
             PROVE  SumFunctionOnSet(g, file) = SumFunctionOnSet(totals, counted)
  BY DEF FileAddsUp, SumOver, SumFunction
<1> DEFINE part == [row \in file |-> row[1][1]]
<1> DEFINE sums == [i \in counted |-> SumFunctionOnSet(g, {row \in file : part[row] = i})]
<1>0. Book.journals = journals
  BY DEF Book
<1>1. counted = Counted(Book, 0, day)
  <2>1. \A i \in DOMAIN journals : journals[i].transaction_date \in 0 .. LastDay(12 * Years - 1)
    BY <1>0 DEF SoundBook, SoundEntry
  <2>2. \A i \in DOMAIN journals : journals[i].transaction_date <= day <=> journals[i].transaction_date \in 0 .. day
    BY <2>1
  <2> QED BY <1>0, <2>2 DEF Counted
<1>2. \A i \in counted : sums[i] = totals[i] /\ totals[i] \in Int
  <2> TAKE i \in counted
  <2>1. {row \in file : part[row] = i} = {row \in file : row[1][1] = i}
    OBVIOUS
  <2>2. /\ SumFunctionOnSet(g, {row \in file : row[1][1] = i}) = TotalDebit(journals[i].lines)
        /\ TotalDebit(journals[i].lines) \in Int
    BY <1>0, <1>1, RowsOfTwoLines
  <2> QED BY <2>1, <2>2
<1> DEFINE L == CountedLines(Book, 0, day)
<1>3. L \in SUBSET AllLines(Book) /\ IsFiniteSet(L)
  <2>1. L \in SUBSET AllLines(Book)
    BY CountedLinesAre
  <2> QED BY <2>1, PartOfLines
<1>4. \A row \in file : /\ row[1] \in L /\ row[2] \in L /\ row[3] = LineOf(Book, row[1]).amount
                        /\ row = ARow(Book, row[1], row[2])
  BY RowsOfAFile DEF ARow, OfSide
<1>5. IsFiniteSet(file)
  <2> DEFINE f == [row \in file |-> <<row[1], row[2]>>]
  <2>1. IsFiniteSet(L \X L)
    BY <1>3, FS_Product
  <2>2. \A x, y \in file : f[x] = f[y] => x = y
    <3> HIDE DEF file
    <3> QED BY <1>4
  <2>3. f \in [file -> L \X L]
    <3> HIDE DEF file, L
    <3> QED BY <1>4
  <2>4. f \in Injection(file, L \X L)
    <3> HIDE DEF f, file, L
    <3> QED BY <2>2, <2>3 DEF Injection, IsInjective
  <2> HIDE DEF f, file, L
  <2> QED BY <2>1, <2>4, FS_Injection
<1>6. NumbersOn(g, file)
  <2>1. \A row \in file : g[row] \in Int
    BY <1>3, <1>4, ALine
  <2> HIDE DEF g, file
  <2> QED BY <1>5, <2>1 DEF NumbersOn
<1>7. \A row \in file : part[row] \in counted
  BY <1>1, <1>4, CountedLinesAre
<1>8. IsFiniteSet(counted)
  <2>1. Len(journals) \in Nat /\ DOMAIN journals = 1 .. Len(journals)
    BY <1>0 DEF SoundBook, IsAList
  <2>2. 1 \in Int /\ Len(journals) \in Int
    BY <2>1
  <2>3. IsFiniteSet(1 .. Len(journals))
    BY <2>2, FS_Interval
  <2> QED BY <2>1, <2>3, FS_Subset
<1> HIDE DEF g, file, part, counted
<1>9. SumFunctionOnSet(g, file) = SumFunctionOnSet(sums, counted)
  BY <1>6, <1>7, <1>8, SumParts
<1> HIDE DEF sums, totals
<1>10. NumbersOn(totals, counted)
  BY <1>2, <1>8 DEF NumbersOn
<1>11. SumFunctionOnSet(sums, counted) = SumFunctionOnSet(totals, counted)
  BY <1>2, <1>10, SumSame
<1> QED BY <1>9, <1>11

-----------------------------------------------------------------------------
(* The statements.                                                         *)

\* The balances that a report shows, and whether it shows every account with postings.
BalanceOf(book, day) == [a \in Listed(book) |-> Balance(_get_account_balances(book, day)[a])]

AllListed(book, day) ==
    SoundBook(book) /\ AccountsOf(book, CountedLines(book, 0, day)) \subseteq Listed(book)

\* The sum of the balances of some accounts.
Total(book, day, A) == SumFunctionOnSet(BalanceOf(book, day), A)

\* A statement adds up balances as they are, or turned.
LEMMA Totals ==
    ASSUME NEW book, NEW day, AllListed(book, day), NEW A \in SUBSET Listed(book)
    PROVE  LET rows == _get_account_balances(book, day)
           IN  /\ Total(book, day, A) \in Int
               /\ SumFunction([a \in A |-> Balance(rows[a])]) = Total(book, day, A)
               /\ SumFunction([a \in A |-> -Balance(rows[a])]) = -Total(book, day, A)
<1> DEFINE rows == _get_account_balances(book, day)
<1> DEFINE up == [a \in A |-> Balance(rows[a])]
<1> DEFINE down == [a \in A |-> -Balance(rows[a])]
<1>1. NumbersOn(BalanceOf(book, day), Listed(book))
  BY ListedBalances DEF AllListed, BalanceOf
<1>2. NumbersOn(BalanceOf(book, day), A) /\ Total(book, day, A) \in Int
  BY <1>1, SumSplit DEF Total
<1>3. /\ \A a \in A : up[a] = BalanceOf(book, day)[a]
      /\ \A a \in A : down[a] = -BalanceOf(book, day)[a]
  BY DEF BalanceOf
<1>4. SumFunction(up) = SumFunctionOnSet(up, A) /\ SumFunction(down) = SumFunctionOnSet(down, A)
  BY DEF SumFunction
<1> HIDE DEF up, down
<1>5. SumFunctionOnSet(up, A) = Total(book, day, A)
  BY <1>2, <1>3, SumSame DEF Total
<1>6. SumFunctionOnSet(down, A) = -Total(book, day, A)
  BY <1>2, <1>3, SumNegated DEF Total
<1> QED BY <1>2, <1>4, <1>5, <1>6 DEF up, down

\* Some of the accounts, and the others.
LEMMA TotalSplit ==
    ASSUME NEW book, NEW day, AllListed(book, day), NEW A \in SUBSET Listed(book), NEW B \in SUBSET A
    PROVE  /\ Total(book, day, A) = Total(book, day, B) + Total(book, day, A \ B)
           /\ Total(book, day, B) \in Int /\ Total(book, day, A \ B) \in Int
<1>1. NumbersOn(BalanceOf(book, day), Listed(book))
  BY ListedBalances DEF AllListed, BalanceOf
<1>2. NumbersOn(BalanceOf(book, day), A)
  BY <1>1, SumSplit
<1> QED BY <1>2, SumSplit DEF Total

\* Accounts without postings add nothing.
LEMMA TotalOfNone ==
    ASSUME NEW book, NEW day, AllListed(book, day), NEW A \in SUBSET Listed(book),
           \A a \in A : a \notin AccountsOf(book, CountedLines(book, 0, day))
    PROVE  Total(book, day, A) = 0
<1>1. /\ IsFiniteSet(Listed(book))
      /\ \A a \in Listed(book) : a \notin AccountsOf(book, CountedLines(book, 0, day)) => BalanceOf(book, day)[a] = 0
  BY ListedBalances DEF AllListed, BalanceOf
<1>2. IsFiniteSet(A)
  BY <1>1, FS_Subset
<1> QED BY <1>1, <1>2, SumZero DEF Total

FiveTypes == {"revenue", "expense", "asset", "liability", "equity"}

\* The five types, if they are all there is, add up to nothing.
LEMMA TypesBalance ==
    ASSUME NEW book, NEW day, AllListed(book, day),
           \A a \in AccountsOf(book, CountedLines(book, 0, day)) : book.accounts[a].type \in FiveTypes
    PROVE  LET T(type) == Total(book, day, OfType(book, {type}))
               sheet == {"asset", "liability", "equity"}
           IN  /\ \A type \in FiveTypes : T(type) \in Int
               /\ ((((T("asset") + T("liability")) + T("equity")) + T("revenue")) + T("expense")) = 0
               /\ Total(book, day, OfType(book, sheet)) = (T("asset") + T("liability")) + T("equity")
               /\ Total(book, day, OfType(book, {"revenue", "expense"})) = T("revenue") + T("expense")
<1> DEFINE Of(type) == OfType(book, {type})
<1> DEFINE T(type) == Total(book, day, Of(type))
<1> DEFINE all == Listed(book)
<1> DEFINE sheet == OfType(book, {"asset", "liability", "equity"})
<1> DEFINE income == OfType(book, {"revenue", "expense"})
<1> DEFINE rest == (all \ sheet) \ income
<1>0. \A a : a \in all <=> a \in Listed(book)
  OBVIOUS
<1>1. /\ sheet \in SUBSET all /\ income \in SUBSET all \ sheet /\ rest \in SUBSET all
      /\ Of("asset") \in SUBSET sheet /\ Of("liability") \in SUBSET sheet \ Of("asset")
      /\ (sheet \ Of("asset")) \ Of("liability") = Of("equity")
      /\ Of("revenue") \in SUBSET income /\ income \ Of("revenue") = Of("expense")
  BY DEF OfType
<1>2. \A type : Of(type) \in SUBSET all
  BY DEF OfType
<1>3. \A a \in rest : a \notin AccountsOf(book, CountedLines(book, 0, day))
  BY DEF OfType, FiveTypes
<1>4. Total(book, day, all) = 0
  BY ListedBalances DEF AllListed, BalanceOf, Total
<1>5. all \in SUBSET Listed(book)
  OBVIOUS
<1> HIDE DEF Of, all, sheet, income, rest
<1>6. \A type : T(type) \in Int
  BY <1>2, Totals DEF all
<1>7. /\ Total(book, day, all) = Total(book, day, sheet) + Total(book, day, all \ sheet)
      /\ Total(book, day, sheet) \in Int /\ Total(book, day, all \ sheet) \in Int
  BY <1>1, <1>5, TotalSplit
<1>8. /\ Total(book, day, all \ sheet) = Total(book, day, income) + Total(book, day, rest)
      /\ Total(book, day, income) \in Int /\ Total(book, day, rest) \in Int
  <2>1. all \ sheet \in SUBSET Listed(book)
    BY <1>5
  <2> QED BY <1>1, <2>1, TotalSplit DEF rest
<1>9. Total(book, day, rest) = 0
  <2>1. rest \in SUBSET Listed(book)
    BY <1>1, <1>5
  <2> QED BY <1>3, <2>1, TotalOfNone
<1>10. Total(book, day, sheet) = T("asset") + Total(book, day, sheet \ Of("asset"))
  <2>1. sheet \in SUBSET Listed(book) /\ Of("asset") \in SUBSET sheet
    BY <1>1, <1>5
  <2> QED BY <2>1, TotalSplit
<1>11. Total(book, day, sheet \ Of("asset")) = T("liability") + T("equity")
  <2>1. sheet \ Of("asset") \in SUBSET Listed(book)
    BY <1>1, <1>5
  <2>2. Total(book, day, sheet \ Of("asset"))
            = T("liability") + Total(book, day, (sheet \ Of("asset")) \ Of("liability"))
    BY <1>1, <2>1, TotalSplit
  <2> QED BY <1>1, <2>2
<1>12. Total(book, day, income) = T("revenue") + T("expense")
  <2>1. income \in SUBSET Listed(book)
    BY <1>1, <1>5
  <2>2. Total(book, day, income) = T("revenue") + Total(book, day, income \ Of("revenue"))
    BY <1>1, <2>1, TotalSplit
  <2> QED BY <1>1, <2>2
<1>13. /\ T("asset") \in Int /\ T("liability") \in Int /\ T("equity") \in Int
       /\ T("revenue") \in Int /\ T("expense") \in Int
  BY <1>6
<1> HIDE DEF T
<1>14. Total(book, day, sheet) = (T("asset") + T("liability")) + T("equity")
  BY <1>10, <1>11, <1>13
<1>15. ((((T("asset") + T("liability")) + T("equity")) + T("revenue")) + T("expense")) = 0
  BY <1>4, <1>7, <1>8, <1>9, <1>12, <1>13, <1>14
<1> QED BY <1>6, <1>12, <1>14, <1>15 DEF T, Of, sheet, income

\* What of the balance sheet the parts of the cash flow statement account for.
InFlow(book, flow) == {a \in OfType(book, {"asset", "liability", "equity"}) : Flow(book.accounts[a]) = flow}

\* An asset or a liability has a code of its type.
Placed(account) ==
    /\ account.type = "asset" => account.code \in 10 .. 19
    /\ account.type = "liability" => account.code \in 20 .. 29

\* The parts of the cash flow statement, with the cash, are the balance sheet.
LEMMA FlowsAddUp ==
    ASSUME NEW book, NEW day, AllListed(book, day),
           \A a \in AccountsOf(book, CountedLines(book, 0, day)) : Placed(book.accounts[a])
    PROVE  LET F(flow) == Total(book, day, InFlow(book, flow))
           IN  Total(book, day, OfType(book, {"asset", "liability", "equity"}))
                   = ((F("cash") + F("operating")) + F("investing")) + F("financing")
<1> DEFINE Of(flow) == InFlow(book, flow)
<1> DEFINE F(flow) == Total(book, day, Of(flow))
<1> DEFINE s0 == OfType(book, {"asset", "liability", "equity"})
<1> DEFINE s1 == s0 \ Of("cash")
<1> DEFINE s2 == s1 \ Of("operating")
<1> DEFINE s3 == s2 \ Of("investing")
<1> DEFINE s4 == s3 \ Of("financing")
<1>1. /\ Of("cash") \in SUBSET s0 /\ Of("operating") \in SUBSET s1
      /\ Of("investing") \in SUBSET s2 /\ Of("financing") \in SUBSET s3
  BY DEF InFlow
<1>2. /\ s0 \in SUBSET Listed(book) /\ s1 \in SUBSET Listed(book) /\ s2 \in SUBSET Listed(book)
      /\ s3 \in SUBSET Listed(book) /\ s4 \in SUBSET Listed(book)
  BY DEF OfType
<1>3. \A account : Placed(account) /\ account.type \in {"asset", "liability", "equity"}
                      => Flow(account) \in {"cash", "operating", "investing", "financing"}
  <2> TAKE account
  <2> SUFFICES ASSUME Placed(account), account.type \in {"asset", "liability", "equity"}
               PROVE  Flow(account) \in {"cash", "operating", "investing", "financing"}
    OBVIOUS
  <2>1. CASE account.type = "asset"
    <3>1. account.code \in 10 .. 19
      BY <2>1 DEF Placed
    <3>2. account.code = 10 \/ account.code \in {11, 17} \/ account.code \in 12 .. 19 \ {17}
      BY <3>1
    <3> QED BY <2>1, <3>2 DEF Flow
  <2>2. CASE account.type = "liability"
    <3>1. account.code \in 20 .. 29
      BY <2>2 DEF Placed
    <3>2. account.code \in {20, 21} \/ account.code \in 22 .. 29
      BY <3>1
    <3> QED BY <2>2, <3>2 DEF Flow
  <2>3. CASE account.type = "equity"
    BY <2>3 DEF Flow
  <2> QED BY <2>1, <2>2, <2>3
<1>4. \A a \in s4 : a \notin AccountsOf(book, CountedLines(book, 0, day))
  BY <1>3 DEF InFlow, OfType
<1> HIDE DEF Of, s0, s1, s2, s3, s4
<1>5. Total(book, day, s0) = F("cash") + Total(book, day, s1)
  BY <1>1, <1>2, TotalSplit DEF s1
<1>6. Total(book, day, s1) = F("operating") + Total(book, day, s2)
  BY <1>1, <1>2, TotalSplit DEF s2
<1>7. Total(book, day, s2) = F("investing") + Total(book, day, s3)
  BY <1>1, <1>2, TotalSplit DEF s3
<1>8. Total(book, day, s3) = F("financing") + Total(book, day, s4)
  BY <1>1, <1>2, TotalSplit DEF s4
<1>9. Total(book, day, s4) = 0
  BY <1>2, <1>4, TotalOfNone
<1>10. F("cash") \in Int /\ F("operating") \in Int /\ F("investing") \in Int /\ F("financing") \in Int
  <2>1. /\ Of("cash") \in SUBSET Listed(book) /\ Of("operating") \in SUBSET Listed(book)
        /\ Of("investing") \in SUBSET Listed(book) /\ Of("financing") \in SUBSET Listed(book)
    BY <1>1, <1>2
  <2> QED BY <2>1, Totals
<1> HIDE DEF F
<1>11. Total(book, day, s0) = ((F("cash") + F("operating")) + F("investing")) + F("financing")
  BY <1>5, <1>6, <1>7, <1>8, <1>9, <1>10
<1> QED BY <1>11 DEF F, Of, s0

\* What the statements and their files show, in terms of these sums.
LEMMA Statements ==
    ASSUME NEW book, NEW day, AllListed(book, day)
    PROVE  LET T(type) == Total(book, day, OfType(book, {type}))
               F(flow) == Total(book, day, InFlow(book, flow))
               sums == _sum_by_type(book, day)
               income == get_income_statement(book, day)
               sheet == get_balance_sheet(book, day)
               file == export_balance_sheet_csv(book, day)
           IN  /\ sums.asset = T("asset") /\ sums.liability = -T("liability") /\ sums.equity = -T("equity")
               /\ sums.revenue = -T("revenue") /\ sums.expense = T("expense")
               /\ income = [total_revenue |-> -T("revenue"), total_expense |-> T("expense"),
                            net_income |-> -T("revenue") - T("expense")]
               /\ export_income_statement_csv(book, day) = income
               /\ sheet.total_assets = T("asset") /\ sheet.total_liabilities = -T("liability")
               /\ sheet.total_equity = -T("equity")
               /\ file.total_assets = -(-T("asset"))
               /\ file.liabilities_and_equity = -T("liability") + -T("equity")
               /\ get_financial_kpi(book, day).net_income = -T("revenue") - T("expense")
               /\ get_cash_flow_statement(book, day).net_cash_flow =
                      (((-T("revenue") - T("expense")) + -F("operating")) + -F("investing")) + -F("financing")
               /\ export_cash_flow_csv(book, day) =
                      ((-Total(book, day, OfType(book, {"revenue", "expense"})) + -F("operating")) + -F("investing"))
                          + -F("financing")
<1> DEFINE rows == _get_account_balances(book, day)
<1> DEFINE T(type) == Total(book, day, OfType(book, {type}))
<1> DEFINE F(flow) == Total(book, day, InFlow(book, flow))
<1> DEFINE sums == _sum_by_type(book, day)
<1>1. \A types : /\ SumFunction([a \in OfType(book, types) |-> Balance(rows[a])]) = Total(book, day, OfType(book, types))
                 /\ SumFunction([a \in OfType(book, types) |-> -Balance(rows[a])]) = -Total(book, day, OfType(book, types))
  <2>1. \A types : OfType(book, types) \in SUBSET Listed(book)
    BY DEF OfType
  <2> QED BY <2>1, Totals
<1>2. \A flow : SumFunction([a \in InFlow(book, flow) |-> -Balance(rows[a])]) = -F(flow)
  <2>1. \A flow : InFlow(book, flow) \in SUBSET Listed(book)
    BY DEF InFlow, OfType
  <2> QED BY <2>1, Totals
<1>3. sums = [type \in FiveTypes |->
                 SumFunction([a \in OfType(book, {type}) |->
                     IF type \in {"asset", "expense"} THEN Balance(rows[a]) ELSE -Balance(rows[a])])]
  BY DEF _sum_by_type, SumOver, FiveTypes
<1>4. /\ sums.asset = SumFunction([a \in OfType(book, {"asset"}) |-> Balance(rows[a])])
      /\ sums.expense = SumFunction([a \in OfType(book, {"expense"}) |-> Balance(rows[a])])
      /\ sums.liability = SumFunction([a \in OfType(book, {"liability"}) |-> -Balance(rows[a])])
      /\ sums.equity = SumFunction([a \in OfType(book, {"equity"}) |-> -Balance(rows[a])])
      /\ sums.revenue = SumFunction([a \in OfType(book, {"revenue"}) |-> -Balance(rows[a])])
  <2> HIDE DEF sums, rows
  <2>1. ASSUME NEW type \in {"asset", "expense"}
        PROVE  sums[type] = SumFunction([a \in OfType(book, {type}) |-> Balance(rows[a])])
    BY <1>3 DEF FiveTypes
  <2>2. ASSUME NEW type \in {"liability", "equity", "revenue"}
        PROVE  sums[type] = SumFunction([a \in OfType(book, {type}) |-> -Balance(rows[a])])
    <3>1. type \in FiveTypes /\ type \notin {"asset", "expense"}
      BY DEF FiveTypes
    <3> QED BY <1>3, <3>1
  <2> QED BY <2>1, <2>2
<1>5. /\ sums.asset = T("asset") /\ sums.liability = -T("liability") /\ sums.equity = -T("equity")
      /\ sums.revenue = -T("revenue") /\ sums.expense = T("expense")
  BY <1>1, <1>4
<1> HIDE DEF sums
<1>6. get_income_statement(book, day) = [total_revenue |-> -T("revenue"), total_expense |-> T("expense"),
                                         net_income |-> -T("revenue") - T("expense")]
  <2> HIDE DEF T
  <2> QED BY <1>5 DEF get_income_statement, sums
<1>7. export_income_statement_csv(book, day) =
          [total_revenue |-> -T("revenue"), total_expense |-> T("expense"),
           net_income |-> -T("revenue") - T("expense")]
  <2> DEFINE revenue == SumFunction([a \in OfType(book, {"revenue"}) |-> -Balance(rows[a])])
  <2> DEFINE expense == SumFunction([a \in OfType(book, {"expense"}) |-> Balance(rows[a])])
  <2>1. export_income_statement_csv(book, day) =
            [total_revenue |-> revenue, total_expense |-> expense, net_income |-> revenue - expense]
    BY DEF export_income_statement_csv, SumOver
  <2>2. revenue = -T("revenue") /\ expense = T("expense")
    BY <1>1
  <2> HIDE DEF revenue, expense, T
  <2> QED BY <2>1, <2>2
<1>8. /\ get_balance_sheet(book, day).total_assets = T("asset")
      /\ get_balance_sheet(book, day).total_liabilities = -T("liability")
      /\ get_balance_sheet(book, day).total_equity = -T("equity")
  <2> HIDE DEF T
  <2> QED BY <1>5 DEF get_balance_sheet, sums
<1>9. /\ export_balance_sheet_csv(book, day).total_assets = -(-T("asset"))
      /\ export_balance_sheet_csv(book, day).liabilities_and_equity = -T("liability") + -T("equity")
  <2> DEFINE Credited(type) == SumFunction([a \in OfType(book, {type}) |-> -Balance(rows[a])])
  <2>1. /\ export_balance_sheet_csv(book, day).total_assets = -Credited("asset")
        /\ export_balance_sheet_csv(book, day).liabilities_and_equity = Credited("liability") + Credited("equity")
    BY DEF export_balance_sheet_csv, SumOver
  <2>2. \A type : Credited(type) = -T(type)
    BY <1>1
  <2> HIDE DEF Credited, T
  <2> QED BY <2>1, <2>2
<1>10. get_financial_kpi(book, day).net_income = -T("revenue") - T("expense")
  <2> HIDE DEF T
  <2> QED BY <1>5 DEF get_financial_kpi, compute_kpis, sums
<1>11. get_cash_flow_statement(book, day).net_cash_flow =
           (((-T("revenue") - T("expense")) + -F("operating")) + -F("investing")) + -F("financing")
  <2> DEFINE Part(flow) == SumFunction([a \in InFlow(book, flow) |-> -Balance(rows[a])])
  <2>1. get_cash_flow_statement(book, day).net_cash_flow =
            ((get_income_statement(book, day).net_income + Part("operating")) + Part("investing")) + Part("financing")
    BY DEF get_cash_flow_statement, SumOver, InFlow
  <2>2. \A flow : Part(flow) = -F(flow)
    BY <1>2
  <2>3. get_income_statement(book, day).net_income = -T("revenue") - T("expense")
    BY <1>6
  <2> HIDE DEF Part, T, F
  <2> QED BY <2>1, <2>2, <2>3
<1>12. export_cash_flow_csv(book, day) =
           ((-Total(book, day, OfType(book, {"revenue", "expense"})) + -F("operating")) + -F("investing"))
               + -F("financing")
  <2> DEFINE Part(flow) == SumFunction([a \in InFlow(book, flow) |-> -Balance(rows[a])])
  <2> DEFINE net == SumFunction([a \in OfType(book, {"revenue", "expense"}) |-> -Balance(rows[a])])
  <2>1. export_cash_flow_csv(book, day) = ((net + Part("operating")) + Part("investing")) + Part("financing")
    BY DEF export_cash_flow_csv, SumOver, InFlow
  <2>2. \A flow : Part(flow) = -F(flow)
    BY <1>2
  <2>3. net = -Total(book, day, OfType(book, {"revenue", "expense"}))
    BY <1>1
  <2> HIDE DEF Part, F, net
  <2> QED BY <2>1, <2>2, <2>3
<1> HIDE DEF T, F
<1> QED BY <1>5, <1>6, <1>7, <1>8, <1>9, <1>10, <1>11, <1>12 DEF T, F, sums

\* The statements agree, for they are different sums of the same balances.
LEMMA StatementsDoAgree ==
    ASSUME SoundBook(Book), NEW day, Posted(day) \subseteq Listed(Book), Typed(day)
    PROVE  StatementsAgree(day)
<1> DEFINE T(type) == Total(Book, day, OfType(Book, {type}))
<1> DEFINE F(flow) == Total(Book, day, InFlow(Book, flow))
<1> DEFINE S == Total(Book, day, OfType(Book, {"asset", "liability", "equity"}))
<1> DEFINE I == Total(Book, day, OfType(Book, {"revenue", "expense"}))
<1> DEFINE sheet == get_balance_sheet(Book, day)
<1> DEFINE income == get_income_statement(Book, day)
<1> DEFINE file == export_balance_sheet_csv(Book, day)
<1> DEFINE flows == get_cash_flow_statement(Book, day)
<1>0. Book.accounts = accounts /\ Posted(day) = AccountsOf(Book, CountedLines(Book, 0, day))
  BY DEF Book, Posted, AccountsOf
<1>1. AllListed(Book, day)
  BY <1>0 DEF AllListed
<1>2. /\ \A type \in FiveTypes : T(type) \in Int
      /\ ((((T("asset") + T("liability")) + T("equity")) + T("revenue")) + T("expense")) = 0
      /\ S = (T("asset") + T("liability")) + T("equity")
      /\ I = T("revenue") + T("expense")
  <2>1. \A a \in AccountsOf(Book, CountedLines(Book, 0, day)) : Book.accounts[a].type \in FiveTypes
    BY <1>0 DEF Typed, FiveTypes
  <2> QED BY <1>1, <2>1, TypesBalance
<1>3. /\ T("asset") \in Int /\ T("liability") \in Int /\ T("equity") \in Int
      /\ T("revenue") \in Int /\ T("expense") \in Int
  BY <1>2 DEF FiveTypes
<1>4. \A flow : F(flow) \in Int
  <2>1. \A flow : InFlow(Book, flow) \in SUBSET Listed(Book)
    BY DEF InFlow, OfType
  <2> QED BY <1>1, <2>1, Totals
<1>5. /\ income.net_income = -T("revenue") - T("expense")
      /\ export_income_statement_csv(Book, day) = income
      /\ sheet.total_assets = T("asset") /\ sheet.total_liabilities = -T("liability")
      /\ sheet.total_equity = -T("equity")
      /\ file.total_assets = -(-T("asset"))
      /\ file.liabilities_and_equity = -T("liability") + -T("equity")
      /\ get_financial_kpi(Book, day).net_income = -T("revenue") - T("expense")
      /\ flows.net_cash_flow =
             (((-T("revenue") - T("expense")) + -F("operating")) + -F("investing")) + -F("financing")
      /\ export_cash_flow_csv(Book, day) = ((-I + -F("operating")) + -F("investing")) + -F("financing")
  BY <1>1, Statements
<1>6. CashOf(day) = F("cash")
  <2> DEFINE cash == {a \in Listed(Book) : Flow(accounts[a]) = "cash"}
  <2>1. cash = InFlow(Book, "cash")
    <3>1. \A account : Flow(account) = "cash" => account.type = "asset"
      BY DEF Flow
    <3> QED BY <1>0, <3>1 DEF InFlow, OfType
  <2>2. SumFunction([a \in cash |-> Balance(_get_account_balances(Book, day)[a])]) = Total(Book, day, cash)
    <3>1. cash \in SUBSET Listed(Book)
      OBVIOUS
    <3> QED BY <1>1, <3>1, Totals
  <2>3. CashOf(day) = SumFunction([a \in cash |-> Balance(_get_account_balances(Book, day)[a])])
    BY DEF CashOf, SumOver
  <2> HIDE DEF cash
  <2> QED BY <2>1, <2>2, <2>3
<1>7. ASSUME \A a \in Posted(day) : Placed(accounts[a])
      PROVE  S = ((F("cash") + F("operating")) + F("investing")) + F("financing")
  BY <1>0, <1>1, <1>7, FlowsAddUp
<1>8. F("cash") \in Int /\ F("operating") \in Int /\ F("investing") \in Int /\ F("financing") \in Int
  BY <1>4
<1> HIDE DEF T, F, S, I, sheet, income, file, flows
<1>9. sheet.total_assets = (sheet.total_liabilities + sheet.total_equity) + income.net_income
  BY <1>2, <1>3, <1>5
<1>10. file.total_assets = sheet.total_assets
  BY <1>3, <1>5
<1>11. export_cash_flow_csv(Book, day) = flows.net_cash_flow
  BY <1>2, <1>3, <1>5, <1>8
<1>12. (\A a \in Posted(day) : Placed(accounts[a])) => flows.net_cash_flow = CashOf(day)
  <2> SUFFICES ASSUME \A a \in Posted(day) : Placed(accounts[a])
               PROVE  flows.net_cash_flow = CashOf(day)
    OBVIOUS
  <2>1. S = ((F("cash") + F("operating")) + F("investing")) + F("financing")
    BY <1>7
  <2>2. -T("revenue") - T("expense") = S
    BY <1>2, <1>3
  <2>3. flows.net_cash_flow = ((S + -F("operating")) + -F("investing")) + -F("financing")
    BY <1>5, <2>2
  <2>4. ((S + -F("operating")) + -F("investing")) + -F("financing") = F("cash")
    BY <1>8, <2>1
  <2> QED BY <1>6, <2>3, <2>4
<1> QED BY <1>5, <1>9, <1>10, <1>11, <1>12 DEF StatementsAgree, Placed, sheet, income, file, flows

-----------------------------------------------------------------------------
(* Books that are sound agree with themselves.                             *)

\* Posted, as the lemmas above name it.
LEMMA PostedAre ==
    ASSUME NEW day
    PROVE  Posted(day) = AccountsOf(Book, CountedLines(Book, 0, day))
BY DEF Posted, AccountsOf

\* The lines of the month up to a day are among all the lines up to that day.
LEMMA MonthIsPosted ==
    ASSUME SoundBook(Book), NEW day \in 0 .. LastDay(12 * Years - 1)
    PROVE  AccountsOf(Book, CountedLines(Book, FirstDay[MonthOf(day)], day)) \subseteq Posted(day)
<1> DEFINE first == FirstDay[MonthOf(day)]
<1> DEFINE lines == CountedLines(Book, first, day)
<1>1. first \in Nat
  <2>1. MonthOf(day) \in Months
    BY DaysHaveAMonth
  <2>2. MonthOf(day) \in 0 .. 12 * Years
    BY <2>1, BooksAssumption DEF Months
  <2> QED BY <2>2, FirstDaysGrow
<1> HIDE DEF first
<1>2. day \in Int
  OBVIOUS
<1>3. Counted(Book, first, day) \subseteq Counted(Book, 0, day)
  <2>1. \A i \in DOMAIN Book.journals : Book.journals[i].transaction_date \in Int
    BY DEF SoundBook, SoundEntry
  <2>2. \A d \in first .. day : d \in 0 .. day
    BY <1>1, <1>2
  <2> QED BY <2>2 DEF Counted
<1>4. lines \subseteq CountedLines(Book, 0, day)
  <2>1. lines = {n \in AllLines(Book) : n[1] \in Counted(Book, first, day)}
    BY CountedLinesAre
  <2>2. CountedLines(Book, 0, day) = {n \in AllLines(Book) : n[1] \in Counted(Book, 0, day)}
    BY CountedLinesAre
  <2> HIDE DEF lines
  <2> QED BY <1>3, <2>1, <2>2
<1> HIDE DEF lines
<1>5. AccountsOf(Book, lines) \subseteq AccountsOf(Book, CountedLines(Book, 0, day))
  BY <1>4 DEF AccountsOf
<1> QED BY <1>5, PostedAre DEF lines, first

\* All that BooksBalance says, of books that are sound.
LEMMA SoundBooksBalance ==
    ASSUME SoundBook(Book)
    PROVE  BooksBalance
<1> SUFFICES ASSUME NEW day \in Reported
             PROVE  /\ check_ledger(Book, day).status = "ok"
                    /\ (\A a \in Posted(day) : ~accounts[a].is_deleted) =>
                           get_monthly_balances(Book, FirstDay[MonthOf(day)], day).is_balanced
                    /\ Posted(day) \subseteq Listed(Book) =>
                          /\ LedgersAgree(day)
                          /\ Typed(day) => StatementsAgree(day)
  BY DEF BooksBalance
<1>1. day \in 0 .. LastDay(12 * Years - 1) /\ day \in Int
  BY BooksAssumption DEF Reported
<1>2. check_ledger(Book, day).status = "ok"
  BY LedgerIsOk
<1>3. ASSUME \A a \in Posted(day) : ~accounts[a].is_deleted
      PROVE  get_monthly_balances(Book, FirstDay[MonthOf(day)], day).is_balanced
  <2> DEFINE first == FirstDay[MonthOf(day)]
  <2>1. \A a \in AccountsOf(Book, CountedLines(Book, first, day)) : ~Book.accounts[a].is_deleted
    BY <1>1, <1>3, MonthIsPosted DEF Book
  <2> HIDE DEF first
  <2>2. get_monthly_balances(Book, first, day).is_balanced
    BY <2>1, MonthIsBalanced
  <2> QED BY <2>2 DEF first
<1>4. ASSUME Posted(day) \subseteq Listed(Book)
      PROVE  LedgersAgree(day)
  <2>1. /\ get_trial_balance(Book, day).is_balanced
        /\ export_trial_balance_csv(Book, day).total_debit = export_trial_balance_csv(Book, day).total_credit
    BY <1>4, PostedAre, TrialIsBalanced
  <2>2. MonthsAddUp(day)
    BY <1>1, <1>4, MonthsDoAddUp
  <2>3. LedgerRollsForward(day)
    BY <1>1, LedgerDoesRollForward
  <2>4. FileAddsUp(day)
    BY <1>1, FileDoesAddUp
  <2> QED BY <2>1, <2>2, <2>3, <2>4 DEF LedgersAgree
<1>5. ASSUME Posted(day) \subseteq Listed(Book), Typed(day)
      PROVE  StatementsAgree(day)
  BY <1>5, StatementsDoAgree
<1> QED BY <1>2, <1>3, <1>4, <1>5

-----------------------------------------------------------------------------
(* What is written is sound.                                               *)

\* A journal that create_journal keeps passed the rules VAL-001 and VAL-002.
LEMMA ValidIsBalanced ==
    ASSUME NEW lines, NEW created_by, NEW approver_id, validate(lines, created_by, approver_id) = None
    PROVE  /\ Side(lines, "debit") = Side(lines, "credit")
           /\ \A l \in DOMAIN lines : lines[l].account # None
<1> DEFINE rules == <<
            [code |-> "VAL-001", broken |-> Side(lines, "debit") # Side(lines, "credit")],
            [code |-> "VAL-002", broken |-> \/ Len(lines) < 2
                                            \/ SomeLine(lines, LAMBDA l : None \in {l.account, l.debit_credit})],
            [code |-> "VAL-005", broken |-> SomeLine(lines, LAMBDA l : l.amount = 0)],
            [code |-> "VAL-004", broken |-> SomeLine(lines, LAMBDA l : l.tax_amount < 0)],
            [code |-> "SOD-001", broken |-> approver_id # None /\ created_by = approver_id]>>
<1> DEFINE broken == {r \in DOMAIN rules : rules[r].broken}
<1>1. broken = {} 
  <2> SUFFICES ASSUME broken # {} PROVE FALSE
    OBVIOUS
  <2>1. None = rules[CHOOSE r \in broken : \A s \in broken : r <= s].code
    BY DEF validate
  <2>2. DOMAIN rules = 1 .. 5
    OBVIOUS
  <2>3. \A r \in 1 .. 5 : rules[r].code \in {"VAL-001", "VAL-002", "VAL-004", "VAL-005", "SOD-001"}
    OBVIOUS
  <2>4. broken \subseteq 1 .. 5
    BY <2>2
  <2> HIDE DEF broken, rules
  <2>5. \E r \in broken : \A s \in broken : r <= s
    <3>1. CASE 1 \in broken
      BY <2>4, <3>1
    <3>2. CASE 1 \notin broken /\ 2 \in broken
      BY <2>4, <3>2
    <3>3. CASE 1 \notin broken /\ 2 \notin broken /\ 3 \in broken
      BY <2>4, <3>3
    <3>4. CASE 1 \notin broken /\ 2 \notin broken /\ 3 \notin broken /\ 4 \in broken
      BY <2>4, <3>4
    <3>5. CASE 1 \notin broken /\ 2 \notin broken /\ 3 \notin broken /\ 4 \notin broken /\ 5 \in broken
      BY <2>4, <3>5
    <3>6. 1 \in broken \/ 2 \in broken \/ 3 \in broken \/ 4 \in broken \/ 5 \in broken
      <4>1. PICK r \in broken : TRUE
        OBVIOUS
      <4>2. r = 1 \/ r = 2 \/ r = 3 \/ r = 4 \/ r = 5
        BY <2>4
      <4> QED BY <4>1, <4>2
    <3> QED BY <3>1, <3>2, <3>3, <3>4, <3>5, <3>6
  <2> QED BY <2>1, <2>3, <2>4, <2>5, BooksAssumption
<1>2. ~rules[1].broken /\ ~rules[2].broken
  <2>1. 1 \in DOMAIN rules /\ 2 \in DOMAIN rules
    OBVIOUS
  <2> HIDE DEF rules
  <2> QED BY <1>1, <2>1
<1>3. Side(lines, "debit") = Side(lines, "credit")
  BY <1>2
<1>4. ~SomeLine(lines, LAMBDA l : None \in {l.account, l.debit_credit})
  BY <1>2
<1> QED BY <1>3, <1>4 DEF SomeLine

\* What is kept of a payload that passed is a sound entry.
LEMMA KeptIsAnEntry ==
    ASSUME NEW p \in Payloads, validate(p.lines, p.created_by, None) = None
    PROVE  SoundEntry(Kept(p), DOMAIN Chart)
<1> DEFINE lines == [i \in DOMAIN p.lines |-> KeptLine(p.lines[i])]
<1>1. Kept(p).lines = lines /\ Kept(p).transaction_date = p.transaction_date
  BY DEF Kept
<1>2. p.lines \in Seq(Range(p.lines)) /\ p.transaction_date \in 0 .. LastDay(12 * Years - 1)
  BY BooksAssumption
<1>3. Len(p.lines) \in Nat /\ DOMAIN p.lines = 1 .. Len(p.lines)
  BY <1>2
<1>4. IsAList(lines)
  <2>1. lines \in [1 .. Len(p.lines) -> Range(lines)]
    BY <1>3 DEF Range
  <2> HIDE DEF lines
  <2> QED BY <1>3, <2>1 DEF IsAList
<1>5. Side(p.lines, "debit") = Side(p.lines, "credit") /\ \A l \in DOMAIN p.lines : p.lines[l].account # None
  BY ValidIsBalanced
<1>6. \A l \in DOMAIN p.lines :
        /\ lines[l].account = p.lines[l].account /\ lines[l].debit_credit = p.lines[l].debit_credit
        /\ lines[l].amount = p.lines[l].amount /\ ~lines[l].is_deleted
  BY DEF KeptLine
<1>7. DOMAIN lines = DOMAIN p.lines
  OBVIOUS
<1> HIDE DEF lines
<1>8. \A l \in DOMAIN lines : SoundLine(lines[l], DOMAIN Chart)
  BY <1>5, <1>6, <1>7, BooksAssumption DEF SoundLine
<1>9. \A side : Side(lines, side) = Side(p.lines, side)
  <2> SUFFICES ASSUME NEW side PROVE Side(lines, side) = Side(p.lines, side)
    OBVIOUS
  <2>1. [l \in DOMAIN lines |-> IF lines[l].debit_credit = side THEN lines[l].amount ELSE 0]
          = [l \in DOMAIN p.lines |-> IF p.lines[l].debit_credit = side THEN p.lines[l].amount ELSE 0]
    BY <1>6, <1>7
  <2> QED BY <2>1 DEF Side
<1> QED BY <1>1, <1>2, <1>4, <1>5, <1>8, <1>9 DEF SoundEntry

-----------------------------------------------------------------------------
(* The invariant.                                                          *)

\* A journal keeps its number, and is a sound entry.
SoundJournal(j, i) ==
    /\ {"journal_header_id", "summary", "lines", "transaction_date"} \subseteq DOMAIN j
    /\ j.journal_header_id = i
    /\ SoundEntry(j, DOMAIN Chart)

\* No account comes or goes, or changes its side.
BooksSound ==
    /\ DOMAIN accounts = DOMAIN Chart
    /\ \A a \in DOMAIN Chart :
          "debit_credit" \in DOMAIN accounts[a] /\ accounts[a].debit_credit = Chart[a].debit_credit
    /\ IsAList(journals)
    /\ \A i \in DOMAIN journals : SoundJournal(journals[i], i)

\* What BooksBalance needs of them.
LEMMA BooksAreSound ==
    ASSUME BooksSound
    PROVE  SoundBook(Book)
<1>1. Book.accounts = accounts /\ Book.journals = journals
  BY DEF Book
<1>2. DOMAIN accounts = DOMAIN Chart /\ IsFiniteSet(DOMAIN accounts)
  BY BooksAssumption DEF BooksSound
<1>3. \A a \in DOMAIN accounts : accounts[a].debit_credit \in {"debit", "credit"}
  BY <1>2, BooksAssumption DEF BooksSound
<1>4. \A i \in DOMAIN journals : SoundEntry(journals[i], DOMAIN Chart)
  BY DEF BooksSound, SoundJournal
<1> QED BY <1>1, <1>2, <1>3, <1>4 DEF SoundBook, BooksSound

\* The amount that the scans compare.
LEMMA DebitsAreNumbers ==
    ASSUME NEW j, NEW ids, SoundEntry(j, ids)
    PROVE  TotalDebit(j.lines) \in Int
<1> DEFINE lines == j.lines
<1> DEFINE debits == [l \in DOMAIN lines |->
        IF lines[l].debit_credit = "debit" /\ ~lines[l].is_deleted THEN lines[l].amount ELSE 0]
<1>1. lines \in Seq(Range(lines)) /\ \A l \in DOMAIN lines : lines[l].amount \in Int
  BY DEF SoundEntry, SoundLine, IsAList
<1>2. TotalDebit(lines) = SumSeq(debits)
  BY DEF TotalDebit
<1> HIDE DEF lines
<1>3. Len(lines) \in Nat /\ DOMAIN lines = 1 .. Len(lines)
  BY <1>1
<1>4. debits \in Seq(Int) /\ Len(debits) = Len(lines)
  BY <1>1, <1>3
<1> HIDE DEF debits
<1>5. SumSeq(debits) = SumFunctionOnSet(debits, 1 .. Len(debits))
  BY <1>4, SumSeqIsSum
<1>6. NumbersOn(debits, 1 .. Len(debits))
  <2>1. 1 \in Int /\ Len(debits) \in Int
    BY <1>3, <1>4
  <2>2. IsFiniteSet(1 .. Len(debits))
    BY <2>1, FS_Interval
  <2> QED BY <1>4, <2>2 DEF NumbersOn
<1>7. SumFunctionOnSet(debits, 1 .. Len(debits)) \in Int
  BY <1>6, SumInt
<1> QED BY <1>2, <1>5, <1>7 DEF lines

\* Nothing that SoundJournal reads is changed when a journal is voided.
LEMMA VoidedIsSound ==
    ASSUME NEW j, NEW i, SoundJournal(j, i)
    PROVE  SoundJournal([j EXCEPT !.is_voided = TRUE], i)
<1> DEFINE voided == [j EXCEPT !.is_voided = TRUE]
<1>1. /\ DOMAIN voided = DOMAIN j /\ voided.journal_header_id = i
      /\ voided.lines = j.lines
      /\ voided.transaction_date = j.transaction_date
  BY DEF SoundJournal
<1> HIDE DEF voided
<1>2. SoundJournal(voided, i)
  BY <1>1 DEF SoundJournal, SoundEntry
<1> QED BY <1>2 DEF voided

\* There is nothing in them to begin with.
LEMMA InitBooks == Init => BooksSound
<1> SUFFICES ASSUME Init PROVE BooksSound
  OBVIOUS
<1>1. journals = <<>> /\ accounts = Chart
  BY DEF Init
<1>2. IsAList(<<>>)
  BY DEF IsAList, Range
<1>3. \A a \in DOMAIN Chart : "debit_credit" \in DOMAIN Chart[a]
  BY BooksAssumption
<1> QED BY <1>1, <1>2, <1>3 DEF BooksSound

\* Whatever is done, the books stay sound.
LEMMA BooksStaySound ==
    ASSUME BooksSound, [Next]_vars
    PROVE  BooksSound'
<1>1. ASSUME NEW p \in Payloads, create_journal(p)
      PROVE  BooksSound'
  <2>1. /\ journals' = Append(journals, Kept(p)) /\ accounts' = accounts
        /\ validate(p.lines, p.created_by, None) = None
    BY <1>1 DEF create_journal
  <2>2. Len(journals) \in Nat /\ DOMAIN journals = 1 .. Len(journals)
    BY DEF BooksSound, IsAList
  <2>3. IsAList(journals')
    <3>1. journals \in Seq(Range(journals) \cup {Kept(p)})
      BY DEF BooksSound, IsAList, Range
    <3> DEFINE more == Append(journals, Kept(p))
    <3>2. more \in Seq(Range(journals) \cup {Kept(p)})
      BY <3>1
    <3>3. more \in Seq(Range(more))
      <4> HIDE DEF more
      <4> QED BY <3>2 DEF Range
    <3> QED BY <2>1, <3>3 DEF IsAList
  <2>4. ASSUME NEW i \in DOMAIN journals'
        PROVE  SoundJournal(journals'[i], i)
    <3>1. CASE i \in DOMAIN journals
      <4>1. journals'[i] = journals[i]
        BY <2>1, <2>2, <3>1
      <4> QED BY <3>1, <4>1 DEF BooksSound
    <3>2. CASE i = Len(journals) + 1
      <4>1. journals'[i] = Kept(p)
        BY <2>1, <2>2, <3>2
      <4>2. SoundEntry(Kept(p), DOMAIN Chart)
        BY <2>1, KeptIsAnEntry
      <4> QED BY <3>2, <4>1, <4>2 DEF SoundJournal, Kept
    <3> QED BY <2>1, <2>2, <3>1, <3>2
  <2> QED BY <2>1, <2>3, <2>4 DEF BooksSound
<1>2. ASSUME NEW v \in DOMAIN journals, void_journal(v)
      PROVE  BooksSound'
  <2>1. journals' = [journals EXCEPT ![v].is_voided = TRUE] /\ accounts' = accounts
    BY <1>2 DEF void_journal
  <2>2. IsAList(journals')
    <3>1. Len(journals) \in Nat /\ DOMAIN journals' = 1 .. Len(journals)
      BY <2>1 DEF BooksSound, IsAList
    <3>2. journals' \in [1 .. Len(journals) -> Range(journals')]
      BY <2>1, <3>1 DEF Range
    <3> QED BY <3>1, <3>2 DEF IsAList
  <2>3. ASSUME NEW i \in DOMAIN journals'
        PROVE  SoundJournal(journals'[i], i)
    <3>1. i \in DOMAIN journals /\ SoundJournal(journals[i], i)
      BY <2>1 DEF BooksSound
    <3>2. CASE i # v
      <4>1. journals'[i] = journals[i]
        BY <2>1, <3>1, <3>2
      <4> QED BY <3>1, <4>1
    <3>3. CASE i = v
      <4>1. journals'[i] = [journals[i] EXCEPT !.is_voided = TRUE]
        BY <2>1, <3>1, <3>3
      <4> QED BY <3>1, <4>1, VoidedIsSound
    <3> QED BY <3>2, <3>3
  <2> QED BY <2>1, <2>2, <2>3 DEF BooksSound
<1>3. ASSUME NEW a \in DOMAIN accounts, NEW account_type, NEW is_active,
             update_account(a, account_type, is_active)
      PROVE  BooksSound'
  BY <1>3 DEF update_account, BooksSound
<1>4. ASSUME NEW a \in DOMAIN accounts, delete_account(a)
      PROVE  BooksSound'
  BY <1>4 DEF delete_account, BooksSound
<1>5. CASE UNCHANGED <<accounts, journals>>
  BY <1>5 DEF BooksSound
<1> QED BY <1>1, <1>2, <1>3, <1>4, <1>5 DEF Next, vars, close_month, scan_read, scan_write, review

\* BooksBalance (reports.py, ledger_totals.py, ledger_consistency.py, financial_kpi.py): whatever
\* was written, voided, retired, deleted, given another type or closed, the check of the ledger finds
\* nothing, and the trial balance, the months, the general ledger, the exported files and the
\* statements of a day agree, as long as the accounts with postings are listed.
THEOREM BooksAlwaysBalance == Spec => []BooksBalance
<1>1. Init => BooksSound
  BY InitBooks
<1>2. BooksSound /\ [Next]_vars => BooksSound'
  BY BooksStaySound
<1>3. BooksSound => BooksBalance
  BY BooksAreSound, SoundBooksBalance
<1> QED BY <1>1, <1>2, <1>3, PTL DEF Spec

-----------------------------------------------------------------------------
(* The members of a finite set in some order.                              *)

Rest(S, before) == CHOOSE x \in S : x \notin Range(before)

\* f[n] is a list of n members, for every n up to k.
ListsOf(f, S, k) ==
    f = [n \in 0 .. k |-> IF n = 0 THEN <<>> ELSE Append(f[n - 1], Rest(S, f[n - 1]))]

LEMMA ListsAreDefined ==
    ASSUME NEW S, NEW k \in Nat
    PROVE  \E f : ListsOf(f, S, k)
<1> DEFINE P == {i \in Nat : \E f : ListsOf(f, S, i)}
<1>1. 0 \in P
  <2>1. ListsOf([n \in 0 .. 0 |-> <<>>], S, 0)
    BY DEF ListsOf
  <2> QED BY <2>1
<1>2. ASSUME NEW i \in P
      PROVE  i + 1 \in P
  <2>1. PICK f : ListsOf(f, S, i)
    OBVIOUS
  <2> DEFINE last == Append(f[i], Rest(S, f[i]))
  <2> DEFINE g == [n \in 0 .. i + 1 |-> IF n = i + 1 THEN last ELSE f[n]]
  <2>2. ASSUME NEW n \in 0 .. i + 1
        PROVE  g[n] = IF n = 0 THEN <<>> ELSE Append(g[n - 1], Rest(S, g[n - 1]))
    <3>1. CASE n = i + 1
      <4>1. n # 0 /\ g[n - 1] = f[i] /\ g[n] = last
        BY <3>1
      <4> HIDE DEF g
      <4> QED BY <4>1
    <3>2. CASE n \in 0 .. i
      <4>1. f[n] = IF n = 0 THEN <<>> ELSE Append(f[n - 1], Rest(S, f[n - 1]))
        BY <2>1, <3>2 DEF ListsOf
      <4>2. g[n] = f[n] /\ (n # 0 => g[n - 1] = f[n - 1])
        BY <3>2
      <4> HIDE DEF g
      <4> QED BY <4>1, <4>2
    <3> QED BY <3>1, <3>2
  <2>3. g = [n \in 0 .. i + 1 |-> IF n = 0 THEN <<>> ELSE Append(g[n - 1], Rest(S, g[n - 1]))]
    BY <2>2
  <2>4. ListsOf(g, S, i + 1)
    <3> HIDE DEF g
    <3> QED BY <2>3 DEF ListsOf
  <2> QED BY <2>4
<1>3. P = Nat
  <2> HIDE DEF P
  <2>1. P \in SUBSET Nat
    BY DEF P
  <2> QED BY <1>1, <1>2, <2>1, NatSetInduction
<1> QED BY <1>3

\* A list names no member twice.
AllDistinct(list) == \A i, j \in 1 .. Len(list) : list[i] = list[j] => i = j

LEMMA SomeAreLeft ==
    ASSUME NEW S, IsFiniteSet(S), NEW list \in Seq(S), Len(list) < Cardinality(S)
    PROVE  \E x \in S : x \notin Range(list)
<1>1. list \in Surjection(1 .. Len(list), Range(list))
  BY DEF Surjection, Range
<1>2. IsFiniteSet(1 .. Len(list)) /\ Cardinality(1 .. Len(list)) = Len(list)
  BY FS_Interval
<1>3. Cardinality(Range(list)) <= Len(list)
  BY <1>1, <1>2, FS_Surjection
<1>4. Range(list) # S
  BY <1>3, FS_CardinalityType
<1> QED BY <1>4 DEF Range

LEMMA OrderIsDistinct ==
    ASSUME NEW S, IsFiniteSet(S)
    PROVE  InSomeOrder(S) \in Seq(S) /\ AllDistinct(InSomeOrder(S))
<1> DEFINE k == Cardinality(S)
<1> DEFINE list == CHOOSE f : ListsOf(f, S, k)
<1>1. k \in Nat
  BY FS_CardinalityType
<1>2. ListsOf(list, S, k)
  BY <1>1, ListsAreDefined
<1>3. InSomeOrder(S) = list[k]
  BY DEF InSomeOrder, ListsOf, Rest
<1> HIDE DEF list
<1> DEFINE P == {n \in Nat : n <= k => list[n] \in Seq(S) /\ Len(list[n]) = n /\ AllDistinct(list[n])}
<1>4. 0 \in P
  <2>1. list[0] = <<>>
    BY <1>1, <1>2 DEF ListsOf
  <2>2. list[0] \in Seq(S) /\ Len(list[0]) = 0
    BY <2>1
  <2>3. AllDistinct(list[0])
    BY <2>2 DEF AllDistinct
  <2> QED BY <2>2, <2>3
<1>5. ASSUME NEW n \in P
      PROVE  n + 1 \in P
  <2> SUFFICES ASSUME n + 1 <= k
               PROVE  list[n + 1] \in Seq(S) /\ Len(list[n + 1]) = n + 1 /\ AllDistinct(list[n + 1])
    OBVIOUS
  <2> DEFINE l == list[n]
  <2> DEFINE x == Rest(S, l)
  <2>1. n + 1 \in 0 .. k /\ n + 1 # 0 /\ (n + 1) - 1 = n /\ n < k
    BY <1>1
  <2>2. l \in Seq(S) /\ Len(l) = n /\ AllDistinct(l)
    BY <1>1, <2>1
  <2>3. list[n + 1] = Append(l, x)
    BY <1>2, <2>1 DEF ListsOf
  <2> HIDE DEF l, k
  <2>4. x \in S /\ x \notin Range(l)
    <3>1. \E y \in S : y \notin Range(l)
      BY <2>1, <2>2, SomeAreLeft DEF k
    <3> QED BY <3>1 DEF Rest
  <2> HIDE DEF x
  <2>5. Append(l, x) \in Seq(S) /\ Len(Append(l, x)) = n + 1
    BY <2>2, <2>4
  <2>6. AllDistinct(Append(l, x))
    BY <2>2, <2>4 DEF AllDistinct, Range
  <2> QED BY <2>3, <2>5, <2>6
<1>6. P = Nat
  <2> HIDE DEF P
  <2>1. P \in SUBSET Nat
    BY DEF P
  <2> QED BY <1>4, <1>5, <2>1, NatSetInduction
<1> QED BY <1>1, <1>3, <1>6

-----------------------------------------------------------------------------
(* What a scan is about to log.                                            *)

Categories == DOMAIN RiskLevel \cup {"period_end_concentration"}

Finding(journal, category) == [journal |-> journal, category |-> category, status |-> "open"]

Snapshots(books) == {_snapshot_from(j) : j \in {k \in books : ~k.is_deleted /\ ~k.is_voided}}

Breaks(books, s) == {<<s.journal_header_id, c>> : c \in run_rules(s, Snapshots(books))}

OfJournals(books) == UNION {Breaks(books, s) : s \in Snapshots(books)}

\* Nothing that the log has, and nothing but the categories of journals that were read.
LEMMA ScanFindings ==
    ASSUME NEW books, NEW log, NEW e \in scan_company(books, log)
    PROVE  /\ e = Finding(e.journal, e.category)
           /\ e.journal \in {j.journal_header_id : j \in books} \cup {None}
           /\ e.category \in Categories
           /\ <<e.journal, e.category>> \notin Logged(log)
<1>1. PICK f \in OfJournals(books) \cup {<<None, "period_end_concentration">>} :
        f \notin Logged(log) /\ e = Finding(f[1], f[2])
  BY DEF scan_company, Finding, OfJournals, Breaks, Snapshots
<1>2. e.journal = f[1] /\ e.category = f[2]
  BY <1>1 DEF Finding
<1>3. CASE f \in OfJournals(books)
  <2>1. PICK s \in Snapshots(books) : f \in Breaks(books, s)
    BY <1>3 DEF OfJournals
  <2>2. PICK c \in run_rules(s, Snapshots(books)) : f = <<s.journal_header_id, c>>
    BY <2>1 DEF Breaks
  <2>3. PICK j \in books : s = _snapshot_from(j)
    BY DEF Snapshots
  <2>4. s.journal_header_id = j.journal_header_id
    BY <2>3 DEF _snapshot_from
  <2>5. c \in Categories
    BY DEF run_rules, Categories
  <2> QED BY <1>1, <1>2, <2>2, <2>3, <2>4, <2>5
<1>4. CASE f = <<None, "period_end_concentration">>
  BY <1>1, <1>2, <1>4 DEF Categories
<1> QED BY <1>1, <1>3, <1>4

LEMMA CategoriesAreFinite == IsFiniteSet(Categories)
<1>1. /\ IsFiniteSet({"high_amount"}) /\ IsFiniteSet({"round_amount"}) /\ IsFiniteSet({"weekend_entry"})
      /\ IsFiniteSet({"backdated"}) /\ IsFiniteSet({"sod_conflict"}) /\ IsFiniteSet({"duplicate"})
      /\ IsFiniteSet({"period_end_concentration"})
  BY FS_Singleton
<1>2. IsFiniteSet({"high_amount"} \cup {"round_amount"})
  BY <1>1, FS_Union
<1>3. IsFiniteSet({"high_amount"} \cup {"round_amount"} \cup {"weekend_entry"})
  BY <1>1, <1>2, FS_Union
<1>4. IsFiniteSet({"high_amount"} \cup {"round_amount"} \cup {"weekend_entry"} \cup {"backdated"})
  BY <1>1, <1>3, FS_Union
<1>5. IsFiniteSet({"sod_conflict"} \cup {"duplicate"})
  BY <1>1, FS_Union
<1>6. IsFiniteSet({"sod_conflict"} \cup {"duplicate"} \cup {"period_end_concentration"})
  BY <1>1, <1>5, FS_Union
<1>7. Categories = ({"high_amount"} \cup {"round_amount"} \cup {"weekend_entry"} \cup {"backdated"})
                       \cup ({"sod_conflict"} \cup {"duplicate"} \cup {"period_end_concentration"})
  BY DEF Categories, RiskLevel
<1> QED BY <1>4, <1>6, <1>7, FS_Union

\* The journals of a company are numbered as they were written.
LEMMA ScanIsFinite ==
    ASSUME NEW list, IsAList(list), \A i \in DOMAIN list : list[i].journal_header_id = i, NEW log
    PROVE  IsFiniteSet(scan_company(Range(list), log))
<1> DEFINE found == scan_company(Range(list), log)
<1> DEFINE ids == (1 .. Len(list)) \cup {None}
<1> DEFINE pairs == ids \X Categories
<1> DEFINE all == {Finding(p[1], p[2]) : p \in pairs}
<1> DEFINE f == [p \in pairs |-> Finding(p[1], p[2])]
<1>1. IsFiniteSet(pairs)
  <2>1. IsFiniteSet(ids)
    <3>1. Len(list) \in Nat
      BY DEF IsAList
    <3>2. 1 \in Int /\ Len(list) \in Int
      BY <3>1
    <3>3. IsFiniteSet(1 .. Len(list))
      BY <3>2, FS_Interval
    <3>4. IsFiniteSet({None})
      BY FS_Singleton
    <3> QED BY <3>3, <3>4, FS_Union
  <2> HIDE DEF ids
  <2> QED BY <2>1, CategoriesAreFinite, FS_Product
<1>2. f \in Surjection(pairs, all)
  BY DEF Surjection
<1>3. IsFiniteSet(all)
  <2> HIDE DEF f, all, pairs
  <2> QED BY <1>1, <1>2, FS_Surjection
<1>4. found \subseteq all
  <2> SUFFICES ASSUME NEW e \in found PROVE e \in all
    OBVIOUS
  <2> HIDE DEF found
  <2>1. /\ e = Finding(e.journal, e.category)
        /\ e.journal \in {j.journal_header_id : j \in Range(list)} \cup {None}
        /\ e.category \in Categories
    BY ScanFindings DEF found
  <2>2. e.journal \in ids
    BY <2>1 DEF IsAList, Range
  <2>3. <<e.journal, e.category>> \in pairs
    BY <2>1, <2>2
  <2> HIDE DEF ids, pairs
  <2>4. PICK p \in pairs : e = Finding(p[1], p[2])
    BY <2>1, <2>3
  <2> QED BY <2>4
<1> QED
  <2> HIDE DEF all, found
  <2> QED BY <1>3, <1>4, FS_Subset DEF found

\* Every rule that a journal breaks is found, if the log is empty.
LEMMA ScanFinds ==
    ASSUME NEW books, NEW j \in books, Counts(j),
           NEW c \in run_rules(_snapshot_from(j), Snapshots(books))
    PROVE  <<j.journal_header_id, c>> \in Logged(scan_company(books, {}))
<1> DEFINE s == _snapshot_from(j)
<1> DEFINE found == scan_company(books, {})
<1>1. s \in Snapshots(books)
  BY DEF Counts, Snapshots
<1>2. s.journal_header_id = j.journal_header_id
  BY DEF _snapshot_from
<1> DEFINE f == <<j.journal_header_id, c>>
<1>3. f \in OfJournals(books)
  BY <1>1, <1>2 DEF OfJournals, Breaks
<1>4. <<j.journal_header_id, c>> \notin Logged({})
  BY DEF Logged
<1>5. Finding(j.journal_header_id, c) \in found
  <2>1. PICK of_company :
            found = {Finding(g[1], g[2]) : g \in (OfJournals(books) \cup of_company) \ Logged({})}
    BY DEF scan_company, Finding, OfJournals, Breaks, Snapshots
  <2> DEFINE logged == (OfJournals(books) \cup of_company) \ Logged({})
  <2>2. f \in logged
    BY <1>3, <1>4
  <2> HIDE DEF found, logged
  <2>3. Finding(f[1], f[2]) \in found
    BY <2>1, <2>2 DEF logged
  <2>4. f[1] = j.journal_header_id /\ f[2] = c
    OBVIOUS
  <2> QED BY <2>3, <2>4
<1>6. /\ Finding(j.journal_header_id, c).journal = j.journal_header_id
      /\ Finding(j.journal_header_id, c).category = c
  BY DEF Finding
<1>7. \A d \in found : <<d.journal, d.category>> \in Logged(found)
  <2> HIDE DEF found
  <2> QED BY DEF Logged
<1> HIDE DEF found
<1>8. <<j.journal_header_id, c>> \in Logged(found)
  BY <1>5, <1>6, <1>7
<1> QED BY <1>8 DEF found

-----------------------------------------------------------------------------
(* What the scans rely on.                                                 *)

PairOf(d) == <<d.journal, d.category>>

Unlogged(e, log) == \A i \in DOMAIN log : PairOf(e) # PairOf(log[i])

\* Unless it is behind, a scan is about to log what nobody has logged.
ScanSound(a) ==
    /\ IsFiniteSet(scan[a])
    /\ \A e \in scan[a] : e = Finding(e.journal, e.category)
    /\ a \in behind \/ \A e \in scan[a] : Unlogged(e, detections)

ScansSound ==
    /\ scan = [a \in Auditors |-> scan[a]]
    /\ IsAList(detections)
    /\ \A i \in DOMAIN detections : {"journal", "category"} \subseteq DOMAIN detections[i]
    /\ \A a \in Auditors : scan[a] = None \/ ScanSound(a)
    /\ overlapped \/ LoggedOnce

LEMMA FindingsEndInTheLog ==
    ASSUME NEW log, IsAList(log), NEW S, NEW order \in Seq(S)
    PROVE  /\ IsAList(log \o order)
           /\ Len(log) \in Nat /\ DOMAIN log = 1 .. Len(log)
           /\ \A i \in DOMAIN (log \o order) :
                \/ i \in DOMAIN log /\ (log \o order)[i] = log[i]
                \/ /\ i - Len(log) \in 1 .. Len(order)
                   /\ (log \o order)[i] = order[i - Len(log)] /\ order[i - Len(log)] \in S
<1> DEFINE all == Range(log) \cup S
<1>1. log \in Seq(all) /\ order \in Seq(all)
  BY DEF IsAList
<1>2. log \o order \in Seq(all)
  BY <1>1
<1>3. IsAList(log \o order)
  <2> DEFINE more == log \o order
  <2>1. more \in Seq(Range(more))
    <3> HIDE DEF more, all
    <3>1. more \in Seq(all)
      BY <1>2 DEF more
    <3> QED BY <3>1 DEF Range
  <2> QED BY <2>1 DEF IsAList
<1>4. Len(log) \in Nat /\ DOMAIN log = 1 .. Len(log) /\ Len(order) \in Nat
  BY DEF IsAList
<1> HIDE DEF all
<1>5. /\ Len(log \o order) = Len(log) + Len(order)
      /\ DOMAIN (log \o order) = 1 .. (Len(log) + Len(order))
      /\ \A i \in 1 .. (Len(log) + Len(order)) :
            (log \o order)[i] = IF i <= Len(log) THEN log[i] ELSE order[i - Len(log)]
  BY <1>1
<1>6. \A i \in 1 .. Len(order) : order[i] \in S
  OBVIOUS
<1> QED BY <1>3, <1>4, <1>5, <1>6

LEMMA ScanReadIsSound ==
    ASSUME BooksSound, ScansSound, NEW a \in Auditors, scan_read(a)
    PROVE  ScansSound'
<1> DEFINE found == scan_company(Range(journals), Range(detections))
<1>1. /\ scan' = [scan EXCEPT ![a] = found]
      /\ UNCHANGED <<journals, detections, behind, overlapped>>
  BY DEF scan_read
<1>2. IsFiniteSet(found)
  <2>1. \A i \in DOMAIN journals : journals[i].journal_header_id = i
    BY DEF BooksSound, SoundJournal
  <2> QED BY <2>1, ScanIsFinite DEF BooksSound
<1>3. \A e \in found : e = Finding(e.journal, e.category) /\ Unlogged(e, detections)
  <2> SUFFICES ASSUME NEW e \in found
               PROVE  e = Finding(e.journal, e.category) /\ Unlogged(e, detections)
    OBVIOUS
  <2> HIDE DEF found
  <2>1. e = Finding(e.journal, e.category) /\ <<e.journal, e.category>> \notin Logged(Range(detections))
    BY ScanFindings DEF found
  <2>2. \A i \in DOMAIN detections : PairOf(detections[i]) \in Logged(Range(detections))
    BY DEF Logged, Range, PairOf
  <2> QED BY <2>1, <2>2 DEF Unlogged, PairOf
<1> HIDE DEF found
<1>4. scan' = [b \in Auditors |-> scan'[b]]
  BY <1>1 DEF ScansSound
<1>5. ASSUME NEW b \in Auditors
      PROVE  scan'[b] = None \/ ScanSound(b)'
  <2>1. CASE b = a
    <3>1. scan'[b] = found
      BY <1>1, <2>1 DEF ScansSound
    <3> QED BY <1>1, <1>2, <1>3, <3>1 DEF ScanSound
  <2>2. CASE b # a
    <3>1. scan'[b] = scan[b]
      BY <1>1, <2>2 DEF ScansSound
    <3> QED BY <1>1, <3>1 DEF ScansSound, ScanSound
  <2> QED BY <2>1, <2>2
<1> QED BY <1>1, <1>4, <1>5 DEF ScansSound, LoggedOnce

LEMMA ScanWriteIsSound ==
    ASSUME ScansSound, NEW a \in Auditors, scan_write(a)
    PROVE  ScansSound'
<1> DEFINE order == InSomeOrder(scan[a])
<1> DEFINE more == detections \o order
<1>1. /\ scan[a] # None
      /\ detections' = more
      /\ scan' = [scan EXCEPT ![a] = None]
      /\ behind' = {b \in Auditors \ {a} : scan[b] # None}
      /\ overlapped' = (overlapped \/ a \in behind)
  BY DEF scan_write
<1>2. ScanSound(a)
  BY <1>1 DEF ScansSound
<1>3. order \in Seq(scan[a]) /\ AllDistinct(order)
  BY <1>2, OrderIsDistinct DEF ScanSound
<1> HIDE DEF order
<1>4. /\ IsAList(more)
      /\ Len(detections) \in Nat /\ DOMAIN detections = 1 .. Len(detections)
      /\ \A i \in DOMAIN more :
            \/ i \in DOMAIN detections /\ more[i] = detections[i]
            \/ /\ i - Len(detections) \in 1 .. Len(order)
               /\ more[i] = order[i - Len(detections)] /\ order[i - Len(detections)] \in scan[a]
  BY <1>3, FindingsEndInTheLog DEF ScansSound
<1>5. DOMAIN more \subseteq Int
  BY <1>4 DEF IsAList
<1> HIDE DEF more
<1>6. \A e \in scan[a] : {"journal", "category"} \subseteq DOMAIN e /\ e.status = "open"
  BY <1>2 DEF ScanSound, Finding
<1>7. ASSUME NEW b \in Auditors
      PROVE  scan'[b] = None \/ ScanSound(b)'
  <2>1. CASE b = a
    BY <1>1, <2>1 DEF ScansSound
  <2>2. CASE b # a
    <3>1. scan'[b] = scan[b]
      BY <1>1, <2>2 DEF ScansSound
    <3>2. scan[b] = None \/ b \in behind'
      BY <1>1, <2>2
    <3> QED BY <3>1, <3>2 DEF ScansSound, ScanSound
  <2> QED BY <2>1, <2>2
<1>8. ASSUME ~overlapped, a \notin behind
      PROVE  \A i, j \in DOMAIN more : PairOf(more[i]) = PairOf(more[j]) => i = j
  <2>1. \A i, j \in DOMAIN detections : PairOf(detections[i]) = PairOf(detections[j]) => i = j
    BY <1>8 DEF ScansSound, LoggedOnce, PairOf
  <2>2. \A e \in scan[a], i \in DOMAIN detections : PairOf(e) # PairOf(detections[i])
    BY <1>2, <1>8 DEF ScanSound, Unlogged
  <2>3. \A d, e \in scan[a] : PairOf(d) = PairOf(e) => d = e
    <3> SUFFICES ASSUME NEW d \in scan[a], NEW e \in scan[a], PairOf(d) = PairOf(e)
                 PROVE  d = e
      OBVIOUS
    <3>1. d.journal = e.journal /\ d.category = e.category
      BY DEF PairOf
    <3> QED BY <1>2, <3>1 DEF ScanSound
  <2> SUFFICES ASSUME NEW i \in DOMAIN more, NEW j \in DOMAIN more, PairOf(more[i]) = PairOf(more[j])
               PROVE  i = j
    OBVIOUS
  <2>4. CASE i \in DOMAIN detections /\ more[i] = detections[i]
    BY <1>4, <2>1, <2>2, <2>4
  <2>5. CASE /\ i - Len(detections) \in 1 .. Len(order)
             /\ more[i] = order[i - Len(detections)] /\ order[i - Len(detections)] \in scan[a]
    <3>1. CASE j \in DOMAIN detections /\ more[j] = detections[j]
      BY <2>2, <2>5, <3>1
    <3>2. CASE /\ j - Len(detections) \in 1 .. Len(order)
               /\ more[j] = order[j - Len(detections)] /\ order[j - Len(detections)] \in scan[a]
      <4>1. order[i - Len(detections)] = order[j - Len(detections)]
        BY <2>3, <2>5, <3>2
      <4>2. i - Len(detections) = j - Len(detections)
        BY <1>3, <2>5, <3>2, <4>1 DEF AllDistinct
      <4> QED BY <1>4, <1>5, <4>2
    <3> QED BY <1>4, <3>1, <3>2
  <2> QED BY <1>4, <2>4, <2>5
<1>9. overlapped' \/ LoggedOnce'
  BY <1>1, <1>8 DEF LoggedOnce, PairOf
<1>10. \A i \in DOMAIN detections' : {"journal", "category"} \subseteq DOMAIN detections'[i]
  BY <1>1, <1>4, <1>6 DEF ScansSound
<1>11. scan' = [b \in Auditors |-> scan'[b]]
  BY <1>1 DEF ScansSound
<1> QED BY <1>1, <1>4, <1>7, <1>9, <1>10, <1>11 DEF ScansSound

LEMMA ReviewIsSound ==
    ASSUME ScansSound, NEW r \in DOMAIN detections, NEW status, review(r, status)
    PROVE  ScansSound'
<1>1. /\ detections' = [detections EXCEPT ![r].status = status]
      /\ UNCHANGED <<scan, behind, overlapped>>
  BY DEF review
<1>2. DOMAIN detections' = DOMAIN detections
  BY <1>1
<1>3. \A i \in DOMAIN detections :
        /\ DOMAIN detections'[i] = DOMAIN detections[i]
        /\ detections'[i].journal = detections[i].journal
        /\ detections'[i].category = detections[i].category
  BY <1>1 DEF ScansSound
<1>4. \A i \in DOMAIN detections : PairOf(detections'[i]) = PairOf(detections[i])
  BY <1>3 DEF PairOf
<1>5. IsAList(detections')
  <2>1. Len(detections) \in Nat /\ DOMAIN detections' = 1 .. Len(detections)
    BY <1>2 DEF ScansSound, IsAList
  <2>2. detections' \in [1 .. Len(detections) -> Range(detections')]
    BY <1>1, <2>1 DEF Range
  <2> QED BY <2>1, <2>2 DEF IsAList
<1>6. \A e : Unlogged(e, detections) => Unlogged(e, detections')
  BY <1>2, <1>4 DEF Unlogged
<1>7. \A b \in Auditors : scan'[b] = None \/ ScanSound(b)'
  BY <1>1, <1>6 DEF ScansSound, ScanSound
<1>8. overlapped' \/ LoggedOnce'
  BY <1>1, <1>2, <1>3 DEF ScansSound, LoggedOnce
<1>9. scan' = [b \in Auditors |-> scan'[b]]
  BY <1>1 DEF ScansSound
<1> QED BY <1>2, <1>3, <1>5, <1>7, <1>8, <1>9 DEF ScansSound

LEMMA ScansStaySound ==
    ASSUME BooksSound, ScansSound, [Next]_vars
    PROVE  ScansSound'
<1>1. ASSUME NEW a \in Auditors, scan_read(a) PROVE ScansSound'
  BY <1>1, ScanReadIsSound
<1>2. ASSUME NEW a \in Auditors, scan_write(a) PROVE ScansSound'
  BY <1>2, ScanWriteIsSound
<1>3. ASSUME NEW d \in DOMAIN detections, NEW status \in VALID_STATUSES, review(d, status) PROVE ScansSound'
  BY <1>3, ReviewIsSound
<1>4. CASE UNCHANGED <<detections, scan, behind, overlapped>>
  BY <1>4 DEF ScansSound, ScanSound, LoggedOnce
<1> QED BY <1>1, <1>2, <1>3, <1>4
    DEF Next, vars, create_journal, void_journal, update_account, delete_account, close_month

-----------------------------------------------------------------------------
(* What an inspection reports.                                             *)

LEMMA ReportsAreFound ==
    ASSUME BooksSound
    PROVE  ScanSeesTheSame
<1> DEFINE books == Range(journals)
<1> DEFINE found == Logged(scan_company(books, {}))
<1> SUFFICES ASSUME NEW i \in DOMAIN journals, Counts(journals[i])
             PROVE  /\ (\E p \in inspect(journals[i], books).duplicate :
                            Counterparty(journals[p]) = Counterparty(journals[i])) => <<i, "duplicate">> \in found
                    /\ inspect(journals[i], books).large_amount => <<i, "high_amount">> \in found
  BY DEF ScanSeesTheSame
<1> DEFINE j == journals[i]
<1> DEFINE s == _snapshot_from(j)
<1>1. j \in books /\ SoundJournal(j, i)
  BY DEF BooksSound, Range
<1>2. \A c \in run_rules(s, Snapshots(books)) : <<i, c>> \in found
  <2>1. j.journal_header_id = i
    BY <1>1 DEF SoundJournal
  <2>2. \A c \in run_rules(s, Snapshots(books)) : <<j.journal_header_id, c>> \in found
    BY <1>1, ScanFinds
  <2> HIDE DEF found, books, s, j
  <2> QED BY <2>1, <2>2
<1>3. ASSUME inspect(j, books).large_amount
      PROVE  "high_amount" \in run_rules(s, Snapshots(books))
  <2>1. s.total_amount = TotalDebit(j.lines) /\ TotalDebit(j.lines) \in Int
    BY <1>1, DebitsAreNumbers DEF _snapshot_from, SoundJournal
  <2>2. TotalDebit(j.lines) >= LARGE_AMOUNT_THRESHOLD
    BY <1>3 DEF inspect
  <2>3. detect_high_amount(s)
    <3> HIDE DEF s
    <3> QED BY <2>1, <2>2 DEF detect_high_amount, LARGE_AMOUNT_THRESHOLD, HIGH_AMOUNT_THRESHOLD
  <2> HIDE DEF s
  <2> QED BY <2>3 DEF run_rules, RiskLevel
<1>4. ASSUME NEW d \in inspect(j, books).duplicate, Counterparty(journals[d]) = Counterparty(j)
      PROVE  "duplicate" \in run_rules(s, Snapshots(books))
  <2>1. PICK p \in Repeats(j, books) : p.journal_header_id = d
    BY <1>4 DEF inspect
  <2>2. /\ p \in books /\ ~p.is_deleted /\ ~p.is_voided
        /\ p.journal_header_id # j.journal_header_id
        /\ p.transaction_date = j.transaction_date
        /\ TotalDebit(p.lines) = TotalDebit(j.lines)
    BY DEF Repeats
  <2>3. Counterparty(p) = Counterparty(j)
    <3>1. PICK k \in DOMAIN journals : p = journals[k]
      BY <2>2 DEF Range
    <3>2. k = d
      BY <2>1, <3>1 DEF BooksSound, SoundJournal
    <3> QED BY <1>4, <3>1, <3>2
  <2>4. _snapshot_from(p) \in Snapshots(books)
    BY <2>2 DEF Snapshots
  <2>5. detect_duplicate(s, Snapshots(books))
    <3>1. /\ _snapshot_from(p).journal_header_id # s.journal_header_id
          /\ _snapshot_from(p).total_amount = s.total_amount
          /\ _snapshot_from(p).transaction_date = s.transaction_date
          /\ _snapshot_from(p).counterparty = s.counterparty
      BY <2>2, <2>3 DEF _snapshot_from
    <3> HIDE DEF s
    <3> QED BY <2>4, <3>1 DEF detect_duplicate
  <2> HIDE DEF s
  <2> QED BY <2>5 DEF run_rules, RiskLevel
<1> HIDE DEF found, s
<1> QED BY <1>2, <1>3, <1>4

-----------------------------------------------------------------------------

\* FoundOnce (scan_company of audit_detection.py, inspect of audit_inspection.py): a
\* detection is logged once unless scans overlapped, and what an inspection reports as large,
\* or as repeated with the same counterparty, a scan finds: the counterparty is what only the
\* scan compares.
THEOREM DetectionsAreFoundOnce == Spec => []FoundOnce
<1> DEFINE Sound == BooksSound /\ ScansSound
<1>1. Init => Sound
  <2> SUFFICES ASSUME Init PROVE BooksSound /\ ScansSound
    OBVIOUS
  <2>0. BooksSound
    BY InitBooks
  <2>1. detections = <<>> /\ scan = [a \in Auditors |-> None]
    BY DEF Init
  <2>2. IsAList(<<>>)
    BY DEF IsAList, Range
  <2> QED BY <2>0, <2>1, <2>2 DEF ScansSound, LoggedOnce
<1>2. Sound /\ [Next]_vars => Sound'
  BY BooksStaySound, ScansStaySound
<1>3. Sound => FoundOnce
  BY ReportsAreFound DEF FoundOnce, ScansSound
<1> QED BY <1>1, <1>2, <1>3, PTL DEF Spec

-----------------------------------------------------------------------------
(* The next run of a schedule.                                             *)

\* The job scheduler's calendar is the calendar.
LEMMA OneCalendar ==
    /\ Jobs!Months = Months /\ Jobs!FirstDay = FirstDay
    /\ \A m : Jobs!monthrange(m) = monthrange(m)
    /\ \A d : Jobs!MonthOf(d) = MonthOf(d) /\ Jobs!DayOfMonth(d) = DayOfMonth(d) /\ Jobs!weekday(d) = d % 7
    /\ \A m, d : Jobs!Clamped(m, d) = Clamped(m, d)
<1>1. \A m : Jobs!monthrange(m) = monthrange(m)
  BY DEF Jobs!monthrange, monthrange, Jobs!IsLeap, IsLeap
<1>2. Jobs!Months = Months
  BY DEF Jobs!Months, Months
<1>3. Jobs!FirstDay = FirstDay
  BY DEF Jobs!FirstDay, FirstDay, Jobs!monthrange, monthrange, Jobs!IsLeap, IsLeap
<1>4. \A d : Jobs!MonthOf(d) = MonthOf(d)
  BY <1>2, <1>3 DEF Jobs!MonthOf, MonthOf
<1>5. \A d : Jobs!DayOfMonth(d) = DayOfMonth(d)
  BY <1>3, <1>4 DEF Jobs!DayOfMonth, DayOfMonth
<1>6. \A d : Jobs!weekday(d) = d % 7
  BY DEF Jobs!weekday
<1>7. \A m, d : Jobs!Clamped(m, d) = Clamped(m, d)
  BY <1>1, <1>3 DEF Jobs!Clamped, Clamped
<1> QED BY <1>1, <1>2, <1>3, <1>4, <1>5, <1>6, <1>7

\* A moment is a day and an hour.
LEMMA HourOfADay ==
    ASSUME NEW d \in Int, NEW h \in 0 .. 23
    PROVE  Jobs!At(d, h) \in Int /\ Jobs!At(d, h) % 24 = h /\ Jobs!DayOf(Jobs!At(d, h)) = d
BY DEF Jobs!At, Jobs!DayOf

LEMMA Moments ==
    ASSUME NEW t \in Nat
    PROVE  Jobs!DayOf(t) \in Nat /\ 24 * Jobs!DayOf(t) <= t /\ t < 24 * Jobs!DayOf(t) + 24
BY DEF Jobs!At, Jobs!DayOf

\* What is said of a schedule's answer.
IsEarliest(s, moment, next) ==
    /\ next % 24 = s.run_hour
    /\ Jobs!Matches(s, Jobs!DayOf(next)) /\ Jobs!At(Jobs!DayOf(next), s.run_hour) > moment
    /\ \A day \in Jobs!DayOf(moment) .. (Jobs!DayOf(next) - 1) :
          ~(Jobs!Matches(s, day) /\ Jobs!At(day, s.run_hour) > moment)

LEMMA DailyIsEarliest ==
    ASSUME NEW s, Jobs!Accepted(s), s.frequency = "daily", NEW moment \in Nat
    PROVE  IsEarliest(s, moment, Jobs!compute_next_run(s, moment))
<1> DEFINE today == Jobs!DayOf(moment)
<1> DEFINE h == s.run_hour
<1>1. h \in 0 .. 23 /\ h \in Int
  BY DEF Jobs!Accepted
<1>2. today \in Nat /\ 24 * today <= moment /\ moment < 24 * today + 24
  BY Moments
<1>3. Jobs!compute_next_run(s, moment) = Jobs!Roll(Jobs!At(today, h), moment, 1)
  BY DEF Jobs!compute_next_run
<1>4. \A d : Jobs!Matches(s, d)
  BY DEF Jobs!Matches
<1> HIDE DEF today, h
<1>5. \A d \in Int : Jobs!At(d, h) = 24 * d + h
  BY DEF Jobs!At
<1>6. PICK d \in {today, today + 1} :
         /\ Jobs!Roll(Jobs!At(today, h), moment, 1) = Jobs!At(d, h) /\ Jobs!At(d, h) > moment
         /\ d = today + 1 => Jobs!At(today, h) <= moment
  BY <1>1, <1>2, <1>5 DEF Jobs!Roll
<1>7. d \in Int /\ Jobs!At(d, h) % 24 = h /\ Jobs!DayOf(Jobs!At(d, h)) = d
  <2>1. d \in Int
    BY <1>2
  <2> QED BY <1>1, <2>1, HourOfADay
<1>8. ASSUME NEW day \in today .. (d - 1)
      PROVE  ~(Jobs!At(day, h) > moment)
  BY <1>1, <1>2, <1>5, <1>6
<1> QED BY <1>3, <1>4, <1>6, <1>7, <1>8 DEF IsEarliest, today, h

LEMMA WeeklyIsEarliest ==
    ASSUME NEW s, Jobs!Accepted(s), s.frequency = "weekly", NEW moment \in Nat
    PROVE  IsEarliest(s, moment, Jobs!compute_next_run(s, moment))
<1> DEFINE today == Jobs!DayOf(moment)
<1> DEFINE h == s.run_hour
<1> DEFINE w == s.run_day
<1> DEFINE first == today + ((w - (today % 7)) % 7)
<1>1. h \in 0 .. 23 /\ h \in Int /\ w \in 0 .. 6 /\ w \in Int
  BY DEF Jobs!Accepted
<1>2. today \in Nat /\ 24 * today <= moment /\ moment < 24 * today + 24
  BY Moments
<1>3. Jobs!compute_next_run(s, moment) = Jobs!Roll(Jobs!At(first, h), moment, 7)
  BY OneCalendar DEF Jobs!compute_next_run
<1>4. \A d : Jobs!Matches(s, d) <=> d % 7 = w
  BY OneCalendar DEF Jobs!Matches
<1>5. /\ first \in Nat /\ today <= first /\ first < today + 7 /\ first % 7 = w /\ (first + 7) % 7 = w
      /\ \A d \in today .. (first + 6) : d % 7 = w => d = first
  <2> HIDE DEF today, w
  <2>1. first \in Nat /\ today <= first /\ first < today + 7
    BY <1>1, <1>2
  <2>2. first % 7 = w
    BY <1>1, <1>2
  <2>3. (first + 7) % 7 = w
    BY <1>1, <1>2, <2>1, <2>2
  <2> HIDE DEF first
  <2>4. ASSUME NEW d \in today .. (first + 6), d % 7 = w
        PROVE  d = first
    BY <1>2, <2>1, <2>2, <2>4
  <2> QED BY <2>1, <2>2, <2>3, <2>4
<1> HIDE DEF today, h, w, first
<1>6. \A d \in Int : Jobs!At(d, h) = 24 * d + h
  BY DEF Jobs!At
<1>7. PICK d \in {first, first + 7} :
         /\ Jobs!Roll(Jobs!At(first, h), moment, 7) = Jobs!At(d, h) /\ Jobs!At(d, h) > moment
         /\ d = first + 7 => Jobs!At(first, h) <= moment
  BY <1>1, <1>2, <1>5, <1>6 DEF Jobs!Roll
<1>8. d \in Int /\ Jobs!At(d, h) % 24 = h /\ Jobs!DayOf(Jobs!At(d, h)) = d /\ d % 7 = w
  <2>1. d \in Int /\ d % 7 = w
    BY <1>5
  <2> QED BY <1>1, <2>1, HourOfADay
<1>9. ASSUME NEW day \in today .. (d - 1), day % 7 = w
      PROVE  ~(Jobs!At(day, h) > moment)
  <2>1. day = first /\ d = first + 7
    BY <1>2, <1>5, <1>7, <1>9
  <2> QED BY <1>1, <1>5, <1>6, <1>7, <2>1
<1> QED BY <1>3, <1>4, <1>7, <1>8, <1>9 DEF IsEarliest, today, h

\* The day of a month on which a monthly schedule runs is the only one that it stands for.
LEMMA OneDayAMonth ==
    ASSUME NEW s, Jobs!Accepted(s), s.frequency = "monthly", s.run_day \in Nat, NEW m \in Months
    PROVE  LET day == Clamped(m, s.run_day)
           IN  /\ day \in Nat /\ FirstDay[m] <= day /\ day < FirstDay[m + 1]
               /\ MonthOf(day) = m /\ Jobs!Matches(s, day)
               /\ \A d \in Nat : d < FirstDay[12 * Years] /\ MonthOf(d) = m /\ Jobs!Matches(s, d) => d = day
<1> DEFINE r == s.run_day
<1> DEFINE day == Clamped(m, r)
<1> DEFINE k == 12 * Years
<1>0. k \in Nat /\ (k - 1) + 1 = k /\ m \in 0 .. k /\ m + 1 \in 0 .. k /\ k \in 0 .. k
  BY MomentsAssumption DEF Months
<1>1. r \in Nat /\ r >= 1
  BY DEF Jobs!Accepted
<1>2. monthrange(m) \in 28 .. 31 /\ FirstDay[m + 1] = FirstDay[m] + monthrange(m)
  BY MonthRange, MonthsFollow
<1>3. FirstDay[m] \in Nat /\ FirstDay[m + 1] \in Nat /\ FirstDay[k] \in Nat
  BY <1>0, FirstDaysGrow
<1>4. FirstDay[m + 1] <= FirstDay[k]
  <2>1. m + 1 = k \/ m + 1 < k
    BY <1>0
  <2> QED BY <1>0, <1>3, <2>1, FirstDaysGrow
<1>5. LastDay(k - 1) = FirstDay[k] - 1
  BY <1>0 DEF LastDay
<1> HIDE DEF r, k
<1>6. day \in Nat /\ FirstDay[m] <= day /\ day < FirstDay[m + 1]
  BY <1>1, <1>2, <1>3 DEF Clamped
<1>7. \A d \in Nat : d < FirstDay[k] => d \in 0 .. LastDay(12 * Years - 1)
  BY <1>3, <1>5 DEF k
<1>8. MonthOf(day) = m
  <2> HIDE DEF day
  <2>1. day \in 0 .. LastDay(12 * Years - 1)
    BY <1>3, <1>4, <1>6, <1>7
  <2> QED BY <1>6, <2>1, DaysHaveAMonth
<1>9. \A d \in Nat : MonthOf(d) = m =>
         (Jobs!Matches(s, d) <=> \/ d - FirstDay[m] + 1 = r
                                 \/ d - FirstDay[m] + 1 < r /\ d + 1 = FirstDay[m + 1])
  BY OneCalendar DEF Jobs!Matches, DayOfMonth, r
<1>10. Jobs!Matches(s, day)
  <2>1. \/ day - FirstDay[m] + 1 = r
        \/ day - FirstDay[m] + 1 < r /\ day + 1 = FirstDay[m + 1]
    BY <1>1, <1>2, <1>3 DEF Clamped
  <2> HIDE DEF day
  <2> QED BY <1>6, <1>8, <1>9, <2>1
<1>11. ASSUME NEW d \in Nat, d < FirstDay[k], MonthOf(d) = m, Jobs!Matches(s, d)
       PROVE  d = day
  <2>1. FirstDay[m] <= d /\ d < FirstDay[m + 1]
    <3>1. d \in 0 .. LastDay(12 * Years - 1)
      BY <1>7, <1>11
    <3> QED BY <1>11, <3>1, DaysHaveAMonth
  <2>2. \/ d - FirstDay[m] + 1 = r
        \/ d - FirstDay[m] + 1 < r /\ d + 1 = FirstDay[m + 1]
    BY <1>9, <1>11
  <2> QED BY <1>1, <1>2, <1>3, <2>1, <2>2 DEF Clamped
<1> QED BY <1>6, <1>8, <1>10, <1>11 DEF r, k

LEMMA MonthlyIsEarliest ==
    ASSUME NEW s, Jobs!Accepted(s), s.frequency = "monthly", s.run_day \in Nat,
           NEW moment \in Nat, moment < 24 * FirstDay[12 * Years - 1]
    PROVE  IsEarliest(s, moment, Jobs!compute_next_run(s, moment))
<1> DEFINE today == Jobs!DayOf(moment)
<1> DEFINE h == s.run_hour
<1> DEFINE k == 12 * Years
<1> DEFINE M == MonthOf(today)
<1> DEFINE on(m) == Clamped(m, s.run_day)
<1> DEFINE ms == {m \in Months : m >= M /\ Jobs!At(on(m), h) > moment}
<1> DEFINE first == CHOOSE m \in ms : \A n \in ms : m <= n
<1>0. k \in Nat /\ k >= 12 /\ (k - 1) + 1 = k /\ k - 1 \in 0 .. k /\ k \in 0 .. k /\ Months = 0 .. k - 1
  BY MomentsAssumption DEF Months
<1>1. h \in 0 .. 23 /\ h \in Int
  BY DEF Jobs!Accepted
<1>2. today \in Nat /\ 24 * today <= moment /\ moment < 24 * today + 24
  BY Moments
<1>3. Jobs!compute_next_run(s, moment) = Jobs!At(on(first), h)
  <2>1. Jobs!compute_next_run(s, moment) = Jobs!Monthly(s, moment)
    BY DEF Jobs!compute_next_run
  <2>2. \A m : Jobs!InMonth(s, m) = Jobs!At(on(m), h)
    BY OneCalendar DEF Jobs!InMonth
  <2>3. Jobs!MonthOf(today) = M /\ Jobs!Months = Months
    BY OneCalendar
  <2> QED BY <2>1, <2>2, <2>3 DEF Jobs!Monthly
<1>4. \A m \in Months : /\ on(m) \in Nat /\ FirstDay[m] <= on(m) /\ on(m) < FirstDay[m + 1]
                        /\ MonthOf(on(m)) = m /\ Jobs!Matches(s, on(m))
                        /\ \A d \in Nat : d < FirstDay[k] /\ MonthOf(d) = m /\ Jobs!Matches(s, d) => d = on(m)
  BY OneDayAMonth
<1>5. /\ FirstDay[k - 1] \in Nat /\ FirstDay[k] \in Nat /\ FirstDay[k - 1] < FirstDay[k]
      /\ LastDay(12 * Years - 1) = FirstDay[k] - 1 /\ moment < 24 * FirstDay[k - 1]
      /\ \A m \in 0 .. k : FirstDay[m] \in Nat
      /\ \A m, n \in 0 .. k : m < n => FirstDay[m] < FirstDay[n]
  <2>1. k - 1 < k
    BY <1>0
  <2> QED BY <1>0, <2>1, FirstDaysGrow DEF LastDay
<1>6. \A d \in Nat : d < FirstDay[k] => /\ MonthOf(d) \in Months
                                        /\ FirstDay[MonthOf(d)] <= d /\ d < FirstDay[MonthOf(d) + 1]
  <2>1. \A d \in Nat : d < FirstDay[k] => d \in 0 .. LastDay(12 * Years - 1)
    BY <1>5
  <2> QED BY <2>1, DaysHaveAMonth
<1>7. \A d \in Int : Jobs!At(d, h) = 24 * d + h
  BY DEF Jobs!At
<1> HIDE DEF today, h, k, on
<1>8. today < FirstDay[k - 1]
  BY <1>1, <1>2, <1>5
<1>9. M \in Months /\ FirstDay[M] <= today /\ today < FirstDay[M + 1]
  BY <1>2, <1>5, <1>6, <1>8
<1>10. M + 1 \in Months
  <2>1. M # k - 1
    BY <1>8, <1>9, <1>2, <1>5, <1>0
  <2> QED BY <1>0, <1>9, <2>1
<1> HIDE DEF M
<1>11. M + 1 \in ms /\ \A m \in ms : m = M \/ m >= M + 1
  <2>1. FirstDay[M + 1] <= on(M + 1) /\ on(M + 1) \in Nat /\ FirstDay[M + 1] \in Nat
    <3>1. FirstDay[M + 1] <= on(M + 1) /\ on(M + 1) \in Nat
      BY <1>4, <1>10
    <3>2. M + 1 \in 0 .. k
      BY <1>0, <1>10
    <3> QED BY <1>5, <3>1, <3>2
  <2>2. Jobs!At(on(M + 1), h) > moment
    BY <1>1, <1>2, <1>7, <1>9, <2>1
  <2> QED BY <1>0, <1>9, <1>10, <2>2
<1>12. first \in ms /\ first \in {M, M + 1} /\ (first = M + 1 => M \notin ms)
  <2>1. \E m \in ms : \A n \in ms : m <= n
    <3>1. CASE M \in ms
      BY <1>0, <1>11, <3>1
    <3>2. CASE M \notin ms
      BY <1>0, <1>11, <3>2
    <3> QED BY <3>1, <3>2
  <2>2. first \in ms /\ \A n \in ms : first <= n
    <3> HIDE DEF ms
    <3> QED BY <2>1
  <2> HIDE DEF first
  <2> QED BY <1>0, <1>9, <1>11, <2>2
<1>13. first \in Months /\ Jobs!At(on(first), h) > moment
  BY <1>12
<1>14. first = M + 1 => ~(Jobs!At(on(M), h) > moment)
  BY <1>0, <1>9, <1>12
<1> HIDE DEF ms, first
<1>15. Jobs!At(on(first), h) % 24 = h /\ Jobs!DayOf(Jobs!At(on(first), h)) = on(first)
  <2>1. on(first) \in Int
    BY <1>4, <1>13
  <2> QED BY <1>1, <2>1, HourOfADay
<1>16. ASSUME NEW d \in today .. (on(first) - 1), Jobs!Matches(s, d)
       PROVE  ~(Jobs!At(d, h) > moment)
  <2>1. /\ first + 1 \in 0 .. k /\ first + 1 \in Nat /\ on(first) \in Nat /\ on(first) < FirstDay[first + 1]
        /\ FirstDay[first + 1] \in Nat
    <3>1. on(first) \in Nat /\ on(first) < FirstDay[first + 1]
      BY <1>4, <1>13
    <3>2. first + 1 \in 0 .. k /\ first + 1 \in Nat
      BY <1>0, <1>13
    <3> QED BY <1>5, <3>1, <3>2
  <2>2. FirstDay[first + 1] <= FirstDay[k]
    <3>1. first + 1 = k \/ first + 1 < k
      BY <1>0, <2>1
    <3> QED BY <1>0, <1>5, <2>1, <3>1
  <2>3. d \in Nat /\ d < FirstDay[k] /\ d < FirstDay[first + 1] /\ today <= d /\ d < on(first)
    BY <1>2, <1>5, <2>1, <2>2
  <2> DEFINE m == MonthOf(d)
  <2>4. m \in Months /\ FirstDay[m] <= d /\ d < FirstDay[m + 1] /\ d = on(m)
    BY <1>4, <1>6, <1>16, <2>3
  <2> HIDE DEF m
  <2>5. m # first
    BY <2>1, <2>3, <2>4
  <2>6. /\ m \in Int /\ M \in Int /\ first \in Int /\ m \in 0 .. k /\ m + 1 \in 0 .. k /\ M \in 0 .. k
        /\ M + 1 \in 0 .. k /\ FirstDay[m] \in Nat /\ FirstDay[m + 1] \in Nat /\ FirstDay[M] \in Nat
    BY <1>0, <1>5, <1>9, <1>10, <1>13, <2>4
  <2>7. ~(m < M)
    <3> SUFFICES ASSUME m < M
                 PROVE  FALSE
      OBVIOUS
    <3>1. FirstDay[m + 1] <= FirstDay[M]
      <4>1. m + 1 = M \/ m + 1 < M
        BY <2>6
      <4> QED BY <1>5, <2>6, <4>1
    <3> QED BY <1>2, <1>9, <2>3, <2>4, <2>6, <3>1
  <2>8. ~(m > first)
    <3> SUFFICES ASSUME m > first
                 PROVE  FALSE
      OBVIOUS
    <3>1. FirstDay[first + 1] <= FirstDay[m]
      <4>1. m = first + 1 \/ first + 1 < m
        BY <2>6
      <4> QED BY <1>5, <2>1, <2>6, <4>1
    <3> QED BY <2>1, <2>3, <2>4, <2>6, <3>1
  <2>9. m = M /\ first = M + 1
    BY <1>12, <2>5, <2>6, <2>7, <2>8
  <2> QED BY <1>14, <2>4, <2>9
<1> QED BY <1>3, <1>4, <1>13, <1>15, <1>16 DEF IsEarliest, today, h

\* Whatever is asked for is on its ladder.
AskedSound ==
    asked # None =>
        /\ asked.topic \in DOMAIN Ladders
        /\ asked.step \in DOMAIN Ladders[asked.topic]
        /\ asked = [topic |-> asked.topic, step |-> asked.step]

LEMMA InitAsked == CalculatorsInit => AskedSound
BY DEF CalculatorsInit, AskedSound

LEMMA AskedStaysSound == AskedSound /\ [CalculatorsNext]_<<ordersVars, payVars, asked>> => AskedSound'
<1> SUFFICES ASSUME AskedSound, [CalculatorsNext]_<<ordersVars, payVars, asked>>
             PROVE  AskedSound'
  OBVIOUS
<1>1. CASE UNCHANGED asked
  BY <1>1 DEF AskedSound
<1>2. ASSUME NEW topic \in DOMAIN Ladders, Pick(topic)
      PROVE  AskedSound'
  <2>1. 1 \in DOMAIN Ladders[topic]
    BY LaddersAssumption
  <2> QED BY <1>2, <2>1 DEF Pick, AskedSound
<1>3. CASE AskMore
  <2> DEFINE t == asked.topic
  <2>1. t \in DOMAIN Ladders /\ asked.step \in DOMAIN Ladders[t] /\ asked.step < Len(Ladders[t])
    BY <1>3 DEF AskMore, AskedSound
  <2>2. asked.step + 1 \in DOMAIN Ladders[t]
    <3>1. Ladders[t] \in Seq(Nat)
      BY <2>1, LaddersAssumption
    <3> HIDE DEF t
    <3> QED BY <2>1, <3>1
  <2>3. asked' = [topic |-> t, step |-> asked.step + 1]
    BY <1>3 DEF AskMore, AskedSound
  <2> HIDE DEF t
  <2> QED BY <2>1, <2>2, <2>3 DEF AskedSound
<1> QED BY <1>1, <1>2, <1>3 DEF CalculatorsNext

LEMMA AskedIsEarliest == AskedSound => NextRunIsEarliest
<1> SUFFICES ASSUME AskedSound, asked # None, asked.topic = "schedule", NEW s \in Schedules
             PROVE  IsEarliest(s, Amount(asked), Jobs!compute_next_run(s, Amount(asked)))
  BY DEF NextRunIsEarliest, IsEarliest
<1> DEFINE moment == Amount(asked)
<1>1. moment \in Nat /\ moment < 24 * FirstDay[12 * Years - 1]
  <2>1. "schedule" \in DOMAIN Ladders /\ asked.step \in DOMAIN Ladders["schedule"]
    BY DEF AskedSound
  <2>2. Ladders["schedule"] \in Seq(Nat)
    BY <2>1, LaddersAssumption
  <2>3. moment = Ladders["schedule"][asked.step]
    BY DEF Amount
  <2>4. Ladders["schedule"][asked.step] \in Nat
    BY <2>1, <2>2
  <2>5. Ladders["schedule"][asked.step] < 24 * FirstDay[12 * Years - 1]
    BY <2>1, MomentsAssumption
  <2> HIDE DEF moment
  <2> QED BY <2>3, <2>4, <2>5
<1> HIDE DEF moment
<1>2. /\ Jobs!Accepted(s)
      /\ \/ s.frequency = "daily"
         \/ s.frequency = "weekly"
         \/ s.frequency = "monthly" /\ s.run_day \in Nat
  <2>1. \A d \in 0 .. 31 : d # None
    BY MomentsAssumption
  <2> QED BY <2>1 DEF Schedules, Jobs!Accepted
<1>3. IsEarliest(s, moment, Jobs!compute_next_run(s, moment))
  BY <1>1, <1>2, DailyIsEarliest, WeeklyIsEarliest, MonthlyIsEarliest
<1> QED BY <1>3 DEF moment

\* Whatever moment is asked for and however long the calendar is: a job's next run is the first
\* moment after it that its schedule stands for (JobSchedulerService.compute_next_run).
THEOREM JobsRunAtTheFirstMoment == CalculatorsSpec => []NextRunIsEarliest
<1>1. CalculatorsInit => AskedSound
  BY InitAsked
<1>2. AskedSound /\ [CalculatorsNext]_<<ordersVars, payVars, asked>> => AskedSound'
  BY AskedStaysSound
<1>3. AskedSound => NextRunIsEarliest
  BY AskedIsEarliest
<1> QED BY <1>1, <1>2, <1>3, PTL DEF CalculatorsSpec
=============================================================================
