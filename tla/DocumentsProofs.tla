--------------------------- MODULE DocumentsProofs ---------------------------
(***************************************************************************)
(* Proofs about Documents, for every set of sessions, keys, worlds and     *)
(* charts of accounts.                                                     *)
(*                                                                         *)
(* Every argument has an invariant of its own.  A key that nothing         *)
(* interrupted has one request at most, and whether the handler ran under  *)
(* it can be read off that request and the kept answer (KeysSound).  A row *)
(* that only one request has read is still what that request read          *)
(* (ReadsSound).  A request that may move a document finds the records of  *)
(* every status the document had passed (RecordsSound).  An asset, as it   *)
(* is and as anybody read it, was depreciated by its records or less, and  *)
(* never below its salvage value (DepreciationSound).  Rows keep the       *)
(* amounts they were written with (AmountsSound), so that a journal agrees *)
(* for ever with the rows it is about (JournalsSound).                     *)
(***************************************************************************)
EXTENDS Documents, TLAPS, FiniteSetTheorems, SequenceTheorems, WellFoundedInduction

-----------------------------------------------------------------------------
(* Induction over the natural numbers, for a set of them.                  *)

LEMMA NatSetInduction ==
    ASSUME NEW P \in SUBSET Nat, 0 \in P, \A n \in P : n + 1 \in P
    PROVE  P = Nat
<1> SUFFICES ASSUME NEW n \in Nat, n \notin P
             PROVE  FALSE
  OBVIOUS
<1> DEFINE T == {0 .. m : m \in Nat \ P}
<1>1. \A m \in Nat : 0 .. m \in FiniteSubsetsOf(Nat)
  BY FS_Interval DEF FiniteSubsetsOf
<1>2. T \subseteq FiniteSubsetsOf(Nat) /\ T # {}
  BY <1>1
<1>3. IsWellFoundedOn(StrictSubsetOrdering(Nat), FiniteSubsetsOf(Nat))
  BY FS_StrictSubsetOrderingWellFounded
<1>4. PICK x \in T : \A y \in T : <<y, x>> \notin StrictSubsetOrdering(Nat)
  <2> HIDE DEF T
  <2> QED BY <1>2, <1>3, WFMin
<1>5. PICK m \in Nat \ P : x = 0 .. m
  BY <1>4
<1>6. m # 0 /\ m - 1 \in Nat
  BY <1>5
<1>7. m - 1 \notin P
  <2>1. ASSUME m - 1 \in P PROVE FALSE
    <3>1. (m - 1) + 1 = m
      BY <1>5
    <3> QED BY <1>5, <2>1, <3>1
  <2> QED BY <2>1
<1>8. 0 .. (m - 1) \in T
  BY <1>6, <1>7
<1>9. <<0 .. (m - 1), 0 .. m>> \in StrictSubsetOrdering(Nat)
  BY <1>5, <1>6 DEF StrictSubsetOrdering
<1> QED BY <1>4, <1>5, <1>8, <1>9

-----------------------------------------------------------------------------
(* The sum of a list of amounts.                                           *)

\* f has the sums of the first n amounts, for every n up to k.
SumsOf(f, amounts, k) ==
    f = [n \in 0 .. k |-> IF n = 0 THEN 0 ELSE f[n - 1] + amounts[n]]

LEMMA SumsAreDefined ==
    ASSUME NEW amounts, NEW k \in Nat
    PROVE  \E f : SumsOf(f, amounts, k)
<1> DEFINE P == {i \in Nat : \E f : SumsOf(f, amounts, i)}
<1>1. 0 \in P
  <2>1. SumsOf([n \in 0 .. 0 |-> 0], amounts, 0)
    BY DEF SumsOf
  <2> QED BY <2>1
<1>2. ASSUME NEW i \in P
      PROVE  i + 1 \in P
  <2>1. PICK f : SumsOf(f, amounts, i)
    OBVIOUS
  <2> DEFINE g == [n \in 0 .. i + 1 |-> IF n = i + 1 THEN f[i] + amounts[i + 1] ELSE f[n]]
  <2>2. ASSUME NEW n \in 0 .. i + 1
        PROVE  g[n] = IF n = 0 THEN 0 ELSE g[n - 1] + amounts[n]
    <3>1. CASE n = i + 1
      <4>1. n # 0 /\ g[n - 1] = f[i] /\ g[n] = f[i] + amounts[n]
        BY <3>1
      <4> HIDE DEF g
      <4> QED BY <4>1
    <3>2. CASE n \in 0 .. i
      <4>1. f[n] = IF n = 0 THEN 0 ELSE f[n - 1] + amounts[n]
        BY <2>1, <3>2 DEF SumsOf
      <4>2. g[n] = f[n] /\ (n # 0 => g[n - 1] = f[n - 1])
        BY <3>2
      <4> HIDE DEF g
      <4> QED BY <4>1, <4>2
    <3> QED BY <3>1, <3>2
  <2>3. g = [n \in 0 .. i + 1 |-> IF n = 0 THEN 0 ELSE g[n - 1] + amounts[n]]
    BY <2>2
  <2>4. SumsOf(g, amounts, i + 1)
    <3> HIDE DEF g
    <3> QED BY <2>3 DEF SumsOf
  <2> QED BY <2>4
<1>3. P = Nat
  <2> HIDE DEF P
  <2>1. P \in SUBSET Nat
    BY DEF P
  <2> QED BY <1>1, <1>2, <2>1, NatSetInduction
<1> QED BY <1>3

\* f[n] is the sum of the first n amounts.
Sums(f, amounts, k) ==
    f[0] = 0 /\ \A n \in 1 .. k : f[n] = f[n - 1] + amounts[n]

LEMMA AddedIs ==
    ASSUME NEW amounts, NEW k \in Nat, Len(amounts) = k, NEW f, Sums(f, amounts, k)
    PROVE  Added(amounts) = f[k]
<1> DEFINE sum == CHOOSE g : SumsOf(g, amounts, k)
<1>1. SumsOf(sum, amounts, k)
  BY SumsAreDefined
<1>2. Added(amounts) = sum[k]
  BY DEF Added, SumsOf
<1> HIDE DEF sum
<1> DEFINE P == {n \in Nat : n <= k => sum[n] = f[n]}
<1>3. 0 \in P
  BY <1>1 DEF SumsOf, Sums
<1>4. ASSUME NEW n \in P
      PROVE  n + 1 \in P
  <2> SUFFICES ASSUME n + 1 <= k PROVE sum[n + 1] = f[n + 1]
    OBVIOUS
  <2>1. n + 1 \in 1 .. k /\ n + 1 # 0 /\ (n + 1) - 1 = n /\ sum[n] = f[n]
    OBVIOUS
  <2>2. sum[n + 1] = sum[n] + amounts[n + 1]
    BY <1>1, <2>1 DEF SumsOf
  <2>3. f[n + 1] = f[n] + amounts[n + 1]
    BY <2>1 DEF Sums
  <2> QED BY <2>1, <2>2, <2>3
<1>5. P = Nat
  <2> HIDE DEF P
  <2>1. P \in SUBSET Nat
    BY DEF P
  <2> QED BY <1>3, <1>4, <2>1, NatSetInduction
<1> QED BY <1>2, <1>5

LEMMA SumsExist ==
    ASSUME NEW k \in Nat, NEW amounts, Len(amounts) = k
    PROVE  \E f : Sums(f, amounts, k) /\ Added(amounts) = f[k]
<1>1. PICK f : SumsOf(f, amounts, k)
  BY SumsAreDefined
<1>2. Sums(f, amounts, k)
  BY <1>1 DEF SumsOf, Sums
<1> QED BY <1>2, AddedIs

\* A set of numbers with 0 that is closed under the amounts has their sum.
LEMMA AddedStays ==
    ASSUME NEW k \in Nat, NEW amounts, Len(amounts) = k, NEW S, 0 \in S,
           \A n \in 1 .. k : \A m \in S : m + amounts[n] \in S
    PROVE  Added(amounts) \in S
<1>1. PICK f : Sums(f, amounts, k) /\ Added(amounts) = f[k]
  BY SumsExist
<1> DEFINE P == {n \in Nat : n <= k => f[n] \in S}
<1>2. ASSUME NEW n \in P
      PROVE  n + 1 \in P
  <2> SUFFICES ASSUME n + 1 <= k PROVE f[n + 1] \in S
    OBVIOUS
  <2>1. n + 1 \in 1 .. k /\ (n + 1) - 1 = n /\ f[n] \in S
    OBVIOUS
  <2>2. f[n + 1] = f[n] + amounts[n + 1]
    BY <1>1, <2>1 DEF Sums
  <2> QED BY <2>1, <2>2
<1>3. P = Nat
  <2>1. 0 \in P
    BY <1>1 DEF Sums
  <2> HIDE DEF P
  <2>2. P \in SUBSET Nat
    BY DEF P
  <2> QED BY <1>2, <2>1, <2>2, NatSetInduction
<1>4. f[k] \in S
  BY <1>3
<1> QED BY <1>1, <1>4

LEMMA AddedPrefix ==
    ASSUME NEW k \in Nat, NEW amounts, Len(amounts) = k,
           NEW more, Len(more) = k + 1, \A n \in 1 .. k : more[n] = amounts[n]
    PROVE  Added(more) = Added(amounts) + more[k + 1]
<1>1. PICK g : Sums(g, more, k + 1) /\ Added(more) = g[k + 1]
  <2>1. k + 1 \in Nat
    OBVIOUS
  <2> QED BY <2>1, SumsExist
<1>2. Sums(g, amounts, k)
  BY <1>1 DEF Sums
<1>3. Added(amounts) = g[k]
  BY <1>2, AddedIs
<1>4. g[k + 1] = g[k] + more[k + 1]
  BY <1>1 DEF Sums
<1> QED BY <1>1, <1>3, <1>4

LEMMA AddedNothing == ASSUME NEW amounts, Len(amounts) = 0 PROVE Added(amounts) = 0
<1> DEFINE f == [n \in {0} |-> 0]
<1>1. Sums(f, amounts, 0)
  BY DEF Sums
<1> HIDE DEF f
<1>2. f[0] = 0
  BY <1>1 DEF Sums
<1> QED BY <1>1, <1>2, AddedIs

LEMMA AddedInt ==
    ASSUME NEW k \in Nat, NEW amounts, Len(amounts) = k, \A n \in 1 .. k : amounts[n] \in Int
    PROVE  Added(amounts) \in Int
<1> DEFINE S == Int
<1>1. 0 \in S /\ \A n \in 1 .. k : \A m \in S : m + amounts[n] \in S
  OBVIOUS
<1>2. Added(amounts) \in S
  <2> HIDE DEF S
  <2> QED BY <1>1, AddedStays
<1> QED BY <1>2

LEMMA AddedNat ==
    ASSUME NEW k \in Nat, NEW amounts, Len(amounts) = k, \A n \in 1 .. k : amounts[n] \in Nat
    PROVE  Added(amounts) \in Nat
<1> DEFINE S == Nat
<1>1. 0 \in S /\ \A n \in 1 .. k : \A m \in S : m + amounts[n] \in S
  OBVIOUS
<1>2. Added(amounts) \in S
  <2> HIDE DEF S
  <2> QED BY <1>1, AddedStays
<1> QED BY <1>2

-----------------------------------------------------------------------------
(* Requests under a key.                                                   *)

\* Session s has a request under key k.
HoldsKey(s, k) == Holding(s) /\ KeyOf(s) = k

SessionsTyped ==
    /\ session = [s \in Sessions |-> session[s]]
    /\ \A s \in Sessions : session[s].phase \in {"idle", "received", "read", "answered"}

\* What is known of a key whose protection was not interrupted.
KeySound(k) ==
    /\ records[k] # "expired"
    /\ \A s, t \in Sessions : HoldsKey(s, k) /\ HoldsKey(t, k) => s = t
    /\ \A s \in Sessions : HoldsKey(s, k) =>
          /\ records[k] = "none"
          /\ runs[k] = IF session[s].phase = "answered" THEN 1 ELSE 0
    /\ (\A s \in Sessions : ~HoldsKey(s, k)) =>
          runs[k] = IF records[k] = "kept" THEN 1 ELSE 0

KeysSound ==
    /\ SessionsTyped
    /\ records \in [Keys -> {"none", "kept", "expired"}]
    /\ runs \in [Keys -> Nat]
    /\ \A k \in Keys \ excused : KeySound(k)

-----------------------------------------------------------------------------
(* A handler runs once under a key.                                        *)

LEMMA InitKeys == Init => KeysSound
BY DEF Init, KeysSound, SessionsTyped, KeySound, HoldsKey, Holding, Idle

\* A step that leaves a key's request, its answer and its runs leaves it sound.
LEMMA OtherKeysStay ==
    ASSUME NEW k \in Keys, KeySound(k), records'[k] = records[k], runs'[k] = runs[k],
           \A s \in Sessions : HoldsKey(s, k)' <=> HoldsKey(s, k),
           \A s \in Sessions : HoldsKey(s, k) =>
               (session'[s].phase = "answered" <=> session[s].phase = "answered")
    PROVE  KeySound(k)'
BY DEF KeySound

LEMMA NextKeys == KeysSound /\ [Next]_vars => KeysSound'
<1> SUFFICES ASSUME KeysSound, [Next]_vars PROVE KeysSound'
  OBVIOUS
<1> USE DEF KeysSound
<1>1. ASSUME NEW s \in Sessions, NEW r \in requests, Receive(s, r)
      PROVE  KeysSound'
  <2> PICK hit \in LookedUp(records, r.key) :
        /\ session' = [session EXCEPT ![s] =
                          IF hit THEN Idle ELSE [phase |-> "received", request |-> r]]
        /\ excused' =
              IF /\ r.key # NoKey
                 /\ \/ \E t \in Sessions : Holding(t) /\ KeyOf(t) = r.key
                    \/ Hit(records, r.key) /\ ~hit
              THEN excused \cup {r.key} ELSE excused
    BY <1>1 DEF Receive
  <2>1. /\ session[s] = Idle /\ ~Holding(s)
        /\ UNCHANGED <<records, runs>>
        /\ \A t \in Sessions \ {s} : session'[t] = session[t]
        /\ session'[s] = IF hit THEN Idle ELSE [phase |-> "received", request |-> r]
        /\ session' = [t \in Sessions |-> session'[t]]
    BY <1>1 DEF Receive, SessionsTyped, Idle, Holding
  <2>2. SessionsTyped'
    BY <2>1 DEF SessionsTyped, Idle
  <2>3. ASSUME NEW k \in Keys \ excused'
        PROVE  KeySound(k)'
    <3>1. k \in Keys \ excused /\ KeySound(k) /\ k # NoKey
      BY <2>3, KeyAssumption
    <3>2. \A t \in Sessions \ {s} : HoldsKey(t, k)' <=> HoldsKey(t, k)
      BY <2>1 DEF HoldsKey, Holding, KeyOf
    <3>3. ~HoldsKey(s, k)
      BY <2>1 DEF HoldsKey
    <3>4. CASE HoldsKey(s, k)'
      <4>1. /\ session'[s] = [phase |-> "received", request |-> r]
            /\ r.key = k
            /\ records[k] # "kept"
        BY <2>1, <3>1, <3>4 DEF HoldsKey, Holding, KeyOf, Hit, Idle
      <4>2. \A t \in Sessions : ~HoldsKey(t, k)
        BY <2>1, <2>3, <3>1, <4>1 DEF HoldsKey
      <4>3. runs[k] = 0 /\ records[k] = "none"
        BY <3>1, <4>1, <4>2 DEF KeySound
      <4>4. \A t \in Sessions : HoldsKey(t, k)' => t = s
        BY <3>2, <4>2
      <4> QED BY <2>1, <3>4, <4>1, <4>3, <4>4 DEF KeySound
    <3>5. CASE ~HoldsKey(s, k)'
      BY <2>1, <3>1, <3>2, <3>3, <3>5, OtherKeysStay
    <3> QED BY <3>4, <3>5
  <2> QED BY <2>1, <2>2, <2>3
<1>2. ASSUME NEW s \in Sessions, Read(s)
      PROVE  KeysSound'
  <2>1. /\ session[s].phase = "received"
        /\ UNCHANGED <<records, runs, excused>>
        /\ \A t \in Sessions \ {s} : session'[t] = session[t]
        /\ \/ session'[s] = Idle
           \/ /\ session'[s].phase = "read"
              /\ session'[s].request = session[s].request
        /\ session' = [t \in Sessions |-> session'[t]]
    <3>1. \/ session' = [session EXCEPT ![s] = Idle]
          \/ session' = [session EXCEPT ![s] =
                [phase |-> "read", request |-> session[s].request, seen |-> rows]]
      BY <1>2 DEF Read
    <3>2. session[s].phase = "received" /\ UNCHANGED <<records, runs, excused>>
      BY <1>2 DEF Read
    <3> QED BY <3>1, <3>2 DEF SessionsTyped
  <2>2. SessionsTyped'
    BY <2>1 DEF SessionsTyped, Idle
  <2>3. ASSUME NEW k \in Keys \ excused
        PROVE  KeySound(k)'
    <3>1. KeySound(k)
      OBVIOUS
    <3>2. \A t \in Sessions \ {s} : HoldsKey(t, k)' <=> HoldsKey(t, k)
      BY <2>1 DEF HoldsKey, Holding, KeyOf
    <3>3. CASE HoldsKey(s, k)' <=> HoldsKey(s, k)
      BY <2>1, <3>1, <3>2, <3>3, OtherKeysStay DEF HoldsKey, Holding, Idle
    <3>4. CASE HoldsKey(s, k) /\ ~HoldsKey(s, k)'
      <4>1. runs[k] = 0 /\ records[k] = "none"
        BY <2>1, <3>1, <3>4 DEF KeySound
      <4>2. \A t \in Sessions : ~HoldsKey(t, k)'
        BY <3>1, <3>2, <3>4 DEF KeySound
      <4> QED BY <2>1, <4>1, <4>2 DEF KeySound
    <3>5. HoldsKey(s, k)' => HoldsKey(s, k)
      BY <2>1 DEF HoldsKey, Holding, KeyOf, Idle
    <3> QED BY <3>3, <3>4, <3>5
  <2> QED BY <2>1, <2>2, <2>3
<1>3. ASSUME NEW s \in Sessions, Commit(s)
      PROVE  KeysSound'
  <2> DEFINE key == KeyOf(s)
  <2>1. /\ session[s].phase = "read"
        /\ UNCHANGED <<records, excused>>
        /\ \A t \in Sessions \ {s} : session'[t] = session[t]
        /\ key = NoKey => session'[s] = Idle /\ runs' = runs
        /\ key # NoKey => /\ session'[s].phase = "answered"
                          /\ session'[s].request = session[s].request
                          /\ runs' = [runs EXCEPT ![key] = @ + 1]
        /\ session' = [t \in Sessions |-> session'[t]]
    BY <1>3 DEF Commit, UnderWay, SessionsTyped, KeyOf
  <2>2. SessionsTyped'
    BY <2>1 DEF SessionsTyped, Idle
  <2>3. ASSUME NEW k \in Keys \ excused
        PROVE  KeySound(k)' /\ runs'[k] \in Nat
    <3>1. KeySound(k) /\ k # NoKey /\ runs[k] \in Nat
      BY KeyAssumption
    <3>2. \A t \in Sessions \ {s} : HoldsKey(t, k)' <=> HoldsKey(t, k)
      BY <2>1 DEF HoldsKey, Holding, KeyOf
    <3>3. CASE key # k
      <4>1. ~HoldsKey(s, k) /\ ~HoldsKey(s, k)' /\ runs'[k] = runs[k]
        BY <2>1, <3>3 DEF HoldsKey, Holding, KeyOf, Idle
      <4> QED BY <2>1, <3>1, <3>2, <4>1, OtherKeysStay
    <3>4. CASE key = k
      <4>1. HoldsKey(s, k) /\ HoldsKey(s, k)'
        BY <2>1, <3>1, <3>4 DEF HoldsKey, Holding, KeyOf
      <4>2. runs[k] = 0 /\ records[k] = "none" /\ runs'[k] = 1
        BY <2>1, <3>1, <3>4, <4>1 DEF KeySound
      <4>3. \A t \in Sessions : HoldsKey(t, k)' => t = s
        BY <3>1, <3>2, <4>1 DEF KeySound
      <4> QED BY <2>1, <3>1, <3>4, <4>1, <4>2, <4>3 DEF KeySound
    <3> QED BY <3>3, <3>4
  <2>4. runs' \in [Keys -> Nat]
    BY <2>1
  <2> QED BY <2>1, <2>2, <2>3, <2>4
<1>4. ASSUME NEW s \in Sessions, Save(s)
      PROVE  KeysSound'
  <2> DEFINE key == KeyOf(s)
  <2>1. /\ session[s].phase = "answered"
        /\ UNCHANGED <<runs, excused>>
        /\ \A t \in Sessions \ {s} : session'[t] = session[t]
        /\ session'[s] = Idle
        /\ session' = [t \in Sessions |-> session'[t]]
        /\ records' = IF records[key] = "none" THEN [records EXCEPT ![key] = "kept"] ELSE records
    BY <1>4 DEF Save, SessionsTyped, Saved
  <2>2. SessionsTyped'
    BY <2>1 DEF SessionsTyped, Idle
  <2> HIDE DEF key
  <2>3. records' \in [Keys -> {"none", "kept", "expired"}]
    BY <2>1
  <2>4. ASSUME NEW k \in Keys \ excused
        PROVE  KeySound(k)'
    <3>1. KeySound(k)
      OBVIOUS
    <3>2. \A t \in Sessions \ {s} : HoldsKey(t, k)' <=> HoldsKey(t, k)
      BY <2>1 DEF HoldsKey, Holding, KeyOf
    <3>3. ~HoldsKey(s, k)'
      BY <2>1 DEF HoldsKey, Holding, Idle
    <3>4. CASE key # k
      <4>1. ~HoldsKey(s, k) /\ records'[k] = records[k]
        BY <2>1, <3>4 DEF HoldsKey, key
      <4> QED BY <2>1, <3>1, <3>2, <3>3, <4>1, OtherKeysStay
    <3>5. CASE key = k
      <4>1. HoldsKey(s, k)
        BY <2>1, <3>5 DEF HoldsKey, Holding, key
      <4>2. runs[k] = 1 /\ records[k] = "none" /\ records'[k] = "kept"
        BY <2>1, <3>1, <3>5, <4>1 DEF KeySound
      <4>3. \A t \in Sessions : ~HoldsKey(t, k)'
        BY <3>1, <3>2, <3>3, <4>1 DEF KeySound
      <4> QED BY <2>1, <4>2, <4>3 DEF KeySound
    <3> QED BY <3>4, <3>5
  <2> QED BY <2>1, <2>2, <2>3, <2>4
<1>5. ASSUME NEW s \in Sessions, Lose(s)
      PROVE  KeysSound'
  <2>1. /\ UNCHANGED <<records, runs>>
        /\ \A t \in Sessions \ {s} : session'[t] = session[t]
        /\ session'[s] = Idle
        /\ session' = [t \in Sessions |-> session'[t]]
        /\ excused' = IF session[s].phase = "answered" THEN excused \cup {KeyOf(s)} ELSE excused
    BY <1>5 DEF Lose, SessionsTyped
  <2>2. SessionsTyped'
    BY <2>1 DEF SessionsTyped, Idle
  <2>3. ASSUME NEW k \in Keys \ excused'
        PROVE  KeySound(k)'
    <3>1. k \in Keys \ excused /\ KeySound(k)
      BY <2>1
    <3>2. \A t \in Sessions \ {s} : HoldsKey(t, k)' <=> HoldsKey(t, k)
      BY <2>1 DEF HoldsKey, Holding, KeyOf
    <3>3. ~HoldsKey(s, k)'
      BY <2>1 DEF HoldsKey, Holding, Idle
    <3>4. CASE ~HoldsKey(s, k)
      BY <2>1, <3>1, <3>2, <3>3, <3>4, OtherKeysStay
    <3>5. CASE HoldsKey(s, k)
      <4>1. session[s].phase # "answered"
        BY <2>1, <2>3, <3>5 DEF HoldsKey
      <4>2. runs[k] = 0 /\ records[k] = "none"
        BY <3>1, <3>5, <4>1 DEF KeySound
      <4>3. \A t \in Sessions : ~HoldsKey(t, k)'
        BY <3>1, <3>2, <3>3, <3>5 DEF KeySound
      <4> QED BY <2>1, <4>2, <4>3 DEF KeySound
    <3> QED BY <3>4, <3>5
  <2> QED BY <2>1, <2>2, <2>3
<1>6. ASSUME NEW k \in Keys, Expire(k)
      PROVE  KeysSound'
  <2>1. /\ UNCHANGED <<session, runs>>
        /\ excused' = excused \cup {k}
        /\ records' = [records EXCEPT ![k] = "expired"]
    BY <1>6 DEF Expire, Expired
  <2>2. ASSUME NEW l \in Keys \ excused'
        PROVE  KeySound(l)'
    <3>1. KeySound(l) /\ records'[l] = records[l]
      BY <2>1
    <3> QED BY <2>1, <3>1, OtherKeysStay DEF HoldsKey, Holding, KeyOf
  <2> QED BY <2>1, <2>2 DEF SessionsTyped
<1>7. CASE UNCHANGED vars
  BY <1>7 DEF vars, SessionsTyped, KeySound, HoldsKey, Holding, KeyOf
<1> QED BY <1>1, <1>2, <1>3, <1>4, <1>5, <1>6, <1>7 DEF Next

LEMMA SpecKeys == Spec => []KeysSound
BY InitKeys, NextKeys, PTL DEF Spec

LEMMA KeysAreEnough == KeysSound => KeyRunsOnce
<1> SUFFICES ASSUME KeysSound, NEW k \in Keys \ excused
             PROVE  runs[k] <= 1
  BY DEF KeyRunsOnce
<1>1. KeySound(k)
  BY DEF KeysSound
<1>2. runs[k] \in {0, 1}
  <2>1. CASE \E s \in Sessions : HoldsKey(s, k)
    BY <1>1, <2>1 DEF KeySound
  <2>2. CASE \A s \in Sessions : ~HoldsKey(s, k)
    BY <1>1, <2>2 DEF KeySound
  <2> QED BY <2>1, <2>2
<1> QED BY <1>2

\* Under a key that was neither sent twice at once, nor expired, nor lost its answer
\* before it was kept, the handler commits once at most: for any number of clients,
\* sessions, repetitions and failures.
THEOREM HandlerRunsOnce == Spec => []KeyRunsOnce
BY KeysAreEnough, SpecKeys, PTL

-----------------------------------------------------------------------------
(* What a row that one request has read is when the request writes.        *)

SelectedBy(s) == Selected(session[s].seen, session[s].request)

RowsFit ==
    /\ \A i \in DOMAIN rows : RowFits(rows[i])
    /\ \A r \in requests : RequestFits(r, rows)
    /\ \A s \in Sessions : Holding(s) => session[s].request \in requests

ReadsCurrent ==
    /\ \A s \in Sessions : UnderWay(s) =>
          \A i \in SelectedBy(s) \ overlapped :
              i \in DOMAIN rows /\ rows[i] = session[s].seen[i]
    /\ \A s, t \in Sessions : UnderWay(s) /\ UnderWay(t) /\ s # t =>
          SelectedBy(s) \cap SelectedBy(t) \subseteq overlapped

\* What a request read has the columns of a row, and a document's kind; it is what the
\* handler's guard allowed.
SeenFits(s) ==
    LET seen == session[s].seen
        r == session[s].request
    IN  /\ \A i \in DOMAIN seen : RowFits(seen[i])
        /\ \A i \in DOMAIN seen \cap DOMAIN rows :
               rows[i].kind \in DocumentKinds => seen[i].kind = rows[i].kind
        /\ r.op = "transition" => r.row \in DOMAIN seen /\ Allows(seen[r.row], r.action)

ReadsSound ==
    /\ SessionsTyped
    /\ RowsFit
    /\ ReadsCurrent
    /\ \A s \in Sessions : UnderWay(s) => SeenFits(s)

LEMMA InsertedRecords ==
    ASSUME NEW kind \in BatchKinds \cup {"tax_return"}, NEW i \in DOMAIN Inserted(kind)
    PROVE  /\ Inserted(kind)[i].kind = kind
           /\ Inserted(kind)[i].status = "calculated"
           /\ {"kind", "status"} \subseteq DOMAIN Inserted(kind)[i]
<1>1. CASE kind = "tax_return"
  BY <1>1 DEF Inserted, calculate_tax_return
<1>2. CASE kind = "payroll"
  BY <1>2 DEF Inserted, calculate_payroll, CalculatedRecord
<1>3. CASE kind = "bonus"
  BY <1>3 DEF Inserted, calculate_bonus, CalculatedRecord
<1>4. CASE kind = "year_end"
  BY <1>4 DEF Inserted, calculate_year_end_adjustment, CalculatedRecord
<1> QED BY <1>1, <1>2, <1>3, <1>4 DEF BatchKinds

\* A request changes no column but the three of Column.
LEMMA ColumnKeeps ==
    ASSUME NEW row, NEW old, NEW r, r.op \in Operations, r.op # "calculate", "kind" \in DOMAIN row
    PROVE  /\ Column(row, old, r).kind = row.kind
           /\ DOMAIN Column(row, old, r) = DOMAIN row
<1>1. CASE r.op \in {"transition", "batch"}
  BY <1>1 DEF Column
<1>2. CASE r.op = "depreciate"
  BY <1>2 DEF Column
<1>3. CASE r.op = "dispose"
  BY <1>3 DEF Column
<1> QED BY <1>1, <1>2, <1>3 DEF Operations

LEMMA UpdatedAreSelected ==
    ASSUME NEW seen, NEW r, r.op # "calculate"
    PROVE  Updated(seen, r) \subseteq Selected(seen, r)
BY DEF Updated

\* The tables after a commit: what was not selected stays, what was selected keeps its
\* columns, and what is new is a calculated record.
LEMMA RowsAfterCommit ==
    ASSUME RowsFit, NEW s \in Sessions, Commit(s)
    PROVE  LET r == session[s].request
           IN  /\ r \in requests /\ RequestFits(r, rows)
               /\ \A i \in DOMAIN rows : i \notin SelectedBy(s) =>
                      i \in DOMAIN rows' /\ rows'[i] = rows[i]
               /\ r.op # "calculate" => DOMAIN rows' = DOMAIN rows
               /\ \A i \in DOMAIN rows' :
                      \/ /\ i \in DOMAIN rows
                         /\ rows'[i].kind = rows[i].kind
                         /\ DOMAIN rows'[i] = DOMAIN rows[i]
                      \/ /\ r.op = "calculate"
                         /\ rows'[i].kind = r.kind
                         /\ RowFits(rows'[i])
<1> DEFINE r == session[s].request
           seen == session[s].seen
<1>1. r \in requests /\ RequestFits(r, rows) /\ r.op \in Operations
  BY DEF RowsFit, Commit, UnderWay, Holding, RequestFits
<1>2. rows' = Committed(seen, r)
  BY DEF Commit
<1>3. CASE r.op # "calculate"
  <2>1. rows' = [i \in DOMAIN rows |->
                    IF i \in Updated(seen, r) THEN Column(rows[i], seen[i], r) ELSE rows[i]]
    BY <1>2, <1>3 DEF Committed
  <2>2. \A i \in DOMAIN rows : "kind" \in DOMAIN rows[i]
    BY DEF RowsFit, RowFits
  <2>3. \A i \in DOMAIN rows : i \notin SelectedBy(s) => rows'[i] = rows[i]
    BY <1>3, <2>1, UpdatedAreSelected DEF SelectedBy
  <2>4. \A i \in DOMAIN rows : rows'[i].kind = rows[i].kind /\ DOMAIN rows'[i] = DOMAIN rows[i]
    <3> SUFFICES ASSUME NEW i \in DOMAIN rows
                 PROVE  rows'[i].kind = rows[i].kind /\ DOMAIN rows'[i] = DOMAIN rows[i]
      OBVIOUS
    <3> HIDE DEF r, seen
    <3> QED BY <1>1, <1>3, <2>1, <2>2, ColumnKeeps
  <2>5. DOMAIN rows' = DOMAIN rows
    BY <2>1
  <2> QED BY <1>1, <1>3, <2>3, <2>4, <2>5
<1>4. CASE r.op = "calculate"
  <2> DEFINE kept == DOMAIN rows \ Selected(seen, r)
             new == Inserted(r.kind)
  <2>1. rows' = [i \in kept \cup DOMAIN new |-> IF i \in kept THEN rows[i] ELSE new[i]]
    BY <1>2, <1>4 DEF Committed
  <2>2. \A i \in DOMAIN new : new[i].kind = r.kind /\ RowFits(new[i])
    <3> SUFFICES ASSUME NEW i \in DOMAIN new PROVE new[i].kind = r.kind /\ RowFits(new[i])
      OBVIOUS
    <3>1. r.kind \in BatchKinds \cup {"tax_return"}
      BY <1>1, <1>4 DEF RequestFits
    <3>2. new[i].kind = r.kind /\ {"kind", "status"} \subseteq DOMAIN new[i]
      BY <3>1, InsertedRecords
    <3>3. r.kind \notin DocumentKinds
      BY <3>1 DEF BatchKinds, DocumentKinds
    <3> HIDE DEF new, r
    <3> QED BY <3>2, <3>3 DEF RowFits
  <2> HIDE DEF new
  <2>3. \A i \in DOMAIN rows : i \notin SelectedBy(s) => i \in DOMAIN rows' /\ rows'[i] = rows[i]
    BY <2>1 DEF SelectedBy
  <2> QED BY <1>1, <1>4, <2>1, <2>2, <2>3
<1> QED BY <1>3, <1>4

\* The tables of the two kinds of documents, as moves.
LEMMA AllowedMoves ==
    ASSUME NEW row, RowFits(row), row.kind \in DocumentKinds, NEW action, Allows(row, action)
    PROVE  \/ row.kind = "invoice" /\ row.status = "draft" /\ action = "issued"
           \/ row.kind = "invoice" /\ row.status = "issued" /\ action \in {"paid", "cancelled"}
           \/ row.kind = "expense" /\ row.status = "submitted" /\ action \in {"approved", "rejected"}
           \/ row.kind = "expense" /\ row.status = "approved" /\ action = "paid"
<1>1. CASE row.kind = "invoice"
  BY <1>1 DEF RowFits, Allows, DocumentKinds, VALID_TRANSITIONS, VALID_INVOICE_TRANSITIONS
<1>2. CASE row.kind = "expense"
  BY <1>2 DEF RowFits, Allows, DocumentKinds, VALID_TRANSITIONS, VALID_EXPENSE_TRANSITIONS
<1> QED BY <1>1, <1>2 DEF DocumentKinds

\* A status that a document may move to is in the table of its kind, is another one than it
\* has, and is the one status it passes.
LEMMA AllowedIsNew ==
    ASSUME NEW row, RowFits(row), row.kind \in DocumentKinds, NEW action, Allows(row, action)
    PROVE  /\ action \in DOMAIN VALID_TRANSITIONS[row.kind]
           /\ action # row.status
           /\ action \notin Passed(row)
<1>1. action \in DOMAIN VALID_TRANSITIONS[row.kind]
  BY AllowedMoves
     DEF VALID_TRANSITIONS, VALID_INVOICE_TRANSITIONS, VALID_EXPENSE_TRANSITIONS
<1>2. action # row.status /\ action \notin Passed(row)
  BY AllowedMoves DEF Passed
<1> QED BY <1>1, <1>2

LEMMA AllowedIsPassed ==
    ASSUME NEW row, RowFits(row), row.kind \in DocumentKinds, NEW action, Allows(row, action),
           NEW moved, moved.kind = row.kind, moved.status = action
    PROVE  Passed(moved) = Passed(row) \cup {action}
BY AllowedMoves DEF Passed

\* A commit moves a document only by a transition of its own.
LEMMA DocumentMoves ==
    ASSUME ReadsSound, NEW s \in Sessions, Commit(s),
           NEW i \in DOMAIN rows', rows'[i].kind \in DocumentKinds
    PROVE  LET r == session[s].request
           IN  /\ i \in DOMAIN rows
               /\ rows'[i].kind = rows[i].kind
               /\ i \in SelectedBy(s) =>
                      r.op = "transition" /\ r.row = i /\ r.kind = rows[i].kind
               /\ rows'[i].status = IF i \in SelectedBy(s) THEN r.action ELSE rows[i].status
<1> DEFINE r == session[s].request
           seen == session[s].seen
<1>1. RowsFit /\ UnderWay(s) /\ SeenFits(s)
  BY DEF ReadsSound, Commit
<1>2. RequestFits(r, rows)
  BY <1>1, RowsAfterCommit
<1>3. i \in DOMAIN rows /\ rows'[i].kind = rows[i].kind
  <2>1. r.op = "calculate" => r.kind \notin DocumentKinds
    BY <1>2 DEF RequestFits, BatchKinds, DocumentKinds
  <2> QED BY <1>1, <2>1, RowsAfterCommit
<1>4. RowFits(rows[i])
  BY <1>1, <1>3 DEF RowsFit
<1>5. CASE i \notin SelectedBy(s)
  BY <1>1, <1>3, <1>5, RowsAfterCommit
<1>6. CASE i \in SelectedBy(s)
  <2>1. r.op \notin {"batch", "calculate"}
    <3> SUFFICES ASSUME r.op \in {"batch", "calculate"} PROVE FALSE
      OBVIOUS
    <3>1. i \in DOMAIN seen /\ seen[i].kind = r.kind
      BY <1>6 DEF SelectedBy, Selected, OfKind
    <3>2. r.kind \notin DocumentKinds
      BY <1>2 DEF RequestFits, BatchKinds, DocumentKinds
    <3> QED BY <1>1, <1>3, <3>1, <3>2 DEF SeenFits
  <2>2. i = r.row
    BY <1>6, <2>1 DEF SelectedBy, Selected
  <2>3. r.op = "transition" /\ r.kind = rows[i].kind
    BY <1>2, <1>3, <2>1, <2>2 DEF RequestFits, Operations, DocumentKinds
  <2>4. rows'[i] = IF i \in Updated(seen, r) THEN Column(rows[i], seen[i], r) ELSE rows[i]
    BY <1>3, <2>1 DEF Commit, Committed
  <2>5. Column(rows[i], seen[i], r).status = r.action
    BY <1>3, <1>4, <2>3 DEF Column, RowFits
  <2>6. i \in Updated(seen, r)
    <3>1. RowFits(seen[i]) /\ seen[i].kind \in DocumentKinds /\ Allows(seen[i], r.action)
      BY <1>1, <1>3, <2>2, <2>3 DEF SeenFits
    <3>2. seen[i].status # r.action
      BY <3>1, AllowedIsNew
    <3> QED BY <1>6, <2>3, <3>2 DEF Updated, SelectedBy
  <2> QED BY <1>3, <1>6, <2>2, <2>3, <2>4, <2>5, <2>6
<1> QED BY <1>5, <1>6

LEMMA CommitKeepsRows ==
    ASSUME ReadsSound, NEW s \in Sessions, Commit(s)
    PROVE  RowsFit'
<1> DEFINE r == session[s].request
           seen == session[s].seen
<1>1. RowsFit /\ UnderWay(s) /\ SeenFits(s) /\ SessionsTyped
  BY DEF ReadsSound, Commit
<1>2. RequestFits(r, rows)
  BY <1>1, RowsAfterCommit
<1>3. ASSUME NEW i \in DOMAIN rows'
      PROVE  RowFits(rows'[i])
  <2>1. CASE rows'[i].kind \in DocumentKinds
    <3>1. /\ i \in DOMAIN rows
          /\ rows'[i].kind = rows[i].kind
          /\ \/ rows'[i].status = rows[i].status
             \/ /\ i \in SelectedBy(s) /\ r.op = "transition"
                /\ rows'[i].status = r.action
          /\ i \in SelectedBy(s) => r.row = i
      BY <2>1, DocumentMoves
    <3>2. RowFits(rows[i])
      BY <1>1, <3>1 DEF RowsFit
    <3>3. "kind" \in DOMAIN rows'[i] /\ "status" \in DOMAIN rows'[i]
      <4>1. DOMAIN rows'[i] = DOMAIN rows[i] \/ RowFits(rows'[i])
        BY <1>1, RowsAfterCommit
      <4> QED BY <2>1, <3>1, <3>2, <4>1 DEF RowFits
    <3>4. rows'[i].status \in DOMAIN VALID_TRANSITIONS[rows'[i].kind]
      <4>1. CASE rows'[i].status = rows[i].status
        BY <2>1, <3>1, <3>2, <4>1 DEF RowFits
      <4>2. CASE i \in SelectedBy(s) /\ r.op = "transition" /\ rows'[i].status = r.action
        <5>1. i \in DOMAIN seen /\ RowFits(seen[i]) /\ Allows(seen[i], r.action)
          BY <1>1, <3>1, <4>2 DEF SeenFits
        <5>2. seen[i].kind = rows[i].kind /\ rows[i].kind \in DocumentKinds
          BY <1>1, <2>1, <3>1, <5>1 DEF SeenFits
        <5>3. r.action \in DOMAIN VALID_TRANSITIONS[seen[i].kind]
          BY <5>1, <5>2, AllowedIsNew
        <5> QED BY <3>1, <4>2, <5>2, <5>3
      <4> QED BY <3>1, <4>1, <4>2
    <3> QED BY <3>3, <3>4 DEF RowFits
  <2>2. CASE rows'[i].kind \notin DocumentKinds
    <3>1. \/ RowFits(rows'[i])
          \/ /\ i \in DOMAIN rows
             /\ rows'[i].kind = rows[i].kind
             /\ DOMAIN rows'[i] = DOMAIN rows[i]
      BY <1>1, RowsAfterCommit
    <3>2. i \in DOMAIN rows => RowFits(rows[i])
      BY <1>1 DEF RowsFit
    <3> QED BY <2>2, <3>1, <3>2 DEF RowFits
  <2> QED BY <2>1, <2>2
<1>4. ASSUME NEW q \in requests
      PROVE  RequestFits(q, rows')
  <2>1. RequestFits(q, rows)
    BY <1>1 DEF RowsFit
  <2>2. ASSUME q.op \notin {"batch", "calculate"}, q.kind \in DocumentKinds
        PROVE  q.row \in DOMAIN rows' /\ rows'[q.row].kind = q.kind
    <3>1. q.row \in DOMAIN rows /\ rows[q.row].kind = q.kind
      BY <2>1, <2>2 DEF RequestFits
    <3>2. ASSUME r.op = "calculate"
          PROVE  q.row \notin SelectedBy(s)
      <4> SUFFICES ASSUME q.row \in SelectedBy(s) PROVE FALSE
        OBVIOUS
      <4>1. q.row \in DOMAIN seen /\ seen[q.row].kind = r.kind
        BY <3>2 DEF SelectedBy, Selected, OfKind
      <4>2. r.kind \notin DocumentKinds
        BY <1>2, <3>2 DEF RequestFits, BatchKinds, DocumentKinds
      <4> QED BY <1>1, <2>2, <3>1, <4>1, <4>2 DEF SeenFits
    <3>3. CASE r.op # "calculate"
      BY <1>1, <3>1, <3>3, RowsAfterCommit
    <3>4. CASE r.op = "calculate"
      BY <1>1, <3>1, <3>2, <3>4, RowsAfterCommit
    <3> QED BY <3>3, <3>4
  <2>3. ASSUME q.op \notin {"batch", "calculate"}, q.kind \notin DocumentKinds,
               q.row \in DOMAIN rows'
        PROVE  rows'[q.row].kind \notin DocumentKinds
    <3> SUFFICES ASSUME rows'[q.row].kind \in DocumentKinds PROVE FALSE
      OBVIOUS
    <3>1. q.row \in DOMAIN rows /\ rows'[q.row].kind = rows[q.row].kind
      BY <2>3, DocumentMoves
    <3> QED BY <2>1, <2>3, <3>1 DEF RequestFits
  <2> QED BY <2>1, <2>2, <2>3 DEF RequestFits
<1>5. ASSUME NEW t \in Sessions, Holding(t)'
      PROVE  session'[t].request \in requests'
  <2>1. /\ requests' = requests
        /\ \/ session' = [session EXCEPT ![s] = Idle]
           \/ session' = [session EXCEPT ![s] = [phase |-> "answered", request |-> r]]
    BY DEF Commit
  <2>2. r \in requests
    BY <1>1 DEF RowsFit, UnderWay, Holding
  <2> QED BY <1>1, <1>5, <2>1, <2>2 DEF RowsFit, SessionsTyped, Holding, Idle
<1>6. requests' = requests
  BY DEF Commit
<1> QED BY <1>3, <1>4, <1>5, <1>6 DEF RowsFit

\* A commit leaves what the other requests have read as they know it.
LEMMA CommitKeepsReads ==
    ASSUME ReadsSound, NEW s \in Sessions, Commit(s)
    PROVE  /\ ReadsCurrent'
           /\ \A t \in Sessions : UnderWay(t)' => SeenFits(t)'
<1>1. /\ RowsFit /\ SessionsTyped /\ ReadsCurrent /\ UnderWay(s)
      /\ overlapped' = overlapped
  BY DEF ReadsSound, Commit
<1>2. ASSUME NEW t \in Sessions, UnderWay(t)'
      PROVE  t # s /\ UnderWay(t) /\ session'[t] = session[t] /\ SelectedBy(t)' = SelectedBy(t)
  <2>1. \/ session' = [session EXCEPT ![s] = Idle]
        \/ session' = [session EXCEPT ![s] =
                          [phase |-> "answered", request |-> session[s].request]]
    BY DEF Commit
  <2>2. t # s /\ session'[t] = session[t]
    BY <1>1, <1>2, <2>1 DEF SessionsTyped, UnderWay, Idle
  <2> QED BY <1>2, <2>2 DEF UnderWay, SelectedBy
<1>3. ASSUME NEW t \in Sessions, UnderWay(t)', NEW i \in SelectedBy(t)' \ overlapped'
      PROVE  i \in DOMAIN rows' /\ rows'[i] = session'[t].seen[i]
  <2>1. t # s /\ UnderWay(t) /\ session'[t] = session[t] /\ i \in SelectedBy(t) \ overlapped
    BY <1>1, <1>2, <1>3
  <2>2. i \in DOMAIN rows /\ rows[i] = session[t].seen[i]
    BY <1>1, <2>1 DEF ReadsCurrent
  <2>3. i \notin SelectedBy(s)
    BY <1>1, <2>1 DEF ReadsCurrent
  <2>4. i \in DOMAIN rows' /\ rows'[i] = rows[i]
    BY <1>1, <2>2, <2>3, RowsAfterCommit
  <2> QED BY <2>1, <2>2, <2>4
<1>4. ASSUME NEW t \in Sessions, NEW u \in Sessions, UnderWay(t)', UnderWay(u)', t # u
      PROVE  SelectedBy(t)' \cap SelectedBy(u)' \subseteq overlapped'
  BY <1>1, <1>2, <1>4 DEF ReadsCurrent
<1>5. ASSUME NEW t \in Sessions, UnderWay(t)'
      PROVE  SeenFits(t)'
  <2>1. UnderWay(t) /\ session'[t] = session[t]
    BY <1>2, <1>5
  <2>2. SeenFits(t)
    BY <2>1 DEF ReadsSound
  <2>3. \A i \in DOMAIN rows' : rows'[i].kind \in DocumentKinds =>
           i \in DOMAIN rows /\ rows'[i].kind = rows[i].kind
    BY DocumentMoves
  <2> QED BY <2>1, <2>2, <2>3 DEF SeenFits
<1> QED BY <1>3, <1>4, <1>5 DEF ReadsCurrent

\* A step that writes no row and under which no request gets under way.
LEMMA OthersKeepReads ==
    ASSUME ReadsSound, SessionsTyped', UNCHANGED <<rows, requests, overlapped>>,
           \A t \in Sessions : UnderWay(t)' => UnderWay(t) /\ session'[t] = session[t],
           \A t \in Sessions : Holding(t)' => session'[t].request \in requests
    PROVE  ReadsSound'
<1>1. RowsFit'
  BY DEF ReadsSound, RowsFit
<1>2. ReadsCurrent'
  BY DEF ReadsSound, ReadsCurrent, SelectedBy
<1>3. \A t \in Sessions : UnderWay(t)' => SeenFits(t)'
  BY DEF ReadsSound, SeenFits
<1> QED BY <1>1, <1>2, <1>3 DEF ReadsSound

LEMMA ReadKeepsReads ==
    ASSUME ReadsSound, SessionsTyped', NEW s \in Sessions, Read(s)
    PROVE  ReadsSound'
<1> DEFINE r == session[s].request
           together == {i \in Selected(rows, r) : \E t \in Sessions :
                           UnderWay(t) /\ i \in Selected(session[t].seen, session[t].request)}
<1>1. /\ RowsFit /\ SessionsTyped /\ ReadsCurrent
      /\ session[s].phase = "received"
      /\ UNCHANGED <<rows, requests>>
      /\ r \in requests
  BY DEF ReadsSound, RowsFit, Read, Holding
<1>2. CASE session' = [session EXCEPT ![s] = Idle] /\ overlapped' = overlapped
  <2>1. \A t \in Sessions : UnderWay(t)' => UnderWay(t) /\ session'[t] = session[t]
    BY <1>1, <1>2 DEF SessionsTyped, UnderWay, Idle
  <2>2. \A t \in Sessions : Holding(t)' => session'[t].request \in requests
    BY <1>1, <1>2 DEF SessionsTyped, Holding, Idle, RowsFit
  <2> QED BY <1>1, <1>2, <2>1, <2>2, OthersKeepReads
<1>3. CASE /\ TRUE \in Verdicts(rows, r)
           /\ session' = [session EXCEPT ![s] = [phase |-> "read", request |-> r, seen |-> rows]]
           /\ overlapped' = overlapped \cup together
  <2>1. /\ session'[s] = [phase |-> "read", request |-> r, seen |-> rows]
        /\ \A t \in Sessions \ {s} : session'[t] = session[t]
        /\ ~UnderWay(s)
    BY <1>1, <1>3 DEF SessionsTyped, UnderWay
  <2>2. SelectedBy(s)' = Selected(rows, r) /\ Selected(rows, r) \subseteq DOMAIN rows
    BY <2>1 DEF SelectedBy, Selected, OfKind
  <2>3. \A t \in Sessions \ {s} : /\ UnderWay(t)' <=> UnderWay(t)
                                  /\ SelectedBy(t)' = SelectedBy(t)
    BY <2>1 DEF UnderWay, SelectedBy
  <2>4. RowsFit'
    BY <1>1, <2>1 DEF RowsFit, Holding
  <2>5. ASSUME NEW t \in Sessions, UnderWay(t)', NEW i \in SelectedBy(t)' \ overlapped'
        PROVE  i \in DOMAIN rows' /\ rows'[i] = session'[t].seen[i]
    <3>1. CASE t = s
      BY <1>1, <2>1, <2>2, <2>5, <3>1
    <3>2. CASE t # s
      BY <1>1, <1>3, <2>1, <2>3, <2>5, <3>2 DEF ReadsCurrent
    <3> QED BY <3>1, <3>2
  <2>6. ASSUME NEW t \in Sessions \ {s}, UnderWay(t)
        PROVE  SelectedBy(t) \cap SelectedBy(s)' \subseteq overlapped'
    BY <1>3, <2>2, <2>6 DEF SelectedBy
  <2>7. ASSUME NEW t \in Sessions, NEW u \in Sessions, UnderWay(t)', UnderWay(u)', t # u
        PROVE  SelectedBy(t)' \cap SelectedBy(u)' \subseteq overlapped'
    <3>1. CASE t # s /\ u # s
      BY <1>1, <1>3, <2>3, <2>7, <3>1 DEF ReadsCurrent
    <3>2. CASE u = s
      BY <2>3, <2>6, <2>7, <3>2
    <3>3. CASE t = s
      BY <2>3, <2>6, <2>7, <3>3
    <3> QED BY <3>1, <3>2, <3>3
  <2>8. SeenFits(s)'
    <3>1. r.op = "transition" => r.row \in DOMAIN rows /\ Allows(rows[r.row], r.action)
      BY <1>3 DEF Verdicts
    <3> QED BY <1>1, <2>1, <3>1 DEF SeenFits, RowsFit
  <2>9. \A t \in Sessions \ {s} : UnderWay(t)' => SeenFits(t)'
    BY <1>1, <2>1, <2>3 DEF SeenFits, ReadsSound
  <2> QED BY <2>4, <2>5, <2>7, <2>8, <2>9 DEF ReadsSound, ReadsCurrent
<1> QED BY <1>2, <1>3 DEF Read

LEMMA NextReads == ReadsSound /\ SessionsTyped' /\ [Next]_vars => ReadsSound'
<1> SUFFICES ASSUME ReadsSound, SessionsTyped', [Next]_vars PROVE ReadsSound'
  OBVIOUS
<1>0. SessionsTyped /\ RowsFit
  BY DEF ReadsSound
<1>1. ASSUME NEW s \in Sessions, NEW r \in requests, Receive(s, r)
      PROVE  ReadsSound'
  <2>1. /\ UNCHANGED <<rows, requests, overlapped>>
        /\ \/ session' = [session EXCEPT ![s] = Idle]
           \/ session' = [session EXCEPT ![s] = [phase |-> "received", request |-> r]]
    BY <1>1 DEF Receive
  <2>2. \A t \in Sessions : UnderWay(t)' => UnderWay(t) /\ session'[t] = session[t]
    BY <1>0, <2>1 DEF SessionsTyped, UnderWay, Idle
  <2>3. \A t \in Sessions : Holding(t)' => session'[t].request \in requests
    BY <1>0, <2>1 DEF SessionsTyped, Holding, Idle, RowsFit
  <2> QED BY <2>1, <2>2, <2>3, OthersKeepReads
<1>2. ASSUME NEW s \in Sessions, Read(s)
      PROVE  ReadsSound'
  BY <1>2, ReadKeepsReads
<1>3. ASSUME NEW s \in Sessions, Commit(s)
      PROVE  ReadsSound'
  BY <1>3, CommitKeepsRows, CommitKeepsReads DEF ReadsSound
<1>4. ASSUME NEW s \in Sessions, Save(s) \/ Lose(s)
      PROVE  ReadsSound'
  <2>1. /\ UNCHANGED <<rows, requests, overlapped>>
        /\ session' = [session EXCEPT ![s] = Idle]
    BY <1>4 DEF Save, Lose
  <2>2. \A t \in Sessions : UnderWay(t)' => UnderWay(t) /\ session'[t] = session[t]
    BY <1>0, <2>1 DEF SessionsTyped, UnderWay, Idle
  <2>3. \A t \in Sessions : Holding(t)' => session'[t].request \in requests
    BY <1>0, <2>1 DEF SessionsTyped, Holding, Idle, RowsFit
  <2> QED BY <2>1, <2>2, <2>3, OthersKeepReads
<1>5. CASE \/ UNCHANGED vars
           \/ \E k \in Keys : Expire(k)
  <2>1. UNCHANGED <<rows, requests, overlapped, session>>
    BY <1>5 DEF vars, Expire
  <2> QED BY <1>0, <2>1, OthersKeepReads DEF UnderWay, Holding, RowsFit
<1> QED BY <1>1, <1>2, <1>3, <1>4, <1>5 DEF Next

LEMMA InitReads == Init => ReadsSound
<1> SUFFICES ASSUME Init PROVE ReadsSound
  OBVIOUS
<1>1. \A s \in Sessions : ~Holding(s) /\ ~UnderWay(s)
  BY DEF Init, Holding, UnderWay, Idle
<1>2. RowsFit
  BY <1>1, WorldsAssumption DEF Init, RowsFit
<1> QED BY <1>1, <1>2, InitKeys DEF ReadsSound, ReadsCurrent, KeysSound

LEMMA SpecReads == Spec => []ReadsSound
<1>1. Spec => []SessionsTyped
  BY SpecKeys, PTL DEF KeysSound
<1> QED BY <1>1, InitReads, NextReads, PTL DEF Spec

LEMMA BatchStep ==
    ReadsSound /\ [Next]_vars =>
        [\A s \in Sessions :
          /\ UnderWay(s) /\ session[s].request.op = "batch" /\ notices' # notices
          /\ session'[s] # session[s]
          => \A i \in Selected(session[s].seen, session[s].request) \ overlapped :
                rows'[i].status = session[s].request.action]_vars
<1> SUFFICES ASSUME ReadsSound, Next, NEW s \in Sessions, UnderWay(s),
                    session[s].request.op = "batch", notices' # notices,
                    session'[s] # session[s],
                    NEW i \in SelectedBy(s) \ overlapped
             PROVE  rows'[i].status = session[s].request.action
  BY DEF SelectedBy
<1> DEFINE r == session[s].request
           seen == session[s].seen
<1>1. PICK t \in Sessions : Commit(t)
  BY DEF Next, Receive, Read, Save, Lose, Expire
<1>2. t = s
  BY <1>1 DEF Commit, ReadsSound, SessionsTyped
<1>3. i \in DOMAIN rows /\ rows[i] = seen[i]
  BY DEF ReadsSound, ReadsCurrent
<1>4. i \in DOMAIN seen /\ seen[i].kind = r.kind
  BY DEF SelectedBy, Selected, OfKind
<1>5. "status" \in DOMAIN rows[i]
  <2>1. r.kind \in BatchKinds /\ RowFits(rows[i])
    BY <1>1, <1>2, <1>3, RowsAfterCommit DEF ReadsSound, RowsFit, RequestFits
  <2> QED BY <1>3, <1>4, <2>1 DEF RowFits
<1>6. rows'[i] = IF i \in Updated(seen, r) THEN Column(rows[i], seen[i], r) ELSE rows[i]
  BY <1>1, <1>2, <1>3 DEF Commit, Committed
<1>7. i \in Updated(seen, r) <=> seen[i].status # r.action
  BY DEF Updated, SelectedBy
<1>8. Column(rows[i], seen[i], r).status = r.action
  BY <1>5 DEF Column
<1> QED BY <1>3, <1>6, <1>7, <1>8

\* The records of a month, a bonus round or a year-end adjustment that nobody else read
\* meanwhile have one status after a batch: also when the first of them, the only one
\* that is checked, had another status than the rest.
THEOREM BatchesMoveTogether == Spec => BatchMovesTogether
BY BatchStep, SpecReads, PTL DEF Spec, BatchMovesTogether

-----------------------------------------------------------------------------
(* A document has the records of the statuses it passed.                   *)

IsAList(list) == list \in Seq(Range(list))

\* Document i has what is due of every status that row has passed.
HasRecords(i, row) ==
    \A a \in Passed(row) : \A n \in Written(journals, notices, i, row.kind, a) : n >= 1

RecordsSound ==
    /\ IsAList(journals) /\ IsAList(notices)
    /\ OneRecordPerMove
    /\ \A s \in Sessions :
          LET r == session[s].request
          IN  /\ UnderWay(s) /\ r.op = "transition" /\ r.kind \in DocumentKinds
              /\ chart = Accounts
              => HasRecords(r.row, session[s].seen[r.row])

\* The entries of a list that are in a set, after one more entry.
LEMMA OneMore ==
    ASSUME NEW list, IsAList(list), NEW x, NEW good
    PROVE  LET more == Append(list, x)
               before == {n \in DOMAIN list : list[n] \in good}
               after == {n \in DOMAIN more : more[n] \in good}
           IN  /\ IsAList(more)
               /\ Cardinality(before) \in Nat
               /\ Cardinality(after) =
                      IF x \in good THEN Cardinality(before) + 1 ELSE Cardinality(before)
<1> DEFINE S == Range(list) \cup {x}
           more == Append(list, x)
           before == {n \in DOMAIN list : list[n] \in good}
           after == {n \in DOMAIN more : more[n] \in good}
<1>1. list \in Seq(S) /\ x \in S
  BY DEF IsAList
<1>2. /\ more \in Seq(S)
      /\ Len(list) \in Nat
      /\ Len(more) = Len(list) + 1
      /\ DOMAIN list = 1 .. Len(list) /\ DOMAIN more = 1 .. Len(list) + 1
      /\ \A n \in 1 .. Len(list) : more[n] = list[n]
      /\ more[Len(list) + 1] = x
  BY <1>1
<1> HIDE DEF more, S
<1>3. IsAList(more)
  <2>1. \A n \in 1 .. Len(more) : more[n] \in Range(more)
    BY <1>2 DEF Range
  <2> QED BY <1>2, <2>1 DEF IsAList
<1>4. IsFiniteSet(before) /\ Cardinality(before) \in Nat
  <2>1. IsFiniteSet(1 .. Len(list))
    BY <1>2, FS_Interval
  <2>2. before \in SUBSET (1 .. Len(list))
    BY <1>2
  <2>3. IsFiniteSet(before)
    BY <2>1, <2>2, FS_Subset
  <2> QED BY <2>3, FS_CardinalityType
<1>5. CASE x \in good
  <2>1. after = before \cup {Len(list) + 1} /\ Len(list) + 1 \notin before
    BY <1>2, <1>5
  <2> HIDE DEF before, after
  <2> QED BY <1>3, <1>4, <1>5, <2>1, FS_AddElement DEF more, before, after
<1>6. CASE x \notin good
  <2>1. after = before
    BY <1>2, <1>6
  <2> QED BY <1>3, <1>4, <1>6, <2>1 DEF more
<1> QED BY <1>5, <1>6

LEMMA OneMoreNotice ==
    ASSUME NEW list, IsAList(list), NEW x, NEW i, NEW a
    PROVE  /\ NoticesOf(list, i, a) \in Nat
           /\ NoticesOf(Append(list, x), i, a) =
                  IF x.action = a /\ i \in x.about THEN NoticesOf(list, i, a) + 1
                  ELSE NoticesOf(list, i, a)
<1> DEFINE more == Append(list, x)
           good == {e \in Range(list) \cup {x} : e.action = a /\ i \in e.about}
<1>1. {n \in DOMAIN list : list[n] \in good} =
          {n \in DOMAIN list : list[n].action = a /\ i \in list[n].about}
  BY DEF Range
<1>2. \A n \in DOMAIN more : more[n] \in Range(list) \cup {x}
  <2>1. more \in Seq(Range(list) \cup {x})
    BY DEF IsAList
  <2> QED BY <2>1
<1>3. {n \in DOMAIN more : more[n] \in good} =
          {n \in DOMAIN more : more[n].action = a /\ i \in more[n].about}
  BY <1>2
<1> HIDE DEF more
<1>4. x \in good <=> x.action = a /\ i \in x.about
  OBVIOUS
<1> HIDE DEF good
<1> QED BY <1>1, <1>3, <1>4, OneMore DEF NoticesOf, more

LEMMA OneMoreJournal ==
    ASSUME NEW list, IsAList(list), NEW x, NEW i, NEW src
    PROVE  /\ JournalsOf(list, i, src) \in Nat
           /\ JournalsOf(Append(list, x), i, src) =
                  IF x.source = src /\ i \in x.about THEN JournalsOf(list, i, src) + 1
                  ELSE JournalsOf(list, i, src)
<1> DEFINE more == Append(list, x)
           good == {e \in Range(list) \cup {x} : e.source = src /\ i \in e.about}
<1>1. {n \in DOMAIN list : list[n] \in good} =
          {n \in DOMAIN list : list[n].source = src /\ i \in list[n].about}
  BY DEF Range
<1>2. \A n \in DOMAIN more : more[n] \in Range(list) \cup {x}
  <2>1. more \in Seq(Range(list) \cup {x})
    BY DEF IsAList
  <2> QED BY <2>1
<1>3. {n \in DOMAIN more : more[n] \in good} =
          {n \in DOMAIN more : more[n].source = src /\ i \in more[n].about}
  BY <1>2
<1> HIDE DEF more
<1>4. x \in good <=> x.source = src /\ i \in x.about
  OBVIOUS
<1> HIDE DEF good
<1> QED BY <1>1, <1>3, <1>4, OneMore DEF JournalsOf, more

LEMMA AppendOne ==
    ASSUME NEW list, IsAList(list), NEW x
    PROVE  list \o <<x>> = Append(list, x) /\ list \o <<>> = list
<1>1. list \in Seq(Range(list) \cup {x})
  BY DEF IsAList
<1> QED BY <1>1, AppendIsConcat, ConcatEmptySeq DEF IsAList

\* A generator leaves one header, with its source, or nothing.
OneFrom(drafts, source) == \E ls : drafts = <<[source |-> source, lines |-> ls]>>
OneOrNone(drafts) == drafts = <<>> \/ \E source : OneFrom(drafts, source)

LEMMA DraftedOne ==
    ASSUME NEW source, NEW ls, NEW first, NEW late, NEW accounts
    PROVE  OneOrNone(Drafted(source, ls, first, late, accounts))
BY DEF Drafted, OneFrom, OneOrNone

LEMMA DraftedWhole ==
    ASSUME NEW source, NEW ls, NEW first, NEW late, NEW accounts, first \subseteq accounts
    PROVE  OneFrom(Drafted(source, ls, first, late, accounts), source)
BY DEF Drafted, OneFrom

LEMMA WagesOne ==
    ASSUME NEW source, NEW gross, NEW deductions, NEW accounts
    PROVE  OneOrNone(Wages(source, gross, deductions, accounts))
BY DraftedOne DEF Wages

LEMMA HandlerDrafts ==
    ASSUME NEW seen, NEW r
    PROVE  OneOrNone(Handler(seen, r).drafts)
<1>0. OneOrNone(<<>>) /\ \A drafts, noticed : Effect(drafts, noticed).drafts = drafts
  BY DEF OneOrNone, Effect
<1>1. ASSUME NEW inv, NEW action
      PROVE  OneOrNone(transition_invoice(inv, action).drafts)
  <2>1. OneOrNone(invoice_issue_journal(inv, chart))
    BY DraftedOne DEF invoice_issue_journal
  <2>2. OneOrNone(invoice_payment_journal(inv, chart))
    BY DraftedOne DEF invoice_payment_journal
  <2> QED BY <1>0, <2>1, <2>2 DEF transition_invoice
<1>2. ASSUME NEW rep, NEW action
      PROVE  OneOrNone(transition_expense_report(rep, action).drafts)
  <2>1. OneOrNone(expense_payment_journal(rep, chart))
    BY DraftedOne DEF expense_payment_journal
  <2> QED BY <1>0, <2>1 DEF transition_expense_report
<1>3. ASSUME NEW ids, NEW action
      PROVE  OneOrNone(batch_transition_payroll(seen, ids, action).drafts)
  <2>1. OneOrNone(payroll_journal(Sum(seen, ids, Gross), Sum(seen, ids, Deductions), chart))
    BY WagesOne DEF payroll_journal
  <2> QED BY <1>0, <2>1 DEF batch_transition_payroll
<1>4. ASSUME NEW ids, NEW action
      PROVE  OneOrNone(batch_transition_bonus(seen, ids, action).drafts)
  <2>1. OneOrNone(bonus_journal(Sum(seen, ids, Gross), Sum(seen, ids, Deductions), chart))
    BY WagesOne DEF bonus_journal
  <2> QED BY <1>0, <2>1 DEF batch_transition_bonus
<1>5. ASSUME NEW a, NEW accumulated
      PROVE  OneOrNone(run_depreciation(a, accumulated).drafts)
  <2>1. OneOrNone(depreciation_journal(period_amount(a, accumulated), chart))
    BY DraftedOne DEF depreciation_journal
  <2> QED BY <1>0, <2>1 DEF run_depreciation
<1>6. LET ids == Selected(seen, r)
          h == Handler(seen, r)
      IN  \/ h = transition_invoice(seen[r.row], r.action)
          \/ h = transition_expense_report(seen[r.row], r.action)
          \/ h = batch_transition_payroll(seen, ids, r.action)
          \/ h = batch_transition_bonus(seen, ids, r.action)
          \/ h = run_depreciation(r.row, seen[r.row].accumulated)
          \/ \E noticed : h = Effect(<<>>, noticed)
  BY DEF Handler, transition_payment_request, transition_tax_return,
         transition_payroll_status, batch_transition_year_end
<1> QED BY <1>0, <1>1, <1>2, <1>3, <1>4, <1>5, <1>6

LEMMA JournaledOne ==
    ASSUME NEW seen, NEW r, NEW src, OneFrom(Handler(seen, r).drafts, src)
    PROVE  \E e : Journaled(seen, r) = <<e>> /\ e.source = src /\ e.about = Selected(seen, r)
<1>1. PICK ls : Handler(seen, r).drafts = <<[source |-> src, lines |-> ls]>>
  BY DEF OneFrom
<1> DEFINE e == [source |-> src, lines |-> ls, about |-> Selected(seen, r)]
<1>2. Journaled(seen, r) = <<e>>
  BY <1>1 DEF Journaled
<1>3. e.source = src /\ e.about = Selected(seen, r)
  OBVIOUS
<1> HIDE DEF e
<1> QED BY <1>2, <1>3

\* What a commit writes is about the rows that the request had selected.
LEMMA CommitWrites ==
    ASSUME IsAList(journals), IsAList(notices), NEW s \in Sessions, Commit(s)
    PROVE  /\ \/ journals' = journals
              \/ \E e : journals' = Append(journals, e) /\ e.about = SelectedBy(s)
           /\ \/ notices' = notices
              \/ \E e : notices' = Append(notices, e) /\ e.about = SelectedBy(s)
<1> DEFINE r == session[s].request
           seen == session[s].seen
<1>1. /\ journals' = journals \o Journaled(seen, r)
      /\ notices' = notices \o create_notification(seen, r)
  BY DEF Commit
<1>2. \/ journals' = journals
      \/ \E e : journals' = Append(journals, e) /\ e.about = SelectedBy(s)
  <2>1. CASE Handler(seen, r).drafts = <<>>
    <3>1. Journaled(seen, r) = <<>>
      BY <2>1 DEF Journaled
    <3> QED BY <1>1, <3>1, AppendOne
  <2>2. ASSUME NEW src, OneFrom(Handler(seen, r).drafts, src)
        PROVE  \E e : journals' = Append(journals, e) /\ e.about = SelectedBy(s)
    <3>1. PICK e : Journaled(seen, r) = <<e>> /\ e.about = Selected(seen, r)
      BY <2>2, JournaledOne
    <3> QED BY <1>1, <3>1, AppendOne DEF SelectedBy
  <2> QED BY <2>1, <2>2, HandlerDrafts DEF OneOrNone
<1>3. \/ notices' = notices
      \/ \E e : notices' = Append(notices, e) /\ e.about = SelectedBy(s)
  <2> DEFINE e == [about |-> Selected(seen, r), action |-> r.action]
  <2>1. create_notification(seen, r) = <<>> \/ create_notification(seen, r) = <<e>>
    BY DEF create_notification
  <2>2. e.about = SelectedBy(s)
    BY DEF SelectedBy
  <2> HIDE DEF e
  <2> QED BY <1>1, <2>1, <2>2, AppendOne
<1> QED BY <1>2, <1>3

LEMMA OthersStay ==
    ASSUME IsAList(journals), IsAList(notices), NEW s \in Sessions, Commit(s),
           NEW i, i \notin SelectedBy(s), NEW kind, NEW a
    PROVE  Written(journals', notices', i, kind, a) = Written(journals, notices, i, kind, a)
<1>1. NoticesOf(notices', i, a) = NoticesOf(notices, i, a)
  <2>1. ASSUME NEW e, notices' = Append(notices, e), e.about = SelectedBy(s)
        PROVE  NoticesOf(notices', i, a) = NoticesOf(notices, i, a)
    <3>1. NoticesOf(Append(notices, e), i, a) =
              IF e.action = a /\ i \in e.about THEN NoticesOf(notices, i, a) + 1
              ELSE NoticesOf(notices, i, a)
      BY OneMoreNotice
    <3> QED BY <2>1, <3>1
  <2> QED BY <2>1, CommitWrites
<1>2. ASSUME NEW src
      PROVE  JournalsOf(journals', i, src) = JournalsOf(journals, i, src)
  <2>1. ASSUME NEW e, journals' = Append(journals, e), e.about = SelectedBy(s)
        PROVE  JournalsOf(journals', i, src) = JournalsOf(journals, i, src)
    <3>1. JournalsOf(Append(journals, e), i, src) =
              IF e.source = src /\ i \in e.about THEN JournalsOf(journals, i, src) + 1
              ELSE JournalsOf(journals, i, src)
      BY OneMoreJournal
    <3> QED BY <2>1, <3>1
  <2> QED BY <2>1, CommitWrites
<1> QED BY <1>1, <1>2 DEF Written

\* With a complete chart no account is missing.
LEMMA DocumentJournals ==
    ASSUME chart = Accounts, NEW doc
    PROVE  /\ OneFrom(invoice_issue_journal(doc, chart), "invoice")
           /\ OneFrom(invoice_payment_journal(doc, chart), "invoice_payment")
           /\ OneFrom(expense_payment_journal(doc, chart), "expense_payment")
<1>1. OneFrom(invoice_issue_journal(doc, chart), "invoice")
  <2> DEFINE first == {Receivables, Sales, TaxReceived}
  <2>1. first \subseteq chart
    BY DEF Accounts
  <2>2. PICK ls : invoice_issue_journal(doc, chart) = Drafted("invoice", ls, first, {}, chart)
    BY DEF invoice_issue_journal
  <2> HIDE DEF first
  <2> QED BY <2>1, <2>2, DraftedWhole
<1>2. OneFrom(invoice_payment_journal(doc, chart), "invoice_payment")
  <2> DEFINE first == {Cash, Receivables}
  <2>1. first \subseteq chart
    BY DEF Accounts
  <2>2. PICK ls : invoice_payment_journal(doc, chart) = Drafted("invoice_payment", ls, first, {}, chart)
    BY DEF invoice_payment_journal
  <2> HIDE DEF first
  <2> QED BY <2>1, <2>2, DraftedWhole
<1>3. OneFrom(expense_payment_journal(doc, chart), "expense_payment")
  <2> DEFINE first == {Expenses, Cash}
  <2>1. first \subseteq chart
    BY DEF Accounts
  <2>2. PICK ls : expense_payment_journal(doc, chart) = Drafted("expense_payment", ls, first, {}, chart)
    BY DEF expense_payment_journal
  <2> HIDE DEF first
  <2> QED BY <2>1, <2>2, DraftedWhole
<1> QED BY <1>1, <1>2, <1>3

\* The handler of a document's transition leaves the notice and the journal of the status,
\* and no other journal.
LEMMA DocumentHandler ==
    ASSUME NEW seen, NEW r, chart = Accounts, r.op = "transition",
           RowFits(seen[r.row]), seen[r.row].kind = r.kind, r.kind \in DocumentKinds,
           Allows(seen[r.row], r.action)
    PROVE  /\ Handler(seen, r).noticed
           /\ \/ Source(r.kind, r.action) = {} /\ Handler(seen, r).drafts = <<>>
              \/ \E src : /\ Source(r.kind, r.action) = {src}
                          /\ OneFrom(Handler(seen, r).drafts, src)
<1> DEFINE row == seen[r.row]
           action == r.action
<1>1. CASE r.kind = "invoice"
  <2>1. Handler(seen, r) = transition_invoice(row, action)
    BY <1>1 DEF Handler
  <2>2. action \in {"issued", "paid", "cancelled"}
    BY <1>1, AllowedMoves
  <2>3. CASE action = "issued"
    <3>1. /\ Handler(seen, r).drafts = invoice_issue_journal(row, chart)
          /\ Handler(seen, r).noticed
      BY <2>1, <2>3 DEF transition_invoice, Effect
    <3>2. Source(r.kind, action) = {"invoice"}
      BY <1>1, <2>3 DEF Source
    <3> QED BY <3>1, <3>2, DocumentJournals
  <2>4. CASE action = "paid"
    <3>1. /\ Handler(seen, r).drafts = invoice_payment_journal(row, chart)
          /\ Handler(seen, r).noticed
      BY <2>1, <2>4 DEF transition_invoice, Effect
    <3>2. Source(r.kind, action) = {"invoice_payment"}
      BY <1>1, <2>4 DEF Source
    <3> QED BY <3>1, <3>2, DocumentJournals
  <2>5. CASE action = "cancelled"
    BY <1>1, <2>1, <2>5 DEF transition_invoice, Source, Effect
  <2> QED BY <2>2, <2>3, <2>4, <2>5
<1>2. CASE r.kind = "expense"
  <2>1. Handler(seen, r) = transition_expense_report(row, action)
    BY <1>2 DEF Handler
  <2>2. action \in {"approved", "rejected", "paid"}
    BY <1>2, AllowedMoves
  <2>3. CASE action = "paid"
    <3>1. /\ Handler(seen, r).drafts = expense_payment_journal(row, chart)
          /\ Handler(seen, r).noticed
      BY <2>1, <2>3 DEF transition_expense_report, Effect
    <3>2. Source(r.kind, action) = {"expense_payment"}
      BY <1>2, <2>3 DEF Source
    <3> QED BY <3>1, <3>2, DocumentJournals
  <2>4. CASE action \in {"approved", "rejected"}
    BY <1>2, <2>1, <2>4 DEF transition_expense_report, Source, Effect
  <2> QED BY <2>2, <2>3, <2>4
<1> QED BY <1>1, <1>2 DEF DocumentKinds

LEMMA SourcesDiffer ==
    ASSUME NEW kind, NEW a, NEW b, NEW src \in Source(kind, a)
    PROVE  IF a = b THEN Source(kind, b) = {src} ELSE src \notin Source(kind, b)
<1>1. \/ kind = "invoice" /\ a = "issued" /\ src = "invoice"
      \/ kind = "invoice" /\ a = "paid" /\ src = "invoice_payment"
      \/ kind = "expense" /\ a = "paid" /\ src = "expense_payment"
  BY DEF Source
<1> QED BY <1>1 DEF Source

\* n is one of the counts, or one of them and one more.
IsACount(n, counts) == \E m \in counts : m \in Nat /\ n = m
IsOneMore(n, counts) == \E m \in counts : m \in Nat /\ n = m + 1

\* A document's transition writes one record more of its status, and of no other.
LEMMA DocumentWrites ==
    ASSUME IsAList(journals), IsAList(notices), NEW s \in Sessions, Commit(s), SeenFits(s),
           chart = Accounts,
           NEW r, r = session[s].request, NEW seen, seen = session[s].seen,
           r.op = "transition", r.kind \in DocumentKinds, seen[r.row].kind = r.kind,
           NEW a, NEW n \in Written(journals', notices', r.row, r.kind, a)
    PROVE  IF a = r.action THEN IsOneMore(n, Written(journals, notices, r.row, r.kind, a))
           ELSE IsACount(n, Written(journals, notices, r.row, r.kind, a))
<1> DEFINE i == r.row
           kind == r.kind
           action == r.action
<1>1. /\ i \in DOMAIN seen /\ RowFits(seen[i]) /\ Allows(seen[i], action)
      /\ Selected(seen, r) = {i}
  BY DEF SeenFits, Selected
<1>2. Handler(seen, r).noticed
  BY <1>1, DocumentHandler
<1>3. \/ Source(kind, action) = {} /\ Handler(seen, r).drafts = <<>>
      \/ \E src : Source(kind, action) = {src} /\ OneFrom(Handler(seen, r).drafts, src)
  BY <1>1, DocumentHandler
<1>4. /\ journals' = journals \o Journaled(seen, r)
      /\ notices' = notices \o create_notification(seen, r)
      /\ UNCHANGED chart
  BY DEF Commit
<1>5. /\ NoticesOf(notices, i, a) \in Nat
      /\ NoticesOf(notices', i, a) = IF a = action THEN NoticesOf(notices, i, a) + 1
                                     ELSE NoticesOf(notices, i, a)
  <2> DEFINE e == [about |-> {i}, action |-> action]
  <2>1. create_notification(seen, r) = <<e>>
    BY <1>1, <1>2 DEF create_notification
  <2>2. i \in e.about /\ e.action = action
    OBVIOUS
  <2> HIDE DEF e
  <2>3. notices' = Append(notices, e)
    BY <1>4, <2>1, AppendOne
  <2> QED BY <2>2, <2>3, OneMoreNotice
<1>6. ASSUME NEW src \in Source(kind, a)
      PROVE  /\ JournalsOf(journals, i, src) \in Nat
             /\ JournalsOf(journals', i, src) = IF a = action THEN JournalsOf(journals, i, src) + 1
                                                ELSE JournalsOf(journals, i, src)
  <2>1. CASE Source(kind, action) = {} /\ Handler(seen, r).drafts = <<>>
    <3>1. a # action
      BY <2>1
    <3>2. Journaled(seen, r) = <<>>
      BY <2>1 DEF Journaled
    <3>3. journals' = journals
      BY <1>4, <3>2, AppendOne
    <3> QED BY <3>1, <3>3, OneMoreJournal
  <2>2. ASSUME NEW posted, Source(kind, action) = {posted},
               OneFrom(Handler(seen, r).drafts, posted)
        PROVE  /\ JournalsOf(journals, i, src) \in Nat
               /\ JournalsOf(journals', i, src) =
                      IF a = action THEN JournalsOf(journals, i, src) + 1
                      ELSE JournalsOf(journals, i, src)
    <3>1. PICK e : Journaled(seen, r) = <<e>> /\ e.source = posted /\ e.about = {i}
      BY <1>1, <2>2, JournaledOne
    <3>2. a = action <=> posted = src
      BY <2>2, SourcesDiffer
    <3>3. journals' = Append(journals, e)
      BY <1>4, <3>1, AppendOne
    <3> QED BY <3>1, <3>2, <3>3, OneMoreJournal
  <2> QED BY <1>3, <2>1, <2>2
<1>7. CASE n = NoticesOf(notices', i, a)
  BY <1>5, <1>7 DEF Written, IsOneMore, IsACount
<1>8. ASSUME NEW src \in Source(kind, a), n = JournalsOf(journals', i, src)
      PROVE  IF a = action THEN IsOneMore(n, Written(journals, notices, i, kind, a))
             ELSE IsACount(n, Written(journals, notices, i, kind, a))
  BY <1>6, <1>8 DEF Written, IsOneMore, IsACount
<1>9. n = NoticesOf(notices', i, a) \/ \E src \in Source(kind, a) : n = JournalsOf(journals', i, src)
  BY DEF Written
<1> QED BY <1>7, <1>8, <1>9

LEMMA WrittenIsNat ==
    ASSUME IsAList(journals), IsAList(notices), NEW i, NEW kind, NEW a,
           NEW n \in Written(journals, notices, i, kind, a)
    PROVE  n \in Nat
BY OneMoreNotice, OneMoreJournal DEF Written

LEMMA PassedAreStatuses ==
    ASSUME NEW row, RowFits(row), row.kind \in DocumentKinds, NEW a \in Passed(row)
    PROVE  a \in DOMAIN VALID_TRANSITIONS[row.kind]
<1>1. CASE row.kind = "invoice"
  BY <1>1 DEF RowFits, Passed, VALID_TRANSITIONS, VALID_INVOICE_TRANSITIONS
<1>2. CASE row.kind = "expense"
  BY <1>2 DEF RowFits, Passed, VALID_TRANSITIONS, VALID_EXPENSE_TRANSITIONS
<1> QED BY <1>1, <1>2 DEF DocumentKinds

\* What a commit does to the records of a document.
LEMMA RecordsGrow ==
    ASSUME ReadsSound, IsAList(journals), IsAList(notices), chart = Accounts,
           NEW s \in Sessions, Commit(s),
           NEW i \in DOMAIN rows', rows'[i].kind \in DocumentKinds,
           NEW a, NEW n \in Written(journals', notices', i, rows'[i].kind, a)
    PROVE  IF i \in SelectedBy(s) /\ a = session[s].request.action
           THEN IsOneMore(n, Written(journals, notices, i, rows[i].kind, a))
           ELSE IsACount(n, Written(journals, notices, i, rows[i].kind, a))
<1> DEFINE r == session[s].request
           seen == session[s].seen
<1>1. /\ i \in DOMAIN rows /\ rows'[i].kind = rows[i].kind
      /\ i \in SelectedBy(s) => r.op = "transition" /\ r.row = i /\ r.kind = rows[i].kind
  BY DocumentMoves
<1>2. SeenFits(s)
  BY DEF ReadsSound, Commit
<1>3. CASE i \notin SelectedBy(s)
  <2>1. n \in Written(journals, notices, i, rows[i].kind, a)
    BY <1>1, <1>3, OthersStay
  <2> QED BY <1>3, <2>1, WrittenIsNat DEF IsACount
<1>4. CASE i \in SelectedBy(s)
  <2>1. i \in DOMAIN seen /\ seen[i].kind = rows[i].kind
    BY <1>1, <1>2, <1>4 DEF SeenFits
  <2>2. PICK q, old : q = r /\ old = seen
    OBVIOUS
  <2>3. /\ q.op = "transition" /\ q.kind \in DocumentKinds /\ old[q.row].kind = q.kind
        /\ n \in Written(journals', notices', q.row, q.kind, a)
    BY <1>1, <1>4, <2>1, <2>2
  <2>4. IF a = q.action THEN IsOneMore(n, Written(journals, notices, q.row, q.kind, a))
        ELSE IsACount(n, Written(journals, notices, q.row, q.kind, a))
    BY <1>2, <2>2, <2>3, DocumentWrites
  <2> QED BY <1>1, <1>4, <2>2, <2>4
<1> QED BY <1>3, <1>4

LEMMA CommitKeepsLists ==
    ASSUME IsAList(journals), IsAList(notices), NEW s \in Sessions, Commit(s)
    PROVE  IsAList(journals') /\ IsAList(notices')
<1>1. ASSUME NEW list, IsAList(list), NEW e
      PROVE  IsAList(Append(list, e))
  <2>1. \A good : IsAList(Append(list, e))
    BY <1>1, OneMore
  <2> QED BY <2>1
<1> QED BY <1>1, CommitWrites

LEMMA CommitKeepsRecordPerMove ==
    ASSUME ReadsSound, RecordsSound, NEW s \in Sessions, Commit(s)
    PROVE  OneRecordPerMove'
<1> SUFFICES ASSUME NEW i \in DOMAIN rows', rows'[i].kind \in DocumentKinds, chart = Accounts,
                    NEW a \in DOMAIN VALID_TRANSITIONS[rows'[i].kind],
                    NEW n \in Written(journals', notices', i, rows'[i].kind, a)
             PROVE  /\ n >= Due(rows'[i], a)
                    /\ i \notin overlapped => n = Due(rows'[i], a)
  <2>1. chart' = chart /\ overlapped' = overlapped
    BY DEF Commit
  <2> QED BY <2>1 DEF OneRecordPerMove
<1> DEFINE r == session[s].request
           seen == session[s].seen
           counts == Written(journals, notices, i, rows[i].kind, a)
<1>1. /\ i \in DOMAIN rows /\ rows'[i].kind = rows[i].kind
      /\ i \in SelectedBy(s) => r.op = "transition" /\ r.row = i /\ r.kind = rows[i].kind
      /\ rows'[i].status = IF i \in SelectedBy(s) THEN r.action ELSE rows[i].status
  BY DocumentMoves
<1>2. IF i \in SelectedBy(s) /\ a = r.action THEN IsOneMore(n, counts) ELSE IsACount(n, counts)
  BY RecordsGrow DEF RecordsSound
<1>3. \A m \in counts : m >= Due(rows[i], a) /\ (i \notin overlapped => m = Due(rows[i], a))
  BY <1>1 DEF RecordsSound, OneRecordPerMove
<1>4. CASE i \notin SelectedBy(s)
  <2>1. rows'[i] = rows[i]
    BY <1>1, <1>4, RowsAfterCommit DEF ReadsSound
  <2> QED BY <1>2, <1>3, <1>4, <2>1 DEF IsACount
<1>5. CASE i \in SelectedBy(s)
  <2>1. /\ RowFits(seen[i]) /\ Allows(seen[i], r.action)
        /\ seen[i].kind = rows[i].kind
    BY <1>1, <1>5 DEF ReadsSound, SeenFits, Commit
  <2>2. /\ r.action \notin Passed(seen[i])
        /\ Passed(rows'[i]) = Passed(seen[i]) \cup {r.action}
    BY <1>1, <1>5, <2>1, AllowedIsNew, AllowedIsPassed
  <2>3. a \in Passed(seen[i]) => \A m \in counts : m >= 1
    BY <1>1, <1>5, <2>1 DEF RecordsSound, HasRecords, Commit
  <2>4. i \notin overlapped => rows[i] = seen[i]
    BY <1>5 DEF ReadsSound, ReadsCurrent, Commit
  <2> HIDE DEF counts, r, seen
  <2>5. Due(rows[i], a) \in {0, 1}
    BY DEF Due
  <2>6. CASE a = r.action
    <3>1. Due(rows'[i], a) = 1 /\ (i \notin overlapped => Due(rows[i], a) = 0)
      BY <2>2, <2>4, <2>6 DEF Due
    <3>2. PICK m \in counts : m \in Nat /\ n = m + 1
      BY <1>2, <1>5, <2>6 DEF IsOneMore
    <3> QED BY <1>3, <3>1, <3>2
  <2>7. CASE a # r.action
    <3>1. /\ Due(rows'[i], a) = Due(seen[i], a)
          /\ Due(seen[i], a) = IF a \in Passed(seen[i]) THEN 1 ELSE 0
      BY <2>2, <2>7 DEF Due
    <3>2. PICK m \in counts : m \in Nat /\ n = m
      BY <1>2, <2>7 DEF IsACount
    <3> QED BY <1>3, <2>3, <2>4, <3>1, <3>2
  <2> QED BY <2>6, <2>7
<1> QED BY <1>4, <1>5

LEMMA CommitKeepsRecords ==
    ASSUME ReadsSound, ReadsSound', RecordsSound, NEW s \in Sessions, Commit(s)
    PROVE  RecordsSound'
<1>1. ASSUME NEW t \in Sessions, UnderWay(t)', session'[t].request.op = "transition",
             session'[t].request.kind \in DocumentKinds, chart' = Accounts
      PROVE  HasRecords(session[t].request.row, session[t].seen[session[t].request.row])'
  <2> DEFINE r == session[t].request
             i == session[t].request.row
             seen == session[t].seen
  <2>1. t # s /\ UnderWay(t) /\ session'[t] = session[t] /\ chart' = chart
    <3>1. \/ session' = [session EXCEPT ![s] = Idle]
          \/ session' = [session EXCEPT ![s] =
                            [phase |-> "answered", request |-> session[s].request]]
      BY DEF Commit
    <3>2. t # s /\ session'[t] = session[t]
      BY <1>1, <3>1 DEF ReadsSound, SessionsTyped, UnderWay, Idle
    <3> QED BY <1>1, <3>2 DEF UnderWay, Commit
  <2>2. r \in requests /\ requests' = requests
    BY <2>1 DEF ReadsSound, RowsFit, UnderWay, Holding, Commit
  <2>3. i \in DOMAIN rows' /\ rows'[i].kind = r.kind
    BY <1>1, <2>1, <2>2 DEF ReadsSound, RowsFit, RequestFits
  <2>4. i \in DOMAIN rows /\ rows[i].kind = r.kind
    BY <1>1, <2>1, <2>2 DEF ReadsSound, RowsFit, RequestFits
  <2>5. i \in DOMAIN seen /\ seen[i].kind = r.kind
    BY <1>1, <2>1, <2>4 DEF ReadsSound, SeenFits
  <2>6. HasRecords(i, seen[i])
    BY <1>1, <2>1 DEF RecordsSound
  <2>7. ASSUME NEW a \in Passed(seen[i]), NEW n \in Written(journals', notices', i, r.kind, a)
        PROVE  n >= 1
    <3> DEFINE counts == Written(journals, notices, i, r.kind, a)
    <3>1. IsOneMore(n, counts) \/ IsACount(n, counts)
      BY <1>1, <2>1, <2>3, <2>4, <2>7, RecordsGrow DEF RecordsSound
    <3>2. \A m \in counts : m >= 1
      BY <2>5, <2>6 DEF HasRecords
    <3> HIDE DEF counts
    <3> QED BY <3>1, <3>2 DEF IsOneMore, IsACount
  <2> QED BY <2>1, <2>5, <2>7 DEF HasRecords
<1> QED BY <1>1, CommitKeepsLists, CommitKeepsRecordPerMove DEF RecordsSound

LEMMA NextRecords == ReadsSound /\ ReadsSound' /\ RecordsSound /\ [Next]_vars => RecordsSound'
<1> SUFFICES ASSUME ReadsSound, ReadsSound', RecordsSound, [Next]_vars PROVE RecordsSound'
  OBVIOUS
<1>1. ASSUME NEW s \in Sessions, Commit(s)
      PROVE  RecordsSound'
  BY <1>1, CommitKeepsRecords
<1>2. ASSUME NEW s \in Sessions, Read(s)
      PROVE  RecordsSound'
  <2> DEFINE r == session[s].request
  <2>1. /\ UNCHANGED <<rows, journals, notices, chart, requests>>
        /\ overlapped \subseteq overlapped'
        /\ \A t \in Sessions \ {s} : session'[t] = session[t]
        /\ \/ session'[s] = Idle
           \/ session'[s] = [phase |-> "read", request |-> r, seen |-> rows]
    BY <1>2 DEF Read, ReadsSound, SessionsTyped
  <2>2. OneRecordPerMove'
    BY <2>1 DEF RecordsSound, OneRecordPerMove
  <2>3. ASSUME UnderWay(s)', session'[s].request.op = "transition",
               session'[s].request.kind \in DocumentKinds, chart = Accounts
        PROVE  HasRecords(session[s].request.row, session[s].seen[session[s].request.row])'
    <3>1. session'[s].request = r /\ session'[s].seen = rows
      BY <2>1, <2>3 DEF UnderWay, Idle
    <3>2. r \in requests
      BY <1>2 DEF ReadsSound, RowsFit, Holding, Read
    <3>3. r.row \in DOMAIN rows /\ rows[r.row].kind = r.kind /\ RowFits(rows[r.row])
      BY <2>3, <3>1, <3>2 DEF ReadsSound, RowsFit, RequestFits
    <3>4. HasRecords(r.row, rows[r.row])
      <4> SUFFICES ASSUME NEW a \in Passed(rows[r.row]),
                          NEW n \in Written(journals, notices, r.row, rows[r.row].kind, a)
                   PROVE  n >= 1
        BY DEF HasRecords
      <4>1. a \in DOMAIN VALID_TRANSITIONS[rows[r.row].kind]
        BY <2>3, <3>1, <3>3, PassedAreStatuses
      <4>2. n >= Due(rows[r.row], a)
        BY <2>3, <3>1, <3>3, <4>1 DEF RecordsSound, OneRecordPerMove
      <4> QED BY <4>2 DEF Due
    <3> QED BY <2>1, <3>1, <3>4 DEF HasRecords
  <2>4. ASSUME NEW t \in Sessions \ {s}, UnderWay(t)', session'[t].request.op = "transition",
               session'[t].request.kind \in DocumentKinds, chart = Accounts
        PROVE  HasRecords(session[t].request.row, session[t].seen[session[t].request.row])'
    BY <2>1, <2>4 DEF RecordsSound, HasRecords, UnderWay
  <2> QED BY <2>1, <2>2, <2>3, <2>4 DEF RecordsSound
<1>3. CASE /\ UNCHANGED <<rows, journals, notices, chart, overlapped>>
           /\ \A t \in Sessions : UnderWay(t)' => UnderWay(t) /\ session'[t] = session[t]
  <2>1. OneRecordPerMove'
    BY <1>3 DEF RecordsSound, OneRecordPerMove
  <2> QED BY <1>3, <2>1 DEF RecordsSound, HasRecords
<1>4. ASSUME NEW s \in Sessions,
             \/ Save(s) \/ Lose(s)
             \/ \E r \in requests : Receive(s, r)
      PROVE  RecordsSound'
  <2>1. UNCHANGED <<rows, journals, notices, chart, overlapped>>
    BY <1>4 DEF Save, Lose, Receive
  <2>2. \/ session' = [session EXCEPT ![s] = Idle]
        \/ \E r \in requests : session' = [session EXCEPT ![s] = [phase |-> "received", request |-> r]]
    BY <1>4 DEF Save, Lose, Receive
  <2>3. \A t \in Sessions : UnderWay(t)' => UnderWay(t) /\ session'[t] = session[t]
    BY <2>2 DEF ReadsSound, SessionsTyped, UnderWay, Idle
  <2> QED BY <1>3, <2>1, <2>3
<1>5. CASE (\E k \in Keys : Expire(k)) \/ UNCHANGED vars
  <2>1. UNCHANGED <<rows, journals, notices, chart, overlapped, session>>
    BY <1>5 DEF Expire, vars
  <2> QED BY <1>3, <2>1 DEF UnderWay
<1> QED BY <1>1, <1>2, <1>4, <1>5 DEF Next

LEMMA InitRecords == Init => RecordsSound
<1> SUFFICES ASSUME Init PROVE RecordsSound
  OBVIOUS
<1>1. PICK w \in Worlds : rows = w.rows /\ journals = w.journals /\ notices = w.notices
  BY DEF Init
<1>2. IsAList(journals) /\ IsAList(notices)
  BY <1>1, WorldsAssumption DEF IsAList
<1>3. ASSUME NEW i \in DOMAIN rows, rows[i].kind \in DocumentKinds,
             NEW a \in DOMAIN VALID_TRANSITIONS[rows[i].kind],
             NEW n \in Written(journals, notices, i, rows[i].kind, a)
      PROVE  n = Due(rows[i], a) /\ Due(rows[i], a) \in {0, 1}
  BY <1>1, <1>3, WorldsAssumption DEF Due
<1>4. OneRecordPerMove
  BY <1>3 DEF OneRecordPerMove
<1>5. \A s \in Sessions : ~UnderWay(s)
  BY DEF Init, UnderWay, Idle
<1> QED BY <1>2, <1>4, <1>5 DEF RecordsSound

\* With a complete chart of accounts an invoice or expense report has the notice and the
\* journal of every status it passed, and, unless requests had read it together, each
\* exactly once: for any number of documents, clients, sessions and failures, and whatever
\* keys the clients send.
THEOREM RecordsFollowMoves == Spec => []OneRecordPerMove
<1>1. RecordsSound => OneRecordPerMove
  BY DEF RecordsSound
<1> QED BY <1>1, InitRecords, NextRecords, SpecReads, PTL DEF Spec
-----------------------------------------------------------------------------
(* The amounts of a document stay, and so does its id.                     *)

\* Two rows that have the same amounts.
SameDocument(a, b) ==
    /\ a.kind = b.kind
    /\ a.kind = "invoice" => a.subtotal = b.subtotal /\ a.tax_amount = b.tax_amount
    /\ a.kind = "expense" => a.total_amount = b.total_amount
    /\ a.kind \in {"payroll", "bonus"} => a.gross = b.gross /\ a.deductions = b.deductions

\* Where records are calculated, the ids that are given out lie below the next one.
Given(ids) == Calculating(requests) => \A i \in ids : i \in Int /\ i < next_id

SeenAmounts(s) ==
    LET seen == session[s].seen
    IN  /\ IsFiniteSet(DOMAIN seen) /\ Given(DOMAIN seen)
        /\ \A i \in DOMAIN seen : HasAmounts(seen[i])
        /\ \A i \in DOMAIN seen \cap DOMAIN rows : SameDocument(seen[i], rows[i])

AmountsSound ==
    /\ next_id \in Int
    /\ IsFiniteSet(DOMAIN rows) /\ Given(DOMAIN rows)
    /\ \A i \in DOMAIN rows : HasAmounts(rows[i])
    /\ \A s \in Sessions : UnderWay(s) => SeenAmounts(s)

LEMMA ColumnKeepsAmounts ==
    ASSUME NEW row, NEW old, NEW r, r.op \in Operations, r.op # "calculate",
           "kind" \in DOMAIN row, HasAmounts(row)
    PROVE  HasAmounts(Column(row, old, r)) /\ SameDocument(row, Column(row, old, r))
<1>1. CASE r.op \in {"transition", "batch"}
  BY <1>1 DEF Column, HasAmounts, SameDocument
<1>2. CASE r.op = "depreciate"
  BY <1>2 DEF Column, HasAmounts, SameDocument
<1>3. CASE r.op = "dispose"
  BY <1>3 DEF Column, HasAmounts, SameDocument
<1> QED BY <1>1, <1>2, <1>3 DEF Operations

LEMMA InsertedIds ==
    ASSUME next_id \in Int, NEW kind \in BatchKinds \cup {"tax_return"}
    PROVE  /\ IsFiniteSet(DOMAIN Inserted(kind)) /\ Cardinality(DOMAIN Inserted(kind)) \in Nat
           /\ \A i \in DOMAIN Inserted(kind) :
                 /\ i \in Int /\ next_id <= i
                 /\ i < next_id + Cardinality(DOMAIN Inserted(kind))
<1>0. Len(Employees) \in Nat
  BY AmountsAssumption
<1>1. CASE kind = "tax_return"
  <2>1. DOMAIN Inserted(kind) = {next_id}
    BY <1>1 DEF Inserted
  <2>2. IsFiniteSet({next_id}) /\ Cardinality({next_id}) = 1
    BY FS_Singleton
  <2> QED BY <2>1, <2>2
<1>2. CASE kind \in BatchKinds
  <2>1. DOMAIN Inserted(kind) = next_id .. next_id + Len(Employees) - 1
    BY <1>2 DEF Inserted, BatchKinds
  <2>2. next_id + Len(Employees) - 1 \in Int
    BY <1>0
  <2>3. /\ IsFiniteSet(next_id .. next_id + Len(Employees) - 1)
        /\ Cardinality(next_id .. next_id + Len(Employees) - 1) = Len(Employees)
    <3>1. LET a == next_id
              b == next_id + Len(Employees) - 1
          IN  /\ IsFiniteSet(a .. b)
              /\ Cardinality(a .. b) = IF a > b THEN 0 ELSE b - a + 1
      BY <2>2, FS_Interval
    <3> QED BY <1>0, <3>1
  <2> QED BY <1>0, <2>1, <2>3
<1> QED BY <1>1, <1>2

LEMMA InsertedAmounts ==
    ASSUME next_id \in Int, NEW kind \in BatchKinds \cup {"tax_return"},
           NEW i \in DOMAIN Inserted(kind)
    PROVE  HasAmounts(Inserted(kind)[i])
<1>0. /\ Employees \in Seq([gross : Nat, deductions : Nat])
      /\ Len(Employees) \in Nat
  BY AmountsAssumption
<1>1. CASE kind = "tax_return"
  BY <1>1 DEF Inserted, calculate_tax_return, HasAmounts
<1>2. CASE kind \in BatchKinds
  <2> DEFINE n == i - next_id + 1
  <2>1. i \in next_id .. next_id + Len(Employees) - 1
    BY <1>2 DEF Inserted, BatchKinds
  <2>2. n \in 1 .. Len(Employees)
    BY <1>0, <2>1
  <2>3. Employees[n].gross \in Nat /\ Employees[n].deductions \in Nat
    <3>1. Employees[n] \in [gross : Nat, deductions : Nat]
      <4> HIDE DEF n
      <4> QED BY <1>0, <2>2, ElementOfSeq
    <3> HIDE DEF n
    <3> QED BY <3>1
  <2>4. Inserted(kind)[i] = CalculatedRecord(kind, n)
    BY <1>2, <2>1 DEF Inserted, BatchKinds, calculate_payroll, calculate_bonus,
                      calculate_year_end_adjustment
  <2> HIDE DEF n
  <2> QED BY <1>2, <2>3, <2>4 DEF CalculatedRecord, HasAmounts, BatchKinds
<1> QED BY <1>1, <1>2

\* A commit changes no amounts, and a row that was not there has a new id.
LEMMA CommitKeepsAmounts ==
    ASSUME ReadsSound, AmountsSound, NEW s \in Sessions, Commit(s)
    PROVE  /\ next_id' \in Int /\ next_id <= next_id' /\ requests' = requests
           /\ IsFiniteSet(DOMAIN rows') /\ Given(DOMAIN rows)'
           /\ \A i \in DOMAIN rows' : HasAmounts(rows'[i])
           /\ \A i \in DOMAIN rows \cap DOMAIN rows' : SameDocument(rows[i], rows'[i])
           /\ \A i \in DOMAIN rows' \ DOMAIN rows :
                  Calculating(requests) /\ i \in Int /\ next_id <= i
<1> DEFINE r == session[s].request
           seen == session[s].seen
<1>1. /\ RowsFit /\ next_id \in Int /\ IsFiniteSet(DOMAIN rows) /\ Given(DOMAIN rows)
      /\ \A i \in DOMAIN rows : HasAmounts(rows[i])
  BY DEF ReadsSound, AmountsSound
<1>2. r \in requests /\ RequestFits(r, rows) /\ r.op \in Operations
  BY <1>1, RowsAfterCommit DEF RequestFits
<1>3. requests' = requests /\ rows' = Committed(seen, r)
  BY DEF Commit
<1>4. \A i \in DOMAIN rows : SameDocument(rows[i], rows[i])
  BY DEF SameDocument
<1>5. CASE r.op # "calculate"
  <2>1. rows' = [i \in DOMAIN rows |->
                    IF i \in Updated(seen, r) THEN Column(rows[i], seen[i], r) ELSE rows[i]]
    BY <1>3, <1>5 DEF Committed
  <2>2. next_id' = next_id
    BY <1>5 DEF Commit
  <2>3. \A i \in DOMAIN rows : HasAmounts(rows'[i]) /\ SameDocument(rows[i], rows'[i])
    <3> SUFFICES ASSUME NEW i \in DOMAIN rows
                 PROVE  HasAmounts(rows'[i]) /\ SameDocument(rows[i], rows'[i])
      OBVIOUS
    <3>1. "kind" \in DOMAIN rows[i] /\ HasAmounts(rows[i]) /\ SameDocument(rows[i], rows[i])
      BY <1>1, <1>4 DEF RowsFit, RowFits
    <3> HIDE DEF r, seen
    <3> QED BY <1>2, <1>5, <2>1, <3>1, ColumnKeepsAmounts
  <2>4. DOMAIN rows' = DOMAIN rows
    BY <2>1
  <2>5. Given(DOMAIN rows)'
    BY <1>1, <1>3, <2>2, <2>4 DEF Given
  <2> QED BY <1>1, <1>3, <2>2, <2>3, <2>4, <2>5
<1>6. CASE r.op = "calculate"
  <2> DEFINE kept == DOMAIN rows \ Selected(seen, r)
             new == Inserted(r.kind)
  <2>1. rows' = [i \in kept \cup DOMAIN new |-> IF i \in kept THEN rows[i] ELSE new[i]]
    BY <1>3, <1>6 DEF Committed
  <2>2. r.kind \in BatchKinds \cup {"tax_return"} /\ Calculating(requests)
    BY <1>2, <1>6 DEF RequestFits, Calculating
  <2>3. next_id' = next_id + Cardinality(DOMAIN new)
    BY <1>6 DEF Commit
  <2>4. /\ IsFiniteSet(DOMAIN new) /\ Cardinality(DOMAIN new) \in Nat
        /\ \A i \in DOMAIN new : /\ i \in Int /\ next_id <= i
                                 /\ i < next_id + Cardinality(DOMAIN new)
    BY <1>1, <2>2, InsertedIds
  <2>5. \A i \in DOMAIN new : HasAmounts(new[i])
    BY <1>1, <2>2, InsertedAmounts
  <2> DEFINE card == Cardinality(DOMAIN new)
  <2> HIDE DEF new, card
  <2>6. DOMAIN rows' = kept \cup DOMAIN new
    BY <2>1
  <2>7. IsFiniteSet(DOMAIN rows')
    <3>1. IsFiniteSet(kept)
      BY <1>1, FS_Subset
    <3> QED BY <2>4, <2>6, <3>1, FS_Union
  <2>8. \A i \in DOMAIN rows : i \in Int /\ i < next_id
    BY <1>1, <2>2 DEF Given
  <2>9. next_id' = next_id + card /\ card \in Nat
        /\ \A i \in DOMAIN new : i \in Int /\ next_id <= i /\ i < next_id + card
    BY <2>3, <2>4 DEF card
  <2>10. next_id' \in Int /\ next_id <= next_id'
    BY <1>1, <2>9
  <2>11. \A i \in DOMAIN rows' : i \in Int /\ i < next_id'
    <3> SUFFICES ASSUME NEW i \in DOMAIN rows' PROVE i \in Int /\ i < next_id'
      OBVIOUS
    <3>1. CASE i \in kept
      BY <1>1, <2>8, <2>9, <3>1
    <3>2. CASE i \in DOMAIN new
      BY <1>1, <2>9, <3>2
    <3> QED BY <2>6, <3>1, <3>2
  <2>12. Given(DOMAIN rows)'
    BY <2>11 DEF Given
  <2>13. \A i \in DOMAIN rows' : HasAmounts(rows'[i])
    BY <1>1, <2>1, <2>5
  <2>14. \A i \in DOMAIN rows \cap DOMAIN rows' : i \in kept
    <3> SUFFICES ASSUME NEW i \in DOMAIN rows, i \in DOMAIN new PROVE FALSE
      BY <2>6
    <3> QED BY <1>1, <2>8, <2>9
  <2>15. \A i \in DOMAIN rows \cap DOMAIN rows' : SameDocument(rows[i], rows'[i])
    BY <1>4, <2>1, <2>14
  <2>16. \A i \in DOMAIN rows' \ DOMAIN rows : i \in Int /\ next_id <= i
    BY <2>6, <2>9
  <2> QED BY <1>3, <2>2, <2>7, <2>10, <2>12, <2>13, <2>15, <2>16
<1> QED BY <1>5, <1>6

\* What the requests under way have read still has the amounts of the rows.
LEMMA CommitKeepsSeenAmounts ==
    ASSUME ReadsSound, AmountsSound, NEW s \in Sessions, Commit(s),
           NEW t \in Sessions, UnderWay(t), session'[t] = session[t]
    PROVE  SeenAmounts(t)'
<1> DEFINE seen == session[t].seen
<1>1. SeenAmounts(t) /\ next_id \in Int
  BY DEF AmountsSound
<1>2. /\ next_id' \in Int /\ next_id <= next_id' /\ requests' = requests
      /\ \A i \in DOMAIN rows \cap DOMAIN rows' : SameDocument(rows[i], rows'[i])
      /\ \A i \in DOMAIN rows' \ DOMAIN rows : Calculating(requests) /\ i \in Int /\ next_id <= i
  BY CommitKeepsAmounts
<1>3. Given(DOMAIN seen)'
  BY <1>1, <1>2 DEF Given, SeenAmounts
<1>4. ASSUME NEW i \in DOMAIN seen \cap DOMAIN rows'
      PROVE  SameDocument(seen[i], rows'[i])
  <2>1. i \in DOMAIN rows
    <3> SUFFICES ASSUME i \notin DOMAIN rows PROVE FALSE
      OBVIOUS
    <3>1. Calculating(requests) /\ i \in Int /\ next_id <= i
      BY <1>2, <1>4
    <3>2. i < next_id
      BY <1>1, <1>4, <3>1 DEF SeenAmounts, Given
    <3> QED BY <1>1, <3>1, <3>2
  <2>2. SameDocument(seen[i], rows[i]) /\ SameDocument(rows[i], rows'[i])
    BY <1>1, <1>2, <1>4, <2>1 DEF SeenAmounts
  <2> QED BY <2>2 DEF SameDocument
<1> QED BY <1>1, <1>3, <1>4 DEF SeenAmounts

LEMMA NextAmounts == ReadsSound /\ AmountsSound /\ [Next]_vars => AmountsSound'
<1> SUFFICES ASSUME ReadsSound, AmountsSound, [Next]_vars PROVE AmountsSound'
  OBVIOUS
<1>0. SessionsTyped
  BY DEF ReadsSound
<1>1. ASSUME UNCHANGED <<rows, requests, next_id>>,
             \A t \in Sessions : UnderWay(t)' => UnderWay(t) /\ session'[t] = session[t]
      PROVE  AmountsSound'
  BY <1>1 DEF AmountsSound, SeenAmounts, Given
<1>2. ASSUME NEW s \in Sessions, NEW r \in requests, Receive(s, r)
      PROVE  AmountsSound'
  <2>1. /\ UNCHANGED <<rows, requests, next_id>>
        /\ \/ session' = [session EXCEPT ![s] = Idle]
           \/ session' = [session EXCEPT ![s] = [phase |-> "received", request |-> r]]
    BY <1>2 DEF Receive
  <2>2. \A t \in Sessions : UnderWay(t)' => UnderWay(t) /\ session'[t] = session[t]
    BY <1>0, <2>1 DEF SessionsTyped, UnderWay, Idle
  <2> QED BY <1>1, <2>1, <2>2
<1>3. ASSUME NEW s \in Sessions, Read(s)
      PROVE  AmountsSound'
  <2>1. /\ UNCHANGED <<rows, requests, next_id>>
        /\ \/ session' = [session EXCEPT ![s] = Idle]
           \/ session' = [session EXCEPT ![s] =
                 [phase |-> "read", request |-> session[s].request, seen |-> rows]]
    BY <1>3 DEF Read
  <2>2. CASE session' = [session EXCEPT ![s] = Idle]
    <3>1. \A t \in Sessions : UnderWay(t)' => UnderWay(t) /\ session'[t] = session[t]
      BY <1>0, <2>2 DEF SessionsTyped, UnderWay, Idle
    <3> QED BY <1>1, <2>1, <3>1
  <2>3. CASE session' = [session EXCEPT ![s] =
                 [phase |-> "read", request |-> session[s].request, seen |-> rows]]
    <3>1. /\ session'[s].seen = rows
          /\ \A t \in Sessions \ {s} : session'[t] = session[t]
      BY <1>0, <2>3 DEF SessionsTyped
    <3>2. SeenAmounts(s)'
      BY <2>1, <3>1 DEF AmountsSound, SeenAmounts, SameDocument, Given
    <3>3. \A t \in Sessions \ {s} : UnderWay(t)' => SeenAmounts(t)'
      BY <2>1, <3>1 DEF AmountsSound, SeenAmounts, UnderWay, Given
    <3> QED BY <2>1, <3>2, <3>3 DEF AmountsSound, Given
  <2> QED BY <2>1, <2>2, <2>3
<1>4. ASSUME NEW s \in Sessions, Commit(s)
      PROVE  AmountsSound'
  <2>1. ASSUME NEW t \in Sessions, UnderWay(t)'
        PROVE  SeenAmounts(t)'
    <3>1. \/ session' = [session EXCEPT ![s] = Idle]
          \/ session' = [session EXCEPT ![s] =
                            [phase |-> "answered", request |-> session[s].request]]
      BY <1>4 DEF Commit
    <3>2. UnderWay(t) /\ session'[t] = session[t]
      BY <1>0, <2>1, <3>1 DEF SessionsTyped, UnderWay, Idle
    <3> QED BY <1>4, <3>2, CommitKeepsSeenAmounts
  <2> QED BY <1>4, <2>1, CommitKeepsAmounts DEF AmountsSound
<1>5. ASSUME NEW s \in Sessions, Save(s) \/ Lose(s)
      PROVE  AmountsSound'
  <2>1. /\ UNCHANGED <<rows, requests, next_id>>
        /\ session' = [session EXCEPT ![s] = Idle]
    BY <1>5 DEF Save, Lose
  <2>2. \A t \in Sessions : UnderWay(t)' => UnderWay(t) /\ session'[t] = session[t]
    BY <1>0, <2>1 DEF SessionsTyped, UnderWay, Idle
  <2> QED BY <1>1, <2>1, <2>2
<1>6. CASE \/ UNCHANGED vars
           \/ \E k \in Keys : Expire(k)
  <2>1. UNCHANGED <<rows, requests, next_id, session>>
    BY <1>6 DEF vars, Expire
  <2> QED BY <1>1, <2>1 DEF UnderWay
<1> QED BY <1>2, <1>3, <1>4, <1>5, <1>6 DEF Next

LEMMA InitAmounts == Init => AmountsSound
<1> SUFFICES ASSUME Init PROVE AmountsSound
  OBVIOUS
<1>1. \A s \in Sessions : ~UnderWay(s)
  BY DEF Init, UnderWay, Idle
<1>2. PICK w \in Worlds : rows = w.rows /\ requests = w.requests
  BY DEF Init
<1>3. /\ IsFiniteSet(DOMAIN w.rows) /\ \A i \in DOMAIN w.rows : HasAmounts(w.rows[i])
      /\ Calculating(w.requests) => \A i \in DOMAIN w.rows : i \in Int /\ i < 1
  BY WorldsAssumption
<1>4. next_id = 1
  BY DEF Init
<1> QED BY <1>1, <1>2, <1>3, <1>4 DEF AmountsSound, Given

LEMMA SpecAmounts == Spec => []AmountsSound
BY InitAmounts, NextAmounts, SpecReads, PTL DEF Spec
-----------------------------------------------------------------------------
(* The depreciation of an asset adds up.                                   *)

Base(i) == Assets[i].base

\* An asset's row: it is depreciated by its base at most, and not by more than its records.
AssetSound(i, row, recorded) ==
    /\ i \in DOMAIN Assets /\ "accumulated" \in DOMAIN row
    /\ row.accumulated \in Nat /\ row.accumulated <= Base(i)
    /\ row.accumulated <= recorded

DepreciationSound ==
    /\ IsAList(depreciations)
    /\ \A n \in DOMAIN depreciations : depreciations[n].amount \in Nat
    /\ \A r \in requests : r.op = "depreciate" => r.row \in OfKind(rows, "asset")
    /\ \A i \in OfKind(rows, "asset") :
          /\ AssetSound(i, rows[i], Depreciated(i))
          /\ i \notin overlapped => rows[i].accumulated = Depreciated(i)
    /\ \A s \in Sessions : UnderWay(s) =>
          /\ \A i \in OfKind(session[s].seen, "asset") :
                AssetSound(i, session[s].seen[i], Depreciated(i))
          /\ session[s].request.op = "depreciate" =>
                session[s].request.row \in OfKind(session[s].seen, "asset")

\* A share of the base that is rounded, and cut to what is left, is neither negative nor
\* more than what is left.
LEMMA PeriodAmount ==
    ASSUME NEW a \in DOMAIN Assets, NEW accumulated \in Nat, accumulated <= Base(a)
    PROVE  /\ period_amount(a, accumulated) \in Nat
           /\ accumulated + period_amount(a, accumulated) <= Base(a)
<1> DEFINE base == Assets[a].base
           life == Assets[a].life
           left == base - accumulated
           share == (2 * base + life) \div (2 * life)
<1>1. base \in Nat /\ life \in Nat /\ life > 0 /\ left \in Nat
  BY AmountsAssumption DEF Base
<1>2. period_amount(a, accumulated) = IF base <= left * life THEN share ELSE left
  BY DEF period_amount
<1> HIDE DEF base, life
<1>3. share \in Nat /\ share * (2 * life) <= 2 * base + life
  <2> DEFINE n == 2 * base + life
             d == 2 * life
  <2>1. n \in Nat /\ d \in Nat /\ d > 0
    BY <1>1
  <2>2. n \div d \in Nat /\ (n \div d) * d <= n
    <3> HIDE DEF n, d
    <3> QED BY <2>1
  <2> QED BY <2>2
<1>4. ASSUME base <= left * life
      PROVE  share <= left
  <2> SUFFICES ASSUME share >= left + 1 PROVE FALSE
    BY <1>1, <1>3
  <2> HIDE DEF share, left
  <2>1. (left + 1) * (2 * life) <= share * (2 * life)
    BY <1>1, <1>3
  <2>2. (left + 1) * (2 * life) = 2 * (left * life) + 2 * life
    BY <1>1
  <2>3. left * life \in Nat
    BY <1>1
  <2>4. 2 * (left * life) + 2 * life <= 2 * base + life
    BY <1>1, <1>3, <2>1, <2>2, <2>3
  <2> QED BY <1>1, <1>4, <2>3, <2>4
<1>5. period_amount(a, accumulated) \in 0 .. left
  <2> HIDE DEF share, left
  <2> QED BY <1>1, <1>2, <1>3, <1>4
<1> QED BY <1>1, <1>5 DEF Base, base

\* One more record of an asset.
LEMMA DepreciatedOneMore ==
    ASSUME NEW list, IsAList(list), \A n \in DOMAIN list : list[n].amount \in Nat,
           NEW d, d.amount \in Nat, NEW i
    PROVE  /\ IsAList(Append(list, d))
           /\ \A n \in DOMAIN Append(list, d) : Append(list, d)[n].amount \in Nat
           /\ DepreciatedBy(list, i) \in Nat
           /\ DepreciatedBy(Append(list, d), i) =
                  DepreciatedBy(list, i) + IF d.asset = i THEN d.amount ELSE 0
<1> DEFINE more == Append(list, d)
           Of(l) == [n \in DOMAIN l |-> IF l[n].asset = i THEN l[n].amount ELSE 0]
           k == Len(list)
<1>1. /\ k \in Nat /\ DOMAIN list = 1 .. k
      /\ DOMAIN more = 1 .. k + 1 /\ Len(more) = k + 1
      /\ \A n \in 1 .. k : more[n] = list[n]
      /\ more[k + 1] = d
      /\ IsAList(more)
  <2>1. list \in Seq(Range(list) \cup {d})
    BY DEF IsAList
  <2>2. /\ k \in Nat /\ DOMAIN list = 1 .. k
        /\ DOMAIN more = 1 .. k + 1 /\ Len(more) = k + 1
        /\ \A n \in 1 .. k : more[n] = list[n]
        /\ more[k + 1] = d
    BY <2>1, AppendProperties, LenProperties
  <2>3. more \in Seq(Range(more))
    <3> HIDE DEF more, k
    <3>1. more \in Seq(Range(list) \cup {d})
      BY <2>1, AppendProperties DEF more
    <3>2. \A n \in 1 .. Len(more) : more[n] \in Range(more)
      BY <2>2 DEF Range
    <3>3. k + 1 \in Nat /\ more \in [1 .. k + 1 -> Range(more)]
      BY <2>2, <3>1, <3>2, LenProperties
    <3> QED BY <3>3, SeqDef
  <2> QED BY <2>2, <2>3 DEF IsAList
<1> HIDE DEF more, k
<1>2. \A n \in DOMAIN more : more[n].amount \in Nat
  BY <1>1
<1>3. Len(Of(list)) = k /\ Len(Of(more)) = k + 1
  BY <1>1
<1>4. \A n \in 1 .. k : Of(list)[n] \in Nat /\ Of(more)[n] = Of(list)[n]
  BY <1>1
<1>5. Of(more)[k + 1] = IF d.asset = i THEN d.amount ELSE 0
  BY <1>1
<1>6. Added(Of(list)) \in Nat /\ Added(Of(more)) = Added(Of(list)) + Of(more)[k + 1]
  <2> HIDE DEF Of
  <2> QED BY <1>1, <1>3, <1>4, AddedNat, AddedPrefix
<1> QED BY <1>1, <1>2, <1>5, <1>6 DEF DepreciatedBy, more

\* What a commit does to the assets: none comes or goes, and only the one that is
\* depreciated gets another accumulated amount, from what the request had read.
LEMMA CommitDepreciates ==
    ASSUME ReadsSound, AmountsSound, DepreciationSound, NEW s \in Sessions, Commit(s)
    PROVE  LET r == session[s].request
               old == session[s].seen[r.row].accumulated
               Share(i) == IF r.op = "depreciate" /\ r.row = i
                           THEN period_amount(i, old) ELSE 0
           IN  /\ OfKind(rows, "asset") = OfKind(rows', "asset")
               /\ IsAList(depreciations')
               /\ \A n \in DOMAIN depreciations' : depreciations'[n].amount \in Nat
               /\ r.op = "depreciate" =>
                     /\ r.row \in OfKind(session[s].seen, "asset")
                     /\ r.row \in SelectedBy(s)
                     /\ period_amount(r.row, old) \in Nat
               /\ \A i : /\ Depreciated(i) \in Nat
                         /\ Depreciated(i)' = Depreciated(i) + Share(i)
               /\ \A i \in OfKind(rows, "asset") :
                     /\ "accumulated" \in DOMAIN rows'[i]
                     /\ rows'[i].accumulated =
                           IF r.op = "depreciate" /\ r.row = i
                           THEN old + period_amount(i, old) ELSE rows[i].accumulated
<1> DEFINE r == session[s].request
           seen == session[s].seen
           old == seen[r.row].accumulated
           amount == period_amount(r.row, old)
<1>1. /\ RowsFit /\ UnderWay(s) /\ SeenAmounts(s) /\ IsAList(depreciations)
      /\ \A n \in DOMAIN depreciations : depreciations[n].amount \in Nat
      /\ \A i \in OfKind(rows, "asset") : AssetSound(i, rows[i], Depreciated(i))
  BY DEF ReadsSound, AmountsSound, DepreciationSound, Commit
<1>2. r \in requests /\ RequestFits(r, rows) /\ r.op \in Operations
  BY <1>1, RowsAfterCommit DEF RequestFits
<1>3. rows' = Committed(seen, r)
  BY DEF Commit
<1>4. ASSUME r.op = "depreciate"
      PROVE  /\ r.row \in OfKind(seen, "asset") /\ r.row \in SelectedBy(s)
             /\ amount \in Nat
  <2>1. r.row \in OfKind(seen, "asset") /\ AssetSound(r.row, seen[r.row], Depreciated(r.row))
    BY <1>1, <1>2, <1>4 DEF DepreciationSound
  <2>2. r.row \in SelectedBy(s)
    BY <1>4, <2>1 DEF SelectedBy, Selected, OfKind
  <2>3. amount \in Nat
    BY <2>1, PeriodAmount DEF AssetSound
  <2> QED BY <2>1, <2>2, <2>3
<1>5. r.op = "calculate" => \A i \in OfKind(rows, "asset") : i \notin SelectedBy(s)
  <2> SUFFICES ASSUME r.op = "calculate", NEW i \in OfKind(rows, "asset"), i \in SelectedBy(s)
               PROVE  FALSE
    OBVIOUS
  <2>1. i \in DOMAIN seen /\ seen[i].kind = r.kind
    BY DEF SelectedBy, Selected, OfKind
  <2>2. seen[i].kind = "asset"
    BY <1>1, <2>1 DEF SeenAmounts, SameDocument, OfKind
  <2> QED BY <1>2, <2>1, <2>2 DEF RequestFits, BatchKinds
<1>6. OfKind(rows, "asset") = OfKind(rows', "asset")
  <2>1. ASSUME NEW i \in OfKind(rows', "asset")
        PROVE  i \in OfKind(rows, "asset")
    <3>1. r.op = "calculate" => r.kind # "asset"
      BY <1>2 DEF RequestFits, BatchKinds
    <3> QED BY <1>1, <2>1, <3>1, RowsAfterCommit DEF OfKind
  <2>2. ASSUME NEW i \in OfKind(rows, "asset")
        PROVE  i \in OfKind(rows', "asset")
    <3>1. CASE r.op = "calculate"
      BY <1>1, <1>5, <2>2, <3>1, RowsAfterCommit DEF OfKind
    <3>2. CASE r.op # "calculate"
      <4>1. i \in DOMAIN rows'
        BY <1>1, <2>2, <3>2, RowsAfterCommit DEF OfKind
      <4>2. rows'[i].kind = rows[i].kind
        BY <1>1, <3>2, <4>1, RowsAfterCommit
      <4> QED BY <2>2, <4>1, <4>2 DEF OfKind
    <3> QED BY <3>1, <3>2
  <2> QED BY <2>1, <2>2
<1>7. ASSUME NEW i \in OfKind(rows, "asset")
      PROVE  /\ "accumulated" \in DOMAIN rows'[i]
             /\ rows'[i].accumulated =
                   IF r.op = "depreciate" /\ r.row = i
                   THEN old + period_amount(i, old) ELSE rows[i].accumulated
  <2>1. i \in DOMAIN rows /\ "accumulated" \in DOMAIN rows[i]
    BY <1>1, <1>7 DEF AssetSound, OfKind
  <2>2. CASE r.op = "calculate"
    BY <1>1, <1>5, <1>7, <2>1, <2>2, RowsAfterCommit
  <2>3. CASE r.op # "calculate" /\ i \notin SelectedBy(s)
    <3>1. rows'[i] = rows[i]
      BY <1>1, <2>1, <2>3, RowsAfterCommit
    <3> QED BY <1>4, <2>1, <2>3, <3>1
  <2>4. CASE r.op # "calculate" /\ i \in SelectedBy(s)
    <3>1. rows'[i] = IF i \in Updated(seen, r) THEN Column(rows[i], seen[i], r) ELSE rows[i]
      BY <1>3, <2>1, <2>4 DEF Committed
    <3>2. CASE r.op \in {"transition", "batch"}
      <4>1. /\ Column(rows[i], seen[i], r).accumulated = rows[i].accumulated
            /\ "accumulated" \in DOMAIN Column(rows[i], seen[i], r)
        BY <2>1, <3>2 DEF Column
      <4> QED BY <2>1, <3>1, <3>2, <4>1
    <3>3. CASE r.op = "depreciate"
      <4>1. i = r.row /\ i \in Updated(seen, r)
        BY <2>4, <3>3 DEF SelectedBy, Selected, Updated
      <4>2. /\ Column(rows[i], seen[i], r).accumulated = old + amount
            /\ "accumulated" \in DOMAIN Column(rows[i], seen[i], r)
        BY <2>1, <3>3, <4>1 DEF Column
      <4> QED BY <3>1, <3>3, <4>1, <4>2
    <3>4. CASE r.op = "dispose"
      <4>1. /\ Column(rows[i], seen[i], r).accumulated = rows[i].accumulated
            /\ "accumulated" \in DOMAIN Column(rows[i], seen[i], r)
        BY <2>1, <3>4 DEF Column
      <4> QED BY <2>1, <3>1, <3>4, <4>1
    <3> QED BY <1>2, <2>4, <3>2, <3>3, <3>4 DEF Operations
  <2> QED BY <2>2, <2>3, <2>4
<1> DEFINE d == [asset |-> r.row, amount |-> amount]
<1>8. /\ IsAList(depreciations')
      /\ \A n \in DOMAIN depreciations' : depreciations'[n].amount \in Nat
      /\ \A i : /\ Depreciated(i) \in Nat
                /\ Depreciated(i)' = Depreciated(i) + IF r.op = "depreciate" /\ r.row = i
                                                      THEN amount ELSE 0
  <2>1. \A i : Depreciated(i) = DepreciatedBy(depreciations, i)
               /\ Depreciated(i)' = DepreciatedBy(depreciations', i)
    BY DEF Depreciated
  <2>2. \A i : Depreciated(i) \in Nat
    <3> DEFINE e == [asset |-> r.row, amount |-> 0]
    <3>1. e.amount \in Nat
      OBVIOUS
    <3> HIDE DEF e
    <3> QED BY <1>1, <2>1, <3>1, DepreciatedOneMore
  <2>3. CASE r.op = "depreciate"
    <3>1. depreciations' = Append(depreciations, d)
      BY <2>3 DEF Commit
    <3>2. d.amount = amount /\ d.asset = r.row /\ d.amount \in Nat
      BY <1>4, <2>3
    <3> HIDE DEF d, r, amount
    <3> QED BY <1>1, <2>1, <2>2, <2>3, <3>1, <3>2, DepreciatedOneMore
  <2>4. CASE r.op # "depreciate"
    <3>1. depreciations' = depreciations
      BY <2>4 DEF Commit
    <3>2. \A i : Depreciated(i)' = Depreciated(i)
      BY <2>1, <3>1
    <3> QED BY <1>1, <2>2, <2>4, <3>1, <3>2
  <2> QED BY <2>3, <2>4
<1>9. \A i : r.op = "depreciate" /\ r.row = i => amount = period_amount(i, old)
  OBVIOUS
<1> HIDE DEF amount
<1> QED BY <1>4, <1>6, <1>7, <1>8, <1>9 DEF amount

LEMMA CommitKeepsDepreciation ==
    ASSUME ReadsSound, AmountsSound, DepreciationSound, NEW s \in Sessions, Commit(s)
    PROVE  DepreciationSound'
<1> DEFINE r == session[s].request
           seen == session[s].seen
           old == seen[r.row].accumulated
           depreciates(i) == r.op = "depreciate" /\ r.row = i
<1>1. SessionsTyped /\ ReadsCurrent /\ UnderWay(s)
      /\ requests' = requests /\ overlapped' = overlapped
  BY DEF ReadsSound, Commit
<1>2. /\ OfKind(rows, "asset") = OfKind(rows', "asset")
      /\ IsAList(depreciations')
      /\ \A n \in DOMAIN depreciations' : depreciations'[n].amount \in Nat
      /\ \A i : Depreciated(i) \in Nat
  BY CommitDepreciates
<1>3. ASSUME NEW i
      PROVE  IF depreciates(i)
             THEN /\ i \in OfKind(seen, "asset") /\ i \in SelectedBy(s)
                  /\ period_amount(i, old) \in Nat
                  /\ Depreciated(i)' = Depreciated(i) + period_amount(i, old)
             ELSE Depreciated(i)' = Depreciated(i)
  BY <1>2, CommitDepreciates
<1>4. \A i : Depreciated(i)' \in Nat /\ Depreciated(i) <= Depreciated(i)'
  BY <1>2, <1>3
<1>5. ASSUME NEW i \in OfKind(rows, "asset")
      PROVE  /\ AssetSound(i, rows'[i], Depreciated(i)')
             /\ i \notin overlapped => rows'[i].accumulated = Depreciated(i)'
  <2>1. /\ "accumulated" \in DOMAIN rows'[i]
        /\ rows'[i].accumulated =
              IF depreciates(i) THEN old + period_amount(i, old) ELSE rows[i].accumulated
    BY CommitDepreciates
  <2>2. /\ AssetSound(i, rows[i], Depreciated(i))
        /\ i \notin overlapped => rows[i].accumulated = Depreciated(i)
    BY DEF DepreciationSound
  <2>3. CASE depreciates(i)
    <3>1. AssetSound(i, seen[i], Depreciated(i)) /\ old = seen[i].accumulated
      BY <1>1, <1>3, <2>3 DEF DepreciationSound
    <3>2. old \in Nat /\ old <= Base(i) /\ old <= Depreciated(i) /\ i \in DOMAIN Assets
      BY <3>1 DEF AssetSound
    <3>3. old + period_amount(i, old) <= Base(i) /\ period_amount(i, old) \in Nat
      BY <3>2, PeriodAmount
    <3>4. Depreciated(i)' = Depreciated(i) + period_amount(i, old)
      BY <1>3, <2>3
    <3>5. i \notin overlapped => old = Depreciated(i)
      <4> SUFFICES ASSUME i \notin overlapped PROVE old = Depreciated(i)
        OBVIOUS
      <4>1. rows[i] = seen[i]
        BY <1>1, <1>3, <2>3 DEF ReadsCurrent
      <4> QED BY <2>2, <3>1, <4>1
    <3>6. rows'[i].accumulated = old + period_amount(i, old)
      BY <2>1, <2>3
    <3>7. Base(i)' = Base(i) /\ Depreciated(i) \in Nat
      BY <1>2 DEF Base
    <3> HIDE DEF old, depreciates
    <3> QED BY <2>1, <3>2, <3>3, <3>4, <3>5, <3>6, <3>7 DEF AssetSound
  <2>4. CASE ~depreciates(i)
    <3>1. Depreciated(i)' = Depreciated(i) /\ rows'[i].accumulated = rows[i].accumulated
      BY <1>3, <2>1, <2>4
    <3> QED BY <2>1, <2>2, <3>1 DEF AssetSound, Base
  <2> QED BY <2>3, <2>4
<1>6. ASSUME NEW t \in Sessions, UnderWay(t)'
      PROVE  /\ UnderWay(t) /\ session'[t] = session[t]
             /\ \A i \in OfKind(session'[t].seen, "asset") :
                   AssetSound(i, session'[t].seen[i], Depreciated(i)')
  <2>1. \/ session' = [session EXCEPT ![s] = Idle]
        \/ session' = [session EXCEPT ![s] =
                          [phase |-> "answered", request |-> session[s].request]]
    BY DEF Commit
  <2>2. UnderWay(t) /\ session'[t] = session[t]
    BY <1>1, <1>6, <2>1 DEF SessionsTyped, UnderWay, Idle
  <2>3. ASSUME NEW i \in OfKind(session'[t].seen, "asset")
        PROVE  AssetSound(i, session'[t].seen[i], Depreciated(i)')
    <3>1. AssetSound(i, session[t].seen[i], Depreciated(i))
      BY <2>2, <2>3 DEF DepreciationSound
    <3> QED BY <1>2, <1>4, <2>2, <3>1 DEF AssetSound, Base
  <2> QED BY <2>2, <2>3
<1>7. \A q \in requests : q.op = "depreciate" => q.row \in OfKind(rows', "asset")
  BY <1>2 DEF DepreciationSound
<1>8. ASSUME NEW t \in Sessions, UnderWay(t)', session'[t].request.op = "depreciate"
      PROVE  session'[t].request.row \in OfKind(session'[t].seen, "asset")
  BY <1>6, <1>8 DEF DepreciationSound
<1> QED BY <1>1, <1>2, <1>5, <1>6, <1>7, <1>8 DEF DepreciationSound

LEMMA NextDepreciation ==
    ReadsSound /\ AmountsSound /\ DepreciationSound /\ [Next]_vars => DepreciationSound'
<1> SUFFICES ASSUME ReadsSound, AmountsSound, DepreciationSound, [Next]_vars
             PROVE  DepreciationSound'
  OBVIOUS
<1>0. SessionsTyped /\ \A i : Depreciated(i)' = DepreciatedBy(depreciations', i)
  BY DEF ReadsSound, Depreciated
<1>1. ASSUME UNCHANGED <<rows, requests, depreciations>>, overlapped \subseteq overlapped',
             \A t \in Sessions : UnderWay(t)' => UnderWay(t) /\ session'[t] = session[t]
      PROVE  DepreciationSound'
  BY <1>1 DEF DepreciationSound, AssetSound, Base, Depreciated
<1>2. ASSUME NEW s \in Sessions, NEW r \in requests, Receive(s, r)
      PROVE  DepreciationSound'
  <2>1. /\ UNCHANGED <<rows, requests, depreciations, overlapped>>
        /\ \/ session' = [session EXCEPT ![s] = Idle]
           \/ session' = [session EXCEPT ![s] = [phase |-> "received", request |-> r]]
    BY <1>2 DEF Receive
  <2>2. \A t \in Sessions : UnderWay(t)' => UnderWay(t) /\ session'[t] = session[t]
    BY <1>0, <2>1 DEF SessionsTyped, UnderWay, Idle
  <2> QED BY <1>1, <2>1, <2>2
<1>3. ASSUME NEW s \in Sessions, Read(s)
      PROVE  DepreciationSound'
  <2>1. /\ UNCHANGED <<rows, requests, depreciations>> /\ overlapped \subseteq overlapped'
        /\ session[s].request \in requests
        /\ \/ session' = [session EXCEPT ![s] = Idle]
           \/ session' = [session EXCEPT ![s] =
                 [phase |-> "read", request |-> session[s].request, seen |-> rows]]
    BY <1>3 DEF Read, ReadsSound, RowsFit, Holding
  <2>2. CASE session' = [session EXCEPT ![s] = Idle]
    <3>1. \A t \in Sessions : UnderWay(t)' => UnderWay(t) /\ session'[t] = session[t]
      BY <1>0, <2>2 DEF SessionsTyped, UnderWay, Idle
    <3> QED BY <1>1, <2>1, <3>1
  <2>3. CASE session' = [session EXCEPT ![s] =
                 [phase |-> "read", request |-> session[s].request, seen |-> rows]]
    <3>1. /\ session'[s].seen = rows /\ session'[s].request = session[s].request
          /\ \A t \in Sessions \ {s} : session'[t] = session[t]
      BY <1>0, <2>3 DEF SessionsTyped
    <3> QED BY <2>1, <3>1 DEF DepreciationSound, AssetSound, Base, Depreciated, UnderWay
  <2> QED BY <2>1, <2>2, <2>3
<1>4. ASSUME NEW s \in Sessions, Commit(s)
      PROVE  DepreciationSound'
  BY <1>4, CommitKeepsDepreciation
<1>5. ASSUME NEW s \in Sessions, Save(s) \/ Lose(s)
      PROVE  DepreciationSound'
  <2>1. /\ UNCHANGED <<rows, requests, depreciations, overlapped>>
        /\ session' = [session EXCEPT ![s] = Idle]
    BY <1>5 DEF Save, Lose
  <2>2. \A t \in Sessions : UnderWay(t)' => UnderWay(t) /\ session'[t] = session[t]
    BY <1>0, <2>1 DEF SessionsTyped, UnderWay, Idle
  <2> QED BY <1>1, <2>1, <2>2
<1>6. CASE \/ UNCHANGED vars
           \/ \E k \in Keys : Expire(k)
  <2>1. UNCHANGED <<rows, requests, depreciations, overlapped, session>>
    BY <1>6 DEF vars, Expire
  <2> QED BY <1>1, <2>1 DEF UnderWay
<1> QED BY <1>2, <1>3, <1>4, <1>5, <1>6 DEF Next

LEMMA InitDepreciation == Init => DepreciationSound
<1> SUFFICES ASSUME Init PROVE DepreciationSound
  OBVIOUS
<1>1. (\A s \in Sessions : ~UnderWay(s)) /\ depreciations = <<>>
  BY DEF Init, UnderWay, Idle
<1>2. PICK w \in Worlds : rows = w.rows /\ requests = w.requests
  BY DEF Init
<1>3. /\ \A i \in OfKind(w.rows, "asset") :
            /\ i \in DOMAIN Assets
            /\ "accumulated" \in DOMAIN w.rows[i] /\ w.rows[i].accumulated = 0
      /\ \A r \in w.requests : r.op = "depreciate" => r.row \in OfKind(w.rows, "asset")
  BY WorldsAssumption
<1>4. IsAList(depreciations) /\ DOMAIN depreciations = {}
  BY <1>1 DEF IsAList
<1>5. \A i : Depreciated(i) = 0
  <2> SUFFICES ASSUME NEW i PROVE Depreciated(i) = 0
    OBVIOUS
  <2> DEFINE amounts == [n \in DOMAIN depreciations |->
                            IF depreciations[n].asset = i THEN depreciations[n].amount ELSE 0]
  <2>1. Len(amounts) = 0
    BY <1>1
  <2>2. Added(amounts) = 0
    <3> HIDE DEF amounts
    <3> QED BY <2>1, AddedNothing
  <2> QED BY <2>2 DEF Depreciated, DepreciatedBy
<1>6. \A i \in DOMAIN Assets : Base(i) \in Nat
  BY AmountsAssumption DEF Base
<1> QED BY <1>1, <1>2, <1>3, <1>4, <1>5, <1>6 DEF DepreciationSound, AssetSound

LEMMA SpecDepreciation == Spec => []DepreciationSound
BY InitDepreciation, NextDepreciation, SpecReads, SpecAmounts, PTL DEF Spec

LEMMA DepreciationIsEnough == DepreciationSound => DepreciationAddsUp
BY DEF DepreciationSound, DepreciationAddsUp, AssetSound, Base

\* For any assets, lives and requests: an asset is never depreciated below its salvage
\* value, and its records and its accumulated amount agree, unless two requests had read it
\* together; then the records say more than the asset, never less.
THEOREM AssetsAddUp == Spec => []DepreciationAddsUp
BY DepreciationIsEnough, SpecDepreciation, PTL
-----------------------------------------------------------------------------
(* A journal carries the amounts of its documents.                         *)

LEMMA AddedSame ==
    ASSUME NEW k \in Nat, NEW f, Len(f) = k, NEW g, Len(g) = k, \A n \in 1 .. k : f[n] = g[n]
    PROVE  Added(f) = Added(g)
<1>1. PICK h : Sums(h, f, k) /\ Added(f) = h[k]
  BY SumsExist
<1>2. Sums(h, g, k)
  BY <1>1 DEF Sums
<1> QED BY <1>1, <1>2, AddedIs

\* The total of one line after others.
Side(line, side) == IF line.debit_credit = side THEN line.amount ELSE 0

LEMMA TotalOneMore ==
    ASSUME NEW list, NEW more, Len(list) \in Nat, Len(more) = Len(list) + 1,
           DOMAIN list = 1 .. Len(list), DOMAIN more = 1 .. Len(more),
           \A n \in DOMAIN list : more[n] = list[n], NEW side
    PROVE  Total(more, side) = Total(list, side) + Side(more[Len(more)], side)
<1> DEFINE k == Len(list)
           Of(l) == [n \in DOMAIN l |-> IF l[n].debit_credit = side THEN l[n].amount ELSE 0]
<1>1. Len(Of(list)) = k /\ Len(Of(more)) = k + 1
  OBVIOUS
<1>2. /\ \A n \in 1 .. k : Of(more)[n] = Of(list)[n]
      /\ Of(more)[k + 1] = Side(more[Len(more)], side)
  BY DEF Side
<1>3. Added(Of(more)) = Added(Of(list)) + Of(more)[k + 1]
  <2> HIDE DEF Of
  <2> QED BY <1>1, <1>2, AddedPrefix
<1> QED BY <1>2, <1>3 DEF Total

LEMMA TotalOfNone == ASSUME NEW side PROVE Total(<<>>, side) = 0
<1> DEFINE f == [n \in DOMAIN <<>> |->
                    IF <<>>[n].debit_credit = side THEN <<>>[n].amount ELSE 0]
<1>1. Len(f) = 0
  OBVIOUS
<1>2. Added(f) = 0
  <2> HIDE DEF f
  <2> QED BY <1>1, AddedNothing
<1> QED BY <1>2 DEF Total

LEMMA TotalOfOne ==
    ASSUME NEW x, NEW side, x.amount \in Int
    PROVE  Total(<<x>>, side) = Side(x, side)
<1> DEFINE more == <<x>>
<1>1. /\ DOMAIN <<>> = 1 .. Len(<<>>) /\ DOMAIN more = 1 .. Len(more)
      /\ Len(<<>>) \in Nat /\ Len(more) = Len(<<>>) + 1 /\ more[Len(more)] = x
      /\ \A n \in DOMAIN <<>> : more[n] = <<>>[n]
  OBVIOUS
<1> HIDE DEF more
<1>2. Total(more, side) = Total(<<>>, side) + Side(more[Len(more)], side)
  BY <1>1, TotalOneMore, Zenon
<1>3. Side(x, side) \in Int
  BY DEF Side
<1> QED BY <1>1, <1>2, <1>3, TotalOfNone DEF more

LEMMA TotalOfTwo ==
    ASSUME NEW x, NEW y, NEW side, x.amount \in Int
    PROVE  Total(<<x>> \o <<y>>, side) = Side(x, side) + Side(y, side)
<1> DEFINE list == <<x>>
           more == <<x>> \o <<y>>
<1>1. /\ DOMAIN list = 1 .. Len(list) /\ DOMAIN more = 1 .. Len(more)
      /\ Len(list) \in Nat /\ Len(more) = Len(list) + 1 /\ more[Len(more)] = y
      /\ \A n \in DOMAIN list : more[n] = list[n]
  OBVIOUS
<1> HIDE DEF more, list
<1>2. Total(more, side) = Total(list, side) + Side(more[Len(more)], side)
  BY <1>1, TotalOneMore, Zenon
<1>3. Total(list, side) = Side(x, side)
  BY TotalOfOne DEF list
<1> QED BY <1>1, <1>2, <1>3 DEF more

LEMMA TotalOfThree ==
    ASSUME NEW x, NEW y, NEW z, NEW side, x.amount \in Int
    PROVE  Total(<<x>> \o <<y>> \o <<z>>, side) = Side(x, side) + Side(y, side) + Side(z, side)
<1> DEFINE list == <<x>> \o <<y>>
           more == <<x>> \o <<y>> \o <<z>>
<1>1. /\ DOMAIN list = 1 .. Len(list) /\ DOMAIN more = 1 .. Len(more)
      /\ Len(list) \in Nat /\ Len(more) = Len(list) + 1 /\ more[Len(more)] = z
      /\ \A n \in DOMAIN list : more[n] = list[n]
  OBVIOUS
<1> HIDE DEF more, list
<1>2. Total(more, side) = Total(list, side) + Side(more[Len(more)], side)
  BY <1>1, TotalOneMore, Zenon
<1>3. Total(list, side) = Side(x, side) + Side(y, side)
  BY TotalOfTwo DEF list
<1> QED BY <1>1, <1>2, <1>3 DEF more

\* The lines of a generator: as much on either side.
CarriesAmount(ls, n) == ls # <<>> /\ Total(ls, "debit") = n /\ Total(ls, "credit") = n

LEMMA TwoLines ==
    ASSUME NEW a, NEW b, NEW n \in Int
    PROVE  CarriesAmount(Debit(a, n) \o Credit(b, n), n)
<1> DEFINE x == [debit_credit |-> "debit", account |-> a, amount |-> n]
           y == [debit_credit |-> "credit", account |-> b, amount |-> n]
           ls == <<x>> \o <<y>>
<1>1. Debit(a, n) \o Credit(b, n) = ls
  BY DEF Debit, Credit
<1>2. /\ Side(x, "debit") = n /\ Side(y, "debit") = 0
      /\ Side(x, "credit") = 0 /\ Side(y, "credit") = n /\ x.amount \in Int
  BY DEF Side
<1>3. Len(ls) = 2
  OBVIOUS
<1>4. ls # <<>>
  BY <1>3
<1> HIDE DEF x, y
<1>5. Total(ls, "debit") = n /\ Total(ls, "credit") = n
  BY <1>2, TotalOfTwo
<1> QED BY <1>1, <1>4, <1>5 DEF CarriesAmount

LEMMA ThreeLines ==
    ASSUME NEW a, NEW b, NEW c, NEW n \in Int, NEW m \in Int
    PROVE  CarriesAmount(Debit(a, n) \o Credit(b, n - m) \o Credit(c, m), n)
<1> DEFINE x == [debit_credit |-> "debit", account |-> a, amount |-> n]
           y == [debit_credit |-> "credit", account |-> b, amount |-> n - m]
           z == [debit_credit |-> "credit", account |-> c, amount |-> m]
           ls == <<x>> \o <<y>> \o <<z>>
<1>1. Debit(a, n) \o Credit(b, n - m) \o Credit(c, m) = ls
  BY DEF Debit, Credit
<1>2. /\ Side(x, "debit") = n /\ Side(y, "debit") = 0 /\ Side(z, "debit") = 0
      /\ Side(x, "credit") = 0 /\ Side(y, "credit") = n - m /\ Side(z, "credit") = m
      /\ x.amount \in Int
  BY DEF Side
<1>3. Len(ls) = 3
  OBVIOUS
<1>4. ls # <<>>
  BY <1>3
<1> HIDE DEF x, y, z
<1>5. /\ Total(ls, "debit") = n + 0 + 0
      /\ Total(ls, "credit") = 0 + (n - m) + m
  BY <1>2, TotalOfThree
<1>6. Total(ls, "debit") = n /\ Total(ls, "credit") = n
  <2> HIDE DEF ls
  <2> QED BY <1>5
<1> QED BY <1>1, <1>4, <1>6 DEF CarriesAmount

\* What a generator leaves: nothing; a header with lines of the amount; or, where the
\* account of the deductions is missing, the header alone.
HeaderAlone(source, accounts) == source \in {"payroll", "bonus"} /\ Withheld \notin accounts

LinesSound(ls, source, n, accounts) ==
    \/ CarriesAmount(ls, n)
    \/ ls = <<>> /\ HeaderAlone(source, accounts)

DraftsSound(drafts, source, n, accounts) ==
    \/ drafts = <<>>
    \/ \E ls : drafts = <<[source |-> source, lines |-> ls]>>
               /\ LinesSound(ls, source, n, accounts)

LEMMA OneDraftSound ==
    ASSUME NEW drafts, NEW source, NEW ls, NEW n, NEW accounts,
           drafts = <<[source |-> source, lines |-> ls]>>, LinesSound(ls, source, n, accounts)
    PROVE  DraftsSound(drafts, source, n, accounts)
BY DEF DraftsSound

LEMMA DraftedSound ==
    ASSUME NEW source, NEW ls, NEW first, NEW late, NEW accounts, NEW n,
           CarriesAmount(ls, n), late \subseteq accounts \/ HeaderAlone(source, accounts)
    PROVE  DraftsSound(Drafted(source, ls, first, late, accounts), source, n, accounts)
<1>1. Balanced(ls)
  BY DEF Balanced, CarriesAmount
<1>2. CASE late \subseteq accounts
  <2>1. \/ Drafted(source, ls, first, late, accounts) = <<>>
        \/ Drafted(source, ls, first, late, accounts) = <<[source |-> source, lines |-> ls]>>
    BY <1>1, <1>2 DEF Drafted
  <2>2. LinesSound(ls, source, n, accounts)
    BY DEF LinesSound
  <2> QED BY <2>1, <2>2, OneDraftSound DEF DraftsSound
<1>3. CASE ~late \subseteq accounts
  <2>1. \/ Drafted(source, ls, first, late, accounts) = <<>>
        \/ Drafted(source, ls, first, late, accounts) = <<[source |-> source, lines |-> <<>>]>>
    BY <1>3 DEF Drafted
  <2>2. LinesSound(<<>>, source, n, accounts)
    BY <1>3 DEF LinesSound
  <2> QED BY <2>1, <2>2, OneDraftSound DEF DraftsSound
<1> QED BY <1>2, <1>3

LEMMA InvoiceSound ==
    ASSUME NEW inv, inv.subtotal \in Nat, inv.tax_amount \in Nat, NEW accounts
    PROVE  LET n == inv.subtotal + inv.tax_amount
           IN  /\ DraftsSound(invoice_issue_journal(inv, accounts), "invoice", n, accounts)
               /\ DraftsSound(invoice_payment_journal(inv, accounts), "invoice_payment", n, accounts)
<1> DEFINE m == inv.tax_amount
           n == inv.subtotal + m
           issued == Debit(Receivables, n) \o Credit(Sales, inv.subtotal)
                         \o IF m > 0 THEN Credit(TaxReceived, m) ELSE <<>>
<1>1. n \in Int /\ m \in Int /\ inv.subtotal = n - m /\ {} \subseteq accounts
  OBVIOUS
<1>2. CarriesAmount(issued, n)
  <2>1. CASE m > 0
    <3>1. issued = Debit(Receivables, n) \o Credit(Sales, n - m) \o Credit(TaxReceived, m)
      BY <1>1, <2>1
    <3> HIDE DEF n, m
    <3> QED BY <1>1, <3>1, ThreeLines
  <2>2. CASE ~(m > 0)
    <3>1. inv.subtotal = n
      BY <2>2
    <3>2. issued = Debit(Receivables, n) \o Credit(Sales, n)
      <4>1. issued = Debit(Receivables, n) \o Credit(Sales, n) \o <<>>
        BY <2>2, <3>1
      <4> HIDE DEF n, issued
      <4> QED BY <4>1 DEF Debit, Credit
    <3> HIDE DEF n, issued
    <3> QED BY <1>1, <3>2, TwoLines
  <2> QED BY <2>1, <2>2
<1>3. DraftsSound(invoice_issue_journal(inv, accounts), "invoice", n, accounts)
  <2> HIDE DEF n
  <2> DEFINE first == {Receivables, Sales, TaxReceived}
  <2>1. invoice_issue_journal(inv, accounts) = Drafted("invoice", issued, first, {}, accounts)
    BY DEF invoice_issue_journal, n
  <2> HIDE DEF issued, first
  <2> QED BY <1>1, <1>2, <2>1, DraftedSound
<1>4. DraftsSound(invoice_payment_journal(inv, accounts), "invoice_payment", n, accounts)
  <2> DEFINE paid == Debit(Cash, n) \o Credit(Receivables, n)
             first == {Cash, Receivables}
  <2>1. invoice_payment_journal(inv, accounts) =
            Drafted("invoice_payment", paid, first, {}, accounts)
    BY DEF invoice_payment_journal
  <2>2. CarriesAmount(paid, n)
    <3> HIDE DEF n
    <3> QED BY <1>1, TwoLines
  <2> HIDE DEF n, paid, first
  <2> QED BY <1>1, <2>1, <2>2, DraftedSound
<1> QED BY <1>3, <1>4

LEMMA ExpenseSound ==
    ASSUME NEW rep, rep.total_amount \in Nat, NEW accounts
    PROVE  DraftsSound(expense_payment_journal(rep, accounts), "expense_payment",
                       rep.total_amount, accounts)
<1> DEFINE n == rep.total_amount
           paid == Debit(Expenses, n) \o Credit(Cash, n)
           first == {Expenses, Cash}
<1>1. n \in Int /\ {} \subseteq accounts
  OBVIOUS
<1>2. expense_payment_journal(rep, accounts) =
          Drafted("expense_payment", paid, first, {}, accounts)
  BY DEF expense_payment_journal
<1> HIDE DEF n
<1>3. CarriesAmount(paid, n)
  BY <1>1, TwoLines
<1>4. DraftsSound(expense_payment_journal(rep, accounts), "expense_payment", n, accounts)
  <2> HIDE DEF paid, first
  <2> QED BY <1>1, <1>2, <1>3, DraftedSound
<1> QED BY <1>4 DEF n

LEMMA DepreciationJournalSound ==
    ASSUME NEW n \in Nat, NEW accounts
    PROVE  DraftsSound(depreciation_journal(n, accounts), "depreciation", n, accounts)
<1> DEFINE ls == Debit(Depreciation, n) \o Credit(Accumulated, n)
           first == {Depreciation, Accumulated}
<1>1. n \in Int /\ {} \subseteq accounts
  OBVIOUS
<1>2. depreciation_journal(n, accounts) = Drafted("depreciation", ls, first, {}, accounts)
  BY DEF depreciation_journal
<1>3. CarriesAmount(ls, n)
  BY <1>1, TwoLines
<1> HIDE DEF ls, first
<1> QED BY <1>1, <1>2, <1>3, DraftedSound

LEMMA WagesSound ==
    ASSUME NEW source \in {"payroll", "bonus"}, NEW gross \in Nat, NEW deductions \in Nat,
           NEW accounts
    PROVE  DraftsSound(Wages(source, gross, deductions, accounts), source, gross, accounts)
<1> DEFINE late == IF deductions > 0 THEN {Withheld} ELSE {}
           ls == Debit(Salaries, gross) \o Credit(Cash, gross - deductions)
                     \o IF deductions > 0 THEN Credit(Withheld, deductions) ELSE <<>>
           first == {Salaries, Cash}
<1>1. late \subseteq accounts \/ HeaderAlone(source, accounts)
  BY DEF HeaderAlone
<1>2. Wages(source, gross, deductions, accounts) = Drafted(source, ls, first, late, accounts)
  BY DEF Wages
<1>3. CarriesAmount(ls, gross)
  <2>1. CASE deductions > 0
    <3>1. ls = Debit(Salaries, gross) \o Credit(Cash, gross - deductions)
                   \o Credit(Withheld, deductions)
      BY <2>1
    <3>2. gross \in Int /\ deductions \in Int
      OBVIOUS
    <3> HIDE DEF ls
    <3> QED BY <3>1, <3>2, ThreeLines
  <2>2. CASE ~(deductions > 0)
    <3>1. gross - deductions = gross
      BY <2>2
    <3>2. ls = Debit(Salaries, gross) \o Credit(Cash, gross)
      <4>1. ls = Debit(Salaries, gross) \o Credit(Cash, gross) \o <<>>
        BY <2>2, <3>1
      <4> HIDE DEF ls
      <4> QED BY <4>1 DEF Debit, Credit
    <3> HIDE DEF ls
    <3> QED BY <3>2, TwoLines
  <2> QED BY <2>1, <2>2
<1> HIDE DEF ls, first, late
<1> QED BY <1>1, <1>2, <1>3, DraftedSound

\* The sum over a finite set of rows: of numbers a number, of the same amounts the same.
LEMMA ListOf ==
    ASSUME NEW S, IsFiniteSet(S)
    PROVE  LET list == SetToSeq(S)
           IN  /\ Len(list) \in Nat /\ DOMAIN list = 1 .. Len(list)
               /\ \A n \in DOMAIN list : list[n] \in S
<1>1. Cardinality(S) \in Nat /\ ExistsBijection(1 .. Cardinality(S), S)
  BY FS_CardinalityType
<1>2. \E f \in [1 .. Cardinality(S) -> S] : IsInjective(f)
  BY <1>1 DEF ExistsBijection, Bijection, Injection, IsInjective
<1>3. SetToSeq(S) \in [1 .. Cardinality(S) -> S]
  BY <1>2 DEF SetToSeq
<1> HIDE DEF SetToSeq
<1> QED BY <1>1, <1>3

LEMMA SumsOfRows ==
    ASSUME NEW db, NEW ids, IsFiniteSet(ids),
           \A i \in ids : db[i].gross \in Nat /\ db[i].deductions \in Nat
    PROVE  Sum(db, ids, Gross) \in Nat /\ Sum(db, ids, Deductions) \in Nat
<1> DEFINE list == SetToSeq(ids)
           f == [n \in DOMAIN list |-> Gross(db[list[n]])]
           g == [n \in DOMAIN list |-> Deductions(db[list[n]])]
           k == Len(list)
<1>1. k \in Nat /\ DOMAIN list = 1 .. k /\ \A n \in DOMAIN list : list[n] \in ids
  BY ListOf
<1> HIDE DEF list, k
<1>2. /\ Len(f) = k /\ Len(g) = k
      /\ \A n \in 1 .. k : f[n] \in Nat /\ g[n] \in Nat
  BY <1>1 DEF Gross, Deductions
<1>3. Added(f) \in Nat /\ Added(g) \in Nat
  <2> HIDE DEF f, g
  <2> QED BY <1>1, <1>2, AddedNat
<1> QED BY <1>3 DEF Sum, list

LEMMA SumOfTheSame ==
    ASSUME NEW db, NEW db2, NEW ids, IsFiniteSet(ids), \A i \in ids : db[i].gross = db2[i].gross
    PROVE  Sum(db, ids, Gross) = Sum(db2, ids, Gross)
<1> DEFINE list == SetToSeq(ids)
           f == [n \in DOMAIN list |-> Gross(db[list[n]])]
           g == [n \in DOMAIN list |-> Gross(db2[list[n]])]
           k == Len(list)
<1>1. k \in Nat /\ DOMAIN list = 1 .. k /\ \A n \in DOMAIN list : list[n] \in ids
  BY ListOf
<1> HIDE DEF list, k
<1>2. Len(f) = k /\ Len(g) = k /\ \A n \in 1 .. k : f[n] = g[n]
  BY <1>1 DEF Gross
<1>3. Added(f) = Added(g)
  <2> HIDE DEF f, g
  <2> QED BY <1>1, <1>2, AddedSame
<1> QED BY <1>3 DEF Sum, list

\* A journal goes on carrying its documents in rows with the same amounts.
LEMMA CarriesOn ==
    ASSUME NEW j, NEW db, NEW db2, IsFiniteSet(j.about), Carries(j, db),
           \A i \in j.about \cap DOMAIN db2 : i \in DOMAIN db /\ SameDocument(db[i], db2[i])
    PROVE  Carries(j, db2)
<1> DEFINE debit == Total(j.lines, "debit")
           ids == j.about \cap DOMAIN db2
<1>1. ASSUME NEW i \in ids
      PROVE  /\ j.source \in {"invoice", "invoice_payment"} =>
                    db2[i].kind = "invoice" /\ debit = db2[i].subtotal + db2[i].tax_amount
             /\ j.source = "expense_payment" =>
                    db2[i].kind = "expense" /\ debit = db2[i].total_amount
             /\ j.source \in {"payroll", "bonus"} => db2[i].kind = j.source
  <2>1. i \in j.about \cap DOMAIN db /\ SameDocument(db[i], db2[i])
    OBVIOUS
  <2> QED BY <2>1 DEF Carries, SameDocument
<1>2. ASSUME j.source \in {"payroll", "bonus"}, j.lines # <<>>, ids = j.about
      PROVE  debit = Sum(db2, ids, Gross)
  <2>1. j.about \cap DOMAIN db = ids
    BY <1>2
  <2>2. debit = Sum(db, ids, Gross)
    BY <1>2, <2>1 DEF Carries
  <2>3. \A i \in ids : db[i].gross = db2[i].gross
    BY <1>2, <2>1 DEF Carries, SameDocument
  <2> QED BY <1>2, <2>2, <2>3, SumOfTheSame
<1> QED BY <1>1, <1>2 DEF Carries

\* What the documents ids owe to a journal of source src with the amount n.
Owes(db, ids, src, n) ==
    /\ src \in {"invoice", "invoice_payment"} =>
          \A i \in ids : db[i].kind = "invoice" /\ n = db[i].subtotal + db[i].tax_amount
    /\ src = "expense_payment" =>
          \A i \in ids : db[i].kind = "expense" /\ n = db[i].total_amount
    /\ src \in {"payroll", "bonus"} =>
          (\A i \in ids : db[i].kind = src) /\ n = Sum(db, ids, Gross)

LEMMA HandlerSound ==
    ASSUME ReadsSound, AmountsSound, DepreciationSound, NEW s \in Sessions, Commit(s)
    PROVE  LET drafts == Handler(session[s].seen, session[s].request).drafts
           IN  \/ drafts = <<>>
               \/ \E src, n : /\ DraftsSound(drafts, src, n, chart)
                              /\ Owes(session[s].seen, SelectedBy(s), src, n)
<1> DEFINE r == session[s].request
           seen == session[s].seen
           ids == Selected(seen, r)
           row == seen[r.row]
           drafts == Handler(seen, r).drafts
           Sound == \E src, n : DraftsSound(drafts, src, n, chart) /\ Owes(seen, ids, src, n)
<1>1. /\ RowsFit /\ UnderWay(s) /\ SeenFits(s) /\ SeenAmounts(s)
      /\ r \in requests /\ RequestFits(r, rows)
  BY DEF ReadsSound, AmountsSound, Commit, RowsFit, UnderWay, Holding
<1>2. /\ IsFiniteSet(DOMAIN seen)
      /\ \A i \in DOMAIN seen : HasAmounts(seen[i])
  BY <1>1 DEF SeenAmounts
<1>3. \A d, noticed : Effect(d, noticed).drafts = d
  BY DEF Effect
<1>4. CASE r.op = "transition" /\ r.kind \in DocumentKinds
  <2>1. r.row \in DOMAIN seen /\ row.kind = r.kind /\ ids = {r.row} /\ HasAmounts(row)
    <3>1. r.row \in DOMAIN rows /\ rows[r.row].kind = r.kind
      BY <1>1, <1>4 DEF RequestFits
    <3>2. r.row \in DOMAIN seen
      BY <1>1, <1>4 DEF SeenFits
    <3>3. seen[r.row].kind = rows[r.row].kind
      BY <1>1, <1>4, <3>1, <3>2 DEF SeenFits
    <3>4. ids = {r.row}
      BY <1>4, <3>2 DEF Selected
    <3> QED BY <1>2, <3>1, <3>2, <3>3, <3>4
  <2>2. CASE r.kind = "invoice"
    <3> DEFINE n == row.subtotal + row.tax_amount
    <3>1. row.subtotal \in Nat /\ row.tax_amount \in Nat
      BY <2>1, <2>2 DEF HasAmounts
    <3>2. /\ DraftsSound(invoice_issue_journal(row, chart), "invoice", n, chart)
          /\ DraftsSound(invoice_payment_journal(row, chart), "invoice_payment", n, chart)
      BY <3>1, InvoiceSound
    <3>3. \A src \in {"invoice", "invoice_payment"} : Owes(seen, ids, src, n)
      BY <2>1, <2>2 DEF Owes
    <3>4. drafts = transition_invoice(row, r.action).drafts
      BY <1>4, <2>2 DEF Handler
    <3>5. \/ drafts = invoice_issue_journal(row, chart)
          \/ drafts = invoice_payment_journal(row, chart)
          \/ drafts = <<>>
      BY <1>3, <3>4 DEF transition_invoice
    <3> HIDE DEF drafts, n, ids, seen, row
    <3>6. drafts = <<>> \/ Sound
      BY <3>2, <3>3, <3>5
    <3> QED BY <3>6 DEF SelectedBy, drafts, ids, seen
  <2>3. CASE r.kind = "expense"
    <3> DEFINE n == row.total_amount
    <3>1. n \in Nat
      BY <2>1, <2>3 DEF HasAmounts
    <3>2. DraftsSound(expense_payment_journal(row, chart), "expense_payment", n, chart)
      BY <3>1, ExpenseSound
    <3>3. Owes(seen, ids, "expense_payment", n)
      BY <2>1, <2>3 DEF Owes
    <3>4. drafts = transition_expense_report(row, r.action).drafts
      BY <1>4, <2>3 DEF Handler
    <3>5. drafts = expense_payment_journal(row, chart) \/ drafts = <<>>
      BY <1>3, <3>4 DEF transition_expense_report
    <3> HIDE DEF drafts, n, ids, seen, row
    <3>6. drafts = <<>> \/ Sound
      BY <3>2, <3>3, <3>5
    <3> QED BY <3>6 DEF SelectedBy, drafts, ids, seen
  <2> QED BY <1>4, <2>2, <2>3 DEF DocumentKinds
<1>5. CASE r.op = "batch" /\ r.kind \in {"payroll", "bonus"}
  <2> DEFINE gross == Sum(seen, ids, Gross)
             deductions == Sum(seen, ids, Deductions)
  <2>1. IsFiniteSet(ids) /\ \A i \in ids : i \in DOMAIN seen /\ seen[i].kind = r.kind
    <3>1. ids = {i \in DOMAIN seen : seen[i].kind = r.kind}
      BY <1>5 DEF Selected, OfKind
    <3>2. ids \subseteq DOMAIN seen
      BY <3>1
    <3>3. IsFiniteSet(ids)
      BY <1>2, <3>2, FS_Subset
    <3> QED BY <3>1, <3>3
  <2>2. \A i \in ids : seen[i].gross \in Nat /\ seen[i].deductions \in Nat
    BY <1>2, <1>5, <2>1 DEF HasAmounts
  <2>3. gross \in Nat /\ deductions \in Nat
    <3> HIDE DEF ids, seen
    <3> QED BY <2>1, <2>2, SumsOfRows
  <2>4. Owes(seen, ids, r.kind, gross)
    BY <1>5, <2>1 DEF Owes
  <2>5. drafts = Wages(r.kind, gross, deductions, chart) \/ drafts = <<>>
    BY <1>3, <1>5 DEF Handler, batch_transition_payroll, batch_transition_bonus,
                      payroll_journal, bonus_journal
  <2> HIDE DEF drafts, gross, deductions, ids, seen
  <2>6. DraftsSound(Wages(r.kind, gross, deductions, chart), r.kind, gross, chart)
    BY <1>5, <2>3, WagesSound
  <2>7. drafts = <<>> \/ Sound
    BY <2>4, <2>5, <2>6
  <2> QED BY <2>7 DEF SelectedBy, drafts, ids, seen
<1>6. CASE r.op = "depreciate"
  <2> DEFINE n == period_amount(r.row, row.accumulated)
  <2>1. n \in Nat
    BY <1>6, CommitDepreciates
  <2>2. drafts = depreciation_journal(n, chart)
    BY <1>3, <1>6 DEF Handler, run_depreciation
  <2>3. Owes(seen, ids, "depreciation", n)
    BY DEF Owes
  <2> HIDE DEF drafts, n, ids, seen, row
  <2>4. Sound
    BY <2>1, <2>2, <2>3, DepreciationJournalSound
  <2> QED BY <2>4 DEF SelectedBy, drafts, ids, seen
<1>7. CASE /\ ~(r.op = "transition" /\ r.kind \in DocumentKinds)
           /\ ~(r.op = "batch" /\ r.kind \in {"payroll", "bonus"})
           /\ r.op # "depreciate"
  <2>1. \E noticed : Handler(seen, r) = Effect(<<>>, noticed)
    BY <1>7 DEF Handler, DocumentKinds, transition_payment_request, transition_tax_return,
                transition_payroll_status, batch_transition_year_end
  <2> QED BY <1>3, <2>1
<1> QED BY <1>4, <1>5, <1>6, <1>7

\* The journal that a commit writes carries what the request had read.
LEMMA CommitCarries ==
    ASSUME ReadsSound, AmountsSound, DepreciationSound, IsAList(journals),
           NEW s \in Sessions, Commit(s)
    PROVE  \/ journals' = journals
           \/ \E e : /\ journals' = Append(journals, e)
                     /\ e.about = SelectedBy(s)
                     /\ Carries(e, session[s].seen)
                     /\ e.lines = <<>> => HeaderAlone(e.source, chart)
<1> DEFINE r == session[s].request
           seen == session[s].seen
           ids == Selected(seen, r)
           drafts == Handler(seen, r).drafts
<1>1. journals' = journals \o Journaled(seen, r)
  BY DEF Commit
<1>2. CASE drafts = <<>>
  <2>1. Journaled(seen, r) = <<>>
    BY <1>2 DEF Journaled
  <2> QED BY <1>1, <2>1, AppendOne
<1>3. ASSUME NEW src, NEW n, NEW ls, drafts = <<[source |-> src, lines |-> ls]>>,
             LinesSound(ls, src, n, chart), Owes(seen, ids, src, n)
      PROVE  \E e : /\ journals' = Append(journals, e)
                    /\ e.about = SelectedBy(s)
                    /\ Carries(e, seen)
                    /\ e.lines = <<>> => HeaderAlone(e.source, chart)
  <2> DEFINE e == [source |-> src, lines |-> ls, about |-> ids]
  <2>1. Journaled(seen, r) = <<e>>
    BY <1>3 DEF Journaled
  <2>2. e.source = src /\ e.lines = ls /\ e.about = ids
    OBVIOUS
  <2>3. ls = <<>> => HeaderAlone(src, chart)
    BY <1>3 DEF LinesSound, CarriesAmount
  <2>4. /\ Balanced(ls)
        /\ \/ Total(ls, "debit") = n
           \/ ls = <<>> /\ HeaderAlone(src, chart)
    <3>1. Total(<<>>, "debit") = 0 /\ Total(<<>>, "credit") = 0
      BY TotalOfNone
    <3> QED BY <1>3, <3>1 DEF LinesSound, CarriesAmount, Balanced
  <2> HIDE DEF e, ids, seen
  <2>5. Carries(e, seen)
    BY <1>3, <2>2, <2>3, <2>4 DEF Carries, Owes, HeaderAlone
  <2>6. journals' = Append(journals, e)
    BY <1>1, <2>1, AppendOne
  <2> QED BY <2>2, <2>3, <2>5, <2>6 DEF SelectedBy, ids, seen
<1>4. \/ drafts = <<>>
      \/ \E src, n, ls : /\ drafts = <<[source |-> src, lines |-> ls]>>
                         /\ LinesSound(ls, src, n, chart) /\ Owes(seen, ids, src, n)
  BY HandlerSound DEF DraftsSound, SelectedBy
<1> QED BY <1>2, <1>3, <1>4

JournalsSound ==
    /\ IsAList(journals)
    /\ JournalsCarryTheirDocument
    /\ \A n \in DOMAIN journals : IsFiniteSet(journals[n].about) /\ Given(journals[n].about)

LEMMA CommitKeepsJournals ==
    ASSUME ReadsSound, AmountsSound, DepreciationSound, JournalsSound,
           NEW s \in Sessions, Commit(s)
    PROVE  JournalsSound'
<1> DEFINE seen == session[s].seen
           GivenAfter(ids) == Calculating(requests) => \A i \in ids : i \in Int /\ i < next_id'
<1>1. /\ chart' = chart /\ requests' = requests /\ next_id \in Int
      /\ next_id' \in Int /\ next_id <= next_id'
      /\ \A i \in DOMAIN rows \cap DOMAIN rows' : SameDocument(rows[i], rows'[i])
      /\ \A i \in DOMAIN rows' \ DOMAIN rows : Calculating(requests) /\ i \in Int /\ next_id <= i
      /\ SeenAmounts(s) /\ IsAList(journals)
  BY CommitKeepsAmounts DEF AmountsSound, Commit, JournalsSound
<1>2. ASSUME NEW ids, Given(ids)
      PROVE  GivenAfter(ids) /\ \A i \in ids \cap DOMAIN rows' : i \in DOMAIN rows
  <2>1. GivenAfter(ids)
    BY <1>1, <1>2 DEF Given
  <2>2. ASSUME NEW i \in ids \cap DOMAIN rows', i \notin DOMAIN rows
        PROVE  FALSE
    <3>1. Calculating(requests) /\ i \in Int /\ next_id <= i
      BY <1>1, <2>2
    <3>2. i < next_id
      BY <1>2, <2>2, <3>1 DEF Given
    <3> QED BY <1>1, <3>1, <3>2
  <2> QED BY <2>1, <2>2
<1>3. ASSUME NEW n \in DOMAIN journals
      PROVE  /\ Carries(journals[n], rows')
             /\ journals[n].lines = <<>> => HeaderAlone(journals[n].source, chart)
             /\ IsFiniteSet(journals[n].about) /\ GivenAfter(journals[n].about)
  <2> DEFINE j == journals[n]
  <2>1. /\ Carries(j, rows) /\ IsFiniteSet(j.about) /\ Given(j.about)
        /\ j.lines = <<>> => HeaderAlone(j.source, chart)
    BY DEF JournalsSound, JournalsCarryTheirDocument, HeaderAlone
  <2> HIDE DEF j
  <2>2. \A i \in j.about \cap DOMAIN rows' : i \in DOMAIN rows /\ SameDocument(rows[i], rows'[i])
    BY <1>1, <1>2, <2>1
  <2>3. Carries(j, rows')
    BY <2>1, <2>2, CarriesOn
  <2>4. GivenAfter(j.about)
    BY <1>2, <2>1
  <2> QED BY <2>1, <2>3, <2>4 DEF j
<1>4. ASSUME NEW e, e.about = SelectedBy(s), Carries(e, seen),
             e.lines = <<>> => HeaderAlone(e.source, chart)
      PROVE  /\ Carries(e, rows')
             /\ e.lines = <<>> => HeaderAlone(e.source, chart)
             /\ IsFiniteSet(e.about) /\ GivenAfter(e.about)
  <2>1. e.about \subseteq DOMAIN seen
    BY <1>4 DEF SelectedBy, Selected, OfKind
  <2>2. IsFiniteSet(e.about) /\ Given(e.about)
    <3>1. IsFiniteSet(DOMAIN seen) /\ Given(DOMAIN seen)
      BY <1>1 DEF SeenAmounts
    <3>2. IsFiniteSet(e.about)
      BY <2>1, <3>1, FS_Subset
    <3> QED BY <2>1, <3>1, <3>2 DEF Given
  <2>3. ASSUME NEW i \in e.about \cap DOMAIN rows'
        PROVE  i \in DOMAIN seen /\ SameDocument(seen[i], rows'[i])
    <3>1. i \in DOMAIN seen /\ i \in DOMAIN rows
      BY <1>2, <2>1, <2>2
    <3>2. SameDocument(seen[i], rows[i]) /\ SameDocument(rows[i], rows'[i])
      BY <1>1, <3>1 DEF SeenAmounts
    <3> QED BY <3>1, <3>2 DEF SameDocument
  <2>4. Carries(e, rows')
    <3> HIDE DEF seen
    <3> QED BY <1>4, <2>2, <2>3, CarriesOn
  <2>5. GivenAfter(e.about)
    BY <1>2, <2>2
  <2> QED BY <1>4, <2>2, <2>4, <2>5
<1>5. CASE journals' = journals
  <2>1. JournalsCarryTheirDocument'
    BY <1>1, <1>3, <1>5 DEF JournalsCarryTheirDocument, HeaderAlone
  <2> QED BY <1>1, <1>3, <1>5, <2>1 DEF JournalsSound, Given
<1>6. ASSUME NEW e, journals' = Append(journals, e), e.about = SelectedBy(s), Carries(e, seen),
             e.lines = <<>> => HeaderAlone(e.source, chart)
      PROVE  JournalsSound'
  <2>1. IsAList(journals')
    <3>1. \A good : IsAList(Append(journals, e))
      BY <1>1, OneMore
    <3> QED BY <1>6, <3>1
  <2>2. ASSUME NEW n \in DOMAIN journals'
        PROVE  \/ n \in DOMAIN journals /\ journals'[n] = journals[n]
               \/ journals'[n] = e
    <3>1. journals \in Seq(Range(journals) \cup {e})
      BY <1>1 DEF IsAList
    <3> QED BY <1>6, <2>2, <3>1
  <2>3. ASSUME NEW n \in DOMAIN journals'
        PROVE  /\ Carries(journals'[n], rows')
               /\ journals'[n].lines = <<>> => HeaderAlone(journals'[n].source, chart)
               /\ IsFiniteSet(journals'[n].about) /\ GivenAfter(journals'[n].about)
    BY <1>3, <1>4, <1>6, <2>2
  <2>4. JournalsCarryTheirDocument'
    BY <1>1, <2>3 DEF JournalsCarryTheirDocument, HeaderAlone
  <2> QED BY <1>1, <2>1, <2>3, <2>4 DEF JournalsSound, Given
<1> QED BY <1>1, <1>5, <1>6, CommitCarries

LEMMA NextJournals ==
    /\ ReadsSound /\ AmountsSound /\ DepreciationSound /\ JournalsSound
    /\ [Next]_vars
    => JournalsSound'
<1> SUFFICES ASSUME ReadsSound, AmountsSound, DepreciationSound, JournalsSound, [Next]_vars
             PROVE  JournalsSound'
  OBVIOUS
<1>1. ASSUME NEW s \in Sessions, Commit(s)
      PROVE  JournalsSound'
  BY <1>1, CommitKeepsJournals
<1>2. CASE UNCHANGED <<rows, journals, chart, requests, next_id>>
  BY <1>2 DEF JournalsSound, JournalsCarryTheirDocument, Given
<1>3. ASSUME NEW s \in Sessions, Read(s) \/ Save(s) \/ Lose(s) \/ \E r \in requests : Receive(s, r)
      PROVE  UNCHANGED <<rows, journals, chart, requests, next_id>>
  BY <1>3 DEF Read, Save, Lose, Receive
<1>4. ASSUME (\E k \in Keys : Expire(k)) \/ UNCHANGED vars
      PROVE  UNCHANGED <<rows, journals, chart, requests, next_id>>
  BY <1>4 DEF Expire, vars
<1> QED BY <1>1, <1>2, <1>3, <1>4 DEF Next

LEMMA InitJournals == Init => JournalsSound
<1> SUFFICES ASSUME Init PROVE JournalsSound
  OBVIOUS
<1>1. PICK w \in Worlds : rows = w.rows /\ journals = w.journals /\ requests = w.requests
  BY DEF Init
<1>2. /\ w.journals \in Seq(Range(w.journals)) /\ IsFiniteSet(DOMAIN w.rows)
      /\ \A n \in DOMAIN w.journals :
            /\ Carries(w.journals[n], w.rows) /\ w.journals[n].lines # <<>>
            /\ w.journals[n].about \subseteq DOMAIN w.rows
      /\ Calculating(w.requests) => \A i \in DOMAIN w.rows : i \in Int /\ i < 1
  BY WorldsAssumption
<1>3. next_id = 1
  BY DEF Init
<1>4. \A n \in DOMAIN journals : IsFiniteSet(journals[n].about) /\ Given(journals[n].about)
  BY <1>1, <1>2, <1>3, FS_Subset DEF Given
<1>5. JournalsCarryTheirDocument
  BY <1>1, <1>2 DEF JournalsCarryTheirDocument
<1> QED BY <1>1, <1>2, <1>4, <1>5 DEF JournalsSound, IsAList

\* Whatever overlaps, fails or is repeated: every journal balances, and carries the amounts
\* of the documents it was written for; a header stays alone only where the company has no
\* account for the deductions of a payroll or bonus.
THEOREM JournalsCarry == Spec => []JournalsCarryTheirDocument
<1>1. JournalsSound => JournalsCarryTheirDocument
  BY DEF JournalsSound
<1> QED BY <1>1, InitJournals, NextJournals, SpecReads, SpecAmounts, SpecDepreciation, PTL DEF Spec
=============================================================================
