--------------------------- MODULE HouseholdProofs ---------------------------
(***************************************************************************)
(* Proofs about what a household runs.                                     *)
(***************************************************************************)
EXTENDS MCHousehold, FiniteSetTheorems, TLAPS

Order == INSTANCE WellFoundedInduction

-----------------------------------------------------------------------------
(* FamilyTime                                                              *)

LEMMA TodayIsNat == TimeTypeOK => Today \in Nat /\ minute \in Nat
<1> SUFFICES ASSUME TimeTypeOK PROVE Today \in Nat /\ minute \in Nat
  OBVIOUS
<1>1. minute \in Nat /\ DayLength \in Nat /\ DayLength > 0
  BY TimeAssumption DEF TimeTypeOK
<1> HIDE DEF TimeTypeOK
<1>2. minute \div DayLength \in Nat
  BY <1>1, Z3
<1> QED  BY <1>1, <1>2 DEF Today, DateOf

LEMMA EntryCharged ==
    ASSUME NEW e \in Entries, NEW m \in Nat, NEW x, x = [e EXCEPT !.used = @ + 1, !.last = m]
    PROVE  /\ x \in Entries /\ x.daily = e.daily /\ x.period = e.period
           /\ x.last = m /\ x.used = e.used + 1 /\ e.used \in Nat
<1>1. e.used \in Nat /\ e.used + 1 \in Nat /\ m \in Int
  BY DEF Entries
<1> DEFINE n == e.used + 1
<1>2. x = [e EXCEPT !.used = n, !.last = m]
  OBVIOUS
<1>3. n \in Nat
  BY <1>1
<1> HIDE DEF n
<1>4. x \in Entries
  BY <1>1, <1>2, <1>3, Zenon DEF Entries
<1>5. x.daily = e.daily /\ x.period = e.period /\ x.last = m /\ x.used = n
  BY <1>2 DEF Entries
<1> QED  BY <1>1, <1>4, <1>5 DEF n

LEMMA NewDayEntry ==
    ASSUME TimeTypeOK, NEW e \in Entries
    PROVE  /\ NewDay(e) \in Entries /\ NewDay(e).daily = e.daily /\ NewDay(e).last = e.last
           /\ NewDay(e).period = Today /\ NewDay(e).used = 0
<1>1. Today \in Nat
  BY TodayIsNat
<1>2. Cap(e) \in Nat /\ Left(e) \in Nat
  BY DEF Cap, Left, Budget, Entries
<1> HIDE DEF Today
<1>3. (IF e.rollover THEN Least(Cap(e), Left(e)) ELSE 0) \in Nat
  BY <1>2 DEF Least
<1> DEFINE r == IF e.rollover THEN Least(Cap(e), Left(e)) ELSE 0
<1>4. NewDay(e) = [e EXCEPT !.period = Today, !.used = 0, !.bonus = 0, !.rolled = r]
  BY DEF NewDay
<1>5. r \in Nat
  BY <1>3
<1> HIDE DEF r
<1> DEFINE x == NewDay(e)
<1>6. x = [e EXCEPT !.period = Today, !.used = 0, !.bonus = 0, !.rolled = r]
  BY <1>4
<1> HIDE DEF x
<1>7. x \in Entries /\ x.daily = e.daily /\ x.last = e.last /\ x.period = Today /\ x.used = 0
  <2> DEFINE t == Today
  <2>1. t \in Nat /\ x = [e EXCEPT !.period = t, !.used = 0, !.bonus = 0, !.rolled = r]
    BY <1>1, <1>6
  <2> HIDE DEF t
  <2>2. x \in Entries /\ x.daily = e.daily /\ x.last = e.last /\ x.period = t /\ x.used = 0
    <3>1. x \in Entries
      BY <1>5, <2>1, Zenon DEF Entries
    <3>2. x.daily = e.daily /\ x.last = e.last /\ x.period = t /\ x.used = 0
      BY <1>5, <2>1 DEF Entries
    <3> QED  BY <3>1, <3>2
  <2> QED  BY <2>2 DEF t
<1> QED  BY <1>7 DEF x

\* What a call leaves of an entry: the entry of today.
LEMMA RefreshedEntry ==
    ASSUME TimeTypeOK, NEW bank \in [Gadgets -> Entries \cup {None}], NEW d \in Gadgets
    PROVE  /\ Refreshed(bank)[d] \in Entries \cup {None}
           /\ bank[d] = None <=> Refreshed(bank)[d] = None
           /\ bank[d] # None =>
                /\ bank[d] \in Entries /\ Refreshed(bank)[d] \in Entries
                /\ Refreshed(bank)[d].daily = bank[d].daily
                /\ Refreshed(bank)[d].last = bank[d].last
                /\ Refreshed(bank)[d].period = Today
                /\ bank[d].period = Today => Refreshed(bank)[d].used = bank[d].used
                /\ bank[d].period # Today => Refreshed(bank)[d].used = 0
<1>1. CASE bank[d] = None
  BY <1>1 DEF Refreshed
<1>2. CASE bank[d] # None
  <2> DEFINE e == IF bank[d].period # Today THEN NewDay(bank[d]) ELSE bank[d]
  <2>1. bank[d] \in Entries
    BY <1>2
  <2>2. /\ e \in Entries /\ e.daily = bank[d].daily /\ e.last = bank[d].last /\ e.period = Today
        /\ bank[d].period = Today => e.used = bank[d].used
        /\ bank[d].period # Today => e.used = 0
    BY <2>1, NewDayEntry
  <2>3. Refreshed(bank)[d] = [e EXCEPT !.cap = Cap(e)]
    BY <1>2 DEF Refreshed
  <2> HIDE DEF e
  <2>4. Cap(e) \in Nat \cup {None}
    BY <2>2 DEF Cap, Entries
  <2>5. Refreshed(bank)[d] \in Entries
    BY <2>2, <2>3, <2>4 DEF Entries
  <2>6. None \notin Entries
    BY TimeAssumption
  <2>7. /\ Refreshed(bank)[d].daily = e.daily /\ Refreshed(bank)[d].last = e.last
        /\ Refreshed(bank)[d].period = e.period /\ Refreshed(bank)[d].used = e.used
    BY <2>2, <2>3 DEF Entries
  <2> QED  BY <1>2, <2>1, <2>2, <2>5, <2>6, <2>7
<1> QED  BY <1>1, <1>2

LEMMA RefreshedType ==
    ASSUME TimeTypeOK, NEW bank \in [Gadgets -> Entries \cup {None}]
    PROVE  Refreshed(bank) \in [Gadgets -> Entries \cup {None}]
<1>1. \A d \in Gadgets : Refreshed(bank)[d] \in Entries \cup {None}
  BY RefreshedEntry
<1>2. Refreshed(bank) = [d \in Gadgets |-> Refreshed(bank)[d]]
  BY DEF Refreshed
<1> QED  BY <1>1, <1>2

\* Looking at the day charges nothing.
LEMMA RefreshedCharged ==
    ASSUME TimeTypeOK, NEW bank \in [Gadgets -> Entries \cup {None}], NEW d \in Gadgets,
           NEW h \in Heard, bank[d] # None, Charged(bank[d], h)
    PROVE  Charged(Refreshed(bank)[d], h)
<1> DEFINE b == bank[d]
           r == Refreshed(bank)[d]
<1>1. /\ b \in Entries /\ r \in Entries /\ r.daily = b.daily /\ r.last = b.last /\ r.period = Today
      /\ b.period = Today => r.used = b.used
      /\ b.period # Today => r.used = 0
  BY RefreshedEntry
<1>2. Today \in Nat
  BY TodayIsNat
<1>3. Charged(b, h)
  OBVIOUS
<1> HIDE DEF b, r
<1>4. h.count \in Nat
  BY DEF Heard
<1>5. /\ b.daily > 0 /\ b.last <= minute /\ (DateOf(b.last) = Today => b.last \in h.minutes)
      /\ b.period = Today => Cardinality(h.minutes) <= b.used /\ b.used <= h.count
      /\ b.period # Today => h.minutes = {}
  BY <1>3, Zenon DEF Charged
<1> DEFINE c == Cardinality(h.minutes)
<1>6. c <= r.used /\ r.used <= h.count
  <2>1. CASE b.period = Today
    BY <1>1, <1>5, <2>1, Zenon
  <2>2. CASE b.period # Today
    <3>1. r.used = 0 /\ c = 0
      BY <1>1, <1>5, <2>2, FS_EmptySet
    <3> HIDE DEF c
    <3> QED  BY <1>4, <3>1
  <2> QED  BY <2>1, <2>2
<1>7. r.daily > 0 /\ r.last <= minute /\ (DateOf(r.last) = Today => r.last \in h.minutes)
  BY <1>1, <1>5, Zenon
<1>8. r.period <= Today
  BY <1>1, <1>2
<1>9. Charged(r, h)
  BY <1>1, <1>6, <1>7, <1>8, Zenon DEF Charged
<1> QED  BY <1>9 DEF r

\* A flow of minute m that is tallied.
LEMMA TalliedType ==
    ASSUME TimeTypeOK, NEW bank \in [Gadgets -> Entries \cup {None}], NEW d \in Gadgets, NEW m \in Nat
    PROVE  /\ Tallied(bank, d, m) \in [Gadgets -> Entries \cup {None}]
           /\ \A g \in Gadgets \ {d} : Tallied(bank, d, m)[g] \in {bank[g], Refreshed(bank)[g]}
           /\ bank[d] = None \/ m = bank[d].last => Tallied(bank, d, m) = bank
           /\ ~(bank[d] = None \/ m = bank[d].last) =>
                Tallied(bank, d, m)[d] = [Refreshed(bank)[d] EXCEPT !.used = @ + 1, !.last = m]
<1>1. CASE bank[d] = None \/ m = bank[d].last
  BY <1>1 DEF Tallied
<1>2. CASE ~(bank[d] = None \/ m = bank[d].last)
  <2> DEFINE r == Refreshed(bank)
             e == [r[d] EXCEPT !.used = @ + 1, !.last = m]
  <2>1. r \in [Gadgets -> Entries \cup {None}] /\ r[d] \in Entries
    BY <1>2, RefreshedType, RefreshedEntry
  <2>2. e \in Entries
    <3> HIDE DEF r
    <3> QED  BY <2>1, EntryCharged
  <2>3. Tallied(bank, d, m) = [r EXCEPT ![d] = e]
    BY <1>2, <2>1 DEF Tallied
  <2> HIDE DEF r, e
  <2>4. Tallied(bank, d, m) \in [Gadgets -> Entries \cup {None}] /\ Tallied(bank, d, m)[d] = e
        /\ \A g \in Gadgets \ {d} : Tallied(bank, d, m)[g] = r[g]
    BY <2>1, <2>2, <2>3
  <2> QED  BY <1>2, <2>4 DEF r, e
<1> QED  BY <1>1, <1>2

HeardNow(h, m) == [count |-> h.count + 1, minutes |-> h.minutes \cup OfToday(m)]

LEMMA HeardType ==
    ASSUME TimeTypeOK, NEW h \in Heard, NEW m \in 0 .. minute
    PROVE  HeardNow(h, m) \in Heard
<1>1. m \in 0 .. MaxMinute
  BY TimeAssumption DEF TimeTypeOK
<1>2. OfToday(m) \subseteq 0 .. MaxMinute
  BY <1>1 DEF OfToday
<1> QED  BY <1>2 DEF Heard, HeardNow

\* It is charged once, unless its minute was the last one charged.
LEMMA TalliedCharged ==
    ASSUME TimeTypeOK, NEW bank \in [Gadgets -> Entries \cup {None}], NEW d \in Gadgets,
           NEW h \in Heard, NEW m \in 0 .. minute, bank[d] # None, Charged(bank[d], h)
    PROVE  Charged(Tallied(bank, d, m)[d], HeardNow(h, m))
<1> DEFINE n == HeardNow(h, m)
<1>1. n.count = h.count + 1 /\ n.minutes = h.minutes \cup OfToday(m)
  BY DEF HeardNow
<1>2. h.count \in Nat /\ h.minutes \subseteq 0 .. MaxMinute
  BY DEF Heard
<1>3. IsFiniteSet(h.minutes) /\ Cardinality(h.minutes) \in Nat
  <2>1. IsFiniteSet(0 .. MaxMinute)
    BY FS_Interval, TimeAssumption
  <2> QED  BY <1>2, <2>1, FS_Subset, FS_CardinalityType
<1>4. bank[d] \in Entries /\ Today \in Nat /\ minute \in Nat
  BY TodayIsNat
<1>9. m \in Nat
  BY <1>4
<1>5. CASE m = bank[d].last
  <2>1. Tallied(bank, d, m)[d] = bank[d]
    BY <1>5 DEF Tallied
  <2>2. n.minutes = h.minutes
    BY <1>1, <1>5 DEF OfToday, Today, Charged
  <2>3. bank[d].used \in Nat
    BY <1>4 DEF Entries
  <2> HIDE DEF n
  <2>5. n.count = h.count + 1
    BY <1>1 DEF n
  <2>6. bank[d].period = Today => bank[d].used <= n.count
    BY <1>2, <2>3, <2>5 DEF Charged
  <2>4. Charged(bank[d], n)
    BY <2>2, <2>6, Zenon DEF Charged
  <2> QED  BY <2>1, <2>4 DEF n
<1>6. CASE m # bank[d].last
  <2> DEFINE r == Refreshed(bank)[d]
             e == [r EXCEPT !.used = @ + 1, !.last = m]
  <2>1. Tallied(bank, d, m)[d] = e
    <3>1. ~(bank[d] = None \/ m = bank[d].last)
      BY <1>6
    <3>2. Tallied(bank, d, m) = [Refreshed(bank) EXCEPT ![d].used = @ + 1, ![d].last = m]
      BY <3>1 DEF Tallied
    <3>3. Refreshed(bank) \in [Gadgets -> Entries \cup {None}]
      BY RefreshedType
    <3> DEFINE q == Refreshed(bank)
    <3> HIDE DEF q
    <3>4. [q EXCEPT ![d].used = @ + 1, ![d].last = m][d] = [q[d] EXCEPT !.used = @ + 1, !.last = m]
      BY <3>3 DEF q
    <3> QED  BY <3>2, <3>4 DEF q
  <2>2. r \in Entries /\ r.period = Today /\ Charged(r, h)
    BY RefreshedEntry, RefreshedCharged
  <2> HIDE DEF r
  <2>3. e.used = r.used + 1 /\ e.last = m /\ e.period = Today /\ e.daily = r.daily /\ r.used \in Nat
    <3>1. \A x : x = [r EXCEPT !.used = @ + 1, !.last = m] =>
             /\ x \in Entries /\ x.daily = r.daily /\ x.period = r.period
             /\ x.last = m /\ x.used = r.used + 1 /\ r.used \in Nat
      BY <1>9, <2>2, EntryCharged
    <3> QED  BY <2>2, <3>1
  <2> HIDE DEF e, n
  <2>4. e.daily > 0 /\ e.period <= Today /\ e.last <= minute /\ e.period = Today
    BY <1>4, <2>2, <2>3 DEF Charged
  <2>5. DateOf(e.last) = Today => e.last \in n.minutes
    BY <1>1, <2>3 DEF OfToday
  <2>6. e.used <= n.count
    BY <1>1, <1>2, <2>2, <2>3 DEF Charged
  <2>7. Cardinality(n.minutes) <= Cardinality(h.minutes) + 1
    <3>1. CASE OfToday(m) = {}
      BY <1>1, <1>3, <3>1
    <3>2. CASE OfToday(m) = {m}
      <4>1. n.minutes = h.minutes \cup {m}
        BY <1>1, <3>2 DEF n
      <4>2. Cardinality(h.minutes \cup {m}) \in {Cardinality(h.minutes), Cardinality(h.minutes) + 1}
        BY <1>3, FS_AddElement
      <4> QED  BY <1>3, <4>1, <4>2
    <3> QED  BY <3>1, <3>2 DEF OfToday
  <2>8. Cardinality(n.minutes) <= e.used
    <3>1. Cardinality(h.minutes) <= r.used
      BY <2>2 DEF Charged
    <3>2. n.minutes = h.minutes \/ n.minutes = h.minutes \cup {m}
      BY <1>1 DEF OfToday
    <3>3. IsFiniteSet(n.minutes)
      BY <1>3, <3>2, FS_AddElement
    <3>4. Cardinality(n.minutes) \in Nat
      BY <3>3, FS_CardinalityType
    <3> QED  BY <1>3, <2>3, <2>7, <3>1, <3>4
  <2> QED  BY <2>1, <2>4, <2>5, <2>6, <2>8 DEF Charged, n
<1> QED  BY <1>5, <1>6

\* What remains to be shown of a step within a minute.
LEMMA TimeInvWithin ==
    ASSUME TimeInv, TimeTypeOK', minute' = minute, heard' \in [Gadgets -> Heard],
           posts' \subseteq Gadgets \X (0 .. minute),
           \A d \in Gadgets : time_bank'[d] # None => Charged(time_bank'[d], heard'[d])
    PROVE  TimeInv'
  BY DEF TimeInv, Charged, Today

LEMMA TypeWithin ==
    ASSUME TimeTypeOK, time_bank' \in [Gadgets -> Entries \cup {None}],
           quotas' \in [Gadgets -> Nat \cup {None}], edits' \in 0 .. MaxEdits,
           quota_set' \subseteq Gadgets, UNCHANGED <<minute, usage_monthly, conntrack, reported>>
    PROVE  TimeTypeOK'
<1>1. reported' \in BOOLEAN
  BY DEF TimeTypeOK
<1> QED  BY <1>1, Zenon DEF TimeTypeOK

LEMMA BankChanges ==
    ASSUME TimeInv, NEW d \in Gadgets, NEW n \in Allowances,
           BankSet(d, n) \/ BankBonus(d, n)
    PROVE  TimeInv'
<1> USE TimeAssumption
<1>1. TimeTypeOK /\ time_bank \in [Gadgets -> Entries \cup {None}] /\ n \in Nat
      /\ heard \in [Gadgets -> Heard] /\ Today \in Nat /\ minute \in Nat
  BY TodayIsNat DEF TimeInv, TimeTypeOK
<1>2. CASE BankSet(d, n) /\ time_bank[d] = None
  <2> DEFINE e == [daily |-> n, period |-> Today, used |-> 0, bonus |-> 0, rolled |-> 0,
                   rollover |-> FALSE, cap |-> None, last |-> -1]
  <2>1. time_bank' = [time_bank EXCEPT ![d] = e] /\ heard' = [heard EXCEPT ![d] = NotHeard]
        /\ n > 0 /\ minute' = minute /\ posts' = posts
    BY <1>2 DEF BankSet, World
  <2>2. e \in Entries
    BY <1>1 DEF Entries
  <2>3. NotHeard \in Heard
    BY DEF Heard, NotHeard
  <2>4. Charged(e, NotHeard)
    <3>1. Cardinality({}) = 0
      BY FS_EmptySet
    <3>2. DateOf(-1) # Today
      <4>1. DayLength \in Nat /\ DayLength > 0
        OBVIOUS
      <4>2. (-1) \div DayLength < 0
        BY <4>1, Z3
      <4> QED  BY <1>1, <4>2 DEF DateOf
    <3> QED  BY <1>1, <2>1, <3>1, <3>2 DEF Charged, NotHeard
  <2> HIDE DEF e
  <2>5. time_bank' \in [Gadgets -> Entries \cup {None}] /\ heard' \in [Gadgets -> Heard]
    BY <1>1, <2>1, <2>2, <2>3
  <2>6. TimeTypeOK'
    BY <1>1, <1>2, <2>5 DEF TimeTypeOK, BankSet, World, Calls
  <2>7. ASSUME NEW g \in Gadgets, time_bank'[g] # None PROVE Charged(time_bank'[g], heard'[g])
    BY <1>1, <2>1, <2>4, <2>7 DEF TimeInv
  <2>8. posts' \subseteq Gadgets \X (0 .. minute)
    BY <2>1 DEF TimeInv
  <2> QED  BY <2>1, <2>5, <2>6, <2>7, <2>8, TimeInvWithin
<1>3. CASE BankSet(d, n) /\ time_bank[d] # None
  <2>1. time_bank' = [time_bank EXCEPT ![d].daily = n] /\ heard' = heard
        /\ n > 0 /\ minute' = minute /\ posts' = posts
    BY <1>3 DEF BankSet, World
  <2> DEFINE e == [time_bank[d] EXCEPT !.daily = n]
  <2>2. time_bank[d] \in Entries
    BY <1>1, <1>3
  <2>3. e \in Entries /\ e.daily = n /\ e.period = time_bank[d].period /\ e.last = time_bank[d].last
        /\ e.used = time_bank[d].used
    BY <1>1, <2>2 DEF Entries
  <2>4. time_bank' = [time_bank EXCEPT ![d] = e]
    BY <2>1
  <2> HIDE DEF e
  <2>5. time_bank' \in [Gadgets -> Entries \cup {None}]
    BY <1>1, <2>4, <2>3
  <2>6. TimeTypeOK'
    BY <1>1, <1>3, <2>5 DEF TimeTypeOK, BankSet, World, Calls
  <2>7. Charged(e, heard[d])
    BY <1>3, <2>1, <2>3 DEF Charged, TimeInv
  <2>8. ASSUME NEW g \in Gadgets, time_bank'[g] # None PROVE Charged(time_bank'[g], heard'[g])
    BY <1>1, <2>1, <2>4, <2>7, <2>8 DEF TimeInv
  <2>9. posts' \subseteq Gadgets \X (0 .. minute) /\ heard' \in [Gadgets -> Heard]
    BY <1>1, <2>1 DEF TimeInv
  <2> QED  BY <2>1, <2>6, <2>8, <2>9, TimeInvWithin
<1>5. CASE BankBonus(d, n)
  <2> DEFINE bank == Refreshed(time_bank)
  <2>1. bank \in [Gadgets -> Entries \cup {None}]
    BY <1>1, RefreshedType
  <2>2. time_bank' = (IF bank[d] = None THEN bank ELSE [bank EXCEPT ![d].bonus = @ + n])
        /\ heard' = heard /\ minute' = minute /\ posts' = posts
    BY <1>5 DEF BankBonus, World
  <2>3. \A g \in Gadgets : bank[g] # None => time_bank[g] # None /\ Charged(bank[g], heard[g])
    BY <1>1, RefreshedEntry, RefreshedCharged DEF TimeInv
  <2> HIDE DEF bank
  <2>4. time_bank' \in [Gadgets -> Entries \cup {None}]
        /\ \A g \in Gadgets : time_bank'[g] # None => Charged(time_bank'[g], heard[g])
    <3>1. CASE bank[d] = None
      BY <2>1, <2>2, <2>3, <3>1
    <3>2. CASE bank[d] # None
      <4> DEFINE e == [bank[d] EXCEPT !.bonus = bank[d].bonus + n]
      <4>1. bank[d] \in Entries
        BY <2>1, <3>2
      <4>2. e \in Entries /\ e.daily = bank[d].daily /\ e.period = bank[d].period
            /\ e.last = bank[d].last /\ e.used = bank[d].used
        BY <1>1, <4>1 DEF Entries
      <4>3. time_bank' = [bank EXCEPT ![d] = e]
        BY <2>2, <3>2
      <4> HIDE DEF e
      <4>4. Charged(e, heard[d])
        BY <2>3, <3>2, <4>2 DEF Charged
      <4> QED  BY <2>1, <2>3, <4>2, <4>3, <4>4
    <3> QED  BY <3>1, <3>2
  <2>5. TimeTypeOK'
    BY <1>1, <1>5, <2>4 DEF TimeTypeOK, BankBonus, World, Calls
  <2>6. posts' \subseteq Gadgets \X (0 .. minute) /\ heard' \in [Gadgets -> Heard]
    BY <1>1, <2>2 DEF TimeInv
  <2> QED  BY <2>2, <2>4, <2>5, <2>6, TimeInvWithin
<1> QED  BY <1>2, <1>3, <1>5

LEMMA BankForgets ==
    ASSUME TimeInv, NEW d \in Gadgets, BankDelete(d) \/ Forget(d)
    PROVE  TimeInv'
<1>1. TimeTypeOK /\ time_bank \in [Gadgets -> Entries \cup {None}] /\ heard \in [Gadgets -> Heard]
  BY DEF TimeInv, TimeTypeOK
<1>2. time_bank' = [time_bank EXCEPT ![d] = None] /\ heard' = heard
      /\ minute' = minute /\ posts' = posts
  BY DEF BankDelete, Forget, World
<1>3. time_bank' \in [Gadgets -> Entries \cup {None}]
  BY <1>1, <1>2
<1>4. quotas' \in [Gadgets -> Nat \cup {None}]
  BY <1>1 DEF TimeTypeOK, BankDelete, Forget
<1>5. TimeTypeOK'
  <2>1. edits' \in 0 .. MaxEdits /\ quota_set' \subseteq Gadgets
    BY <1>1, TimeAssumption DEF TimeTypeOK, BankDelete, Forget, World, Calls
  <2>2. UNCHANGED <<minute, usage_monthly, conntrack, reported>>
    BY DEF BankDelete, Forget, World
  <2> QED  BY <1>1, <1>3, <1>4, <2>1, <2>2, TypeWithin
<1>6. ASSUME NEW g \in Gadgets, time_bank'[g] # None PROVE Charged(time_bank'[g], heard'[g])
  BY <1>1, <1>2, <1>6 DEF TimeInv
<1>7. posts' \subseteq Gadgets \X (0 .. minute) /\ heard' \in [Gadgets -> Heard]
  BY <1>1, <1>2 DEF TimeInv
<1> QED  BY <1>2, <1>5, <1>6, <1>7, TimeInvWithin

LEMMA RolloverChanges ==
    ASSUME TimeInv, NEW d \in Gadgets, NEW choice \in BOOLEAN, NEW cap \in Allowances \cup {None},
           BankRollover(d, choice, cap)
    PROVE  TimeInv'
<1> USE TimeAssumption
<1>1. TimeTypeOK /\ time_bank \in [Gadgets -> Entries \cup {None}] /\ time_bank[d] # None
      /\ heard \in [Gadgets -> Heard] /\ minute' = minute /\ heard' = heard /\ posts' = posts
  BY DEF TimeInv, TimeTypeOK, BankRollover, World
<1> DEFINE c == IF cap # None THEN cap ELSE Cap(time_bank[d])
           e == [time_bank[d] EXCEPT !.rollover = choice, !.cap = c]
<1>2. time_bank[d] \in Entries
  BY <1>1
<1>3. c \in Nat \cup {None}
  BY <1>2 DEF Cap, Entries
<1>4. time_bank' = [time_bank EXCEPT ![d] = e]
  BY <1>1 DEF BankRollover
<1> HIDE DEF c
<1>5. e \in Entries /\ e.daily = time_bank[d].daily /\ e.period = time_bank[d].period
      /\ e.last = time_bank[d].last /\ e.used = time_bank[d].used
  BY <1>2, <1>3 DEF Entries
<1> HIDE DEF e
<1>6. time_bank' \in [Gadgets -> Entries \cup {None}]
  BY <1>1, <1>4, <1>5
<1>7. TimeTypeOK'
  BY <1>1, <1>6 DEF TimeTypeOK, BankRollover, World, Calls
<1>8. Charged(e, heard[d])
  BY <1>1, <1>5 DEF Charged, TimeInv
<1>9. ASSUME NEW g \in Gadgets, time_bank'[g] # None PROVE Charged(time_bank'[g], heard'[g])
  BY <1>1, <1>4, <1>8, <1>9 DEF TimeInv
<1> QED  BY <1>1, <1>7, <1>9, TimeInvWithin DEF TimeInv

\* A page or the box looks at the day.
LEMMA DayLookedAt ==
    ASSUME TimeInv, BankView \/ PolicyFetched
    PROVE  TimeInv'
<1>1. TimeTypeOK /\ time_bank \in [Gadgets -> Entries \cup {None}]
      /\ heard \in [Gadgets -> Heard] /\ minute' = minute /\ heard' = heard /\ posts' = posts
      /\ time_bank' = Refreshed(time_bank)
  BY DEF TimeInv, TimeTypeOK, BankView, PolicyFetched, World
<1>2. time_bank' \in [Gadgets -> Entries \cup {None}]
  BY <1>1, RefreshedType
<1>3. TimeTypeOK'
  <2>1. edits' \in 0 .. MaxEdits /\ quotas' \in [Gadgets -> Nat \cup {None}]
    BY <1>1 DEF TimeTypeOK, BankView, PolicyFetched, World, Usage
  <2>3. quota_set' = quota_set \/ quota_set' \subseteq Gadgets
    BY DEF BankView, PolicyFetched, World
  <2>4. quota_set' \subseteq Gadgets
    BY <1>1, <2>3 DEF TimeTypeOK
  <2>2. UNCHANGED <<minute, usage_monthly, conntrack, reported>>
    BY DEF BankView, PolicyFetched, World
  <2> QED  BY <1>1, <1>2, <2>1, <2>2, <2>4, TypeWithin
<1>4. ASSUME NEW g \in Gadgets, time_bank'[g] # None PROVE Charged(time_bank'[g], heard'[g])
  <2>1. time_bank[g] # None
    BY <1>1, <1>4, RefreshedEntry
  <2> QED  BY <1>1, <2>1, RefreshedCharged DEF TimeInv
<1> QED  BY <1>1, <1>3, <1>4, TimeInvWithin DEF TimeInv

LEMMA FlowArrives ==
    ASSUME TimeInv, NEW p \in posts, SniArrives(p)
    PROVE  TimeInv'
<1> DEFINE d == p[1]
           m == p[2]
<1>1. TimeTypeOK /\ time_bank \in [Gadgets -> Entries \cup {None}]
      /\ heard \in [Gadgets -> Heard] /\ minute' = minute /\ d \in Gadgets /\ m \in 0 .. minute
      /\ minute \in Nat
  BY TodayIsNat DEF TimeInv, TimeTypeOK, SniArrives
<1>2. time_bank' = Tallied(time_bank, d, m) /\ heard' = Hears(d, m) /\ posts' = posts \ {p}
  BY DEF SniArrives
<1> HIDE DEF d, m
<1>3. m \in Nat
  BY <1>1
<1>4. time_bank' \in [Gadgets -> Entries \cup {None}]
  BY <1>1, <1>2, <1>3, TalliedType
<1>5. TimeTypeOK'
  BY <1>1, <1>4 DEF TimeTypeOK, SniArrives, Usage
<1>6. CASE time_bank[d] = None
  <2>1. time_bank' = time_bank /\ heard' = heard
    BY <1>2, <1>6 DEF Tallied, Hears
  <2>2. ASSUME NEW g \in Gadgets, time_bank'[g] # None PROVE Charged(time_bank'[g], heard'[g])
    BY <2>1, <2>2 DEF TimeInv
  <2> QED  BY <1>1, <1>2, <1>5, <2>1, <2>2, TimeInvWithin DEF TimeInv
<1>7. CASE time_bank[d] # None
  <2>1. heard' = [heard EXCEPT ![d] = HeardNow(heard[d], m)]
    BY <1>1, <1>2, <1>7 DEF Hears, HeardNow
  <2>2. HeardNow(heard[d], m) \in Heard
    BY <1>1, HeardType
  <2>3. heard' \in [Gadgets -> Heard]
    BY <1>1, <2>1, <2>2
  <2>4. ASSUME NEW g \in Gadgets, time_bank'[g] # None PROVE Charged(time_bank'[g], heard'[g])
    <3>1. CASE g = d
      <4>1. Charged(time_bank[d], heard[d]) /\ heard[d] \in Heard
        BY <1>1, <1>7 DEF TimeInv
      <4>2. Charged(Tallied(time_bank, d, m)[d], HeardNow(heard[d], m))
        BY <1>1, <1>7, <4>1, TalliedCharged
      <4> QED  BY <1>1, <1>2, <2>1, <3>1, <4>2
    <3>2. CASE g # d
      <4>1. time_bank'[g] \in {time_bank[g], Refreshed(time_bank)[g]} /\ heard'[g] = heard[g]
        BY <1>1, <1>2, <1>3, <2>1, <3>2, TalliedType
      <4>2. time_bank[g] # None
        BY <1>1, <2>4, <4>1, RefreshedEntry
      <4>3. Charged(time_bank[g], heard[g]) /\ heard[g] \in Heard
        BY <1>1, <4>2 DEF TimeInv
      <4>4. Charged(Refreshed(time_bank)[g], heard[g])
        BY <1>1, <4>2, <4>3, RefreshedCharged
      <4> QED  BY <4>1, <4>3, <4>4
    <3> QED  BY <3>1, <3>2
  <2> QED  BY <1>1, <1>2, <1>5, <2>3, <2>4, TimeInvWithin DEF TimeInv
<1> QED  BY <1>6, <1>7

\* The report of the agent: one flow for each connection that is listed.
LEMMA ReportArrives ==
    ASSUME TimeInv, Report(TRUE)
    PROVE  TimeInv'
<1> DEFINE seen == \E g \in Listed : Tallied(time_bank, g, minute) # time_bank
           bank == IF seen THEN Refreshed(time_bank) ELSE time_bank
<1>1. TimeTypeOK /\ time_bank \in [Gadgets -> Entries \cup {None}]
      /\ heard \in [Gadgets -> Heard] /\ minute' = minute /\ posts' = posts
      /\ minute \in Nat /\ minute \in 0 .. minute
  BY TodayIsNat DEF TimeInv, TimeTypeOK, Report
<1>2. /\ time_bank' = [d \in Gadgets |-> IF d \in Listed THEN Tallied(bank, d, minute)[d] ELSE bank[d]]
      /\ heard' = [d \in Gadgets |-> IF d \in Listed THEN Hears(d, minute)[d] ELSE heard[d]]
  BY DEF Report
<1>3. bank \in [Gadgets -> Entries \cup {None}]
      /\ \A d \in Gadgets : /\ bank[d] # None <=> time_bank[d] # None
                            /\ bank[d] # None => Charged(bank[d], heard[d])
  <2>1. Refreshed(time_bank) \in [Gadgets -> Entries \cup {None}]
    BY <1>1, RefreshedType
  <2>2. \A d \in Gadgets : /\ Refreshed(time_bank)[d] # None <=> time_bank[d] # None
                           /\ time_bank[d] # None => Charged(Refreshed(time_bank)[d], heard[d])
                           /\ time_bank[d] # None => Charged(time_bank[d], heard[d])
    BY <1>1, RefreshedEntry, RefreshedCharged DEF TimeInv
  <2> QED  BY <1>1, <2>1, <2>2
<1> HIDE DEF bank, seen
<1>4. ASSUME NEW d \in Gadgets PROVE Tallied(bank, d, minute)[d] \in Entries \cup {None}
  <2>1. Tallied(bank, d, minute) \in [Gadgets -> Entries \cup {None}]
    BY <1>1, <1>3, TalliedType, Zenon
  <2> QED  BY <2>1
<1>5. time_bank' \in [Gadgets -> Entries \cup {None}]
  BY <1>2, <1>3, <1>4
<1>6. ASSUME NEW d \in Gadgets
      PROVE  /\ heard'[d] \in Heard
             /\ time_bank'[d] # None => Charged(time_bank'[d], heard'[d])
  <2>1. CASE d \notin Listed
    BY <1>1, <1>2, <1>3, <2>1
  <2>2. CASE d \in Listed /\ time_bank[d] = None
    <3>1. heard'[d] = heard[d]
      BY <1>2, <2>2 DEF Hears
    <3>2. time_bank'[d] = None
      BY <1>2, <1>3, <2>2 DEF Tallied
    <3> QED  BY <1>1, <3>1, <3>2
  <2>3. CASE d \in Listed /\ time_bank[d] # None
    <3>1. heard'[d] = HeardNow(heard[d], minute)
      BY <1>1, <1>2, <2>3 DEF Hears, HeardNow
    <3>2. heard[d] \in Heard /\ bank[d] # None /\ Charged(bank[d], heard[d])
      BY <1>1, <1>3, <2>3
    <3>3. Charged(Tallied(bank, d, minute)[d], HeardNow(heard[d], minute))
      BY <1>1, <1>3, <3>2, TalliedCharged
    <3>4. time_bank'[d] = Tallied(bank, d, minute)[d]
      BY <1>2, <2>3
    <3>5. heard'[d] \in Heard
      BY <1>1, <3>1, <3>2, HeardType
    <3> QED  BY <3>1, <3>3, <3>4, <3>5
  <2> QED  BY <2>1, <2>2, <2>3
<1>7. heard' \in [Gadgets -> Heard]
  <2>1. heard' = [d \in Gadgets |-> heard'[d]]
    BY <1>2
  <2> QED  BY <1>6, <2>1
<1>8. usage_monthly' \in [Gadgets -> [Months -> 0 .. MaxBytes]]
  <2>1. usage_monthly' = [d \in Gadgets |->
                   [usage_monthly[d] EXCEPT ![Month] = Least(usage_monthly[d][Month] + conntrack[d], MaxBytes)]]
    BY DEF Report
  <2>2. ASSUME NEW d \in Gadgets
        PROVE  [usage_monthly[d] EXCEPT ![Month] = Least(usage_monthly[d][Month] + conntrack[d], MaxBytes)]
                  \in [Months -> 0 .. MaxBytes]
    <3> DEFINE u == usage_monthly[d]
               x == Least(u[Month] + conntrack[d], MaxBytes)
    <3>1. u \in [Months -> 0 .. MaxBytes] /\ conntrack[d] \in 0 .. MaxBytes /\ MaxBytes \in Nat
      BY <1>1, TimeAssumption DEF TimeTypeOK
    <3> HIDE DEF u
    <3>2. Month \in Months => u[Month] \in 0 .. MaxBytes
      BY <3>1
    <3>3. Month \in Months => x \in 0 .. MaxBytes
      BY <3>1, <3>2 DEF Least
    <3> HIDE DEF x
    <3>4. [u EXCEPT ![Month] = x] \in [Months -> 0 .. MaxBytes]
      BY <3>1, <3>3
    <3> QED  BY <3>4 DEF x, u
  <2> QED  BY <2>1, <2>2
<1>9. TimeTypeOK'
  <2>1. reported' = TRUE /\ conntrack' = conntrack /\ quota_set' = quota_set /\ quotas' = quotas
        /\ edits' = edits
    BY DEF Report, Usage
  <2> QED  BY <1>1, <1>5, <1>8, <2>1 DEF TimeTypeOK
<1> QED  BY <1>1, <1>6, <1>7, <1>9, TimeInvWithin DEF TimeInv

\* What touches no entry.
LEMMA OthersStay ==
    ASSUME TimeInv,
           \/ \E d \in Gadgets : \/ QuotaDelete(d) \/ Traffic(d) \/ ConnectionGone(d) \/ SniPost(d)
                                 \/ \E n \in Allowances : QuotaSet(d, n)
           \/ Report(FALSE)
           \/ \E p \in posts : SniLost(p)
    PROVE  TimeInv'
<1> USE TimeAssumption
<1>1. minute' = minute /\ time_bank' = time_bank /\ heard' = heard
  BY DEF QuotaDelete, Traffic, ConnectionGone, SniPost, QuotaSet, Report, SniLost, World
<1>2. TimeTypeOK /\ minute \in Nat
  BY TodayIsNat DEF TimeInv
<1>3. posts' \subseteq Gadgets \X (0 .. minute)
  BY <1>2 DEF TimeInv, QuotaDelete, Traffic, ConnectionGone, SniPost, QuotaSet, Report, SniLost, World
<1>4. quotas' \in [Gadgets -> Nat \cup {None}]
  BY <1>2 DEF TimeTypeOK, QuotaDelete, Traffic, ConnectionGone, SniPost, QuotaSet, Report, SniLost, World,
              Usage
<1>5. conntrack' \in [Gadgets -> 0 .. MaxBytes]
  BY <1>2 DEF TimeTypeOK, QuotaDelete, Traffic, ConnectionGone, SniPost, QuotaSet, Report, SniLost, World
<1>6. edits' \in 0 .. MaxEdits
  BY <1>2 DEF TimeTypeOK, QuotaDelete, Traffic, ConnectionGone, SniPost, QuotaSet, Report, SniLost, Calls,
              Usage
<1>7. usage_monthly' = usage_monthly /\ quota_set' = quota_set
  BY DEF QuotaDelete, Traffic, ConnectionGone, SniPost, QuotaSet, Report, SniLost, World
<1>8. reported' \in BOOLEAN
  <2>1. reported' = TRUE \/ reported' = reported
    BY DEF QuotaDelete, Traffic, ConnectionGone, SniPost, QuotaSet, Report, SniLost, World
  <2> QED  BY <1>2, <2>1 DEF TimeTypeOK
<1>9. TimeTypeOK'
  BY <1>1, <1>2, <1>4, <1>5, <1>6, <1>7, <1>8 DEF TimeTypeOK
<1> QED  BY <1>1, <1>3, <1>9, TimeInvWithin DEF TimeInv

\* A new day finds nobody heard, and no entry that anybody looked at.
LEMMA ClockTicks == ASSUME TimeInv, Tick PROVE TimeInv'
<1> USE TimeAssumption
<1>1. /\ minute \in Nat /\ Today \in Nat /\ minute' = minute + 1 /\ minute' \in 0 .. MaxMinute
      /\ time_bank' = time_bank /\ posts' = posts /\ TimeTypeOK
      /\ time_bank \in [Gadgets -> Entries \cup {None}] /\ heard \in [Gadgets -> Heard]
  BY TodayIsNat DEF Tick, TimeInv, TimeTypeOK
<1>2. DayLength \in Nat /\ DayLength > 0
  OBVIOUS
<1>3. Today' \in Nat /\ Today <= Today'
  <2>1. (minute + 1) \div DayLength \in Nat /\ minute \div DayLength <= (minute + 1) \div DayLength
    BY <1>1, <1>2, Z3
  <2> QED  BY <1>1, <2>1 DEF Today, DateOf
<1>4. reported' \in BOOLEAN
  BY DEF Tick
<1>5. TimeTypeOK'
  BY <1>1, <1>4 DEF TimeTypeOK, Tick, Usage
<1>6. heard' = (IF Today' # Today THEN [d \in Gadgets |-> NotHeard] ELSE heard)
  BY DEF Tick, Today
<1>7. heard' \in [Gadgets -> Heard]
  BY <1>1, <1>6 DEF Heard, NotHeard
<1>8. posts' \subseteq Gadgets \X (0 .. minute')
  <2>1. 0 .. minute \subseteq 0 .. minute'
    BY <1>1
  <2> QED  BY <1>1, <2>1 DEF TimeInv
<1>9. ASSUME NEW d \in Gadgets, time_bank'[d] # None
      PROVE  LET e == time_bank'[d]
                 h == heard'[d]
             IN  /\ e.daily > 0 /\ e.period <= Today' /\ e.last <= minute'
                 /\ DateOf(e.last) = Today' => e.last \in h.minutes
                 /\ e.period = Today' => Cardinality(h.minutes) <= e.used /\ e.used <= h.count
                 /\ e.period # Today' => h.minutes = {}
  <2> DEFINE e == time_bank[d]
  <2>1. e \in Entries /\ Charged(e, heard[d])
    BY <1>1, <1>9 DEF TimeInv
  <2>2. e.period \in Nat /\ e.last \in Int /\ e.used \in Nat
    BY <2>1 DEF Entries
  <2> HIDE DEF e
  <2>3. CASE Today' = Today
    <3>1. heard' = heard
      BY <1>6, <2>3
    <3> QED  BY <1>1, <2>1, <2>2, <2>3, <3>1 DEF Charged, e
  <2>4. CASE Today' # Today
    <3>1. heard'[d] = NotHeard
      BY <1>6, <2>4
    <3>2. e.daily > 0 /\ e.period <= Today /\ e.last <= minute
      BY <2>1 DEF Charged
    <3>3. e.period < Today'
      BY <1>1, <1>3, <2>2, <2>4, <3>2
    <3>4. DateOf(e.last) # Today'
      <4>1. e.last \div DayLength <= minute \div DayLength
        BY <1>1, <1>2, <2>2, <3>2, Z3
      <4> QED  BY <1>1, <1>3, <2>4, <4>1 DEF Today, DateOf
    <3>5. e.last <= minute'
      BY <1>1, <2>2, <3>2
    <3> QED  BY <1>1, <1>3, <2>2, <3>1, <3>2, <3>3, <3>4, <3>5 DEF NotHeard, e
  <2> QED  BY <2>3, <2>4
<1> QED  BY <1>5, <1>7, <1>8, <1>9 DEF TimeInv, Charged

LEMMA TimeStep == TimeInv /\ [TimeNext]_timeVars => TimeInv'
<1> SUFFICES ASSUME TimeInv, [TimeNext]_timeVars PROVE TimeInv'
  OBVIOUS
<1>1. CASE UNCHANGED timeVars
  BY <1>1 DEF timeVars, TimeInv, TimeTypeOK, Charged, Today
<1>2. ASSUME NEW d \in Gadgets, NEW n \in Allowances,
             BankSet(d, n) \/ BankBonus(d, n) \/ QuotaSet(d, n)
      PROVE  TimeInv'
  BY <1>2, BankChanges, OthersStay
<1>3. ASSUME NEW d \in Gadgets, NEW choice \in BOOLEAN, NEW cap \in Allowances \cup {None},
             BankRollover(d, choice, cap)
      PROVE  TimeInv'
  BY <1>3, RolloverChanges
<1>4. ASSUME NEW d \in Gadgets,
             BankDelete(d) \/ QuotaDelete(d) \/ Forget(d) \/ Traffic(d) \/ ConnectionGone(d) \/ SniPost(d)
      PROVE  TimeInv'
  BY <1>4, BankForgets, OthersStay
<1>5. ASSUME NEW arrives \in BOOLEAN, Report(arrives) PROVE TimeInv'
  BY <1>5, ReportArrives, OthersStay
<1>6. ASSUME NEW p \in posts, SniArrives(p) \/ SniLost(p) PROVE TimeInv'
  BY <1>6, FlowArrives, OthersStay
<1>7. CASE BankView \/ PolicyFetched
  BY <1>7, DayLookedAt
<1>8. CASE Tick
  BY <1>8, ClockTicks
<1>9. CASE TimeNext
  BY <1>2, <1>3, <1>4, <1>5, <1>6, <1>7, <1>8, <1>9 DEF TimeNext
<1> QED  BY <1>1, <1>9

LEMMA TimeInitial == TimeInit => TimeInv
<1> SUFFICES ASSUME TimeInit PROVE TimeInv
  OBVIOUS
<1> USE TimeAssumption
<1>1. minute = 0 /\ posts = {}
  BY DEF TimeInit
<1>2. heard \in [Gadgets -> Heard]
  BY DEF TimeInit, Heard, NotHeard
<1>3. \A d \in Gadgets : time_bank[d] = None
  BY DEF TimeInit
<1>4. usage_monthly \in [Gadgets -> [Months -> 0 .. MaxBytes]]
  BY DEF TimeInit
<1>5. TimeTypeOK
  <2>1. minute \in 0 .. MaxMinute /\ edits \in 0 .. MaxEdits /\ conntrack \in [Gadgets -> 0 .. MaxBytes]
        /\ quota_set \subseteq Gadgets
    BY DEF TimeInit
  <2>2. time_bank \in [Gadgets -> Entries \cup {None}] /\ quotas \in [Gadgets -> Nat \cup {None}]
    BY DEF TimeInit
  <2>3. reported \in BOOLEAN
    BY DEF TimeInit
  <2> QED  BY <1>4, <2>1, <2>2, <2>3, Zenon DEF TimeTypeOK
<1> QED  BY <1>1, <1>2, <1>3, <1>5 DEF TimeInv

LEMMA MinutesFollow == TimeInv => TimeTypeOK /\ MinutesCharged
  BY DEF TimeInv, MinutesCharged, Charged, Heard

\* The allowance of a device that is stopped for its minutes is spent, and every minute that was
\* spent today was heard today.
LEMMA StoppedFollows ==
    ASSUME TimeInv, PolicyFetched, NEW d \in Gadgets, stoppedFor'[d] = "minutes"
    PROVE  heard[d].count >= time_bank[d].daily
<1>1. Spent(time_bank'[d]) /\ time_bank' = Refreshed(time_bank)
  <2>1. None # "minutes"
    BY TimeAssumption
  <2> QED  BY <2>1 DEF PolicyFetched
<1>2. TimeTypeOK /\ time_bank \in [Gadgets -> Entries \cup {None}] /\ heard[d] \in Heard
  BY DEF TimeInv, TimeTypeOK
<1>3. time_bank'[d] # None /\ time_bank'[d].used >= Budget(time_bank'[d])
  BY <1>1 DEF Spent
<1> DEFINE e == time_bank[d]
           r == time_bank'[d]
<1>4. e # None /\ r \in Entries /\ r.daily = e.daily /\ r.period = Today
  BY <1>1, <1>2, <1>3, RefreshedEntry
<1>5. Charged(e, heard[d])
  BY <1>4 DEF TimeInv
<1>6. Charged(r, heard[d])
  BY <1>1, <1>2, <1>4, <1>5, RefreshedCharged
<1> HIDE DEF e, r
<1>7. r.used <= heard[d].count
  BY <1>4, <1>6 DEF Charged
<1>8. Budget(r) >= r.daily /\ r.used \in Nat /\ r.daily \in Nat /\ Budget(r) \in Nat
  BY <1>4 DEF Budget, Entries
<1>9. heard[d].count \in Nat
  BY <1>2 DEF Heard
<1> QED  BY <1>3, <1>4, <1>7, <1>8, <1>9 DEF e, r

LEMMA TimeRuns == TimeInv /\ [Next]_householdVars => TimeInv'
<1> SUFFICES ASSUME TimeInv, [Next]_householdVars PROVE TimeInv'
  OBVIOUS
<1>1. TimeNext \/ UNCHANGED timeVars
  BY DEF Next, Time, AlarmStep, Mailing, FlowSeen, DailyUse, Network, VpnServing, VpnUse, Shape,
         householdVars
<1> QED  BY <1>1, TimeStep

\* In whatever order the flows of a device arrive, and whatever its parents, pages and policies do
\* in between, each minute of today it was heard in is charged; and a policy stops it only when it
\* was heard today at least as often as it is allowed minutes (timeBankResetIfNew, tallyTimeBank,
\* GET box/policy): for any devices, allowances and lengths of a day.
THEOREM DayCorrect == Spec => DayCharged
<1>1. Init => TimeInv
  BY TimeInitial DEF Init
<1>2. TimeInv => TimeTypeOK /\ MinutesCharged
  BY MinutesFollow
<1> DEFINE Stops == \A d \in Gadgets : PolicyFetched /\ stoppedFor'[d] = "minutes" =>
                        heard[d].count >= time_bank[d].daily
<1>3. TimeInv => Stops
  BY StoppedFollows
<1>4. TimeInv /\ [Next]_householdVars => [Stops]_timeVars
  BY <1>3
<1> HIDE DEF Stops
<1>5. Spec => [](TimeTypeOK /\ MinutesCharged) /\ [][Stops]_timeVars
  BY <1>1, <1>2, <1>4, TimeRuns, PTL DEF Spec
<1> QED  BY <1>5 DEF DayCharged, StoppedForToday, Stops

-----------------------------------------------------------------------------
(* NetworkMode                                                             *)

LEMMA ModeInitial == ModeInit => ModeInv
<1> SUFFICES ASSUME ModeInit PROVE ModeInv
  OBVIOUS
<1> USE NoneIsNothing
<1>1. ModeTypeOK
  <2>1. addr \in [Links -> 0 .. 2]
    BY DEF ModeInit
  <2>2. mode_orders \in Seq(Orders)
    BY DEF ModeInit
  <2>3. /\ router \in [enabled : BOOLEAN, wan : Links \cup {None}, lan : Links \cup {None}]
        /\ strayed \in BOOLEAN
    BY DEF ModeInit, NoRouter
  <2> QED  BY <2>1, <2>2, <2>3 DEF ModeInit, ModeTypeOK, Modes, Links, Ports
<1>2. OnCourse
  <2> DEFINE p == [i \in 0 .. 0 |-> "peer"]
  <2>1. Len(mode_orders) = 0 /\ mode = "peer"
    BY DEF ModeInit
  <2>2. RunsMode("peer")
    BY DEF ModeInit, RunsMode, NoRouter, Forwarded
  <2>3. p \in [0 .. 0 -> Modes] /\ p[0] = "peer"
    BY DEF Modes
  <2> HIDE DEF p
  <2> QED  BY <2>1, <2>2, <2>3 DEF OnCourse, Course
<1>3. SnapshotSound /\ NeverStranded /\ RulesOnRecord
  BY DEF ModeInit, SnapshotSound, NeverStranded, RulesOnRecord, Links, Ports
<1> QED  BY <1>1, <1>2, <1>3 DEF ModeInit, ModeInv

\* What an order may do to the state that a mode of the box owns.
LEMMA SimpleType ==
    ASSUME ModeTypeOK, SimpleStarts \/ SimpleStops \/ SimpleRescans
    PROVE  /\ simple' \in BOOLEAN /\ spoofing' \in BOOLEAN /\ strayed' \in BOOLEAN
           /\ sysctls' \subseteq {"simple", "router"} /\ leftovers' \subseteq Unremoved
  BY DEF SimpleStarts, SimpleStops, SimpleRescans, SimpleRuns, simpleSide, ModeTypeOK, Unremoved

LEMMA ConfType ==
    ASSUME ModeTypeOK, NEW l \in Links, NEW b \in BOOLEAN
    PROVE  DhcpConf(l, b) \in Confs /\ DhcpConf(l, b) # None
  BY NoneIsNothing DEF DhcpConf, Confs

LEMMA DhcpType ==
    ASSUME ModeTypeOK, DhcpStarts \/ DhcpStops
    PROVE  conf' \in Confs \cup {None} /\ strayed' \in BOOLEAN
<1>1. CASE DhcpStarts
  BY <1>1, ConfType DEF DhcpStarts, ModeTypeOK, Links
<1>2. CASE DhcpStops
  BY <1>2 DEF DhcpStops, DhcpOff, ModeTypeOK
<1> QED  BY <1>1, <1>2

LEMMA RouterType ==
    ASSUME ModeTypeOK, NEW w \in Links \cup {None}, NEW l \in Links \cup {None},
           RouterOn(w, l) \/ RouterStops
    PROVE  /\ router' \in [enabled : BOOLEAN, wan : Links \cup {None}, lan : Links \cup {None}]
           /\ sysctls' \subseteq {"simple", "router"}
           /\ conf' \in Confs \cup {None}
           /\ strayed' \in BOOLEAN /\ relocated' \in BOOLEAN
<1>1. CASE RouterOn(w, l)
  <2>1. CASE "dnsmasq" \notin tools \/ w = None \/ l = None
    BY <1>1, <2>1 DEF RouterOn, ModeTypeOK, routerSide
  <2>2. CASE ~("dnsmasq" \notin tools \/ w = None \/ l = None)
    <3>1. conf' = DhcpConf(l, TRUE) \/ conf' = conf
      BY <1>1, <2>2 DEF RouterOn
    <3>2. conf' \in Confs \cup {None}
      BY <2>2, <3>1, ConfType DEF ModeTypeOK
    <3>3. /\ router' = [enabled |-> TRUE, wan |-> w, lan |-> l]
          /\ sysctls' = sysctls \cup {"router"} /\ relocated' \in BOOLEAN
          /\ strayed' = TRUE \/ strayed' = strayed
      BY <1>1, <2>2 DEF RouterOn
    <3> QED  BY <3>2, <3>3 DEF ModeTypeOK
  <2> QED  BY <2>1, <2>2
<1>2. CASE RouterStops
  BY <1>2 DEF RouterStops, DhcpOff, ModeTypeOK
<1> QED  BY <1>1, <1>2

LEMMA RuntimeType == [blocked |-> TRUE] \in Runtimes /\ [blocked |-> FALSE] \in Runtimes
  BY DEF Runtimes

LEMMA BridgeType ==
    ASSUME ModeTypeOK, BridgeStarts \/ BridgeFlushed \/ BridgeBlocks \/ BridgeStops
    PROVE  /\ bridge_snapshot' \in Snapshots \cup {None}
           /\ runtime' \in Runtimes \cup {None}
           /\ members' \in (SUBSET Ports) \cup {None}
           /\ addr' \in [Links -> 0 .. 2] /\ route' \in Links \cup {None}
           /\ dropped' \in BOOLEAN /\ leftovers' \subseteq Unremoved
<1> USE NoneIsNothing
<1>1. CASE BridgeStarts
  <2>1. AsItIs \in Snapshots
    BY DEF AsItIs, Snapshots, ModeTypeOK, Links
  <2>2. bridge_snapshot' \in Snapshots \cup {None}
    BY <1>1, <2>1 DEF BridgeStarts, SnapshotTaken, ModeTypeOK
  <2>3. runtime' \in Runtimes \cup {None}
    BY <1>1, RuntimeType DEF BridgeStarts, ModeTypeOK
  <2>4. members' \in (SUBSET Ports) \cup {None}
    BY <1>1 DEF BridgeStarts, ModeTypeOK, Now, Joining, Ports
  <2>5. addr' \in [Links -> 0 .. 2] /\ route' \in Links \cup {None}
    BY <1>1 DEF BridgeStarts, ModeTypeOK, Flushed, RouteWithout
  <2>6. dropped' \in BOOLEAN /\ leftovers' \subseteq Unremoved
    BY <1>1 DEF BridgeStarts, ModeTypeOK, Unremoved
  <2> QED  BY <2>2, <2>3, <2>4, <2>5, <2>6
<1>2. CASE BridgeBlocks
  BY <1>2, RuntimeType DEF BridgeBlocks, ModeTypeOK
<1>3. CASE BridgeStops
  <2>1. bridge_snapshot' = bridge_snapshot /\ runtime' = None /\ members' = None /\ dropped' = FALSE
        /\ leftovers' = leftovers
    BY <1>3 DEF BridgeStops
  <2>2. addr' \in [Links -> 0 .. 2] /\ route' \in Links \cup {None}
    <3>1. CASE bridge_snapshot # None
      <4>1. bridge_snapshot \in Snapshots
        BY <3>1 DEF ModeTypeOK
      <4>2. Restored(bridge_snapshot) \in [Links -> 0 .. 2]
        BY <4>1 DEF Restored, Snapshots, ModeTypeOK, Links, Ports
      <4>3. bridge_snapshot.route \in Links \cup {None}
        BY <4>1 DEF Snapshots
      <4> QED  BY <1>3, <3>1, <4>2, <4>3 DEF BridgeStops, ModeTypeOK
    <3>2. CASE bridge_snapshot = None
      BY <1>3, <3>2 DEF BridgeStops, ModeTypeOK, Links
    <3> QED  BY <3>1, <3>2
  <2> QED  BY <2>1, <2>2 DEF ModeTypeOK
<1>4. CASE BridgeFlushed
  BY <1>4 DEF BridgeFlushed, ModeTypeOK, Links
<1> QED  BY <1>1, <1>2, <1>3, <1>4

\* The ports that a router is given are links of the box.
LEMMA PortsAreLinks ==
    ASSUME ModeTypeOK
    PROVE  /\ ports \cup {route} \subseteq Links \cup {None}
           /\ ports \cup Lans \subseteq Links \cup {None}
  BY DEF ModeTypeOK, Lans, Routed, Links, Ports

LEMMA ModeTypeStep == ASSUME ModeTypeOK, SnapshotSound, NeverStranded, ModeNext PROVE ModeTypeOK'
<1> USE NoneIsNothing
<1>1. CASE Wizard
  <2>1. PICK m \in Modes : mode' = m /\ mode_orders' = mode_orders \o StopOld(mode) \o StartNew(m)
    BY <1>1 DEF Wizard
  <2>2. StopOld(mode) \in Seq(Orders) /\ StartNew(m) \in Seq(Orders)
    <3>1. Stop(mode) \in Orders /\ Start(m) \in Orders
      BY DEF ModeTypeOK, Stop, Start, Orders
    <3> QED  BY <3>1 DEF StopOld, StartNew
  <2>3. mode_orders' \in Seq(Orders)
    BY <2>1, <2>2 DEF ModeTypeOK
  <2> QED  BY <1>1, <2>1, <2>3 DEF Wizard, ModeTypeOK, fixed, simpleSide, routerSide, wholeBridge, bridgeSide
<1>2. CASE SimpleEndpoint
  <2> DEFINE starts == Start("simple")
             stops == Stop("simple")
             scans == Start("rescan")
  <2>1. starts \in Orders /\ stops \in Orders /\ scans \in Orders
    BY DEF Orders, Start, Stop, Modes
  <2>2. \/ mode' = "simple" /\ mode_orders' = Append(mode_orders, starts)
        \/ mode' = "peer"   /\ mode_orders' = Append(mode_orders, stops)
        \/ UNCHANGED mode   /\ mode_orders' = Append(mode_orders, scans)
    BY <1>2 DEF SimpleEndpoint
  <2>3. mode \in Modes /\ mode_orders \in Seq(Orders)
    BY DEF ModeTypeOK
  <2> HIDE DEF starts, stops, scans
  <2>4. mode_orders' \in Seq(Orders)
    BY <2>1, <2>2, <2>3
  <2>5. mode' \in Modes
    BY <2>2, <2>3 DEF Modes
  <2> QED
    BY <1>2, <2>4, <2>5 DEF SimpleEndpoint, ModeTypeOK, fixed, simpleSide, routerSide, wholeBridge, bridgeSide
<1>3. CASE AdminOrder
  BY <1>3 DEF AdminOrder, ModeTypeOK, Start, Orders, Modes, fixed, simpleSide, routerSide, wholeBridge, bridgeSide
<1>4. CASE ModeOrderLost
  BY <1>4 DEF ModeOrderLost, ModeTypeOK, fixed, simpleSide, routerSide, wholeBridge, bridgeSide
<1>5. CASE RunOrder
  <2>1. mode_orders' \in Seq(Orders)
    BY <1>5 DEF RunOrder, ModeTypeOK
  <2>2. mode' \in Modes /\ UNCHANGED <<ports, preferred, tools>>
    BY <1>5 DEF RunOrder, ModeTypeOK, fixed
  <2>3. CASE \/ /\ SimpleStarts \/ SimpleStops \/ SimpleRescans
                /\ UNCHANGED <<routerSide, dhcp, conf, bridgeSide>>
    BY <2>1, <2>2, <2>3, SimpleType DEF ModeTypeOK, routerSide, bridgeSide
  <2>4. CASE \/ /\ DhcpStarts \/ DhcpStops
                /\ UNCHANGED <<simpleSide, routerSide, forward, sysctls, wholeBridge>>
    BY <2>1, <2>2, <2>4, DhcpType DEF ModeTypeOK, simpleSide, routerSide, wholeBridge, bridgeSide
  <2>5. CASE \/ /\ RouterStarts \/ RouterStops
                /\ UNCHANGED <<simpleSide, wholeBridge>>
    <3>1. \E w, l \in Links \cup {None} : RouterOn(w, l) \/ RouterStops
      BY <2>5, PortsAreLinks DEF RouterStarts
    <3> QED  BY <2>1, <2>2, <2>5, <3>1, RouterType DEF ModeTypeOK, simpleSide, wholeBridge, bridgeSide
  <2>6. CASE /\ BridgeStarts \/ BridgeFlushed \/ BridgeBlocks \/ BridgeStops
             /\ UNCHANGED <<simpleSide, routerSide, forward, sysctls, dhcp, conf>>
             /\ strayed' \in {TRUE, strayed}
    <3>1. strayed' \in BOOLEAN
      BY <2>6 DEF ModeTypeOK
    <3>2. UNCHANGED <<simple, spoofing, router, relocated, sysctls, conf>>
      BY <2>6 DEF simpleSide, routerSide
    <3> QED  BY <2>1, <2>2, <2>6, <3>1, <3>2, BridgeType DEF ModeTypeOK
  <2> QED  BY <1>5, <2>3, <2>4, <2>5, <2>6 DEF RunOrder, BridgeStarts, BridgeFlushed, BridgeStops
<1>6. CASE BridgeLease
  BY <1>6 DEF BridgeLease, ModeTypeOK, cloudSide, fixed, simpleSide, routerSide, Links
<1>7. CASE AgentStarts
  <2>1. UNCHANGED <<mode, mode_orders, ports, preferred, tools, bridgeSide>>
    BY <1>7 DEF AgentStarts, cloudSide, fixed
  <2>2. CASE /\ UNCHANGED <<routerSide, dhcp, conf, strayed>>
             /\ simple' \in BOOLEAN /\ spoofing' \in BOOLEAN /\ sysctls' \subseteq {"simple", "router"}
             /\ leftovers' \subseteq Unremoved
    BY <2>1, <2>2 DEF ModeTypeOK, routerSide, bridgeSide
  <2>3. CASE UNCHANGED <<simpleSide, routerSide, sysctls, leftovers, strayed>> /\ conf' \in Confs \cup {None}
    BY <2>1, <2>3 DEF ModeTypeOK, simpleSide, routerSide, bridgeSide
  <2>4. CASE (\E w, l \in Links \cup {None} : RouterOn(w, l)) /\ UNCHANGED <<simpleSide, leftovers>>
    BY <2>1, <2>4, RouterType DEF ModeTypeOK, simpleSide, bridgeSide
  <2>5. CASE preferred = "simple"
    BY <1>7, <2>2, <2>5, NoneIsNothing DEF AgentStarts, SimpleRuns, simpleSide, ModeTypeOK, Unremoved
  <2>6. CASE preferred = "dhcp"
    <3>1. DhcpConf("eth0", FALSE) \in Confs
      BY ConfType DEF Links, Ports
    <3> QED  BY <1>7, <2>3, <2>6, <3>1 DEF AgentStarts, ModeTypeOK
  <2>7. CASE preferred = "router"
    BY <1>7, <2>4, <2>7, PortsAreLinks DEF AgentStarts, ModeTypeOK
  <2> QED  BY <1>7, <2>5, <2>6, <2>7 DEF AgentStarts
<1>8. CASE KernelRestarts
  <2>1. addr' \in [Links -> 0 .. 2] /\ route' \in Links
    <3>1. PICK a \in 1 .. 2 : addr' = [addr EXCEPT !["eth0"] = a, !["br0"] = 0]
      BY <1>8 DEF KernelRestarts
    <3> QED  BY <1>8, <3>1 DEF KernelRestarts, ModeTypeOK, Links, Ports
  <2>2. /\ UNCHANGED <<mode, mode_orders, ports, preferred, tools, simple, router, relocated, sysctls,
                       conf, bridge_snapshot, runtime>>
        /\ spoofing' = FALSE /\ dropped' = FALSE /\ members' = None /\ strayed' = TRUE
        /\ leftovers' = {}
    BY <1>8 DEF KernelRestarts, cloudSide, fixed
  <2> QED  BY <2>1, <2>2 DEF ModeTypeOK
<1>9. CASE NewLease
  <2>1. addr' \in [Links -> 0 .. 2]
    BY <1>9 DEF NewLease, ModeTypeOK, NeverStranded, Links, Ports
  <2>2. UNCHANGED <<mode, mode_orders, ports, preferred, tools, simpleSide, routerSide, sysctls, conf,
                    bridge_snapshot, runtime, members, dropped, leftovers, strayed, route>>
    BY <1>9 DEF NewLease, cloudSide, fixed
  <2> QED  BY <2>1, <2>2 DEF ModeTypeOK, simpleSide, routerSide
<1> QED  BY <1>1, <1>2, <1>3, <1>4, <1>5, <1>6, <1>7, <1>8, <1>9 DEF ModeNext

\* What only the bridge, a reboot and leases disturb.
LEMMA BridgeFrame ==
    ASSUME ModeNext, ~KernelRestarts, ~NewLease, ~BridgeLease,
           ~(RunOrder /\ (BridgeStarts \/ BridgeFlushed \/ BridgeBlocks \/ BridgeStops))
    PROVE  UNCHANGED bridgeSide
<1>1. CASE Wizard \/ SimpleEndpoint \/ AdminOrder \/ ModeOrderLost \/ AgentStarts
  BY <1>1 DEF Wizard, SimpleEndpoint, AdminOrder, ModeOrderLost, AgentStarts, wholeBridge
<1>2. CASE RunOrder
  BY <1>2 DEF RunOrder, wholeBridge
<1> QED  BY <1>1, <1>2 DEF ModeNext

LEMMA BridgeStep ==
    ASSUME ModeTypeOK, SnapshotSound, NeverStranded, ModeNext
    PROVE  SnapshotSound' /\ NeverStranded'
<1> USE NoneIsNothing
<1>1. CASE UNCHANGED bridgeSide
  BY <1>1 DEF bridgeSide, SnapshotSound, NeverStranded
<1>2. CASE RunOrder /\ BridgeStarts
  <2>1. members = None => AsItIs.addrs["eth0"] \notin {0, None} /\ AsItIs.route = "eth0"
    <3>1. SUFFICES ASSUME members = None PROVE AsItIs.addrs["eth0"] \notin {0, None} /\ AsItIs.route = "eth0"
      OBVIOUS
    <3>2. addr["eth0"] # 0 /\ addr["eth0"] \in 0 .. 2 /\ route = "eth0" /\ "eth0" \in ports
      BY <3>1 DEF NeverStranded, ModeTypeOK, Links, Ports
    <3> QED  BY <3>2 DEF AsItIs, Ports
  <2>2. /\ bridge_snapshot' # None => /\ bridge_snapshot'.addrs["eth0"] \notin {0, None}
                                      /\ bridge_snapshot'.route = "eth0"
        /\ bridge_snapshot' # None
    <3>1. AsItIs \in Snapshots
      BY DEF AsItIs, Snapshots, ModeTypeOK, Links
    <3> QED  BY <1>2, <2>1, <3>1 DEF BridgeStarts, SnapshotTaken, SnapshotSound
  <2>3. members' = None => members = None /\ UNCHANGED <<addr, route>>
    <3>1. Now \cup Joining \in SUBSET Ports
      BY DEF Now, Joining, ModeTypeOK, Ports
    <3> QED  BY <1>2, <3>1 DEF BridgeStarts
  <2>4. dropped => runtime' = runtime
    BY <1>2 DEF BridgeStarts, NeverStranded
  <2>5. dropped' = dropped
    BY <1>2 DEF BridgeStarts
  <2> QED  BY <2>2, <2>3, <2>4, <2>5 DEF SnapshotSound, NeverStranded
<1>3. CASE RunOrder /\ BridgeBlocks
  <2>1. [blocked |-> TRUE] # None
    BY RuntimeType
  <2>2. /\ UNCHANGED <<bridge_snapshot, members, addr, route>>
        /\ \/ runtime' = [blocked |-> TRUE]
           \/ UNCHANGED <<dropped, runtime>>
    BY <1>3 DEF BridgeBlocks
  <2> QED  BY <2>1, <2>2 DEF SnapshotSound, NeverStranded
<1>4. CASE RunOrder /\ BridgeStops
  <2>1. bridge_snapshot' = bridge_snapshot /\ members' = None /\ dropped' = FALSE
    BY <1>4 DEF BridgeStops
  <2>2. CASE bridge_snapshot = None
    <3>1. members = None
      BY <2>2 DEF SnapshotSound
    <3>2. addr' = [addr EXCEPT !["br0"] = 0] /\ route' = IF route = "br0" THEN None ELSE route
      BY <1>4, <2>2 DEF BridgeStops
    <3> QED  BY <2>1, <2>2, <3>1, <3>2 DEF SnapshotSound, NeverStranded, ModeTypeOK, Links, Ports
  <2>3. CASE bridge_snapshot # None
    <3>1. addr' = Restored(bridge_snapshot) /\ route' = "eth0"
      BY <1>4, <2>3 DEF BridgeStops, SnapshotSound, Links, Ports
    <3>2. addr'["eth0"] = bridge_snapshot.addrs["eth0"]
      BY <2>3, <3>1 DEF Restored, SnapshotSound, Links, Ports
    <3> QED  BY <2>1, <2>3, <3>1, <3>2 DEF SnapshotSound, NeverStranded
  <2> QED  BY <2>2, <2>3
<1>5. CASE BridgeLease
  BY <1>5 DEF BridgeLease, SnapshotSound, NeverStranded
<1>6. CASE KernelRestarts
  <2>1. PICK a \in 1 .. 2 : addr' = [addr EXCEPT !["eth0"] = a, !["br0"] = 0]
    BY <1>6 DEF KernelRestarts
  <2>2. addr'["eth0"] # 0
    BY <2>1 DEF ModeTypeOK, Links, Ports
  <2> QED  BY <1>6, <2>2 DEF KernelRestarts, SnapshotSound, NeverStranded
<1>7. CASE NewLease
  <2>1. addr'["eth0"] # 0
    BY <1>7 DEF NewLease, NeverStranded, ModeTypeOK, Links, Ports
  <2> QED  BY <1>7, <2>1 DEF NewLease, SnapshotSound, NeverStranded
<1>8. CASE RunOrder /\ BridgeFlushed
  <2>1. members # None \/ route = "eth0"
    BY DEF NeverStranded
  <2> QED  BY <1>8, <2>1 DEF BridgeFlushed, SnapshotSound, NeverStranded
<1> QED  BY <1>1, <1>2, <1>3, <1>4, <1>5, <1>6, <1>7, <1>8, BridgeFrame

\* A step leaves the router and the DHCP server alone, is a step of one of them, or empties the
\* kernel.
LEMMA RouterCases ==
    ASSUME ModeTypeOK, ModeNext
    PROVE  \/ UNCHANGED <<routerSide, conf, tools>>
           \/ UNCHANGED <<routerSide, tools>> /\ "dnsmasq" \in tools
           \/ \E w, l \in Links \cup {None} : RouterOn(w, l) /\ UNCHANGED tools
           \/ RouterStops /\ UNCHANGED tools
           \/ UNCHANGED <<router, relocated, conf, tools>> /\ rules' = {}
<1>1. CASE Wizard \/ SimpleEndpoint \/ AdminOrder \/ ModeOrderLost \/ NewLease \/ BridgeLease
  BY <1>1 DEF Wizard, SimpleEndpoint, AdminOrder, ModeOrderLost, NewLease, BridgeLease, fixed
<1>2. CASE KernelRestarts
  BY <1>2 DEF KernelRestarts, fixed
<1>3. CASE AgentStarts
  <2>1. UNCHANGED tools
    BY <1>3 DEF AgentStarts, fixed
  <2>2. CASE UNCHANGED <<routerSide, conf>>
    BY <2>1, <2>2
  <2>3. CASE UNCHANGED routerSide /\ DhcpAble("eth0")
    BY <2>1, <2>3 DEF DhcpAble
  <2>4. CASE \E l \in IF Lans = {} THEN {None} ELSE Lans : RouterOn(route, l)
    BY <2>1, <2>4, PortsAreLinks
  <2> QED  BY <1>3, <2>2, <2>3, <2>4 DEF AgentStarts
<1>4. CASE RunOrder
  <2>1. UNCHANGED tools
    BY <1>4 DEF RunOrder, fixed
  <2>2. CASE UNCHANGED <<routerSide, conf>>
    BY <2>1, <2>2
  <2>3. CASE (DhcpStarts \/ DhcpStops) /\ UNCHANGED routerSide
    BY <2>1, <2>3 DEF DhcpStarts, DhcpStops, DhcpOff, DhcpAble
  <2>4. CASE RouterStarts
    BY <2>1, <2>4, PortsAreLinks DEF RouterStarts
  <2>5. CASE RouterStops
    BY <2>1, <2>5
  <2> QED  BY <1>4, <2>2, <2>3, <2>4, <2>5 DEF RunOrder
<1> QED  BY <1>1, <1>2, <1>3, <1>4 DEF ModeNext

LEMMA RouterStep ==
    ASSUME ModeTypeOK, RulesOnRecord, conf # None => "dnsmasq" \in tools, ModeNext
    PROVE  RulesOnRecord' /\ (conf # None => "dnsmasq" \in tools)'
<1>1. CASE \/ UNCHANGED <<routerSide, conf, tools>>
           \/ UNCHANGED <<routerSide, tools>> /\ "dnsmasq" \in tools
  BY <1>1 DEF RulesOnRecord, routerSide
<1>2. ASSUME NEW w \in Links \cup {None}, NEW l \in Links \cup {None}, RouterOn(w, l), UNCHANGED tools
      PROVE  RulesOnRecord' /\ (conf # None => "dnsmasq" \in tools)'
  <2>1. CASE "dnsmasq" \notin tools \/ w = None \/ l = None
    BY <1>2, <2>1 DEF RouterOn, RulesOnRecord, routerSide
  <2>2. CASE ~("dnsmasq" \notin tools \/ w = None \/ l = None)
    <3>1. /\ router' = [enabled |-> TRUE, wan |-> w, lan |-> l]
          /\ rules' = rules \cup RulesOf(w, l)
          /\ relocated' = (relocated \/ (router.enabled /\ <<router.wan, router.lan>> # <<w, l>>))
      BY <1>2, <2>2 DEF RouterOn
    <3>2. CASE router.enabled /\ ~relocated'
      <4>1. router.wan = w /\ router.lan = l /\ ~relocated
        BY <3>1, <3>2
      <4> QED  BY <1>2, <2>2, <3>1, <3>2, <4>1 DEF RulesOnRecord
    <3>3. CASE ~router.enabled \/ relocated'
      BY <1>2, <2>2, <3>1, <3>3 DEF RulesOnRecord
    <3> QED  BY <3>2, <3>3
  <2> QED  BY <2>1, <2>2
<1>3. CASE RouterStops /\ UNCHANGED tools
  <2>1. /\ router'.enabled = FALSE /\ relocated' = relocated
        /\ rules' = rules \ RulesOf(router.wan, router.lan)
        /\ conf' # None => conf # None
    BY <1>3 DEF RouterStops, DhcpOff, ModeTypeOK
  <2> QED  BY <1>3, <2>1 DEF RulesOnRecord
<1>4. CASE UNCHANGED <<router, relocated, conf, tools>> /\ rules' = {}
  BY <1>4 DEF RulesOnRecord
<1> QED  BY <1>1, <1>2, <1>3, <1>4, RouterCases

LEMMA Orderly ==
    \A m \in Modes : /\ Start(m) \in Orders /\ Stop(m) \in Orders
                     /\ Start(m) # Stop(m)
  BY DEF Start, Stop, Orders

\* An order at the end of the queue leads on.
LEMMA CourseGrows ==
    ASSUME NEW orders \in Seq(Orders), NEW m \in Modes, NEW n \in Modes, NEW order \in Orders,
           Course(orders, m), Leads(m, order, n)
    PROVE  Course(Append(orders, order), n)
<1> DEFINE longer == Append(orders, order)
<1>1. PICK p \in [0 .. Len(orders) -> Modes] :
          /\ RunsMode(p[0]) /\ p[Len(orders)] = m
          /\ \A i \in 1 .. Len(orders) : Leads(p[i - 1], orders[i], p[i])
  BY DEF Course
<1> DEFINE q == [i \in 0 .. Len(longer) |-> IF i = Len(longer) THEN n ELSE p[i]]
<1>2. /\ Len(orders) \in Nat /\ Len(longer) = Len(orders) + 1 /\ longer[Len(orders) + 1] = order
      /\ \A i \in 1 .. Len(orders) : longer[i] = orders[i]
  OBVIOUS
<1> HIDE DEF longer
<1>3. q \in [0 .. Len(longer) -> Modes] /\ q[Len(longer)] = n
      /\ \A i \in 0 .. Len(orders) : q[i] = p[i]
  BY <1>2
<1> HIDE DEF q
<1>4. RunsMode(q[0])
  BY <1>1, <1>2, <1>3
<1>5. ASSUME NEW i \in 1 .. Len(longer) PROVE Leads(q[i - 1], longer[i], q[i])
  <2>1. CASE i = Len(longer)
    <3>1. q[i - 1] = m /\ longer[i] = order /\ q[i] = n
      BY <1>1, <1>2, <1>3, <2>1
    <3> QED  BY <3>1
  <2>2. CASE i # Len(longer)
    <3>1. i \in 1 .. Len(orders) /\ i - 1 \in 0 .. Len(orders) /\ i \in 0 .. Len(orders)
      BY <1>2, <2>2
    <3>2. q[i - 1] = p[i - 1] /\ q[i] = p[i] /\ longer[i] = orders[i]
      BY <1>2, <1>3, <3>1
    <3> QED  BY <1>1, <3>1, <3>2
  <2> QED  BY <2>1, <2>2
<1>6. Course(longer, n)
  BY <1>3, <1>4, <1>5 DEF Course
<1> QED  BY <1>6 DEF longer

LEMMA CourseFrame ==
    ASSUME UNCHANGED <<simple, spoofing, router, rules, forward, sysctls, leftovers, conf, members>>,
           Course(mode_orders', mode')
    PROVE  OnCourse'
<1>1. PICK p \in [0 .. Len(mode_orders') -> Modes] :
          /\ RunsMode(p[0]) /\ p[Len(mode_orders')] = mode'
          /\ \A i \in 1 .. Len(mode_orders') : Leads(p[i - 1], mode_orders'[i], p[i])
  BY DEF Course
<1>2. RunsMode(p[0])'
  BY <1>1 DEF RunsMode, Forwarded
<1> QED  BY <1>1, <1>2 DEF OnCourse, Course

LEMMA WizardCourse ==
    ASSUME ModeTypeOK, OnCourse, Wizard
    PROVE  OnCourse'
<1>1. PICK m \in Modes \ {mode} :
          mode' = m /\ mode_orders' = mode_orders \o StopOld(mode) \o StartNew(m)
  BY DEF Wizard
<1>2. mode \in Modes /\ "peer" \in Modes /\ mode_orders \in Seq(Orders)
  BY DEF ModeTypeOK, Modes
<1>3. UNCHANGED <<simple, spoofing, router, rules, forward, sysctls, leftovers, conf, members>>
  BY DEF Wizard, simpleSide, routerSide, wholeBridge, bridgeSide
<1>4. CASE mode = "peer"
  <2>1. mode_orders' = Append(mode_orders, Start(m))
    BY <1>1, <1>2, <1>4, Orderly DEF StopOld, StartNew
  <2>2. Leads(mode, Start(m), m)
    BY <1>1, <1>4 DEF Leads
  <2>3. Course(mode_orders', m)
    BY <1>1, <1>2, <2>1, <2>2, CourseGrows, Orderly DEF OnCourse
  <2> QED  BY <1>1, <1>3, <2>3, CourseFrame
<1>5. CASE mode # "peer"
  <2>1. Leads(mode, Stop(mode), "peer")
    BY <1>2, <1>5 DEF Leads
  <2> DEFINE stopped == Append(mode_orders, Stop(mode))
  <2>2. Course(Append(mode_orders, Stop(mode)), "peer")
    BY <1>2, <2>1, CourseGrows, Orderly DEF OnCourse
  <2>3. CASE m = "peer"
    <3>1. mode_orders' = Append(mode_orders, Stop(mode))
      BY <1>1, <1>2, <1>5, <2>3, Orderly DEF StopOld, StartNew
    <3> QED  BY <1>1, <1>3, <2>2, <2>3, <3>1, CourseFrame
  <2>4. CASE m # "peer"
    <3>1. mode_orders' = Append(Append(mode_orders, Stop(mode)), Start(m))
      BY <1>1, <1>2, <1>5, <2>4, Orderly DEF StopOld, StartNew
    <3>2. Leads("peer", Start(m), m)
      BY <2>4 DEF Leads
    <3>3. Append(mode_orders, Stop(mode)) \in Seq(Orders)
      BY <1>2, Orderly
    <3>4. Course(mode_orders', m)
      BY <1>1, <1>2, <2>2, <3>1, <3>2, <3>3, CourseGrows, Orderly
    <3> QED  BY <1>1, <1>3, <3>4, CourseFrame
  <2> QED  BY <2>3, <2>4
<1> QED  BY <1>4, <1>5

LEMMA EndpointCourse ==
    ASSUME ModeTypeOK, OnCourse, SimpleEndpoint, ~strayed'
    PROVE  OnCourse'
<1>1. mode \in {"simple", "peer"} /\ mode \in Modes /\ mode_orders \in Seq(Orders)
  BY DEF SimpleEndpoint, ModeTypeOK
<1>2. UNCHANGED <<simple, spoofing, router, rules, forward, sysctls, leftovers, conf, members>>
  BY DEF SimpleEndpoint, simpleSide, routerSide, wholeBridge, bridgeSide
<1>3. Start("simple") \in Orders /\ Stop("simple") \in Orders /\ Start("rescan") \in Orders
  BY DEF Start, Stop, Orders, Modes
<1>4. PICK order \in Orders, n \in Modes :
          Leads(mode, order, n) /\ mode' = n /\ mode_orders' = Append(mode_orders, order)
  <2>1. /\ Leads(mode, Start("simple"), "simple") /\ Leads(mode, Stop("simple"), "peer")
        /\ Leads(mode, Start("rescan"), mode)
    BY <1>1 DEF Leads, Modes
  <2>2. "simple" \in Modes /\ "peer" \in Modes
    BY DEF Modes
  <2> QED  BY <1>1, <1>3, <2>1, <2>2 DEF SimpleEndpoint
<1>5. Course(mode_orders', n)
  BY <1>1, <1>4, CourseGrows DEF OnCourse
<1> QED  BY <1>2, <1>4, <1>5, CourseFrame

-----------------------------------------------------------------------------
\* Where an order may be met on a box that is on course.
LEMMA LeadsFrom ==
    ASSUME NEW m \in Modes, NEW n \in Modes, NEW order \in Orders, Leads(m, order, n)
    PROVE  /\ order = Start("simple") => n = "simple" /\ m \in {"peer", "simple"}
           /\ order = Stop("simple") => n = "peer" /\ m \in {"peer", "simple"}
           /\ order = Start("rescan") => n = m /\ m \in {"peer", "simple"}
           /\ \A x \in {"dhcp", "router", "bridge"} :
                 /\ order = Start(x) => n = x /\ m = "peer"
                 /\ order = Stop(x) => n = "peer" /\ m = x
           /\ order # Start("block") /\ order # Start("bridge_auto")
  BY DEF Leads, Start, Stop, Modes

\* An order that does not fail takes the box from the one mode to the other.
LEMMA OrderRuns ==
    ASSUME ModeTypeOK, conf # None => "dnsmasq" \in tools, RunOrder, ~strayed, ~strayed',
           NEW m \in Modes, NEW n \in Modes, RunsMode(m), Leads(m, Head(mode_orders), n),
           Head(mode_orders) \in Orders
    PROVE  RunsMode(n)'
<1> DEFINE order == Head(mode_orders)
<1>1. CASE order = Start("simple") /\ SimpleStarts /\ UNCHANGED <<routerSide, dhcp, conf, bridgeSide>>
  <2>1. n = "simple" /\ m \in {"peer", "simple"}
    BY <1>1, LeadsFrom
  <2>2. simple' /\ spoofing' /\ Forwarded("simple")' /\ sysctls' \ {"simple"} = {}
    BY <1>1, <2>1 DEF SimpleStarts, SimpleRuns, simpleSide, RunsMode, Forwarded
  <2> QED  BY <1>1, <2>1, <2>2 DEF RunsMode, routerSide, bridgeSide
<1>2. CASE order = Stop("simple") /\ SimpleStops /\ UNCHANGED <<routerSide, dhcp, conf, bridgeSide>>
  <2>1. n = "peer" /\ m \in {"peer", "simple"}
    BY <1>2, LeadsFrom
  <2>2. ~simple' /\ ~spoofing' /\ Forwarded("peer")' /\ sysctls' \ {"simple"} = {}
    BY <1>2, <2>1 DEF SimpleStops, RunsMode, Forwarded
  <2> QED  BY <1>2, <2>1, <2>2 DEF RunsMode, routerSide, bridgeSide
<1>3. CASE order = Start("rescan") /\ SimpleRescans /\ UNCHANGED <<routerSide, dhcp, conf, bridgeSide>>
  <2>1. n = m /\ m \in {"peer", "simple"}
    BY <1>3, LeadsFrom
  <2>2. simple' = simple /\ (spoofing' <=> spoofing) /\ UNCHANGED <<forward, sysctls, leftovers>>
    BY <1>3, <2>1 DEF SimpleRescans, RunsMode, ModeTypeOK
  <2> QED  BY <1>3, <2>1, <2>2 DEF RunsMode, Forwarded, routerSide, bridgeSide
<1>4. CASE order = Start("dhcp") /\ DhcpStarts /\ UNCHANGED <<simpleSide, routerSide, forward, sysctls, bridgeSide>>
  <2>1. n = "dhcp" /\ m = "peer"
    BY <1>4, LeadsFrom
  <2>2. conf' # None
    BY <1>4, ConfType DEF DhcpStarts, Links
  <2> QED  BY <1>4, <2>1, <2>2 DEF RunsMode, Forwarded, simpleSide, routerSide, bridgeSide
<1>5. CASE order = Stop("dhcp") /\ DhcpStops /\ UNCHANGED <<simpleSide, routerSide, forward, sysctls, bridgeSide>>
  <2>1. n = "peer" /\ m = "dhcp"
    BY <1>5, LeadsFrom
  <2>2. conf' = None
    BY <1>5 DEF DhcpStops, DhcpOff
  <2> QED  BY <1>5, <2>1, <2>2 DEF RunsMode, Forwarded, simpleSide, routerSide, bridgeSide
<1>6. CASE order = Start("router") /\ RouterStarts /\ UNCHANGED <<simpleSide, bridgeSide>>
  <2>1. n = "router" /\ m = "peer"
    BY <1>6, LeadsFrom
  <2>2. PICK w \in Links \cup {None}, l \in Links \cup {None} : RouterOn(w, l)
    BY <1>6, PortsAreLinks DEF RouterStarts
  <2>3. "dnsmasq" \in tools /\ l \in Links
    BY <2>2 DEF RouterOn
  <2>4. /\ rules' = RulesOf(w, l)
        /\ router' = [enabled |-> TRUE, wan |-> w, lan |-> l]
        /\ conf' # None
        /\ forward' /\ sysctls' \ {"simple"} = {"router"}
    BY <2>1, <2>2, <2>3, ConfType DEF RouterOn, RunsMode
  <2>5. router'.enabled /\ router'.wan = w /\ router'.lan = l
    BY <2>4
  <2> QED  BY <1>6, <2>1, <2>4, <2>5 DEF RunsMode, Forwarded, simpleSide, bridgeSide
<1>7. CASE order = Stop("router") /\ RouterStops /\ UNCHANGED <<simpleSide, bridgeSide>>
  <2>1. n = "peer" /\ m = "router"
    BY <1>7, LeadsFrom
  <2>2. rules' = {} /\ conf' = None /\ ~router'.enabled /\ sysctls' \ {"simple"} = {}
    BY <1>7, <2>1 DEF RouterStops, DhcpOff, RunsMode, ModeTypeOK
  <2> QED  BY <1>7, <2>1, <2>2 DEF RunsMode, Forwarded, simpleSide, bridgeSide
<1>8. CASE order = Start("bridge") /\ BridgeStarts /\ UNCHANGED <<simpleSide, routerSide, forward, sysctls, conf>>
  <2>1. n = "bridge" /\ m = "peer"
    BY <1>8, LeadsFrom
  <2>2. members' # None
    <3>1. Now \cup Joining \in SUBSET Ports
      BY DEF Now, Joining, ModeTypeOK, Ports
    <3> QED  BY <1>8, <3>1, NoneIsNothing DEF BridgeStarts
  <2> QED  BY <1>8, <2>1, <2>2 DEF RunsMode, Forwarded, simpleSide, routerSide
<1>9. CASE order = Stop("bridge") /\ BridgeStops /\ UNCHANGED <<simpleSide, routerSide, forward, sysctls, conf>>
  <2>1. n = "peer" /\ m = "bridge"
    BY <1>9, LeadsFrom
  <2>2. members' = None
    BY <1>9 DEF BridgeStops
  <2> QED  BY <1>9, <2>1, <2>2 DEF RunsMode, Forwarded, simpleSide, routerSide
<1>10. order # Start("block") /\ order # Start("bridge_auto")
  BY LeadsFrom
<1> QED
  BY <1>1, <1>2, <1>3, <1>4, <1>5, <1>6, <1>7, <1>8, <1>9, <1>10 DEF RunOrder, wholeBridge

LEMMA RunCourse ==
    ASSUME ModeTypeOK, conf # None => "dnsmasq" \in tools, OnCourse, RunOrder, ~strayed, ~strayed'
    PROVE  OnCourse'
<1>1. PICK p \in [0 .. Len(mode_orders) -> Modes] :
          /\ RunsMode(p[0]) /\ p[Len(mode_orders)] = mode
          /\ \A i \in 1 .. Len(mode_orders) : Leads(p[i - 1], mode_orders[i], p[i])
  BY DEF OnCourse, Course
<1>2. /\ Len(mode_orders) \in Nat /\ Len(mode_orders) > 0 /\ mode' = mode
      /\ Head(mode_orders) = mode_orders[1] /\ Head(mode_orders) \in Orders
      /\ Len(mode_orders') = Len(mode_orders) - 1
      /\ \A i \in 1 .. Len(mode_orders') : mode_orders'[i] = mode_orders[i + 1]
  BY DEF RunOrder, ModeTypeOK
<1> DEFINE q == [i \in 0 .. Len(mode_orders') |-> p[i + 1]]
<1>3. /\ q \in [0 .. Len(mode_orders') -> Modes]
      /\ \A i \in 0 .. Len(mode_orders') : q[i] = p[i + 1]
  BY <1>1, <1>2
<1> HIDE DEF q
<1>4. RunsMode(p[1])'
  <2>1. p[0] \in Modes /\ p[1] \in Modes /\ Leads(p[0], Head(mode_orders), p[1])
    BY <1>1, <1>2
  <2> QED  BY <1>1, <1>2, <2>1, OrderRuns
<1>5. q[0] = p[1] /\ q[Len(mode_orders')] = mode'
  BY <1>1, <1>2, <1>3
<1>6. ASSUME NEW i \in 1 .. Len(mode_orders') PROVE Leads(q[i - 1], mode_orders'[i], q[i])
  <2>1. /\ i - 1 \in 0 .. Len(mode_orders') /\ i \in 0 .. Len(mode_orders')
        /\ i + 1 \in 1 .. Len(mode_orders)
    BY <1>2
  <2>2. q[i - 1] = p[i] /\ q[i] = p[i + 1] /\ mode_orders'[i] = mode_orders[i + 1]
    BY <1>2, <1>3, <2>1
  <2>3. Leads(p[(i + 1) - 1], mode_orders[i + 1], p[i + 1])
    BY <1>1, <2>1
  <2>4. (i + 1) - 1 = i
    BY <1>2
  <2> QED  BY <2>2, <2>3, <2>4
<1> QED  BY <1>3, <1>4, <1>5, <1>6 DEF OnCourse, Course

LEMMA StrayedStays == ASSUME ModeNext, ModeTypeOK PROVE preferred' = preferred /\ (strayed => strayed')
<1>1. CASE Wizard
  BY <1>1 DEF Wizard, fixed
<1>2. CASE SimpleEndpoint \/ AdminOrder \/ ModeOrderLost \/ KernelRestarts
  <2>1. UNCHANGED fixed
    BY <1>2 DEF SimpleEndpoint, AdminOrder, ModeOrderLost, KernelRestarts
  <2>2. strayed => strayed'
    BY <1>2 DEF SimpleEndpoint, AdminOrder, ModeOrderLost, KernelRestarts, ModeTypeOK
  <2> QED  BY <2>1, <2>2 DEF fixed
<1>3. CASE NewLease \/ BridgeLease
  BY <1>3 DEF NewLease, BridgeLease, fixed
<1>4. CASE RunOrder
  <2>1. UNCHANGED fixed
    BY <1>4 DEF RunOrder
  <2>2. strayed => strayed'
    <3>1. CASE SimpleStarts \/ SimpleStops \/ SimpleRescans
      BY <3>1 DEF SimpleStarts, SimpleStops, SimpleRescans
    <3>2. CASE DhcpStarts \/ DhcpStops
      BY <3>2 DEF DhcpStarts, DhcpStops
    <3>3. CASE RouterStarts \/ RouterStops
      BY <3>3 DEF RouterStarts, RouterOn, RouterStops
    <3>4. CASE BridgeStarts \/ BridgeFlushed \/ BridgeStops \/ UNCHANGED strayed
      BY <3>4 DEF BridgeStarts, BridgeFlushed, BridgeStops
    <3> QED  BY <1>4, <3>1, <3>2, <3>3, <3>4 DEF RunOrder
  <2> QED  BY <2>1, <2>2 DEF fixed
<1>5. CASE AgentStarts
  <2>1. UNCHANGED fixed
    BY <1>5 DEF AgentStarts
  <2>2. strayed => strayed'
    BY <1>5 DEF AgentStarts, RouterOn, ModeTypeOK
  <2> QED  BY <2>1, <2>2 DEF fixed
<1> QED  BY <1>1, <1>2, <1>3, <1>4, <1>5 DEF ModeNext

LEMMA CourseStep ==
    ASSUME ModeInv, ModeNext, ~strayed'
    PROVE  OnCourse'
<1>1. ~strayed
  BY StrayedStays DEF ModeInv
<1>2. OnCourse /\ preferred = None /\ ModeTypeOK /\ (conf # None => "dnsmasq" \in tools)
  BY <1>1 DEF ModeInv
<1>3. CASE Wizard
  BY <1>2, <1>3, WizardCourse
<1>4. CASE SimpleEndpoint
  BY <1>2, <1>4, EndpointCourse
<1>5. CASE AdminOrder \/ ModeOrderLost \/ KernelRestarts
  BY <1>5 DEF AdminOrder, ModeOrderLost, KernelRestarts
<1>6. CASE RunOrder
  BY <1>1, <1>2, <1>6, RunCourse
<1>7. CASE NewLease \/ BridgeLease
  <2>1. UNCHANGED <<simple, spoofing, router, rules, forward, sysctls, leftovers, conf, members, mode,
                    mode_orders>>
    BY <1>7 DEF NewLease, BridgeLease, cloudSide, simpleSide, routerSide
  <2>2. Course(mode_orders', mode')
    BY <1>2, <2>1 DEF OnCourse
  <2> QED  BY <2>1, <2>2, CourseFrame
<1>8. CASE AgentStarts
  <2>1. preferred \in {"simple", "dhcp", "router"}
    BY <1>8 DEF AgentStarts
  <2> QED  BY <1>2, <2>1, NoneIsNothing DEF Modes
<1> QED  BY <1>3, <1>4, <1>5, <1>6, <1>7, <1>8 DEF ModeNext

LEMMA ModeStep == ModeInv /\ [Next]_householdVars => ModeInv'
<1> SUFFICES ASSUME ModeInv, [Next]_householdVars PROVE ModeInv'
  OBVIOUS
<1>1. ModeNext \/ UNCHANGED modeVars
  BY DEF Next, Time, AlarmStep, Mailing, FlowSeen, DailyUse, Network, VpnServing, VpnUse, Shape,
         householdVars, boxVars
<1>2. CASE ModeNext
  <2>1. ModeTypeOK' /\ SnapshotSound' /\ NeverStranded'
    BY <1>2, ModeTypeStep, BridgeStep DEF ModeInv
  <2>2. RulesOnRecord' /\ (conf # None => "dnsmasq" \in tools)'
    BY <1>2, RouterStep DEF ModeInv
  <2>3. (~strayed => OnCourse)'
    BY <1>2, CourseStep
  <2>4. (preferred # None => strayed)'
    BY <1>2, StrayedStays DEF ModeInv
  <2> QED  BY <2>1, <2>2, <2>3, <2>4 DEF ModeInv
<1>3. CASE UNCHANGED modeVars
  <2>1. ModeTypeOK'
    BY <1>3 DEF ModeInv, modeVars, ModeTypeOK
  <2>2. SnapshotSound' /\ NeverStranded' /\ RulesOnRecord'
    BY <1>3 DEF ModeInv, modeVars, SnapshotSound, NeverStranded, RulesOnRecord
  <2>3. (preferred # None => strayed)' /\ (conf # None => "dnsmasq" \in tools)'
    BY <1>3 DEF ModeInv, modeVars
  <2>4. (~strayed => OnCourse)'
    BY <1>3, CourseFrame DEF ModeInv, modeVars, OnCourse
  <2> QED  BY <2>1, <2>2, <2>3, <2>4 DEF ModeInv
<1> QED  BY <1>1, <1>2, <1>3

LEMMA ModeRunsFollows == ModeInv => ModeRuns
<1> SUFFICES ASSUME ModeInv PROVE ModeRuns
  OBVIOUS
<1>1. ASSUME ~strayed, mode_orders = <<>>
      PROVE  /\ Running = {mode} \ {"peer"} /\ Forwarded(mode)
             /\ sysctls \ {"simple"} = {mode} \cap {"router"}
  <2>1. PICK p \in [0 .. 0 -> Modes] : RunsMode(p[0]) /\ p[0] = mode
    BY <1>1 DEF ModeInv, OnCourse, Course
  <2>2. RunsMode(mode) /\ mode \in Modes
    BY <2>1
  <2>3. RulesOf(router.wan, router.lan) # {}
    BY DEF RulesOf
  <2> QED  BY <2>2, <2>3 DEF Running, RunsMode, Modes
<1> QED  BY <1>1 DEF ModeInv, ModeRuns, ModeAsChosen, RulesOnRecord

\* Whatever switches the wizard made, a box that has run its orders runs the chosen mode and
\* no other, with its traffic forwarded and no spoofing, router rule or sysctl, dnsmasq file
\* or bridge of an earlier one; and outside a bridge it has an address and a default route
\* (simple-mode.js, dhcp-mode.js, router-mode.js, bridge-mode.js): for any number of switches,
\* lost orders, restarts and leases.
THEOREM ModeCorrect == Spec => []ModeRuns
<1>1. Init => ModeInv
  BY ModeInitial DEF Init
<1> QED  BY <1>1, ModeStep, ModeRunsFollows, PTL DEF Spec

-----------------------------------------------------------------------------
(* VpnClients                                                              *)

LEMMA ClientInitial == ClientInit => ClientInv
<1> SUFFICES ASSUME ClientInit PROVE ClientInv
  OBVIOUS
<1>1. ClientTypeOK /\ HouseholdThrough
  BY DEF ClientInit, ClientTypeOK, HouseholdThrough, Tools
<1>2. /\ {clients, active, confs, up} \subseteq [Tools -> SUBSET Profiles]
      /\ cut_off \in [Tools -> BOOLEAN] /\ vpn_queue \in Seq(ClientOrders)
  BY DEF ClientInit
<1>3. ASSUME NEW t \in Tools PROVE Towards(t, vpn_queue, active[t])
  <2> DEFINE s == [i \in 0 .. 0 |-> {}]
  <2>1. Len(vpn_queue) = 0 /\ active[t] = {} /\ up[t] = {}
    BY DEF ClientInit
  <2>2. s \in [0 .. 0 -> SUBSET Profiles] /\ s[0] = {}
    OBVIOUS
  <2> HIDE DEF s
  <2> QED  BY <2>1, <2>2 DEF Towards
<1> QED  BY <1>1, <1>2, <1>3 DEF ClientInv

LEMMA AfterType ==
    ASSUME NEW t \in Tools, NEW c \in ClientOrders, NEW tunnels \in SUBSET Profiles
    PROVE  After(tunnels, c, t) \in SUBSET Profiles
  BY DEF After, ClientOrders

\* A command at the end of the queue leads on.
LEMMA TowardsGrows ==
    ASSUME NEW commands \in Seq(ClientOrders), NEW c \in ClientOrders, NEW t \in Tools,
           NEW goal \in SUBSET Profiles, Towards(t, commands, goal)
    PROVE  Towards(t, Append(commands, c), After(goal, c, t))
<1> DEFINE longer == Append(commands, c)
           n == After(goal, c, t)
<1>1. PICK s \in [0 .. Len(commands) -> SUBSET Profiles] :
          /\ s[0] = up[t] /\ s[Len(commands)] = goal
          /\ \A i \in 1 .. Len(commands) : s[i] = After(s[i - 1], commands[i], t)
  BY DEF Towards
<1> DEFINE q == [i \in 0 .. Len(longer) |-> IF i = Len(longer) THEN n ELSE s[i]]
<1>2. /\ Len(commands) \in Nat /\ Len(longer) = Len(commands) + 1 /\ longer[Len(commands) + 1] = c
      /\ \A i \in 1 .. Len(commands) : longer[i] = commands[i]
  OBVIOUS
<1>3. n \in SUBSET Profiles
  BY AfterType
<1>4. n = After(goal, c, t)
  OBVIOUS
<1> HIDE DEF longer, n
<1>5. q \in [0 .. Len(longer) -> SUBSET Profiles] /\ q[Len(longer)] = n
      /\ \A i \in 0 .. Len(commands) : q[i] = s[i]
  BY <1>2, <1>3
<1> HIDE DEF q
<1>6. q[0] = up[t]
  BY <1>1, <1>2, <1>5
<1>7. ASSUME NEW i \in 1 .. Len(longer) PROVE q[i] = After(q[i - 1], longer[i], t)
  <2>1. CASE i = Len(longer)
    <3>1. q[i - 1] = goal /\ longer[i] = c /\ q[i] = n
      BY <1>1, <1>2, <1>5, <2>1
    <3> QED  BY <1>4, <3>1
  <2>2. CASE i # Len(longer)
    <3>1. i \in 1 .. Len(commands) /\ i - 1 \in 0 .. Len(commands) /\ i \in 0 .. Len(commands)
      BY <1>2, <2>2
    <3>2. q[i - 1] = s[i - 1] /\ q[i] = s[i] /\ longer[i] = commands[i]
      BY <1>2, <1>5, <3>1
    <3>3. s[i] = After(s[i - 1], commands[i], t)
      BY <1>1, <3>1
    <3> QED  BY <3>2, <3>3
  <2> QED  BY <2>1, <2>2
<1>8. Towards(t, longer, n)
  BY <1>5, <1>6, <1>7 DEF Towards
<1> QED  BY <1>8 DEF longer, n

\* The first command is run: the rest leads on from what it made of the tunnels.
LEMMA TowardsRuns ==
    ASSUME NEW t \in Tools, vpn_queue \in Seq(ClientOrders), vpn_queue # <<>>,
           NEW goal, Towards(t, vpn_queue, goal),
           vpn_queue' = Tail(vpn_queue), up'[t] = After(up[t], Head(vpn_queue), t)
    PROVE  Towards(t, vpn_queue, goal)'
<1>1. PICK s \in [0 .. Len(vpn_queue) -> SUBSET Profiles] :
          /\ s[0] = up[t] /\ s[Len(vpn_queue)] = goal
          /\ \A i \in 1 .. Len(vpn_queue) : s[i] = After(s[i - 1], vpn_queue[i], t)
  BY DEF Towards
<1>2. /\ Len(vpn_queue) \in Nat /\ Len(vpn_queue) > 0 /\ Head(vpn_queue) = vpn_queue[1]
      /\ Len(vpn_queue') = Len(vpn_queue) - 1
      /\ \A i \in 1 .. Len(vpn_queue') : vpn_queue'[i] = vpn_queue[i + 1]
  OBVIOUS
<1> DEFINE q == [i \in 0 .. Len(vpn_queue') |-> s[i + 1]]
<1>3. /\ q \in [0 .. Len(vpn_queue') -> SUBSET Profiles]
      /\ \A i \in 0 .. Len(vpn_queue') : q[i] = s[i + 1]
  BY <1>1, <1>2
<1> HIDE DEF q
<1>4. q[0] = up'[t]
  <2>1. 1 \in 1 .. Len(vpn_queue) /\ 0 \in 0 .. Len(vpn_queue')
    BY <1>2
  <2>2. s[1] = After(s[1 - 1], vpn_queue[1], t)
    BY <1>1, <2>1
  <2> QED  BY <1>1, <1>2, <1>3, <2>1, <2>2
<1>5. q[Len(vpn_queue')] = goal
  BY <1>1, <1>2, <1>3
<1>6. ASSUME NEW i \in 1 .. Len(vpn_queue') PROVE q[i] = After(q[i - 1], vpn_queue'[i], t)
  <2>1. /\ i - 1 \in 0 .. Len(vpn_queue') /\ i \in 0 .. Len(vpn_queue')
        /\ i + 1 \in 1 .. Len(vpn_queue) /\ (i - 1) + 1 = i /\ (i + 1) - 1 = i
    BY <1>2
  <2>2. q[i - 1] = s[i] /\ q[i] = s[i + 1] /\ vpn_queue'[i] = vpn_queue[i + 1]
    BY <1>2, <1>3, <2>1
  <2>3. s[i + 1] = After(s[(i + 1) - 1], vpn_queue[i + 1], t)
    BY <1>1, <2>1
  <2> QED  BY <2>1, <2>2, <2>3
<1> QED  BY <1>3, <1>4, <1>5, <1>6 DEF Towards

\* What the cloud queues.
LEMMA AskStep ==
    ASSUME ClientInv, NEW c \in ClientOrders, vpn_queue' = Append(vpn_queue, c),
           clients' \in [Tools -> SUBSET Profiles], active' \in [Tools -> SUBSET Profiles],
           \A t \in Tools : active'[t] \subseteq clients'[t],
           \A t \in Tools : active'[t] = After(active[t], c, t),
           UNCHANGED Tunnels
    PROVE  ClientInv'
<1>1. ClientTypeOK' /\ HouseholdThrough'
  BY DEF ClientInv, ClientTypeOK, HouseholdThrough, Tunnels
<1>2. /\ {clients', active', confs', up'} \subseteq [Tools -> SUBSET Profiles]
      /\ cut_off' \in [Tools -> BOOLEAN] /\ vpn_queue' \in Seq(ClientOrders)
  BY DEF ClientInv, Tunnels
<1>3. ASSUME NEW t \in Tools, ~cut_off'[t] PROVE Towards(t, vpn_queue, active[t])'
  <2>1. Towards(t, vpn_queue, active[t]) /\ active[t] \in SUBSET Profiles
    BY <1>3 DEF ClientInv, Tunnels
  <2>2. Towards(t, vpn_queue', active'[t])
    BY <2>1, TowardsGrows DEF ClientInv
  <2>3. up'[t] = up[t]
    BY DEF Tunnels
  <2> QED  BY <2>2, <2>3 DEF Towards
<1> QED  BY <1>1, <1>2, <1>3 DEF ClientInv

\* What the box runs: a command either does to the tunnels of its tool what it says, or is held
\* against that tool.
LEMMA RunStep ==
    ASSUME ClientInv, vpn_queue # <<>>, vpn_queue' = Tail(vpn_queue), UNCHANGED ClientsListed,
           {confs', up'} \subseteq [Tools -> SUBSET Profiles], cut_off' \in [Tools -> BOOLEAN],
           ClientTypeOK', HouseholdThrough',
           \A t \in Tools : ~cut_off'[t] => /\ ~cut_off[t]
                                           /\ up'[t] = After(up[t], Head(vpn_queue), t)
    PROVE  ClientInv'
<1>1. /\ {clients', active', confs', up'} \subseteq [Tools -> SUBSET Profiles]
      /\ vpn_queue' \in Seq(ClientOrders)
  BY DEF ClientInv, ClientsListed
<1>2. ASSUME NEW t \in Tools, ~cut_off'[t] PROVE Towards(t, vpn_queue, active[t])'
  <2>1. Towards(t, vpn_queue, active[t]) /\ up'[t] = After(up[t], Head(vpn_queue), t) /\ active' = active
    BY <1>2 DEF ClientInv, ClientsListed
  <2>2. \A g : g = active[t] => Towards(t, vpn_queue, g)'
    BY <2>1, TowardsRuns DEF ClientInv
  <2> QED  BY <2>1, <2>2
<1> QED  BY <1>1, <1>2 DEF ClientInv

LEMMA CloudStep ==
    ASSUME ClientInv, NEW t \in Tools, NEW p \in Profiles,
           ClientAdd(t, p) \/ ClientStart(t, p) \/ ClientStop(t, p) \/ ClientDelete(t, p)
    PROVE  ClientInv'
<1> DEFINE c(op) == [op |-> op, tool |-> t, what |-> p]
<1>1. /\ clients \in [Tools -> SUBSET Profiles] /\ active \in [Tools -> SUBSET Profiles]
      /\ \A x \in Tools : active[x] \subseteq clients[x]
  BY DEF ClientInv, ClientTypeOK
<1>2. \A op \in {"add", "start", "stop", "remove"} : c(op) \in ClientOrders
  BY DEF ClientOrders
<1>3. \A op : c(op).op = op /\ c(op).tool = t /\ c(op).what = p
  OBVIOUS
<1>4. CASE ClientAdd(t, p)
  <2>1. /\ vpn_queue' = Append(vpn_queue, c("add")) /\ UNCHANGED Tunnels /\ active' = active
        /\ clients' = [clients EXCEPT ![t] = @ \cup {p}]
    BY <1>4 DEF ClientAdd, Ask
  <2> HIDE DEF c
  <2>2. \A x \in Tools : active'[x] = After(active[x], c("add"), x)
    BY <1>3, <2>1 DEF After
  <2> QED  BY <1>1, <1>2, <2>1, <2>2, AskStep
<1>5. CASE ClientStart(t, p)
  <2>1. /\ vpn_queue' = Append(vpn_queue, c("start")) /\ UNCHANGED Tunnels /\ clients' = clients
        /\ active' = [active EXCEPT ![t] = {p}] /\ p \in clients[t]
    BY <1>5 DEF ClientStart, Ask, Activated
  <2> HIDE DEF c
  <2>2. \A x \in Tools : active'[x] = After(active[x], c("start"), x)
    BY <1>1, <1>3, <2>1 DEF After
  <2> QED  BY <1>1, <1>2, <2>1, <2>2, AskStep
<1>6. CASE ClientStop(t, p)
  <2>1. /\ vpn_queue' = Append(vpn_queue, c("stop")) /\ UNCHANGED Tunnels /\ clients' = clients
        /\ active' = [active EXCEPT ![t] = @ \ {p}]
    BY <1>6 DEF ClientStop, Ask
  <2> HIDE DEF c
  <2>2. \A x \in Tools : active'[x] = After(active[x], c("stop"), x)
    BY <1>1, <1>3, <2>1 DEF After
  <2> QED  BY <1>1, <1>2, <2>1, <2>2, AskStep
<1>7. CASE ClientDelete(t, p)
  <2>1. /\ vpn_queue' = Append(vpn_queue, c("remove")) /\ UNCHANGED Tunnels
        /\ clients' = [clients EXCEPT ![t] = @ \ {p}] /\ active' = [active EXCEPT ![t] = @ \ {p}]
    BY <1>7 DEF ClientDelete, Ask
  <2> HIDE DEF c
  <2>2. \A x \in Tools : active'[x] = After(active[x], c("remove"), x)
    BY <1>1, <1>3, <2>1 DEF After
  <2> QED  BY <1>1, <1>2, <2>1, <2>2, AskStep
<1> QED  BY <1>4, <1>5, <1>6, <1>7

LEMMA RouteAskStep ==
    ASSUME ClientInv, NEW g \in Gadgets, NEW p \in Profiles \cup {None}, RouteDevice(g, p)
    PROVE  ClientInv'
<1> DEFINE c == [op |-> "route", tool |-> "wg", what |-> <<g, p>>]
<1>1. c \in ClientOrders
  BY DEF ClientOrders
<1>2. vpn_queue' = Append(vpn_queue, c) /\ UNCHANGED <<clients, active, Tunnels>>
  BY DEF RouteDevice, Ask
<1>3. c.op = "route"
  OBVIOUS
<1> HIDE DEF c
<1>4. \A x \in Tools : active'[x] = After(active[x], c, x)
  BY <1>2, <1>3 DEF After
<1> QED  BY <1>1, <1>2, <1>4, AskStep DEF ClientInv, ClientTypeOK

LEMMA StoppedStep ==
    ASSUME ClientInv, NEW t \in Tools, NEW p \in Profiles, Stopped(t, p),
           mark_of' = mark_of, confs' \in [Tools -> SUBSET Profiles],
           \A x \in Tools : confs'[x] \subseteq confs[x], UNCHANGED ClientsListed
    PROVE  /\ up' = [up EXCEPT ![t] = @ \ {p}] /\ up' \in [Tools -> SUBSET Profiles]
           /\ ClientTypeOK' /\ HouseholdThrough'
<1>1. up' = [up EXCEPT ![t] = @ \ {p}] /\ up \in [Tools -> SUBSET Profiles]
  BY DEF Stopped, ClientInv
<1>2. table \in Profiles \cup {None} /\ mark_all \in BOOLEAN /\ rule \in BOOLEAN
  BY DEF ClientInv, ClientTypeOK
<1>3. /\ table' \in Profiles \cup {None} /\ mark_all' \in BOOLEAN /\ rule' \in BOOLEAN
  BY <1>2 DEF Stopped, Policy, RouteAfter, NoneLeft
<1>4. ClientTypeOK'
  BY <1>3 DEF ClientInv, ClientTypeOK, ClientsListed
<1>5. HouseholdThrough'
  <2>1. CASE t # "wg"
    BY <1>1, <2>1 DEF Stopped, Policy, ClientInv, HouseholdThrough, Tools
  <2>2. CASE t = "wg" /\ up'["wg"] = {}
    BY <2>2 DEF HouseholdThrough
  <2>3. CASE t = "wg" /\ up'["wg"] # {}
    <3>1. up'["wg"] = up["wg"] \ {p}
      BY <1>1, <2>3 DEF Tools
    <3>2. PICK x \in up["wg"] : up["wg"] = {x} /\ up'["wg"] = {x} /\ mark_all /\ rule /\ table = x
      BY <2>3, <3>1 DEF ClientInv, HouseholdThrough
    <3>3. table' = x /\ UNCHANGED <<mark_all, rule>>
      BY <2>3, <3>2 DEF Stopped, NoneLeft, RouteAfter
    <3> QED  BY <3>2, <3>3 DEF HouseholdThrough
  <2> QED  BY <2>1, <2>2, <2>3
<1> QED  BY <1>1, <1>4, <1>5

LEMMA StartStep ==
    ASSUME ClientInv, NEW t \in Tools, NEW p \in Profiles, BoxStart(t, p), UNCHANGED ClientsListed
    PROVE  /\ up' \in [Tools -> SUBSET Profiles] /\ cut_off' \in [Tools -> BOOLEAN]
           /\ ClientTypeOK' /\ HouseholdThrough'
           /\ \A x \in Tools : ~cut_off'[x] => /\ ~cut_off[x]
                                             /\ up'[x] = IF x = t THEN {p} ELSE up[x]
<1>1. /\ up \in [Tools -> SUBSET Profiles] /\ cut_off \in [Tools -> BOOLEAN]
      /\ confs' = confs /\ mark_of' = mark_of /\ HouseholdThrough
      /\ table \in Profiles \cup {None} /\ mark_all \in BOOLEAN /\ rule \in BOOLEAN
  BY DEF ClientInv, ClientTypeOK, BoxStart
<1>2. ASSUME table' \in Profiles \cup {None}, mark_all' \in BOOLEAN, rule' \in BOOLEAN
      PROVE  ClientTypeOK'
  BY <1>1, <1>2 DEF ClientInv, ClientTypeOK, ClientsListed
<1>3. CASE Strays(t) /\ UNCHANGED <<up, Policy>>
  <2>1. ClientTypeOK' /\ HouseholdThrough'
    BY <1>1, <1>2, <1>3 DEF Policy, HouseholdThrough
  <2> QED  BY <1>1, <1>3, <2>1 DEF Strays
<1>4. CASE /\ up' = [up EXCEPT ![t] = {p}] /\ UNCHANGED cut_off
           /\ IF t = "wg" THEN mark_all' = TRUE /\ rule' = TRUE /\ table' = p ELSE UNCHANGED Policy
  <2>1. ClientTypeOK'
    BY <1>1, <1>2, <1>4 DEF Policy
  <2>2. HouseholdThrough'
    BY <1>1, <1>4 DEF Policy, HouseholdThrough, Tools
  <2> QED  BY <1>1, <1>4, <2>1, <2>2
<1>5. CASE /\ up' = [up EXCEPT ![t] = {}] /\ Strays(t) /\ UNCHANGED <<mark_all, rule>>
           /\ table' = (IF t = "wg" THEN RouteAfter({}) ELSE table)
  <2>1. ClientTypeOK'
    BY <1>1, <1>2, <1>5 DEF RouteAfter
  <2>2. HouseholdThrough'
    BY <1>1, <1>5 DEF HouseholdThrough, Tools
  <2> QED  BY <1>1, <1>5, <2>1, <2>2 DEF Strays
<1> QED  BY <1>3, <1>4, <1>5 DEF BoxStart

LEMMA RunsStep == ASSUME ClientInv, ClientRuns PROVE ClientInv'
<1> DEFINE c == Head(vpn_queue)
<1>1. /\ c \in ClientOrders /\ vpn_queue # <<>> /\ vpn_queue' = Tail(vpn_queue)
      /\ UNCHANGED ClientsListed
  BY DEF ClientRuns, ClientInv, Ran
<1>2. /\ up \in [Tools -> SUBSET Profiles] /\ cut_off \in [Tools -> BOOLEAN]
      /\ confs \in [Tools -> SUBSET Profiles] /\ HouseholdThrough /\ ClientTypeOK
  BY DEF ClientInv
<1>3. \/ c.op = "add" /\ BoxAdd(c.tool, c.what)
      \/ c.op = "start" /\ BoxStart(c.tool, c.what)
      \/ c.op = "stop" /\ BoxStop(c.tool, c.what)
      \/ c.op = "remove" /\ BoxRemove(c.tool, c.what)
      \/ c.op = "route" /\ BoxRoute(c.what[1], c.what[2])
  BY <1>1 DEF ClientRuns, ClientOrders
<1>4. /\ c.tool \in Tools
      /\ c.op # "route" => c.what \in Profiles
      /\ c.op = "route" => c.what[1] \in Gadgets /\ c.what[2] \in Profiles \cup {None}
  BY <1>1 DEF ClientOrders, Tools
<1> HIDE DEF c
<1>5. ASSUME {confs', up'} \subseteq [Tools -> SUBSET Profiles], cut_off' \in [Tools -> BOOLEAN],
             ClientTypeOK', HouseholdThrough',
             \A t \in Tools : ~cut_off'[t] => ~cut_off[t] /\ up'[t] = After(up[t], c, t)
      PROVE  ClientInv'
  BY <1>1, <1>5, RunStep DEF c
<1>6. CASE c.op = "add" /\ BoxAdd(c.tool, c.what)
  <2>1. /\ UNCHANGED <<up, mark_of, mark_all, rule, table>>
        /\ \/ Strays(c.tool) /\ confs' = confs
           \/ confs' = [confs EXCEPT ![c.tool] = @ \cup {c.what}] /\ c.what # Nameless /\ UNCHANGED cut_off
    BY <1>6 DEF BoxAdd, Policy
  <2>2. /\ confs' \in [Tools -> SUBSET Profiles] /\ cut_off' \in [Tools -> BOOLEAN]
        /\ \A t \in Tools : ~cut_off'[t] => ~cut_off[t]
    <3>1. CASE Strays(c.tool) /\ confs' = confs
      <4>1. confs' \in [Tools -> SUBSET Profiles]  BY <1>2, <3>1
      <4>2. /\ cut_off' \in [Tools -> BOOLEAN]
            /\ \A t \in Tools : ~cut_off'[t] => ~cut_off[t]
        BY <1>2, <1>4, <3>1 DEF Strays
      <4> QED  BY <4>1, <4>2
    <3>2. CASE confs' = [confs EXCEPT ![c.tool] = @ \cup {c.what}] /\ UNCHANGED cut_off
      <4>1. c.what \in Profiles  BY <1>4, <1>6
      <4>2. confs' \in [Tools -> SUBSET Profiles]  BY <1>2, <1>4, <3>2, <4>1
      <4> QED  BY <1>2, <3>2, <4>2
    <3> QED  BY <2>1, <3>1, <3>2
  <2>3. ClientTypeOK' /\ HouseholdThrough'
    BY <1>1, <1>2, <1>4, <1>6, <2>1 DEF ClientTypeOK, HouseholdThrough, ClientsListed
  <2>4. \A t \in Tools : up'[t] = After(up[t], c, t)
    BY <1>6, <2>1 DEF After
  <2> QED  BY <1>2, <1>5, <2>1, <2>2, <2>3, <2>4
<1>7. CASE c.op = "start" /\ BoxStart(c.tool, c.what)
  <2>1. /\ up' \in [Tools -> SUBSET Profiles] /\ cut_off' \in [Tools -> BOOLEAN]
        /\ ClientTypeOK' /\ HouseholdThrough'
        /\ \A x \in Tools : ~cut_off'[x] => /\ ~cut_off[x]
                                          /\ up'[x] = IF x = c.tool THEN {c.what} ELSE up[x]
    BY <1>1, <1>4, <1>7, StartStep
  <2>2. confs' = confs
    BY <1>7 DEF BoxStart
  <2>3. \A t \in Tools : ~cut_off'[t] => ~cut_off[t] /\ up'[t] = After(up[t], c, t)
    BY <1>7, <2>1 DEF After
  <2> QED  BY <1>2, <1>5, <2>1, <2>2, <2>3
<1>8. CASE c.op = "stop" /\ BoxStop(c.tool, c.what)
  <2>1. UNCHANGED <<confs, mark_of, cut_off>> /\ Stopped(c.tool, c.what)
    BY <1>8 DEF BoxStop
  <2>2. /\ up' = [up EXCEPT ![c.tool] = @ \ {c.what}] /\ up' \in [Tools -> SUBSET Profiles]
        /\ ClientTypeOK' /\ HouseholdThrough'
    BY <1>1, <1>2, <1>4, <1>8, <2>1, StoppedStep
  <2>3. \A t \in Tools : up'[t] = After(up[t], c, t)
    BY <1>2, <1>8, <2>2 DEF After
  <2> QED  BY <1>2, <1>5, <2>1, <2>2, <2>3
<1>9. CASE c.op = "remove" /\ BoxRemove(c.tool, c.what)
  <2>1. UNCHANGED <<mark_of, cut_off>> /\ confs' = [confs EXCEPT ![c.tool] = @ \ {c.what}]
    BY <1>9 DEF BoxRemove
  <2>2. /\ confs' \in [Tools -> SUBSET Profiles]
        /\ \A x \in Tools : confs'[x] \subseteq confs[x]
    BY <1>2, <1>4, <2>1
  <2>3. CASE c.what \in up[c.tool]
    <3>1. Stopped(c.tool, c.what)
      BY <1>9, <2>3 DEF BoxRemove
    <3>2. /\ up' = [up EXCEPT ![c.tool] = @ \ {c.what}] /\ up' \in [Tools -> SUBSET Profiles]
          /\ ClientTypeOK' /\ HouseholdThrough'
      BY <1>1, <1>4, <1>9, <2>1, <2>2, <3>1, StoppedStep
    <3>3. \A t \in Tools : up'[t] = After(up[t], c, t)
      BY <1>2, <1>9, <3>2 DEF After
    <3> QED  BY <1>2, <1>5, <2>1, <2>2, <3>2, <3>3
  <2>4. CASE c.what \notin up[c.tool]
    <3>1. UNCHANGED <<up, mark_all, rule, table>>
      BY <1>9, <2>4 DEF BoxRemove, Policy
    <3>2. ClientTypeOK' /\ HouseholdThrough'
      BY <1>1, <1>2, <2>1, <2>2, <3>1 DEF ClientTypeOK, HouseholdThrough, ClientsListed
    <3>3. \A t \in Tools : up'[t] = After(up[t], c, t)
      BY <1>2, <1>4, <1>9, <2>4, <3>1 DEF After
    <3> QED  BY <1>2, <1>5, <2>1, <2>2, <3>1, <3>2, <3>3
  <2> QED  BY <2>3, <2>4
<1>10. CASE c.op = "route" /\ BoxRoute(c.what[1], c.what[2])
  <2>1. /\ UNCHANGED <<confs, up, mark_all, table, cut_off>>
        /\ mark_of' \subseteq mark_of \cup {c.what[1]}
        /\ rule' = (rule \/ c.what[2] # None)
    BY <1>10 DEF BoxRoute
  <2>2. ClientTypeOK' /\ HouseholdThrough'
    BY <1>1, <1>2, <1>4, <1>10, <2>1 DEF ClientTypeOK, HouseholdThrough, ClientsListed
  <2>3. \A t \in Tools : up'[t] = After(up[t], c, t)
    BY <1>10, <2>1 DEF After
  <2> QED  BY <1>2, <1>5, <2>1, <2>2, <2>3
<1> QED  BY <1>3, <1>6, <1>7, <1>8, <1>9, <1>10

LEMMA ClientStep == ASSUME ClientInv, ClientNext PROVE ClientInv'
<1>1. CASE ClientLoses
  <2> DEFINE t == Head(vpn_queue).tool
  <2>1. Head(vpn_queue) \in ClientOrders /\ t \in Tools
    BY <1>1 DEF ClientLoses, ClientInv, ClientOrders, Tools
  <2>2. /\ vpn_queue # <<>> /\ vpn_queue' = Tail(vpn_queue) /\ UNCHANGED ClientsListed
        /\ cut_off' = [cut_off EXCEPT ![t] = TRUE]
        /\ UNCHANGED <<confs, up, mark_of, mark_all, rule, table>>
    BY <1>1 DEF ClientLoses, Ran, Strays, Policy
  <2>3. ClientTypeOK' /\ HouseholdThrough'
    BY <2>2 DEF ClientInv, ClientTypeOK, HouseholdThrough, ClientsListed
  <2>4. \A x \in Tools : ~cut_off'[x] => ~cut_off[x] /\ up'[x] = After(up[x], Head(vpn_queue), x)
    BY <2>1, <2>2 DEF After, ClientInv
  <2>5. {confs', up'} \subseteq [Tools -> SUBSET Profiles] /\ cut_off' \in [Tools -> BOOLEAN]
    BY <2>1, <2>2 DEF ClientInv
  <2> QED  BY <2>2, <2>3, <2>4, <2>5, RunStep
<1>2. CASE DaemonEnds
  <2>1. /\ up' = [up EXCEPT !["ovpn"] = {}] /\ cut_off' = [cut_off EXCEPT !["ovpn"] = TRUE]
        /\ UNCHANGED <<clients, active, vpn_queue, confs, mark_of, mark_all, rule, table>>
    BY <1>2 DEF DaemonEnds, Strays, ClientsListed, Policy
  <2>2. ClientTypeOK' /\ HouseholdThrough'
    BY <2>1 DEF ClientInv, ClientTypeOK, HouseholdThrough, Tools
  <2>3. /\ {clients', active', confs', up'} \subseteq [Tools -> SUBSET Profiles]
        /\ cut_off' \in [Tools -> BOOLEAN] /\ vpn_queue' \in Seq(ClientOrders)
    BY <2>1 DEF ClientInv
  <2>4. ASSUME NEW t \in Tools, ~cut_off'[t] PROVE Towards(t, vpn_queue, active[t])'
    BY <2>1, <2>4 DEF ClientInv, Towards, Tools
  <2> QED  BY <2>2, <2>3, <2>4 DEF ClientInv
<1> QED  BY <1>1, <1>2, CloudStep, RouteAskStep, RunsStep DEF ClientNext

-----------------------------------------------------------------------------
(* VpnServers                                                              *)

LEMMA VpnInitial == VpnInit => VpnInv
<1> SUFFICES ASSUME VpnInit PROVE VpnInv
  OBVIOUS
<1>1. VpnTypeOK /\ AwgListedServed /\ ConfSound
  BY DEF VpnInit, VpnTypeOK, AwgListedServed, ConfSound, OneAddressEach
<1>2. QueueSound /\ AnswersTrue
  BY DEF VpnInit, QueueSound, AnswersTrue
<1>3. vpn_orders \in 0 .. MaxVpnOrders /\ box_queue \in Seq(VpnCommands)
  BY VpnAssumption DEF VpnInit
<1> QED  BY <1>1, <1>2, <1>3 DEF VpnInv

\* A set of numbers that is not empty has a first one.
LEMMA FirstExists ==
    ASSUME NEW T \in SUBSET Nat, T # {}
    PROVE  \E i \in T : \A j \in T : i <= j
<1> DEFINE less == {ss \in Nat \X Nat : ss[1] < ss[2]}
<1>1. PICK x \in T : \A y \in T : ~(<<y, x>> \in less)
  BY Order!NatLessThanWellFounded, Order!WFMin DEF Order!OpToRel
<1>2. \A y \in T : ~(y < x)
  BY <1>1
<1> QED  BY <1>2

\* The address of a new peer is one no peer has.
LEMMA NextIpFree == Free # {} => NextIp \in Pool /\ NextIp \notin Used
<1> SUFFICES ASSUME Free # {} PROVE NextIp \in Free
  BY DEF Free
<1>1. Free \in SUBSET Nat
  BY VpnAssumption DEF Free, Pool, FirstHost
<1>2. \E ip \in Free : \A other \in Free : ip <= other
  BY <1>1, FirstExists
<1> QED  BY <1>2 DEF NextIp

\* A command goes to the end of the queue.
LEMMA OrderStep ==
    ASSUME VpnInv, NEW op, NEW what, VpnOrder(op, what), UNCHANGED <<answers, awgVars>>,
           op \in UserOps \cup {"awg-setup", "awg-peer-add", "awg-peer-remove"},
           what \in Users \cup {None} \cup 1 .. vpn_orders,
           \/ waiting' = waiting
           \/ op = "awg-peer-add" /\ waiting' = waiting \cup {vpn_orders + 1},
           op \in UserOps => what \in Users \cup {None},
           op = "ipsec-user-add" => what # None,
           awg_peers' \subseteq awg_peers,
           op = "awg-peer-remove" => what \in (1 .. vpn_orders) \ (awg_peers' \cup waiting)
    PROVE  /\ vpn_orders' = vpn_orders + 1 /\ vpn_orders' \in 0 .. MaxVpnOrders
           /\ box_queue' \in Seq(VpnCommands)
           /\ QueueSound' /\ AnswersTrue' /\ AwgListedServed' /\ ConfSound'
<1> DEFINE c == [id |-> vpn_orders + 1, op |-> op, what |-> what]
<1>1. /\ vpn_orders' = vpn_orders + 1 /\ vpn_orders' \in 0 .. MaxVpnOrders
      /\ box_queue' = Append(box_queue, c)
  BY VpnAssumption DEF VpnOrder, VpnInv
<1>2. c \in VpnCommands /\ box_queue \in Seq(VpnCommands)
  BY <1>1, VpnAssumption DEF VpnInv, VpnCommands
<1>3. c.id = vpn_orders + 1 /\ c.op = op /\ c.what = what
  OBVIOUS
<1> HIDE DEF c
<1>4. /\ box_queue' \in Seq(VpnCommands) /\ Len(box_queue) \in Nat
      /\ DOMAIN box_queue = 1 .. Len(box_queue)
      /\ DOMAIN box_queue' = 1 .. Len(box_queue) + 1
      /\ box_queue'[Len(box_queue) + 1] = c
      /\ \A i \in DOMAIN box_queue : box_queue'[i] = box_queue[i]
  BY <1>1, <1>2
<1>5. \A i \in DOMAIN box_queue' :
         \/ i \in DOMAIN box_queue /\ box_queue'[i] = box_queue[i]
         \/ i = Len(box_queue) + 1 /\ box_queue'[i] = c
  BY <1>4
<1>6. /\ QueueSound /\ AnswersTrue /\ AwgListedServed /\ ConfSound
      /\ waiting \subseteq 1 .. vpn_orders /\ vpn_orders \in Nat
  BY DEF VpnInv, VpnTypeOK
<1>7. answers[vpn_orders + 1] = None
  BY <1>1, <1>6 DEF AnswersTrue
<1>8. \A i \in DOMAIN box_queue : box_queue[i].id \in 1 .. vpn_orders
  BY <1>6 DEF QueueSound
<1>9. ASSUME NEW i \in DOMAIN box_queue', NEW j \in DOMAIN box_queue', box_queue'[i].id = box_queue'[j].id
      PROVE  i = j
  BY <1>3, <1>5, <1>6, <1>8, <1>9 DEF QueueSound
<1>10. ASSUME NEW i \in DOMAIN box_queue'
       PROVE  LET d == box_queue'[i] IN
              /\ d.id \in 1 .. vpn_orders' /\ answers'[d.id] = None
              /\ d.id \in waiting' => d.op = "awg-peer-add"
              /\ d.op \in UserOps => d.what \in Users \cup {None}
              /\ d.op = "ipsec-user-add" => d.what # None
              /\ d.op = "awg-peer-remove" => d.what \in (1 .. vpn_orders') \ (awg_peers' \cup waiting')
  <2>1. CASE i \in DOMAIN box_queue /\ box_queue'[i] = box_queue[i]
    BY <1>1, <1>6, <2>1 DEF QueueSound
  <2>2. CASE box_queue'[i] = c
    BY <1>1, <1>3, <1>6, <1>7, <2>2
  <2> QED  BY <1>5, <2>1, <2>2
<1>11. QueueSound'
  BY <1>9, <1>10 DEF QueueSound
<1>12. AnswersTrue'
  <2>1. \A o \in waiting' : o \in waiting \/ (o = vpn_orders + 1 /\ o \notin awg_peers)
    <3>1. awg_peers \subseteq 1 .. vpn_orders
      BY DEF VpnInv, VpnTypeOK
    <3>2. vpn_orders + 1 \notin awg_peers
      BY <1>6, <3>1
    <3> QED  BY <3>2
  <2>2. \A o \in waiting' : /\ o \notin awg_peers'
                            /\ answers'[o] = "completed"
                                 => o \in awg_lost' \/ \E q \in awg_server' : q.id = o
    BY <1>6, <1>7, <2>1, VpnAssumption DEF AnswersTrue, awgVars
  <2>3. \A o \in 1 .. MaxVpnOrders : o > vpn_orders' => answers'[o] = None
    BY <1>1, <1>6 DEF AnswersTrue
  <2> QED  BY <1>6, <2>2, <2>3 DEF AnswersTrue
<1>13. AwgListedServed' /\ ConfSound'
  BY <1>6 DEF AwgListedServed, ConfSound, OneAddressEach, awgVars
<1> QED  BY <1>1, <1>4, <1>11, <1>12, <1>13

\* The first command leaves the queue: nobody has answered the others, whatever it is answered.
LEMMA HeadLeaves ==
    ASSUME VpnInv, box_queue # <<>>, box_queue' = Tail(box_queue),
           UNCHANGED <<vpn_orders, waiting, awg_peers>>,
           \A o \in 1 .. MaxVpnOrders : o # Head(box_queue).id => answers'[o] = answers[o]
    PROVE  QueueSound' /\ box_queue' \in Seq(VpnCommands)
<1>1. box_queue \in Seq(VpnCommands) /\ QueueSound /\ vpn_orders \in 0 .. MaxVpnOrders
  BY DEF VpnInv
<1>2. /\ box_queue' \in Seq(VpnCommands) /\ Len(box_queue) \in Nat
      /\ DOMAIN box_queue = 1 .. Len(box_queue)
      /\ DOMAIN box_queue' = 1 .. Len(box_queue) - 1
      /\ Head(box_queue) = box_queue[1] /\ 1 \in DOMAIN box_queue
      /\ \A i \in DOMAIN box_queue' : box_queue'[i] = box_queue[i + 1]
  BY <1>1
<1>3. \A i \in DOMAIN box_queue' : i + 1 \in DOMAIN box_queue /\ i + 1 # 1 /\ i \in Nat
  BY <1>2
<1>4. \A i, j \in DOMAIN box_queue' : box_queue'[i].id = box_queue'[j].id => i = j
  BY <1>1, <1>2, <1>3 DEF QueueSound
<1>5. ASSUME NEW i \in DOMAIN box_queue'
      PROVE  /\ box_queue'[i].id \in 1 .. vpn_orders /\ answers'[box_queue'[i].id] = None
  <2>1. box_queue[i + 1].id \in 1 .. vpn_orders /\ answers[box_queue[i + 1].id] = None
    BY <1>1, <1>3 DEF QueueSound
  <2>2. box_queue[i + 1].id # Head(box_queue).id
    BY <1>1, <1>2, <1>3 DEF QueueSound
  <2> QED  BY <1>1, <1>2, <2>1, <2>2, VpnAssumption
<1>6. QueueSound'
  BY <1>1, <1>2, <1>3, <1>4, <1>5 DEF QueueSound
<1> QED  BY <1>2, <1>6

LEMMA RunUserStep ==
    ASSUME VpnInv, NEW c, box_queue # <<>>, c = Head(box_queue), c.op \in UserOps, RunUser(c)
    PROVE  VpnInv'
<1>1. /\ box_queue \in Seq(VpnCommands) /\ QueueSound /\ AnswersTrue /\ AwgListedServed /\ ConfSound
      /\ VpnTypeOK /\ vpn_orders \in 0 .. MaxVpnOrders
  BY DEF VpnInv
<1>2. /\ c = box_queue[1] /\ 1 \in DOMAIN box_queue /\ c \in VpnCommands
  BY <1>1
<1>3. /\ c.id \in 1 .. vpn_orders /\ c.id \notin waiting
      /\ c.what \in Users \cup {None} /\ (c.op = "ipsec-user-add" => c.what # None)
  BY <1>1, <1>2 DEF QueueSound, UserOps
<1>4. PICK answer \in {"completed", "failed"} : Done(c, answer)
  BY DEF RunUser
<1>5. /\ box_queue' = Tail(box_queue) /\ UNCHANGED <<vpn_orders, awgVars>>
      /\ answers' = [answers EXCEPT ![c.id] = answer]
      /\ UNCHANGED <<WireGuard, Cloud>>
  BY <1>4 DEF RunUser, Done
<1>6. /\ answers' \in [1 .. MaxVpnOrders -> {None, "completed", "failed"}]
      /\ \A o \in 1 .. MaxVpnOrders : o # c.id => answers'[o] = answers[o]
  BY <1>1, <1>3, <1>5 DEF AnswersTrue
<1>7. QueueSound' /\ box_queue' \in Seq(VpnCommands)
  BY <1>5, <1>6, HeadLeaves DEF Cloud
<1>8. AnswersTrue'
  BY <1>1, <1>3, <1>5, <1>6 DEF AnswersTrue, Cloud, VpnTypeOK, awgVars
<1>9. AwgListedServed' /\ ConfSound'
  BY <1>1, <1>5 DEF AwgListedServed, ConfSound, OneAddressEach, Cloud, awgVars
<1>10. managed' # None => managed' \subseteq Users
  <2>1. managed # None => managed \subseteq Users
    BY <1>1 DEF VpnTypeOK
  <2>2. CASE c.op = "ipsec-setup"
    <3>1. managed' = {}  BY <2>2 DEF RunUser
    <3> QED  BY <3>1
  <2>3. CASE c.op = "ipsec-user-add"
    <3>1. managed' = IF Writable(c.what) THEN {c.what} ELSE managed  BY <2>3 DEF RunUser
    <3>2. c.what \in Users  BY <1>3, <2>3
    <3> QED  BY <2>1, <3>1, <3>2
  <2>4. CASE c.op = "ipsec-user-remove"
    <3>1. managed' = IF managed = None THEN None ELSE managed \ {c.what}  BY <2>4 DEF RunUser
    <3> QED  BY <2>1, <3>1
  <2> QED  BY <2>2, <2>3, <2>4 DEF UserOps
<1>11. refused' \subseteq Users
  <2>1. refused' = refused \/ (c.what # None /\ refused' = refused \cup {c.what})
    BY DEF RunUser
  <2> QED  BY <1>1, <1>3, <2>1 DEF VpnTypeOK
<1>12. VpnTypeOK'
  BY <1>1, <1>5, <1>10, <1>11 DEF VpnTypeOK, AwgPeers, WireGuard, Cloud, awgVars
<1> QED  BY <1>1, <1>5, <1>7, <1>8, <1>9, <1>12 DEF VpnInv

\* What a setup or a peer command leaves in the conf and in the interface.
AwgLoaded ==
    /\ awg_conf # None => awg_conf \subseteq AwgPeers /\ OneAddressEach(awg_conf)
    /\ awg_iface # None => /\ awg_conf # None /\ awg_iface \subseteq AwgPeers
                           /\ OneAddressEach(awg_iface)
    /\ ~awg_behind => awg_iface = awg_server

LEMMA SetIsSome ==
    ASSUME vpn_orders \in 0 .. MaxVpnOrders, NEW peers \in SUBSET AwgPeers
    PROVE  peers # None
<1>1. AwgPeers \subseteq [id : 1 .. MaxVpnOrders, ip : Pool]
  BY VpnAssumption DEF AwgPeers
<1> QED  BY <1>1, VpnAssumption

LEMMA UnwrittenSound ==
    ASSUME vpn_orders \in 0 .. MaxVpnOrders, NEW peers \in SUBSET AwgPeers, OneAddressEach(peers),
           AwgLoaded, NEW file \in Unwritten(peers) \cup {peers}
    PROVE  /\ file # None => file \subseteq AwgPeers /\ OneAddressEach(file)
           /\ awg_conf # None => file # None
  BY SetIsSome DEF Unwritten, AwgLoaded, OneAddressEach

LEMMA ReloadStep ==
    ASSUME vpn_orders \in 0 .. MaxVpnOrders, vpn_orders' = vpn_orders,
           awg_server' \in SUBSET AwgPeers, OneAddressEach(awg_server'),
           AwgLoaded, AwgReload(awg_server')
    PROVE  AwgLoaded' /\ awg_behind' \in BOOLEAN
<1>1. AwgPeers' = AwgPeers
  BY DEF AwgPeers
<1>2. CASE awg_conf' = awg_server' /\ awg_iface # None /\ awg_iface' = awg_server' /\ awg_behind' = FALSE
  BY <1>1, <1>2, SetIsSome DEF AwgLoaded, OneAddressEach
<1>3. CASE /\ awg_conf' \in Unwritten(awg_server') \cup {awg_server'}
           /\ awg_iface' = awg_iface \/ (awg_iface # None /\ awg_iface' = awg_conf')
           /\ awg_behind' = TRUE
  <2>1. /\ awg_conf' # None => awg_conf' \subseteq AwgPeers /\ OneAddressEach(awg_conf')
        /\ awg_conf # None => awg_conf' # None
    <3>1. PICK peers \in SUBSET AwgPeers : peers = awg_server'
      OBVIOUS
    <3>2. OneAddressEach(peers)
      BY <3>1
    <3>3. PICK file \in Unwritten(peers) \cup {peers} : file = awg_conf'
      BY <1>3, <3>1
    <3> QED  BY <3>2, <3>3, UnwrittenSound
  <2>2. awg_iface' # None => /\ awg_conf' # None /\ awg_iface' \subseteq AwgPeers
                             /\ OneAddressEach(awg_iface')
    BY <1>3, <2>1 DEF AwgLoaded
  <2> QED  BY <1>1, <1>3, <2>1, <2>2 DEF AwgLoaded, OneAddressEach
<1> QED  BY <1>2, <1>3 DEF AwgReload

LEMMA RunAwgStep ==
    ASSUME VpnInv, NEW c, box_queue # <<>>, c = Head(box_queue), c.op \notin UserOps, RunAwg(c)
    PROVE  VpnInv'
<1>1. /\ box_queue \in Seq(VpnCommands) /\ QueueSound /\ AnswersTrue /\ AwgListedServed /\ ConfSound
      /\ VpnTypeOK /\ vpn_orders \in 0 .. MaxVpnOrders
  BY DEF VpnInv
<1>2. /\ c = box_queue[1] /\ 1 \in DOMAIN box_queue /\ c \in VpnCommands
  BY <1>1
<1>3. /\ c.id \in 1 .. vpn_orders /\ answers[c.id] = None
      /\ c.id \in waiting => c.op = "awg-peer-add"
      /\ c.op = "awg-peer-remove" => c.what \in (1 .. vpn_orders) \ (awg_peers \cup waiting)
  BY <1>1, <1>2 DEF QueueSound
<1>4. awg_server \subseteq AwgPeers /\ OneAddressEach(awg_server) /\ awg_lost \subseteq 1 .. vpn_orders
  BY <1>1 DEF VpnTypeOK, AwgListedServed
<1>5. AwgLoaded /\ awg_set \in BOOLEAN /\ awg_behind \in BOOLEAN
  BY <1>1 DEF VpnTypeOK, AwgListedServed, ConfSound, AwgLoaded
<1>6. /\ box_queue' = Tail(box_queue) /\ UNCHANGED <<vpn_orders, managed, refused, WireGuard, Cloud>>
      /\ \E answer \in {"completed", "failed"} : answers' = [answers EXCEPT ![c.id] = answer]
  BY DEF RunAwg, AddPeer, RemovePeer, Done
<1>7. /\ answers' \in [1 .. MaxVpnOrders -> {None, "completed", "failed"}]
      /\ \A o \in 1 .. MaxVpnOrders : o # c.id => answers'[o] = answers[o]
      /\ AwgPeers' = AwgPeers
  BY <1>1, <1>3, <1>6 DEF AnswersTrue, AwgPeers
<1>8. ASSUME awg_server' \subseteq AwgPeers, OneAddressEach(awg_server'),
             awg_lost' \subseteq 1 .. vpn_orders, awg_lost \subseteq awg_lost',
             awg_set' \in BOOLEAN, awg_behind' \in BOOLEAN, AwgLoaded',
             \A q \in awg_server : \/ q \in awg_server' \/ q.id \in awg_lost'
                                   \/ c.op = "awg-peer-remove" /\ q.id = c.what,
             c.id \in waiting /\ answers'[c.id] = "completed" => \E q \in awg_server' : q.id = c.id
      PROVE  VpnInv'
  <2>1. QueueSound' /\ box_queue' \in Seq(VpnCommands)
    BY <1>6, <1>7, HeadLeaves DEF Cloud
  <2>2. \A o \in awg_peers \cup waiting :
           (o \in awg_lost \/ \E q \in awg_server : q.id = o)
             => o \in awg_lost' \/ \E q \in awg_server' : q.id = o
    BY <1>3, <1>8
  <2>3. \A o \in waiting : answers'[o] = "completed"
                            => o \in awg_lost' \/ \E q \in awg_server' : q.id = o
    <3>1. waiting \subseteq 1 .. MaxVpnOrders
      BY <1>1, VpnAssumption DEF VpnTypeOK
    <3>2. \A o \in waiting : o # c.id => answers'[o] = answers[o]
      BY <1>7, <3>1
    <3> QED  BY <1>1, <1>8, <2>2, <3>2 DEF AnswersTrue
  <2>4. \A o \in 1 .. MaxVpnOrders : o > vpn_orders => answers'[o] = None
    BY <1>1, <1>3, <1>7 DEF AnswersTrue
  <2>5. AnswersTrue'
    BY <1>1, <1>6, <1>7, <2>3, <2>4 DEF AnswersTrue, Cloud
  <2>6. AwgListedServed' /\ ConfSound'
    <3>1. \A p \in awg_peers' \ awg_lost' : \E q \in awg_server' : q.id = p
      BY <1>1, <1>6, <1>8, <2>2 DEF AwgListedServed, Cloud
    <3> QED  BY <1>8, <3>1 DEF AwgListedServed, ConfSound, AwgLoaded, OneAddressEach
  <2>7. VpnTypeOK'
    <3>1. /\ awg_conf' # None => awg_conf' \subseteq AwgPeers'
          /\ awg_iface' # None => awg_conf' # None /\ awg_iface' \subseteq AwgPeers'
      BY <1>8 DEF AwgLoaded
    <3> QED  BY <1>1, <1>6, <1>7, <1>8, <3>1 DEF VpnTypeOK, WireGuard, Cloud
  <2> QED  BY <1>1, <1>6, <2>1, <2>5, <2>6, <2>7 DEF VpnInv
<1>9. CASE c.op = "awg-setup" /\ AwgSetup
  <2>1. UNCHANGED <<awg_server, awg_lost>> /\ awg_set' \in BOOLEAN /\ awg_behind' \in BOOLEAN
    BY <1>5, <1>9 DEF AwgSetup
  <2>2. CASE UNCHANGED <<awg_conf, awg_iface, awg_behind>>
    <3>1. AwgLoaded'
      BY <1>5, <1>7, <2>1, <2>2 DEF AwgLoaded, OneAddressEach
    <3> QED  BY <1>3, <1>4, <1>8, <1>9, <2>1, <3>1 DEF OneAddressEach
  <2>3. CASE awg_conf' \in Unwritten(awg_server) /\ UNCHANGED awg_iface /\ awg_behind' = TRUE
    <3>1. /\ awg_conf' # None => awg_conf' \subseteq AwgPeers /\ OneAddressEach(awg_conf')
          /\ awg_conf # None => awg_conf' # None
      <4>1. PICK file \in Unwritten(awg_server) \cup {awg_server} : file = awg_conf'
        BY <2>3
      <4> QED  BY <1>1, <1>4, <1>5, <4>1, UnwrittenSound
    <3>2. AwgLoaded'
      BY <1>5, <1>7, <2>3, <3>1 DEF AwgLoaded, OneAddressEach
    <3> QED  BY <1>3, <1>4, <1>8, <1>9, <2>1, <3>2 DEF OneAddressEach
  <2>4. CASE /\ awg_conf' = awg_server
             /\ \/ awg_iface' = awg_server /\ awg_behind' = FALSE
                \/ awg_iface' \in {None, awg_iface} /\ awg_behind' = TRUE
    <3>1. awg_conf' # None
      BY <1>1, <1>4, <2>4, SetIsSome
    <3>2. AwgLoaded'
      BY <1>4, <1>5, <1>7, <2>1, <2>4, <3>1 DEF AwgLoaded, OneAddressEach
    <3> QED  BY <1>3, <1>4, <1>8, <1>9, <2>1, <3>2 DEF OneAddressEach
  <2> QED  BY <1>9, <2>2, <2>3, <2>4 DEF AwgSetup
<1>10. CASE c.op # "awg-setup" /\ PeersUnwritten /\ Done(c, "failed")
  <2>1. answers'[c.id] = "failed"
    <3>1. c.id \in DOMAIN answers
      BY <1>1, <1>3, VpnAssumption DEF AnswersTrue
    <3>2. answers' = [answers EXCEPT ![c.id] = "failed"]
      BY <1>10 DEF Done
    <3> QED  BY <3>1, <3>2
  <2>2. CASE UNCHANGED awgVars
    <3>1. AwgLoaded'
      BY <1>5, <1>7, <2>2 DEF AwgLoaded, OneAddressEach, awgVars
    <3> QED  BY <1>4, <1>5, <1>8, <2>1, <2>2, <3>1 DEF OneAddressEach, awgVars
  <2>3. CASE /\ awg_server' = {} /\ awg_lost' = awg_lost \cup {p.id : p \in awg_server}
             /\ awg_behind' = TRUE
             /\ UNCHANGED <<awg_set, awg_conf, awg_iface>>
    <3>1. AwgLoaded'
      BY <1>5, <1>7, <2>3 DEF AwgLoaded, OneAddressEach
    <3>2. awg_lost' \subseteq 1 .. vpn_orders /\ \A q \in awg_server : q.id \in awg_lost'
      BY <1>4, <2>3 DEF AwgPeers
    <3>3. OneAddressEach(awg_server') /\ awg_server' \subseteq AwgPeers
      BY <2>3 DEF OneAddressEach
    <3> QED  BY <1>5, <1>8, <2>1, <2>3, <3>1, <3>2, <3>3
  <2> QED  BY <1>10, <2>2, <2>3 DEF PeersUnwritten
<1>11. CASE /\ c.op = "awg-peer-add" /\ Free # {}
            /\ awg_server' = awg_server \cup {[id |-> c.id, ip |-> NextIp]}
            /\ AwgReload(awg_server')
            /\ UNCHANGED <<awg_set, awg_lost>>
  <2>1. NextIp \in Pool /\ \A q \in awg_server : q.ip # NextIp
    BY <1>11, NextIpFree DEF Used
  <2> DEFINE new == [id |-> c.id, ip |-> NextIp]
  <2>2. new \in AwgPeers /\ new.id = c.id /\ new.ip = NextIp
    BY <1>3, <2>1 DEF AwgPeers
  <2>3. awg_server' = awg_server \cup {new}
    BY <1>11
  <2> HIDE DEF new
  <2>4. awg_server' \in SUBSET AwgPeers
    BY <1>4, <2>2, <2>3
  <2>5. OneAddressEach(awg_server')
    BY <1>4, <2>1, <2>2, <2>3 DEF OneAddressEach
  <2>6. AwgLoaded' /\ awg_behind' \in BOOLEAN
    BY <1>1, <1>5, <1>6, <1>11, <2>4, <2>5, ReloadStep
  <2> QED  BY <1>4, <1>5, <1>8, <1>11, <2>2, <2>3, <2>4, <2>5, <2>6
<1>12. CASE /\ c.op = "awg-peer-remove"
            /\ awg_server' = {p \in awg_server : p.id # c.what}
            /\ \/ awg_set /\ AwgReload(awg_server')
               \/ ~awg_set /\ awg_behind' = TRUE /\ UNCHANGED <<awg_conf, awg_iface>>
            /\ UNCHANGED <<awg_set, awg_lost>>
  <2>1. awg_server' \in SUBSET AwgPeers /\ OneAddressEach(awg_server')
    BY <1>4, <1>12 DEF OneAddressEach
  <2>2. AwgLoaded' /\ awg_behind' \in BOOLEAN
    <3>1. CASE AwgReload(awg_server')
      BY <1>1, <1>5, <1>6, <2>1, <3>1, ReloadStep
    <3>2. CASE awg_behind' = TRUE /\ UNCHANGED <<awg_conf, awg_iface>>
      BY <1>5, <1>7, <3>2 DEF AwgLoaded, OneAddressEach
    <3> QED  BY <1>12, <3>1, <3>2
  <2>3. c.id \notin waiting
    BY <1>3, <1>12
  <2> QED  BY <1>4, <1>5, <1>8, <1>12, <2>1, <2>2, <2>3
<1> QED  BY <1>9, <1>10, <1>11, <1>12 DEF RunAwg, AddPeer, RemovePeer

LEMMA LoseStep == ASSUME VpnInv, BoxLoses PROVE VpnInv'
<1>1. /\ box_queue \in Seq(VpnCommands) /\ QueueSound /\ AnswersTrue /\ AwgListedServed /\ ConfSound
      /\ VpnTypeOK /\ vpn_orders \in 0 .. MaxVpnOrders
  BY DEF VpnInv
<1>2. /\ box_queue # <<>> /\ box_queue' = Tail(box_queue)
      /\ UNCHANGED <<WireGuard, Cloud, vpn_orders, answers, Box>>
  BY DEF BoxLoses
<1>3. QueueSound' /\ box_queue' \in Seq(VpnCommands)
  BY <1>2, HeadLeaves DEF Cloud, Box
<1>4. refused' \subseteq Users
  <2>1. Head(box_queue) = box_queue[1] /\ 1 \in DOMAIN box_queue
    BY <1>1, <1>2
  <2>2. Head(box_queue).op \in UserOps => Head(box_queue).what \in Users \cup {None}
    BY <1>1, <2>1 DEF QueueSound
  <2> QED  BY <1>1, <2>2 DEF BoxLoses, VpnTypeOK
<1>5. VpnTypeOK' /\ AnswersTrue'
  BY <1>1, <1>2, <1>4 DEF VpnTypeOK, AwgPeers, AnswersTrue, WireGuard, Cloud, Box, awgVars
<1>6. AwgListedServed' /\ ConfSound'
  BY <1>1, <1>2 DEF AwgListedServed, ConfSound, OneAddressEach, Cloud, Box, awgVars
<1> QED  BY <1>1, <1>2, <1>3, <1>5, <1>6 DEF VpnInv

LEMMA VpnStep == ASSUME VpnInv, BoxVpnStep PROVE VpnInv'
<1>1. /\ box_queue \in Seq(VpnCommands) /\ QueueSound /\ AnswersTrue /\ AwgListedServed /\ ConfSound
      /\ VpnTypeOK /\ vpn_orders \in 0 .. MaxVpnOrders
  BY DEF VpnInv
<1>2. ASSUME BoxRuns PROVE VpnInv'
  BY <1>2, RunUserStep, RunAwgStep DEF BoxRuns
<1>3. ASSUME AwgPeerAdd PROVE VpnInv'
  <2>1. /\ VpnOrder("awg-peer-add", None) /\ UNCHANGED <<WireGuard, ipsec_users, awg_peers, answers, Box, refused>>
        /\ waiting' = waiting \cup {vpn_orders + 1} /\ vpn_orders' = vpn_orders + 1
    BY <1>3 DEF AwgPeerAdd, VpnOrder
  <2>2. /\ vpn_orders' \in 0 .. MaxVpnOrders /\ box_queue' \in Seq(VpnCommands)
        /\ QueueSound' /\ AnswersTrue' /\ AwgListedServed' /\ ConfSound'
    BY <2>1, OrderStep DEF UserOps, Box
  <2>3. VpnTypeOK'
    BY <1>1, <2>1 DEF VpnTypeOK, AwgPeers, WireGuard, Box, awgVars
  <2> QED  BY <2>2, <2>3 DEF VpnInv
<1>4. ASSUME NEW op \in {"ipsec-setup", "awg-setup"}, Setup(op) PROVE VpnInv'
  <2>1. VpnOrder(op, None) /\ UNCHANGED <<WireGuard, Cloud, answers, Box, refused>>
    BY <1>4 DEF Setup
  <2>2. /\ vpn_orders' = vpn_orders + 1
        /\ vpn_orders' \in 0 .. MaxVpnOrders /\ box_queue' \in Seq(VpnCommands)
        /\ QueueSound' /\ AnswersTrue' /\ AwgListedServed' /\ ConfSound'
    BY <2>1, OrderStep DEF UserOps, Box, Cloud
  <2>3. VpnTypeOK'
    BY <1>1, <2>1, <2>2 DEF VpnTypeOK, AwgPeers, WireGuard, Box, awgVars, Cloud
  <2> QED  BY <2>2, <2>3 DEF VpnInv
<1>5. ASSUME NEW u \in Users, UserAdd(u) \/ UserDelete(u) PROVE VpnInv'
  <2>1. /\ VpnOrder("ipsec-user-add", u) \/ VpnOrder("ipsec-user-remove", u)
        /\ UNCHANGED <<WireGuard, awg_peers, waiting, answers, Box, refused>>
        /\ ipsec_users' \subseteq ipsec_users \cup {u}
    BY <1>5 DEF UserAdd, UserDelete
  <2>2. /\ vpn_orders' = vpn_orders + 1
        /\ vpn_orders' \in 0 .. MaxVpnOrders /\ box_queue' \in Seq(VpnCommands)
        /\ QueueSound' /\ AnswersTrue' /\ AwgListedServed' /\ ConfSound'
    BY <2>1, OrderStep, VpnAssumption DEF UserOps, Box
  <2>3. VpnTypeOK'
    BY <1>1, <2>1, <2>2 DEF VpnTypeOK, AwgPeers, WireGuard, Box, awgVars
  <2> QED  BY <2>2, <2>3 DEF VpnInv
<1>6. ASSUME NEW o \in waiting, WaitSees(o) \/ WaitOver(o) PROVE VpnInv'
  <2>1. /\ UNCHANGED <<WireGuard, ipsec_users, box_queue, vpn_orders, answers, Box, refused>>
        /\ waiting' = waiting \ {o}
        /\ \/ awg_peers' = awg_peers
           \/ awg_peers' = awg_peers \cup {o} /\ answers[o] \notin {None, "failed"}
    BY <1>6 DEF WaitSees, WaitOver
  <2>2. o \in 1 .. vpn_orders /\ o \in 1 .. MaxVpnOrders
    BY <1>1, VpnAssumption DEF VpnTypeOK
  <2>3. awg_peers' # awg_peers => o \in awg_lost \/ \E q \in awg_server : q.id = o
    BY <1>1, <2>1, <2>2 DEF AnswersTrue
  <2>4. AwgListedServed' /\ ConfSound'
    <3>1. UNCHANGED <<awg_server, awg_conf, awg_iface, awg_behind, awg_lost>>
      BY <2>1 DEF Box, awgVars
    <3>2. \A p \in awg_peers' \ awg_lost' : \E q \in awg_server' : q.id = p
      BY <1>1, <2>1, <2>3, <3>1 DEF AwgListedServed
    <3> QED  BY <1>1, <3>1, <3>2 DEF AwgListedServed, ConfSound, OneAddressEach
  <2>5. AnswersTrue'
    BY <1>1, <2>1 DEF AnswersTrue, Box, awgVars
  <2>6. VpnTypeOK'
    BY <1>1, <2>1, <2>2 DEF VpnTypeOK, AwgPeers, WireGuard, Box, awgVars
  <2>7. QueueSound'
    BY <1>1, <2>1 DEF QueueSound, Box
  <2> QED  BY <1>1, <2>1, <2>4, <2>5, <2>6, <2>7 DEF VpnInv
<1>7. ASSUME NEW p \in awg_peers, AwgPeerDelete(p) PROVE VpnInv'
  <2>1. /\ VpnOrder("awg-peer-remove", p) /\ awg_peers' = awg_peers \ {p}
        /\ UNCHANGED <<WireGuard, ipsec_users, waiting, answers, Box, refused>>
    BY <1>7 DEF AwgPeerDelete
  <2>2. p \in (1 .. vpn_orders) \ (awg_peers' \cup waiting)
    BY <1>1, <2>1 DEF VpnTypeOK, AnswersTrue
  <2>3. /\ vpn_orders' = vpn_orders + 1
        /\ vpn_orders' \in 0 .. MaxVpnOrders /\ box_queue' \in Seq(VpnCommands)
        /\ QueueSound' /\ AnswersTrue' /\ AwgListedServed' /\ ConfSound'
    BY <2>1, <2>2, OrderStep DEF UserOps, Box
  <2>4. VpnTypeOK'
    BY <1>1, <2>1, <2>3 DEF VpnTypeOK, AwgPeers, WireGuard, Box, awgVars
  <2> QED  BY <2>3, <2>4 DEF VpnInv
<1>8. ASSUME VpnBoxReboots PROVE VpnInv'
  <2>1. /\ awg_iface' = None /\ awg_behind' = TRUE
        /\ UNCHANGED <<WireGuard, Cloud, box_queue, vpn_orders, answers, managed, awg_set, awg_server,
                       awg_conf, awg_lost, refused>>
    BY <1>8 DEF VpnBoxReboots
  <2>2. VpnTypeOK' /\ AnswersTrue' /\ QueueSound'
    BY <1>1, <2>1 DEF VpnTypeOK, AwgPeers, AnswersTrue, QueueSound, WireGuard, Cloud
  <2>3. AwgListedServed' /\ ConfSound'
    BY <1>1, <2>1 DEF AwgListedServed, ConfSound, OneAddressEach, Cloud
  <2> QED  BY <1>1, <2>1, <2>2, <2>3 DEF VpnInv
<1> QED  BY <1>2, <1>3, <1>4, <1>5, <1>6, <1>7, <1>8, LoseStep DEF BoxVpnStep

-----------------------------------------------------------------------------
(* The VPNs together.                                                      *)

LEMMA VpnFrame == ASSUME VpnInv, UNCHANGED vpnVars PROVE VpnInv'
<1>1. VpnTypeOK' /\ AwgListedServed' /\ ConfSound'
  BY DEF VpnInv, vpnVars, awgVars, VpnTypeOK, AwgPeers, AwgListedServed, ConfSound, OneAddressEach
<1>2. QueueSound' /\ AnswersTrue'
  BY DEF VpnInv, vpnVars, awgVars, QueueSound, AnswersTrue
<1>3. vpn_orders' \in 0 .. MaxVpnOrders /\ box_queue' \in Seq(VpnCommands)
  BY DEF VpnInv, vpnVars
<1> QED  BY <1>1, <1>2, <1>3 DEF VpnInv

LEMMA ClientFrame == ASSUME ClientInv, UNCHANGED clientVars PROVE ClientInv'
<1>1. ClientTypeOK' /\ HouseholdThrough'
  BY DEF ClientInv, clientVars, ClientTypeOK, HouseholdThrough
<1>2. /\ {clients', active', confs', up'} \subseteq [Tools -> SUBSET Profiles]
      /\ cut_off' \in [Tools -> BOOLEAN] /\ vpn_queue' \in Seq(ClientOrders)
  BY DEF ClientInv, clientVars
<1>3. ASSUME NEW t \in Tools, ~cut_off'[t] PROVE Towards(t, vpn_queue, active[t])'
  BY <1>3 DEF ClientInv, clientVars, Towards
<1> QED  BY <1>1, <1>2, <1>3 DEF ClientInv

LEMMA VpnsStep == VpnInv /\ ClientInv /\ [Next]_householdVars => VpnInv' /\ ClientInv'
<1> SUFFICES ASSUME VpnInv, ClientInv, [Next]_householdVars PROVE VpnInv' /\ ClientInv'
  OBVIOUS
<1>1. (BoxVpnStep \/ UNCHANGED vpnVars) /\ (ClientNext \/ UNCHANGED clientVars)
  BY DEF Next, Time, AlarmStep, Mailing, FlowSeen, DailyUse, Network, VpnServing, VpnUse, Shape,
         householdVars, boxVars
<1>2. VpnInv'
  BY <1>1, VpnStep, VpnFrame
<1>3. ClientInv'
  BY <1>1, ClientStep, ClientFrame
<1> QED  BY <1>2, <1>3

\* Nothing is queued: what is up has got to what is shown as active.
LEMMA TunnelsFollow == ClientInv => ClientTypeOK /\ TunnelAsChosen
<1> SUFFICES ASSUME ClientInv PROVE ClientTypeOK /\ TunnelAsChosen
  OBVIOUS
<1>1. ASSUME NEW t \in Tools, vpn_queue = <<>>, ~cut_off[t] PROVE up[t] = active[t]
  <2>1. Towards(t, vpn_queue, active[t]) /\ Len(vpn_queue) = 0
    BY <1>1 DEF ClientInv
  <2> QED  BY <2>1 DEF Towards
<1> QED  BY <1>1 DEF ClientInv, HouseholdThrough, TunnelAsChosen

\* A peer the customer sees is on the record of the box unless that was cut short, no two have
\* one address, and awg0 lets in what is on record from a setup or peer command that could
\* write and load it until a failure or a reboot; the tunnels that are up are the ones shown
\* as active once the box has caught up and nothing was lost, and a WireGuard tunnel carries
\* the whole household (awg/peers/add, amnezia-wg.js, wg-client.js,
\* openvpn-client.js): for any number of commands, peers, users, profiles and losses.
THEOREM VpnCorrect == Spec => []VpnAsListed
<1>1. Init => VpnInv /\ ClientInv
  BY VpnInitial, ClientInitial DEF Init
<1>2. VpnInv /\ ClientInv => VpnAsListed
  BY TunnelsFollow DEF VpnInv, VpnAsListed
<1> QED  BY <1>1, <1>2, VpnsStep, PTL DEF Spec

-----------------------------------------------------------------------------
(* Shaping: the marks of the priorities.                                   *)

\* Every mark is of a device on record and of the class on record, and no device has two.
MarksTrue(chain, classes) ==
    /\ \A i \in DOMAIN chain : /\ chain[i].of \in DOMAIN classes
                               /\ chain[i].class = classes[chain[i].of]
    /\ \A i, j \in DOMAIN chain : chain[i].of = chain[j].of => i = j

\* Counting up to m: a set of numbers that has 0 and goes on to the next reaches m.
LEMMA MarksCount ==
    ASSUME NEW m \in Nat, NEW S, 0 \in S, \A n \in 0 .. m - 1 : n \in S => n + 1 \in S
    PROVE  m \in S
<1> DEFINE T == {n \in 0 .. m : n \notin S}
<1> SUFFICES ASSUME T # {} PROVE FALSE
  OBVIOUS
<1>1. PICK k \in T : \A j \in T : k <= j
  <2>1. T \in SUBSET Nat
    OBVIOUS
  <2> HIDE DEF T
  <2> QED  BY <2>1, FirstExists
<1>2. k # 0 /\ k - 1 \in 0 .. m - 1 /\ k - 1 \in S
  BY <1>1
<1> QED  BY <1>1, <1>2

\* The recursive function of OnlyMarks.
OnlyMarksBy(f, s, marks) ==
    f = [n \in 0 .. Len(s) |->
            IF n = 0 THEN <<>>
            ELSE IF s[n] \in marks THEN Append(f[n - 1], s[n]) ELSE f[n - 1]]

\* That function exists: it does up to 0, and with n up to n + 1.
LEMMA OnlyMarksExists ==
    ASSUME NEW X, NEW s \in Seq(X), NEW marks
    PROVE  \E f : OnlyMarksBy(f, s, marks)
<1> DEFINE Then(f, n) == IF n = 0 THEN <<>>
                ELSE IF s[n] \in marks THEN Append(f[n - 1], s[n]) ELSE f[n - 1]
           Solved == {m \in 0 .. Len(s) : \E f : f = [n \in 0 .. m |-> Then(f, n)]}
<1>1. Len(s) \in Nat
  OBVIOUS
<1>2. 0 \in Solved
  <2> DEFINE f == [n \in 0 .. 0 |-> <<>>]
  <2>1. f = [n \in 0 .. 0 |-> Then(f, n)]
    OBVIOUS
  <2> HIDE DEF f
  <2> QED  BY <1>1, <2>1
<1>3. ASSUME NEW m \in 0 .. Len(s) - 1, m \in Solved PROVE m + 1 \in Solved
  <2>1. PICK f : f = [n \in 0 .. m |-> Then(f, n)]
    BY <1>3
  <2>2. \A n \in 0 .. m : f[n] = Then(f, n)
    <3> HIDE DEF Then
    <3> QED  BY <2>1
  <2> DEFINE last == IF s[m + 1] \in marks THEN Append(f[m], s[m + 1]) ELSE f[m]
             g == [n \in 0 .. m + 1 |-> IF n = m + 1 THEN last ELSE f[n]]
  <2>3. \A n \in 0 .. m : g[n] = f[n]
    BY <1>1
  <2>4. g[m + 1] = last /\ g = [n \in 0 .. m + 1 |-> g[n]]
    BY <1>1
  <2> HIDE DEF g
  <2>5. ASSUME NEW n \in 0 .. m + 1 PROVE g[n] = Then(g, n)
    <3>1. CASE n = 0
      BY <3>1, <2>2, <2>3, <1>1
    <3>2. CASE n \in 1 .. m
      <4>1. f[n] = Then(f, n)
        BY <2>2, <3>2, <1>1
      <4>2. g[n] = f[n] /\ g[n - 1] = f[n - 1]
        BY <3>2, <2>3, <1>1
      <4> QED  BY <4>1, <4>2
    <3>3. CASE n = m + 1
      <4>1. g[n - 1] = f[m] /\ n # 0
        BY <3>3, <2>3, <1>1
      <4> QED  BY <4>1, <3>3, <2>4
    <3> QED  BY <3>1, <3>2, <3>3, <1>1
  <2>6. g = [n \in 0 .. m + 1 |-> Then(g, n)]
    BY <2>4, <2>5
  <2> HIDE DEF Then
  <2> QED  BY <2>6, <1>1
<1>4. Len(s) \in Solved
  <2> HIDE DEF Solved
  <2> QED  BY <1>1, <1>2, <1>3, MarksCount
<1> QED  BY <1>4 DEF OnlyMarksBy

\* OnlyMarks keeps marks of the chain, none but the wanted, and no two of one device.
LEMMA OnlyMarksProperties ==
    ASSUME NEW s \in Seq(PrioMarks(Gadgets)), NEW marks,
           \A i, j \in 1 .. Len(s) : s[i].of = s[j].of => i = j
    PROVE  LET k == OnlyMarks(s, marks) IN
           /\ k \in Seq(PrioMarks(Gadgets))
           /\ \A i \in 1 .. Len(k) : k[i] \in marks /\ \E j \in 1 .. Len(s) : k[i] = s[j]
           /\ \A i, j \in 1 .. Len(k) : k[i].of = k[j].of => i = j
<1> DEFINE Then(f, n) == IF n = 0 THEN <<>>
                ELSE IF s[n] \in marks THEN Append(f[n - 1], s[n]) ELSE f[n - 1]
           kept == CHOOSE f : OnlyMarksBy(f, s, marks)
<1>1. OnlyMarks(s, marks) = kept[Len(s)]
  BY Zenon DEF OnlyMarks, OnlyMarksBy
<1>2. kept = [n \in 0 .. Len(s) |-> Then(kept, n)]
  <2>1. \E f : OnlyMarksBy(f, s, marks)
    BY OnlyMarksExists
  <2>2. OnlyMarksBy(kept, s, marks)
    BY <2>1, Zenon
  <2> QED  BY <2>2, Zenon DEF OnlyMarksBy
<1>3. \A n \in 0 .. Len(s) : kept[n] = Then(kept, n)
  <2> HIDE DEF Then, kept
  <2> QED  BY <1>2
<1> HIDE DEF kept
<1> DEFINE Good(k, n) ==
       /\ k \in Seq(PrioMarks(Gadgets))
       /\ \A i \in 1 .. Len(k) : k[i] \in marks /\ \E j \in 1 .. n : k[i] = s[j]
       /\ \A i, j \in 1 .. Len(k) : k[i].of = k[j].of => i = j
    S == {n \in 0 .. Len(s) : Good(kept[n], n)}
<1>4. Len(s) \in Nat
  OBVIOUS
<1>5. 0 \in S
  <2>1. kept[0] = <<>>
    BY <1>3, <1>4
  <2>2. Good(<<>>, 0)
    OBVIOUS
  <2> HIDE DEF Good
  <2> QED  BY <2>1, <2>2, <1>4
<1>6. ASSUME NEW n \in 0 .. Len(s) - 1, n \in S PROVE n + 1 \in S
  <2> DEFINE k == kept[n]
             x == s[n + 1]
  <2>1. n + 1 \in 1 .. Len(s) /\ x \in PrioMarks(Gadgets)
    BY <1>4
  <2>2. Good(k, n)
    <3> HIDE DEF Good
    <3> QED  BY <1>6
  <2>3. kept[n + 1] = IF x \in marks THEN Append(k, x) ELSE k
    BY <1>3, <1>4
  <2> HIDE DEF k
  <2>4. CASE x \in marks
    <3> DEFINE w == Append(k, x)
    <3>1. /\ w \in Seq(PrioMarks(Gadgets)) /\ Len(w) = Len(k) + 1 /\ Len(k) \in Nat
          /\ \A i \in 1 .. Len(k) : w[i] = k[i]
          /\ w[Len(k) + 1] = x
      BY <2>1, <2>2
    <3> HIDE DEF w
    <3>2. ASSUME NEW i \in 1 .. Len(w)
          PROVE w[i] \in marks /\ \E j \in 1 .. n + 1 : w[i] = s[j]
      <4>1. CASE i = Len(k) + 1
        BY <4>1, <2>1, <2>4, <3>1, <1>4
      <4>2. CASE i \in 1 .. Len(k)
        BY <4>2, <2>2, <3>1, <1>4
      <4> QED  BY <4>1, <4>2, <3>1
    <3>3. \A i \in 1 .. Len(k) : k[i].of # x.of
      <4> SUFFICES ASSUME NEW i \in 1 .. Len(k), k[i].of = x.of PROVE FALSE
        OBVIOUS
      <4>1. PICK j \in 1 .. n : k[i] = s[j]
        BY <2>2
      <4>2. j \in 1 .. Len(s) /\ j # n + 1
        BY <2>1, <1>4
      <4> QED  BY <4>1, <4>2, <2>1
    <3>4. ASSUME NEW i \in 1 .. Len(w), NEW j \in 1 .. Len(w), w[i].of = w[j].of PROVE i = j
      <4>1. i \in 1 .. Len(k) \/ (i = Len(k) + 1 /\ w[i] = x)
        BY <3>1
      <4>2. j \in 1 .. Len(k) \/ (j = Len(k) + 1 /\ w[j] = x)
        BY <3>1
      <4> QED  BY <4>1, <4>2, <3>1, <3>3, <3>4, <2>2
    <3>5. Good(w, n + 1)
      BY <3>1, <3>2, <3>4
    <3>6. kept[n + 1] = w
      BY <2>3, <2>4 DEF w
    <3> HIDE DEF Good
    <3> QED  BY <3>5, <3>6, <1>4
  <2>5. CASE x \notin marks
    <3>1. Good(k, n + 1)
      <4>1. \A i \in 1 .. Len(k) : \E j \in 1 .. n + 1 : k[i] = s[j]
        BY <2>2, <1>4
      <4> QED  BY <2>2, <4>1
    <3> HIDE DEF Good
    <3> QED  BY <3>1, <2>3, <2>5, <1>4
  <2> QED  BY <2>4, <2>5
<1>7. Good(kept[Len(s)], Len(s))
  <2>1. Len(s) \in S
    <3> HIDE DEF S
    <3> QED  BY <1>4, <1>5, <1>6, MarksCount
  <2> HIDE DEF Good
  <2> QED  BY <2>1
<1> QED  BY <1>1, <1>7

\* Marks made again for an order of devices: as recorded, when those of the other devices were.
LEMMA MarkedSound ==
    ASSUME NEW chain \in Seq(PrioMarks(Gadgets)), NEW order \in Seq(Gadgets), NEW classes,
           \A i, j \in 1 .. Len(chain) : chain[i].of = chain[j].of => i = j,
           \A i, j \in 1 .. Len(order) : order[i] = order[j] => i = j,
           \A i \in 1 .. Len(order) :
               order[i] \in DOMAIN classes /\ classes[order[i]] \in Classes,
           \A i \in 1 .. Len(chain) :
               \/ \E j \in 1 .. Len(order) : chain[i].of = order[j]
               \/ chain[i].of \in DOMAIN classes /\ chain[i].class = classes[chain[i].of]
    PROVE  LET next == Marked(chain, order, classes) IN
           next \in Seq(PrioMarks(Gadgets)) /\ MarksTrue(next, classes)
<1> DEFINE ordered == {order[i] : i \in DOMAIN order}
           marks == PrioMarks(Gadgets \ ordered)
           k == OnlyMarks(chain, marks)
           new == [i \in DOMAIN order |-> [of |-> order[i], class |-> classes[order[i]]]]
           next == k \o new
<1>1. /\ k \in Seq(PrioMarks(Gadgets))
      /\ \A i \in 1 .. Len(k) : k[i] \in marks /\ \E j \in 1 .. Len(chain) : k[i] = chain[j]
      /\ \A i, j \in 1 .. Len(k) : k[i].of = k[j].of => i = j
  <2> HIDE DEF marks
  <2> QED  BY OnlyMarksProperties
<1>2. /\ new \in Seq(PrioMarks(Gadgets)) /\ Len(new) = Len(order) /\ Len(order) \in Nat
      /\ \A i \in 1 .. Len(new) : new[i].of = order[i] /\ new[i].class = classes[order[i]]
  <2>1. Len(order) \in Nat /\ DOMAIN order = 1 .. Len(order)
    OBVIOUS
  <2>2. \A i \in 1 .. Len(order) : order[i] \in Gadgets
    OBVIOUS
  <2>3. \A i \in 1 .. Len(order) :
           [of |-> order[i], class |-> classes[order[i]]] \in PrioMarks(Gadgets)
    BY <2>2 DEF PrioMarks
  <2> QED  BY <2>1, <2>3
<1>3. \A i \in 1 .. Len(k) : \A j \in 1 .. Len(order) : k[i].of # order[j]
  <2> SUFFICES ASSUME NEW i \in 1 .. Len(k), NEW j \in 1 .. Len(order), k[i].of = order[j]
               PROVE  FALSE
    OBVIOUS
  <2>1. k[i].of \notin ordered
    BY <1>1 DEF PrioMarks
  <2>2. j \in DOMAIN order
    OBVIOUS
  <2> QED  BY <2>1, <2>2
<1> HIDE DEF k, marks
<1>4. ASSUME NEW i \in 1 .. Len(k)
      PROVE  k[i].of \in DOMAIN classes /\ k[i].class = classes[k[i].of]
  <2>1. PICK j \in 1 .. Len(chain) : k[i] = chain[j]
    BY <1>1
  <2>2. ~ \E b \in 1 .. Len(order) : chain[j].of = order[b]
    BY <2>1, <1>3
  <2> QED  BY <2>1, <2>2
<1> HIDE DEF new
<1>5. /\ next \in Seq(PrioMarks(Gadgets)) /\ Len(next) = Len(k) + Len(new)
      /\ Len(k) \in Nat /\ Len(new) \in Nat
      /\ \A i \in 1 .. Len(k) : next[i] = k[i]
      /\ \A i \in 1 .. Len(new) : next[Len(k) + i] = new[i]
  <2>1. k \in Seq(PrioMarks(Gadgets)) /\ new \in Seq(PrioMarks(Gadgets))
    BY <1>1, <1>2
  <2> QED  BY ONLY <2>1
<1> HIDE DEF next
<1>6. ASSUME NEW i \in 1 .. Len(next)
      PROVE  \/ i \in 1 .. Len(k) /\ next[i] = k[i]
             \/ \E j \in 1 .. Len(order) : i = Len(k) + j /\ next[i] = new[j]
  <2>1. i \in 1 .. Len(k) \/ i - Len(k) \in 1 .. Len(new)
    BY <1>5
  <2>2. CASE i - Len(k) \in 1 .. Len(new)
    <3> DEFINE j == i - Len(k)
    <3>1. j \in 1 .. Len(order) /\ i = Len(k) + j
      BY <2>2, <1>2, <1>5
    <3>2. next[Len(k) + j] = new[j]
      BY <2>2, <1>5
    <3> QED  BY <3>1, <3>2
  <2> QED  BY <2>1, <2>2, <1>5
<1>7. ASSUME NEW i \in 1 .. Len(next)
      PROVE  next[i].of \in DOMAIN classes /\ next[i].class = classes[next[i].of]
  <2>1. CASE i \in 1 .. Len(k) /\ next[i] = k[i]
    BY <2>1, <1>4
  <2>2. ASSUME NEW j \in 1 .. Len(order), next[i] = new[j]
        PROVE  next[i].of \in DOMAIN classes /\ next[i].class = classes[next[i].of]
    BY <2>2, <1>2
  <2> QED  BY <2>1, <2>2, <1>6
<1>8. ASSUME NEW i \in 1 .. Len(next), NEW j \in 1 .. Len(next), next[i].of = next[j].of
      PROVE  i = j
  <2>1. ASSUME i \in 1 .. Len(k), next[i] = k[i] PROVE i = j
    <3>1. CASE j \in 1 .. Len(k) /\ next[j] = k[j]
      BY <2>1, <3>1, <1>8, <1>1
    <3>2. ASSUME NEW b \in 1 .. Len(order), next[j] = new[b] PROVE FALSE
      <4>1. new[b].of = order[b] /\ k[i].of # order[b]
        BY <2>1, <1>2, <1>3
      <4> QED  BY <2>1, <3>2, <4>1, <1>8
    <3> QED  BY <3>1, <3>2, <1>6
  <2>2. ASSUME NEW a \in 1 .. Len(order), i = Len(k) + a, next[i] = new[a] PROVE i = j
    <3>1. ASSUME j \in 1 .. Len(k), next[j] = k[j] PROVE FALSE
      <4>1. new[a].of = order[a] /\ k[j].of # order[a]
        BY <3>1, <1>2, <1>3
      <4> QED  BY <2>2, <3>1, <4>1, <1>8
    <3>2. ASSUME NEW b \in 1 .. Len(order), j = Len(k) + b, next[j] = new[b] PROVE i = j
      <4>1. new[a].of = order[a] /\ new[b].of = order[b]
        BY <1>2
      <4>2. a = b
        BY <2>2, <3>2, <4>1, <1>8
      <4> QED  BY <2>2, <3>2, <4>2
    <3> QED  BY <3>1, <3>2, <1>6
  <2> QED  BY <2>1, <2>2, <1>6
<1>9. DOMAIN next = 1 .. Len(next)
  BY <1>5
<1>10. MarksTrue(next, classes)
  BY <1>7, <1>8, <1>9 DEF MarksTrue
<1>11. Marked(chain, order, classes) = next
  BY DEF Marked, next, k, marks, new
<1> QED  BY <1>5, <1>10, <1>11

\* The rules of a recorded cap, and no others of that device, are in the kernel; none from a
\* reboot until the cap is set again.
CapsTrue ==
    \A d \in DOMAIN device_caps :
        {r \in cap_rules : r.of = d} = IF d \in rebooted THEN {} ELSE CapRules(d, device_caps[d])
\* What qos.js keeps true.
QosInv ==
    /\ DOMAIN device_priorities \subseteq Gadgets /\ IsFiniteSet(DOMAIN device_priorities)
    /\ \A d \in DOMAIN device_priorities : device_priorities[d] \in Classes
    /\ DOMAIN device_caps \subseteq Gadgets /\ rebooted \subseteq Gadgets
    /\ mes_qos_pre \in Seq(PrioMarks(Gadgets)) /\ MarksTrue(mes_qos_pre, device_priorities)
    /\ CapsTrue

\* What With and Without make of a function.
LEMMA WithIs ==
    ASSUME NEW f, NEW x, NEW y
    PROVE  /\ DOMAIN With(f, x, y) = DOMAIN f \cup {x}
           /\ With(f, x, y)[x] = y
           /\ \A z \in DOMAIN f : z # x => With(f, x, y)[z] = f[z]
  BY DEF With
LEMMA WithoutIs ==
    ASSUME NEW f, NEW x
    PROVE  /\ DOMAIN Without(f, x) = DOMAIN f \ {x}
           /\ \A z \in DOMAIN f : z # x => Without(f, x)[z] = f[z]
  BY DEF Without
LEMMA BlankIs == DOMAIN Blank = {}
  BY DEF Blank

\* applyCake marks the recorded devices again, in some order.
LEMMA CakeStep == ASSUME QosInv, ApplyCake PROVE QosInv'
<1>1. PICK order \in SetToSeqs(DOMAIN device_priorities) :
         mes_qos_pre' = Marked(mes_qos_pre, order, device_priorities)
  BY Zenon DEF ApplyCake
<1>2. UNCHANGED <<device_priorities, device_caps, cap_rules, rebooted>>
  BY Zenon DEF ApplyCake
<1> DEFINE D == DOMAIN device_priorities
           n == Cardinality(D)
<1>3. n \in Nat
  BY FS_CardinalityType DEF QosInv
<1>4. order \in [1 .. n -> D] /\ \A i, j \in 1 .. n : i # j => order[i] # order[j]
  BY <1>1 DEF SetToSeqs
<1> HIDE DEF n
<1>5. /\ Len(order) = n /\ DOMAIN order = 1 .. n
      /\ order \in Seq(Gadgets) /\ \A i \in 1 .. n : order[i] \in D
  BY <1>3, <1>4 DEF QosInv
<1>6. mes_qos_pre \in Seq(PrioMarks(Gadgets)) /\ DOMAIN mes_qos_pre = 1 .. Len(mes_qos_pre)
  BY DEF QosInv
<1>7. /\ \A i, j \in 1 .. Len(mes_qos_pre) : mes_qos_pre[i].of = mes_qos_pre[j].of => i = j
      /\ \A i \in 1 .. Len(mes_qos_pre) :
            /\ mes_qos_pre[i].of \in DOMAIN device_priorities
            /\ mes_qos_pre[i].class = device_priorities[mes_qos_pre[i].of]
  BY <1>6 DEF QosInv, MarksTrue
<1>8. \A i \in 1 .. Len(order) :
         order[i] \in DOMAIN device_priorities /\ device_priorities[order[i]] \in Classes
  BY <1>5 DEF QosInv
<1>9. \A i, j \in 1 .. Len(order) : order[i] = order[j] => i = j
  BY <1>4, <1>5
<1>10. LET next == Marked(mes_qos_pre, order, device_priorities) IN
       next \in Seq(PrioMarks(Gadgets)) /\ MarksTrue(next, device_priorities)
  BY <1>5, <1>6, <1>7, <1>8, <1>9, MarkedSound
<1>11. mes_qos_pre' \in Seq(PrioMarks(Gadgets)) /\ MarksTrue(mes_qos_pre', device_priorities')
  BY <1>1, <1>2, <1>10
<1> QED  BY <1>2, <1>11 DEF QosInv, CapsTrue

\* setDevicePriority: the device has the new mark only.
LEMMA PriorityStep ==
    ASSUME QosInv, NEW d \in Gadgets, NEW c \in Classes, SetDevicePriority(d, c) PROVE QosInv'
<1>1. /\ device_priorities' = With(device_priorities, d, c)
      /\ mes_qos_pre' = Marked(mes_qos_pre, <<d>>, device_priorities')
      /\ UNCHANGED <<device_caps, cap_rules, rebooted>>
  BY DEF SetDevicePriority
<1>2. /\ DOMAIN device_priorities' = DOMAIN device_priorities \cup {d}
      /\ device_priorities'[d] = c
      /\ \A z \in DOMAIN device_priorities : z # d => device_priorities'[z] = device_priorities[z]
  BY <1>1 DEF With
<1>3. PICK classes : classes = device_priorities'
  OBVIOUS
<1>4. mes_qos_pre \in Seq(PrioMarks(Gadgets)) /\ DOMAIN mes_qos_pre = 1 .. Len(mes_qos_pre)
  BY DEF QosInv
<1>5. /\ \A i, j \in 1 .. Len(mes_qos_pre) : mes_qos_pre[i].of = mes_qos_pre[j].of => i = j
      /\ \A i \in 1 .. Len(mes_qos_pre) :
            /\ mes_qos_pre[i].of \in DOMAIN device_priorities
            /\ mes_qos_pre[i].class = device_priorities[mes_qos_pre[i].of]
  BY <1>4 DEF QosInv, MarksTrue
<1> DEFINE order == <<d>>
<1>6. /\ order \in Seq(Gadgets) /\ Len(order) = 1 /\ order[1] = d
  OBVIOUS
<1> HIDE DEF order
<1>7. \A i, j \in 1 .. Len(order) : order[i] = order[j] => i = j
  BY <1>6
<1>8. \A i \in 1 .. Len(order) : order[i] \in DOMAIN classes /\ classes[order[i]] \in Classes
  BY <1>2, <1>3, <1>6
<1>9. \A i \in 1 .. Len(mes_qos_pre) :
         \/ \E j \in 1 .. Len(order) : mes_qos_pre[i].of = order[j]
         \/ /\ mes_qos_pre[i].of \in DOMAIN classes
            /\ mes_qos_pre[i].class = classes[mes_qos_pre[i].of]
  <2> SUFFICES ASSUME NEW i \in 1 .. Len(mes_qos_pre), mes_qos_pre[i].of # d
               PROVE  /\ mes_qos_pre[i].of \in DOMAIN classes
                      /\ mes_qos_pre[i].class = classes[mes_qos_pre[i].of]
    BY <1>6
  <2> QED  BY <1>2, <1>3, <1>5
<1>10. LET next == Marked(mes_qos_pre, order, classes) IN
       next \in Seq(PrioMarks(Gadgets)) /\ MarksTrue(next, classes)
  BY <1>4, <1>5, <1>6, <1>7, <1>8, <1>9, MarkedSound
<1>11. mes_qos_pre' \in Seq(PrioMarks(Gadgets)) /\ MarksTrue(mes_qos_pre', device_priorities')
  BY <1>1, <1>3, <1>10 DEF order
<1>12. IsFiniteSet(DOMAIN device_priorities')
  <2>1. IsFiniteSet(DOMAIN device_priorities)
    BY DEF QosInv
  <2>2. IsFiniteSet(DOMAIN device_priorities \cup {d})
    BY <2>1, FS_AddElement
  <2> QED  BY <1>2, <2>2
<1>13. /\ DOMAIN device_priorities' \subseteq Gadgets
       /\ \A x \in DOMAIN device_priorities' : device_priorities'[x] \in Classes
  BY <1>2 DEF QosInv
<1> QED  BY <1>1, <1>11, <1>12, <1>13 DEF QosInv, CapsTrue

\* setDeviceCap: the rules of the device are those of the new cap, those of others stay.
LEMMA CapStep ==
    ASSUME QosInv, NEW d \in Gadgets, NEW rate, NEW ip, SetDeviceCap(d, rate, ip) PROVE QosInv'
<1> DEFINE cap == [rate |-> rate, ip |-> ip]
<1>1. /\ cap_rules' = DropOldRules(d, cap) \cup CapRules(d, cap)
      /\ device_caps' = With(device_caps, d, cap)
      /\ rebooted' = rebooted \ {d}
      /\ UNCHANGED <<device_priorities, mes_qos_pre>>
  BY DEF SetDeviceCap
<1> HIDE DEF cap
<1>2. /\ DOMAIN device_caps' = DOMAIN device_caps \cup {d}
      /\ device_caps'[d] = cap
      /\ \A z \in DOMAIN device_caps : z # d => device_caps'[z] = device_caps[z]
  BY <1>1 DEF With
<1>3. \A r \in CapRules(d, cap) : r.of = d
  BY DEF CapRules
<1>4. \A x : x # d => {r \in cap_rules' : r.of = x} = {r \in cap_rules : r.of = x}
  BY <1>1, <1>3 DEF DropOldRules
<1>5. {r \in cap_rules' : r.of = d} = CapRules(d, cap)
  BY <1>1, <1>3 DEF DropOldRules
<1>6. ASSUME NEW x \in DOMAIN device_caps'
      PROVE  {r \in cap_rules' : r.of = x} =
                IF x \in rebooted' THEN {} ELSE CapRules(x, device_caps'[x])
  <2>1. CASE x = d
    BY <1>1, <1>2, <1>5, <2>1
  <2>2. CASE x # d
    <3>1. x \in DOMAIN device_caps /\ device_caps'[x] = device_caps[x] /\ (x \in rebooted' <=> x \in rebooted)
      BY <1>1, <1>2, <2>2
    <3>2. {r \in cap_rules : r.of = x} = IF x \in rebooted THEN {} ELSE CapRules(x, device_caps[x])
      BY <3>1 DEF QosInv, CapsTrue
    <3> QED  BY <1>4, <2>2, <3>1, <3>2
  <2> QED  BY <2>1, <2>2
<1>7. CapsTrue'
  <2>1. \A x \in DOMAIN device_caps' :
           {r \in cap_rules' : r.of = x} =
               IF x \in rebooted' THEN {} ELSE CapRules(x, device_caps'[x])
    BY <1>6
  <2> QED  BY <2>1, Zenon DEF CapsTrue, CapRules
<1>8. DOMAIN device_caps' \subseteq Gadgets /\ rebooted' \subseteq Gadgets
  BY <1>1, <1>2 DEF QosInv
<1> QED  BY <1>1, <1>7, <1>8 DEF QosInv

LEMMA QosStep == ASSUME QosInv, ShapingNext \/ UNCHANGED shapingVars PROVE QosInv'
<1>1. CASE UNCHANGED qosSide
  BY <1>1 DEF qosSide, QosInv, CapsTrue
<1>2. CASE QosClear
  <2>1. /\ mes_qos_pre' = <<>> /\ device_priorities' = Blank /\ device_caps' = Blank
        /\ UNCHANGED <<cap_rules, rebooted>>
    BY <1>2 DEF QosClear
  <2>2. IsFiniteSet(DOMAIN device_priorities') /\ DOMAIN device_priorities' = {} /\ DOMAIN device_caps' = {}
    BY <2>1, BlankIs, FS_EmptySet
  <2> QED  BY <2>1, <2>2 DEF QosInv, CapsTrue, MarksTrue
<1>3. CASE BoxAgain
  <2>1. /\ mes_qos_pre' = <<>> /\ cap_rules' = {} /\ rebooted' = Gadgets
        /\ UNCHANGED <<device_priorities, device_caps>>
    BY <1>3 DEF BoxAgain
  <2> QED  BY <2>1 DEF QosInv, CapsTrue, MarksTrue
<1>4. CASE ApplyCake
  BY <1>4, CakeStep
<1>5. ASSUME NEW d \in Gadgets, NEW c \in Classes, SetDevicePriority(d, c) PROVE QosInv'
  BY <1>5, PriorityStep
<1>6. ASSUME NEW d \in Gadgets, NEW rate, NEW ip, SetDeviceCap(d, rate, ip) PROVE QosInv'
  BY <1>6, CapStep
<1>7. ASSUME NEW t, NEW level, DisturbAgain(t, level) \/ Disturb(t, level) \/ DisturbRemove(t) \/ AgentAgain
      PROVE  UNCHANGED qosSide
  BY <1>7 DEF DisturbAgain, Disturb, DisturbRemove, AgentAgain
<1>8. CASE UNCHANGED shapingVars
  BY <1>8, <1>1 DEF shapingVars
<1>9. CASE ShapingNext
  BY <1>1, <1>2, <1>3, <1>4, <1>5, <1>6, <1>7, <1>9, Zenon DEF ShapingNext
<1> QED  BY <1>8, <1>9

LEMMA QosInitial == ShapingInit => QosInv
<1> SUFFICES ASSUME ShapingInit PROVE QosInv
  OBVIOUS
<1>1. /\ mes_qos_pre = <<>> /\ rebooted = {}
      /\ DOMAIN device_priorities = {} /\ DOMAIN device_caps = {}
  BY BlankIs DEF ShapingInit
<1>2. IsFiniteSet(DOMAIN device_priorities)
  BY <1>1, FS_EmptySet
<1> QED  BY <1>1, <1>2 DEF QosInv, CapsTrue, MarksTrue

-----------------------------------------------------------------------------
(* Shaping: the policies of disturb.js.                                    *)

\* RemoveFirst takes one entry out, the first that is equal, and leaves the order of the others.
LEMMA RemovedIs ==
    ASSUME NEW X, NEW s \in Seq(X), NEW e
    PROVE  /\ RemoveFirst(s, e) \in Seq(X)
           /\ (\A i \in 1 .. Len(s) : s[i] # e) => RemoveFirst(s, e) = s
           /\ (\E i \in 1 .. Len(s) : s[i] = e) =>
                 \E at \in 1 .. Len(s) :
                    /\ s[at] = e /\ Len(RemoveFirst(s, e)) = Len(s) - 1
                    /\ \A i \in 1 .. Len(s) - 1 :
                          RemoveFirst(s, e)[i] = IF i < at THEN s[i] ELSE s[i + 1]
<1>1. CASE \A i \in 1 .. Len(s) : s[i] # e
  <2>1. RemoveFirst(s, e) = s
    BY <1>1 DEF RemoveFirst
  <2> QED  BY <1>1, <2>1
<1>2. CASE \E i \in 1 .. Len(s) : s[i] = e
  <2> DEFINE I == {i \in 1 .. Len(s) : s[i] = e}
             at == Min(I)
  <2>1. at \in I
    <3>1. I \in SUBSET Nat /\ I # {}
      BY <1>2
    <3> HIDE DEF I
    <3>2. PICK f \in I : \A j \in I : f <= j
      BY <3>1, FirstExists
    <3> QED  BY <3>2 DEF Min
  <2>2. SelectInSeq(s, LAMBDA v : v = e) = at
    BY <1>2 DEF SelectInSeq
  <2>3. RemoveFirst(s, e) = RemoveAt(s, at)
    BY <1>2, <2>2, Zenon DEF RemoveFirst
  <2>4. at \in 1 .. Len(s) /\ s[at] = e /\ Len(s) \in Nat
    BY <2>1
  <2> HIDE DEF at
  <2> DEFINE a == SubSeq(s, 1, at - 1)
             b == SubSeq(s, at + 1, Len(s))
  <2>5. /\ a \in Seq(X) /\ Len(a) = at - 1 /\ \A i \in 1 .. at - 1 : a[i] = s[i]
        /\ b \in Seq(X) /\ Len(b) = Len(s) - at
        /\ \A i \in 1 .. Len(s) - at : b[i] = s[at + i]
    BY <2>4
  <2> HIDE DEF a, b
  <2>6. /\ a \o b \in Seq(X) /\ Len(a \o b) = Len(a) + Len(b)
        /\ \A i \in 1 .. Len(a) : (a \o b)[i] = a[i]
        /\ \A i \in 1 .. Len(b) : (a \o b)[Len(a) + i] = b[i]
    <3>1. a \in Seq(X) /\ b \in Seq(X)
      BY <2>5
    <3> QED  BY ONLY <3>1
  <2>7. RemoveFirst(s, e) = a \o b
    BY <2>3 DEF RemoveAt, a, b
  <2> DEFINE w == a \o b
  <2> HIDE DEF w
  <2>8. /\ w \in Seq(X) /\ Len(w) = Len(s) - 1
        /\ \A i \in 1 .. at - 1 : w[i] = s[i]
        /\ \A i \in 1 .. Len(s) - at : w[at - 1 + i] = s[at + i]
    <3>1. w \in Seq(X) /\ Len(w) = Len(s) - 1
      BY <2>4, <2>5, <2>6 DEF w
    <3>2. \A i \in 1 .. at - 1 : w[i] = s[i]
      BY <2>4, <2>5, <2>6 DEF w
    <3>3. \A i \in 1 .. Len(s) - at : w[at - 1 + i] = b[i]
      BY <2>4, <2>5, <2>6 DEF w
    <3> QED  BY <2>5, <3>1, <3>2, <3>3
  <2>9. ASSUME NEW i \in 1 .. Len(s) - 1 PROVE w[i] = IF i < at THEN s[i] ELSE s[i + 1]
    <3>1. CASE i < at
      BY <2>4, <2>8, <3>1
    <3>2. CASE ~(i < at)
      <4> DEFINE j == i - at + 1
      <4>1. j \in 1 .. Len(s) - at /\ at - 1 + j = i /\ at + j = i + 1
        BY <2>4, <3>2
      <4>2. w[at - 1 + j] = s[at + j]
        BY <2>8, <4>1
      <4> QED  BY <3>2, <4>1, <4>2
    <3> QED  BY <3>1, <3>2
  <2>10. RemoveFirst(s, e) = w
    BY <2>7 DEF w
  <2> QED  BY <1>2, <2>4, <2>8, <2>9, <2>10
<1> QED  BY <1>1, <1>2

\* A set of places of a sequence has a last one, and Max is one of the set.
LEMMA MaxIsOne ==
    ASSUME NEW n \in Nat, NEW T \in SUBSET (1 .. n), T # {} PROVE Max(T) \in T
<1> DEFINE U == {n - i : i \in T}
<1>1. U \in SUBSET Nat /\ U # {}
  <2>1. \A i \in T : n - i \in Nat
    OBVIOUS
  <2> QED  BY <2>1
<1>2. PICK f \in U : \A j \in U : f <= j
  <2> HIDE DEF U
  <2> QED  BY <1>1, FirstExists
<1>3. PICK m \in T : f = n - m
  OBVIOUS
<1>4. \A j \in T : n - m <= n - j
  BY <1>2, <1>3
<1>5. \A j \in T : m >= j
  BY <1>4
<1> QED  BY <1>5 DEF Max

\* While nothing interfered: the queue of every policy, of its strength, and no other; one mark
\* of every policy, and no other.
Installed ==
    /\ rootInstalled => root = "htb"
    /\ DOMAIN netem = {policies[t].id : t \in DOMAIN policies}
    /\ \A t \in DOMAIN policies : netem[policies[t].id] = policies[t].intensity
    /\ \A i \in 1 .. Len(mangle) : /\ mangle[i].to \in DOMAIN policies
                                   /\ mangle[i].mark = policies[mangle[i].to].id
    /\ \A t \in DOMAIN policies : \E i \in 1 .. Len(mangle) : mangle[i].to = t
    /\ \A i, j \in 1 .. Len(mangle) : mangle[i].to = mangle[j].to => i = j
PolicyIds == FirstId .. FirstId + MaxMarks
\* What disturb.js keeps true.
DisturbInv ==
    /\ root \in {"plain", "cake", "htb"} /\ DOMAIN netem \subseteq PolicyIds
    /\ nextId \in PolicyIds
    /\ mangle \in Seq([to : Targets, mark : PolicyIds])
    /\ DOMAIN policies \subseteq Targets
    /\ policies \in [DOMAIN policies -> [id : FirstId .. nextId - 1, intensity : INTENSITY]]
    /\ \A t, u \in DOMAIN policies : policies[t].id = policies[u].id => t = u
    /\ rootInstalled \in BOOLEAN /\ (rootInstalled <=> DOMAIN policies # {})
    /\ interfered \in BOOLEAN
    /\ ~interfered => Installed

LEMMA DisturbInitial == ShapingInit => DisturbInv
<1> SUFFICES ASSUME ShapingInit PROVE DisturbInv
  OBVIOUS
<1>1. /\ root = "plain" /\ DOMAIN netem = {} /\ mangle = <<>> /\ nextId = FirstId
      /\ DOMAIN policies = {} /\ policies = [x \in {} |-> None]
      /\ rootInstalled = FALSE /\ interfered = FALSE
  BY DEF ShapingInit, Blank
<1>2. Installed
  BY <1>1 DEF Installed
<1>3. policies \in [DOMAIN policies -> [id : FirstId .. nextId - 1, intensity : INTENSITY]]
  BY <1>1
<1>4. FirstId \in PolicyIds
  BY ShapingAssumption DEF PolicyIds, FirstId
<1>5. mangle \in Seq([to : Targets, mark : PolicyIds])
  BY <1>1
<1> QED  BY <1>1, <1>2, <1>3, <1>4, <1>5 DEF DisturbInv

\* The kernel and the record of disturb.js begin again, or only the record does.
LEMMA ForgetStep == ASSUME DisturbInv, AgentAgain \/ BoxAgain PROVE DisturbInv'
<1>1. /\ DOMAIN policies' = {} /\ policies' = [x \in {} |-> None]
      /\ nextId' = FirstId /\ rootInstalled' = FALSE
  BY DEF AgentAgain, BoxAgain, Blank
<1>2. policies' \in [DOMAIN policies' -> [id : FirstId .. nextId' - 1, intensity : INTENSITY]]
  BY <1>1
<1>3. FirstId \in PolicyIds
  BY ShapingAssumption DEF PolicyIds, FirstId
<1>4. CASE AgentAgain
  <2>1. UNCHANGED <<mangle, root, netem>> /\ interfered' = (interfered \/ mangle # <<>> \/ rootInstalled)
    BY <1>4 DEF AgentAgain, wanSide
  <2>2. ASSUME ~interfered' PROVE Installed'
    <3>1. ~interfered /\ mangle = <<>> /\ DOMAIN policies = {}
      BY <2>1, <2>2 DEF DisturbInv
    <3>2. DOMAIN netem = {}
      BY <3>1 DEF DisturbInv, Installed
    <3> QED  BY <1>1, <2>1, <3>1, <3>2 DEF Installed
  <2> QED  BY <1>1, <1>2, <1>3, <2>1, <2>2 DEF DisturbInv
<1>5. CASE BoxAgain
  <2>1. mangle' = <<>> /\ root' = "plain" /\ DOMAIN netem' = {} /\ interfered' = FALSE
    BY <1>5 DEF BoxAgain, Blank
  <2>2. Installed'
    BY <1>1, <2>1 DEF Installed
  <2>3. mangle' \in Seq([to : Targets, mark : PolicyIds])
    BY <2>1
  <2> QED  BY <1>1, <1>2, <1>3, <2>1, <2>2, <2>3 DEF DisturbInv
<1> QED  BY <1>4, <1>5

\* The root queue is replaced: a policy under it is interfered with.
LEMMA RootStep == ASSUME DisturbInv, ApplyCake \/ QosClear PROVE DisturbInv'
<1>1. /\ root' \in {"cake", "plain"} /\ DOMAIN netem' = {}
      /\ interfered' = (interfered \/ rootInstalled)
      /\ UNCHANGED <<mangle, policies, nextId, rootInstalled>>
  BY DEF ApplyCake, QosClear, Blank, disturbSide
<1>2. ASSUME ~interfered' PROVE Installed'
  <2>1. ~interfered /\ ~rootInstalled /\ DOMAIN policies = {}
    BY <1>1, <1>2 DEF DisturbInv
  <2> QED  BY <1>1, <2>1 DEF DisturbInv, Installed
<1> QED  BY <1>1, <1>2 DEF DisturbInv

\* apply of a target that is disturbed already: only the strength of its policy changes.
LEMMA AgainStep ==
    ASSUME DisturbInv, NEW t, NEW level \in INTENSITY, DisturbAgain(t, level) PROVE DisturbInv'
<1>1. /\ t \in DOMAIN policies
      /\ policies' = [policies EXCEPT ![t].intensity = level]
      /\ netem' = IF policies[t].intensity # level /\ policies[t].id \in DOMAIN netem
                  THEN [netem EXCEPT ![policies[t].id] = level] ELSE netem
      /\ UNCHANGED <<mangle, nextId, rootInstalled, root, interfered>>
  BY DEF DisturbAgain
<1> DEFINE PolicyOf == [id : FirstId .. nextId - 1, intensity : INTENSITY]
<1>2. policies \in [DOMAIN policies -> PolicyOf]
  BY DEF DisturbInv
<1>3. /\ DOMAIN policies' = DOMAIN policies /\ policies' \in [DOMAIN policies -> PolicyOf]
      /\ policies'[t].intensity = level
      /\ \A u \in DOMAIN policies : policies'[u].id = policies[u].id
      /\ \A u \in DOMAIN policies : u # t => policies'[u] = policies[u]
  BY <1>1, <1>2
<1>4. DOMAIN netem' = DOMAIN netem
  BY <1>1
<1>5. ASSUME ~interfered' PROVE Installed'
  <2>1. Installed
    BY <1>1, <1>5 DEF DisturbInv
  <2>2. policies[t].id \in DOMAIN netem /\ netem[policies[t].id] = policies[t].intensity
    BY <1>1, <2>1 DEF Installed
  <2>3. netem'[policies[t].id] = level
    BY <1>1, <2>2
  <2>4. ASSUME NEW u \in DOMAIN policies' PROVE netem'[policies'[u].id] = policies'[u].intensity
    <3>1. CASE u = t
      BY <1>3, <2>3, <3>1
    <3>2. CASE u # t
      <4>1. policies[u].id # policies[t].id
        BY <1>1, <1>3, <3>2 DEF DisturbInv
      <4>2. netem'[policies[u].id] = netem[policies[u].id]
        BY <1>1, <1>3, <2>1, <4>1 DEF Installed
      <4>3. netem[policies[u].id] = policies[u].intensity
        BY <1>3, <2>1 DEF Installed
      <4> QED  BY <1>3, <3>2, <4>2, <4>3
    <3> QED  BY <3>1, <3>2
  <2>5. DOMAIN netem' = {policies'[u].id : u \in DOMAIN policies'}
    <3>1. {policies'[u].id : u \in DOMAIN policies'} = {policies[u].id : u \in DOMAIN policies}
      BY <1>3
    <3> QED  BY <1>4, <2>1, <3>1 DEF Installed
  <2>6. \A i \in 1 .. Len(mangle) : /\ mangle[i].to \in DOMAIN policies'
                                   /\ mangle[i].mark = policies'[mangle[i].to].id
    BY <1>3, <2>1 DEF Installed
  <2>7. UNCHANGED <<mangle, root, rootInstalled>> /\ DOMAIN policies' = DOMAIN policies
    BY <1>1, <1>3
  <2>8. /\ rootInstalled => root = "htb"
        /\ \A u \in DOMAIN policies : \E i \in 1 .. Len(mangle) : mangle[i].to = u
        /\ \A i, j \in 1 .. Len(mangle) : mangle[i].to = mangle[j].to => i = j
    BY <2>1 DEF Installed
  <2> QED  BY <2>4, <2>5, <2>6, <2>7, <2>8 DEF Installed
<1>6. \A x, y \in DOMAIN policies' : policies'[x].id = policies'[y].id => x = y
  BY <1>3 DEF DisturbInv
<1>7. policies' \in [DOMAIN policies' -> [id : FirstId .. nextId' - 1, intensity : INTENSITY]]
  BY <1>1, <1>3
<1> QED  BY <1>1, <1>3, <1>4, <1>5, <1>6, <1>7 DEF DisturbInv

\* apply of a new target whose class is not taken: while nothing interfered, it never is.
LEMMA FailsOnlyInterfered ==
    ASSUME DisturbInv, rootInstalled, root # "htb" \/ nextId \in DOMAIN netem
    PROVE  interfered
<1> SUFFICES ASSUME ~interfered PROVE FALSE
  BY DEF DisturbInv
<1>1. Installed
  BY DEF DisturbInv
<1>2. nextId \in DOMAIN netem
  BY <1>1 DEF Installed
<1>3. PICK u \in DOMAIN policies : nextId = policies[u].id
  BY <1>1, <1>2 DEF Installed
<1>4. policies[u].id \in FirstId .. nextId - 1 /\ nextId \in Int
  BY <1>3 DEF DisturbInv, PolicyIds, FirstId
<1> QED  BY <1>3, <1>4 DEF FirstId

\* apply of a new target.
LEMMA PolicyStep ==
    ASSUME DisturbInv, NEW t \in Targets, NEW level \in INTENSITY, Disturb(t, level)
    PROVE  DisturbInv'
<1> DEFINE fails == rootInstalled /\ (root # "htb" \/ nextId \in DOMAIN netem)
           under == IF rootInstalled THEN netem ELSE Blank
           gone == [to |-> t, mark |-> nextId]
           pol == [id |-> nextId, intensity |-> level]
           PolicyOf(n) == [id : FirstId .. n - 1, intensity : INTENSITY]
<1>1. /\ t \notin DOMAIN policies /\ nextId < FirstId + MaxMarks
      /\ policies' = IF fails THEN policies ELSE With(policies, t, pol)
      /\ nextId' = nextId + 1 /\ rootInstalled' = TRUE
      /\ root' = IF rootInstalled THEN root ELSE "htb"
      /\ netem' = IF fails THEN Without(netem, nextId) ELSE With(under, nextId, level)
      /\ mangle' = IF fails THEN RemoveFirst(mangle, gone) ELSE Append(mangle, gone)
      /\ interfered' = interfered
  BY DEF Disturb
<1>2. /\ nextId \in PolicyIds /\ nextId' \in PolicyIds /\ nextId \in Int /\ nextId' = nextId + 1
      /\ nextId \in FirstId .. nextId' - 1 /\ FirstId .. nextId - 1 \subseteq FirstId .. nextId' - 1
  BY <1>1, ShapingAssumption DEF DisturbInv, PolicyIds, FirstId
<1>3. mangle \in Seq([to : Targets, mark : PolicyIds]) /\ gone \in [to : Targets, mark : PolicyIds]
  BY <1>2 DEF DisturbInv
<1>4. /\ policies \in [DOMAIN policies -> PolicyOf(nextId)]
      /\ \A u \in DOMAIN policies : policies[u] \in PolicyOf(nextId) /\ policies[u] \in PolicyOf(nextId')
  <2>1. policies \in [DOMAIN policies -> PolicyOf(nextId)]
    BY DEF DisturbInv
  <2>2. PolicyOf(nextId) \subseteq PolicyOf(nextId')
    BY <1>2
  <2> HIDE DEF PolicyOf
  <2> QED  BY <2>1, <2>2
<1>5. root' \in {"plain", "cake", "htb"} /\ interfered' \in BOOLEAN
  BY <1>1 DEF DisturbInv
<1>6. CASE fails
  <2>1. interfered'
    BY <1>1, <1>6, FailsOnlyInterfered
  <2>2. policies' = policies /\ DOMAIN policies # {}
    BY <1>1, <1>6 DEF DisturbInv
  <2>3. DOMAIN netem' \subseteq PolicyIds
    BY <1>1, <1>6 DEF DisturbInv, Without
  <2>4. mangle' \in Seq([to : Targets, mark : PolicyIds])
    BY <1>1, <1>3, <1>6, RemovedIs
  <2>5. policies' \in [DOMAIN policies' -> PolicyOf(nextId')]
    BY <1>4, <2>2
  <2> QED  BY <1>1, <1>2, <1>5, <2>1, <2>2, <2>3, <2>4, <2>5 DEF DisturbInv
<1>7. CASE ~fails
  <2> HIDE DEF fails
  <2>1. /\ policies' = With(policies, t, pol) /\ netem' = With(under, nextId, level)
        /\ mangle' = Append(mangle, gone)
    BY <1>1, <1>7
  <2>2. /\ DOMAIN policies' = DOMAIN policies \cup {t} /\ policies'[t] = pol
        /\ \A u \in DOMAIN policies : policies'[u] = policies[u]
        /\ policies' = [u \in DOMAIN policies' |-> policies'[u]]
    BY <1>1, <2>1 DEF With
  <2>3. /\ DOMAIN netem' = DOMAIN under \cup {nextId} /\ netem'[nextId] = level
        /\ \A k \in DOMAIN under : k # nextId => netem'[k] = under[k]
    BY <2>1 DEF With
  <2>4. DOMAIN under \subseteq DOMAIN netem
    BY BlankIs
  <2>5. /\ mangle' \in Seq([to : Targets, mark : PolicyIds]) /\ Len(mangle') = Len(mangle) + 1
        /\ Len(mangle) \in Nat
        /\ \A i \in 1 .. Len(mangle) : mangle'[i] = mangle[i]
        /\ mangle'[Len(mangle) + 1] = gone
    BY <1>3, <2>1
  <2>6. pol \in PolicyOf(nextId')
    BY <1>2
  <2>7. policies' \in [DOMAIN policies' -> PolicyOf(nextId')]
    <3>1. \A u \in DOMAIN policies' : policies'[u] \in PolicyOf(nextId')
      BY <1>4, <2>2, <2>6
    <3> HIDE DEF PolicyOf, pol
    <3> QED  BY <2>2, <3>1
  <2>8. \A u \in DOMAIN policies : policies[u].id # nextId
    BY <1>2, <1>4
  <2>9. \A x, y \in DOMAIN policies' : policies'[x].id = policies'[y].id => x = y
    <3>1. policies'[t].id = nextId
      BY <2>2
    <3>2. \A u \in DOMAIN policies : policies'[u].id # nextId
      BY <2>2, <2>8
    <3>3. \A x, y \in DOMAIN policies : policies'[x].id = policies'[y].id => x = y
      BY <2>2 DEF DisturbInv
    <3> QED  BY <2>2, <3>1, <3>2, <3>3
  <2>10. ASSUME ~interfered' PROVE Installed'
    <3>1. Installed
      BY <1>1, <2>10 DEF DisturbInv
    <3>2. root' = "htb"
      BY <1>1, <3>1 DEF Installed
    <3>3. DOMAIN under = {policies[u].id : u \in DOMAIN policies}
      <4>1. CASE rootInstalled
        BY <3>1, <4>1 DEF Installed
      <4>2. CASE ~rootInstalled
        BY <4>2, BlankIs DEF DisturbInv
      <4> QED  BY <4>1, <4>2
    <3>4. \A u \in DOMAIN policies : under[policies[u].id] = policies[u].intensity
      BY <3>1 DEF Installed, DisturbInv
    <3> HIDE DEF under
    <3>5. DOMAIN netem' = {policies'[u].id : u \in DOMAIN policies'}
      <4>1. {policies'[u].id : u \in DOMAIN policies'} = {policies'[u].id : u \in DOMAIN policies} \cup {policies'[t].id}
        BY <2>2
      <4>2. {policies'[u].id : u \in DOMAIN policies} = {policies[u].id : u \in DOMAIN policies}
        BY <2>2
      <4>3. policies'[t].id = nextId
        BY <2>2
      <4> QED  BY <2>3, <3>3, <4>1, <4>2, <4>3
    <3>6. ASSUME NEW u \in DOMAIN policies' PROVE netem'[policies'[u].id] = policies'[u].intensity
      <4>1. CASE u = t
        BY <2>2, <2>3, <4>1
      <4>2. CASE u \in DOMAIN policies
        <5>1. policies[u].id \in DOMAIN under /\ policies[u].id # nextId
          BY <2>8, <3>3, <4>2
        <5> QED  BY <2>2, <2>3, <3>4, <4>2, <5>1
      <4> QED  BY <2>2, <4>1, <4>2
    <3>7. ASSUME NEW i \in 1 .. Len(mangle')
          PROVE  /\ mangle'[i].to \in DOMAIN policies'
                 /\ mangle'[i].mark = policies'[mangle'[i].to].id
      <4>1. CASE i = Len(mangle) + 1
        BY <2>2, <2>5, <4>1
      <4>2. CASE i \in 1 .. Len(mangle)
        <5>1. /\ mangle[i].to \in DOMAIN policies
              /\ mangle[i].mark = policies[mangle[i].to].id
          BY <3>1, <4>2 DEF Installed
        <5> QED  BY <2>2, <2>5, <4>2, <5>1
      <4> QED  BY <2>5, <4>1, <4>2
    <3>8. ASSUME NEW u \in DOMAIN policies' PROVE \E i \in 1 .. Len(mangle') : mangle'[i].to = u
      <4>1. CASE u = t
        <5>1. Len(mangle) + 1 \in 1 .. Len(mangle') /\ mangle'[Len(mangle) + 1].to = t
          BY <2>5
        <5> QED  BY <4>1, <5>1
      <4>2. CASE u \in DOMAIN policies
        <5>1. PICK i \in 1 .. Len(mangle) : mangle[i].to = u
          BY <3>1, <4>2 DEF Installed
        <5>2. i \in 1 .. Len(mangle') /\ mangle'[i].to = u
          BY <2>5, <5>1
        <5> QED  BY <5>2
      <4> QED  BY <2>2, <4>1, <4>2
    <3>9. ASSUME NEW i \in 1 .. Len(mangle'), NEW j \in 1 .. Len(mangle'),
                 mangle'[i].to = mangle'[j].to
          PROVE  i = j
      <4>1. \A k \in 1 .. Len(mangle) : mangle'[k] = mangle[k] /\ mangle[k].to # t
        BY <1>1, <2>5, <3>1 DEF Installed
      <4>2. mangle'[Len(mangle) + 1].to = t
        BY <2>5
      <4>3. \A k, l \in 1 .. Len(mangle) : mangle[k].to = mangle[l].to => k = l
        BY <3>1 DEF Installed
      <4>4. \A k \in 1 .. Len(mangle') : k \in 1 .. Len(mangle) \/ k = Len(mangle) + 1
        BY <2>5
      <4> QED  BY <3>9, <4>1, <4>2, <4>3, <4>4
    <3> QED  BY <3>2, <3>5, <3>6, <3>7, <3>8, <3>9 DEF Installed
  <2>11. DOMAIN netem' \subseteq PolicyIds
    BY <1>2, <2>3, <2>4 DEF DisturbInv
  <2>12. DOMAIN policies' \subseteq Targets /\ DOMAIN policies' # {}
    BY <2>2 DEF DisturbInv
  <2> QED  BY <1>1, <1>2, <1>5, <2>5, <2>7, <2>9, <2>10, <2>11, <2>12 DEF DisturbInv
<1> QED  BY <1>6, <1>7

\* remove: the mark and the queue of the policy go, those of the others stay.
LEMMA RemoveInstalled ==
    ASSUME DisturbInv, Installed, NEW t \in DOMAIN policies, DisturbRemove(t) PROVE Installed'
<1> DEFINE id == policies[t].id
           gone == [to |-> t, mark |-> id]
           last == DOMAIN policies = {t}
<1>1. /\ policies' = Without(policies, t)
      /\ mangle' = RemoveFirst(mangle, gone)
      /\ rootInstalled' = (rootInstalled /\ ~last)
      /\ root' = IF last THEN "plain" ELSE root
      /\ netem' = IF last THEN Blank ELSE Without(netem, id)
  BY DEF DisturbRemove
<1>2. /\ DOMAIN policies' = DOMAIN policies \ {t}
      /\ \A u \in DOMAIN policies' : policies'[u] = policies[u]
  BY <1>1 DEF Without
<1>3. mangle \in Seq([to : Targets, mark : PolicyIds]) /\ Len(mangle) \in Nat
  BY DEF DisturbInv
<1>4. \A i \in 1 .. Len(mangle) : mangle[i].to = t => mangle[i] = gone
  <2> SUFFICES ASSUME NEW i \in 1 .. Len(mangle), mangle[i].to = t PROVE mangle[i] = gone
    OBVIOUS
  <2> DEFINE Rule == [to : Targets, mark : PolicyIds]
  <2>3. mangle \in Seq(Rule)
    BY <1>3
  <2>1. mangle[i] \in Rule
    <3> HIDE DEF Rule
    <3> QED  BY <2>3
  <2>2. mangle[i].mark = id
    BY DEF Installed
  <2> HIDE DEF id
  <2> QED  BY <2>1, <2>2
<1>5. \E i \in 1 .. Len(mangle) : mangle[i] = gone
  <2>1. PICK i \in 1 .. Len(mangle) : mangle[i].to = t
    BY DEF Installed
  <2> HIDE DEF gone
  <2> QED  BY <1>4, <2>1
<1>6. gone.to = t
  OBVIOUS
<1> HIDE DEF gone
<1>7. PICK at \in 1 .. Len(mangle) :
         /\ mangle[at] = gone /\ Len(mangle') = Len(mangle) - 1
         /\ \A i \in 1 .. Len(mangle) - 1 :
               mangle'[i] = IF i < at THEN mangle[i] ELSE mangle[i + 1]
  <2>1. \E at \in 1 .. Len(mangle) :
           /\ mangle[at] = gone /\ Len(RemoveFirst(mangle, gone)) = Len(mangle) - 1
           /\ \A i \in 1 .. Len(mangle) - 1 :
                 RemoveFirst(mangle, gone)[i] = IF i < at THEN mangle[i] ELSE mangle[i + 1]
    <3> DEFINE Rule == [to : Targets, mark : PolicyIds]
    <3>1. mangle \in Seq(Rule)
      BY <1>3
    <3> HIDE DEF Rule
    <3>2. (\E i \in 1 .. Len(mangle) : mangle[i] = gone) =>
             \E at \in 1 .. Len(mangle) :
                /\ mangle[at] = gone /\ Len(RemoveFirst(mangle, gone)) = Len(mangle) - 1
                /\ \A i \in 1 .. Len(mangle) - 1 :
                      RemoveFirst(mangle, gone)[i] = IF i < at THEN mangle[i] ELSE mangle[i + 1]
      BY <3>1, RemovedIs
    <3> QED  BY <1>5, <3>2
  <2> QED  BY <1>1, <2>1
<1> DEFINE was(i) == IF i < at THEN i ELSE i + 1
<1>8. \A i \in 1 .. Len(mangle') :
         was(i) \in 1 .. Len(mangle) /\ was(i) # at /\ mangle'[i] = mangle[was(i)]
  BY <1>3, <1>7
<1>9. \A i, j \in 1 .. Len(mangle') : was(i) = was(j) => i = j
  BY <1>3, <1>7
<1>10. \A i \in 1 .. Len(mangle) : i # at => \E j \in 1 .. Len(mangle') : was(j) = i
  <2> SUFFICES ASSUME NEW i \in 1 .. Len(mangle), i # at
               PROVE  \E j \in 1 .. Len(mangle') : was(j) = i
    OBVIOUS
  <2>1. CASE i < at
    <3>1. i \in 1 .. Len(mangle') /\ was(i) = i
      BY <1>3, <1>7, <2>1
    <3> HIDE DEF was
    <3> QED  BY <3>1
  <2>2. CASE ~(i < at)
    <3>1. i - 1 \in 1 .. Len(mangle') /\ was(i - 1) = i
      BY <1>3, <1>7, <2>2
    <3> HIDE DEF was
    <3> QED  BY <3>1
  <2> QED  BY <2>1, <2>2
<1> HIDE DEF was
<1>11. \A i \in 1 .. Len(mangle) : i # at => mangle[i].to # t
  BY <1>6, <1>7 DEF Installed
<1>12. ASSUME NEW i \in 1 .. Len(mangle')
       PROVE  mangle'[i].to \in DOMAIN policies' /\ mangle'[i].mark = policies'[mangle'[i].to].id
  <2>1. /\ mangle[was(i)].to \in DOMAIN policies /\ mangle[was(i)].to # t
        /\ mangle[was(i)].mark = policies[mangle[was(i)].to].id
    BY <1>8, <1>11 DEF Installed
  <2> QED  BY <1>2, <1>8, <2>1
<1>13. ASSUME NEW u \in DOMAIN policies' PROVE \E j \in 1 .. Len(mangle') : mangle'[j].to = u
  <2>1. u \in DOMAIN policies /\ u # t
    BY <1>2
  <2>2. PICK i \in 1 .. Len(mangle) : mangle[i].to = u
    BY <2>1 DEF Installed
  <2>3. i # at
    BY <1>6, <1>7, <2>1, <2>2
  <2>4. PICK j \in 1 .. Len(mangle') : was(j) = i
    BY <1>10, <2>3
  <2> QED  BY <1>8, <2>2, <2>4
<1>14. ASSUME NEW i \in 1 .. Len(mangle'), NEW j \in 1 .. Len(mangle'), mangle'[i].to = mangle'[j].to
       PROVE  i = j
  <2>1. mangle[was(i)].to = mangle[was(j)].to
    BY <1>8, <1>14
  <2>2. was(i) = was(j)
    BY <1>8, <2>1 DEF Installed
  <2> QED  BY <1>9, <2>2
<1>15. DOMAIN netem' = {policies'[u].id : u \in DOMAIN policies'}
  <2>1. CASE last
    BY <1>1, <1>2, <2>1, BlankIs
  <2>2. CASE ~last
    <3>1. DOMAIN netem' = DOMAIN netem \ {id}
      BY <1>1, <2>2 DEF Without
    <3>2. \A u \in DOMAIN policies' : policies'[u].id = policies[u].id /\ policies[u].id # id
      BY <1>2 DEF DisturbInv
    <3>3. {policies'[u].id : u \in DOMAIN policies'} = {policies[u].id : u \in DOMAIN policies} \ {id}
      BY <1>2, <3>2
    <3> QED  BY <3>1, <3>3 DEF Installed
  <2> QED  BY <2>1, <2>2
<1>16. ASSUME NEW u \in DOMAIN policies' PROVE netem'[policies'[u].id] = policies'[u].intensity
  <2>1. u \in DOMAIN policies /\ u # t /\ ~last
    BY <1>2
  <2>2. policies[u].id # id /\ policies[u].id \in DOMAIN netem
    BY <2>1 DEF Installed, DisturbInv
  <2>3. netem'[policies[u].id] = netem[policies[u].id]
    BY <1>1, <2>1, <2>2 DEF Without
  <2> QED  BY <1>2, <2>1, <2>3 DEF Installed
<1>17. rootInstalled' => root' = "htb"
  BY <1>1 DEF Installed
<1> QED  BY <1>12, <1>13, <1>14, <1>15, <1>16, <1>17 DEF Installed

LEMMA RemoveStep == ASSUME DisturbInv, NEW t, DisturbRemove(t) PROVE DisturbInv'
<1> DEFINE id == policies[t].id
           gone == [to |-> t, mark |-> id]
           last == DOMAIN policies = {t}
<1>1. /\ t \in DOMAIN policies
      /\ policies' = Without(policies, t)
      /\ mangle' = RemoveFirst(mangle, gone)
      /\ rootInstalled' = (rootInstalled /\ ~last)
      /\ root' = IF last THEN "plain" ELSE root
      /\ netem' = IF last THEN Blank ELSE Without(netem, id)
      /\ interfered' = (interfered /\ ~(last /\ mangle' = <<>>))
      /\ nextId' = nextId
  BY DEF DisturbRemove
<1>2. /\ DOMAIN policies' = DOMAIN policies \ {t}
      /\ \A u \in DOMAIN policies' : policies'[u] = policies[u]
      /\ policies' = [u \in DOMAIN policies' |-> policies'[u]]
  BY <1>1 DEF Without
<1>3. mangle' \in Seq([to : Targets, mark : PolicyIds])
  BY <1>1, RemovedIs DEF DisturbInv
<1>4. policies' \in [DOMAIN policies' -> [id : FirstId .. nextId' - 1, intensity : INTENSITY]]
  <2> DEFINE PolicyOf == [id : FirstId .. nextId - 1, intensity : INTENSITY]
  <2>1. \A u \in DOMAIN policies : policies[u] \in PolicyOf
    BY DEF DisturbInv
  <2> HIDE DEF PolicyOf
  <2>2. policies' \in [DOMAIN policies' -> PolicyOf]
    BY <1>2, <2>1
  <2> QED  BY <1>1, <2>2 DEF PolicyOf
<1>5. \A x, y \in DOMAIN policies' : policies'[x].id = policies'[y].id => x = y
  BY <1>2 DEF DisturbInv
<1>6. DOMAIN netem' \subseteq PolicyIds
  <2>1. DOMAIN netem' \subseteq DOMAIN netem
    BY <1>1, BlankIs DEF Without
  <2> QED  BY <2>1 DEF DisturbInv
<1>7. rootInstalled' \in BOOLEAN /\ (rootInstalled' <=> DOMAIN policies' # {})
  BY <1>1, <1>2 DEF DisturbInv
<1>8. ASSUME ~interfered' PROVE Installed'
  <2>1. CASE ~interfered
    BY <1>1, <2>1, RemoveInstalled DEF DisturbInv
  <2>2. CASE interfered
    <3>1. last /\ mangle' = <<>>
      BY <1>1, <1>8, <2>2
    <3>2. DOMAIN policies' = {} /\ DOMAIN netem' = {} /\ ~rootInstalled'
      BY <1>1, <1>2, <3>1, BlankIs
    <3> QED  BY <3>1, <3>2 DEF Installed
  <2> QED  BY <2>1, <2>2
<1>9. root' \in {"plain", "cake", "htb"} /\ interfered' \in BOOLEAN
  BY <1>1 DEF DisturbInv
<1> QED  BY <1>1, <1>2, <1>3, <1>4, <1>5, <1>6, <1>7, <1>8, <1>9 DEF DisturbInv

LEMMA DisturbStep == ASSUME DisturbInv, ShapingNext \/ UNCHANGED shapingVars PROVE DisturbInv'
<1>1. CASE UNCHANGED <<disturbSide, wanSide, interfered>>
  BY <1>1 DEF disturbSide, wanSide, DisturbInv, Installed
<1>2. CASE ApplyCake \/ QosClear
  BY <1>2, RootStep
<1>3. CASE AgentAgain \/ BoxAgain
  BY <1>3, ForgetStep
<1>4. ASSUME NEW d, NEW c, SetDevicePriority(d, c) PROVE UNCHANGED <<disturbSide, wanSide, interfered>>
  BY <1>4 DEF SetDevicePriority
<1>5. ASSUME NEW d, NEW rate, NEW ip, SetDeviceCap(d, rate, ip)
      PROVE  UNCHANGED <<disturbSide, wanSide, interfered>>
  BY <1>5 DEF SetDeviceCap
<1>6. ASSUME NEW t \in Targets, NEW level \in INTENSITY, DisturbAgain(t, level) \/ Disturb(t, level)
      PROVE  DisturbInv'
  BY <1>6, AgainStep, PolicyStep
<1>7. ASSUME NEW t, DisturbRemove(t) PROVE DisturbInv'
  BY <1>7, RemoveStep
<1>8. CASE UNCHANGED shapingVars
  BY <1>8, <1>1 DEF shapingVars
<1>9. CASE ShapingNext
  BY <1>1, <1>2, <1>3, <1>4, <1>5, <1>6, <1>7, <1>9, Zenon DEF ShapingNext
<1> QED  BY <1>8, <1>9

-----------------------------------------------------------------------------
(* Shaping as a whole.                                                     *)

LEMMA MarksFollow == QosInv => ShapedAsRecorded
<1> SUFFICES ASSUME QosInv, NEW d \in Gadgets
             PROVE  /\ d \in DOMAIN device_caps =>
                          {r \in cap_rules : r.of = d} =
                              IF d \in rebooted THEN {} ELSE CapRules(d, device_caps[d])
                    /\ \A i, j \in {k \in DOMAIN mes_qos_pre : mes_qos_pre[k].of = d} :
                          /\ i = j /\ d \in DOMAIN device_priorities
                          /\ mes_qos_pre[i].class = device_priorities[d]
  BY DEF ShapedAsRecorded
<1>1. d \in DOMAIN device_caps =>
         {r \in cap_rules : r.of = d} = IF d \in rebooted THEN {} ELSE CapRules(d, device_caps[d])
  BY Zenon DEF QosInv, CapsTrue
<1>2. ASSUME NEW i \in {k \in DOMAIN mes_qos_pre : mes_qos_pre[k].of = d},
             NEW j \in {k \in DOMAIN mes_qos_pre : mes_qos_pre[k].of = d}
      PROVE  i = j /\ d \in DOMAIN device_priorities /\ mes_qos_pre[i].class = device_priorities[d]
  BY DEF QosInv, MarksTrue
<1> QED  BY <1>1, <1>2

\* A packet to which marks of disturb.js apply leaves with one of those; another with the mark
\* of the priority of its device, or with none.
LEMMA MarkOfIs ==
    ASSUME QosInv, DisturbInv, NEW d, NEW s
    PROVE  \/ \E i \in 1 .. Len(mangle) : mangle[i].to \in {d, s} /\ MarkOf(d, s) = mangle[i].mark
           \/ /\ \A i \in 1 .. Len(mangle) : mangle[i].to \notin {d, s}
              /\ \/ MarkOf(d, s) = 0
                 \/ /\ d \in DOMAIN device_priorities
                    /\ MarkOf(d, s) = PRIO_CLASS[device_priorities[d]]
<1> DEFINE hits == {i \in DOMAIN mangle : mangle[i].to \in {d, s}}
           prio == {i \in DOMAIN mes_qos_pre : mes_qos_pre[i].of = d}
<1>1. /\ Len(mangle) \in Nat /\ DOMAIN mangle = 1 .. Len(mangle)
      /\ Len(mes_qos_pre) \in Nat /\ DOMAIN mes_qos_pre = 1 .. Len(mes_qos_pre)
  <2>1. mangle \in Seq([to : Targets, mark : PolicyIds]) /\ mes_qos_pre \in Seq(PrioMarks(Gadgets))
    BY DEF DisturbInv, QosInv
  <2> QED  BY <2>1
<1>2. CASE hits # {}
  <2>1. hits \in SUBSET (1 .. Len(mangle))
    BY <1>1
  <2>2. Max(hits) \in hits
    <3> HIDE DEF hits
    <3> QED  BY <1>1, <1>2, <2>1, MaxIsOne
  <2>3. MarkOf(d, s) = mangle[Max(hits)].mark
    BY <1>2 DEF MarkOf
  <2> DEFINE m == Max(hits)
  <2>4. m \in 1 .. Len(mangle) /\ mangle[m].to \in {d, s} /\ MarkOf(d, s) = mangle[m].mark
    BY <1>1, <2>2, <2>3
  <2> HIDE DEF m, hits
  <2> QED  BY <2>4
<1>3. CASE hits = {} /\ prio # {}
  <2>1. prio \in SUBSET (1 .. Len(mes_qos_pre))
    BY <1>1
  <2>2. Max(prio) \in prio
    <3> HIDE DEF prio
    <3> QED  BY <1>1, <1>3, <2>1, MaxIsOne
  <2>3. MarkOf(d, s) = PRIO_CLASS[mes_qos_pre[Max(prio)].class]
    BY <1>3 DEF MarkOf
  <2> DEFINE m == Max(prio)
  <2>4. m \in DOMAIN mes_qos_pre /\ mes_qos_pre[m].of = d
    BY <2>2
  <2> HIDE DEF m
  <2>5. d \in DOMAIN device_priorities /\ mes_qos_pre[m].class = device_priorities[d]
    BY <2>4 DEF QosInv, MarksTrue
  <2>6. \A i \in 1 .. Len(mangle) : mangle[i].to \notin {d, s}
    BY <1>1, <1>3
  <2> QED  BY <2>3, <2>5, <2>6 DEF m
<1>4. CASE hits = {} /\ prio = {}
  <2>1. MarkOf(d, s) = 0
    BY <1>4 DEF MarkOf
  <2>2. \A i \in 1 .. Len(mangle) : mangle[i].to \notin {d, s}
    BY <1>1, <1>4
  <2> QED  BY <2>1, <2>2
<1> QED  BY <1>2, <1>3, <1>4

LEMMA DisturbFollows == QosInv /\ DisturbInv => DisturbedAsListed
<1> SUFFICES ASSUME QosInv, DisturbInv, ~interfered, NEW d \in Gadgets, NEW s \in Sites
             PROVE  LET covering == {policies[t] : t \in DOMAIN policies \cap {d, s}}
                        left     == MarkOf(d, s)
                    IN  IF covering # {}
                        THEN \E p \in covering : /\ left = p.id /\ left \in DOMAIN netem
                                                 /\ netem[left] = p.intensity
                        ELSE left \in DOMAIN netem =>
                                /\ d \in DOMAIN device_priorities
                                /\ left = PRIO_CLASS[device_priorities[d]]
  BY DEF DisturbedAsListed
<1> DEFINE covering == {policies[t] : t \in DOMAIN policies \cap {d, s}}
           left == MarkOf(d, s)
<1>1. Installed
  BY DEF DisturbInv
<1>2. \/ \E i \in 1 .. Len(mangle) : mangle[i].to \in {d, s} /\ left = mangle[i].mark
      \/ /\ \A i \in 1 .. Len(mangle) : mangle[i].to \notin {d, s}
         /\ left = 0 \/ (d \in DOMAIN device_priorities /\ left = PRIO_CLASS[device_priorities[d]])
  BY MarkOfIs
<1> HIDE DEF left
<1>3. 0 \notin DOMAIN netem
  BY DEF DisturbInv, PolicyIds, FirstId
<1>4. CASE covering # {}
  <2>1. PICK t \in DOMAIN policies : t \in {d, s}
    BY <1>4
  <2>2. \E i \in 1 .. Len(mangle) : mangle[i].to \in {d, s}
    BY <1>1, <2>1 DEF Installed
  <2>3. PICK i \in 1 .. Len(mangle) : mangle[i].to \in {d, s} /\ left = mangle[i].mark
    BY <1>2, <2>2
  <2>4. mangle[i].to \in DOMAIN policies /\ left = policies[mangle[i].to].id
    BY <1>1, <2>3 DEF Installed
  <2> DEFINE p == policies[mangle[i].to]
  <2>5. p \in covering
    BY <2>3, <2>4
  <2>6. left = p.id /\ left \in DOMAIN netem /\ netem[left] = p.intensity
    BY <1>1, <2>4 DEF Installed
  <2> HIDE DEF p, covering
  <2>7. \E q \in covering : left = q.id /\ left \in DOMAIN netem /\ netem[left] = q.intensity
    BY <2>5, <2>6
  <2> QED  BY <1>4, <2>7 DEF left, covering
<1>5. CASE covering = {}
  <2>1. \A i \in 1 .. Len(mangle) : mangle[i].to \notin {d, s}
    BY <1>1, <1>5 DEF Installed
  <2>2. left \in DOMAIN netem =>
           d \in DOMAIN device_priorities /\ left = PRIO_CLASS[device_priorities[d]]
    BY <1>2, <1>3, <2>1
  <2> HIDE DEF covering
  <2> QED  BY <1>5, <2>2 DEF left, covering
<1> QED  BY <1>4, <1>5

LEMMA ShapingTypeFollows == QosInv /\ DisturbInv => ShapingTypeOK
  BY DEF QosInv, DisturbInv, ShapingTypeOK, PolicyIds

LEMMA ShapingStep == QosInv /\ DisturbInv /\ [Next]_householdVars => QosInv' /\ DisturbInv'
<1> SUFFICES ASSUME QosInv, DisturbInv, [Next]_householdVars PROVE QosInv' /\ DisturbInv'
  OBVIOUS
<1>1. ShapingNext \/ UNCHANGED shapingVars
  BY DEF Next, Time, AlarmStep, Mailing, FlowSeen, DailyUse, Network, VpnServing, VpnUse, Shape,
         householdVars, boxVars
<1> QED  BY <1>1, QosStep, DisturbStep

\* A cap is enforced by its own rules and by none of an older one, a device carries the recorded
\* priority and no other, and until something interferes a packet is disturbed as the policy of
\* its target says and no other packet is (qos.js, disturb.js): for any devices, sites,
\* addresses, rates, and any number of calls and restarts.
THEOREM ShapingCorrect == Spec => []ShapingTrue
<1>1. Init => QosInv /\ DisturbInv
  BY QosInitial, DisturbInitial DEF Init
<1>2. QosInv /\ DisturbInv => ShapingTrue
  BY MarksFollow, DisturbFollows, ShapingTypeFollows DEF ShapingTrue
<1> QED  BY <1>1, <1>2, ShapingStep, PTL DEF Spec

-----------------------------------------------------------------------------
(* Mailings                                                                *)

LEMMA DayNoIs ==
    ASSUME NEW a \in Int
    PROVE  /\ Hours \in Nat /\ Hours > 1
           /\ DayNo(a) \in Int /\ a % Hours \in 0 .. Hours - 1 /\ a = Hours * DayNo(a) + (a % Hours)
<1>1. Hours \in Nat /\ Hours > 1
  BY MailAssumption
<1>2. a \div Hours \in Int /\ a % Hours \in 0 .. Hours - 1 /\ a = Hours * (a \div Hours) + (a % Hours)
  BY <1>1, Z3
<1> QED  BY <1>1, <1>2 DEF DayNo

LEMMA DaysGrow ==
    ASSUME NEW a \in Int, NEW b \in Int, a <= b
    PROVE  /\ DayNo(a) <= DayNo(b)
           /\ b - a >= Hours => DayNo(a) < DayNo(b)
           /\ a % Hours = b % Hours /\ b - a < Hours => a = b
           /\ a % Hours = 0 /\ b < a + Hours => DayNo(b) = DayNo(a)
           /\ a % Hours = 0 /\ DayNo(b) = DayNo(a) => b < a + Hours
           /\ b % Hours = 0 /\ a < b => DayNo(a) < DayNo(b)
<1> DEFINE p == DayNo(a)
           q == DayNo(b)
           r == a % Hours
           s == b % Hours
<1>1. /\ Hours \in Nat /\ Hours > 1 /\ p \in Int /\ r \in 0 .. Hours - 1 /\ a = Hours * p + r
      /\ q \in Int /\ s \in 0 .. Hours - 1 /\ b = Hours * q + s
  BY DayNoIs
<1> HIDE DEF p, q, r, s
<1>2. p <= q
  <2> SUFFICES ASSUME p >= q + 1 PROVE FALSE
    BY <1>1
  <2>1. Hours * p >= Hours * (q + 1)
    BY <1>1, Z3
  <2>2. Hours * (q + 1) = Hours * q + Hours
    BY <1>1, Z3
  <2>3. Hours * p \in Int /\ Hours * q \in Int /\ Hours * (q + 1) \in Int
    BY <1>1
  <2> QED  BY <1>1, <2>1, <2>2, <2>3
<1>3. q = p \/ Hours * q >= Hours * p + Hours
  <2> SUFFICES ASSUME q >= p + 1 PROVE Hours * q >= Hours * p + Hours
    BY <1>1, <1>2
  <2>1. Hours * q >= Hours * (p + 1)
    BY <1>1, Z3
  <2>2. Hours * (p + 1) = Hours * p + Hours
    BY <1>1, Z3
  <2>3. Hours * p \in Int /\ Hours * q \in Int /\ Hours * (p + 1) \in Int
    BY <1>1
  <2> QED  BY <1>1, <2>1, <2>2, <2>3
<1>4. Hours * p \in Int /\ Hours * q \in Int
  BY <1>1
<1> QED
  <2>1. b - a >= Hours => p < q
    BY <1>1, <1>2, <1>3, <1>4
  <2>2. r = s /\ b - a < Hours => a = b
    BY <1>1, <1>2, <1>3, <1>4
  <2>3. r = 0 /\ b < a + Hours => q = p
    BY <1>1, <1>2, <1>3, <1>4
  <2>4. r = 0 /\ q = p => b < a + Hours
    BY <1>1, <1>2, <1>3, <1>4
  <2>5. s = 0 /\ a < b => p < q
    BY <1>1, <1>2, <1>3, <1>4
  <2> QED  BY <1>2, <2>1, <2>2, <2>3, <2>4, <2>5 DEF p, q, r, s

\* A mail that is due at each of its days.
LEMMA DueAll ==
    ASSUME NEW D \in SUBSET Nat, IsFiniteSet(D), D # {},
           NEW due \in [1 .. Cardinality(D) -> D],
           \A i, j \in DOMAIN due : i < j => due[i] < due[j]
    PROVE  Cardinality(D) \in Nat \ {0} /\ \A d \in D : \E i \in DOMAIN due : due[i] = d
<1> DEFINE n == Cardinality(D)
<1>1. n \in Nat /\ n # 0
  BY FS_CardinalityType, FS_EmptySet
<1>2. \A i, j \in 1 .. n : due[i] = due[j] => i = j
  <2> SUFFICES ASSUME NEW i \in 1 .. n, NEW j \in 1 .. n, i < j PROVE due[i] # due[j]
    BY <1>1
  <2>1. due[i] < due[j] /\ due[i] \in Nat /\ due[j] \in Nat
    OBVIOUS
  <2> QED  BY <2>1
<1>3. due \in Injection(1 .. n, D)
  BY <1>2 DEF Injection, IsInjective
<1>4. Cardinality(1 .. n) = n
  BY <1>1, FS_Interval
<1>5. due \in Surjection(1 .. n, D)
  BY <1>3, <1>4, FS_Injection
<1> QED  BY <1>1, <1>5 DEF Surjection

LEMMA DrippingFinite == IsFiniteSet(Dripping) /\ Dripping \in SUBSET Nat
<1>1. Dripping \subseteq DripDays
  BY DEF Dripping
<1> QED  BY <1>1, MailAssumption, FS_Subset

\* What a step that sends adds to the mails.
LEMMA SentIs ==
    ASSUME MailInv, NEW forced \in BOOLEAN, Sent(forced),
           job = "drip" => ~forced /\ Dripping # {}
    PROVE  \E n \in Nat \ {0} :
              /\ outbox' \in Seq(Mail) /\ Len(outbox') = Len(outbox) + n /\ mark' = hour
              /\ job # "drip" => n = 1
              /\ \A i \in 1 .. Len(outbox) : outbox'[i] = outbox[i]
              /\ \A i \in Len(outbox) + 1 .. Len(outbox) + n :
                    /\ outbox'[i].at = hour /\ outbox'[i].forced = forced
                    /\ job = "drip" => outbox'[i].about \in Dripping
              /\ job = "drip" =>
                    /\ \A i, j \in Len(outbox) + 1 .. Len(outbox) + n :
                          j < i => outbox'[i].about # outbox'[j].about
                    /\ \A d \in Dripping : \E i \in Len(outbox) + 1 .. Len(outbox) + n :
                          outbox'[i].about = d
<1>1. outbox \in Seq(Mail) /\ hour \in 0 .. MaxHours
  BY DEF MailInv, MailTypeOK
<1>2. \A f \in BOOLEAN, a \in {0} \cup DripDays :
         New(f, a) \in Mail /\ New(f, a).at = hour /\ New(f, a).forced = f /\ New(f, a).about = a
  BY <1>1 DEF New, Mail
<1>3. CASE job # "drip"
  <2>1. outbox' = Append(outbox, New(forced, 0)) /\ mark' = hour
    BY <1>3 DEF Sent
  <2> DEFINE m == New(forced, 0)
  <2>2. m \in Mail /\ m.at = hour /\ m.forced = forced
    BY <1>2
  <2> HIDE DEF m
  <2>3. outbox' \in Seq(Mail) /\ Len(outbox') = Len(outbox) + 1 /\ outbox'[Len(outbox) + 1] = m
        /\ \A i \in 1 .. Len(outbox) : outbox'[i] = outbox[i]
    BY <1>1, <2>1, <2>2 DEF m
  <2>4. Len(outbox) \in Nat
    BY <1>1
  <2>5. \A i \in Len(outbox) + 1 .. Len(outbox) + 1 : i = Len(outbox) + 1
    BY <2>4
  <2> QED  BY <1>3, <2>1, <2>2, <2>3, <2>4, <2>5
<1>4. CASE job = "drip"
  <2>1. PICK due \in [1 .. Cardinality(Dripping) -> Dripping] :
           /\ \A i, j \in DOMAIN due : i < j => due[i] < due[j]
           /\ outbox' = outbox \o [i \in DOMAIN due |-> New(FALSE, due[i])]
           /\ mark' = hour
    BY <1>4 DEF Sent
  <2> DEFINE n == Cardinality(Dripping)
             t == [i \in 1 .. n |-> New(FALSE, due[i])]
             l == Len(outbox)
  <2>2. n \in Nat \ {0} /\ \A d \in Dripping : \E i \in 1 .. n : due[i] = d
    <3>1. IsFiniteSet(Dripping) /\ Dripping \in SUBSET Nat
      BY DrippingFinite
    <3>2. DOMAIN due = 1 .. n /\ due \in [1 .. n -> Dripping]
      BY <2>1
    <3>3. \A i, j \in 1 .. n : i < j => due[i] < due[j]
      BY <2>1, <3>2
    <3>4. n \in Nat
      BY <3>1, FS_CardinalityType
    <3>6. Dripping # {}
      BY <1>4
    <3>5. \A d \in Dripping : \E i \in 1 .. n : due[i] = d
      <4>1. PICK D : D = Dripping
        OBVIOUS
      <4>2. D \in SUBSET Nat /\ IsFiniteSet(D) /\ D # {}
        BY <3>1, <3>6, <4>1, Zenon
      <4>3. due \in [1 .. Cardinality(D) -> D] /\ \A i, j \in DOMAIN due : i < j => due[i] < due[j]
        BY <2>1, <4>1, Zenon
      <4>4. \A d \in D : \E i \in DOMAIN due : due[i] = d
        BY <4>2, <4>3, DueAll
      <4> QED  BY <3>2, <4>1, <4>4, Zenon
    <3>7. n # 0
      BY <3>1, <3>6, FS_EmptySet
    <3> HIDE DEF n
    <3> QED  BY <3>4, <3>5, <3>7
  <2>3. outbox' = outbox \o t
    BY <2>1
  <2>4. \A i \in 1 .. n : due[i] \in Dripping /\ due[i] \in DripDays /\ due[i] \in Nat
    BY <2>1, MailAssumption DEF Dripping
  <2>5. t \in Seq(Mail) /\ Len(t) = n
    <3>1. \A i \in 1 .. n : New(FALSE, due[i]) \in Mail
      BY <1>2, <2>4
    <3>2. t \in [1 .. n -> Mail]
      BY <3>1, Zenon
    <3> HIDE DEF t
    <3> QED  BY <2>2, <3>2
  <2>6. \A i \in 1 .. n : t[i].at = hour /\ t[i].forced = FALSE /\ t[i].about = due[i]
    BY <1>2, <2>4
  <2>7. \A i, j \in 1 .. n : i < j => due[i] # due[j]
    BY <2>1, <2>4
  <2> HIDE DEF n, t
  <2>8. /\ outbox' \in Seq(Mail) /\ Len(outbox') = l + n
        /\ \A i \in 1 .. l : outbox'[i] = outbox[i]
        /\ \A i \in l + 1 .. l + n : i - l \in 1 .. n /\ outbox'[i] = t[i - l]
        /\ \A i \in 1 .. n : i + l \in l + 1 .. l + n /\ outbox'[i + l] = t[i]
    <3>1. outbox' \in Seq(Mail) /\ Len(outbox') = l + n
      <4>1. outbox \o t \in Seq(Mail)
        BY <1>1, <2>5
      <4>2. Len(outbox \o t) = Len(outbox) + Len(t)
        BY <1>1, <2>5
      <4> QED  BY <2>3, <2>5, <4>1, <4>2
    <3>2. \A i \in 1 .. l + n : outbox'[i] = IF i <= l THEN outbox[i] ELSE t[i - l]
      BY <1>1, <2>2, <2>3, <2>5
    <3>3. l \in Nat /\ n \in Nat
      BY <1>1, <2>2
    <3> HIDE DEF l
    <3>4. \A i \in 1 .. l : i \in 1 .. l + n /\ i <= l
      BY <3>3
    <3>5. \A i \in l + 1 .. l + n : i \in 1 .. l + n /\ ~(i <= l) /\ i - l \in 1 .. n
      BY <3>3
    <3>6. \A i \in 1 .. n : i + l \in l + 1 .. l + n /\ (i + l) - l = i
      BY <3>3
    <3>7. \A i \in 1 .. l : outbox'[i] = outbox[i]
      BY <3>2, <3>4
    <3>8. \A i \in l + 1 .. l + n : i - l \in 1 .. n /\ outbox'[i] = t[i - l]
      BY <3>2, <3>5
    <3>9. \A i \in 1 .. n : i + l \in l + 1 .. l + n /\ outbox'[i + l] = t[i]
      <4> TAKE i \in 1 .. n
      <4>1. i + l \in l + 1 .. l + n /\ (i + l) - l = i
        BY <3>6
      <4>2. outbox'[i + l] = t[(i + l) - l]
        BY <3>8, <4>1
      <4> QED  BY <4>1, <4>2, Zenon
    <3> QED  BY <3>1, <3>7, <3>8, <3>9
  <2>9. l \in Nat
    BY <1>1
  <2>10. \A i \in l + 1 .. l + n :
            /\ outbox'[i].at = hour /\ outbox'[i].forced = forced
            /\ outbox'[i].about \in Dripping
    <3> TAKE i \in l + 1 .. l + n
    <3>1. i - l \in 1 .. n /\ outbox'[i] = t[i - l]
      BY <2>8
    <3>2. t[i - l].at = hour /\ t[i - l].forced = FALSE /\ t[i - l].about \in Dripping
      BY <2>4, <2>6, <3>1
    <3>3. forced = FALSE
      BY <1>4
    <3> QED  BY <3>1, <3>2, <3>3, Zenon
  <2>11. \A i, j \in l + 1 .. l + n : j < i => outbox'[i].about # outbox'[j].about
    <3> SUFFICES ASSUME NEW i \in l + 1 .. l + n, NEW j \in l + 1 .. l + n, j < i
                 PROVE  outbox'[i].about # outbox'[j].about
      OBVIOUS
    <3>1. i - l \in 1 .. n /\ j - l \in 1 .. n /\ j - l < i - l
      BY <2>2, <2>9
    <3>2. outbox'[i] = t[i - l] /\ outbox'[j] = t[j - l]
      BY <2>8
    <3>3. t[i - l].about = due[i - l] /\ t[j - l].about = due[j - l]
      BY <2>6, <3>1
    <3>4. due[j - l] # due[i - l]
      BY <2>7, <3>1
    <3> QED  BY <3>2, <3>3, <3>4, Zenon
  <2>12. \A d \in Dripping : \E i \in l + 1 .. l + n : outbox'[i].about = d
    <3> TAKE d \in Dripping
    <3>1. PICK i \in 1 .. n : due[i] = d
      BY <2>2
    <3>2. i + l \in l + 1 .. l + n /\ outbox'[i + l].about = d
      BY <2>6, <2>8, <3>1
    <3> QED  BY <3>2
  <2>13. outbox' \in Seq(Mail) /\ Len(outbox') = l + n /\ mark' = hour
         /\ \A i \in 1 .. l : outbox'[i] = outbox[i]
    BY <2>1, <2>8
  <2>14. n \in Nat \ {0}
    BY <2>2
  <2> HIDE DEF l
  <2> QED  BY <1>4, <2>10, <2>11, <2>12, <2>13, <2>14, Zenon DEF l
<1> QED  BY <1>3, <1>4

-----------------------------------------------------------------------------
(* Every step keeps the invariant.                                         *)

LEMMA MarkKnown ==
    ASSUME MailInv
    PROVE  /\ hour \in Nat /\ mark \in Int /\ Hours \in Nat /\ Hours > 1 /\ Never \in Int
           /\ Never <= -(2 * Hours) /\ outbox \in Seq(Mail) /\ mark <= hour
           /\ \A i \in DOMAIN outbox : outbox[i].at \in 0 .. hour /\ outbox[i].at <= mark
           /\ mark # Never => \E i \in DOMAIN outbox : outbox[i].at = mark
<1>1. /\ hour \in Nat /\ Hours \in Nat /\ Hours > 1 /\ Days \in Nat /\ Days > 1
      /\ outbox \in Seq(Mail) /\ mark \in {Never} \cup 0 .. MaxHours /\ MaxHours \in Nat
  BY MailAssumption DEF MailInv, MailTypeOK
<1>2. Days * Hours \in Nat /\ Days * Hours >= 2 * Hours
  BY <1>1, Z3
<1>3. Never \in Int /\ Never <= -(2 * Hours)
  BY <1>1, <1>2 DEF Never
<1>4. IF outbox = <<>> THEN mark = Never
      ELSE mark <= hour /\ \E i \in DOMAIN outbox : outbox[i].at = mark
  BY DEF MailInv
<1>5. \A i \in DOMAIN outbox : outbox[i].at \in 0 .. MaxHours /\ outbox[i].at <= mark
  <2>1. \A i \in DOMAIN outbox : outbox[i] \in Mail
    BY <1>1
  <2> QED  BY <2>1 DEF MailInv, Mail
<1>6. mark <= hour /\ mark \in Int
  BY <1>1, <1>3, <1>4
<1>7. mark # Never => \E i \in DOMAIN outbox : outbox[i].at = mark
  BY <1>4
<1>8. \A i \in DOMAIN outbox : outbox[i].at \in 0 .. hour
  BY <1>1, <1>5, <1>6
<1> QED  BY <1>1, <1>3, <1>5, <1>6, <1>7, <1>8

\* Mails are not taken back.
LEMMA MoreServed ==
    ASSUME MailInv, outbox' \in Seq(Mail), Len(outbox') >= Len(outbox),
           \A i \in 1 .. Len(outbox) : outbox'[i] = outbox[i], UNCHANGED <<job, on, day>>,
           NEW s \in Int, Served(s)
    PROVE  Served(s)'
<1>1. outbox \in Seq(Mail)
  BY DEF MailInv, MailTypeOK
<1>2. \A i \in DOMAIN outbox : i \in DOMAIN outbox' /\ outbox'[i] = outbox[i]
  BY <1>1
<1>3. \A a, b \in Int : SentIn(a, b) => \E i \in DOMAIN outbox' : outbox'[i].at \in a .. b
  BY <1>2 DEF SentIn
<1>4. (job' = job) /\ on' = on /\ day' = day
  OBVIOUS
<1>5. MailAssumption
  BY MailAssumption
<1>6. s - Hours + 1 \in Int /\ s - Days * Hours + 1 \in Int /\ s + Hours - 1 \in Int /\ s - Hours \in Int
  <2>1. Hours \in Int /\ Days \in Int
    BY MailAssumption
  <2>2. Days * Hours \in Int
    BY <2>1
  <2> DEFINE w == Days * Hours
  <2> HIDE DEF w
  <2>3. s - w + 1 \in Int
    BY <2>2 DEF w
  <2>4. s - Hours + 1 \in Int /\ s + Hours - 1 \in Int /\ s - Hours \in Int
    BY <2>1
  <2> QED  BY <2>3, <2>4 DEF w
<1>7. \A a, b \in Int : SentIn(a, b) => SentIn(a, b)'
  BY <1>3 DEF SentIn
<1>8. DayNo(s)' = DayNo(s) /\ DayOf(s)' = DayOf(s)
  BY DEF DayNo, DayOf
<1>9. (\A d \in DripDays : DayNo(s) >= d => \E i \in DOMAIN outbox : outbox[i].about = d)
      => (\A d \in DripDays : DayNo(s) >= d => \E i \in DOMAIN outbox' : outbox'[i].about = d)
  BY <1>2
<1>10. /\ SentIn(s, s) => SentIn(s, s)'
       /\ SentIn(s - Hours + 1, s) => SentIn(s - Hours + 1, s)'
       /\ SentIn(s - Days * Hours + 1, s) => SentIn(s - Days * Hours + 1, s)'
       /\ SentIn(s, s + Hours - 1) => SentIn(s, s + Hours - 1)'
       /\ SentIn(s - Hours, s) => SentIn(s - Hours, s)'
  BY <1>6, <1>7
<1> DEFINE Drip == \A d \in DripDays : DayNo(s) >= d => \E i \in DOMAIN outbox : outbox[i].about = d
<1>11. /\ job = "push" /\ on /\ DayOf(s) = day /\ s % Hours = SendHour => SentIn(s, s)
       /\ job = "admin_daily" /\ on /\ s % Hours = SendHour => SentIn(s - Hours + 1, s)
       /\ job = "admin_weekly" /\ on /\ DayOf(s) = day /\ s % Hours = SendHour
             => SentIn(s - Days * Hours + 1, s)
       /\ job = "weekly" /\ DayOf(s) = 0 /\ s % Hours = 0 => SentIn(s, s + Hours - 1)
       /\ job = "daily" => SentIn(s - Hours, s)
       /\ job = "drip" => Drip
  BY DEF Served
<1> SUFFICES
       /\ job = "push" /\ on /\ DayOf(s) = day /\ s % Hours = SendHour => SentIn(s, s)'
       /\ job = "admin_daily" /\ on /\ s % Hours = SendHour => SentIn(s - Hours + 1, s)'
       /\ job = "admin_weekly" /\ on /\ DayOf(s) = day /\ s % Hours = SendHour
             => SentIn(s - Days * Hours + 1, s)'
       /\ job = "weekly" /\ DayOf(s) = 0 /\ s % Hours = 0 => SentIn(s, s + Hours - 1)'
       /\ job = "daily" => SentIn(s - Hours, s)'
       /\ job = "drip" => Drip'
  BY <1>4, <1>8 DEF Served
<1>12. Drip => Drip'
  BY <1>8, <1>9
<1> HIDE DEF Drip
<1> QED  BY <1>10, <1>11, <1>12

\* The timer fires in an hour in which a mail is wanted: it sends one, or one was sent already.
LEMMA FiresServed ==
    ASSUME MailInv, TimerFires, NEW s \in Int, s <= hour, hour - s < Period, 
           outbox' \in Seq(Mail), Len(outbox') >= Len(outbox),
           \A i \in 1 .. Len(outbox) : outbox'[i] = outbox[i],
           ~NotYet => /\ \E i \in DOMAIN outbox' : outbox'[i].at = hour
                      /\ job = "drip" => \A d \in Dripping :
                            \E i \in DOMAIN outbox' : outbox'[i].about = d
    PROVE  Served(s)'
<1> DEFINE Hit(a, b) == \E i \in DOMAIN outbox' : outbox'[i].at \in a .. b
<1>1. /\ hour \in Nat /\ mark \in Int /\ Hours \in Nat /\ Hours > 1 /\ Never \in Int
      /\ Never <= -(2 * Hours) /\ outbox \in Seq(Mail) /\ mark <= hour /\ job \in Jobs
  BY MarkKnown DEF MailInv, MailTypeOK
<1>2. hour' = hour /\ job' = job /\ on' = on /\ day' = day
  BY DEF TimerFires
<1>3. \A i \in DOMAIN outbox : i \in DOMAIN outbox' /\ outbox'[i] = outbox[i]
  BY <1>1
<1>4. \A a, b \in Int : a <= hour /\ hour <= b /\ ~NotYet => Hit(a, b)
  BY <1>1 
<1>5. \A a, b \in Int : a <= mark /\ mark <= b /\ mark # Never => Hit(a, b)
  <2>1. mark # Never => \E i \in DOMAIN outbox' : outbox'[i].at = mark
    BY <1>3, MarkKnown
  <2> QED  BY <1>1, <2>1 
<1> HIDE DEF Hit
<1>6. job # "weekly" => s = hour
  BY <1>1 DEF Period
<1>7. DayNo(s)' = DayNo(s) /\ DayOf(s)' = DayOf(s)
  BY DEF DayNo, DayOf
<1>8. Days \in Nat /\ Days * Hours \in Nat /\ Never = -(Days * Hours)
  BY MailAssumption DEF Never
<1>9. CASE job = "push"
  <2> SUFFICES ASSUME on, DayOf(hour) = day, hour % Hours = SendHour PROVE Hit(hour, hour)
    BY <1>2, <1>6, <1>7, <1>9 DEF Served, SentIn, Hit
  <2>1. CASE NotYet
    <3>1. ~(hour - mark > Hours - 1)
      BY <1>9, <2>1 DEF NotYet, MailWanted, Age, Over
    <3>2. mark # Never
      BY <1>1, <3>1
    <3>3. mark % Hours = SendHour
      BY <1>9, <3>2, MarkKnown DEF MailInv
    <3>4. mark = hour
      <4>1. hour - mark < Hours /\ mark <= hour /\ mark \in Int /\ hour \in Int
        BY <1>1, <3>1
      <4>2. mark % Hours = hour % Hours
        BY <3>3
      <4> QED  BY <4>1, <4>2, DaysGrow
    <3> QED  BY <1>1, <1>5, <3>2, <3>4
  <2> QED  BY <1>1, <1>4, <2>1
<1>10. CASE job = "admin_daily"
  <2> SUFFICES ASSUME on, hour % Hours = SendHour PROVE Hit(hour - Hours + 1, hour)
    BY <1>2, <1>6, <1>7, <1>10 DEF Served, SentIn, Hit
  <2>1. CASE NotYet
    <3>1. ~(hour - mark > Hours - 1)
      BY <1>10, <2>1 DEF NotYet, MailWanted, Age, Over
    <3>2. hour - Hours + 1 \in Int /\ hour - Hours + 1 <= mark /\ mark # Never
      BY <1>1, <3>1
    <3> QED  BY <1>1, <1>5, <3>2
  <2>2. CASE ~NotYet
    <3>1. hour - Hours + 1 \in Int /\ hour - Hours + 1 <= hour
      BY <1>1
    <3> QED  BY <1>1, <1>4, <2>2, <3>1
  <2> QED  BY <2>1, <2>2
<1>11. CASE job = "admin_weekly"
  <2> SUFFICES ASSUME on, DayOf(hour) = day, hour % Hours = SendHour
               PROVE  Hit(hour - Days * Hours + 1, hour)
    BY <1>2, <1>6, <1>7, <1>11 DEF Served, SentIn, Hit
  <2> DEFINE w == Days * Hours
  <2>1. CASE NotYet
    <3>1. ~(hour - mark > w - 1)
      BY <1>11, <2>1 DEF NotYet, MailWanted, Age, Over
    <3>2. w \in Nat /\ Never = -w
      BY <1>8
    <3> HIDE DEF w
    <3>3. mark # Never /\ hour - w + 1 <= mark /\ hour - w + 1 \in Int
      BY <1>1, <3>1, <3>2
    <3> QED  BY <1>1, <1>5, <3>3 DEF w
  <2>2. hour - w + 1 \in Int /\ hour - w + 1 <= hour
    <3>1. w >= 2 * Hours /\ w \in Int
      BY <1>1, <1>8
    <3> HIDE DEF w
    <3> QED  BY <1>1, <3>1
  <2> QED  BY <1>1, <1>4, <2>1, <2>2
<1>12. CASE job = "daily"
  <2> SUFFICES Hit(hour - Hours, hour)
    BY <1>2, <1>6, <1>7, <1>12 DEF Served, SentIn, Hit
  <2>1. CASE NotYet
    <3>1. ~(hour - mark > Hours)
      BY <1>1, <1>12, <2>1 DEF NotYet, MailWanted, Age, Over
    <3>2. hour - Hours \in Int /\ hour - Hours <= mark /\ mark # Never
      BY <1>1, <3>1
    <3> QED  BY <1>1, <1>5, <3>2
  <2>2. CASE ~NotYet
    <3>1. hour - Hours \in Int /\ hour - Hours <= hour
      BY <1>1
    <3> QED  BY <1>1, <1>4, <2>2, <3>1
  <2> QED  BY <2>1, <2>2
<1>13. CASE job = "drip"
  <2> SUFFICES ASSUME NEW d \in DripDays, DayNo(hour) >= d
               PROVE  \E i \in DOMAIN outbox' : outbox'[i].about = d
    BY <1>2, <1>6, <1>7, <1>13 DEF Served, SentIn, Hit
  <2>1. d \in Dripping \/ \E i \in DOMAIN outbox : outbox[i].about = d
    BY DEF Dripping
  <2>2. d \in Dripping => ~NotYet
    BY <1>13 DEF NotYet, MailWanted, Age
  <2> QED  BY <1>3, <1>13, <2>1, <2>2
<1>14. CASE job = "weekly"
  <2> SUFFICES ASSUME DayOf(s) = 0, s % Hours = 0 PROVE Hit(s, s + Hours - 1)
    BY <1>2, <1>7, <1>14 DEF Served, SentIn, Hit
  <2>1. hour < s + Hours
    BY <1>1, <1>14 DEF Period
  <2>2. DayNo(hour) = DayNo(s)
    BY <1>1, <2>1, DaysGrow
  <2>3. CASE NotYet
    <3>1. mark # Never /\ DayNo(mark) = DayNo(hour)
      BY <1>14, <2>2, <2>3 DEF NotYet, MailWanted, Age, DayOf
    <3>2. s <= mark
      <4> SUFFICES ASSUME mark < s PROVE FALSE
        BY <1>1
      <4>1. DayNo(mark) < DayNo(s)
        BY <1>1, DaysGrow
      <4>2. DayNo(s) \in Int
        BY DayNoIs
      <4> QED  BY <2>2, <3>1, <4>1, <4>2
    <3>3. mark < s + Hours
      BY <1>1, <2>2, <3>1, <3>2, DaysGrow
    <3> QED  BY <1>1, <1>5, <3>1, <3>2, <3>3
  <2> QED  BY <1>1, <1>4, <2>1, <2>3
<1> QED  BY <1>1, <1>9, <1>10, <1>11, <1>12, <1>13, <1>14 DEF Jobs

\* A timer that sends does so long enough after the last mail.
LEMMA DueApart ==
    ASSUME MailInv, DueNow, NEW j \in DOMAIN outbox
    PROVE  /\ job \in {"push", "weekly"} => DayNo(hour) # DayNo(outbox[j].at)
           /\ job \in {"admin_daily", "daily"} => hour - outbox[j].at >= Hours - 1
           /\ job = "admin_weekly" => hour - outbox[j].at >= Days * Hours - 1
<1> DEFINE a == outbox[j].at
           w == Days * Hours
<1>1. /\ hour \in Nat /\ mark \in Int /\ Hours \in Nat /\ Hours > 1 /\ mark <= hour
      /\ a \in 0 .. hour /\ a <= mark
  BY MarkKnown
<1>2. w \in Nat
  BY MailAssumption
<1>3. DayNo(a) \in Int /\ DayNo(mark) \in Int /\ DayNo(hour) \in Int
  BY <1>1, DayNoIs
<1>4. CASE job = "push"
  <2>1. hour - mark >= Hours - 1 /\ hour % Hours = SendHour
    BY <1>1, <1>4 DEF DueNow, MailWanted, Age, MayBeOver
  <2>2. a % Hours = SendHour
    BY <1>4 DEF MailInv
  <2> HIDE DEF a
  <2>3. hour - a >= Hours
    <3>1. a \in Int /\ hour \in Int /\ a <= hour /\ a % Hours = hour % Hours
      BY <1>1, <2>1, <2>2
    <3>2. hour - a < Hours => a = hour
      BY <3>1, DaysGrow
    <3> QED  BY <1>1, <2>1, <3>2
  <2>4. DayNo(a) < DayNo(hour)
    BY <1>1, <2>3, DaysGrow
  <2> QED  BY <1>3, <1>4, <2>4 DEF a
<1>5. CASE job = "weekly"
  <2>1. mark # Never => DayNo(mark) # DayNo(hour)
    BY <1>5 DEF DueNow, MailWanted
  <2>2. mark # Never
    BY <1>1, MarkKnown
  <2>3. DayNo(a) <= DayNo(mark) /\ DayNo(mark) <= DayNo(hour)
    BY <1>1, DaysGrow
  <2> HIDE DEF a
  <2> QED  BY <1>3, <1>5, <2>1, <2>2, <2>3 DEF a
<1>6. CASE job \in {"admin_daily", "daily"}
  <2>1. hour - mark >= Hours - 1
    BY <1>1, <1>6 DEF DueNow, Age, MayBeOver
  <2> HIDE DEF a
  <2>2. hour - a >= Hours - 1
    BY <1>1, <2>1
  <2> QED  BY <1>6, <2>2 DEF a
<1>7. CASE job = "admin_weekly"
  <2>1. hour - mark >= w - 1 \/ w = 1
    BY <1>7 DEF DueNow, Age, MayBeOver
  <2> HIDE DEF a, w
  <2>2. hour - a >= w - 1
    BY <1>1, <1>2, <2>1
  <2> QED  BY <1>7, <2>2 DEF a, w
<1>8. job \in Jobs
  BY DEF MailInv, MailTypeOK
<1> QED  BY <1>4, <1>5, <1>6, <1>7, <1>8 DEF Jobs

\* What is new about the mails, and what holds of them, once some were sent.
LEMMA MailsSent ==
    ASSUME MailInv, NEW forced \in BOOLEAN, Sent(forced), UNCHANGED <<job, hour, on, day>>,
           ~forced => DueNow, forced => job \notin {"push", "drip"}
    PROVE  /\ outbox' \in Seq(Mail) /\ mark' = hour /\ outbox' # <<>> /\ MailsOnce'
           /\ Len(outbox') >= Len(outbox)
           /\ \A i \in 1 .. Len(outbox) : outbox'[i] = outbox[i]
           /\ \E i \in DOMAIN outbox' : outbox'[i].at = hour
           /\ \A i \in DOMAIN outbox' :
                 /\ outbox'[i].at <= hour
                 /\ job = "push" => outbox'[i].at % Hours = SendHour
                 /\ job = "drip" => ~outbox'[i].forced
           /\ job = "drip" => \A d \in Dripping : \E i \in DOMAIN outbox' : outbox'[i].about = d
<1> DEFINE l == Len(outbox)
<1>1. job = "drip" => ~forced /\ Dripping # {}
  BY DEF DueNow, MailWanted
<1>2. PICK n \in Nat \ {0} :
         /\ outbox' \in Seq(Mail) /\ Len(outbox') = l + n /\ mark' = hour
         /\ job # "drip" => n = 1
         /\ \A i \in 1 .. l : outbox'[i] = outbox[i]
         /\ \A i \in l + 1 .. l + n :
               /\ outbox'[i].at = hour /\ outbox'[i].forced = forced
               /\ job = "drip" => outbox'[i].about \in Dripping
         /\ job = "drip" =>
               /\ \A i, j \in l + 1 .. l + n : j < i => outbox'[i].about # outbox'[j].about
               /\ \A d \in Dripping : \E i \in l + 1 .. l + n : outbox'[i].about = d
  BY <1>1, SentIs
<1>3. /\ hour \in Nat /\ mark \in Int /\ mark <= hour /\ outbox \in Seq(Mail) /\ l \in Nat
      /\ \A i \in 1 .. l : outbox[i].at \in 0 .. hour /\ outbox[i].at <= mark
  BY MarkKnown
<1>4. DOMAIN outbox = 1 .. l /\ DOMAIN outbox' = 1 .. l + n
  BY <1>2, <1>3
<1> HIDE DEF l
<1>5. \A i \in 1 .. l + n : i \in 1 .. l \/ i \in l + 1 .. l + n
  BY <1>2, <1>3
<1>6. \A i \in 1 .. l : i \in 1 .. l + n /\ i \notin l + 1 .. l + n
  BY <1>2, <1>3
<1>7. \A i \in l + 1 .. l + n : i \in 1 .. l + n
  BY <1>2, <1>3
<1>8. l + 1 \in l + 1 .. l + n
  BY <1>2, <1>3
<1>9. \E i \in DOMAIN outbox' : outbox'[i].at = hour
  BY <1>2, <1>4, <1>7, <1>8
<1>10. \A i \in DOMAIN outbox' :
          /\ outbox'[i].at <= hour
          /\ job = "push" => outbox'[i].at % Hours = SendHour
          /\ job = "drip" => ~outbox'[i].forced
  <2> TAKE i \in DOMAIN outbox'
  <2>1. CASE i \in 1 .. l
    <3>1. outbox'[i] = outbox[i] /\ outbox[i].at <= hour
      BY <1>2, <1>3, <2>1
    <3>2. /\ job = "push" => outbox[i].at % Hours = SendHour
          /\ job = "drip" => ~outbox[i].forced
      BY <1>4, <2>1 DEF MailInv
    <3> QED  BY <3>1, <3>2
  <2>2. CASE i \in l + 1 .. l + n
    <3>1. outbox'[i].at = hour /\ outbox'[i].forced = forced
      BY <1>2, <2>2
    <3>2. job = "push" => hour % Hours = SendHour
      BY DEF DueNow, MailWanted
    <3> QED  BY <1>1, <1>3, <3>1, <3>2
  <2> QED  BY <1>4, <1>5, <2>1, <2>2
<1>11. ASSUME NEW i \in DOMAIN outbox', ~outbox'[i].forced, NEW j \in DOMAIN outbox', j < i
       PROVE  /\ job \in {"push", "weekly"} => DayNo(outbox'[i].at) # DayNo(outbox'[j].at)
              /\ job \in {"admin_daily", "daily"} => outbox'[i].at - outbox'[j].at >= Hours - 1
              /\ job = "admin_weekly" => outbox'[i].at - outbox'[j].at >= Days * Hours - 1
              /\ job = "drip" => outbox'[i].about # outbox'[j].about
  <2>1. CASE i \in 1 .. l
    <3>1. j \in 1 .. l
      BY <1>3, <1>4, <1>11, <2>1
    <3>2. outbox'[i] = outbox[i] /\ outbox'[j] = outbox[j]
      BY <1>2, <2>1, <3>1
    <3>3. i \in Unforced /\ j \in DOMAIN outbox
      BY <1>4, <1>11, <2>1, <3>1, <3>2 DEF Unforced
    <3> QED  BY <1>11, <3>2, <3>3 DEF MailInv, MailsOnce
  <2>2. CASE i \in l + 1 .. l + n /\ j \in 1 .. l
    <3>1. outbox'[i].at = hour /\ DueNow /\ outbox'[j] = outbox[j] /\ j \in DOMAIN outbox
      BY <1>2, <1>4, <1>11, <2>2
    <3>2. job = "drip" => outbox'[i].about # outbox[j].about
      BY <1>2, <2>2, <3>1 DEF Dripping
    <3> QED  BY <3>1, <3>2, DueApart
  <2>3. CASE i \in l + 1 .. l + n /\ j \in l + 1 .. l + n
    <3>1. job = "drip"
      BY <1>2, <1>3, <1>11, <2>3
    <3> QED  BY <1>2, <1>11, <2>3, <3>1
  <2> QED  BY <1>4, <1>5, <2>1, <2>2, <2>3
<1>12. MailsOnce'
  <2>1. \A i \in Unforced' : i \in DOMAIN outbox' /\ ~outbox'[i].forced
    BY DEF Unforced
  <2>2. job' = job /\ job \in Jobs
    BY DEF MailInv, MailTypeOK
  <2> QED  BY <1>11, <2>1, <2>2 DEF MailsOnce, DayNo, Jobs
<1> QED
  <2>1. outbox' # <<>>
    BY <1>2, <1>3
  <2>2. Len(outbox') >= l
    BY <1>2, <1>3
  <2>3. job = "drip" => \A d \in Dripping : \E i \in DOMAIN outbox' : outbox'[i].about = d
    BY <1>2, <1>4, <1>7
  <2> QED  BY <1>2, <1>9, <1>10, <1>12, <2>1, <2>2, <2>3 DEF l

LEMMA OnceFrame == ASSUME MailInv, UNCHANGED <<job, outbox>> PROVE MailsOnce'
<1>1. Unforced' = Unforced /\ outbox' = outbox /\ job' = job
  BY DEF Unforced
<1>2. job \in Jobs
  BY DEF MailInv, MailTypeOK
<1>3. ASSUME NEW i \in Unforced, NEW j \in DOMAIN outbox, j < i
      PROVE  /\ job \in {"push", "weekly"} => DayNo(outbox[i].at) # DayNo(outbox[j].at)
             /\ job \in {"admin_daily", "daily"} => outbox[i].at - outbox[j].at >= Hours - 1
             /\ job = "admin_weekly" => outbox[i].at - outbox[j].at >= Days * Hours - 1
             /\ job = "drip" => outbox[i].about # outbox[j].about
  BY <1>3 DEF MailInv, MailsOnce
<1> QED  BY <1>1, <1>2, <1>3 DEF MailsOnce, DayNo, Jobs

LEMMA TimerKeeps == ASSUME MailInv, TimerFires PROVE MailInv'
<1>1. /\ hour \in Nat /\ mark \in Int /\ Hours \in Nat /\ Hours > 1 /\ mark <= hour
      /\ hour \in 0 .. MaxHours /\ outbox \in Seq(Mail) /\ idle \in 0 .. Hours /\ steady \in Nat
      /\ idle <= Period
  BY MarkKnown DEF MailInv, MailTypeOK
<1>2. UNCHANGED <<job, hour, on, day, steady>> /\ idle' = 0
  BY DEF TimerFires
<1>3. CASE DueNow /\ Sent(FALSE)
  <2>1. /\ outbox' \in Seq(Mail) /\ mark' = hour /\ outbox' # <<>> /\ MailsOnce'
        /\ Len(outbox') >= Len(outbox)
        /\ \A i \in 1 .. Len(outbox) : outbox'[i] = outbox[i]
        /\ \E i \in DOMAIN outbox' : outbox'[i].at = hour
        /\ \A i \in DOMAIN outbox' :
              /\ outbox'[i].at <= hour
              /\ job = "push" => outbox'[i].at % Hours = SendHour
              /\ job = "drip" => ~outbox'[i].forced
        /\ job = "drip" => \A d \in Dripping : \E i \in DOMAIN outbox' : outbox'[i].about = d
    BY <1>2, <1>3, MailsSent
  <2>2. \A s \in steady + 1 .. hour : Served(s)'
    <3> TAKE s \in steady + 1 .. hour
    <3>1. CASE s <= hour - idle
      <4>1. Served(s)
        BY <1>1, <3>1 DEF MailInv
      <4> QED  BY <1>1, <1>2, <2>1, <4>1, MoreServed
    <3>2. CASE s > hour - idle
      <4>1. s \in Int /\ s <= hour /\ hour - s < Period
        BY <1>1, <3>2 DEF Period
      <4> QED  BY <2>1, <4>1, FiresServed
    <3> QED  BY <1>1, <3>1, <3>2
  <2> QED
    <3>1. MailTypeOK'
      BY <1>1, <1>2, <2>1 DEF MailInv, MailTypeOK
    <3>2. idle' <= Period' /\ steady' \in Nat
      BY <1>1, <1>2 DEF Period
    <3>3. \A s \in (steady + 1 .. hour - idle)' : Served(s)'
      BY <1>1, <1>2, <2>2
    <3> QED  BY <1>1, <1>2, <2>1, <3>1, <3>2, <3>3 DEF MailInv
<1>4. CASE NotYet /\ UNCHANGED <<outbox, mark>>
  <2>1. \A s \in steady + 1 .. hour : Served(s)'
    <3> TAKE s \in steady + 1 .. hour
    <3>1. CASE s <= hour - idle
      <4>1. Served(s)
        BY <1>1, <3>1 DEF MailInv
      <4> QED  BY <1>1, <1>2, <1>4, <4>1, MoreServed
    <3>2. CASE s > hour - idle
      <4>1. s \in Int /\ s <= hour /\ hour - s < Period
        BY <1>1, <3>2 DEF Period
      <4> QED  BY <1>1, <1>4, <4>1, FiresServed
    <3> QED  BY <1>1, <3>1, <3>2
  <2>2. MailTypeOK'
    BY <1>1, <1>2, <1>4 DEF MailInv, MailTypeOK
  <2>3. MailsOnce'
    BY <1>2, <1>4, OnceFrame
  <2>4. idle' <= Period' /\ steady' \in Nat
    BY <1>1, <1>2 DEF Period
  <2>5. \A s \in (steady + 1 .. hour - idle)' : Served(s)'
    BY <1>1, <1>2, <2>1
  <2> QED  BY <1>2, <1>4, <2>2, <2>3, <2>4, <2>5 DEF MailInv
<1> QED  BY <1>3, <1>4 DEF TimerFires

LEMMA SendNowKeeps == ASSUME MailInv, SendNow PROVE MailInv'
<1>1. /\ hour \in Nat /\ Hours \in Nat /\ outbox \in Seq(Mail) /\ hour \in 0 .. MaxHours
      /\ idle \in 0 .. Hours /\ steady \in Nat /\ idle <= Period
  BY MarkKnown DEF MailInv, MailTypeOK
<1>2. /\ UNCHANGED <<job, hour, on, day, idle, steady>> /\ Sent(TRUE)
      /\ job \in {"weekly", "admin_daily", "admin_weekly", "daily"}
  BY DEF SendNow
<1>3. /\ outbox' \in Seq(Mail) /\ mark' = hour /\ outbox' # <<>> /\ MailsOnce'
      /\ Len(outbox') >= Len(outbox)
      /\ \A i \in 1 .. Len(outbox) : outbox'[i] = outbox[i]
      /\ \E i \in DOMAIN outbox' : outbox'[i].at = hour
      /\ \A i \in DOMAIN outbox' :
            /\ outbox'[i].at <= hour
            /\ job = "push" => outbox'[i].at % Hours = SendHour
            /\ job = "drip" => ~outbox'[i].forced
  BY <1>2, MailsSent
<1>4. \A s \in steady + 1 .. hour - idle : Served(s)'
  <2> TAKE s \in steady + 1 .. hour - idle
  <2>1. Served(s)
    BY DEF MailInv
  <2> QED  BY <1>1, <1>2, <1>3, <2>1, MoreServed
<1>5. MailTypeOK'
  BY <1>1, <1>2, <1>3 DEF MailInv, MailTypeOK
<1>6. idle' <= Period' /\ steady' \in Nat
  BY <1>1, <1>2 DEF Period
<1>7. \A s \in (steady + 1 .. hour - idle)' : Served(s)'
  BY <1>1, <1>2, <1>4
<1> QED  BY <1>1, <1>2, <1>3, <1>5, <1>6, <1>7 DEF MailInv

\* The steps that send nothing.
LEMMA QuietKeeps ==
    ASSUME MailInv, HourPasses \/ SetPrefs \/ CloudRestarts \/ UNCHANGED mailVars PROVE MailInv'
<1>1. /\ hour \in Nat /\ Hours \in Nat /\ outbox \in Seq(Mail) /\ hour \in 0 .. MaxHours
      /\ idle \in 0 .. Hours /\ steady \in Nat /\ idle <= Period /\ MaxHours \in Nat
      /\ job \in Jobs /\ mark \in {Never} \cup 0 .. MaxHours /\ on \in BOOLEAN
      /\ day \in 0 .. Days - 1 /\ Days \in Nat /\ Days > 1 /\ Hours > 1
  BY MarkKnown, MailAssumption DEF MailInv, MailTypeOK
<1>2. UNCHANGED <<job, mark, outbox>> /\ hour' >= hour /\ hour' \in 0 .. MaxHours /\ on' \in BOOLEAN
      /\ day' \in 0 .. Days - 1
  BY <1>1 DEF HourPasses, SetPrefs, CloudRestarts, mailVars
<1>3. idle' \in 0 .. Hours /\ idle' <= Period' /\ steady' \in Nat
  BY <1>1, <1>2 DEF HourPasses, SetPrefs, CloudRestarts, mailVars, Period
<1>4. MailTypeOK'
  BY <1>1, <1>2, <1>3 DEF MailTypeOK, Never
<1>5. MailsOnce'
  BY <1>2, OnceFrame
<1>6. \A s \in (steady + 1 .. hour - idle)' : Served(s)'
  <2>1. CASE HourPasses
    <3>1. UNCHANGED <<job, on, day, steady, outbox>> /\ hour' - idle' = hour - idle
      BY <1>1, <2>1 DEF HourPasses
    <3> SUFFICES ASSUME NEW s \in steady + 1 .. hour - idle PROVE Served(s)'
      BY <3>1
    <3>2. Served(s)
      BY DEF MailInv
    <3> QED  BY <1>1, <3>1, <3>2, MoreServed
  <2>2. CASE SetPrefs \/ CloudRestarts
    <3>1. hour' - idle' < steady' + 1 /\ hour' - idle' \in Int /\ steady' + 1 \in Int
      BY <1>1, <2>2 DEF SetPrefs, CloudRestarts
    <3> QED  BY <3>1
  <2>3. CASE UNCHANGED mailVars
    <3>1. UNCHANGED <<job, hour, on, day, steady, outbox, idle>>
      BY <2>3 DEF mailVars
    <3> SUFFICES ASSUME NEW s \in steady + 1 .. hour - idle PROVE Served(s)'
      BY <3>1
    <3>2. Served(s)
      BY DEF MailInv
    <3> QED  BY <1>1, <3>1, <3>2, MoreServed
  <2> QED  BY <2>1, <2>2, <2>3
<1>7. /\ IF outbox' = <<>> THEN mark' = Never
         ELSE mark' <= hour' /\ \E i \in DOMAIN outbox' : outbox'[i].at = mark'
      /\ \A i \in DOMAIN outbox' :
            /\ outbox'[i].at <= mark'
            /\ job' = "push" => outbox'[i].at % Hours = SendHour
            /\ job' = "drip" => ~outbox'[i].forced
  <2>1. IF outbox = <<>> THEN mark = Never
        ELSE mark <= hour /\ \E i \in DOMAIN outbox : outbox[i].at = mark
    BY DEF MailInv
  <2>2. \A i \in DOMAIN outbox :
            /\ outbox[i].at <= mark
            /\ job = "push" => outbox[i].at % Hours = SendHour
            /\ job = "drip" => ~outbox[i].forced
    BY DEF MailInv
  <2>3. mark <= hour /\ mark \in Int
    BY MarkKnown
  <2> QED  BY <1>1, <1>2, <2>1, <2>2, <2>3
<1> QED  BY <1>3, <1>4, <1>5, <1>6, <1>7 DEF MailInv, Never

LEMMA MailStep == MailInv /\ [MailNext]_mailVars => MailInv'
  BY TimerKeeps, SendNowKeeps, QuietKeeps DEF MailNext

LEMMA MailInitial == MailInit => MailInv
<1> SUFFICES ASSUME MailInit PROVE MailInv
  OBVIOUS
<1>1. Days \in Nat /\ Days > 1 /\ Hours \in Nat /\ Hours > 1 /\ MaxHours \in Nat
  BY MailAssumption
<1>2. MailTypeOK
  BY <1>1 DEF MailInit, MailTypeOK
<1>3. MailsOnce
  BY DEF MailInit, MailsOnce, Unforced
<1>4. steady + 1 .. hour - idle = {}
  BY DEF MailInit
<1> QED  BY <1>1, <1>2, <1>3, <1>4 DEF MailInit, MailInv, Period

LEMMA MailsFollow == MailInv => MailTypeOK /\ MailsOnce /\ NoneMissed
<1> SUFFICES ASSUME MailInv PROVE NoneMissed
  BY DEF MailInv
<1> SUFFICES ASSUME NEW s \in steady + 1 .. hour - 1, job = "weekly" => s + Hours <= hour
             PROVE  Served(s)
  BY DEF NoneMissed
<1>1. hour \in Nat /\ Hours \in Nat /\ idle \in 0 .. Hours /\ steady \in Nat /\ idle <= Period
  BY MarkKnown DEF MailInv, MailTypeOK
<1>2. s <= hour - idle
  BY <1>1 DEF Period
<1> QED  BY <1>1, <1>2 DEF MailInv

-----------------------------------------------------------------------------
(* Alarms                                                                  *)

LEMMA CountUp ==
    ASSUME NEW m \in Nat, NEW S, 0 \in S, \A n \in 0 .. m - 1 : n \in S => n + 1 \in S
    PROVE  0 .. m \subseteq S
<1> DEFINE T == {n \in 0 .. m : n \notin S}
<1> SUFFICES ASSUME T # {} PROVE FALSE
  OBVIOUS
<1>1. PICK k \in T : \A j \in T : k <= j
  <2>1. T \in SUBSET Nat
    OBVIOUS
  <2> HIDE DEF T
  <2> QED  BY <2>1, FirstExists
<1>2. k # 0 /\ k - 1 \in 0 .. m - 1 /\ k - 1 \in S
  BY <1>1
<1> QED  BY <1>1, <1>2

Times == 0 .. MaxTime
SubIds == 1 .. MaxSubs
AnyDesk == Desk!Desks(Times, SubIds)

LEMMA DeskFields ==
    ASSUME NEW d \in AnyDesk
    PROVE  /\ d.alarms \in Seq(Desk!AlarmsOf(Times))
           /\ d.dedup \in [AlarmKinds -> Times \cup {None}]
           /\ d.mutes \in [AlarmKinds -> Times \cup {None}]
           /\ d.off \in SUBSET Desk!Categories /\ d.quiet \in BOOLEAN /\ d.push \in BOOLEAN
           /\ d.notes \in Nat /\ d.subs \in SUBSET [id : SubIds, endpoint : {"browser"}]
           /\ d.sent \in SUBSET [sub : SubIds, gone : BOOLEAN]
  BY DEF AnyDesk, Desk!Desks

LEMMA NotifiedIs ==
    ASSUME NEW d \in AnyDesk, NEW kind, NEW title, NEW x, x = Desk!Notified(d, kind, title, time)
    PROVE  /\ x \in AnyDesk
           /\ x.alarms = d.alarms /\ x.dedup = d.dedup /\ x.mutes = d.mutes /\ x.off = d.off
           /\ x.quiet = d.quiet /\ x.push = d.push /\ x.subs = d.subs
           /\ d.sent \subseteq x.sent
           /\ x.sent \subseteq d.sent \cup {[sub |-> s.id, gone |-> FALSE] : s \in d.subs}
<1>1. KeptNotes \in Nat
  BY AlarmAssumption DEF Desk!DeskAssumption
<1>2. CASE x = d
  BY <1>2
<1>3. CASE x = [d EXCEPT !.notes = @ + 1]
  <2> DEFINE n == d.notes + 1
  <2>1. n \in Nat
    BY DeskFields
  <2>2. x = [d EXCEPT !.notes = n]
    BY <1>3
  <2> HIDE DEF n
  <2> QED  BY <2>1, <2>2 DEF AnyDesk, Desk!Desks
<1>4. ASSUME NEW n, NEW t, n = (IF d.notes + 1 > KeptNotes THEN KeptNotes ELSE d.notes + 1),
             t = d.sent \cup {[sub |-> s.id, gone |-> FALSE] : s \in {y \in d.subs : d.push}},
             x = [d EXCEPT !.notes = n, !.sent = t]
      PROVE  /\ x \in AnyDesk
             /\ x.alarms = d.alarms /\ x.dedup = d.dedup /\ x.mutes = d.mutes /\ x.off = d.off
             /\ x.quiet = d.quiet /\ x.push = d.push /\ x.subs = d.subs
             /\ d.sent \subseteq x.sent
             /\ x.sent \subseteq d.sent \cup {[sub |-> s.id, gone |-> FALSE] : s \in d.subs}
  <2>1. n \in Nat
    BY <1>1, <1>4, DeskFields
  <2>2. t \subseteq d.sent \cup {[sub |-> s.id, gone |-> FALSE] : s \in d.subs} /\ d.sent \subseteq t
    BY <1>4
  <2>3. t \in SUBSET [sub : SubIds, gone : BOOLEAN]
    <3>1. \A s \in d.subs : [sub |-> s.id, gone |-> FALSE] \in [sub : SubIds, gone : BOOLEAN]
      BY DeskFields
    <3>2. d.sent \in SUBSET [sub : SubIds, gone : BOOLEAN]
      BY DeskFields
    <3> QED  BY <2>2, <3>1, <3>2
  <2>4. x \in AnyDesk
    BY <2>1, <2>3, <1>4, Zenon DEF AnyDesk, Desk!Desks
  <2>5. /\ x.alarms = d.alarms /\ x.dedup = d.dedup /\ x.mutes = d.mutes /\ x.off = d.off
        /\ x.quiet = d.quiet /\ x.push = d.push /\ x.subs = d.subs /\ x.sent = t
    BY <1>4 DEF AnyDesk, Desk!Desks
  <2> QED  BY <2>2, <2>4, <2>5
<1> QED  BY <1>2, <1>3, <1>4 DEF Desk!Notified

DeskGood(d) ==
    d \in AnyDesk /\ Len(d.alarms) <= KeptAlarms /\ Desk!DeskSound(d, time) /\ Desk!DeskKept(d, time)

LEMMA AlarmFields ==
    ASSUME NEW d \in AnyDesk, NEW i \in DOMAIN d.alarms
    PROVE  d.alarms[i].at \in Times /\ d.alarms[i] \in Desk!AlarmsOf(Times)
<1>1. d.alarms[i] \in Desk!AlarmsOf(Times)
  BY DeskFields
<1> QED  BY <1>1 DEF Desk!AlarmsOf

\* Only the list and the memory matter.
LEMMA GoodSame ==
    ASSUME NEW d, DeskGood(d), NEW x \in AnyDesk, x.alarms = d.alarms, x.dedup = d.dedup
    PROVE  DeskGood(x)
  BY DEF DeskGood, Desk!DeskSound, Desk!DeskKept, Desk!FiredRecently

\* Dropping what is as old as the gap from the memory.
LEMMA GoodForgets ==
    ASSUME NEW d, DeskGood(d), NEW age \in Nat, age >= Gap, time \in Times, NEW x \in AnyDesk,
           x.alarms = d.alarms,
           \A k \in AlarmKinds : x.dedup[k] =
              IF d.dedup[k] # None /\ d.dedup[k] < time - age THEN None ELSE d.dedup[k]
    PROVE  DeskGood(x)
<1>1. /\ Gap \in Nat /\ MaxTime \in Nat /\ time \in Nat /\ d \in AnyDesk
      /\ \A k \in AlarmKinds : d.dedup[k] = None \/ d.dedup[k] \in Nat
  BY AlarmAssumption, DeskFields DEF DeskGood, Desk!DeskAssumption, Times
<1>2. \A k \in AlarmKinds :
         Desk!FiredRecently(x, k, time) => Desk!FiredRecently(d, k, time) /\ x.dedup[k] = d.dedup[k]
  BY DEF Desk!FiredRecently
<1>3. Desk!DeskSound(x, time)
  BY <1>2 DEF DeskGood, Desk!DeskSound
<1>4. Desk!DeskKept(x, time)
  <2>1. ASSUME NEW i \in DOMAIN x.alarms, x.alarms[i].source = "cloud"
        PROVE  LET last == x.dedup[x.alarms[i].kind] IN
               (last # None /\ x.alarms[i].at <= last) \/ x.alarms[i].at + Gap <= time
    <3> DEFINE k == d.alarms[i].kind
               t == d.alarms[i].at
               l == d.dedup[k]
    <3>1. k \in AlarmKinds /\ ((l # None /\ t <= l) \/ t + Gap <= time)
      BY <2>1 DEF DeskGood, Desk!DeskKept
    <3>2. t \in Nat
      BY <1>1, AlarmFields DEF Times
    <3>3. x.dedup[k] = IF l # None /\ l < time - age THEN None ELSE l
      BY <3>1
    <3>4. l = None \/ l \in Nat
      BY <1>1, <3>1
    <3>5. x.alarms[i].kind = k /\ x.alarms[i].at = t
      OBVIOUS
    <3> HIDE DEF k, t, l
    <3>6. CASE l # None /\ l < time - age /\ t <= l
      <4>1. l \in Nat
        BY <3>4, <3>6
      <4> QED  BY <1>1, <3>2, <3>5, <3>6, <4>1
    <3>7. CASE ~(l # None /\ l < time - age)
      BY <3>1, <3>3, <3>5, <3>7
    <3> QED  BY <3>1, <3>5, <3>6, <3>7
  <2> QED  BY <1>1, <2>1 DEF DeskGood, Desk!DeskKept
<1> QED  BY <1>3, <1>4 DEF DeskGood

\* A new alarm: of a kind that was not fired recently, and the memory then says when, or of the box.
Added(d, a, x) ==
    \/ a.source = "agent" /\ x.dedup = d.dedup
    \/ /\ a.source = "cloud" /\ a.kind \in AlarmKinds /\ ~Desk!FiredRecently(d, a.kind, time)
       /\ \A k \in AlarmKinds : x.dedup[k] = IF k = a.kind THEN time ELSE d.dedup[k]

\* The list after an alarm: it is in front, and the others are pushed back, the last one off a
\* full list.
PushedBack(old, a, new) ==
    /\ new \in Seq(Desk!AlarmsOf(Times)) /\ Len(new) <= KeptAlarms
    /\ Len(new) = KeptAlarms \/ Len(new) = Len(old) + 1
    /\ Len(new) >= 1 => new[1] = a
    /\ \A i \in 2 .. Len(new) : i - 1 \in 1 .. Len(old) /\ new[i] = old[i - 1]

LEMMA ListedIs ==
    ASSUME NEW old \in Seq(Desk!AlarmsOf(Times)), KeptAlarms \in Nat, Len(old) <= KeptAlarms,
           NEW a \in Desk!AlarmsOf(Times), NEW new, new = Desk!Listed(old, a)
    PROVE  PushedBack(old, a, new)
<1> USE DEF PushedBack
<1> DEFINE A == Desk!AlarmsOf(Times)
           all == <<a>> \o old
<1>1. new = IF Len(all) > KeptAlarms THEN SubSeq(all, 1, KeptAlarms) ELSE all
  BY DEF Desk!Listed
<1>2. Len(old) \in Nat /\ a \in A /\ old \in Seq(A)
  OBVIOUS
<1> HIDE DEF A
<1>3. all \in Seq(A) /\ Len(all) = Len(old) + 1 /\ all[1] = a
      /\ \A i \in 2 .. Len(old) + 1 : all[i] = old[i - 1]
  <2>1. <<a>> \in Seq(A) /\ Len(<<a>>) = 1 /\ <<a>>[1] = a
    BY <1>2
  <2> DEFINE o == <<a>>
  <2> HIDE DEF o
  <2> QED  BY <1>2, <2>1 DEF o
<1> HIDE DEF all
<1>4. CASE Len(all) > KeptAlarms
  <2> DEFINE r == SubSeq(all, 1, KeptAlarms)
  <2>1. r \in Seq(A) /\ Len(r) = KeptAlarms /\ \A i \in 1 .. KeptAlarms : r[i] = all[i]
    BY <1>3, <1>4
  <2>2. new = r
    BY <1>1, <1>4
  <2> HIDE DEF r
  <2>3. \A i \in 2 .. Len(new) : i - 1 \in 1 .. Len(old) /\ new[i] = old[i - 1]
    BY <1>2, <1>3, <1>4, <2>1, <2>2
  <2> QED  BY <1>3, <2>1, <2>2, <2>3 DEF A
<1>5. CASE ~(Len(all) > KeptAlarms)
  <2>1. new = all /\ Len(all) <= KeptAlarms
    BY <1>1, <1>2, <1>3, <1>5
  <2>2. \A i \in 2 .. Len(all) : i - 1 \in 1 .. Len(old) /\ all[i] = old[i - 1]
    BY <1>2, <1>3
  <2> QED  BY <1>3, <2>1, <2>2 DEF A
<1> QED  BY <1>4, <1>5

LEMMA GoodListed ==
    ASSUME NEW d, DeskGood(d), time \in Times, NEW a \in Desk!AlarmsOf(Times), a.at = time,
           NEW x \in AnyDesk, x.alarms = Desk!Listed(d.alarms, a), Added(d, a, x)
    PROVE  DeskGood(x)
<1> DEFINE old == d.alarms
           new == x.alarms
<1>1. /\ Gap \in Nat /\ MaxTime \in Nat /\ time \in Nat /\ d \in AnyDesk /\ KeptAlarms \in Nat
      /\ old \in Seq(Desk!AlarmsOf(Times)) /\ Len(old) <= KeptAlarms
      /\ \A k \in AlarmKinds : d.dedup[k] = None \/ d.dedup[k] \in Nat
      /\ None \notin Nat
  BY AlarmAssumption, DeskFields DEF DeskGood, Desk!DeskAssumption, Times
<1>2. /\ new \in Seq(Desk!AlarmsOf(Times)) /\ Len(new) <= KeptAlarms
      /\ Len(new) = KeptAlarms \/ Len(new) = Len(old) + 1
      /\ Len(new) >= 1 => new[1] = a
      /\ \A i \in 2 .. Len(new) : i - 1 \in 1 .. Len(old) /\ new[i] = old[i - 1]
  <2>1. new = Desk!Listed(old, a)
    OBVIOUS
  <2> HIDE DEF old, new
  <2>2. PushedBack(old, a, new)
    BY <1>1, <2>1, ListedIs
  <2> QED  BY <2>2 DEF PushedBack
<1>3. \A i \in DOMAIN old : old[i].at \in Nat /\ old[i].at <= time
  BY <1>1, AlarmFields DEF DeskGood, Desk!DeskKept, Times
<1>4. \A i \in DOMAIN old : old[i].source = "cloud" =>
         /\ old[i].kind \in AlarmKinds
         /\ (d.dedup[old[i].kind] # None /\ old[i].at <= d.dedup[old[i].kind])
              \/ old[i].at + Gap <= time
  BY DEF DeskGood, Desk!DeskKept
<1>5. \A i, j \in DOMAIN old : i < j /\ old[i].source = "cloud" /\ old[j].source = "cloud"
         /\ old[i].kind = old[j].kind => old[i].at - old[j].at >= Gap
  BY DEF DeskGood, Desk!DeskSound
<1>6. \A k \in AlarmKinds : Desk!FiredRecently(d, k, time) =>
         Len(old) = KeptAlarms \/ \E i \in DOMAIN old : old[i].kind = k /\ old[i].at = d.dedup[k]
  BY DEF DeskGood, Desk!DeskSound
<1>7. DOMAIN old = 1 .. Len(old) /\ DOMAIN new = 1 .. Len(new) /\ Len(old) \in Nat /\ Len(new) \in Nat
  BY <1>1, <1>2
<1>8. \A i \in DOMAIN new : i = 1 \/ (i \in 2 .. Len(new) /\ i - 1 \in DOMAIN old /\ new[i] = old[i - 1])
  BY <1>2, <1>7
<1>9. \A k \in AlarmKinds : d.dedup[k] # None => d.dedup[k] <= time
  BY DEF DeskGood, Desk!DeskKept
<1>10. ASSUME NEW i \in DOMAIN new, NEW j \in DOMAIN new, i < j, new[i].source = "cloud",
              new[j].source = "cloud", new[i].kind = new[j].kind
       PROVE  new[i].at - new[j].at >= Gap
  <2>1. j - 1 \in DOMAIN old /\ new[j] = old[j - 1]
    BY <1>7, <1>8, <1>10
  <2>2. CASE i = 1
    <3>1. new[i] = a
      BY <1>2, <1>7, <2>2
    <3> DEFINE k == a.kind
               t == old[j - 1].at
               l == d.dedup[k]
    <3>2. k \in AlarmKinds /\ (l = None \/ time - l >= Gap) /\ (l = None \/ l \in Nat)
      BY <1>1, <1>10, <3>1 DEF Desk!FiredRecently, Added
    <3>3. (l # None /\ t <= l) \/ t + Gap <= time
      BY <1>4, <1>10, <2>1, <3>1
    <3>4. t \in Nat
      BY <1>3, <2>1
    <3>5. new[i].at = time /\ new[j].at = t
      BY <2>1, <3>1
    <3> HIDE DEF k, t, l
    <3> QED  BY <1>1, <3>2, <3>3, <3>4, <3>5
  <2>3. CASE i # 1
    <3>1. i - 1 \in DOMAIN old /\ new[i] = old[i - 1] /\ i - 1 < j - 1
      BY <1>7, <1>8, <1>10, <2>3
    <3> QED  BY <1>5, <1>10, <2>1, <3>1
  <2> QED  BY <2>2, <2>3
<1>11. ASSUME NEW k \in AlarmKinds, Desk!FiredRecently(x, k, time), Len(new) # KeptAlarms
       PROVE  \E i \in DOMAIN new : new[i].kind = k /\ new[i].at = x.dedup[k]
  <2>1. Len(new) = Len(old) + 1 /\ new[1] = a /\ 1 \in DOMAIN new /\ Len(old) # KeptAlarms
    BY <1>1, <1>2, <1>7, <1>11
  <2>2. CASE a.source = "cloud" /\ k = a.kind
    BY <2>1, <2>2 DEF Added
  <2>3. CASE ~(a.source = "cloud" /\ k = a.kind)
    <3>1. x.dedup[k] = d.dedup[k]
      BY <2>3 DEF Added
    <3>2. Desk!FiredRecently(d, k, time)
      BY <1>11, <3>1 DEF Desk!FiredRecently
    <3>3. PICK i \in DOMAIN old : old[i].kind = k /\ old[i].at = d.dedup[k]
      BY <1>6, <2>1, <3>2
    <3>4. i + 1 \in 2 .. Len(new) /\ (i + 1) - 1 = i
      BY <1>7, <2>1
    <3>5. i + 1 \in DOMAIN new /\ new[i + 1] = old[i]
      BY <1>2, <1>7, <3>4
    <3> QED  BY <3>1, <3>3, <3>5
  <2> QED  BY <2>2, <2>3
<1>12. Desk!DeskSound(x, time)
  BY <1>10, <1>11 DEF Desk!DeskSound
<1>13. ASSUME NEW i \in DOMAIN new
       PROVE  /\ new[i].at <= time
              /\ new[i].source = "cloud" =>
                    /\ new[i].kind \in AlarmKinds
                    /\ (x.dedup[new[i].kind] # None /\ new[i].at <= x.dedup[new[i].kind])
                         \/ new[i].at + Gap <= time
  <2>1. CASE i = 1
    <3>1. new[i] = a
      BY <1>2, <1>7, <2>1
    <3> QED  BY <1>1, <3>1 DEF Added
  <2>2. CASE i # 1
    <3>1. i - 1 \in DOMAIN old /\ new[i] = old[i - 1]
      BY <1>8, <2>2
    <3>2. old[i - 1].at \in Nat /\ old[i - 1].at <= time
      BY <1>3, <3>1
    <3>3. \A k \in AlarmKinds : x.dedup[k] = d.dedup[k] \/ x.dedup[k] = time
      BY DEF Added
    <3>4. old[i - 1].source = "cloud" =>
             /\ old[i - 1].kind \in AlarmKinds
             /\ (d.dedup[old[i - 1].kind] # None /\ old[i - 1].at <= d.dedup[old[i - 1].kind])
                  \/ old[i - 1].at + Gap <= time
      BY <1>4, <3>1
    <3> DEFINE e == old[i - 1]
    <3>5. new[i] = e
      BY <3>1
    <3> HIDE DEF e
    <3> QED  BY <1>1, <3>2, <3>3, <3>4, <3>5 DEF e
  <2> QED  BY <2>1, <2>2
<1>14. ASSUME NEW k \in AlarmKinds, x.dedup[k] # None PROVE x.dedup[k] <= time
  BY <1>1, <1>9, <1>14 DEF Added
<1>15. Desk!DeskKept(x, time)
  BY <1>13, <1>14 DEF Desk!DeskKept
<1> QED  BY <1>2, <1>12, <1>15 DEF DeskGood

LEMMA WithAlarm ==
    ASSUME NEW d \in AnyDesk, NEW a \in Desk!AlarmsOf(Times),
           NEW e \in [AlarmKinds -> Times \cup {None}],
           NEW x, x = [d EXCEPT !.alarms = Desk!Listed(@, a), !.dedup = e]
    PROVE  x \in AnyDesk
<1> DEFINE A == Desk!AlarmsOf(Times)
           old == d.alarms
           all == <<a>> \o old
           r == Desk!Listed(old, a)
<1>1. old \in Seq(A) /\ a \in A /\ KeptAlarms \in Nat
  BY AlarmAssumption, DeskFields DEF Desk!DeskAssumption
<1>2. r = IF Len(all) > KeptAlarms THEN SubSeq(all, 1, KeptAlarms) ELSE all
  BY DEF Desk!Listed
<1>3. x = [d EXCEPT !.alarms = r, !.dedup = e]
  OBVIOUS
<1> HIDE DEF r
<1>4. r \in Seq(A)
  <2> HIDE DEF A, old
  <2>1. all \in Seq(A)
    BY <1>1
  <2> HIDE DEF all
  <2> QED  BY <1>1, <1>2, <2>1
<1>5. x \in AnyDesk
  BY <1>3, <1>4, Zenon DEF AnyDesk, Desk!Desks
<1> QED  BY <1>5

SentFrom(d) == d.sent \cup {[sub |-> s.id, gone |-> FALSE] : s \in d.subs}

\* What the desk makes of an alarm: it is on the list, or its kind is muted or was fired recently.
FireSays(d, x, kind, dev) ==
    /\ \/ x.mutes = d.mutes
       \/ x.mutes = [d.mutes EXCEPT ![kind] = None] /\ ~Desk!Muted(d, kind, time)
    /\ \/ x.alarms = Desk!Listed(d.alarms, Desk!Alarm(kind, dev, time))
       \/ x.alarms = d.alarms /\ (Desk!Muted(d, kind, time) \/ Desk!FiredRecently(d, kind, time))

\* What is handed to the desk leaves it in order.
LEMMA FireGood ==
    ASSUME NEW d, DeskGood(d), time \in Times, NEW kind \in AlarmKinds, NEW dev \in Desk!Devices,
           NEW critical, NEW swept, NEW x, x = Desk!Fire(d, kind, dev, critical, swept, time)
    PROVE  /\ DeskGood(x) /\ x.subs = d.subs /\ x.sent \subseteq SentFrom(d)
           /\ FireSays(d, x, kind, dev)
<1>1. d \in AnyDesk /\ GcAge \in Nat /\ GcAge >= Gap
  BY AlarmAssumption DEF DeskGood, Desk!DeskAssumption
<1>2. CASE x = d /\ Desk!Muted(d, kind, time)
  BY <1>2 DEF SentFrom, FireSays
<1>3. PICK y : y = IF critical THEN d ELSE Desk!Looked(d, kind, time)
  OBVIOUS
<1>4. y \in AnyDesk /\ y.alarms = d.alarms /\ y.dedup = d.dedup /\ y.subs = d.subs /\ y.sent = d.sent
      /\ \/ y.mutes = d.mutes
         \/ y.mutes = [d.mutes EXCEPT ![kind] = None] /\ ~Desk!Muted(d, kind, time)
  <2>1. CASE y = d
    BY <1>1, <2>1
  <2>2. CASE y = [d EXCEPT !.mutes[kind] = None] /\ ~Desk!Muted(d, kind, time)
    <3> DEFINE m == [d.mutes EXCEPT ![kind] = None]
    <3>1. m \in [AlarmKinds -> Times \cup {None}]
      BY <1>1, DeskFields
    <3>2. y = [d EXCEPT !.mutes = m]
      BY <2>2
    <3> HIDE DEF m
    <3>3. y \in AnyDesk
      BY <1>1, <3>1, <3>2, Zenon DEF AnyDesk, Desk!Desks
    <3>4. /\ y.alarms = d.alarms /\ y.dedup = d.dedup /\ y.subs = d.subs /\ y.sent = d.sent
          /\ y.mutes = m
      BY <1>1, <3>2 DEF AnyDesk, Desk!Desks
    <3> QED  BY <2>2, <3>3, <3>4 DEF m
  <2> QED  BY <1>3, <2>1, <2>2 DEF Desk!Looked
<1>5. DeskGood(y)
  BY <1>4, GoodSame
<1>6. CASE x = y /\ Desk!FiredRecently(y, kind, time)
  <2>1. Desk!FiredRecently(d, kind, time)
    BY <1>4, <1>6 DEF Desk!FiredRecently
  <2> QED  BY <1>4, <1>5, <1>6, <2>1 DEF SentFrom, FireSays
<1>7. ASSUME ~Desk!FiredRecently(y, kind, time), NEW marked, NEW tidy, NEW title,
             marked = Desk!Remembers(y, kind, time),
             tidy = IF swept THEN Desk!Forgets(marked, GcAge, time) ELSE marked,
             x = Desk!Notified([tidy EXCEPT !.alarms = Desk!Listed(@, Desk!Alarm(kind, dev, time))],
                               "security", title, time)
      PROVE  /\ DeskGood(x) /\ x.subs = d.subs /\ x.sent \subseteq SentFrom(d)
             /\ FireSays(d, x, kind, dev)
  <2> DEFINE a == Desk!Alarm(kind, dev, time)
             e == [y.dedup EXCEPT ![kind] = time]
             f == IF swept
                  THEN [k \in AlarmKinds |->
                          IF e[k] # None /\ e[k] < time - GcAge THEN None ELSE e[k]]
                  ELSE e
             z == [y EXCEPT !.alarms = Desk!Listed(@, a), !.dedup = e]
             w == [y EXCEPT !.alarms = Desk!Listed(@, a), !.dedup = f]
  <2>1. a \in Desk!AlarmsOf(Times) /\ a.at = time /\ a.source = "cloud" /\ a.kind = kind
    BY DEF Desk!Alarm, Desk!AlarmsOf
  <2>2. y.dedup \in [AlarmKinds -> Times \cup {None}]
    BY <1>4, DeskFields
  <2>3. e \in [AlarmKinds -> Times \cup {None}] /\ \A k \in AlarmKinds :
           e[k] = IF k = kind THEN time ELSE y.dedup[k]
    BY <2>2
  <2>4. marked = [y EXCEPT !.dedup = e]
    BY <1>7 DEF Desk!Remembers
  <2> HIDE DEF e
  <2>5. f \in [AlarmKinds -> Times \cup {None}]
    BY <2>3
  <2>6. tidy = [y EXCEPT !.dedup = f]
    <3>1. CASE swept
      <4>1. tidy = [marked EXCEPT !.dedup = [k \in AlarmKinds |->
                IF marked.dedup[k] # None /\ marked.dedup[k] < time - GcAge THEN None
                ELSE marked.dedup[k]]]
        BY <1>7, <3>1 DEF Desk!Forgets
      <4>2. marked.dedup = e
        BY <1>4, <2>4 DEF AnyDesk, Desk!Desks
      <4> DEFINE g == [k \in AlarmKinds |-> IF e[k] # None /\ e[k] < time - GcAge THEN None ELSE e[k]]
      <4>3. f = g /\ tidy = [marked EXCEPT !.dedup = g]
        BY <3>1, <4>1, <4>2
      <4> HIDE DEF f, g
      <4> QED  BY <1>4, <2>4, <4>3 DEF AnyDesk, Desk!Desks
    <3>2. CASE ~swept
      BY <1>7, <2>4, <3>2
    <3> QED  BY <3>1, <3>2
  <2> HIDE DEF a
  <2>7. x = Desk!Notified(w, "security", title, time)
    <3> HIDE DEF f
    <3>1. [tidy EXCEPT !.alarms = Desk!Listed(@, a)] = w
      BY <1>4, <2>6 DEF AnyDesk, Desk!Desks
    <3> QED  BY <1>7, <3>1 DEF a
  <2>8. z \in AnyDesk /\ z.alarms = Desk!Listed(y.alarms, a) /\ z.dedup = e
    <3>1. y \in AnyDesk /\ a \in Desk!AlarmsOf(Times) /\ e \in [AlarmKinds -> Times \cup {None}]
          /\ z = [y EXCEPT !.alarms = Desk!Listed(@, a), !.dedup = e]
      BY <1>4, <2>1, <2>3
    <3> HIDE DEF z
    <3>2. z \in AnyDesk
      BY <3>1, WithAlarm
    <3>3. z.alarms = Desk!Listed(y.alarms, a) /\ z.dedup = e
      BY <3>1 DEF AnyDesk, Desk!Desks
    <3> QED  BY <3>2, <3>3
  <2>9. w \in AnyDesk /\ w.alarms = Desk!Listed(y.alarms, a) /\ w.dedup = f /\ w.subs = y.subs
        /\ w.sent = y.sent /\ w.mutes = y.mutes
    <3>1. y \in AnyDesk /\ a \in Desk!AlarmsOf(Times) /\ f \in [AlarmKinds -> Times \cup {None}]
          /\ w = [y EXCEPT !.alarms = Desk!Listed(@, a), !.dedup = f]
      BY <1>4, <2>1, <2>5
    <3> HIDE DEF f, w
    <3>2. w \in AnyDesk
      BY <3>1, WithAlarm
    <3>3. /\ w.alarms = Desk!Listed(y.alarms, a) /\ w.dedup = f /\ w.subs = y.subs
          /\ w.sent = y.sent /\ w.mutes = y.mutes
      BY <3>1 DEF AnyDesk, Desk!Desks
    <3> QED  BY <3>2, <3>3
  <2> HIDE DEF z, w
  <2>10. Added(y, a, z)
    BY <1>7, <2>1, <2>3, <2>8 DEF Added
  <2>11. DeskGood(z)
    BY <1>5, <2>1, <2>8, <2>10, GoodListed
  <2>12. DeskGood(w)
    <3>1. CASE swept
      BY <1>1, <2>8, <2>9, <2>11, <3>1, GoodForgets
    <3>2. CASE ~swept
      BY <2>8, <2>9, <2>11, <3>2, GoodSame
    <3> QED  BY <3>1, <3>2
  <2>13. /\ x \in AnyDesk /\ x.alarms = w.alarms /\ x.dedup = w.dedup /\ x.subs = w.subs
         /\ x.sent \subseteq SentFrom(w) /\ x.mutes = w.mutes
    BY <2>7, <2>9, NotifiedIs DEF SentFrom
  <2>14. FireSays(d, x, kind, dev)
    BY <1>4, <2>9, <2>13 DEF FireSays, a
  <2>15. DeskGood(x) /\ x.subs = d.subs /\ x.sent \subseteq SentFrom(d)
    BY <1>4, <2>9, <2>12, <2>13, GoodSame DEF SentFrom
  <2> QED  BY <2>14, <2>15
<1> QED
  <2>1. CASE ~critical /\ Desk!Muted(d, kind, time)
    BY <1>2, <2>1 DEF Desk!Fire
  <2>2. CASE Desk!FiredRecently(y, kind, time)
    BY <1>2, <1>3, <1>6, <2>2 DEF Desk!Fire
  <2>3. CASE ~(~critical /\ Desk!Muted(d, kind, time)) /\ ~Desk!FiredRecently(y, kind, time)
    BY <1>3, <1>7, <2>3 DEF Desk!Fire
  <2> QED  BY <2>1, <2>2, <2>3

\* A recent alarm of the kind is on the list of a desk, or the list is full.
OnList(d, k) ==
    \/ \E i \in DOMAIN d.alarms : d.alarms[i].kind = k /\ time - d.alarms[i].at < Gap
    \/ Len(d.alarms) = KeptAlarms

\* What is on the list stays there while it is recent, and what is handed over is there now
\* unless it is muted.
LEMMA SaysTold ==
    ASSUME NEW d, DeskGood(d), time \in Times, NEW kind \in AlarmKinds, NEW dev \in Desk!Devices,
           NEW x, FireSays(d, x, kind, dev)
    PROVE  /\ \A k \in AlarmKinds : Desk!Muted(x, k, time) <=> Desk!Muted(d, k, time)
           /\ \A k \in AlarmKinds : OnList(d, k) => OnList(x, k)
           /\ Desk!Muted(d, kind, time) \/ OnList(x, kind)
<1> DEFINE old == d.alarms
           new == x.alarms
           a == Desk!Alarm(kind, dev, time)
<1>1. /\ Gap \in Nat /\ Gap > 0 /\ time \in Nat /\ d \in AnyDesk /\ KeptAlarms \in Nat
      /\ old \in Seq(Desk!AlarmsOf(Times)) /\ Len(old) <= KeptAlarms
      /\ d.mutes \in [AlarmKinds -> Times \cup {None}]
  BY AlarmAssumption, DeskFields DEF DeskGood, Desk!DeskAssumption, Times
<1>2. \A k \in AlarmKinds : Desk!Muted(x, k, time) <=> Desk!Muted(d, k, time)
  BY <1>1 DEF FireSays, Desk!Muted
<1>3. a \in Desk!AlarmsOf(Times) /\ a.at = time /\ a.kind = kind
  BY DEF Desk!Alarm, Desk!AlarmsOf
<1>4. CASE new = Desk!Listed(old, a)
  <2> HIDE DEF a
  <2>1. PushedBack(old, a, new)
    <3> HIDE DEF old, new
    <3> QED  BY <1>1, <1>3, <1>4, ListedIs
  <2>2. /\ Len(new) <= KeptAlarms
        /\ Len(new) = KeptAlarms \/ Len(new) = Len(old) + 1
        /\ Len(new) >= 1 => new[1] = a
        /\ \A i \in 2 .. Len(new) : i - 1 \in 1 .. Len(old) /\ new[i] = old[i - 1]
    BY <2>1 DEF PushedBack
  <2>3. DOMAIN old = 1 .. Len(old) /\ DOMAIN new = 1 .. Len(new) /\ Len(old) \in Nat /\ Len(new) \in Nat
    BY <1>1, <2>1 DEF PushedBack
  <2>4. ASSUME NEW i \in DOMAIN old, Len(new) # KeptAlarms
        PROVE  i + 1 \in DOMAIN new /\ new[i + 1] = old[i]
    <3>1. i + 1 \in 2 .. Len(new) /\ (i + 1) - 1 = i
      BY <2>2, <2>3, <2>4
    <3> QED  BY <2>2, <2>3, <3>1
  <2>5. ASSUME NEW k \in AlarmKinds, OnList(d, k) PROVE OnList(x, k)
    <3>1. SUFFICES ASSUME Len(new) # KeptAlarms PROVE OnList(x, k)
      BY DEF OnList
    <3>2. Len(old) # KeptAlarms
      BY <1>1, <2>2, <2>3, <3>1
    <3>3. PICK i \in DOMAIN old : old[i].kind = k /\ time - old[i].at < Gap
      BY <2>5, <3>2 DEF OnList
    <3>4. i + 1 \in DOMAIN new /\ new[i + 1] = old[i]
      BY <2>4, <3>1
    <3> QED  BY <3>3, <3>4 DEF OnList
  <2>6. OnList(x, kind)
    <3>1. SUFFICES ASSUME Len(new) # KeptAlarms PROVE OnList(x, kind)
      BY DEF OnList
    <3>2. 1 \in DOMAIN new /\ new[1] = a
      BY <2>2, <2>3, <3>1
    <3>3. new[1].kind = kind /\ time - new[1].at < Gap
      BY <1>1, <1>3, <3>2
    <3> QED  BY <3>2, <3>3 DEF OnList
  <2> QED  BY <1>2, <2>5, <2>6
<1>5. CASE new = old /\ (Desk!Muted(d, kind, time) \/ Desk!FiredRecently(d, kind, time))
  <2>1. \A k \in AlarmKinds : OnList(d, k) => OnList(x, k)
    BY <1>5 DEF OnList
  <2>2. CASE Desk!FiredRecently(d, kind, time)
    <3>1. \/ Len(old) = KeptAlarms
          \/ \E i \in DOMAIN old : old[i].kind = kind /\ old[i].at = d.dedup[kind]
      BY <2>2 DEF DeskGood, Desk!DeskSound
    <3>2. OnList(d, kind)
      BY <2>2, <3>1 DEF OnList, Desk!FiredRecently
    <3> QED  BY <1>2, <2>1, <3>2
  <2> QED  BY <1>2, <1>5, <2>1, <2>2
<1> QED  BY <1>4, <1>5 DEF FireSays

-----------------------------------------------------------------------------
(* One alarm after the other.                                              *)

\* The recursive function of FireAll exists: it does up to 0, and with n up to n + 1.
LEMMA DesksExist ==
    ASSUME NEW alarms, Len(alarms) \in Nat, NEW swept
    PROVE  \E f : f = [n \in 0 .. Len(alarms) |->
                IF n = 0 THEN desk
                ELSE IF alarms[n] = None THEN f[n - 1]
                ELSE Desk!Fire(f[n - 1], alarms[n].kind, alarms[n].dev, alarms[n].critical,
                               n \in swept, time)]
<1> DEFINE Next1(d, n) == Desk!Fire(d, alarms[n].kind, alarms[n].dev, alarms[n].critical,
                                    n \in swept, time)
           Then(f, n) == IF n = 0 THEN desk
                         ELSE IF alarms[n] = None THEN f[n - 1] ELSE Next1(f[n - 1], n)
           Solved == {m \in 0 .. Len(alarms) : \E f : f = [n \in 0 .. m |-> Then(f, n)]}
<1> HIDE DEF Next1
<1>1. Len(alarms) \in Nat
  OBVIOUS
<1>2. 0 \in Solved
  <2> DEFINE f == [n \in 0 .. 0 |-> desk]
  <2>1. f = [n \in 0 .. 0 |-> Then(f, n)]
    OBVIOUS
  <2> HIDE DEF f
  <2> QED  BY <1>1, <2>1
<1>3. ASSUME NEW m \in 0 .. Len(alarms) - 1, m \in Solved PROVE m + 1 \in Solved
  <2>1. PICK f : f = [n \in 0 .. m |-> Then(f, n)]
    BY <1>3
  <2>7. \A n \in 0 .. m : f[n] = Then(f, n)
    <3> HIDE DEF Then
    <3> QED  BY <2>1
  <2> DEFINE last == IF alarms[m + 1] = None THEN f[m] ELSE Next1(f[m], m + 1)
             g == [n \in 0 .. m + 1 |-> IF n = m + 1 THEN last ELSE f[n]]
  <2>2. \A n \in 0 .. m : g[n] = f[n]
    BY <1>1
  <2>3. g[m + 1] = last
    BY <1>1
  <2>4. g = [n \in 0 .. m + 1 |-> g[n]]
    OBVIOUS
  <2> HIDE DEF g
  <2>5. ASSUME NEW n \in 0 .. m + 1 PROVE g[n] = Then(g, n)
    <3>1. CASE n = 0
      <4>1. f[0] = Then(f, 0) /\ g[0] = f[0]
        BY <2>7, <2>2, <1>1
      <4> QED  BY <4>1, <3>1
    <3>2. CASE n \in 1 .. m
      <4>1. f[n] = Then(f, n)
        BY <2>7, <3>2, <1>1
      <4>2. g[n] = f[n] /\ g[n - 1] = f[n - 1]
        BY <3>2, <2>2, <1>1
      <4> QED  BY <4>1, <4>2
    <3>3. CASE n = m + 1
      <4>1. g[n - 1] = f[m] /\ n # 0
        BY <3>3, <2>2, <1>1
      <4> QED  BY <4>1, <3>3, <2>3
    <3> QED  BY <3>1, <3>2, <3>3, <1>1
  <2>6. g = [n \in 0 .. m + 1 |-> Then(g, n)]
    BY <2>4, <2>5
  <2> HIDE DEF Then
  <2> QED  BY <2>6, <1>1
<1>4. Len(alarms) \in Solved
  <2> HIDE DEF Solved
  <2>1. 0 .. Len(alarms) \subseteq Solved
    BY <1>1, <1>2, <1>3, CountUp
  <2> QED  BY <1>1, <2>1
<1> QED  BY <1>4 DEF Next1

Handed == [kind : AlarmKinds, dev : Desk!Devices, critical : BOOLEAN]

\* The first n alarms are told on a desk, or muted; the mutes are as before.
ToldOf(d, n, alarms) ==
    /\ \A k \in AlarmKinds : Desk!Muted(d, k, time) <=> Desk!Muted(desk, k, time)
    /\ \A i \in 1 .. n : alarms[i] # None =>
          Desk!Muted(desk, alarms[i].kind, time) \/ OnList(d, alarms[i].kind)

LEMMA FireAllGood ==
    ASSUME DeskGood(desk), time \in Times, NEW alarms \in Seq(Handed \cup {None}), NEW swept
    PROVE  /\ DeskGood(FireAll(alarms, swept)) /\ FireAll(alarms, swept).subs = desk.subs
           /\ FireAll(alarms, swept).sent \subseteq SentFrom(desk)
           /\ ToldOf(FireAll(alarms, swept), Len(alarms), alarms)
<1> DEFINE l == Len(alarms)
           f == CHOOSE f : f = [n \in 0 .. l |->
                IF n = 0 THEN desk
                ELSE IF alarms[n] = None THEN f[n - 1]
                ELSE Desk!Fire(f[n - 1], alarms[n].kind, alarms[n].dev, alarms[n].critical,
                               n \in swept, time)]
<1>1. l \in Nat
  OBVIOUS
<1>2. FireAll(alarms, swept) = f[l]
  BY DEF FireAll
<1>3. f = [n \in 0 .. l |->
                IF n = 0 THEN desk
                ELSE IF alarms[n] = None THEN f[n - 1]
                ELSE Desk!Fire(f[n - 1], alarms[n].kind, alarms[n].dev, alarms[n].critical,
                               n \in swept, time)]
  BY <1>1, DesksExist
<1> HIDE DEF f
<1>4. /\ f[0] = desk
      /\ \A n \in 1 .. l : f[n] =
            IF alarms[n] = None THEN f[n - 1]
            ELSE Desk!Fire(f[n - 1], alarms[n].kind, alarms[n].dev, alarms[n].critical,
                               n \in swept, time)
  BY <1>1, <1>3
<1> DEFINE Good(d) == DeskGood(d) /\ d.subs = desk.subs /\ d.sent \subseteq SentFrom(desk)
           S == {n \in 0 .. l : Good(f[n]) /\ ToldOf(f[n], n, alarms)}
<1>5. 0 \in S
  BY <1>1, <1>4 DEF SentFrom, ToldOf
<1>6. ASSUME NEW n \in 0 .. l - 1, n \in S PROVE n + 1 \in S
  <2>1. Good(f[n]) /\ n + 1 \in 1 .. l /\ (n + 1) - 1 = n /\ n + 1 \in 0 .. l
    BY <1>1, <1>6
  <2>4. \A i \in 1 .. n + 1 : i \in 1 .. n \/ i = n + 1
    BY <1>1, <2>1
  <2>5. ToldOf(f[n], n, alarms)
    BY <1>6
  <2>2. CASE alarms[n + 1] = None
    <3>1. f[n + 1] = f[n]
      BY <1>4, <2>1, <2>2
    <3>2. ToldOf(f[n + 1], n + 1, alarms)
      BY <2>2, <2>4, <2>5, <3>1 DEF ToldOf
    <3> HIDE DEF Good
    <3> QED  BY <2>1, <3>1, <3>2
  <2>3. CASE alarms[n + 1] # None
    <3>1. alarms[n + 1] \in Handed
      BY <2>1, <2>3
    <3>2. alarms[n + 1].kind \in AlarmKinds /\ alarms[n + 1].dev \in Desk!Devices
      BY <3>1 DEF Handed
    <3>3. PICK x, d, kind, dev, critical, swept1 :
             /\ x = f[n + 1] /\ d = f[n] /\ kind = alarms[n + 1].kind /\ dev = alarms[n + 1].dev
             /\ critical = alarms[n + 1].critical /\ swept1 = (n + 1 \in swept)
             /\ x = Desk!Fire(d, kind, dev, critical, swept1, time)
      BY <1>4, <2>1, <2>3
    <3>4. /\ DeskGood(x) /\ x.subs = d.subs /\ x.sent \subseteq SentFrom(d)
          /\ FireSays(d, x, kind, dev)
      BY <2>1, <3>2, <3>3, FireGood
    <3>5. Good(x)
      BY <2>1, <3>3, <3>4 DEF SentFrom
    <3>6. Good(f[n + 1])
      BY <3>3, <3>5
    <3>7. /\ \A k \in AlarmKinds : Desk!Muted(x, k, time) <=> Desk!Muted(d, k, time)
          /\ \A k \in AlarmKinds : OnList(d, k) => OnList(x, k)
          /\ Desk!Muted(d, kind, time) \/ OnList(x, kind)
      BY <2>1, <3>2, <3>3, <3>4, SaysTold
    <3>8. ASSUME NEW i \in 1 .. n + 1, alarms[i] # None
          PROVE  Desk!Muted(desk, alarms[i].kind, time) \/ OnList(x, alarms[i].kind)
      <4>1. CASE i = n + 1
        BY <2>5, <3>2, <3>3, <3>7, <4>1 DEF ToldOf
      <4>2. CASE i \in 1 .. n
        <5>1. alarms[i].kind \in AlarmKinds
          BY <1>1, <1>6, <3>8, <4>2 DEF Handed
        <5> QED  BY <2>5, <3>3, <3>7, <3>8, <4>2, <5>1 DEF ToldOf
      <4> QED  BY <2>4, <4>1, <4>2
    <3>9. ToldOf(f[n + 1], n + 1, alarms)
      BY <2>5, <3>3, <3>7, <3>8 DEF ToldOf
    <3> HIDE DEF Good
    <3> QED  BY <2>1, <3>6, <3>9
  <2> QED  BY <2>2, <2>3
<1>7. l \in S
  <2> HIDE DEF S
  <2>1. 0 .. l \subseteq S
    BY <1>1, <1>5, <1>6, CountUp
  <2> QED  BY <1>1, <2>1
<1> QED  BY <1>2, <1>7

-----------------------------------------------------------------------------
(* The steps.                                                              *)

LEMMA AlarmFacts ==
    ASSUME AlarmInv
    PROVE  /\ DeskGood(desk) /\ time \in Times /\ time \in Nat /\ MaxTime \in Nat /\ MaxSubs \in Nat
           /\ subscribed \in 0 .. MaxSubs /\ desk \in AnyDesk
           /\ \A s \in desk.subs : s.id \in 1 .. subscribed /\ s.endpoint = "browser"
           /\ browser \in {None} \cup 1 .. subscribed
           /\ \A p \in desk.sent : p.sub \in 1 .. subscribed /\ (p.gone => p.sub # browser)
           /\ \A p \in desk.sent : p \in [sub : SubIds, gone : BOOLEAN]
<1>1. /\ desk \in AnyDesk /\ Len(desk.alarms) <= KeptAlarms
  BY DEF AlarmInv, AlarmTypeOK, Desk!DeskOK, AnyDesk, Times, SubIds
<1>2. DeskGood(desk)
  BY <1>1 DEF DeskGood, AlarmInv, AlarmsSound
<1>3. \A s \in desk.subs : s \in [id : SubIds, endpoint : {"browser"}]
  BY <1>1, DeskFields
<1>4. \A p \in desk.sent : p \in [sub : SubIds, gone : BOOLEAN]
  BY <1>1, DeskFields
<1>5. time \in Times /\ MaxTime \in Nat /\ MaxSubs \in Nat
  BY AlarmAssumption DEF AlarmInv, AlarmTypeOK, Times
<1>6. \A s \in desk.subs : s.id \in 1 .. subscribed /\ s.endpoint = "browser"
  BY <1>3 DEF AlarmInv, AlarmTypeOK
<1> QED  BY <1>1, <1>2, <1>4, <1>5, <1>6 DEF AlarmInv, AlarmTypeOK, Times

\* A step that only hands alarms to the desk.
LEMMA DeskChanges ==
    ASSUME AlarmInv, UNCHANGED <<time, browser, subscribed>>,
           \A g \in AlarmDevices : threshold_fired'[g].fired \subseteq Thresholds,
           NEW d, DeskGood(d), d.subs = desk.subs, d.sent \subseteq SentFrom(desk), desk' = d
    PROVE  AlarmInv'
<1>1. d \in AnyDesk /\ Len(d.alarms) <= KeptAlarms /\ Desk!DeskSound(d, time) /\ Desk!DeskKept(d, time)
  BY DEF DeskGood
<1>2. /\ time \in Times /\ subscribed \in 0 .. MaxSubs
      /\ \A s \in desk.subs : s.id \in 1 .. subscribed /\ s.endpoint = "browser"
      /\ browser \in {None} \cup 1 .. subscribed
      /\ \A p \in desk.sent : p.sub \in 1 .. subscribed /\ (p.gone => p.sub # browser)
  BY AlarmFacts
<1>3. AlarmTypeOK'
  BY <1>1, <1>2 DEF AlarmTypeOK, Desk!DeskOK, AnyDesk, Times, SubIds
<1>4. AlarmsSound' /\ Desk!DeskKept(desk', time')
  BY <1>1 DEF AlarmsSound
<1>5. RenewalKept'
  <2>1. browser # None => \E s \in desk.subs : s.id = browser
    BY DEF AlarmInv, RenewalKept
  <2> QED  BY <2>1 DEF RenewalKept
<1>6. \A p \in d.sent : p.sub \in 1 .. subscribed /\ (p.gone => p.sub # browser)
  <2> TAKE p \in d.sent
  <2>1. CASE p \in desk.sent
    BY <1>2, <2>1
  <2>2. CASE p \notin desk.sent
    <3>1. PICK s \in desk.subs : p = [sub |-> s.id, gone |-> FALSE]
      BY <2>2 DEF SentFrom
    <3> QED  BY <1>2, <3>1
  <2> QED  BY <2>1, <2>2
<1> QED  BY <1>2, <1>3, <1>4, <1>5, <1>6 DEF AlarmInv

LEMMA WatchKeeps ==
    ASSUME AlarmInv, UNCHANGED <<time, browser, subscribed>>,
           \A g \in AlarmDevices : threshold_fired'[g].fired \subseteq Thresholds,
           NEW alarms \in Seq(Handed \cup {None}), Fired(alarms)
    PROVE  AlarmInv'
<1>1. PICK swept \in SUBSET DOMAIN alarms : desk' = FireAll(alarms, swept)
  BY DEF Fired
<1>2. DeskGood(desk) /\ time \in Times
  BY AlarmFacts
<1>3. PICK d : d = FireAll(alarms, swept)
  OBVIOUS
<1>4. DeskGood(d) /\ d.subs = desk.subs /\ d.sent \subseteq SentFrom(desk)
  BY <1>2, <1>3, FireAllGood
<1> QED  BY <1>1, <1>3, <1>4, DeskChanges

LEMMA FoundIs ==
    ASSUME NEW kind \in AlarmKinds, NEW g \in Desk!Devices
    PROVE  Found(kind, g) \in Handed
  BY DEF Found, Handed

LEMMA KindsAre ==
    /\ {"activity", "large_upload", "traffic_anomaly", "custom_rule"} \subseteq AlarmKinds
    /\ Thresholds \subseteq AlarmKinds /\ \A i \in DOMAIN AnomalyKinds : AnomalyKinds[i] \in AlarmKinds
    /\ AlarmDevices \subseteq Desk!Devices /\ None \in Desk!Devices
  BY DEF AlarmKinds, Desk!Devices

LEMMA OrderIs ==
    ASSUME NEW order \in SetToSeqs(AlarmDevices)
    PROVE  DOMAIN order = 1 .. Len(order) /\ Len(order) \in Nat /\ \A i \in DOMAIN order : order[i] \in AlarmDevices
<1>1. order \in [1 .. Cardinality(AlarmDevices) -> AlarmDevices] /\ Cardinality(AlarmDevices) \in Nat
  BY AlarmAssumption, FS_CardinalityType DEF SetToSeqs
<1> QED  BY <1>1

\* No device is left out of an order.
LEMMA OrderHasAll ==
    ASSUME NEW order \in SetToSeqs(AlarmDevices), NEW g \in AlarmDevices
    PROVE  \E i \in DOMAIN order : order[i] = g
<1> DEFINE D == 1 .. Cardinality(AlarmDevices)
<1>1. order \in [D -> AlarmDevices] /\ \A i, j \in D : i # j => order[i] # order[j]
  BY DEF SetToSeqs
<1>2. IsFiniteSet(AlarmDevices) /\ Cardinality(AlarmDevices) \in Nat
  BY AlarmAssumption, FS_CardinalityType
<1>3. IsFiniteSet(D) /\ Cardinality(D) = Cardinality(AlarmDevices)
  BY <1>2, FS_Interval
<1> HIDE DEF D
<1>4. order \in Injection(D, AlarmDevices)
  BY <1>1 DEF Injection, IsInjective
<1>5. order \in Surjection(D, AlarmDevices)
  BY <1>2, <1>3, <1>4, FS_Injection
<1> QED  BY <1>1, <1>5 DEF Surjection

\* An alarm is a record and not None.
LEMMA NoneNotHanded == None \notin Handed
<1>1. \A h \in Handed : h = [kind |-> h.kind, dev |-> h.dev, critical |-> h.critical]
  BY DEF Handed
<1> QED  BY <1>1, AlarmAssumption DEF Handed, Desk!Devices

LEMMA FlowKeeps ==
    ASSUME AlarmInv, NEW g \in AlarmDevices, NEW watched \in BOOLEAN, NEW large \in BOOLEAN,
           Flow(g, watched, large)
    PROVE  AlarmInv'
<1> DEFINE a == IF watched /\ Crosses(Tally(g)) THEN Found("activity", g) ELSE None
           b == IF large /\ LongAgo(uploads[g]) THEN Found("large_upload", g) ELSE None
<1>1. UNCHANGED <<time, threshold_fired, browser, subscribed>> /\ Fired(<<a, b>>)
  BY DEF Flow, Push
<1>2. a \in Handed \cup {None} /\ b \in Handed \cup {None}
  BY KindsAre, FoundIs
<1> HIDE DEF a, b
<1>3. <<a, b>> \in Seq(Handed \cup {None})
  BY <1>2
<1>4. \A h \in AlarmDevices : threshold_fired'[h].fired \subseteq Thresholds
  BY <1>1 DEF AlarmInv, AlarmTypeOK
<1> DEFINE alarms == <<a, b>>
<1>5. alarms \in Seq(Handed \cup {None}) /\ Fired(alarms)
  BY <1>1, <1>3
<1> HIDE DEF alarms
<1> QED  BY <1>1, <1>4, <1>5, WatchKeeps

\* What a scan of the quotas hands over.
LEMMA QuotaHanded ==
    ASSUME NEW order \in SetToSeqs(AlarmDevices),
           NEW reached \in [AlarmDevices -> Thresholds \cup {None}]
    PROVE  LET told(g) == IF threshold_fired[g].period = AlarmMonth
                            THEN threshold_fired[g].fired ELSE {}
               crossed(g) == reached[g] # None /\ reached[g] \notin told(g)
           IN  [i \in DOMAIN order |->
                   IF crossed(order[i]) THEN Found(reached[order[i]], None) ELSE None]
                  \in Seq(Handed \cup {None})
<1> DEFINE told(g) == IF threshold_fired[g].period = AlarmMonth THEN threshold_fired[g].fired ELSE {}
           crossed(g) == reached[g] # None /\ reached[g] \notin told(g)
           alarms == [i \in DOMAIN order |->
                        IF crossed(order[i]) THEN Found(reached[order[i]], None) ELSE None]
<1> SUFFICES alarms \in Seq(Handed \cup {None})
  OBVIOUS
<1>1. \A i \in DOMAIN order : alarms[i] \in Handed \cup {None}
  <2> TAKE i \in DOMAIN order
  <2>1. order[i] \in AlarmDevices
    BY OrderIs
  <2>2. CASE crossed(order[i])
    <3>1. reached[order[i]] \in AlarmKinds
      BY <2>1, <2>2, KindsAre
    <3> HIDE DEF crossed
    <3> QED  BY <2>2, <3>1, KindsAre, FoundIs
  <2>3. CASE ~crossed(order[i])
    <3> HIDE DEF crossed
    <3> QED  BY <2>3
  <2> QED  BY <2>2, <2>3
<1>2. DOMAIN order = 1 .. Len(order) /\ Len(order) \in Nat
  BY OrderIs
<1> HIDE DEF crossed
<1> QED  BY <1>1, <1>2

LEMMA QuotaKeeps ==
    ASSUME AlarmInv, NEW order \in SetToSeqs(AlarmDevices),
           NEW reached \in [AlarmDevices -> Thresholds \cup {None}], QuotaScan(order, reached)
    PROVE  AlarmInv'
<1> DEFINE told(g) == IF threshold_fired[g].period = AlarmMonth THEN threshold_fired[g].fired ELSE {}
           crossed(g) == reached[g] # None /\ reached[g] \notin told(g)
           alarms == [i \in DOMAIN order |->
                        IF crossed(order[i]) THEN Found(reached[order[i]], None) ELSE None]
<1>1. /\ UNCHANGED <<time, browser, subscribed>> /\ Fired(alarms)
      /\ threshold_fired' = [g \in AlarmDevices |->
            [period |-> AlarmMonth,
             fired |-> told(g) \cup (IF crossed(g) THEN {reached[g]} ELSE {})]]
  BY DEF QuotaScan, Push
<1>2. \A g \in AlarmDevices : threshold_fired'[g].fired \subseteq Thresholds
  <2> TAKE g \in AlarmDevices
  <2>1. told(g) \subseteq Thresholds
    BY DEF AlarmInv, AlarmTypeOK
  <2>2. (IF crossed(g) THEN {reached[g]} ELSE {}) \subseteq Thresholds
    OBVIOUS
  <2> HIDE DEF told, crossed
  <2>3. threshold_fired'[g].fired = told(g) \cup (IF crossed(g) THEN {reached[g]} ELSE {})
    BY <1>1
  <2> QED  BY <2>1, <2>2, <2>3
<1>3. alarms \in Seq(Handed \cup {None})
  BY QuotaHanded
<1> HIDE DEF alarms
<1> QED  BY <1>1, <1>2, <1>3, WatchKeeps

LEMMA TrafficKeeps ==
    ASSUME AlarmInv, NEW order \in SetToSeqs(AlarmDevices), NEW heavy \in SUBSET AlarmDevices,
           TrafficAnomalies(order, heavy)
    PROVE  AlarmInv'
<1> DEFINE fresh(g) == g \in heavy /\ traffic_seen[g] # AlarmDay
           list == [i \in DOMAIN order |->
                      IF fresh(order[i]) THEN Found("traffic_anomaly", None) ELSE None]
           age == 2 * AlarmDayLength
<1>1. PICK swept \in SUBSET DOMAIN list :
         desk' = Desk!Forgets(FireAll(list, swept), age, time)
  BY DEF TrafficAnomalies
<1>2. UNCHANGED <<time, threshold_fired, browser, subscribed>>
  BY DEF TrafficAnomalies, Push
<1>3. \A g \in AlarmDevices : threshold_fired'[g].fired \subseteq Thresholds
  BY <1>2 DEF AlarmInv, AlarmTypeOK
<1>4. list \in Seq(Handed \cup {None})
  <2>1. \A i \in DOMAIN order : list[i] \in Handed \cup {None}
    <3> HIDE DEF fresh
    <3> QED  BY KindsAre, FoundIs
  <2>2. DOMAIN order = 1 .. Len(order) /\ Len(order) \in Nat
    BY OrderIs
  <2> HIDE DEF fresh
  <2> QED  BY <2>1, <2>2
<1>5. age \in Nat /\ age >= Gap
  BY AlarmAssumption
<1> HIDE DEF list, age
<1>6. PICK x : x = FireAll(list, swept)
  OBVIOUS
<1>7. DeskGood(desk) /\ time \in Times
  BY AlarmFacts
<1>8. DeskGood(x) /\ x.subs = desk.subs /\ x.sent \subseteq SentFrom(desk)
  BY <1>4, <1>6, <1>7, FireAllGood
<1>9. PICK e : e = [k \in AlarmKinds |->
         IF x.dedup[k] # None /\ x.dedup[k] < time - age THEN None ELSE x.dedup[k]]
  OBVIOUS
<1>10. PICK d : d = [x EXCEPT !.dedup = e]
  OBVIOUS
<1>11. desk' = d
  BY <1>1, <1>6, <1>9, <1>10 DEF Desk!Forgets
<1>12. x \in AnyDesk
  BY <1>8 DEF DeskGood
<1>13. e \in [AlarmKinds -> Times \cup {None}]
  BY <1>9, <1>12, DeskFields
<1>14. d \in AnyDesk
  BY <1>10, <1>12, <1>13, Zenon DEF AnyDesk, Desk!Desks
<1>15. d.alarms = x.alarms /\ d.subs = x.subs /\ d.sent = x.sent /\ d.dedup = e
  BY <1>10, <1>12 DEF AnyDesk, Desk!Desks
<1>16. \A k \in AlarmKinds : d.dedup[k] =
          IF x.dedup[k] # None /\ x.dedup[k] < time - age THEN None ELSE x.dedup[k]
  BY <1>9, <1>15
<1>17. DeskGood(d)
  BY <1>5, <1>7, <1>8, <1>14, <1>15, <1>16, GoodForgets
<1> QED  BY <1>2, <1>3, <1>8, <1>11, <1>15, <1>17, DeskChanges

\* Everything the anomaly scan looks at, one device after the other.
LEMMA Places ==
    ASSUME NEW m \in Nat, NEW n \in Nat, NEW i \in 1 .. m * n
    PROVE  ((i - 1) % n) + 1 \in 1 .. n /\ ((i - 1) \div n) + 1 \in 1 .. m
<1>1. n > 0
  BY Z3
<1>2. (i - 1) % n \in 0 .. n - 1
  BY <1>1, Z3
<1>3. (i - 1) \div n \in 0 .. m - 1
  BY <1>1, Z3
<1> QED  BY <1>1, <1>2, <1>3

LEMMA AnomalyKeeps ==
    ASSUME AlarmInv, NEW order \in SetToSeqs(AlarmDevices),
           NEW unusual \in [AlarmDevices -> SUBSET {AnomalyKinds[i] : i \in DOMAIN AnomalyKinds}],
           AnomalyScan(order, unusual)
    PROVE  AlarmInv'
<1> DEFINE n == Len(AnomalyKinds)
           m == Len(order)
           kind(i) == AnomalyKinds[((i - 1) % n) + 1]
           alarms == Unusual(order, unusual)
<1>1. UNCHANGED <<time, threshold_fired, browser, subscribed>> /\ Fired(alarms)
  BY DEF AnomalyScan, Push, Marks
<1>2. \A g \in AlarmDevices : threshold_fired'[g].fired \subseteq Thresholds
  BY <1>1 DEF AlarmInv, AlarmTypeOK
<1>3. n \in Nat /\ m \in Nat /\ DOMAIN AnomalyKinds = 1 .. n
  BY AlarmAssumption, OrderIs
<1>4. alarms = [i \in 1 .. m * n |->
         IF kind(i) \in unusual[order[((i - 1) \div n) + 1]] THEN Found(kind(i), None) ELSE None]
  BY DEF Unusual
<1>5. \A i \in 1 .. m * n : kind(i) \in AlarmKinds
  <2> TAKE i \in 1 .. m * n
  <2>1. ((i - 1) % n) + 1 \in 1 .. n
    <3> HIDE DEF n, m
    <3> QED  BY <1>3, Places
  <2> HIDE DEF n
  <2> QED  BY <1>3, <2>1, KindsAre
<1>6. m * n \in Nat
  BY <1>3
<1> HIDE DEF m, n, kind, alarms
<1>7. alarms \in Seq(Handed \cup {None})
  <2>1. \A i \in 1 .. m * n : alarms[i] \in Handed \cup {None}
    BY <1>4, <1>5, KindsAre, FoundIs
  <2> QED  BY <1>4, <1>6, <2>1
<1> QED  BY <1>1, <1>2, <1>7, WatchKeeps

LEMMA CustomKeeps ==
    ASSUME AlarmInv, NEW critical \in BOOLEAN, CustomAlarmScan(critical)
    PROVE  AlarmInv'
<1> DEFINE a == [Found("custom_rule", None) EXCEPT !.critical = critical]
           alarms == <<a>>
<1>1. UNCHANGED <<time, threshold_fired, browser, subscribed>> /\ Fired(alarms)
  BY DEF CustomAlarmScan, Push, Marks
<1>2. \A g \in AlarmDevices : threshold_fired'[g].fired \subseteq Thresholds
  BY <1>1 DEF AlarmInv, AlarmTypeOK
<1>3. a \in Handed
  BY KindsAre DEF Found, Handed
<1> HIDE DEF a
<1>4. alarms \in Seq(Handed \cup {None})
  BY <1>3
<1> HIDE DEF alarms
<1> QED  BY <1>1, <1>2, <1>4, WatchKeeps

LEMMA BoxKeeps ==
    ASSUME AlarmInv, NEW g \in AlarmDevices, BoxAlarm(g)
    PROVE  AlarmInv'
<1>1. PICK a : a = [kind |-> "box", dev |-> g, at |-> time, source |-> "agent"]
  OBVIOUS
<1>2. PICK x : x = [desk EXCEPT !.alarms = Desk!Listed(@, a)]
  OBVIOUS
<1>3. desk' = Desk!Notified(x, "security", g, time)
  BY <1>1, <1>2 DEF BoxAlarm
<1>4. UNCHANGED <<time, threshold_fired, browser, subscribed>>
  BY DEF BoxAlarm, Push, Marks
<1>5. \A h \in AlarmDevices : threshold_fired'[h].fired \subseteq Thresholds
  BY <1>4 DEF AlarmInv, AlarmTypeOK
<1>6. DeskGood(desk) /\ time \in Times /\ desk \in AnyDesk
  BY AlarmFacts
<1>7. a \in Desk!AlarmsOf(Times) /\ a.at = time /\ a.source = "agent"
  BY <1>1, <1>6, KindsAre DEF Desk!AlarmsOf
<1>8. PICK e : e = desk.dedup
  OBVIOUS
<1>9. e \in [AlarmKinds -> Times \cup {None}]
  BY <1>6, <1>8, DeskFields
<1>10. x = [desk EXCEPT !.alarms = Desk!Listed(@, a), !.dedup = e]
  BY <1>2, <1>6, <1>8 DEF AnyDesk, Desk!Desks
<1>11. x \in AnyDesk
  BY <1>6, <1>7, <1>9, <1>10, WithAlarm
<1>12. /\ x.alarms = Desk!Listed(desk.alarms, a) /\ x.dedup = desk.dedup /\ x.subs = desk.subs
       /\ x.sent = desk.sent
  BY <1>2, <1>6 DEF AnyDesk, Desk!Desks
<1>13. DeskGood(x)
  BY <1>6, <1>7, <1>11, <1>12, GoodListed DEF Added
<1>14. PICK d : d = Desk!Notified(x, "security", g, time)
  OBVIOUS
<1>15. /\ d \in AnyDesk /\ d.alarms = x.alarms /\ d.dedup = x.dedup /\ d.subs = x.subs
       /\ d.sent \subseteq SentFrom(x)
  BY <1>11, <1>14, NotifiedIs DEF SentFrom
<1>16. DeskGood(d) /\ d.subs = desk.subs /\ d.sent \subseteq SentFrom(desk)
  BY <1>12, <1>13, <1>15, GoodSame DEF SentFrom
<1> QED  BY <1>3, <1>4, <1>5, <1>14, <1>16, DeskChanges

\* The customer's own settings leave the alarms as they are.
LEMMA SettingKeeps ==
    ASSUME AlarmInv, UNCHANGED <<time, Marks, Push>>, NEW d \in AnyDesk, desk' = d,
           d.alarms = desk.alarms, d.dedup = desk.dedup, d.subs = desk.subs, d.sent = desk.sent
    PROVE  AlarmInv'
<1>1. UNCHANGED <<time, threshold_fired, browser, subscribed>>
  BY DEF Push, Marks
<1>2. \A h \in AlarmDevices : threshold_fired'[h].fired \subseteq Thresholds
  BY <1>1 DEF AlarmInv, AlarmTypeOK
<1>3. DeskGood(d) /\ d.sent \subseteq SentFrom(desk)
  BY AlarmFacts, GoodSame DEF SentFrom
<1> QED  BY <1>1, <1>2, <1>3, DeskChanges

LEMMA MuteKeeps ==
    ASSUME AlarmInv, NEW d, NEW m \in [AlarmKinds -> Times \cup {None}],
           UNCHANGED <<time, Marks, Push>>, desk' = d, d = [desk EXCEPT !.mutes = m]
    PROVE  AlarmInv'
<1>1. desk \in AnyDesk
  BY AlarmFacts
<1>2. d \in AnyDesk
  BY <1>1, Zenon DEF AnyDesk, Desk!Desks
<1>3. /\ d.alarms = desk.alarms /\ d.dedup = desk.dedup /\ d.subs = desk.subs
      /\ d.sent = desk.sent
  BY <1>1 DEF AnyDesk, Desk!Desks
<1> QED  BY <1>2, <1>3, SettingKeeps

LEMMA MuteSetKeeps ==
    ASSUME AlarmInv, NEW k, NEW hours \in 1 .. 2, MuteSet(k, hours)
    PROVE  AlarmInv'
<1>1. PICK m : m = [desk.mutes EXCEPT ![k] = time + hours]
  OBVIOUS
<1>2. desk \in AnyDesk /\ time \in Nat /\ MaxTime \in Nat
  BY AlarmFacts
<1>3. desk.mutes \in [AlarmKinds -> Times \cup {None}]
  BY <1>2, DeskFields
<1>4. time + hours \in Times
  BY <1>2 DEF MuteSet, Times
<1>5. m \in [AlarmKinds -> Times \cup {None}]
  BY <1>1, <1>3, <1>4
<1>6. PICK d : d = [desk EXCEPT !.mutes = m]
  OBVIOUS
<1>7. desk' = d /\ UNCHANGED <<time, Marks, Push>>
  BY <1>1, <1>6 DEF MuteSet
<1> QED  BY <1>5, <1>6, <1>7, MuteKeeps

LEMMA MuteClearKeeps ==
    ASSUME AlarmInv, NEW ks, MuteClear(ks)
    PROVE  AlarmInv'
<1>1. PICK m : m = [k \in AlarmKinds |-> IF k \in ks THEN None ELSE desk.mutes[k]]
  OBVIOUS
<1>2. desk \in AnyDesk
  BY AlarmFacts
<1>3. desk.mutes \in [AlarmKinds -> Times \cup {None}]
  BY <1>2, DeskFields
<1>4. m \in [AlarmKinds -> Times \cup {None}]
  BY <1>1, <1>3
<1>5. PICK d : d = [desk EXCEPT !.mutes = m]
  OBVIOUS
<1>6. desk' = d /\ UNCHANGED <<time, Marks, Push>>
  BY <1>1, <1>5 DEF MuteClear
<1> QED  BY <1>4, <1>5, <1>6, MuteKeeps

LEMMA PrefsKeep ==
    ASSUME AlarmInv, NEW off \in SUBSET {"family", "system"}, NEW quiet \in BOOLEAN,
           NEW push \in BOOLEAN, NotifPrefs(off, quiet, push)
    PROVE  AlarmInv'
<1>1. PICK d : d = [desk EXCEPT !.off = off, !.quiet = quiet, !.push = push]
  OBVIOUS
<1>2. desk \in AnyDesk
  BY AlarmFacts
<1>3. off \in SUBSET Desk!Categories
  BY DEF Desk!Categories
<1>4. d \in AnyDesk
  BY <1>1, <1>2, <1>3, Zenon DEF AnyDesk, Desk!Desks
<1>5. /\ d.alarms = desk.alarms /\ d.dedup = desk.dedup /\ d.subs = desk.subs
      /\ d.sent = desk.sent
  BY <1>1, <1>2 DEF AnyDesk, Desk!Desks
<1>6. desk' = d /\ UNCHANGED <<time, Marks, Push>>
  BY <1>1 DEF NotifPrefs
<1> QED  BY <1>4, <1>5, <1>6, SettingKeeps

\* The subscriptions change, and the pushes under way.
LEMMA PushKeeps ==
    ASSUME AlarmInv, UNCHANGED <<time, Marks>>, NEW s, NEW t, NEW d,
           d = [desk EXCEPT !.subs = s, !.sent = t], desk' = d,
           subscribed' \in 0 .. MaxSubs, browser' \in {None} \cup 1 .. subscribed',
           \A x \in s : x \in [id : 1 .. subscribed', endpoint : {"browser"}],
           \A p \in t : /\ p \in [sub : 1 .. subscribed', gone : BOOLEAN]
                        /\ p.gone => p.sub # browser',
           browser' # None => \E x \in s : x.id = browser'
    PROVE  AlarmInv'
<1>1. desk \in AnyDesk /\ DeskGood(desk) /\ MaxSubs \in Nat /\ time \in Times
  BY AlarmFacts
<1>2. 1 .. subscribed' \subseteq SubIds
  BY <1>1 DEF SubIds
<1>3. s \in SUBSET [id : SubIds, endpoint : {"browser"}] /\ t \in SUBSET [sub : SubIds, gone : BOOLEAN]
  BY <1>2
<1>4. d \in AnyDesk
  BY <1>1, <1>3, Zenon DEF AnyDesk, Desk!Desks
<1>5. d.alarms = desk.alarms /\ d.dedup = desk.dedup /\ d.subs = s /\ d.sent = t
  BY <1>1 DEF AnyDesk, Desk!Desks
<1>6. DeskGood(d)
  BY <1>1, <1>4, <1>5, GoodSame
<1>7. /\ Len(d.alarms) <= KeptAlarms /\ Desk!DeskSound(d, time) /\ Desk!DeskKept(d, time)
  BY <1>6 DEF DeskGood
<1>8. UNCHANGED <<time, threshold_fired>>
  BY DEF Marks
<1>9. AlarmTypeOK'
  BY <1>1, <1>4, <1>5, <1>7, <1>8
  DEF AlarmInv, AlarmTypeOK, Desk!DeskOK, AnyDesk, Times, SubIds
<1>10. AlarmsSound' /\ Desk!DeskKept(desk', time')
  BY <1>7, <1>8 DEF AlarmsSound
<1>11. RenewalKept'
  BY <1>5 DEF RenewalKept
<1> QED  BY <1>5, <1>9, <1>10, <1>11 DEF AlarmInv

LEMMA PushingKeeps ==
    ASSUME AlarmInv, Pushing
    PROVE  AlarmInv'
<1>1. /\ subscribed \in 0 .. MaxSubs /\ desk \in AnyDesk /\ MaxSubs \in Nat
      /\ \A s \in desk.subs : s.id \in 1 .. subscribed /\ s.endpoint = "browser"
      /\ browser \in {None} \cup 1 .. subscribed
      /\ \A p \in desk.sent : p.sub \in 1 .. subscribed /\ (p.gone => p.sub # browser)
      /\ \A p \in desk.sent : p \in [sub : SubIds, gone : BOOLEAN]
  BY AlarmFacts
<1>2. \A s \in desk.subs : s \in [id : 1 .. subscribed, endpoint : {"browser"}]
  <2>1. \A s \in desk.subs : s \in [id : SubIds, endpoint : {"browser"}]
    BY <1>1, DeskFields
  <2> QED  BY <1>1, <2>1
<1>3. \A p \in desk.sent : p \in [sub : 1 .. subscribed, gone : BOOLEAN]
  BY <1>1
<1>4. browser # None => \E s \in desk.subs : s.id = browser
  BY DEF AlarmInv, RenewalKept
<1>5. None \notin Nat
  BY AlarmAssumption
<1>6. desk = [desk EXCEPT !.subs = desk.subs, !.sent = desk.sent]
  BY <1>1 DEF AnyDesk, Desk!Desks
<1>7. CASE Subscribe
  <2>1. /\ subscribed' = subscribed + 1 /\ browser' = subscribed' /\ UNCHANGED <<time, Marks>>
        /\ subscribed < MaxSubs
        /\ desk' = [desk EXCEPT !.subs = {[id |-> subscribed', endpoint |-> "browser"]}]
    BY <1>7 DEF Subscribe
  <2>2. PICK s : s = {[id |-> subscribed', endpoint |-> "browser"]}
    OBVIOUS
  <2>3. PICK d : d = [desk EXCEPT !.subs = s, !.sent = desk.sent]
    OBVIOUS
  <2>4. desk' = d
    BY <1>1, <2>1, <2>2, <2>3 DEF AnyDesk, Desk!Desks
  <2>5. subscribed' \in 0 .. MaxSubs /\ browser' \in {None} \cup 1 .. subscribed'
    BY <1>1, <2>1
  <2>6. \A x \in s : x \in [id : 1 .. subscribed', endpoint : {"browser"}]
    BY <1>1, <2>1, <2>2
  <2>7. \A p \in desk.sent : /\ p \in [sub : 1 .. subscribed', gone : BOOLEAN]
                             /\ p.gone => p.sub # browser'
    BY <1>1, <1>3, <2>1
  <2>8. \E x \in s : x.id = browser'
    BY <2>1, <2>2
  <2> QED  BY <2>1, <2>3, <2>4, <2>5, <2>6, <2>7, <2>8, PushKeeps
<1>8. CASE Unsubscribe
  <2>1. /\ browser' = None /\ UNCHANGED <<time, Marks, subscribed>>
        /\ desk' = [desk EXCEPT !.subs = {s \in @ : s.endpoint # "browser"}]
    BY <1>8 DEF Unsubscribe
  <2>2. PICK s : s = {x \in desk.subs : x.endpoint # "browser"}
    OBVIOUS
  <2>3. PICK d : d = [desk EXCEPT !.subs = s, !.sent = desk.sent]
    OBVIOUS
  <2>4. desk' = d
    BY <1>1, <2>1, <2>2, <2>3 DEF AnyDesk, Desk!Desks
  <2>5. subscribed' \in 0 .. MaxSubs /\ browser' \in {None} \cup 1 .. subscribed'
    BY <1>1, <2>1
  <2>6. \A x \in s : x \in [id : 1 .. subscribed', endpoint : {"browser"}]
    BY <1>2, <2>1, <2>2
  <2>7. \A p \in desk.sent : /\ p \in [sub : 1 .. subscribed', gone : BOOLEAN]
                             /\ p.gone => p.sub # browser'
    BY <1>1, <1>3, <1>5, <2>1
  <2> QED  BY <2>1, <2>3, <2>4, <2>5, <2>6, <2>7, PushKeeps
<1>9. CASE Lapse
  <2>1. browser' = None /\ UNCHANGED <<time, Marks, subscribed, desk>>
    BY <1>9 DEF Lapse
  <2>2. subscribed' \in 0 .. MaxSubs /\ browser' \in {None} \cup 1 .. subscribed'
    BY <1>1, <2>1
  <2>3. \A x \in desk.subs : x \in [id : 1 .. subscribed', endpoint : {"browser"}]
    BY <1>2, <2>1
  <2>4. \A p \in desk.sent : /\ p \in [sub : 1 .. subscribed', gone : BOOLEAN]
                             /\ p.gone => p.sub # browser'
    BY <1>1, <1>3, <1>5, <2>1
  <2>5. PICK s, t, d : s = desk.subs /\ t = desk.sent /\ d = desk
    OBVIOUS
  <2> QED  BY <1>6, <2>1, <2>2, <2>3, <2>4, <2>5, PushKeeps
<1>10. ASSUME NEW p \in desk.sent, PushAnswered(p) PROVE AlarmInv'
  <2>1. /\ UNCHANGED <<time, Marks, subscribed, browser>>
        /\ desk' = [desk EXCEPT !.sent = (@ \ {p}) \cup
                  (IF browser = None THEN {[p EXCEPT !.gone = TRUE]} ELSE {})]
    BY <1>10 DEF PushAnswered, Push
  <2>2. PICK t : t = (desk.sent \ {p}) \cup
                       (IF browser = None THEN {[p EXCEPT !.gone = TRUE]} ELSE {})
    OBVIOUS
  <2>3. PICK d, s : s = desk.subs /\ d = [desk EXCEPT !.subs = s, !.sent = t]
    OBVIOUS
  <2>4. desk' = d
    BY <1>1, <2>1, <2>2, <2>3 DEF AnyDesk, Desk!Desks
  <2>5. subscribed' \in 0 .. MaxSubs /\ browser' \in {None} \cup 1 .. subscribed'
    BY <1>1, <2>1
  <2>6. \A x \in s : x \in [id : 1 .. subscribed', endpoint : {"browser"}]
    BY <1>2, <2>1, <2>3
  <2>7. \A q \in t : /\ q \in [sub : 1 .. subscribed', gone : BOOLEAN]
                     /\ q.gone => q.sub # browser'
    <3> TAKE q \in t
    <3>1. CASE q \in desk.sent
      BY <1>1, <1>3, <2>1, <3>1
    <3>2. CASE q \notin desk.sent
      <4>1. browser = None /\ q = [p EXCEPT !.gone = TRUE]
        BY <2>2, <3>2
      <4>2. p \in [sub : 1 .. subscribed, gone : BOOLEAN]
        BY <1>3
      <4>3. q \in [sub : 1 .. subscribed, gone : BOOLEAN]
        BY <4>1, <4>2
      <4>4. q.sub # None
        BY <1>5, <4>3
      <4> QED  BY <2>1, <4>1, <4>3, <4>4
    <3> QED  BY <3>1, <3>2
  <2>8. browser' # None => \E x \in s : x.id = browser'
    BY <1>4, <2>1, <2>3
  <2> QED  BY <2>1, <2>3, <2>4, <2>5, <2>6, <2>7, <2>8, PushKeeps
<1>11. ASSUME NEW p \in desk.sent, PushGone(p) PROVE AlarmInv'
  <2>1. /\ UNCHANGED <<time, Marks, subscribed, browser>> /\ p.gone
        /\ desk' = [desk EXCEPT !.sent = @ \ {p}, !.subs = @ \ SentTo(p)]
    BY <1>11 DEF PushGone, Push
  <2>2. PICK s, t : s = desk.subs \ SentTo(p) /\ t = desk.sent \ {p}
    OBVIOUS
  <2>3. PICK d : d = [desk EXCEPT !.subs = s, !.sent = t]
    OBVIOUS
  <2>4. desk' = d
    BY <1>1, <2>1, <2>2, <2>3 DEF AnyDesk, Desk!Desks
  <2>5. subscribed' \in 0 .. MaxSubs /\ browser' \in {None} \cup 1 .. subscribed'
    BY <1>1, <2>1
  <2>6. \A x \in s : x \in [id : 1 .. subscribed', endpoint : {"browser"}]
    BY <1>2, <2>1, <2>2
  <2>7. \A q \in t : /\ q \in [sub : 1 .. subscribed', gone : BOOLEAN]
                     /\ q.gone => q.sub # browser'
    BY <1>1, <1>3, <2>1, <2>2
  <2>8. browser' # None => \E x \in s : x.id = browser'
    <3>1. p.sub # browser
      BY <1>1, <2>1
    <3> QED  BY <1>4, <2>1, <2>2, <3>1 DEF SentTo
  <2> QED  BY <2>1, <2>3, <2>4, <2>5, <2>6, <2>7, <2>8, PushKeeps
<1> QED  BY <1>7, <1>8, <1>9, <1>10, <1>11 DEF Pushing

LEMMA TimeKeeps == ASSUME AlarmInv, TimePasses PROVE AlarmInv'
<1>1. /\ time \in Nat /\ time \in Times /\ MaxTime \in Nat /\ desk \in AnyDesk
  BY AlarmFacts
<1>2. time' = time + 1 /\ time' \in Times /\ UNCHANGED <<desk, threshold_fired, browser, subscribed>>
  BY <1>1 DEF TimePasses, Times, Marks, Push
<1>3. Gap \in Nat
  BY AlarmAssumption DEF Desk!DeskAssumption
<1>4. \A i \in DOMAIN desk.alarms : desk.alarms[i].at \in Nat
  BY <1>1, AlarmFields DEF Times
<1>5. \A k \in AlarmKinds : desk.dedup[k] = None \/ desk.dedup[k] \in Nat
  BY <1>1, DeskFields DEF Times
<1>6. Desk!DeskSound(desk, time) /\ Desk!DeskKept(desk, time)
  BY DEF AlarmInv, AlarmsSound
<1>7. \A k \in AlarmKinds : Desk!FiredRecently(desk, k, time + 1) => Desk!FiredRecently(desk, k, time)
  BY <1>1, <1>3, <1>5 DEF Desk!FiredRecently
<1>8. Desk!DeskSound(desk, time + 1)
  BY <1>6, <1>7 DEF Desk!DeskSound
<1>9. Desk!DeskKept(desk, time + 1)
  <2>1. ASSUME NEW i \in DOMAIN desk.alarms
        PROVE  /\ desk.alarms[i].at <= time + 1
               /\ desk.alarms[i].source = "cloud" =>
                     /\ desk.alarms[i].kind \in AlarmKinds
                     /\ LET last == desk.dedup[desk.alarms[i].kind] IN
                        (last # None /\ desk.alarms[i].at <= last) \/ desk.alarms[i].at + Gap <= time + 1
    BY <1>1, <1>3, <1>4, <1>6 DEF Desk!DeskKept
  <2>2. \A k \in AlarmKinds : desk.dedup[k] # None => desk.dedup[k] <= time + 1
    BY <1>1, <1>5, <1>6 DEF Desk!DeskKept
  <2> QED  BY <2>1, <2>2 DEF Desk!DeskKept
<1>10. AlarmTypeOK'
  BY <1>2 DEF AlarmInv, AlarmTypeOK, Times
<1>11. AlarmsSound' /\ Desk!DeskKept(desk', time')
  BY <1>2, <1>8, <1>9 DEF AlarmsSound
<1>12. RenewalKept' /\ subscribed' \in 0 .. MaxSubs
       /\ \A p \in desk'.sent : p.sub \in 1 .. subscribed' /\ (p.gone => p.sub # browser')
  BY <1>2 DEF AlarmInv, RenewalKept
<1> QED  BY <1>10, <1>11, <1>12 DEF AlarmInv

LEMMA AlarmFrame == ASSUME AlarmInv, UNCHANGED alarmVars PROVE AlarmInv'
<1>1. UNCHANGED <<time, desk, threshold_fired, browser, subscribed>>
  BY DEF alarmVars
<1>2. AlarmTypeOK'
  BY <1>1 DEF AlarmInv, AlarmTypeOK
<1>3. AlarmsSound' /\ RenewalKept' /\ Desk!DeskKept(desk', time')
  BY <1>1 DEF AlarmInv, AlarmsSound, RenewalKept
<1> QED  BY <1>1, <1>2, <1>3 DEF AlarmInv

-----------------------------------------------------------------------------
(* No mark without an alarm.                                               *)

\* The marks that are written over in part.
Moments == Times \cup {None}
MarksTyped ==
    /\ activity \in [AlarmDevices -> [bytes : Nat, first_seen : Moments, last_alarm : Moments]]
    /\ uploads \in [AlarmDevices -> Moments]

LEMMA TallyIs ==
    ASSUME MarksTyped, time \in Times, NEW g \in AlarmDevices
    PROVE  /\ Tally(g) \in [bytes : Nat, first_seen : Moments, last_alarm : Moments]
           /\ Tally(g).last_alarm = activity[g].last_alarm
<1> DEFINE R == [bytes : Nat, first_seen : Moments, last_alarm : Moments]
           e == activity[g]
           open == IF LongAgo(e.first_seen) THEN [e EXCEPT !.bytes = 0, !.first_seen = time] ELSE e
<1>1. e \in R /\ time \in Moments
  BY DEF MarksTyped, Moments
<1>2. open \in R /\ open.last_alarm = e.last_alarm
  <2> HIDE DEF e
  <2> QED  BY <1>1
<1>3. Tally(g) = [open EXCEPT !.bytes = IF @ < ActivityLimit THEN @ + 1 ELSE @]
  BY DEF Tally
<1> HIDE DEF open
<1>4. PICK n \in Nat : n = IF open.bytes < ActivityLimit THEN open.bytes + 1 ELSE open.bytes
  BY <1>2
<1>5. Tally(g) = [open EXCEPT !.bytes = n]
  BY <1>3, <1>4
<1>6. Tally(g) \in R /\ Tally(g).last_alarm = open.last_alarm
  BY <1>2, <1>5
<1> QED  BY <1>2, <1>6

LEMMA FlowTold ==
    ASSUME AlarmInv, MarksTyped, NEW g \in AlarmDevices, NEW watched \in BOOLEAN,
           NEW large \in BOOLEAN, Flow(g, watched, large)
    PROVE  MarksTyped' /\ \A h \in AlarmDevices : MarkTold(h)
<1> DEFINE fires == watched /\ Crosses(Tally(g))
           uploading == large /\ LongAgo(uploads[g])
           a == IF fires THEN Found("activity", g) ELSE None
           b == IF uploading THEN Found("large_upload", g) ELSE None
           v == IF fires THEN [Tally(g) EXCEPT !.last_alarm = time]
                ELSE IF watched THEN Tally(g) ELSE activity[g]
           alarms == <<a, b>>
<1>1. /\ UNCHANGED <<time, threshold_fired, traffic_seen>>
      /\ activity' = [activity EXCEPT ![g] = v]
      /\ uploads' = [uploads EXCEPT ![g] = IF uploading THEN time ELSE uploads[g]]
  BY DEF Flow
<1>2. PICK swept : desk' = FireAll(alarms, swept)
  BY DEF Flow, Fired
<1>3. /\ DeskGood(desk) /\ time \in Times /\ time \in Moments
      /\ Tally(g) \in [bytes : Nat, first_seen : Moments, last_alarm : Moments]
      /\ Tally(g).last_alarm = activity[g].last_alarm
  BY AlarmFacts, TallyIs DEF Moments
<1>4. v \in [bytes : Nat, first_seen : Moments, last_alarm : Moments]
      /\ (~fires => v.last_alarm = activity[g].last_alarm)
  <2> HIDE DEF fires
  <2> QED  BY <1>3 DEF MarksTyped
<1>5. MarksTyped'
  <2> HIDE DEF v, uploading
  <2> QED  BY <1>1, <1>3, <1>4 DEF MarksTyped, Moments, Times
<1>6. a \in Handed \cup {None} /\ b \in Handed \cup {None}
  BY KindsAre, FoundIs
<1>7. (fires => a # None /\ a.kind = "activity") /\ (uploading => b # None /\ b.kind = "large_upload")
  <2>1. None \notin Handed
    BY NoneNotHanded
  <2> HIDE DEF fires, uploading
  <2> QED  BY <2>1, KindsAre, FoundIs DEF Found
<1>8. Len(alarms) = 2 /\ alarms[1] = a /\ alarms[2] = b
  OBVIOUS
<1>9. alarms \in Seq(Handed \cup {None})
  <2> HIDE DEF a, b
  <2> QED  BY <1>6
<1> HIDE DEF alarms, a, b
<1>10. ToldOf(desk', 2, alarms)
  BY <1>2, <1>3, <1>8, <1>9, FireAllGood
<1>11. (fires => Told("activity")) /\ (uploading => Told("large_upload"))
  BY <1>7, <1>8, <1>10 DEF ToldOf, OnList, Told
<1>12. ASSUME NEW h \in AlarmDevices PROVE MarkTold(h)
  <2>1. NewlyFired(h) = {} /\ traffic_seen'[h] = traffic_seen[h]
    BY <1>1 DEF NewlyFired
  <2>2. activity'[h] = (IF h = g THEN v ELSE activity[h])
        /\ uploads'[h] = (IF h = g /\ uploading THEN time ELSE uploads[h])
    <3> HIDE DEF v, uploading
    <3> QED  BY <1>1 DEF MarksTyped
  <2> HIDE DEF v, fires, uploading
  <2> QED  BY <1>4, <1>11, <2>1, <2>2 DEF MarkTold
<1> QED  BY <1>5, <1>12

LEMMA QuotaTold ==
    ASSUME AlarmInv, MarksTyped, NEW order \in SetToSeqs(AlarmDevices),
           NEW reached \in [AlarmDevices -> Thresholds \cup {None}], QuotaScan(order, reached)
    PROVE  MarksTyped' /\ \A g \in AlarmDevices : MarkTold(g)
<1> DEFINE told(g) == IF threshold_fired[g].period = AlarmMonth THEN threshold_fired[g].fired ELSE {}
           crossed(g) == reached[g] # None /\ reached[g] \notin told(g)
           alarms == [i \in DOMAIN order |->
                        IF crossed(order[i]) THEN Found(reached[order[i]], None) ELSE None]
<1>1. /\ UNCHANGED <<time, activity, uploads, traffic_seen>> /\ Fired(alarms)
      /\ threshold_fired' = [g \in AlarmDevices |->
            [period |-> AlarmMonth,
             fired |-> told(g) \cup (IF crossed(g) THEN {reached[g]} ELSE {})]]
  BY DEF QuotaScan
<1>2. PICK swept : desk' = FireAll(alarms, swept)
  BY <1>1 DEF Fired
<1>3. alarms \in Seq(Handed \cup {None})
  BY QuotaHanded
<1>4. DeskGood(desk) /\ time \in Times
  BY AlarmFacts
<1>5. Len(alarms) = Len(order) /\ DOMAIN order = 1 .. Len(order)
  BY OrderIs
<1> HIDE DEF alarms
<1>6. ToldOf(desk', Len(order), alarms)
  BY <1>2, <1>3, <1>4, <1>5, FireAllGood
<1>7. ASSUME NEW g \in AlarmDevices, NEW k \in NewlyFired(g) PROVE Told(k)
  <2>1. threshold_fired'[g].period = AlarmMonth
        /\ threshold_fired'[g].fired = told(g) \cup (IF crossed(g) THEN {reached[g]} ELSE {})
    <3> HIDE DEF told, crossed
    <3> QED  BY <1>1
  <2>2. NewlyFired(g) = threshold_fired'[g].fired \ told(g)
    BY <2>1 DEF NewlyFired
  <2>3. crossed(g) /\ k = reached[g] /\ k \in Thresholds
    <3> HIDE DEF told
    <3> QED  BY <2>1, <2>2
  <2>4. PICK i \in DOMAIN order : order[i] = g
    BY OrderHasAll
  <2>5. alarms[i] = Found(k, None)
    <3> HIDE DEF crossed
    <3> QED  BY <2>3, <2>4 DEF alarms
  <2>6. alarms[i] # None /\ alarms[i].kind = k
    BY <2>3, <2>5, KindsAre, FoundIs, NoneNotHanded DEF Found
  <2> QED  BY <1>5, <1>6, <2>6 DEF ToldOf, OnList, Told
<1>8. MarksTyped'
  BY <1>1 DEF MarksTyped, Moments, Times
<1> QED  BY <1>1, <1>7, <1>8 DEF MarkTold

LEMMA TrafficTold ==
    ASSUME AlarmInv, MarksTyped, NEW order \in SetToSeqs(AlarmDevices), NEW heavy \in SUBSET AlarmDevices,
           TrafficAnomalies(order, heavy)
    PROVE  MarksTyped' /\ \A g \in AlarmDevices : MarkTold(g)
<1> DEFINE fresh(g) == g \in heavy /\ traffic_seen[g] # AlarmDay
           list == [i \in DOMAIN order |->
                      IF fresh(order[i]) THEN Found("traffic_anomaly", None) ELSE None]
<1>1. PICK swept, x : x = FireAll(list, swept) /\ desk' = Desk!Forgets(x, 2 * AlarmDayLength, time)
  BY DEF TrafficAnomalies
<1>2. /\ UNCHANGED <<time, activity, uploads, threshold_fired>>
      /\ traffic_seen' = [g \in AlarmDevices |-> IF fresh(g) THEN AlarmDay ELSE traffic_seen[g]]
  BY DEF TrafficAnomalies
<1>3. list \in Seq(Handed \cup {None})
  <2>1. \A i \in DOMAIN order : list[i] \in Handed \cup {None}
    <3> HIDE DEF fresh
    <3> QED  BY KindsAre, FoundIs
  <2>2. DOMAIN order = 1 .. Len(order) /\ Len(order) \in Nat
    BY OrderIs
  <2> HIDE DEF fresh
  <2> QED  BY <2>1, <2>2
<1>4. DeskGood(desk) /\ time \in Times
  BY AlarmFacts
<1>5. Len(list) = Len(order) /\ DOMAIN order = 1 .. Len(order)
  BY OrderIs
<1> HIDE DEF list
<1>6. ToldOf(x, Len(order), list) /\ DeskGood(x)
  BY <1>1, <1>3, <1>4, <1>5, FireAllGood
<1>7. desk'.alarms = x.alarms
  BY <1>1, <1>6 DEF Desk!Forgets, DeskGood, AnyDesk, Desk!Desks
<1>8. ASSUME NEW g \in AlarmDevices, traffic_seen'[g] # traffic_seen[g] PROVE Told("traffic_anomaly")
  <2>1. fresh(g)
    BY <1>2, <1>8
  <2>2. PICK i \in DOMAIN order : order[i] = g
    BY OrderHasAll
  <2>3. list[i] = Found("traffic_anomaly", None)
    <3> HIDE DEF fresh
    <3> QED  BY <2>1, <2>2 DEF list
  <2>4. list[i] # None /\ list[i].kind = "traffic_anomaly"
    BY <2>3, KindsAre, FoundIs, NoneNotHanded DEF Found
  <2> QED  BY <1>5, <1>6, <1>7, <2>4 DEF ToldOf, OnList, Told
<1>9. MarksTyped'
  BY <1>2 DEF MarksTyped, Moments, Times
<1>10. \A g \in AlarmDevices : NewlyFired(g) = {}
  BY <1>2 DEF NewlyFired
<1> QED  BY <1>2, <1>8, <1>9, <1>10 DEF MarkTold

LEMMA AlarmsTold ==
    ASSUME AlarmInv, MarksTyped,
           \/ Watching \/ Muting \/ Reporting \/ Preferring \/ Pushing \/ TimePasses
           \/ UNCHANGED alarmVars
    PROVE  MarksTyped' /\ [\A g \in AlarmDevices : MarkTold(g)]_alarmVars
<1>1. CASE UNCHANGED Marks
  <2>1. \A g \in AlarmDevices : MarkTold(g)
    BY <1>1 DEF Marks, MarkTold, NewlyFired
  <2>2. MarksTyped'
    BY <1>1 DEF Marks, MarksTyped, Moments, Times
  <2> QED  BY <2>1, <2>2
<1>2. CASE Watching
  <2>1. ASSUME NEW g \in AlarmDevices, NEW watched \in BOOLEAN, NEW large \in BOOLEAN,
               Flow(g, watched, large)
        PROVE  MarksTyped' /\ \A h \in AlarmDevices : MarkTold(h)
    BY <2>1, FlowTold
  <2>2. ASSUME NEW order \in SetToSeqs(AlarmDevices),
               NEW reached \in [AlarmDevices -> Thresholds \cup {None}], QuotaScan(order, reached)
        PROVE  MarksTyped' /\ \A h \in AlarmDevices : MarkTold(h)
    BY <2>2, QuotaTold
  <2>3. ASSUME NEW order \in SetToSeqs(AlarmDevices), NEW heavy \in SUBSET AlarmDevices,
               TrafficAnomalies(order, heavy)
        PROVE  MarksTyped' /\ \A h \in AlarmDevices : MarkTold(h)
    BY <2>3, TrafficTold
  <2>4. CASE UNCHANGED Marks
    BY <1>1, <2>4
  <2> QED  BY <1>2, <2>1, <2>2, <2>3, <2>4 DEF Watching, AnomalyScan, CustomAlarmScan
<1>3. CASE Muting \/ Reporting \/ Preferring \/ TimePasses \/ UNCHANGED alarmVars
  <2>1. UNCHANGED Marks
    BY <1>3 DEF Muting, MuteSet, MuteClear, Reporting, BoxAlarm, Preferring, NotifPrefs,
                TimePasses, alarmVars, Marks
  <2> QED  BY <1>1, <2>1
<1>4. CASE Pushing
  <2>1. UNCHANGED Marks
    BY <1>4 DEF Pushing, Subscribe, Unsubscribe, Lapse, PushAnswered, PushGone, Marks
  <2> QED  BY <1>1, <2>1
<1> QED  BY <1>2, <1>3, <1>4

LEMMA AlarmStepKeeps ==
    AlarmInv /\ (Watching \/ Muting \/ Reporting \/ Preferring \/ Pushing \/ TimePasses) => AlarmInv'
<1> SUFFICES ASSUME AlarmInv,
                    Watching \/ Muting \/ Reporting \/ Preferring \/ Pushing \/ TimePasses
             PROVE  AlarmInv'
  OBVIOUS
<1>1. CASE Watching
  BY <1>1, FlowKeeps, QuotaKeeps, TrafficKeeps, AnomalyKeeps, CustomKeeps DEF Watching
<1>2. CASE Muting
  BY <1>2, MuteSetKeeps, MuteClearKeeps DEF Muting
<1>3. CASE Reporting
  BY <1>3, BoxKeeps DEF Reporting
<1>4. CASE Preferring
  BY <1>4, PrefsKeep DEF Preferring
<1>5. CASE Pushing
  BY <1>5, PushingKeeps
<1>6. CASE TimePasses
  BY <1>6, TimeKeeps
<1> QED  BY <1>1, <1>2, <1>3, <1>4, <1>5, <1>6

LEMMA AlarmInitial == AlarmInit => AlarmInv
<1> SUFFICES ASSUME AlarmInit PROVE AlarmInv
  OBVIOUS
<1>1. /\ MaxTime \in Nat /\ MaxSubs \in Nat /\ KeptAlarms \in Nat /\ None \notin Nat
  BY AlarmAssumption DEF Desk!DeskAssumption
<1>2. PICK m : m = [k \in AlarmKinds |-> None]
  OBVIOUS
<1>3. desk = [alarms |-> <<>>, dedup |-> m, mutes |-> m, off |-> {}, quiet |-> FALSE,
              push |-> TRUE, notes |-> 0, subs |-> {}, sent |-> {}]
  BY <1>2 DEF AlarmInit, Desk!NewDesk
<1>4. m \in [AlarmKinds -> (0 .. MaxTime) \cup {None}] /\ <<>> \in Seq(Desk!AlarmsOf(0 .. MaxTime))
  BY <1>2
<1>5. desk \in Desk!Desks(0 .. MaxTime, 1 .. MaxSubs)
  BY <1>3, <1>4 DEF Desk!Desks
<1>6. /\ desk.alarms = <<>> /\ desk.dedup = m /\ desk.subs = {} /\ desk.sent = {}
      /\ Len(desk.alarms) = 0
  BY <1>3
<1>7. /\ time = 0 /\ browser = None /\ subscribed = 0
      /\ \A g \in AlarmDevices : threshold_fired[g].fired = {}
  BY DEF AlarmInit, NoneFired
<1>8. AlarmTypeOK
  BY <1>1, <1>5, <1>6, <1>7 DEF AlarmTypeOK, Desk!DeskOK
<1>9. AlarmsSound /\ Desk!DeskKept(desk, time)
  BY <1>2, <1>6 DEF AlarmsSound, Desk!DeskSound, Desk!DeskKept, Desk!FiredRecently
<1>10. RenewalKept
  BY <1>7 DEF RenewalKept
<1> QED  BY <1>1, <1>6, <1>7, <1>8, <1>9, <1>10 DEF AlarmInv

-----------------------------------------------------------------------------
(* TrafficBaseline                                                         *)

LEMMA NewestIs ==
    ASSUME NEW S, NEW s \in Seq(S), NEW k \in Nat
    PROVE  /\ Newest(s, k) \in Seq(S) /\ Len(Newest(s, k)) <= k
           /\ \A i \in DOMAIN Newest(s, k) : \E j \in DOMAIN s : Newest(s, k)[i] = s[j]
<1>1. Len(s) \in Nat /\ DOMAIN s = 1 .. Len(s)
  OBVIOUS
<1> DEFINE a == IF Len(s) > k THEN Len(s) - k + 1 ELSE 1
           r == SubSeq(s, a, Len(s))
<1>2. a \in 1 .. Len(s) + 1 /\ Len(s) - a + 1 <= k
  BY <1>1
<1>3. Newest(s, k) = r
  BY DEF Newest
<1> HIDE DEF a
<1>4. r \in Seq(S)
  BY <1>1, <1>2
<1>5. Len(r) = (IF a <= Len(s) THEN Len(s) - a + 1 ELSE 0)
  BY <1>1, <1>2
<1>6. \A i \in 1 .. Len(r) : r[i] = s[a + i - 1] /\ a + i - 1 \in 1 .. Len(s)
  BY <1>1, <1>2, <1>5
<1> HIDE DEF r
<1>7. Len(r) <= k /\ DOMAIN r = 1 .. Len(r)
  BY <1>1, <1>2, <1>4, <1>5
<1> QED  BY <1>1, <1>3, <1>4, <1>6, <1>7

\* What is kept of a list is finite and as much as the cap allows.
LEMMA KeptIs ==
    ASSUME NEW f, IsFiniteSet(DOMAIN f), NEW k \in Nat, NEW K, IsNewest(K, f, Young(f), k),
           NEW g, g = Only(f, K)
    PROVE  /\ DOMAIN g = K /\ IsFiniteSet(K) /\ Cardinality(K) <= k
<1>1. Young(f) \subseteq DOMAIN f
  BY DEF Young
<1>2. IsFiniteSet(Young(f)) /\ Cardinality(Young(f)) \in Nat
  BY <1>1, FS_Subset, FS_CardinalityType
<1>3. K \subseteq Young(f) /\ Cardinality(K) = IF Cardinality(Young(f)) > k THEN k ELSE Cardinality(Young(f))
  BY DEF IsNewest
<1>4. IsFiniteSet(K)
  BY <1>2, <1>3, FS_Subset
<1>5. Cardinality(K) <= k
  BY <1>2, <1>3
<1>6. DOMAIN g = K
  BY <1>1, <1>3 DEF Only
<1> QED  BY <1>4, <1>5, <1>6

\* What scores highly is both unfamiliar and a beacon.
LEMMA HighIs ==
    ASSUME NEW reasons \in SUBSET {"spike", "unfamiliar", "country", "beacon"}
    PROVE  /\ Score(reasons) >= 75 => "unfamiliar" \in reasons /\ "beacon" \in reasons
           /\ Score(reasons) >= 50 => reasons # {}
           /\ (Score(reasons) >= 75) \in BOOLEAN
  BY DEF Score, Weight

LEMMA TrafficInitial == TrafficInit => TrafficInv
<1> SUFFICES ASSUME TrafficInit PROVE TrafficInv
  OBVIOUS
<1>1. /\ Lag \in Nat /\ MaxHour \in Nat /\ MaxHour > Lag /\ MaxFlows \in Nat /\ MaxFindings \in Nat
  BY TrafficAssumption
<1>2. /\ now = Lag + 1 /\ baseline = NoBaseline /\ begun = 0 /\ crowded = FALSE
      /\ contact = [d \in Domains |-> 0] /\ findings = <<>> /\ flowsSeen = 0
  BY DEF TrafficInit
<1>3. contact \in [Domains -> 0 .. MaxHour] /\ \A d \in Domains : contact[d] = 0
  BY <1>1, <1>2
<1>4. NoneInLearning /\ HighNeedsCrowd /\ FamiliarStays
  BY <1>2 DEF NoneInLearning, HighNeedsCrowd, FamiliarStays
<1>5. findings \in Seq([at : 1 .. MaxHour, high : BOOLEAN,
                         reasons : SUBSET {"spike", "unfamiliar", "country", "beacon"}])
      /\ Len(findings) <= MaxFindings
  BY <1>1, <1>2
<1>6. ~crowded /\ crowded \in BOOLEAN
  BY <1>2, Zenon
<1>7. /\ now \in 1 .. MaxHour /\ now > Lag /\ flowsSeen \in 0 .. MaxFlows /\ begun \in 0 .. MaxHour
      /\ begun <= now /\ \A d \in Domains : contact[d] <= now
  BY <1>1, <1>2, <1>3
<1> QED  BY <1>2, <1>3, <1>4, <1>5, <1>6, <1>7 DEF TrafficInv

LEMMA HourKeeps == ASSUME TrafficInv, Hour PROVE TrafficInv'
<1>1. /\ Lag \in Nat /\ MaxHour \in Nat /\ BaselineWindow \in Nat
  BY TrafficAssumption
<1>2. now' = now + 1 /\ now < MaxHour /\ UNCHANGED <<baseline, findings, flowsSeen, begun, crowded, contact>>
  BY DEF Hour
<1>3. now \in 1 .. MaxHour
  BY DEF TrafficInv
<1>4. NoneInLearning' /\ HighNeedsCrowd'
  BY <1>2 DEF TrafficInv, NoneInLearning, HighNeedsCrowd
<1>5. contact \in [Domains -> 0 .. MaxHour]
  BY DEF TrafficInv
<1>6. FamiliarStays'
  <2> SUFFICES ASSUME baseline # NoBaseline, ~crowded, NEW d \in Domains, contact[d] # 0,
                      contact[d] >= (now + 1) - BaselineWindow + Lag
               PROVE  d \in DOMAIN baseline.known
    BY <1>2 DEF FamiliarStays
  <2>1. contact[d] >= now - BaselineWindow + Lag
    BY <1>1, <1>3, <1>5
  <2> QED  BY <2>1 DEF TrafficInv, FamiliarStays
<1>7. /\ now' \in 1 .. MaxHour /\ now' > Lag /\ begun' <= now'
      /\ \A d \in Domains : contact'[d] <= now'
  BY <1>1, <1>2, <1>3, <1>5 DEF TrafficInv
<1> QED  BY <1>2, <1>4, <1>6, <1>7 DEF TrafficInv

LEMMA ForgetsKeeps == ASSUME TrafficInv, CloudForgets PROVE TrafficInv'
<1>1. /\ Lag \in Nat /\ MaxHour \in Nat /\ MaxFindings \in Nat
  BY TrafficAssumption
<1>2. /\ baseline' = NoBaseline /\ begun' = 0 /\ crowded' = FALSE /\ findings' = <<>>
      /\ contact' = [d \in Domains |-> 0] /\ UNCHANGED <<now, flowsSeen>>
  BY DEF CloudForgets, Forgotten
<1>3. contact' \in [Domains -> 0 .. MaxHour] /\ \A d \in Domains : contact'[d] = 0
  BY <1>1, <1>2
<1>4. NoneInLearning' /\ HighNeedsCrowd' /\ FamiliarStays'
  BY <1>2 DEF NoneInLearning, HighNeedsCrowd, FamiliarStays
<1>5. now \in 1 .. MaxHour /\ now > Lag /\ flowsSeen \in 0 .. MaxFlows
  BY DEF TrafficInv
<1>6. findings' \in Seq([at : 1 .. MaxHour, high : BOOLEAN,
                          reasons : SUBSET {"spike", "unfamiliar", "country", "beacon"}])
      /\ Len(findings') <= MaxFindings
  BY <1>1, <1>2
<1>7. contact' \in [Domains -> 0 .. MaxHour] /\ \A d \in Domains : contact'[d] <= now'
  BY <1>1, <1>2, <1>3, <1>5
<1>8. ~crowded' /\ crowded' \in BOOLEAN
  BY <1>2, Zenon
<1>9. /\ now' \in 1 .. MaxHour /\ now' > Lag /\ flowsSeen' \in 0 .. MaxFlows
      /\ begun' \in 0 .. MaxHour /\ begun' <= now'
  BY <1>1, <1>2, <1>5
<1> QED  BY <1>2, <1>3, <1>4, <1>6, <1>7, <1>8, <1>9 DEF TrafficInv

LEMMA IngestKeeps ==
    ASSUME TrafficInv, NEW ts \in now - Lag .. now, NEW d \in Domains,
           NEW c \in Countries \cup {NoCountry}, NEW large \in BOOLEAN, Ingest(ts, d, c, large)
    PROVE  TrafficInv'
<1>1. /\ Lag \in Nat /\ MaxHour \in Nat /\ BaselineWindow \in Nat /\ MaxFindings \in Nat
      /\ MaxDomains \in Nat /\ MaxCountries \in Nat /\ Recent \in Nat /\ MaxFlows \in Nat
      /\ Learning \in Nat
  BY TrafficAssumption
<1>2. /\ now \in 1 .. MaxHour /\ now > Lag /\ flowsSeen \in 0 .. MaxFlows
      /\ begun \in 0 .. MaxHour /\ begun <= now /\ crowded \in BOOLEAN
      /\ contact \in [Domains -> 0 .. MaxHour] /\ \A x \in Domains : contact[x] <= now
  BY DEF TrafficInv
<1>3. ts \in 1 .. MaxHour /\ ts <= now /\ ts >= now - Lag
  BY <1>1, <1>2
\* The baseline the flow is scored against.
<1>4. PICK b : b = IF baseline = NoBaseline THEN EmptyBaseline(ts) ELSE baseline
  OBVIOUS
<1>5. PICK reasons : reasons = Reasons(b, ts, d, c, large)
  OBVIOUS
<1>6. PICK l : l = Learned(b, ts, d, c)
  OBVIOUS
<1>7. PICK K \in SUBSET Young(l.known), C \in SUBSET Young(l.countries) :
         /\ IsNewest(K, l.known, Young(l.known), MaxDomains)
         /\ IsNewest(C, l.countries, Young(l.countries), MaxCountries)
         /\ baseline' = Evicted(l, K, C)
         /\ crowded' = (crowded \/ K # Young(l.known) \/ C # Young(l.countries))
  BY <1>4, <1>6 DEF Ingest
<1>8. /\ flowsSeen' = flowsSeen + 1 /\ flowsSeen < MaxFlows /\ now' = now
      /\ begun' = IF baseline = NoBaseline THEN now ELSE begun
      /\ contact' = [contact EXCEPT ![d] = IF ts > @ THEN ts ELSE @]
      /\ findings' = IF Score(reasons) < 50 THEN findings
                     ELSE Newest(Append(findings,
                            [at |-> now, high |-> Score(reasons) >= 75, reasons |-> reasons]),
                            MaxFindings)
  BY <1>4, <1>5 DEF Ingest
<1>9. /\ b.first \in 1 .. MaxHour /\ b.first >= begun' - Lag /\ begun' \in 0 .. MaxHour /\ begun' <= now
      /\ IsFiniteSet(DOMAIN b.known) /\ IsFiniteSet(DOMAIN b.countries)
      /\ DOMAIN b.deltas \subseteq DOMAIN b.lastOf
      /\ \A x \in DOMAIN b.deltas : b.deltas[x] \in Seq(Nat) /\ Len(b.deltas[x]) <= Recent
      /\ \A x \in DOMAIN b.known : b.known[x] \in 1 .. MaxHour
      /\ \A x \in DOMAIN b.lastOf : b.lastOf[x] \in 1 .. MaxHour
      /\ ~crowded => /\ b.known = b.lastOf
                     /\ \A x \in Domains : x \in DOMAIN b.known => contact[x] <= b.known[x] + Lag
                     /\ \A x \in Domains : contact[x] # 0 /\ contact[x] >= now - BaselineWindow + Lag
                           => x \in DOMAIN b.known
  <2>1. CASE baseline = NoBaseline
    <3>1. /\ b.first = ts /\ b.known = Nothing /\ b.countries = Nothing /\ b.deltas = Nothing
          /\ b.lastOf = Nothing
      BY <1>4, <2>1 DEF EmptyBaseline
    <3>2. DOMAIN Nothing = {} /\ IsFiniteSet({})
      BY FS_EmptySet DEF Nothing
    <3>3. begun' = now /\ \A x \in Domains : contact[x] = 0
      BY <1>8, <2>1 DEF TrafficInv
    <3> QED  BY <1>1, <1>2, <1>3, <3>1, <3>2, <3>3
  <2>2. CASE baseline # NoBaseline
    <3>1. b = baseline /\ begun' = begun
      BY <1>4, <1>8, <2>2
    <3>2. /\ IsFiniteSet(DOMAIN b.known) /\ IsFiniteSet(DOMAIN b.countries)
          /\ b.first \in 1 .. MaxHour /\ b.first >= begun - Lag
          /\ DOMAIN b.deltas \subseteq DOMAIN b.lastOf
          /\ \A x \in DOMAIN b.deltas : b.deltas[x] \in Seq(Nat) /\ Len(b.deltas[x]) <= Recent
          /\ \A x \in DOMAIN b.known : b.known[x] \in 1 .. MaxHour
          /\ \A x \in DOMAIN b.lastOf : b.lastOf[x] \in 1 .. MaxHour
      BY <2>2, <3>1 DEF TrafficInv
    <3>3. ~crowded => /\ b.known = b.lastOf
                      /\ \A x \in Domains : x \in DOMAIN b.known => contact[x] <= b.known[x] + Lag
      BY <2>2, <3>1 DEF TrafficInv
    <3>4. ~crowded => \A x \in Domains : contact[x] # 0 /\ contact[x] >= now - BaselineWindow + Lag
                           => x \in DOMAIN b.known
      BY <2>2, <3>1 DEF TrafficInv, FamiliarStays
    <3> QED  BY <1>2, <3>1, <3>2, <3>3, <3>4
  <2> QED  BY <2>1, <2>2
\* What it knows with the flow.
<1>10. /\ l.first = b.first /\ l.known = Stamped(b.known, d, ts) /\ l.lastOf = Stamped(b.lastOf, d, ts)
       /\ l.countries = IF c = NoCountry THEN b.countries ELSE Stamped(b.countries, c, ts)
  BY <1>6 DEF Learned
<1>11. /\ DOMAIN l.known = DOMAIN b.known \cup {d} /\ l.known[d] = ts
       /\ \A x \in DOMAIN b.known : x # d => l.known[x] = b.known[x]
       /\ DOMAIN l.lastOf = DOMAIN b.lastOf \cup {d} /\ l.lastOf[d] = ts
       /\ \A x \in DOMAIN b.lastOf : x # d => l.lastOf[x] = b.lastOf[x]
       /\ IsFiniteSet(DOMAIN l.known) /\ IsFiniteSet(DOMAIN l.countries)
  <2>1. PICK kn, lo, co, lkn, llo, lco :
           /\ kn = b.known /\ lo = b.lastOf /\ co = b.countries
           /\ lkn = l.known /\ llo = l.lastOf /\ lco = l.countries
    OBVIOUS
  <2>2. lkn = Stamped(kn, d, ts) /\ llo = Stamped(lo, d, ts)
        /\ (lco = co \/ lco = Stamped(co, c, ts)) /\ IsFiniteSet(DOMAIN kn) /\ IsFiniteSet(DOMAIN co)
    BY <1>9, <1>10, <2>1
  <2>3. /\ DOMAIN lkn = DOMAIN kn \cup {d} /\ lkn[d] = ts /\ IsFiniteSet(DOMAIN lkn)
        /\ \A x \in DOMAIN kn : x # d => lkn[x] = kn[x]
    BY <2>2, FS_AddElement DEF Stamped
  <2>4. /\ DOMAIN llo = DOMAIN lo \cup {d} /\ llo[d] = ts
        /\ \A x \in DOMAIN lo : x # d => llo[x] = lo[x]
    BY <2>2 DEF Stamped
  <2>5. IsFiniteSet(DOMAIN lco)
    BY <2>2, FS_AddElement DEF Stamped
  <2> QED  BY <2>1, <2>3, <2>4, <2>5
<1>12. /\ \A x \in DOMAIN l.known : l.known[x] \in 1 .. MaxHour
       /\ \A x \in DOMAIN l.lastOf : l.lastOf[x] \in 1 .. MaxHour
  BY <1>3, <1>9, <1>11
<1>13. /\ DOMAIN l.deltas \subseteq DOMAIN l.lastOf
       /\ \A x \in DOMAIN l.deltas : l.deltas[x] \in Seq(Nat) /\ Len(l.deltas[x]) <= Recent
  <2> DEFINE delta == IF d \in DOMAIN b.lastOf THEN ts - b.lastOf[d] ELSE 0
             old == IF d \in DOMAIN b.deltas THEN b.deltas[d] ELSE <<>>
             new == Newest(Append(old, delta), Recent)
  <2>1. l.deltas = IF delta > 0 THEN Stamped(b.deltas, d, new) ELSE b.deltas
    BY <1>6 DEF Learned
  <2>2. CASE delta > 0
    <3>1. delta \in Nat /\ old \in Seq(Nat)
      BY <1>3, <1>9, <2>2
    <3> HIDE DEF delta, old
    <3>2. Append(old, delta) \in Seq(Nat)
      BY <3>1
    <3>3. new \in Seq(Nat) /\ Len(new) <= Recent
      BY <1>1, <3>2, NewestIs
    <3> HIDE DEF new
    <3>4. l.deltas = Stamped(b.deltas, d, new)
      BY <2>1, <2>2
    <3>5. /\ DOMAIN l.deltas = DOMAIN b.deltas \cup {d} /\ l.deltas[d] = new
          /\ \A x \in DOMAIN b.deltas : x # d => l.deltas[x] = b.deltas[x]
      <4>1. PICK f, g : f = b.deltas /\ g = l.deltas
        OBVIOUS
      <4>2. g = Stamped(f, d, new)
        BY <3>4, <4>1
      <4>3. DOMAIN g = DOMAIN f \cup {d} /\ g[d] = new /\ \A x \in DOMAIN f : x # d => g[x] = f[x]
        BY <4>2 DEF Stamped
      <4> QED  BY <4>1, <4>3
    <3> QED  BY <1>9, <1>11, <3>3, <3>5
  <2>3. CASE ~(delta > 0)
    <3>1. l.deltas = b.deltas
      BY <2>1, <2>3
    <3> QED  BY <1>9, <1>11, <3>1
  <2> QED  BY <2>2, <2>3
\* What is left of it.
<1>14. PICK n : n = Evicted(l, K, C)
  OBVIOUS
<1>15. /\ n.first = l.first /\ n.known = Only(l.known, K) /\ n.countries = Only(l.countries, C)
       /\ n.lastOf = Only(l.lastOf, Young(l.lastOf)) /\ n.deltas = Only(l.deltas, Young(l.lastOf))
       /\ baseline' = n
  BY <1>7, <1>14 DEF Evicted
<1>16. /\ DOMAIN n.known = K /\ IsFiniteSet(K) /\ Cardinality(K) <= MaxDomains
       /\ DOMAIN n.countries = C /\ IsFiniteSet(C) /\ Cardinality(C) <= MaxCountries
  <2>1. PICK f, g, h, i : f = l.known /\ g = n.known /\ h = l.countries /\ i = n.countries
    OBVIOUS
  <2>2. IsFiniteSet(DOMAIN f) /\ g = Only(f, K) /\ IsNewest(K, f, Young(f), MaxDomains)
    BY <1>7, <1>11, <1>15, <2>1
  <2>3. IsFiniteSet(DOMAIN h) /\ i = Only(h, C) /\ IsNewest(C, h, Young(h), MaxCountries)
    BY <1>7, <1>11, <1>15, <2>1
  <2>4. DOMAIN g = K /\ IsFiniteSet(K) /\ Cardinality(K) <= MaxDomains
    BY <1>1, <2>2, KeptIs
  <2>5. DOMAIN i = C /\ IsFiniteSet(C) /\ Cardinality(C) <= MaxCountries
    BY <1>1, <2>3, KeptIs
  <2> QED  BY <2>1, <2>4, <2>5
<1>17. /\ DOMAIN n.lastOf = DOMAIN l.lastOf \cap Young(l.lastOf)
       /\ DOMAIN n.deltas = DOMAIN l.deltas \cap Young(l.lastOf)
       /\ DOMAIN n.known = DOMAIN l.known \cap K
       /\ \A x \in DOMAIN n.lastOf : n.lastOf[x] = l.lastOf[x]
       /\ \A x \in DOMAIN n.deltas : n.deltas[x] = l.deltas[x]
       /\ \A x \in DOMAIN n.known : n.known[x] = l.known[x]
  <2>1. PICK kn, lo, de, nkn, nlo, nde, S :
           /\ kn = l.known /\ lo = l.lastOf /\ de = l.deltas /\ S = Young(l.lastOf)
           /\ nkn = n.known /\ nlo = n.lastOf /\ nde = n.deltas
    OBVIOUS
  <2>2. nkn = Only(kn, K) /\ nlo = Only(lo, S) /\ nde = Only(de, S)
    BY <1>15, <2>1
  <2>3. DOMAIN nkn = DOMAIN kn \cap K /\ \A x \in DOMAIN nkn : nkn[x] = kn[x]
    BY <2>2 DEF Only
  <2>4. DOMAIN nlo = DOMAIN lo \cap S /\ \A x \in DOMAIN nlo : nlo[x] = lo[x]
    BY <2>2 DEF Only
  <2>5. DOMAIN nde = DOMAIN de \cap S /\ \A x \in DOMAIN nde : nde[x] = de[x]
    BY <2>2 DEF Only
  <2> QED  BY <2>1, <2>3, <2>4, <2>5
<1>18. /\ DOMAIN n.deltas \subseteq DOMAIN n.lastOf
       /\ \A x \in DOMAIN n.deltas : n.deltas[x] \in Seq(Nat) /\ Len(n.deltas[x]) <= Recent
       /\ \A x \in DOMAIN n.known : n.known[x] \in 1 .. MaxHour
       /\ \A x \in DOMAIN n.lastOf : n.lastOf[x] \in 1 .. MaxHour
  BY <1>12, <1>13, <1>17
<1>19. contact' \in [Domains -> 0 .. MaxHour] /\ \A x \in Domains : contact'[x] <= now'
  BY <1>2, <1>3, <1>8
<1>20. ASSUME ~crowded'
       PROVE  /\ n.known = n.lastOf /\ K = Young(l.known) /\ b.known = b.lastOf /\ l.known = l.lastOf
              /\ \A x \in Domains : x \in DOMAIN n.known => contact'[x] <= n.known[x] + Lag
              /\ \A x \in Domains : contact'[x] # 0 /\ contact'[x] >= now' - BaselineWindow + Lag
                    => x \in DOMAIN n.known
  <2>1. ~crowded /\ K = Young(l.known)
    BY <1>7, <1>20
  <2>2. b.known = b.lastOf /\ l.known = l.lastOf
    BY <1>9, <1>10, <2>1
  <2>3. n.known = n.lastOf
    BY <1>15, <2>1, <2>2
  <2>4. ASSUME NEW x \in Domains, x \in DOMAIN l.known PROVE contact'[x] <= l.known[x] + Lag
    <3>1. CASE x = d
      BY <1>1, <1>2, <1>3, <1>8, <1>11, <3>1
    <3>2. CASE x # d
      BY <1>8, <1>9, <1>11, <2>1, <2>4, <3>2
    <3> QED  BY <3>1, <3>2
  <2>5. \A x \in Domains : x \in DOMAIN n.known => contact'[x] <= n.known[x] + Lag
    BY <1>17, <2>4
  <2>6. ASSUME NEW x \in Domains, contact'[x] # 0, contact'[x] >= now - BaselineWindow + Lag
        PROVE  x \in DOMAIN n.known
    <3>1. x \in DOMAIN l.known
      BY <1>8, <1>9, <1>11, <2>1, <2>6
    <3>2. contact'[x] <= l.known[x] + Lag
      BY <2>4, <3>1
    <3>3. l.known[x] >= now - BaselineWindow
      BY <1>1, <1>2, <1>12, <1>19, <2>6, <3>1, <3>2
    <3> QED  BY <1>16, <2>1, <3>1, <3>3 DEF Young, Cutoff
  <2> QED  BY <1>8, <2>1, <2>2, <2>3, <2>5, <2>6
<1>21. n # NoBaseline
  BY <1>14 DEF Evicted, NoBaseline
<1>22. FamiliarStays'
  BY <1>15, <1>20 DEF FamiliarStays
\* What is found.
<1>23. reasons \in SUBSET {"spike", "unfamiliar", "country", "beacon"}
  BY <1>5 DEF Reasons
<1> DEFINE F == [at : 1 .. MaxHour, high : BOOLEAN,
                 reasons : SUBSET {"spike", "unfamiliar", "country", "beacon"}]
<1>24. PICK e : e = [at |-> now, high |-> Score(reasons) >= 75, reasons |-> reasons]
  OBVIOUS
<1>25. e \in F /\ e.at = now /\ (e.high <=> Score(reasons) >= 75)
  <2>1. (Score(reasons) >= 75) \in BOOLEAN
    BY <1>23, HighIs
  <2> QED  BY <1>2, <1>23, <1>24, <2>1, Zenon
<1>26. findings \in Seq(F) /\ Len(findings) <= MaxFindings
  BY DEF TrafficInv
<1>27. /\ findings' \in Seq(F) /\ Len(findings') <= MaxFindings
       /\ \A i \in DOMAIN findings' :
             \/ \E j \in DOMAIN findings : findings'[i] = findings[j]
             \/ Score(reasons) >= 50 /\ findings'[i] = e
  <2>1. CASE Score(reasons) < 50
    BY <1>8, <1>26, <2>1
  <2>2. CASE ~(Score(reasons) < 50)
    <3>1. PICK s : s = Append(findings, e)
      OBVIOUS
    <3>2. findings' = Newest(s, MaxFindings)
      BY <1>8, <1>24, <2>2, <3>1
    <3> HIDE DEF F
    <3>3. s \in Seq(F) /\ \A j \in DOMAIN s : s[j] = e \/ (j \in DOMAIN findings /\ s[j] = findings[j])
      BY <1>25, <1>26, <3>1
    <3>4. Score(reasons) >= 50
      BY <1>23, <2>2 DEF Score, Weight
    <3>5. /\ findings' \in Seq(F) /\ Len(findings') <= MaxFindings
          /\ \A i \in DOMAIN findings' : \E j \in DOMAIN s : findings'[i] = s[j]
      <4>1. PICK x : x = findings'
        OBVIOUS
      <4>2. x = Newest(s, MaxFindings) /\ s \in Seq(F) /\ MaxFindings \in Nat
        BY <1>1, <3>2, <3>3, <4>1
      <4>3. /\ x \in Seq(F) /\ Len(x) <= MaxFindings
            /\ \A i \in DOMAIN x : \E j \in DOMAIN s : x[i] = s[j]
        BY <4>2, NewestIs
      <4> QED  BY <4>1, <4>3
    <3> QED  BY <3>3, <3>4, <3>5
  <2> QED  BY <2>1, <2>2
<1>28. baseline = NoBaseline => findings = <<>>
  BY DEF TrafficInv
<1>29. NoneInLearning'
  <2> SUFFICES ASSUME NEW i \in DOMAIN findings' PROVE findings'[i].at - begun' >= Learning - Lag
    BY DEF NoneInLearning
  <2>1. CASE \E j \in DOMAIN findings : findings'[i] = findings[j]
    <3>1. PICK j \in DOMAIN findings : findings'[i] = findings[j]
      BY <2>1
    <3>2. findings[j].at - begun >= Learning - Lag
      BY DEF TrafficInv, NoneInLearning
    <3>3. baseline # NoBaseline
      BY <1>28
    <3> QED  BY <1>8, <3>1, <3>2, <3>3
  <2>2. CASE Score(reasons) >= 50 /\ findings'[i] = e
    <3>1. reasons # {}
      BY <1>23, <2>2, HighIs
    <3>2. now - b.first >= Learning
      BY <1>5, <3>1 DEF Reasons
    <3>3. b.first \in Nat /\ begun' \in Nat /\ b.first >= begun' - Lag
      BY <1>1, <1>9
    <3>4. findings'[i].at = now
      BY <1>25, <2>2
    <3>5. PICK p, q : p = b.first /\ q = begun'
      OBVIOUS
    <3>6. p \in Nat /\ q \in Nat /\ p >= q - Lag /\ now - p >= Learning
      BY <3>2, <3>3, <3>5
    <3>7. Lag \in Nat /\ Learning \in Nat /\ now \in Nat
      BY <1>1, <1>2
    <3>8. now - q >= Learning - Lag
      BY <3>6, <3>7, Z3
    <3> QED  BY <3>4, <3>5, <3>8
  <2> QED  BY <1>27, <2>1, <2>2
<1>30. HighNeedsCrowd'
  <2>1. ASSUME NEW i \in DOMAIN findings', findings'[i].high PROVE crowded'
    <3>1. CASE \E j \in DOMAIN findings : findings'[i] = findings[j]
      BY <1>7, <2>1, <3>1 DEF TrafficInv, HighNeedsCrowd
    <3>2. CASE Score(reasons) >= 50 /\ findings'[i] = e
      <4>1. "unfamiliar" \in reasons /\ "beacon" \in reasons
        BY <1>23, <1>25, <2>1, <3>2, HighIs
      <4>2. d \notin DOMAIN b.known /\ d \in DOMAIN b.deltas
        BY <1>5, <4>1 DEF Reasons
      <4>3. crowded
        BY <1>9, <4>2
      <4> QED  BY <1>7, <4>3
    <3> QED  BY <1>27, <3>1, <3>2
  <2>2. ~crowded' => DOMAIN n.deltas \subseteq DOMAIN n.known
    BY <1>18, <1>20
  <2> QED  BY <1>15, <2>1, <2>2 DEF HighNeedsCrowd
<1>31. crowded' \in BOOLEAN
  BY <1>2, <1>7
<1> QED
  <2>1. /\ now' \in 1 .. MaxHour /\ now' > Lag /\ flowsSeen' \in 0 .. MaxFlows
        /\ begun' \in 0 .. MaxHour /\ begun' <= now'
    BY <1>1, <1>2, <1>8, <1>9
  <2>2. /\ baseline'.first \in 1 .. MaxHour /\ baseline'.first >= begun' - Lag
    BY <1>9, <1>10, <1>15
  <2>3. /\ IsFiniteSet(DOMAIN baseline'.known) /\ IsFiniteSet(DOMAIN baseline'.countries)
        /\ Cardinality(DOMAIN baseline'.known) <= MaxDomains
        /\ Cardinality(DOMAIN baseline'.countries) <= MaxCountries
    BY <1>15, <1>16
  <2>4. ~crowded' => /\ baseline'.known = baseline'.lastOf
                     /\ \A x \in Domains : x \in DOMAIN baseline'.known =>
                           contact'[x] <= baseline'.known[x] + Lag
    BY <1>15, <1>20
  <2> QED  BY <1>15, <1>18, <1>19, <1>21, <1>22, <1>27, <1>29, <1>30, <1>31, <2>1, <2>2, <2>3, <2>4
           DEF TrafficInv

LEMMA TrafficFrame == ASSUME TrafficInv, UNCHANGED trafficVars PROVE TrafficInv'
<1>1. UNCHANGED <<now, baseline, findings, flowsSeen, begun, crowded, contact>>
  BY DEF trafficVars
<1>2. NoneInLearning' /\ HighNeedsCrowd' /\ FamiliarStays'
  BY <1>1 DEF TrafficInv, NoneInLearning, HighNeedsCrowd, FamiliarStays
<1> QED  BY <1>1, <1>2 DEF TrafficInv

LEMMA TrafficStep == TrafficInv /\ [TrafficNext]_trafficVars => TrafficInv'
<1>1. ASSUME TrafficInv, FlowComes PROVE TrafficInv'
  BY <1>1, IngestKeeps DEF FlowComes
<1> QED  BY <1>1, HourKeeps, ForgetsKeeps, TrafficFrame DEF TrafficNext

-----------------------------------------------------------------------------
(* The baseline of days.                                                   *)

\* Sums over a list: the recursive function of Total exists.
LEMMA SumsExist ==
    ASSUME NEW s, Len(s) \in Nat
    PROVE  \E f : f = [n \in 0 .. Len(s) |-> IF n = 0 THEN 0 ELSE f[n - 1] + s[n]]
<1> DEFINE Then(f, n) == IF n = 0 THEN 0 ELSE f[n - 1] + s[n]
           Solved == {m \in 0 .. Len(s) : \E f : f = [n \in 0 .. m |-> Then(f, n)]}
<1>1. Len(s) \in Nat
  OBVIOUS
<1>2. 0 \in Solved
  <2> DEFINE f == [n \in 0 .. 0 |-> 0]
  <2>1. f = [n \in 0 .. 0 |-> Then(f, n)]
    OBVIOUS
  <2> HIDE DEF f
  <2> QED  BY <1>1, <2>1
<1>3. ASSUME NEW m \in 0 .. Len(s) - 1, m \in Solved PROVE m + 1 \in Solved
  <2>1. PICK f : f = [n \in 0 .. m |-> Then(f, n)]
    BY <1>3
  <2>2. \A n \in 0 .. m : f[n] = Then(f, n)
    <3> HIDE DEF Then
    <3> QED  BY <2>1
  <2> DEFINE last == f[m] + s[m + 1]
             g == [n \in 0 .. m + 1 |-> IF n = m + 1 THEN last ELSE f[n]]
  <2>3. \A n \in 0 .. m : g[n] = f[n]
    BY <1>1
  <2>4. g[m + 1] = last /\ g = [n \in 0 .. m + 1 |-> g[n]]
    BY <1>1
  <2> HIDE DEF g
  <2>5. ASSUME NEW n \in 0 .. m + 1 PROVE g[n] = Then(g, n)
    <3>1. CASE n = 0
      BY <3>1, <2>2, <2>3, <1>1
    <3>2. CASE n \in 1 .. m
      <4>1. f[n] = Then(f, n) /\ g[n] = f[n] /\ g[n - 1] = f[n - 1]
        BY <3>2, <2>2, <2>3, <1>1
      <4> QED  BY <4>1, <3>2
    <3>3. CASE n = m + 1
      <4>1. g[n - 1] = f[m] /\ n # 0
        BY <3>3, <2>3, <1>1
      <4> QED  BY <4>1, <3>3, <2>4
    <3> QED  BY <3>1, <3>2, <3>3, <1>1
  <2>6. g = [n \in 0 .. m + 1 |-> Then(g, n)]
    BY <2>4, <2>5
  <2> HIDE DEF Then
  <2> QED  BY <2>6, <1>1
<1>4. Len(s) \in Solved
  <2> HIDE DEF Solved
  <2>1. 0 .. Len(s) \subseteq Solved
    BY <1>1, <1>2, <1>3, CountUp
  <2> QED  BY <1>1, <2>1
<1> QED  BY <1>4

\* What is summed up to each place of a list of naturals.
LEMMA SumsAre ==
    ASSUME NEW s \in Seq(Nat)
    PROVE  \E f \in [0 .. Len(s) -> Nat] :
              f[0] = 0 /\ (\A n \in 1 .. Len(s) : f[n] = f[n - 1] + s[n]) /\ Total(s) = f[Len(s)]
<1> DEFINE l == Len(s)
           f == CHOOSE f : f = [n \in 0 .. l |-> IF n = 0 THEN 0 ELSE f[n - 1] + s[n]]
<1>1. l \in Nat
  OBVIOUS
<1>2. Total(s) = f[l]
  BY DEF Total
<1>3. f = [n \in 0 .. l |-> IF n = 0 THEN 0 ELSE f[n - 1] + s[n]]
  BY <1>1, SumsExist
<1> HIDE DEF f
<1>4. f[0] = 0 /\ \A n \in 1 .. l : f[n] = f[n - 1] + s[n]
  BY <1>1, <1>3
<1> DEFINE S == {n \in 0 .. l : f[n] \in Nat}
<1>5. 0 \in S
  BY <1>1, <1>4
<1>6. ASSUME NEW n \in 0 .. l - 1, n \in S PROVE n + 1 \in S
  <2>1. n + 1 \in 1 .. l /\ (n + 1) - 1 = n /\ s[n + 1] \in Nat
    BY <1>1
  <2> QED  BY <1>1, <1>4, <1>6, <2>1
<1>7. \A n \in 0 .. l : f[n] \in Nat
  <2> HIDE DEF l
  <2>1. 0 .. l \subseteq S
    <3> HIDE DEF S
    <3> QED  BY <1>1, <1>5, <1>6, CountUp
  <2> QED  BY <2>1
<1>8. f \in [0 .. l -> Nat]
  BY <1>3, <1>7
<1> QED  BY <1>2, <1>4, <1>8

\* With one more number the square of a sum is still at most the count times the sum of squares.
LEMMA OneMore ==
    ASSUME NEW n \in Nat, NEW t \in Nat, NEW q \in Nat, NEW x \in Nat, t * t <= n * q
    PROVE  (t + x) * (t + x) <= (n + 1) * (q + x * x)
<1>1. /\ (t + x) * (t + x) = t * t + 2 * (t * x) + x * x
      /\ (n + 1) * (q + x * x) = n * q + n * (x * x) + q + x * x
  BY Z3
<1>2. 2 * (t * x) <= q + n * (x * x)
  <2>1. CASE n = 0
    <3>1. t * t <= 0
      BY <2>1, Z3
    <3>2. t = 0
      BY <3>1, Z3
    <3> QED  BY <2>1, <3>2, Z3
  <2>2. CASE n > 0
    <3>1. n * (2 * (t * x)) <= t * t + (n * x) * (n * x)
      <4>1. (t - n * x) * (t - n * x) >= 0
        BY Z3
      <4>2. (t - n * x) * (t - n * x) = t * t - 2 * (t * (n * x)) + (n * x) * (n * x)
        BY Z3
      <4>3. n * (2 * (t * x)) = 2 * (t * (n * x))
        BY Z3
      <4> QED  BY <4>1, <4>2, <4>3, Z3
    <3>2. n * (q + n * (x * x)) = n * q + (n * x) * (n * x)
      BY Z3
    <3>3. n * (2 * (t * x)) <= n * (q + n * (x * x))
      BY <3>1, <3>2, Z3
    <3> DEFINE a == 2 * (t * x)
               b == q + n * (x * x)
    <3>4. a \in Nat /\ b \in Nat /\ n * a <= n * b
      BY <3>3, Z3
    <3> HIDE DEF a, b
    <3>5. a <= b
      BY <2>2, <3>4, Z3
    <3> QED  BY <3>5 DEF a, b
  <2> QED  BY <2>1, <2>2
<1> QED  BY <1>1, <1>2, Z3

\* No number of a list is further above the average than the standard deviation times the root
\* of the count less one.
LEMMA FarAbove ==
    ASSUME NEW s \in Seq(Nat), NEW k \in 1 .. Len(s)
    PROVE  /\ Total(s) \in Nat /\ Squares(s) \in Nat
           /\ (Len(s) * s[k] - Total(s)) * (Len(s) * s[k] - Total(s)) <= (Len(s) - 1) * Spread(s)
<1> DEFINE l == Len(s)
           m == s[k]
           t == [i \in DOMAIN s |-> s[i] * s[i]]
<1>1. l \in Nat /\ k \in 1 .. l /\ m \in Nat /\ \A i \in 1 .. l : s[i] \in Nat
  OBVIOUS
<1>2. t \in Seq(Nat) /\ Len(t) = l /\ \A i \in 1 .. l : t[i] = s[i] * s[i]
  <2>1. \A i \in 1 .. l : s[i] * s[i] \in Nat
    BY <1>1
  <2>2. t = [i \in 1 .. l |-> s[i] * s[i]]
    OBVIOUS
  <2>3. t \in [1 .. l -> Nat] /\ \A i \in 1 .. l : t[i] = s[i] * s[i]
    BY <2>1, <2>2, Zenon
  <2> HIDE DEF t, l
  <2> QED  BY <1>1, <2>3
<1>3. Squares(s) = Total(t)
  BY DEF Squares
<1>4. PICK f \in [0 .. l -> Nat] : f[0] = 0 /\ (\A n \in 1 .. l : f[n] = f[n - 1] + s[n]) /\ Total(s) = f[l]
  BY SumsAre
<1> HIDE DEF t
<1>5. PICK g \in [0 .. l -> Nat] :
         g[0] = 0 /\ (\A n \in 1 .. l : g[n] = g[n - 1] + s[n] * s[n]) /\ Total(t) = g[l]
  <2>1. PICK g \in [0 .. Len(t) -> Nat] :
           g[0] = 0 /\ (\A n \in 1 .. Len(t) : g[n] = g[n - 1] + t[n]) /\ Total(t) = g[Len(t)]
    BY <1>2, SumsAre
  <2> QED  BY <1>2, <2>1
<1> HIDE DEF l, m
<1> DEFINE Before(n) == f[n] * f[n] <= n * g[n]
           Since(n) == /\ f[n] >= m /\ g[n] >= m * m
                       /\ (f[n] - m) * (f[n] - m) <= (n - 1) * (g[n] - m * m)
           S == {n \in 0 .. l : (n < k => Before(n)) /\ (n >= k => Since(n))}
<1>6. 0 \in S
  BY <1>1, <1>4, <1>5
<1>7. ASSUME NEW n \in 0 .. l - 1, n \in S PROVE n + 1 \in S
  <2>1. PICK a, b, x, c, d : a = f[n] /\ b = g[n] /\ x = s[n + 1] /\ c = f[n + 1] /\ d = g[n + 1]
    OBVIOUS
  <2>2. /\ a \in Nat /\ b \in Nat /\ x \in Nat /\ n \in Nat /\ m \in Nat /\ k \in Nat
        /\ c = a + x /\ d = b + x * x /\ n + 1 \in 0 .. l
    <3>1. n + 1 \in 1 .. l /\ (n + 1) - 1 = n /\ n \in 0 .. l
      BY <1>1
    <3>2. f[n + 1] = f[n] + s[n + 1] /\ f[n] \in Nat /\ s[n + 1] \in Nat
      BY <1>1, <1>4, <3>1
    <3>3. g[n + 1] = g[(n + 1) - 1] + s[n + 1] * s[n + 1]
      BY <1>5, <3>1, Zenon
    <3>4. g[n] \in Nat /\ g[n + 1] = g[n] + s[n + 1] * s[n + 1]
      BY <1>5, <3>1, <3>3
    <3> QED  BY <1>1, <2>1, <3>1, <3>2, <3>4
  <2>3. CASE n + 1 < k
    <3>1. n < k
      BY <1>1, <2>2, <2>3
    <3>2. a * a <= n * b
      BY <1>7, <2>1, <3>1
    <3>3. c * c <= (n + 1) * d
      BY <2>2, <3>2, OneMore
    <3>4. Before(n + 1) /\ ~(n + 1 >= k)
      BY <1>1, <2>1, <2>2, <2>3, <3>3
    <3> HIDE DEF Before, Since
    <3> QED  BY <2>2, <3>4
  <2>4. CASE n + 1 = k
    <3>1. n < k /\ x = m
      <4>1. n < k
        BY <2>2, <2>4
      <4>2. x = m
        BY <2>1, <2>4 DEF m
      <4> QED  BY <4>1, <4>2
    <3>2. a * a <= n * b
      BY <1>7, <2>1, <3>1
    <3>3. c - m = a /\ d - m * m = b /\ c >= m
      BY <2>2, <3>1, Z3
    <3>4. d >= m * m
      BY <2>2, <3>1, Z3
    <3>5. (n + 1) - 1 = n
      BY <2>2
    <3>6. Since(n + 1)
      BY <2>1, <3>2, <3>3, <3>4, <3>5
    <3>7. ~(n + 1 < k)
      BY <1>1, <2>4
    <3> HIDE DEF Before, Since
    <3> QED  BY <2>2, <3>6, <3>7
  <2>5. CASE n >= k
    <3>1. a >= m /\ b >= m * m /\ (a - m) * (a - m) <= (n - 1) * (b - m * m)
      BY <1>7, <2>1, <2>5
    <3> DEFINE u == a - m
               q == b - m * m
               p == n - 1
    <3>2. u \in Nat /\ q \in Nat /\ p \in Nat
      <4>1. m * m \in Nat
        BY <2>2
      <4> QED  BY <1>1, <2>2, <2>5, <3>1, <4>1
    <3>3. u * u <= p * q
      BY <3>1
    <3> HIDE DEF u, q, p
    <3>4. (u + x) * (u + x) <= (p + 1) * (q + x * x)
      BY <2>2, <3>2, <3>3, OneMore
    <3>5. c - m = u + x /\ d - m * m = q + x * x /\ (n + 1) - 1 = p + 1
      BY <2>2, Z3 DEF u, q, p
    <3>6. c >= m /\ d >= m * m
      BY <2>2, <3>1, Z3
    <3>7. Since(n + 1)
      BY <2>1, <3>4, <3>5, <3>6
    <3>8. ~(n + 1 < k)
      BY <1>1, <2>2, <2>5
    <3> HIDE DEF Before, Since
    <3> QED  BY <2>2, <3>7, <3>8
  <2> QED  BY <1>1, <2>2, <2>3, <2>4, <2>5
<1>8. Since(l)
  <2> HIDE DEF Before, Since
  <2>1. 0 .. l \subseteq S
    <3> HIDE DEF S
    <3> QED  BY <1>1, <1>6, <1>7, CountUp
  <2>2. l \in 0 .. l /\ l >= k
    BY <1>1
  <2> QED  BY <2>1, <2>2
<1>9. PICK a, b : a = f[l] /\ b = g[l]
  OBVIOUS
<1>10. a \in Nat /\ b \in Nat /\ a = Total(s) /\ b = Squares(s)
  BY <1>1, <1>3, <1>4, <1>5, <1>9
<1>11. (l * m - a) * (l * m - a) <= (l - 1) * (l * b - a * a)
  <2>1. (a - m) * (a - m) <= (l - 1) * (b - m * m)
    BY <1>8, <1>9
  <2> DEFINE u == a - m
             q == b - m * m
             p == l - 1
  <2>2. /\ u \in Int /\ q \in Int /\ p \in Nat /\ l \in Nat /\ m \in Nat
        /\ a = u + m /\ b = q + m * m /\ l = p + 1
    <3>1. a \in Nat /\ b \in Nat /\ m \in Nat /\ l \in Nat /\ l >= 1 /\ m * m \in Nat
      BY <1>1, <1>10
    <3>2. PICK mm : mm = m * m
      OBVIOUS
    <3>3. b - mm \in Int /\ b = (b - mm) + mm
      BY <3>1, <3>2
    <3>4. a - m \in Int /\ a = (a - m) + m /\ l - 1 \in Nat /\ l = (l - 1) + 1
      BY <3>1
    <3> QED  BY <3>1, <3>2, <3>3, <3>4
  <2>3. u * u <= p * q
    BY <2>1
  <2> HIDE DEF u, q, p
  <2>4. /\ l * m - a = p * m - u
        /\ l * b - a * a = (p + 1) * q + p * (m * m) - u * u - 2 * (u * m)
    BY <2>2, Z3
  <2>5. p * ((p + 1) * q + p * (m * m) - u * u - 2 * (u * m)) - (p * m - u) * (p * m - u)
           = (p + 1) * (p * q - u * u)
    BY <2>2, Z3
  <2>6. (p + 1) * (p * q - u * u) >= 0
    <3>1. p * q - u * u \in Nat /\ p + 1 \in Nat
      BY <2>2, <2>3, Z3
    <3> DEFINE e == p * q - u * u
               h == p + 1
    <3>2. e \in Nat /\ h \in Nat
      BY <3>1
    <3> HIDE DEF e, h
    <3>3. h * e >= 0
      BY <3>2, Z3
    <3> QED  BY <3>3 DEF e, h
  <2> DEFINE w == (p + 1) * q + p * (m * m) - u * u - 2 * (u * m)
             v == p * m - u
  <2>7. p * w - v * v >= 0
    BY <2>5, <2>6
  <2>8. w \in Int /\ v \in Int /\ l * m - a = v /\ l * b - a * a = w /\ l - 1 = p
    BY <2>2, <2>4, Z3
  <2> HIDE DEF w, v
  <2>9. v * v <= p * w
    BY <2>2, <2>7, <2>8, Z3
  <2> QED  BY <2>8, <2>9
<1> QED  BY <1>10, <1>11 DEF Spread, l, m

LEMMA MostIs ==
    ASSUME NEW n \in Nat, NEW T \in SUBSET (0 .. n), T # {}
    PROVE  Max(T) \in T /\ \A x \in T : x <= Max(T)
<1> DEFINE U == {n - i : i \in T}
<1>1. U \in SUBSET Nat /\ U # {}
  <2>1. \A i \in T : n - i \in Nat
    OBVIOUS
  <2> QED  BY <2>1
<1>2. PICK f \in U : \A j \in U : f <= j
  <2> HIDE DEF U
  <2> QED  BY <1>1, FirstExists
<1>3. PICK m \in T : f = n - m
  OBVIOUS
<1>4. \A j \in T : n - m <= n - j
  BY <1>2, <1>3
<1>5. \A j \in T : m >= j
  BY <1>4
<1>6. Max(T) \in T /\ \A x \in T : Max(T) >= x
  BY <1>5 DEF Max
<1>7. \A x \in T : x \in Int
  OBVIOUS
<1> QED  BY <1>6, <1>7

LEMMA DetectKeeps == ASSUME DeviationInv, DetectBehaviorDeviations PROVE DeviationInv'
<1>1. /\ MaxUse \in Nat /\ Week \in 1 .. 10 /\ today \in 0 .. MaxUse /\ Len(daily) <= Week
      /\ daily \in Seq(0 .. MaxUse)
  BY TrafficAssumption DEF DeviationInv
<1>2. PICK most : most = Max(ToSet(daily))
  OBVIOUS
<1>3. raised' = [value |-> today, most |-> most] /\ UNCHANGED <<week, today, daily>>
  BY <1>2 DEF DetectBehaviorDeviations
<1>4. PICK n, total, squares, above, spread :
         /\ n = Len(daily) /\ total = Total(daily) /\ squares = Squares(daily)
         /\ above = Above(daily) /\ spread = Spread(daily)
  OBVIOUS
<1>5. /\ above = n * today - total /\ spread = n * squares - total * total
      /\ spread > 0 /\ above > 0 /\ above * above > 9 * spread
  BY <1>4 DEF DetectBehaviorDeviations, Deviates, Above, Spread
<1>6. daily \in Seq(Nat) /\ n \in Nat /\ n <= 10 /\ DOMAIN daily = 1 .. n
  BY <1>1, <1>4
<1>7. PICK f \in [0 .. Len(daily) -> Nat] : f[0] = 0 /\ Total(daily) = f[Len(daily)]
  BY <1>6, SumsAre
\* A list of nothing spreads nothing.
<1>8. n > 0
  <2> SUFFICES ASSUME n = 0 PROVE FALSE
    BY <1>6
  <2>1. total = 0
    BY <1>4, <1>7
  <2>2. Squares(daily) \in Nat
    <3>1. DOMAIN [i \in DOMAIN daily |-> daily[i] * daily[i]] = {}
      BY <1>6
    <3>2. PICK t : t = [i \in DOMAIN daily |-> daily[i] * daily[i]]
      OBVIOUS
    <3>3. t = <<>>
      BY <1>6, <3>2
    <3>4. t \in Seq(Nat)
      BY <3>3
    <3>5. PICK g \in [0 .. Len(t) -> Nat] : Total(t) = g[Len(t)]
      BY <3>4, SumsAre
    <3>6. Len(t) = 0
      BY <3>3
    <3> QED  BY <3>2, <3>5, <3>6 DEF Squares
  <2>3. spread = 0
    BY <1>4, <1>5, <2>1, <2>2
  <2> QED  BY <1>5, <2>3
<1>9. ToSet(daily) \in SUBSET (0 .. MaxUse) /\ ToSet(daily) # {}
  BY <1>1, <1>6, <1>8 DEF ToSet
<1>10. most \in ToSet(daily) /\ most \in 0 .. MaxUse
  BY <1>1, <1>2, <1>9, MostIs
<1>11. PICK k \in 1 .. n : most = daily[k]
  BY <1>6, <1>10 DEF ToSet
<1>12. /\ total \in Nat /\ squares \in Nat
       /\ (n * most - total) * (n * most - total) <= (n - 1) * spread
  BY <1>4, <1>6, <1>11, FarAbove
<1>13. today > most
  <2> SUFFICES ASSUME today <= most PROVE FALSE
    BY <1>1, <1>10
  <2> DEFINE far == n * most - total
  <2>1. /\ n \in Nat /\ today \in Nat /\ most \in Nat /\ total \in Nat /\ squares \in Nat
    BY <1>1, <1>6, <1>10, <1>12
  <2>2. above \in Int /\ spread \in Int /\ far \in Int /\ far >= above
    <3>1. n * today <= n * most
      BY <2>1, Z3
    <3>2. PICK x, y, z : x = n * today /\ y = n * most /\ z = n * squares - total * total
      OBVIOUS
    <3>3. x \in Nat /\ y \in Nat /\ z \in Int
      BY <2>1, <3>2
    <3> QED  BY <1>5, <2>1, <3>1, <3>2, <3>3
  <2>3. far * far <= (n - 1) * spread
    BY <1>12
  <2> HIDE DEF far
  <2>4. above * above <= far * far
    BY <1>5, <2>2, Z3
  <2>5. (n - 1) * spread <= 9 * spread
    BY <1>5, <1>6, <2>1, <2>2, Z3
  <2> DEFINE aa == above * above
             ff == far * far
             ns == (n - 1) * spread
  <2>6. aa \in Int /\ ff \in Int /\ ns \in Int
    BY <2>1, <2>2, Z3
  <2>7. aa <= ff /\ ff <= ns /\ ns <= 9 * spread /\ aa > 9 * spread
    BY <1>5, <2>3, <2>4, <2>5
  <2> HIDE DEF aa, ff, ns
  <2> QED  BY <2>2, <2>6, <2>7
<1>14. raised'.value = today /\ raised'.most = most
       /\ raised' \in [value : 0 .. MaxUse, most : 0 .. MaxUse]
  BY <1>1, <1>3, <1>10
<1>15. DeviationIsNew'
  BY <1>13, <1>14 DEF DeviationIsNew
<1> QED  BY <1>3, <1>14, <1>15 DEF DeviationInv

LEMMA RecomputeKeeps == ASSUME DeviationInv, RecomputeBaseline PROVE DeviationInv'
<1>1. /\ MaxUse \in Nat /\ Week \in 1 .. 10 /\ week \in [1 .. Week -> 0 .. MaxUse]
      /\ daily \in Seq(0 .. MaxUse) /\ Len(daily) <= Week
  BY TrafficAssumption DEF DeviationInv
<1>2. PICK valid \in [1 .. Cardinality(Active) -> Active] :
         daily' = IF Active = {} THEN daily ELSE [i \in DOMAIN valid |-> week[valid[i]]]
  BY DEF RecomputeBaseline
<1>3. UNCHANGED <<week, today, raised>>
  BY DEF RecomputeBaseline
<1>4. Active \in SUBSET (1 .. Week)
  BY DEF Active
<1>5. Cardinality(Active) \in Nat /\ Cardinality(Active) <= Week
  <2>1. IsFiniteSet(1 .. Week) /\ Cardinality(1 .. Week) = Week
    BY <1>1, FS_Interval
  <2>2. Cardinality(Active) <= Cardinality(1 .. Week) /\ IsFiniteSet(Active)
    BY <1>4, <2>1, FS_Subset
  <2>3. Cardinality(Active) \in Nat
    BY <2>2, FS_CardinalityType
  <2> QED  BY <2>1, <2>2, <2>3
<1>6. daily' \in Seq(0 .. MaxUse) /\ Len(daily') <= Week
  <2>1. CASE Active = {}
    BY <1>1, <1>2, <2>1
  <2>2. CASE Active # {}
    <3> DEFINE n == Cardinality(Active)
    <3>1. \A i \in 1 .. n : week[valid[i]] \in 0 .. MaxUse
      BY <1>1, <1>2, <1>4
    <3>2. daily' = [i \in 1 .. n |-> week[valid[i]]]
      BY <1>2, <2>2
    <3> HIDE DEF n
    <3>3. daily' \in [1 .. n -> 0 .. MaxUse]
      BY <3>1, <3>2, Zenon
    <3>4. n \in Nat /\ n <= Week
      BY <1>5 DEF n
    <3>5. PICK e, S : e = daily' /\ S = 0 .. MaxUse
      OBVIOUS
    <3>6. e \in [1 .. n -> S] /\ n \in Nat
      BY <3>3, <3>4, <3>5
    <3>7. e \in Seq(S) /\ Len(e) = n
      BY <3>6
    <3> QED  BY <3>4, <3>5, <3>7
  <2> QED  BY <2>1, <2>2
<1>7. DeviationIsNew'
  BY <1>3 DEF DeviationInv, DeviationIsNew
<1> QED  BY <1>3, <1>6, <1>7 DEF DeviationInv

LEMMA DeviationInitial == DeviationInit => DeviationInv
<1> SUFFICES ASSUME DeviationInit PROVE DeviationInv
  OBVIOUS
<1>1. MaxUse \in Nat /\ Week \in 1 .. 10
  BY TrafficAssumption
<1>2. /\ week = [i \in 1 .. Week |-> 0] /\ today = 0 /\ daily = <<>>
      /\ raised = [value |-> 0, most |-> 0]
  BY DEF DeviationInit
<1>3. week \in [1 .. Week -> 0 .. MaxUse] /\ daily \in Seq(0 .. MaxUse) /\ Len(daily) <= Week
  BY <1>1, <1>2
<1>4. raised \in [value : 0 .. MaxUse, most : 0 .. MaxUse] /\ raised.value = 0
  BY <1>1, <1>2
<1> QED  BY <1>1, <1>2, <1>3, <1>4 DEF DeviationInv, DeviationIsNew

LEMMA DeviationStep == DeviationInv /\ [DeviationNext]_deviationVars => DeviationInv'
<1> SUFFICES ASSUME DeviationInv, [DeviationNext]_deviationVars PROVE DeviationInv'
  OBVIOUS
<1>1. /\ MaxUse \in Nat /\ Week \in 1 .. 10 /\ week \in [1 .. Week -> 0 .. MaxUse]
      /\ today \in 0 .. MaxUse
  BY TrafficAssumption DEF DeviationInv
<1>2. UNCHANGED raised => DeviationIsNew'
  BY DEF DeviationInv, DeviationIsNew
<1>3. CASE UsedMore
  <2>1. today' \in 0 .. MaxUse /\ UNCHANGED <<week, daily, raised>>
    BY <1>1, <1>3 DEF UsedMore
  <2> QED  BY <1>2, <2>1 DEF DeviationInv
<1>4. CASE DayOver
  <2>1. /\ week' = [i \in 1 .. Week |-> IF i = 1 THEN today ELSE week[i - 1]] /\ today' = 0
        /\ UNCHANGED <<daily, raised>>
    BY <1>4 DEF DayOver
  <2>2. \A i \in 1 .. Week : (IF i = 1 THEN today ELSE week[i - 1]) \in 0 .. MaxUse
    BY <1>1
  <2>3. week' \in [1 .. Week -> 0 .. MaxUse] /\ today' \in 0 .. MaxUse
    BY <1>1, <2>1, <2>2
  <2> QED  BY <1>2, <2>1, <2>3 DEF DeviationInv
<1>5. CASE ArchiveCut
  <2>1. PICK i \in 1 .. Week :
           /\ week[i] > 0
           /\ week' = [j \in 1 .. Week |-> IF j < i THEN week[j] ELSE IF j = i THEN week[j] - 1 ELSE 0]
    BY <1>5 DEF ArchiveCut
  <2>2. UNCHANGED <<today, daily, raised>>
    BY <1>5 DEF ArchiveCut
  <2>3. \A j \in 1 .. Week :
           (IF j < i THEN week[j] ELSE IF j = i THEN week[j] - 1 ELSE 0) \in 0 .. MaxUse
    BY <1>1, <2>1
  <2>4. week' \in [1 .. Week -> 0 .. MaxUse]
    BY <2>1, <2>3
  <2> QED  BY <1>2, <2>2, <2>4 DEF DeviationInv
<1>6. CASE UNCHANGED deviationVars
  BY <1>2, <1>6 DEF DeviationInv, deviationVars
<1> QED  BY <1>3, <1>4, <1>5, <1>6, RecomputeKeeps, DetectKeeps DEF DeviationNext

LEMMA TrafficFollows ==
    TrafficInv /\ DeviationInv
      => TrafficTypeOK /\ NoneInLearning /\ HighNeedsCrowd /\ FamiliarStays /\ DeviationIsNew
  BY DEF TrafficInv, DeviationInv, TrafficTypeOK

-----------------------------------------------------------------------------
(* What the household is told.                                             *)

ToldInv == AlarmInv /\ MarksTyped /\ MailInv /\ TrafficInv /\ DeviationInv

LEMMA ToldStep == ToldInv /\ [Next]_householdVars => ToldInv'
<1> SUFFICES ASSUME ToldInv, [Next]_householdVars PROVE ToldInv'
  OBVIOUS
<1> USE DEF Next, Time, AlarmStep, Mailing, FlowSeen, DailyUse, Network, VpnServing, VpnUse, Shape,
            householdVars, toldVars
<1>1. \/ Watching \/ Muting \/ Reporting \/ Preferring \/ Pushing \/ TimePasses
      \/ UNCHANGED alarmVars
  OBVIOUS
<1>2. [MailNext]_mailVars
  OBVIOUS
<1>3. [TrafficNext]_trafficVars
  OBVIOUS
<1>4. [DeviationNext]_deviationVars
  OBVIOUS
<1>5. AlarmInv'
  BY <1>1, AlarmStepKeeps, AlarmFrame DEF ToldInv
<1>6. MarksTyped'
  BY <1>1, AlarmsTold DEF ToldInv
<1> QED  BY <1>2, <1>3, <1>4, <1>5, <1>6, MailStep, TrafficStep, DeviationStep DEF ToldInv

\* An alarm kind is told at most once in its gap, and no device is marked as told of while the
\* customer has no recent alarm of the kind, muted it or has a full list; a late answer to an old
\* subscription does not take the new one away; no timer sends a mail twice in its period or
\* leaves one out; nothing is found of a device before the time of learning, nothing high of a
\* baseline the caps left whole, and a day is unusual only when it is above every day of its week
\* (fireSyntheticAlarm, pushNotification, the mail timers, behavior-baseline.js,
\* detectBehaviorDeviations): for any devices, kinds of alarms, gaps, caps and lengths of a day,
\* and weeks of at most ten days.
THEOREM ToldCorrect == Spec => HouseholdTold
<1>1. Init => ToldInv
  <2>1. ASSUME AlarmInit PROVE MarksTyped
    BY <2>1 DEF AlarmInit, MarksTyped, Moments, Quiet
  <2> QED  BY <2>1, AlarmInitial, MailInitial, TrafficInitial, DeviationInitial DEF Init, ToldInv
<1>2. ToldInv => HouseholdSound
  <2>1. AlarmInv => AlarmTypeOK /\ AlarmsSound /\ RenewalKept
    BY DEF AlarmInv
  <2> QED  BY <2>1, MailsFollow, TrafficFollows DEF ToldInv, HouseholdSound
<1>3. ToldInv /\ [Next]_householdVars => [\A g \in AlarmDevices : MarkTold(g)]_alarmVars
  <2> SUFFICES ASSUME ToldInv, [Next]_householdVars
               PROVE  [\A g \in AlarmDevices : MarkTold(g)]_alarmVars
    OBVIOUS
  <2>1. \/ Watching \/ Muting \/ Reporting \/ Preferring \/ Pushing \/ TimePasses
        \/ UNCHANGED alarmVars
    BY DEF Next, Time, AlarmStep, Mailing, FlowSeen, DailyUse, Network, VpnServing, VpnUse, Shape,
           householdVars, toldVars
  <2> QED  BY <2>1, AlarmsTold DEF ToldInv
<1> QED  BY <1>1, <1>2, <1>3, ToldStep, PTL DEF Spec, HouseholdTold, MarksTold
=============================================================================
