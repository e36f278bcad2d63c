---------------------------- MODULE AccountsProofs ----------------------------
(***************************************************************************)
(* Proofs about the records of customers and administrators: the audit log *)
(* tells every edit of its file, for any number of admins, keys, entries,  *)
(* restarts and edits, and for any length at which it is cut; whatever     *)
(* lets a customer in works as often and as long as it should, and the     *)
(* stand-in of the vendor's cloud keeps its keys, messages and licences    *)
(* (MCAccounts); plans, bills, deletions and what deletions leave behind   *)
(* agree, for any number of accounts, invoices, rules and boxes (MCDates). *)
(***************************************************************************)
EXTENDS MCAccounts, MCDates, SequenceTheorems, FiniteSetTheorems, TLAPS

Order == INSTANCE WellFoundedInduction

-----------------------------------------------------------------------------
(* Sequences and the chain                                                 *)

LEMMA FirstExists ==
    ASSUME NEW T \in SUBSET Nat, T # {}
    PROVE  \E i \in T : \A j \in T : i <= j
<1> DEFINE less == {ss \in Nat \X Nat : ss[1] < ss[2]}
<1>1. PICK x \in T : \A y \in T : ~(<<y, x>> \in less)
  BY Order!NatLessThanWellFounded, Order!WFMin DEF Order!OpToRel
<1>2. \A y \in T : ~(y < x)
  BY <1>1
<1> QED  BY <1>2

\* What is in a sequence from a position on is that element and what follows it.
LEMMA TailFrom ==
    ASSUME NEW S, NEW w \in Seq(S), NEW i \in 1 .. Len(w)
    PROVE  /\ SubSeq(w, i, Len(w)) \in Seq(S) /\ SubSeq(w, i + 1, Len(w)) \in Seq(S)
           /\ SubSeq(w, i, Len(w)) = <<w[i]>> \o SubSeq(w, i + 1, Len(w))
           /\ Len(SubSeq(w, i, Len(w))) = Len(w) - i + 1
<1>1. Len(w) \in Nat /\ Len(w) \in i .. Len(w) /\ \A j \in 1 .. Len(w) : w[j] \in S
  OBVIOUS
<1>2. SubSeq(w, i, Len(w)) = <<w[i]>> \o SubSeq(w, i + 1, Len(w))
  BY <1>1, SubSeqRecursiveFirst
<1>3. /\ SubSeq(w, i, Len(w)) \in Seq(S)
      /\ Len(SubSeq(w, i, Len(w))) = IF i <= Len(w) THEN Len(w) - i + 1 ELSE 0
  <2>1. i \in Int /\ Len(w) \in Int /\ \A j \in i .. Len(w) : w[j] \in S
    BY <1>1
  <2> QED  BY <2>1, SubSeqProperties
<1>4. SubSeq(w, i + 1, Len(w)) \in Seq(S)
  <2>1. i + 1 \in Int /\ Len(w) \in Int /\ \A j \in i + 1 .. Len(w) : w[j] \in S
    BY <1>1
  <2> QED  BY <2>1, SubSeqProperties
<1> QED  BY <1>1, <1>2, <1>3, <1>4

LEMMA SaidType ==
    ASSUME NEW S, NEW es \in Logs(S)
    PROVE  /\ Said(es) \in Seq(S) /\ Len(Said(es)) = Len(es) /\ Len(es) \in Nat
           /\ \A i \in 1 .. Len(es) : Said(es)[i] = es[i].said
<1>1. Len(es) \in Nat /\ \A i \in 1 .. Len(es) : es[i] \in EntryOf(S)
  BY DEF Logs
<1>2. \A i \in 1 .. Len(es) : es[i].said \in S
  BY <1>1 DEF EntryOf
<1> QED  BY <1>1, <1>2 DEF Said

\* Signing words makes an intact log that says them.
LEMMA SignedSound ==
    ASSUME NEW S, NEW w \in Seq(S)
    PROVE  /\ Signed(w) \in Logs(S) /\ Len(Signed(w)) = Len(w)
           /\ \A i \in 1 .. Len(w) : Signed(w)[i].said = w[i]
           /\ Intact(Signed(w))
           /\ w # <<>> => Len(Signed(w)[1].hash) = Len(w)
<1> DEFINE es == Signed(w)
<1>1. Len(w) \in Nat /\ \A i \in 1 .. Len(w) : w[i] \in S
  OBVIOUS
<1>2. \A i \in 1 .. Len(w) :
         [said |-> w[i], prev |-> SubSeq(w, i + 1, Len(w)), hash |-> SubSeq(w, i, Len(w))] \in EntryOf(S)
  BY <1>1, TailFrom DEF EntryOf
<1>3. /\ es \in Logs(S) /\ Len(es) = Len(w)
      /\ \A i \in 1 .. Len(w) : es[i] = [said |-> w[i], prev |-> SubSeq(w, i + 1, Len(w)),
                                         hash |-> SubSeq(w, i, Len(w))]
  <2>1. es = [i \in 1 .. Len(w) |-> [said |-> w[i], prev |-> SubSeq(w, i + 1, Len(w)),
                                     hash |-> SubSeq(w, i, Len(w))]]
    BY Zenon DEF Signed
  <2> DEFINE signed(i) == [said |-> w[i], prev |-> SubSeq(w, i + 1, Len(w)), hash |-> SubSeq(w, i, Len(w))]
  <2>2. es = [i \in 1 .. Len(w) |-> signed(i)] /\ \A i \in 1 .. Len(w) : signed(i) \in EntryOf(S)
    BY <1>2, <2>1
  <2> HIDE DEF es, signed
  <2>3. es \in Seq(EntryOf(S)) /\ Len(es) = Len(w) /\ \A i \in 1 .. Len(w) : es[i] = signed(i)
    BY <1>1, <2>2
  <2> QED  BY <2>3 DEF Logs, signed
<1> HIDE DEF es
<1>4. \A i \in 1 .. Len(w) : /\ es[i].said = w[i] /\ es[i].prev = SubSeq(w, i + 1, Len(w))
                             /\ es[i].hash = SubSeq(w, i, Len(w))
  <2> SUFFICES ASSUME NEW i \in 1 .. Len(w)
               PROVE  /\ es[i].said = w[i] /\ es[i].prev = SubSeq(w, i + 1, Len(w))
                      /\ es[i].hash = SubSeq(w, i, Len(w))
    OBVIOUS
  <2> DEFINE r == [said |-> w[i], prev |-> SubSeq(w, i + 1, Len(w)), hash |-> SubSeq(w, i, Len(w))]
  <2>1. r.said = w[i] /\ r.prev = SubSeq(w, i + 1, Len(w)) /\ r.hash = SubSeq(w, i, Len(w))
    OBVIOUS
  <2>2. es[i] = r
    BY <1>3
  <2> HIDE DEF r
  <2> QED  BY <2>1, <2>2
<1>5. SubSeq(w, Len(w) + 1, Len(w)) = <<>>
  BY <1>1, SubSeqEmpty
<1>6. \A i \in 1 .. Len(es) :
        /\ es[i].prev = IF i = Len(es) THEN <<>> ELSE es[i + 1].hash
        /\ es[i].hash = <<es[i].said>> \o es[i].prev
  <2> SUFFICES ASSUME NEW i \in 1 .. Len(es)
               PROVE  /\ es[i].prev = IF i = Len(es) THEN <<>> ELSE es[i + 1].hash
                      /\ es[i].hash = <<es[i].said>> \o es[i].prev
    OBVIOUS
  <2>1. es[i].hash = <<es[i].said>> \o es[i].prev
    <3>1. SubSeq(w, i, Len(w)) = <<w[i]>> \o SubSeq(w, i + 1, Len(w))
      BY <1>3, TailFrom
    <3> QED  BY <1>3, <1>4, <3>1
  <2>2. es[i].prev = IF i = Len(es) THEN <<>> ELSE es[i + 1].hash
    <3>1. es[i].prev = SubSeq(w, i + 1, Len(w))
      BY <1>3, <1>4
    <3>2. i # Len(es) => i + 1 \in 1 .. Len(w)
      BY <1>1, <1>3
    <3> QED  BY <1>3, <1>4, <1>5, <3>1, <3>2
  <2> QED  BY <2>1, <2>2
<1>7. w # <<>> => Len(es[1].hash) = Len(w)
  <2> SUFFICES ASSUME w # <<>> PROVE Len(es[1].hash) = Len(w)
    OBVIOUS
  <2>1. 1 \in 1 .. Len(w)
    BY <1>1
  <2>2. Len(SubSeq(w, 1, Len(w))) = Len(w) - 1 + 1
    BY <2>1, TailFrom
  <2> QED  BY <1>1, <1>4, <2>1, <2>2
<1>8. Intact(es)
  BY <1>6 DEF Intact
<1> QED  BY <1>3, <1>4, <1>7, <1>8 DEF es

\* An entry is put in front of the others, and its hash covers theirs.
LEMMA ChainedType ==
    ASSUME NEW S, NEW es \in Logs(S), NEW word \in S, NEW more, more = Chained(word, es)
    PROVE  more \in Logs(S) /\ Len(more) = Len(es) + 1
<1> DEFINE prev == IF es = <<>> THEN <<>> ELSE es[1].hash
           new == [said |-> word, prev |-> prev, hash |-> <<word>> \o prev]
<1>1. prev \in Seq(S)
  <2>1. es # <<>> => es[1] \in EntryOf(S)
    BY DEF Logs
  <2> QED  BY <2>1 DEF EntryOf
<1>2. <<word>> \o prev \in Seq(S)
  BY <1>1
<1>3. more = <<new>> \o es
  BY DEF Chained
<1>4. new \in EntryOf(S)
  BY <1>1, <1>2 DEF EntryOf
<1> HIDE DEF prev, new
<1> QED  BY <1>3, <1>4 DEF Logs

\* The hash that a new entry refers to.
LastHash(es) == IF es = <<>> THEN <<>> ELSE es[1].hash

LEMMA ChainedNew ==
    ASSUME NEW S, NEW es \in Logs(S), NEW word \in S, NEW more, more = Chained(word, es)
    PROVE  /\ more[1].said = word
           /\ more[1].prev = LastHash(es)
           /\ more[1].hash = <<word>> \o more[1].prev
<1> DEFINE prev == IF es = <<>> THEN <<>> ELSE es[1].hash
           new == [said |-> word, prev |-> prev, hash |-> <<word>> \o prev]
<1>1. more = <<new>> \o es
  BY DEF Chained
<1>2. new.said = word /\ new.prev = prev /\ new.hash = <<word>> \o prev
  OBVIOUS
<1>3. prev = LastHash(es)
  BY DEF LastHash
<1> HIDE DEF prev, new
<1>4. more[1] = new
  BY <1>1 DEF Logs
<1> QED  BY <1>2, <1>3, <1>4

LEMMA ChainedOld ==
    ASSUME NEW S, NEW es \in Logs(S), NEW word \in S, NEW more, more = Chained(word, es)
    PROVE  \A i \in 1 .. Len(es) : more[i + 1] = es[i]
<1>1. PICK new : more = <<new>> \o es
  BY Zenon DEF Chained
<1> QED  BY <1>1 DEF Logs

LEMMA ChainedHash ==
    ASSUME NEW S, NEW es \in Logs(S), NEW word \in S, NEW more, more = Chained(word, es)
    PROVE  /\ more[1].hash # <<>> /\ more[1].hash[1] = word
           /\ Len(more[1].hash) = (IF es = <<>> THEN 0 ELSE Len(es[1].hash)) + 1
<1> DEFINE prev == IF es = <<>> THEN <<>> ELSE es[1].hash
<1>1. more[1].prev = prev /\ more[1].hash = <<word>> \o more[1].prev
  <2>1. prev = LastHash(es)
    BY DEF LastHash
  <2> HIDE DEF prev
  <2> QED  BY <2>1, ChainedNew
<1>2. prev \in Seq(S)
  <2>1. es # <<>> => es[1] \in EntryOf(S)
    BY DEF Logs
  <2> QED  BY <2>1 DEF EntryOf
<1>3. Len(prev) = (IF es = <<>> THEN 0 ELSE Len(es[1].hash))
  OBVIOUS
<1> HIDE DEF prev
<1>4. <<word>> \in Seq(S) /\ Len(<<word>>) = 1 /\ <<word>>[1] = word
  OBVIOUS
<1>5. Len(<<word>> \o prev) = 1 + Len(prev) /\ (<<word>> \o prev)[1] = word /\ Len(prev) \in Nat
  BY <1>2, <1>4, ConcatProperties
<1> QED  BY <1>1, <1>3, <1>5

\* It changes nothing of whether the chain holds.
LEMMA IntactGrows ==
    ASSUME NEW S, NEW es \in Logs(S), NEW word \in S,
           NEW more, more = Chained(word, es)
    PROVE  Intact(more) <=> Intact(es)
<1> DEFINE Sound(log, i) == /\ log[i].prev = IF i = Len(log) THEN <<>> ELSE log[i + 1].hash
                            /\ log[i].hash = <<log[i].said>> \o log[i].prev
<1>1. /\ Len(es) \in Nat /\ Len(more) = Len(es) + 1
      /\ more[1].said = word
      /\ more[1].prev = LastHash(es)
      /\ more[1].hash = <<word>> \o more[1].prev
      /\ \A i \in 1 .. Len(es) : more[i + 1] = es[i]
  <2>1. Len(es) \in Nat
    BY DEF Logs
  <2>2. Len(more) = Len(es) + 1
    BY ChainedType, Zenon
  <2>3. /\ more[1].said = word
        /\ more[1].prev = LastHash(es)
        /\ more[1].hash = <<word>> \o more[1].prev
    BY ChainedNew
  <2>4. \A i \in 1 .. Len(es) : more[i + 1] = es[i]
    BY ChainedOld, Zenon
  <2> HIDE DEF Sound
  <2> QED  BY <2>1, <2>2, <2>3, <2>4, Zenon
<1>2. es = <<>> <=> Len(es) = 0
  BY DEF Logs
<1>3. Sound(more, 1)
  <2>1. es # <<>> => 1 \in 1 .. Len(es) /\ more[1 + 1] = es[1]
    BY <1>1, <1>2
  <2> QED  BY <1>1, <1>2, <2>1 DEF LastHash
<1>4. \A i \in 1 .. Len(es) : Sound(more, i + 1) <=> Sound(es, i)
  <2> SUFFICES ASSUME NEW i \in 1 .. Len(es) PROVE Sound(more, i + 1) <=> Sound(es, i)
    OBVIOUS
  <2>1. more[i + 1] = es[i]
    BY <1>1
  <2>2. i + 1 = Len(more) <=> i = Len(es)
    BY <1>1
  <2>3. i # Len(es) => more[i + 1 + 1] = es[i + 1]
    BY <1>1
  <2> QED  BY <2>1, <2>2, <2>3
<1>5. (\A i \in 1 .. Len(more) : Sound(more, i)) <=> (\A i \in 1 .. Len(es) : Sound(es, i))
  <2>1. ASSUME \A i \in 1 .. Len(more) : Sound(more, i) PROVE \A i \in 1 .. Len(es) : Sound(es, i)
    <3> HIDE DEF Sound
    <3>1. \A i \in 1 .. Len(es) : i + 1 \in 1 .. Len(more)
      BY <1>1
    <3> QED  BY <1>4, <2>1, <3>1
  <2>2. ASSUME \A i \in 1 .. Len(es) : Sound(es, i) PROVE \A i \in 1 .. Len(more) : Sound(more, i)
    <3> HIDE DEF Sound
    <3> SUFFICES ASSUME NEW i \in 1 .. Len(more) PROVE Sound(more, i)
      OBVIOUS
    <3>1. CASE i = 1
      BY <1>3, <3>1
    <3>2. CASE i # 1
      <4>1. i - 1 \in 1 .. Len(es) /\ (i - 1) + 1 = i
        BY <1>1, <3>2
      <4> QED  BY <1>4, <2>2, <4>1
    <3> QED  BY <3>1, <3>2
  <2> QED  BY <2>1, <2>2
<1> QED  BY <1>5 DEF Intact

\* In a chain that holds, a hash covers the entry and everything before it.
LEMMA IntactLength ==
    ASSUME NEW S, NEW es \in Logs(S), Intact(es)
    PROVE  /\ \A i \in 1 .. Len(es) : /\ es[i].hash # <<>> /\ es[i].hash[1] = es[i].said
                                      /\ Len(es[i].hash) = Len(es) - i + 1
<1> DEFINE wrong == {k \in Nat : k < Len(es) /\ Len(es[Len(es) - k].hash) # k + 1}
<1>1. /\ Len(es) \in Nat
      /\ \A i \in 1 .. Len(es) : /\ es[i] \in EntryOf(S)
                                 /\ es[i].prev = IF i = Len(es) THEN <<>> ELSE es[i + 1].hash
                                 /\ es[i].hash = <<es[i].said>> \o es[i].prev
  <2>1. Len(es) \in Nat /\ \A i \in 1 .. Len(es) : es[i] \in EntryOf(S)
    BY DEF Logs
  <2> HIDE DEF EntryOf
  <2> QED  BY <2>1, Zenon DEF Intact
<1>2. \A i \in 1 .. Len(es) : es[i].said \in S /\ es[i].prev \in Seq(S)
  BY <1>1 DEF EntryOf
<1>3. \A i \in 1 .. Len(es) : /\ Len(es[i].hash) = Len(es[i].prev) + 1 /\ Len(es[i].prev) \in Nat
                              /\ es[i].hash[1] = es[i].said
  <2> SUFFICES ASSUME NEW i \in 1 .. Len(es)
               PROVE  /\ Len(es[i].hash) = Len(es[i].prev) + 1 /\ Len(es[i].prev) \in Nat
                      /\ es[i].hash[1] = es[i].said
    OBVIOUS
  <2> DEFINE a == es[i].said
             b == es[i].prev
  <2>1. a \in S /\ b \in Seq(S) /\ es[i].hash = <<a>> \o b
    BY <1>1, <1>2, Zenon
  <2> HIDE DEF a, b
  <2>2. <<a>> \in Seq(S) /\ Len(<<a>>) = 1 /\ <<a>>[1] = a
    BY <2>1
  <2>3. Len(<<a>> \o b) = 1 + Len(b) /\ (<<a>> \o b)[1] = a /\ Len(b) \in Nat
    BY <2>1, <2>2, ConcatProperties
  <2> QED  BY <2>1, <2>3 DEF a, b
<1>4. wrong = {}
  <2> SUFFICES ASSUME wrong # {} PROVE FALSE
    OBVIOUS
  <2>1. PICK k \in wrong : \A j \in wrong : k <= j
    <3>1. wrong \in SUBSET Nat
      OBVIOUS
    <3> HIDE DEF wrong
    <3> QED  BY <3>1, FirstExists
  <2> DEFINE i == Len(es) - k
  <2>2. k \in Nat /\ k < Len(es) /\ i \in 1 .. Len(es) /\ Len(es[i].hash) # k + 1
    BY <1>1
  <2>3. CASE k = 0
    <3>1. i = Len(es)
      BY <1>1, <2>3
    <3>2. es[i].prev = <<>>
      BY <1>1, <2>2, <3>1
    <3>3. Len(es[i].prev) = 0
      BY <3>2
    <3>4. Len(es[i].hash) = 0 + 1
      BY <1>3, <2>2, <3>3
    <3> QED  BY <2>2, <2>3, <3>4
  <2>4. CASE k # 0
    <3>1. k - 1 \in Nat /\ k - 1 < Len(es) /\ ~(k <= k - 1) /\ i # Len(es)
          /\ Len(es) - (k - 1) = i + 1
      BY <1>1, <2>2, <2>4
    <3>2. k - 1 \notin wrong
      BY <2>1, <3>1
    <3>3. Len(es[Len(es) - (k - 1)].hash) = (k - 1) + 1
      BY <3>1, <3>2
    <3>4. Len(es[i + 1].hash) = k
      BY <3>1, <3>3, <2>2
    <3>5. es[i].prev = es[i + 1].hash
      <4>1. i \in 1 .. Len(es) /\ i # Len(es)
        BY <2>2, <3>1
      <4> HIDE DEF i
      <4> QED  BY <1>1, <4>1
    <3>6. Len(es[i].hash) = Len(es[i].prev) + 1
      BY <1>3, <2>2
    <3> QED  BY <2>2, <3>4, <3>5, <3>6
  <2> QED  BY <2>3, <2>4
<1>5. \A i \in 1 .. Len(es) : Len(es[i].hash) = Len(es) - i + 1
  <2> SUFFICES ASSUME NEW i \in 1 .. Len(es) PROVE Len(es[i].hash) = Len(es) - i + 1
    OBVIOUS
  <2>1. Len(es) - i \in Nat /\ Len(es) - i < Len(es) /\ Len(es) - (Len(es) - i) = i
    BY <1>1
  <2>2. Len(es) - i \notin wrong
    BY <1>4
  <2> QED  BY <2>1, <2>2
<1>6. \A i \in 1 .. Len(es) : es[i].hash # <<>>
  BY <1>3
<1> QED  BY <1>3, <1>5, <1>6

LEMMA AlteredBroken ==
    ASSUME NEW S, NEW es \in Logs(S), Altered(es)
    PROVE  ~Intact(es)
<1> SUFFICES ASSUME Intact(es) PROVE FALSE
  OBVIOUS
<1>1. \A i \in 1 .. Len(es) : /\ es[i].hash # <<>> /\ es[i].hash[1] = es[i].said
                              /\ Len(es[i].hash) = Len(es) - i + 1
  BY IntactLength
<1>2. Len(es) \in Nat /\ DOMAIN es = 1 .. Len(es) /\ (es # <<>> => 1 \in 1 .. Len(es))
  BY DEF Logs
<1> QED  BY <1>1, <1>2 DEF Altered

LEMMA AlteredGrows ==
    ASSUME NEW S, NEW es \in Logs(S), NEW word \in S, Altered(es),
           NEW more, more = Chained(word, es)
    PROVE  Altered(more)
<1>1. more \in Logs(S) /\ Len(more) = Len(es) + 1
  BY ChainedType
<1>5. \A i \in 1 .. Len(es) : more[i + 1] = es[i]
  BY ChainedOld
<1>0. Len(more[1].hash) = (IF es = <<>> THEN 0 ELSE Len(es[1].hash)) + 1
  BY ChainedHash
<1>2. /\ Len(es) \in Nat /\ DOMAIN es = 1 .. Len(es) /\ DOMAIN more = 1 .. Len(more)
      /\ (es # <<>> => Len(es[1].hash) \in Nat)
  <2>1. es # <<>> => es[1] \in EntryOf(S)
    BY DEF Logs
  <2>2. es # <<>> => es[1].hash \in Seq(S)
    BY <2>1 DEF EntryOf
  <2> QED  BY <1>1, <2>2 DEF Logs
<1>3. CASE \E i \in DOMAIN es : es[i].hash = <<>> \/ es[i].hash[1] # es[i].said
  <2>1. PICK i \in 1 .. Len(es) : es[i].hash = <<>> \/ es[i].hash[1] # es[i].said
    BY <1>2, <1>3
  <2>2. i + 1 \in DOMAIN more /\ more[i + 1] = es[i]
    BY <1>1, <1>2, <1>5
  <2>3. more[i + 1].hash = <<>> \/ more[i + 1].hash[1] # more[i + 1].said
    BY <2>1, <2>2
  <2> QED  BY <2>2, <2>3 DEF Altered
<1>4. CASE es # <<>> /\ Len(es[1].hash) > Len(es)
  <2>1. more # <<>> /\ Len(more[1].hash) > Len(more)
    BY <1>0, <1>1, <1>2, <1>4
  <2> QED  BY <2>1 DEF Altered
<1> QED  BY <1>3, <1>4 DEF Altered

LEMMA LogsGrow ==
    ASSUME NEW S, NEW T, S \subseteq T, NEW es \in Logs(S)
    PROVE  es \in Logs(T)
<1>1. \A w \in Seq(S) : w \in Seq(T)
  OBVIOUS
<1>2. \A e \in EntryOf(S) : e \in EntryOf(T)
  BY <1>1 DEF EntryOf
<1>3. es \in Seq(EntryOf(S))
  BY DEF Logs
<1>4. es \in Seq(EntryOf(T))
  BY <1>2, <1>3
<1> QED  BY <1>4 DEF Logs

LEMMA WordsGrow ==
    ASSUME NEW n \in Nat
    PROVE  Words(n) \subseteq Words(n + 1) /\ <<"edited", n>> \in Words(n + 1)
           /\ <<"edited", n>> \notin Words(n)
<1> DEFINE edit == <<"edited", n>>
<1>1. edit \in Deeds \X Int /\ edit[1] = "edited" /\ edit[2] = n
  <2>1. "edited" \in Deeds /\ n \in Int
    BY DEF Deeds
  <2>2. edit \in Deeds \X Int
    BY <2>1
  <2> QED  BY <2>2
<1>2. \A w \in Words(n) : w \in Deeds \X Int /\ (w[1] = "edited" => w[2] < n) /\ w[2] \in Int
  BY DEF Words
<1> HIDE DEF edit
<1>3. Words(n) \subseteq Words(n + 1)
  BY <1>2 DEF Words
<1>4. edit \in Words(n + 1)
  BY <1>1 DEF Words
<1>5. edit \notin Words(n)
  BY <1>1, <1>2
<1> QED  BY <1>3, <1>4, <1>5 DEF edit

\* An entry that was edited, or that closed the gap of one that is gone, shows.
LEMMA EditAlters ==
    ASSUME crashes \in Nat, NEW es \in Logs(Words(crashes)),
           es # <<>> => Len(es[1].hash) >= Len(es), NEW new \in Edits(es)
    PROVE  /\ new \in Logs(Words(crashes + 1)) /\ Altered(new)
           /\ new # <<>> => Len(new[1].hash) >= Len(new)
           /\ Len(new) <= Len(es)
<1> DEFINE S == Words(crashes)
           T == Words(crashes + 1)
           edit == <<"edited", crashes>>
<1>1. S \subseteq T /\ edit \in T /\ edit \notin S
  BY WordsGrow
<1>2. es \in Logs(S)
  OBVIOUS
<1>3. \/ \E i \in 1 .. Len(es) : new = [es EXCEPT ![i].said = edit]
      \/ \E i \in 2 .. Len(es) : new = SubSeq(es, 1, i - 1) \o SubSeq(es, i + 1, Len(es))
  BY DEF Edits
<1> HIDE DEF S, T, edit
<1>4. es \in Logs(T)
  BY <1>1, <1>2, LogsGrow
<1>5. /\ Len(es) \in Nat /\ es \in Seq(EntryOf(T)) /\ es \in Seq(EntryOf(S))
      /\ DOMAIN es = 1 .. Len(es) /\ (es # <<>> => 1 \in 1 .. Len(es))
  BY <1>2, <1>4 DEF Logs
<1>6. \A i \in 1 .. Len(es) : /\ es[i] \in EntryOf(T) /\ es[i] \in EntryOf(S)
                              /\ es[i].hash \in Seq(S)
  <2>1. \A i \in 1 .. Len(es) : es[i] \in EntryOf(T) /\ es[i] \in EntryOf(S)
    BY <1>5
  <2> QED  BY <2>1 DEF EntryOf
<1>7. es # <<>> => Len(es[1].hash) \in Nat
  BY <1>5, <1>6
<1>8. ASSUME NEW i \in 1 .. Len(es), new = [es EXCEPT ![i].said = edit]
      PROVE  /\ new \in Logs(T) /\ Altered(new)
             /\ new # <<>> => Len(new[1].hash) >= Len(new)
             /\ Len(new) <= Len(es)
  <2> DEFINE e == [es[i] EXCEPT !.said = edit]
  <2>1. e \in EntryOf(T) /\ e.said = edit /\ e.hash = es[i].hash
    <3>1. es[i] \in EntryOf(T)
      BY <1>6
    <3> QED  BY <1>1, <3>1 DEF EntryOf
  <2>2. new = [es EXCEPT ![i] = e]
    BY <1>8
  <2> HIDE DEF e
  <2>3. /\ new \in Seq(EntryOf(T)) /\ Len(new) = Len(es) /\ DOMAIN new = DOMAIN es
        /\ \A j \in 1 .. Len(es) : new[j] = IF j = i THEN e ELSE es[j]
    BY <1>5, <2>1, <2>2
  <2>4. es[i].hash = <<>> \/ es[i].hash[1] \in S
    BY <1>6
  <2>5. new[i].hash = <<>> \/ new[i].hash[1] # new[i].said
    BY <1>1, <2>1, <2>3, <2>4
  <2>6. Altered(new)
    BY <1>5, <2>3, <2>5 DEF Altered
  <2>7. new # <<>> => Len(new[1].hash) >= Len(new)
    <3>1. new # <<>> => es # <<>> /\ 1 \in 1 .. Len(es)
      BY <1>5, <2>3
    <3>2. new # <<>> => new[1].hash = es[1].hash
      BY <2>1, <2>3, <3>1
    <3> QED  BY <2>3, <3>1, <3>2
  <2> QED  BY <1>5, <2>3, <2>6, <2>7 DEF Logs
<1>9. ASSUME NEW i \in 2 .. Len(es), new = SubSeq(es, 1, i - 1) \o SubSeq(es, i + 1, Len(es))
      PROVE  /\ new \in Logs(T) /\ Altered(new)
             /\ new # <<>> => Len(new[1].hash) >= Len(new)
             /\ Len(new) <= Len(es)
  <2> DEFINE a == SubSeq(es, 1, i - 1)
             b == SubSeq(es, i + 1, Len(es))
  <2>1. /\ a \in Seq(EntryOf(T)) /\ Len(a) = i - 1 /\ a[1] = es[1]
    <3>1. /\ 1 \in Int /\ i - 1 \in Int /\ \A j \in 1 .. i - 1 : es[j] \in EntryOf(T)
      BY <1>5, <1>6
    <3>2. /\ a \in Seq(EntryOf(T))
          /\ Len(a) = IF 1 <= i - 1 THEN i - 1 - 1 + 1 ELSE 0
          /\ \A j \in 1 .. (i - 1 - 1 + 1) : a[j] = es[1 + j - 1]
      BY <1>5, <3>1, SubSeqProperties
    <3> QED  BY <1>5, <3>2
  <2>2. b \in Seq(EntryOf(T)) /\ Len(b) = Len(es) - i
    <3>1. /\ i + 1 \in Int /\ Len(es) \in Int /\ \A j \in i + 1 .. Len(es) : es[j] \in EntryOf(T)
      BY <1>5, <1>6
    <3>2. /\ b \in Seq(EntryOf(T))
          /\ Len(b) = IF i + 1 <= Len(es) THEN Len(es) - (i + 1) + 1 ELSE 0
      BY <1>5, <3>1, SubSeqProperties
    <3>3. Len(es) - (i + 1) + 1 = Len(es) - i /\ (~(i + 1 <= Len(es)) => Len(es) - i = 0)
      <4>1. Len(es) \in Nat
        BY <1>5
      <4> QED  BY <4>1
    <3> HIDE DEF b
    <3> QED  BY <3>2, <3>3
  <2>3. new = a \o b
    BY <1>9
  <2> HIDE DEF a, b
  <2>4. new \in Seq(EntryOf(T)) /\ Len(new) = Len(es) - 1 /\ new[1] = es[1]
    <3>1. /\ a \o b \in Seq(EntryOf(T)) /\ Len(a \o b) = Len(a) + Len(b)
          /\ \A j \in 1 .. Len(a) + Len(b) : (a \o b)[j] = IF j <= Len(a) THEN a[j] ELSE b[j - Len(a)]
      BY <2>1, <2>2, ConcatProperties
    <3> QED  BY <1>5, <2>1, <2>2, <2>3, <3>1
  <2>5. es # <<>> /\ new # <<>> /\ Len(new[1].hash) > Len(new)
    BY <1>5, <1>7, <2>4
  <2>6. Altered(new)
    BY <2>5 DEF Altered
  <2> QED  BY <1>5, <1>7, <2>4, <2>5, <2>6 DEF Logs
<1>10. /\ new \in Logs(T) /\ Altered(new)
       /\ new # <<>> => Len(new[1].hash) >= Len(new)
       /\ Len(new) <= Len(es)
  BY <1>3, <1>8, <1>9, Zenon
<1> QED  BY <1>10 DEF T

LEMMA RepairedSound ==
    ASSUME NEW S, NEW es \in Logs(S), NEW new, new = Repaired(es)
    PROVE  /\ new \in Logs(S) /\ Len(new) = Len(es) /\ Intact(new)
           /\ es # <<>> => Len(new[1].hash) = Len(es) /\ new[1].said = es[1].said
<1> DEFINE w == Said(es)
<1>1. /\ w \in Seq(S) /\ Len(w) = Len(es) /\ Len(es) \in Nat
      /\ \A i \in 1 .. Len(es) : w[i] = es[i].said
  BY SaidType
<1>2. new = Signed(w)
  BY DEF Repaired
<1> HIDE DEF w
<1>3. /\ new \in Logs(S) /\ Len(new) = Len(w) /\ Intact(new)
      /\ \A i \in 1 .. Len(w) : new[i].said = w[i]
      /\ w # <<>> => Len(new[1].hash) = Len(w)
  BY <1>1, <1>2, SignedSound
<1>4. es # <<>> => 1 \in 1 .. Len(es) /\ w # <<>>
  BY <1>1 DEF Logs
<1> QED  BY <1>1, <1>3, <1>4

\* What is kept of a log.
LEMMA KeptType ==
    ASSUME NEW S, NEW es \in Logs(S), NEW k \in Nat, k >= 1, k <= Len(es), NEW new, new = SubSeq(es, 1, k)
    PROVE  new \in Logs(S) /\ Len(new) = k /\ new # <<>> /\ new[1] = es[1]
<1>1. es \in Seq(EntryOf(S)) /\ Len(es) \in Nat /\ \A i \in 1 .. Len(es) : es[i] \in EntryOf(S)
  BY DEF Logs
<1>2. 1 \in Int /\ k \in Int /\ \A j \in 1 .. k : es[j] \in EntryOf(S)
  BY <1>1
<1>3. /\ new \in Seq(EntryOf(S)) /\ Len(new) = (IF 1 <= k THEN k - 1 + 1 ELSE 0)
      /\ \A j \in 1 .. (k - 1 + 1) : new[j] = es[1 + j - 1]
  BY <1>1, <1>2, SubSeqProperties
<1>4. Len(new) = k
  BY <1>3
<1>5. new[1] = es[1]
  BY <1>3
<1> QED  BY <1>3, <1>4, <1>5 DEF Logs

\* An entry more, with the cut that may follow.
LEMMA LogStep ==
    ASSUME crashes \in Nat, NEW es, NEW t, LogOK(es, t), NEW word \in Words(crashes),
           t = "marked" => Marked(es) \/ Marks(word), Log(word, es, t)
    PROVE  /\ LogSound(entries', tamper')
           /\ entries' # <<>> /\ entries'[1].said = word /\ entries' = Grown(word, es)
           /\ Len(entries') <= MaxLog
<1> DEFINE S == Words(crashes)
           more == Chained(word, es)
<1>1. /\ es \in Logs(S) /\ (es # <<>> => Len(es[1].hash) >= Len(es))
      /\ IF t = "open" THEN Altered(es) ELSE Intact(es)
      /\ crashes = 0 => t # "open"
      /\ t \in {"none", "open", "marked", "absorbed"} /\ word \in S
  BY DEF LogOK
<1>2. /\ entries' = Grown(word, es)
      /\ tamper' = IF Len(es) < MaxLog THEN t
                   ELSE IF t = "open" THEN "absorbed"
                   ELSE IF t = "marked" /\ ~Marked(entries') THEN "none" ELSE t
  BY DEF Log
<1>3. Grown(word, es) = IF Len(more) > MaxLog THEN Cut(more) ELSE more
  BY DEF Grown
<1>4. PICK m : m = more
  OBVIOUS
<1> HIDE DEF S, more
<1>5. m = Chained(word, es)
  BY <1>4 DEF more
<1>6. m \in Logs(S) /\ Len(m) = Len(es) + 1
  BY <1>1, <1>5, ChainedType
<1>7. Len(es) \in Nat /\ MaxLog \in Nat /\ KeptLog \in 1 .. MaxLog
  BY <1>1, AdminAssumption DEF Logs
<1>8. m[1].said = word
  <2>1. es \in Logs(S) /\ word \in S
    BY <1>1
  <2>2. /\ m[1].said = word
        /\ m[1].prev = LastHash(es)
        /\ m[1].hash = <<word>> \o m[1].prev
    BY <1>5, <2>1, ChainedNew
  <2> QED  BY <2>2
<1>9. CASE Len(m) > MaxLog
  <2>1. PICK k : k = SubSeq(m, 1, KeptLog)
    OBVIOUS
  <2>2. KeptLog \in Nat /\ KeptLog >= 1 /\ KeptLog <= Len(m)
    BY <1>6, <1>7, <1>9
  <2>3. k \in Logs(S) /\ Len(k) = KeptLog /\ k # <<>> /\ k[1] = m[1]
    BY <1>6, <2>1, <2>2, KeptType
  <2>4. entries' = Repaired(k)
    BY <1>2, <1>3, <1>4, <1>9, <2>1 DEF Cut, Repaired
  <2>5. /\ entries' \in Logs(S) /\ Len(entries') = Len(k) /\ Intact(entries')
        /\ Len(entries'[1].hash) = Len(k) /\ entries'[1].said = k[1].said
    BY <2>3, <2>4, RepairedSound
  <2>6. Len(entries') <= MaxLog /\ entries' # <<>>
    BY <1>7, <2>2, <2>3, <2>5
  <2>7. ~(Len(es) < MaxLog)
    BY <1>6, <1>7, <1>9
  <2>8. /\ tamper' # "open" /\ tamper' \in {"none", "open", "marked", "absorbed"}
        /\ (tamper' = "marked" => Marked(entries'))
    BY <1>1, <1>2, <2>7
  <2>9. Len(entries'[1].hash) >= Len(entries')
    BY <2>2, <2>3, <2>5
  <2>10. LogOK(entries', tamper')
    BY <2>5, <2>8, <2>9 DEF LogOK, S
  <2> QED  BY <1>2, <1>8, <2>3, <2>5, <2>6, <2>8, <2>10 DEF LogSound
<1>10. CASE ~(Len(m) > MaxLog)
  <2>1. entries' = m /\ Len(es) < MaxLog /\ tamper' = t
    BY <1>2, <1>3, <1>4, <1>6, <1>7, <1>10
  <2>2. Len(m) <= MaxLog /\ m # <<>>
    BY <1>6, <1>7, <1>10
  <2>3. Len(m[1].hash) = (IF es = <<>> THEN 0 ELSE Len(es[1].hash)) + 1
    BY <1>1, <1>5, ChainedHash
  <2>4. Len(m[1].hash) >= Len(m)
    <3>1. es # <<>> => Len(es[1].hash) \in Nat
      <4>1. es # <<>> => es[1] \in EntryOf(S)
        BY <1>1 DEF Logs
      <4>2. es # <<>> => es[1].hash \in Seq(S)
        BY <4>1 DEF EntryOf
      <4> QED  BY <4>2
    <3>2. es = <<>> => Len(es) = 0
      OBVIOUS
    <3> QED  BY <1>1, <1>6, <1>7, <2>3, <3>1, <3>2
  <2>5. IF t = "open" THEN Altered(m) ELSE Intact(m)
    <3>1. CASE t = "open"
      <4>1. Altered(es)
        BY <1>1, <3>1
      <4>2. Altered(m)
        BY <1>1, <1>5, <4>1, AlteredGrows
      <4> QED  BY <3>1, <4>2
    <3>2. CASE t # "open"
      <4>1. Intact(es)
        BY <1>1, <3>2
      <4>2. Intact(m) <=> Intact(es)
        BY <1>1, <1>5, IntactGrows
      <4> QED  BY <3>2, <4>1, <4>2
    <3> QED  BY <3>1, <3>2
  <2>6. LogOK(m, t)
    BY <1>1, <1>6, <2>4, <2>5 DEF LogOK, S
  <2>7. t = "marked" => Marked(m)
    <3>1. CASE Marked(es)
      <4>1. PICK i \in 1 .. Len(es) : es[i].said[1] = "chain repaired"
        BY <3>1 DEF Marked
      <4>2. m[i + 1] = es[i]
        BY <1>1, <1>5, ChainedOld
      <4>3. i + 1 \in 1 .. Len(m)
        BY <1>6, <1>7
      <4> QED  BY <4>1, <4>2, <4>3 DEF Marked
    <3>2. CASE Marks(word)
      <4>1. 1 \in 1 .. Len(m)
        BY <1>6, <1>7
      <4> QED  BY <1>8, <3>2, <4>1 DEF Marked, Marks
    <3> QED  BY <3>1, <3>2
  <2> QED  BY <1>2, <1>8, <2>1, <2>2, <2>6, <2>7 DEF LogSound
<1> QED  BY <1>9, <1>10

-----------------------------------------------------------------------------
(* The steps                                                               *)

LEMMA RoomFacts ==
    ASSUME LogInv
    PROVE  /\ acts \in Nat /\ crashes \in Nat /\ Room \in Nat
           /\ Room >= MaxLog /\ Room <= MaxLog + crashes
           /\ Len(entries) \in Nat /\ Len(disk.entries) \in Nat
BY AdminAssumption DEF LogInv, Room, LogSound, LogOK, Logs

LEMMA LogInitial == AdminInit => LogInv
<1> SUFFICES ASSUME AdminInit PROVE LogInv
  OBVIOUS
<1>1. /\ entries = <<>> /\ disk.entries = <<>> /\ tamper = "none" /\ disk.tamper = "none"
      /\ acts = 0 /\ crashes = 0 /\ checkDue = TRUE
  BY DEF AdminInit, Saved
<1>2. LogSound(<<>>, "none")
  BY DEF LogSound, LogOK, Logs, Intact
<1>3. OneAhead
  BY <1>1 DEF OneAhead
<1>4. Room = MaxLog /\ Len(<<>>) = 0
  BY <1>1, AdminAssumption DEF Room
<1> QED  BY <1>1, <1>2, <1>3, <1>4, AdminAssumption DEF LogInv

\* A change is saved, then logged.
LEMMA ActStep ==
    ASSUME LogInv, NEW what \in Deeds \ {"edited"}, Act(what)
    PROVE  LogInv'
<1> DEFINE word == <<what, acts>>
<1>1. /\ acts' = acts + 1 /\ disk'.entries = entries /\ disk'.tamper = tamper
      /\ Log(word, entries, tamper) /\ UNCHANGED <<checkDue, crashes>>
  BY DEF Act, Saved
<1>2. crashes \in Nat /\ acts \in Nat
  BY RoomFacts
<1>3. word \in Words(crashes)
  <2>1. word \in Deeds \X Int /\ word[1] # "edited"
    BY <1>2
  <2> HIDE DEF word
  <2> QED  BY <2>1 DEF Words
<1> HIDE DEF word
<1>4. LogOK(entries, tamper) /\ (tamper = "marked" => Marked(entries) \/ Marks(word))
  BY DEF LogInv, LogSound
<1>5. /\ LogSound(entries', tamper')
      /\ entries' # <<>> /\ entries'[1].said = word /\ entries' = Grown(word, entries)
      /\ Len(entries') <= MaxLog
  BY <1>1, <1>2, <1>3, <1>4, LogStep
<1>6. LogSound(entries, tamper)' /\ LogSound(disk.entries, disk.tamper)'
  BY <1>1, <1>5 DEF LogInv, LogSound, LogOK
<1>7. OneAhead'
  BY <1>1, <1>5 DEF OneAhead
<1>8. Room' = Room /\ Len(entries') <= Room /\ Len(disk'.entries) <= Room
  <2>1. Len(entries) <= Room /\ Room >= MaxLog /\ Room \in Nat
    BY RoomFacts DEF LogInv
  <2>2. Room' = Room
    BY <1>1 DEF Room
  <2>3. Len(entries') \in Nat
    BY <1>5 DEF LogSound, LogOK, Logs
  <2> QED  BY <1>1, <1>5, <2>1, <2>2, <2>3, AdminAssumption
<1>9. acts' \in Nat /\ crashes' \in 0 .. MaxCrashes
  BY <1>1, <1>2 DEF LogInv
<1> QED  BY <1>6, <1>7, <1>8, <1>9 DEF LogInv

\* Only the file changes: it has what memory has, or what it had.
LEMMA SaveStep ==
    ASSUME LogInv, UNCHANGED <<entries, tamper, crashes, checkDue, acts>>,
           \/ disk'.entries = entries /\ disk'.tamper = tamper
           \/ disk'.entries = disk.entries /\ disk'.tamper = disk.tamper
    PROVE  LogInv'
<1>1. LogSound(entries, tamper)' /\ LogSound(disk.entries, disk.tamper)'
  BY DEF LogInv, LogSound, LogOK
<1>2. OneAhead'
  BY DEF LogInv, OneAhead
<1>3. Len(entries') <= Room' /\ Len(disk'.entries) <= Room'
  BY DEF LogInv, Room
<1> QED  BY <1>1, <1>2, <1>3 DEF LogInv

\* The file and memory are the same after the step.
LEMMA EvenStep ==
    ASSUME acts' \in Nat, crashes' \in 0 .. MaxCrashes, LogSound(entries, tamper)',
           disk'.entries = entries', disk'.tamper = tamper', Len(entries') <= Room'
    PROVE  LogInv'
BY DEF LogInv, LogSound, LogOK, OneAhead

LEMMA RepairStep == LogInv /\ RepairLog => LogInv'
<1> SUFFICES ASSUME LogInv, RepairLog PROVE LogInv'
  OBVIOUS
<1> DEFINE word == Marker(acts)
<1>1. /\ acts' = acts + 1 /\ ~Intact(entries) /\ Log(word, Repaired(entries), "marked")
      /\ disk'.entries = entries' /\ disk'.tamper = tamper' /\ UNCHANGED <<checkDue, crashes>>
  BY DEF RepairLog, Saved
<1>2. crashes \in Nat /\ acts \in Nat /\ crashes \in 0 .. MaxCrashes
  BY RoomFacts DEF LogInv
<1>3. word \in Words(crashes) /\ Marks(word)
  <2>1. word \in Deeds \X Int /\ word[1] = "chain repaired"
    <3>1. "chain repaired" \in Deeds /\ acts \in Int
      BY <1>2 DEF Deeds
    <3>2. word \in Deeds \X Int
      BY <3>1 DEF Marker
    <3> QED  BY <3>2 DEF Marker
  <2> HIDE DEF word
  <2> QED  BY <2>1 DEF Words, Marks
<1> HIDE DEF word
<1>4. entries \in Logs(Words(crashes)) /\ (crashes = 0 => tamper # "open")
      /\ (tamper # "open" => Intact(entries))
  BY DEF LogInv, LogSound, LogOK
<1>5. PICK es : es = Repaired(entries)
  OBVIOUS
<1>6. /\ es \in Logs(Words(crashes)) /\ Len(es) = Len(entries) /\ Intact(es)
      /\ entries # <<>> => Len(es[1].hash) = Len(entries) /\ es[1].said = entries[1].said
  BY <1>4, <1>5, RepairedSound
<1>7. es # <<>> => Len(es[1].hash) >= Len(es)
  <2>1. Len(entries) \in Nat /\ (es # <<>> => entries # <<>>)
    BY <1>4, <1>6 DEF Logs
  <2> QED  BY <1>6, <2>1
<1>8. LogOK(es, "marked")
  BY <1>1, <1>4, <1>6, <1>7 DEF LogOK
<1>9. /\ LogSound(entries', tamper') /\ Len(entries') <= MaxLog
  <2>1. Log(word, es, "marked") /\ ("marked" = "marked" => Marked(es) \/ Marks(word))
    BY <1>1, <1>3, <1>5
  <2>2. /\ LogSound(entries', tamper')
        /\ entries' # <<>> /\ entries'[1].said = word /\ entries' = Grown(word, es)
        /\ Len(entries') <= MaxLog
    BY <1>2, <1>3, <1>8, <2>1, LogStep
  <2> QED  BY <2>2
<1>10. LogSound(entries, tamper)'
  BY <1>1, <1>9 DEF LogSound, LogOK
<1>11. Len(entries') <= Room'
  <2>1. Room' = Room /\ Room >= MaxLog /\ Room \in Nat
    BY <1>1, RoomFacts DEF Room
  <2>2. Len(entries') \in Nat
    BY <1>9 DEF LogSound, LogOK, Logs
  <2> QED  BY <1>9, <2>1, <2>2, AdminAssumption
<1> QED  BY <1>1, <1>2, <1>10, <1>11, EvenStep

LEMMA ResetStep == LogInv /\ ResetState => LogInv'
<1> SUFFICES ASSUME LogInv, ResetState PROVE LogInv'
  OBVIOUS
<1>1. /\ acts' = acts + 1 /\ UNCHANGED <<checkDue, crashes>>
      /\ entries' = <<>> /\ tamper' = "none" /\ disk'.entries = entries' /\ disk'.tamper = tamper'
  BY DEF ResetState, Saved
<1>2. acts' \in Nat /\ crashes' \in 0 .. MaxCrashes
  BY <1>1 DEF LogInv
<1>3. LogSound(entries, tamper)'
  BY <1>1 DEF LogSound, LogOK, Logs, Intact
<1>4. Len(entries') <= Room'
  <2>1. Room' = Room /\ Room \in Nat
    BY <1>1, RoomFacts DEF Room
  <2>2. Len(entries') = 0
    BY <1>1
  <2> QED  BY <2>1, <2>2
<1> QED  BY <1>1, <1>2, <1>3, <1>4, EvenStep

\* A start takes the file as it is, or as somebody edited it.
LEMMA RestartStep == LogInv /\ Restart => LogInv'
<1> SUFFICES ASSUME LogInv, Restart PROVE LogInv'
  OBVIOUS
<1>1. /\ crashes < MaxCrashes /\ crashes' = crashes + 1 /\ acts' = acts /\ checkDue' = TRUE
      /\ disk'.entries = entries' /\ disk'.tamper = tamper'
      /\ \/ entries' = disk.entries /\ tamper' = disk.tamper
         \/ entries' \in Edits(disk.entries) /\ tamper' = "open"
  BY DEF Restart, Saved
<1>2. /\ crashes \in Nat /\ acts \in Nat /\ Room <= MaxLog + crashes
      /\ Len(disk.entries) \in Nat /\ Len(disk.entries) <= Room /\ Room \in Nat
  BY RoomFacts DEF LogInv
<1>3. acts' \in Nat /\ crashes' \in 0 .. MaxCrashes
  BY <1>1, <1>2, AdminAssumption
<1>4. Room' = MaxLog + crashes
  BY <1>1, <1>2, AdminAssumption DEF Room
<1>5. PICK es : es = disk.entries
  OBVIOUS
<1>6. /\ es \in Logs(Words(crashes)) /\ (es # <<>> => Len(es[1].hash) >= Len(es))
      /\ LogOK(es, disk.tamper) /\ (disk.tamper = "marked" => Marked(es))
  BY <1>5 DEF LogInv, LogSound, LogOK
<1>7. CASE entries' = disk.entries /\ tamper' = disk.tamper
  <2>1. es \in Logs(Words(crashes + 1))
    BY <1>2, <1>6, WordsGrow, LogsGrow
  <2>2. LogSound(entries, tamper)'
    BY <1>1, <1>2, <1>5, <1>6, <1>7, <2>1 DEF LogSound, LogOK
  <2>3. Len(entries') <= Room'
    BY <1>2, <1>4, <1>7, AdminAssumption
  <2> QED  BY <1>1, <1>3, <2>2, <2>3, EvenStep
<1>8. CASE entries' \in Edits(disk.entries) /\ tamper' = "open"
  <2>1. PICK new : new = entries' /\ new \in Edits(es)
    BY <1>5, <1>8
  <2>2. /\ new \in Logs(Words(crashes + 1)) /\ Altered(new)
        /\ new # <<>> => Len(new[1].hash) >= Len(new)
        /\ Len(new) <= Len(es)
    BY <1>2, <1>6, <2>1, EditAlters
  <2>3. LogSound(entries, tamper)'
    <3>1. crashes' # 0 /\ crashes' = crashes + 1
      BY <1>1, <1>2
    <3> QED  BY <1>8, <2>1, <2>2, <3>1 DEF LogSound, LogOK
  <2>4. Len(entries') <= Room'
    <3>1. Len(new) \in Nat
      BY <2>2 DEF Logs
    <3> QED  BY <1>2, <1>4, <1>5, <2>1, <2>2, <3>1, AdminAssumption
  <2> QED  BY <1>1, <1>3, <2>3, <2>4, EvenStep
<1> QED  BY <1>1, <1>7, <1>8

\* The check of the start leaves one entry more than it found, where the start left room.
LEMMA BootStep == LogInv /\ BootCheck => LogInv'
<1> SUFFICES ASSUME LogInv, BootCheck PROVE LogInv'
  OBVIOUS
<1>1. checkDue /\ checkDue' = FALSE /\ UNCHANGED <<acts, crashes>>
  BY DEF BootCheck
<1>2. /\ crashes \in Nat /\ acts \in Nat /\ Room \in Nat /\ crashes \in 0 .. MaxCrashes
      /\ Len(entries) \in Nat /\ Len(entries) <= Room
      /\ Len(disk.entries) \in Nat /\ Len(disk.entries) <= Room
  BY RoomFacts DEF LogInv
<1>3. Room' = MaxLog + crashes /\ Room = MaxLog + crashes - (IF crashes > 0 THEN 1 ELSE 0)
  BY <1>1, <1>2, AdminAssumption DEF Room
<1>4. CASE Intact(entries)
  <2>1. UNCHANGED <<entries, tamper, disk>>
    BY <1>4 DEF BootCheck
  <2>2. LogSound(entries, tamper)' /\ LogSound(disk.entries, disk.tamper)' /\ OneAhead'
    BY <1>1, <2>1 DEF LogInv, LogSound, LogOK, OneAhead
  <2>3. Room <= Room' /\ Room' \in Nat
    BY <1>2, <1>3, AdminAssumption
  <2>4. Len(entries') <= Room' /\ Len(disk'.entries) <= Room'
    BY <1>2, <2>1, <2>3
  <2> QED  BY <1>1, <1>2, <2>2, <2>4 DEF LogInv
<1>5. CASE ~Intact(entries)
  <2> DEFINE word == Marker(-crashes)
  <2>1. /\ entries' = Chained(word, Repaired(entries)) /\ tamper' = "marked"
        /\ disk'.entries = entries' /\ disk'.tamper = tamper'
    BY <1>5 DEF BootCheck, BootMark, Saved
  <2>2. entries \in Logs(Words(crashes)) /\ crashes > 0
    <3>1. LogOK(entries, tamper)
      BY DEF LogInv, LogSound
    <3>2. tamper = "open"
      BY <1>5, <3>1 DEF LogOK
    <3> QED  BY <1>2, <3>1, <3>2 DEF LogOK
  <2>3. word \in Words(crashes) /\ Marks(word)
    <3>1. "chain repaired" \in Deeds /\ -crashes \in Int
      BY <1>2 DEF Deeds
    <3>2. word \in Deeds \X Int /\ word[1] = "chain repaired"
      BY <3>1 DEF Marker
    <3> HIDE DEF word
    <3> QED  BY <3>2 DEF Words, Marks
  <2> HIDE DEF word
  <2>4. PICK es : es = Repaired(entries)
    OBVIOUS
  <2>5. /\ es \in Logs(Words(crashes)) /\ Len(es) = Len(entries) /\ Intact(es)
        /\ entries # <<>> => Len(es[1].hash) = Len(entries) /\ es[1].said = entries[1].said
    BY <2>2, <2>4, RepairedSound
  <2>6. PICK m : m = Chained(word, es)
    OBVIOUS
  <2>7. m \in Logs(Words(crashes)) /\ Len(m) = Len(es) + 1
    BY <2>3, <2>5, <2>6, ChainedType
  <2>8. Len(m[1].hash) = (IF es = <<>> THEN 0 ELSE Len(es[1].hash)) + 1
    <3>1. /\ m[1].hash # <<>> /\ m[1].hash[1] = word
          /\ Len(m[1].hash) = (IF es = <<>> THEN 0 ELSE Len(es[1].hash)) + 1
      BY <2>3, <2>5, <2>6, ChainedHash
    <3> QED  BY <3>1
  <2>9. Intact(m)
    <3>1. Intact(m) <=> Intact(es)
      BY <2>3, <2>5, <2>6, IntactGrows
    <3> QED  BY <2>5, <3>1
  <2>10. Marked(m)
    <3>1. /\ m[1].said = word
          /\ m[1].prev = LastHash(es)
          /\ m[1].hash = <<word>> \o m[1].prev
      BY <2>3, <2>5, <2>6, ChainedNew
    <3>2. 1 \in 1 .. Len(m)
      BY <1>2, <2>5, <2>7
    <3> QED  BY <2>3, <3>1, <3>2 DEF Marked, Marks
  <2>11. Len(m[1].hash) >= Len(m)
    <3>1. es # <<>> => entries # <<>>
      BY <2>2, <2>5 DEF Logs
    <3>2. es = <<>> => Len(es) = 0
      BY <2>5 DEF Logs
    <3> QED  BY <1>2, <2>5, <2>7, <2>8, <3>1, <3>2
  <2>12. LogSound(entries, tamper)'
    BY <1>1, <2>1, <2>4, <2>6, <2>7, <2>9, <2>10, <2>11 DEF LogSound, LogOK
  <2>13. Len(entries') <= Room'
    BY <1>2, <1>3, <2>1, <2>2, <2>4, <2>5, <2>6, <2>7, AdminAssumption
  <2> QED  BY <1>1, <1>2, <2>1, <2>12, <2>13, EvenStep
<1> QED  BY <1>4, <1>5

LEMMA LogKept == LogInv /\ [AdminNext]_adminVars => LogInv'
<1> SUFFICES ASSUME LogInv, [AdminNext]_adminVars PROVE LogInv'
  OBVIOUS
<1>1. CASE \E what \in Deeds \ {"edited"} : Act(what)
  BY <1>1, ActStep
<1>2. CASE CreateAdmin \/ UpdateAdmin \/ DeleteAdmin \/ AssignCustomers \/ Verify2fa \/ Disable2fa
           \/ CreateKey \/ DeleteKey \/ ToggleKey
  <2>1. \/ Act("create") \/ Act("update") \/ Act("delete") \/ Act("assign") \/ Act("2fa on")
        \/ Act("2fa off") \/ Act("key") \/ Act("no key") \/ Act("toggle")
    BY <1>2, Zenon DEF CreateAdmin, UpdateAdmin, DeleteAdmin, AssignCustomers, Verify2fa,
                       Disable2fa, CreateKey, DeleteKey, ToggleKey
  <2>2. \E what \in Deeds \ {"edited"} : Act(what)
    BY <2>1 DEF Deeds
  <2> QED  BY <1>1, <2>2
<1>3. CASE SetUp2fa \/ SaveState
  <2>1. /\ UNCHANGED <<entries, tamper, crashes, checkDue, acts>>
        /\ disk' = Saved(admins', keys', keyMap', entries, tamper)
    <3>1. CASE SetUp2fa
      BY <3>1, Zenon DEF SetUp2fa
    <3>2. CASE SaveState
      BY <3>2, Zenon DEF SaveState
    <3> QED  BY <1>3, <3>1, <3>2
  <2>2. disk'.entries = entries /\ disk'.tamper = tamper
    BY <2>1 DEF Saved
  <2> QED  BY <2>1, <2>2, SaveStep
<1>4. CASE RepairLog \/ ResetState \/ Restart \/ BootCheck
  BY <1>4, RepairStep, ResetStep, RestartStep, BootStep
<1>5. CASE UNCHANGED adminVars
  <2>1. UNCHANGED <<entries, tamper, crashes, checkDue, acts, disk>>
    BY <1>5 DEF adminVars
  <2> QED  BY <2>1, SaveStep
<1> QED  BY <1>2, <1>3, <1>4, <1>5 DEF AdminNext

\* Records of admins and keys stay records when a field is set.
LEMMA Edited2fa ==
    ASSUME NEW R, NEW f \in [Admins -> [role : R, active : BOOLEAN, totp : BOOLEAN, pending : BOOLEAN]],
           NEW a \in Admins, NEW totp \in BOOLEAN
    PROVE  [f EXCEPT ![a].totp = totp, ![a].pending = FALSE]
             \in [Admins -> [role : R, active : BOOLEAN, totp : BOOLEAN, pending : BOOLEAN]]
OBVIOUS

LEMMA EditedPending ==
    ASSUME NEW R, NEW f \in [Admins -> [role : R, active : BOOLEAN, totp : BOOLEAN, pending : BOOLEAN]],
           NEW a \in Admins
    PROVE  [f EXCEPT ![a].pending = TRUE]
             \in [Admins -> [role : R, active : BOOLEAN, totp : BOOLEAN, pending : BOOLEAN]]
OBVIOUS

LEMMA EditedRole ==
    ASSUME NEW R, NEW f \in [Admins -> [role : R, active : BOOLEAN, totp : BOOLEAN, pending : BOOLEAN]],
           NEW a \in Admins, NEW r \in R, NEW on \in BOOLEAN
    PROVE  [f EXCEPT ![a].role = r, ![a].active = on]
             \in [Admins -> [role : R, active : BOOLEAN, totp : BOOLEAN, pending : BOOLEAN]]
OBVIOUS

LEMMA EditedKey ==
    ASSUME NEW R, NEW f \in [Keys -> [role : R, active : BOOLEAN]], NEW k \in Keys
    PROVE  [f EXCEPT ![k].active = ~@] \in [Keys -> [role : R, active : BOOLEAN]]
OBVIOUS

LEMMA AdminsKept == AdminsTyped /\ [AdminNext]_adminVars => AdminsTyped'
<1> SUFFICES ASSUME AdminsTyped, [AdminNext]_adminVars PROVE AdminsTyped'
  OBVIOUS
<1> DEFINE Records == [role : Roles \cup {NoOne}, active : BOOLEAN, totp : BOOLEAN, pending : BOOLEAN]
           KeyRecords == [role : Roles \cup {NoOne}, active : BOOLEAN]
<1>1. /\ admins \in [Admins -> Records] /\ disk.admins \in [Admins -> Records]
      /\ keys \in [Keys -> KeyRecords] /\ disk.keys \in [Keys -> KeyRecords]
  BY DEF AdminsTyped
<1>2. /\ NoAdmin \in Records /\ NoKey \in KeyRecords
      /\ \A r \in Roles : [NoAdmin EXCEPT !.role = r, !.active = TRUE] \in Records
  BY DEF NoAdmin, NoKey
<1>3. admins' \in [Admins -> Records]
  <2>1. CASE CreateAdmin
    <3>1. PICK a \in Admins, r \in Roles :
            admins' = [admins EXCEPT ![a] = [NoAdmin EXCEPT !.role = r, !.active = TRUE]]
      BY <2>1, Zenon DEF CreateAdmin
    <3>2. [NoAdmin EXCEPT !.role = r, !.active = TRUE] \in Records
      BY <1>2
    <3> HIDE DEF Records
    <3> QED  BY <1>1, <3>1, <3>2
  <2>2. CASE UpdateAdmin
    <3>1. PICK a \in Admins, r \in Roles, on \in BOOLEAN :
            admins' = [admins EXCEPT ![a].role = r, ![a].active = on]
      BY <2>2, Zenon DEF UpdateAdmin
    <3> QED  BY <1>1, <3>1, EditedRole
  <2>3. CASE DeleteAdmin
    <3>1. PICK a \in Admins : admins' = [admins EXCEPT ![a] = NoAdmin]
      BY <2>3, Zenon DEF DeleteAdmin
    <3> HIDE DEF Records
    <3> QED  BY <1>1, <1>2, <3>1
  <2>4. CASE SetUp2fa \/ Verify2fa \/ Disable2fa
    <3>1. \/ \E a \in Admins : admins' = [admins EXCEPT ![a].pending = TRUE]
          \/ \E a \in Admins : admins' = [admins EXCEPT ![a].totp = TRUE, ![a].pending = FALSE]
          \/ \E a \in Admins : admins' = [admins EXCEPT ![a].totp = FALSE, ![a].pending = FALSE]
      BY <2>4, Zenon DEF SetUp2fa, Verify2fa, Disable2fa
    <3>2. CASE \E a \in Admins : admins' = [admins EXCEPT ![a].pending = TRUE]
      <4>1. PICK a \in Admins : admins' = [admins EXCEPT ![a].pending = TRUE]
        BY <3>2
      <4>2. [admins EXCEPT ![a].pending = TRUE] \in [Admins -> Records]
        BY <1>1, EditedPending
      <4> QED  BY <4>1, <4>2
    <3>3. ASSUME NEW a \in Admins, NEW on \in BOOLEAN,
                 admins' = [admins EXCEPT ![a].totp = on, ![a].pending = FALSE]
          PROVE  admins' \in [Admins -> Records]
      BY <1>1, <3>3, Edited2fa
    <3> HIDE DEF Records
    <3> QED  BY <3>1, <3>2, <3>3
  <2>5. CASE admins' = admins
    BY <1>1, <2>5
  <2>6. CASE admins' = disk.admins
    BY <1>1, <2>6
  <2>7. CreateAdmin \/ UpdateAdmin \/ DeleteAdmin \/ SetUp2fa \/ Verify2fa \/ Disable2fa
        \/ admins' = admins \/ admins' = disk.admins
    <3>1. CASE AssignCustomers \/ CreateKey \/ DeleteKey \/ ToggleKey \/ RepairLog \/ ResetState
               \/ SaveState \/ BootCheck \/ UNCHANGED adminVars
      <4>1. admins' = admins
        BY <3>1 DEF AssignCustomers, CreateKey, DeleteKey, ToggleKey, RepairLog, ResetState, SaveState,
                    BootCheck, adminVars
      <4> QED  BY <4>1
    <3>2. CASE Restart
      BY <3>2 DEF Restart
    <3> QED  BY <3>1, <3>2, Zenon DEF AdminNext
  <2> QED  BY <2>1, <2>2, <2>3, <2>4, <2>5, <2>6, <2>7
<1>4. keys' \in [Keys -> KeyRecords]
  <2>1. CASE CreateKey \/ DeleteKey \/ ToggleKey
    <3>1. \/ \E k \in Keys, r \in Roles : keys' = [keys EXCEPT ![k] = [role |-> r, active |-> TRUE]]
          \/ \E k \in Keys : keys' = [keys EXCEPT ![k] = NoKey]
          \/ \E k \in Keys : keys' = [keys EXCEPT ![k].active = ~@]
      BY <2>1, Zenon DEF CreateKey, DeleteKey, ToggleKey
    <3>2. CASE \E k \in Keys, r \in Roles : keys' = [keys EXCEPT ![k] = [role |-> r, active |-> TRUE]]
      BY <1>1, <3>2
    <3>3. CASE \E k \in Keys : keys' = [keys EXCEPT ![k] = NoKey]
      <4>1. PICK k \in Keys : keys' = [keys EXCEPT ![k] = NoKey]
        BY <3>3
      <4> HIDE DEF KeyRecords
      <4> QED  BY <1>1, <1>2, <4>1
    <3>4. CASE \E k \in Keys : keys' = [keys EXCEPT ![k].active = ~@]
      <4>1. PICK k \in Keys : keys' = [keys EXCEPT ![k].active = ~@]
        BY <3>4
      <4>2. [keys EXCEPT ![k].active = ~@] \in [Keys -> KeyRecords]
        BY <1>1, EditedKey
      <4> QED  BY <4>1, <4>2
    <3> QED  BY <3>1, <3>2, <3>3, <3>4
  <2>2. CASE ResetState
    BY <1>2, <2>2 DEF ResetState
  <2>3. CASE keys' = keys
    BY <1>1, <2>3
  <2>4. CASE keys' = disk.keys
    BY <1>1, <2>4
  <2>5. CreateKey \/ DeleteKey \/ ToggleKey \/ ResetState \/ keys' = keys \/ keys' = disk.keys
    <3>1. CASE CreateAdmin \/ UpdateAdmin \/ DeleteAdmin \/ AssignCustomers \/ SetUp2fa \/ Verify2fa
               \/ Disable2fa \/ RepairLog \/ SaveState \/ BootCheck \/ UNCHANGED adminVars
      <4>1. keys' = keys
        BY <3>1 DEF CreateAdmin, UpdateAdmin, DeleteAdmin, AssignCustomers, SetUp2fa, Verify2fa,
                    Disable2fa, RepairLog, SaveState, BootCheck, adminVars
      <4> QED  BY <4>1
    <3>2. CASE Restart
      BY <3>2 DEF Restart
    <3> QED  BY <3>1, <3>2, Zenon DEF AdminNext
  <2> QED  BY <2>1, <2>2, <2>3, <2>4, <2>5
<1>5. \/ disk'.admins = admins' /\ disk'.keys = keys'
      \/ disk'.admins = disk.admins /\ disk'.keys = disk.keys
  <2>1. CASE \E what : Act(what)
    BY <2>1 DEF Act, Saved
  <2>2. CASE SetUp2fa \/ RepairLog \/ ResetState \/ SaveState \/ Restart
    <3>1. \E m, es, t : disk' = Saved(admins', keys', m, es, t)
      <4>1. CASE SetUp2fa
        BY <4>1, Zenon DEF SetUp2fa
      <4>2. CASE RepairLog \/ ResetState \/ SaveState \/ Restart
        BY <4>2 DEF RepairLog, ResetState, SaveState, Restart
      <4> QED  BY <2>2, <4>1, <4>2
    <3> QED  BY <3>1 DEF Saved
  <2>3. CASE BootCheck \/ UNCHANGED adminVars
    BY <2>3 DEF BootCheck, adminVars, Saved
  <2>4. CASE CreateAdmin \/ UpdateAdmin \/ DeleteAdmin \/ AssignCustomers \/ Verify2fa \/ Disable2fa
             \/ CreateKey \/ DeleteKey \/ ToggleKey
    BY <2>1, <2>4, Zenon DEF CreateAdmin, UpdateAdmin, DeleteAdmin, AssignCustomers, Verify2fa,
                             Disable2fa, CreateKey, DeleteKey, ToggleKey
  <2> QED  BY <2>2, <2>3, <2>4, Zenon DEF AdminNext
<1> HIDE DEF Records, KeyRecords
<1>6. disk'.admins \in [Admins -> Records] /\ disk'.keys \in [Keys -> KeyRecords]
  BY <1>1, <1>3, <1>4, <1>5
<1> QED  BY <1>3, <1>4, <1>6 DEF AdminsTyped, Records, KeyRecords

LEMMA AuditFollows == AdminInv => AuditTells
<1> SUFFICES ASSUME AdminInv PROVE AuditTells
  OBVIOUS
<1>1. LogOK(entries, tamper) /\ (tamper = "marked" => Marked(entries))
  BY DEF AdminInv, LogInv, LogSound
<1>2. tamper = "open" <=> ~Intact(entries)
  BY <1>1, AlteredBroken DEF LogOK
<1>3. Len(entries) <= MaxLog + MaxCrashes
  <2>1. Len(entries) <= Room /\ Room <= MaxLog + crashes /\ crashes \in 0 .. MaxCrashes
        /\ Len(entries) \in Nat /\ Room \in Nat
    BY RoomFacts DEF AdminInv, LogInv
  <2> QED  BY <2>1, AdminAssumption
<1>4. AdminTypeOK
  BY <1>1, <1>3 DEF AdminInv, AdminsTyped, AdminTypeOK, LogOK
<1>5. AuditHonest
  BY <1>1, <1>2 DEF AdminInv, LogInv, OneAhead, AuditHonest
<1> QED  BY <1>4, <1>5 DEF AuditTells

\* The chain of the audit log holds until somebody edits the file and no longer, through cuts,
\* repairs, restarts and resets; a repair leaves its marker until a cut drops it; and memory is
\* never more than one entry ahead of the file.
THEOREM AuditCorrect == Spec => []AuditTells
<1>1. Init => AdminInv
  <2>1. AdminInit => AdminsTyped
    BY DEF AdminInit, AdminsTyped, NoAdmin, NoKey, Saved
  <2> QED  BY <2>1, LogInitial DEF Init, AdminInv
<1>2. AdminInv /\ [Next]_accountsVars => AdminInv'
  <2> SUFFICES ASSUME AdminInv, [Next]_accountsVars PROVE AdminInv'
    OBVIOUS
  <2>1. [AdminNext]_adminVars
    BY DEF Next, Vendor, accountsVars
  <2> QED  BY <2>1, LogKept, AdminsKept DEF AdminInv
<1> QED  BY <1>1, <1>2, AuditFollows, PTL DEF Spec

-----------------------------------------------------------------------------
(* StateIntegrity                                                          *)

RemainsInv == IntegrityTypeOK /\ BoxesLetGo

LEMMA GoneKept ==
    ASSUME RemainsInv, NEW c \in living, NEW kinds, CustomerGone(c, kinds),
           LetGo(c) \/ LeftBehind(c)
    PROVE  RemainsInv'
<1> USE DEF RemainsInv, IntegrityTypeOK, BoxesLetGo, CustomerGone
<1>0. c \in Households
  OBVIOUS
<1>1. /\ living' \cup dead' \subseteq Households /\ odd' \subseteq Households
      /\ kept' \in [Households -> SUBSET RecordKinds]
      /\ family' \in [Households -> SUBSET Persons]
      /\ named' \in [Households -> SUBSET Persons]
  BY <1>0
<1>2. CASE LetGo(c)
  <2>1. ownerOf' = [b \in Boxes |-> IF ownerOf[b] = c THEN NoOwner ELSE ownerOf[b]] /\ strays' = strays
    BY <1>2 DEF LetGo, Unassigned
  <2> QED  BY <1>1, <2>1
<1>3. CASE LeftBehind(c)
  <2>1. ownerOf' = ownerOf /\ strays' = strays \cup {b \in Boxes : ownerOf[b] = c}
    BY <1>3 DEF LeftBehind, BoxesOf
  <2> QED  BY <1>1, <2>1
<1> QED  BY <1>2, <1>3

LEMMA RemainsStep == RemainsInv /\ [IntegrityNext]_integrityVars => RemainsInv'
<1> SUFFICES ASSUME RemainsInv, [IntegrityNext]_integrityVars PROVE RemainsInv'
  OBVIOUS
<1> USE DEF RemainsInv, IntegrityTypeOK, BoxesLetGo
<1>1. CASE NewCustomer
  BY <1>1 DEF NewCustomer
<1>2. CASE AddRecord
  <2>1. AfterReset \subseteq RecordKinds /\ {"family", "schedules"} \subseteq RecordKinds
    BY DEF RecordKinds, AfterReset
  <2> QED  BY <1>2, <2>1 DEF AddRecord
<1>3. CASE AddPerson
  BY <1>3 DEF AddPerson
<1>4. CASE DeletePerson
  BY <1>4 DEF DeletePerson
<1>5. CASE UpdateSchedule
  BY <1>5 DEF UpdateSchedule
<1>6. CASE AssignBox
  BY <1>6 DEF AssignBox
<1>7. CASE AuthorizeBox
  BY <1>7 DEF AuthorizeBox
<1>8. CASE BoxReports
  <2>1. {"usage", "archive"} \subseteq RecordKinds /\ {"notifications"} \subseteq RecordKinds
    BY DEF RecordKinds, AfterReset
  <2> QED  BY <1>8, <2>1 DEF BoxReports
<1>9. CASE DeleteAtOnce
  BY <1>9, GoneKept, Zenon DEF DeleteAtOnce
<1>10. CASE ScheduledDeletion
  <2>1. CASE lacking
    BY <1>10, <2>1 DEF ScheduledDeletion
  <2>2. CASE ~lacking
    BY <1>10, <2>2, GoneKept, Zenon DEF ScheduledDeletion
  <2> QED  BY <2>1, <2>2
<1>11. CASE StaffDelete
  BY <1>11, GoneKept, Zenon DEF StaffDelete
<1>12. CASE BulkDelete
  BY <1>12, GoneKept, Zenon DEF BulkDelete
<1>13. CASE Unseed
  BY <1>13, GoneKept, Zenon DEF Unseed
<1>14. CASE ResetAll
  BY <1>14 DEF ResetAll
<1>15. CASE StartAgain
  BY <1>15 DEF StartAgain
<1>16. CASE RunStateIntegrityCheck
  BY <1>16 DEF RunStateIntegrityCheck
<1>17. CASE Autofix
  BY <1>17 DEF Autofix, Pruned
<1>18. CASE UNCHANGED integrityVars
  BY <1>18 DEF integrityVars
<1> QED  BY <1>1, <1>2, <1>3, <1>4, <1>5, <1>6, <1>7, <1>8, <1>9, <1>10, <1>11, <1>12, <1>13,
            <1>14, <1>15, <1>16, <1>17, <1>18 DEF IntegrityNext, IntegrityChange

\* A repair mends what it looks at, and only that.
LEMMA MendStep ==
    ASSUME RemainsInv, Autofix
    PROVE  /\ report' \subseteq {<<"box", b>> : b \in Boxes} \cup {<<"plan", c>> : c \in Households}
                \cup {<<"key", "box_state">>}
           /\ \A c \in living : /\ kept'[c] = kept[c] /\ family'[c] = family[c]
                                /\ StoppedPersons'[c] = StoppedPersons[c]
<1> USE DEF RemainsInv, IntegrityTypeOK
<1>1. \A c \in Households \ living : kept'[c] \cap Checked = {}
  <2>1. Checked \subseteq Mended
    BY DEF Checked, Mended, RecordKinds, AfterReset
  <2> QED  BY <2>1 DEF Autofix
<1>2. \A c \in Households : "schedules" \in kept'[c] => named'[c] \subseteq family'[c]
  BY DEF Autofix, Pruned
<1>3. odd \subseteq Households
  OBVIOUS
<1>4. report' = Issues(kept', family', named')
  BY DEF Autofix
<1>5. \A c \in living : /\ kept'[c] = kept[c] /\ family'[c] = family[c]
                        /\ StoppedPersons'[c] = StoppedPersons[c]
  BY DEF Autofix, Pruned, StoppedPersons
<1>6. report' \subseteq {<<"box", b>> : b \in Boxes} \cup {<<"plan", c>> : c \in Households}
                \cup {<<"key", "box_state">>}
  <2>1. {x \in Households \ living : kept'[x] \cap Checked # {}} = {}
    BY <1>1
  <2>2. {x \in Households : "schedules" \in kept'[x] /\ ~(named'[x] \subseteq family'[x])} = {}
    BY <1>2
  <2> QED  BY <1>3, <1>4, <2>1, <2>2 DEF Issues
<1> QED  BY <1>5, <1>6

-----------------------------------------------------------------------------
(* HouseRules                                                              *)

LEMMA RecordedHistory ==
    ASSUME NEW S, NEW log \in Seq(S), Len(log) <= KeptHistory, NEW op, NEW i, <<op, i>> \in S
    PROVE  Recorded(log, op, i) \in Seq(S) /\ Len(Recorded(log, op, i)) <= KeptHistory
<1> DEFINE all == Append(log, <<op, i>>)
<1>1. all \in Seq(S) /\ Len(all) = Len(log) + 1 /\ all # <<>>
  OBVIOUS
<1>2. KeptHistory \in Nat
  BY HouseAssumption
<1>3. Recorded(log, op, i) = IF Len(all) > KeptHistory THEN Tail(all) ELSE all
  BY DEF Recorded
<1> HIDE DEF all
<1>4. Tail(all) \in Seq(S) /\ Len(Tail(all)) = Len(all) - 1
  BY <1>1
<1> QED  BY <1>1, <1>2, <1>3, <1>4

Entries == {"add", "update", "delete"} \X RuleIds

LEMMA NoteKept ==
    ASSUME HouseInv, NEW op \in {"add", "update", "delete"}, NEW i \in RuleIds,
           rule_history' = Recorded(rule_history, op, i)
    PROVE  rule_history' \in Seq(Entries) /\ Len(rule_history') <= KeptHistory
<1>1. rule_history \in Seq(Entries) /\ Len(rule_history) <= KeptHistory
  BY DEF HouseInv, HouseTypeOK, Entries
<1>2. <<op, i>> \in Entries
  BY DEF Entries
<1> QED  BY <1>1, <1>2, RecordedHistory

\* The new rule has the next free id.
LEMMA NextId ==
    ASSUME HouseInv, made < MaxRules
    PROVE  made + 1 \in RuleIds /\ made + 1 \in 0 .. MaxRules
  BY HouseAssumption DEF HouseInv, HouseTypeOK, RuleIds

Plain(d) == [value |-> <<d, "plain">>, action |-> "block", enabled |-> TRUE,
             expires |-> None, notified |-> FALSE]

LEMMA PlainRule == \A d \in Gadgets : Plain(d) \in Rules
  BY DEF Plain, Rules, Values

LEMMA RulesStep ==
    ASSUME HouseInv,
           \/ \E r \in Rules : RuleAdd(r) \/ \E i \in RuleIds : RuleUpdate(i, r)
           \/ \E i \in RuleIds : RuleDelete(i)
           \/ ApplyPreset \/ Sweep
    PROVE  HouseInv'
<1> USE DEF HouseInv, HouseTypeOK, Lists, Family, Pauses, Box
<1>1. ASSUME NEW r \in Rules, RuleAdd(r) PROVE HouseInv'
  <2>1. made' \in RuleIds /\ made' \in 0 .. MaxRules
    BY <1>1, NextId DEF RuleAdd
  <2>2. rule_history' \in Seq(Entries) /\ Len(rule_history') <= KeptHistory
    BY <1>1, <2>1, NoteKept DEF RuleAdd
  <2>3. rules' \in [RuleIds -> Rules \cup {None}]
    BY <1>1, <2>1 DEF RuleAdd
  <2> QED  BY <1>1, <2>1, <2>2, <2>3 DEF RuleAdd, Entries
<1>2. ASSUME NEW r \in Rules, NEW i \in RuleIds, RuleUpdate(i, r) PROVE HouseInv'
  <2>2. rule_history' \in Seq(Entries) /\ Len(rule_history') <= KeptHistory
    BY <1>2, NoteKept DEF RuleUpdate
  <2>3. rules' \in [RuleIds -> Rules \cup {None}]
    BY <1>2 DEF RuleUpdate
  <2> QED  BY <1>2, <2>2, <2>3 DEF RuleUpdate, Entries
<1>3. ASSUME NEW i \in RuleIds, RuleDelete(i) PROVE HouseInv'
  <2>2. rule_history' \in Seq(Entries) /\ Len(rule_history') <= KeptHistory
    BY <1>3, NoteKept DEF RuleDelete
  <2>3. rules' \in [RuleIds -> Rules \cup {None}]
    BY <1>3 DEF RuleDelete, Drop
  <2> QED  BY <1>3, <2>2, <2>3 DEF RuleDelete, Entries
<1>4. CASE ApplyPreset
  <2> DEFINE r == [value |-> <<None, "category">>, action |-> "block", enabled |-> TRUE,
                   expires |-> None, notified |-> FALSE]
  <2>1. made' \in RuleIds /\ made' \in 0 .. MaxRules
    BY <1>4, NextId DEF ApplyPreset
  <2>2. rule_history' \in Seq(Entries) /\ Len(rule_history') <= KeptHistory
    BY <1>4, <2>1, NoteKept DEF ApplyPreset
  <2>3. r \in Rules
    BY DEF Rules, Values
  <2>4. rules' = [rules EXCEPT ![made'] = r]
    BY <1>4 DEF ApplyPreset
  <2> HIDE DEF r
  <2>5. rules' \in [RuleIds -> Rules \cup {None}]
    BY <2>1, <2>3, <2>4
  <2> QED  BY <1>4, <2>1, <2>2, <2>5 DEF ApplyPreset, Entries
<1>5. CASE Sweep
  <2>1. \A i \in Swept : rules[i] \in Rules
    BY DEF Swept, Present
  <2>2. \A r \in Rules : [r EXCEPT !.enabled = FALSE, !.notified = TRUE] \in Rules
    BY DEF Rules
  <2>3. \A i \in RuleIds : rules'[i] \in Rules \cup {None}
    BY <1>5, <2>1, <2>2 DEF Sweep
  <2>4. rules' \in [RuleIds -> Rules \cup {None}]
    BY <1>5, <2>3 DEF Sweep
  <2> QED  BY <1>5, <2>4 DEF Sweep
<1> QED  BY <1>1, <1>2, <1>3, <1>4, <1>5

LEMMA DeviceStep ==
    ASSUME HouseInv, NEW d \in Gadgets,
           \/ Block(d) \/ Unblock(d) \/ ForgetDevice(d) \/ DeviceReported(d)
           \/ \E k \in Kids \cup {None} : AssignDevice(d, k)
    PROVE  HouseInv'
<1> USE DEF HouseInv, HouseTypeOK, Lists, Family, Pauses, Box, House
<1>1. CASE Block(d)
  <2> DEFINE others == [i \in RuleIds |->
                     IF i \in Present /\ Named(i, d, "plain") /\ rules[i].action = "allow"
                     THEN None ELSE rules[i]]
  <2>1. others \in [RuleIds -> Rules \cup {None}]
    OBVIOUS
  <2>2. \/ rules' = others /\ UNCHANGED made
        \/ made < MaxRules /\ made' = made + 1 /\ rules' = [others EXCEPT ![made'] = Plain(d)]
    BY <1>1 DEF Block, Plain
  <2> HIDE DEF others
  <2>3. Plain(d) \in Rules
    BY PlainRule
  <2>4. rules' \in [RuleIds -> Rules \cup {None}] /\ made' \in 0 .. MaxRules
    BY <2>1, <2>2, <2>3, NextId
  <2> QED  BY <1>1, <2>4 DEF Block, Switched
<1>2. CASE Unblock(d)
  BY <1>2 DEF Unblock, Switched, Drop
<1>3. CASE ForgetDevice(d)
  BY <1>3 DEF ForgetDevice, Drop
<1>4. CASE DeviceReported(d)
  BY <1>4 DEF DeviceReported
<1>5. ASSUME NEW k \in Kids \cup {None}, AssignDevice(d, k) PROVE HouseInv'
  <2>1. \A m \in Members : family_members[m] \in SUBSET Gadgets
    BY DEF Members
  <2>2. family_members' \in [Kids -> (SUBSET Gadgets) \cup {None}]
    BY <1>5, <2>1 DEF AssignDevice
  <2> QED  BY <1>5, <2>2 DEF AssignDevice
<1> QED  BY <1>1, <1>2, <1>3, <1>4, <1>5

LEMMA FamilyStep ==
    ASSUME HouseInv,
           \/ \E k \in Kids, ds \in SUBSET Gadgets : MemberAdd(k, ds) \/ MemberUpdate(k, ds)
           \/ \E k \in Kids : MemberDelete(k)
           \/ \E ks \in SUBSET Kids, ds \in SUBSET Gadgets :
                  ScheduleSet(ks, ds) \/ \E h \in 1 .. MaxHour : SelectivePause(ks, ds, h)
           \/ \E h \in 1 .. MaxHour : Pause(h)
           \/ ScheduleDelete \/ Resume \/ SelectiveCancel \/ ResetSchedule \/ ResetCancel
    PROVE  HouseInv'
<1> USE DEF HouseInv, HouseTypeOK, Lists, Family, Pauses, Box, House
<1>1. ASSUME NEW k \in Kids, NEW ds \in SUBSET Gadgets, MemberAdd(k, ds) \/ MemberUpdate(k, ds)
      PROVE  HouseInv'
  BY <1>1 DEF MemberAdd, MemberUpdate
<1>2. ASSUME NEW k \in Kids, MemberDelete(k) PROVE HouseInv'
  BY <1>2 DEF MemberDelete
<1>3. ASSUME NEW ks \in SUBSET Kids, NEW ds \in SUBSET Gadgets, ScheduleSet(ks, ds) PROVE HouseInv'
  BY <1>3 DEF ScheduleSet
<1>4. ASSUME UNCHANGED <<Family, House>> PROVE HouseInv'
  BY <1>4
<1>5. CASE UNCHANGED <<Family, House>>
  BY <1>4, <1>5
<1>6. CASE ScheduleDelete
  BY <1>6 DEF ScheduleDelete
<1>7. ASSUME NEW ks \in SUBSET Kids, NEW ds \in SUBSET Gadgets, NEW h \in 1 .. MaxHour,
             SelectivePause(ks, ds, h)
      PROVE  HouseInv'
  BY <1>7 DEF SelectivePause
<1>8. ASSUME NEW h \in 1 .. MaxHour, Pause(h) PROVE HouseInv'
  BY <1>8 DEF Pause
<1>9. CASE Resume \/ SelectiveCancel \/ ResetSchedule \/ ResetCancel
  BY <1>9 DEF Resume, SelectiveCancel, ResetSchedule, ResetCancel
<1> QED  BY <1>1, <1>2, <1>3, <1>6, <1>7, <1>8, <1>9, Zenon

LEMMA HouseStep == HouseInv /\ [HouseNext]_houseVars => HouseInv'
<1> SUFFICES ASSUME HouseInv, [HouseNext]_houseVars PROVE HouseInv'
  OBVIOUS
<1>1. CASE ResetExecutes
  BY <1>1 DEF HouseInv, HouseTypeOK, ResetExecutes, Drop, Box
<1>2. CASE PolicyPulled
  <2> USE DEF HouseInv, HouseTypeOK
  <2>1. Stopped \subseteq Gadgets
    BY DEF Stopped
  <2>2. \A ks : Owned(ks) \subseteq Gadgets
    BY DEF Owned, Members
  <2>3. schedule # None => schedule.device_macs \subseteq Gadgets
    OBVIOUS
  <2>4. bedtime' \subseteq Gadgets
    BY <1>2, <2>2, <2>3 DEF PolicyPulled
  <2> QED  BY <1>2, <2>1, <2>4 DEF PolicyPulled, Lists, Family, Pauses
<1>3. CASE HourPasses
  <2>1. MaxHour \in Nat
    BY HouseAssumption
  <2> QED  BY <1>3, <2>1 DEF HouseInv, HouseTypeOK, HourPasses, Lists, Family, Pauses, Box
<1>4. CASE UNCHANGED houseVars
  BY <1>4 DEF HouseInv, HouseTypeOK, houseVars
<1> QED  BY <1>1, <1>2, <1>3, <1>4, RulesStep, DeviceStep, FamilyStep, Zenon DEF HouseNext

-----------------------------------------------------------------------------
(* AccountLifecycle: the accounts                                          *)

LEMMA LifeConstants ==
    /\ TopPlan \in Nat \ {0} /\ MaxUses \in Nat
    /\ TrialDays \in Nat \ {0} /\ PauseDays \in Nat \ {0} /\ GraceDays \in Nat \ {0}
    /\ CapDays \in Nat \ {0} /\ DueDays \in Nat \ {0}
    /\ Off = -1 /\ Nobody # Erased
  BY LifecycleAssumption DEF Off

\* What a call about one account changes of it.
LEMMA CustomerChanges ==
    ASSUME NEW a \in Customer
    PROVE  /\ \A st \in {"pending", "active", "suspended", "paused"} :
                 [a EXCEPT !.status = st] \in Customer
           /\ \A n \in 1 .. PauseDays :
                 [a EXCEPT !.paused = TRUE, !.resumes = n, !.status = "paused"] \in Customer
           /\ Resumed(a) \in Customer
           /\ \A n \in 0 .. 2 * TrialDays :
                 [a EXCEPT !.trial = "active", !.trialLeft = n] \in Customer
           /\ [a EXCEPT !.trial = "converted"] \in Customer
           /\ \A n \in {Off, GraceDays} : [a EXCEPT !.deletes = n] \in Customer
           /\ [a EXCEPT !.promo = TRUE] \in Customer
<1> USE LifeConstants DEF Customer, Left, Resumed
<1>1. \A st \in {"pending", "active", "suspended", "paused"} : [a EXCEPT !.status = st] \in Customer
  OBVIOUS
<1>2. \A n \in 1 .. PauseDays :
          [a EXCEPT !.paused = TRUE, !.resumes = n, !.status = "paused"] \in Customer
  <2> SUFFICES ASSUME NEW n \in 1 .. PauseDays
               PROVE  [a EXCEPT !.paused = TRUE, !.resumes = n, !.status = "paused"] \in Customer
    OBVIOUS
  <2>1. n \in Left(PauseDays)
    OBVIOUS
  <2> HIDE LifeConstants DEF Left
  <2> QED  BY <2>1
<1>3. Resumed(a) \in Customer
  OBVIOUS
<1>4. \A n \in 0 .. 2 * TrialDays : [a EXCEPT !.trial = "active", !.trialLeft = n] \in Customer
  OBVIOUS
<1>5. [a EXCEPT !.trial = "converted"] \in Customer
  OBVIOUS
<1>6. \A n \in {Off, GraceDays} : [a EXCEPT !.deletes = n] \in Customer
  OBVIOUS
<1>7. [a EXCEPT !.promo = TRUE] \in Customer
  OBVIOUS
<1> QED  BY <1>1, <1>2, <1>3, <1>4, <1>5, <1>6, <1>7

\* Calls that leave the plan, its time of grace and the deletion of every account alone.
Same(a, b) == /\ a \in Customer /\ b \in Customer
              /\ b.plan = a.plan /\ b.graceLeft = a.graceLeft /\ b.graceFrom = a.graceFrom
              /\ b.deletes = a.deletes

LEMMA SameChanges ==
    ASSUME NEW a \in Customer
    PROVE  /\ \A st \in {"pending", "active", "suspended", "paused"} :
                 Same(a, [a EXCEPT !.status = st])
           /\ \A n \in 1 .. PauseDays :
                 Same(a, [a EXCEPT !.paused = TRUE, !.resumes = n, !.status = "paused"])
           /\ Same(a, Resumed(a))
           /\ \A n \in 0 .. 2 * TrialDays :
                 Same(a, [a EXCEPT !.trial = "active", !.trialLeft = n])
           /\ Same(a, [a EXCEPT !.trial = "converted"])
           /\ Same(a, [a EXCEPT !.promo = TRUE])
<1>1. /\ \A st : LET b == [a EXCEPT !.status = st]
                 IN b.plan = a.plan /\ b.graceLeft = a.graceLeft /\ b.graceFrom = a.graceFrom /\ b.deletes = a.deletes
      /\ \A n : LET b == [a EXCEPT !.paused = TRUE, !.resumes = n, !.status = "paused"]
                 IN b.plan = a.plan /\ b.graceLeft = a.graceLeft /\ b.graceFrom = a.graceFrom /\ b.deletes = a.deletes
      /\ LET b == Resumed(a)
                 IN b.plan = a.plan /\ b.graceLeft = a.graceLeft /\ b.graceFrom = a.graceFrom /\ b.deletes = a.deletes
      /\ \A n : LET b == [a EXCEPT !.trial = "active", !.trialLeft = n]
                 IN b.plan = a.plan /\ b.graceLeft = a.graceLeft /\ b.graceFrom = a.graceFrom /\ b.deletes = a.deletes
      /\ LET b == [a EXCEPT !.trial = "converted"]
                 IN b.plan = a.plan /\ b.graceLeft = a.graceLeft /\ b.graceFrom = a.graceFrom /\ b.deletes = a.deletes
      /\ LET b == [a EXCEPT !.promo = TRUE]
                 IN b.plan = a.plan /\ b.graceLeft = a.graceLeft /\ b.graceFrom = a.graceFrom /\ b.deletes = a.deletes
  BY DEF Customer, Resumed
<1> QED  BY <1>1, CustomerChanges DEF Same

\* What holds of an account, its history and the days since its owner asked for the deletion.
AccountOK(a, h, n) ==
    /\ a \in Customer \cup {Nobody, Erased} /\ h \in Seq(Plans \X Plans) /\ n \in Left(GraceDays)
    /\ HistoryOK(a, h) /\ AskedOK(a, n)

LEMMA AccountsSplit ==
    AccountsSound <=>
        /\ account = [c \in Accounts |-> account[c]] /\ history = [c \in Accounts |-> history[c]]
        /\ asked = [c \in Accounts |-> asked[c]]
        /\ \A c \in Accounts : AccountOK(account[c], history[c], asked[c])
  BY DEF AccountsSound, AccountOK, HistorySound, AskedSound

LEMMA AccountsSplitNext ==
    AccountsSound' <=>
        /\ account' = [c \in Accounts |-> account'[c]] /\ history' = [c \in Accounts |-> history'[c]]
        /\ asked' = [c \in Accounts |-> asked'[c]]
        /\ \A c \in Accounts : AccountOK(account'[c], history'[c], asked'[c])
  BY DEF AccountsSound, AccountOK, HistorySound, AskedSound

LEMMA Living ==
    ASSUME NEW a \in Customer \cup {Nobody, Erased}
    PROVE  a \notin {Nobody, Erased} <=> a \in Customer
  BY NobodyIsNothing

LEMMA SameSound ==
    ASSUME NEW a, NEW b, Same(a, b), NEW h, NEW n, AccountOK(a, h, n)
    PROVE  AccountOK(b, h, n)
<1>1. a \notin {Nobody, Erased} /\ b \notin {Nobody, Erased} /\ a # Nobody /\ b # Nobody
  BY NobodyIsNothing DEF Same
<1>2. HistoryOK(b, h)
  BY <1>1 DEF Same, AccountOK, HistoryOK
<1>3. AskedOK(b, n)
  BY <1>1 DEF Same, AccountOK, AskedOK
<1> QED  BY <1>2, <1>3 DEF Same, AccountOK

LEMMA OpenedSound ==
    ASSUME NEW st \in {"pending", "active"}, NEW tr \in BOOLEAN, NEW p \in Plans,
           NEW h, NEW n, AccountOK(Nobody, h, n)
    PROVE  AccountOK(Opened(st, tr, p), h, n)
<1> DEFINE b == Opened(st, tr, p)
<1>1. b \in Customer
  BY LifeConstants DEF Opened, Customer, Left, Plans
<1>2. b.plan = p /\ b.graceLeft = Off /\ b.deletes = Off
  BY DEF Opened
<1> HIDE DEF b
<1>3. h = <<>> /\ n = Off
  BY DEF AccountOK, HistoryOK, AskedOK
<1>4. HistoryOK(b, h)
  <2>1. ~(b.graceLeft > 0) /\ Len(h) = 0
    BY <1>2, <1>3, LifeConstants
  <2> QED  BY <1>3, <2>1 DEF HistoryOK
<1>5. AskedOK(b, n)
  BY <1>2, <1>3 DEF AskedOK
<1> QED  BY <1>1, <1>4, <1>5 DEF AccountOK, b

LEMMA MovedSound ==
    ASSUME NEW a \in Customer, NEW p \in Plans, a.plan # p, NEW h, NEW n, AccountOK(a, h, n)
    PROVE  AccountOK(Moved(a, p), Append(h, <<a.plan, p>>), n)
<1> DEFINE b == Moved(a, p)
           g == Append(h, <<a.plan, p>>)
<1>1. b \in Customer
  <2>1. {CapDays, Off} \subseteq Left(CapDays) /\ 1 \in Plans
    BY LifeConstants DEF Left, Plans
  <2> QED  BY <2>1 DEF Moved, Customer
<1>2. /\ b.plan = p /\ b.deletes = a.deletes
      /\ b.graceLeft = (IF p < a.plan THEN CapDays ELSE Off)
      /\ b.graceFrom = (IF p < a.plan THEN a.plan ELSE 1)
  BY DEF Moved, Customer
<1>3. a.plan \in Plans /\ h \in Seq(Plans \X Plans) /\ a \notin {Nobody, Erased}
  BY NobodyIsNothing DEF Customer, AccountOK
<1>4. /\ g \in Seq(Plans \X Plans) /\ Len(g) = Len(h) + 1 /\ Len(h) \in Nat
      /\ g[Len(g)] = <<a.plan, p>> /\ \A k \in 1 .. Len(h) : g[k] = h[k]
  BY <1>3
<1> HIDE DEF b, g
<1>5. g # <<>> /\ Last(g)[2] = p /\ Last(g)[1] = a.plan
  BY <1>4 DEF Last
<1>6. h # <<>> => h[Len(h)][2] = a.plan
  BY <1>3 DEF AccountOK, HistoryOK, Last
<1>7. \A k \in 1 .. Len(h) - 1 : h[k][2] = h[k + 1][1]
  BY <1>3 DEF AccountOK, HistoryOK
<1>8. \A k \in 1 .. Len(g) - 1 : g[k][2] = g[k + 1][1]
  <2> SUFFICES ASSUME NEW k \in 1 .. Len(g) - 1 PROVE g[k][2] = g[k + 1][1]
    OBVIOUS
  <2>1. CASE k = Len(h)
    <3>1. h # <<>> /\ k \in 1 .. Len(h) /\ k + 1 = Len(g)
      BY <1>3, <1>4, <2>1
    <3>2. g[k] = h[Len(h)] /\ g[k + 1] = <<a.plan, p>>
      BY <1>4, <2>1, <3>1
    <3>3. g[k + 1][1] = a.plan
      BY <3>2
    <3> QED  BY <1>6, <3>1, <3>2, <3>3
  <2>2. CASE k # Len(h)
    <3>1. k \in 1 .. Len(h) - 1 /\ k \in 1 .. Len(h) /\ k + 1 \in 1 .. Len(h)
      BY <1>4, <2>2
    <3>2. g[k] = h[k] /\ g[k + 1] = h[k + 1]
      BY <1>4, <3>1
    <3> QED  BY <1>7, <3>1, <3>2
  <2> QED  BY <2>1, <2>2
<1>9. b.graceLeft > 0 => b.graceFrom = a.plan /\ a.plan > p
  BY <1>2, LifeConstants
<1>10. HistoryOK(b, g)
  BY <1>1, <1>2, <1>5, <1>8, <1>9, NobodyIsNothing DEF HistoryOK
<1>11. AskedOK(b, n)
  BY <1>1, <1>2, <1>3, NobodyIsNothing DEF AskedOK, AccountOK
<1> QED  BY <1>1, <1>4, <1>10, <1>11 DEF AccountOK, b, g

LEMMA DeletesSound ==
    ASSUME NEW a \in Customer, NEW h, NEW n, AccountOK(a, h, n)
    PROVE  /\ AccountOK([a EXCEPT !.deletes = GraceDays], h, 0)
           /\ AccountOK([a EXCEPT !.deletes = Off], h, Off)
<1>1. ASSUME NEW d \in {GraceDays, Off}, NEW m \in {0, Off}, m = 0 <=> d = GraceDays
      PROVE  AccountOK([a EXCEPT !.deletes = d], h, m)
  <2> DEFINE b == [a EXCEPT !.deletes = d]
  <2>1. b \in Customer
    BY CustomerChanges
  <2>2. b.deletes = d /\ b.plan = a.plan /\ b.graceLeft = a.graceLeft /\ b.graceFrom = a.graceFrom
    BY DEF Customer
  <2> HIDE DEF b
  <2>3. HistoryOK(b, h)
    BY <2>1, <2>2, NobodyIsNothing DEF HistoryOK, AccountOK
  <2>4. AskedOK(b, m)
    BY <1>1, <2>1, <2>2, NobodyIsNothing, LifeConstants DEF AskedOK
  <2>5. m \in Left(GraceDays)
    BY LifeConstants DEF Left
  <2> QED  BY <2>1, <2>3, <2>4, <2>5 DEF AccountOK, b
<1> QED  BY <1>1, LifeConstants

LEMMA ErasedSound ==
    ASSUME NEW a, NEW h, NEW n, AccountOK(a, h, n)
    PROVE  AccountOK(Erased, h, Off) /\ AccountOK(Erased, <<>>, Off)
<1>1. <<>> \in Seq(Plans \X Plans) /\ Off \in Left(GraceDays)
  BY DEF Left
<1> QED  BY <1>1, LifeConstants DEF AccountOK, HistoryOK, AskedOK

Aged(a) == [a EXCEPT !.resumes = Less(@), !.trialLeft = Less(@), !.deletes = Less(@),
                      !.graceLeft = Less(@)]

LEMMA DaySound ==
    ASSUME NEW a \in Customer, NEW h, NEW n, AccountOK(a, h, n)
    PROVE  AccountOK(Aged(a), h, IF n \in {Off, GraceDays} THEN n ELSE n + 1)
<1> DEFINE b == Aged(a)
           m == IF n \in {Off, GraceDays} THEN n ELSE n + 1
<1>1. \A k \in Nat : \A x \in Left(k) : Less(x) \in Left(k)
  BY LifeConstants DEF Left, Less
<1>2. 2 * TrialDays \in Nat
  BY LifeConstants
<1>3. b \in Customer
  BY <1>1, <1>2, LifeConstants DEF Aged, Customer
<1>4. b.deletes = Less(a.deletes) /\ b.plan = a.plan /\ b.graceLeft = Less(a.graceLeft)
      /\ b.graceFrom = a.graceFrom
  BY DEF Aged, Customer
<1>5. a.deletes \in Left(GraceDays) /\ a.graceLeft \in Left(CapDays) /\ n \in Left(GraceDays)
  BY DEF Customer, AccountOK
<1> HIDE DEF b
<1>6. HistoryOK(b, h)
  <2>1. b.graceLeft > 0 => a.graceLeft > 0
    BY <1>4, <1>5, LifeConstants DEF Left, Less
  <2> QED  BY <1>3, <1>4, <2>1, NobodyIsNothing DEF HistoryOK, AccountOK
<1>7. m \in Left(GraceDays)
  BY <1>5, LifeConstants DEF Left
<1>8. AskedOK(b, m)
  <2>1. IF a.deletes # Off THEN n # Off /\ n + a.deletes = GraceDays ELSE n = Off
    BY NobodyIsNothing DEF AccountOK, AskedOK
  <2>2. IF b.deletes # Off THEN m # Off /\ m + b.deletes = GraceDays ELSE m = Off
    BY <1>4, <1>5, <2>1, LifeConstants DEF Left, Less
  <2> QED  BY <1>3, <2>2, NobodyIsNothing DEF AskedOK
<1> QED  BY <1>3, <1>6, <1>7, <1>8 DEF AccountOK, b

LEMMA OneAccount ==
    ASSUME AccountsSound, NEW c \in Accounts, NEW b, AccountOK(b, history[c], asked[c]),
           account' = [account EXCEPT ![c] = b], UNCHANGED <<history, asked>>
    PROVE  AccountsSound'
  BY AccountsSplit, AccountsSplitNext

LEMMA SomeAccounts ==
    ASSUME AccountsSound, NEW cs \in SUBSET Accounts, NEW F, F = [c \in Accounts |-> F[c]],
           \A c \in cs : AccountOK(F[c], history[c], asked[c]),
           account' = [c \in Accounts |-> IF c \in cs THEN F[c] ELSE account[c]],
           UNCHANGED <<history, asked>>
    PROVE  AccountsSound'
  BY AccountsSplit, AccountsSplitNext

LEMMA ThereIs ==
    ASSUME AccountsSound, NEW c \in Accounts
    PROVE  /\ There(c) <=> account[c] \in Customer
           /\ AccountOK(account[c], history[c], asked[c])
<1>1. AccountOK(account[c], history[c], asked[c])
  BY AccountsSplit
<1>2. account[c] \in Customer \cup {Nobody, Erased}
  BY <1>1 DEF AccountOK
<1> QED  BY <1>1, <1>2, Living DEF There

LEMMA StatusStep ==
    ASSUME AccountsSound,
           Signup \/ SetStatus \/ SubscriptionPause \/ SubscriptionResume \/ AutoResume
    PROVE  AccountsSound'
<1> USE DEF planVars
<1>1. CASE Signup
  <2>1. PICK c \in Accounts, st \in {"pending", "active"}, tr \in BOOLEAN, p \in Plans :
           account[c] = Nobody /\ account' = [account EXCEPT ![c] = Opened(st, tr, p)]
    BY <1>1 DEF Signup
  <2>2. AccountOK(Nobody, history[c], asked[c])
    BY <2>1, ThereIs
  <2>3. AccountOK(Opened(st, tr, p), history[c], asked[c])
    BY <2>2, OpenedSound
  <2> QED  BY <1>1, <2>1, <2>3, OneAccount DEF Signup
<1>2. CASE SetStatus
  <2>1. PICK cs \in SUBSET Accounts, st \in {"pending", "active", "suspended"} :
           /\ \A c \in cs : There(c)
           /\ account' = [c \in Accounts |-> IF c \in cs THEN [account[c] EXCEPT !.status = st]
                                             ELSE account[c]]
    BY <1>2 DEF SetStatus
  <2> DEFINE F == [c \in Accounts |-> [account[c] EXCEPT !.status = st]]
  <2>2. \A c \in cs : AccountOK(F[c], history[c], asked[c])
    <3> SUFFICES ASSUME NEW c \in cs PROVE AccountOK([account[c] EXCEPT !.status = st], history[c], asked[c])
      OBVIOUS
    <3>1. account[c] \in Customer /\ AccountOK(account[c], history[c], asked[c])
      BY <2>1, ThereIs
    <3>2. Same(account[c], [account[c] EXCEPT !.status = st])
      BY <3>1, SameChanges
    <3> QED  BY <3>1, <3>2, SameSound
  <2>3. account' = [c \in Accounts |-> IF c \in cs THEN F[c] ELSE account[c]]
    BY <2>1
  <2>4. F = [c \in Accounts |-> F[c]]
    OBVIOUS
  <2> HIDE DEF F
  <2> QED  BY <1>2, <2>2, <2>3, <2>4, SomeAccounts DEF SetStatus
<1>3. CASE SubscriptionPause
  <2>1. PICK c \in Accounts, n \in 1 .. PauseDays :
          /\ There(c)
          /\ account' = [account EXCEPT ![c].paused = TRUE, ![c].resumes = n, ![c].status = "paused"]
    BY <1>3 DEF SubscriptionPause
  <2> DEFINE b == [account[c] EXCEPT !.paused = TRUE, !.resumes = n, !.status = "paused"]
  <2>2. account[c] \in Customer /\ AccountOK(account[c], history[c], asked[c])
    BY <2>1, ThereIs
  <2>3. Same(account[c], b)
    BY <2>2, SameChanges
  <2>4. account' = [account EXCEPT ![c] = b]
    BY <2>1 DEF AccountsSound
  <2> HIDE DEF b
  <2>5. AccountOK(b, history[c], asked[c])
    BY <2>2, <2>3, SameSound
  <2> QED  BY <1>3, <2>4, <2>5, OneAccount DEF SubscriptionPause
<1>4. CASE SubscriptionResume
  <2>1. PICK c \in Accounts : There(c) /\ account' = [account EXCEPT ![c] = Resumed(@)]
    BY <1>4 DEF SubscriptionResume
  <2>2. account[c] \in Customer /\ AccountOK(account[c], history[c], asked[c])
    BY <2>1, ThereIs
  <2>3. AccountOK(Resumed(account[c]), history[c], asked[c])
    BY <2>2, SameChanges, SameSound
  <2>4. account' = [account EXCEPT ![c] = Resumed(account[c])]
    BY <2>1
  <2> QED  BY <1>4, <2>3, <2>4, OneAccount DEF SubscriptionResume
<1>5. CASE AutoResume
  <2> DEFINE F == [c \in Accounts |-> Resumed(account[c])]
             cs == {c \in Accounts : ResumeDue(c)}
  <2>1. \A c \in cs : AccountOK(F[c], history[c], asked[c])
    <3> SUFFICES ASSUME NEW c \in Accounts, ResumeDue(c)
                 PROVE  AccountOK(Resumed(account[c]), history[c], asked[c])
      OBVIOUS
    <3>1. account[c] \in Customer /\ AccountOK(account[c], history[c], asked[c])
      BY ThereIs DEF ResumeDue
    <3> QED  BY <3>1, SameChanges, SameSound
  <2>2. account' = [c \in Accounts |-> IF c \in cs THEN F[c] ELSE account[c]]
    BY <1>5 DEF AutoResume
  <2>3. F = [c \in Accounts |-> F[c]] /\ cs \in SUBSET Accounts
    OBVIOUS
  <2> HIDE DEF F, cs
  <2> QED  BY <1>5, <2>1, <2>2, <2>3, SomeAccounts DEF AutoResume
<1> QED  BY <1>1, <1>2, <1>3, <1>4, <1>5

LEMMA TrialStep ==
    ASSUME AccountsSound, ExtendTrial \/ TrialJob \/ ApplyPromo
    PROVE  AccountsSound'
<1> USE DEF planVars
<1>1. CASE ExtendTrial
  <2>1. PICK c \in Accounts, n \in 1 .. TrialDays :
          /\ There(c)
          /\ LET base == IF account[c].trialLeft > 0 THEN account[c].trialLeft ELSE 0 IN
             /\ base + n \leq 2 * TrialDays
             /\ account' = [account EXCEPT ![c].trial = "active", ![c].trialLeft = base + n]
    BY <1>1 DEF ExtendTrial
  <2> DEFINE base == IF account[c].trialLeft > 0 THEN account[c].trialLeft ELSE 0
             b == [account[c] EXCEPT !.trial = "active", !.trialLeft = base + n]
  <2>2. account[c] \in Customer /\ AccountOK(account[c], history[c], asked[c])
    BY <2>1, ThereIs
  <2>3. account[c].trialLeft \in Int
    BY <2>2, LifeConstants DEF Customer, Left
  <2>4. base + n \in 0 .. 2 * TrialDays
    BY <2>1, <2>3, LifeConstants
  <2>5. account' = [account EXCEPT ![c] = b]
    BY <2>1 DEF AccountsSound
  <2> HIDE DEF base
  <2>6. Same(account[c], b)
    BY <2>2, <2>4, SameChanges
  <2> HIDE DEF b
  <2>7. AccountOK(b, history[c], asked[c])
    BY <2>2, <2>6, SameSound
  <2> QED  BY <1>1, <2>5, <2>7, OneAccount DEF ExtendTrial
<1>2. CASE TrialJob
  <2> DEFINE F == [c \in Accounts |-> [account[c] EXCEPT !.trial = "converted"]]
             cs == {c \in Accounts : TrialOver(c)}
  <2>1. \A c \in cs : AccountOK(F[c], history[c], asked[c])
    <3> SUFFICES ASSUME NEW c \in Accounts, TrialOver(c)
                 PROVE  AccountOK([account[c] EXCEPT !.trial = "converted"], history[c], asked[c])
      OBVIOUS
    <3>1. account[c] \in Customer /\ AccountOK(account[c], history[c], asked[c])
      BY ThereIs DEF TrialOver
    <3> QED  BY <3>1, SameChanges, SameSound
  <2>2. account' = [c \in Accounts |-> IF c \in cs THEN F[c] ELSE account[c]]
    BY <1>2 DEF TrialJob
  <2>3. F = [c \in Accounts |-> F[c]] /\ cs \in SUBSET Accounts
    OBVIOUS
  <2> HIDE DEF F, cs
  <2> QED  BY <1>2, <2>1, <2>2, <2>3, SomeAccounts DEF TrialJob
<1>3. CASE ApplyPromo
  <2>1. PICK c \in Accounts : There(c) /\ account' = [account EXCEPT ![c].promo = TRUE]
    BY <1>3 DEF ApplyPromo
  <2> DEFINE b == [account[c] EXCEPT !.promo = TRUE]
  <2>2. account[c] \in Customer /\ AccountOK(account[c], history[c], asked[c])
    BY <2>1, ThereIs
  <2>3. Same(account[c], b)
    BY <2>2, SameChanges
  <2>4. account' = [account EXCEPT ![c] = b]
    BY <2>1 DEF AccountsSound
  <2> HIDE DEF b
  <2>5. AccountOK(b, history[c], asked[c])
    BY <2>2, <2>3, SameSound
  <2> QED  BY <1>3, <2>4, <2>5, OneAccount DEF ApplyPromo
<1> QED  BY <1>1, <1>2, <1>3

LEMMA PlansMove ==
    ASSUME AccountsSound, NEW cs, NEW p \in Plans, MovePlan(cs, p), Logged(cs, p), UNCHANGED asked
    PROVE  AccountsSound'
<1>1. \A c \in Accounts : AccountOK(account'[c], history'[c], asked'[c])
  <2> SUFFICES ASSUME NEW c \in Accounts PROVE AccountOK(account'[c], history'[c], asked[c])
    OBVIOUS
  <2>1. AccountOK(account[c], history[c], asked[c])
    BY ThereIs
  <2>2. CASE c \in Movers(cs, p)
    <3>1. account[c] \in Customer /\ account[c].plan # p
      BY <2>2, ThereIs DEF Movers
    <3>2. account'[c] = Moved(account[c], p) /\ history'[c] = Append(history[c], <<account[c].plan, p>>)
      BY <2>2 DEF MovePlan, Logged
    <3> QED  BY <2>1, <3>1, <3>2, MovedSound
  <2>3. CASE c \notin Movers(cs, p)
    <3>1. account'[c] = account[c] /\ history'[c] = history[c]
      BY <2>3 DEF MovePlan, Logged
    <3> QED  BY <2>1, <3>1
  <2> QED  BY <2>2, <2>3
<1>2. /\ account' = [c \in Accounts |-> account'[c]] /\ history' = [c \in Accounts |-> history'[c]]
      /\ asked' = [c \in Accounts |-> asked'[c]]
  BY AccountsSplit DEF MovePlan, Logged
<1> QED  BY <1>1, <1>2, AccountsSplitNext

LEMMA PlanStep ==
    ASSUME AccountsSound, RequestsSound, AdminMovesPlan \/ Approve
    PROVE  AccountsSound'
<1>1. CASE AdminMovesPlan
  <2>1. PICK p \in Plans : \E cs : MovePlan(cs, p) /\ Logged(cs, p)
    BY <1>1, Zenon DEF AdminMovesPlan
  <2>2. PICK cs : MovePlan(cs, p) /\ Logged(cs, p)
    BY <2>1
  <2> QED  BY <1>1, <2>2, PlansMove DEF AdminMovesPlan
<1>2. CASE Approve
  <2>1. PICK r \in PlanRequests :
          /\ planRequest[r] # Nobody
          /\ MovePlan({planRequest[r].customer}, planRequest[r].plan)
          /\ Logged({planRequest[r].customer}, planRequest[r].plan)
    BY <1>2 DEF Approve
  <2>2. planRequest[r].plan \in Plans
    BY <2>1 DEF RequestsSound, PlanRequest
  <2> QED  BY <1>2, <2>1, <2>2, PlansMove DEF Approve
<1> QED  BY <1>1, <1>2

LEMMA DeletionStep ==
    ASSUME AccountsSound,
           ScheduleDeletion \/ CancelDeletion \/ ScheduledDeletions \/ DeleteNow \/ AdminDelete
    PROVE  AccountsSound'
<1> USE DEF planVars
<1>1. CASE ScheduleDeletion
  <2>1. PICK c \in Accounts :
          /\ There(c)
          /\ account' = [account EXCEPT ![c].deletes = GraceDays] /\ asked' = [asked EXCEPT ![c] = 0]
    BY <1>1 DEF ScheduleDeletion
  <2>2. AccountOK([account[c] EXCEPT !.deletes = GraceDays], history[c], 0)
    BY <2>1, ThereIs, DeletesSound
  <2>3. account' = [account EXCEPT ![c] = [account[c] EXCEPT !.deletes = GraceDays]]
    BY <2>1 DEF AccountsSound
  <2>4. UNCHANGED history
    BY <1>1 DEF ScheduleDeletion
  <2> QED  BY <2>1, <2>2, <2>3, <2>4, AccountsSplit, AccountsSplitNext
<1>2. CASE CancelDeletion
  <2>1. PICK c \in Accounts :
          /\ There(c)
          /\ account' = [account EXCEPT ![c].deletes = Off] /\ asked' = [asked EXCEPT ![c] = Off]
    BY <1>2 DEF CancelDeletion
  <2>2. AccountOK([account[c] EXCEPT !.deletes = Off], history[c], Off)
    BY <2>1, ThereIs, DeletesSound
  <2>3. account' = [account EXCEPT ![c] = [account[c] EXCEPT !.deletes = Off]]
    BY <2>1 DEF AccountsSound
  <2>4. UNCHANGED history
    BY <1>2 DEF CancelDeletion
  <2> QED  BY <2>1, <2>2, <2>3, <2>4, AccountsSplit, AccountsSplitNext
<1>3. ASSUME NEW cs, Finalize(cs) PROVE AccountsSound'
  <2>1. \A c \in Accounts : AccountOK(account'[c], history'[c], asked'[c])
    BY <1>3, ThereIs, ErasedSound DEF Finalize
  <2> QED  BY <1>3, <2>1, AccountsSplitNext DEF Finalize
<1>4. CASE ScheduledDeletions \/ DeleteNow
  <2>1. \E cs : Finalize(cs)
    BY <1>4, Zenon DEF ScheduledDeletions, DeleteNow
  <2> QED  BY <1>3, <2>1
<1>5. CASE AdminDelete
  <2>1. PICK cs :
          /\ account' = [c \in Accounts |-> IF c \in cs THEN Erased ELSE account[c]]
          /\ asked' = [c \in Accounts |-> IF c \in cs THEN Off ELSE asked[c]]
    BY <1>5, Zenon DEF AdminDelete
  <2>2. UNCHANGED history
    BY <1>5 DEF AdminDelete
  <2>3. \A c \in Accounts : AccountOK(account'[c], history'[c], asked'[c])
    BY <2>1, <2>2, ThereIs, ErasedSound
  <2> QED  BY <2>1, <2>2, <2>3, AccountsSplit, AccountsSplitNext
<1> QED  BY <1>1, <1>2, <1>4, <1>5

LEMMA DayStep == AccountsSound /\ Day => AccountsSound'
<1> SUFFICES ASSUME AccountsSound, Day PROVE AccountsSound'
  OBVIOUS
<1>1. /\ account' = [c \in Accounts |-> IF ~There(c) THEN account[c] ELSE Aged(account[c])]
      /\ asked' = [c \in Accounts |-> IF asked[c] \in {Off, GraceDays} THEN asked[c] ELSE asked[c] + 1]
      /\ UNCHANGED history
  BY DEF Day, Aged, planVars
<1>2. \A c \in Accounts : AccountOK(account'[c], history'[c], asked'[c])
  <2> SUFFICES ASSUME NEW c \in Accounts PROVE AccountOK(account'[c], history[c], asked'[c])
    BY <1>1
  <2>1. AccountOK(account[c], history[c], asked[c])
    BY ThereIs
  <2>2. CASE There(c)
    BY <1>1, <2>1, <2>2, ThereIs, DaySound
  <2>3. CASE ~There(c)
    <3>1. asked[c] = Off
      BY <2>1, <2>3 DEF There, AccountOK, AskedOK
    <3> QED  BY <1>1, <2>1, <2>3, <3>1
  <2> QED  BY <2>2, <2>3
<1> QED  BY <1>1, <1>2, AccountsSplit, AccountsSplitNext

LEMMA AccountsKept == LifeInv /\ [LifeNext]_lifeVars => AccountsSound'
<1> SUFFICES ASSUME LifeInv, [LifeNext]_lifeVars PROVE AccountsSound'
  OBVIOUS
<1>1. AccountsSound /\ RequestsSound
  BY DEF LifeInv
<1>2. ASSUME UNCHANGED <<account, history, asked>> PROVE AccountsSound'
  BY <1>1, <1>2, AccountsSplit, AccountsSplitNext
<1>3. CASE RequestPlan \/ Decline \/ GenerateMonth \/ MarkInvoice \/ BillingReminders
  BY <1>2, <1>3 DEF RequestPlan, Decline, GenerateMonth, MarkInvoice, BillingReminders, planVars
<1>4. CASE UNCHANGED lifeVars
  BY <1>2, <1>4 DEF lifeVars
<1> QED  BY <1>1, <1>3, <1>4, StatusStep, TrialStep, PlanStep, DeletionStep, DayStep DEF LifeNext

-----------------------------------------------------------------------------
(* AccountLifecycle: the requests and the bills                            *)

LEMMA RequestKept ==
    ASSUME RequestsSound, RequestPlan
    PROVE  RequestsSound'
<1>1. PICK c \in Accounts, p \in Plans, r \in PlanRequests :
          /\ planRequest[r] = Nobody
          /\ planRequest' = [q \in PlanRequests |->
                IF q = r THEN [customer |-> c, plan |-> p, status |-> "pending"]
                ELSE IF q \in Superseded(c) THEN [planRequest[q] EXCEPT !.status = "superseded"]
                ELSE planRequest[q]]
  BY DEF RequestPlan
<1>2. \A q \in PlanRequests : planRequest[q] \in PlanRequest \cup {Nobody}
  BY DEF RequestsSound
<1>3. \A d \in Accounts : Superseded(d) \subseteq PlanRequests
  BY DEF Superseded
<1>4. \A q \in Superseded(c) : /\ [planRequest[q] EXCEPT !.status = "superseded"] \in PlanRequest
                               /\ [planRequest[q] EXCEPT !.status = "superseded"].status = "superseded"
  BY <1>2 DEF Superseded, PlanRequest
<1>5. planRequest' \in [PlanRequests -> PlanRequest \cup {Nobody}]
  <2>1. [customer |-> c, plan |-> p, status |-> "pending"] \in PlanRequest
    BY DEF PlanRequest
  <2> QED  BY <1>1, <1>2, <1>4, <2>1
<1>6. \A q \in PlanRequests : q # r => planRequest'[q] = planRequest[q] \/ planRequest'[q].status # "pending"
  BY <1>1, <1>4
<1>7. \A q \in Superseded(c) : q # r => planRequest'[q].status # "pending"
  BY <1>1, <1>3, <1>4
<1>8. planRequest'[r].customer = c
  BY <1>1
<1>9. \A d \in Accounts : \A q \in Superseded(d)' : q = r \/ q \in Superseded(d)
  BY <1>6 DEF Superseded
<1>10. \A d \in Accounts : r \in Superseded(d)' => d = c
  BY <1>8 DEF Superseded
<1>11. \A q \in Superseded(c)' : q = r
  BY <1>7, <1>9 DEF Superseded
<1>12. \A d \in Accounts : \A q, s \in Superseded(d)' : q = s
  BY <1>9, <1>10, <1>11 DEF RequestsSound
<1> QED  BY <1>5, <1>12 DEF RequestsSound

LEMMA DecidedKept ==
    ASSUME RequestsSound, NEW r \in PlanRequests, planRequest[r] # Nobody,
           NEW st \in {"approved", "declined"}, planRequest' = [planRequest EXCEPT ![r].status = st]
    PROVE  RequestsSound'
<1>1. planRequest[r] \in PlanRequest
  BY DEF RequestsSound
<1> DEFINE b == [planRequest[r] EXCEPT !.status = st]
<1>2. b \in PlanRequest /\ b.status = st
  BY <1>1 DEF PlanRequest
<1>3. planRequest' = [planRequest EXCEPT ![r] = b]
  BY DEF RequestsSound
<1> HIDE DEF b
<1>4. planRequest' \in [PlanRequests -> PlanRequest \cup {Nobody}]
  BY <1>2, <1>3 DEF RequestsSound
<1>5. \A q \in PlanRequests : planRequest'[q] = planRequest[q] \/ planRequest'[q].status # "pending"
  BY <1>2, <1>3 DEF RequestsSound
<1>6. \A d \in Accounts : Superseded(d)' \subseteq Superseded(d)
  BY <1>5 DEF Superseded
<1> QED  BY <1>4, <1>6 DEF RequestsSound

LEMMA RequestsKept == LifeInv /\ [LifeNext]_lifeVars => RequestsSound'
<1> SUFFICES ASSUME LifeInv, [LifeNext]_lifeVars PROVE RequestsSound'
  OBVIOUS
<1>1. RequestsSound
  BY DEF LifeInv
<1>2. ASSUME UNCHANGED planRequest PROVE RequestsSound'
  BY <1>1, <1>2 DEF RequestsSound, Superseded
<1>3. CASE RequestPlan
  BY <1>1, <1>3, RequestKept
<1>4. CASE Approve \/ Decline
  BY <1>1, <1>4, DecidedKept DEF Approve, Decline
<1>5. CASE Signup \/ SetStatus \/ SubscriptionPause \/ SubscriptionResume \/ AutoResume
  BY <1>2, <1>5 DEF Signup, SetStatus, SubscriptionPause, SubscriptionResume, AutoResume, planVars
<1>6. CASE ExtendTrial \/ TrialJob \/ AdminMovesPlan \/ ScheduleDeletion \/ CancelDeletion
  BY <1>2, <1>6 DEF ExtendTrial, TrialJob, AdminMovesPlan, ScheduleDeletion, CancelDeletion, planVars
<1>7. CASE ScheduledDeletions \/ DeleteNow \/ AdminDelete \/ ApplyPromo
  BY <1>2, <1>7 DEF ScheduledDeletions, DeleteNow, AdminDelete, ApplyPromo, planVars
<1>8. CASE GenerateMonth \/ MarkInvoice \/ BillingReminders \/ Day
  BY <1>2, <1>8 DEF GenerateMonth, MarkInvoice, BillingReminders, Day, planVars
<1>9. CASE UNCHANGED lifeVars
  BY <1>2, <1>9 DEF lifeVars
<1> QED  BY <1>3, <1>4, <1>5, <1>6, <1>7, <1>8, <1>9 DEF LifeNext

\* A bill that is changed stays one of the same customer and period, with or without a discount.
SameBill(a, b) == /\ a \in Bill /\ b \in Bill /\ SentOK(b)
                  /\ b.customer = a.customer /\ b.period = a.period /\ b.discount = a.discount

LEMMA BillsChange ==
    ASSUME BillsSound, UNCHANGED promoUses, invoice' \in [Invoices -> Bill \cup {Nobody}],
           \A i \in Invoices : invoice'[i] = invoice[i]
                               \/ (invoice[i] # Nobody /\ SameBill(invoice[i], invoice'[i]))
    PROVE  BillsSound'
<1>1. \A i \in Invoices : invoice'[i] # Nobody <=> invoice[i] # Nobody
  BY NobodyIsNothing DEF SameBill
<1>2. \A c \in Accounts, p \in Periods : InvoicesOf(c, p)' = InvoicesOf(c, p)
  BY <1>1 DEF InvoicesOf, SameBill
<1>3. Discounted' = Discounted
  BY <1>1 DEF Discounted, SameBill
<1>4. SentSound'
  BY <1>1 DEF SentSound, BillsSound, SameBill
<1>5. BilledOnce'
  BY <1>2 DEF BillsSound, BilledOnce
<1>6. CodeCounted'
  BY <1>3 DEF BillsSound, CodeCounted
<1> QED  BY <1>4, <1>5, <1>6 DEF BillsSound

LEMMA ReminderNames == \A r : r \in ToSet(Reminders) <=> r \in {"7d", "3d", "1d", "overdue"}
<1>1. Len(Reminders) = 4 /\ DOMAIN Reminders = 1 .. 4
  BY DEF Reminders
<1>2. Reminders[1] = "7d" /\ Reminders[2] = "3d" /\ Reminders[3] = "1d" /\ Reminders[4] = "overdue"
  BY DEF Reminders
<1> HIDE DEF Reminders
<1>3. \A i : i \in 1 .. 4 <=> i \in {1, 2, 3, 4}
  OBVIOUS
<1> QED  BY <1>1, <1>2, <1>3 DEF ToSet

LEMMA Ranks ==
    /\ Rank("7d") = 1 /\ Rank("3d") = 2 /\ Rank("1d") = 3 /\ Rank("overdue") = 4
<1>1. DOMAIN Reminders = 1 .. 4
  BY DEF Reminders
<1>2. Reminders[1] = "7d" /\ Reminders[2] = "3d" /\ Reminders[3] = "1d" /\ Reminders[4] = "overdue"
  BY DEF Reminders
<1> HIDE DEF Reminders
<1>3. \A k \in 1 .. 4 : /\ Reminders[k] = "7d" <=> k = 1
                        /\ Reminders[k] = "3d" <=> k = 2
                        /\ Reminders[k] = "1d" <=> k = 3
                        /\ Reminders[k] = "overdue" <=> k = 4
  <2>1. \A k \in 1 .. 4 : k = 1 \/ k = 2 \/ k = 3 \/ k = 4
    OBVIOUS
  <2> QED  BY <1>2, <2>1
<1> QED  BY <1>1, <1>3 DEF Rank

\* The later a reminder, the fewer the days that are left.
LEMMA LaterReminder ==
    ASSUME NEW r \in ToSet(Reminders), NEW q \in ToSet(Reminders), DaysOf(q) < DaysOf(r)
    PROVE  Rank(r) < Rank(q)
<1>1. r \in {"7d", "3d", "1d", "overdue"} /\ q \in {"7d", "3d", "1d", "overdue"}
  BY ReminderNames
<1> QED  BY <1>1, Ranks DEF DaysOf

LEMMA ReminderSent ==
    ASSUME NEW a \in Bill, SentOK(a), Fitting(a) \notin {"none"} \cup ToSet(a.sent)
    PROVE  SameBill(a, [a EXCEPT !.sent = Append(@, Fitting(a))])
<1> DEFINE f == Fitting(a)
           b == [a EXCEPT !.sent = Append(@, f)]
<1>1. f \in ToSet(Reminders) /\ DaysOf(f) = a.due
  <2>1. f \in {"7d", "3d", "1d", "overdue"} /\ DaysOf(f) = a.due
    BY DEF Fitting, DaysOf
  <2> QED  BY <2>1, ReminderNames
<1>2. a.sent \in Seq(ToSet(Reminders)) /\ a.due \in Int
  BY LifeConstants DEF Bill
<1> HIDE DEF f
<1>3. /\ b \in Bill /\ b.customer = a.customer /\ b.period = a.period /\ b.discount = a.discount
      /\ b.sent = Append(a.sent, f) /\ b.due = a.due
  <2>1. Append(a.sent, f) \in Seq(ToSet(Reminders))
    BY <1>1, <1>2
  <2> QED  BY <2>1 DEF Bill
<1> HIDE DEF b
<1>4. /\ DOMAIN b.sent = 1 .. Len(a.sent) + 1 /\ DOMAIN a.sent = 1 .. Len(a.sent) /\ Len(a.sent) \in Nat
      /\ b.sent[Len(a.sent) + 1] = f /\ \A k \in 1 .. Len(a.sent) : b.sent[k] = a.sent[k]
  BY <1>1, <1>2, <1>3
<1>5. \A k \in 1 .. Len(a.sent) : DaysOf(a.sent[k]) > a.due /\ a.sent[k] \in ToSet(Reminders)
  <2> SUFFICES ASSUME NEW k \in 1 .. Len(a.sent)
               PROVE  DaysOf(a.sent[k]) > a.due /\ a.sent[k] \in ToSet(Reminders)
    OBVIOUS
  <2>1. a.sent[k] \in ToSet(Reminders)
    BY <1>2
  <2>2. a.sent[k] \in ToSet(a.sent)
    BY <1>4 DEF ToSet
  <2>3. a.sent[k] # f
    BY <2>2 DEF f
  <2>4. DaysOf(a.sent[k]) >= a.due
    BY <1>4 DEF SentOK
  <2>5. DaysOf(a.sent[k]) # DaysOf(f)
    <3>1. a.sent[k] \in {"7d", "3d", "1d", "overdue"} /\ f \in {"7d", "3d", "1d", "overdue"}
      BY <1>1, <2>1, ReminderNames
    <3> QED  BY <2>3, <3>1 DEF DaysOf
  <2>6. DaysOf(a.sent[k]) \in Int
    BY DEF DaysOf
  <2> QED  BY <1>1, <1>2, <2>1, <2>4, <2>5, <2>6
<1>6. \A k \in DOMAIN b.sent : DaysOf(b.sent[k]) >= b.due
  <2> SUFFICES ASSUME NEW k \in 1 .. Len(a.sent) + 1 PROVE DaysOf(b.sent[k]) >= b.due
    BY <1>4
  <2>1. CASE k = Len(a.sent) + 1
    BY <1>1, <1>2, <1>3, <1>4, <2>1
  <2>2. CASE k # Len(a.sent) + 1
    <3>1. k \in 1 .. Len(a.sent) /\ k \in DOMAIN a.sent
      BY <1>4, <2>2
    <3> QED  BY <1>3, <1>4, <3>1 DEF SentOK
  <2> QED  BY <2>1, <2>2
<1>7. InOrderOnce(b.sent)
  <2> SUFFICES ASSUME NEW j \in 1 .. Len(a.sent) + 1, NEW k \in 1 .. Len(a.sent) + 1, j < k
               PROVE  Rank(b.sent[j]) < Rank(b.sent[k])
    BY <1>4 DEF InOrderOnce
  <2>1. j \in 1 .. Len(a.sent) /\ b.sent[j] = a.sent[j]
    BY <1>4
  <2>2. CASE k = Len(a.sent) + 1
    <3>1. b.sent[k] = f
      BY <1>4, <2>2
    <3> QED  BY <1>1, <1>5, <2>1, <3>1, LaterReminder
  <2>3. CASE k # Len(a.sent) + 1
    <3>1. k \in 1 .. Len(a.sent) /\ b.sent[k] = a.sent[k]
      BY <1>4, <2>3
    <3> QED  BY <1>4, <2>1, <3>1 DEF SentOK, InOrderOnce
  <2> QED  BY <2>2, <2>3
<1> QED  BY <1>3, <1>6, <1>7 DEF SameBill, SentOK, b, f

LEMMA BillsStep ==
    ASSUME BillsSound, MarkInvoice \/ BillingReminders \/ Day
    PROVE  BillsSound'
<1>1. \A i \in Invoices : invoice[i] # Nobody => invoice[i] \in Bill /\ SentOK(invoice[i])
  BY DEF BillsSound, SentSound
<1>2. ASSUME UNCHANGED promoUses, DOMAIN invoice' = Invoices, invoice' = [i \in Invoices |-> invoice'[i]],
             \A i \in Invoices : invoice'[i] = invoice[i]
                                 \/ (invoice[i] # Nobody /\ SameBill(invoice[i], invoice'[i]))
      PROVE  BillsSound'
  <2>1. \A i \in Invoices : invoice'[i] \in Bill \cup {Nobody}
    BY <1>2 DEF BillsSound, SameBill
  <2>2. invoice' \in [Invoices -> Bill \cup {Nobody}]
    BY <1>2, <2>1
  <2> QED  BY <1>2, <2>2, BillsChange
<1>3. CASE MarkInvoice
  <2>1. PICK i \in Invoices, b \in BOOLEAN :
           invoice[i] # Nobody /\ invoice' = [invoice EXCEPT ![i].paid = b]
    BY <1>3 DEF MarkInvoice
  <2> DEFINE new == [invoice[i] EXCEPT !.paid = b]
  <2>2. SameBill(invoice[i], new)
    <3>1. new \in Bill /\ new.customer = invoice[i].customer /\ new.period = invoice[i].period
          /\ new.discount = invoice[i].discount /\ new.sent = invoice[i].sent /\ new.due = invoice[i].due
      BY <1>1, <2>1 DEF Bill
    <3> QED  BY <1>1, <2>1, <3>1 DEF SameBill, SentOK
  <2>3. invoice' = [invoice EXCEPT ![i] = new]
    BY <2>1 DEF BillsSound
  <2> HIDE DEF new
  <2>4. invoice \in [Invoices -> Bill \cup {Nobody}]
    BY DEF BillsSound
  <2>5. DOMAIN invoice' = Invoices /\ invoice' = [j \in Invoices |-> invoice'[j]]
        /\ \A j \in Invoices : invoice'[j] = IF j = i THEN new ELSE invoice[j]
    BY <2>3, <2>4
  <2> QED  BY <1>2, <1>3, <2>1, <2>2, <2>5 DEF MarkInvoice
<1>4. CASE BillingReminders
  <2>1. invoice' = [i \in Invoices |->
          IF Reminds(i) THEN [invoice[i] EXCEPT !.sent = Append(@, Fitting(invoice[i]))]
          ELSE invoice[i]]
    BY <1>4 DEF BillingReminders
  <2>2. \A i \in Invoices : Reminds(i) =>
            invoice[i] # Nobody /\ SameBill(invoice[i], [invoice[i] EXCEPT !.sent = Append(@, Fitting(invoice[i]))])
    BY <1>1, ReminderSent DEF Reminds
  <2>3. \A i \in Invoices : invoice'[i] = invoice[i]
                            \/ (invoice[i] # Nobody /\ SameBill(invoice[i], invoice'[i]))
    BY <2>1, <2>2
  <2>4. DOMAIN invoice' = Invoices /\ invoice' = [i \in Invoices |-> invoice'[i]]
    BY <2>1
  <2> QED  BY <1>2, <1>4, <2>3, <2>4 DEF BillingReminders
<1>5. CASE Day
  <2>1. invoice' = [i \in Invoices |-> IF invoice[i] = Nobody THEN Nobody ELSE
          [invoice[i] EXCEPT !.due = IF @ = -1 THEN -1 ELSE @ - 1]]
    BY <1>5 DEF Day
  <2>2. ASSUME NEW i \in Invoices, invoice[i] # Nobody
        PROVE  SameBill(invoice[i], [invoice[i] EXCEPT !.due = IF @ = -1 THEN -1 ELSE @ - 1])
    <3> DEFINE a == invoice[i]
               d == IF a.due = -1 THEN -1 ELSE a.due - 1
               b == [a EXCEPT !.due = d]
    <3>1. a \in Bill /\ SentOK(a)
      BY <1>1, <2>2
    <3>2. a.due \in -1 .. DueDays
      BY <3>1 DEF Bill
    <3>3. d \in -1 .. DueDays /\ d <= a.due /\ d \in Int /\ a.due \in Int
      BY <3>2, LifeConstants
    <3> HIDE DEF d
    <3>4. b \in Bill /\ b.customer = a.customer /\ b.period = a.period /\ b.discount = a.discount
          /\ b.sent = a.sent /\ b.due = d
      BY <3>1, <3>3 DEF Bill
    <3> HIDE DEF b, a
    <3>5. \A r : DaysOf(r) \in Int
      BY DEF DaysOf
    <3>6. SentOK(b)
      BY <3>1, <3>3, <3>4, <3>5 DEF SentOK
    <3> QED  BY <3>1, <3>4, <3>6 DEF SameBill, a, b, d
  <2>3. \A i \in Invoices : invoice'[i] = invoice[i]
                            \/ (invoice[i] # Nobody /\ SameBill(invoice[i], invoice'[i]))
    BY <2>1, <2>2
  <2>4. DOMAIN invoice' = Invoices /\ invoice' = [i \in Invoices |-> invoice'[i]]
    BY <2>1
  <2> QED  BY <1>2, <1>5, <2>3, <2>4 DEF Day
<1> QED  BY <1>3, <1>4, <1>5

LEMMA NewBills ==
    ASSUME BillsSound, AccountsSound, GenerateMonth
    PROVE  BillsSound'
<1>1. PICK p \in Periods : \E ds \in SUBSET ToBill(p), of \in [ToBill(p) -> Invoices] :
          /\ UsesLeft(ToBill(p), ds)
          /\ IsInjective(of)
          /\ \A c \in ToBill(p) : invoice[of[c]] = Nobody
          /\ invoice' = [i \in Invoices |->
                IF \E c \in ToBill(p) : of[c] = i
                THEN LET c == CHOOSE c \in ToBill(p) : of[c] = i IN
                     [customer |-> c, period |-> p, plan |-> account[c].plan, paid |-> FALSE,
                      discount |-> c \in ds, due |-> DueDays, sent |-> <<>>]
                ELSE invoice[i]]
          /\ promoUses' = promoUses + Cardinality(ds)
  BY DEF GenerateMonth
<1> DEFINE cs == ToBill(p)
<1>2. PICK ds \in SUBSET cs, of \in [cs -> Invoices] :
          /\ UsesLeft(cs, ds)
          /\ IsInjective(of)
          /\ \A c \in cs : invoice[of[c]] = Nobody
          /\ invoice' = [i \in Invoices |->
                IF \E c \in cs : of[c] = i
                THEN LET c == CHOOSE c \in cs : of[c] = i IN
                     [customer |-> c, period |-> p, plan |-> account[c].plan, paid |-> FALSE,
                      discount |-> c \in ds, due |-> DueDays, sent |-> <<>>]
                ELSE invoice[i]]
          /\ promoUses' = promoUses + Cardinality(ds)
  BY <1>1
<1> DEFINE NewBill(c) == [customer |-> c, period |-> p, plan |-> account[c].plan, paid |-> FALSE,
                          discount |-> c \in ds, due |-> DueDays, sent |-> <<>>]
           mine == {of[c] : c \in cs}
<1>3. cs \subseteq Accounts /\ \A c \in cs : Active(c) /\ InvoicesOf(c, p) = {}
  BY DEF ToBill
<1>4. \A c, d \in cs : of[c] = of[d] => c = d
  BY <1>2 DEF IsInjective
<1>5. \A c \in cs : invoice'[of[c]] = NewBill(c)
  <2> SUFFICES ASSUME NEW c \in cs PROVE invoice'[of[c]] = NewBill(c)
    OBVIOUS
  <2>1. of[c] \in Invoices /\ \E d \in cs : of[d] = of[c]
    BY <1>2
  <2>2. (CHOOSE d \in cs : of[d] = of[c]) = c
    BY <1>4
  <2>3. invoice'[of[c]] = NewBill(CHOOSE d \in cs : of[d] = of[c])
    BY <1>2, <2>1
  <2> QED  BY <2>2, <2>3
<1>6. \A i \in Invoices : i \notin mine => invoice'[i] = invoice[i]
  BY <1>2
<1>7. \A c \in cs : NewBill(c) \in Bill /\ SentOK(NewBill(c))
  <2> SUFFICES ASSUME NEW c \in cs PROVE NewBill(c) \in Bill /\ SentOK(NewBill(c))
    OBVIOUS
  <2>1. c \in Accounts /\ account[c].plan \in Plans
    <3>1. c \in Accounts /\ There(c)
      BY <1>3 DEF Active
    <3>2. account[c] \in Customer
      BY <3>1, ThereIs
    <3> QED  BY <3>1, <3>2 DEF Customer
  <2>2. <<>> \in Seq(ToSet(Reminders)) /\ DueDays \in -1 .. DueDays
    BY LifeConstants
  <2>3. NewBill(c) \in Bill
    BY <2>1, <2>2 DEF Bill
  <2>4. NewBill(c).sent = <<>> /\ DOMAIN NewBill(c).sent = {}
    OBVIOUS
  <2> HIDE DEF NewBill
  <2> QED  BY <2>3, <2>4 DEF SentOK, InOrderOnce
<1>8. \A c \in cs : of[c] \in Invoices /\ NewBill(c) # Nobody
  BY <1>2, <1>7, NobodyIsNothing
<1>9. \A c \in cs : NewBill(c).customer = c /\ NewBill(c).period = p /\ (NewBill(c).discount <=> c \in ds)
  OBVIOUS
<1> HIDE DEF NewBill, cs
<1>10. invoice' \in [Invoices -> Bill \cup {Nobody}]
  <2>1. \A i \in Invoices : invoice'[i] \in Bill \cup {Nobody}
    BY <1>5, <1>6, <1>7 DEF BillsSound
  <2> QED  BY <1>2, <2>1
<1>11. SentSound'
  BY <1>5, <1>6, <1>7 DEF SentSound, BillsSound
<1>12. BilledOnce'
  <2> SUFFICES ASSUME NEW d \in Accounts, NEW q \in Periods,
                      NEW i \in Invoices, NEW j \in Invoices,
                      invoice'[i] # Nobody, invoice'[i].customer = d, invoice'[i].period = q,
                      invoice'[j] # Nobody, invoice'[j].customer = d, invoice'[j].period = q
               PROVE  i = j
    BY DEF BilledOnce, InvoicesOf
  <2>1. \A k \in Invoices : k \in mine \/ (invoice'[k] # Nobody /\ invoice'[k].customer = d
                                           /\ invoice'[k].period = q => k \in InvoicesOf(d, q))
    BY <1>6 DEF InvoicesOf
  <2>2. \A k \in mine : invoice'[k].customer = d /\ invoice'[k].period = q =>
            d \in cs /\ q = p /\ of[d] = k
    BY <1>5, <1>9
  <2>3. CASE i \in mine \/ j \in mine
    <3>1. InvoicesOf(d, q) = {}
      BY <1>3, <2>2, <2>3
    <3> QED  BY <2>1, <2>2, <3>1
  <2>4. CASE ~(i \in mine \/ j \in mine)
    BY <2>1, <2>4 DEF BillsSound, BilledOnce
  <2> QED  BY <2>3, <2>4
<1>13. CodeCounted'
  <2> DEFINE gave == {of[c] : c \in ds}
  <2>1. \A i \in Invoices : i \in Discounted' <=> i \in Discounted \/ i \in gave
    <3> SUFFICES ASSUME NEW i \in Invoices PROVE i \in Discounted' <=> i \in Discounted \/ i \in gave
      OBVIOUS
    <3>1. CASE i \in mine
      <4>1. PICK c \in cs : i = of[c]
        BY <3>1
      <4>2. i \in Discounted' <=> c \in ds
        BY <1>5, <1>8, <1>9, <4>1 DEF Discounted
      <4>3. i \notin Discounted
        BY <1>2, <4>1 DEF Discounted
      <4>4. i \in gave <=> c \in ds
        BY <1>4, <4>1
      <4> QED  BY <4>2, <4>3, <4>4
    <3>2. CASE i \notin mine
      BY <1>6, <3>2 DEF Discounted
    <3> QED  BY <3>1, <3>2
  <2>2. Discounted' = Discounted \cup gave /\ Discounted \cap gave = {}
    <3>1. Discounted' \subseteq Invoices /\ Discounted \subseteq Invoices /\ gave \subseteq Invoices
      BY <1>2 DEF Discounted
    <3>2. \A c \in ds : invoice[of[c]] = Nobody
      BY <1>2
    <3> QED  BY <2>1, <3>1, <3>2 DEF Discounted
  <2>3. IsFiniteSet(ds)
    <3>1. ds \subseteq Accounts
      BY <1>2, <1>3
    <3> QED  BY <3>1, LifecycleAssumption, FS_Subset
  <2>4. IsFiniteSet(gave) /\ Cardinality(gave) = Cardinality(ds)
    <3> DEFINE f == [c \in ds |-> of[c]]
    <3>1. f \in [ds -> gave] /\ (\A t \in gave : \E c \in ds : f[c] = t)
          /\ DOMAIN f = ds
      OBVIOUS
    <3>2. \A c, d \in ds : f[c] = f[d] => c = d
      BY <1>4
    <3> HIDE DEF f, gave
    <3>3. IsInjective(f)
      BY <3>1, <3>2 DEF IsInjective
    <3>4. f \in Injection(ds, gave) /\ f \in Surjection(ds, gave)
      BY <3>1, <3>3 DEF Injection, Surjection
    <3>5. f \in Bijection(ds, gave)
      BY <3>4, Zenon DEF Bijection
    <3>6. ExistsBijection(ds, gave)
      BY <3>5, Zenon DEF ExistsBijection
    <3> QED  BY <2>3, <3>6, FS_Bijection
  <2>5. IsFiniteSet(Discounted) /\ promoUses = Cardinality(Discounted)
    BY DEF BillsSound, CodeCounted
  <2>6. IsFiniteSet(Discounted') /\ Cardinality(Discounted') = Cardinality(Discounted) + Cardinality(gave)
    <3> HIDE DEF gave
    <3>1. IsFiniteSet(Discounted \cup gave)
      BY <2>4, <2>5, FS_Union
    <3>2. Cardinality(Discounted \cup gave) = Cardinality(Discounted) + Cardinality(gave) - Cardinality({})
      BY <2>2, <2>4, <2>5, FS_Union
    <3> QED  BY <2>2, <2>4, <2>5, <3>1, <3>2, FS_EmptySet, FS_CardinalityType
  <2>7. promoUses + Cardinality(ds) <= MaxUses
    BY <1>2 DEF UsesLeft
  <2> QED  BY <1>2, <2>4, <2>5, <2>6, <2>7 DEF CodeCounted
<1>14. promoUses' \in Nat
  <2>1. IsFiniteSet(ds)
    <3>1. ds \subseteq Accounts
      BY <1>2, <1>3
    <3> QED  BY <3>1, LifecycleAssumption, FS_Subset
  <2> QED  BY <1>2, <2>1, FS_CardinalityType DEF BillsSound
<1> QED  BY <1>10, <1>11, <1>12, <1>13, <1>14 DEF BillsSound

LEMMA BillsKept == LifeInv /\ [LifeNext]_lifeVars => BillsSound'
<1> SUFFICES ASSUME LifeInv, [LifeNext]_lifeVars PROVE BillsSound'
  OBVIOUS
<1>1. BillsSound /\ AccountsSound
  BY DEF LifeInv
<1>2. ASSUME UNCHANGED <<invoice, promoUses>> PROVE BillsSound'
  BY <1>1, <1>2 DEF BillsSound, BilledOnce, CodeCounted, SentSound, InvoicesOf, Discounted
<1>3. CASE GenerateMonth
  BY <1>1, <1>3, NewBills
<1>4. CASE MarkInvoice \/ BillingReminders \/ Day
  BY <1>1, <1>4, BillsStep
<1>5. CASE Signup \/ SetStatus \/ SubscriptionPause \/ SubscriptionResume \/ AutoResume
  BY <1>2, <1>5 DEF Signup, SetStatus, SubscriptionPause, SubscriptionResume, AutoResume, billVars
<1>6. CASE ExtendTrial \/ TrialJob \/ AdminMovesPlan \/ ScheduleDeletion \/ CancelDeletion
  BY <1>2, <1>6 DEF ExtendTrial, TrialJob, AdminMovesPlan, ScheduleDeletion, CancelDeletion, billVars
<1>7. CASE ScheduledDeletions \/ DeleteNow \/ AdminDelete \/ ApplyPromo
  BY <1>2, <1>7 DEF ScheduledDeletions, DeleteNow, AdminDelete, ApplyPromo, billVars
<1>8. CASE RequestPlan \/ Approve \/ Decline
  BY <1>2, <1>8 DEF RequestPlan, Approve, Decline, billVars
<1>9. CASE UNCHANGED lifeVars
  BY <1>2, <1>9 DEF lifeVars
<1> QED  BY <1>3, <1>4, <1>5, <1>6, <1>7, <1>8, <1>9 DEF LifeNext

LEMMA LifeStep == LifeInv /\ [LifeNext]_lifeVars => LifeInv'
  BY AccountsKept, RequestsKept, BillsKept DEF LifeInv

LEMMA LifeStart == LifeInit => LifeInv
<1> SUFFICES ASSUME LifeInit PROVE LifeInv
  OBVIOUS
<1> USE DEF LifeInit
<1>1. AccountsSound
  <2>1. AccountOK(Nobody, <<>>, Off)
    BY LifeConstants DEF AccountOK, HistoryOK, AskedOK, Left
  <2> QED  BY <2>1, AccountsSplit
<1>2. RequestsSound
  BY DEF RequestsSound, Superseded
<1>3. BillsSound
  <2>1. Discounted = {}
    BY DEF Discounted
  <2>2. IsFiniteSet({}) /\ Cardinality({}) = 0
    BY FS_EmptySet
  <2>3. CodeCounted
    BY <2>1, <2>2, LifeConstants DEF CodeCounted
  <2> QED  BY <2>3 DEF BillsSound, BilledOnce, InvoicesOf, SentSound
<1> QED  BY <1>1, <1>2, <1>3 DEF LifeInv

\* Of a set whose members are equal there is at most one.
LEMMA AtMostOneOf ==
    ASSUME NEW S, \A x, y \in S : x = y
    PROVE  Cardinality(S) <= 1
<1>1. CASE S = {}
  BY <1>1, FS_EmptySet
<1>2. CASE S # {}
  <2>1. PICK x \in S : S = {x}
    BY <1>2
  <2> QED  BY <2>1, FS_Singleton
<1> QED  BY <1>1, <1>2

LEMMA LifeSound == LifeInv => LifeTypeOK /\ PlanAccounted /\ BillingSound
<1> SUFFICES ASSUME LifeInv PROVE LifeTypeOK /\ PlanAccounted /\ BillingSound
  OBVIOUS
<1>1. LifeTypeOK
  BY DEF LifeInv, AccountsSound, RequestsSound, BillsSound, LifeTypeOK, There
<1>2. ASSUME NEW c \in Accounts, There(c)
      PROVE  /\ history[c] # <<>> => Last(history[c])[2] = account[c].plan
             /\ \A k \in 1 .. Len(history[c]) - 1 : history[c][k][2] = history[c][k + 1][1]
             /\ account[c].graceLeft > 0 => DeviceCap(c) = Last(history[c])[1]
  <2>1. HistoryOK(account[c], history[c])
    BY DEF LifeInv, AccountsSound, HistorySound
  <2>2. account[c] \notin {Nobody, Erased}
    BY <1>2 DEF There
  <2> QED  BY <2>1, <2>2 DEF HistoryOK, DeviceCap
<1>3. \A c \in Accounts : Cardinality(Superseded(c)) <= 1
  BY AtMostOneOf DEF LifeInv, RequestsSound
<1>4. \A c \in Accounts, p \in Periods : Cardinality(InvoicesOf(c, p)) <= 1
  BY AtMostOneOf DEF LifeInv, BillsSound, BilledOnce
<1>5. promoUses = Cardinality(Discounted) /\ promoUses <= MaxUses
  BY DEF LifeInv, BillsSound, CodeCounted
<1>6. \A i \in Invoices : invoice[i] # Nobody => InOrderOnce(invoice[i].sent)
  BY DEF LifeInv, BillsSound, SentSound, SentOK
<1> QED  BY <1>1, <1>2, <1>3, <1>4, <1>5, <1>6 DEF PlanAccounted, BillingSound

\* The timer takes the accounts whose days are over, and all of them.
LEMMA GraceStep ==
    ASSUME LifeInv, ScheduledDeletions, NEW c \in Accounts, There(c), ~There(c)'
    PROVE  asked[c] = GraceDays
<1>1. DeletionDue(c)
  <2>1. account'[c] = IF DeletionDue(c) THEN Erased ELSE account[c]
    BY DEF ScheduledDeletions, Finalize
  <2> QED  BY <2>1 DEF There
<1>2. AskedOK(account[c], asked[c]) /\ asked[c] \in Left(GraceDays)
  BY DEF LifeInv, AccountsSound, AskedSound
<1>3. account[c] \notin {Nobody, Erased} /\ account[c].deletes = 0 /\ 0 # Off
  BY <1>1 DEF DeletionDue, There, Off
<1> QED  BY <1>2, <1>3, LifeConstants DEF AskedOK, Left

-----------------------------------------------------------------------------
(* The three of them together                                              *)

DatesInv == LifeInv /\ HouseInv /\ RemainsInv

LEMMA DatesStart == DatesInit => DatesInv
<1> SUFFICES ASSUME DatesInit PROVE DatesInv
  OBVIOUS
<1>1. LifeInv
  BY LifeStart DEF DatesInit
<1>2. HouseInv
  <2>1. HouseInit /\ HouseAssumption
    BY HouseAssumption DEF DatesInit
  <2>2. Len(<<>>) = 0 /\ <<>> \in Seq({"add", "update", "delete"} \X RuleIds)
    OBVIOUS
  <2> QED  BY <2>1, <2>2 DEF HouseInit, HouseInv, HouseTypeOK, HouseAssumption
<1>3. RemainsInv
  BY DEF DatesInit, IntegrityInit, RemainsInv, IntegrityTypeOK, BoxesLetGo
<1> QED  BY <1>1, <1>2, <1>3 DEF DatesInv

LEMMA LifeSame == LifeInv /\ UNCHANGED lifeVars => LifeInv'
  BY LifeStep

LEMMA DatesStep == DatesInv /\ [DatesNext]_datesVars => DatesInv'
<1> SUFFICES ASSUME DatesInv, [DatesNext]_datesVars PROVE DatesInv'
  OBVIOUS
<1>1. [LifeNext]_lifeVars /\ [HouseNext]_houseVars /\ [IntegrityNext]_integrityVars
  BY Zenon DEF DatesNext, Life, HouseHeld, Remains, datesVars
<1> QED  BY <1>1, LifeStep, HouseStep, RemainsStep, Zenon DEF DatesInv

\* Plans agree with their log, bills with the periods, the code and the reminders, and no box
\* names a deleted customer unless somebody named it so since (admin/api/customers, billing,
\* finalizeAccountDeletion, integrity): for any number of accounts, plans, invoices, periods,
\* rules, devices and boxes.
THEOREM BooksCorrect == DatesSpec => []BooksSound
<1>1. DatesInv => BooksSound
  BY LifeSound DEF DatesInv, HouseInv, RemainsInv, BooksSound
<1> QED  BY <1>1, DatesStart, DatesStep, PTL DEF DatesSpec

\* The timer deletes an account only when its grace is over, and the repair takes nothing from
\* a living customer (ScheduledDeletions, integrity/autofix): for any length of the grace and
\* whatever was deleted before.
THEOREM DeletionsCorrect == DatesSpec => DeletionsHold
<1>1. DatesInv /\ [DatesNext]_datesVars
        => [ScheduledDeletions =>
              \A c \in Accounts : There(c) /\ ~There(c)' => asked[c] = GraceDays]_lifeVars
  BY GraceStep, Zenon DEF DatesInv
<1>2. DatesInv /\ [DatesNext]_datesVars
        => [Autofix =>
              /\ report' \subseteq {<<"box", b>> : b \in Boxes}
                    \cup {<<"plan", c>> : c \in Households} \cup {<<"key", "box_state">>}
              /\ \A c \in living : /\ kept'[c] = kept[c] /\ family'[c] = family[c]
                                   /\ StoppedPersons'[c] = StoppedPersons[c]]_integrityVars
  BY MendStep, Zenon DEF DatesInv
<1>3. DatesSpec => DeletionGrace
  BY <1>1, DatesStart, DatesStep, PTL DEF DatesSpec, DeletionGrace
<1>4. DatesSpec => RepairSpares
  BY <1>2, DatesStart, DatesStep, PTL DEF DatesSpec, RepairSpares
<1> QED  BY <1>3, <1>4 DEF DeletionsHold

-----------------------------------------------------------------------------
(* Sessions of customers                                                   *)

\* What a handler may leave alone: the accounts, the tickets, the codes that are not used up.
LeavesAccounts ==
    /\ customers' = customers /\ revokedAt' = revokedAt
    /\ saved' = saved \/ saved'.customers = customers
LeavesTickets ==
    /\ tickets' = tickets /\ honoured' = honoured /\ endedAt' = endedAt
    /\ saved' = saved \/ saved'.tickets = tickets
LeavesCodes ==
    /\ customers' = customers /\ spent' = spent
    /\ secrets' = secrets /\ restarted' = restarted

\* The fields of an account.
LEMMA AccountFields ==
    ASSUME NEW a \in Account
    PROVE  /\ a.totp \in 0 .. MaxSecrets /\ a.pending \in 0 .. MaxSecrets
           /\ a.codes \subseteq Codes /\ a.minIat \in Times \cup {Never}
           /\ a.allowed \subseteq Addresses /\ a.email \in Emails
  BY DEF Account

\* Who exists has an account, and its codes are of one drawing.
LEMMA ExistingAccount ==
    ASSUME SessionInv, NEW c \in Customers, Exists(c)
    PROVE  /\ customers[c] \in Account /\ customers[c].minIat = revokedAt[c]
           /\ \A k, l \in customers[c].codes : k[1] = l[1]
  BY GoneIsNothing DEF SessionInv, AccountsTrue, Exists

\* One account may be replaced by one with the same time of revocation and codes of one drawing.
LEMMA AccountWith ==
    ASSUME SessionInv, NEW c \in Customers, NEW new \in Account \cup {Gone},
           new \in Account => /\ new.minIat = revokedAt[c]
                              /\ \A k, l \in new.codes : k[1] = l[1],
           customers' = [customers EXCEPT ![c] = new]
    PROVE  AccountsTrue(customers')
  BY GoneIsNothing DEF SessionInv, AccountsTrue

\* The same for an account that there is and that stays.
LEMMA AccountChanged ==
    ASSUME SessionInv, NEW c \in Customers, Exists(c), NEW new \in Account,
           new.minIat = customers[c].minIat, \A k, l \in new.codes : k[1] = l[1],
           customers' = [customers EXCEPT ![c] = new]
    PROVE  AccountsTrue(customers')
<1>1. customers[c].minIat = revokedAt[c]
  BY ExistingAccount
<1>2. /\ new \in Account \cup {Gone}
      /\ new \in Account => /\ new.minIat = revokedAt[c]
                            /\ \A k, l \in new.codes : k[1] = l[1]
  BY <1>1
<1> QED  BY <1>2, AccountWith

\* A handler saves the accounts as it leaves them, or not at all.
LEMMA AccountsCarried ==
    ASSUME SessionInv, AccountsTrue(customers'), revokedAt' = revokedAt,
           saved' = saved \/ saved'.customers = customers'
    PROVE  AccountsTrue(customers)' /\ AccountsTrue(saved.customers)'
  BY DEF SessionInv, AccountsTrue

\* The same for handlers that leave the accounts alone.
LEMMA AccountsUntouched ==
    ASSUME SessionInv, LeavesAccounts
    PROVE  AccountsTrue(customers)' /\ AccountsTrue(saved.customers)'
  BY DEF SessionInv, AccountsTrue, LeavesAccounts

\* The handlers about the second factor and the list of addresses save what they leave.
LEMMA FactorsSave ==
    ASSUME TwoFactorSetup \/ TwoFactorVerify \/ TwoFactorDisable \/ RecoveryRegenerate
             \/ LoginIpAllowlist
    PROVE  revokedAt' = revokedAt /\ endedAt' = endedAt /\ honoured' = honoured
           /\ tickets' = tickets /\ Save
<1>1. ASSUME TwoFactorSetup PROVE UNCHANGED histories /\ tickets' = tickets /\ Save
  BY <1>1 DEF TwoFactorSetup
<1>2. ASSUME TwoFactorVerify PROVE UNCHANGED histories /\ tickets' = tickets /\ Save
  BY <1>2 DEF TwoFactorVerify
<1>3. ASSUME RecoveryRegenerate PROVE UNCHANGED histories /\ tickets' = tickets /\ Save
  BY <1>3 DEF RecoveryRegenerate
<1>4. ASSUME LoginIpAllowlist PROVE UNCHANGED histories /\ tickets' = tickets /\ Save
  BY <1>4 DEF LoginIpAllowlist
<1>5. ASSUME TwoFactorDisable
      PROVE  revokedAt' = revokedAt /\ endedAt' = endedAt /\ honoured' = honoured
             /\ tickets' = tickets /\ Save
  BY <1>5 DEF TwoFactorDisable
<1> QED  BY <1>1, <1>2, <1>3, <1>4, <1>5 DEF histories

\* They change one account, and so does a login that uses up a recovery code.
LEMMA FactorsKeepAccounts ==
    ASSUME SessionInv,
           TwoFactorSetup \/ TwoFactorVerify \/ TwoFactorDisable \/ RecoveryRegenerate
             \/ LoginIpAllowlist \/ VerifyEmail
    PROVE  AccountsTrue(customers)' /\ AccountsTrue(saved.customers)'
<1>1. revokedAt' = revokedAt /\ (saved' = saved \/ saved'.customers = customers')
  <2>1. ASSUME VerifyEmail PROVE revokedAt' = revokedAt /\ saved' = saved
    BY <2>1 DEF VerifyEmail
  <2>2. Save => saved'.customers = customers'
    BY DEF Save
  <2> QED  BY <2>1, <2>2, FactorsSave
<1>2. secrets' = secrets + 1 /\ secrets' <= MaxSecrets =>
        /\ secrets' \in 0 .. MaxSecrets /\ CodesOf(secrets') \subseteq Codes
        /\ \A k, l \in CodesOf(secrets') : k[1] = l[1]
  BY SessionAssumption DEF SessionInv, SessionTypeOK, CodesOf
<1>3. Draw => secrets' = secrets + 1 /\ secrets' <= MaxSecrets
  BY SessionAssumption DEF Draw, SessionInv, SessionTypeOK
<1>4. SUFFICES AccountsTrue(customers')
  BY <1>1, AccountsCarried
<1>5. \A c \in Customers : Exists(c) =>
        /\ customers[c] \in Account /\ customers[c].minIat = revokedAt[c]
        /\ \A k, l \in customers[c].codes : k[1] = l[1]
  BY ExistingAccount
<1>6. CASE TwoFactorSetup
  <2>1. PICK c \in Customers : Exists(c) /\ customers' = [customers EXCEPT ![c].pending = secrets']
    BY <1>6 DEF TwoFactorSetup, Change, MayChange
  <2>2. secrets' \in 0 .. MaxSecrets
    BY <1>6, <1>2, <1>3 DEF TwoFactorSetup
  <2> DEFINE new == [customers[c] EXCEPT !.pending = secrets']
  <2>3. /\ new \in Account /\ new.minIat = customers[c].minIat
        /\ new.codes = customers[c].codes
    BY <2>1, <1>5, <2>2, SessionAssumption, AccountFields DEF Account, NoFactor
  <2>4. customers' = [customers EXCEPT ![c] = new]
    BY <2>1
  <2> HIDE DEF new
  <2>5. \A x, y \in new.codes : x[1] = y[1]
    BY <2>1, <2>2, <2>3, <1>5
  <2>6. new.minIat = customers[c].minIat
    BY <2>3
  <2> QED  BY <2>1, <2>3, <2>4, <2>5, <2>6, AccountChanged
<1>7. CASE TwoFactorVerify
  <2>1. PICK c \in Customers :
          /\ Exists(c)
          /\ customers' = [customers EXCEPT ![c].totp = customers[c].pending,
                                            ![c].pending = NoFactor,
                                            ![c].codes = CodesOf(secrets')]
    BY <1>7 DEF TwoFactorVerify, Change, MayChange
  <2>2. CodesOf(secrets') \subseteq Codes /\ \A k, l \in CodesOf(secrets') : k[1] = l[1]
    BY <1>7, <1>2, <1>3 DEF TwoFactorVerify
  <2>3. customers[c] \in Account /\ customers[c].pending \in 0 .. MaxSecrets
    BY <2>1, <1>5, AccountFields
  <2> DEFINE there == [customers[c] EXCEPT !.totp = customers[c].pending]
             done == [there EXCEPT !.pending = NoFactor]
             new == [done EXCEPT !.codes = CodesOf(secrets')]
  <2>4. there \in Account /\ there.minIat = customers[c].minIat
    BY <2>3 DEF Account
  <2>5. customers' = [customers EXCEPT ![c] = new]
    BY <2>1
  <2> HIDE DEF there
  <2>6. done \in Account /\ done.minIat = there.minIat
    BY <2>4, SessionAssumption DEF Account, NoFactor
  <2> HIDE DEF done
  <2>7. new \in Account /\ new.minIat = done.minIat /\ new.codes = CodesOf(secrets')
    BY <2>6, <2>2 DEF Account
  <2> HIDE DEF new
  <2>8. (\A x, y \in new.codes : x[1] = y[1]) /\ new.minIat = customers[c].minIat
    BY <2>2, <2>4, <2>6, <2>7
  <2> QED  BY <2>1, <2>5, <2>7, <2>8, AccountChanged
<1>8. CASE TwoFactorDisable
  <2>1. PICK c \in Customers :
          /\ Exists(c)
          /\ customers' = [customers EXCEPT ![c].totp = NoFactor, ![c].codes = {}]
    BY <1>8 DEF TwoFactorDisable, Change, MayChange
  <2> DEFINE new1 == [customers[c] EXCEPT !.totp = NoFactor]
  <2>3. /\ new1 \in Account /\ new1.minIat = customers[c].minIat
        /\ new1.codes = customers[c].codes
    BY <2>1, <1>5, SessionAssumption, AccountFields DEF Account, NoFactor
  <2> DEFINE new == [new1 EXCEPT !.codes = {}]
  <2>4. /\ new \in Account /\ new.minIat = new1.minIat
        /\ new.codes = {}
    BY <2>1, <1>5, <2>3, SessionAssumption, AccountFields DEF Account, NoFactor
  <2>5. customers' = [customers EXCEPT ![c] = new]
    BY <2>1
  <2> HIDE DEF new1, new
  <2>6. \A x, y \in new.codes : x[1] = y[1]
    BY <2>1, <2>3, <2>4, <1>5
  <2>7. new.minIat = customers[c].minIat
    BY <2>3, <2>4
  <2> QED  BY <2>1, <2>4, <2>5, <2>6, <2>7, AccountChanged
<1>9. CASE RecoveryRegenerate
  <2>1. PICK c \in Customers :
          Exists(c) /\ customers' = [customers EXCEPT ![c].codes = CodesOf(secrets')]
    BY <1>9 DEF RecoveryRegenerate, Regenerated, Change, MayChange
  <2>2. CodesOf(secrets') \subseteq Codes /\ \A k, l \in CodesOf(secrets') : k[1] = l[1]
    BY <1>9, <1>2, <1>3 DEF RecoveryRegenerate
  <2> DEFINE new == [customers[c] EXCEPT !.codes = CodesOf(secrets')]
  <2>3. /\ new \in Account /\ new.minIat = customers[c].minIat
        /\ new.codes = CodesOf(secrets')
    BY <2>1, <1>5, <2>2, SessionAssumption, AccountFields DEF Account, NoFactor
  <2>4. customers' = [customers EXCEPT ![c] = new]
    BY <2>1
  <2> HIDE DEF new
  <2>5. \A x, y \in new.codes : x[1] = y[1]
    BY <2>1, <2>2, <2>3, <1>5
  <2>6. new.minIat = customers[c].minIat
    BY <2>3
  <2> QED  BY <2>1, <2>3, <2>4, <2>5, <2>6, AccountChanged
<1>10. CASE LoginIpAllowlist
  <2>1. PICK c \in Customers, l \in SUBSET Addresses :
          Exists(c) /\ customers' = [customers EXCEPT ![c].allowed = l]
    BY <1>10 DEF LoginIpAllowlist, Change, MayChange
  <2> DEFINE new == [customers[c] EXCEPT !.allowed = l]
  <2>3. /\ new \in Account /\ new.minIat = customers[c].minIat
        /\ new.codes = customers[c].codes
    BY <2>1, <1>5, SessionAssumption, AccountFields DEF Account, NoFactor
  <2>4. customers' = [customers EXCEPT ![c] = new]
    BY <2>1
  <2> HIDE DEF new
  <2>5. \A x, y \in new.codes : x[1] = y[1]
    BY <2>1, <2>3, <1>5
  <2>6. new.minIat = customers[c].minIat
    BY <2>3
  <2> QED  BY <2>1, <2>3, <2>4, <2>5, <2>6, AccountChanged
<1>11. CASE VerifyEmail
  <2>1. PICK c \in Customers, used \in SUBSET Codes :
          Exists(c) /\ customers' = [customers EXCEPT ![c].codes = @ \ used]
    <3>1. PICK c \in Customers :
            Exists(c) /\ \E used \in Factors(c) : customers' = Consume(c, used)
      BY <1>11 DEF VerifyEmail
    <3>2. Factors(c) \subseteq SUBSET Codes
      BY <3>1, <1>5, AccountFields DEF Factors
    <3> QED  BY <3>1, <3>2 DEF Consume
  <2> DEFINE new == [customers[c] EXCEPT !.codes = @ \ used]
  <2>3. /\ new \in Account /\ new.minIat = customers[c].minIat
        /\ new.codes \subseteq customers[c].codes
    BY <2>1, <1>5, SessionAssumption, AccountFields DEF Account, NoFactor
  <2>4. customers' = [customers EXCEPT ![c] = new]
    BY <2>1
  <2> HIDE DEF new
  <2>5. \A x, y \in new.codes : x[1] = y[1]
    BY <2>1, <2>3, <1>5
  <2>6. new.minIat = customers[c].minIat
    BY <2>3
  <2> QED  BY <2>1, <2>3, <2>4, <2>5, <2>6, AccountChanged
<1> QED  BY <1>6, <1>7, <1>8, <1>9, <1>10, <1>11

\* Seven handlers leave accounts, tickets and codes alone, whether they save or not.
LEMMA IdleLeaves ==
    ASSUME SweepAttempts \/ Login \/ VerifyFails \/ Impersonate
             \/ OtherSave \/ Clock \/ ShareExchange
    PROVE  LeavesAccounts /\ LeavesTickets /\ LeavesCodes
<1>1. CASE SweepAttempts
  BY <1>1 DEF SweepAttempts, Save, histories, LeavesAccounts, LeavesTickets, LeavesCodes
<1>2. CASE Login
  BY <1>2 DEF Login, Save, histories, LeavesAccounts, LeavesTickets, LeavesCodes
<1>3. CASE VerifyFails
  BY <1>3 DEF VerifyFails, Save, histories, LeavesAccounts, LeavesTickets, LeavesCodes
<1>4. CASE Impersonate
  BY <1>4 DEF Impersonate, Save, histories, LeavesAccounts, LeavesTickets, LeavesCodes
<1>5. CASE OtherSave
  BY <1>5 DEF OtherSave, Save, histories, LeavesAccounts, LeavesTickets, LeavesCodes
<1>6. CASE Clock
  BY <1>6 DEF Clock, Save, histories, LeavesAccounts, LeavesTickets, LeavesCodes
<1>7. CASE ShareExchange
  BY <1>7 DEF ShareExchange, Save, histories, LeavesAccounts, LeavesTickets, LeavesCodes
<1> QED  BY <1>1, <1>2, <1>3, <1>4, <1>5, <1>6, <1>7

\* Those that change tickets leave accounts and codes alone.
LEMMA TicketsLeave ==
    ASSUME LoginMagic \/ MagicClaim \/ InviteClaim \/ ShareCreate \/ ShareRevoke
             \/ EmailChange \/ EmailRefused \/ KeyCreate \/ KeyRevoke
    PROVE  LeavesAccounts /\ LeavesCodes
<1>1. CASE LoginMagic
  BY <1>1 DEF LoginMagic, Save, histories, LeavesAccounts, LeavesCodes
<1>2. CASE MagicClaim
  BY <1>2 DEF MagicClaim, Claim, Save, histories, LeavesAccounts, LeavesCodes
<1>3. CASE InviteClaim
  BY <1>3 DEF InviteClaim, Claim, Save, histories, LeavesAccounts, LeavesCodes
<1>4. CASE ShareCreate
  BY <1>4 DEF ShareCreate, Save, histories, LeavesAccounts, LeavesCodes
<1>5. CASE ShareRevoke
  BY <1>5 DEF ShareRevoke, Save, histories, LeavesAccounts, LeavesCodes
<1>6. CASE EmailChange
  BY <1>6 DEF EmailChange, Save, histories, LeavesAccounts, LeavesCodes
<1>7. CASE EmailRefused
  BY <1>7 DEF EmailRefused, Save, histories, LeavesAccounts, LeavesCodes
<1>8. CASE KeyCreate
  BY <1>8 DEF KeyCreate, Save, histories, LeavesAccounts, LeavesCodes
<1>9. CASE KeyRevoke
  BY <1>9 DEF KeyRevoke, Save, histories, LeavesAccounts, LeavesCodes
<1> QED  BY <1>1, <1>2, <1>3, <1>4, <1>5, <1>6, <1>7, <1>8, <1>9

\* Whatever the cloud does, an account that is in its state carries the time it last revoked its
\* sessions, and so does what was last saved.
LEMMA AccountRecordsKept ==
    ASSUME SessionInv, SessionNext
    PROVE  AccountsTrue(customers)' /\ AccountsTrue(saved.customers)'
<1>1. Save => saved'.customers = customers'
  BY DEF Save
<1>2. CASE Invite
  <2>1. PICK c \in Customers, e \in Emails :
          customers[c] = Unborn /\ customers' = [customers EXCEPT ![c] = NewAccount(e)]
    BY <1>2 DEF Invite
  <2>2. revokedAt' = revokedAt /\ Save
    BY <1>2 DEF Invite, histories
  <2> DEFINE new == NewAccount(e)
  <2>3. new \in Account /\ new.minIat = Never /\ new.codes = {}
    BY SessionAssumption DEF Account, NewAccount, NoFactor
  <2> HIDE DEF new
  <2>4. revokedAt[c] = Never
    BY <2>1 DEF SessionInv, AccountsTrue
  <2>5. AccountsTrue(customers')
    BY <2>1, <2>3, <2>4, AccountWith DEF new
  <2> QED  BY <2>2, <2>5, <1>1, AccountsCarried
<1>3. CASE EmailConfirm
  <2>1. PICK t \in Tickets :
          /\ Open(t, "email") /\ Exists(tickets[t].owner)
          /\ customers' = [customers EXCEPT ![tickets[t].owner].email = tickets[t].email]
    BY <1>3 DEF EmailConfirm
  <2>2. revokedAt' = revokedAt /\ Save
    BY <1>3 DEF EmailConfirm
  <2>3. tickets[t] \in Ticket
    BY <2>1 DEF Open, SessionInv, TicketsTrue
  <2>4. tickets[t].owner \in Customers /\ tickets[t].email \in Emails
    BY <2>3 DEF Ticket
  <2> DEFINE c == tickets[t].owner
             new == [customers[c] EXCEPT !.email = tickets[t].email]
  <2>5. customers' = [customers EXCEPT ![c] = new]
    BY <2>1
  <2>6. c \in Customers /\ Exists(c)
    BY <2>1, <2>4
  <2> HIDE DEF c
  <2>7. /\ customers[c] \in Account
        /\ \A k, l \in customers[c].codes : k[1] = l[1]
    BY <2>6, ExistingAccount
  <2>8. new \in Account /\ new.minIat = customers[c].minIat /\ new.codes = customers[c].codes
    BY <2>7, <2>4 DEF Account
  <2> HIDE DEF new
  <2>9. AccountsTrue(customers')
    BY <2>5, <2>6, <2>7, <2>8, AccountChanged
  <2> QED  BY <2>2, <2>9, <1>1, AccountsCarried
<1>4. CASE RevokeAll
  <2>1. PICK c \in Customers :
          /\ Exists(c) /\ customers' = [customers EXCEPT ![c].minIat = now]
          /\ revokedAt' = [revokedAt EXCEPT ![c] = now]
    BY <1>4 DEF RevokeAll, Change, MayChange
  <2>2. Save
    BY <1>4 DEF RevokeAll
  <2>3. customers[c] \in Account /\ \A k, l \in customers[c].codes : k[1] = l[1]
    BY <2>1, ExistingAccount
  <2> DEFINE new == [customers[c] EXCEPT !.minIat = now]
  <2>4. new \in Account /\ new.minIat = now /\ new.codes = customers[c].codes
    BY <2>3 DEF Account, SessionInv, SessionTypeOK
  <2>5. customers' = [customers EXCEPT ![c] = new]
    BY <2>1
  <2> HIDE DEF new
  <2>6. AccountsTrue(customers)'
    BY <2>1, <2>3, <2>4, <2>5, GoneIsNothing DEF SessionInv, AccountsTrue
  <2> QED  BY <2>6, <2>2, <1>1 DEF AccountsTrue
<1>5. CASE Deleted
  <2>1. PICK c \in Customers : customers' = [customers EXCEPT ![c] = Gone]
    BY <1>5 DEF Deleted
  <2>2. revokedAt' = revokedAt /\ Save
    BY <1>5 DEF Deleted, histories
  <2>3. AccountsTrue(customers')
    BY <2>1, AccountWith, GoneIsNothing
  <2> QED  BY <2>2, <2>3, <1>1, AccountsCarried
<1>6. CASE CloudRestarts
  BY <1>6 DEF CloudRestarts, SessionInv, AccountsTrue
<1>7. CASE LeavesAccounts
  BY <1>7, AccountsUntouched
<1> QED
  BY <1>2, <1>3, <1>4, <1>5, <1>6, <1>7, IdleLeaves, TicketsLeave, FactorsKeepAccounts
     DEF SessionNext

\* A ticket that is drawn has had no effect, and nothing came of it.
LEMMA NewTicket ==
    ASSUME SessionInv, NEW k \in Kinds, NEW c \in Customers, NEW e \in Emails, NEW life \in Nat
    PROVE  /\ New(k, c, life, e) \in Ticket
           /\ New(k, c, life, e).kind = k /\ New(k, c, life, e).owner = c
           /\ ~New(k, c, life, e).dead /\ New(k, c, life, e).expires = now + life
  BY SessionAssumption DEF SessionInv, SessionTypeOK, New, Ticket, Times

\* Tickets may go at any time.
LEMMA TicketsDropped ==
    ASSUME NEW ts, TicketsTrue(ts), NEW us \in [Tickets -> Ticket \cup {Gone}],
           \A t \in Tickets : us[t] = Gone \/ us[t] = ts[t]
    PROVE  TicketsTrue(us)
  BY DEF TicketsTrue

\* A fresh ticket that is neither a share nor about an address may be added.
LEMMA TicketPut ==
    ASSUME SessionInv, NEW t \in Tickets, Fresh(t), NEW new \in Ticket,
           new.kind \notin {"share", "email"}
    PROVE  TicketsTrue([tickets EXCEPT ![t] = new])
  BY GoneIsNothing DEF SessionInv, TicketsTrue, Fresh

\* A handler saves the tickets as it leaves them, or not at all.
LEMMA TicketsCarried ==
    ASSUME SessionInv, TicketsTrue(tickets'), honoured' = honoured, endedAt' = endedAt,
           saved' = saved \/ saved'.tickets = tickets'
    PROVE  TicketsTrue(tickets)' /\ TicketsTrue(saved.tickets)'
  BY DEF SessionInv, TicketsTrue

\* The same for handlers that leave the tickets alone.
LEMMA TicketsUntouched ==
    ASSUME SessionInv, LeavesTickets
    PROVE  TicketsTrue(tickets)' /\ TicketsTrue(saved.tickets)'
  BY DEF SessionInv, TicketsTrue, LeavesTickets

\* A link that is claimed was not marked, so it had no effect before; now it is marked.
LEMMA ClaimKeepsTickets ==
    ASSUME SessionInv, NEW k \in {"magic", "invite"}, Claim(k)
    PROVE  /\ TicketsTrue(tickets)' /\ TicketsTrue(saved.tickets)'
           /\ \A t \in Tickets : honoured'[t] <= 1
           /\ honoured' \in [Tickets -> Nat] /\ endedAt' = endedAt
<1>1. PICK t \in Tickets :
        /\ Open(t, k) /\ ~tickets[t].dead
        /\ tickets' = [tickets EXCEPT ![t].dead = TRUE]
        /\ honoured' = [honoured EXCEPT ![t] = @ + 1]
  BY DEF Claim, Use, Honour
<1>2. endedAt' = endedAt /\ saved'.tickets = tickets'
  BY DEF Claim, Save
<1>3. tickets[t] \in Ticket /\ tickets[t].kind \in {"magic", "invite"} /\ honoured[t] = 0
  BY <1>1 DEF Open, SessionInv, SessionTypeOK, TicketsTrue
<1> DEFINE new == [tickets[t] EXCEPT !.dead = TRUE]
<1>4. new \in Ticket /\ new.dead /\ new.kind = tickets[t].kind
  BY <1>3 DEF Ticket
<1>5. tickets' = [tickets EXCEPT ![t] = new]
  BY <1>1
<1> HIDE DEF new
<1>6. honoured' \in [Tickets -> Nat] /\ \A u \in Tickets : honoured'[u] <= 1
  BY <1>1, <1>3 DEF SessionInv, SessionTypeOK
<1>7. TicketsTrue(tickets)'
  <2>1. tickets' \in [Tickets -> Ticket \cup {Gone}]
    BY <1>4, <1>5 DEF SessionInv, TicketsTrue
  <2>2. \A u \in Tickets : u # t => tickets'[u] = tickets[u] /\ honoured'[u] = honoured[u]
    BY <1>1, <1>5 DEF SessionInv, SessionTypeOK, TicketsTrue
  <2>3. tickets'[t] = new
    BY <1>5 DEF SessionInv, TicketsTrue
  <2> QED  BY <1>2, <1>3, <1>4, <2>1, <2>2, <2>3 DEF SessionInv, TicketsTrue
<1> QED  BY <1>2, <1>6, <1>7 DEF TicketsTrue

\* A confirmed change of address: the request had no effect before, and it goes.
LEMMA ConfirmKeepsTickets ==
    ASSUME SessionInv, EmailConfirm
    PROVE  /\ TicketsTrue(tickets)' /\ TicketsTrue(saved.tickets)'
           /\ \A t \in Tickets : honoured'[t] <= 1
           /\ honoured' \in [Tickets -> Nat] /\ endedAt' = endedAt
<1>1. PICK t \in Tickets :
        /\ Open(t, "email") /\ tickets' = [tickets EXCEPT ![t] = Gone]
        /\ honoured' = [honoured EXCEPT ![t] = @ + 1]
  BY DEF EmailConfirm, Honour
<1>2. endedAt' = endedAt /\ saved'.tickets = tickets'
  BY DEF EmailConfirm, Save
<1>3. honoured[t] = 0
  BY <1>1 DEF Open, SessionInv, SessionTypeOK, TicketsTrue
<1>4. honoured' \in [Tickets -> Nat] /\ \A u \in Tickets : honoured'[u] <= 1
  BY <1>1, <1>3 DEF SessionInv, SessionTypeOK
<1>5. \A u \in Tickets : u # t => tickets'[u] = tickets[u] /\ honoured'[u] = honoured[u]
  BY <1>1 DEF SessionInv, SessionTypeOK, TicketsTrue
<1>6. tickets' \in [Tickets -> Ticket \cup {Gone}] /\ tickets'[t] = Gone
  BY <1>1 DEF SessionInv, TicketsTrue
<1>7. TicketsTrue(tickets)'
  BY <1>2, <1>5, <1>6 DEF SessionInv, TicketsTrue
<1> QED  BY <1>2, <1>4, <1>7 DEF TicketsTrue

\* A share that is made ends when it says, and one that is revoked ends now at the latest.
LEMMA SharesKeepTickets ==
    ASSUME SessionInv, ShareCreate \/ ShareRevoke
    PROVE  /\ TicketsTrue(tickets)' /\ TicketsTrue(saved.tickets)'
           /\ honoured' = honoured /\ endedAt' \in [Tickets -> Int]
<1>1. saved'.tickets = tickets' /\ honoured' = honoured
  BY DEF ShareCreate, ShareRevoke, Save
<1>2. now \in Int
  BY SessionAssumption DEF SessionInv, SessionTypeOK, Times
<1>3. SUFFICES TicketsTrue(tickets)' /\ endedAt' \in [Tickets -> Int]
  BY <1>1 DEF TicketsTrue
<1>4. CASE ShareCreate
  <2>1. PICK c \in Customers, t \in Tickets :
          /\ Exists(c) /\ Fresh(t)
          /\ tickets' = [tickets EXCEPT ![t] = New("share", c, ShareLife, EmailOf(c))]
          /\ endedAt' = [endedAt EXCEPT ![t] = now + ShareLife]
    BY <1>4 DEF ShareCreate, Change, MayChange
  <2> DEFINE new == New("share", c, ShareLife, EmailOf(c))
  <2>2. EmailOf(c) \in Emails /\ "share" \in Kinds /\ ShareLife \in Nat
    BY <2>1, ExistingAccount, AccountFields, SessionAssumption DEF EmailOf, Kinds
  <2>3. new \in Ticket /\ new.kind = "share" /\ ~new.dead /\ new.expires = now + ShareLife
    BY <2>2, NewTicket
  <2> HIDE DEF new
  <2>4. tickets' = [tickets EXCEPT ![t] = new]
    BY <2>1 DEF new
  <2>5. honoured[t] = 0
    BY <2>1 DEF Fresh
  <2>6. endedAt' \in [Tickets -> Int] /\ endedAt'[t] = now + ShareLife
        /\ \A u \in Tickets : u # t => endedAt'[u] = endedAt[u]
    BY <2>1, <2>2, <1>2 DEF SessionInv
  <2>7. /\ tickets' \in [Tickets -> Ticket \cup {Gone}] /\ tickets'[t] = new
        /\ \A u \in Tickets : u # t => tickets'[u] = tickets[u]
    BY <2>3, <2>4 DEF SessionInv, TicketsTrue
  <2>8. new.expires <= endedAt'[t]
    BY <2>3, <2>6, <2>2, <1>2
  <2>9. \A u \in Tickets : tickets'[u] # Gone =>
          /\ honoured[u] > 0 => tickets'[u].dead /\ tickets'[u].kind # "email"
          /\ tickets'[u].kind = "share" /\ ~tickets'[u].dead => tickets'[u].expires <= endedAt'[u]
    BY <2>3, <2>5, <2>6, <2>7, <2>8 DEF SessionInv, TicketsTrue
  <2>10. \A u, v \in Tickets :
           /\ tickets'[u] # Gone /\ tickets'[v] # Gone
           /\ tickets'[u].kind = "email" /\ tickets'[v].kind = "email"
           /\ tickets'[u].owner = tickets'[v].owner
           => u = v
    BY <2>3, <2>7 DEF SessionInv, TicketsTrue
  <2> QED  BY <1>1, <2>6, <2>7, <2>9, <2>10 DEF TicketsTrue
<1>5. CASE ShareRevoke
  <2>1. PICK t \in UNION {SharesOf(c) : c \in Customers} :
          /\ tickets' = [tickets EXCEPT ![t].dead = TRUE]
          /\ endedAt' = [endedAt EXCEPT ![t] = IF @ < now THEN @ ELSE now]
    BY <1>5 DEF ShareRevoke
  <2>2. t \in Tickets /\ tickets[t] \in Ticket /\ tickets[t].kind = "share"
    BY <2>1 DEF SharesOf, Open, SessionInv, TicketsTrue
  <2> DEFINE new == [tickets[t] EXCEPT !.dead = TRUE]
  <2>3. new \in Ticket /\ new.kind = "share" /\ new.dead
    BY <2>2 DEF Ticket
  <2>4. tickets' = [tickets EXCEPT ![t] = new]
    BY <2>1
  <2> HIDE DEF new
  <2>5. endedAt' \in [Tickets -> Int] /\ \A u \in Tickets : u # t => endedAt'[u] = endedAt[u]
    BY <2>1, <1>2 DEF SessionInv
  <2>6. /\ tickets' \in [Tickets -> Ticket \cup {Gone}] /\ tickets'[t] = new
        /\ \A u \in Tickets : u # t => tickets'[u] = tickets[u]
    BY <2>2, <2>3, <2>4 DEF SessionInv, TicketsTrue
  <2> QED  BY <1>1, <2>3, <2>5, <2>6 DEF SessionInv, TicketsTrue
<1> QED  BY <1>4, <1>5

\* Links, invitations and keys are fresh tickets; the links dropped are dropped after the save.
LEMMA NewTicketsKeep ==
    ASSUME SessionInv, LoginMagic \/ Invite \/ KeyCreate
    PROVE  /\ TicketsTrue(tickets)' /\ TicketsTrue(saved.tickets)'
           /\ honoured' = honoured /\ endedAt' = endedAt
<1>1. CASE LoginMagic
  <2>1. PICK c \in Customers, t \in Tickets :
          LET with == [tickets EXCEPT ![t] = New("magic", c, MagicLife, EmailOf(c))] IN
          /\ Exists(c) /\ Fresh(t)
          /\ saved' = [customers |-> customers, tickets |-> with]
          /\ tickets' = [u \in Tickets |->
                IF Open(u, "magic") /\ tickets[u].expires < now - LinkKept THEN Gone
                ELSE with[u]]
    BY <1>1 DEF LoginMagic
  <2>2. honoured' = honoured /\ endedAt' = endedAt
    BY <1>1 DEF LoginMagic, histories
  <2> DEFINE new == New("magic", c, MagicLife, EmailOf(c))
             with == [tickets EXCEPT ![t] = new]
  <2>3. EmailOf(c) \in Emails /\ "magic" \in Kinds /\ MagicLife \in Nat
    BY <2>1, ExistingAccount, AccountFields, SessionAssumption DEF EmailOf, Kinds
  <2>4. new \in Ticket /\ new.kind = "magic"
    BY <2>3, NewTicket
  <2>5. saved'.tickets = with /\ \A u \in Tickets : tickets'[u] = Gone \/ tickets'[u] = with[u]
    BY <2>1
  <2>6. tickets' = [u \in Tickets |-> tickets'[u]]
    BY <2>1
  <2> HIDE DEF new
  <2>7. TicketsTrue(with)
    BY <2>1, <2>4, TicketPut
  <2>8. with \in [Tickets -> Ticket \cup {Gone}]
    BY <2>7 DEF TicketsTrue
  <2> HIDE DEF with
  <2>9. tickets' \in [Tickets -> Ticket \cup {Gone}]
    BY <2>5, <2>6, <2>8
  <2>10. TicketsTrue(tickets')
    BY <2>5, <2>7, <2>9, TicketsDropped
  <2> QED  BY <2>2, <2>5, <2>7, <2>10 DEF TicketsTrue
<1>2. CASE Invite
  <2>1. PICK c \in Customers, t \in Tickets, e \in Emails :
          Fresh(t) /\ tickets' = [tickets EXCEPT ![t] = New("invite", c, InviteLife, e)]
    BY <1>2 DEF Invite
  <2>2. honoured' = honoured /\ endedAt' = endedAt /\ saved'.tickets = tickets'
    BY <1>2 DEF Invite, histories, Save
  <2> DEFINE new == New("invite", c, InviteLife, e)
  <2>3. new \in Ticket /\ new.kind = "invite"
    BY NewTicket, SessionAssumption DEF Kinds
  <2> HIDE DEF new
  <2>4. TicketsTrue(tickets')
    BY <2>1, <2>3, TicketPut DEF new
  <2> QED  BY <2>2, <2>4, TicketsCarried
<1>3. CASE KeyCreate
  <2>1. PICK c \in Customers, t \in Tickets, k \in {"key", "readkey"} :
          /\ Exists(c) /\ Fresh(t)
          /\ tickets' = [tickets EXCEPT ![t] = New(k, c, MaxTime, EmailOf(c))]
    BY <1>3 DEF KeyCreate, Change, MayChange
  <2>2. honoured' = honoured /\ endedAt' = endedAt /\ saved'.tickets = tickets'
    BY <1>3 DEF KeyCreate, histories, Save
  <2> DEFINE new == New(k, c, MaxTime, EmailOf(c))
  <2>3. EmailOf(c) \in Emails /\ k \in Kinds /\ MaxTime \in Nat
    BY <2>1, ExistingAccount, AccountFields, SessionAssumption DEF EmailOf, Kinds
  <2>4. new \in Ticket /\ new.kind = k
    BY <2>3, NewTicket
  <2> HIDE DEF new
  <2>5. TicketsTrue(tickets')
    BY <2>1, <2>4, TicketPut DEF new
  <2> QED  BY <2>2, <2>5, TicketsCarried
<1> QED  BY <1>1, <1>2, <1>3

\* A request to change the address takes the place of an older one of the account.
LEMMA EmailChangeKeeps ==
    ASSUME SessionInv, EmailChange
    PROVE  /\ TicketsTrue(tickets)' /\ TicketsTrue(saved.tickets)'
           /\ honoured' = honoured /\ endedAt' = endedAt
<1>1. PICK c \in Customers, t \in Tickets, e \in Emails :
        /\ Fresh(t)
        /\ tickets' = [u \in Tickets |->
              IF u = t THEN New("email", c, EmailLife, e)
              ELSE IF u \in Older(c) THEN Gone ELSE tickets[u]]
  BY DEF EmailChange
<1>2. honoured' = honoured /\ endedAt' = endedAt /\ saved'.tickets = tickets'
  BY DEF EmailChange, histories, Save
<1> DEFINE new == New("email", c, EmailLife, e)
<1>3. new \in Ticket /\ new.kind = "email" /\ new.owner = c
  BY NewTicket, SessionAssumption DEF Kinds
<1> HIDE DEF new
<1>4. /\ tickets'[t] = new
      /\ \A u \in Tickets : u # t => tickets'[u] = IF u \in Older(c) THEN Gone ELSE tickets[u]
      /\ tickets' = [u \in Tickets |-> tickets'[u]]
  BY <1>1 DEF new
<1>5. tickets' \in [Tickets -> Ticket \cup {Gone}]
  BY <1>3, <1>4 DEF SessionInv, TicketsTrue
<1>6. honoured[t] = 0
  BY <1>1 DEF Fresh
<1>7. \A u \in Tickets : tickets'[u] # Gone =>
        /\ honoured[u] > 0 => tickets'[u].dead /\ tickets'[u].kind # "email"
        /\ tickets'[u].kind = "share" /\ ~tickets'[u].dead => tickets'[u].expires <= endedAt[u]
  BY <1>3, <1>4, <1>6 DEF SessionInv, TicketsTrue
<1>8. \A u \in Tickets \ {t} :
         ~(tickets'[u] # Gone /\ tickets'[u].kind = "email" /\ tickets'[u].owner = c)
  BY <1>4 DEF Older, Open
<1>9. ASSUME NEW u \in Tickets, NEW v \in Tickets, tickets'[u] # Gone, tickets'[v] # Gone,
             tickets'[u].kind = "email", tickets'[v].kind = "email",
             tickets'[u].owner = tickets'[v].owner
      PROVE  u = v
  <2>1. CASE u = t \/ v = t
    BY <2>1, <1>3, <1>4, <1>8, <1>9
  <2>2. CASE u # t /\ v # t
    BY <2>2, <1>4, <1>9 DEF SessionInv, TicketsTrue
  <2> QED  BY <2>1, <2>2
<1>10. TicketsTrue(tickets')
  BY <1>5, <1>7, <1>9 DEF TicketsTrue
<1> QED  BY <1>2, <1>10, TicketsCarried

\* A request that is refused and a key that is revoked go.
LEMMA RefusalsKeepTickets ==
    ASSUME SessionInv, EmailRefused \/ KeyRevoke
    PROVE  /\ TicketsTrue(tickets)' /\ TicketsTrue(saved.tickets)'
           /\ honoured' = honoured /\ endedAt' = endedAt
<1>1. PICK t \in Tickets : tickets' = [tickets EXCEPT ![t] = Gone]
  BY DEF EmailRefused, KeyRevoke
<1>2. honoured' = honoured /\ endedAt' = endedAt /\ (saved' = saved \/ saved'.tickets = tickets')
  BY DEF EmailRefused, KeyRevoke, histories, Save
<1>3. TicketsTrue(tickets) /\ tickets \in [Tickets -> Ticket \cup {Gone}]
  BY DEF SessionInv, TicketsTrue
<1>4. /\ tickets' \in [Tickets -> Ticket \cup {Gone}]
      /\ \A u \in Tickets : tickets'[u] = Gone \/ tickets'[u] = tickets[u]
  BY <1>1, <1>3
<1>5. TicketsTrue(tickets')
  BY <1>3, <1>4, TicketsDropped
<1> QED  BY <1>2, <1>5, TicketsCarried

\* Those that are about the account alone.
LEMMA AccountsLeaveTickets ==
    ASSUME TwoFactorSetup \/ TwoFactorVerify \/ TwoFactorDisable \/ RecoveryRegenerate
             \/ LoginIpAllowlist \/ VerifyEmail \/ RevokeAll \/ Deleted
    PROVE  LeavesTickets
<1>1. CASE VerifyEmail
  BY <1>1 DEF VerifyEmail, Spend, LeavesTickets
<1>2. CASE RevokeAll
  BY <1>2 DEF RevokeAll, Save, LeavesTickets
<1>3. CASE Deleted
  BY <1>3 DEF Deleted, Save, histories, LeavesTickets
<1>4. CASE ~(VerifyEmail \/ RevokeAll \/ Deleted)
  BY <1>4, FactorsSave DEF Save, LeavesTickets
<1> QED  BY <1>1, <1>2, <1>3, <1>4

\* Whatever the cloud does, a ticket that had its effect is gone or marked in its state and in
\* what was last saved, and it had it once.
LEMMA TicketsKept ==
    ASSUME SessionInv, SessionNext
    PROVE  /\ TicketsTrue(tickets)' /\ TicketsTrue(saved.tickets)'
           /\ \A t \in Tickets : honoured'[t] <= 1
           /\ honoured' \in [Tickets -> Nat] /\ endedAt' \in [Tickets -> Int]
<1>1. /\ \A t \in Tickets : honoured[t] <= 1
      /\ honoured \in [Tickets -> Nat] /\ endedAt \in [Tickets -> Int]
  BY DEF SessionInv, SessionTypeOK
<1>2. CASE MagicClaim \/ InviteClaim
  BY <1>1, <1>2, ClaimKeepsTickets DEF MagicClaim, InviteClaim
<1>3. CASE EmailConfirm
  BY <1>1, <1>3, ConfirmKeepsTickets
<1>4. CASE ShareCreate \/ ShareRevoke
  BY <1>1, <1>4, SharesKeepTickets
<1>5. CASE LoginMagic \/ Invite \/ KeyCreate
  BY <1>1, <1>5, NewTicketsKeep
<1>6. CASE EmailChange
  BY <1>1, <1>6, EmailChangeKeeps
<1>7. CASE EmailRefused \/ KeyRevoke
  BY <1>1, <1>7, RefusalsKeepTickets
<1>8. CASE CloudRestarts
  BY <1>1, <1>8 DEF CloudRestarts, SessionInv, TicketsTrue
<1>9. CASE LeavesTickets
  BY <1>1, <1>9, TicketsUntouched DEF LeavesTickets
<1> QED
  BY <1>2, <1>3, <1>4, <1>5, <1>6, <1>7, <1>8, <1>9, IdleLeaves, AccountsLeaveTickets
     DEF SessionNext

\* A session that is issued now, of an account, and for a share that has not ended.
LEMMA IssuedKeeps ==
    ASSUME SessionInv, NEW c \in Customers, NEW life \in Nat, NEW sh \in Tickets \cup {Gone},
           sh # Gone => now <= endedAt[sh] /\ life = ShareSession,
           sessions' = sessions \cup {Issued(c, life, sh)}, now' = now, endedAt' = endedAt
    PROVE  SessionsTrue' /\ sessions' \subseteq Session
<1> DEFINE s == Issued(c, life, sh)
<1>1. now \in Times /\ now \in Int
  BY SessionAssumption DEF SessionInv, SessionTypeOK, Times
<1>2. s \in Session /\ s.iat = now /\ s.exp = now + life /\ s.share = sh
  BY <1>1 DEF Issued, Session
<1> HIDE DEF s
<1>3. \A x \in sessions' : x \in sessions \/ x = s
  BY DEF s
<1>4. SessionsTrue'
  BY <1>1, <1>2, <1>3 DEF SessionInv, SessionsTrue
<1>5. sessions \subseteq Session
  BY DEF SessionInv, SessionTypeOK
<1> QED  BY <1>2, <1>3, <1>4, <1>5

\* Sessions that are not touched while the ends of shares are not, and time only goes on.
LEMMA SessionsUntouched ==
    ASSUME SessionInv, sessions' = sessions, endedAt' = endedAt, now' = now \/ now' = now + 1
    PROVE  SessionsTrue' /\ sessions' \subseteq Session
<1>1. now \in Int /\ \A s \in sessions : s \in Session
  BY SessionAssumption DEF SessionInv, SessionTypeOK, Times
<1>2. \A s \in sessions : s.iat \in Int
  BY <1>1, SessionAssumption DEF Session, Times
<1> QED  BY <1>1, <1>2 DEF SessionInv, SessionsTrue

\* A share that is made has no sessions yet; one that is revoked ends after them.
LEMMA SharesKeepSessions ==
    ASSUME SessionInv, ShareCreate \/ ShareRevoke
    PROVE  SessionsTrue' /\ sessions' \subseteq Session
<1>1. sessions' = sessions /\ now' = now
  BY DEF ShareCreate, ShareRevoke
<1>2. now \in Nat /\ sessions \subseteq Session /\ endedAt \in [Tickets -> Int]
  BY SessionAssumption DEF SessionInv, SessionTypeOK, Times
<1>3. \A s \in sessions : s.iat \in Nat /\ s.share \in Tickets \cup {Gone}
  BY <1>2, SessionAssumption DEF Session, Times
<1>4. CASE ShareCreate
  <2>1. PICK t \in Tickets : endedAt[t] = Never /\ endedAt' = [endedAt EXCEPT ![t] = now + ShareLife]
    BY <1>4 DEF ShareCreate, Fresh
  <2>2. \A s \in sessions : s.share # Gone => s.share # t
    BY <1>3, <2>1 DEF SessionInv, SessionsTrue, Never
  <2>3. \A s \in sessions : s.share # Gone => endedAt'[s.share] = endedAt[s.share]
    BY <1>2, <1>3, <2>1, <2>2
  <2> QED  BY <1>1, <1>2, <2>3 DEF SessionInv, SessionsTrue
<1>5. CASE ShareRevoke
  <2>1. PICK t \in UNION {SharesOf(c) : c \in Customers} :
          endedAt' = [endedAt EXCEPT ![t] = IF @ < now THEN @ ELSE now]
    BY <1>5 DEF ShareRevoke
  <2>2. \A s \in sessions : s.share # Gone =>
          endedAt'[s.share] = endedAt[s.share] \/ endedAt'[s.share] = now
    BY <1>2, <1>3, <2>1
  <2> QED  BY <1>1, <1>2, <2>2 DEF SessionInv, SessionsTrue
<1> QED  BY <1>4, <1>5

\* Those that issue a session.
LEMMA IssuesKeepSessions ==
    ASSUME SessionInv, VerifyEmail \/ MagicClaim \/ InviteClaim \/ ShareExchange \/ Impersonate
    PROVE  SessionsTrue' /\ sessions' \subseteq Session
<1>1. \A t \in Tickets : tickets[t] # Gone =>
        /\ tickets[t].owner \in Customers
        /\ tickets[t].kind = "share" /\ ~tickets[t].dead /\ now <= tickets[t].expires
              => now <= endedAt[t]
  <2>1. \A t \in Tickets : tickets[t] # Gone => tickets[t] \in Ticket
    BY DEF SessionInv, TicketsTrue
  <2>2. now \in Int /\ endedAt \in [Tickets -> Int]
    BY SessionAssumption DEF SessionInv, SessionTypeOK, Times
  <2>3. \A t \in Tickets : tickets[t] # Gone =>
          tickets[t].owner \in Customers /\ tickets[t].expires \in Int
    BY <2>1 DEF Ticket
  <2> QED  BY <2>2, <2>3 DEF SessionInv, TicketsTrue
<1>2. {SessionLife, SupportLife, ShareSession} \subseteq Nat
  BY SessionAssumption
<1>3. CASE VerifyEmail
  <2>1. PICK c \in Customers : sessions' = sessions \cup {Issued(c, SessionLife, Gone)}
    BY <1>3 DEF VerifyEmail, Issue
  <2>2. now' = now /\ endedAt' = endedAt
    BY <1>3 DEF VerifyEmail, Spend
  <2> QED  BY <1>2, <2>1, <2>2, IssuedKeeps
<1>4. CASE MagicClaim \/ InviteClaim
  <2>1. PICK k \in Kinds : Claim(k)
    BY <1>4 DEF MagicClaim, InviteClaim, Kinds
  <2>2. PICK t \in Tickets :
          /\ tickets[t] # Gone
          /\ sessions' = sessions \cup {Issued(tickets[t].owner, SessionLife, Gone)}
    BY <2>1 DEF Claim, Issue, Open
  <2>3. now' = now /\ endedAt' = endedAt /\ tickets[t].owner \in Customers
    BY <2>1, <2>2, <1>1 DEF Claim
  <2> QED  BY <1>2, <2>2, <2>3, IssuedKeeps
<1>5. CASE ShareExchange
  <2>1. PICK t \in Tickets :
          /\ tickets[t] # Gone /\ tickets[t].kind = "share" /\ ShareValid(t)
          /\ sessions' = sessions \cup {Issued(tickets[t].owner, ShareSession, t)}
    BY <1>5 DEF ShareExchange, Issue, Open
  <2>2. now' = now /\ endedAt' = endedAt
    BY <1>5 DEF ShareExchange, histories
  <2>3. tickets[t].owner \in Customers /\ now <= endedAt[t]
    BY <2>1, <1>1 DEF ShareValid
  <2> QED  BY <1>2, <2>1, <2>2, <2>3, IssuedKeeps
<1>6. CASE Impersonate
  <2>1. PICK c \in Customers : sessions' = sessions \cup {Issued(c, SupportLife, Gone)}
    BY <1>6 DEF Impersonate, Issue
  <2>2. now' = now /\ endedAt' = endedAt
    BY <1>6 DEF Impersonate, histories
  <2> QED  BY <1>2, <2>1, <2>2, IssuedKeeps
<1> QED  BY <1>3, <1>4, <1>5, <1>6

\* Those that issue none.
LEMMA SessionsLeft ==
    ASSUME SweepAttempts \/ Login \/ VerifyFails \/ TwoFactorSetup
             \/ TwoFactorVerify \/ TwoFactorDisable \/ RecoveryRegenerate
             \/ LoginIpAllowlist \/ LoginMagic \/ Invite \/ EmailChange
             \/ EmailConfirm \/ EmailRefused \/ KeyCreate \/ KeyRevoke \/ RevokeAll
             \/ Deleted \/ OtherSave \/ CloudRestarts \/ Clock
    PROVE  sessions' = sessions /\ endedAt' = endedAt /\ (now' = now \/ now' = now + 1)
<1>1. CASE SweepAttempts
  BY <1>1 DEF SweepAttempts, histories
<1>2. CASE Login
  BY <1>2 DEF Login, histories
<1>3. CASE VerifyFails
  BY <1>3 DEF VerifyFails, histories
<1>4. CASE TwoFactorSetup
  BY <1>4 DEF TwoFactorSetup, histories
<1>5. CASE TwoFactorVerify
  BY <1>5 DEF TwoFactorVerify, histories
<1>6. CASE TwoFactorDisable
  BY <1>6 DEF TwoFactorDisable, Spend, histories
<1>7. CASE RecoveryRegenerate
  BY <1>7 DEF RecoveryRegenerate, histories
<1>8. CASE LoginIpAllowlist
  BY <1>8 DEF LoginIpAllowlist, histories
<1>9. CASE LoginMagic
  BY <1>9 DEF LoginMagic, histories
<1>10. CASE Invite
  BY <1>10 DEF Invite, histories
<1>11. CASE EmailChange
  BY <1>11 DEF EmailChange, histories
<1>12. CASE EmailConfirm
  BY <1>12 DEF EmailConfirm, histories
<1>13. CASE EmailRefused
  BY <1>13 DEF EmailRefused, histories
<1>14. CASE KeyCreate
  BY <1>14 DEF KeyCreate, histories
<1>15. CASE KeyRevoke
  BY <1>15 DEF KeyRevoke, histories
<1>16. CASE RevokeAll
  BY <1>16 DEF RevokeAll, histories
<1>17. CASE Deleted
  BY <1>17 DEF Deleted, histories
<1>18. CASE OtherSave
  BY <1>18 DEF OtherSave, histories
<1>19. CASE CloudRestarts
  BY <1>19 DEF CloudRestarts, histories
<1>20. CASE Clock
  BY <1>20 DEF Clock, histories
<1> QED  BY <1>1, <1>2, <1>3, <1>4, <1>5, <1>6, <1>7, <1>8, <1>9, <1>10, <1>11, <1>12, <1>13, <1>14, <1>15, <1>16, <1>17, <1>18, <1>19, <1>20

\* Whatever the cloud does, what came of a share came before it ended.
LEMMA SessionsKept ==
    ASSUME SessionInv, SessionNext
    PROVE  SessionsTrue' /\ sessions' \subseteq Session
  BY SharesKeepSessions, IssuesKeepSessions, SessionsUntouched, SessionsLeft DEF SessionNext

\* Codes are numbered by the drawing they came from.
LEMMA CodeNumbers ==
    ASSUME SessionInv
    PROVE  /\ secrets \in Nat /\ spent \in [Codes -> Nat]
           /\ \A k \in Codes : k[1] \in Nat
           /\ \A c \in Customers : Exists(c) => customers[c].codes \subseteq Codes
<1>1. secrets \in Nat /\ spent \in [Codes -> Nat]
  BY SessionAssumption DEF SessionInv, SessionTypeOK
<1>2. \A k \in Codes : k[1] \in Nat
  BY SessionAssumption DEF Codes
<1>3. \A c \in Customers : Exists(c) => customers[c].codes \subseteq Codes
  BY ExistingAccount, AccountFields
<1> QED  BY <1>1, <1>2, <1>3

\* Codes may go with an account or without it.
LEMMA CodesShrink ==
    ASSUME SessionInv, spent' = spent, secrets' = secrets \/ secrets' = secrets + 1,
           restarted' = restarted,
           \A c \in Customers : Exists(c)' =>
              \/ customers'[c].codes = {}
              \/ Exists(c) /\ customers'[c].codes \subseteq customers[c].codes
    PROVE  CodesUnspent'
<1>1. SUFFICES ASSUME ~restarted PROVE CodesUnspent'
  BY DEF CodesUnspent
<1>2. /\ \A k \in Codes : spent[k] <= 1 /\ (spent[k] = 1 => k[1] <= secrets)
      /\ \A c \in Customers : Exists(c) =>
            \A k \in customers[c].codes :
               /\ spent[k] = 0 /\ k[1] <= secrets
               /\ \A d \in Customers : Exists(d) /\ k \in customers[d].codes => d = c
  BY <1>1 DEF SessionInv, CodesUnspent
<1>3. \A n \in Nat : n <= secrets => n <= secrets'
  BY CodeNumbers
<1>4. \A k \in Codes : spent'[k] <= 1 /\ (spent'[k] = 1 => k[1] <= secrets')
  BY <1>2, <1>3, CodeNumbers
<1>5. ASSUME NEW c \in Customers, Exists(c)', NEW k \in customers'[c].codes
      PROVE  /\ spent'[k] = 0 /\ k[1] <= secrets'
             /\ \A d \in Customers : Exists(d)' /\ k \in customers'[d].codes => d = c
  <2>1. Exists(c) /\ k \in customers[c].codes /\ k \in Codes
    BY <1>5, CodeNumbers
  <2>2. k[1] <= secrets' /\ spent'[k] = 0
    BY <2>1, <1>2, <1>3, CodeNumbers
  <2>3. \A d \in Customers : Exists(d)' /\ k \in customers'[d].codes =>
           Exists(d) /\ k \in customers[d].codes
    OBVIOUS
  <2> QED  BY <2>1, <2>2, <2>3, <1>2
<1> QED  BY <1>4, <1>5 DEF CodesUnspent

\* A new drawing replaces the codes of one account.
LEMMA CodesDrawn ==
    ASSUME SessionInv, spent' = spent, secrets' = secrets + 1, restarted' = restarted,
           NEW c \in Customers, customers'[c].codes = CodesOf(secrets'),
           \A d \in Customers \ {c} : customers'[d] = customers[d]
    PROVE  CodesUnspent'
<1>1. SUFFICES ASSUME ~restarted PROVE CodesUnspent'
  BY DEF CodesUnspent
<1>2. /\ \A k \in Codes : spent[k] <= 1 /\ (spent[k] = 1 => k[1] <= secrets)
      /\ \A d \in Customers : Exists(d) =>
            \A k \in customers[d].codes :
               /\ spent[k] = 0 /\ k[1] <= secrets
               /\ \A e \in Customers : Exists(e) /\ k \in customers[e].codes => e = d
  BY <1>1 DEF SessionInv, CodesUnspent
<1>3. \A n \in Nat : n <= secrets => n <= secrets' /\ n # secrets'
  BY CodeNumbers
<1>4. \A k \in Codes : spent'[k] <= 1 /\ (spent'[k] = 1 => k[1] <= secrets')
  BY <1>2, <1>3, CodeNumbers
<1>5. \A k \in CodesOf(secrets') : k \in Codes /\ k[1] = secrets' /\ spent'[k] = 0
  <2>1. \A k \in CodesOf(secrets') : k \in Codes /\ k[1] = secrets'
    BY DEF CodesOf
  <2>2. \A k \in Codes : spent[k] \in Nat
    BY CodeNumbers
  <2> QED  BY <2>1, <2>2, <1>2, <1>3, CodeNumbers
<1>6. ASSUME NEW d \in Customers \ {c}, Exists(d)', NEW k \in customers'[d].codes
      PROVE  /\ Exists(d) /\ k \in customers[d].codes /\ k \in Codes
             /\ spent'[k] = 0 /\ k[1] <= secrets' /\ k[1] # secrets'
  <2>1. Exists(d) /\ k \in customers[d].codes
    BY <1>6 DEF Exists
  <2>2. k \in Codes /\ k[1] \in Nat
    BY <2>1, CodeNumbers
  <2> QED  BY <2>1, <2>2, <1>2, <1>3
<1>7. ASSUME NEW d \in Customers, Exists(d)', NEW k \in customers'[d].codes
      PROVE  /\ spent'[k] = 0 /\ k[1] <= secrets'
             /\ \A e \in Customers : Exists(e)' /\ k \in customers'[e].codes => e = d
  <2>1. CASE d = c
    <3>1. k \in Codes /\ k[1] = secrets' /\ spent'[k] = 0
      BY <2>1, <1>5, <1>7
    <3>2. \A e \in Customers \ {c} : Exists(e)' /\ k \in customers'[e].codes => FALSE
      BY <3>1, <1>6
    <3>3. secrets' <= secrets'
      BY CodeNumbers
    <3> QED  BY <2>1, <3>1, <3>2, <3>3
  <2>2. CASE d # c
    <3>1. /\ Exists(d) /\ k \in customers[d].codes
          /\ spent'[k] = 0 /\ k[1] <= secrets' /\ k[1] # secrets'
      BY <2>2, <1>6, <1>7
    <3>2. k \notin customers'[c].codes
      BY <3>1, <1>5
    <3>3. \A e \in Customers \ {c} : Exists(e)' /\ k \in customers'[e].codes => e = d
      BY <3>1, <1>2, <1>6
    <3> QED  BY <3>1, <3>2, <3>3
  <2> QED  BY <2>1, <2>2
<1> QED  BY <1>4, <1>7 DEF CodesUnspent

\* A code that an account uses up is spent and gone from it, and no other account had it.
LEMMA CodesUsed ==
    ASSUME SessionInv, NEW c \in Customers, Exists(c), NEW used \in Factors(c), Spend(used),
           secrets' = secrets, restarted' = restarted,
           customers'[c].codes \subseteq customers[c].codes \ used,
           \A d \in Customers \ {c} : customers'[d] = customers[d]
    PROVE  CodesUnspent'
<1>1. SUFFICES ASSUME ~restarted PROVE CodesUnspent'
  BY DEF CodesUnspent
<1>2. /\ \A k \in Codes : spent[k] <= 1 /\ (spent[k] = 1 => k[1] <= secrets)
      /\ \A d \in Customers : Exists(d) =>
            \A k \in customers[d].codes :
               /\ spent[k] = 0 /\ k[1] <= secrets
               /\ \A e \in Customers : Exists(e) /\ k \in customers[e].codes => e = d
  BY <1>1 DEF SessionInv, CodesUnspent
<1>3. used \subseteq customers[c].codes
  BY DEF Factors
<1>4. \A k \in Codes : /\ k \notin used => spent'[k] = spent[k]
                       /\ k \in used => spent'[k] = 1 /\ k[1] <= secrets
  BY <1>2, <1>3, CodeNumbers DEF Spend
<1>5. \A k \in Codes : spent'[k] <= 1 /\ (spent'[k] = 1 => k[1] <= secrets')
  BY <1>2, <1>4
<1>6. ASSUME NEW d \in Customers, Exists(d)', NEW k \in customers'[d].codes
      PROVE  Exists(d) /\ k \in customers[d].codes /\ k \in Codes /\ k \notin used
  <2>1. Exists(d) /\ k \in customers[d].codes
    BY <1>6 DEF Exists
  <2>2. k \notin used
    BY <2>1, <1>2, <1>3, <1>6
  <2> QED  BY <2>1, <2>2, CodeNumbers
<1>7. ASSUME NEW d \in Customers, Exists(d)', NEW k \in customers'[d].codes
      PROVE  /\ spent'[k] = 0 /\ k[1] <= secrets'
             /\ \A e \in Customers : Exists(e)' /\ k \in customers'[e].codes => e = d
  BY <1>2, <1>4, <1>6, <1>7
<1> QED  BY <1>5, <1>7 DEF CodesUnspent

\* Handlers that leave the codes alone, or change one account otherwise.
LEMMA OthersKeepCodes ==
    ASSUME SessionInv,
           LoginIpAllowlist \/ TwoFactorSetup \/ Invite \/ EmailConfirm \/ RevokeAll
             \/ Deleted \/ LeavesCodes
    PROVE  CodesUnspent'
<1>1. /\ DOMAIN customers = Customers
      /\ \A c \in Customers : Exists(c) => customers[c] \in Account
  BY ExistingAccount DEF SessionInv, SessionTypeOK
<1>2. \A c \in Customers : customers'[c] = customers[c] =>
        (Exists(c)' => Exists(c) /\ customers'[c].codes \subseteq customers[c].codes)
  BY DEF Exists
<1>3. CASE LoginIpAllowlist
  <2>1. PICK c \in Customers, l \in SUBSET Addresses :
          Exists(c) /\ customers' = [customers EXCEPT ![c].allowed = l]
    BY <1>3 DEF LoginIpAllowlist, Change, MayChange
  <2>2. customers'[c].codes = customers[c].codes
        /\ \A d \in Customers \ {c} : customers'[d] = customers[d]
    BY <2>1, <1>1 DEF Account
  <2>3. spent' = spent /\ secrets' = secrets /\ restarted' = restarted
    BY <1>3 DEF LoginIpAllowlist, histories
  <2>4. \A d \in Customers : Exists(d)' =>
          Exists(d) /\ customers'[d].codes \subseteq customers[d].codes
    BY <2>1, <2>2, <1>2
  <2> QED  BY <2>3, <2>4, CodesShrink
<1>4. CASE TwoFactorSetup
  <2>1. PICK c \in Customers :
          Exists(c) /\ customers' = [customers EXCEPT ![c].pending = secrets']
    BY <1>4 DEF TwoFactorSetup, Change, MayChange
  <2>2. customers'[c].codes = customers[c].codes
        /\ \A d \in Customers \ {c} : customers'[d] = customers[d]
    BY <2>1, <1>1 DEF Account
  <2>3. spent' = spent /\ secrets' = secrets + 1 /\ restarted' = restarted
    BY <1>4 DEF TwoFactorSetup, Draw, histories
  <2>4. \A d \in Customers : Exists(d)' =>
          Exists(d) /\ customers'[d].codes \subseteq customers[d].codes
    BY <2>1, <2>2, <1>2
  <2> QED  BY <2>3, <2>4, CodesShrink
<1>5. CASE Invite
  <2>1. PICK c \in Customers, e \in Emails : customers' = [customers EXCEPT ![c] = NewAccount(e)]
    BY <1>5 DEF Invite
  <2>2. customers'[c].codes = {} /\ \A d \in Customers \ {c} : customers'[d] = customers[d]
    BY <2>1, <1>1 DEF NewAccount
  <2>3. spent' = spent /\ secrets' = secrets /\ restarted' = restarted
    BY <1>5 DEF Invite, histories
  <2>4. \A d \in Customers : Exists(d)' =>
          \/ customers'[d].codes = {}
          \/ Exists(d) /\ customers'[d].codes \subseteq customers[d].codes
    BY <2>2, <1>2
  <2> QED  BY <2>3, <2>4, CodesShrink
<1>6. CASE EmailConfirm
  <2>1. PICK t \in Tickets :
          /\ tickets[t] # Gone /\ Exists(tickets[t].owner)
          /\ customers' = [customers EXCEPT ![tickets[t].owner].email = tickets[t].email]
    BY <1>6 DEF EmailConfirm, Open
  <2>2. tickets[t] \in Ticket
    BY <2>1 DEF SessionInv, TicketsTrue
  <2> DEFINE c == tickets[t].owner
  <2>3. c \in Customers /\ Exists(c)
    BY <2>1, <2>2 DEF Ticket
  <2>4. customers' = [customers EXCEPT ![c].email = tickets[t].email]
    BY <2>1
  <2> HIDE DEF c
  <2>5. customers'[c].codes = customers[c].codes
        /\ \A d \in Customers \ {c} : customers'[d] = customers[d]
    BY <2>3, <2>4, <1>1 DEF Account
  <2>6. spent' = spent /\ secrets' = secrets /\ restarted' = restarted
    BY <1>6 DEF EmailConfirm
  <2>7. \A d \in Customers : Exists(d)' =>
          Exists(d) /\ customers'[d].codes \subseteq customers[d].codes
    BY <2>3, <2>5, <1>2
  <2> QED  BY <2>6, <2>7, CodesShrink
<1>7. CASE RevokeAll
  <2>1. PICK c \in Customers :
          Exists(c) /\ customers' = [customers EXCEPT ![c].minIat = now]
    BY <1>7 DEF RevokeAll, Change, MayChange
  <2>2. customers'[c].codes = customers[c].codes
        /\ \A d \in Customers \ {c} : customers'[d] = customers[d]
    BY <2>1, <1>1 DEF Account
  <2>3. spent' = spent /\ secrets' = secrets /\ restarted' = restarted
    BY <1>7 DEF RevokeAll
  <2>4. \A d \in Customers : Exists(d)' =>
          Exists(d) /\ customers'[d].codes \subseteq customers[d].codes
    BY <2>1, <2>2, <1>2
  <2> QED  BY <2>3, <2>4, CodesShrink
<1>8. CASE Deleted
  <2>1. PICK c \in Customers : customers' = [customers EXCEPT ![c] = Gone]
    BY <1>8 DEF Deleted
  <2>2. ~Exists(c)' /\ \A d \in Customers \ {c} : customers'[d] = customers[d]
    BY <2>1, <1>1 DEF Exists
  <2>3. spent' = spent /\ secrets' = secrets /\ restarted' = restarted
    BY <1>8 DEF Deleted, histories
  <2>4. \A d \in Customers : Exists(d)' =>
          Exists(d) /\ customers'[d].codes \subseteq customers[d].codes
    BY <2>2, <1>2
  <2> QED  BY <2>3, <2>4, CodesShrink
<1>9. CASE LeavesCodes
  BY <1>9, <1>2, CodesShrink DEF LeavesCodes
<1> QED  BY <1>3, <1>4, <1>5, <1>6, <1>7, <1>8, <1>9

\* Whatever the cloud does until it restarts, no code that an account has was spent.
LEMMA CodesKept ==
    ASSUME SessionInv, SessionNext
    PROVE  CodesUnspent' /\ spent' \in [Codes -> Nat] /\ secrets' \in 0 .. MaxSecrets
<1>1. /\ DOMAIN customers = Customers
      /\ \A c \in Customers : Exists(c) => customers[c] \in Account
  BY ExistingAccount DEF SessionInv, SessionTypeOK
<1>2. \A used : Spend(used) => spent' \in [Codes -> Nat]
  BY CodeNumbers DEF Spend
<1>3. Draw => secrets' = secrets + 1 /\ secrets' \in 0 .. MaxSecrets
  BY SessionAssumption DEF Draw, SessionInv, SessionTypeOK
<1>4. secrets \in 0 .. MaxSecrets
  BY DEF SessionInv, SessionTypeOK
<1>5. CASE VerifyEmail
  <2>1. PICK c \in Customers :
          Exists(c) /\ \E used \in Factors(c) : customers' = Consume(c, used) /\ Spend(used)
    BY <1>5 DEF VerifyEmail
  <2>2. PICK used \in Factors(c) : customers' = Consume(c, used) /\ Spend(used)
    BY <2>1
  <2>3. customers'[c].codes = customers[c].codes \ used
        /\ \A d \in Customers \ {c} : customers'[d] = customers[d]
    BY <2>1, <2>2, <1>1 DEF Account, Consume
  <2>4. secrets' = secrets /\ restarted' = restarted
    BY <1>5 DEF VerifyEmail
  <2> QED  BY <2>1, <2>2, <2>3, <2>4, <1>2, <1>4, CodesUsed
<1>6. CASE TwoFactorDisable
  <2>1. PICK c \in Customers :
          /\ Exists(c) /\ \E used \in Factors(c) : Spend(used)
          /\ customers' = [customers EXCEPT ![c].totp = NoFactor, ![c].codes = {}]
    BY <1>6 DEF TwoFactorDisable, Change, MayChange
  <2>2. PICK used \in Factors(c) : Spend(used)
    BY <2>1
  <2>3. customers'[c].codes = {} /\ \A d \in Customers \ {c} : customers'[d] = customers[d]
    BY <2>1, <1>1 DEF Account
  <2>4. secrets' = secrets /\ restarted' = restarted
    BY <1>6 DEF TwoFactorDisable
  <2> QED  BY <2>1, <2>2, <2>3, <2>4, <1>2, <1>4, CodesUsed
<1>7. CASE TwoFactorVerify
  <2>1. PICK c \in Customers :
          /\ Exists(c)
          /\ customers' = [customers EXCEPT ![c].totp = customers[c].pending,
                                            ![c].pending = NoFactor,
                                            ![c].codes = CodesOf(secrets')]
    BY <1>7 DEF TwoFactorVerify, Change, MayChange
  <2>2. customers'[c].codes = CodesOf(secrets')
        /\ \A d \in Customers \ {c} : customers'[d] = customers[d]
    BY <2>1, <1>1 DEF Account
  <2>3. spent' = spent /\ restarted' = restarted /\ Draw
    BY <1>7 DEF TwoFactorVerify, histories
  <2> QED  BY <2>1, <2>2, <2>3, <1>3, CodesDrawn, CodeNumbers
<1>8. CASE RecoveryRegenerate
  <2>1. PICK c \in Customers :
          Exists(c) /\ customers' = [customers EXCEPT ![c].codes = CodesOf(secrets')]
    BY <1>8 DEF RecoveryRegenerate, Regenerated, Change, MayChange
  <2>2. customers'[c].codes = CodesOf(secrets')
        /\ \A d \in Customers \ {c} : customers'[d] = customers[d]
    BY <2>1, <1>1 DEF Account
  <2>3. spent' = spent /\ restarted' = restarted /\ Draw
    BY <1>8 DEF RecoveryRegenerate, histories
  <2> QED  BY <2>1, <2>2, <2>3, <1>3, CodesDrawn, CodeNumbers
<1>9. CASE CloudRestarts
  BY <1>9, <1>4, CodeNumbers DEF CloudRestarts, CodesUnspent
<1>10. CASE LoginIpAllowlist \/ Invite \/ EmailConfirm \/ RevokeAll \/ Deleted \/ LeavesCodes
  <2>1. spent' = spent /\ secrets' = secrets
    BY <1>10 DEF LoginIpAllowlist, Invite, EmailConfirm, RevokeAll, Deleted, LeavesCodes, histories
  <2> QED  BY <2>1, <1>4, <1>10, OthersKeepCodes, CodeNumbers
<1>11. CASE TwoFactorSetup
  <2>1. spent' = spent /\ Draw
    BY <1>11 DEF TwoFactorSetup, histories
  <2> QED  BY <2>1, <1>3, <1>11, OthersKeepCodes, CodeNumbers
<1> QED
  BY <1>5, <1>6, <1>7, <1>8, <1>9, <1>10, <1>11, IdleLeaves, TicketsLeave DEF SessionNext

\* Handlers that revoke no sessions.
LEMMA TimesLeft ==
    ASSUME SweepAttempts \/ Login \/ VerifyFails \/ VerifyEmail \/ TwoFactorSetup
             \/ TwoFactorVerify \/ TwoFactorDisable \/ RecoveryRegenerate
             \/ LoginIpAllowlist \/ LoginMagic \/ MagicClaim \/ Invite \/ InviteClaim
             \/ ShareCreate \/ ShareRevoke \/ ShareExchange \/ EmailChange
             \/ EmailConfirm \/ EmailRefused \/ KeyCreate \/ KeyRevoke \/ Impersonate
             \/ Deleted \/ OtherSave \/ CloudRestarts
    PROVE  now' = now /\ revokedAt' = revokedAt
<1>1. CASE SweepAttempts
  BY <1>1 DEF SweepAttempts, histories
<1>2. CASE Login
  BY <1>2 DEF Login, histories
<1>3. CASE VerifyFails
  BY <1>3 DEF VerifyFails, histories
<1>4. CASE VerifyEmail
  BY <1>4 DEF VerifyEmail, Spend, histories
<1>5. CASE TwoFactorSetup
  BY <1>5 DEF TwoFactorSetup, histories
<1>6. CASE TwoFactorVerify
  BY <1>6 DEF TwoFactorVerify, histories
<1>7. CASE TwoFactorDisable
  BY <1>7 DEF TwoFactorDisable, Spend, histories
<1>8. CASE RecoveryRegenerate
  BY <1>8 DEF RecoveryRegenerate, histories
<1>9. CASE LoginIpAllowlist
  BY <1>9 DEF LoginIpAllowlist, histories
<1>10. CASE LoginMagic
  BY <1>10 DEF LoginMagic, histories
<1>11. CASE MagicClaim
  BY <1>11 DEF MagicClaim, Claim, histories
<1>12. CASE Invite
  BY <1>12 DEF Invite, histories
<1>13. CASE InviteClaim
  BY <1>13 DEF InviteClaim, Claim, histories
<1>14. CASE ShareCreate
  BY <1>14 DEF ShareCreate, histories
<1>15. CASE ShareRevoke
  BY <1>15 DEF ShareRevoke, histories
<1>16. CASE ShareExchange
  BY <1>16 DEF ShareExchange, histories
<1>17. CASE EmailChange
  BY <1>17 DEF EmailChange, histories
<1>18. CASE EmailConfirm
  BY <1>18 DEF EmailConfirm, histories
<1>19. CASE EmailRefused
  BY <1>19 DEF EmailRefused, histories
<1>20. CASE KeyCreate
  BY <1>20 DEF KeyCreate, histories
<1>21. CASE KeyRevoke
  BY <1>21 DEF KeyRevoke, histories
<1>22. CASE Impersonate
  BY <1>22 DEF Impersonate, histories
<1>23. CASE Deleted
  BY <1>23 DEF Deleted, histories
<1>24. CASE OtherSave
  BY <1>24 DEF OtherSave, histories
<1>25. CASE CloudRestarts
  BY <1>25 DEF CloudRestarts, histories
<1> QED  BY <1>1, <1>2, <1>3, <1>4, <1>5, <1>6, <1>7, <1>8, <1>9, <1>10, <1>11, <1>12, <1>13, <1>14, <1>15, <1>16, <1>17, <1>18, <1>19, <1>20, <1>21, <1>22, <1>23, <1>24, <1>25

\* Handlers that the limiter does not guard.
LEMMA AttemptsLeft ==
    ASSUME TwoFactorSetup \/ TwoFactorVerify \/ TwoFactorDisable
             \/ RecoveryRegenerate \/ LoginIpAllowlist \/ MagicClaim \/ Invite
             \/ InviteClaim \/ ShareCreate \/ ShareRevoke \/ ShareExchange
             \/ EmailChange \/ EmailConfirm \/ EmailRefused \/ KeyCreate \/ KeyRevoke
             \/ RevokeAll \/ Impersonate \/ Deleted \/ OtherSave \/ Clock
    PROVE  attempts' = attempts
<1>1. CASE TwoFactorSetup
  BY <1>1 DEF TwoFactorSetup
<1>2. CASE TwoFactorVerify
  BY <1>2 DEF TwoFactorVerify
<1>3. CASE TwoFactorDisable
  BY <1>3 DEF TwoFactorDisable
<1>4. CASE RecoveryRegenerate
  BY <1>4 DEF RecoveryRegenerate
<1>5. CASE LoginIpAllowlist
  BY <1>5 DEF LoginIpAllowlist
<1>6. CASE MagicClaim
  BY <1>6 DEF MagicClaim, Claim
<1>7. CASE Invite
  BY <1>7 DEF Invite
<1>8. CASE InviteClaim
  BY <1>8 DEF InviteClaim, Claim
<1>9. CASE ShareCreate
  BY <1>9 DEF ShareCreate
<1>10. CASE ShareRevoke
  BY <1>10 DEF ShareRevoke
<1>11. CASE ShareExchange
  BY <1>11 DEF ShareExchange
<1>12. CASE EmailChange
  BY <1>12 DEF EmailChange
<1>13. CASE EmailConfirm
  BY <1>13 DEF EmailConfirm
<1>14. CASE EmailRefused
  BY <1>14 DEF EmailRefused
<1>15. CASE KeyCreate
  BY <1>15 DEF KeyCreate
<1>16. CASE KeyRevoke
  BY <1>16 DEF KeyRevoke
<1>17. CASE RevokeAll
  BY <1>17 DEF RevokeAll
<1>18. CASE Impersonate
  BY <1>18 DEF Impersonate
<1>19. CASE Deleted
  BY <1>19 DEF Deleted
<1>20. CASE OtherSave
  BY <1>20 DEF OtherSave
<1>21. CASE Clock
  BY <1>21 DEF Clock
<1> QED  BY <1>1, <1>2, <1>3, <1>4, <1>5, <1>6, <1>7, <1>8, <1>9, <1>10, <1>11, <1>12, <1>13, <1>14, <1>15, <1>16, <1>17, <1>18, <1>19, <1>20, <1>21

\* The limiter of attempts counts no further than it allows.
LEMMA AttemptsKept ==
    ASSUME SessionInv, SessionNext
    PROVE  attempts' \in [Addresses -> [count : 0 .. MaxAttempts, firstAt : Times]]
<1> DEFINE A == [count : 0 .. MaxAttempts, firstAt : Times]
<1>1. attempts \in [Addresses -> A] /\ now \in Times
  BY DEF SessionInv, SessionTypeOK
<1>2. NoAttempts \in A
  BY SessionAssumption DEF NoAttempts, Times
<1>3. \A a \in Addresses : Attempts(a) \in A
  BY <1>1, <1>2 DEF Attempts
<1>4. ASSUME NEW a \in Addresses, Allowed(a), RecordFailure(a) PROVE attempts' \in [Addresses -> A]
  <2>1. Attempts(a) \in A /\ Attempts(a).count < MaxAttempts
    BY <1>3, <1>4 DEF Allowed
  <2>2. [count |-> 1, firstAt |-> now] \in A \/ Attempts(a).count # 0
    BY <2>1, <1>1, SessionAssumption
  <2>3. [Attempts(a) EXCEPT !.count = @ + 1] \in A
    BY <2>1, SessionAssumption
  <2> QED  BY <1>1, <1>4, <2>2, <2>3 DEF RecordFailure
<1>5. ASSUME NEW a \in Addresses, Look(a) \/ Forget(a) PROVE attempts' \in [Addresses -> A]
  BY <1>1, <1>2, <1>3, <1>5 DEF Look, Forget
<1>6. CASE SweepAttempts
  BY <1>3, <1>6 DEF SweepAttempts
<1>7. CASE Login \/ VerifyFails
  <2>1. PICK a \in Addresses : Allowed(a) /\ (Look(a) \/ RecordFailure(a))
    BY <1>7 DEF Login, VerifyFails
  <2> QED  BY <2>1, <1>4, <1>5
<1>8. CASE VerifyEmail
  <2>1. PICK a \in Addresses : Forget(a)
    BY <1>8 DEF VerifyEmail
  <2> QED  BY <2>1, <1>5
<1>9. CASE LoginMagic
  <2>1. PICK a \in Addresses : Look(a)
    BY <1>9 DEF LoginMagic
  <2> QED  BY <2>1, <1>5
<1>10. CASE CloudRestarts
  BY <1>2, <1>10 DEF CloudRestarts
<1>11. CASE UNCHANGED attempts
  BY <1>1, <1>11
<1> HIDE DEF A
<1> QED
  BY <1>6, <1>7, <1>8, <1>9, <1>10, <1>11, AttemptsLeft DEF SessionNext, A

\* The clock stays in its bound, and accounts revoke their sessions at a time there is.
LEMMA TimesKept ==
    ASSUME SessionInv, SessionNext
    PROVE  now' \in Times /\ revokedAt' \in [Customers -> Times \cup {Never}]
<1>1. now \in Times /\ revokedAt \in [Customers -> Times \cup {Never}]
  BY DEF SessionInv, SessionTypeOK
<1>2. CASE Clock
  BY <1>1, <1>2, SessionAssumption DEF Clock, histories, Times
<1>3. CASE RevokeAll
  <2>1. PICK c \in Customers : revokedAt' = [revokedAt EXCEPT ![c] = now]
    BY <1>3 DEF RevokeAll
  <2>2. now' = now
    BY <1>3 DEF RevokeAll
  <2> QED  BY <2>1, <2>2, <1>1
<1>4. CASE now' = now /\ revokedAt' = revokedAt
  BY <1>1, <1>4
<1> QED  BY <1>2, <1>3, <1>4, TimesLeft DEF SessionNext

\* The inductive invariant of the sessions is one.
LEMMA SessionInvKept ==
    ASSUME SessionInv, SessionNext
    PROVE  SessionInv'
<1>1. AccountsTrue(customers)' /\ AccountsTrue(saved.customers)'
  BY AccountRecordsKept
<1>2. /\ TicketsTrue(tickets)' /\ TicketsTrue(saved.tickets)'
      /\ \A t \in Tickets : honoured'[t] <= 1
      /\ honoured' \in [Tickets -> Nat] /\ endedAt' \in [Tickets -> Int]
  BY TicketsKept
<1>3. SessionsTrue' /\ sessions' \subseteq Session
  BY SessionsKept
<1>4. CodesUnspent' /\ spent' \in [Codes -> Nat] /\ secrets' \in 0 .. MaxSecrets
  BY CodesKept
<1>5. /\ DOMAIN customers' = Customers
      /\ \A c \in Customers : customers'[c] \in Account \/ ~Exists(c)'
  BY <1>1 DEF AccountsTrue, Exists
<1>6. \A t \in Tickets : tickets'[t] = Gone \/ tickets'[t] \in Ticket
  BY <1>2 DEF TicketsTrue
<1>7. SessionTypeOK'
  BY <1>2, <1>3, <1>4, <1>5, <1>6, AttemptsKept, TimesKept DEF SessionTypeOK
<1> QED  BY <1>1, <1>2, <1>3, <1>4, <1>7, TimesKept DEF SessionInv

\* It holds of the accounts that staff created, with no tickets and no sessions.
LEMMA SessionInvInit ==
    ASSUME SessionInit
    PROVE  SessionInv
<1>1. PICK there \in SUBSET Customers, e \in Emails :
        customers = [c \in Customers |-> IF c \in there THEN NewAccount(e) ELSE Unborn]
  BY DEF SessionInit
<1>2. NewAccount(e) \in Account /\ NewAccount(e).minIat = Never /\ NewAccount(e).codes = {}
  BY SessionAssumption DEF NewAccount, Account, NoFactor
<1>3. NewAccount(e) \notin {Gone, Unborn} /\ Unborn \notin Account
  BY <1>2, GoneIsNothing
<1>4. \A c \in Customers : /\ customers[c] \in {NewAccount(e), Unborn}
                           /\ Exists(c) => customers[c].codes = {}
  BY <1>1, <1>2 DEF Exists
<1>5. revokedAt = [c \in Customers |-> Never] /\ endedAt = [t \in Tickets |-> Never]
      /\ honoured = [t \in Tickets |-> 0] /\ tickets = [t \in Tickets |-> Gone]
      /\ spent = [k \in Codes |-> 0] /\ secrets = 0 /\ sessions = {} /\ now = 0
      /\ saved = [customers |-> customers, tickets |-> tickets]
      /\ attempts = [a \in Addresses |-> NoAttempts]
  BY DEF SessionInit
<1>6. AccountsTrue(customers)
  <2>1. customers \in [Customers -> Account \cup {Gone, Unborn}]
    BY <1>1, <1>2
  <2>2. \A c \in Customers : customers[c] \in Account =>
          customers[c].minIat = Never /\ customers[c].codes = {}
    BY <1>2, <1>3, <1>4
  <2> QED  BY <1>5, <2>1, <2>2 DEF AccountsTrue
<1>7. TicketsTrue(tickets)
  BY <1>5 DEF TicketsTrue
<1>8. AccountsTrue(saved.customers) /\ TicketsTrue(saved.tickets)
  BY <1>5, <1>6, <1>7
<1>9. /\ \A t \in Tickets : honoured[t] <= 1
      /\ revokedAt \in [Customers -> Times \cup {Never}] /\ endedAt \in [Tickets -> Int]
  BY <1>5 DEF Never
<1>10. SessionsTrue /\ CodesUnspent
  BY <1>4, <1>5 DEF SessionsTrue, CodesUnspent
<1>11. SessionTypeOK
  <2>1. DOMAIN customers = Customers /\ \A c \in Customers : customers[c] \in Account \/ ~Exists(c)
    BY <1>1, <1>2, <1>4 DEF Exists
  <2>2. attempts \in [Addresses -> [count : 0 .. MaxAttempts, firstAt : Times]]
    BY <1>5, SessionAssumption DEF NoAttempts, Times
  <2> QED  BY <1>5, <2>1, <2>2, SessionAssumption DEF SessionTypeOK, Times
<1> QED  BY <1>6, <1>7, <1>8, <1>9, <1>10, <1>11 DEF SessionInv

\* The codes of one drawing are at most as many as are handed out.
LEMMA CodesOfOneDrawing ==
    ASSUME NEW S \in SUBSET Codes, \A k, l \in S : k[1] = l[1]
    PROVE  Cardinality(S) <= RecoveryCodes
<1> DEFINE number == [k \in S |-> k[2]]
<1>1. RecoveryCodes \in Nat
  BY SessionAssumption
<1>2. number \in [S -> 1 .. RecoveryCodes]
  BY DEF Codes
<1>3. \A k, l \in S : number[k] = number[l] => k = l
  BY DEF Codes
<1> HIDE DEF number
<1>4. number \in Injection(S, 1 .. RecoveryCodes)
  BY <1>2, <1>3 DEF Injection, IsInjective
<1>5. /\ IsFiniteSet(1 .. RecoveryCodes)
      /\ Cardinality(1 .. RecoveryCodes) = IF 1 > RecoveryCodes THEN 0 ELSE RecoveryCodes - 1 + 1
  BY <1>1, FS_Interval
<1>6. IsFiniteSet(S) /\ Cardinality(S) <= Cardinality(1 .. RecoveryCodes)
  BY <1>4, <1>5, FS_Injection
<1>7. Cardinality(1 .. RecoveryCodes) = RecoveryCodes
  BY <1>1, <1>5
<1> QED  BY <1>6, <1>7

\* The invariant says that links, invitations and codes work once, and that access ends.
LEMMA SessionInvSays ==
    ASSUME SessionInv
    PROVE  SessionTypeOK /\ UsedOnce /\ AccessEnds
<1>1. SessionTypeOK
  BY DEF SessionInv
<1>2. UsedOnce
  <2>1. \A t \in Tickets : honoured[t] <= 1
    BY DEF SessionInv
  <2>2. ~restarted => \A k \in Codes : spent[k] <= 1
    BY DEF SessionInv, CodesUnspent
  <2>3. ASSUME NEW c \in Customers PROVE Cardinality(Older(c)) <= 1
    <3>1. \A t, u \in Older(c) : t = u
      BY DEF Older, Open, SessionInv, TicketsTrue
    <3>2. CASE Older(c) = {}
      BY <3>2, FS_EmptySet
    <3>3. CASE Older(c) # {}
      <4>1. PICK t : t \in Older(c)
        BY <3>3
      <4>2. Older(c) = {t}
        BY <3>1, <4>1
      <4>3. Cardinality(Older(c)) = 1
        BY <4>2, FS_Singleton
      <4> QED  BY <4>3
    <3> QED  BY <3>2, <3>3
  <2>4. ASSUME NEW c \in Customers, Exists(c)
        PROVE  /\ Cardinality(customers[c].codes) <= RecoveryCodes
               /\ ~restarted => \A k \in customers[c].codes : spent[k] = 0
    <3>1. customers[c].codes \subseteq Codes /\ \A k, l \in customers[c].codes : k[1] = l[1]
      BY <2>4, ExistingAccount, AccountFields
    <3>2. Cardinality(customers[c].codes) <= RecoveryCodes
      BY <3>1, CodesOfOneDrawing
    <3>3. ~restarted => \A k \in customers[c].codes : spent[k] = 0
      BY <2>4 DEF SessionInv, CodesUnspent
    <3> QED  BY <3>2, <3>3
  <2> QED  BY <2>1, <2>2, <2>3, <2>4 DEF UsedOnce
<1>3. AccessEnds
  <2>1. SUFFICES ASSUME NEW s \in sessions, Accepts(s)
                 PROVE  /\ s.iat >= revokedAt[s.owner]
                        /\ s.share # Gone => now <= endedAt[s.share] + ShareSession
    BY DEF AccessEnds
  <2>2. s \in Session
    BY <1>1 DEF SessionTypeOK
  <2>3. s.owner \in Customers /\ s.iat \in Int /\ s.exp \in Int /\ s.share \in Tickets \cup {Gone}
    BY <2>2, SessionAssumption DEF Session, Times
  <2>4. customers[s.owner].minIat = revokedAt[s.owner]
    BY <2>1, <2>3, ExistingAccount DEF Accepts
  <2>5. revokedAt[s.owner] \in Int
    BY <2>3, SessionAssumption DEF SessionInv, Times, Never
  <2>6. s.iat >= revokedAt[s.owner]
    BY <2>1, <2>3, <2>4, <2>5 DEF Accepts
  <2>7. ASSUME s.share # Gone PROVE now <= endedAt[s.share] + ShareSession
    <3>1. s.share \in Tickets /\ endedAt[s.share] \in Int
      BY <2>3, <2>7 DEF SessionInv
    <3>2. s.iat <= endedAt[s.share] /\ s.exp = s.iat + ShareSession
      BY <2>7 DEF SessionInv, SessionsTrue
    <3>3. now <= s.exp /\ now \in Int /\ ShareSession \in Nat
      BY <2>1, <1>1, SessionAssumption DEF Accepts, SessionTypeOK, Times
    <3> QED  BY <2>3, <3>1, <3>2, <3>3
  <2> QED  BY <2>6, <2>7
<1> QED  BY <1>1, <1>2, <1>3

-----------------------------------------------------------------------------
(* The stand-in of the vendor's cloud                                      *)

\* Counting up to m: a set of numbers that has 0 and goes on to the next reaches m.
LEMMA CountUp ==
    ASSUME NEW m \in Nat, NEW S, 0 \in S, \A n \in 0 .. m - 1 : n \in S => n + 1 \in S
    PROVE  0 .. m \subseteq S
<1> DEFINE T == {n \in 0 .. m : n \notin S}
<1> SUFFICES ASSUME T # {} PROVE FALSE
  OBVIOUS
<1>1. PICK k \in T : \A j \in T : k <= j
  <2>1. T \in SUBSET Nat
    OBVIOUS
  <2> HIDE DEF T
  <2> QED  BY <2>1, FirstExists
<1>2. k # 0 /\ k - 1 \in 0 .. m - 1 /\ k - 1 \in S
  BY <1>1
<1> QED  BY <1>1, <1>2

\* The recursive function of Chosen exists: it does up to 0, and with n up to n + 1.
LEMMA ChosenExists ==
    ASSUME NEW X, NEW s \in Seq(X), NEW kinds
    PROVE  \E f : f = [n \in 0 .. Len(s) |->
                IF n = 0 THEN <<>>
                ELSE IF s[n] \in kinds THEN Append(f[n - 1], s[n]) ELSE f[n - 1]]
<1> DEFINE Then(f, n) == IF n = 0 THEN <<>>
                ELSE IF s[n] \in kinds THEN Append(f[n - 1], s[n]) ELSE f[n - 1]
           Solved == {m \in 0 .. Len(s) : \E f : f = [n \in 0 .. m |-> Then(f, n)]}
<1>1. Len(s) \in Nat
  OBVIOUS
<1>2. 0 \in Solved
  <2> DEFINE f == [n \in 0 .. 0 |-> <<>>]
  <2>1. f = [n \in 0 .. 0 |-> Then(f, n)]
    OBVIOUS
  <2> HIDE DEF f
  <2> QED  BY <1>1, <2>1
<1>3. ASSUME NEW m \in 0 .. Len(s) - 1, m \in Solved PROVE m + 1 \in Solved
  <2>1. PICK f : f = [n \in 0 .. m |-> Then(f, n)]
    BY <1>3
  <2>7. \A n \in 0 .. m : f[n] = Then(f, n)
    <3> HIDE DEF Then
    <3> QED  BY <2>1
  <2> DEFINE last == IF s[m + 1] \in kinds THEN Append(f[m], s[m + 1]) ELSE f[m]
             g == [n \in 0 .. m + 1 |-> IF n = m + 1 THEN last ELSE f[n]]
  <2>2. \A n \in 0 .. m : g[n] = f[n]
    BY <1>1
  <2>3. g[m + 1] = last
    BY <1>1
  <2>4. g = [n \in 0 .. m + 1 |-> g[n]]
    OBVIOUS
  <2> HIDE DEF g
  <2>5. ASSUME NEW n \in 0 .. m + 1 PROVE g[n] = Then(g, n)
    <3>1. CASE n = 0
      BY <3>1, <2>7, <2>2, <1>1
    <3>2. CASE n \in 1 .. m
      <4>1. f[n] = Then(f, n)
        BY <2>7, <3>2, <1>1
      <4>2. g[n] = f[n] /\ g[n - 1] = f[n - 1]
        BY <3>2, <2>2, <1>1
      <4> QED  BY <4>1, <4>2
    <3>3. CASE n = m + 1
      <4>1. g[n - 1] = f[m] /\ n # 0
        BY <3>3, <2>2, <1>1
      <4> QED  BY <4>1, <3>3, <2>3
    <3> QED  BY <3>1, <3>2, <3>3, <1>1
  <2>6. g = [n \in 0 .. m + 1 |-> Then(g, n)]
    BY <2>4, <2>5
  <2> HIDE DEF Then
  <2> QED  BY <2>6, <1>1
<1>4. Len(s) \in Solved
  <2> HIDE DEF Solved
  <2>1. 0 .. Len(s) \subseteq Solved
    BY <1>1, <1>2, <1>3, CountUp
  <2> QED  BY <1>1, <2>1
<1> QED  BY <1>4

\* A filter keeps those entries of a list that are of the kind, all of them, in their order.
LEMMA ChosenProperties ==
    ASSUME NEW X, NEW s \in Seq(X), NEW kinds
    PROVE  /\ Chosen(s, kinds) \in Seq(X)
           /\ \A i \in 1 .. Len(Chosen(s, kinds)) :
                 Chosen(s, kinds)[i] \in kinds /\ \E j \in 1 .. Len(s) : Chosen(s, kinds)[i] = s[j]
           /\ \A i, j \in 1 .. Len(Chosen(s, kinds)) : i < j =>
                 \E a, b \in 1 .. Len(s) :
                    a < b /\ Chosen(s, kinds)[i] = s[a] /\ Chosen(s, kinds)[j] = s[b]
           /\ \A j \in 1 .. Len(s) : s[j] \in kinds =>
                 \E i \in 1 .. Len(Chosen(s, kinds)) : Chosen(s, kinds)[i] = s[j]
<1> DEFINE Then(f, n) == IF n = 0 THEN <<>>
                ELSE IF s[n] \in kinds THEN Append(f[n - 1], s[n]) ELSE f[n - 1]
           left == CHOOSE f : f = [n \in 0 .. Len(s) |-> Then(f, n)]
<1>1. Chosen(s, kinds) = left[Len(s)]
  BY Zenon DEF Chosen
<1>2. left = [n \in 0 .. Len(s) |-> Then(left, n)]
  <2>1. \E f : f = [n \in 0 .. Len(s) |-> Then(f, n)]
    BY ChosenExists, Zenon
  <2> HIDE DEF Then
  <2> QED  BY <2>1, Zenon
<1>8. \A n \in 0 .. Len(s) : left[n] = Then(left, n)
  <2> HIDE DEF Then, left
  <2> QED  BY <1>2
<1> HIDE DEF left
<1> DEFINE Good(k, n) ==
       /\ k \in Seq(X)
       /\ \A i \in 1 .. Len(k) : k[i] \in kinds /\ \E j \in 1 .. n : k[i] = s[j]
       /\ \A i, j \in 1 .. Len(k) : i < j =>
             \E a, b \in 1 .. n : a < b /\ k[i] = s[a] /\ k[j] = s[b]
       /\ \A j \in 1 .. n : s[j] \in kinds => \E i \in 1 .. Len(k) : k[i] = s[j]
    S == {n \in 0 .. Len(s) : Good(left[n], n)}
<1>3. Len(s) \in Nat
  OBVIOUS
<1>4. 0 \in S
  <2>1. left[0] = <<>>
    BY <1>2, <1>3
  <2>2. Good(<<>>, 0)
    OBVIOUS
  <2> HIDE DEF Good
  <2> QED  BY <2>1, <2>2, <1>3
<1>5. ASSUME NEW n \in 0 .. Len(s) - 1, n \in S PROVE n + 1 \in S
  <2> DEFINE k == left[n]
             x == s[n + 1]
  <2>5. n + 1 \in 1 .. Len(s) /\ x \in X /\ n \in Nat
    BY <1>3
  <2>6. Good(k, n)
    <3> HIDE DEF Good
    <3> QED  BY <1>5
  <2>1. Good(k, n) /\ n + 1 \in 1 .. Len(s) /\ x \in X /\ n \in Nat
    BY <2>5, <2>6
  <2>2. left[n + 1] = IF x \in kinds THEN Append(k, x) ELSE k
    BY <1>8, <1>3
  <2> HIDE DEF k
  <2>3. CASE x \in kinds
    <3> DEFINE w == Append(k, x)
    <3>1. /\ w \in Seq(X) /\ Len(w) = Len(k) + 1 /\ Len(k) \in Nat
          /\ \A i \in 1 .. Len(k) : w[i] = k[i]
          /\ w[Len(k) + 1] = x
      BY <2>1
    <3>8. left[n + 1] = w
      BY <2>2, <2>3
    <3> HIDE DEF w
    <3>2. ASSUME NEW i \in 1 .. Len(w)
          PROVE  w[i] \in kinds /\ \E j \in 1 .. n + 1 : w[i] = s[j]
      <4>1. CASE i = Len(k) + 1
        BY <4>1, <2>1, <2>3, <3>1
      <4>2. CASE i \in 1 .. Len(k)
        <5>1. w[i] = k[i]
          BY <4>2, <3>1
        <5>2. PICK j \in 1 .. n : k[i] = s[j]
          BY <4>2, <2>1
        <5>3. k[i] \in kinds /\ j \in 1 .. n + 1
          BY <4>2, <5>2, <2>1
        <5> QED  BY <5>1, <5>2, <5>3
      <4> QED  BY <4>1, <4>2, <3>1
    <3>3. ASSUME NEW i \in 1 .. Len(w), NEW j \in 1 .. Len(w), i < j
          PROVE  \E a, b \in 1 .. n + 1 : a < b /\ w[i] = s[a] /\ w[j] = s[b]
      <4>1. CASE j = Len(k) + 1
        <5>1. i \in 1 .. Len(k) /\ w[i] = k[i] /\ w[j] = x
          BY <4>1, <3>1, <3>3
        <5>2. PICK a \in 1 .. n : k[i] = s[a]
          BY <5>1, <2>1
        <5>3. a \in 1 .. n + 1 /\ n + 1 \in 1 .. n + 1 /\ a < n + 1
          BY <5>2, <2>1
        <5>4. w[i] = s[a] /\ w[j] = s[n + 1]
          BY <5>1, <5>2
        <5> QED  BY <5>3, <5>4
      <4>2. CASE j \in 1 .. Len(k)
        <5>1. i \in 1 .. Len(k) /\ w[i] = k[i] /\ w[j] = k[j]
          BY <4>2, <3>1, <3>3
        <5>2. PICK a \in 1 .. n, b \in 1 .. n : a < b /\ k[i] = s[a] /\ k[j] = s[b]
          BY <5>1, <4>2, <3>3, <2>1
        <5>3. a \in 1 .. n + 1 /\ b \in 1 .. n + 1
          BY <5>2, <2>1
        <5> QED  BY <5>1, <5>2, <5>3
      <4> QED  BY <4>1, <4>2, <3>1
    <3>4. ASSUME NEW j \in 1 .. n + 1, s[j] \in kinds
          PROVE  \E i \in 1 .. Len(w) : w[i] = s[j]
      <4>1. CASE j = n + 1
        BY <4>1, <3>1
      <4>2. CASE j \in 1 .. n
        <5>1. PICK i \in 1 .. Len(k) : k[i] = s[j]
          BY <4>2, <3>4, <2>1
        <5> QED  BY <5>1, <3>1
      <4> QED  BY <4>1, <4>2, <2>1
    <3>5. Good(w, n + 1)
      BY <3>1, <3>2, <3>3, <3>4
    <3> HIDE DEF Good
    <3> QED  BY <3>5, <3>8, <2>1, <1>3
  <2>4. CASE x \notin kinds
    <3>2. ASSUME NEW i \in 1 .. Len(k)
          PROVE  k[i] \in kinds /\ \E j \in 1 .. n + 1 : k[i] = s[j]
      BY <2>1
    <3>3. ASSUME NEW i \in 1 .. Len(k), NEW j \in 1 .. Len(k), i < j
          PROVE  \E a, b \in 1 .. n + 1 : a < b /\ k[i] = s[a] /\ k[j] = s[b]
      <4>1. PICK a \in 1 .. n, b \in 1 .. n : a < b /\ k[i] = s[a] /\ k[j] = s[b]
        BY <3>3, <2>1
      <4>2. a \in 1 .. n + 1 /\ b \in 1 .. n + 1
        BY <4>1, <2>1
      <4> QED  BY <4>1, <4>2
    <3>4. ASSUME NEW j \in 1 .. n + 1, s[j] \in kinds
          PROVE  \E i \in 1 .. Len(k) : k[i] = s[j]
      <4>1. j \in 1 .. n
        BY <3>4, <2>4, <2>1
      <4> QED  BY <4>1, <3>4, <2>1
    <3>1. Good(k, n + 1)
      BY <2>1, <3>2, <3>3, <3>4
    <3> HIDE DEF Good
    <3> QED  BY <3>1, <2>1, <2>2, <2>4, <1>3
  <2> QED  BY <2>3, <2>4
<1>6. Len(s) \in S
  <2> HIDE DEF S
  <2>1. 0 .. Len(s) \subseteq S
    BY <1>3, <1>4, <1>5, CountUp
  <2> QED  BY <1>3, <2>1
<1> QED  BY <1>1, <1>6

\* The elements of a sequence, and those of it with one more at either end.
LEMMA SetOfSeq ==
    ASSUME NEW X, NEW s \in Seq(X)
    PROVE  /\ ToSet(s) \subseteq X /\ ToSet(s) = {s[i] : i \in 1 .. Len(s)}
           /\ \A x \in X : ToSet(Append(s, x)) = ToSet(s) \cup {x}
<1>1. DOMAIN s = 1 .. Len(s) /\ Len(s) \in Nat /\ \A i \in 1 .. Len(s) : s[i] \in X
  OBVIOUS
<1>2. ToSet(s) = {s[i] : i \in 1 .. Len(s)}
  BY <1>1 DEF ToSet
<1>3. ASSUME NEW x \in X PROVE ToSet(Append(s, x)) = ToSet(s) \cup {x}
  <2> DEFINE w == Append(s, x)
  <2>1. /\ DOMAIN w = 1 .. Len(s) + 1 /\ w[Len(s) + 1] = x
        /\ \A i \in 1 .. Len(s) : w[i] = s[i]
    OBVIOUS
  <2> HIDE DEF w
  <2>2. \A i \in DOMAIN w : w[i] \in ToSet(s) \cup {x}
    BY <1>1, <1>2, <2>1
  <2>3. \A i \in 1 .. Len(s) : i \in DOMAIN w /\ w[i] = s[i]
    BY <1>1, <2>1
  <2>4. Len(s) + 1 \in DOMAIN w /\ w[Len(s) + 1] = x
    BY <1>1, <2>1
  <2>5. ToSet(w) = {w[i] : i \in DOMAIN w}
    BY Zenon DEF ToSet
  <2>6. ToSet(w) = ToSet(s) \cup {x}
    BY <1>2, <2>2, <2>3, <2>4, <2>5
  <2> QED  BY <2>6 DEF w
<1> QED  BY <1>1, <1>2, <1>3

\* What there is of a group is a group, with no keys when there is none.
LEMMA ShellIsGroup ==
    ASSUME GroupsTrue(groups), NEW g \in AllGids
    PROVE  /\ Shell(g) \in Group /\ OneKeyIn(Shell(g).keys)
           /\ Shell(g).keys \in Seq(Key) /\ Shell(g).eids \subseteq Eids
           /\ Shell(g).listed \in BOOLEAN
           /\ groups[g] # NoGroup => groups[g] \in Group /\ Shell(g) = groups[g]
<1>1. CASE groups[g] = NoGroup
  <2>1. Shell(g) = [eids |-> {}, keys |-> <<>>, listed |-> FALSE]
    BY <1>1 DEF Shell, NobodyYet
  <2>2. <<>> \in Seq(Key) /\ DOMAIN <<>> = {}
    OBVIOUS
  <2> QED  BY <1>1, <2>1, <2>2 DEF Group, OneKeyIn
<1>2. CASE groups[g] # NoGroup
  BY <1>2 DEF Shell, GroupsTrue, Group
<1> QED  BY <1>1, <1>2

\* A handler may answer with a group that has one key for each endpoint and all the keys it had.
LEMMA AnswerKeeps ==
    ASSUME GroupsTrue(groups), KeysTrue, keysMade \in 0 .. MaxKeys,
           NEW g \in AllGids, NEW new \in Group, OneKeyIn(new.keys),
           ToSet(Shell(g).keys) \subseteq ToSet(new.keys),
           NEW count \in {0, 1}, count = 1 => keysMade < MaxKeys,
           NEW shown, shown \subseteq ToSet(new.keys), Answer(g, new, count, shown)
    PROVE  GroupsTrue(groups)' /\ KeysTrue' /\ keysMade' \in 0 .. MaxKeys
<1>1. /\ groups' = [groups EXCEPT ![g] = new] /\ keysMade' = keysMade + count
      /\ given' = given \cup {<<g, k>> : k \in shown}
  BY DEF Answer
<1>2. groups \in [AllGids -> Group \cup {NoGroup}]
  BY DEF GroupsTrue
<1>3. groups' \in [AllGids -> Group \cup {NoGroup}] /\ groups'[g] = new
      /\ \A h \in AllGids \ {g} : groups'[h] = groups[h]
  BY <1>1, <1>2
<1>4. GroupsTrue(groups)'
  BY <1>3 DEF GroupsTrue
<1>5. ToSet(new.keys) \subseteq Key
  BY SetOfSeq DEF Group
<1>6. given' \subseteq AllGids \X Key
  BY <1>1, <1>5 DEF KeysTrue
<1>7. ASSUME NEW x \in given'
      PROVE  groups'[x[1]] # NoGroup /\ x[2] \in ToSet(groups'[x[1]].keys)
  <2>1. CASE x[1] = g /\ x[2] \in ToSet(new.keys)
    BY <2>1, <1>3, NoGroupIsNone
  <2>2. CASE x \in given
    <3>1. /\ x[1] \in AllGids /\ groups[x[1]] # NoGroup /\ x[2] \in ToSet(groups[x[1]].keys)
      BY <2>2 DEF KeysTrue, KeysKept
    <3>2. CASE x[1] = g
      <4>1. Shell(g) = groups[g]
        BY <3>1, <3>2 DEF Shell
      <4> QED  BY <4>1, <3>1, <3>2, <1>3, NoGroupIsNone
    <3>3. CASE x[1] # g
      BY <3>1, <3>3, <1>3
    <3> QED  BY <3>2, <3>3
  <2> QED  BY <2>1, <2>2, <1>1, <1>7
<1>8. keysMade' \in 0 .. MaxKeys
  BY <1>1, PairingAssumption
<1> QED  BY <1>4, <1>6, <1>7, <1>8 DEF KeysTrue, KeysKept

\* A key more at the end, of an endpoint that had none, or at the front, of no endpoint.
LEMMA OneKeyMore ==
    ASSUME NEW ks \in Seq(Key), OneKeyIn(ks), NEW e \in Eids \cup {NoEid}, NEW n \in 1 .. MaxKeys
    PROVE  LET k == [eid |-> e, n |-> n] IN
           /\ ~HasKey(ks, e) => /\ Append(ks, k) \in Seq(Key) /\ OneKeyIn(Append(ks, k))
                                  /\ ToSet(ks) \subseteq ToSet(Append(ks, k))
           /\ e = NoEid => /\ <<k>> \o ks \in Seq(Key) /\ OneKeyIn(<<k>> \o ks)
                           /\ ToSet(ks) \subseteq ToSet(<<k>> \o ks)
<1> DEFINE k == [eid |-> e, n |-> n]
<1>1. k \in Key /\ k.eid = e
  BY DEF Key
<1> HIDE DEF k
<1>2. Len(ks) \in Nat /\ DOMAIN ks = 1 .. Len(ks)
  OBVIOUS
<1>3. ASSUME ~HasKey(ks, e)
      PROVE  /\ Append(ks, k) \in Seq(Key) /\ OneKeyIn(Append(ks, k))
             /\ ToSet(ks) \subseteq ToSet(Append(ks, k))
  <2> DEFINE w == Append(ks, k)
  <2>1. /\ w \in Seq(Key) /\ DOMAIN w = 1 .. Len(ks) + 1 /\ w[Len(ks) + 1] = k
        /\ \A i \in 1 .. Len(ks) : w[i] = ks[i]
    BY <1>1
  <2>2. ToSet(ks) \subseteq ToSet(w)
    BY <1>1, SetOfSeq
  <2> HIDE DEF w
  <2>3. \A i \in 1 .. Len(ks) : ks[i].eid # e
    BY <1>2, <1>3 DEF HasKey
  <2>4. ASSUME NEW i \in DOMAIN w, NEW j \in DOMAIN w, w[i].eid = w[j].eid, w[i].eid # NoEid
        PROVE  i = j
    <3>1. CASE i \in 1 .. Len(ks) /\ j \in 1 .. Len(ks)
      BY <3>1, <2>1, <2>4, <1>2 DEF OneKeyIn
    <3>2. CASE i = Len(ks) + 1 /\ j \in 1 .. Len(ks)
      BY <3>2, <2>1, <2>3, <2>4, <1>1
    <3>3. CASE j = Len(ks) + 1 /\ i \in 1 .. Len(ks)
      BY <3>3, <2>1, <2>3, <2>4, <1>1
    <3>4. CASE i = Len(ks) + 1 /\ j = Len(ks) + 1
      BY <3>4
    <3> QED  BY <3>1, <3>2, <3>3, <3>4, <2>1, <1>2
  <2>5. OneKeyIn(w)
    BY <2>4 DEF OneKeyIn
  <2> QED  BY <2>1, <2>2, <2>5 DEF w
<1>4. ASSUME e = NoEid
      PROVE  /\ <<k>> \o ks \in Seq(Key) /\ OneKeyIn(<<k>> \o ks)
             /\ ToSet(ks) \subseteq ToSet(<<k>> \o ks)
  <2> DEFINE w == <<k>> \o ks
  <2>1. /\ w \in Seq(Key) /\ DOMAIN w = 1 .. Len(ks) + 1 /\ w[1] = k
        /\ \A i \in 2 .. Len(ks) + 1 : w[i] = ks[i - 1]
    BY <1>1
  <2> HIDE DEF w
  <2>2. \A i \in 1 .. Len(ks) : i + 1 \in DOMAIN w /\ w[i + 1] = ks[i]
    <3> TAKE i \in 1 .. Len(ks)
    <3>1. i + 1 \in 2 .. Len(ks) + 1 /\ (i + 1) - 1 = i
      BY <1>2
    <3> QED  BY <3>1, <2>1, <1>2
  <2>3. ToSet(ks) \subseteq ToSet(w)
    BY <2>2, <1>2 DEF ToSet
  <2>4. ASSUME NEW i \in DOMAIN w, NEW j \in DOMAIN w, w[i].eid = w[j].eid, w[i].eid # NoEid
        PROVE  i = j
    <3>1. i # 1 /\ j # 1
      BY <2>1, <2>4, <1>1, <1>4
    <3>2. i \in 2 .. Len(ks) + 1 /\ j \in 2 .. Len(ks) + 1
      BY <3>1, <2>1, <1>2
    <3>3. i - 1 \in DOMAIN ks /\ j - 1 \in DOMAIN ks
      BY <3>2, <1>2
    <3>4. i - 1 = j - 1
      BY <3>2, <3>3, <2>1, <2>4 DEF OneKeyIn
    <3> QED  BY <3>2, <3>4, <1>2
  <2>5. OneKeyIn(w)
    BY <2>4 DEF OneKeyIn
  <2> QED  BY <2>1, <2>3, <2>5 DEF w
<1> QED  BY <1>3, <1>4 DEF k

\* A group with a key more for an endpoint that had none is a group, and has the keys it had.
LEMMA WithKeyIsGroup ==
    ASSUME GroupsTrue(groups), keysMade \in 0 .. MaxKeys, NEW g \in AllGids, NEW e \in Eids,
           Needs(g, e) => keysMade < MaxKeys
    PROVE  /\ WithKey(g, e) \in Group /\ OneKeyIn(WithKey(g, e).keys)
           /\ ToSet(Shell(g).keys) \subseteq ToSet(WithKey(g, e).keys)
<1> DEFINE old == Shell(g)
<1>1. /\ old \in Group /\ OneKeyIn(old.keys) /\ old.keys \in Seq(Key) /\ old.eids \subseteq Eids
  BY ShellIsGroup
<1>2. CASE ~Needs(g, e)
  BY <1>1, <1>2 DEF WithKey
<1>3. CASE Needs(g, e)
  <2> DEFINE ks == Append(old.keys, NewKey(e))
             who == IF old.listed THEN old.eids ELSE old.eids \cup {e}
  <2>1. keysMade + 1 \in 1 .. MaxKeys
    BY <1>3, PairingAssumption
  <2>2. ks \in Seq(Key) /\ OneKeyIn(ks) /\ ToSet(old.keys) \subseteq ToSet(ks)
    BY <2>1, <1>1, <1>3, OneKeyMore DEF NewKey, Needs
  <2>3. WithKey(g, e) = [old EXCEPT !.keys = ks, !.eids = who]
    BY <1>3 DEF WithKey
  <2>4. who \subseteq Eids
    BY <1>1
  <2>5. ToSet(Shell(g).keys) \subseteq ToSet(ks)
    BY <2>2
  <2> HIDE DEF ks, who, old
  <2>6. WithKey(g, e) \in Group /\ WithKey(g, e).keys = ks
    BY <1>1, <2>2, <2>3, <2>4 DEF Group
  <2> QED  BY <2>2, <2>5, <2>6
<1> QED  BY <1>2, <1>3

\* Who asks for a group is given a key of his own unless he has one, whether the call fails or not.
LEMMA EnsuredKeeps ==
    ASSUME GroupsTrue(groups), KeysTrue, keysMade \in 0 .. MaxKeys,
           NEW g \in AllGids, NEW e \in Eids, Ensured(g, e) \/ Fails(g, e)
    PROVE  GroupsTrue(groups)' /\ KeysTrue' /\ keysMade' \in 0 .. MaxKeys
<1>1. CASE ~Needs(g, e)
  <2>1. Answer(g, Shell(g), 0, ToSet(Shell(g).keys))
    BY <1>1 DEF Ensured, Fails
  <2>2. Shell(g) \in Group /\ OneKeyIn(Shell(g).keys)
    BY ShellIsGroup
  <2>3. ToSet(Shell(g).keys) \subseteq ToSet(Shell(g).keys)
    OBVIOUS
  <2> QED  BY <2>1, <2>2, <2>3, AnswerKeeps
<1>2. CASE Needs(g, e)
  <2>1. PICK shown \in {{}, ToSet(WithKey(g, e).keys)} :
           keysMade < MaxKeys /\ Answer(g, WithKey(g, e), 1, shown)
    BY <1>2 DEF Ensured, Fails
  <2>2. /\ WithKey(g, e) \in Group /\ OneKeyIn(WithKey(g, e).keys)
        /\ ToSet(Shell(g).keys) \subseteq ToSet(WithKey(g, e).keys)
    BY <2>1, WithKeyIsGroup
  <2>3. shown \subseteq ToSet(WithKey(g, e).keys)
    OBVIOUS
  <2> QED  BY <2>1, <2>2, <2>3, AnswerKeeps
<1> QED  BY <1>1, <1>2

\* Some of the keys of a group, in their order: still one for each endpoint.
LEMMA ChosenKeys ==
    ASSUME NEW list \in Seq(Key), OneKeyIn(list), NEW known
    PROVE  Chosen(list, known) \in Seq(Key) /\ OneKeyIn(Chosen(list, known))
<1>1. /\ Chosen(list, known) \in Seq(Key)
      /\ \A i, j \in 1 .. Len(Chosen(list, known)) : i < j =>
            \E a, b \in 1 .. Len(list) :
               a < b /\ Chosen(list, known)[i] = list[a] /\ Chosen(list, known)[j] = list[b]
  BY ChosenProperties
<1> DEFINE w == Chosen(list, known)
<1>2. /\ w \in Seq(Key)
      /\ \A i, j \in 1 .. Len(w) : i < j =>
            \E a, b \in 1 .. Len(list) : a < b /\ w[i] = list[a] /\ w[j] = list[b]
  BY <1>1
<1> HIDE DEF w
<1>3. ASSUME NEW i \in 1 .. Len(w), NEW j \in 1 .. Len(w), i < j,
             w[i].eid = w[j].eid, w[i].eid # NoEid
      PROVE  FALSE
  <2>1. PICK a, b \in 1 .. Len(list) : a < b /\ w[i] = list[a] /\ w[j] = list[b]
    BY <1>2, <1>3
  <2>2. a \in DOMAIN list /\ b \in DOMAIN list /\ a # b
    BY <2>1
  <2> QED  BY <2>1, <2>2, <1>3 DEF OneKeyIn
<1>4. ASSUME NEW i \in DOMAIN w, NEW j \in DOMAIN w, w[i].eid = w[j].eid, w[i].eid # NoEid
      PROVE  i = j
  <2>1. DOMAIN w = 1 .. Len(w) /\ Len(w) \in Nat
    BY <1>2
  <2>2. ~(i < j) /\ ~(j < i)
    BY <2>1, <1>3, <1>4
  <2> QED  BY <2>1, <2>2
<1>5. OneKeyIn(w)
  BY <1>4 DEF OneKeyIn
<1> QED  BY <1>2, <1>5 DEF w

\* The keys of a body are those of an earlier reading: a group with one key for each endpoint.
LEMMA UpdatesAreGroups ==
    ASSUME NEW group \in Group, OneKeyIn(group.keys), NEW new \in Updates(group)
    PROVE  new \in Group /\ OneKeyIn(new.keys)
<1> DEFINE parts == {Chosen(group.keys, known) : known \in SUBSET ToSet(group.keys)}
<1>1. group.keys \in Seq(Key)
  BY DEF Group
<1>2. new \in {[group EXCEPT !.keys = part] : part \in parts}
               \cup [eids: SUBSET Eids, keys: parts, listed: {TRUE}]
  BY Zenon DEF Updates
<1>3. \A part \in parts : part \in Seq(Key) /\ OneKeyIn(part)
  BY <1>1, ChosenKeys
<1> HIDE DEF parts
<1>4. CASE new \in {[group EXCEPT !.keys = part] : part \in parts}
  <2>1. PICK part \in parts : new = [group EXCEPT !.keys = part]
    BY <1>4
  <2>2. part \in Seq(Key) /\ OneKeyIn(part)
    BY <1>3
  <2>3. new \in Group /\ new.keys = part
    BY <2>1, <2>2 DEF Group
  <2> QED  BY <2>2, <2>3
<1>5. CASE new \in [eids: SUBSET Eids, keys: parts, listed: {TRUE}]
  BY <1>3, <1>5 DEF Group
<1> QED  BY <1>2, <1>4, <1>5

\* An update leaves one key for each endpoint, and its answer the keys that the group has now.
LEMMA UpdatedKeeps ==
    ASSUME GroupsTrue(groups), KeysTrue, keysMade \in 0 .. MaxKeys,
           NEW g \in AllGids, NEW e \in Eids, Updated(g, e)
    PROVE  GroupsTrue(groups)' /\ KeysTrue' /\ keysMade' \in 0 .. MaxKeys
<1>1. CASE Fails(g, e)
  BY <1>1, EnsuredKeeps
<1>2. CASE ~Fails(g, e)
  <2>1. Needs(g, e) => keysMade < MaxKeys
    BY <1>2 DEF Updated
  <2>2. PICK new \in Updates(WithKey(g, e)) :
          /\ groups' = [groups EXCEPT ![g] = new]
          /\ given' = {x \in given : x[1] = g => x[2] \in ToSet(new.keys)}
                          \cup {<<g, k>> : k \in ToSet(new.keys)}
    BY <1>2 DEF Updated
  <2>3. keysMade' = IF Needs(g, e) THEN keysMade + 1 ELSE keysMade
    BY <1>2 DEF Updated
  <2>4. WithKey(g, e) \in Group /\ OneKeyIn(WithKey(g, e).keys)
    BY <2>1, WithKeyIsGroup
  <2>5. new \in Group /\ OneKeyIn(new.keys)
    BY <2>4, UpdatesAreGroups
  <2>6. ToSet(new.keys) \subseteq Key
    BY <2>5, SetOfSeq DEF Group
  <2>7. /\ groups' \in [AllGids -> Group \cup {NoGroup}] /\ groups'[g] = new
        /\ \A h \in AllGids \ {g} : groups'[h] = groups[h]
    BY <2>2, <2>5 DEF GroupsTrue
  <2>8. GroupsTrue(groups)'
    BY <2>5, <2>7 DEF GroupsTrue
  <2>9. given' \subseteq AllGids \X Key
    BY <2>2, <2>6 DEF KeysTrue
  <2>10. ASSUME NEW x \in given'
         PROVE  groups'[x[1]] # NoGroup /\ x[2] \in ToSet(groups'[x[1]].keys)
    <3>1. CASE x[1] = g /\ x[2] \in ToSet(new.keys)
      BY <3>1, <2>5, <2>7, NoGroupIsNone
    <3>2. CASE x \in given /\ x[1] # g
      <4>1. x[1] \in AllGids /\ groups[x[1]] # NoGroup /\ x[2] \in ToSet(groups[x[1]].keys)
        BY <3>2 DEF KeysTrue, KeysKept
      <4> QED  BY <4>1, <3>2, <2>7
    <3> QED  BY <3>1, <3>2, <2>2, <2>10
  <2>11. keysMade' \in 0 .. MaxKeys
    BY <2>1, <2>3, PairingAssumption
  <2> QED  BY <2>8, <2>9, <2>10, <2>11 DEF KeysTrue, KeysKept
<1> QED  BY <1>1, <1>2

\* Whatever is asked of a group, nobody has two keys of it and none is lost but with the group or by
\* an update that leaves it out.
LEMMA GroupsKept ==
    ASSUME GroupsTrue(groups), KeysTrue, keysMade \in 0 .. MaxKeys, GroupNext
    PROVE  GroupsTrue(groups)' /\ KeysTrue' /\ keysMade' \in 0 .. MaxKeys
<1>1. Gids \subseteq AllGids /\ Eids \subseteq AllGids
  BY DEF AllGids
<1>2. CASE CreateGroup
  <2>1. PICK g \in Gids : /\ groups[g] = NoGroup
                         /\ \/ Answer(g, NobodyYet, 0, {})
                            \/ keysMade < MaxKeys /\ \E e \in Eids : Answer(g, Created(e), 1, {NewKey(e)})
    BY <1>2 DEF CreateGroup
  <2>2. ToSet(Shell(g).keys) = {} /\ Shell(g) = NobodyYet /\ g \in AllGids
    BY <2>1, <1>1 DEF Shell, NobodyYet, ToSet
  <2>3. CASE Answer(g, NobodyYet, 0, {})
    <3>1. Shell(g) \in Group /\ OneKeyIn(Shell(g).keys)
      BY <2>2, ShellIsGroup
    <3>2. /\ {} \subseteq ToSet(Shell(g).keys) /\ ToSet(Shell(g).keys) \subseteq ToSet(Shell(g).keys)
          /\ Answer(g, Shell(g), 0, {})
      BY <2>2, <2>3
    <3> QED  BY <2>2, <3>1, <3>2, AnswerKeeps
  <2>4. CASE keysMade < MaxKeys /\ \E e \in Eids : Answer(g, Created(e), 1, {NewKey(e)})
    <3>1. PICK e \in Eids : Answer(g, Created(e), 1, {NewKey(e)})
      BY <2>4
    <3>2. keysMade + 1 \in 1 .. MaxKeys
      BY <2>4, PairingAssumption
    <3>3. NewKey(e) \in Key
      BY <3>2 DEF NewKey, Key
    <3> DEFINE new == Created(e)
    <3>4. new = [eids |-> {e}, keys |-> <<NewKey(e)>>, listed |-> FALSE]
      BY DEF Created
    <3>5. <<NewKey(e)>> \in Seq(Key) /\ DOMAIN <<NewKey(e)>> = {1} /\ <<NewKey(e)>>[1] = NewKey(e)
      BY <3>3
    <3>6. new \in Group /\ OneKeyIn(new.keys)
      BY <3>4, <3>5 DEF Group, OneKeyIn
    <3>7. {NewKey(e)} \subseteq ToSet(new.keys)
      BY <3>4, <3>5 DEF ToSet
    <3> HIDE DEF new
    <3>8. ToSet(Shell(g).keys) \subseteq ToSet(new.keys) /\ Answer(g, new, 1, {NewKey(e)})
      BY <3>1, <2>2 DEF new
    <3> QED  BY <2>2, <2>4, <3>6, <3>7, <3>8, AnswerKeeps
  <2> QED  BY <2>1, <2>3, <2>4
<1>3. CASE FindGroup
  <2>1. PICK g \in AllGids, e \in Eids : Ensured(g, e) \/ Fails(g, e)
    BY <1>1, <1>3 DEF FindGroup
  <2> QED  BY <2>1, EnsuredKeeps
<1>8. CASE UpdateGroup \/ MemberAsked
  <2>1. PICK g \in AllGids, e \in Eids : Updated(g, e)
    BY <1>1, <1>8 DEF UpdateGroup, MemberAsked
  <2> QED  BY <2>1, UpdatedKeeps
<1>4. CASE ReadGroup
  <2>1. PICK g \in Gids : \E shown \in {{}, ToSet(Shell(g).keys)} : Answer(g, Shell(g), 0, shown)
    BY <1>4 DEF ReadGroup
  <2>4. PICK shown \in {{}, ToSet(Shell(g).keys)} : Answer(g, Shell(g), 0, shown)
    BY <2>1
  <2>2. Shell(g) \in Group /\ OneKeyIn(Shell(g).keys) /\ g \in AllGids
    BY <1>1, ShellIsGroup
  <2>3. ToSet(Shell(g).keys) \subseteq ToSet(Shell(g).keys) /\ shown \subseteq ToSet(Shell(g).keys)
    OBVIOUS
  <2> QED  BY <2>2, <2>3, <2>4, AnswerKeeps
<1>5. CASE DeleteGroup
  <2>1. PICK g \in AllGids :
          groups' = [groups EXCEPT ![g] = NoGroup] /\ given' = {x \in given : x[1] # g}
    BY <1>5 DEF DeleteGroup
  <2>2. keysMade' = keysMade
    BY <1>5 DEF DeleteGroup
  <2>3. groups \in [AllGids -> Group \cup {NoGroup}]
    BY DEF GroupsTrue
  <2>4. /\ groups' \in [AllGids -> Group \cup {NoGroup}] /\ groups'[g] = NoGroup
        /\ \A h \in AllGids \ {g} : groups'[h] = groups[h]
    BY <2>1, <2>3
  <2>5. GroupsTrue(groups)'
    BY <2>4 DEF GroupsTrue
  <2>6. \A x \in given' : x \in given /\ x[1] # g /\ x[1] \in AllGids
    BY <2>1 DEF KeysTrue
  <2>7. KeysTrue'
    BY <2>4, <2>6 DEF KeysTrue, KeysKept
  <2> QED  BY <2>2, <2>5, <2>7
<1>6. CASE Rekey
  <2>1. PICK g \in Gids :
          /\ keysMade < MaxKeys
          /\ Answer(g, [Shell(g) EXCEPT !.keys = <<NewKey(NoEid)>> \o @], 1, {NewKey(NoEid)})
    BY <1>6 DEF Rekey
  <2> DEFINE old == Shell(g)
             ks == <<NewKey(NoEid)>> \o old.keys
             new == [old EXCEPT !.keys = ks]
  <2>2. old \in Group /\ OneKeyIn(old.keys) /\ old.keys \in Seq(Key) /\ g \in AllGids
    BY <1>1, ShellIsGroup
  <2>3. keysMade + 1 \in 1 .. MaxKeys
    BY <2>1, PairingAssumption
  <2>4. ks \in Seq(Key) /\ OneKeyIn(ks) /\ ToSet(old.keys) \subseteq ToSet(ks)
    BY <2>2, <2>3, OneKeyMore DEF NewKey
  <2>5. Answer(g, new, 1, {NewKey(NoEid)}) /\ ToSet(Shell(g).keys) \subseteq ToSet(ks)
    BY <2>1, <2>4
  <2>7. {NewKey(NoEid)} \subseteq ToSet(ks)
    <3>1. 1 \in DOMAIN ks /\ ks[1] = NewKey(NoEid)
      BY <2>2
    <3> QED  BY <3>1 DEF ToSet
  <2> HIDE DEF ks, old
  <2>6. new \in Group /\ new.keys = ks
    BY <2>2, <2>4 DEF Group
  <2> HIDE DEF new
  <2> QED  BY <2>1, <2>2, <2>4, <2>5, <2>6, <2>7, AnswerKeeps
<1>7. CASE AddMember \/ RemoveMember
  <2>1. PICK g \in Gids, es \in SUBSET Eids :
          Answer(g, [Shell(g) EXCEPT !.eids = es], 0, {})
    <3>1. ASSUME AddMember
          PROVE  \E g \in Gids, es \in SUBSET Eids : Answer(g, [Shell(g) EXCEPT !.eids = es], 0, {})
      <4>1. PICK g \in Gids, e \in Eids : Answer(g, [Shell(g) EXCEPT !.eids = @ \cup {e}], 0, {})
        BY <3>1 DEF AddMember
      <4>2. Shell(g).eids \cup {e} \subseteq Eids
        BY <1>1, ShellIsGroup
      <4> QED  BY <4>1, <4>2
    <3>2. ASSUME RemoveMember
          PROVE  \E g \in Gids, es \in SUBSET Eids : Answer(g, [Shell(g) EXCEPT !.eids = es], 0, {})
      <4>1. PICK g \in Gids, e \in Eids :
              groups[g] # NoGroup /\ Answer(g, [groups[g] EXCEPT !.eids = @ \ {e}], 0, {})
        BY <3>2 DEF RemoveMember
      <4>2. Shell(g) = groups[g] /\ Shell(g).eids \ {e} \subseteq Eids
        BY <4>1, <1>1, ShellIsGroup
      <4> QED  BY <4>1, <4>2
    <3> QED  BY <1>7, <3>1, <3>2
  <2> DEFINE new == [Shell(g) EXCEPT !.eids = es]
  <2>2. Shell(g) \in Group /\ OneKeyIn(Shell(g).keys) /\ g \in AllGids
    BY <1>1, ShellIsGroup
  <2>3. new \in Group /\ new.keys = Shell(g).keys
    BY <2>2 DEF Group
  <2>4. Answer(g, new, 0, {})
    BY <2>1
  <2> HIDE DEF new
  <2>5. /\ OneKeyIn(new.keys) /\ ToSet(Shell(g).keys) \subseteq ToSet(new.keys)
        /\ {} \subseteq ToSet(new.keys)
    BY <2>2, <2>3
  <2> QED  BY <2>2, <2>3, <2>4, <2>5, AnswerKeeps
<1> QED  BY <1>2, <1>3, <1>4, <1>5, <1>6, <1>7, <1>8 DEF GroupNext

\* The end of a list.
LEMMA LastOfIsEnd ==
    ASSUME NEW X, NEW s \in Seq(X), NEW k \in Nat
    PROVE  /\ LastOf(s, k) \in Seq(X) /\ Len(LastOf(s, k)) <= k
           /\ \E n \in 0 .. Len(s) :
                 /\ Len(LastOf(s, k)) = Len(s) - n
                 /\ \A i \in 1 .. Len(s) - n : LastOf(s, k)[i] = s[n + i]
<1> DEFINE a == IF Len(s) > k THEN Len(s) - k + 1 ELSE 1
           w == SubSeq(s, a, Len(s))
<1>1. Len(s) \in Nat /\ a \in 1 .. Len(s) + 1 /\ a - 1 \in 0 .. Len(s)
  OBVIOUS
<1>2. LastOf(s, k) = w
  BY DEF LastOf
<1>3. Len(s) - a + 1 <= k /\ Len(s) - a + 1 = Len(s) - (a - 1)
  BY <1>1
<1> HIDE DEF a
<1>4. /\ w \in Seq(X) /\ Len(w) = Len(s) - a + 1
      /\ \A i \in 1 .. Len(s) - a + 1 : w[i] = s[a + i - 1]
  BY <1>1
<1> HIDE DEF w
<1>5. \A i \in 1 .. Len(s) - (a - 1) : w[i] = s[(a - 1) + i]
  <2> TAKE i \in 1 .. Len(s) - (a - 1)
  <2>1. i \in 1 .. Len(s) - a + 1 /\ a + i - 1 = (a - 1) + i
    BY <1>1
  <2> QED  BY <2>1, <1>4
<1> QED  BY <1>1, <1>2, <1>3, <1>4, <1>5

\* A message is posted with the next number, now; nothing that was posted has that number.
LEMMA PostedIsNext ==
    ASSUME SentTrue, NEW p \in Peers, Cardinality(sent) < MaxSent,
           sent' = sent \cup {[n |-> Cardinality(sent) + 1, ts |-> ms, peer |-> p]}, ms' = ms
    PROVE  SentTrue'
<1> DEFINE c == Cardinality(sent)
           m == [n |-> c + 1, ts |-> ms, peer |-> p]
<1>1. /\ sent \subseteq Message /\ IsFiniteSet(sent) /\ ms \in 1 .. MaxMs
      /\ \A x \in sent : x.n <= c /\ x.ts <= ms
      /\ \A x, y \in sent : x.n <= y.n => x.ts <= y.ts /\ (x.n = y.n => x = y)
  BY DEF SentTrue
<1>2. c \in Nat
  BY <1>1, FS_CardinalityType
<1>3. sent' = sent \cup {m} /\ c < MaxSent
  OBVIOUS
<1>4. m \in Message /\ m.n = c + 1 /\ m.ts = ms
  BY <1>1, <1>2, PairingAssumption DEF Message
<1>5. \A x \in sent : x.n \in Nat /\ x.ts \in Nat
  BY <1>1 DEF Message
<1> HIDE DEF c, m
<1>6. m \notin sent
  BY <1>1, <1>2, <1>4
<1>7. IsFiniteSet(sent') /\ Cardinality(sent') = c + 1
  <2>1. /\ IsFiniteSet(sent \cup {m})
        /\ Cardinality(sent \cup {m}) =
             IF m \in sent THEN Cardinality(sent) ELSE Cardinality(sent) + 1
    BY <1>1, FS_AddElement
  <2>2. Cardinality(sent) = c
    BY DEF c
  <2> QED  BY <2>1, <2>2, <1>3, <1>6
<1>8. \A x \in sent' : x.n <= c + 1 /\ x.ts <= ms
  BY <1>1, <1>2, <1>3, <1>4, <1>5
<1>9. \A x, y \in sent' : x.n <= y.n => x.ts <= y.ts /\ (x.n = y.n => x = y)
  BY <1>1, <1>2, <1>3, <1>4, <1>5
<1> QED  BY <1>1, <1>3, <1>4, <1>7, <1>8, <1>9 DEF SentTrue

\* The list in memory has the message at its end, before and after a cut.
LEMMA PostedList ==
    ASSUME SentTrue, ListTrue(messages), NEW m \in Message, m.n = Cardinality(sent) + 1,
           sent' = sent \cup {m}, NEW left,
           left = IF Len(Append(messages, m)) > MaxRelay THEN LastOf(Append(messages, m), KeptRelay)
                  ELSE Append(messages, m)
    PROVE  /\ left \in Seq(Message) /\ Len(left) <= MaxRelay
           /\ \A i \in DOMAIN left : left[i] \in sent'
           /\ \A i, j \in DOMAIN left : i < j => left[i].n < left[j].n
<1> DEFINE all == Append(messages, m)
<1>1. /\ messages \in Seq(Message) /\ Len(messages) \in Nat
      /\ \A i \in 1 .. Len(messages) : messages[i] \in sent
      /\ \A i, j \in 1 .. Len(messages) : i < j => messages[i].n < messages[j].n
  BY DEF ListTrue
<1>2. \A x \in sent : x.n <= Cardinality(sent) /\ x.n \in Nat
  BY DEF SentTrue, Message
<1>3. Cardinality(sent) \in Nat
  BY FS_CardinalityType DEF SentTrue
<1>4. /\ all \in Seq(Message) /\ Len(all) = Len(messages) + 1 /\ all[Len(messages) + 1] = m
      /\ \A i \in 1 .. Len(messages) : all[i] = messages[i]
  BY <1>1
<1> HIDE DEF all
<1>5. \A i \in 1 .. Len(all) : all[i] \in sent'
  BY <1>1, <1>4
<1>6. ASSUME NEW i \in 1 .. Len(all), NEW j \in 1 .. Len(all), i < j PROVE all[i].n < all[j].n
  <2>1. i \in 1 .. Len(messages)
    BY <1>1, <1>4, <1>6
  <2>2. CASE j = Len(messages) + 1
    BY <2>1, <2>2, <1>1, <1>2, <1>3, <1>4
  <2>3. CASE j \in 1 .. Len(messages)
    BY <2>1, <2>3, <1>1, <1>4, <1>6
  <2> QED  BY <2>2, <2>3, <1>1, <1>4
<1>7. CASE Len(all) > MaxRelay
  <2>1. left = LastOf(all, KeptRelay)
    BY <1>7 DEF all
  <2>2. KeptRelay \in Nat /\ MaxRelay \in Nat /\ KeptRelay <= MaxRelay
    BY PairingAssumption
  <2>10. /\ LastOf(all, KeptRelay) \in Seq(Message) /\ Len(LastOf(all, KeptRelay)) <= KeptRelay
         /\ \E n \in 0 .. Len(all) :
               /\ Len(LastOf(all, KeptRelay)) = Len(all) - n
               /\ \A i \in 1 .. Len(all) - n : LastOf(all, KeptRelay)[i] = all[n + i]
    <3>1. all \in Seq(Message) /\ KeptRelay \in Nat
      BY <2>2, <1>4
    <3> QED  BY <3>1, LastOfIsEnd, Zenon
  <2>3. left \in Seq(Message) /\ Len(left) <= KeptRelay
    BY <2>1, <2>10
  <2>4. PICK n \in 0 .. Len(all) :
          /\ Len(left) = Len(all) - n
          /\ \A i \in 1 .. Len(all) - n : left[i] = all[n + i]
    BY <2>1, <2>10, Zenon
  <2>11. DOMAIN left = 1 .. Len(left)
    BY <2>3
  <2>12. Len(all) \in Nat
    BY <1>4
  <2>5. DOMAIN left = 1 .. Len(all) - n /\ Len(all) \in Nat
    BY <2>4, <2>11, <2>12
  <2>6. \A i \in DOMAIN left : n + i \in 1 .. Len(all) /\ left[i] = all[n + i]
    <3> TAKE i \in DOMAIN left
    <3>1. i \in 1 .. Len(all) - n /\ n \in 0 .. Len(all)
      BY <2>4, <2>5
    <3>2. n + i \in 1 .. Len(all)
      BY <3>1, <2>12
    <3>3. left[i] = all[n + i]
      BY <3>1, <2>4
    <3> QED  BY <3>2, <3>3
  <2>7. \A i \in DOMAIN left : left[i] \in sent'
    BY <2>6, <1>5
  <2>8. ASSUME NEW i \in DOMAIN left, NEW j \in DOMAIN left, i < j PROVE left[i].n < left[j].n
    <3>1. n + i < n + j
      BY <2>5, <2>8
    <3> QED  BY <3>1, <2>6, <1>6
  <2>9. Len(left) <= MaxRelay
    BY <2>2, <2>3
  <2> QED  BY <2>3, <2>7, <2>8, <2>9
<1>8. CASE ~(Len(all) > MaxRelay)
  <2>1. left = all
    BY <1>8 DEF all
  <2>2. DOMAIN left = 1 .. Len(all) /\ Len(left) <= MaxRelay
    BY <2>1, <1>4, <1>8, PairingAssumption
  <2> QED  BY <2>1, <2>2, <1>4, <1>5, <1>6
<1> QED  BY <1>7, <1>8

\* A message that is posted: it is newer than what anybody got, or of the same millisecond.
LEMMA RelayKeeps ==
    ASSUME RelayTrue, Relay, file' = file
    PROVE  RelayTrue'
<1>1. PICK p \in Peers :
        LET m == [n |-> Cardinality(sent) + 1, ts |-> ms, peer |-> p]
            all == Append(messages, m)
            left == IF Len(all) > MaxRelay THEN LastOf(all, KeptRelay) ELSE all
        IN /\ messages' = left
           /\ sent' = sent \cup {m}
           /\ cut' = cut \cup (ToSet(all) \ ToSet(left))
  BY DEF Relay
<1>2. Cardinality(sent) < MaxSent /\ readers' = readers /\ ms' = ms
  BY DEF Relay
<1>14. PICK m : m = [n |-> Cardinality(sent) + 1, ts |-> ms, peer |-> p]
  OBVIOUS
<1> DEFINE all == Append(messages, m)
<1>3. SentTrue /\ ListTrue(messages) /\ ListTrue(file.messages) /\ sent \subseteq ToSet(messages) \cup cut
      /\ readers \in [Peers -> [since: 0 .. MaxMs, inbox: Seq(1 .. MaxSent)]]
      /\ (\A q \in Peers : ReaderTrue(q)) /\ RelaySound
  BY DEF RelayTrue
<1>4. SentTrue'
  BY <1>1, <1>2, <1>3, PostedIsNext
<1>5. /\ sent' = sent \cup {m} /\ m \in Message /\ m.n = Cardinality(sent) + 1
      /\ m.ts = ms /\ m.peer = p
  BY <1>1, <1>4, <1>14 DEF SentTrue
<1>6. /\ messages' = IF Len(all) > MaxRelay THEN LastOf(all, KeptRelay) ELSE all
      /\ cut' = cut \cup (ToSet(all) \ ToSet(messages'))
  BY <1>1, <1>14
<1>7. ListTrue(messages)'
  BY <1>3, <1>5, <1>6, PostedList DEF ListTrue
<1>8. ListTrue(file.messages)'
  BY <1>3, <1>5 DEF ListTrue
<1>9. ToSet(all) = ToSet(messages) \cup {m}
  BY <1>3, <1>5, SetOfSeq DEF ListTrue
<1> HIDE DEF all
<1>10. sent' \subseteq ToSet(messages') \cup cut'
  BY <1>3, <1>5, <1>6, <1>9
<1>11. \A q \in Peers : Got(q)' = Got(q)
  BY <1>2 DEF Got
<1>12. ASSUME NEW q \in Peers PROVE ReaderTrue(q)'
  <2>1. ReaderTrue(q)
    BY <1>3
  <2> QED  BY <2>1, <1>2, <1>5 DEF ReaderTrue, Got
<1>13. RelaySound'
  <2>1. \A q \in Peers : \A i, j \in DOMAIN readers[q].inbox :
           i < j => readers[q].inbox[i] < readers[q].inbox[j]
    BY <1>3 DEF RelaySound
  <2>2. ASSUME NEW x \in sent
        PROVE  \/ x.ts > readers'[x.peer].since
               \/ x.n \in Got(x.peer)'
               \/ x \in cut'
               \/ \E other \in sent' : other.ts = x.ts /\ other.n \in Got(x.peer)'
    <3>1. \/ x.ts > readers[x.peer].since
          \/ x.n \in Got(x.peer)
          \/ x \in cut
          \/ \E other \in sent : other.ts = x.ts /\ other.n \in Got(x.peer)
      BY <1>3 DEF RelaySound
    <3>2. x.peer \in Peers
      BY <1>3 DEF SentTrue, Message
    <3> QED  BY <3>1, <3>2, <1>2, <1>5, <1>6, <1>11
  <2>3. m.ts > readers'[m.peer].since
          \/ \E other \in sent' : other.ts = m.ts /\ other.n \in Got(m.peer)'
    <3>1. readers[p].since \in Nat /\ ms \in Nat /\ \A x \in sent : x.ts <= ms
      BY <1>3 DEF SentTrue
    <3>2. ReaderTrue(p) /\ ms > 0
      BY <1>3 DEF SentTrue
    <3>3. CASE readers[p].since = 0
      BY <3>1, <3>2, <3>3, <1>2, <1>5
    <3>4. CASE readers[p].since # 0
      <4>1. PICK x \in sent : x.ts = readers[p].since /\ x.n \in Got(p)
        BY <3>2, <3>4 DEF ReaderTrue
      <4>2. CASE x.ts = ms
        BY <4>1, <4>2, <1>5, <1>11
      <4>3. CASE x.ts # ms
        BY <4>1, <4>3, <3>1, <1>2, <1>5
      <4> QED  BY <4>2, <4>3
    <3> QED  BY <3>3, <3>4
  <2>4. \A x \in sent' :
          \/ x.ts > readers'[x.peer].since
          \/ x.n \in Got(x.peer)'
          \/ x \in cut'
          \/ \E other \in sent' : other.ts = x.ts /\ other.n \in Got(x.peer)'
    BY <2>2, <2>3, <1>5
  <2> QED  BY <2>1, <2>4, <1>2 DEF RelaySound
<1> QED  BY <1>2, <1>3, <1>4, <1>7, <1>8, <1>10, <1>12, <1>13 DEF RelayTrue

\* A page of the relay: messages to the peer that are newer than what it asks for, in the order of
\* posting, and what is left out of it was posted after all of it.
LEMMA PageTrue ==
    ASSUME ListTrue(messages), NEW p \in Peers, NEW page, page = FirstOf(UnreadBy(p), Page), page # <<>>
    PROVE  /\ page \in Seq(Message) /\ Len(page) \in Nat /\ Len(page) >= 1
           /\ \A i \in 1 .. Len(page) : page[i] \in sent /\ Unread(page[i], p)
           /\ \A i, j \in 1 .. Len(page) : i < j => page[i].n < page[j].n
           /\ \A m \in ToSet(messages) : Unread(m, p) =>
                 \/ \E i \in 1 .. Len(page) : page[i] = m
                 \/ page[Len(page)].n < m.n
<1> DEFINE K == {m \in ToSet(messages) : Unread(m, p)}
           r == Chosen(messages, K)
           k == IF Len(r) > Page THEN Page ELSE Len(r)
<1>1. /\ messages \in Seq(Message) /\ DOMAIN messages = 1 .. Len(messages)
      /\ \A i \in 1 .. Len(messages) : messages[i] \in sent
      /\ \A i, j \in 1 .. Len(messages) : i < j => messages[i].n < messages[j].n
      /\ ToSet(messages) = {messages[i] : i \in 1 .. Len(messages)}
  BY SetOfSeq DEF ListTrue
<1>2. /\ r \in Seq(Message)
      /\ \A i \in 1 .. Len(r) : r[i] \in K /\ \E j \in 1 .. Len(messages) : r[i] = messages[j]
      /\ \A i, j \in 1 .. Len(r) : i < j =>
            \E a, b \in 1 .. Len(messages) : a < b /\ r[i] = messages[a] /\ r[j] = messages[b]
      /\ \A j \in 1 .. Len(messages) : messages[j] \in K => \E i \in 1 .. Len(r) : r[i] = messages[j]
  <2>1. messages \in Seq(Message)
    BY <1>1
  <2> HIDE DEF K
  <2> QED  BY <2>1, ChosenProperties
<1>3. page = SubSeq(r, 1, k)
  BY DEF FirstOf, UnreadBy
<1>4. \A x : x \in K <=> x \in ToSet(messages) /\ Unread(x, p)
  OBVIOUS
<1> HIDE DEF K, r
<1>5. Len(r) \in Nat /\ Page \in Nat
  BY <1>2, PairingAssumption
<1>6. k \in 0 .. Len(r)
  BY <1>5
<1> HIDE DEF k
<1>7. page \in Seq(Message) /\ Len(page) = k /\ \A i \in 1 .. k : page[i] = r[i]
  BY <1>2, <1>3, <1>6
<1>8. Len(page) \in Nat /\ Len(page) >= 1
  <2>1. page # <<>> /\ page \in Seq(Message)
    BY <1>7
  <2> QED  BY <2>1
<1>9. \A i \in 1 .. Len(page) : i \in 1 .. Len(r) /\ page[i] = r[i]
  BY <1>5, <1>6, <1>7
<1>10. \A i \in 1 .. Len(page) : page[i] \in sent /\ Unread(page[i], p)
  BY <1>1, <1>2, <1>4, <1>9
<1>11. \A i, j \in 1 .. Len(r) : i < j => r[i].n < r[j].n
  BY <1>1, <1>2
<1>12. \A i, j \in 1 .. Len(page) : i < j => page[i].n < page[j].n
  BY <1>9, <1>11
<1>13. ASSUME NEW m \in ToSet(messages), Unread(m, p)
       PROVE  \/ \E i \in 1 .. Len(page) : page[i] = m
              \/ page[Len(page)].n < m.n
  <2>1. PICK i \in 1 .. Len(r) : r[i] = m
    <3>1. PICK j \in 1 .. Len(messages) : m = messages[j]
      BY <1>1
    <3>2. messages[j] \in K
      BY <3>1, <1>4, <1>13
    <3> QED  BY <3>1, <3>2, <1>2
  <2>2. CASE i <= Len(page)
    <3>1. i \in 1 .. Len(page)
      BY <2>2, <1>5, <1>8
    <3> QED  BY <3>1, <2>1, <1>9
  <2>3. CASE i > Len(page)
    <3>1. Len(page) \in 1 .. Len(page) /\ Len(page) < i
      BY <2>3, <1>8
    <3> QED  BY <3>1, <2>1, <1>9, <1>11
  <2> QED  BY <2>2, <2>3, <1>5, <1>8
<1> QED  BY <1>7, <1>8, <1>10, <1>12, <1>13

\* A peer gets a page: what it got before is older, and what it goes past was cut or is of the
\* same millisecond as the end of the page.
LEMMA PollKeeps ==
    ASSUME RelayTrue, PollMessages, file' = file
    PROVE  RelayTrue'
<1>1. PICK p \in Peers :
        LET page == FirstOf(UnreadBy(p), Page) IN
        /\ page # <<>>
        /\ readers' = [readers EXCEPT
              ![p].since = page[Len(page)].ts,
              ![p].inbox = @ \o [i \in DOMAIN page |-> page[i].n]]
  BY DEF PollMessages
<1>2. UNCHANGED <<messages, sent, cut, ms>>
  BY DEF PollMessages
<1>3. PICK page : page = FirstOf(UnreadBy(p), Page)
  OBVIOUS
<1>4. SentTrue /\ ListTrue(messages) /\ ListTrue(file.messages) /\ sent \subseteq ToSet(messages) \cup cut
      /\ readers \in [Peers -> [since: 0 .. MaxMs, inbox: Seq(1 .. MaxSent)]]
      /\ (\A q \in Peers : ReaderTrue(q)) /\ RelaySound
  BY DEF RelayTrue
<1>5. /\ page \in Seq(Message) /\ Len(page) \in Nat /\ Len(page) >= 1
      /\ \A i \in 1 .. Len(page) : page[i] \in sent /\ Unread(page[i], p)
      /\ \A i, j \in 1 .. Len(page) : i < j => page[i].n < page[j].n
      /\ \A m \in ToSet(messages) : Unread(m, p) =>
            \/ \E i \in 1 .. Len(page) : page[i] = m
            \/ page[Len(page)].n < m.n
  BY <1>1, <1>3, <1>4, PageTrue
<1> DEFINE old == readers[p].inbox
           nums == [i \in DOMAIN page |-> page[i].n]
           w == old \o nums
           last == page[Len(page)]
           there == [readers[p] EXCEPT !.since = last.ts]
           new == [there EXCEPT !.inbox = w]
<1>6. readers' = [readers EXCEPT ![p] = new]
  BY <1>1, <1>3
<1>7. /\ last \in sent /\ last \in Message /\ Unread(last, p)
      /\ \A i \in 1 .. Len(page) : page[i].n <= last.n
  <2>1. Len(page) \in 1 .. Len(page)
    BY <1>5
  <2>2. \A i \in 1 .. Len(page) : page[i] \in Message
    BY <1>5
  <2>3. \A i \in 1 .. Len(page) : page[i].n \in Nat
    BY <2>2 DEF Message
  <2>4. \A i \in 1 .. Len(page) : i < Len(page) \/ i = Len(page)
    BY <1>5
  <2> QED  BY <2>1, <2>2, <2>3, <2>4, <1>5
<1>8. last.n \in 1 .. MaxSent /\ last.ts \in 1 .. MaxMs /\ last.ts > readers[p].since
  BY <1>7 DEF Message, Unread
<1>9. nums \in Seq(1 .. MaxSent) /\ Len(nums) = Len(page) /\ \A i \in 1 .. Len(page) : nums[i] = page[i].n
  <2>1. DOMAIN page = 1 .. Len(page) /\ \A i \in 1 .. Len(page) : page[i] \in Message
    BY <1>5
  <2>2. \A i \in 1 .. Len(page) : page[i].n \in 1 .. MaxSent
    BY <2>1 DEF Message
  <2>3. nums = [i \in 1 .. Len(page) |-> page[i].n]
    BY <2>1
  <2> HIDE DEF nums
  <2>4. nums \in Seq(1 .. MaxSent)
    BY <2>2, <2>3, <1>5
  <2>5. Len(nums) = Len(page)
    BY <2>3, <1>5
  <2> QED  BY <2>3, <2>4, <2>5
<1>10. old \in Seq(1 .. MaxSent) /\ readers[p] \in [since: 0 .. MaxMs, inbox: Seq(1 .. MaxSent)]
  BY <1>4
<1> HIDE DEF last, nums, old
<1>11. /\ w \in Seq(1 .. MaxSent) /\ DOMAIN w = 1 .. Len(old) + Len(page) /\ Len(old) \in Nat
       /\ DOMAIN old = 1 .. Len(old)
       /\ \A i \in 1 .. Len(old) : w[i] = old[i]
       /\ \A i \in 1 .. Len(page) : w[Len(old) + i] = nums[i]
  <2>1. old \in Seq(1 .. MaxSent) /\ nums \in Seq(1 .. MaxSent)
    BY <1>9, <1>10
  <2>2. Len(old) \in Nat /\ DOMAIN old = 1 .. Len(old) /\ Len(nums) \in Nat
    BY <2>1
  <2>3. /\ w \in Seq(1 .. MaxSent) /\ DOMAIN w = 1 .. Len(old) + Len(nums)
        /\ \A i \in 1 .. Len(old) : w[i] = old[i]
    BY <2>1
  <2>4. \A i \in 1 .. Len(nums) : w[Len(old) + i] = nums[i]
    BY <2>1
  <2> QED  BY <2>2, <2>3, <2>4, <1>9
<1> HIDE DEF w
<1>12. there \in [since: 0 .. MaxMs, inbox: Seq(1 .. MaxSent)] /\ there.since = last.ts
  BY <1>8, <1>10
<1> HIDE DEF there
<1>13. new \in [since: 0 .. MaxMs, inbox: Seq(1 .. MaxSent)] /\ new.since = last.ts /\ new.inbox = w
  BY <1>11, <1>12
<1> HIDE DEF new
<1>14. /\ readers' \in [Peers -> [since: 0 .. MaxMs, inbox: Seq(1 .. MaxSent)]]
       /\ readers'[p].since = last.ts /\ readers'[p].inbox = w
       /\ \A q \in Peers \ {p} : readers'[q] = readers[q]
  BY <1>4, <1>6, <1>13
<1>15. /\ \A i \in DOMAIN old : i \in DOMAIN w /\ w[i] = old[i]
       /\ \A i \in 1 .. Len(page) : Len(old) + i \in DOMAIN w /\ w[Len(old) + i] = page[i].n
       /\ \A i \in DOMAIN w : \/ i \in DOMAIN old /\ w[i] = old[i]
                             \/ \E j \in 1 .. Len(page) : i = Len(old) + j /\ w[i] = page[j].n
  <2>1. \A i \in DOMAIN old : i \in DOMAIN w /\ w[i] = old[i]
    BY <1>5, <1>11
  <2>2. \A i \in 1 .. Len(page) : Len(old) + i \in DOMAIN w /\ w[Len(old) + i] = page[i].n
    BY <1>5, <1>9, <1>11
  <2>3. ASSUME NEW i \in DOMAIN w, i \notin DOMAIN old
        PROVE  \E j \in 1 .. Len(page) : i = Len(old) + j /\ w[i] = page[j].n
    <3>1. i - Len(old) \in 1 .. Len(page) /\ i = Len(old) + (i - Len(old))
      BY <2>3, <1>5, <1>11
    <3> QED  BY <3>1, <2>2
  <2> QED  BY <2>1, <2>2, <2>3
<1>16. /\ Got(p)' = {w[i] : i \in DOMAIN w} /\ Got(p) = {old[i] : i \in DOMAIN old}
       /\ \A q \in Peers \ {p} : Got(q)' = Got(q)
  BY <1>14 DEF Got, ToSet, old
<1>17. Got(p) \subseteq Got(p)' /\ \A i \in 1 .. Len(page) : page[i].n \in Got(p)'
  BY <1>15, <1>16
<1>18. last.n \in Got(p)'
  <2>1. Len(page) \in 1 .. Len(page)
    BY <1>5
  <2> QED  BY <2>1, <1>17 DEF last
<1>19. /\ \A x, y \in sent : x.n <= y.n => x.ts <= y.ts /\ (x.n = y.n => x = y)
       /\ \A x \in sent : x \in Message /\ x.n \in Nat /\ x.ts \in Nat
  BY <1>4 DEF SentTrue, Message
<1>20. \A i \in DOMAIN old : \E m \in sent : m.n = old[i] /\ m.ts <= readers[p].since
  BY <1>4 DEF ReaderTrue, old
<1>21. readers[p].since \in Nat
  BY <1>10
<1>22. ASSUME NEW q \in Peers PROVE ReaderTrue(q)'
  <2>1. CASE q = p
    <3>1. last \in sent' /\ last.ts = readers'[p].since /\ last.n \in Got(p)'
      BY <1>2, <1>7, <1>14, <1>18
    <3>2. ASSUME NEW i \in DOMAIN w PROVE \E m \in sent : m.n = w[i] /\ m.ts <= last.ts
      <4>1. CASE i \in DOMAIN old /\ w[i] = old[i]
        BY <4>1, <1>8, <1>19, <1>20, <1>21
      <4>2. CASE \E j \in 1 .. Len(page) : i = Len(old) + j /\ w[i] = page[j].n
        <5>1. PICK j \in 1 .. Len(page) : w[i] = page[j].n
          BY <4>2
        <5>2. page[j] \in sent /\ page[j].n <= last.n
          BY <1>5, <1>7
        <5> QED  BY <5>1, <5>2, <1>7, <1>19
      <4> QED  BY <4>1, <4>2, <1>15
    <3>3. \A i \in DOMAIN readers'[p].inbox :
             \E m \in sent' : m.n = readers'[p].inbox[i] /\ m.ts <= readers'[p].since
      BY <3>2, <1>2, <1>14
    <3> QED  BY <2>1, <3>1, <3>3 DEF ReaderTrue
  <2>2. CASE q # p
    <3>1. ReaderTrue(q) /\ readers'[q] = readers[q] /\ Got(q)' = Got(q) /\ sent' = sent
      BY <2>2, <1>2, <1>4, <1>14, <1>16
    <3> QED  BY <3>1 DEF ReaderTrue
  <2> QED  BY <2>1, <2>2
<1>23. ASSUME NEW i \in DOMAIN w, NEW j \in DOMAIN w, i < j PROVE w[i] < w[j]
  <2>1. CASE i \in DOMAIN old /\ j \in DOMAIN old
    BY <2>1, <1>4, <1>15, <1>23 DEF RelaySound, old
  <2>2. CASE i \in DOMAIN old /\ j \notin DOMAIN old
    <3>1. PICK m \in sent : m.n = w[i] /\ m.ts <= readers[p].since
      BY <2>2, <1>15, <1>20
    <3>2. PICK b \in 1 .. Len(page) : w[j] = page[b].n
      BY <2>2, <1>15
    <3>3. page[b] \in sent /\ page[b].ts > readers[p].since
      BY <1>5 DEF Unread
    <3>4. ~(page[b].n <= m.n)
      BY <3>1, <3>3, <1>19, <1>21
    <3> QED  BY <3>1, <3>2, <3>3, <3>4, <1>19
  <2>3. CASE i \notin DOMAIN old /\ j \notin DOMAIN old
    <3>1. PICK a \in 1 .. Len(page) : i = Len(old) + a /\ w[i] = page[a].n
      BY <2>3, <1>15
    <3>2. PICK b \in 1 .. Len(page) : j = Len(old) + b /\ w[j] = page[b].n
      BY <2>3, <1>15
    <3>3. a < b
      BY <3>1, <3>2, <1>11, <1>23
    <3> QED  BY <3>1, <3>2, <3>3, <1>5
  <2>4. CASE i \notin DOMAIN old /\ j \in DOMAIN old
    BY <2>4, <1>11, <1>23
  <2> QED  BY <2>1, <2>2, <2>3, <2>4
<1>24. \A q \in Peers : \A i, j \in DOMAIN readers'[q].inbox :
          i < j => readers'[q].inbox[i] < readers'[q].inbox[j]
  BY <1>4, <1>14, <1>23 DEF RelaySound
<1>25. ASSUME NEW m \in sent
       PROVE  \/ m.ts > readers'[m.peer].since
              \/ m.n \in Got(m.peer)'
              \/ m \in cut
              \/ \E other \in sent : other.ts = m.ts /\ other.n \in Got(m.peer)'
  <2>1. \/ m.ts > readers[m.peer].since
        \/ m.n \in Got(m.peer)
        \/ m \in cut
        \/ \E other \in sent : other.ts = m.ts /\ other.n \in Got(m.peer)
    BY <1>4 DEF RelaySound
  <2>2. m.peer \in Peers
    BY <1>19 DEF Message
  <2>3. CASE m.peer # p
    BY <2>1, <2>2, <2>3, <1>14, <1>16
  <2>4. CASE m.peer = p /\ ~(m.ts > readers[p].since)
    BY <2>1, <2>4, <1>17
  <2>5. CASE m.peer = p /\ m.ts > readers[p].since /\ m \in ToSet(messages)
    <3>1. Unread(m, p)
      BY <2>5 DEF Unread
    <3>2. CASE \E i \in 1 .. Len(page) : page[i] = m
      BY <3>2, <2>5, <1>17
    <3>3. CASE last.n < m.n
      <4>1. last.ts <= m.ts
        BY <3>3, <1>7, <1>19
      <4>2. CASE last.ts = m.ts
        BY <4>2, <2>5, <1>7, <1>18
      <4>3. CASE last.ts < m.ts
        BY <4>3, <2>5, <1>14
      <4> QED  BY <4>1, <4>2, <4>3, <1>7, <1>19
    <3> QED  BY <3>1, <3>2, <3>3, <2>5, <1>5 DEF last
  <2>6. CASE m \notin ToSet(messages)
    BY <2>6, <1>4
  <2> QED  BY <2>3, <2>4, <2>5, <2>6
<1>26. RelaySound'
  BY <1>2, <1>24, <1>25 DEF RelaySound
<1>27. SentTrue' /\ ListTrue(messages)' /\ ListTrue(file.messages)'
       /\ sent' \subseteq ToSet(messages') \cup cut'
  BY <1>2, <1>4 DEF SentTrue, ListTrue
<1> QED  BY <1>14, <1>22, <1>26, <1>27 DEF RelayTrue

\* Time goes on, the state is saved, or it comes back as it was saved: messages posted since are lost.
LEMMA RelayRests ==
    ASSUME RelayTrue, sent' = sent, readers' = readers, ms' = ms \/ ms' = ms + 1, ms' \in 1 .. MaxMs,
           \/ messages' = messages /\ cut' = cut
           \/ messages' = file.messages /\ cut' = cut \cup (sent \ ToSet(file.messages)),
           file' = file \/ file'.messages = messages
    PROVE  RelayTrue'
<1>1. SentTrue /\ ListTrue(messages) /\ ListTrue(file.messages) /\ sent \subseteq ToSet(messages) \cup cut
      /\ readers \in [Peers -> [since: 0 .. MaxMs, inbox: Seq(1 .. MaxSent)]]
      /\ (\A q \in Peers : ReaderTrue(q)) /\ RelaySound
  BY DEF RelayTrue
<1>2. \A m \in sent : m.ts \in Nat
  BY <1>1 DEF SentTrue, Message
<1>3. ms \in Nat /\ ms <= ms'
  BY <1>1 DEF SentTrue
<1>4. SentTrue'
  BY <1>1, <1>2, <1>3 DEF SentTrue
<1>5. ListTrue(messages)' /\ ListTrue(file.messages)'
  BY <1>1 DEF ListTrue
<1>6. cut \subseteq cut' /\ sent' \subseteq ToSet(messages') \cup cut'
  BY <1>1
<1>7. \A q \in Peers : ReaderTrue(q)'
  BY <1>1 DEF ReaderTrue, Got
<1>8. RelaySound'
  BY <1>1, <1>6 DEF RelaySound, Got
<1> QED  BY <1>1, <1>4, <1>5, <1>6, <1>7, <1>8 DEF RelayTrue

\* A licence is made where there is none, with a number that no box has and that was not taken back.
LEMMA IssueKeeps ==
    ASSUME LicencesTrue, IssueLicence
    PROVE  LicencesTrue'
<1>1. authorised' = authorised /\ revoked' = revoked /\ seen' = seen /\ file' = file
  BY DEF IssueLicence
<1>2. PICK m \in BoxMacs :
         \/ /\ licences[m] # NoLicence /\ held' = [held EXCEPT ![m] = licences[m]]
            /\ licences' = licences /\ licencesMade' = licencesMade
         \/ /\ licences[m] = NoLicence /\ licencesMade' = licencesMade + 1
            /\ licences' = [licences EXCEPT ![m] = licencesMade + 1]
            /\ held' = [held EXCEPT ![m] = licencesMade + 1]
  BY DEF IssueLicence, LicenceOf, LicencesTrue
<1>3. /\ licences \in [BoxMacs -> (1 .. licencesMade) \cup {NoLicence}]
      /\ file.licences \in [BoxMacs -> (1 .. licencesMade) \cup {NoLicence}]
      /\ held \in [BoxMacs -> (1 .. licencesMade) \cup {NoLicence}]
      /\ licencesMade \in Nat /\ revoked \subseteq 1 .. licencesMade
  BY DEF LicencesTrue
<1>4. \A l \in BoxMacs :
         /\ licences[l] # NoLicence => held[l] = licences[l] /\ licences[l] \notin revoked
         /\ file.licences[l] # NoLicence => licences[l] = file.licences[l]
  BY DEF LicencesTrue
<1>5. \A k, l \in BoxMacs : licences[k] = licences[l] /\ licences[k] # NoLicence => k = l
  BY DEF LicencesTrue
<1>6. \A known \in {authorised, file.authorised} : known \subseteq BoxMacs
  BY DEF LicencesTrue
<1>7. seen \subseteq authorised /\ file.seen \subseteq file.authorised
  BY DEF LicencesTrue
<1>8. CASE licences[m] # NoLicence
  <2>1. licences' = licences /\ licencesMade' = licencesMade /\ held' = [held EXCEPT ![m] = licences[m]]
    BY <1>2, <1>8
  <2>2. held' \in [BoxMacs -> (1 .. licencesMade) \cup {NoLicence}] /\ held'[m] = licences[m]
        /\ \A l \in BoxMacs \ {m} : held'[l] = held[l]
    BY <2>1, <1>3
  <2> QED  BY <2>1, <2>2, <1>1, <1>3, <1>4, <1>5, <1>6, <1>7 DEF LicencesTrue
<1>9. CASE licences[m] = NoLicence
  <2> DEFINE n == licencesMade + 1
  <2>1. licences' = [licences EXCEPT ![m] = n] /\ licencesMade' = n /\ held' = [held EXCEPT ![m] = n]
    BY <1>2, <1>9
  <2>2. /\ n \in Nat /\ n \in 1 .. n /\ 1 .. licencesMade \subseteq 1 .. n
        /\ n \notin 1 .. licencesMade /\ n # NoLicence
    BY <1>3, PairingAssumption
  <2> HIDE DEF n
  <2>3. /\ licences' \in [BoxMacs -> (1 .. n) \cup {NoLicence}] /\ licences'[m] = n
        /\ held' \in [BoxMacs -> (1 .. n) \cup {NoLicence}] /\ held'[m] = n
        /\ file'.licences \in [BoxMacs -> (1 .. n) \cup {NoLicence}]
        /\ \A l \in BoxMacs \ {m} : held'[l] = held[l] /\ licences'[l] = licences[l]
    BY <2>1, <2>2, <1>1, <1>3
  <2>4. file'.licences[m] = NoLicence /\ n \notin revoked
    BY <1>1, <1>3, <1>4, <1>9, <2>2
  <2>5. \A l \in BoxMacs :
           /\ licences'[l] # NoLicence => held'[l] = licences'[l] /\ licences'[l] \notin revoked
           /\ file'.licences[l] # NoLicence => licences'[l] = file'.licences[l]
    BY <1>1, <1>4, <2>3, <2>4
  <2>6. \A l \in BoxMacs \ {m} : licences'[l] # n
    BY <1>3, <2>2, <2>3
  <2>7. \A k, l \in BoxMacs : licences'[k] = licences'[l] /\ licences'[k] # NoLicence => k = l
    BY <1>5, <2>3, <2>6
  <2>8. revoked' \subseteq 1 .. n
    BY <1>1, <1>3, <2>2
  <2> QED  BY <2>1, <2>2, <2>3, <2>5, <2>7, <2>8, <1>1, <1>6, <1>7 DEF LicencesTrue
<1> QED  BY <1>8, <1>9

\* A record is made anew or taken back, with the licence of the box, and what is on file with it.
LEMMA RevokeKeeps ==
    ASSUME LicencesTrue, AuthoriseMac \/ RevokeMac
    PROVE  LicencesTrue'
<1>1. /\ licences \in [BoxMacs -> (1 .. licencesMade) \cup {NoLicence}]
      /\ held \in [BoxMacs -> (1 .. licencesMade) \cup {NoLicence}]
      /\ licencesMade \in Nat /\ revoked \subseteq 1 .. licencesMade
  BY DEF LicencesTrue
<1>2. \A l \in BoxMacs :
         licences[l] # NoLicence => held[l] = licences[l] /\ licences[l] \notin revoked
  BY DEF LicencesTrue
<1>3. \A k, l \in BoxMacs : licences[k] = licences[l] /\ licences[k] # NoLicence => k = l
  BY DEF LicencesTrue
<1>4. authorised \subseteq BoxMacs /\ seen \subseteq authorised
  BY DEF LicencesTrue
<1>5. held' = held /\ licencesMade' = licencesMade /\ file' = Stored'
  BY DEF AuthoriseMac, RevokeMac
<1>6. file'.licences = licences' /\ file'.authorised = authorised' /\ file'.seen = seen'
  BY <1>5 DEF Stored
<1>7. CASE AuthoriseMac
  <2>1. licences' = licences /\ revoked' = revoked
    BY <1>7 DEF AuthoriseMac
  <2>2. authorised' \subseteq BoxMacs /\ seen' \subseteq authorised'
    BY <1>4, <1>7 DEF AuthoriseMac
  <2> QED  BY <1>1, <1>2, <1>3, <1>5, <1>6, <2>1, <2>2 DEF LicencesTrue
<1>8. CASE RevokeMac
  <2>1. PICK m \in BoxMacs :
          /\ authorised' = authorised \ {m} /\ seen' = seen \ {m}
          /\ licences' = [licences EXCEPT ![m] = NoLicence]
          /\ revoked' = revoked \cup ({licences[m]} \ {NoLicence})
    BY <1>8 DEF RevokeMac
  <2>2. authorised' \subseteq BoxMacs /\ seen' \subseteq authorised'
    BY <1>4, <2>1
  <2>3. /\ licences' \in [BoxMacs -> (1 .. licencesMade) \cup {NoLicence}] /\ licences'[m] = NoLicence
        /\ \A l \in BoxMacs \ {m} : licences'[l] = licences[l]
        /\ revoked' \subseteq 1 .. licencesMade
    BY <1>1, <2>1
  <2>4. \A l \in BoxMacs :
           licences'[l] # NoLicence => held'[l] = licences'[l] /\ licences'[l] \notin revoked'
    BY <1>2, <1>3, <1>5, <2>1, <2>3
  <2>5. \A k, l \in BoxMacs : licences'[k] = licences'[l] /\ licences'[k] # NoLicence => k = l
    BY <1>3, <2>3
  <2> QED  BY <1>1, <1>5, <1>6, <2>2, <2>3, <2>4, <2>5 DEF LicencesTrue
<1> QED  BY <1>7, <1>8

\* The inductive invariant of the stand-in is one.
LEMMA PairingInvKept ==
    ASSUME PairingInv, GroupNext \/ MeetNext \/ RelayNext \/ LicenceNext \/ PersistNext
    PROVE  PairingInv'
<1>1. /\ GroupsTrue(groups) /\ GroupsTrue(file.groups) /\ KeysTrue /\ keysMade \in 0 .. MaxKeys
      /\ RelayTrue /\ LicencesTrue /\ ms \in 1 .. MaxMs
  BY DEF PairingInv, RelayTrue, SentTrue
<1>2. CASE GroupNext
  <2>1. GroupsTrue(groups)' /\ KeysTrue' /\ keysMade' \in 0 .. MaxKeys
    BY <1>1, <1>2, GroupsKept
  <2>2. UNCHANGED <<meetVars, relayVars, licenceVars, file, stops>>
    BY <1>2 DEF GroupNext
  <2>3. RelayTrue'
    BY <1>1, <2>2, RelayRests DEF relayVars
  <2>4. LicencesTrue' /\ GroupsTrue(file.groups)'
    BY <1>1, <2>2 DEF licenceVars, LicencesTrue, GroupsTrue
  <2> QED  BY <2>1, <2>2, <2>3, <2>4 DEF PairingInv, meetVars, licenceVars
<1>3. CASE MeetNext
  <2>1. UNCHANGED <<groupVars, relayVars, licenceVars, file, stops>>
    BY <1>3 DEF MeetNext
  <2>2. endpoints' \subseteq Eids /\ rendezvous' \in Eids \cup {NoInvite}
    BY <1>3 DEF MeetNext, EptLogin, CreateRendezvous, PostInvite, PairingInv
  <2>3. RelayTrue'
    BY <1>1, <2>1, RelayRests DEF relayVars
  <2>4. LicencesTrue' /\ GroupsTrue(groups)' /\ GroupsTrue(file.groups)' /\ KeysTrue'
    BY <1>1, <2>1 DEF groupVars, licenceVars, LicencesTrue, GroupsTrue, KeysTrue, KeysKept
  <2> QED  BY <2>1, <2>2, <2>3, <2>4 DEF PairingInv, groupVars, licenceVars
<1>4. CASE RelayNext
  <2>1. UNCHANGED <<groupVars, meetVars, licenceVars, file, stops>>
    BY <1>4 DEF RelayNext
  <2>2. RelayTrue'
    <3>1. CASE Relay
      BY <3>1, <1>1, <2>1, RelayKeeps
    <3>2. CASE PollMessages
      BY <3>2, <1>1, <2>1, PollKeeps
    <3>3. CASE Millisecond
      <4>1. ms' \in 1 .. MaxMs
        BY <3>3, <1>1, PairingAssumption DEF Millisecond
      <4> QED  BY <3>3, <4>1, <1>1, <2>1, RelayRests DEF Millisecond
    <3> QED  BY <3>1, <3>2, <3>3, <1>4 DEF RelayNext
  <2>3. LicencesTrue' /\ GroupsTrue(groups)' /\ GroupsTrue(file.groups)' /\ KeysTrue'
    BY <1>1, <2>1 DEF groupVars, licenceVars, LicencesTrue, GroupsTrue, KeysTrue, KeysKept
  <2> QED  BY <2>1, <2>2, <2>3 DEF PairingInv, groupVars, meetVars, licenceVars
<1>5. CASE LicenceNext
  <2>1. UNCHANGED <<groupVars, meetVars, relayVars, stops>>
    BY <1>5 DEF LicenceNext
  <2>2. LicencesTrue'
    <3>1. CASE IssueLicence
      BY <3>1, <1>1, IssueKeeps
    <3>2. CASE CheckIn
      <4>1. /\ authorised' = authorised /\ licences' = licences /\ held' = held
            /\ licencesMade' = licencesMade /\ revoked' = revoked /\ file' = file
            /\ seen' \subseteq seen \cup authorised
        BY <3>2 DEF CheckIn
      <4> QED  BY <1>1, <4>1 DEF LicencesTrue
    <3>3. CASE AuthoriseMac \/ RevokeMac
      BY <3>3, <1>1, RevokeKeeps
    <3> QED  BY <3>1, <3>2, <3>3, <1>5 DEF LicenceNext
  <2>5. file' = file \/ file' = Stored'
    BY <1>5 DEF LicenceNext, IssueLicence, CheckIn, AuthoriseMac, RevokeMac
  <2>6. \/ file' = file
        \/ /\ file'.endpoints = endpoints /\ file'.groups = groups
           /\ file'.rendezvous = rendezvous /\ file'.messages = messages
    <3>1. /\ endpoints' = endpoints /\ groups' = groups /\ rendezvous' = rendezvous
          /\ messages' = messages
      BY <2>1 DEF groupVars, meetVars, relayVars
    <3> QED  BY <2>5, <3>1 DEF Stored
  <2>3. RelayTrue'
    <3>1. /\ sent' = sent /\ readers' = readers /\ ms' = ms /\ messages' = messages /\ cut' = cut
          /\ (file' = file \/ file'.messages = messages)
      BY <2>1, <2>6 DEF relayVars
    <3> QED  BY <3>1, <1>1, RelayRests
  <2>4. GroupsTrue(groups)' /\ GroupsTrue(file.groups)' /\ KeysTrue'
    BY <1>1, <2>1, <2>6 DEF groupVars, GroupsTrue, KeysTrue, KeysKept
  <2> QED  BY <2>1, <2>2, <2>3, <2>4, <2>6 DEF PairingInv, groupVars, meetVars
<1>6. CASE SaveAll
  <2>1. /\ file' = Stored
        /\ UNCHANGED <<groupVars, meetVars, relayVars, licenceVars, stops>>
    BY <1>6 DEF SaveAll
  <2>2. /\ file'.endpoints = endpoints /\ file'.groups = groups /\ file'.rendezvous = rendezvous
        /\ file'.messages = messages /\ file'.authorised = authorised
        /\ file'.licences = licences /\ file'.seen = seen
    BY <2>1 DEF Stored
  <2>3. RelayTrue'
    BY <1>1, <2>1, <2>2, RelayRests DEF relayVars
  <2>4. LicencesTrue' /\ GroupsTrue(groups)' /\ GroupsTrue(file.groups)' /\ KeysTrue'
    BY <1>1, <2>1, <2>2 DEF groupVars, licenceVars, LicencesTrue, GroupsTrue, KeysTrue, KeysKept
  <2> QED  BY <2>1, <2>2, <2>3, <2>4 DEF PairingInv, groupVars, meetVars, licenceVars
<1>7. CASE StopAndStart
  <2>1. /\ endpoints' = file.endpoints /\ rendezvous' = file.rendezvous
        /\ groups' = [g \in AllGids |-> AsSets(file.groups[g])]
        /\ given' = {x \in given : file.groups[x[1]] # NoGroup
                                     /\ x[2] \in ToSet(file.groups[x[1]].keys)}
        /\ messages' = file.messages /\ cut' = cut \cup (sent \ ToSet(file.messages))
        /\ authorised' = file.authorised /\ licences' = file.licences /\ seen' = file.seen
        /\ UNCHANGED <<keysMade, sent, readers, ms, held, licencesMade, revoked, file>>
    BY <1>7 DEF StopAndStart
  <2>2. RelayTrue'
    BY <1>1, <2>1, RelayRests
  <2>5. ASSUME NEW g \in AllGids
        PROVE  /\ groups'[g] \in Group \cup {NoGroup}
               /\ groups'[g] = NoGroup <=> file.groups[g] = NoGroup
               /\ groups'[g] # NoGroup => groups'[g].keys = file.groups[g].keys
    <3>1. file.groups[g] \in Group \cup {NoGroup} /\ groups'[g] = AsSets(file.groups[g])
      BY <1>1, <2>1 DEF GroupsTrue
    <3>2. CASE file.groups[g] = NoGroup
      BY <3>1, <3>2 DEF AsSets
    <3>3. CASE file.groups[g] # NoGroup
      <4>1. groups'[g] = [file.groups[g] EXCEPT !.listed = FALSE]
        BY <3>1, <3>3 DEF AsSets
      <4>2. groups'[g] \in Group /\ groups'[g].keys = file.groups[g].keys
        BY <3>1, <3>3, <4>1 DEF Group
      <4> QED  BY <4>2, <3>3, NoGroupIsNone
    <3> QED  BY <3>2, <3>3
  <2>6. groups' \in [AllGids -> Group \cup {NoGroup}]
    BY <2>1, <2>5
  <2>3. GroupsTrue(groups)' /\ GroupsTrue(file.groups)'
    BY <1>1, <2>1, <2>5, <2>6 DEF GroupsTrue
  <2>7. KeysTrue'
    <3>1. given' \subseteq AllGids \X Key
      BY <1>1, <2>1 DEF KeysTrue
    <3>2. ASSUME NEW x \in given'
          PROVE  groups'[x[1]] # NoGroup /\ x[2] \in ToSet(groups'[x[1]].keys)
      <4>1. x[1] \in AllGids
        BY <3>1
      <4>2. file.groups[x[1]] # NoGroup /\ x[2] \in ToSet(file.groups[x[1]].keys)
        BY <2>1
      <4> QED  BY <2>5, <4>1, <4>2
    <3> QED  BY <3>1, <3>2 DEF KeysTrue, KeysKept
  <2>4. LicencesTrue'
    BY <1>1, <2>1 DEF LicencesTrue
  <2> QED  BY <2>1, <2>2, <2>3, <2>4, <2>7 DEF PairingInv
<1> QED  BY <1>2, <1>3, <1>4, <1>5, <1>6, <1>7 DEF PersistNext

\* Nothing is known, posted or issued at first.
LEMMA PairingInvInit ==
    ASSUME PairingServiceInit
    PROVE  PairingInv
<1>1. /\ endpoints = {} /\ groups = [g \in AllGids |-> NoGroup] /\ keysMade = 0 /\ given = {}
      /\ rendezvous = NoInvite /\ messages = <<>> /\ sent = {} /\ cut = {} /\ ms = 1
      /\ readers = [p \in Peers |-> [since |-> 0, inbox |-> <<>>]]
      /\ licences = [m \in BoxMacs |-> NoLicence] /\ held = licences
      /\ licencesMade = 0 /\ revoked = {} /\ authorised = {} /\ seen = {}
      /\ file = [endpoints |-> endpoints, groups |-> groups, rendezvous |-> rendezvous,
                 messages |-> messages, authorised |-> authorised, licences |-> licences,
                 seen |-> seen]
  BY DEF PairingServiceInit, Stored
<1>2. GroupsTrue(groups) /\ GroupsTrue(file.groups) /\ KeysTrue
  BY <1>1 DEF GroupsTrue, KeysTrue, KeysKept
<1>3. LicencesTrue
  BY <1>1 DEF LicencesTrue
<1>4. SentTrue
  BY <1>1, FS_EmptySet, PairingAssumption DEF SentTrue
<1>5. ListTrue(messages) /\ ListTrue(file.messages)
  <2>1. <<>> \in Seq(Message) /\ Len(<<>>) = 0 /\ DOMAIN <<>> = {}
    OBVIOUS
  <2> QED  BY <1>1, <2>1, PairingAssumption DEF ListTrue
<1>6. /\ readers \in [Peers -> [since: 0 .. MaxMs, inbox: Seq(1 .. MaxSent)]]
      /\ \A p \in Peers : readers[p].since = 0 /\ DOMAIN readers[p].inbox = {}
  <2>1. <<>> \in Seq(1 .. MaxSent) /\ DOMAIN <<>> = {} /\ 0 \in 0 .. MaxMs
    BY PairingAssumption
  <2> QED  BY <1>1, <2>1
<1>7. RelayTrue
  BY <1>1, <1>4, <1>5, <1>6 DEF RelayTrue, ReaderTrue, RelaySound
<1> QED  BY <1>1, <1>2, <1>3, <1>7, PairingAssumption DEF PairingInv

\* The invariant says what the stand-in promises to apps, boxes and the readers of the relay.
LEMMA PairingInvSays ==
    ASSUME PairingInv
    PROVE  PairingServiceTypeOK /\ OneKeyEach /\ KeysKept /\ RelaySound /\ LicenceKept
<1>1. OneKeyEach
  BY DEF PairingInv, GroupsTrue, OneKeyIn, OneKeyEach
<1>2. KeysKept /\ RelaySound
  BY DEF PairingInv, KeysTrue, RelayTrue
<1>3. LicenceKept
  <2>1. LicencesTrue
    BY DEF PairingInv
  <2>2. revoked \subseteq 1 .. licencesMade /\ licencesMade \in Nat
    BY <2>1 DEF LicencesTrue
  <2>3. NoLicence \notin revoked
    <3>1. \A n \in 1 .. licencesMade : n \in Nat
      BY <2>2
    <3>2. NoLicence \notin Nat
      BY PairingAssumption
    <3> QED  BY <2>2, <3>1, <3>2
  <2> QED  BY <2>1, <2>3 DEF LicencesTrue, LicenceKept
<1>5. seen \subseteq authorised /\ authorised \subseteq BoxMacs
  BY DEF PairingInv, LicencesTrue
<1>4. PairingServiceTypeOK
  BY <1>5 DEF PairingInv, GroupsTrue, RelayTrue, ListTrue, PairingServiceTypeOK
<1> QED  BY <1>1, <1>2, <1>3, <1>4

-----------------------------------------------------------------------------
(* Whatever lets a customer in, a box or an app                            *)

AccessInv == SessionInv /\ PairingInv

LEMMA AccessStep == AccessInv /\ [Next]_accountsVars => AccessInv'
<1> SUFFICES ASSUME AccessInv, [Next]_accountsVars PROVE AccessInv'
  OBVIOUS
<1>1. SessionInv /\ PairingInv
  BY DEF AccessInv
<1>2. SessionNext \/ UNCHANGED sessionVars
  BY DEF Next, Vendor, accountsVars
<1>3. \/ GroupNext \/ MeetNext \/ RelayNext \/ LicenceNext \/ PersistNext
      \/ UNCHANGED pairingServiceVars
  BY DEF Next, Vendor, accountsVars
<1>4. UNCHANGED sessionVars => SessionInv'
  <2> SUFFICES ASSUME UNCHANGED sessionVars PROVE SessionInv'
    OBVIOUS
  <2>1. /\ now' = now /\ customers' = customers /\ tickets' = tickets /\ attempts' = attempts
        /\ saved' = saved /\ sessions' = sessions /\ secrets' = secrets /\ honoured' = honoured
        /\ spent' = spent /\ revokedAt' = revokedAt /\ endedAt' = endedAt /\ restarted' = restarted
    BY DEF sessionVars, histories
  <2>2. SessionTypeOK'
    BY <1>1, <2>1 DEF SessionInv, SessionTypeOK, Exists
  <2>3. AccountsTrue(customers)' /\ AccountsTrue(saved.customers)'
    BY <1>1, <2>1 DEF SessionInv, AccountsTrue
  <2>4. TicketsTrue(tickets)' /\ TicketsTrue(saved.tickets)'
    BY <1>1, <2>1 DEF SessionInv, TicketsTrue
  <2>5. SessionsTrue' /\ CodesUnspent'
    BY <1>1, <2>1 DEF SessionInv, SessionsTrue, CodesUnspent, Exists
  <2> QED  BY <1>1, <2>1, <2>2, <2>3, <2>4, <2>5 DEF SessionInv
<1>5. UNCHANGED pairingServiceVars => PairingInv'
  <2> SUFFICES ASSUME UNCHANGED pairingServiceVars PROVE PairingInv'
    OBVIOUS
  <2>1. /\ UNCHANGED groupVars /\ UNCHANGED meetVars /\ UNCHANGED relayVars
        /\ UNCHANGED licenceVars /\ file' = file
    BY DEF pairingServiceVars
  <2>2. RelayTrue'
    BY <1>1, <2>1, RelayRests DEF PairingInv, RelayTrue, SentTrue, relayVars
  <2>3. LicencesTrue' /\ GroupsTrue(groups)' /\ GroupsTrue(file.groups)' /\ KeysTrue'
    BY <1>1, <2>1 DEF PairingInv, groupVars, licenceVars, LicencesTrue, GroupsTrue, KeysTrue, KeysKept
  <2> QED  BY <1>1, <2>1, <2>2, <2>3 DEF PairingInv, groupVars, meetVars, licenceVars
<1>6. SessionInv'
  BY <1>1, <1>2, <1>4, SessionInvKept
<1>7. PairingInv'
  BY <1>1, <1>3, <1>5, PairingInvKept
<1> QED  BY <1>6, <1>7 DEF AccessInv

\* Links, invitations and recovery codes let a customer in once, and a session ends with what it
\* came of: a revocation, a share or the account, whatever was saved when the cloud restarted
\* (customer/verify, 2fa, login/magic, family-share, sessions/revoke-all); and the stand-in gives
\* nobody two keys of a group, keeps the keys it gave, relays each message once and in order and
\* changes no licence on file: for any number of accounts, addresses, tickets, codes, endpoints,
\* groups, messages and boxes, and for all lengths of life and of the lists.
THEOREM AccessCorrect == Spec => []AccessRight
<1>1. Init => AccessInv
  BY SessionInvInit, PairingInvInit DEF Init, AccessInv
<1>2. AccessInv => AccessRight
  BY SessionInvSays, PairingInvSays DEF AccessInv, AccessRight
<1> QED  BY <1>1, <1>2, AccessStep, PTL DEF Spec

=============================================================================
