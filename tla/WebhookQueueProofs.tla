------------------------- MODULE WebhookQueueProofs -------------------------
(***************************************************************************)
(* Proofs about WebhookQueue: its type invariant; that items keep their    *)
(* order; and, until two runs overlap or the cap cuts, that no item is     *)
(* lost in silence, that outcomes are final, and that every step is one    *)
(* the contract of WebhookContract allows.                                 *)
(***************************************************************************)
EXTENDS WebhookQueue, SequenceTheorems, FiniteSetTheorems, TLAPS

-----------------------------------------------------------------------------
(* What the operators of the queue return.                                 *)

\* Removing position i of a sequence closes the gap and moves nothing else:
\* what Array.splice(i, 1) does.
LEMMA RemoveAtProperties ==
    ASSUME NEW S, NEW s \in Seq(S), NEW i \in DOMAIN s
    PROVE  /\ RemoveAt(s, i) \in Seq(S)
           /\ Len(RemoveAt(s, i)) = Len(s) - 1
           /\ \A j \in 1..(Len(s) - 1) :
                RemoveAt(s, i)[j] = IF j < i THEN s[j] ELSE s[j + 1]
<1> DEFINE a == SubSeq(s, 1, i - 1)
           b == SubSeq(s, i + 1, Len(s))
<1>1. Len(s) \in Nat /\ i \in 1..Len(s) /\ \A j \in 1..Len(s) : s[j] \in S
  BY LenProperties, ElementOfSeq
<1>2. /\ a \in Seq(S)
      /\ Len(a) = i - 1
      /\ \A j \in 1..(i - 1) : a[j] = s[j]
  <2>1. /\ a \in Seq(S)
        /\ Len(a) = IF 1 <= i - 1 THEN i - 1 - 1 + 1 ELSE 0
        /\ \A j \in 1..(i - 1 - 1 + 1) : a[j] = s[1 + j - 1]
    BY <1>1, SubSeqProperties
  <2> QED  BY <1>1, <2>1
<1>3. /\ b \in Seq(S)
      /\ Len(b) = Len(s) - i
      /\ \A j \in 1..(Len(s) - i) : b[j] = s[i + j]
  <2>1. /\ b \in Seq(S)
        /\ Len(b) = IF i + 1 <= Len(s) THEN Len(s) - (i + 1) + 1 ELSE 0
        /\ \A j \in 1..(Len(s) - (i + 1) + 1) : b[j] = s[(i + 1) + j - 1]
    BY <1>1, SubSeqProperties
  <2> QED  BY <1>1, <2>1
<1>4. /\ a \o b \in Seq(S)
      /\ Len(a \o b) = Len(a) + Len(b)
      /\ \A j \in 1..(Len(a) + Len(b)) :
            (a \o b)[j] = IF j <= Len(a) THEN a[j] ELSE b[j - Len(a)]
  BY <1>2, <1>3, ConcatProperties
<1>5. RemoveAt(s, i) = a \o b
  BY DEF RemoveAt
<1> HIDE DEF a, b
<1>6. ASSUME NEW j \in 1..(Len(s) - 1)
      PROVE  (a \o b)[j] = IF j < i THEN s[j] ELSE s[j + 1]
  <2>1. (a \o b)[j] = IF j <= i - 1 THEN a[j] ELSE b[j - (i - 1)]
    <3>1. j \in 1..(Len(a) + Len(b)) /\ Len(a) = i - 1
      BY <1>1, <1>2, <1>3
    <3> QED  BY <1>4, <3>1
  <2>2. CASE j < i
    BY <1>1, <1>2, <2>1, <2>2
  <2>3. CASE ~(j < i)
    <3>1. (a \o b)[j] = b[j - (i - 1)] /\ j - (i - 1) \in 1..(Len(s) - i)
      BY <1>1, <2>1, <2>3
    <3>2. b[j - (i - 1)] = s[i + (j - (i - 1))]
      BY <1>3, <3>1
    <3>3. i + (j - (i - 1)) = j + 1
      BY <1>1
    <3> QED  BY <2>3, <3>1, <3>2, <3>3
  <2> QED  BY <2>2, <2>3
<1>7. \A j \in 1..(Len(s) - 1) : (a \o b)[j] = IF j < i THEN s[j] ELSE s[j + 1]
  BY <1>6
<1>8. Len(a \o b) = Len(s) - 1
  BY <1>1, <1>2, <1>3, <1>4
<1> QED  BY <1>4, <1>5, <1>7, <1>8

\* A suspended walk stands on the item it delivers.
LEMMA WalkProperties ==
    ASSUME NEW q \in Seq(Items), NEW from \in Int, NEW ready \in SUBSET Items,
           NEW s \in Walk(q, from, ready)
    PROVE  /\ s \in WorkerState
           /\ s.pc = "awaiting" => s.i \in DOMAIN q /\ q[s.i] = s.item
<1>1. CASE s = Idle
  BY <1>1 DEF Idle, WorkerState
<1>2. ASSUME NEW j \in DOMAIN q, s = Awaiting(j, q[j], ready)
      PROVE  /\ s \in WorkerState
             /\ s.pc = "awaiting" => s.i \in DOMAIN q /\ q[s.i] = s.item
  <2>1. j \in Nat \ {0} /\ q[j] \in Items
    BY LenProperties, ElementOfSeq
  <2>2. s = [pc |-> "awaiting", i |-> j, item |-> q[j], ready |-> ready]
    BY <1>2 DEF Awaiting
  <2> QED  BY <2>1, <2>2 DEF WorkerState
<1>3. s = Idle \/ \E j \in DOMAIN q : s = Awaiting(j, q[j], ready)
  BY DEF Walk, Candidates
<1> QED  BY <1>1, <1>2, <1>3

\* A suspended run has an index, an item and a set of due items.
LEMMA AwaitingType ==
    ASSUME NEW s \in WorkerState, s.pc = "awaiting"
    PROVE  s \in [pc: {"awaiting"}, i: Nat \ {0}, item: Items, ready: SUBSET Items]
BY DEF WorkerState, Idle

\* Splicing yields a queue of items, whatever the index.
LEMMA SpliceType ==
    ASSUME NEW q \in Seq(Items), NEW i
    PROVE  Splice(q, i) \in Seq(Items)
BY RemoveAtProperties DEF Splice

\* Splicing at the position of an item that is queued once removes that item
\* and no other.
LEMMA SpliceRemoves ==
    ASSUME NEW q \in Seq(Items), NEW i \in DOMAIN q,
           IsInjective(q),
           NEW r, r = Splice(q, i)
    PROVE  /\ IsInjective(r)
           /\ ToSet(r) = ToSet(q) \ {q[i]}
<1>1. /\ r \in Seq(Items)
      /\ Len(r) = Len(q) - 1
      /\ \A j \in 1..(Len(q) - 1) : r[j] = IF j < i THEN q[j] ELSE q[j + 1]
  BY RemoveAtProperties DEF Splice
<1>2. DOMAIN r = 1..(Len(q) - 1) /\ DOMAIN q = 1..Len(q) /\ Len(q) \in Nat
  BY <1>1, LenProperties
<1>3. ASSUME NEW j \in DOMAIN r, NEW k \in DOMAIN r, r[j] = r[k]
      PROVE  j = k
  <2> DEFINE f(l) == IF l < i THEN l ELSE l + 1
  <2>1. f(j) \in DOMAIN q /\ r[j] = q[f(j)]
    BY <1>1, <1>2
  <2>2. f(k) \in DOMAIN q /\ r[k] = q[f(k)]
    BY <1>1, <1>2
  <2>3. f(j) = f(k)
    BY <1>3, <2>1, <2>2 DEF IsInjective
  <2> QED  BY <1>2, <2>3
<1>4. ASSUME NEW j \in DOMAIN r
      PROVE  \E k \in DOMAIN q : r[j] = q[k] /\ q[k] # q[i]
  <2>1. CASE j < i
    BY <1>1, <1>2, <2>1 DEF IsInjective
  <2>2. CASE ~(j < i)
    BY <1>1, <1>2, <2>2 DEF IsInjective
  <2> QED  BY <2>1, <2>2
<1>5. ASSUME NEW k \in DOMAIN q, q[k] # q[i]
      PROVE  \E j \in DOMAIN r : r[j] = q[k]
  <2>1. CASE k < i
    BY <1>1, <1>2, <2>1
  <2>2. CASE k > i
    <3>1. k - 1 \in DOMAIN r /\ ~(k - 1 < i) /\ (k - 1) + 1 = k
      BY <1>2, <2>2
    <3> QED  BY <1>1, <1>2, <3>1
  <2> QED  BY <1>2, <1>5, <2>1, <2>2
<1> QED  BY <1>3, <1>4, <1>5 DEF IsInjective, ToSet

\* The cap yields a queue of items, and a cap that cuts nothing changes nothing.
LEMMA CappedProperties ==
    ASSUME NEW q \in Seq(Items)
    PROVE  /\ Capped(q) \in Seq(Items)
           /\ Cut(q) \in SUBSET Items
           /\ Cut(q) = {} => Capped(q) = q
<1>1. QueueMax \in Nat /\ QueueKeep \in 1..QueueMax
  BY WebhookAssumption
<1>2. Len(q) \in Nat /\ \A j \in 1..Len(q) : q[j] \in Items
  BY LenProperties, ElementOfSeq
<1>3. CASE Len(q) <= QueueMax
  BY <1>1, <1>2, <1>3 DEF Capped, Cut
<1>4. CASE Len(q) > QueueMax
  <2> DEFINE m == Len(q) - QueueKeep + 1
  <2>1. m \in 1..Len(q) /\ Capped(q) = SubSeq(q, m, Len(q))
    BY <1>1, <1>2, <1>4 DEF Capped
  <2>2. /\ SubSeq(q, m, Len(q)) \in Seq(Items)
        /\ Len(SubSeq(q, m, Len(q))) = IF m <= Len(q) THEN Len(q) - m + 1 ELSE 0
    BY <1>2, <2>1, SubSeqProperties
  <2>3. Len(Capped(q)) = QueueKeep
    BY <1>1, <1>2, <2>1, <2>2
  <2>4. q[1] \in Cut(q)
    BY <1>1, <1>2, <1>4, <2>3 DEF Cut
  <2>5. Cut(q) \in SUBSET Items
    BY <1>1, <1>2, <2>3 DEF Cut
  <2> QED  BY <2>1, <2>2, <2>4, <2>5
<1> QED  BY <1>1, <1>2, <1>3, <1>4

\* The items pushed for one event are a sequence of distinct new items.
LEMMA BatchProperties ==
    ASSUME NEW b \in NewBatches
    PROVE  /\ b \in Seq(Items)
           /\ \A j \in DOMAIN b : b[j] \in Items \ pushed
           /\ ToSet(b) \subseteq Items /\ ToSet(b) \cap pushed = {}
           /\ IsInjective(b)
<1>1. PICK n \in 1..MaxHooks : b \in [1..n -> Items \ pushed]
  BY DEF NewBatches
<1>2. n \in Nat
  BY WebhookAssumption
<1>3. b \in [1..n -> Items]
  BY <1>1
<1>4. b \in Seq(Items)
  BY <1>2, <1>3, SeqDef
<1> QED  BY <1>1, <1>4 DEF NewBatches, ToSet

-----------------------------------------------------------------------------
(* Type correctness, whatever the number of overlapping runs.              *)

\* Taking up the walk leaves a well-typed worker.
LEMMA WorkerUpdateType ==
    ASSUME NEW f \in [Workers -> WorkerState], NEW w \in Workers,
           NEW q \in Seq(Items), NEW from \in Int, NEW ready \in SUBSET Items,
           NEW s \in Walk(q, from, ready)
    PROVE  [f EXCEPT ![w] = s] \in [Workers -> WorkerState]
BY WalkProperties

\* Rescheduling an item changes only the ready sets of suspended runs.
LEMMA RescheduleType ==
    ASSUME TypeOK, NEW w \in Workers, NEW x \in Items, NEW late
    PROVE  Reschedule(w, x, late) \in [Workers -> WorkerState]
<1> SUFFICES ASSUME NEW v \in Workers
             PROVE  Reschedule(w, x, late)[v] \in WorkerState
  BY DEF Reschedule
<1>1. worker[v] \in WorkerState
  BY DEF TypeOK
<1>2. CASE worker[v] = Idle
  BY <1>1, <1>2 DEF Reschedule
<1>3. CASE worker[v] # Idle
  <2>1. worker[v] \in [pc: {"awaiting"}, i: Nat \ {0}, item: Items, ready: SUBSET Items]
    BY <1>1, <1>3 DEF WorkerState
  <2>2. \A r \in SUBSET Items : [worker[v] EXCEPT !.ready = r] \in WorkerState
    BY <2>1 DEF WorkerState
  <2>3. worker[v].ready \cup {x} \in SUBSET Items /\ worker[v].ready \ {x} \in SUBSET Items
    BY <2>1
  <2> QED  BY <1>3, <2>2, <2>3 DEF Reschedule
<1> QED  BY <1>2, <1>3

\* Every step keeps the types.
LEMMA TypeStep == TypeOK /\ [Next]_vars => TypeOK'
<1> SUFFICES ASSUME TypeOK, [Next]_vars
             PROVE  TypeOK'
  OBVIOUS
<1> USE DEF TypeOK
<1>1. ASSUME NEW b \in NewBatches, Fire(b)
      PROVE  TypeOK'
  <2>1. b \in Seq(Items) /\ ToSet(b) \subseteq Items
    BY BatchProperties
  <2>2. queue \o b \in Seq(Items)
    BY <2>1, ConcatProperties
  <2>3. Capped(queue \o b) \in Seq(Items) /\ Cut(queue \o b) \in SUBSET Items
    BY <2>2, CappedProperties
  <2> QED  BY <1>1, <2>1, <2>3 DEF Fire
<1>2. ASSUME NEW x \in Items, PushTest(x)
      PROVE  TypeOK'
  <2>1. Append(queue, x) \in Seq(Items)
    BY AppendProperties
  <2> QED  BY <1>2, <2>1 DEF PushTest
<1>3. ASSUME NEW x \in Items, BackoffElapses(x)
      PROVE  TypeOK'
  BY <1>3 DEF BackoffElapses
<1>4. ASSUME NEW w \in Workers, StartWorker(w)
      PROVE  TypeOK'
  <2>1. InQueue \cap due \in SUBSET Items
    OBVIOUS
  <2>2. PICK s \in Walk(queue, 1, InQueue \cap due) : worker' = [worker EXCEPT ![w] = s]
    BY <1>4 DEF StartWorker
  <2>3. queue \in Seq(Items) /\ worker \in [Workers -> WorkerState]
    OBVIOUS
  <2>4. worker' \in [Workers -> WorkerState]
    <3> HIDE DEF TypeOK
    <3> QED  BY <2>1, <2>2, <2>3, WorkerUpdateType
  <2>5. overlapped' \in BOOLEAN
    BY <1>4 DEF StartWorker
  <2> QED  BY <1>4, <2>4, <2>5 DEF StartWorker
<1>5. ASSUME NEW w \in Workers, Step(w)
      PROVE  TypeOK'
  <2>1. /\ worker[w].i \in Nat \ {0}
        /\ worker[w].item \in Items
        /\ worker[w].ready \in SUBSET Items
    BY <1>5, AwaitingType DEF Step, Delivered, Retry, GiveUp
  <2>2. Splice(queue, worker[w].i) \in Seq(Items)
    BY SpliceType
  <2>3. CASE Delivered(w)
    <3>1. queue' \in Seq(Items)
      BY <2>2, <2>3 DEF Delivered
    <3>2. PICK s \in Walk(queue', worker[w].i, worker[w].ready) :
            worker' = [worker EXCEPT ![w] = s]
      BY <2>3 DEF Delivered
    <3>3. worker' \in [Workers -> WorkerState]
      <4>1. worker \in [Workers -> WorkerState]
        OBVIOUS
      <4> HIDE DEF TypeOK
      <4> QED  BY <2>1, <3>1, <3>2, <4>1, WorkerUpdateType
    <3>4. log' \in [Items -> SUBSET Outcome]
      BY <2>1, <2>3 DEF Delivered, Outcome
    <3> QED  BY <2>3, <3>1, <3>3, <3>4 DEF Delivered
  <2>4. ASSUME NEW late \in SUBSET (Workers \ {w}), NEW overdue \in BOOLEAN,
               Retry(w, late, overdue)
        PROVE  TypeOK'
    <3>1. worker[w].ready \ {worker[w].item} \in SUBSET Items /\ worker[w].i + 1 \in Int
      BY <2>1
    <3>2. PICK s \in Walk(queue, worker[w].i + 1, worker[w].ready \ {worker[w].item}) :
            worker' = [Reschedule(w, worker[w].item, late) EXCEPT ![w] = s]
      BY <2>4 DEF Retry
    <3>3. Reschedule(w, worker[w].item, late) \in [Workers -> WorkerState]
      BY <2>1, RescheduleType
    <3>4. worker' \in [Workers -> WorkerState]
      BY <2>1, <3>1, <3>2, <3>3, WorkerUpdateType
    <3>5. attempts' \in [Items -> Nat]
      BY <2>1, <2>4 DEF Retry
    <3>6. due' \in SUBSET Items
      BY <2>4 DEF Retry
    <3> QED  BY <2>4, <3>4, <3>5, <3>6 DEF Retry
  <2>5. CASE GiveUp(w)
    <3>1. queue' \in Seq(Items)
      BY <2>2, <2>5 DEF GiveUp
    <3>2. PICK s \in Walk(queue', worker[w].i, worker[w].ready) :
            worker' = [worker EXCEPT ![w] = s]
      BY <2>5 DEF GiveUp
    <3>3. worker' \in [Workers -> WorkerState]
      <4>1. worker \in [Workers -> WorkerState]
        OBVIOUS
      <4> HIDE DEF TypeOK
      <4> QED  BY <2>1, <3>1, <3>2, <4>1, WorkerUpdateType
    <3>4. log' \in [Items -> SUBSET Outcome] /\ attempts' \in [Items -> Nat]
      BY <2>1, <2>5 DEF GiveUp, Outcome
    <3> QED  BY <2>5, <3>1, <3>3, <3>4 DEF GiveUp
  <2> QED  BY <1>5, <2>3, <2>4, <2>5 DEF Step
<1>6. CASE UNCHANGED vars
  BY <1>6 DEF vars
<1> QED  BY <1>1, <1>2, <1>3, <1>4, <1>5, <1>6 DEF Next

LEMMA InitType == Init => TypeOK
<1> SUFFICES ASSUME Init PROVE TypeOK
  OBVIOUS
<1>1. overlapped \in BOOLEAN
  BY DEF Init
<1>2. queue \in Seq(Items) /\ worker \in [Workers -> WorkerState]
  BY EmptySeq DEF Init, WorkerState
<1>3. attempts \in [Items -> Nat] /\ log \in [Items -> SUBSET Outcome]
  BY DEF Init
<1> QED  BY <1>1, <1>2, <1>3 DEF Init, TypeOK

\* The types hold in every reachable state, whatever runs overlap.
THEOREM TypeCorrect == Spec => []TypeOK
<1>1. Init => TypeOK
  BY InitType
<1> QED  BY <1>1, TypeStep, PTL DEF Spec

-----------------------------------------------------------------------------
(* Until runs overlap or the cap cuts, nothing is lost in silence.         *)

Sound == OneAtATime /\ QueueSound /\ PointerSound /\ AccountSound

\* Delivering the item under the index: the step removes that item, and the
\* walk stands on what it delivers next.
LEMMA SpliceStep ==
    ASSUME TypeOK, Sound, NEW w \in Workers, worker[w].pc = "awaiting",
           queue' = Splice(queue, worker[w].i), pushed' = pushed,
           \E s \in Walk(queue', worker[w].i, worker[w].ready) :
                worker' = [worker EXCEPT ![w] = s]
    PROVE  /\ OneAtATime'
           /\ QueueSound'
           /\ PointerSound'
           /\ InQueue' = InQueue \ {worker[w].item}
           /\ worker[w].item \in InQueue /\ worker[w].item \in Items
<1>1. /\ worker[w].i \in DOMAIN queue
      /\ queue[worker[w].i] = worker[w].item
      /\ IsInjective(queue)
  BY DEF Sound, PointerSound, QueueSound
<1>2. /\ queue \in Seq(Items)
      /\ worker[w].ready \in SUBSET Items
      /\ worker[w].i \in Int
      /\ worker[w].item \in Items
  BY AwaitingType DEF TypeOK
<1>3. queue' \in Seq(Items)
  BY <1>2, SpliceType
<1>4. IsInjective(queue') /\ InQueue' = InQueue \ {worker[w].item}
  BY <1>1, <1>2, SpliceRemoves DEF InQueue
<1>5. PICK s \in Walk(queue', worker[w].i, worker[w].ready) :
        worker' = [worker EXCEPT ![w] = s]
  OBVIOUS
<1>6. s.pc = "awaiting" => s.i \in DOMAIN queue' /\ queue'[s.i] = s.item
  BY <1>2, <1>3, <1>5, WalkProperties
<1>7. OneAtATime' /\ PointerSound'
  <2>1. \A v \in Workers : v # w => worker[v].pc # "awaiting" /\ worker'[v] = worker[v]
    BY <1>5 DEF Sound, OneAtATime, TypeOK
  <2>2. worker'[w] = s
    BY <1>5 DEF TypeOK
  <2> QED  BY <1>6, <2>1, <2>2 DEF OneAtATime, PointerSound
<1>8. QueueSound'
  BY <1>4 DEF Sound, QueueSound
<1> QED  BY <1>1, <1>2, <1>4, <1>7, <1>8 DEF InQueue, ToSet

\* As long as the cap cuts nothing, every step of a single run keeps the
\* index on the item it delivers and the accounts straight.
LEMMA SoundStep ==
    ASSUME IndInv, [Next]_vars, Regular'
    PROVE  Sound'
<1>1. Regular
  BY DEF Regular, Next, vars, Fire, PushTest, BackoffElapses, StartWorker, Step,
         Delivered, Retry, GiveUp, IndInv, TypeOK
<1>2. TypeOK /\ Sound
  BY <1>1 DEF IndInv, Sound
<1>3. MaxAttempts \in Nat \ {0}
  BY WebhookAssumption
<1>4. ASSUME NEW b \in NewBatches, Fire(b)
      PROVE  Sound'
  <2>1. /\ b \in Seq(Items)
        /\ \A j \in DOMAIN b : b[j] \in Items \ pushed
        /\ ToSet(b) \cap pushed = {}
        /\ IsInjective(b)
    BY BatchProperties
  <2>2. queue \in Seq(Items)
    BY <1>2 DEF TypeOK
  <2>3. /\ queue \o b \in Seq(Items)
        /\ Len(queue \o b) = Len(queue) + Len(b)
        /\ \A j \in 1..(Len(queue) + Len(b)) :
              (queue \o b)[j] = IF j <= Len(queue) THEN queue[j] ELSE b[j - Len(queue)]
    BY <2>1, <2>2, ConcatProperties
  <2>4. queue' = queue \o b
    <3>1. Cut(queue \o b) = {}
      BY <1>4 DEF Fire, Regular
    <3> QED  BY <1>4, <2>3, <3>1, CappedProperties DEF Fire
  <2>5. /\ DOMAIN queue = 1..Len(queue) /\ DOMAIN b = 1..Len(b)
        /\ DOMAIN queue' = 1..(Len(queue) + Len(b))
        /\ Len(queue) \in Nat /\ Len(b) \in Nat
    BY <2>1, <2>2, <2>3, <2>4, LenProperties
  <2>6. \A j \in DOMAIN queue : j \in DOMAIN queue' /\ queue'[j] = queue[j]
    BY <2>3, <2>4, <2>5
  <2>7. \A j \in DOMAIN queue' \ DOMAIN queue :
            j - Len(queue) \in DOMAIN b /\ queue'[j] = b[j - Len(queue)]
    BY <2>3, <2>4, <2>5
  <2>8. \A k \in DOMAIN b : k + Len(queue) \in DOMAIN queue' /\ queue'[k + Len(queue)] = b[k]
    <3> SUFFICES ASSUME NEW k \in DOMAIN b
                 PROVE  k + Len(queue) \in DOMAIN queue' /\ queue'[k + Len(queue)] = b[k]
      OBVIOUS
    <3>1. /\ k + Len(queue) \in 1..(Len(queue) + Len(b))
          /\ ~(k + Len(queue) <= Len(queue))
          /\ (k + Len(queue)) - Len(queue) = k
      BY <2>5
    <3> QED  BY <2>3, <2>4, <2>5, <3>1
  <2>9. InQueue' = InQueue \cup ToSet(b)
    BY <2>6, <2>7, <2>8 DEF InQueue, ToSet
  <2>10. ASSUME NEW j \in DOMAIN queue', NEW k \in DOMAIN queue', queue'[j] = queue'[k]
         PROVE  j = k
    <3>1. \A l \in DOMAIN queue : queue[l] \in pushed
      BY <1>2 DEF Sound, QueueSound, InQueue, ToSet
    <3>2. CASE j \in DOMAIN queue /\ k \in DOMAIN queue
      BY <1>2, <2>6, <2>10, <3>2 DEF Sound, QueueSound, IsInjective
    <3>3. CASE j \notin DOMAIN queue /\ k \notin DOMAIN queue
      <4>1. j - Len(queue) = k - Len(queue)
        BY <2>1, <2>7, <2>10, <3>3 DEF IsInjective
      <4> QED  BY <2>5, <4>1
    <3>4. CASE j \in DOMAIN queue /\ k \notin DOMAIN queue
      BY <2>1, <2>6, <2>7, <2>10, <3>1, <3>4
    <3>5. CASE j \notin DOMAIN queue /\ k \in DOMAIN queue
      BY <2>1, <2>6, <2>7, <2>10, <3>1, <3>5
    <3> QED  BY <3>2, <3>3, <3>4, <3>5
  <2>11. QueueSound'
    <3>1. IsInjective(queue')
      BY <2>10 DEF IsInjective
    <3> QED  BY <1>2, <1>4, <2>9, <3>1 DEF Sound, QueueSound, Fire
  <2>12. OneAtATime' /\ PointerSound'
    BY <1>2, <1>4, <2>6 DEF Sound, OneAtATime, PointerSound, Fire
  <2>13. AccountSound'
    BY <1>2, <1>4, <2>1, <2>9 DEF Sound, AccountSound, QueueSound, Fire
  <2> QED  BY <2>11, <2>12, <2>13 DEF Sound
<1>5. ASSUME NEW x \in Items, PushTest(x)
      PROVE  Sound'
  <2>1. queue \in Seq(Items) /\ x \in Items /\ x \notin pushed
    BY <1>2, <1>5 DEF TypeOK, PushTest
  <2>2. /\ DOMAIN queue = 1..Len(queue) /\ Len(queue) \in Nat
        /\ DOMAIN queue' = 1..(Len(queue) + 1)
        /\ \A j \in DOMAIN queue : queue'[j] = queue[j]
        /\ queue'[Len(queue) + 1] = x
    BY <1>5, <2>1, AppendProperties, LenProperties DEF PushTest
  <2>3. InQueue' = InQueue \cup {x}
    BY <2>2 DEF InQueue, ToSet
  <2>4. QueueSound'
    BY <1>2, <1>5, <2>1, <2>2, <2>3 DEF Sound, QueueSound, InQueue, ToSet, IsInjective, PushTest
  <2>5. OneAtATime' /\ PointerSound'
    BY <1>2, <1>5, <2>2 DEF Sound, OneAtATime, PointerSound, PushTest
  <2>6. AccountSound'
    BY <1>2, <1>5, <2>1, <2>3 DEF Sound, AccountSound, QueueSound, PushTest
  <2> QED  BY <2>4, <2>5, <2>6 DEF Sound
<1>6. ASSUME NEW x \in Items, BackoffElapses(x)
      PROVE  Sound'
  BY <1>2, <1>6 DEF Sound, OneAtATime, QueueSound, PointerSound, AccountSound, InQueue, BackoffElapses
<1>7. ASSUME NEW w \in Workers, StartWorker(w)
      PROVE  Sound'
  <2>1. PICK s \in Walk(queue, 1, InQueue \cap due) : worker' = [worker EXCEPT ![w] = s]
    BY <1>7 DEF StartWorker
  <2>2. s.pc = "awaiting" => s.i \in DOMAIN queue /\ queue[s.i] = s.item
    <3>1. InQueue \cap due \in SUBSET Items /\ queue \in Seq(Items)
      BY <1>2 DEF TypeOK
    <3> QED  BY <3>1, <2>1, WalkProperties
  <2>3. OneAtATime'
    BY <1>7 DEF Regular, StartWorker
  <2>5. PointerSound'
    BY <1>2, <1>7, <2>1, <2>2 DEF Sound, PointerSound, StartWorker, TypeOK
  <2>4. QueueSound' /\ AccountSound'
    BY <1>2, <1>7 DEF Sound, QueueSound, AccountSound, InQueue, StartWorker
  <2> QED  BY <2>3, <2>4, <2>5 DEF Sound
<1>8. ASSUME NEW w \in Workers, Delivered(w)
      PROVE  Sound'
  <2>1. /\ OneAtATime' /\ QueueSound' /\ PointerSound'
        /\ InQueue' = InQueue \ {worker[w].item}
        /\ worker[w].item \in InQueue /\ worker[w].item \in Items
    BY <1>2, <1>8, SpliceStep DEF Delivered
  <2>2. /\ log' = [log EXCEPT ![worker[w].item] = @ \cup {"success"}]
        /\ attempts' = attempts /\ pushed' = pushed
    BY <1>8 DEF Delivered
  <2>3. log[worker[w].item] = {} /\ worker[w].item \in pushed
    BY <1>2, <2>1 DEF Sound, AccountSound, QueueSound
  <2>4. AccountSound'
    <3>1. log'[worker[w].item] = {"success"} /\ log'[worker[w].item] # Outcome
      <4>1. log'[worker[w].item] = {} \cup {"success"}
        BY <1>2, <2>1, <2>2, <2>3 DEF TypeOK
      <4>2. {"success"} # Outcome
        BY DEF Outcome
      <4> QED  BY <4>1, <4>2
    <3>2. \A y \in Items \ {worker[w].item} : log'[y] = log[y]
      BY <1>2, <2>2 DEF TypeOK
    <3>3. attempts[worker[w].item] # MaxAttempts
      BY <1>2, <2>1, <2>3 DEF Sound, AccountSound
    <3> QED  BY <1>2, <2>1, <2>2, <2>3, <3>1, <3>2, <3>3 DEF Sound, AccountSound
  <2> QED  BY <2>1, <2>4 DEF Sound
<1>9. ASSUME NEW w \in Workers, NEW late \in SUBSET (Workers \ {w}), NEW overdue \in BOOLEAN,
             Retry(w, late, overdue)
      PROVE  Sound'
  <2> DEFINE x == worker[w].item
  <2>1. PICK s \in Walk(queue, worker[w].i + 1, worker[w].ready \ {x}) :
            worker' = [Reschedule(w, x, late) EXCEPT ![w] = s]
    BY <1>9 DEF Retry
  <2>2. /\ worker[w].i \in Int /\ x \in Items /\ worker[w].ready \ {x} \in SUBSET Items
        /\ queue \in Seq(Items)
    BY <1>2, <1>9, AwaitingType DEF TypeOK, Retry
  <2>3. s.pc = "awaiting" => s.i \in DOMAIN queue /\ queue[s.i] = s.item
    <3>1. worker[w].i + 1 \in Int
      BY <2>2
    <3> QED  BY <2>1, <2>2, <3>1, WalkProperties
  <2>4. OneAtATime' /\ PointerSound'
    <3>1. \A v \in Workers : v # w => worker[v].pc # "awaiting" /\ worker[v] = Idle
      BY <1>2, <1>9 DEF Sound, OneAtATime, TypeOK, WorkerState, Retry
    <3>2. worker'[w] = s /\ \A v \in Workers : v # w => worker'[v] = Idle
      BY <2>1, <3>1 DEF Reschedule
    <3> QED  BY <2>3, <3>1, <3>2, <1>9 DEF OneAtATime, PointerSound, Retry
  <2>5. QueueSound'
    BY <1>2, <1>9 DEF Sound, QueueSound, InQueue, Retry
  <2>6. x \in InQueue
    BY <1>2, <1>9 DEF Sound, PointerSound, InQueue, ToSet, Retry
  <2>7. /\ attempts' = [attempts EXCEPT ![x] = @ + 1] /\ attempts[x] + 1 < MaxAttempts
        /\ log' = log /\ pushed' = pushed /\ InQueue' = InQueue
    BY <1>2, <1>3, <1>9, <2>2 DEF Retry, InQueue, Exhausted, TypeOK
  <2>8. log[x] = {} /\ x \in pushed /\ attempts[x] \in Nat
    BY <1>2, <2>2, <2>6 DEF Sound, AccountSound, QueueSound, TypeOK
  <2>9. AccountSound'
    BY <1>2, <1>3, <2>2, <2>7, <2>8 DEF Sound, AccountSound, TypeOK
  <2> QED  BY <2>4, <2>5, <2>9 DEF Sound
<1>10. ASSUME NEW w \in Workers, GiveUp(w)
       PROVE  Sound'
  <2> DEFINE x == worker[w].item
  <2>1. /\ OneAtATime' /\ QueueSound' /\ PointerSound'
        /\ InQueue' = InQueue \ {x}
        /\ x \in InQueue /\ x \in Items
    BY <1>2, <1>10, SpliceStep DEF GiveUp
  <2>2. /\ log' = [log EXCEPT ![x] = @ \cup {"gave_up"}]
        /\ attempts' = [attempts EXCEPT ![x] = @ + 1] /\ attempts[x] + 1 >= MaxAttempts
        /\ pushed' = pushed
    BY <1>10 DEF GiveUp, Exhausted
  <2>3. log[x] = {} /\ x \in pushed /\ attempts[x] \in Nat
    BY <1>2, <2>1 DEF Sound, AccountSound, QueueSound, TypeOK
  <2>4. attempts[x] + 1 = MaxAttempts
    BY <1>2, <1>3, <2>1, <2>2, <2>3 DEF Sound, AccountSound
  <2>5. AccountSound'
    <3>1. log'[x] = {"gave_up"} /\ log'[x] # Outcome
      <4>1. log'[x] = {} \cup {"gave_up"}
        BY <1>2, <2>1, <2>2, <2>3 DEF TypeOK
      <4>2. {"gave_up"} # Outcome
        BY DEF Outcome
      <4> QED  BY <4>1, <4>2
    <3>2. attempts'[x] = MaxAttempts
      BY <1>2, <2>1, <2>2, <2>4 DEF TypeOK
    <3>3. \A y \in Items \ {x} : log'[y] = log[y] /\ attempts'[y] = attempts[y]
      BY <1>2, <2>2 DEF TypeOK
    <3> HIDE DEF x
    <3> QED  BY <1>2, <1>3, <2>1, <2>2, <2>3, <3>1, <3>2, <3>3 DEF Sound, AccountSound
  <2> QED  BY <2>1, <2>5 DEF Sound
<1>11. CASE UNCHANGED vars
  BY <1>2, <1>11 DEF vars, Sound, OneAtATime, QueueSound, PointerSound, AccountSound, InQueue
<1> QED  BY <1>4, <1>5, <1>6, <1>7, <1>8, <1>9, <1>10, <1>11 DEF Next, Step

\* Until two runs overlap or the cap cuts, the index of a suspended run stays on
\* the item it delivers and the accounts of the queue are straight.
THEOREM IndInvCorrect == Spec => []IndInv
<1>1. Init => IndInv
  <2> SUFFICES ASSUME Init PROVE IndInv
    OBVIOUS
  <2>1. TypeOK
    BY InitType
  <2>2. OneAtATime /\ QueueSound /\ PointerSound
    BY DEF Init, OneAtATime, QueueSound, PointerSound, InQueue, Idle, ToSet, IsInjective
  <2>3. AccountSound
    BY WebhookAssumption DEF Init, AccountSound, Outcome
  <2> QED  BY <2>1, <2>2, <2>3 DEF IndInv
<1>2. IndInv /\ [Next]_vars => IndInv'
  <2> SUFFICES ASSUME IndInv, [Next]_vars PROVE IndInv'
    OBVIOUS
  <2>1. TypeOK'
    BY TypeStep DEF IndInv
  <2>2. Regular' => Sound'
    BY SoundStep
  <2> QED  BY <2>1, <2>2 DEF IndInv, Sound
<1> QED  BY <1>1, <1>2, PTL DEF Spec

\* Until two runs of processWebhookQueue overlap or the cap first cuts, a pushed
\* item is queued or has an outcome in the delivery log.
THEOREM NothingLost == Spec => []NoSilentLoss
<1>1. IndInv => NoSilentLoss
  BY DEF IndInv, TypeOK, AccountSound, NoSilentLoss
<1> QED  BY <1>1, IndInvCorrect, PTL

\* Under the same conditions an outcome is final: the item is off the queue,
\* has no second outcome, and is given up exactly at MaxAttempts failures.
THEOREM OutcomesFinal == Spec => []OutcomeFinal
<1>1. IndInv => OutcomeFinal
  <2> SUFFICES ASSUME IndInv, Regular, NEW x \in Items
               PROVE  /\ log[x] # {} => x \notin InQueue /\ Cardinality(log[x]) = 1
                      /\ "gave_up" \in log[x] <=> attempts[x] = MaxAttempts
    BY DEF OutcomeFinal
  <2>1. AccountSound /\ QueueSound /\ log[x] \in SUBSET Outcome
    BY DEF IndInv, TypeOK
  <2>2. log[x] # {} => x \notin InQueue
    BY <2>1 DEF AccountSound
  <2>3. log[x] # {} => log[x] = {"success"} \/ log[x] = {"gave_up"}
    BY <2>1 DEF AccountSound, Outcome
  <2>4. Cardinality({"success"}) = 1 /\ Cardinality({"gave_up"}) = 1
    BY FS_Singleton
  <2> QED  BY <2>1, <2>2, <2>3, <2>4 DEF AccountSound
<1> QED  BY <1>1, IndInvCorrect, PTL
-----------------------------------------------------------------------------
(* Items keep their order, whatever runs overlap and whatever the cap cuts. *)

\* What is left of a queue of distinct items when some are taken out: the
\* position f[j] in the old queue of each item grows with j.
LEMMA RestKeepsOrder ==
    ASSUME NEW q, IsInjective(q), DOMAIN q \subseteq Int,
           NEW r, DOMAIN r \subseteq Int,
           NEW f \in [DOMAIN r -> DOMAIN q],
           \A j \in DOMAIN r : r[j] = q[f[j]],
           \A j, k \in DOMAIN r : j < k => f[j] < f[k]
    PROVE  /\ IsInjective(r)
           /\ ToSet(r) \subseteq ToSet(q)
           /\ \A x, y \in ToSet(r) : Precedes(q, x, y) => Precedes(r, x, y)
<1>1. ASSUME NEW j \in DOMAIN r, NEW k \in DOMAIN r, f[j] < f[k]
      PROVE  j < k
  <2>1. j < k \/ j = k \/ k < j
    OBVIOUS
  <2>2. f[j] \in Int /\ f[k] \in Int
    OBVIOUS
  <2>3. k < j => f[k] < f[j]
    OBVIOUS
  <2> QED  BY <1>1, <2>1, <2>2, <2>3
<1>2. ASSUME NEW j \in DOMAIN r, NEW k \in DOMAIN r, r[j] = r[k]
      PROVE  j = k
  <2>1. f[j] = f[k] /\ f[j] \in Int
    BY <1>2 DEF IsInjective
  <2>2. (j < k => f[j] < f[k]) /\ (k < j => f[k] < f[j])
    OBVIOUS
  <2> QED  BY <2>1, <2>2
<1>3. ToSet(r) \subseteq ToSet(q)
  BY DEF ToSet
<1>4. ASSUME NEW j \in DOMAIN r, NEW k \in DOMAIN r, Precedes(q, r[j], r[k])
      PROVE  Precedes(r, r[j], r[k])
  <2>1. PICK a \in DOMAIN q, b \in DOMAIN q : a < b /\ q[a] = r[j] /\ q[b] = r[k]
    BY <1>4 DEF Precedes
  <2>2. a = f[j] /\ b = f[k]
    BY <2>1 DEF IsInjective
  <2>3. j < k
    BY <1>1, <2>1, <2>2
  <2> QED  BY <2>3 DEF Precedes
<1> QED  BY <1>2, <1>3, <1>4 DEF IsInjective, ToSet

\* Splicing, at whatever index, leaves the other items in their order.
LEMMA SpliceOrder ==
    ASSUME NEW q \in Seq(Items), IsInjective(q), NEW i, NEW r, r = Splice(q, i)
    PROVE  /\ IsInjective(r)
           /\ ToSet(r) \subseteq ToSet(q)
           /\ \A x, y \in ToSet(r) : Precedes(q, x, y) => Precedes(r, x, y)
<1>1. DOMAIN q = 1..Len(q) /\ Len(q) \in Nat
  BY LenProperties
<1>2. CASE i \in DOMAIN q
  <2> DEFINE f == [j \in DOMAIN r |-> IF j < i THEN j ELSE j + 1]
  <2>1. /\ r \in Seq(Items)
        /\ Len(r) = Len(q) - 1
        /\ \A j \in 1..(Len(q) - 1) : r[j] = IF j < i THEN q[j] ELSE q[j + 1]
    BY <1>2, RemoveAtProperties DEF Splice
  <2>2. DOMAIN r = 1..(Len(q) - 1)
    BY <2>1, LenProperties
  <2>3. f \in [DOMAIN r -> DOMAIN q]
    BY <1>1, <2>2
  <2>4. \A j \in DOMAIN r : r[j] = q[f[j]]
    BY <2>1, <2>2
  <2>5. \A j, k \in DOMAIN r : j < k => f[j] < f[k]
    BY <1>1, <1>2, <2>2
  <2>6. DOMAIN q \subseteq Int /\ DOMAIN r \subseteq Int
    BY <1>1, <2>2
  <2> HIDE DEF f
  <2> QED  BY <2>3, <2>4, <2>5, <2>6, RestKeepsOrder
<1>3. CASE i \notin DOMAIN q
  BY <1>3 DEF Splice
<1> QED  BY <1>2, <1>3

\* The cap leaves the newest items, in their order.
LEMMA CappedOrder ==
    ASSUME NEW q \in Seq(Items), IsInjective(q)
    PROVE  /\ IsInjective(Capped(q))
           /\ ToSet(Capped(q)) \subseteq ToSet(q)
           /\ \A x, y \in ToSet(Capped(q)) :
                Precedes(q, x, y) => Precedes(Capped(q), x, y)
<1>1. QueueMax \in Nat /\ QueueKeep \in 1..QueueMax
  BY WebhookAssumption
<1>2. DOMAIN q = 1..Len(q) /\ Len(q) \in Nat /\ \A j \in 1..Len(q) : q[j] \in Items
  BY LenProperties, ElementOfSeq
<1>3. CASE Len(q) > QueueMax
  <2> DEFINE m == Len(q) - QueueKeep + 1
             r == SubSeq(q, m, Len(q))
             f == [j \in DOMAIN r |-> j + (m - 1)]
  <2>1. m \in 1..Len(q) /\ Capped(q) = r
    BY <1>1, <1>2, <1>3 DEF Capped
  <2>2. /\ r \in Seq(Items)
        /\ Len(r) = Len(q) - m + 1
        /\ \A j \in 1..(Len(q) - m + 1) : r[j] = q[m + j - 1]
    <3>1. /\ r \in Seq(Items)
          /\ Len(r) = IF m <= Len(q) THEN Len(q) - m + 1 ELSE 0
          /\ \A j \in 1..(Len(q) - m + 1) : r[j] = q[m + j - 1]
      BY <1>2, <2>1, SubSeqProperties
    <3> QED  BY <1>2, <2>1, <3>1
  <2> HIDE DEF r
  <2>3. DOMAIN r = 1..(Len(q) - m + 1)
    BY <2>2, LenProperties
  <2>4. f \in [DOMAIN r -> DOMAIN q]
    BY <1>2, <2>1, <2>3
  <2>5. \A j \in DOMAIN r : r[j] = q[f[j]]
    <3> SUFFICES ASSUME NEW j \in DOMAIN r PROVE r[j] = q[f[j]]
      OBVIOUS
    <3>1. r[j] = q[m + j - 1] /\ f[j] = j + (m - 1) /\ j \in Int
      BY <2>2, <2>3
    <3>2. m + j - 1 = j + (m - 1)
      BY <2>1, <3>1
    <3> QED  BY <3>1, <3>2
  <2>6. \A j, k \in DOMAIN r : j < k => f[j] < f[k]
    BY <1>2, <2>1, <2>3
  <2>7. DOMAIN q \subseteq Int /\ DOMAIN r \subseteq Int
    BY <1>2, <2>3
  <2> HIDE DEF f
  <2> QED  BY <2>1, <2>4, <2>5, <2>6, <2>7, RestKeepsOrder
<1>4. CASE ~(Len(q) > QueueMax)
  BY <1>4 DEF Capped
<1> QED  BY <1>3, <1>4

\* Pushing distinct new items behind the others moves nothing.
LEMMA ConcatOrder ==
    ASSUME NEW q \in Seq(Items), IsInjective(q),
           NEW b \in Seq(Items), IsInjective(b), ToSet(b) \cap ToSet(q) = {}
    PROVE  /\ q \o b \in Seq(Items)
           /\ IsInjective(q \o b)
           /\ ToSet(q \o b) = ToSet(q) \cup ToSet(b)
           /\ \A x, y : Precedes(q, x, y) => Precedes(q \o b, x, y)
<1> DEFINE r == q \o b
<1>1. /\ r \in Seq(Items)
      /\ Len(r) = Len(q) + Len(b)
      /\ \A j \in 1..(Len(q) + Len(b)) :
            r[j] = IF j <= Len(q) THEN q[j] ELSE b[j - Len(q)]
  BY ConcatProperties
<1> HIDE DEF r
<1>2. /\ DOMAIN q = 1..Len(q) /\ DOMAIN b = 1..Len(b)
      /\ DOMAIN r = 1..(Len(q) + Len(b))
      /\ Len(q) \in Nat /\ Len(b) \in Nat
  BY <1>1, LenProperties
<1>3. \A j \in DOMAIN q : j \in DOMAIN r /\ r[j] = q[j]
  BY <1>1, <1>2
<1>4. \A j \in DOMAIN r \ DOMAIN q : j - Len(q) \in DOMAIN b /\ r[j] = b[j - Len(q)]
  BY <1>1, <1>2
<1>5. ASSUME NEW k \in DOMAIN b
      PROVE  k + Len(q) \in DOMAIN r /\ r[k + Len(q)] = b[k]
  <2>1. /\ k + Len(q) \in 1..(Len(q) + Len(b))
        /\ ~(k + Len(q) <= Len(q))
        /\ (k + Len(q)) - Len(q) = k
    BY <1>2
  <2> QED  BY <1>1, <1>2, <2>1
<1>6. ToSet(r) = ToSet(q) \cup ToSet(b)
  BY <1>3, <1>4, <1>5 DEF ToSet
<1>7. ASSUME NEW j \in DOMAIN r, NEW k \in DOMAIN r, r[j] = r[k]
      PROVE  j = k
  <2>1. \A l \in DOMAIN q, n \in DOMAIN b : q[l] # b[n]
    BY DEF ToSet
  <2>2. CASE j \in DOMAIN q /\ k \in DOMAIN q
    BY <1>3, <1>7, <2>2 DEF IsInjective
  <2>3. CASE j \notin DOMAIN q /\ k \notin DOMAIN q
    <3>1. j - Len(q) = k - Len(q)
      BY <1>4, <1>7, <2>3 DEF IsInjective
    <3> QED  BY <1>2, <3>1
  <2>4. CASE (j \in DOMAIN q) # (k \in DOMAIN q)
    BY <1>3, <1>4, <1>7, <2>1, <2>4
  <2> QED  BY <2>2, <2>3, <2>4
<1>8. ASSUME NEW x, NEW y, Precedes(q, x, y)
      PROVE  Precedes(r, x, y)
  BY <1>3, <1>8 DEF Precedes
<1>9. IsInjective(r)
  BY <1>7 DEF IsInjective
<1> QED  BY <1>1, <1>6, <1>8, <1>9 DEF r

\* The queue holds distinct items that were pushed, in every reachable state.
QueueInv == TypeOK /\ QueueSound

\* One step of the queue as OrderKept describes it.
OrderStep ==
    /\ \A x, y \in InQueue \cap InQueue' :
          Precedes(queue, x, y) => Precedes(queue', x, y)
    /\ InQueue' \cap pushed \subseteq InQueue

LEMMA OrderStepKept == QueueInv /\ [Next]_vars => QueueSound' /\ OrderStep
<1> SUFFICES ASSUME QueueInv, [Next]_vars
             PROVE  QueueSound' /\ OrderStep
  OBVIOUS
<1>1. /\ queue \in Seq(Items) /\ IsInjective(queue)
      /\ ToSet(queue) \subseteq pushed /\ pushed \subseteq Items
  BY DEF QueueInv, TypeOK, QueueSound, InQueue
<1>2. ASSUME NEW b \in Seq(Items), IsInjective(b), ToSet(b) \cap pushed = {},
             NEW r, r \in {queue \o b, Capped(queue \o b)},
             queue' = r, pushed' = pushed \cup ToSet(b)
      PROVE  QueueSound' /\ OrderStep
  <2>1. ToSet(b) \cap ToSet(queue) = {}
    BY <1>1, <1>2
  <2>2. /\ queue \o b \in Seq(Items)
        /\ IsInjective(queue \o b)
        /\ ToSet(queue \o b) = ToSet(queue) \cup ToSet(b)
        /\ \A x, y : Precedes(queue, x, y) => Precedes(queue \o b, x, y)
    BY <1>1, <1>2, <2>1, ConcatOrder
  <2>3. /\ IsInjective(r)
        /\ ToSet(r) \subseteq ToSet(queue \o b)
        /\ \A x, y \in ToSet(r) : Precedes(queue \o b, x, y) => Precedes(r, x, y)
    BY <1>2, <2>2, CappedOrder
  <2>4. QueueSound'
    BY <1>1, <1>2, <2>2, <2>3 DEF QueueSound, InQueue
  <2>5. InQueue' = ToSet(r) /\ InQueue = ToSet(queue)
    BY <1>2 DEF InQueue
  <2>6. ToSet(r) \cap pushed \subseteq ToSet(queue)
    BY <1>2, <2>2, <2>3
  <2> QED  BY <1>2, <2>2, <2>3, <2>4, <2>5, <2>6 DEF OrderStep
<1>3. ASSUME NEW b \in NewBatches, Fire(b)
      PROVE  QueueSound' /\ OrderStep
  <2>1. b \in Seq(Items) /\ IsInjective(b) /\ ToSet(b) \cap pushed = {}
    BY BatchProperties
  <2> QED  BY <1>2, <1>3, <2>1 DEF Fire
<1>4. ASSUME NEW x \in Items, PushTest(x)
      PROVE  QueueSound' /\ OrderStep
  <2>1. <<x>> \in Seq(Items) /\ IsInjective(<<x>>) /\ ToSet(<<x>>) = {x}
    BY DEF IsInjective, ToSet
  <2>2. queue' = queue \o <<x>>
    BY <1>1, <1>4, AppendIsConcat DEF PushTest
  <2>3. ToSet(<<x>>) \cap pushed = {} /\ pushed' = pushed \cup ToSet(<<x>>)
    BY <1>4, <2>1 DEF PushTest
  <2> QED  BY <1>2, <2>1, <2>2, <2>3
<1>5. ASSUME queue' = queue, pushed' = pushed
      PROVE  QueueSound' /\ OrderStep
  BY <1>5 DEF QueueInv, QueueSound, OrderStep, InQueue
<1>6. ASSUME NEW w \in Workers, queue' = Splice(queue, worker[w].i), pushed' = pushed
      PROVE  QueueSound' /\ OrderStep
  <2>1. /\ IsInjective(queue')
        /\ ToSet(queue') \subseteq ToSet(queue)
        /\ \A x, y \in ToSet(queue') : Precedes(queue, x, y) => Precedes(queue', x, y)
    BY <1>1, <1>6, SpliceOrder
  <2> QED  BY <1>1, <1>6, <2>1 DEF QueueSound, OrderStep, InQueue
<1>7. ASSUME NEW x \in Items, BackoffElapses(x)
      PROVE  QueueSound' /\ OrderStep
  BY <1>5, <1>7 DEF BackoffElapses
<1>8. ASSUME NEW w \in Workers, StartWorker(w)
      PROVE  QueueSound' /\ OrderStep
  BY <1>5, <1>8 DEF StartWorker
<1>9. ASSUME NEW w \in Workers, Step(w)
      PROVE  QueueSound' /\ OrderStep
  <2>1. CASE Delivered(w) \/ GiveUp(w)
    BY <1>6, <2>1 DEF Delivered, GiveUp
  <2>2. ASSUME NEW late, NEW overdue, Retry(w, late, overdue)
        PROVE  QueueSound' /\ OrderStep
    BY <1>5, <2>2 DEF Retry
  <2> QED  BY <1>9, <2>1, <2>2 DEF Step
<1>10. CASE UNCHANGED vars
  BY <1>5, <1>10 DEF vars
<1> QED  BY <1>3, <1>4, <1>7, <1>8, <1>9, <1>10 DEF Next

\* Deliveries are taken in the order of the pushes and what left the queue never
\* comes back, for any number of overlapping runs and whatever the cap cuts.
THEOREM OrderCorrect == Spec => OrderKept
<1>1. Init => QueueSound
  BY DEF Init, QueueSound, InQueue, IsInjective, ToSet
<1>2. QueueInv /\ [Next]_vars => QueueSound'
  BY OrderStepKept
<1>3. QueueInv /\ [Next]_vars =>
         [ /\ \A x, y \in InQueue \cap InQueue' :
                Precedes(queue, x, y) => Precedes(queue', x, y)
           /\ InQueue' \cap pushed \subseteq InQueue ]_vars
  BY OrderStepKept DEF OrderStep
<1>4. QueueInv <=> TypeOK /\ QueueSound
  BY DEF QueueInv
<1> QED  BY <1>1, <1>2, <1>3, <1>4, TypeCorrect, PTL DEF Spec, OrderKept

-----------------------------------------------------------------------------
(* The queue implements its contract.                                      *)

\* While the contract is in force, the status of an item is told by whether it
\* was pushed and what the delivery log says of it.
StatusByLog ==
    \A x \in Items :
        /\ log[x] \in {{}, {"success"}, {"gave_up"}}
        /\ x \notin pushed => log[x] = {} /\ Status(x) = "new"
        /\ x \in pushed /\ log[x] = {} => Status(x) = "queued"
        /\ log[x] = {"success"} => Status(x) = "success"
        /\ log[x] = {"gave_up"} => Status(x) = "gave_up"

LEMMA StatusProperties == IndInv /\ Regular => StatusByLog
<1> SUFFICES ASSUME IndInv, Regular, NEW x \in Items
             PROVE  /\ log[x] \in {{}, {"success"}, {"gave_up"}}
                    /\ x \notin pushed => log[x] = {} /\ Status(x) = "new"
                    /\ x \in pushed /\ log[x] = {} => Status(x) = "queued"
                    /\ log[x] = {"success"} => Status(x) = "success"
                    /\ log[x] = {"gave_up"} => Status(x) = "gave_up"
  BY DEF StatusByLog
<1>1. log[x] \in {{}, {"success"}, {"gave_up"}}
  <2>1. log[x] \in SUBSET Outcome /\ log[x] # Outcome
    BY DEF IndInv, TypeOK, AccountSound
  <2> QED  BY <2>1 DEF Outcome
<1>2. /\ x \notin pushed => log[x] = {} /\ x \notin InQueue
      /\ x \in pushed => (x \in InQueue <=> log[x] = {})
  BY DEF IndInv, AccountSound, QueueSound
<1>3. CASE x \notin pushed
  BY <1>2, <1>3 DEF Status
<1>4. CASE x \in pushed /\ log[x] = {}
  BY <1>2, <1>4 DEF Status
<1>5. CASE x \in pushed /\ log[x] = {"success"}
  BY <1>2, <1>5 DEF Status
<1>6. CASE x \in pushed /\ log[x] = {"gave_up"}
  <2>1. x \notin InQueue /\ "success" \notin log[x] /\ "gave_up" \in log[x]
    BY <1>2, <1>6
  <2> QED  BY <1>6, <2>1 DEF Status
<1> QED  BY <1>1, <1>2, <1>3, <1>4, <1>5, <1>6

\* What ended once does not come back.
LEMMA RegularEnds == TypeOK /\ [Next]_vars /\ Regular' => Regular
BY DEF Regular, Next, vars, Fire, PushTest, BackoffElapses, StartWorker, Step,
       Delivered, Retry, GiveUp, TypeOK

\* The item of a suspended run is queued and has no outcome.
LEMMA InHand ==
    ASSUME IndInv, Regular, NEW w \in Workers, worker[w].pc = "awaiting"
    PROVE  worker[w].item \in Items \cap pushed /\ log[worker[w].item] = {}
<1>1. worker[w].item \in Items
  BY AwaitingType DEF IndInv, TypeOK
<1>2. worker[w].item \in InQueue
  BY DEF IndInv, PointerSound, InQueue, ToSet
<1> QED  BY <1>1, <1>2 DEF IndInv, QueueSound, AccountSound

\* Every step of the queue is a step of the contract, or leaves all it speaks
\* of as it is.
LEMMA ContractStep ==
    ASSUME IndInv, IndInv', [Next]_vars, StatusByLog, StatusByLog', Regular, Regular'
    PROVE  Contract!Promised \/ UNCHANGED <<[x \in Items |-> Status(x)], attempts>>
<1> USE DEF StatusByLog
<1>0. /\ TypeOK /\ MaxAttempts \in Nat \ {0}
      /\ \A x \in Items : attempts[x] \in Nat /\ attempts[x] <= MaxAttempts
      /\ \A x \in Items : attempts[x] = MaxAttempts <=> "gave_up" \in log[x]
  BY WebhookAssumption DEF IndInv, TypeOK, AccountSound
<1>1. ASSUME NEW S \in SUBSET Items, S # {}, S \cap pushed = {},
             pushed' = pushed \cup S, UNCHANGED <<log, attempts>>
      PROVE  Contract!Promised
  <2>1. \A x \in S : Status(x) = "new"
    BY <1>1
  <2>2. \A x \in Items : Status(x)' = IF x \in S THEN "queued" ELSE Status(x)
    BY <1>1
  <2>3. Contract!Post(S)
    BY <1>1, <2>1, <2>2 DEF Contract!Post
  <2> QED  BY <1>1, <2>3 DEF Contract!Promised
<1>2. ASSUME UNCHANGED <<pushed, log, attempts>>
      PROVE  UNCHANGED <<[x \in Items |-> Status(x)], attempts>>
  <2>1. \A x \in Items : Status(x)' = Status(x)
    BY <1>2
  <2> QED  BY <1>2, <2>1
<1>3. ASSUME NEW b \in NewBatches, Fire(b)
      PROVE  Contract!Promised
  <2>1. ToSet(b) \subseteq Items /\ ToSet(b) \cap pushed = {}
    BY BatchProperties
  <2>2. ToSet(b) # {}
    <3>1. PICK n \in 1..MaxHooks : b \in [1..n -> Items \ pushed]
      BY DEF NewBatches
    <3>2. 1 \in DOMAIN b
      BY <3>1, WebhookAssumption
    <3> QED  BY <3>2 DEF ToSet
  <2> QED  BY <1>1, <1>3, <2>1, <2>2 DEF Fire
<1>4. ASSUME NEW x \in Items, PushTest(x)
      PROVE  Contract!Promised
  <2>1. {x} \in SUBSET Items /\ {x} # {} /\ {x} \cap pushed = {}
    BY <1>4 DEF PushTest
  <2> QED  BY <1>1, <1>4, <2>1 DEF PushTest
<1>5. ASSUME NEW w \in Workers, Delivered(w)
      PROVE  Contract!Promised
  <2> DEFINE x == worker[w].item
  <2>1. x \in Items /\ x \in pushed /\ log[x] = {}
    BY <1>5, InHand DEF Delivered
  <2>2. /\ log' = [log EXCEPT ![x] = @ \cup {"success"}]
        /\ UNCHANGED <<pushed, attempts>>
    BY <1>5 DEF Delivered
  <2> HIDE DEF x
  <2>3. log'[x] = {"success"} /\ \A y \in Items \ {x} : log'[y] = log[y]
    BY <1>0, <2>1, <2>2 DEF TypeOK
  <2>4. Status(x) = "queued" /\ \A y \in Items : Status(y)' = IF y = x THEN "success" ELSE Status(y)
    BY <2>1, <2>2, <2>3
  <2>5. Contract!Succeed(x)
    BY <2>1, <2>2, <2>4 DEF Contract!Succeed
  <2> QED  BY <2>1, <2>5 DEF Contract!Promised
<1>6. ASSUME NEW w \in Workers, NEW late, NEW overdue, Retry(w, late, overdue)
      PROVE  Contract!Promised
  <2> DEFINE x == worker[w].item
  <2>1. x \in Items /\ x \in pushed /\ log[x] = {}
    BY <1>6, InHand DEF Retry
  <2>2. /\ attempts' = [attempts EXCEPT ![x] = @ + 1] /\ ~(attempts[x] + 1 >= MaxAttempts)
        /\ UNCHANGED <<pushed, log>>
    BY <1>6 DEF Retry, Exhausted
  <2> HIDE DEF x
  <2>3. attempts[x] + 1 < MaxAttempts
    BY <1>0, <2>1, <2>2
  <2>4. Status(x) = "queued" /\ \A y \in Items : Status(y)' = Status(y)
    BY <2>1, <2>2
  <2>5. Contract!Fail(x)
    BY <2>1, <2>2, <2>3, <2>4 DEF Contract!Fail
  <2> QED  BY <2>1, <2>5 DEF Contract!Promised
<1>7. ASSUME NEW w \in Workers, GiveUp(w)
      PROVE  Contract!Promised
  <2> DEFINE x == worker[w].item
  <2>1. x \in Items /\ x \in pushed /\ log[x] = {}
    BY <1>7, InHand DEF GiveUp
  <2>2. /\ attempts' = [attempts EXCEPT ![x] = @ + 1] /\ attempts[x] + 1 >= MaxAttempts
        /\ log' = [log EXCEPT ![x] = @ \cup {"gave_up"}]
        /\ pushed' = pushed
    BY <1>7 DEF GiveUp, Exhausted
  <2> HIDE DEF x
  <2>3. attempts[x] + 1 = MaxAttempts
    BY <1>0, <2>1, <2>2
  <2>4. log'[x] = {"gave_up"} /\ \A y \in Items \ {x} : log'[y] = log[y]
    BY <1>0, <2>1, <2>2 DEF TypeOK
  <2>5. Status(x) = "queued" /\ \A y \in Items : Status(y)' = IF y = x THEN "gave_up" ELSE Status(y)
    BY <2>1, <2>2, <2>4
  <2>6. Contract!Abandon(x)
    BY <2>1, <2>2, <2>3, <2>5 DEF Contract!Abandon
  <2> QED  BY <2>1, <2>6 DEF Contract!Promised
<1>8. ASSUME NEW x \in Items, BackoffElapses(x)
      PROVE  UNCHANGED <<[y \in Items |-> Status(y)], attempts>>
  BY <1>2, <1>8 DEF BackoffElapses
<1>9. ASSUME NEW w \in Workers, StartWorker(w)
      PROVE  UNCHANGED <<[x \in Items |-> Status(x)], attempts>>
  BY <1>2, <1>9 DEF StartWorker
<1>10. CASE UNCHANGED vars
  BY <1>2, <1>10 DEF vars
<1> QED  BY <1>3, <1>4, <1>5, <1>6, <1>7, <1>8, <1>9, <1>10 DEF Next, Step

\* The shared array, the index of the walk and the splice keep the contract of
\* every item: what WebhookContract allows is all that ever happens.
THEOREM ContractCorrect == Spec => ContractKept
<1>1. Init => Contract!Init
  <2> SUFFICES ASSUME Init PROVE Contract!Init
    OBVIOUS
  <2>1. Regular = TRUE
    BY DEF Init, Regular
  <2>2. \A x \in Items : Status(x) = "new"
    BY DEF Init, Status, InQueue, ToSet
  <2> QED  BY <2>1, <2>2 DEF Init, Contract!Init
<1>2. IndInv /\ IndInv' /\ [Next]_vars => [Contract!Next]_(Contract!vars)
  <2> SUFFICES ASSUME IndInv, IndInv', [Next]_vars
               PROVE  [Contract!Next]_(Contract!vars)
    OBVIOUS
  <2>1. CASE ~Regular'
    <3>1. Contract!Lapsed
      BY <2>1 DEF Contract!Lapsed
    <3> QED  BY <3>1 DEF Contract!Next
  <2>2. CASE Regular'
    <3>1. Regular
      BY <2>2, RegularEnds DEF IndInv
    <3>2. StatusByLog
      BY <3>1, StatusProperties
    <3>3. StatusByLog'
      <4>1. IndInv' /\ Regular' => StatusByLog'
        BY StatusProperties, PTL
      <4> QED  BY <2>2, <4>1
    <3>4. Contract!Promised \/ UNCHANGED <<[x \in Items |-> Status(x)], attempts>>
      BY <2>2, <3>1, <3>2, <3>3, ContractStep
    <3>5. Regular' = Regular
      BY <2>2, <3>1 DEF Regular
    <3> QED  BY <2>2, <3>1, <3>4, <3>5 DEF Contract!Next, Contract!vars
  <2> QED  BY <2>1, <2>2
<1> QED  BY <1>1, <1>2, IndInvCorrect, PTL DEF Spec, ContractKept, Contract!Spec
=============================================================================
