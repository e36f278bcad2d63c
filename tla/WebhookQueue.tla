---------------------------- MODULE WebhookQueue ----------------------------
(***************************************************************************)
(* The outbound webhook queue of the cloud (server.js).                     *)
(*                                                                         *)
(* fireWebhooks and fireCustomerWebhook push one item per enabled hook and *)
(* then cap the queue; POST /api/customer/webhooks/test pushes an item     *)
(* without the cap.  Every five seconds a timer starts processWebhookQueue, *)
(* which walks the shared array by index and AWAITS one HTTP request per    *)
(* item that is due.  Nothing stops the timer from starting a second walk   *)
(* while the first is suspended: a walk is a member of Workers, and the     *)
(* moment of its await is the only place where other code runs.             *)
(*                                                                         *)
(* Time is abstracted to the set of items that are due: next_at <= now.     *)
(***************************************************************************)
EXTENDS Integers, SequencesExt

CONSTANTS
    Items,          \* every queue item that may ever be pushed
    Workers,        \* runs of processWebhookQueue that may be suspended together
    QueueMax,       \* the length above which a push trims the queue (500)
    QueueKeep,      \* how many of the newest items a trim keeps (300)
    MaxAttempts,    \* WEBHOOK_BACKOFF.length (5)
    MaxHooks        \* the most hooks one event is pushed for: a bound

ASSUME WebhookAssumption ==
    /\ QueueMax \in Nat
    /\ QueueKeep \in 1..QueueMax
    /\ MaxAttempts \in Nat \ {0}
    /\ MaxHooks \in Nat \ {0}

VARIABLES
    queue,          \* state.webhook_queue, by item
    attempts,       \* item.attempts
    due,            \* the items whose next_at has been reached
    worker,         \* each run: suspended or not, its index i, its item,
                    \* and the items with next_at <= the now it captured
    log,            \* state.webhook_deliveries: outcomes recorded per item
    pushed,         \* history: the items ever pushed
    capped,         \* history: the items a trim removed
    overlapped      \* history: two runs have been suspended together

vars == <<queue, attempts, due, worker, log, pushed, capped, overlapped>>

Outcome == {"success", "gave_up"}
Idle == [pc |-> "idle"]
Awaiting(i, x, ready) == [pc |-> "awaiting", i |-> i, item |-> x, ready |-> ready]

WorkerState ==
    {Idle} \cup [pc: {"awaiting"}, i: Nat \ {0}, item: Items, ready: SUBSET Items]

TypeOK ==
    /\ queue \in Seq(Items)
    /\ attempts \in [Items -> Nat]
    /\ due \in SUBSET Items
    /\ worker \in [Workers -> WorkerState]
    /\ log \in [Items -> SUBSET Outcome]
    /\ pushed \in SUBSET Items
    /\ capped \in SUBSET Items
    /\ overlapped \in BOOLEAN

InQueue == ToSet(queue)

Init ==
    /\ queue = <<>>
    /\ attempts = [x \in Items |-> 0]
    /\ due = {}
    /\ worker = [w \in Workers |-> Idle]
    /\ log = [x \in Items |-> {}]
    /\ pushed = {}
    /\ capped = {}
    /\ overlapped = FALSE

-----------------------------------------------------------------------------
(* Producers.                                                              *)

\* One new item per enabled hook, in the order of the hooks.
NewBatches ==
    {b \in UNION {[1..n -> Items \ pushed] : n \in 1..MaxHooks} : IsInjective(b)}

\* The cap at the end of a push: slice(-QueueKeep) of a queue that is too long.
Capped(q) ==
    IF Len(q) > QueueMax THEN SubSeq(q, Len(q) - QueueKeep + 1, Len(q)) ELSE q

Cut(q) == {q[j] : j \in 1..(Len(q) - Len(Capped(q)))}

Fire(b) ==
    /\ queue' = Capped(queue \o b)
    /\ capped' = capped \cup Cut(queue \o b)
    /\ pushed' = pushed \cup ToSet(b)
    /\ due' = due \cup ToSet(b)
    /\ UNCHANGED <<attempts, worker, log, overlapped>>

\* The customer's "send a test" button pushes past the cap.
PushTest(x) ==
    /\ x \in Items \ pushed
    /\ queue' = Append(queue, x)
    /\ pushed' = pushed \cup {x}
    /\ due' = due \cup {x}
    /\ UNCHANGED <<attempts, worker, log, capped, overlapped>>

\* Time passes until next_at of a waiting item.
BackoffElapses(x) ==
    /\ x \in InQueue \ due
    /\ due' = due \cup {x}
    /\ UNCHANGED <<queue, attempts, worker, log, pushed, capped, overlapped>>

-----------------------------------------------------------------------------
(* The worker.  Everything between two awaits is one step.                 *)

\* Where the walk is when it goes on at index from: it suspends in deliverOne
\* at the first item that was due when it started, or it is over.
Candidates_SkipLast(q, from, ready) ==
    {j \in DOMAIN q : j >= from /\ j < Len(q) /\ q[j] \in ready}

Candidates(q, from, ready) == {j \in DOMAIN q : j >= from /\ q[j] \in ready}

Walk(q, from, ready) ==
    LET c == Candidates(q, from, ready)
    IN  {Awaiting(j, q[j], ready) : j \in {k \in c : \A l \in c : k <= l}}
          \cup {s \in {Idle} : c = {}}

OneAtATime ==
    \A v, w \in Workers :
        worker[v].pc = "awaiting" /\ worker[w].pc = "awaiting" => v = w

StartWorker(w) ==
    /\ worker[w] = Idle
    /\ InQueue \cap due # {}
    /\ \E s \in Walk(queue, 1, InQueue \cap due) : worker' = [worker EXCEPT ![w] = s]
    /\ overlapped' = (overlapped \/ ~OneAtATime')
    /\ UNCHANGED <<queue, attempts, due, log, pushed, capped>>

\* splice(i, 1): what stands at index i now, which need not be the item that
\* was delivered; past the end it removes nothing.
Splice_OffByOne(q, i) ==
    IF i + 1 \in DOMAIN q THEN RemoveAt(q, i + 1) ELSE q
Splice_FillFromEnd(q, i) ==
    IF i \in DOMAIN q THEN Front([q EXCEPT ![i] = Last(q)]) ELSE q

Splice(q, i) == IF i \in DOMAIN q THEN RemoveAt(q, i) ELSE q

\* deliverOne answered 2xx.
Delivered(w) ==
    /\ worker[w].pc = "awaiting"
    /\ LET i == worker[w].i
           x == worker[w].item
       IN  /\ log' = [log EXCEPT ![x] = @ \cup {"success"}]
           /\ queue' = Splice(queue, i)
           /\ \E s \in Walk(queue', i, worker[w].ready) :
                worker' = [worker EXCEPT ![w] = s]
    /\ UNCHANGED <<attempts, due, pushed, capped, overlapped>>

\* The new next_at of item x is now + WEBHOOK_BACKOFF[..], with the now that w
\* captured when it started.  It lies in the future of w; it may lie in the
\* past of the present moment (overdue), and of the runs in late, which
\* started at least one backoff after w.
Reschedule(w, x, late) ==
    [v \in Workers |->
        IF worker[v] = Idle THEN worker[v]
        ELSE IF v \in late THEN [worker[v] EXCEPT !.ready = @ \cup {x}]
        ELSE [worker[v] EXCEPT !.ready = @ \ {x}]]

\* attempts++ brings the item to the end of WEBHOOK_BACKOFF.
Exhausted_OneMore(x) == attempts[x] + 1 > MaxAttempts

Exhausted(x) == attempts[x] + 1 >= MaxAttempts

\* deliverOne failed (no 2xx, error, timeout, schema violation), retries left.
Retry(w, late, overdue) ==
    /\ worker[w].pc = "awaiting"
    /\ late # {} => overdue
    /\ LET i == worker[w].i
           x == worker[w].item
       IN  /\ ~Exhausted(x)
           /\ attempts' = [attempts EXCEPT ![x] = @ + 1]
           /\ due' = IF overdue THEN due ELSE due \ {x}
           /\ \E s \in Walk(queue, i + 1, worker[w].ready \ {x}) :
                worker' = [Reschedule(w, x, late) EXCEPT ![w] = s]
    /\ UNCHANGED <<queue, log, pushed, capped, overlapped>>

\* deliverOne failed for the last time.
GiveUp(w) ==
    /\ worker[w].pc = "awaiting"
    /\ LET i == worker[w].i
           x == worker[w].item
       IN  /\ Exhausted(x)
           /\ attempts' = [attempts EXCEPT ![x] = @ + 1]
           /\ log' = [log EXCEPT ![x] = @ \cup {"gave_up"}]
           /\ queue' = Splice(queue, i)
           /\ \E s \in Walk(queue', i, worker[w].ready) :
                worker' = [worker EXCEPT ![w] = s]
    /\ UNCHANGED <<due, pushed, capped, overlapped>>

Step(w) ==
    \/ Delivered(w)
    \/ \E late \in SUBSET (Workers \ {w}), overdue \in BOOLEAN :
        Retry(w, late, overdue)
    \/ GiveUp(w)

Next ==
    \/ \E b \in NewBatches : Fire(b)
    \/ \E x \in Items : PushTest(x)
    \/ \E x \in Items : BackoffElapses(x)
    \/ \E w \in Workers : StartWorker(w)
    \/ \E w \in Workers : Step(w)

\* The timer fires for ever, deliverOne answers (its request has an eight
\* second timeout) and time passes.
Fairness ==
    /\ \A x \in Items : WF_vars(BackoffElapses(x))
    /\ \A w \in Workers : WF_vars(StartWorker(w)) /\ WF_vars(Step(w))

Spec == Init /\ [][Next]_vars
FairSpec == Spec /\ Fairness
-----------------------------------------------------------------------------
(* Properties.                                                             *)

\* What the worker was written for: one run at a time, over an array that
\* nothing cuts under it.
Regular == capped = {} /\ ~overlapped

\* Until then, an item that was pushed is still queued or has an outcome in the
\* delivery log: processWebhookQueue never drops one in silence, whatever is
\* pushed while it awaits.  Beyond, a second
\* splice of overlapping runs removes an item that was never delivered.
NoSilentLoss ==
    Regular => \A x \in pushed : x \in InQueue \/ log[x] # {}

\* An outcome is final: an item with one is off the queue (it is not sent
\* again), it has no second outcome, and gave_up means exactly MaxAttempts
\* failures.
OutcomeFinal ==
    Regular =>
        \A x \in Items :
            /\ log[x] # {} => x \notin InQueue /\ Cardinality(log[x]) = 1
            /\ "gave_up" \in log[x] <=> attempts[x] = MaxAttempts

\* The strengthening that makes the two above inductive: the index of the
\* suspended run still points at the item whose delivery it awaits.
QueueSound ==
    /\ IsInjective(queue)
    /\ InQueue \subseteq pushed

PointerSound ==
    \A w \in Workers :
        worker[w].pc = "awaiting" =>
            worker[w].i \in DOMAIN queue /\ queue[worker[w].i] = worker[w].item

AccountSound ==
    \A x \in Items :
        /\ x \notin pushed => log[x] = {} /\ attempts[x] = 0
        /\ x \in pushed => (x \in InQueue <=> log[x] = {})
        /\ attempts[x] <= MaxAttempts
        /\ "gave_up" \in log[x] <=> attempts[x] = MaxAttempts
        /\ log[x] # Outcome

IndInv ==
    /\ TypeOK
    /\ Regular => OneAtATime /\ QueueSound /\ PointerSound /\ AccountSound

\* Whatever runs overlap and whatever the cap cuts, deliveries are taken in
\* the order of the pushes: no step reorders two items that stay queued, and
\* an item that left the queue never comes back.
Precedes(q, x, y) == \E j, k \in DOMAIN q : j < k /\ q[j] = x /\ q[k] = y

OrderKept ==
    [][ /\ \A x, y \in InQueue \cap InQueue' :
              Precedes(queue, x, y) => Precedes(queue', x, y)
        /\ InQueue' \cap pushed \subseteq InQueue ]_vars

\* Every item that is pushed gets an outcome, however its deliveries go, unless
\* the cap cuts or two runs overlap.
EventuallySettled ==
    \A x \in Items : x \in pushed ~> (log[x] # {} \/ ~Regular)

-----------------------------------------------------------------------------
(* Implementation of the contract.                                         *)

\* An item that is neither queued nor has an outcome is lost, a status the
\* contract does not know.
Status(x) ==
    CASE x \in InQueue -> "queued"
      [] x \notin pushed -> "new"
      [] "success" \in log[x] -> "success"
      [] "gave_up" \in log[x] -> "gave_up"
      [] OTHER -> "lost"

Contract == INSTANCE WebhookContract WITH
    status <- [x \in Items |-> Status(x)],
    failures <- attempts,
    inForce <- Regular

\* The array, the index and the splice keep the contract of each item: at most
\* MaxAttempts attempts, one outcome, no loss.
ContractKept == Contract!Spec
=============================================================================
