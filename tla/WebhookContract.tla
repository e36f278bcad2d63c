--------------------------- MODULE WebhookContract --------------------------
(***************************************************************************)
(* What the webhook queue promises for each item, with no queue, index or  *)
(* clock in it: an item is sent until a receiver accepts it or MaxAttempts *)
(* attempts have failed, and which of the two happened is settled once.    *)
(* The promise is made for a worker that runs alone over a queue below its *)
(* cap; when that ends, so does the contract.                              *)
(***************************************************************************)
EXTENDS Integers

CONSTANTS Items, MaxAttempts

VARIABLES
    status,         \* how far each item is
    failures,       \* failed attempts of each item
    inForce         \* the contract still binds

vars == <<status, failures, inForce>>

Init ==
    /\ status = [x \in Items |-> "new"]
    /\ failures = [x \in Items |-> 0]
    /\ inForce = TRUE

\* One event is fired, for one or more hooks.
Post(S) ==
    /\ \A x \in S : status[x] = "new"
    /\ status' = [x \in Items |-> IF x \in S THEN "queued" ELSE status[x]]
    /\ UNCHANGED failures

Succeed(x) ==
    /\ status[x] = "queued"
    /\ status' = [status EXCEPT ![x] = "success"]
    /\ UNCHANGED failures

Fail(x) ==
    /\ status[x] = "queued"
    /\ failures[x] + 1 < MaxAttempts
    /\ failures' = [failures EXCEPT ![x] = @ + 1]
    /\ UNCHANGED status

Abandon(x) ==
    /\ status[x] = "queued"
    /\ failures[x] + 1 = MaxAttempts
    /\ failures' = [failures EXCEPT ![x] = @ + 1]
    /\ status' = [status EXCEPT ![x] = "gave_up"]

Promised ==
    \/ \E S \in (SUBSET Items) \ {{}} : Post(S)
    \/ \E x \in Items : Succeed(x) \/ Fail(x) \/ Abandon(x)

\* Whatever happens from the step on that ends the contract.
Lapsed == inForce' = FALSE

Next == (inForce /\ inForce' /\ Promised) \/ Lapsed

Spec == Init /\ [][Next]_vars
=============================================================================
