--------------------------- MODULE AccountLifecycle ---------------------------
(***************************************************************************)
(* The life of a customer's account and its bills (server.js): sign-up and *)
(* approval, the trial, plans and requests to change them, the pause of a  *)
(* subscription, deletion after a period of grace, invoices, promotion     *)
(* codes and reminders.                                                    *)
(*                                                                         *)
(* Customers and staff make calls; four timers (trials, resumption,        *)
(* deletions, reminders) work through all accounts, at any moment and as   *)
(* often as they like.  Dates are kept as the days that are left: Day      *)
(* passes one, and a date that has come stays at 0.                        *)
(*                                                                         *)
(* Sessions are in CustomerSessions and the boxes of an account in         *)
(* BoxPairing.  Credits for referrals and mails are left out: nothing here *)
(* reads them.                                                             *)
(***************************************************************************)
EXTENDS Integers, Sequences, FiniteSets, SequencesExt

CONSTANTS
    Accounts,
    TopPlan,            \* plans are 1 .. TopPlan, from basic to business
    PlanRequests,       \* ids of requests to change the plan
    Invoices, Periods,
    MaxUses,            \* of the promotion code
    TrialDays, PauseDays, GraceDays, CapDays, DueDays,
    Nobody, Erased,     \* no account, request or invoice yet; a deleted account
    MaxCalls            \* calls of customers and staff: a bound

ASSUME LifecycleAssumption ==
    /\ TopPlan \in Nat \ {0}
    /\ MaxUses \in Nat
    /\ {TrialDays, PauseDays, GraceDays, CapDays, DueDays} \subseteq Nat \ {0}
    /\ MaxCalls \in Nat
    /\ Nobody \notin Accounts /\ Nobody # Erased
    /\ IsFiniteSet(Accounts)

VARIABLES
    account,        \* state.customers
    planRequest,    \* state.plan_requests
    history,        \* state.subscription_history
    invoice,        \* state.invoices
    promoUses,      \* state.promo_codes[...].uses
    calls,          \* calls so far
    asked           \* history: days since the deletion was asked for

lifeVars == <<account, planRequest, history, invoice, promoUses, calls, asked>>

Plans == 1 .. TopPlan
Off == -1           \* no date is set
Left(n) == {Off} \cup (0 .. n)

Customer == [status: {"pending", "active", "suspended", "paused"},
             paused: BOOLEAN, resumes: Left(PauseDays),
             trial: {"none", "active", "converted"}, trialLeft: Left(2 * TrialDays),
             deletes: Left(GraceDays), plan: Plans,
             graceLeft: Left(CapDays), graceFrom: Plans, promo: BOOLEAN]
Reminders == <<"7d", "3d", "1d", "overdue">>
Bill == [customer: Accounts, period: Periods, plan: Plans, paid: BOOLEAN, discount: BOOLEAN,
         due: -1 .. DueDays, sent: Seq(ToSet(Reminders))]

PlanRequest == [customer: Accounts, plan: Plans,
            status: {"pending", "superseded", "approved", "declined"}]

ASSUME NobodyIsNothing ==
    /\ Nobody \notin Customer /\ Nobody \notin Bill /\ Nobody \notin PlanRequest
    /\ Erased \notin Customer

There(c) == account[c] \notin {Nobody, Erased}

LifeTypeOK ==
    /\ \A c \in Accounts : account[c] \in Customer \/ ~There(c)
    /\ \A r \in PlanRequests : planRequest[r] = Nobody \/ planRequest[r] \in PlanRequest
    /\ \A c \in Accounts : history[c] \in Seq(Plans \X Plans)
    /\ \A i \in Invoices : invoice[i] = Nobody \/ invoice[i] \in Bill
    /\ promoUses \in Nat
    /\ asked \in [Accounts -> Left(GraceDays)]

Opened(st, tr, p) ==
    [status |-> st, paused |-> FALSE, resumes |-> Off,
     trial |-> IF tr THEN "active" ELSE "none", trialLeft |-> IF tr THEN TrialDays ELSE Off,
     deletes |-> Off, plan |-> p, graceLeft |-> Off, graceFrom |-> 1, promo |-> FALSE]

LifeInit ==
    /\ account = [c \in Accounts |-> Nobody]
    /\ planRequest = [r \in PlanRequests |-> Nobody]
    /\ history = [c \in Accounts |-> <<>>]
    /\ invoice = [i \in Invoices |-> Nobody]
    /\ promoUses = 0
    /\ calls = 0
    /\ asked = [c \in Accounts |-> Off]

Call == calls < MaxCalls /\ calls' = calls + 1

billVars == <<invoice, promoUses>>
planVars == <<planRequest, history>>

-----------------------------------------------------------------------------
(* The account and its status.                                             *)

\* /api/customer/signup (with a trial unless trial_days_default is 0; pending
\* unless auto_approve_signups), customers/create and customers/invite.
Signup ==
    /\ Call
    /\ \E c \in Accounts, st \in {"pending", "active"}, tr \in BOOLEAN, p \in Plans :
          /\ account[c] = Nobody
          /\ account' = [account EXCEPT ![c] = Opened(st, tr, p)]
    /\ UNCHANGED <<planVars, billVars, asked>>

\* /admin/api/customers/set-status of one account, and approve, suspend and
\* reactivate of /admin/api/customers/bulk: a pause under way stays.
SetStatus ==
    /\ Call
    /\ \E cs \in SUBSET Accounts \ {{}}, st \in {"pending", "active", "suspended"} :
          /\ \A c \in cs : There(c)
          /\ st = "pending" => Cardinality(cs) = 1
          /\ account' = [c \in Accounts |-> IF c \in cs THEN [account[c] EXCEPT !.status = st]
                                            ELSE account[c]]
    /\ UNCHANGED <<planVars, billVars, asked>>

Resumed(a) == [a EXCEPT !.paused = FALSE, !.resumes = Off, !.status = "active"]

SubscriptionPause ==
    /\ Call
    /\ \E c \in Accounts, n \in 1 .. PauseDays :
          /\ There(c)
          /\ ~account[c].paused
          /\ account' = [account EXCEPT ![c].paused = TRUE, ![c].resumes = n,
                                        ![c].status = "paused"]
    /\ UNCHANGED <<planVars, billVars, asked>>

SubscriptionResume ==
    /\ Call
    /\ \E c \in Accounts :
          /\ There(c)
          /\ account[c].paused
          /\ account' = [account EXCEPT ![c] = Resumed(@)]
    /\ UNCHANGED <<planVars, billVars, asked>>

ResumeDue(c) == There(c) /\ account[c].paused /\ account[c].resumes = 0
AutoResume ==
    /\ \E c \in Accounts : ResumeDue(c)
    /\ account' = [c \in Accounts |-> IF ResumeDue(c) THEN Resumed(account[c]) ELSE account[c]]
    /\ UNCHANGED <<planVars, billVars, calls, asked>>

-----------------------------------------------------------------------------
(* The trial.                                                              *)

\* extend-trial counts from the end of the trial, or from today.
ExtendTrial ==
    /\ Call
    /\ \E c \in Accounts, n \in 1 .. TrialDays :
          /\ There(c)
          /\ account[c].trial # "converted"
          /\ LET base == IF account[c].trialLeft > 0 THEN account[c].trialLeft ELSE 0 IN
             /\ base + n \leq 2 * TrialDays
             /\ account' = [account EXCEPT ![c].trial = "active", ![c].trialLeft = base + n]
    /\ UNCHANGED <<planVars, billVars, asked>>

TrialOver(c) == There(c) /\ account[c].trial = "active" /\ account[c].trialLeft = 0
TrialJob ==
    /\ \E c \in Accounts : TrialOver(c)
    /\ account' = [c \in Accounts |->
          IF TrialOver(c) THEN [account[c] EXCEPT !.trial = "converted"] ELSE account[c]]
    /\ UNCHANGED <<planVars, billVars, calls, asked>>

-----------------------------------------------------------------------------
(* Plans.                                                                  *)

\* recordPlanChange, then the plan: a downgrade starts a time of grace and any
\* other change ends it.
Moved(a, p) ==
    [a EXCEPT !.plan = p,
              !.graceLeft = IF p < a.plan THEN CapDays ELSE Off,
              !.graceFrom = IF p < a.plan THEN a.plan ELSE 1]

\* The accounts in cs move to plan p; those that have it already do not change.
Movers(cs, p) == {c \in cs : There(c) /\ account[c].plan # p}
MovePlan(cs, p) ==
    account' = [c \in Accounts |-> IF c \in Movers(cs, p) THEN Moved(account[c], p)
                                   ELSE account[c]]
Logged(cs, p) ==
    history' = [c \in Accounts |->
        IF c \in Movers(cs, p) THEN Append(history[c], <<account[c].plan, p>>)
        ELSE history[c]]

\* customers/update and bulk-migrate-plan, which names accounts or takes all
\* that have a plan.
AdminMovesPlan ==
    /\ Call
    /\ \E p \in Plans, cs \in {{c} : c \in Accounts}
                            \cup {{c \in Accounts : There(c) /\ account[c].plan = q} : q \in Plans} :
          MovePlan(cs, p) /\ Logged(cs, p)
    /\ UNCHANGED <<planRequest, billVars, asked>>

Superseded(c) == {r \in PlanRequests : /\ planRequest[r] # Nobody
                                       /\ planRequest[r].customer = c
                                       /\ planRequest[r].status = "pending"}

RequestPlan ==
    /\ Call
    /\ \E c \in Accounts, p \in Plans, r \in PlanRequests :
          /\ There(c)
          /\ p # account[c].plan
          /\ planRequest[r] = Nobody
          /\ planRequest' = [q \in PlanRequests |->
                IF q = r THEN [customer |-> c, plan |-> p, status |-> "pending"]
                ELSE IF q \in Superseded(c) THEN [planRequest[q] EXCEPT !.status = "superseded"]
                ELSE planRequest[q]]
    /\ UNCHANGED <<account, history, billVars, asked>>

\* plan-requests/decide takes any request, decided before or not.
Approve ==
    /\ Call
    /\ \E r \in PlanRequests :
          /\ planRequest[r] # Nobody
          /\ planRequest' = [planRequest EXCEPT ![r].status = "approved"]
          /\ MovePlan({planRequest[r].customer}, planRequest[r].plan)
          /\ Logged({planRequest[r].customer}, planRequest[r].plan)
    /\ UNCHANGED <<billVars, asked>>

Decline ==
    /\ Call
    /\ \E r \in PlanRequests :
          /\ planRequest[r] # Nobody
          /\ planRequest' = [planRequest EXCEPT ![r].status = "declined"]
    /\ UNCHANGED <<account, history, billVars, asked>>

\* planDeviceCap: the cap of a plan grows with it, so the plan stands for it.
DeviceCap(c) ==
    IF account[c].graceLeft > 0 /\ account[c].graceFrom > account[c].plan
    THEN account[c].graceFrom ELSE account[c].plan

-----------------------------------------------------------------------------
(* Deletion.                                                               *)

ScheduleDeletion ==
    /\ Call
    /\ \E c \in Accounts :
          /\ There(c)
          /\ account[c].deletes = Off
          /\ account' = [account EXCEPT ![c].deletes = GraceDays]
          /\ asked' = [asked EXCEPT ![c] = 0]
    /\ UNCHANGED <<planVars, billVars>>

CancelDeletion ==
    /\ Call
    /\ \E c \in Accounts :
          /\ There(c)
          /\ account[c].deletes # Off
          /\ account' = [account EXCEPT ![c].deletes = Off]
          /\ asked' = [asked EXCEPT ![c] = Off]
    /\ UNCHANGED <<planVars, billVars>>

\* finalizeAccountDeletion: the history goes with the account, its requests and
\* its invoices stay.
Finalize(cs) ==
    /\ account' = [c \in Accounts |-> IF c \in cs THEN Erased ELSE account[c]]
    /\ history' = [c \in Accounts |-> IF c \in cs THEN <<>> ELSE history[c]]
    /\ asked' = [c \in Accounts |-> IF c \in cs THEN Off ELSE asked[c]]

DeletionDue_Scheduled(c) == There(c) /\ account[c].deletes # Off
DeletionDue(c) == There(c) /\ account[c].deletes = 0
ScheduledDeletions ==
    /\ \E c \in Accounts : DeletionDue(c)
    /\ Finalize({c \in Accounts : DeletionDue(c)})
    /\ UNCHANGED <<planRequest, billVars, calls>>

DeleteNow ==
    /\ Call
    /\ \E c \in Accounts : There(c) /\ Finalize({c})
    /\ UNCHANGED <<planRequest, billVars>>

\* customers/delete and the delete of customers/bulk leave the history behind.
AdminDelete ==
    /\ Call
    /\ \E cs \in SUBSET Accounts \ {{}} :
          /\ \A c \in cs : There(c)
          /\ account' = [c \in Accounts |-> IF c \in cs THEN Erased ELSE account[c]]
          /\ asked' = [c \in Accounts |-> IF c \in cs THEN Off ELSE asked[c]]
    /\ UNCHANGED <<planVars, billVars>>

-----------------------------------------------------------------------------
(* Bills.                                                                  *)

ApplyPromo ==
    /\ Call
    /\ promoUses < MaxUses
    /\ \E c \in Accounts : There(c) /\ account' = [account EXCEPT ![c].promo = TRUE]
    /\ UNCHANGED <<planVars, billVars, asked>>

InvoicesOf(c, p) == {i \in Invoices : /\ invoice[i] # Nobody
                                      /\ invoice[i].customer = c
                                      /\ invoice[i].period = p}
Active(c) == There(c) /\ account[c].status = "active"
ToBill_Paid(p) == {c \in Accounts : Active(c) /\ \A i \in InvoicesOf(c, p) : invoice[i].paid}
\* An account that has an invoice for the period keeps it.
ToBill(p) == {c \in Accounts : Active(c) /\ InvoicesOf(c, p) = {}}

\* applyPromoCode: the code counts while it has uses left; the accounts in ds get
\* their discount.
UsesLeft(cs, ds) ==
    /\ ds \subseteq {c \in cs : account[c].promo}
    /\ promoUses + Cardinality(ds) \leq MaxUses
    /\ ds # {c \in cs : account[c].promo} => promoUses + Cardinality(ds) = MaxUses

\* generate-month: genMonthlyInvoice for every active account.  Nothing in it
\* asks for a trial.
GenerateMonth ==
    /\ Call
    /\ \E p \in Periods : \E ds \in SUBSET ToBill(p), of \in [ToBill(p) -> Invoices] :
          /\ UsesLeft(ToBill(p), ds)
          /\ IsInjective(of)
          /\ \A c \in ToBill(p) : invoice[of[c]] = Nobody
          /\ invoice' = [i \in Invoices |->
                IF \E c \in ToBill(p) : of[c] = i
                THEN LET c == CHOOSE c \in ToBill(p) : of[c] = i IN
                     [customer |-> c, period |-> p, plan |-> account[c].plan, paid |-> FALSE,
                      discount |-> c \in ds, due |-> DueDays, sent |-> <<>>]
                ELSE invoice[i]]
          /\ promoUses' = promoUses + Cardinality(ds)
    /\ UNCHANGED <<account, planVars, asked>>

MarkInvoice ==
    /\ Call
    /\ \E i \in Invoices, b \in BOOLEAN :
          /\ invoice[i] # Nobody
          /\ invoice' = [invoice EXCEPT ![i].paid = b]
    /\ UNCHANGED <<account, planVars, promoUses, asked>>

\* The reminder that fits the days left; the days of the code are 7, 3, 1.
Fitting(b) ==
    IF b.due = -1 THEN "overdue" ELSE IF b.due = 1 THEN "1d"
    ELSE IF b.due = 2 THEN "3d" ELSE IF b.due = 3 THEN "7d" ELSE "none"
Reminds(i) == /\ invoice[i] # Nobody
              /\ ~invoice[i].paid
              /\ Fitting(invoice[i]) \notin {"none"} \cup ToSet(invoice[i].sent)
BillingReminders ==
    /\ \E i \in Invoices : Reminds(i)
    /\ invoice' = [i \in Invoices |->
          IF Reminds(i) THEN [invoice[i] EXCEPT !.sent = Append(@, Fitting(invoice[i]))]
          ELSE invoice[i]]
    /\ UNCHANGED <<account, planVars, promoUses, calls, asked>>

-----------------------------------------------------------------------------
Less(n) == IF n > 0 THEN n - 1 ELSE n

Day ==
    /\ account' = [c \in Accounts |-> IF ~There(c) THEN account[c] ELSE
          [account[c] EXCEPT !.resumes = Less(@), !.trialLeft = Less(@), !.deletes = Less(@),
                             !.graceLeft = Less(@)]]
    /\ invoice' = [i \in Invoices |-> IF invoice[i] = Nobody THEN Nobody ELSE
          [invoice[i] EXCEPT !.due = IF @ = -1 THEN -1 ELSE @ - 1]]
    /\ asked' = [c \in Accounts |-> IF asked[c] \in {Off, GraceDays} THEN asked[c]
                                    ELSE asked[c] + 1]
    /\ UNCHANGED <<planVars, promoUses, calls>>
    /\ lifeVars' # lifeVars

LifeNext ==
    \/ Signup \/ SetStatus \/ SubscriptionPause \/ SubscriptionResume \/ AutoResume
    \/ ExtendTrial \/ TrialJob
    \/ AdminMovesPlan \/ RequestPlan \/ Approve \/ Decline
    \/ ScheduleDeletion \/ CancelDeletion \/ ScheduledDeletions \/ DeleteNow \/ AdminDelete
    \/ ApplyPromo \/ GenerateMonth \/ MarkInvoice \/ BillingReminders
    \/ Day

-----------------------------------------------------------------------------
(* Properties.                                                             *)

\* The timer removes an account only when GraceDays have passed since its owner
\* asked, and has not taken it back since.
DeletionGrace ==
    [][ScheduledDeletions =>
         \A c \in Accounts : There(c) /\ ~There(c)' => asked[c] = GraceDays]_lifeVars

\* The log of plan changes accounts for the plan of every account, whoever
\* changed it and through which of the handlers; a downgrade leaves the device cap
\* of the plan before it until the time of grace is over; and one request of a
\* customer at most waits for a decision.
PlanAccounted ==
    /\ \A c \in Accounts : There(c) =>
          /\ history[c] # <<>> => Last(history[c])[2] = account[c].plan
          /\ \A k \in 1 .. Len(history[c]) - 1 : history[c][k][2] = history[c][k + 1][1]
          /\ account[c].graceLeft > 0 => DeviceCap(c) = Last(history[c])[1]
    /\ \A c \in Accounts : Cardinality(Superseded(c)) <= 1

Rank(r) == CHOOSE k \in DOMAIN Reminders : Reminders[k] = r
InOrderOnce(s) == \A j, k \in DOMAIN s : j < k => Rank(s[j]) < Rank(s[k])

Discounted == {i \in Invoices : invoice[i] # Nobody /\ invoice[i].discount}

\* An account is billed once for a period however often bills are made, the
\* code is used as often as it gave a discount and never more than it may be,
\* and the reminders of a bill come once each and in their order.
BillingSound ==
    /\ \A c \in Accounts, p \in Periods : Cardinality(InvoicesOf(c, p)) <= 1
    /\ promoUses = Cardinality(Discounted)
    /\ promoUses <= MaxUses
    /\ \A i \in Invoices : invoice[i] # Nobody => InOrderOnce(invoice[i].sent)

\* A paused subscription resumes, a trial ends and an account whose deletion was
\* asked for is deleted, unless a call changes that before.
DatesCome ==
    \A c \in Accounts :
        /\ (There(c) /\ account[c].paused) ~> ~(There(c) /\ account[c].paused)
        /\ (There(c) /\ account[c].trial = "active")
              ~> ~(There(c) /\ account[c].trial = "active")
        /\ (There(c) /\ account[c].deletes # Off) ~> ~(There(c) /\ account[c].deletes # Off)

-----------------------------------------------------------------------------
(* What makes them inductive.                                              *)

\* Whoever has no account yet has no history, and the time of grace began with the
\* last change of the plan.
HistoryOK(a, h) ==
    /\ a = Nobody => h = <<>>
    /\ a \notin {Nobody, Erased} =>
          /\ h # <<>> => Last(h)[2] = a.plan
          /\ \A k \in 1 .. Len(h) - 1 : h[k][2] = h[k + 1][1]
          /\ a.graceLeft > 0 => h # <<>> /\ a.graceFrom = Last(h)[1] /\ a.graceFrom > a.plan
HistorySound == \A c \in Accounts : HistoryOK(account[c], history[c])

\* The days that have passed and those that are left make the time of grace.
AskedOK(a, n) ==
    IF a \notin {Nobody, Erased} /\ a.deletes # Off THEN n # Off /\ n + a.deletes = GraceDays
    ELSE n = Off
AskedSound == \A c \in Accounts : AskedOK(account[c], asked[c])

AccountsSound ==
    /\ account \in [Accounts -> Customer \cup {Nobody, Erased}]
    /\ history \in [Accounts -> Seq(Plans \X Plans)]
    /\ asked \in [Accounts -> Left(GraceDays)]
    /\ HistorySound /\ AskedSound

RequestsSound ==
    /\ planRequest \in [PlanRequests -> PlanRequest \cup {Nobody}]
    /\ \A c \in Accounts : \A r, q \in Superseded(c) : r = q

BilledOnce == \A c \in Accounts, p \in Periods : \A i, j \in InvoicesOf(c, p) : i = j
CodeCounted ==
    IsFiniteSet(Discounted) /\ promoUses = Cardinality(Discounted) /\ promoUses <= MaxUses

\* The reminders that were sent are those of days that have passed, or of today.
DaysOf(r) == IF r = "overdue" THEN -1 ELSE IF r = "1d" THEN 1 ELSE IF r = "3d" THEN 2 ELSE 3
SentOK(b) == InOrderOnce(b.sent) /\ \A k \in DOMAIN b.sent : DaysOf(b.sent[k]) >= b.due
SentSound == \A i \in Invoices : invoice[i] # Nobody => SentOK(invoice[i])

BillsSound ==
    /\ invoice \in [Invoices -> Bill \cup {Nobody}] /\ promoUses \in Nat
    /\ BilledOnce /\ CodeCounted /\ SentSound

LifeInv == AccountsSound /\ RequestsSound /\ BillsSound
=============================================================================
