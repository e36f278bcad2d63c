----------------------------- MODULE FamilyTime -----------------------------
(* The minutes and the bytes a family gives each device: the time bank with   *)
(* its bonus and its rollover, the monthly quota, the box that reports the    *)
(* open connections of its conntrack table and drops the devices the policy   *)
(* names.  One household; the day and the month follow from one clock.        *)
EXTENDS Integers, FiniteSets, Household

CONSTANTS
    Allowances,     \* daily minutes, bonuses, rollover caps and quotas a parent may type
    DayLength,      \* minutes of a day
    MonthLength,    \* days of a month
    ReportEvery,    \* minutes between two reports of the agent (tick5min)
    MaxMinute,      \* bound on the clock
    MaxEdits,       \* bound on the parents' calls
    MaxBytes        \* bound on the bytes of a device

Entries ==
    [daily : Nat, period : Nat, used : Nat, bonus : Nat, rolled : Nat, rollover : BOOLEAN,
     cap : Nat \cup {None}, last : Int]

ASSUME TimeAssumption ==
    /\ {DayLength, ReportEvery, MonthLength} \subseteq Nat \ {0}
    /\ {MaxMinute, MaxEdits, MaxBytes} \subseteq Nat
    /\ Allowances \subseteq Nat
    /\ None \notin Nat /\ None \notin Entries /\ None # "minutes"

VARIABLES
    minute,         \* the clock
    time_bank,      \* gadget -> its entry
    quotas,         \* gadget -> monthly_gb
    usage_monthly,  \* gadget -> month -> bytes the cloud added up
    conntrack,      \* gadget -> bytes of its open connection, 0 when none is listed
    reported,       \* the agent's last tick has reported
    posted,         \* gadgets with a posted handshake in this minute
    posts,          \* flows the SNI parser posted and that have not arrived
    quota_set,      \* the box's set of dropped devices
    edits,          \* calls made
    heard,          \* history: gadget -> flows of this day the cloud saw since the entry
                    \* was made: how many, and of which minutes
    stoppedFor      \* history: why the last policy dropped a gadget
timeVars == <<minute, time_bank, quotas, usage_monthly, conntrack, reported, posted, posts,
              quota_set, edits, heard, stoppedFor>>

DateOf(m) == m \div DayLength
Today == DateOf(minute)
Month == Today \div MonthLength
OfToday(m) == IF DateOf(m) = Today THEN {m} ELSE {}
Months == 0 .. (MaxMinute \div (DayLength * MonthLength))
NotHeard == [count |-> 0, minutes |-> {}]

TimeInit ==
    /\ minute = 0
    /\ time_bank = [d \in Gadgets |-> None]
    /\ quotas = [d \in Gadgets |-> None]
    /\ usage_monthly = [d \in Gadgets |-> [m \in Months |-> 0]]
    /\ conntrack = [d \in Gadgets |-> 0]
    /\ reported = FALSE /\ posted = {} /\ posts = {} /\ quota_set = {} /\ edits = 0
    /\ heard = [d \in Gadgets |-> NotHeard]
    /\ stoppedFor = [d \in Gadgets |-> None]

-----------------------------------------------------------------------------
(* The time bank.                                                             *)
Least(a, b) == IF a < b THEN a ELSE b
Budget(e) == e.daily + e.bonus + e.rolled
Left(e) == IF Budget(e) > e.used THEN Budget(e) - e.used ELSE 0
Cap(e) == IF e.cap = None THEN e.daily ELSE e.cap

\* A reset that leaves the used minutes where they are.
NewDay_UsedKept(e) == [e EXCEPT !.period = Today, !.bonus = 0,
                                !.rolled = IF e.rollover THEN Least(Cap(e), Left(e)) ELSE 0]

NewDay(e) == [e EXCEPT !.period = Today, !.used = 0, !.bonus = 0,
                       !.rolled = IF e.rollover THEN Least(Cap(e), Left(e)) ELSE 0]

\* timeBankResetIfNew: every entry of the household, at the first call of a day.
Refreshed(bank) ==
    [d \in Gadgets |->
        IF bank[d] = None THEN None
        ELSE LET e == IF bank[d].period # Today THEN NewDay(bank[d]) ELSE bank[d]
             IN  [e EXCEPT !.cap = Cap(e)]]

\* tallyTimeBank: a flow of minute m is charged when m is not the minute counted last.
Tallied(bank, d, m) ==
    IF bank[d] = None \/ m = bank[d].last THEN bank
    ELSE [Refreshed(bank) EXCEPT ![d].used = @ + 1, ![d].last = m]

Hears(d, m) ==
    IF time_bank[d] = None THEN heard
    ELSE [heard EXCEPT ![d] = [count |-> @.count + 1,
                               minutes |-> @.minutes \cup OfToday(m)]]

-----------------------------------------------------------------------------
(* The parents.                                                               *)
Calls == edits < MaxEdits /\ edits' = edits + 1
World == <<minute, usage_monthly, conntrack, reported, posted, posts, quota_set, stoppedFor>>

\* POST time-bank/set: a new entry, or new daily minutes; the day is not looked at.
BankSet(d, n) ==
    /\ Calls /\ n > 0
    /\ IF time_bank[d] = None
       THEN /\ time_bank' = [time_bank EXCEPT ![d] =
                 [daily |-> n, period |-> Today, used |-> 0, bonus |-> 0, rolled |-> 0,
                  rollover |-> FALSE, cap |-> None, last |-> -1]]
            /\ heard' = [heard EXCEPT ![d] = NotHeard]
       ELSE /\ time_bank' = [time_bank EXCEPT ![d].daily = n]
            /\ UNCHANGED heard
    /\ UNCHANGED <<quotas, World>>

BankDelete(d) ==
    /\ Calls /\ time_bank[d] # None
    /\ time_bank' = [time_bank EXCEPT ![d] = None]
    /\ UNCHANGED <<quotas, heard, World>>

BankBonus(d, n) ==
    /\ Calls /\ n > 0
    /\ LET bank == Refreshed(time_bank) IN
       time_bank' = IF bank[d] = None THEN bank ELSE [bank EXCEPT ![d].bonus = @ + n]
    /\ UNCHANGED <<quotas, heard, World>>

\* POST time-bank/rollover-prefs: a cap that is not given stays, or becomes the daily minutes.
BankRollover(d, on, cap) ==
    /\ Calls /\ time_bank[d] # None
    /\ time_bank' = [time_bank EXCEPT ![d].rollover = on,
                                      ![d].cap = IF cap # None THEN cap ELSE Cap(time_bank[d])]
    /\ UNCHANGED <<quotas, heard, World>>

BankView ==
    /\ Refreshed(time_bank) # time_bank
    /\ time_bank' = Refreshed(time_bank)
    /\ UNCHANGED <<quotas, edits, heard, World>>

QuotaSet(d, gb) ==
    /\ Calls /\ gb > 0
    /\ quotas' = [quotas EXCEPT ![d] = gb]
    /\ UNCHANGED <<time_bank, heard, World>>

QuotaDelete(d) ==
    /\ Calls /\ quotas[d] # None
    /\ quotas' = [quotas EXCEPT ![d] = None]
    /\ UNCHANGED <<time_bank, heard, World>>

\* POST device/forget: the entry and the quota of the device go.
Forget(d) ==
    /\ Calls
    /\ quotas' = [quotas EXCEPT ![d] = None]
    /\ time_bank' = [time_bank EXCEPT ![d] = None]
    /\ UNCHANGED <<heard, World>>

-----------------------------------------------------------------------------
(* The devices, the box and the ingest of its flows.                          *)
Usage == <<quotas, edits>>

\* A device that the box does not drop sends and receives (kernel of the box).
Traffic(d) ==
    /\ d \notin quota_set /\ conntrack[d] < MaxBytes
    /\ conntrack' = [conntrack EXCEPT ![d] = @ + 1]
    /\ UNCHANGED <<minute, time_bank, usage_monthly, reported, posted, posts, quota_set, heard,
                   stoppedFor, Usage>>

\* The kernel forgets a connection that ended or that was idle for long.
ConnectionGone(d) ==
    /\ conntrack[d] > 0
    /\ conntrack' = [conntrack EXCEPT ![d] = 0]
    /\ UNCHANGED <<minute, time_bank, usage_monthly, reported, posted, posts, quota_set, heard,
                   stoppedFor, Usage>>

Listed == {d \in Gadgets : conntrack[d] > 0}

\* captureFlows and POST box/flows: every listed connection, with all its bytes so far,
\* is one flow of this minute; the request may be lost.
Report(arrives) ==
    /\ ~reported /\ reported' = TRUE
    /\ IF arrives
       THEN /\ usage_monthly' = [d \in Gadgets |->
                   [usage_monthly[d] EXCEPT ![Month] = Least(@ + conntrack[d], MaxBytes)]]
            /\ time_bank' = [d \in Gadgets |->
                   LET seen == \E g \in Listed : Tallied(time_bank, g, minute) # time_bank
                       bank == IF seen THEN Refreshed(time_bank) ELSE time_bank
                   IN  IF d \in Listed THEN Tallied(bank, d, minute)[d] ELSE bank[d]]
            /\ heard' = [d \in Gadgets |->
                   IF d \in Listed THEN Hears(d, minute)[d] ELSE heard[d]]
       ELSE UNCHANGED <<usage_monthly, time_bank, heard>>
    /\ UNCHANGED <<minute, conntrack, posted, posts, quota_set, stoppedFor, Usage>>

\* The SNI parser posts a flow of its own and waits for no answer (one handshake of a
\* device in a minute is modelled).
SniPost(d) ==
    /\ d \notin quota_set \cup posted /\ posted' = posted \cup {d}
    /\ Cardinality(posts) < 2
    /\ posts' = posts \cup {<<d, minute>>}
    /\ UNCHANGED <<minute, time_bank, usage_monthly, conntrack, reported, quota_set, heard,
                   stoppedFor, Usage>>

SniArrives(p) ==
    /\ p \in posts /\ posts' = posts \ {p}
    /\ time_bank' = Tallied(time_bank, p[1], p[2])
    /\ heard' = Hears(p[1], p[2])
    /\ UNCHANGED <<minute, usage_monthly, conntrack, reported, posted, quota_set, stoppedFor, Usage>>

SniLost(p) ==
    /\ p \in posts /\ posts' = posts \ {p}
    /\ UNCHANGED <<minute, time_bank, usage_monthly, conntrack, reported, posted, quota_set, heard,
                   stoppedFor, Usage>>

OverQuota(d) == quotas[d] # None /\ usage_monthly[d][Month] >= quotas[d]
Spent(e) == e # None /\ e.used >= Budget(e)

\* GET box/policy and the box's nft set: the devices over quota or over budget.
PolicyFetched ==
    /\ time_bank' = Refreshed(time_bank)
    /\ quota_set' = {d \in Gadgets : OverQuota(d) \/ Spent(time_bank'[d])}
    /\ stoppedFor' = [d \in Gadgets |->
           IF OverQuota(d) THEN "quota" ELSE IF Spent(time_bank'[d]) THEN "minutes" ELSE None]
    /\ UNCHANGED <<minute, usage_monthly, conntrack, reported, posted, posts, heard, Usage>>

Tick ==
    /\ minute < MaxMinute /\ minute' = minute + 1
    /\ reported' = (reported /\ minute' % ReportEvery # 0)
    /\ posted' = {}
    /\ IF DateOf(minute') # Today
       THEN heard' = [d \in Gadgets |-> NotHeard]
       ELSE UNCHANGED heard
    /\ UNCHANGED <<time_bank, usage_monthly, conntrack, posts, quota_set, stoppedFor, Usage>>

TimeNext ==
    \/ \E d \in Gadgets, n \in Allowances :
           BankSet(d, n) \/ BankBonus(d, n) \/ QuotaSet(d, n)
    \/ \E d \in Gadgets, on \in BOOLEAN, cap \in Allowances \cup {None} : BankRollover(d, on, cap)
    \/ \E d \in Gadgets :
           BankDelete(d) \/ QuotaDelete(d) \/ Forget(d) \/ Traffic(d) \/ ConnectionGone(d) \/ SniPost(d)
    \/ \E arrives \in BOOLEAN : Report(arrives)
    \/ \E p \in posts : SniArrives(p) \/ SniLost(p)
    \/ BankView \/ PolicyFetched \/ Tick
-----------------------------------------------------------------------------
TimeTypeOK ==
    /\ minute \in 0 .. MaxMinute
    /\ time_bank \in [Gadgets -> Entries \cup {None}]
    /\ quotas \in [Gadgets -> Nat \cup {None}]
    /\ usage_monthly \in [Gadgets -> [Months -> 0 .. MaxBytes]]
    /\ conntrack \in [Gadgets -> 0 .. MaxBytes]
    /\ reported \in BOOLEAN /\ quota_set \subseteq Gadgets /\ edits \in 0 .. MaxEdits

\* No minute of use is free: in whatever order the flows arrive, however late the day is
\* noticed, each minute of today that the cloud heard of is charged at least once
\* (timeBankResetIfNew and tallyTimeBank).
MinutesCharged ==
    \A d \in Gadgets :
        time_bank[d] # None /\ time_bank[d].period = Today =>
            time_bank[d].used >= Cardinality(heard[d].minutes)

\* A policy never stops a device for minutes it has not used: a device that is dropped for
\* its minutes was heard today at least as often as its daily allowance, whatever was
\* used, left or granted on the days before (GET box/policy, timeBankResetIfNew).
StoppedForToday ==
    [][\A d \in Gadgets :
           PolicyFetched /\ stoppedFor'[d] = "minutes" =>
               heard[d].count >= time_bank[d].daily]_timeVars

-----------------------------------------------------------------------------
(* The inductive invariant of the two: what was charged to an entry today is  *)
(* at least the minutes it was heard in and at most the times it was heard,   *)
(* and an entry nobody looked at today has not been heard today.              *)
Heard == [count : Nat, minutes : SUBSET (0 .. MaxMinute)]

Charged(e, h) ==
    /\ e.daily > 0 /\ e.period <= Today /\ e.last <= minute
    /\ DateOf(e.last) = Today => e.last \in h.minutes
    /\ e.period = Today => Cardinality(h.minutes) <= e.used /\ e.used <= h.count
    /\ e.period # Today => h.minutes = {}

TimeInv ==
    /\ TimeTypeOK
    /\ heard \in [Gadgets -> Heard]
    /\ posts \subseteq Gadgets \X (0 .. minute)
    /\ \A d \in Gadgets : time_bank[d] # None => Charged(time_bank[d], heard[d])
=============================================================================
