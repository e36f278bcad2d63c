-------------------------------- MODULE Mailings --------------------------------
(***************************************************************************)
(* The digests of server.js: timers that look whether a mail is due, the   *)
(* mark that says when it was sent, preferences, and calls that send at    *)
(* once.                                                                   *)
(*                                                                         *)
(*   push          sendDigests: the customer's day, at nine                *)
(*   weekly        runWeeklyDigestJob: on Sunday, stored for the customer  *)
(*   admin_daily, admin_weekly   checkAdminDigestCron: at eight            *)
(*   daily         sendDailyDigest: a day after the last one               *)
(*   drip          runWelcomeDrip: days after the account was made         *)
(*                                                                         *)
(* They share nothing but the clock: one of them runs (job).  Time is      *)
(* counted in hours, of which a day has Hours; times in hours a and b are  *)
(* between b - a - 1 and b - a + 1 hours apart, and where the code asks    *)
(* for a number of hours in between, both answers are possible.  Each job  *)
(* saves its mark in the step that sends.  Contents are left out, and with *)
(* them sendWeeklyDigest, which has no mark and no condition.              *)
(***************************************************************************)
EXTENDS Integers, Sequences, FiniteSets, SequencesExt

CONSTANTS
    Hours,              \* in a day
    Days,               \* in a week; day 0 is Sunday
    SendHour,           \* nine, and eight, o'clock
    DripDays,           \* 1, 3 and 7
    MaxHours,           \* the clock: a bound
    MaxWishes           \* calls, and restarts: a bound

ASSUME MailAssumption ==
    /\ {Hours, Days, MaxHours, MaxWishes} \subseteq Nat /\ Hours > 1 /\ Days > 1
    /\ DripDays \subseteq Nat \ {0} /\ IsFiniteSet(DripDays)

VARIABLES
    job,                \* the job that is looked at
    hour,               \* the clock
    on,                 \* digest_enabled, events_daily, weekly_digest_email ...
    day,                \* digest_day, weekly_send_day
    mark,               \* digest_last_sent_at and the like
    outbox,             \* history: what was sent, when, and whether a call asked for it
    idle,               \* hours since the timer of the job fired
    steady,             \* history: the hour of the last restart or change of preferences
    wishes              \* calls and restarts so far

mailVars == <<job, hour, on, day, mark, outbox, idle, steady, wishes>>

\* Longer ago than any job asks for.
Never == -(Days * Hours)
Jobs == {"push", "weekly", "admin_daily", "admin_weekly", "daily", "drip"}
Mail == [at: 0 .. MaxHours, forced: BOOLEAN, about: {0} \cup DripDays]

MailTypeOK ==
    /\ job \in Jobs /\ hour \in 0 .. MaxHours /\ on \in BOOLEAN /\ day \in 0 .. Days - 1
    /\ mark \in {Never} \cup 0 .. MaxHours
    /\ outbox \in Seq(Mail)
    /\ idle \in 0 .. Hours

DayNo(h) == h \div Hours
DayOf(h) == DayNo(h) % Days

MailInit ==
    /\ job \in Jobs /\ hour = 0
    /\ on \in BOOLEAN /\ day = 1
    /\ mark = Never /\ outbox = <<>>
    /\ idle = 0 /\ steady = 0 /\ wishes = 0

-----------------------------------------------------------------------------
\* Whether more than n hours may have, or surely have, passed since the mark.
MayBeOver(n) == hour - mark >= n
Over(n) == hour - mark > n

\* The mails of the drip that are due: a customer who was made at hour 0 gets one for each of
\* DripDays.
Dripping == {d \in DripDays : DayNo(hour) >= d /\ \A i \in DOMAIN outbox : outbox[i].about # d}

\* What the job asks for before it sends, beside the age of the mark.
MailWanted ==
    CASE job \in {"push", "admin_weekly"} -> on /\ DayOf(hour) = day /\ hour % Hours = SendHour
      [] job = "admin_daily" -> on /\ hour % Hours = SendHour
      [] job = "weekly" -> DayOf(hour) = 0 /\ (mark = Never \/ DayNo(mark) # DayNo(hour))
      [] job = "drip" -> Dripping # {}
      [] job = "daily" -> TRUE

\* The hours that must have passed: 23, 167, or 24 but for a minute.
Age ==
    CASE job \in {"push", "admin_daily"} -> Hours - 1
      [] job = "admin_weekly" -> Days * Hours - 1
      [] job = "daily" -> Hours
      [] OTHER -> 0

New(forced, about) == [at |-> hour, forced |-> forced, about |-> about]
Sent(forced) ==
    /\ \/ /\ job = "drip"
          /\ \E due \in [1 .. Cardinality(Dripping) -> Dripping] :
                /\ \A i, j \in DOMAIN due : i < j => due[i] < due[j]
                /\ outbox' = outbox \o [i \in DOMAIN due |-> New(FALSE, due[i])]
       \/ job # "drip" /\ outbox' = Append(outbox, New(forced, 0))
    /\ mark' = hour

\* A minute short of a day may already do for the daily digest in the hour before.
DueNow == MailWanted /\ (Age = 0 \/ MayBeOver(IF job = "daily" THEN Age - 1 ELSE Age))
NotYet == ~MailWanted \/ (Age # 0 /\ ~Over(Age))

\* The timer fires.
TimerFires ==
    /\ idle' = 0
    /\ \/ DueNow /\ Sent(FALSE)
       \/ NotYet /\ UNCHANGED <<outbox, mark>>
    /\ UNCHANGED <<job, hour, on, day, steady, wishes>>

\* Every hour, every half an hour or, for the weekly job, every day.
Period == IF job = "weekly" THEN Hours ELSE 1

\* Time passes; the timers of a cloud that is up fire in time.
HourPasses ==
    /\ hour < MaxHours /\ idle < Period
    /\ hour' = hour + 1 /\ idle' = idle + 1
    /\ UNCHANGED <<job, on, day, mark, outbox, steady, wishes>>

\* digest/send-now, digest/weekly-tier1/run, digest/send: send, and mark.
SendNow ==
    /\ wishes < MaxWishes /\ wishes' = wishes + 1
    /\ job \in {"weekly", "admin_daily", "admin_weekly", "daily"}
    /\ Sent(TRUE)
    /\ UNCHANGED <<job, hour, on, day, idle, steady>>

\* digest-prefs of the customer, /admin/api/digest of the administrators.
SetPrefs ==
    /\ wishes < MaxWishes /\ wishes' = wishes + 1
    /\ job \in {"push", "admin_daily", "admin_weekly"}
    /\ on' \in BOOLEAN /\ day' \in 0 .. 1
    /\ steady' = hour
    /\ UNCHANGED <<job, hour, mark, outbox, idle>>

\* The cloud may be down for up to a day; then the timers begin anew.
CloudRestarts ==
    /\ wishes < MaxWishes /\ wishes' = wishes + 1
    /\ hour' \in {h \in hour .. hour + Hours : h <= MaxHours}
    /\ idle' = 0 /\ steady' = hour'
    /\ UNCHANGED <<job, on, day, mark, outbox>>

MailNext == TimerFires \/ HourPasses \/ SendNow \/ SetPrefs \/ CloudRestarts

-----------------------------------------------------------------------------
Unforced == {i \in DOMAIN outbox : ~outbox[i].forced}

\* However often the timers fire, the cloud restarts and the preferences change, no timer
\* sends the same mail twice in its period: a day, for the weekly ones (the day may change) the
\* day they are sent on, a week for the administrators' one, once at all for the drip.
MailsOnce ==
    \A i \in Unforced, j \in DOMAIN outbox : j < i =>
       LET gap == outbox[i].at - outbox[j].at IN
       CASE job \in {"push", "weekly"} -> DayNo(outbox[i].at) # DayNo(outbox[j].at)
         [] job \in {"admin_daily", "daily"} -> gap >= Hours - 1
         [] job = "admin_weekly" -> gap >= Days * Hours - 1
         [] job = "drip" -> outbox[i].about # outbox[j].about

SentIn(a, b) == \E i \in DOMAIN outbox : outbox[i].at \in a .. b

\* What is sent for a reader who wants it in hour s.
Served(s) ==
    /\ job = "push" /\ on /\ DayOf(s) = day /\ s % Hours = SendHour => SentIn(s, s)
    /\ job = "admin_daily" /\ on /\ s % Hours = SendHour => SentIn(s - Hours + 1, s)
    /\ job = "admin_weekly" /\ on /\ DayOf(s) = day /\ s % Hours = SendHour
          => SentIn(s - Days * Hours + 1, s)
    /\ job = "weekly" /\ DayOf(s) = 0 /\ s % Hours = 0 => SentIn(s, s + Hours - 1)
    /\ job = "daily" => SentIn(s - Hours, s)
    /\ job = "drip" => \A d \in DripDays : DayNo(s) >= d =>
          \E i \in DOMAIN outbox : outbox[i].about = d

\* No mail is left out while the cloud is up and its reader wants it: in the hour it is sent at,
\* or on Sunday, it is sent, unless a call sent one less than a period before.
NoneMissed ==
    \A s \in steady + 1 .. hour - 1 : (job = "weekly" => s + Hours <= hour) => Served(s)

-----------------------------------------------------------------------------
(* The inductive invariant: the mark is the newest mail, and every hour up to *)
(* the one the timer fired in last was served.                                *)
MailInv ==
    /\ MailTypeOK /\ MailsOnce
    /\ idle <= Period /\ steady \in Nat
    /\ IF outbox = <<>> THEN mark = Never
       ELSE mark <= hour /\ \E i \in DOMAIN outbox : outbox[i].at = mark
    /\ \A i \in DOMAIN outbox :
          /\ outbox[i].at <= mark
          /\ job = "push" => outbox[i].at % Hours = SendHour
          /\ job = "drip" => ~outbox[i].forced
    /\ \A s \in steady + 1 .. hour - idle : Served(s)
=============================================================================
