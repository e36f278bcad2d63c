------------------------------- MODULE Alarms -------------------------------
(* The watchers of a household's traffic and what they tell (server.js): the  *)
(* category and upload tallies fed by every flow, the quota thresholds, the   *)
(* traffic and flow anomalies, the customer's own alarm rules, the alarms the *)
(* box reports; the mutes and preferences of the customer; the browsers that  *)
(* are subscribed to pushes and the late answers of the push service.  One    *)
(* category is watched, one destination uploaded to, one rule the customer's. *)
EXTENDS Integers, Sequences, FiniteSets, SequencesExt, Household

CONSTANTS
    AlarmDevices,   \* devices of the household
    Kidlike, Gap, GcAge, KeptAlarms, KeptNotes, QuietHours,     \* see AlarmDesk
    Thresholds,     \* kinds of the quota alarms: 80, 90 and 100 percent
    AnomalyKinds,   \* kinds of runAnomalyScan, in its order: heavy data, port scan, countries
    Mutable,        \* kinds the customer mutes
    Window,         \* the activity window (an hour)
    ActivityLimit,  \* traffic of a category that makes an alarm (in flows)
    AlarmDayLength, \* length of a day
    AlarmMonthLength, \* length of a month
    MaxTime,        \* bound on the clock
    MaxEvents,      \* bound on the flows, scans and reports
    MaxWanted,      \* bound on the other calls of the customer
    MaxSubs         \* bound on the subscriptions ever made

AlarmKinds == {"activity", "large_upload", "traffic_anomaly", "custom_rule"}
                 \cup Thresholds \cup {AnomalyKinds[i] : i \in DOMAIN AnomalyKinds}
Desk == INSTANCE AlarmDesk
            WITH Gadgets <- AlarmDevices, Kinds <- AlarmKinds, TitledKinds <- {"activity", "large_upload"}
ASSUME AlarmAssumption ==
    /\ Desk!DeskAssumption
    /\ {Window, AlarmDayLength, AlarmMonthLength, MaxTime, MaxSubs} \subseteq Nat
    /\ 2 * AlarmDayLength >= Gap
    /\ AnomalyKinds \in Seq({AnomalyKinds[i] : i \in DOMAIN AnomalyKinds})
    /\ IsFiniteSet(AlarmDevices) /\ None \notin Nat
    /\ \A k \in AlarmKinds, g \in AlarmDevices \cup {None}, c \in BOOLEAN :
          None # [kind |-> k, dev |-> g, critical |-> c]

VARIABLES
    time,
    desk,
    activity,       \* device -> the tally of its category traffic
    uploads,        \* device -> the last alarm of a large upload, or None
    threshold_fired,\* device -> the thresholds of its quota fired in a period
    traffic_seen,   \* device -> the day its traffic was last called unusual, or None
    browser,        \* the subscription the customer's browser holds, None when it holds none
    subscribed,     \* subscriptions made so far
    events, wanted
alarmVars == <<time, desk, activity, uploads, threshold_fired, traffic_seen, browser, subscribed,
               events, wanted>>

Quiet == [bytes |-> 0, first_seen |-> None, last_alarm |-> None]
NoneFired == [period |-> None, fired |-> {}]

AlarmInit ==
    /\ time = 0 /\ desk = Desk!NewDesk
    /\ activity = [g \in AlarmDevices |-> Quiet] /\ uploads = [g \in AlarmDevices |-> None]
    /\ threshold_fired = [g \in AlarmDevices |-> NoneFired] /\ traffic_seen = [g \in AlarmDevices |-> None]
    /\ browser = None /\ subscribed = 0 /\ events = 0 /\ wanted = 0

Event == events < MaxEvents /\ events' = events + 1
Wanted == wanted < MaxWanted /\ wanted' = wanted + 1
Marks == <<activity, uploads, threshold_fired, traffic_seen>>
Push == <<browser, subscribed>>

-----------------------------------------------------------------------------
(* The watchers look at one thing after the other and hand what they find to  *)
(* the desk: a list of alarms, or None where nothing is found.  Any of the     *)
(* alarms may be the one that tidies the memory.                               *)
Found(kind, g) == [kind |-> kind, dev |-> g, critical |-> FALSE]
FireAll_Stale(alarms, swept) ==
    LET desks[i \in 0 .. Len(alarms)] ==
          IF i = 0 THEN desk
          ELSE IF alarms[i] = None THEN desks[i - 1]
          ELSE Desk!Fire(desk, alarms[i].kind, alarms[i].dev, alarms[i].critical, i \in swept, time)
    IN  desks[Len(alarms)]
FireAll(alarms, swept) ==
    LET desks[i \in 0 .. Len(alarms)] ==
          IF i = 0 THEN desk
          ELSE IF alarms[i] = None THEN desks[i - 1]
          ELSE Desk!Fire(desks[i - 1], alarms[i].kind, alarms[i].dev, alarms[i].critical,
                         i \in swept, time)
    IN  desks[Len(alarms)]
Fired(alarms) == \E swept \in SUBSET DOMAIN alarms : desk' = FireAll(alarms, swept)

LongAgo(t) == t = None \/ time - t > Window

\* tallyCategoryActivity: a flow is added to the tally of its category, when that is watched, and
\* may be a large upload.
Tally(g) ==
    LET e == activity[g]
        open == IF LongAgo(e.first_seen) THEN [e EXCEPT !.bytes = 0, !.first_seen = time] ELSE e
    IN  [open EXCEPT !.bytes = IF @ < ActivityLimit THEN @ + 1 ELSE @]
Crosses(e) == e.bytes >= ActivityLimit /\ LongAgo(e.last_alarm)
Flow(g, watched, large) ==
    LET e == Tally(g)
        active == watched /\ Crosses(e)
        uploading == large /\ LongAgo(uploads[g])
    IN  /\ Event
        /\ activity' = [activity EXCEPT ![g] =
               IF active THEN [e EXCEPT !.last_alarm = time] ELSE IF watched THEN e ELSE @]
        /\ uploads' = [uploads EXCEPT ![g] = IF uploading THEN time ELSE @]
        /\ Fired(<<IF active THEN Found("activity", g) ELSE None,
                   IF uploading THEN Found("large_upload", g) ELSE None>>)
        /\ UNCHANGED <<time, threshold_fired, traffic_seen, Push, wanted>>

\* runQuotaThresholdScan: the highest threshold a device has reached, once in a period.
AlarmMonth == time \div AlarmMonthLength
QuotaScan(order, reached) ==
    LET told(g) == IF threshold_fired[g].period = AlarmMonth THEN threshold_fired[g].fired ELSE {}
        crossed(g) == reached[g] # None /\ reached[g] \notin told(g)
    IN  /\ Event
        /\ threshold_fired' = [g \in AlarmDevices |->
               [period |-> AlarmMonth,
                fired |-> told(g) \cup (IF crossed(g) THEN {reached[g]} ELSE {})]]
        /\ Fired([i \in DOMAIN order |->
                     IF crossed(order[i]) THEN Found(reached[order[i]], None) ELSE None])
        /\ UNCHANGED <<time, activity, uploads, traffic_seen, Push, wanted>>

\* detectTrafficAnomalies: a device whose traffic of today is unusual, once a day.  Its marks are
\* in the memory of the desk; they name the day, so that dropping old ones forgets none of today.
AlarmDay == time \div AlarmDayLength
TrafficAnomalies(order, heavy) ==
    LET fresh(g) == g \in heavy /\ traffic_seen[g] # AlarmDay
        list == [i \in DOMAIN order |->
                    IF fresh(order[i]) THEN Found("traffic_anomaly", None) ELSE None]
    IN  /\ Event
        /\ traffic_seen' = [g \in AlarmDevices |-> IF fresh(g) THEN AlarmDay ELSE traffic_seen[g]]
        /\ \E swept \in SUBSET DOMAIN list :
               desk' = Desk!Forgets(FireAll(list, swept), 2 * AlarmDayLength, time)
        /\ UNCHANGED <<time, activity, uploads, threshold_fired, Push, wanted>>

\* runAnomalyScan: what each device did in the last five minutes; no mark is kept.
Unusual(order, unusual) ==
    LET n == Len(AnomalyKinds)
        kind(i) == AnomalyKinds[((i - 1) % n) + 1]
    IN  [i \in 1 .. Len(order) * n |->
            IF kind(i) \in unusual[order[((i - 1) \div n) + 1]] THEN Found(kind(i), None) ELSE None]
AnomalyScan(order, unusual) ==
    /\ Event
    /\ Fired(Unusual(order, unusual))
    /\ UNCHANGED <<time, Marks, Push, wanted>>

\* runCustomAlarmScan: the rule of the customer applies; its alarm may be critical.
CustomAlarmScan(critical) ==
    /\ Event
    /\ Fired(<<[Found("custom_rule", None) EXCEPT !.critical = critical]>>)
    /\ UNCHANGED <<time, Marks, Push, wanted>>

\* POST /api/box/alarms: neither mutes nor the memory of the desk apply.
BoxAlarm(g) ==
    /\ Event
    /\ desk' = Desk!Notified(
           [desk EXCEPT !.alarms = Desk!Listed(@, [kind |-> "box", dev |-> g, at |-> time, source |-> "agent"])],
           "security", g, time)
    /\ UNCHANGED <<time, Marks, Push, wanted>>

-----------------------------------------------------------------------------
(* The customer.                                                              *)
MuteSet(k, hours) ==
    /\ Wanted /\ time + hours <= MaxTime
    /\ desk' = [desk EXCEPT !.mutes[k] = time + hours]
    /\ UNCHANGED <<time, Marks, Push, events>>
MuteClear(ks) ==
    /\ Wanted
    /\ desk' = [desk EXCEPT !.mutes = [k \in AlarmKinds |-> IF k \in ks THEN None ELSE @[k]]]
    /\ UNCHANGED <<time, Marks, Push, events>>
\* The body has what is to change: categories, the quiet hours, the channel of the pushes.
NotifPrefs(off, quiet, push) ==
    /\ Wanted
    /\ desk' = [desk EXCEPT !.off = off, !.quiet = quiet, !.push = push]
    /\ UNCHANGED <<time, Marks, Push, events>>

\* push/subscribe replaces the subscription with the same endpoint under a new id.  One
\* browser, and its endpoint stays.
Subscribe ==
    /\ subscribed < MaxSubs /\ subscribed' = subscribed + 1 /\ browser' = subscribed'
    /\ desk' = [desk EXCEPT !.subs = {[id |-> subscribed', endpoint |-> "browser"]}]
    /\ UNCHANGED <<time, Marks, events, wanted>>
Unsubscribe ==
    /\ browser # None /\ browser' = None
    /\ desk' = [desk EXCEPT !.subs = {s \in @ : s.endpoint # "browser"}]
    /\ UNCHANGED <<time, Marks, subscribed, events, wanted>>

\* The browser lets its subscription lapse without a word.
Lapse ==
    /\ browser # None /\ browser' = None
    /\ UNCHANGED <<time, desk, Marks, subscribed, events, wanted>>

\* The push service answers gone for an endpoint nobody holds; another answer changes nothing.
PushAnswered(p) ==
    /\ p \in desk.sent /\ ~p.gone
    /\ desk' = [desk EXCEPT !.sent = (@ \ {p}) \cup
                  (IF browser = None THEN {[p EXCEPT !.gone = TRUE]} ELSE {})]
    /\ UNCHANGED <<time, Marks, Push, events, wanted>>
\* sendWebPush resolves: the subscription the push was sent to is removed.
SentTo(p) == {s \in desk.subs : s.id = p.sub}
PushGone(p) ==
    /\ p \in desk.sent /\ p.gone
    /\ desk' = [desk EXCEPT !.sent = @ \ {p}, !.subs = @ \ SentTo(p)]
    /\ UNCHANGED <<time, Marks, Push, events, wanted>>

TimePasses ==
    /\ time < MaxTime /\ time' = time + 1
    /\ UNCHANGED <<desk, Marks, Push, events, wanted>>

Watching ==
    \/ \E g \in AlarmDevices, watched, large \in BOOLEAN : Flow(g, watched, large)
    \/ \E order \in SetToSeqs(AlarmDevices) :
         \/ \E reached \in [AlarmDevices -> Thresholds \cup {None}] : QuotaScan(order, reached)
         \/ \E heavy \in SUBSET AlarmDevices : TrafficAnomalies(order, heavy)
         \/ \E unusual \in [AlarmDevices -> SUBSET {AnomalyKinds[i] : i \in DOMAIN AnomalyKinds}] :
               AnomalyScan(order, unusual)
    \/ \E critical \in BOOLEAN : CustomAlarmScan(critical)
Muting ==
    \/ \E k \in Mutable, hours \in 1 .. 2 : MuteSet(k, hours)
    \/ \E ks \in {AlarmKinds} \cup {{k} : k \in Mutable} : MuteClear(ks)
Reporting == \E g \in AlarmDevices : BoxAlarm(g)
\* Alarms are of two of the four categories.
Preferring ==
    \E off \in SUBSET {"family", "system"}, quiet, push \in BOOLEAN : NotifPrefs(off, quiet, push)
Pushing ==
    \/ Subscribe \/ Unsubscribe \/ Lapse
    \/ \E p \in desk.sent : PushAnswered(p) \/ PushGone(p)

-----------------------------------------------------------------------------
(* What holds.                                                                *)
\* The watchers' state has its shape.
AlarmTypeOK ==
    /\ time \in 0 .. MaxTime
    /\ Desk!DeskOK(desk, 0 .. MaxTime, 1 .. MaxSubs)
    /\ \A s \in desk.subs : s.id \in 1 .. subscribed
    /\ \A g \in AlarmDevices : threshold_fired[g].fired \subseteq Thresholds
    /\ browser \in {None} \cup 1 .. subscribed

\* An alarm kind is told at most once in half an hour, and while it is held back for that the
\* alarm that was told is on the list: the tidying of the memory loses and doubles none
\* (fireSyntheticAlarm).
AlarmsSound == Desk!DeskSound(desk, time)

\* A watcher that sets the mark by which it leaves a device alone for an hour, a day or a billing
\* period has told the customer of its kind: an alarm of the kind is on the list and less than
\* Gap old, unless the customer muted the kind or the list is at its limit.  The alarm may be
\* that of another device: the desk remembers kinds, and what a second device does within Gap is
\* marked as told without an alarm of its own.
Told(k) ==
    \/ Desk!Muted(desk, k, time)
    \/ \E i \in DOMAIN desk'.alarms : desk'.alarms[i].kind = k /\ time - desk'.alarms[i].at < Gap
    \/ Len(desk'.alarms) = KeptAlarms
NewlyFired(g) ==
    threshold_fired'[g].fired \ (IF threshold_fired[g].period = threshold_fired'[g].period
                                   THEN threshold_fired[g].fired ELSE {})
MarkTold(g) ==
    /\ activity'[g].last_alarm # activity[g].last_alarm => Told("activity")
    /\ uploads'[g] # uploads[g] => Told("large_upload")
    /\ traffic_seen'[g] # traffic_seen[g] => Told("traffic_anomaly")
    /\ \A k \in NewlyFired(g) : Told(k)
MarksTold == [][\A g \in AlarmDevices : MarkTold(g)]_alarmVars

\* A browser that holds a subscription stays subscribed: the late answer to a push sent to
\* its old one does not take the new one away (pushNotification, push/subscribe).
RenewalKept == browser # None => \E s \in desk.subs : s.id = browser

-----------------------------------------------------------------------------
(* The inductive invariant: the memory of the desk goes back far enough, and  *)
(* a push that is answered gone was sent to another subscription than the one *)
(* the browser holds now.                                                     *)
AlarmInv ==
    /\ AlarmTypeOK /\ AlarmsSound /\ RenewalKept
    /\ Desk!DeskKept(desk, time)
    /\ subscribed \in 0 .. MaxSubs
    /\ \A p \in desk.sent : p.sub \in 1 .. subscribed /\ (p.gone => p.sub # browser)
=============================================================================
