----------------------------- MODULE AlarmDesk -----------------------------
(* The desk every watcher of the cloud hands its alarms to (server.js):       *)
(* fireSyntheticAlarm with its mutes and its memory of what was fired,        *)
(* pushNotification with the categories and the quiet hours, the alarm list,  *)
(* the list of notices and the web pushes under way.  One customer.  Only     *)
(* operators: a watcher keeps a desk in a variable of its own.  The queues an *)
(* alarm is handed to are elsewhere (WebhookQueue, SiemForwarder); the packet *)
(* capture is never queued, for the record has no source address.             *)
LOCAL INSTANCE Integers
LOCAL INSTANCE Sequences

CONSTANTS
    Kinds,          \* kinds of alarms the watchers fire
    TitledKinds,    \* kinds whose title has the name of the device
    Gadgets,        \* devices of the household
    Kidlike,        \* devices whose name reads "kid", "family", "schedule" or "pause"
    Gap,            \* the time one kind is fired once (30 minutes)
    GcAge,          \* the age at which the memory of a kind may be dropped (24 hours)
    KeptAlarms,     \* alarms that are kept (5000)
    KeptNotes,      \* notices that are kept (100)
    QuietHours,     \* the times the quiet hours cover when they are on
    None

DeskAssumption == {Gap, GcAge, KeptAlarms, KeptNotes} \subseteq Nat /\ GcAge >= Gap /\ Gap > 0

Devices == Gadgets \cup {None}
Categories == {"security", "family", "billing", "system"}

NewDesk == [alarms |-> <<>>, dedup |-> [k \in Kinds |-> None], mutes |-> [k \in Kinds |-> None],
            off |-> {}, quiet |-> FALSE, push |-> TRUE, notes |-> 0, subs |-> {}, sent |-> {}]

\* notificationCategory: what decides for an alarm, handed over as "security", is its title, so
\* that most alarms are of another category, which the quiet hours hold back.
Category(kind, title) ==
    IF kind = "warn" THEN "security" ELSE IF title \in Kidlike THEN "family" ELSE "system"

\* pushNotification: nothing when the category is off; within the quiet hours the notice is
\* listed and not pushed, and the list not cut.  Pushes may be switched off as a channel.
Notified(d, kind, title, now) ==
    IF Category(kind, title) \in d.off THEN d
    ELSE IF d.quiet /\ now \in QuietHours /\ Category(kind, title) # "security"
      THEN [d EXCEPT !.notes = @ + 1]
    ELSE [d EXCEPT !.notes = IF @ + 1 > KeptNotes THEN KeptNotes ELSE @ + 1,
                   !.sent = @ \cup {[sub |-> s.id, gone |-> FALSE] : s \in {x \in d.subs : d.push}}]

Listed(list, alarm) ==
    LET all == <<alarm>> \o list IN
    IF Len(all) > KeptAlarms THEN SubSeq(all, 1, KeptAlarms) ELSE all

\* alarmKindMutedFor: a mute that has run out is removed when it is looked at.
Muted(d, kind, now) == d.mutes[kind] # None /\ d.mutes[kind] > now
Looked(d, kind, now) == IF Muted(d, kind, now) THEN d ELSE [d EXCEPT !.mutes[kind] = None]

\* An alarm of a kind is dropped while the last one of that kind, of any device, is recent.
FiredRecently(d, kind, now) == d.dedup[kind] # None /\ now - d.dedup[kind] < Gap
Remembers(d, kind, now) == [d EXCEPT !.dedup[kind] = now]

\* One time in twenty the memory of old kinds is dropped; a scan drops it at an age of its own.
Forgets(d, age, now) ==
    [d EXCEPT !.dedup = [k \in Kinds |->
        IF d.dedup[k] # None /\ d.dedup[k] < now - age THEN None ELSE d.dedup[k]]]

Alarm(kind, dev, now) == [kind |-> kind, dev |-> dev, at |-> now, source |-> "cloud"]

\* What fireSyntheticAlarm leaves of a desk; swept says whether the memory is tidied.
Fire(d, kind, dev, critical, swept, now) ==
    LET looked == IF critical THEN d ELSE Looked(d, kind, now) IN
    IF ~critical /\ Muted(d, kind, now) THEN d
    ELSE IF FiredRecently(looked, kind, now) THEN looked
    ELSE LET marked == Remembers(looked, kind, now)
             tidy == IF swept THEN Forgets(marked, GcAge, now) ELSE marked
         IN  Notified([tidy EXCEPT !.alarms = Listed(@, Alarm(kind, dev, now))],
                      "security", IF kind \in TitledKinds THEN dev ELSE None, now)
-----------------------------------------------------------------------------
\* What a desk may be.
AlarmsOf(times) ==
    [kind : Kinds \cup {"box"}, dev : Devices, at : times, source : {"cloud", "agent"}]
Desks(times, ids) ==
    [alarms : Seq(AlarmsOf(times)),
     dedup : [Kinds -> times \cup {None}], mutes : [Kinds -> times \cup {None}],
     off : SUBSET Categories, quiet : BOOLEAN, push : BOOLEAN, notes : Nat,
     subs : SUBSET [id : ids, endpoint : {"browser"}], sent : SUBSET [sub : ids, gone : BOOLEAN]]
DeskOK(d, times, ids) == d \in Desks(times, ids) /\ Len(d.alarms) <= KeptAlarms

\* The cloud's alarms of one kind lie at least Gap apart, and a kind the desk holds for just
\* fired has its alarm on the list, as far as the list goes back.
DeskSound(d, now) ==
    /\ \A i, j \in DOMAIN d.alarms :
         i < j /\ d.alarms[i].source = "cloud" /\ d.alarms[j].source = "cloud"
           /\ d.alarms[i].kind = d.alarms[j].kind
           => d.alarms[i].at - d.alarms[j].at >= Gap
    /\ \A k \in Kinds : FiredRecently(d, k, now) =>
         \/ Len(d.alarms) = KeptAlarms
         \/ \E i \in DOMAIN d.alarms : d.alarms[i].kind = k /\ d.alarms[i].at = d.dedup[k]

\* What the memory of a desk has of the alarms on its list: the last time of each kind, unless
\* that is long enough ago.
DeskKept(d, now) ==
    /\ \A i \in DOMAIN d.alarms :
          /\ d.alarms[i].at <= now
          /\ d.alarms[i].source = "cloud" =>
                /\ d.alarms[i].kind \in Kinds
                /\ LET last == d.dedup[d.alarms[i].kind] IN
                   (last # None /\ d.alarms[i].at <= last) \/ d.alarms[i].at + Gap <= now
    /\ \A k \in Kinds : d.dedup[k] # None => d.dedup[k] <= now
=============================================================================
