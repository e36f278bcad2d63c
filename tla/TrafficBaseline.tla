----------------------------- MODULE TrafficBaseline -----------------------------
(***************************************************************************)
(* What the cloud takes for the normal traffic of a device                 *)
(* (behavior-baseline.js, of which the server uses ingest and the lists it *)
(* makes).  One device; its flows may come late.  Each is scored against   *)
(* the baseline before it becomes part of it.                              *)
(*                                                                         *)
(* Time is counted in hours; a flow that comes in the same hour as another *)
(* to the same domain leaves no interval.  The sizes of flows are left     *)
(* out: an hour with enough samples may or may not find one too large.     *)
(* Averages that are only shown are left out with the log of countries     *)
(* they come from.  Nothing here is saved.                                 *)
(*                                                                         *)
(* Beside it the server keeps a baseline of days (device_baselines), made  *)
(* of the totals of the last week: it is the second half of this module,   *)
(* for one of the totals that are compared.                                *)
(***************************************************************************)
EXTENDS Integers, Sequences, FiniteSets, SequencesExt, FiniteSetsExt

CONSTANTS
    Domains, Countries, NoCountry,
    HoursOfDay,         \* 24
    BaselineWindow,     \* 14 days
    Learning,           \* 48 hours
    MinSamples,         \* 5: of an hour of the day before it is judged
    MinHits,            \* 5: equal intervals that make a beacon
    Recent,             \* 50: intervals that are kept
    MaxDomains,         \* 2000: domains that are kept
    MaxCountries,       \* 50: countries that are kept
    MaxFindings,        \* 500
    Lag,                \* hours a flow may be late
    MaxHour,            \* the clock: a bound
    MaxFlows,           \* flows: a bound
    Week,               \* 7 days
    MinDays,            \* 3: days before a device is judged
    MaxUse              \* the use of a day: a bound

ASSUME TrafficAssumption ==
    /\ {Learning, BaselineWindow, Recent, MaxDomains, MaxCountries, MaxFindings, Lag, MaxHour,
        MaxFlows, MaxUse} \subseteq Nat
    /\ MaxHour > Lag
    /\ Week \in 1 .. 10 /\ MinDays \in Nat

NoBaseline == [first |-> 0]

VARIABLES
    now,                \* Date.now()
    baseline,           \* the baseline of the device
    findings,           \* _recentAnomalies
    flowsSeen,          \* flows so far
    begun,              \* history: the hour the baseline was begun in
    crowded,            \* history: the caps had the baseline forget something
    contact             \* history: of each domain the newest flow since then, 0 for none

VARIABLES
    week,               \* the totals of the last days, yesterday's first
    today,              \* the total of today
    daily,              \* device_baselines: the totals of the days it was computed of
    raised              \* history: the last behavior_deviation, and the most of those days

deviationVars == <<week, today, daily, raised>>
trafficVars == <<now, baseline, findings, flowsSeen, begun, crowded, contact>>

TrafficTypeOK ==
    /\ now \in 1 .. MaxHour /\ flowsSeen \in 0 .. MaxFlows
    /\ Len(findings) <= MaxFindings
    /\ baseline # NoBaseline =>
          /\ Cardinality(DOMAIN baseline.known) <= MaxDomains
          /\ Cardinality(DOMAIN baseline.countries) <= MaxCountries
          /\ DOMAIN baseline.deltas \subseteq DOMAIN baseline.lastOf
          /\ \A d \in DOMAIN baseline.deltas : Len(baseline.deltas[d]) <= Recent
    /\ week \in [1 .. Week -> 0 .. MaxUse] /\ today \in 0 .. MaxUse
    /\ Len(daily) <= Week /\ raised \in [value: 0 .. MaxUse, most: 0 .. MaxUse]

Nothing == [x \in {} |-> 0]
Forgotten == baseline' = NoBaseline /\ begun' = 0 /\ crowded' = FALSE
             /\ contact' = [d \in Domains |-> 0]

TrafficInit ==
    /\ now = Lag + 1
    /\ baseline = NoBaseline /\ begun = 0 /\ crowded = FALSE
    /\ contact = [d \in Domains |-> 0]
    /\ findings = <<>> /\ flowsSeen = 0

-----------------------------------------------------------------------------
\* _emptyBaseline: it begins with the hour of the flow.
EmptyBaseline(ts) ==
    [first |-> ts, samples |-> [h \in 0 .. HoursOfDay - 1 |-> <<>>], known |-> Nothing,
     log |-> <<>>, lastOf |-> Nothing, deltas |-> Nothing, countries |-> Nothing]

Stamped(f, x, y) == [z \in DOMAIN f \cup {x} |-> IF z = x THEN y ELSE f[z]]
Only(f, S) == [x \in DOMAIN f \cap S |-> f[x]]
Newest(s, k) == SubSeq(s, IF Len(s) > k THEN Len(s) - k + 1 ELSE 1, Len(s))

\* _isBeacon: as many intervals as it takes are within a tenth of the median.
Beacon(deltas) ==
    /\ Len(deltas) >= MinHits
    /\ LET median == SortSeq(deltas, <)[(Len(deltas) \div 2) + 1]
       IN Cardinality({i \in DOMAIN deltas :
             10 * (deltas[i] - median) \in -median .. median}) >= MinHits

\* The hour that is written: the last of the log if it is the flow's.
Ongoing(b, ts) == b.log # <<>> /\ Last(b.log).hour = ts

\* The rate of new domains in this hour, as far as it is known, is above the average and a
\* twentieth.
ManyNew(b, ts) ==
    LET new == FoldLeft(LAMBDA n, e : n + e.fresh, 0, b.log)
        all == FoldLeft(LAMBDA n, e : n + Cardinality(e.set), 0, b.log)
        newNow == IF Ongoing(b, ts) THEN Last(b.log).fresh ELSE 1
        allNow == IF Ongoing(b, ts) THEN Cardinality(Last(b.log).set) ELSE 1
    IN newNow * all > new * allNow /\ 20 * newNow > allNow

\* score: the reasons there are to find the flow, and what they weigh.
Reasons(b, ts, d, c, large) ==
    {r \in {"spike", "unfamiliar", "country", "beacon"} :
       /\ now - b.first >= Learning
       /\ r = "spike" => large /\ Len(b.samples[ts % HoursOfDay]) >= MinSamples
       /\ r = "unfamiliar" => d \notin DOMAIN b.known /\ ManyNew(b, ts)
       /\ r = "country" => c # NoCountry /\ c \notin DOMAIN b.countries
       /\ r = "beacon" => d \in DOMAIN b.deltas /\ Beacon(b.deltas[d])}

Weight == [spike |-> 30, unfamiliar |-> 20, country |-> 15, beacon |-> 25]
Score(reasons) ==
    LET weigh(r) == IF r \in reasons THEN Weight[r] ELSE 0
    IN  weigh("spike") + weigh("unfamiliar") + weigh("country") + weigh("beacon")

\* _updateBaseline up to the eviction.
Learned(b, ts, d, c) ==
    LET entry == IF Ongoing(b, ts) THEN Last(b.log) ELSE [hour |-> ts, set |-> {}, fresh |-> 0]
        isNew == d \notin entry.set /\ d \notin DOMAIN b.known
        added == [entry EXCEPT !.set = @ \cup {d}, !.fresh = @ + (IF isNew THEN 1 ELSE 0)]
        delta == IF d \in DOMAIN b.lastOf THEN ts - b.lastOf[d] ELSE 0
        old == IF d \in DOMAIN b.deltas THEN b.deltas[d] ELSE <<>>
    IN [first |-> b.first,
        samples |-> [b.samples EXCEPT ![ts % HoursOfDay] = Append(@, ts)],
        known |-> Stamped(b.known, d, ts),
        log |-> Append(IF Ongoing(b, ts) THEN Front(b.log) ELSE b.log, added),
        countries |-> IF c = NoCountry THEN b.countries ELSE Stamped(b.countries, c, ts),
        lastOf |-> Stamped(b.lastOf, d, ts),
        deltas |-> IF delta > 0 THEN Stamped(b.deltas, d, Newest(Append(old, delta), Recent))
                   ELSE b.deltas]

Cutoff == now - BaselineWindow

\* What stands at the head of a list goes, up to the first of the young ones.
FromHead(s, young) == IF young = {} THEN <<>> ELSE SubSeq(s, Min(young), Len(s))
Young(f) == {x \in DOMAIN f : f[x] >= Cutoff}

\* The newest k of S, which f dates.
IsNewest(K, f, S, k) ==
    /\ K \subseteq S
    /\ Cardinality(K) = IF Cardinality(S) > k THEN k ELSE Cardinality(S)
    /\ \A x \in K, y \in S \ K : f[x] >= f[y]

\* _evict
Evicted(b, knownKept, countriesKept) ==
    [first |-> b.first,
     samples |-> [h \in DOMAIN b.samples |->
         FromHead(b.samples[h], {i \in DOMAIN b.samples[h] : b.samples[h][i] >= Cutoff})],
     known |-> Only(b.known, knownKept),
     log |-> FromHead(b.log, {i \in DOMAIN b.log : b.log[i].hour >= Cutoff}),
     countries |-> Only(b.countries, countriesKept),
     lastOf |-> Only(b.lastOf, Young(b.lastOf)),
     deltas |-> Only(b.deltas, Young(b.lastOf))]

\* ingest
Ingest(ts, d, c, large) ==
    LET b == IF baseline = NoBaseline THEN EmptyBaseline(ts) ELSE baseline
        reasons == Reasons(b, ts, d, c, large)
        learned == Learned(b, ts, d, c)
        known == Young(learned.known)
        countries == Young(learned.countries)
    IN /\ flowsSeen < MaxFlows /\ flowsSeen' = flowsSeen + 1
       /\ \E K \in SUBSET known, C \in SUBSET countries :
             /\ IsNewest(K, learned.known, known, MaxDomains)
             /\ IsNewest(C, learned.countries, countries, MaxCountries)
             /\ baseline' = Evicted(learned, K, C)
             /\ crowded' = (crowded \/ K # known \/ C # countries)
       /\ findings' = IF Score(reasons) < 50 THEN findings
                      ELSE Newest(Append(findings,
                              [at |-> now, high |-> Score(reasons) >= 75, reasons |-> reasons]),
                              MaxFindings)
       /\ begun' = IF baseline = NoBaseline THEN now ELSE begun
       /\ contact' = [contact EXCEPT ![d] = IF ts > @ THEN ts ELSE @]
       /\ UNCHANGED now

FlowComes ==
    \E ts \in now - Lag .. now, d \in Domains, c \in Countries \cup {NoCountry}, large \in BOOLEAN :
       Ingest(ts, d, c, large)

Hour ==
    /\ now < MaxHour /\ now' = now + 1
    /\ UNCHANGED <<baseline, findings, flowsSeen, begun, crowded, contact>>

\* A cloud that starts anew knows nothing of the device.
CloudForgets ==
    /\ baseline # NoBaseline
    /\ Forgotten /\ findings' = <<>>
    /\ UNCHANGED <<now, flowsSeen>>

TrafficNext == FlowComes \/ Hour \/ CloudForgets

-----------------------------------------------------------------------------
(* The baseline of days.                                                   *)

DeviationInit ==
    /\ week = [i \in 1 .. Week |-> 0] /\ today = 0
    /\ daily = <<>> /\ raised = [value |-> 0, most |-> 0]

UsedMore ==
    /\ today < MaxUse /\ today' = today + 1
    /\ UNCHANGED <<week, daily, raised>>

DayOver ==
    /\ week' = [i \in 1 .. Week |-> IF i = 1 THEN today ELSE week[i - 1]]
    /\ today' = 0
    /\ UNCHANGED <<daily, raised>>

\* The archive that some totals are counted in drops its oldest flows.
ArchiveCut ==
    /\ \E i \in 1 .. Week :
          /\ week[i] > 0
          /\ week' = [j \in 1 .. Week |-> IF j < i THEN week[j] ELSE IF j = i THEN week[j] - 1 ELSE 0]
    /\ UNCHANGED <<today, daily, raised>>

\* recomputeBaseline, once a day: of the days on which the device was active.  A device that
\* was not keeps the baseline it had.
Active == {i \in 1 .. Week : week[i] > 0}
RecomputeBaseline ==
    /\ \E valid \in [1 .. Cardinality(Active) -> Active] :
          /\ \A i, j \in DOMAIN valid : i < j => valid[i] < valid[j]
          /\ daily' = IF Active = {} THEN daily ELSE [i \in DOMAIN valid |-> week[valid[i]]]
    /\ UNCHANGED <<week, today, raised>>

Total(s) ==
    LET sum[i \in 0 .. Len(s)] == IF i = 0 THEN 0 ELSE sum[i - 1] + s[i]
    IN  sum[Len(s)]
Squares(s) == Total([i \in DOMAIN s |-> s[i] * s[i]])
\* The square of the number of days times their standard deviation.
Spread(s) == Len(s) * Squares(s) - Total(s) * Total(s)
Above(s) == Len(s) * today - Total(s)

\* Today is more than three standard deviations above the average, if there is any.
Deviates ==
    /\ Len(daily) >= MinDays /\ Spread(daily) > 0
    /\ Above(daily) > 0 /\ Above(daily) * Above(daily) > 9 * Spread(daily)

\* detectBehaviorDeviations, every hour.
DetectBehaviorDeviations ==
    /\ Deviates
    /\ raised' = [value |-> today, most |-> Max(ToSet(daily))]
    /\ UNCHANGED <<week, today, daily>>

DeviationNext == UsedMore \/ DayOver \/ ArchiveCut \/ RecomputeBaseline \/ DetectBehaviorDeviations

-----------------------------------------------------------------------------
\* Nothing is found before the device was watched for the time of learning, less what its first
\* flow was late, however often the cloud restarts.
NoneInLearning == \A i \in DOMAIN findings : findings[i].at - begun >= Learning - Lag

\* A domain that is contacted at fixed intervals is a familiar one unless the caps had it
\* forgotten: so "unfamiliar" and "beacon" never meet, and no finding is a high one, before a
\* device has more domains or countries than are kept.
HighNeedsCrowd ==
    /\ \A i \in DOMAIN findings : findings[i].high => crowded
    /\ baseline # NoBaseline /\ ~crowded =>
          DOMAIN baseline.deltas \subseteq DOMAIN baseline.known

\* A late flow to a domain dates it back, so that it may be forgotten early, but by no more than
\* flows are late.
FamiliarStays ==
    baseline # NoBaseline /\ ~crowded =>
       \A d \in Domains : contact[d] # 0 /\ contact[d] >= now - BaselineWindow + Lag => d \in DOMAIN baseline.known

\* A device is reported for a day only when it used more than on every day of its baseline:
\* three standard deviations are enough for that because a week has fewer than ten days.
DeviationIsNew == raised.value > 0 => raised.value > raised.most

-----------------------------------------------------------------------------
(* The inductive invariants.  Unless the caps had it forget something, the     *)
(* baseline knows of a domain what it knows of its last flow, and dates it at  *)
(* most as far back as flows are late.                                         *)
TrafficInv ==
    /\ now \in 1 .. MaxHour /\ now > Lag /\ flowsSeen \in 0 .. MaxFlows
    /\ findings \in Seq([at : 1 .. MaxHour, high : BOOLEAN,
                         reasons : SUBSET {"spike", "unfamiliar", "country", "beacon"}])
    /\ Len(findings) <= MaxFindings
    /\ begun \in 0 .. MaxHour /\ begun <= now /\ crowded \in BOOLEAN
    /\ contact \in [Domains -> 0 .. MaxHour] /\ \A d \in Domains : contact[d] <= now
    /\ baseline = NoBaseline => findings = <<>> /\ ~crowded /\ \A d \in Domains : contact[d] = 0
    /\ baseline # NoBaseline =>
          /\ baseline.first \in 1 .. MaxHour /\ baseline.first >= begun - Lag
          /\ IsFiniteSet(DOMAIN baseline.known) /\ IsFiniteSet(DOMAIN baseline.countries)
          /\ Cardinality(DOMAIN baseline.known) <= MaxDomains
          /\ Cardinality(DOMAIN baseline.countries) <= MaxCountries
          /\ DOMAIN baseline.deltas \subseteq DOMAIN baseline.lastOf
          /\ \A d \in DOMAIN baseline.deltas :
                baseline.deltas[d] \in Seq(Nat) /\ Len(baseline.deltas[d]) <= Recent
          /\ \A d \in DOMAIN baseline.known : baseline.known[d] \in 1 .. MaxHour
          /\ \A d \in DOMAIN baseline.lastOf : baseline.lastOf[d] \in 1 .. MaxHour
          /\ ~crowded => /\ baseline.known = baseline.lastOf
                         /\ \A d \in Domains : d \in DOMAIN baseline.known =>
                               contact[d] <= baseline.known[d] + Lag
    /\ NoneInLearning /\ HighNeedsCrowd /\ FamiliarStays

DeviationInv ==
    /\ week \in [1 .. Week -> 0 .. MaxUse] /\ today \in 0 .. MaxUse
    /\ daily \in Seq(0 .. MaxUse) /\ Len(daily) <= Week
    /\ raised \in [value : 0 .. MaxUse, most : 0 .. MaxUse]
    /\ DeviationIsNew
=============================================================================
