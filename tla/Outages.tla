-------------------------------- MODULE Outages --------------------------------
(***************************************************************************)
(* The watchers of server.js that tell when boxes or homes fall silent:    *)
(* runBoxHealthScan (a box is offline), detectIspWideOutage (many boxes at *)
(* once) and runOutageDetector (the devices of one home).                  *)
(*                                                                         *)
(* Time passes in units of five minutes, and every watcher runs once in    *)
(* each of them; ages are counted as far as a watcher tells them apart.  A *)
(* box that is up is heard before the watchers of a cloud that has started *)
(* look.  The fleet and the home have nothing in common but the clock, and *)
(* one of them is looked at.  Mutes are left to Alarms, readings of heat,  *)
(* memory and load are left out.                                           *)
(***************************************************************************)
EXTENDS Integers, Sequences, FiniteSets, SequencesExt, FiniteSetsExt

CONSTANTS
    Boxes, Owner,       \* [Boxes -> customers]
    Offline, Forsaken,  \* 30 minutes, two hours: a box is told to be offline in between
    NewlyOff,           \* 10 minutes: a box counts for an incident after them until Offline
    Dedup,              \* 30 minutes: an alarm of one kind is not repeated sooner
    MinFleet,           \* 3
    HomeDevices,            \* of the home
    Active, Familiar,   \* 10 minutes, an hour: a device is active, is seen recently
    MinSeen,            \* 3
    MaxIncidents,       \* incidents and outages that are opened: a bound
    MaxTurns            \* boxes and devices that come and go, and restarts: a bound

ASSUME WatchAssumption ==
    /\ {Offline, Forsaken, NewlyOff, MinFleet, Active, Familiar, MinSeen, MaxIncidents, MaxTurns}
          \subseteq Nat
    /\ Dedup \in Nat \ {0}

VARIABLES
    fleet,              \* the boxes of box_state
    down,               \* boxes that are down, devices that are quiet
    silent,             \* each box: the time since its last heartbeat
    incidents,          \* isp_incidents, the newest first
    toldOffline,        \* anomaly_dedup: the time since box_offline, by customer
    toldIncident,       \* anomaly_dedup: the time since isp_wide_outage, by customer
    quiet,              \* each device: the time since it was seen
    outageLog,          \* outage_log: which outages are open, the newest first
    watched,            \* _activeOutages: which outage is watched, 0 for none
    toRun,              \* watchers that are still to run in this unit
    turns, restarts     \* so far

fleetVars == <<fleet, silent, incidents, toldOffline, toldIncident>>
homeVars == <<quiet, outageLog, watched>>
outageVars == <<fleetVars, homeVars, down, toRun, turns, restarts>>

Customers == {Owner[b] : b \in Boxes}
Watchers == {"health", "isp", "home"}
Incident == [open: BOOLEAN, age: 0 .. 1, affected: SUBSET Boxes]
Outage == [id: 1 .. MaxIncidents, open: BOOLEAN]

OutagesTypeOK ==
    /\ fleet \subseteq Boxes /\ down \subseteq Boxes \cup HomeDevices
    /\ silent \in [Boxes -> 0 .. Forsaken]
    /\ incidents \in Seq(Incident)
    /\ toldOffline \in [Customers -> 0 .. Dedup] /\ toldIncident \in [Customers -> 0 .. Dedup]
    /\ quiet \in [HomeDevices -> 0 .. Familiar + 1]
    /\ outageLog \in Seq(Outage) /\ watched \in 0 .. MaxIncidents
    /\ toRun \subseteq Watchers

OutagesInit ==
    /\ fleet = Boxes /\ down = {} /\ silent = [b \in Boxes |-> 0]
    /\ incidents = <<>>
    /\ toldOffline = [c \in Customers |-> Dedup] /\ toldIncident = [c \in Customers |-> Dedup]
    /\ quiet = [d \in HomeDevices |-> 0] /\ outageLog = <<>> /\ watched = 0
    /\ toRun = {} /\ turns = 0 /\ restarts = 0

-----------------------------------------------------------------------------
Less(a, b) == IF a < b THEN a ELSE b
Later(ages, k, most) == [x \in DOMAIN ages |-> Less(ages[x] + k, most)]

\* k units pass; what is up is heard at their end.
Pass(k) ==
    /\ silent' = [b \in Boxes |-> IF b \in down THEN Less(silent[b] + k, Forsaken) ELSE 0]
    /\ quiet' = [d \in HomeDevices |-> IF d \in down THEN Less(quiet[d] + k, Familiar + 1) ELSE 0]
    /\ toldOffline' = Later(toldOffline, k, Dedup) /\ toldIncident' = Later(toldIncident, k, Dedup)
    /\ incidents' = [i \in DOMAIN incidents |->
                        IF incidents[i].open THEN [incidents[i] EXCEPT !.age = Less(@ + k, 1)]
                        ELSE incidents[i]]

Unit ==
    /\ toRun = {} /\ toRun' = Watchers
    /\ Pass(1)
    /\ UNCHANGED <<fleet, down, outageLog, watched, turns, restarts>>

Turn(S) ==
    /\ turns < MaxTurns /\ turns' = turns + 1
    /\ \E x \in S : down' = IF x \in down THEN down \ {x} ELSE down \cup {x}
    /\ UNCHANGED <<fleetVars, homeVars, toRun, restarts>>

\* An administrator removes a box.
RemoveBox ==
    /\ turns < MaxTurns /\ turns' = turns + 1
    /\ \E b \in fleet : fleet' = fleet \ {b}
    /\ UNCHANGED <<down, silent, incidents, toldOffline, toldIncident, homeVars, toRun, restarts>>

\* The cloud is down for k units: what is watched is forgotten, the log is not.
RestartWatchers ==
    /\ turns < MaxTurns /\ turns' = turns + 1
    /\ \E k \in {0, Dedup} : Pass(k)
    /\ watched' = 0 /\ restarts' = restarts + 1
    /\ toRun' = Watchers
    /\ UNCHANGED <<fleet, down, outageLog>>

-----------------------------------------------------------------------------
\* fireSyntheticAlarm: who was told of the same kind lately is not told again.
Told(ages, customers) ==
    [c \in Customers |-> IF c \in customers /\ ages[c] >= Dedup THEN 0 ELSE ages[c]]

RunBoxHealthScan ==
    /\ "health" \in toRun /\ toRun' = toRun \ {"health"}
    /\ toldOffline' = Told(toldOffline,
          {Owner[b] : b \in {x \in fleet : silent[x] > Offline /\ silent[x] < Forsaken}})
    /\ UNCHANGED <<fleet, down, silent, incidents, toldIncident, homeVars, turns, restarts>>

\* Five boxes, or a fifth of the fleet: in fleets this small it is one.
RecentlyOffline == {b \in fleet : silent[b] > NewlyOff /\ silent[b] <= Offline}
Threshold == Less(5, (Cardinality(fleet) + 4) \div 5)

Opens == {i \in DOMAIN incidents : incidents[i].open}
OpenOne == Min(Opens)
MayEnd == Opens # {} /\ \A i \in Opens : incidents[i].age > 0

OpenIncident ==
    /\ Len(incidents) < MaxIncidents
    /\ incidents' = <<[open |-> TRUE, age |-> 0, affected |-> RecentlyOffline]>> \o incidents
    /\ toldIncident' = Told(toldIncident, {Owner[b] : b \in RecentlyOffline})

DetectIspWideOutage ==
    /\ "isp" \in toRun /\ toRun' = toRun \ {"isp"}
    /\ LET many == Cardinality(RecentlyOffline) >= Threshold IN
       \/ Cardinality(fleet) >= MinFleet /\ many /\ Opens = {} /\ OpenIncident
       \/ /\ Cardinality(fleet) >= MinFleet /\ many /\ Opens # {}
          /\ incidents' = [incidents EXCEPT ![OpenOne].affected = RecentlyOffline]
          /\ UNCHANGED toldIncident
       \/ /\ Cardinality(fleet) >= MinFleet /\ ~many /\ MayEnd
          /\ incidents' = [incidents EXCEPT ![OpenOne].open = FALSE]
          /\ UNCHANGED toldIncident
       \/ /\ \/ Cardinality(fleet) < MinFleet
             \/ ~many /\ ~MayEnd
          /\ UNCHANGED <<incidents, toldIncident>>
    /\ UNCHANGED <<fleet, down, silent, toldOffline, homeVars, turns, restarts>>

-----------------------------------------------------------------------------
ActiveNow == {d \in HomeDevices : quiet[d] <= Active}
Seen == {d \in HomeDevices : quiet[d] <= Familiar}
IsOutage == Cardinality(Seen) >= MinSeen /\ 2 * Cardinality(ActiveNow) < Cardinality(Seen)

RunOutageDetector ==
    /\ "home" \in toRun /\ toRun' = toRun \ {"home"}
    /\ \/ /\ Seen # {} /\ IsOutage /\ watched = 0
          /\ Len(outageLog) < MaxIncidents
          /\ outageLog' = <<[id |-> Len(outageLog) + 1, open |-> TRUE]>> \o outageLog
          /\ watched' = Len(outageLog) + 1
       \/ /\ Seen # {} /\ ~IsOutage /\ watched # 0
          /\ outageLog' = [i \in DOMAIN outageLog |->
                IF outageLog[i].id = watched THEN [outageLog[i] EXCEPT !.open = FALSE]
                ELSE outageLog[i]]
          /\ watched' = 0
       \/ /\ Seen = {} \/ (IsOutage <=> watched # 0)
          /\ UNCHANGED <<outageLog, watched>>
    /\ UNCHANGED <<fleetVars, quiet, down, turns, restarts>>

Watch == RunBoxHealthScan \/ DetectIspWideOutage \/ RunOutageDetector
FleetNext == Turn(Boxes) \/ RemoveBox
HomeNext == Turn(HomeDevices)
OutagesNext == Unit \/ RestartWatchers \/ Watch \/ FleetNext \/ HomeNext

-----------------------------------------------------------------------------
\* One incident is open at a time, whatever restarts while it is.
OneIncident == Cardinality(Opens) <= 1

\* When the watchers have looked, the customer of a box that is silent for half an hour was told
\* of it, or of another box of his, in the last half hour.
OwnersTold ==
    "health" \notin toRun =>
       \A b \in fleet : silent[b] > Offline /\ silent[b] < Forsaken => toldOffline[Owner[b]] < Dedup

\* An outage that is on record as open is watched, but for those a restart forgot: these stay
\* open for ever, one for a restart at most.
OpenWatched ==
    LET open == {i \in DOMAIN outageLog : outageLog[i].open}
        forgotten == {i \in open : outageLog[i].id # watched}
    IN /\ watched # 0 => \E i \in open : outageLog[i].id = watched
       /\ Cardinality(forgotten) <= restarts

\* When boxes and devices stop to come and go, the incident ends by itself as long as the fleet
\* has as many boxes as are looked at, and the outage of a home where the devices are back.
IncidentsEnd ==
    <>[](/\ Cardinality(fleet) >= MinFleet => Opens = {}
         /\ 2 * Cardinality(ActiveNow) >= Cardinality(Seen) /\ Seen # {} => watched = 0)
=============================================================================
