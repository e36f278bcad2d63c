----------------------------- MODULE MCHousehold -----------------------------
(* Small instances of the modules in which a household decides what its      *)
(* devices may do and is told what they did: the time bank and the quotas,   *)
(* the alarms, the mails, the baselines of traffic, the network mode, the    *)
(* VPNs and the shaping of traffic.  They share no state: one of them runs   *)
(* at a time.                                                                *)
EXTENDS FamilyTime, Alarms, Mailings, TrafficBaseline, NetworkMode, VpnServers, VpnClients, Shaping

VARIABLE focus      \* the module that runs

toldVars == <<alarmVars, mailVars, trafficVars, deviationVars>>
boxVars == <<modeVars, vpnVars, clientVars, shapingVars>>
householdVars == <<timeVars, toldVars, boxVars, focus>>

OneAnomaly == <<"high_data">>

Init ==
    /\ focus \in {"time", "alarms", "pushes", "mails", "traffic", "days",
                  "mode", "servers", "clients", "shaping"}
    /\ TimeInit /\ AlarmInit /\ TrafficInit /\ DeviationInit /\ ModeInit /\ VpnInit /\ ClientInit /\ ShapingInit
    /\ MailInit /\ (focus # "mails" => job = "push" /\ on)
    /\ focus # "mode" => preferred = None /\ ports = {"eth0"} /\ tools = {} /\ addr["eth1"] = 0

Time(A) ==
    /\ focus = "time" /\ A
    /\ UNCHANGED <<toldVars, boxVars, focus>>
AlarmStep(where, A) ==
    /\ focus = where /\ A
    /\ UNCHANGED <<timeVars, mailVars, trafficVars, deviationVars, boxVars, focus>>
Mailing(A) ==
    /\ focus = "mails" /\ A
    /\ UNCHANGED <<timeVars, alarmVars, trafficVars, deviationVars, boxVars, focus>>
FlowSeen(A) ==
    /\ focus = "traffic" /\ A
    /\ UNCHANGED <<timeVars, alarmVars, mailVars, deviationVars, boxVars, focus>>
DailyUse(A) ==
    /\ focus = "days" /\ A
    /\ UNCHANGED <<timeVars, alarmVars, mailVars, trafficVars, boxVars, focus>>
Network(A) ==
    /\ focus = "mode" /\ A
    /\ UNCHANGED <<timeVars, toldVars, vpnVars, clientVars, shapingVars, focus>>
VpnServing(A) ==
    /\ focus = "servers" /\ A
    /\ UNCHANGED <<timeVars, toldVars, modeVars, clientVars, shapingVars, focus>>
VpnUse(A) ==
    /\ focus = "clients" /\ A
    /\ UNCHANGED <<timeVars, toldVars, modeVars, vpnVars, shapingVars, focus>>
Shape(A) ==
    /\ focus = "shaping" /\ A
    /\ UNCHANGED <<timeVars, toldVars, modeVars, vpnVars, clientVars, focus>>

Next ==
    \/ Time(TimeNext)
    \/ AlarmStep("alarms", Watching \/ Muting \/ Reporting \/ TimePasses)
    \/ AlarmStep("pushes", Reporting \/ Preferring \/ Pushing \/ TimePasses)
    \/ Mailing(MailNext) \/ FlowSeen(TrafficNext) \/ DailyUse(DeviationNext)
    \/ Network(ModeNext) \/ VpnServing(BoxVpnStep) \/ VpnUse(ClientNext) \/ Shape(ShapingNext)

Spec == Init /\ [][Next]_householdVars

-----------------------------------------------------------------------------
\* Every minute of today the cloud heard of is charged, whatever order the flows arrive in and
\* whatever parents change meanwhile; and a policy stops a device only for minutes it was heard
\* in today (FamilyTime).  The types come first.
DayCharged == [](TimeTypeOK /\ MinutesCharged) /\ StoppedForToday

\* What the household is told.  No watcher marks a device as told of while the customer has no
\* recent alarm of the kind, and no kind is told twice in its gap; a browser that subscribed
\* again is not cut off by an answer to its old subscription (AlarmDesk, Alarms); no timer sends
\* a mail twice in its period or leaves one out (Mailings); what is reported of a device's
\* traffic is new for that device (TrafficBaseline).
HouseholdSound ==
    /\ AlarmTypeOK /\ AlarmsSound /\ RenewalKept
    /\ MailTypeOK /\ MailsOnce /\ NoneMissed
    /\ TrafficTypeOK /\ NoneInLearning /\ HighNeedsCrowd /\ FamiliarStays /\ DeviationIsNew

\* The same in every state, and what a watcher's round does to its mark: a device is marked as
\* told of only with an alarm of its own or for a recent one of the same kind (AlarmDesk).
HouseholdTold == []HouseholdSound /\ MarksTold

\* A network mode, once its orders have run, is the only one that runs on the box, with its
\* traffic forwarded, and outside a bridge the box has an address and a default route
\* (NetworkMode).
ModeRuns == ModeTypeOK /\ ModeAsChosen /\ NeverStranded

\* The peers the cloud lists are on the box's record, what the interface lets in follows it
\* until something fails, and the tunnels that the cloud shows are the ones that are up
\* (VpnServers, VpnClients).
VpnAsListed == VpnTypeOK /\ ClientTypeOK /\ AwgListedServed /\ TunnelAsChosen

\* Caps, priorities and disturbances are those on record (Shaping).
ShapingTrue == ShapingTypeOK /\ ShapedAsRecorded /\ DisturbedAsListed
=============================================================================
