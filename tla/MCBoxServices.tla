----------------------------- MODULE MCBoxServices -----------------------------
(* Small instances of the modules that guard a home: the cloud's protection  *)
(* modules with the box they speak to, the WireGuard server, and the log of  *)
(* the traffic.                                                              *)
(* They share no state: one of them runs at a time.                          *)
EXTENDS CloudModules, DeviceIsolation, SiemForwarder, CommunityIntel, VpnServers, TrafficLog

VARIABLE focus      \* the module that runs

guardVars == <<moduleVars, quarantineVars, lockVars>>
servicesVars == <<guardVars, siemVars, intelVars, vpnVars, loggingVars, focus>>

TwoSources == <<"blocklist", "urlhaus">>

ServicesInit ==
    /\ focus \in {"modules", "quarantine", "lockdown", "siem", "intel", "wireguard",
                 "flows", "names"}
    /\ ModuleInit /\ QuarantineInit /\ LockInit /\ SiemInit /\ IntelInit /\ VpnInit
    /\ TrafficLogInit
    /\ focus # "quarantine" => present = {}

Modules(A) ==
    /\ focus = "modules" /\ A
    /\ UNCHANGED <<quarantineVars, lockVars, siemVars, intelVars, vpnVars, loggingVars, focus>>
Quarantine(A) ==
    /\ focus = "quarantine" /\ A
    /\ UNCHANGED <<moduleVars, lockVars, siemVars, intelVars, vpnVars, loggingVars, focus>>
Lockdown(A) ==
    /\ focus = "lockdown" /\ A
    /\ UNCHANGED <<moduleVars, quarantineVars, siemVars, intelVars, vpnVars, loggingVars, focus>>
Siem(A) ==
    /\ focus = "siem" /\ A
    /\ UNCHANGED <<guardVars, intelVars, vpnVars, loggingVars, focus>>
Intel(A) ==
    /\ focus = "intel" /\ A
    /\ UNCHANGED <<guardVars, siemVars, vpnVars, loggingVars, focus>>
WireGuardServer(A) ==
    /\ focus = "wireguard" /\ A
    /\ UNCHANGED <<guardVars, siemVars, intelVars, loggingVars, focus>>
Logging(part, A) ==
    /\ focus = part /\ A
    /\ UNCHANGED <<guardVars, siemVars, intelVars, vpnVars, focus>>

ServicesNext ==
    \/ Modules(ModuleNext) \/ Quarantine(QuarantineNext) \/ Lockdown(LockNext)
    \/ Siem(SiemNext) \/ Intel(IntelNext) \/ WireGuardServer(WireGuardStep)
    \/ Logging("flows", FlowsNext) \/ Logging("names", QueriesNext(Patrons \cap {"c1"}))

\* The agent scans and asks for the policy as long as it runs; a send ends at the
\* latest with SOCKET_TIMEOUT_MS, a pause with its timer; cron runs wg-sync.sh every minute.
ServicesFairness ==
    /\ WF_servicesVars(Quarantine(ScanHolds))
    /\ WF_servicesVars(Siem(SendOk \/ SendFails))
    /\ WF_servicesVars(Siem(PauseEnds))
    /\ WF_servicesVars(WireGuardServer(WgSync))

ServicesSpec == ServicesInit /\ [][ServicesNext]_servicesVars /\ ServicesFairness

-----------------------------------------------------------------------------
\* What a service lists is what it does: the lists of the cloud modules survive restarts until the
\* state is replaced, and nothing set after that does (CloudModules); the new connections of a
\* locked device are to what its lists since it was locked were seen to hold (DeviceIsolation);
\* while the cloud runs every event of the forwarder is sent, waiting or counted as dropped
\* (SiemForwarder); one refresh of the feeds runs at a time (CommunityIntel); privacy mode keeps
\* the ring and the names empty and the archive as it was when it was switched on, and what is
\* kept is given up when it was said (TrafficLog).  The types come first.
ServicesAsListed ==
    /\ ModuleTypeOK /\ QuarantineTypeOK /\ LockTypeOK /\ SiemTypeOK /\ IntelTypeOK
    /\ TrafficLogTypeOK
    /\ ModulesSurvive /\ LockedAsLearned /\ SiemAccounts /\ OneRefresh
    /\ PrivacyObeyed /\ PrivacyDurable /\ RecordsFade

\* Timers do what waits for them and nothing else: a newcomer is held, and no device that the
\* household knows (DeviceIsolation), the queue of the forwarder empties (SiemForwarder), a
\* deleted peer is cut off (VpnServers).
TimersCatchUp == HouseholdSpared /\ NewcomersHeld /\ ForwardsEnd /\ RevokedCut

ServicesInv ==
    QuarantineTypeOK /\ HouseholdKnown /\ ModuleInv /\ LockInv /\ SiemInv /\ IntelInv /\ LoggingInv
=============================================================================
