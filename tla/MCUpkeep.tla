------------------------------ MODULE MCUpkeep ------------------------------
(* Small instances of what keeps boxes and cloud in order: the OpenVPN       *)
(* server of a box, the lists the cloud fetches, its watchers over boxes and *)
(* homes, and the upkeep of the agent.  They share no state: one of them     *)
(* runs at a time.                                                           *)
EXTENDS OpenVpnServer, FeedLists, Outages, BoxUpkeep

VARIABLE focus      \* the module, or the part of it, that runs

careVars == <<ovpnVars, listVars, outageVars, upkeepVars, focus>>

OneOwnsOne == [b \in Boxes |-> IF b = "b1" THEN "c1" ELSE "c2"]
\* Two versions for a model, and another model whose keys begin like theirs.
ThreeImages ==
    {[model |-> "navy", version |-> 2, key |-> "navy-2"],
     [model |-> "navy", version |-> 3, key |-> "navy-1-2"],
     [model |-> "navy-1", version |-> 2, key |-> "navy-1-2"]}

CareInit ==
    /\ focus \in {"openvpn", "feed", "blocklists", "targets", "fleet", "home", "images", "agent",
                 "crashes", "reports"}
    /\ OvpnInit /\ ListInit /\ OutagesInit /\ UpkeepInit

OpenVpn(A) ==
    /\ focus = "openvpn" /\ A
    /\ UNCHANGED <<listVars, outageVars, upkeepVars, focus>>
Lists(part, A) ==
    /\ focus = part /\ A
    /\ UNCHANGED <<ovpnVars, outageVars, upkeepVars, focus>>
Watching(part, A) ==
    /\ focus = part /\ A
    /\ UNCHANGED <<ovpnVars, listVars, upkeepVars, focus>>
Upkeep(part, A) ==
    /\ focus = part /\ A
    /\ UNCHANGED <<ovpnVars, listVars, outageVars, focus>>
\* An image for the boxes, before the box is switched on; others come and go in "images".
ImageOffered ==
    /\ running = 0 /\ calls = 0 /\ accidents = 0
    /\ \E i \in Images, c \in Payloads :
          /\ i.model = BoxModel /\ \A other \in Images : other.version <= i.version
          /\ c = CHOOSE any \in Payloads : TRUE
          /\ Upload(i, c, c)
CareNext ==
    \/ OpenVpn(OvpnNext)
    \/ Lists("feed", FeedNext) \/ Lists("blocklists", BlocklistNext) \/ Lists("targets", TargetNext)
    \/ Watching("fleet", Unit \/ RestartWatchers \/ Watch \/ FleetNext)
    \/ Watching("home", Unit \/ RestartWatchers \/ Watch \/ HomeNext)
    \/ Upkeep("images", AgentSteps \/ PowerFails \/ CloudCalls)
    \/ Upkeep("agent", AgentSteps \/ AgentExits \/ AgentCrashes \/ PowerFails \/ Publish
                          \/ HalfHour \/ ResetBaseline \/ MuteReports("integrity") \/ ImageOffered)
    \/ Upkeep("crashes", AgentSteps \/ Faults)
    \/ Upkeep("reports", AgentSteps \/ PowerFails \/ HalfHour \/ ConfigChanges
                            \/ MarkKnownGood \/ MuteReports("drift"))

\* The timers of the cloud fire, a fetch of the cloud goes on or is stuck for good, the agent goes
\* on with what it began, and systemd starts it again.
CareFairness ==
    /\ WF_careVars(Lists("blocklists", RefreshAll))
    /\ WF_careVars(Lists("blocklists", RefreshAnswered \/ RunHangs))
    /\ \A part \in {"fleet", "home"} :
          /\ WF_careVars(Watching(part, Unit))
          /\ WF_careVars(Watching(part, RunBoxHealthScan))
          /\ WF_careVars(Watching(part, DetectIspWideOutage))
          /\ WF_careVars(Watching(part, RunOutageDetector))
    /\ \A part \in {"images", "agent", "crashes", "reports"} :
          WF_careVars(Upkeep(part, AgentSteps))
    /\ WF_careVars(Upkeep("agent", AgentExits))
    /\ WF_careVars(Upkeep("agent", HalfHour))

CareSpec == CareInit /\ [][CareNext]_careVars /\ CareFairness

-----------------------------------------------------------------------------
\* What is on record is so.  An image that was verified is the one that was uploaded, the agent is
\* never torn, sending loses no crash report (BoxUpkeep); one incident is open at a time, owners of
\* silent boxes are told, open outages are watched (Outages); a client of the OpenVPN server that
\* is listed can connect (OpenVpnServer); changes add up to the whole feed, and a list that was
\* deleted stays so (FeedLists).  The types come first.
RecordsTrue ==
    /\ UpkeepTypeOK /\ OutagesTypeOK /\ OvpnTypeOK /\ ListTypeOK
    /\ VerifiedWasUploaded /\ AgentWhole /\ CrashesKept
    /\ OneIncident /\ OwnersTold /\ OpenWatched
    /\ ListedConnect /\ CrlThere /\ DeltasAddUp /\ DeletedStaysDeleted

\* When nothing new happens all comes to rest: a deleted blocklist stops to block unless refreshes
\* get stuck again and again (FeedLists), incidents end (Outages), and unless the agent is stuck it
\* is the last one published and a difference to it is told of (BoxUpkeep).
UpkeepEnds ==
    /\ BlocksHeal /\ IncidentsEnd /\ DifferenceTold
    /\ focus = "agent" => AgentCurrent
=============================================================================
