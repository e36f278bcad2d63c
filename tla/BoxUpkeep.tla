-------------------------------- MODULE BoxUpkeep --------------------------------
(***************************************************************************)
(* How a box is kept up to date and watched over: the firmware images that *)
(* administrators upload (server.js), the round the agent makes every six  *)
(* hours and when it starts (tick6h: an image, a new agent, a snapshot of  *)
(* its configuration, the hash of its own file, the way to the Internet),  *)
(* the log of its crashes, and what the cloud makes of the reports.        *)
(*                                                                         *)
(* A round waits for the cloud between its steps; the power may fail, the  *)
(* agent may die and the cloud may change at every one of them.  A request *)
(* fails, or its answer is cut short: nothing ends the wait then, and      *)
(* where curl waits in the place of the agent the whole agent stands       *)
(* still. Contents stand for their hashes.  A version is a number where    *)
(* the code compares strings.  A configuration is the policy it was made   *)
(* of and how often it was changed otherwise, as it is when it arrives.    *)
(* One of several files is hashed.  A file that took the place of another  *)
(* is on the disk. Self-updates are not disabled and images not applied,   *)
(* as the box is delivered.                                                *)
(***************************************************************************)
EXTENDS Integers, Sequences, FiniteSets, SequencesExt, FiniteSetsExt

CONSTANTS
    Images,             \* [model, version, key]: what may be uploaded; two may share a key
    BoxModel,           \* "navy"
    OwnVersion,         \* VERSION of the agent
    Payloads,           \* of images
    NoContent, Torn,         \* no content; one that was cut short
    KeptReports,        \* 14 snapshots
    KeptChanges,        \* 50 changes of the way out
    ShippedEntries,     \* entries of the crash log that fit in what is sent of it (50 KB)
    MaxEdition,         \* editions of agent.js the cloud serves: a bound
    MaxUploads,         \* calls of administrators: a bound
    MaxAccidents,       \* crashes, lost answers and power failures: a bound
    MaxTouches          \* changes of the configuration and of the way out: a bound

VARIABLES
    firmwares,          \* state.firmwares: by key the image and its hash
    files,              \* FIRMWARE_DIR: by key the content
    published,          \* the edition of /box/agent.js
    agentFile,          \* the edition in /opt/mes-box/agent.js
    newFile,            \* agent.js.new
    running,            \* the edition that runs, 0 for none
    leaving,            \* the exit of checkAgentSelfUpdate is a second away
    round,              \* where tick6h is
    ticking,            \* the first round is over: setInterval(tick6h) was reached
    offer,              \* checkOta: the image and hash it was given
    staged,             \* /tmp/mes-firmware-<version>.bin: its content and the verdict
    fetched,            \* checkAgentSelfUpdate: what it was given
    crashLog, shipping, \* crash.log: numbers of entries; what uploadCrashIfAny read of it
    rotated,            \* history: entries that logrotate moved away or that were not written
    config,             \* the configuration of the box
    configsSeen,        \* box_snapshots, the newest first
    knownGood,          \* box_known_good: a configuration
    baseline,           \* box_integrity_baseline: an edition, 0 for none
    way, wayKnown,      \* the first hops to the Internet; _lastRouteFingerprint, 0 for none
    wayChanges,         \* how many entries box_route_changes has
    recently,           \* kinds of alarms that were sent in the last half hour
    muted,              \* kinds the customer has muted
    uploaded,           \* history: [image, content] that administrators uploaded
    entries, crashes,   \* history: entries of the crash log; those of uncaught exceptions
    received,           \* history: entries the cloud was told of
    warned,             \* history: kinds of alarms sent since the baseline was reset
    calls, accidents    \* so far

cloudVars == <<firmwares, files, uploaded, calls>>
stagedVars == <<offer, staged>>
agentVars == <<agentFile, newFile, running, leaving, fetched>>
crashVars == <<crashLog, shipping, rotated, entries, crashes, received>>
alarmVars == <<recently, muted, warned>>
configVars == <<config, configsSeen, knownGood>>
wayVars == <<way, wayKnown, wayChanges>>
roundVars == <<round, ticking>>
upkeepVars == <<cloudVars, stagedVars, agentVars, crashVars, alarmVars, configVars, wayVars, roundVars,
                baseline, published, accidents>>

Keys == {i.key : i \in Images}
AgentEditions == 1 .. MaxEdition
Reports == {"integrity", "drift", "way"}
Steps == {"none", "crashlog", "ota", "download", "fetch", "write", "rename", "snapshot", "integrity",
          "way", "stalled", "blocked"}
ASSUME UpkeepAssumption ==
    /\ {KeptReports, KeptChanges, ShippedEntries} \subseteq Nat \ {0}
    /\ {MaxEdition, MaxUploads, MaxAccidents, MaxTouches} \subseteq Nat /\ MaxEdition # 0
    /\ \A i \in Images : i.version \in Nat
    /\ \E last \in Images : \A i \in Images : i.version <= last.version

NoFirmware == [image |-> NoContent, sha |-> NoContent]
NotStaged == [content |-> NoContent, verified |-> FALSE]

UpkeepTypeOK ==
    /\ firmwares \in [Keys -> [image: Images \cup {NoContent}, sha: Payloads \cup {NoContent}]]
    /\ files \in [Keys -> Payloads \cup {NoContent, Torn}]
    /\ {published, agentFile} \subseteq AgentEditions /\ newFile \in AgentEditions \cup {0, Torn}
    /\ running \in {0} \cup AgentEditions /\ leaving \in BOOLEAN
    /\ round \in Steps /\ ticking \in BOOLEAN
    /\ crashLog \cup shipping \cup rotated \cup crashes \cup received \subseteq 1 .. entries
    /\ Len(configsSeen) <= KeptReports
    /\ baseline \in {0} \cup AgentEditions /\ recently \cup muted \cup warned \subseteq Reports

UpkeepInit ==
    /\ firmwares = [k \in Keys |-> NoFirmware] /\ files = [k \in Keys |-> NoContent]
    /\ published = 1 /\ agentFile = 1 /\ newFile = 0 /\ running = 0 /\ leaving = FALSE
    /\ round = "none" /\ ticking = FALSE /\ offer = NoFirmware /\ fetched = 0
    /\ staged = [i \in Images |-> NotStaged]
    /\ crashLog = {} /\ shipping = {} /\ rotated = {} /\ entries = 0 /\ crashes = {} /\ received = {}
    /\ config = [policy |-> 0, touched |-> 0] /\ configsSeen = <<>> /\ knownGood = NoContent
    /\ way = 1 /\ wayKnown = 0 /\ wayChanges = 0
    /\ baseline = 0 /\ recently = {} /\ muted = {} /\ warned = {}
    /\ uploaded = {} /\ calls = 0 /\ accidents = 0

Mishap == accidents < MaxAccidents /\ accidents' = accidents + 1
Call == calls < MaxUploads /\ calls' = calls + 1
BoxAlone == UNCHANGED <<stagedVars, agentVars, crashVars, config, wayVars, roundVars, accidents>>

-----------------------------------------------------------------------------
\* firmware/upload: the file, then the record, which is saved.  A cloud that dies in between
\* keeps the old record, and the file is as far as it got.
Upload(i, content, got) ==
    /\ Call
    /\ files' = [files EXCEPT ![i.key] = got]
    /\ \/ got = content
          /\ firmwares' = [firmwares EXCEPT ![i.key] = [image |-> i, sha |-> content]]
       \/ UNCHANGED firmwares
    /\ uploaded' = uploaded \cup {[image |-> i, content |-> content]}
    /\ BoxAlone /\ UNCHANGED <<alarmVars, configsSeen, knownGood, baseline, published>>

\* firmware/delete, which may end in between as well.
DeleteFirmware(k, whole) ==
    /\ Call
    /\ firmwares[k] # NoFirmware
    /\ files' = [files EXCEPT ![k] = NoContent]
    /\ firmwares' = IF whole THEN [firmwares EXCEPT ![k] = NoFirmware] ELSE firmwares
    /\ BoxAlone /\ UNCHANGED <<uploaded, alarmVars, configsSeen, knownGood, baseline, published>>

\* A new agent comes with a new release of the cloud.
Publish ==
    /\ published < MaxEdition /\ published' = published + 1
    /\ BoxAlone /\ UNCHANGED <<cloudVars, alarmVars, configsSeen, knownGood, baseline>>

\* snapshot/mark-known-good and integrity-reset of an administrator.
MarkKnownGood ==
    /\ Call
    /\ configsSeen # <<>> /\ knownGood' = Head(configsSeen)
    /\ BoxAlone
    /\ UNCHANGED <<firmwares, files, uploaded, alarmVars, configsSeen, baseline, published>>
ResetBaseline ==
    /\ Call
    /\ baseline # 0 /\ baseline' = 0
    /\ warned' = warned \ {"integrity"}
    /\ BoxAlone
    /\ UNCHANGED <<firmwares, files, uploaded, recently, muted, configsSeen, knownGood, published>>

\* alarm-mutes/set of the customer, and the end of a mute.
MuteReports(kind) ==
    /\ \/ Call /\ muted' = muted \cup {kind}
       \/ kind \in muted /\ muted' = muted \ {kind} /\ UNCHANGED calls
    /\ BoxAlone
    /\ UNCHANGED <<firmwares, files, uploaded, recently, warned, configsSeen, knownGood, baseline,
                   published>>

-----------------------------------------------------------------------------
To(step) == round' = step /\ UNCHANGED ticking

\* A request of the agent that is not answered: it fails and the round goes on with the next step,
\* or its answer ends in the middle and the round waits for the rest.
Unanswered(next) == Mishap /\ (To(next) \/ To("stalled"))

\* An agent that waits in its first round makes no other; one that waits for curl does nothing.
Hung == (round = "stalled" /\ ~ticking) \/ round = "blocked"

\* text.slice(-50_000): the end of the log.
EndOfLog == {n \in crashLog : Cardinality({m \in crashLog : m >= n}) <= ShippedEntries}

\* systemd starts the agent, at first and whenever it ended.
AgentStarts ==
    /\ running = 0
    /\ running' = agentFile /\ To("crashlog")
    /\ shipping' = EndOfLog
    /\ UNCHANGED <<cloudVars, stagedVars, agentFile, newFile, leaving, fetched, crashLog, rotated,
                   entries, crashes, received, alarmVars, configVars, wayVars, baseline, published, accidents>>

Ends ==
    /\ running' = 0 /\ leaving' = FALSE /\ round' = "none" /\ ticking' = FALSE /\ fetched' = 0
    /\ wayKnown' = 0 /\ UNCHANGED <<way, wayChanges>>

\* The agent writes its crash log: an uncaught exception ends it, a rejection nobody handles does
\* not.  Both come while it waits, not while curl runs or it replaces its file.  An entry that
\* cannot be written is given up.
Waiting == running # 0 /\ round \notin {"download", "write", "rename", "blocked"}
Logged ==
    /\ entries' = entries + 1
    /\ \/ crashLog' = crashLog \cup {entries'} /\ UNCHANGED rotated
       \/ rotated' = rotated \cup {entries'} /\ UNCHANGED crashLog
AgentCrashes ==
    /\ Mishap /\ Waiting
    /\ Logged /\ crashes' = crashes \cup {entries'}
    /\ Ends
    /\ UNCHANGED <<cloudVars, stagedVars, agentFile, newFile, shipping, received, alarmVars,
                   configVars, baseline, published>>
RejectionLogged ==
    /\ Mishap /\ Waiting
    /\ Logged
    /\ UNCHANGED <<cloudVars, stagedVars, agentVars, shipping, crashes, received, alarmVars,
                   configVars, wayVars, roundVars, baseline, published>>

\* logrotate, as the agent configured it, empties the log every day, sent or not.
LogRotates ==
    /\ crashLog # {} /\ crashLog' = {}
    /\ rotated' = rotated \cup crashLog
    /\ UNCHANGED <<cloudVars, stagedVars, agentVars, shipping, entries, crashes, received, alarmVars,
                   configVars, wayVars, roundVars, baseline, published, accidents>>

\* The power fails: what is just written is cut short.
PowerFails ==
    /\ Mishap /\ running # 0
    /\ newFile' \in IF round = "write" THEN {newFile, Torn} ELSE {newFile}
    /\ staged' = [i \in Images |-> NotStaged]
    /\ Ends
    /\ UNCHANGED <<cloudVars, offer, agentFile, crashVars, alarmVars, configVars, baseline, published>>

\* The exit that follows a self-update.
AgentExits ==
    /\ leaving /\ round # "blocked"
    /\ Ends
    /\ UNCHANGED <<cloudVars, stagedVars, agentFile, newFile, crashVars, alarmVars, configVars,
                   baseline, published, accidents>>

\* /api/box/crash
CrashComes == received' = received \cup shipping

\* uploadCrashIfAny: the log is emptied when the cloud has answered, with what did not fit and what
\* was added to it meanwhile.  Then the first round begins.
CrashLogShipped ==
    /\ round = "crashlog"
    /\ \/ shipping = {} /\ To("ota") /\ UNCHANGED <<crashLog, received, accidents>>
       \/ shipping # {} /\ CrashComes /\ crashLog' = {} /\ To("ota") /\ UNCHANGED accidents
       \/ /\ shipping # {} /\ (CrashComes \/ UNCHANGED received)
          /\ Unanswered("ota") /\ UNCHANGED crashLog
    /\ shipping' = {}
    /\ UNCHANGED <<cloudVars, stagedVars, agentVars, rotated, entries, crashes, alarmVars, configVars, wayVars,
                   baseline, published>>

\* The timer does not care for a round that still waits.
RoundBegins ==
    /\ round \in {"none", "stalled"} /\ ticking /\ running # 0
    /\ To("ota")
    /\ UNCHANGED <<cloudVars, stagedVars, agentVars, crashVars, alarmVars, configVars, wayVars,
                   baseline, published, accidents>>

-----------------------------------------------------------------------------
\* /firmware/list: the records of the model; the box takes the last by version.
ListedFirmware == {firmwares[k] : k \in {x \in Keys : firmwares[x] # NoFirmware
                                                  /\ firmwares[x].image.model = BoxModel}}
Latest == CHOOSE f \in ListedFirmware : \A g \in ListedFirmware : g.image.version <= f.image.version

\* checkOta up to the answer.
ListAnswered ==
    /\ round = "ota"
    /\ \/ /\ UNCHANGED accidents
          /\ IF ListedFirmware = {} \/ Latest.image.version = OwnVersion
             THEN offer' = NoFirmware /\ To("fetch")
             ELSE offer' = Latest /\ To("download")
       \/ Unanswered("fetch") /\ offer' = NoFirmware
    /\ UNCHANGED <<cloudVars, staged, agentVars, crashVars, alarmVars, configVars, wayVars, baseline,
                   published>>

\* /firmware/download: what is there under the key now, whichever image that is.
Served(k) == IF firmwares[k] = NoFirmware THEN NoContent ELSE files[k]

\* checkOta: what curl got is compared with the hash of the list; a transfer that was cut short
\* fails and stays where it is, and for one that stands still curl waits without end, the agent
\* with it.
Matches_Whole(content) == content # Torn
Matches(content) == content = offer.sha
Download ==
    /\ round = "download"
    /\ LET got == Served(offer.image.key)
       IN \/ /\ got # NoContent /\ To("fetch")
             /\ staged' = [staged EXCEPT ![offer.image] =
                   IF Matches(got) THEN [content |-> got, verified |-> TRUE] ELSE NotStaged]
             /\ UNCHANGED accidents
          \/ /\ got # NoContent /\ Mishap /\ (To("fetch") \/ To("blocked"))
             /\ staged' = [staged EXCEPT ![offer.image] = [content |-> Torn, verified |-> FALSE]]
          \/ got = NoContent /\ To("fetch") /\ UNCHANGED <<staged, accidents>>
    /\ UNCHANGED <<cloudVars, offer, agentVars, crashVars, alarmVars, configVars, wayVars, baseline,
                   published>>

\* checkAgentSelfUpdate: what the cloud serves is compared with the file.
AgentFetched ==
    /\ round = "fetch"
    /\ \/ /\ fetched' = published /\ UNCHANGED accidents
          /\ To(IF published = agentFile THEN "snapshot" ELSE "write")
       \/ Unanswered("snapshot") /\ UNCHANGED fetched
    /\ UNCHANGED <<cloudVars, stagedVars, agentFile, newFile, running, leaving, crashVars, alarmVars,
                   configVars, wayVars, baseline, published>>

\* The new agent is written beside the old one, then takes its place; the disk may be full.
WriteAgent ==
    /\ round = "write"
    /\ \/ newFile' = fetched /\ To("rename") /\ UNCHANGED accidents
       \/ Mishap /\ newFile' = Torn /\ To("snapshot")
    /\ UNCHANGED <<cloudVars, stagedVars, agentFile, running, leaving, fetched, crashVars, alarmVars,
                   configVars, wayVars, baseline, published>>

RenameAgent ==
    /\ round = "rename" /\ To("snapshot")
    /\ agentFile' = newFile /\ newFile' = 0
    /\ leaving' = TRUE
    /\ UNCHANGED <<cloudVars, stagedVars, running, fetched, crashVars, alarmVars, configVars, wayVars,
                   baseline, published, accidents>>

-----------------------------------------------------------------------------
\* fireSyntheticAlarm: none of a kind that is muted or was sent within half an hour.
Alarm(kind) ==
    /\ recently' = IF kind \in muted THEN recently ELSE recently \cup {kind}
    /\ warned' = IF kind \in recently \cup muted THEN warned ELSE warned \cup {kind}
    /\ UNCHANGED muted
NoAlarm == UNCHANGED alarmVars

HalfHour ==
    /\ \E kind \in recently : recently' = recently \ {kind}
    /\ BoxAlone
    /\ UNCHANGED <<cloudVars, muted, warned, configsSeen, knownGood, baseline, published>>

\* A new policy is applied; the schedules, or a person on the box, change its files; the provider
\* changes the way out.
Touches == config.touched + config.policy + way - 1
ConfigChanges ==
    /\ Touches < MaxTouches
    /\ \/ config' = [config EXCEPT !.policy = @ + 1] /\ UNCHANGED way
       \/ config' = [config EXCEPT !.touched = @ + 1] /\ UNCHANGED way
       \/ way' = way + 1 /\ UNCHANGED config
    /\ UNCHANGED <<cloudVars, stagedVars, agentVars, crashVars, alarmVars, configsSeen, knownGood,
                   wayKnown, wayChanges, roundVars, baseline, published, accidents>>

\* config-snapshot compares what comes with the newest snapshot.
Drifted == configsSeen # <<>> /\ configsSeen[1] # config /\ configsSeen[1].policy = config.policy
SnapshotComes ==
    /\ IF Drifted THEN Alarm("drift") ELSE NoAlarm
    /\ LET all == <<config>> \o configsSeen IN configsSeen' = SubSeq(all, 1, Min({Len(all), KeptReports}))

\* uploadConfigSnapshot: the configuration as it is now.
SnapshotSent ==
    /\ round = "snapshot"
    /\ \/ SnapshotComes /\ To("integrity") /\ UNCHANGED accidents
       \/ /\ SnapshotComes \/ (NoAlarm /\ UNCHANGED configsSeen)
          /\ Unanswered("integrity")
    /\ UNCHANGED <<cloudVars, stagedVars, agentVars, crashVars, config, knownGood, wayVars, baseline,
                   published>>

\* integrity-report: the first report is the baseline of all later ones.
ReportComes(edition) ==
    /\ baseline' = IF baseline = 0 THEN edition ELSE baseline
    /\ IF baseline' # edition THEN Alarm("integrity") ELSE NoAlarm

\* integritySelfCheck
IntegrityReported ==
    /\ round = "integrity"
    /\ \/ ReportComes(agentFile) /\ To("way") /\ UNCHANGED accidents
       \/ /\ ReportComes(agentFile) \/ (NoAlarm /\ UNCHANGED baseline)
          /\ Unanswered("way")
    /\ UNCHANGED <<cloudVars, stagedVars, agentVars, crashVars, configVars, wayVars, published>>

\* route-change: the newest fifty are kept.
RouteComes == wayChanges' = Min({wayChanges + 1, KeptChanges}) /\ Alarm("way")

\* checkUpstreamRouteChange: a change is reported once, also when the report is lost.
RouteChecked ==
    /\ round = "way"
    /\ \/ /\ IF wayKnown \in {0, way} THEN NoAlarm /\ UNCHANGED wayChanges ELSE RouteComes
          /\ wayKnown' = way /\ round' = "none" /\ ticking' = TRUE /\ UNCHANGED accidents
       \/ /\ wayKnown \notin {0, way} /\ Mishap
          /\ RouteComes \/ (NoAlarm /\ UNCHANGED wayChanges)
          /\ \/ wayKnown' = way /\ round' = "none" /\ ticking' = TRUE
             \/ UNCHANGED wayKnown /\ To("stalled")
    /\ UNCHANGED <<cloudVars, stagedVars, agentVars, crashVars, configVars, way, baseline, published>>

CloudCalls ==
    \/ \E i \in Images, c \in Payloads : \E got \in {c, Torn} : Upload(i, c, got)
    \/ \E k \in Keys, whole \in BOOLEAN : DeleteFirmware(k, whole)
Judging == MarkKnownGood \/ ResetBaseline \/ \E kind \in Reports : MuteReports(kind)
UpdateRound == ListAnswered \/ Download \/ AgentFetched \/ WriteAgent \/ RenameAgent
ReportRound == SnapshotSent \/ IntegrityReported \/ RouteChecked
Faults == AgentCrashes \/ RejectionLogged \/ LogRotates \/ PowerFails
AgentSteps == AgentStarts \/ CrashLogShipped \/ RoundBegins \/ UpdateRound \/ ReportRound
UpkeepNext ==
    \/ CloudCalls \/ Judging \/ Publish \/ AgentSteps \/ AgentExits \/ Faults
    \/ HalfHour \/ ConfigChanges

-----------------------------------------------------------------------------
\* What the box says it has verified is what an administrator uploaded as that version for its
\* model, whatever was uploaded again, deleted or cut short since the list was read.
VerifiedWasUploaded ==
    \A i \in Images : staged[i].verified =>
       [image |-> i, content |-> staged[i].content] \in uploaded

\* The file of the agent is always a whole one, and what was torn is never renamed.
AgentWhole == agentFile \in AgentEditions /\ (round = "rename" => newFile \in AgentEditions)

\* An agent that dies of an uncaught exception leaves an entry that reaches the cloud or is still
\* to be sent, unless the cloud got as many newer ones as fit, the disk did not take it or logrotate
\* moved it away before it was sent: sending itself loses no crash, whatever is logged meanwhile,
\* though it may lose a rejection.
CrashesKept ==
    \A n \in crashes :
       \/ n \in received \cup crashLog \cup rotated
       \/ Cardinality({m \in received : m > n}) >= ShippedEntries

\* When the cloud publishes nothing new any more, the box runs the last agent in the end, unless
\* it waits in its first round for the rest of an answer, or for a firmware image that stands
\* still: only there nothing gets it going again.
AgentCurrent == (<>[](agentFile = published) /\ []<>(running = published)) \/ <>[]Hung

\* A box whose file is not the one the cloud knows is told of, unless the baseline is reset, the
\* file is what it was, the customer wants no such alarms or the agent is stuck as above: an alarm
\* that is held back for an earlier one comes with a later report.
DifferenceTold ==
    baseline # 0 /\ agentFile # baseline
        ~> baseline = 0 \/ agentFile = baseline \/ "integrity" \in warned \cup muted \/ Hung
=============================================================================
