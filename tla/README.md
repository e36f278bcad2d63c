# A verification project for mes Network (ProxFirewall)

The program is a home-firewall service.  A **cloud** (`server.js`, one Node
process, one `state` object that is written to disk as JSON) holds customers,
boxes, policies, queues and logs.  On each **box** an **agent**
(`box-agent/agent.js` and its modules) registers, asks for its policy, runs the
commands it is given and reports what it sees.  A few **cloud modules**
(`cloud-modules/*.js`) add protection features to the cloud; the pages of the
customer and of the administrator are views of the same state.

This directory holds TLA+ modules of the parts where the order of events
decides what is right, TLC configurations that check them on small instances,
and proofs that TLAPS checks for every instance.

To run it:

    tlc -workers 2 -config WebhookQueue_all.cfg WebhookQueue.tla
    tlapm WebhookQueueProofs.tla

`PROJECT.json` lists the runs, what each shows, the mutated definitions that
break each property, the lines every definition models, the disagreements that
were met, the hazards and the theorems.

## 1. How the system moves

The cloud is single threaded: a handler or timer runs to its end or to its next
`await`, and nothing else runs meanwhile.  So one action of a model is one
handler, cut only where the code awaits.  Real concurrency comes from four
places, and they are what the modules are about:

* an `await` in a timer that does not wait for its previous run
  (`setInterval(processWebhookQueue, 5000)`, `setInterval(tick60s, 60000)` of
  the agent);
* the network between the box and the cloud, which loses requests and answers;
* processes that stop (restart, self-update, reboot, kill, power) with part of
  what they know only in memory;
* several handlers that write the same records at different times (claiming,
  revoking, deleting, restoring).

## 2. Inventory

The line numbers are those of `server.js` unless a file is named.  The state and
the operations of each module are listed at its head and in `PROJECT.json`.

| component | state | what is hard | what makes it correct | module |
|---|---|---|---|---|
| Webhook delivery (2440-2593, 6740-6790) | `webhook_queue`, attempts and `next_at` of each item | a timer that overlaps itself in an `await`; a cap that cuts | no item lost, one final outcome, order kept, everything settled | `WebhookQueue`, `WebhookContract` |
| Command channel (3700-3970; agent 1236-1300) | `box_commands`; the open request; the batch in the agent | lost answers, overlapping ticks, restarts on both sides, a cap | at most once, true results, order, nothing stuck | `BoxCommands` |
| Policy sync (8147-8410; agent 366-780, 1029-1069) | policy and version; etag, files, nftables, schedules and fail-safe of the box | partial application, stale etags, outages, reboots | a 304 means the box enforces the policy; convergence; never left without rules | `PolicySync` |
| Pairing and box authentication (7129-7423, 15850-16074; agent 74-260) | `authorized_macs`, `pending_boxes`, tokens, `box_sessions`; configuration of the box | nine ways to bind and unbind, each writing some of the records | owners exist; a used code cannot be used again; a box gets online | `BoxPairing` |
| State store (93-130, 428, 15078-15181, 15787, 18305) | `state`, state file, backups, snapshots | kill or full disk inside a save, copies of updates among the backups, restore, reset | saved writes survive; a backup goes only for newer files; a rollback can be undone | `StateStore` |
| Several WANs (`box-agent/multi-wan.js`) | WANs, mode, pins; the kernel's routes, tables, rules, marks | flapping links, a kernel that refuses, renumbered marks | the default route follows mode and health, no flapping, pins hold | `MultiWan` |
| Customer sessions (2723-3500, 5640-5720, 13330-) | customers, magic links, invitations, shares, keys, attempts | single use and revocation over restarts of a cloud that saved only some of it | a ticket works once; access ends | `CustomerSessions` |
| Administration and audit log (2063-2415) | admins, keys, hash chain of at most 3000 entries | cut and re-signed, repaired at boot, saved after the change | an edit shows, also across the cut; only the last entry can be lost | `Administration` |
| Pairing stand-in (537-970) | groups with keys, rendezvous, relay, licences | nothing saves but a 30 s timer | no member is locked out, the relay keeps order, licences stay | `PairingService` |
| Account life and bills (2723-, 5299-5560, 5923-6136) | plan, trial, pause, deletion date, invoices, codes, reminders | four timers against calls that move the dates | nothing deleted early, everything dated comes, one bill a period | `AccountLifecycle` |
| Rules and family (6226-6440, 8439-8674, 9300-9400, 13443) | rules, block switches, members, bedtime, pauses, reset | several ways to block one device, expiry | what was switched is obeyed until it expires, and the customer is told | `HouseRules` |
| State integrity (9656-9845, and five ways to delete) | everything kept under the id of a customer | every way to delete forgets other records | boxes let go; the repair spares what somebody has | `StateIntegrity` |
| Time bank and quotas (8932-9030, 7868-8060; agent) | minutes, bonus, rollover, bytes | reports late, lost, across midnight | every minute charged, nobody stopped for yesterday | `FamilyTime` |
| Alarms (2967-3160, 12929, 14452-14896) | mutes, marks, notices, subscriptions | a memory of 30 minutes behind marks of the watchers; late answers of the push service | one alarm of a kind in half an hour; nobody marked as told without an alarm of the kind | `Alarms`, `AlarmDesk` |
| Digests (4557-4907, 6151, 12700-, 13966, 15190-) | a mark for each job | restarts, preferences, calls that send at once | once in a period, none left out | `Mailings` |
| Baselines (`cloud-modules/behavior-baseline.js`, 9200-9290) | domains, countries and hours of a device; daily totals | late flows, caps, learning time | what is reported is new for that device | `TrafficBaseline` |
| Outages (14680-14896) | heartbeats, incidents, the outage log | two watchers and a restart that forgets what is watched | one incident, owners told, open outages watched | `Outages` |
| Network mode (12340-12430; `box-agent/*-mode.js`) | mode, records, addresses, routes, rules, sysctl, dnsmasq | stop and start as two orders, half-built bridges, what a mode leaves behind, reboots | the chosen mode runs and no other, and outside a bridge the box has an address and a route | `NetworkMode` |
| VPN servers (10334-10620, 10895-11147; `wg-sync.sh`, `ipsec.js`, `amnezia-wg.js`) | peers and users on both sides, in files and in the interface | a file synchronised every minute, answers after ten seconds, lost commands, failures that are swallowed | listed is on record and the record is in force until something fails; revoked is cut off | `VpnServers` |
| VPN clients (10440-10620; `wg-client.js`, `openvpn-client.js`) | profiles, the active one, tunnels, policy routing | tunnels that fail, commands that are lost | the tunnel that is shown is the one that is up | `VpnClients` |
| OpenVPN server (`openvpn.js`) | authority, certificates, profiles, `clients.json` | every command may fail half-way | a client that is listed can connect | `OpenVpnServer` |
| Shaping (`qos.js`, `disturb.js`) | priorities, caps, disturbances; queue, marks, rules | two modules share one queue, one remembers on disk and one in memory | what the kernel does is what is on record | `Shaping` |
| Updates of the box (14899-15030, 13200-13330; agent 840-1025, 2290-2308) | images, the agent's file, crash log, baseline, snapshots | power failures between any two steps | a verified image is the uploaded one, the agent is whole, sending loses no crash | `BoxUpkeep` |
| Traffic log (4942-4974, 7942-8008, 13370-13400, 13511-13567) | the ring of flows, the archive and the queries of each customer, privacy mode, retention | boxes with wrong clocks, reports that are not saved, three stores to empty | the ring and the queries keep nothing that was switched off, the archive nothing more; nothing is kept for longer than was said | `TrafficLog` |
| Lists (12560-12870, 7030-7100) | feed with its changes, blocklists, target lists | overlapping fetches against deletion, fetches that never end | changes add up, what is deleted stops to block unless refreshes hang | `FeedLists` |
| Cloud modules (`active-protect.js`, `quarantine.js`) | settings inside `state` | the object is replaced under them | lists survive restarts until the state is replaced | `CloudModules` |
| Quarantine (`box-agent/quarantine.js`) | known and held devices | a scan with two halves, lost commands, reboots | a newcomer is held, nobody known is | `DeviceIsolation` |
| Device lock (`iot-lockdown.js`) | lists learned, the kernel's set and rules | captures that overlap, a set that a new lock cannot delete | new connections only to what was captured since the lock | `DeviceIsolation` |
| SIEM (`siem-forwarder.js`) | queue, rate, counters | calls that overlap, retries after a success, a cloud that stops | every event is sent, waiting or counted while the cloud runs | `SiemForwarder` |
| Merged feed (`community-intel.js`) | published list, sources | overlapping refreshes, empty pages | one refresh at a time | `CommunityIntel` |
| Host services, dynamic DNS, wake-up timers, parsers, front ends, installation | files and data | – | – | not modelled, see section 7 |

How they interact: every component of the cloud writes `state` and either saves
at once or leaves it to the timer of `StateStore`; `BoxPairing` decides who may use
the command and policy channels; `NetworkMode`, `VpnServers`, `VpnClients`,
`DeviceIsolation` and `Shaping` get their orders through `BoxCommands` (in order,
once or never: the property that run checks); `HouseRules`, `FamilyTime`,
`FeedLists` and `CommunityIntel` end up in the bundle of `PolicySync`; every
watcher hands its alarms to `AlarmDesk`; most events of the cloud call
`fireWebhooks`.  A restore or reset replaces the `state` object as a whole:
`CloudModules` and `StateIntegrity` are about what that does to others.

The hard behaviours, with their lines, are the hazards of `PROJECT.json`; its notes say
which part of a hazard a property leaves to a history variable.

## 3. What is modelled

### WebhookQueue (contract: WebhookContract)

`queue` is the array, in order; an item is a model value.  A member of `Workers`
is a run of `processWebhookQueue` that may be suspended in `await deliverOne`;
it keeps its index `i` and the items that were due at the `now` it captured.
What runs between two awaits is one action: `StartWorker`, `Delivered`, `Retry`,
`GiveUp` each handle the answer, splice **at the index**, and walk on to the
next due item.  `Fire` pushes and cuts (`slice(-300)` makes a new array, the
index of a suspended run stays), `PushTest` pushes past the cap.  Time is the
set `due`.  `WebhookContract` says what the queue promises of one item: queued,
at most `MaxAttempts` attempts, one outcome.  `ContractKept` is the refinement.

History variables: `overlapped` (two runs were suspended together) and `capped`
(items the cap removed).  `Regular` is the regime the worker was written for;
`NoSilentLoss`, `OutcomeFinal`, `ContractKept` and `EventuallySettled` are
claimed in it, `OrderKept` always.

### BoxCommands

`mem` and `disk` are the statuses in memory and in the state file, `waiter` the
request of the customer that polls for 15 s, `tick` the runs of the agent's
minute timer (idle, polling, running, posting, with the rest of their batch).
`HandlePoll` marks all pending commands in_progress and saves; `PollLost` and
`ResultLost` are the network; `AgentRestart` is a reboot command's timer or any
other end of the process; `CloudCrash` starts the cloud from the file.  History:
`harmed` (something was cut short), `overlapped` (two ticks had commands).

### PolicySync

A policy is a model value that differs from every other in each part.  `has`
says what each part of the box (cache file, dnsmasq files, nftables, schedules)
was last given, `dnsLive` what the running dnsmasq has read, `reload` the
one-second restart timer, `drop` whether the scheduled device is in the nftables
set.  `HandleBundle` is the second half of `syncPolicy` with all of
`applyPolicy`: the etag is stored first, then the parts are written in the order
of the code, and `Completes(f)` are the parts that take the bundle when the
write `f` fails.  `SyncFails` contains the fail-safe.  History: `met` (faults
since the box booted), `overlapped` (two ticks of this process).

### BoxPairing

Three records that must agree, per MAC: `owner` (`authorized_macs`), `pending`
(the code and who used it) and the box's own disk (`cfg`), with `session` and
`trusted` for the two ends of the token.  Each handler is an action; what a
handler forgets to do is forgotten here: `PrepairClaim`, `Assign` and
`Authorize` rebind an owned box and leave its code, `Revoke` leaves the code,
`Unseed` leaves the boxes.  History: `rebound` (boxes bound away from the box
since they registered), `ghosts` (ids an administrator typed, or unseeded).

### StateStore

The contents of the state are the set of the writes made to it.  A save is two
steps, opening (which empties the file) and writing, so that a kill or a full
disk can fall between; a torn file is read as no file.  `DailyBackup` writes
the file of the date, on a timer five seconds after each start and once a day,
and rotates; `BackupFails` is one that ends in the `catch`, with no file or a torn
one (`CutFile`).  Rotation looks at every file that begins with `mes-cloud-`, so
`copies` counts those that `deploy-update.sh` puts there (`PreUpdateCopy`): they
sort after the dated ones, which therefore go first (`Rotated`).  History: `saved`,
`atStop` and `torn`.

### MultiWan

The agent calls the module synchronously, so a command or a sweep of the probes
runs to its end before the next; `pc` cuts a command into its three calls
(`Configure` with `ConfigureRoute`, `SetMode`, `Start`), each of which may throw,
and a sweep into one `ProbeWan` per WAN.  A WAN is named by its interface.
`main`, `tables`, `rules` and `mangle` are the kernel's, which outlives the
agent (`Restart`) and may refuse a route, lose one with its link, or be given
one by somebody else.  `PathOf` is where the kernel sends a device.  `fails` and
`ok` saturate at the thresholds they are compared with, and `history` keeps as
many results as the larger threshold, where the code keeps 20.  `Overflows` is
mode `balance` with one WAN up, where the two functions that set the route call
each other until a `RangeError`, which a command hands on and a sweep catches.
History: `met`, what the kernel or a list did that the code takes no notice of.
`unrouteDevice` and `stop` are exported and never called, and left out.

### The modules beside the core

They follow the same conventions: a handler or a timer of the cloud is an
action; a command of the box is queued in one action and run in another, and may
be lost; what is in memory, in a file and in the kernel are different variables;
a restart keeps what was saved.  Modules that share no state are checked
together: an MC module has one of them run at a time (`focus`, or `subject` in
`MCDates`).  The heads of the modules say what is left out.

* **CustomerSessions** — a session is a claim with an end that nobody stores;
  it is refused by its end, by the revocation time of its account and when the
  account is gone.  `saved` is what the last save wrote: what a handler does
  without saving (a recovery code that is used to sign in) is lost in
  `CloudRestarts`.
* **Administration** — a hash is modelled as what it covers.  `Log` appends,
  cuts and re-signs; `RepairLog`, `BootMark` and `BootCheck` are the checks; an
  edit of the file, and what became of it, is a history variable.
* **PairingService** — `given` keeps the keys that answers handed out.  An update
  puts whatever its caller sends into the group (`Object.assign`): `Updates` are the
  keys of an earlier reading, and members as an array, with which later calls
  throw until a restart makes them a `Set` again (`listed`, `Fails`, `AsSets`).
  Calls of staff save at once, all else waits for the timer.
* **AccountLifecycle** — dates are the days that are left; `Day` passes one and
  the four timers may run at any moment.
* **HouseRules** — `Stopped` is what the bundle makes of rules, switches, pauses
  and bedtime; `wish` is what the customer asked of a device last.
* **StateIntegrity** — the kinds of records kept under an id, and which of them
  each deletion removes (`FinalRemoves`, `BulkRemoves`, ...).  After a reset a
  call that needs a missing map throws where it stands.
* **FamilyTime** — the minutes of a day come as flows, posted or from conntrack,
  late or lost; `heard` counts them.
* **AlarmDesk, Alarms** — `AlarmDesk` has the operators of `fireSyntheticAlarm`
  and `pushNotification` with the desk as an argument; `Alarms` has the watchers.
  The desk remembers kinds of alarms and not devices, and the watchers mark devices:
  `MarksTold` says what a mark is worth.
* **Mailings** — one job at a time, over hours and days, with the mark in its
  own clock (local days, UTC days, ages).
* **TrafficBaseline** — the scores, learning and caps of `ingest`; and the
  three-sigma test of daily totals, in whole numbers (`Spread`, `Above`).
* **NetworkMode** — twenty variables for the records of four modes and the
  kernel, among them `leftovers` and `sysctls` for what a stop does not take back;
  `strayed` says when cloud and box have parted by a lost order, a failed start, a
  bridge that was installed twice (`BridgeFlushed`) or an administrator's order.
* **VpnServers, VpnClients, OpenVpnServer** — both sides of each list.  In
  `VpnServers`, `waiting` and `answers` are `_waitForCmd` with its timeout.  AmneziaWG
  is three things: `awg_server` (`peers.json`), `awg_conf` (`awg0.conf`) and
  `awg_iface` (what `awg0` lets in).  A write, a `syncconf` or an `awg-quick up` that
  fails leaves one of them behind and is answered as done (`AwgSetup`, `AwgReload`);
  a write of `peers.json` that is cut short forgets the peers (`PeersUnwritten`), and
  after `VpnBoxReboots` the interface is down.
* **Shaping** — marks in the order in which the kernel applies them, so that the
  last one wins (`MarkOf`).
* **BoxUpkeep** — `round` is where `tick6h` waits; versions, files and hashes are
  kept apart, and the power may fail at every step.  Of the crash log what is sent
  is its end (`EndOfLog`, 50 KB in the code), and all of it is emptied then:
  `CrashesKept` says that a crash is told or as many newer ones are as fit, unless
  the disk did not take it or `LogRotates` moved it away before it was sent (history
  `rotated`).  A download that stands still blocks the agent (`round = "blocked"`),
  an answer that stands still its first round; both are `Hung`.
* **FeedLists** — a refresh keeps what it has merged so far while lists are
  added and deleted.  One may never get an end of a fetch, of this customer's list
  (`RunHangs`) or of an earlier customer's (`OthersHang`), and then writes nothing.
* **TrafficLog** — `log` is the part of `state` that privacy mode and retention are
  about, `disk` what of it was saved; an archived flow has the time it came beside
  the time a box put on it, for the two decide when it goes.  A customer is deleted
  by his own wish, which empties his lists, or dropped by staff, which leaves them;
  the names go with `Autofix`, the flows do not.
* **Outages** — units of five minutes in which every watcher runs once.
* **CloudModules** — `held` and `served` are the object of the modules and the one
  of the server, `attached` while they are the same.
* **DeviceIsolation** — the quarantine and the lock of a device, which share nothing
  but their subject.  A lock that is set again cannot delete the set its rules use and
  adds to it (`Filled`): `locked` is what the lists since the lock held together.
* **SiemForwarder, CommunityIntel** — one module of the program each.  The counters of
  the forwarder are saved by the timer (`saved`), and `CloudRestarts` forgets the
  calls under way.

## 4. What is checked

Every passing run checks safety and liveness of its modules at once.  Where a
property needs a regime (no overlap, no failed write) it is stated with a
history variable and not with a smaller instance, so the same run contains the
behaviours outside the regime too, and the unconditional properties are checked
there.

| run | instance | states | properties |
|---|---|---|---|
| `webhook` | 3 items, 2 runs of the worker, cap 2 → 1, 2 attempts | 127 000 | `NoSilentLoss`, `OrderKept`, `ContractKept`, `EventuallySettled` |
| `commands` | 3 commands (one a reboot), 2 ticks, cap 2, all faults | 188 000 | `AtMostOnce`, `ResultsTrue`, `InProgressHeld`, `InOrder`, `EventuallyFinished` |
| `policy` | 2 policies, 2 ticks, 2 changes, 2 mishaps of 6 kinds | 631 000 | `UnchangedIsTrue`, `FailSafeKeeps`, `Converges`, `NeverLeftOpen`, `WindowBlocks` |
| `pairing` | 2 boxes, 2 customers (one of them a demo), 9 channels, 3 operations | 278 000 | `OwnerExists`, `ClaimableUnowned`, `EventuallyOnline` |
| `store` | 2 writes, 3 days, 2 files kept, 2 copies of updates, 2 snapshots, 6 kinds of events | 3 159 000 | `SavedSurvive`, `StopSaves`, `PastBackupsKept`, `RollbackUndoable` |
| `multiwan` | 2 WANs, 4 lists, 3 modes, 1 pinned device, 3 commands, 1 mishap of 4 kinds, thresholds 2 | 429 000 | `DefaultFollows`, `PathAsPinned`, `Hysteresis`, `RouteNeverDropped`, `FailsOver` |
| `accounts` | 1 customer, 2 addresses, 2 tickets; 1 administrator, 1 key, log cut at 2; 2 endpoints, 2 groups of which 1 at a time, 2 keys, 1 box | 818 000 | `AccessRight`, `AuditTells` |
| `dates` | 1 account, 2 plans, 2 invoices; 1 device, 1 child, 2 rules; 2 households, 1 box | 247 000 | `BooksSound`, `DeletionsHold`, `DatesKept` |
| `household` | 1 device (2 in the alarms), clocks of 2 to 10 steps, 2 domains, 2 ports, 2 users, 3 profiles | 1 220 000 | `DayCharged`, `HouseholdTold`, `ModeRuns`, `VpnAsListed`, `ShapingTrue` |
| `box_services` | 1 or 2 devices, 3 events, 1 of them a minute, 2 attempts, 1 stop, 2 sources, 2 users; 2 customers with 2 records of traffic and 1 change of what is kept, 3 hours | 276 000 | `ServicesAsListed`, `TimersCatchUp` |
| `upkeep` | 2 clients, 2 lists, 3 boxes, 3 devices, 3 images, 2 accidents | 261 000 | `RecordsTrue`, `UpkeepEnds` |
| `policy_window_end` | 2 policies, 1 tick | violation | `WindowUnblocks`: devices stay cut off after their window |

The properties of the last five passing runs conjoin what each module promises:

* `AccessRight` — `UsedOnce` (links, invitations, codes and changes of address
  work once), `AccessEnds` (no session outlives a revocation or, by more than its
  own length, the share it came from), `OneKeyEach`, `KeysKept`, `RelaySound`,
  `LicenceKept`.
* `AuditTells` — `AuditHonest`: an edit of the file is told, cut or no cut, and
  only the entry after the last save can be lost.
* `BooksSound` — `PlanAccounted`, `BillingSound`, `BoxesLetGo`; `DeletionsHold` —
  `DeletionGrace`, `RepairSpares`; `DatesKept` — `DatesCome`, `ExpiryTold`,
  `SwitchObeyed`.
* `DayCharged` — `MinutesCharged`, `StoppedForToday`; `HouseholdTold` —
  `AlarmsSound`, `MarksTold`, `RenewalKept`, `MailsOnce`, `NoneMissed`, `NoneInLearning`,
  `HighNeedsCrowd`, `FamiliarStays`, `DeviationIsNew`; `ModeRuns` — `ModeAsChosen`,
  `NeverStranded`; `VpnAsListed` — `AwgListedServed`, `TunnelAsChosen`;
  `ShapingTrue` — `ShapedAsRecorded`, `DisturbedAsListed`.
* `ServicesAsListed` — `ModulesSurvive`, `LockedAsLearned`, `SiemAccounts`,
  `OneRefresh`, `PrivacyObeyed`, `PrivacyDurable`, `RecordsFade`; `TimersCatchUp` — `HouseholdSpared`, `NewcomersHeld`,
  `ForwardsEnd`, `RevokedCut`.
* `RecordsTrue` — `VerifiedWasUploaded`, `AgentWhole`, `CrashesKept`,
  `OneIncident`, `OwnersTold`, `OpenWatched`, `ListedConnect`, `CrlThere`,
  `DeltasAddUp`, `DeletedStaysDeleted`; `UpkeepEnds` — `BlocksHeal`,
  `IncidentsEnd`, `DifferenceTold`, `AgentCurrent`.

Each part is stated, with the regime it needs, in the module it is about.

**Bounds.**  Three items let one be delivered, one be skipped and one shift
under an index; two runs are the least that overlap, and a third adds no new
pair.  Cap 2 → 1 cuts with one item in delivery.  Three commands fill a batch of
two and leave one behind; cap 2 shifts.  Two policies suffice because only
equality is ever asked; two changes let the policy go away and come back
(the case where an etag of an overlapping tick lies).  One value of the global
version suffices in the run: a change of the policy already changes the etag.
Two mishaps allow a fault and a reboot, or an outage and a reboot.  Two boxes
and two customers let a QR token or a code meet the wrong one.  Three days with
two files kept rotate, and two copies of updates are as many as drive out every dated
backup but the day's own.  Two WANs
are enough for a first, a next and both; the lists swap them (which renumbers the
marks), move one to another gateway, and leave one alone without a gateway.
Three commands configure, change the list and configure again, or pin in
between; the thresholds are 2 where the code has 3 and 2, the least at which a
single failure is not yet enough.  `MaxChanges`, `MaxMishaps`, `MaxOps`,
`MaxSnaps`, `LastDay` and `MaxCommands` are the only counters that are capped,
each in a guard; they bound how long the environment acts, not what the
program does.

In the composed runs, clocks are as long as the longest period needs to come
twice: three days of two minutes, ten hours of two days, two units more than the
age at which a box is forsaken.  Two tickets, rules, households or lists are the
least that may be confused with one another.  Periods and lives keep their order
(a session lives longer than a link), not their size.  Where the code compares a
number with a threshold, the threshold is the least at which one less is still
possible.  The cap of the audit log is 2 → 1, so that a log is cut with an
unverified entry in it.  Two keys of a group are the least of which one can be lost
or doubled, and one change of what is kept of the traffic lets the archive hold
what was allowed before it; of both, the theorems say the same for any number.  Three boxes of two owners are the least fleet that has an
incident.  The counters of calls and mishaps (`MaxRequests`, `MaxActs`,
`MaxCalls`, `MaxDeeds`, `MaxChanges`, `MaxEdits`, `MaxSwitches`, `MaxOrders`,
`MaxShapes`, `MaxWishes`, `MaxFlows`, `MaxFetches`, `MaxUploads`, `MaxAccidents`,
...) are guards of what people and faults do, never of what the program does; the
coverage of the runs shows every action taken.

**Deadlock.**  The runs of webhooks and commands end when every item and command
has been created and settled, and so does a box with several WANs that has had
its commands and was never started or was restarted; their configurations say
so.  The others never stop.  The composed runs stop
when clocks and counters are at their bounds, and say so too.

**Fairness.**  Weak fairness of the timers (`setInterval` fires again as long as
the process lives; a sweep that has begun goes on to its end), of the end of a started request (it is answered, fails or
times out: each is an alternative of one fair action, none of them is forced)
and of the passing of time.  No fairness is assumed of people, of the network
being up, of faults, nor of the clock entering a window.  `Heartbeat` has strong
fairness: the agent sends one each minute, whatever happened to its session in
between, and a session that is replaced again and again is live at infinitely
many of them.  In the composed runs weak
fairness is asked of the timers (`Day`, `AutoResume`, `TrialJob`,
`ScheduledDeletions`, `Sweep`, the scan of the agent, cron's `WgSync`, the
watchers), of a send to a log server that has begun (a socket
timeout ends it) and of the agent going on and being started again by systemd.  Of a
refresh of blocklists it is only assumed that it goes on or hangs for good
(`RefreshAnswered \/ RunHangs`), of the first fetch of a new list nothing: `BlocksHeal`
allows for refreshes that hang again and again, as `AgentCurrent` and `DifferenceTold`
do for an agent that stands still (`Hung`).  The runs `accounts` and `household`
check safety and steps only.

**Mutants.**  Each property of each passing run is broken by a mutated definition
next to the original (`Splice_OffByOne`, `PollSave_Skipped`, `Dirty_Never`,
`Cleared_Not`, `Rotated_OneLess`, `FireAll_Stale`,
`Cut_Unsigned`, `DropOldRules_Exact`, ...): a plausible slip in that code that the run
would catch.

## 5. What is proved

All theorems hold for any values of the constants allowed by the named
assumptions of the modules; no theorem assumes that nothing fails.

Each proof gives an inductive invariant (`IndInv`, `...Inv`), which the module of
the component states as a conjunction of named parts, and which TLC checked as an
invariant of the run before it was proved.

The core:

* **WebhookQueueProofs** — `TypeCorrect`, `IndInvCorrect`, `NothingLost`,
  `OutcomesFinal`, `OrderCorrect`, `ContractCorrect`.  The loss of an item is
  excluded because the index of the suspended run points at its item
  (`PointerSound`), which needs the queue to be without repetitions
  (`QueueSound`) and every item to be either queued or accounted for
  (`AccountSound`).  `RemoveAtProperties` is the lemma on cutting an item out,
  `OrderCorrect` its consequence for every step, overlapping runs included.
  `ContractCorrect` is the refinement: the initial state and each step of a
  regular behaviour map to one of `WebhookContract` or to a stutter, for any item.
* **BoxCommandsProofs** — `TypeCorrect`, `IndInvCorrect`, `NeverTwice`,
  `NothingStuck`, `HeldInvCorrect`, `ResultsCorrect`, `OrderCorrect`.  At most once
  follows from `HandedOutOnce`: what a tick holds or the box has run is pending
  neither in memory **nor in the file**, so a cloud that starts from the file does
  not hand it out again.  `ResultsCorrect` needs the results in the file to be
  true as well (`DiskTrue`), `OrderCorrect` that what the box was given is older
  than all that is pending, in memory and in the file (`GivenFirst`), that until
  ticks overlap one tick has commands (`OneBusy`) and that what it has run is older
  than what it still holds (`RunFirst`).
* **PolicySyncProofs** — `IndInvCorrect`, `EtagCorrect`, `UnchangedCorrect`,
  `FailSafeCorrect`.  The etag alone is not inductive: a bundle whose dnsmasq
  files are in place already does not restart dnsmasq, so one has to know that
  the running dnsmasq had read them (`DnsFollows`).  `UnchangedCorrect` also
  needs that, until ticks overlap, the etag under way is the one in memory
  (`SentIsHeld`).
* **RecordsProofs**, for the state store — `TypeCorrect`, `IndInvCorrect`,
  `SavedCorrect`, `StopCorrect`, `RollbackCorrect`, `BackupsCorrect`.  The last one
  needs an argument about cardinalities: if rotation gave a day up and the directory
  held fewer than `Keep` newer files, copies of updates included, the last of the newer
  days that it gave up too would have fewer than `Keep` newer ones itself, and would
  have been kept.
* **MultiWanProofs** — `TypeCorrect`, `IndInvCorrect`, `DefaultCorrect`,
  `HysteresisCorrect`, `RouteNeverDroppedCorrect`, `PinnedCorrect`, for any number
  of WANs and any thresholds.  `DefaultFollows` alone is not inductive: the route
  is only set when it differs from `currentDefault`, so the record has to be true
  of the kernel (`RecordTrue`), names in a list distinct (`NamesDistinct`) and
  gateways known (`GatewaysKnown`).  `HysteresisCorrect` needs that the counters
  count the newest results (`CountsTrue`), whatever the window of the history.
  `PinnedCorrect` needs that the marks of the pinned devices are those of the list
  in force (`MarksCurrent`) and that the kernel's rules send each mark to the table
  of its WAN, unless the kernel refused (`RulesCurrent`).

The modules beside the core, in their compositions:

* **HouseholdProofs** — `DayCorrect` (`DayCharged`), `ToldCorrect`
  (`HouseholdTold`), `ModeCorrect` (`ModeRuns`), `VpnCorrect` (`VpnAsListed`) and
  `ShapingCorrect` (`ShapingTrue`).  A change of mode is two orders that may run much later, so
  `ModeInv` describes the road that the orders still waiting lead along
  (`OnCourse`: from what runs now, `Course` comes to the chosen mode), that the
  snapshot of a bridge has an address and a route (`SnapshotSound`) and that the
  kernel has no rules of the router mode but those on record (`RulesOnRecord`); what
  the modes leave behind is only added to.  `VpnInv` says which orders and answers are
  under way for a peer (`QueueSound`, `AnswersTrue`) and that the configuration never
  has two peers with one address (`ConfSound`); `ClientInv`
  where the tunnels are heading (`Towards`) and that the household's traffic goes
  through the one that is up (`HouseholdThrough`).  Addresses are handed out by the
  first that is free, for which `FirstExists` shows that a set of numbers has a
  least one.  Of the shaping, `QosInv` says that every mark is that of a device on
  record and of its class, that no two devices have the same one, and that the
  rules of the kernel are those of a cap on record; `DisturbInv` that, while nothing
  outside the agent touched the interface, its queues are those of the policies
  and every policy has one mark (`Installed`).

  `DayCorrect` follows from `TimeInv`: an entry of the time bank was charged today
  for no fewer minutes than it was heard in and no more often than it was heard,
  and one that nobody looked at today was not heard today, so that the late reset
  of `timeBankResetIfNew` neither loses nor carries over a minute.
  `ToldCorrect` has one invariant for each module.  `MailInv`: the mark of a digest
  is the newest mail, and every hour up to the one its timer fired in last was
  served (`Served`); that no mail is sent twice rests on the arithmetic of hours and
  days (`DaysGrow`), and of the drip on counting its days (`DueAll`).  `AlarmInv`:
  the memory of the desk goes back as far as the gap between two alarms
  (`DeskKept`), and a push answered "gone" was sent to another subscription than
  the browser's own; a step that sets a mark leaves an alarm of the kind that is
  younger than the gap, or the kind is muted or the list full.  A step that fires
  several alarms is a fold, of which `DesksExist` shows that it is there and keeps
  the invariant.  `TrafficInv`: until
  the caps make it forget, the baseline dates a domain by its last flow, and dates
  it back by no more than flows are late.  `DeviationInv` needs that a value
  more than three standard deviations above the average is above every value (`FarAbove`,
  Samuelson's inequality): it is shown by counting up the sums of the prefixes, and
  holds for weeks of at most ten days, which `TrafficAssumption` asks for.
* **RecordsProofs**, for the upkeep — `RecordsCorrect` (`RecordsTrue`), with one
  part of `CareInv` for each module of `MCUpkeep`.  `OvpnInv`: one authority signed
  whatever is about, and a server that has settled speaks the protocol that
  `clients.json` has.  `FeedInv`: the feed on file is the one in memory, and an
  etag stands for one list of domains wherever it is kept (`Delta` is then what
  the box lacks).  `TargetInv`: a list that is gone was made before, so an id never
  comes back.  `FleetInv`, `HomeInv`: one incident at most is open, and the ids of
  outages count them, so that those a restart forgot are bounded by an image of a
  finite set.  `ImageInv`: what is listed or offered was uploaded as it is.
  `AgentInv`: what is written was fetched, and what is renamed was written.
  `CrashInv`: a crash in the log under way is shipped, was rotated away, or stands
  behind as many as fit into an upload; `EndOfLogFull` shows this by looking at the newest entry
  that does not fit.
* **AccountsProofs** — `AuditCorrect` (`AuditTells`), `AccessCorrect`
  (`AccessRight`), `BooksCorrect` (`BooksSound`), `DeletionsCorrect`
  (`DeletionsHold`).  In the first a hash is what
  it covers, the entry and all before it.  `LogSound` then says that an edit
  that nobody has told yet shows in the chain, of memory and of the file, and one
  that was told is marked; `OneAhead` that memory is the file or one entry ahead of
  it; and `Room` how far the markers of starts may take the log past its bound.  `LifeInv` is the induction for the books: the history
  accounts for the plan (`HistorySound`), a period is billed once (`BilledOnce`),
  a code is counted as often as it was used (`CodeCounted`: the cardinality of a
  set of invoices, kept by a bijection), reminders were sent in order and for days
  that have come (`SentSound`).  Deletions are never early because the days that passed and
  the days that are left add up to the grace (`AskedSound`).

  `AccessCorrect` (`AccessRight`) is the proof about restarts: a cloud comes back
  with what it saved last, so that all that keeps a customer out has to hold of the
  file as well.  A ticket that had its effect is marked or gone, in memory and in
  the file (`TicketsTrue`); an account carries the time of its last revocation in
  both (`AccountsTrue`); what came of a share was issued before the share ended and
  has the length of such sessions (`SessionsTrue`); a code is unspent as long as
  nothing was forgotten (`CodesUnspent`).  Of the stand-in it needs that nobody has
  two keys in a group of memory or file (`GroupsTrue`), that messages are numbered
  in the order of posting and stay in it through cuts, restarts and filters
  (`SentTrue`, `ListTrue`), that the "since" of a reader is the time of something it
  got and nothing it got is newer (`ReaderTrue`), and that a licence belongs to one
  box and the one on file is the one it has (`LicencesTrue`).
* **BoxProofs** — `OwnerCorrect`, `ClaimableCorrect` for `BoxPairing`, by induction
  over every handler; `ServicesCorrect` (`ServicesAsListed`) and `SparedCorrect`
  (`HouseholdSpared`, the first conjunct of `TimersCatchUp`) for the modules of
  `MCBoxServices`.  `ServicesInv` has one part for each: the object of the cloud
  modules is the server's until the state is replaced, and from then on the file is what
  was put in its place (`SameObject`, `putBack`); what a lock lets through was captured
  (`ListsCaptured`); the file has the list of one
  whole refresh (`FileWhole`); the list of the last minute is the end of what was
  let through, and what fell off it is older than a minute (`RateIsRecent`), and
  every call of the forwarder under way has its place (`CallsApart`); all that is
  said of the log holds of the file as well, which a cloud that dies comes back
  with (`LoggingInv`), and archives are in the order of arrival, so that cutting
  their head leaves nothing too old (`FadedIsEnd`).

`OnlyProperties` says what a filter returns, for any list: as the library's
induction theorems cannot be used, the recursive function is shown to exist, and
its properties to hold, by looking at the first number for which they would not
(`FirstExists`, `CountUp`).  The sums of a baseline (`SumsExist`) and the alarms of
one step (`DesksExist`) are treated alike.  Elsewhere the proofs meet no recursion: a
list is cut with `SubSeq`, and `Cardinality` counts.

Assumptions on the constants (`WebhookAssumption`, `NoneIsNothing`,
`VpnAssumption`, `ShapingAssumption`, `LifecycleAssumption`, `LoggingAssumption`,
`OpenVpnAssumption`, `ListAssumption`, `WatchAssumption`, `UpkeepAssumption`,
`TimeAssumption`, `MailAssumption`, `AlarmAssumption`, `TrafficAssumption`, ...)
say that bounds are numbers, that an absent value is no value, that a default is
among the choices, that there is a latest version, that a baseline is of one to ten
days (the code has seven) and that two days are no shorter than the gap between two
alarms of a kind (the code has half an hour).  TLC evaluates them in the runs.

Only model-checked:

* liveness, which is out of the prover's reach: `EventuallySettled`,
  `EventuallyFinished`, `Converges`, `NeverLeftOpen`, `WindowBlocks`,
  `EventuallyOnline`, `FailsOver`, and the parts of `DatesKept`, `TimersCatchUp` and
  `UpkeepEnds` that say what comes.

`IndInvCorrect`, `HeldInvCorrect`, `OutcomesFinal`, `EtagCorrect` and
`SparedCorrect` prove strengthenings, or parts, that no run lists under that name.

## 6. What the code does that its words do not say

The finding of `PROJECT.json` quotes its lines.  Besides, the models contain the
following behaviour, for which no run is kept.

Core:

* two overlapping runs of the webhook worker splice one array by index: the
  second removes an item that was never delivered (2576; the comment at 2463
  promises a retry, "give up after 5 attempts");
* a lost answer to a poll leaves its commands in_progress for ever (3955; 3948
  answers "Box will execute on next poll.");
* a code survives the revocation of its box; a claim is then confirmed ("is now
  linked to your account", 7364) and links nothing (7358);
* rotation keeps the last 14 of all files that begin with `mes-cloud-` (15170; 15155
  and `OPERATIONS.md:180` speak of the daily ones): each `mes-cloud-pre-update-*` copy
  sorts after them and takes the place of one, so that after 14 updates no past day is
  left; a backup whose write fails is logged (15176) and leaves the day without one, or
  with a torn one;
* `OPERATIONS.md:86` copies a file over `state.json` and restarts: the SIGTERM of the
  restart saves the state in memory over the copy (18309);
* a kill inside a save starts the cloud empty, and five seconds later the good
  backup of the day is overwritten with that (15180; `OPERATIONS.md:180`
  promises fourteen days);
* in mode balance with one WAN up, two functions call each other until the stack
  is full (`multi-wan.js:150`, 172) and both next hops stay;
* a route that the kernel dropped with its link comes back only when a probe
  changes the state of a WAN: a link that is down for less than three sweeps
  loses the default route for good, as `currentDefault` still names it;
* a new list that gives the WAN in use another gateway does not change the
  default route;
* mode balance deletes the default route before it asks for the new one: when
  that is refused the box has none;
* a list with a nameless WAN tears down the tables of the old list before it is
  rejected, and the pinned devices fall back to the default route;
* a restart of the agent forgets the pins while the kernel keeps their rules;
* a push above the cap during an await also loses an item (`Fire` with a
  suspended run);
* a reboot command takes the commands behind it in its batch along;
* when the state of the agent cannot be written, or `applyQos` throws, the etag
  is already stored and the cloud answers 304 until the next change or boot;
* an agent that ends within the second before the restart of dnsmasq leaves the
  old files in force: the next bundle finds the new files in place;
* a kill in the middle of `saveState` leaves a file that is read as empty;
* a pairing code that expired is not renewed by a reboot, for the box has a
  configuration and does not register again (`FLASHING-GUIDE.md:92` says it
  would);
* a QR token, an assignment or an authorization binds a box that has an owner
  already, and leaves its code claimable;
* removing the demo data, or typing an id, leaves boxes whose owner does not
  exist;
* `README.md:30` and `README.md:192` of the repository say that the state is in
  memory only; it is persisted.

Accounts and administration:

* a recovery code is used up in memory and not saved (3406, 3443): a restart
  brings it back;
* a suspended customer can sign in; deletion, called an "irreversible wipe" at
  1741, leaves keys, shares, links, requests, invoices and the audit log;
* invoices take no notice of referral credits and of trials (5410-5412), a
  customer whom staff made active during a pause is billed, a second downgrade
  loses the device cap of the first plan (9988);
* a cut of the audit log signs whatever is there, and so launders an earlier
  edit; a reset empties it without an entry;
* after a reset the state lacks maps until the next start: `delete-now` throws
  half-way, and the hourly deletion timer would end the process;
* the integrity check reports orphan boxes and unknown plans and repairs neither;
* a deletion by staff leaves the flows of the customer in the ring and the archive,
  and the names until the repair is run (15481-15490, 15863-15873);
* an update of a group with members turns them into an array, and whoever asks for
  the group next is given a key and an error (679, 708);
* POST `/group/:gid/:eid` never adds a member: the route at 705 takes it first
  (`README.md:181` of the repository).

The household:

* a report every five minutes counts one minute, flows that are interleaved count
  more (9024), a late flow is charged to the new day;
* usage adds up cumulative bytes of connections, so quotas overcount;
* changing the time bank after midnight changes what was left yesterday;
* rules typed with dashes survive an unblock; a block that leans on an expiring
  rule ends with it (5194-5197);
* the second device with an alarm of the same kind within half an hour is marked
  as told and is not (14583-14585, "suppress same kind within 30 min"); of a quota
  that is for its whole period; mutes and quiet hours stop security alarms whose
  category is taken from their title (3092; 3091 says "only suppress non-critical");
* a restart leaves an outage open in the log and opens a second one; an incident
  of a provider ends after half an hour while the boxes are still silent;
* the weekly digest has no mark: every restart on its day sends it again;
* the baseline of a device is never saved, and a score "high" needs a domain the
  caps had dropped.

Boxes:

* the endpoints of simple mode overwrite the mode the wizard stops by; the first
  bridge snapshot is kept for ever and restores stale addresses; the wizard's
  default of `eth1` leaves a half-built bridge on a box with one port;
* modes leave things behind: the simple mode forwarding, the FORWARD policy and rule
  and its sysctl file (`simple-mode.js:144-154`, 228-239), the bridge its snapshot and
  the ebtables rule (`bridge-mode.js:340-344`, 466-526); and a second installation with
  an empty body takes `br0` for the WAN and flushes it (268-285; line 14 says
  "Idempotent: running installAndConfigure twice is a no-op on the second run.");
* `ipsec.js` throws for every second user while the cloud lists it; an AmneziaWG
  peer that takes longer than ten seconds is let in and not listed; `wg-sync.sh`
  replaces the file before it loads it, so a failed load is not retried;
* `amnezia-wg.js` answers that all is well when `awg-quick up` failed (186-192) and
  when a configuration could not be written or loaded (278, 281, 295, 297); a torn
  `peers.json` is no peers, a torn `meta.json` makes a removal skip the reload, so the
  removed peer is let in on; nothing brings `awg0` up after a reboot;
* the priority mark 10 of `qos.js` is the first mark of `disturb.js`; each
  replaces the other's root queue, and a restart of the agent forgets the
  disturbances that go on;
* an OpenVPN client that failed after its certificate cannot be made again; a
  torn `clients.json` forgets all clients;
* an image is checked against the hash the cloud gives and not against its
  signature; keys `model-version` of two models may collide; every self-update
  raises "Box agent files changed unexpectedly" until the baseline is reset;
* a crash log entry that comes while the log is uploaded is truncated unsent, and so
  is what is not within its last 50 KB (2301-2303); the logrotate rule that the agent
  installs (1777-1788, daily, `copytruncate`) takes away what could not be sent, and an
  entry that cannot be appended is dropped (2278-2283);
* the download of an image has no time limit (agent 960): one that stands still blocks
  the whole agent, with its timers, until the box is switched off;
* `httpsGetText` follows redirects without limit, settles nothing when an answer is
  closed early, and limits only a silent line (11442-11455); the refresh of blocklists
  is one loop over all customers (12785-12798), so one such url keeps every later
  list of every customer from being written;
* a module setting that is changed after a restore or reset is answered as done, and is
  lost with the next start of the cloud;
* a lock that is set again keeps the endpoints of earlier lists until it is lifted
  (`iot-lockdown.js:154`: a set in use is not deleted; line 8 says that any flow that
  is not in the learned set is dropped), and connections that exist pass (168);
* what the forwarder has under way when the cloud stops is neither sent nor counted;
* `pruneExpired` of the quarantine is called by nobody; the lists of active
  protection are arrays after a restart, and changing them throws;
* privacy mode purges the ring and the queries and not the archive of ninety days
  (13528-13535; 13515 says "removes existing flow + DNS data", and the notice at
  13541 "Existing data was purged."), nor does a deletion (6097-6123; the mail says
  that all data "have been permanently deleted"); queries can be asked for again
  within privacy mode, and switching it off, which is told as "Flow + DNS logging
  is back on." (13542), leaves their retention at 0; a box whose clock is ahead
  keeps the archive behind its entry from being cleaned (4968); and the TLS names of
  `sni_handshakes` are kept for a day whatever the mode is (12076-12122);
* the timers were given `fetchThreatFeed` before it was wrapped, so their
  fetches leave no snapshot; the domains of a deleted blocklist come back with a
  fetch that was under way.

## 7. Plan

Done: the six modules of the core with their proofs, and the modules around them
in the order of how much rests on them.  What is left:

* compositions: `BoxCommands` under `NetworkMode` and `VpnServers`, whose orders
  are now assumed to be run in order, once or never; `CloudModules` over
  `StateStore`.

Not modelled, and why:

* byte parsers, keyword tables, port scans (`sni-parser.js`, `sig-engine.js`,
  `app-dpi-rules.js`, `nl-flow-search.js`, `portscan.js`): sequential, their
  results are data;
* host services (`dns-stack.js`, `upnp.js`, `tailscale.js`, ...): a file and a
  call of a tool, whose effect is in the tool;
* the encrypted backups (429-538), the timers of wake-up and reboot, port
  forwards and DHCP reservations, referral credits, support threads, event
  streams: keyed records without an order that matters, or written and never
  read;
* pages and scripts.
