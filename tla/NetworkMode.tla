----------------------------- MODULE NetworkMode -----------------------------
(***************************************************************************)
(* The network mode of a box: the wizard of the cloud (server.js) and the  *)
(* four modes on the box (box-agent/simple-mode.js, dhcp-mode.js,          *)
(* router-mode.js, bridge-mode.js).                                        *)
(*                                                                         *)
(* The cloud keeps the mode it believes in and answers a switch by         *)
(* queueing a stop of the old mode and a start of the new one; the box     *)
(* runs the orders it receives in order.  Each mode keeps a record on disk *)
(* and acts on the kernel: records, dnsmasq's file and the sysctl files    *)
(* survive a reboot, rules, processes and the bridge do not.  Not all that *)
(* a mode sets is taken back when it stops (leftovers, forward, sysctls).  *)
(*                                                                         *)
(* start, stop and rescan of the simple mode run to their end without a    *)
(* turn of the event loop (scanLan awaits nothing), so each is one step.   *)
(* External, taken from how the code uses them: iptables, ip, ebtables,    *)
(* dnsmasq, arpspoof, dhclient.  Static addresses for the bridge, its      *)
(* unblock, isolate and setIface, which no command reaches, are left out.  *)
(***************************************************************************)
EXTENDS Integers, Sequences, Household

CONSTANTS
    MaxSwitches,    \* calls of the wizard and the direct endpoints: a bound
    MaxUpsets       \* orders lost, restarts, reboots, new leases: a bound

Modes == {"peer", "simple", "dhcp", "bridge", "router"}
Ports == {"eth0", "eth1"}
Links == Ports \cup {"br0"}

Snapshots == [addrs : [Ports -> 0 .. 2 \cup {None}], route : Links \cup {None}]
Confs == [lan : Links, gateway : {"self", "upstream"}]
Runtimes == [blocked : BOOLEAN]
Orders == [do : {"start", "stop"}, what : Modes \cup {"rescan", "block", "bridge_auto"}]
Unremoved == {"forward_rule", "broute_rule"}

\* None is null in the code: nothing that is there is equal to it.
ASSUME NoneIsNothing ==
    /\ None \notin Links /\ None \notin 0 .. 2 /\ None \notin Modes
    /\ None \notin Snapshots /\ None \notin Confs /\ None \notin Runtimes
    /\ \A joined \in SUBSET Ports : joined # None

VARIABLES
    mode,           \* state.box_network_modes of the box
    mode_orders,         \* its mode commands, pending
    ports,          \* network ports the box has
    preferred,      \* /etc/mes-box/preferred-mode
    tools,          \* programs installed
    simple,         \* simple mode: _state.enabled
    spoofing,       \* arpspoof processes run (they outlive the agent)
    router,         \* router mode: _state
    rules,          \* its iptables rules
    forward,        \* net.ipv4.ip_forward
    sysctls,        \* the modes whose sysctl.d file is there
    dhcp,           \* dhcp mode: _state.enabled
    conf,           \* dnsmasq.d/mes-box-dhcp.conf, None when there is none
    bridge_snapshot,       \* pre-bridge-config.json
    runtime,        \* bridge-runtime.json
    members,        \* ports in the bridge, None when there is no bridge
    dropped,        \* ebtables drops the device that an order blocked
    leftovers,      \* kernel rules that a start sets and no stop removes
    addr,           \* the address of each link, 0 when it has none
    route,          \* the link of the default route
    switches, upsets,
    strayed,        \* history: the box and the cloud went apart by other means
    relocated       \* history: the router was installed again on other ports

modeVars == <<mode, mode_orders, ports, preferred, tools, simple, spoofing, router, rules, forward,
              sysctls, dhcp, conf, bridge_snapshot, runtime, members, dropped, leftovers, addr, route,
              switches, upsets, strayed, relocated>>
cloudSide == <<mode, mode_orders, switches>>
fixed     == <<ports, preferred, tools>>
simpleSide == <<simple, spoofing>>
routerSide == <<router, rules, relocated>>
bridgeSide == <<bridge_snapshot, runtime, members, dropped, addr, route>>
wholeBridge == <<bridgeSide, leftovers>>

NoRouter == [enabled |-> FALSE, wan |-> None, lan |-> None]

ModeTypeOK ==
    /\ mode \in Modes /\ mode_orders \in Seq(Orders)
    /\ ports \in {{"eth0"}, Ports} /\ preferred \in {None, "simple", "dhcp", "router"}
    /\ simple \in BOOLEAN /\ spoofing \in BOOLEAN /\ dropped \in BOOLEAN
    /\ strayed \in BOOLEAN /\ relocated \in BOOLEAN
    /\ tools \subseteq {"dnsmasq", "arpspoof"}
    /\ router \in [enabled : BOOLEAN, wan : Links \cup {None}, lan : Links \cup {None}]
    /\ sysctls \subseteq {"simple", "router"} /\ leftovers \subseteq Unremoved
    /\ conf \in Confs \cup {None}
    /\ bridge_snapshot \in Snapshots \cup {None}
    /\ runtime \in Runtimes \cup {None}
    /\ members \in (SUBSET Ports) \cup {None}
    /\ addr \in [Links -> 0 .. 2]
    /\ route \in Links \cup {None}

ModeInit ==
    /\ mode = "peer" /\ mode_orders = <<>>
    /\ ports \in {{"eth0"}, Ports}
    /\ preferred \in {None, "simple", "dhcp", "router"}
    /\ tools \in SUBSET {"dnsmasq", "arpspoof"}
    /\ simple = FALSE /\ spoofing = FALSE
    /\ router = NoRouter /\ rules = {} /\ forward = FALSE /\ sysctls = {}
    /\ dhcp = FALSE /\ conf = None
    /\ bridge_snapshot = None /\ runtime = None /\ members = None /\ dropped = FALSE
    /\ leftovers = {}
    /\ addr \in {[l \in Links |-> IF l = "eth0" \/ (both /\ l = "eth1") THEN 1 ELSE 0] :
                    both \in BOOLEAN}
    /\ addr["eth1"] = 1 => "eth1" \in ports
    /\ route = "eth0"
    /\ switches = 0 /\ upsets = 0
    /\ strayed = (preferred # None)
    /\ relocated = FALSE

-----------------------------------------------------------------------------
(* The cloud                                                               *)

Stop(m)  == [do |-> "stop", what |-> m]
Start(m) == [do |-> "start", what |-> m]

\* "STOP the current inline mode (if any)"
StopOld(m) == IF m = "peer" THEN <<>> ELSE <<Stop(m)>>
StartNew(m) == IF m = "peer" THEN <<>> ELSE <<Start(m)>>

\* POST network-mode
Wizard ==
    /\ switches < MaxSwitches
    /\ switches' = switches + 1
    /\ \E m \in Modes \ {mode} :
          /\ mode' = m
          /\ mode_orders' = mode_orders \o StopOld(mode) \o StartNew(m)
    /\ UNCHANGED <<fixed, simpleSide, routerSide, forward, sysctls, dhcp, conf, wholeBridge,
                   upsets, strayed>>

\* POST simple-mode/start and /stop write the mode whatever it was; /rescan not.
SimpleEndpoint ==
    /\ switches < MaxSwitches
    /\ switches' = switches + 1
    /\ \/ mode' = "simple" /\ mode_orders' = Append(mode_orders, Start("simple"))
       \/ mode' = "peer"   /\ mode_orders' = Append(mode_orders, Stop("simple"))
       \/ UNCHANGED mode   /\ mode_orders' = Append(mode_orders, Start("rescan"))
    /\ strayed' = (strayed \/ mode \notin {"simple", "peer"})
    /\ UNCHANGED <<fixed, simpleSide, routerSide, forward, sysctls, dhcp, conf, wholeBridge,
                   upsets>>

\* The admin endpoints queue without touching the mode; the ports of a bridge-install are
\* those of the body, or left for the box to detect.
AdminOrder ==
    /\ switches < MaxSwitches
    /\ switches' = switches + 1
    /\ \E what \in {"bridge_auto", "block"} : mode_orders' = Append(mode_orders, Start(what))
    /\ strayed' = TRUE
    /\ UNCHANGED <<mode, fixed, simpleSide, routerSide, forward, sysctls, dhcp, conf, wholeBridge,
                   upsets>>

ModeOrderLost ==
    /\ upsets < MaxUpsets /\ mode_orders # <<>>
    /\ upsets' = upsets + 1
    /\ mode_orders' = Tail(mode_orders)
    /\ strayed' = TRUE
    /\ UNCHANGED <<mode, switches, fixed, simpleSide, routerSide, forward, sysctls, dhcp, conf,
                   wholeBridge>>

-----------------------------------------------------------------------------
(* The modes on the box                                                    *)

\* simple-mode.js start(): it answers that it runs when the record says so; without
\* arpspoof, a gateway or its hardware address it touches nothing.
SimpleRuns ==
    /\ "arpspoof" \in tools /\ route # None
    /\ simple' = TRUE /\ spoofing' = TRUE
    /\ forward' = TRUE /\ sysctls' = sysctls \cup {"simple"}
    /\ leftovers' = leftovers \cup {"forward_rule"}
SimpleStarts ==
    \/ simple /\ UNCHANGED <<simpleSide, forward, sysctls, leftovers, strayed>>
    \/ ~simple /\ SimpleRuns /\ UNCHANGED strayed
    \/ ~simple /\ strayed' = TRUE /\ UNCHANGED <<simpleSide, forward, sysctls, leftovers>>

\* stop(): forwarding stays on, its sysctl file and the FORWARD rule stay too.
SimpleStops ==
    /\ simple' = FALSE
    /\ spoofing' = (spoofing /\ ~simple)
    /\ UNCHANGED <<forward, sysctls, leftovers, strayed>>

\* rescan(): devices that are new to the record are spoofed too.
SimpleRescans ==
    /\ spoofing' \in IF simple THEN {spoofing, TRUE} ELSE {spoofing}
    /\ UNCHANGED <<simple, forward, sysctls, leftovers, strayed>>

\* dhcp-mode.js installAndConfigure: the file and the record after it.
DhcpAble(lan) == "dnsmasq" \in tools /\ addr[lan] # 0
DhcpConf(lan, asRouter) ==
    [lan |-> lan, gateway |-> IF asRouter \/ route = None THEN "self" ELSE "upstream"]
DhcpStarts ==
    \E lan \in Ports :
        IF DhcpAble(lan)
        THEN conf' = DhcpConf(lan, FALSE) /\ dhcp' = TRUE /\ UNCHANGED strayed
        ELSE strayed' = TRUE /\ UNCHANGED <<conf, dhcp>>

DhcpOff ==
    IF "dnsmasq" \in tools THEN conf' = None /\ dhcp' = FALSE ELSE UNCHANGED <<conf, dhcp>>
DhcpStops ==
    /\ DhcpOff
    /\ strayed' = (strayed \/ "dnsmasq" \notin tools)

\* router-mode.js: the rules of a wan and a lan port.
RulesOf(w, l) == {<<"masquerade", w>>, <<"forward", l>>, <<"return", <<w, l>>>>}
Routed == {p \in Links : addr[p] # 0} \ {route}
Lans == IF Routed # {} THEN Routed ELSE IF route = None THEN {} ELSE {route}

\* installAndConfigure with the given or the detected ports; the record is
\* written also when the DHCP part failed.
RouterOn(w, l) ==
    IF "dnsmasq" \notin tools \/ w = None \/ l = None
    THEN strayed' = TRUE /\ UNCHANGED <<routerSide, forward, sysctls, dhcp, conf>>
    ELSE /\ rules' = rules \cup RulesOf(w, l)
         /\ relocated' = (relocated \/ (router.enabled /\ <<router.wan, router.lan>> # <<w, l>>))
         /\ router' = [enabled |-> TRUE, wan |-> w, lan |-> l]
         /\ forward' = TRUE /\ sysctls' = sysctls \cup {"router"}
         /\ IF DhcpAble(l)
            THEN conf' = DhcpConf(l, TRUE) /\ dhcp' = TRUE /\ UNCHANGED strayed
            ELSE strayed' = TRUE /\ UNCHANGED <<conf, dhcp>>
RouterStarts == \E w \in ports \cup {route}, l \in ports \cup Lans : RouterOn(w, l)

\* uninstall: the rules of the ports on record, forwarding for every mode, the
\* DHCP server.
RouterStops ==
    /\ rules' = rules \ RulesOf(router.wan, router.lan)
    /\ forward' = FALSE /\ sysctls' = sysctls \ {"router"}
    /\ DhcpOff
    /\ router' = [router EXCEPT !.enabled = FALSE]
    /\ UNCHANGED <<relocated, strayed>>

\* bridge-mode.js: the first snapshot is kept, also after an uninstall.
AsItIs == [addrs |-> [p \in Ports |-> IF p \in ports THEN addr[p] ELSE None],
           route |-> route]
SnapshotTaken_Always == AsItIs
SnapshotTaken == IF bridge_snapshot # None THEN bridge_snapshot ELSE AsItIs

\* The ports join one after the other and lose their addresses, and with them
\* the default route; a port the box does not have ends the install halfway.
Joining == {"eth0", "eth1"} \cap ports
Flushed(joined) == [l \in Links |-> IF l \in joined THEN 0 ELSE addr[l]]
RouteWithout(joined) == IF route \in joined THEN None ELSE route
Now == IF members = None THEN {} ELSE members

BridgeStarts ==
    /\ bridge_snapshot' = SnapshotTaken
    /\ \/ /\ strayed' = TRUE            \* a package is missing and apt fails
          /\ UNCHANGED <<runtime, members, leftovers, addr, route>>
       \/ LET joined == Joining \ Now IN
          /\ members' = Now \cup Joining
          /\ addr' = Flushed(joined)
          /\ route' = RouteWithout(joined)
          /\ IF Ports \subseteq ports
             THEN /\ runtime' = IF runtime = None THEN [blocked |-> FALSE] ELSE runtime
                  /\ leftovers' \in {leftovers, leftovers \cup {"broute_rule"}}
                  /\ UNCHANGED strayed
             ELSE strayed' = TRUE /\ UNCHANGED <<runtime, leftovers>>
    /\ UNCHANGED dropped

\* autoDetectIfaces takes the link of the default route as WAN.  On a bridged box that is
\* the bridge: it loses its address before joining itself fails (the snapshot is there).
BridgeFlushed ==
    /\ route = "br0"
    /\ addr' = [addr EXCEPT !["br0"] = 0] /\ route' = None
    /\ strayed' = TRUE
    /\ UNCHANGED <<bridge_snapshot, runtime, members, dropped, leftovers>>

\* block() of one device
BridgeBlocks ==
    /\ \/ dropped' = TRUE /\ runtime' = [blocked |-> TRUE]
       \/ UNCHANGED <<dropped, runtime>>        \* without ebtables it throws
    /\ UNCHANGED <<bridge_snapshot, members, leftovers, addr, route>>

\* uninstall: the bridge goes, the addresses and the route of the snapshot come; the rule
\* in the broute table stays.
Restored(s) == [l \in Links |-> IF l \in Ports /\ s.addrs[l] # None THEN s.addrs[l]
                                ELSE IF l = "br0" THEN 0 ELSE addr[l]]
BridgeStops ==
    /\ dropped' = FALSE
    /\ runtime' = None
    /\ members' = None
    /\ IF bridge_snapshot # None
       THEN /\ addr' = Restored(bridge_snapshot)
            /\ route' = IF bridge_snapshot.route # None THEN bridge_snapshot.route
                        ELSE IF route = "br0" THEN None ELSE route
       ELSE /\ addr' = [addr EXCEPT !["br0"] = 0]
            /\ route' = IF route = "br0" THEN None ELSE route
    /\ UNCHANGED <<bridge_snapshot, leftovers, strayed>>

\* dhclient on the bridge gets an address, when the install reached that step.
BridgeLease ==
    /\ members # None /\ runtime # None /\ addr["br0"] = 0
    /\ addr' = [addr EXCEPT !["br0"] = 1]
    /\ route' = "br0"
    /\ UNCHANGED <<cloudSide, fixed, simpleSide, routerSide, forward, sysctls, dhcp, conf,
                   bridge_snapshot, runtime, members, dropped, leftovers, upsets, strayed>>

\* executeCommand of the agent, one order at a time
RunOrder ==
    /\ mode_orders # <<>>
    /\ mode_orders' = Tail(mode_orders)
    /\ LET order == Head(mode_orders) IN
       \/ /\ order = Start("simple") /\ SimpleStarts
          /\ UNCHANGED <<routerSide, dhcp, conf, bridgeSide>>
       \/ /\ \/ order = Stop("simple") /\ SimpleStops
             \/ order = Start("rescan") /\ SimpleRescans
          /\ UNCHANGED <<routerSide, dhcp, conf, bridgeSide>>
       \/ /\ order = Start("dhcp") /\ DhcpStarts
          /\ UNCHANGED <<simpleSide, routerSide, forward, sysctls, wholeBridge>>
       \/ /\ order = Stop("dhcp") /\ DhcpStops
          /\ UNCHANGED <<simpleSide, routerSide, forward, sysctls, wholeBridge>>
       \/ /\ order = Start("router") /\ RouterStarts /\ UNCHANGED <<simpleSide, wholeBridge>>
       \/ /\ order = Stop("router") /\ RouterStops /\ UNCHANGED <<simpleSide, wholeBridge>>
       \/ /\ \/ order \in {Start("bridge"), Start("bridge_auto")} /\ BridgeStarts
             \/ order = Start("bridge_auto") /\ BridgeFlushed
          /\ UNCHANGED <<simpleSide, routerSide, forward, sysctls, dhcp, conf>>
       \/ /\ order = Stop("bridge") /\ BridgeStops
          /\ UNCHANGED <<simpleSide, routerSide, forward, sysctls, dhcp, conf>>
       \/ /\ order = Start("block") /\ BridgeBlocks
          /\ UNCHANGED <<simpleSide, routerSide, forward, sysctls, dhcp, conf, strayed>>
    /\ UNCHANGED <<mode, switches, fixed, upsets>>

-----------------------------------------------------------------------------
(* Restarts                                                                *)

\* main(): the preferred mode is started, whatever the wizard chose.  A record of
\* the simple mode without processes is cleared first; the check every ten minutes
\* does the same while the record says that the mode runs.
AgentStarts ==
    /\ upsets < MaxUpsets
    /\ upsets' = upsets + 1
    /\ \/ /\ preferred = "simple"
          /\ \/ simple /\ spoofing /\ UNCHANGED <<simpleSide, forward, sysctls, leftovers>>
             \/ ~(simple /\ spoofing) /\ SimpleRuns
             \/ /\ ~(simple /\ spoofing) /\ simple' = FALSE
                /\ UNCHANGED <<spoofing, forward, sysctls, leftovers>>
          /\ UNCHANGED <<routerSide, dhcp, conf, strayed>>
       \/ /\ preferred = "dhcp"
          /\ IF DhcpAble("eth0") THEN conf' = DhcpConf("eth0", FALSE) /\ dhcp' = TRUE
                                 ELSE UNCHANGED <<conf, dhcp>>
          /\ UNCHANGED <<simpleSide, routerSide, forward, sysctls, leftovers, strayed>>
       \/ /\ preferred = "router"
          /\ \E l \in IF Lans = {} THEN {None} ELSE Lans : RouterOn(route, l)
          /\ UNCHANGED <<simpleSide, leftovers>>
    /\ UNCHANGED <<cloudSide, fixed, bridgeSide>>

\* The kernel starts empty, the network of the system comes up.
KernelRestarts ==
    /\ upsets < MaxUpsets
    /\ upsets' = upsets + 1
    /\ spoofing' = FALSE /\ rules' = {} /\ dropped' = FALSE /\ leftovers' = {}
    /\ forward' = (sysctls # {})
    /\ members' = None
    /\ addr' \in {[addr EXCEPT !["eth0"] = a, !["br0"] = 0] : a \in 1 .. 2}
    /\ route' = "eth0"
    /\ strayed' = TRUE
    /\ UNCHANGED <<cloudSide, fixed, simple, router, relocated, sysctls, dhcp, conf, bridge_snapshot,
                   runtime>>

\* The LAN's DHCP server gives the box another address.
NewLease ==
    /\ upsets < MaxUpsets
    /\ upsets' = upsets + 1
    /\ members = None
    /\ addr' = [addr EXCEPT !["eth0"] = 3 - @]
    /\ UNCHANGED <<cloudSide, fixed, simpleSide, routerSide, forward, sysctls, dhcp, conf,
                   bridge_snapshot, runtime, members, dropped, leftovers, route, strayed>>

ModeNext ==
    \/ Wizard \/ SimpleEndpoint \/ AdminOrder \/ ModeOrderLost
    \/ RunOrder \/ BridgeLease \/ AgentStarts \/ KernelRestarts \/ NewLease

-----------------------------------------------------------------------------
\* What runs on the box.
Running ==
    {m \in Modes : \/ m = "simple" /\ spoofing
                   \/ m = "router" /\ rules # {}
                   \/ m = "dhcp"   /\ conf # None /\ rules = {}
                   \/ m = "bridge" /\ members # None}

\* What draws the traffic of others to the box also has it forwarded: the simple and the
\* router mode need the kernel to forward, the simple mode the FORWARD chain to accept.
Forwarded(m) ==
    /\ m \in {"simple", "router"} => forward
    /\ m = "simple" => "forward_rule" \in leftovers

\* Whatever switches the wizard made and however many were queued behind one another, once
\* the box has run every order exactly the chosen mode runs and its traffic is forwarded: as
\* long as no order failed or was lost, the box did not start again, and only the wizard
\* chose.  No spoofing, router rule, router sysctl, dnsmasq file or bridge of an earlier mode
\* is there then.  Earlier modes do leave behind what the code never takes back: the simple
\* mode forwarding, its sysctl file and the FORWARD rule, the bridge its snapshot and the
\* broute rule.
\* And the router's rules are at all times those of the ports it is on record for, unless it
\* was installed again on others.
ModeAsChosen ==
    /\ (~strayed /\ mode_orders = <<>>) =>
          /\ Running = {mode} \ {"peer"} /\ Forwarded(mode)
          /\ sysctls \ {"simple"} = {mode} \cap {"router"}
    /\ ~relocated => rules \subseteq (IF router.enabled THEN RulesOf(router.wan, router.lan) ELSE {})

\* Outside a bridge the box always has an address and a default route, however many installs
\* failed halfway, flushed the bridge they found and were taken back, reboots and leases
\* included (a bridged box may have neither); and a device that the bridge drops is on record
\* until the bridge is gone.
NeverStranded ==
    /\ members = None => addr["eth0"] # 0 /\ route = "eth0"
    /\ dropped => runtime # None /\ runtime.blocked

-----------------------------------------------------------------------------
(* What the proof of ModeAsChosen and NeverStranded rests on               *)

\* The box runs mode m and nothing else, record and kernel alike.
RunsMode(m) ==
    /\ simple <=> (m = "simple")
    /\ spoofing <=> (m = "simple")
    /\ router.enabled <=> (m = "router")
    /\ rules = IF m = "router" THEN RulesOf(router.wan, router.lan) ELSE {}
    /\ conf # None <=> m \in {"dhcp", "router"}
    /\ members # None <=> m = "bridge"
    /\ Forwarded(m) /\ sysctls \ {"simple"} = {m} \cap {"router"}

\* An order takes a box from mode m to mode n.  Only the simple mode may be started while it
\* runs, or stopped while it does not.
Leads(m, order, n) ==
    \/ order = Start("rescan") /\ m \in {"peer", "simple"} /\ n = m
    \/ n # "peer" /\ order = Start(n) /\ m \in {"peer"} \cup ({n} \cap {"simple"})
    \/ n = "peer" /\ \E old \in Modes \ {"peer"} :
                        order = Stop(old) /\ m \in {old} \cup (IF old = "simple" THEN {n} ELSE {})

\* The orders lead from the mode the box runs to the goal.
Course(orders, goal) ==
    \E p \in [0 .. Len(orders) -> Modes] :
        /\ RunsMode(p[0]) /\ p[Len(orders)] = goal
        /\ \A i \in 1 .. Len(orders) : Leads(p[i - 1], orders[i], p[i])
OnCourse == Course(mode_orders, mode)

\* The snapshot of the bridge is there while the bridge is, and was taken outside of one.
SnapshotSound ==
    /\ bridge_snapshot # None => /\ bridge_snapshot.addrs["eth0"] \notin {0, None}
                                 /\ bridge_snapshot.route = "eth0"
    /\ members # None => bridge_snapshot # None

RulesOnRecord ==
    ~relocated => rules \subseteq (IF router.enabled THEN RulesOf(router.wan, router.lan) ELSE {})

ModeInv ==
    /\ ModeTypeOK
    /\ preferred # None => strayed
    /\ conf # None => "dnsmasq" \in tools
    /\ SnapshotSound /\ NeverStranded /\ RulesOnRecord
    /\ ~strayed => OnCourse
=============================================================================
