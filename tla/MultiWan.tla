------------------------------ MODULE MultiWan ------------------------------
(***************************************************************************)
(* Several uplinks on one box (box-agent/multi-wan.js and the command      *)
(* multi-wan-configure of agent.js).                                       *)
(*                                                                         *)
(* The module keeps a list of WANs with a health state each, pings them    *)
(* every five seconds, moves the default route of the box when one goes    *)
(* down or comes up, and pins devices to a WAN: a device is marked in the  *)
(* mangle table, an ip rule sends the mark to the routing table of the     *)
(* WAN.  All of it is synchronous: a command and a sweep of the probes     *)
(* never interleave, and pc says which of their steps is next.  Only the   *)
(* kernel changes in between.                                              *)
(*                                                                         *)
(* A WAN has one interface, so its name stands for it, and a list names    *)
(* each WAN and each table once.                                           *)
(***************************************************************************)
EXTENDS Integers, Sequences, FiniteSets, SequencesExt

CONSTANTS
    Names,              \* WANs
    NoWan, Balanced,    \* null and '__balanced__' in currentDefault
    Gateways, NoGateway,
    Tables,             \* ids of routing tables
    Settings,           \* the lists of WANs an administrator may send
    Devices,            \* MAC addresses
    MaxWans,            \* longest list: a bound
    FailThreshold, RecoverThreshold,
    Faults,             \* what may go wrong in the kernel
    MaxCommands,        \* commands that reach the box: a bound
    MaxMishaps          \* how often something goes wrong: a bound

Modes == {"failover", "balance", "primary-only"}
Setting == [name: Names, gateway: Gateways \cup {NoGateway}, table: Tables]
Marks == 1 .. MaxWans
NoMark == 0

ASSUME MultiWanAssumption ==
    /\ NoWan \notin Names
    /\ Balanced \notin Names \cup {NoWan}
    /\ NoGateway \notin Gateways
    /\ MaxWans \in Nat
    /\ \A s \in Settings :
          /\ s \in Seq(Setting)
          /\ Len(s) \in Marks
          /\ \A i, j \in DOMAIN s :
                s[i].name = s[j].name \/ s[i].table = s[j].table => i = j
    /\ FailThreshold \in Nat \ {0}
    /\ RecoverThreshold \in Nat \ {0}
    /\ Faults \subseteq {"refused", "link", "foreign", "restart"}
    /\ MaxCommands \in Nat
    /\ MaxMishaps \in Nat

VARIABLES
    wans,           \* state.wans
    mode,           \* state.mode
    currentDefault, \* state.currentDefault
    deviceRoutes,   \* state.deviceRoutes
    running,        \* state.running
    pc, at, asked,  \* the step under way, the WAN probed, the mode asked for
    main,           \* the kernel's default route: its next hops
    tables,         \* the default route in each table of a WAN
    rules,          \* for a mark, the tables of its ip rules, newest first
    mangle,         \* the mark each device gets
    commands, mishaps,
    met             \* history: what went wrong since the agent started

stateVars == <<wans, mode, currentDefault, deviceRoutes, running>>
kernelVars == <<main, tables, rules, mangle>>
stepVars == <<pc, at, asked>>
bounds == <<commands, mishaps>>
vars == <<wans, mode, currentDefault, deviceRoutes, running, pc, at, asked,
          main, tables, rules, mangle, commands, mishaps, met>>

Window == IF FailThreshold > RecoverThreshold THEN FailThreshold ELSE RecoverThreshold

\* fails and ok saturate at the thresholds they are compared with, and of
\* history the newest Window results are kept.
Wan == [name: Names, gateway: Gateways \cup {NoGateway}, table: Tables, up: BOOLEAN,
        fails: 0 .. FailThreshold, ok: 0 .. RecoverThreshold,
        history: Seq({0, 1})]

Hop(w) == [name |-> w.name, gateway |-> w.gateway]
Foreign == [name |-> NoWan, gateway |-> NoGateway]
Hops == [name: Names, gateway: Gateways] \cup {Foreign}
NoHop == [name |-> Balanced, gateway |-> NoGateway]

WansOK ==
    /\ wans \in Seq(Wan)
    /\ Len(wans) \leq MaxWans
    /\ \A i \in DOMAIN wans : Len(wans[i].history) \leq Window

TypeOK ==
    /\ WansOK
    /\ mode \in Modes
    /\ currentDefault \in Names \cup {NoWan, Balanced}
    /\ deviceRoutes \in [Devices -> Names \cup {NoWan}]
    /\ running \in BOOLEAN
    /\ pc \in {"idle", "configured", "setMode", "start", "probe"}
    /\ at \in 0 .. MaxWans
    /\ asked \in Modes \cup {"none", "unknown"}
    /\ main \subseteq Hops
    /\ tables \in [Tables -> Hops \cup {NoHop}]
    /\ rules \in [Marks -> Seq(Tables)]
    /\ mangle \in [Devices -> Marks \cup {NoMark}]
    /\ commands \in Nat
    /\ mishaps \in Nat
    /\ met \subseteq Faults \cup {"moved", "torn", "noGateway"}

\* The agent has just started on a box that has its default route by DHCP.
Init ==
    /\ wans = <<>>
    /\ mode = "failover"
    /\ currentDefault = NoWan
    /\ deviceRoutes = [d \in Devices |-> NoWan]
    /\ running = FALSE
    /\ pc = "idle"
    /\ at = 0
    /\ asked = "none"
    /\ main = {Foreign}
    /\ tables = [t \in Tables |-> NoHop]
    /\ rules = [k \in Marks |-> <<>>]
    /\ mangle = [d \in Devices |-> NoMark]
    /\ commands = 0
    /\ mishaps = 0
    /\ met = {}

Idle == pc = "idle"

\* The kernel may refuse a route, while there are mishaps left.
Refused ==
    /\ "refused" \in Faults
    /\ mishaps < MaxMishaps
    /\ mishaps' = mishaps + 1
    /\ met' = met \cup {"refused"}

Accepted == UNCHANGED <<mishaps, met>>

-----------------------------------------------------------------------------
(* The default route.                                                      *)

UpIn(ws) == {i \in DOMAIN ws : ws[i].up}

NoChange == UNCHANGED <<main, currentDefault>>

SetDefaultRoute_DeletesFirst(w) ==
    \/ /\ w.gateway # NoGateway
       /\ main' = {Hop(w)}
       /\ currentDefault' = w.name
       /\ Accepted
    \/ w.gateway # NoGateway /\ main' = {} /\ UNCHANGED currentDefault /\ Refused
    \/ w.gateway = NoGateway /\ NoChange /\ Accepted

\* setDefaultRoute outside mode balance: ip route replace.
SetDefaultRoute(w) ==
    \/ /\ w.gateway # NoGateway
       /\ main' = {Hop(w)}
       /\ currentDefault' = w.name
       /\ Accepted
    \/ w.gateway # NoGateway /\ NoChange /\ Refused
    \/ w.gateway = NoGateway /\ NoChange /\ Accepted

\* With one WAN up setBalancedDefault and setDefaultRoute call each other, in
\* mode balance, until the stack overflows: nothing is changed.
Overflows(ws, md) == md = "balance" /\ Cardinality(UpIn(ws)) = 1

\* ip route del, then ip route add: a refusal leaves no default route.
SetBalancedDefault(ws) ==
    LET up == UpIn(ws) IN
    \/ Cardinality(up) \leq 1 /\ NoChange /\ Accepted
    \/ /\ Cardinality(up) > 1
       /\ \A i \in up : ws[i].gateway # NoGateway
       /\ main' = {Hop(ws[i]) : i \in up}
       /\ currentDefault' = Balanced
       /\ Accepted
    \/ /\ Cardinality(up) > 1
       /\ main' = {}
       /\ UNCHANGED currentDefault
       /\ IF \E i \in up : ws[i].gateway = NoGateway THEN Accepted ELSE Refused

\* pickActiveWan: the positions of the WANs that may be chosen, first wins.
Eligible(ws, md) == IF md = "primary-only" THEN UpIn(ws) \cap {1} ELSE UpIn(ws)
Pick(ws, md) == CHOOSE i \in Eligible(ws, md) : \A j \in Eligible(ws, md) : i \leq j

ReconcileRouting_OnceSet(ws, md) ==
    IF md = "balance" THEN SetBalancedDefault(ws)
    ELSE IF Eligible(ws, md) = {} \/ currentDefault # NoWan
         THEN NoChange /\ Accepted
         ELSE SetDefaultRoute(ws[Pick(ws, md)])
ReconcileRouting(ws, md) ==
    IF md = "balance" THEN SetBalancedDefault(ws)
    ELSE IF Eligible(ws, md) = {} \/ ws[Pick(ws, md)].name = currentDefault
         THEN NoChange /\ Accepted
         ELSE SetDefaultRoute(ws[Pick(ws, md)])

-----------------------------------------------------------------------------
(* Devices pinned to a WAN.                                                *)

\* The mark of a WAN is its position in the list.
MarkOf(ws, n) ==
    LET named == {i \in DOMAIN ws : ws[i].name = n} IN
    IF named = {} THEN NoMark ELSE CHOOSE i \in named : \A j \in named : i \leq j

RebuildDeviceChain(ws, routes) == [d \in Devices |-> MarkOf(ws, routes[d])]

\* Where the kernel sends what a device sends: by the newest rule for its mark
\* whose table has a route, or by the main table.
PathOf(d) ==
    LET rs == IF mangle[d] = NoMark THEN <<>> ELSE rules[mangle[d]]
        hits == {i \in DOMAIN rs : tables[rs[i]] # NoHop}
    IN  IF hits = {} THEN main
        ELSE {tables[rs[CHOOSE i \in hits : \A j \in hits : i <= j]]}

-----------------------------------------------------------------------------
(* multi-wan-configure.                                                    *)

\* ip rule del: the rules of a mark have different tables.
WithoutRule(rs, t) ==
    IF \E i \in DOMAIN rs : rs[i] = t
    THEN RemoveAt(rs, CHOOSE i \in DOMAIN rs : rs[i] = t) ELSE rs

\* teardownWanTable of every WAN of the old list.
TornTables(ws) ==
    [t \in Tables |-> IF \E i \in DOMAIN ws : ws[i].table = t THEN NoHop ELSE tables[t]]
TornRules(ws) ==
    [k \in Marks |-> IF k \in DOMAIN ws THEN WithoutRule(rules[k], ws[k].table) ELSE rules[k]]

Fresh(s) == [name |-> s.name, gateway |-> s.gateway, table |-> s.table,
             up |-> TRUE, fails |-> 0, ok |-> 0, history |-> <<>>]

HasGateway(ws) == {i \in DOMAIN ws : ws[i].gateway # NoGateway}

\* installWanTable of every WAN of the new list that has a gateway; the route
\* goes into the table of those in good.
InstalledTables(ws, good) ==
    [t \in Tables |->
        LET mine == {i \in HasGateway(ws) : ws[i].table = t} IN
        IF mine = {} THEN TornTables(wans)[t]
        ELSE IF mine \subseteq good THEN Hop(ws[CHOOSE i \in mine : TRUE]) ELSE NoHop]
InstalledRules_Last(ws) ==
    [k \in Marks |->
        IF k \in HasGateway(ws)
        THEN Append(WithoutRule(TornRules(wans)[k], ws[k].table), ws[k].table)
        ELSE TornRules(wans)[k]]
InstalledRules(ws) ==
    [k \in Marks |->
        IF k \in HasGateway(ws)
        THEN <<ws[k].table>> \o WithoutRule(TornRules(wans)[k], ws[k].table)
        ELSE TornRules(wans)[k]]

\* Things a list of WANs brings with it that no code looks after: a WAN whose
\* gateway was not found, and a WAN that owns the default route and has moved
\* to another gateway.
Brings(ws) ==
    (IF HasGateway(ws) = DOMAIN ws THEN {} ELSE {"noGateway"}) \cup
    (IF \E i \in DOMAIN ws : ws[i].name = currentDefault /\ Hop(ws[i]) \notin main
     THEN {"moved"} ELSE {})

Command ==
    /\ Idle
    /\ commands < MaxCommands
    /\ commands' = commands + 1

\* configure as far as the mangle chain; its reconcile is the next step.
Configure ==
    /\ Command
    /\ \E s \in Settings, md \in Modes \cup {"none", "unknown"} :
          LET ws == [i \in DOMAIN s |-> Fresh(s[i])] IN
          /\ wans' = ws
          /\ asked' = md
          /\ rules' = InstalledRules(ws)
          /\ mangle' = RebuildDeviceChain(ws, deviceRoutes)
          /\ \/ tables' = InstalledTables(ws, HasGateway(ws))
                /\ met' = met \cup Brings(ws)
                /\ UNCHANGED mishaps
             \/ /\ "refused" \in Faults
                /\ mishaps < MaxMishaps
                /\ \E i \in HasGateway(ws) :
                      tables' = InstalledTables(ws, HasGateway(ws) \ {i})
                /\ mishaps' = mishaps + 1
                /\ met' = met \cup Brings(ws) \cup {"refused"}
    /\ pc' = "configured"
    /\ UNCHANGED <<mode, currentDefault, deviceRoutes, running, at, main>>

\* A WAN of the list has no name: configure has torn down the old tables when
\* it throws, and state.wans is still the old list.
ConfigureRejected ==
    /\ Command
    /\ tables' = TornTables(wans)
    /\ rules' = TornRules(wans)
    /\ met' = IF wans = <<>> THEN met ELSE met \cup {"torn"}
    /\ UNCHANGED <<stateVars, stepVars, main, mangle, mishaps>>

\* The end of configure.
ConfigureRoute ==
    /\ pc = "configured"
    /\ ReconcileRouting(wans, mode)
    /\ pc' = IF Overflows(wans, mode) THEN "idle"
             ELSE IF asked = "none" THEN "start" ELSE "setMode"
    /\ asked' = IF Overflows(wans, mode) THEN "none" ELSE asked
    /\ UNCHANGED <<wans, mode, deviceRoutes, running, at, tables, rules, mangle,
                   commands>>

\* setMode, when the command has a mode; an unknown one throws.
SetMode ==
    /\ pc = "setMode"
    /\ IF asked = "unknown"
       THEN /\ pc' = "idle"
            /\ NoChange
            /\ Accepted
            /\ UNCHANGED mode
       ELSE /\ mode' = asked
            /\ ReconcileRouting(wans, asked)
            /\ pc' = IF Overflows(wans, asked) THEN "idle" ELSE "start"
    /\ asked' = "none"
    /\ UNCHANGED <<wans, deviceRoutes, running, at, tables, rules, mangle, commands>>

\* start, which begins a sweep unless the timer already runs.
Start ==
    /\ pc = "start"
    /\ running' = TRUE
    /\ IF running THEN pc' = "idle" /\ at' = 0 ELSE pc' = "probe" /\ at' = 1
    /\ UNCHANGED <<wans, mode, currentDefault, deviceRoutes, asked, kernelVars, bounds, met>>

\* multi-wan-route-device; an unknown WAN throws.
RouteDevice ==
    /\ Command
    /\ \E d \in Devices, n \in {wans[i].name : i \in DOMAIN wans} :
          /\ deviceRoutes' = [deviceRoutes EXCEPT ![d] = n]
          /\ mangle' = RebuildDeviceChain(wans, deviceRoutes')
    /\ UNCHANGED <<wans, mode, currentDefault, running, stepVars, main, tables, rules,
                   mishaps, met>>

-----------------------------------------------------------------------------
(* The probes.                                                             *)

\* The timer of start fires.
Sweep ==
    /\ Idle
    /\ running
    /\ pc' = "probe"
    /\ at' = 1
    /\ UNCHANGED <<stateVars, asked, kernelVars, bounds, met>>

Recorded(s, r) == LET h == Append(s, r) IN IF Len(h) > Window THEN Tail(h) ELSE h

Answers_KeepsFails(w) ==
    [w EXCEPT !.history = Recorded(@, 1),
              !.ok = IF @ < RecoverThreshold THEN @ + 1 ELSE @,
              !.up = @ \/ w.ok + 1 >= RecoverThreshold]
Answers(w) ==
    [w EXCEPT !.history = Recorded(@, 1), !.fails = 0,
              !.ok = IF @ < RecoverThreshold THEN @ + 1 ELSE @,
              !.up = @ \/ w.ok + 1 >= RecoverThreshold]

Misses(w) ==
    [w EXCEPT !.history = Recorded(@, 0), !.ok = 0,
              !.fails = IF @ < FailThreshold THEN @ + 1 ELSE @,
              !.up = @ /\ w.fails + 1 < FailThreshold]

\* probeWan: the WAN answers on one of its targets, by ping or HTTP, or on
\* none.  The routes are reconciled when it goes down or comes up; runProbes
\* catches what that throws and goes on with the next WAN.
ProbeWan ==
    /\ pc = "probe"
    /\ \E w \in {Answers(wans[at]), Misses(wans[at])} :
          /\ wans' = [wans EXCEPT ![at] = w]
          /\ IF w.up # wans[at].up
             THEN ReconcileRouting(wans', mode)
             ELSE NoChange /\ Accepted
    /\ IF at < Len(wans) THEN at' = at + 1 /\ UNCHANGED pc ELSE at' = 0 /\ pc' = "idle"
    /\ UNCHANGED <<mode, deviceRoutes, running, asked, tables, rules, mangle, commands>>

-----------------------------------------------------------------------------
(* The world.                                                              *)

Mishap(f) ==
    /\ f \in Faults
    /\ mishaps < MaxMishaps
    /\ mishaps' = mishaps + 1

\* An interface goes down: the kernel drops the routes through it.
LinkLost ==
    /\ Mishap("link")
    /\ \E n \in Names :
          /\ main' = {h \in main : h.name # n}
          /\ tables' = [t \in Tables |-> IF tables[t].name = n THEN NoHop ELSE tables[t]]
          /\ <<main', tables'>> # <<main, tables>>
    /\ met' = met \cup {"link"}
    /\ UNCHANGED <<stateVars, stepVars, rules, mangle, commands>>

\* A DHCP client or bridge mode replaces the default route.
ForeignDefault ==
    /\ Mishap("foreign")
    /\ main' = {Foreign}
    /\ met' = met \cup {"foreign"}
    /\ UNCHANGED <<stateVars, stepVars, tables, rules, mangle, commands>>

\* The agent restarts: nothing of state is on disk, the kernel keeps it all.
Restart ==
    /\ Mishap("restart")
    /\ wans' = <<>>
    /\ mode' = "failover"
    /\ currentDefault' = NoWan
    /\ deviceRoutes' = [d \in Devices |-> NoWan]
    /\ running' = FALSE
    /\ pc' = "idle"
    /\ at' = 0
    /\ asked' = "none"
    /\ met' = {}
    /\ UNCHANGED <<kernelVars, commands>>

Step == ConfigureRoute \/ SetMode \/ Start \/ ProbeWan

Next ==
    \/ Configure \/ ConfigureRejected \/ RouteDevice
    \/ Step
    \/ Sweep
    \/ LinkLost \/ ForeignDefault \/ Restart

Spec == Init /\ [][Next]_vars

\* A step that has begun goes on, and the interval of start fires.
FairSpec == Spec /\ WF_vars(Step) /\ WF_vars(Sweep)

-----------------------------------------------------------------------------
(* Properties.                                                             *)

\* The default route that the mode and the health of the WANs call for.
Wanted ==
    IF mode = "balance" THEN {Hop(wans[i]) : i \in UpIn(wans)}
    ELSE {Hop(wans[Pick(wans, mode)])}

\* The default route always is the one the mode and the health of the WANs
\* call for, through any sequence of failures, recoveries, configurations and
\* restarts, until the kernel refuses or drops a route, somebody else sets it,
\* or a list of WANs has no gateway or a new one for the WAN in use.
DefaultFollows ==
    /\ met = {}
    /\ pc # "configured"
    /\ Eligible(wans, mode) # {}
    /\ ~Overflows(wans, mode)
    => main = Wanted

\* The n newest results of h all are r.
LastAre(h, n, r) == n \leq Len(h) /\ \A k \in 1 .. n : h[Len(h) - k + 1] = r

\* fails and ok count the newest results.
CountsTrue ==
    \A i \in DOMAIN wans :
       /\ LastAre(wans[i].history, wans[i].fails, 0)
       /\ LastAre(wans[i].history, wans[i].ok, 1)

GatewaysKnown == "noGateway" \notin met => HasGateway(wans) = DOMAIN wans

\* currentDefault is what the kernel has, so that a route that is in place
\* already is rightly left alone.
RecordTrue ==
    met = {} /\ currentDefault \in Names =>
        /\ \E g \in Gateways : main = {[name |-> currentDefault, gateway |-> g]}
        /\ \A i \in DOMAIN wans : wans[i].name = currentDefault => Hop(wans[i]) \in main

\* What runs has WANs, a probe is under way for one of them, and a mode is set
\* if the command has one.
StepsListed ==
    /\ running \/ pc # "idle" => wans # <<>>
    /\ pc = "probe" => at \in DOMAIN wans
    /\ pc = "setMode" => asked # "none"

NamesDistinct == \A i, j \in DOMAIN wans : wans[i].name = wans[j].name => i = j

\* The inductive invariant.
IndInv ==
    /\ TypeOK /\ StepsListed /\ NamesDistinct
    /\ CountsTrue
    /\ GatewaysKnown /\ RecordTrue /\ DefaultFollows

\* A pinned device leaves by its WAN and any other by the default route, also
\* after the WANs were renumbered by a new list or the agent was restarted on
\* a box that still has the rules of an old one, until the kernel loses a
\* route or a configure is rejected halfway.
PathAsPinned ==
    met \cap {"refused", "link", "torn"} = {} /\ wans # <<>>
      => \A d \in Devices :
            LET k == MarkOf(wans, deviceRoutes[d]) IN
            IF k = NoMark THEN PathOf(d) = main
            ELSE wans[k].gateway # NoGateway => PathOf(d) = {Hop(wans[k])}

\* What PathAsPinned rests on: devices are marked by the list and the pins as
\* they are, and the newest rule for the mark of a WAN leads to its route.
MarksCurrent == wans # <<>> => mangle = RebuildDeviceChain(wans, deviceRoutes)

RulesCurrent ==
    met \cap {"refused", "link", "torn"} = {} /\ wans # <<>> =>
        \A k \in HasGateway(wans) :
           /\ rules[k] # <<>> /\ Head(rules[k]) = wans[k].table
           /\ tables[wans[k].table] = Hop(wans[k])

PinInv == IndInv /\ MarksCurrent /\ RulesCurrent

\* A WAN is given up after FailThreshold failures in a row and taken back after
\* RecoverThreshold successes in a row, never sooner.
Hysteresis ==
    [][pc = "probe" /\ wans' # <<>> => \A i \in DOMAIN wans :
         /\ wans[i].up /\ ~wans'[i].up => LastAre(wans'[i].history, FailThreshold, 0)
         /\ ~wans[i].up /\ wans'[i].up => LastAre(wans'[i].history, RecoverThreshold, 1)
      ]_vars

\* The box only loses its default route with a link, or in mode balance, where
\* the old route is deleted before the kernel is asked for the new one.
RouteNeverDropped ==
    [][main # {} /\ main' = {} =>
         \/ "link" \in met'
         \/ mode' = "balance" /\ met' \cap {"refused", "noGateway"} # {}]_vars

\* When the first WANs of the list keep failing and the next keeps answering,
\* the default route ends up on that one.
FailsOver ==
    \A i \in Marks :
      <>[](/\ met = {}
           /\ mode = "failover"
           /\ i \in DOMAIN wans
           /\ wans[i].ok > 0
           /\ \A j \in 1 .. i - 1 : wans[j].fails > 0)
      => <>[](i \in DOMAIN wans /\ main = {Hop(wans[i])})

=============================================================================
