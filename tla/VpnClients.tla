----------------------------- MODULE VpnClients -----------------------------
(* The home behind a commercial VPN: the WireGuard and OpenVPN profiles of a  *)
(* customer (server.js), the tunnels the box starts from them (wg-client.js,  *)
(* openvpn-client.js), and the policy routing that sends the household        *)
(* through a WireGuard tunnel.  The box runs the commands in order; some are  *)
(* lost (BoxCommands), and a tunnel may fail to come up or, for OpenVPN, end  *)
(* by itself.  wg-quick brings down what is up.                               *)
EXTENDS Integers, Sequences, FiniteSets, Household

CONSTANTS
    Profiles,       \* the ids a label can become, the one of a label without a letter included
    Nameless,       \* that id: the cloud makes one up, the box refuses the label
    MaxClientOrders \* bound on the commands ever queued

Tools == {"wg", "ovpn"}

VARIABLES
    clients,        \* per tool, the profiles the cloud lists
    active,         \* per tool, the profiles it shows as active
    vpn_queue,      \* commands for the box, oldest first
    asked,          \* commands queued so far
    confs,          \* per tool, the profiles on the disk of the box
    up,             \* per tool, the tunnels that are up
    mark_all,       \* the household's packets get the mark
    mark_of,        \* devices whose packets get the mark
    rule,           \* marked packets look into table 200
    table,          \* the default route of table 200, a tunnel or None
    cut_off         \* history: per tool, a command was lost or failed, or a tunnel ended
clientVars == <<clients, active, vpn_queue, asked, confs, up, mark_all, mark_of, rule, table,
                cut_off>>

ClientInit ==
    /\ clients = [t \in Tools |-> {}] /\ active = [t \in Tools |-> {}]
    /\ vpn_queue = <<>> /\ asked = 0
    /\ confs = [t \in Tools |-> {}] /\ up = [t \in Tools |-> {}]
    /\ mark_all = FALSE /\ mark_of = {} /\ rule = FALSE /\ table = None
    /\ cut_off = [t \in Tools |-> FALSE]

Tunnels == <<confs, up, mark_all, mark_of, rule, table, cut_off>>

-----------------------------------------------------------------------------
(* The cloud: the list changes at once, the box when it runs the command.     *)
Ask(op, t, what) ==
    /\ asked < MaxClientOrders /\ asked' = asked + 1
    /\ vpn_queue' = Append(vpn_queue, [op |-> op, tool |-> t, what |-> what])

ClientAdd(t, p) ==
    /\ p \notin clients[t]
    /\ Ask("add", t, p)
    /\ clients' = [clients EXCEPT ![t] = @ \cup {p}]
    /\ UNCHANGED <<active, Tunnels>>
\* One profile is active, the others are not.
Activated(t, p) == {p}
ClientStart(t, p) ==
    /\ p \in clients[t]
    /\ Ask("start", t, p)
    /\ active' = [active EXCEPT ![t] = Activated(t, p)]
    /\ UNCHANGED <<clients, Tunnels>>
ClientStop(t, p) ==
    /\ p \in clients[t]
    /\ Ask("stop", t, p)
    /\ active' = [active EXCEPT ![t] = @ \ {p}]
    /\ UNCHANGED <<clients, Tunnels>>
ClientDelete(t, p) ==
    /\ p \in clients[t]
    /\ Ask("remove", t, p)
    /\ clients' = [clients EXCEPT ![t] = @ \ {p}]
    /\ active' = [active EXCEPT ![t] = @ \ {p}]
    /\ UNCHANGED Tunnels
\* route-device names a WireGuard profile, or none to end it.
RouteDevice(g, p) ==
    /\ p # None => p \in clients["wg"]
    /\ Ask("route", "wg", <<g, p>>)
    /\ UNCHANGED <<clients, active, Tunnels>>

-----------------------------------------------------------------------------
(* The box.                                                                   *)
ClientsListed == <<clients, active, asked>>
Ran == vpn_queue' = Tail(vpn_queue) /\ UNCHANGED ClientsListed
Strays(t) == cut_off' = [cut_off EXCEPT ![t] = TRUE]
Policy == <<mark_all, rule, table>>

\* addProfile
BoxAdd(t, p) ==
    /\ IF p = Nameless \/ p \in confs[t] THEN Strays(t) /\ UNCHANGED confs
       ELSE confs' = [confs EXCEPT ![t] = @ \cup {p}] /\ UNCHANGED cut_off
    /\ UNCHANGED <<up, mark_of, Policy>>

\* A tunnel that goes down takes its route with it.
RouteAfter(tunnels) == IF table \in tunnels THEN table ELSE None

\* start: the others go down first; the policy is set when the tunnel is up.
BoxStart(t, p) ==
    /\ IF p \notin confs[t]
       THEN Strays(t) /\ UNCHANGED <<up, Policy>>
       ELSE \/ /\ up' = [up EXCEPT ![t] = {p}]
               /\ IF t = "wg" THEN mark_all' = TRUE /\ rule' = TRUE /\ table' = p
                  ELSE UNCHANGED Policy
               /\ UNCHANGED cut_off
            \/ /\ p \notin up[t]
               /\ up' = [up EXCEPT ![t] = {}]
               /\ table' = (IF t = "wg" THEN RouteAfter({}) ELSE table)
               /\ Strays(t) /\ UNCHANGED <<mark_all, rule>>
    /\ UNCHANGED <<confs, mark_of>>

\* stop and the policy it clears when no tunnel is left.
NoneLeft_Always(t) == TRUE
NoneLeft(t) == up'[t] = {}
Stopped(t, p) ==
    /\ up' = [up EXCEPT ![t] = @ \ {p}]
    /\ IF t # "wg" THEN UNCHANGED Policy
       ELSE IF NoneLeft(t) THEN mark_all' = FALSE /\ rule' = FALSE /\ table' = None
       ELSE table' = RouteAfter(up'[t]) /\ UNCHANGED <<mark_all, rule>>
BoxStop(t, p) == Stopped(t, p) /\ UNCHANGED <<confs, mark_of, cut_off>>
\* removeProfile stops a tunnel that is up.
BoxRemove(t, p) ==
    /\ IF p \in up[t] THEN Stopped(t, p) ELSE UNCHANGED <<up, Policy>>
    /\ confs' = [confs EXCEPT ![t] = @ \ {p}]
    /\ UNCHANGED <<mark_of, cut_off>>
\* routeDevice: the rule is there, the tunnel need not be.
BoxRoute(g, p) ==
    /\ mark_of' = IF p = None THEN mark_of \ {g} ELSE mark_of \cup {g}
    /\ rule' = (rule \/ p # None)
    /\ UNCHANGED <<confs, up, mark_all, table, cut_off>>

ClientRuns ==
    /\ vpn_queue # <<>>
    /\ LET c == Head(vpn_queue) IN
         CASE c.op = "add"    -> BoxAdd(c.tool, c.what)
           [] c.op = "start"  -> BoxStart(c.tool, c.what)
           [] c.op = "stop"   -> BoxStop(c.tool, c.what)
           [] c.op = "remove" -> BoxRemove(c.tool, c.what)
           [] c.op = "route"  -> BoxRoute(c.what[1], c.what[2])
    /\ Ran
ClientLoses ==
    /\ vpn_queue # <<>>
    /\ Strays(Head(vpn_queue).tool)
    /\ UNCHANGED <<confs, up, mark_of, Policy>>
    /\ Ran
\* An OpenVPN daemon ends by itself (the provider refuses it).
DaemonEnds ==
    /\ up["ovpn"] # {}
    /\ up' = [up EXCEPT !["ovpn"] = {}]
    /\ Strays("ovpn")
    /\ UNCHANGED <<ClientsListed, vpn_queue, confs, mark_of, Policy>>

ClientNext ==
    \/ \E t \in Tools, p \in Profiles :
         ClientAdd(t, p) \/ ClientStart(t, p) \/ ClientStop(t, p) \/ ClientDelete(t, p)
    \/ \E g \in Gadgets, p \in Profiles \cup {None} : RouteDevice(g, p)
    \/ ClientRuns \/ ClientLoses \/ DaemonEnds

-----------------------------------------------------------------------------
(* What holds.                                                                *)
\* The lists of the cloud and the tunnels of the box have their shape.
ClientTypeOK ==
    /\ \A t \in Tools : active[t] \subseteq clients[t] /\ clients[t] \subseteq Profiles
                        /\ confs[t] \subseteq Profiles \ {Nameless}
    /\ mark_all \in BOOLEAN /\ rule \in BOOLEAN /\ table \in Profiles \cup {None}
    /\ mark_of \subseteq Gadgets

\* The box has up what the cloud shows as active once it has caught up, when nothing was lost
\* and nothing failed; and whenever a WireGuard tunnel is up, it is the only one and the whole
\* household goes through it (start, stopOthers, stop, applyPolicyRouting).
TunnelAsChosen ==
    /\ \A t \in Tools : vpn_queue = <<>> /\ ~cut_off[t] => up[t] = active[t]
    /\ \A p \in up["wg"] : up["wg"] = {p} /\ mark_all /\ rule /\ table = p

-----------------------------------------------------------------------------
(* What the proof of TunnelAsChosen rests on.                                 *)
ClientOrders ==
    [op : {"add", "start", "stop", "remove"}, tool : Tools, what : Profiles]
    \cup [op : {"route"}, tool : {"wg"}, what : Gadgets \X (Profiles \cup {None})]

\* The tunnels of a tool after a command that does not fail.
After(tunnels, c, t) ==
    IF c.tool # t THEN tunnels
    ELSE IF c.op = "start" THEN {c.what}
    ELSE IF c.op \in {"stop", "remove"} THEN tunnels \ {c.what} ELSE tunnels

\* The commands lead from the tunnels that are up to the goal.
Towards(t, commands, goal) ==
    \E s \in [0 .. Len(commands) -> SUBSET Profiles] :
        /\ s[0] = up[t] /\ s[Len(commands)] = goal
        /\ \A i \in 1 .. Len(commands) : s[i] = After(s[i - 1], commands[i], t)

HouseholdThrough == \A p \in up["wg"] : up["wg"] = {p} /\ mark_all /\ rule /\ table = p

ClientInv ==
    /\ ClientTypeOK
    /\ {clients, active, confs, up} \subseteq [Tools -> SUBSET Profiles]
    /\ cut_off \in [Tools -> BOOLEAN] /\ vpn_queue \in Seq(ClientOrders)
    /\ HouseholdThrough
    /\ \A t \in Tools : ~cut_off[t] => Towards(t, vpn_queue, active[t])
=============================================================================
