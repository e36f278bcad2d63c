----------------------------- MODULE VpnServers -----------------------------
(* The VPN servers a household is let into: the WireGuard server of the cloud *)
(* (server.js, wg-sync.sh), and the IPsec and AmneziaWG servers of the box    *)
(* (server.js, ipsec.js, amnezia-wg.js).  The cloud keeps lists of users and  *)
(* peers, and the server that lets them in keeps its own: through a file that *)
(* is synchronised every minute, or through commands, which the box runs in   *)
(* order and which may be lost (BoxCommands).  On the box a failing write     *)
(* leaves a file as it was or cut short, and failures of awg and awg-quick    *)
(* are swallowed.  External: both programs, the interface, the file system.   *)
EXTENDS Integers, Sequences, FiniteSets, Household

CONSTANTS
    Users,          \* names of IPsec users
    LastHost,       \* the last address of a VPN network (254); the first is 2
    MaxPeers,       \* bound on the WireGuard peers ever made
    MaxVpnOrders    \* bound on the commands ever queued for the box

FirstHost == 2
Pool == FirstHost .. LastHost

\* None is null in the code: no name, no answer and no list is equal to it.
ASSUME VpnAssumption ==
    /\ LastHost \in Nat /\ MaxVpnOrders \in Nat
    /\ None \notin Users /\ None \notin {"completed", "failed"}
    /\ \A server \in SUBSET [id : 1 .. MaxVpnOrders, ip : Pool] : server # None

VARIABLES
    wg_peers,       \* WireGuard peers: [id, octet]
    next_peer_octet,
    wg_conf,        \* the peers in wg0.conf
    wg_iface,       \* the peers the interface lets in, None while it is down
    missed,         \* history: the last reload of the interface failed
    ipsec_users,    \* the users the cloud lists
    awg_peers,      \* the AmneziaWG peers the cloud lists
    box_queue,      \* commands for the box, oldest first
    vpn_orders,         \* commands queued so far
    waiting,        \* commands a handler of the cloud waits for (_waitForCmd)
    answers,        \* command -> "completed", "failed", or None while it has not run
    managed,        \* the users in ipsec.secrets, None when it has no managed block
    awg_set,        \* meta.json tells of a setup
    awg_server,     \* the peers in peers.json: [id, ip]
    awg_conf,       \* the peers in awg0.conf, None before the setup
    awg_iface,      \* the peers that awg0 lets in, None while it is down
    awg_behind,     \* history: awg0 was not given peers.json since that changed
    awg_lost,       \* history: the peers that were in peers.json when it was cut short
    refused         \* history: IPsec users whose add or remove failed or was lost
awgVars == <<awg_set, awg_server, awg_conf, awg_iface, awg_behind, awg_lost>>
vpnVars == <<wg_peers, next_peer_octet, wg_conf, wg_iface, missed, ipsec_users, awg_peers,
             box_queue, vpn_orders, waiting, answers, managed, awgVars, refused>>

VpnInit ==
    /\ wg_peers = {} /\ next_peer_octet = FirstHost /\ wg_conf = None /\ wg_iface = None
    /\ missed = FALSE
    /\ ipsec_users = {} /\ awg_peers = {}
    /\ box_queue = <<>> /\ vpn_orders = 0 /\ waiting = {} /\ answers = [o \in 1 .. MaxVpnOrders |-> None]
    /\ managed = None /\ refused = {}
    /\ awg_set = FALSE /\ awg_server = {} /\ awg_conf = None /\ awg_iface = None
    /\ awg_behind = TRUE /\ awg_lost = {}

WireGuard == <<wg_peers, next_peer_octet, wg_conf, wg_iface, missed>>
Cloud == <<ipsec_users, awg_peers, waiting>>
Box == <<managed, awgVars>>

-----------------------------------------------------------------------------
(* WireGuard.                                                                 *)
\* wg/peers/create: the address is the next one ever, the addresses of deleted peers are
\* not used again.
PeerCreate ==
    /\ next_peer_octet < FirstHost + MaxPeers
    /\ wg_peers' = wg_peers \cup {next_peer_octet}
    /\ next_peer_octet' = next_peer_octet + 1
    /\ UNCHANGED <<wg_conf, wg_iface, missed, Cloud, box_queue, vpn_orders, answers, Box, refused>>
PeerDelete(p) ==
    /\ p \in wg_peers
    /\ wg_peers' = wg_peers \ {p}
    /\ UNCHANGED <<next_peer_octet, wg_conf, wg_iface, missed, Cloud, box_queue, vpn_orders, answers,
                   Box, refused>>

\* wg-sync.sh, every minute: nothing when the file is as it should be; otherwise the file is
\* replaced and then loaded, which may fail and does when an address is none.
Changed_Count ==
    IF wg_conf = None THEN TRUE ELSE Cardinality(wg_conf) # Cardinality(wg_peers)
Changed == wg_conf # wg_peers
Loads == wg_peers \subseteq Pool
WgSync ==
    /\ next_peer_octet > FirstHost
    /\ Changed
    /\ wg_conf' = wg_peers
    /\ \/ Loads /\ wg_iface' = wg_peers /\ missed' = FALSE
       \/ UNCHANGED wg_iface /\ missed' = TRUE
    /\ UNCHANGED <<wg_peers, next_peer_octet, Cloud, box_queue, vpn_orders, answers, Box, refused>>

-----------------------------------------------------------------------------
(* The box: commands and what it makes of them.                               *)
VpnOrder(op, what) ==
    /\ vpn_orders < MaxVpnOrders /\ vpn_orders' = vpn_orders + 1
    /\ box_queue' = Append(box_queue, [id |-> vpn_orders', op |-> op, what |-> what])

\* The setups overwrite nothing of the cloud's lists.
Setup(op) ==
    /\ VpnOrder(op, None)
    /\ UNCHANGED <<WireGuard, Cloud, answers, Box, refused>>
UserAdd(u) ==
    /\ u \notin ipsec_users
    /\ VpnOrder("ipsec-user-add", u)
    /\ ipsec_users' = ipsec_users \cup {u}
    /\ UNCHANGED <<WireGuard, awg_peers, waiting, answers, Box, refused>>
UserDelete(u) ==
    /\ u \in ipsec_users
    /\ VpnOrder("ipsec-user-remove", u)
    /\ ipsec_users' = ipsec_users \ {u}
    /\ UNCHANGED <<WireGuard, awg_peers, waiting, answers, Box, refused>>

\* awg/peers/add waits for the box and lists the peer when its answer comes in time.
AwgPeerAdd ==
    /\ VpnOrder("awg-peer-add", None)
    /\ waiting' = waiting \cup {vpn_orders'}
    /\ UNCHANGED <<WireGuard, ipsec_users, awg_peers, answers, Box, refused>>
WaitSees(o) ==
    /\ o \in waiting /\ answers[o] # None
    /\ waiting' = waiting \ {o}
    /\ awg_peers' = IF answers[o] = "failed" THEN awg_peers ELSE awg_peers \cup {o}
    /\ UNCHANGED <<WireGuard, ipsec_users, box_queue, vpn_orders, answers, Box, refused>>
WaitOver(o) ==
    /\ o \in waiting
    /\ waiting' = waiting \ {o}
    /\ UNCHANGED <<WireGuard, ipsec_users, awg_peers, box_queue, vpn_orders, answers, Box, refused>>
AwgPeerDelete(p) ==
    /\ p \in awg_peers
    /\ VpnOrder("awg-peer-remove", p)
    /\ awg_peers' = awg_peers \ {p}
    /\ UNCHANGED <<WireGuard, ipsec_users, waiting, answers, Box, refused>>

Done(c, answer) ==
    /\ box_queue' = Tail(box_queue)
    /\ answers' = [answers EXCEPT ![c.id] = answer]
    /\ UNCHANGED <<WireGuard, Cloud, vpn_orders>>

\* The file tells a user's name and not the password: writing a list that holds a user read
\* back from it throws before the file is touched.
Writable(u) == managed = None \/ managed = {}
RunUser(c) ==
    /\ CASE c.op = "ipsec-setup" -> managed' = {}
         [] c.op = "ipsec-user-add" ->
              managed' = IF Writable(c.what) THEN {c.what} ELSE managed
         [] c.op = "ipsec-user-remove" ->
              managed' = IF managed = None THEN None ELSE managed \ {c.what}
    /\ refused' = IF c.what # None /\ managed' = managed THEN refused \cup {c.what} ELSE refused
    /\ Done(c, IF c.what # None /\ managed' = managed THEN "failed" ELSE "completed")
    /\ UNCHANGED awgVars

\* _nextPeerIp
Used == {p.ip : p \in awg_server}
Free == {ip \in Pool : ip \notin Used}
NextIp == CHOOSE ip \in Free : \A other \in Free : ip <= other

\* awg0.conf after a write that failed: a file cut short names some of the peers.
Unwritten(peers) == {awg_conf} \cup SUBSET peers

\* setupServer: what fails before the conf leaves at most meta.json; the interface goes down
\* before it comes up again, which may fail.
AwgSetup ==
    /\ \/ /\ awg_set' \in {awg_set, FALSE} /\ UNCHANGED <<awg_conf, awg_iface, awg_behind>>
       \/ /\ awg_set' = TRUE
          /\ \/ awg_conf' \in Unwritten(awg_server) /\ UNCHANGED awg_iface /\ awg_behind' = TRUE
             \/ /\ awg_conf' = awg_server
                /\ \/ awg_iface' = awg_server /\ awg_behind' = FALSE
                   \/ awg_iface' \in {None, awg_iface} /\ awg_behind' = TRUE
    /\ UNCHANGED <<awg_server, awg_lost>>

\* The end of addPeer and removePeer: the conf is written and awg syncconf loads what is
\* there into an interface that is up.
AwgReload(peers) ==
    \/ awg_conf' = peers /\ awg_iface # None /\ awg_iface' = peers /\ awg_behind' = FALSE
    \/ /\ awg_conf' \in Unwritten(peers) \cup {peers}
       /\ awg_iface' = awg_iface \/ (awg_iface # None /\ awg_iface' = awg_conf')
       /\ awg_behind' = TRUE

\* writePeers throws: the file may be cut short, and is read as no peers from then on.
PeersUnwritten ==
    \/ UNCHANGED awgVars
    \/ /\ awg_server' = {} /\ awg_lost' = awg_lost \cup {p.id : p \in awg_server}
       /\ awg_behind' = TRUE
       /\ UNCHANGED <<awg_set, awg_conf, awg_iface>>
AddPeer(c) ==
    \/ PeersUnwritten /\ Done(c, "failed")
    \/ /\ awg_set /\ Free # {}
       /\ awg_server' = awg_server \cup {[id |-> c.id, ip |-> NextIp]}
       /\ AwgReload(awg_server')
       /\ Done(c, "completed")
       /\ UNCHANGED <<awg_set, awg_lost>>
RemovePeer(c) ==
    \/ PeersUnwritten /\ Done(c, "failed")
    \/ /\ \E p \in awg_server : p.id = c.what
       /\ awg_server' = {p \in awg_server : p.id # c.what}
       /\ \/ awg_set /\ AwgReload(awg_server')
          \/ ~awg_set /\ awg_behind' = TRUE /\ UNCHANGED <<awg_conf, awg_iface>>
       /\ Done(c, "completed")
       /\ UNCHANGED <<awg_set, awg_lost>>
RunAwg(c) ==
    /\ \/ c.op = "awg-setup" /\ AwgSetup /\ Done(c, "completed")
       \/ c.op = "awg-peer-add" /\ AddPeer(c)
       \/ c.op = "awg-peer-remove" /\ RemovePeer(c)
    /\ UNCHANGED <<managed, refused>>

UserOps == {"ipsec-setup", "ipsec-user-add", "ipsec-user-remove"}
BoxRuns ==
    /\ box_queue # <<>>
    /\ LET c == Head(box_queue) IN IF c.op \in UserOps THEN RunUser(c) ELSE RunAwg(c)
\* Nothing brings awg0 up when the box starts.
VpnBoxReboots ==
    /\ awg_iface # None
    /\ awg_iface' = None /\ awg_behind' = TRUE
    /\ UNCHANGED <<WireGuard, Cloud, box_queue, vpn_orders, answers, managed, awg_set, awg_server,
                   awg_conf, awg_lost, refused>>
\* The agent dies with the command: nobody answers.
BoxLoses ==
    /\ box_queue # <<>>
    /\ box_queue' = Tail(box_queue)
    /\ LET c == Head(box_queue) IN
         refused' = IF c.op \in UserOps /\ c.what # None THEN refused \cup {c.what} ELSE refused
    /\ UNCHANGED <<WireGuard, Cloud, vpn_orders, answers, Box>>

WireGuardStep == PeerCreate \/ WgSync \/ \E p \in wg_peers : PeerDelete(p)
BoxVpnStep ==
    \/ BoxRuns \/ BoxLoses \/ VpnBoxReboots \/ AwgPeerAdd
    \/ \E op \in {"ipsec-setup", "awg-setup"} : Setup(op)
    \/ \E u \in Users : UserAdd(u) \/ UserDelete(u)
    \/ \E o \in waiting : WaitSees(o) \/ WaitOver(o)
    \/ \E p \in awg_peers : AwgPeerDelete(p)

-----------------------------------------------------------------------------
(* What holds.                                                                *)
AwgPeers == [id : 1 .. vpn_orders, ip : Pool]
OneAddressEach(peers) == \A p, q \in peers : p.ip = q.ip => p = q

\* The lists of the cloud and of the servers have their shape.
VpnTypeOK ==
    /\ wg_peers \subseteq FirstHost .. next_peer_octet - 1
    /\ wg_iface # None => wg_conf # None
    /\ ipsec_users \subseteq Users /\ refused \subseteq Users
    /\ waiting \subseteq 1 .. vpn_orders /\ awg_peers \subseteq 1 .. vpn_orders
    /\ managed # None => managed \subseteq Users
    /\ awg_set \in BOOLEAN /\ awg_behind \in BOOLEAN /\ awg_lost \subseteq 1 .. vpn_orders
    /\ awg_server \subseteq AwgPeers
    /\ awg_conf # None => awg_conf \subseteq AwgPeers
    /\ awg_iface # None => awg_conf # None /\ awg_iface \subseteq AwgPeers

\* A peer the customer sees is on the box's record, whenever its answer came and whatever was
\* lost, unless the record was cut short after it, and no two peers there have one address
\* (awg/peers/add, _waitForCmd, _nextPeerIp).  The interface lets in those of the record and
\* nobody else from any setup or peer command that wrote and loaded it until a failure that is
\* swallowed or a reboot; it never lets in two peers with one address.
AwgListedServed ==
    /\ \A p \in awg_peers \ awg_lost : \E q \in awg_server : q.id = p
    /\ OneAddressEach(awg_server)
    /\ ~awg_behind => awg_iface = awg_server
    /\ awg_iface # None => OneAddressEach(awg_iface)

\* A peer that is deleted is cut off, unless the interface could not load the file
\* (wg-sync.sh, run by its timer).
RevokedCut ==
    \A i \in FirstHost .. FirstHost + MaxPeers - 1 :
      (wg_iface # None /\ i \in wg_iface /\ i \notin wg_peers)
        ~> (wg_iface # None /\ i \notin wg_iface) \/ missed

-----------------------------------------------------------------------------
(* What the proof of AwgListedServed rests on.                                *)
VpnCommands ==
    [id : 1 .. MaxVpnOrders, op : UserOps \cup {"awg-setup", "awg-peer-add", "awg-peer-remove"},
     what : Users \cup {None} \cup 1 .. MaxVpnOrders]

\* The commands of the queue are told apart by their ids, nobody has answered them, and a peer
\* that is to be removed is neither listed nor waited for.
QueueSound ==
    /\ \A i, j \in DOMAIN box_queue : box_queue[i].id = box_queue[j].id => i = j
    /\ \A i \in DOMAIN box_queue :
          LET c == box_queue[i] IN
          /\ c.id \in 1 .. vpn_orders /\ answers[c.id] = None
          /\ c.id \in waiting => c.op = "awg-peer-add"
          /\ c.op \in UserOps => c.what \in Users \cup {None}
          /\ c.op = "ipsec-user-add" => c.what # None
          /\ c.op = "awg-peer-remove" => c.what \in (1 .. vpn_orders) \ (awg_peers \cup waiting)

\* A peer the cloud waits for is on the box's record once the box has answered so.
AnswersTrue ==
    /\ answers \in [1 .. MaxVpnOrders -> {None, "completed", "failed"}]
    /\ \A o \in 1 .. MaxVpnOrders : o > vpn_orders => answers[o] = None
    /\ \A o \in waiting :
          /\ o \notin awg_peers
          /\ answers[o] = "completed" => o \in awg_lost \/ \E q \in awg_server : q.id = o

\* No two peers of the conf have one address.
ConfSound == awg_conf # None => OneAddressEach(awg_conf)

VpnInv ==
    /\ VpnTypeOK /\ vpn_orders \in 0 .. MaxVpnOrders
    /\ box_queue \in Seq(VpnCommands)
    /\ QueueSound /\ AnswersTrue /\ AwgListedServed /\ ConfSound
=============================================================================
