----------------------------- MODULE OpenVpnServer -----------------------------
(***************************************************************************)
(* The OpenVPN server of a box (openvpn.js), which two commands of the     *)
(* administrators reach: openvpn-install and openvpn-add-client.  Each is  *)
(* a row of shell commands and file writes; the first that fails, and a    *)
(* box that loses its power, leaves what was done before.  A command runs  *)
(* alone (execSync).  Keys and certificates are named by the authority     *)
(* they belong to; ports and networks stand in the protocol.               *)
(***************************************************************************)
EXTENDS Integers, FiniteSets

CONSTANTS
    Clients,            \* names of VPN clients
    Protocols,          \* udp, tcp
    DefaultProtocol,    \* udp: of a profile when the record of the server is gone
    Missing,            \* a file that is not there
    MaxInstalls         \* commands to install: a bound

ASSUME OpenVpnAssumption ==
    /\ MaxInstalls \in Nat
    /\ DefaultProtocol \in Protocols
    /\ Missing \notin Protocols \cup [proto: Protocols, crlVerify: BOOLEAN]

VARIABLES
    caKey, caCrt,       \* which authority the key, and the certificate, belong to
    serverCrt,          \* which authority signed the server; ca.srl comes with it
    tlsCrypt, crl,      \* whether tls-crypt.key and crl.pem are there
    serverConf,         \* server.conf, and so the server that runs
    certs,              \* each client: the authority that signed him
    profiles,           \* each client: the protocol his .ovpn names
    metaServer,         \* clients.json: the protocol of the server
    onList,             \* clients.json: the clients
    installs,           \* installs so far
    settled,            \* history: the last install was complete, and clients.json is whole
    reachable           \* history: clients whose profile was made of a settled server that
                        \* was not installed again since

pkiVars == <<caKey, caCrt, serverCrt, tlsCrypt, crl>>
clientVars == <<certs, profiles, onList>>
ovpnVars == <<pkiVars, serverConf, clientVars, metaServer, installs, settled, reachable>>

Authority == 0 .. MaxInstalls

OvpnTypeOK ==
    /\ {caKey, caCrt, serverCrt} \subseteq Authority
    /\ tlsCrypt \in BOOLEAN /\ crl \in BOOLEAN
    /\ serverConf = Missing \/ serverConf \in [proto: Protocols, crlVerify: BOOLEAN]
    /\ certs \in [Clients -> Authority]
    /\ profiles \in [Clients -> Protocols \cup {Missing}]
    /\ metaServer \in Protocols \cup {Missing}
    /\ onList \subseteq Clients /\ reachable \subseteq Clients

\* Authority 0 is none.
OvpnInit ==
    /\ caKey = 0 /\ caCrt = 0 /\ serverCrt = 0 /\ tlsCrypt = FALSE /\ crl = FALSE
    /\ serverConf = Missing
    /\ certs = [c \in Clients |-> 0] /\ profiles = [c \in Clients |-> Missing]
    /\ metaServer = Missing /\ onList = {}
    /\ installs = 0 /\ settled = FALSE /\ reachable = {}

-----------------------------------------------------------------------------
HasCA == caKey # 0 /\ caCrt # 0

\* initPKI up to its n-th piece: the key and the certificate of the authority, the server's, the
\* tls-crypt key.  What is there is kept.  A list of revocations may fail to be made.
InitPKI(n) ==
    LET renewed == ~HasCA /\ n >= 1 IN
    /\ caKey' = IF renewed THEN installs' ELSE caKey
    /\ caCrt' = IF renewed /\ n >= 2 THEN installs' ELSE caCrt
    /\ serverCrt' = IF serverCrt = 0 /\ n >= 3 THEN caKey' ELSE serverCrt
    /\ tlsCrypt' = (tlsCrypt \/ n >= 4)
    /\ IF n >= 5 THEN crl' \in {crl, TRUE} ELSE UNCHANGED crl

\* writeServerConf: revocations are checked if there is a list of them by now.
ConfOf(proto) == [proto |-> proto, crlVerify |-> crl']

\* The protocol the server is to speak: the option, or udp.  n counts what was done: five pieces
\* of the PKI, server.conf with the restart, clients.json.
Install(proto, n) ==
    /\ installs < MaxInstalls /\ installs' = installs + 1
    /\ InitPKI(n)
    /\ serverConf' = IF n >= 6 THEN ConfOf(proto) ELSE serverConf
    /\ metaServer' = IF n >= 7 THEN proto ELSE metaServer
    /\ settled' = IF n >= 6 THEN n = 7 ELSE settled
    /\ reachable' = IF n >= 6 THEN {} ELSE reachable
    /\ UNCHANGED clientVars

\* readMeta
KnownProtocol == IF metaServer = Missing THEN DefaultProtocol ELSE metaServer

\* generateClientCert: the serial file that is needed came with the server's certificate.
Signed == IF serverCrt # 0 THEN caKey ELSE 0

\* addClient up to its n-th piece: the certificate; the profile, which holds the tls-crypt key; clients.json.  A name with a
\* certificate is refused.
AddClient(c, n) ==
    /\ caCrt # 0 /\ certs[c] = 0
    /\ n >= 1 => Signed # 0
    /\ n >= 2 => tlsCrypt
    /\ certs' = IF n >= 1 THEN [certs EXCEPT ![c] = Signed] ELSE certs
    /\ profiles' = IF n >= 2 THEN [profiles EXCEPT ![c] = KnownProtocol] ELSE profiles
    /\ onList' = IF n >= 3 THEN onList \cup {c} ELSE onList
    /\ reachable' = IF n >= 3 /\ settled THEN reachable \cup {c} ELSE reachable
    /\ UNCHANGED <<pkiVars, serverConf, metaServer, installs, settled>>

\* The power fails while clients.json is written: it can not be read, which is taken for an
\* empty one.
MetaTorn ==
    /\ metaServer # Missing
    /\ metaServer' = Missing /\ onList' = {}
    /\ settled' = FALSE
    /\ UNCHANGED <<pkiVars, serverConf, certs, profiles, installs, reachable>>

OvpnNext ==
    \/ \E proto \in Protocols, n \in 0 .. 7 : Install(proto, n)
    \/ \E c \in Clients, n \in 0 .. 3 : AddClient(c, n)
    \/ MetaTorn

-----------------------------------------------------------------------------
\* Who is listed can connect, whichever commands failed half-way and were given again: his
\* certificate, the server's and the authority's belong together, and his profile names the
\* protocol the server speaks if it was made of a whole install that is the last one.
ListedConnect ==
    \A c \in onList :
       /\ certs[c] # 0 /\ certs[c] = caCrt /\ serverCrt = caCrt
       /\ profiles[c] # Missing
       /\ c \in reachable => profiles[c] = serverConf.proto

\* A server that checks revocations has a list to check.
CrlThere == serverConf # Missing => (serverConf.crlVerify => crl)
=============================================================================
