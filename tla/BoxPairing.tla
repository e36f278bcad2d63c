----------------------------- MODULE BoxPairing -----------------------------
(***************************************************************************)
(* How a box registers, is claimed by a customer and stays connected.      *)
(*                                                                         *)
(* At first boot the agent asks the cloud to register the MAC and keeps    *)
(* the secret and the pairing code it is given.  The MAC is bound to a     *)
(* customer by the code, from the same network, by a QR token, or by an    *)
(* administrator; it is unbound when the customer is deleted and forgotten *)
(* when it is revoked.  Three records have to agree: authorized_macs (the  *)
(* owner), pending_boxes (the code) and what the box has on its own disk.  *)
(*                                                                         *)
(* A code stands for the last registration of its MAC: codes are taken to  *)
(* be distinct.  Each customer has at most one QR token under way.         *)
(***************************************************************************)
EXTENDS Naturals

CONSTANTS
    Macs, Customers,
    NoOne,          \* authorized, without a customer
    Unauthorized,   \* not in authorized_macs
    Demo,           \* customers created by the demo seeding
    Channels,       \* the ways of binding and unbinding that are used
    MaxOps          \* operations of customers and administrators: a bound

ASSUME BoxPairingAssumption ==
    /\ NoOne \notin Customers
    /\ Unauthorized \notin Customers
    /\ NoOne # Unauthorized
    /\ Demo \subseteq Customers
    /\ Channels \subseteq {"code", "auto", "prepair", "assign", "authorize",
                           "stray", "revoke", "delete", "unseed"}
    /\ MaxOps \in Nat

VARIABLES
    customers,      \* state.customers
    owner,          \* state.authorized_macs[mac].customer_id
    pending,        \* state.pending_boxes[mac]
    qr,             \* state.pre_pair_tokens, by customer
    seen,           \* the MACs in state.box_state
    session,        \* the MACs whose box holds a token of state.box_sessions
    cfg,            \* the MACs whose box has a configuration file
    trusted,        \* the MACs whose agent takes its token to be valid
    ops,
    rebound,        \* history: the MACs bound to a customer away from the box
                    \* since they last registered
    ghosts          \* history: ids that were typed, or unseeded, and are not
                    \* the ids of customers

cloudVars == <<customers, owner, pending, qr, seen, session>>
boxVars == <<cfg, trusted>>
history == <<rebound, ghosts>>
vars == <<customers, owner, pending, qr, seen, session, cfg, trusted, ops,
          rebound, ghosts>>

Owners == Customers \cup {NoOne, Unauthorized}

TypeOK ==
    /\ customers \subseteq Customers
    /\ owner \in [Macs -> Owners]
    /\ pending \in [Macs -> [code: {"none", "live", "expired"}, by: Customers \cup {NoOne}]]
    /\ qr \in [Customers -> {"none", "issued", "used"}]
    /\ seen \subseteq Macs
    /\ session \subseteq Macs
    /\ cfg \subseteq Macs
    /\ trusted \subseteq Macs
    /\ ops \in Nat
    /\ rebound \subseteq Macs
    /\ ghosts \subseteq Customers

Init ==
    /\ customers = Customers
    /\ owner = [m \in Macs |-> Unauthorized]
    /\ pending = [m \in Macs |-> [code |-> "none", by |-> NoOne]]
    /\ qr = [c \in Customers |-> "none"]
    /\ seen = {}
    /\ session = {}
    /\ cfg = {}
    /\ trusted = {}
    /\ ops = 0
    /\ rebound = {}
    /\ ghosts = {}

-----------------------------------------------------------------------------
(* The box.                                                                *)

Claimed(m) == owner[m] \in Customers

\* A registration that has a code to claim: not expired and not used.
Claimable(m) == pending[m] = [code |-> "live", by |-> NoOne]

\* selfRegisterFirstBoot, when the box has no configuration: a code that can
\* be claimed is kept, otherwise there is a new one, and the MAC is
\* authorized.  The answer may be lost, and then the agent starts again.
Register(m) ==
    /\ m \notin cfg
    /\ ~Claimed(m)
    /\ pending' = [pending EXCEPT ![m] = [code |-> "live", by |-> NoOne]]
    /\ owner' = [owner EXCEPT ![m] = NoOne]
    /\ cfg' \in {cfg, cfg \cup {m}}
    /\ rebound' = rebound \ {m}
    /\ UNCHANGED <<customers, qr, seen, session, trusted, ops, ghosts>>

\* A box that is owned is turned away: the agent exits and is started again.
TurnedAway(m) ==
    /\ m \notin cfg
    /\ Claimed(m)
    /\ UNCHANGED vars

\* After seven days.
CodeExpires(m) ==
    /\ pending[m].code = "live"
    /\ pending' = [pending EXCEPT ![m].code = "expired"]
    /\ UNCHANGED <<customers, owner, qr, seen, session, boxVars, ops, history>>

AuthAllowed_Claimed(m) == Claimed(m)
AuthAllowed(m) == owner[m] # Unauthorized

\* ensureAuth, unless the agent still trusts the token it has.
EnsureAuth(m) ==
    /\ m \in cfg \ trusted
    /\ AuthAllowed(m)
    /\ trusted' = trusted \cup {m}
    /\ session' = session \cup {m}
    /\ UNCHANGED <<customers, owner, pending, qr, seen, cfg, ops, history>>

\* mac_not_authorized: the next tick tries again.
AuthRefused(m) ==
    /\ m \in cfg \ trusted
    /\ ~AuthAllowed(m)
    /\ UNCHANGED vars

\* The agent replaces its token well before the session of the cloud ends; it
\* does not look at the answers it gets with it.
TokenAges(m) ==
    /\ m \in trusted
    /\ trusted' = trusted \ {m}
    /\ UNCHANGED <<cloudVars, cfg, ops, history>>

SessionExpires(m) ==
    /\ m \in session \ trusted
    /\ session' = session \ {m}
    /\ UNCHANGED <<customers, owner, pending, qr, seen, boxVars, ops, history>>

\* The heartbeat is accepted with a live session.
Heartbeat(m) ==
    /\ m \in cfg \cap session
    /\ seen' = seen \cup {m}
    /\ UNCHANGED <<customers, owner, pending, qr, session, boxVars, ops, history>>

\* The card of the box is written anew: configuration and token are gone.
Reflash(m) ==
    /\ ops < MaxOps
    /\ ops' = ops + 1
    /\ m \in cfg
    /\ cfg' = cfg \ {m}
    /\ trusted' = trusted \ {m}
    /\ session' = session \ {m}
    /\ UNCHANGED <<customers, owner, pending, qr, seen, history>>

-----------------------------------------------------------------------------
(* Customers.                                                              *)

Op(channel) ==
    /\ channel \in Channels
    /\ ops < MaxOps
    /\ ops' = ops + 1

\* POST /api/customer/box/claim with the code of m.  The customer is told that
\* the box is theirs ("is now linked to your account") and the code is used up,
\* whether or not the MAC is authorized and so bound.
ClaimCode(c, m) ==
    /\ Op("code")
    /\ c \in customers
    /\ Claimable(m)
    /\ pending' = [pending EXCEPT ![m].by = c]
    /\ owner' = [owner EXCEPT ![m] = IF @ = Unauthorized THEN @ ELSE c]
    /\ UNCHANGED <<customers, qr, seen, session, boxVars, history>>

\* The registration of m is used up by a claim that needed no code.
Cleared_Not(m, c) == pending
Cleared(m, c) ==
    IF pending[m].code = "none" THEN pending ELSE [pending EXCEPT ![m].by = c]

\* POST /api/customer/box/auto-claim, from the network of a box that has
\* reported.
AutoClaim(c, m) ==
    /\ Op("auto")
    /\ c \in customers
    /\ m \in seen
    /\ ~Claimed(m)
    /\ owner' = [owner EXCEPT ![m] = c]
    /\ pending' = Cleared(m, c)
    /\ UNCHANGED <<customers, qr, seen, session, boxVars, history>>

\* POST /api/customer/box/prepair.
Prepair(c) ==
    /\ Op("prepair")
    /\ c \in customers
    /\ qr[c] # "issued"
    /\ qr' = [qr EXCEPT ![c] = "issued"]
    /\ UNCHANGED <<customers, owner, pending, seen, session, boxVars, history>>

PrepairExpires(c) ==
    /\ qr[c] = "issued"
    /\ qr' = [qr EXCEPT ![c] = "none"]
    /\ UNCHANGED <<customers, owner, pending, seen, session, boxVars, ops, history>>

\* POST /api/box/prepair-claim: binds the MAC, whoever owned it.
TokenHonoured(c) == qr[c] = "issued" /\ c \in customers

PrepairClaim(c, m) ==
    /\ TokenHonoured(c)
    /\ owner' = [owner EXCEPT ![m] = c]
    /\ qr' = [qr EXCEPT ![c] = "used"]
    /\ rebound' = rebound \cup {m}
    /\ UNCHANGED <<customers, pending, seen, session, boxVars, ops, ghosts>>

-----------------------------------------------------------------------------
(* Administrators.                                                         *)

\* POST /admin/api/customers/assign-box.
Assign(c, m) ==
    /\ Op("assign")
    /\ owner[m] # Unauthorized
    /\ c \in customers
    /\ owner' = [owner EXCEPT ![m] = c]
    /\ rebound' = rebound \cup {m}
    /\ UNCHANGED <<customers, pending, qr, seen, session, boxVars, ghosts>>

\* POST /admin/api/macs/authorize: a new record, with any customer id.
Authorize(c, m) ==
    /\ Op("authorize")
    /\ c \in customers \cup {NoOne} \/ "stray" \in Channels
    /\ owner' = [owner EXCEPT ![m] = c]
    /\ rebound' = rebound \cup {m}
    /\ ghosts' = ghosts \cup ({c} \ (customers \cup {NoOne}))
    /\ UNCHANGED <<customers, pending, qr, seen, session, boxVars>>

\* POST /admin/api/macs/revoke: everything but the registration goes.
Revoke(m) ==
    /\ Op("revoke")
    /\ owner' = [owner EXCEPT ![m] = Unauthorized]
    /\ seen' = seen \ {m}
    /\ session' = session \ {m}
    /\ UNCHANGED <<customers, pending, qr, boxVars, history>>

Orphaned_Not(c) == owner
Orphaned(c) == [m \in Macs |-> IF owner[m] = c THEN NoOne ELSE owner[m]]

\* The administrator's delete, its bulk form, and the end of the grace period
\* a customer asked for.
DeleteCustomer(c) ==
    /\ Op("delete")
    /\ c \in customers
    /\ customers' = customers \ {c}
    /\ owner' = Orphaned(c)
    /\ UNCHANGED <<pending, qr, seen, session, boxVars, history>>

\* POST /admin/api/unseed-demo: boxes that were given to a demo customer later
\* keep the customer's id.
Unseed ==
    /\ Op("unseed")
    /\ customers' = customers \ Demo
    /\ ghosts' = ghosts \cup (customers \cap Demo)
    /\ UNCHANGED <<owner, pending, qr, seen, session, boxVars, rebound>>

BoxStep(m) ==
    \/ Register(m) \/ TurnedAway(m) \/ CodeExpires(m)
    \/ EnsureAuth(m) \/ AuthRefused(m) \/ TokenAges(m) \/ SessionExpires(m)
    \/ Heartbeat(m) \/ Reflash(m) \/ Revoke(m)

ClaimStep(c, m) ==
    ClaimCode(c, m) \/ AutoClaim(c, m) \/ PrepairClaim(c, m) \/ Assign(c, m)

Next ==
    \/ \E m \in Macs : BoxStep(m)
    \/ \E c \in Customers, m \in Macs : ClaimStep(c, m)
    \/ \E c \in Customers \cup {NoOne}, m \in Macs : Authorize(c, m)
    \/ \E c \in Customers : Prepair(c) \/ PrepairExpires(c) \/ DeleteCustomer(c)
    \/ Unseed

Spec == Init /\ [][Next]_vars

\* The agent is started again until it has a configuration, the minute timer
\* fires, and time passes.
Fairness ==
    \A m \in Macs :
        /\ WF_vars(Register(m))
        /\ WF_vars(EnsureAuth(m))
        /\ WF_vars(TokenAges(m))
        /\ SF_vars(Heartbeat(m))

FairSpec == Spec /\ Fairness

-----------------------------------------------------------------------------
(* Properties.                                                             *)

\* The owner of a box is a customer that exists: deleting an account orphans
\* its boxes, and no token or code of a deleted customer binds one.  Only an id
\* an administrator typed, or unseeded, can be left behind.
OwnerExists == \A m \in Macs : Claimed(m) => owner[m] \in customers \cup ghosts

IndInv == TypeOK /\ OwnerExists

\* A code that can still be claimed belongs to a box without an owner: a box
\* that was claimed from its own network cannot be claimed again by its code.
\* (A QR token and an administrator bind a box and leave its code alone.)
ClaimableUnowned ==
    \A m \in Macs \ rebound : Claimable(m) => ~Claimed(m)

\* A box with a configuration and an authorization gets its heartbeat through
\* in the end, although it may hold a token of a session that was revoked.
EventuallyOnline ==
    \A m \in Macs :
        (m \in cfg /\ owner[m] # Unauthorized)
            ~> (m \in seen \/ m \notin cfg \/ owner[m] = Unauthorized)

=============================================================================
