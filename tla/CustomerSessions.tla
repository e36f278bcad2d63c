--------------------------- MODULE CustomerSessions ---------------------------
(***************************************************************************)
(* How a customer of the portal gets in, and how access ends (server.js).  *)
(*                                                                         *)
(* A session token is a signed claim with an end; the cloud keeps no list  *)
(* of them and refuses a token by its end, by the revocation time of the   *)
(* account and when the account is gone.  Sessions are issued by the code  *)
(* sent to a phone (with a second factor once that is set up), by magic    *)
(* links, by invitations, by a share for the family and by an              *)
(* administrator.  Links, invitations, shares, API keys and requests to    *)
(* change the e-mail address are tickets: entries of state named by their  *)
(* random token.  Most handlers save the state; some do not, and a restart *)
(* of the cloud brings back what was last saved.                           *)
(*                                                                         *)
(* Phone numbers identify accounts, so an account stands for its number.   *)
(* The limiter of calls per minute and the audit of a customer's calls     *)
(* change nothing that is modelled here: a call they refuse is not a step. *)
(***************************************************************************)
EXTENDS Integers, FiniteSets

CONSTANTS
    Customers, Emails, Addresses,   \* accounts, e-mail and IP addresses
    Tickets,                        \* random tokens, each drawn once
    Gone, Unborn,                   \* no account or ticket any more; no account yet
    RecoveryCodes,                  \* codes handed out at a time: 8 in the code
    MaxAttempts, AttemptWindow,     \* LOGIN_MAX_ATTEMPTS, LOGIN_WINDOW_MS
    MaxShares,
    SessionLife, SupportLife, ShareSession, MagicLife, LinkKept, InviteLife, EmailLife, ShareLife,
    MaxTime, MaxSecrets, MaxRequests  \* bounds

VARIABLES
    now,
    customers,      \* state.customers
    tickets,        \* magic_links, invitations, family_share_tokens, ...
    attempts,       \* loginAttempts
    saved,          \* customers and tickets as last saved
    sessions,       \* session tokens that were issued
    secrets,        \* second factors drawn so far
    requests,       \* calls so far
    honoured,       \* history: how often a ticket has had its effect
    spent,          \* history: how often a recovery code was accepted
    revokedAt,      \* history: when an account last revoked its sessions
    endedAt,        \* history: when a share ended
    restarted       \* history: the cloud has restarted

sessionVars == <<now, customers, tickets, attempts, saved, sessions, secrets, requests,
                 honoured, spent, revokedAt, endedAt, restarted>>

Kinds == {"magic", "invite", "share", "email", "key", "readkey"}
Times == 0 .. MaxTime
Never == -1
NoFactor == 0
Codes == (1 .. MaxSecrets) \X (1 .. RecoveryCodes)   \* a code belongs to a drawing

Account == [status: {"pending", "active", "suspended"}, email: Emails,
            totp: 0 .. MaxSecrets, pending: 0 .. MaxSecrets,
            codes: SUBSET Codes, minIat: Times \cup {Never}, allowed: SUBSET Addresses]
Ticket == [kind: Kinds, owner: Customers, born: Times, expires: Int,
           dead: BOOLEAN, email: Emails]
Session == [owner: Customers, iat: Times, exp: Int, share: Tickets \cup {Gone}]

ASSUME SessionAssumption ==
    /\ {RecoveryCodes, MaxAttempts, MaxTime, MaxSecrets} \subseteq Nat
    /\ {SessionLife, SupportLife, ShareSession, MagicLife, InviteLife, EmailLife, ShareLife}
          \subseteq Nat
ASSUME GoneIsNothing == Gone # Unborn /\ {Gone, Unborn} \cap (Account \cup Ticket) = {}

Exists(c) == customers[c] \notin {Gone, Unborn}

SessionTypeOK ==
    /\ now \in Times
    /\ DOMAIN customers = Customers
    /\ \A c \in Customers : customers[c] \in Account \/ ~Exists(c)
    /\ \A t \in Tickets : tickets[t] = Gone \/ tickets[t] \in Ticket
    /\ attempts \in [Addresses -> [count: 0 .. MaxAttempts, firstAt: Times]]
    /\ \A s \in sessions : s \in Session
    /\ secrets \in 0 .. MaxSecrets
    /\ honoured \in [Tickets -> Nat]
    /\ spent \in [Codes -> Nat]

NoAttempts == [count |-> 0, firstAt |-> 0]
NewAccount(e) == [status |-> "active", email |-> e, totp |-> NoFactor, pending |-> NoFactor,
                  codes |-> {}, minIat |-> Never, allowed |-> {}]

\* Accounts that staff created, and the others still to come.
SessionInit ==
    /\ now = 0
    /\ \E there \in SUBSET Customers, e \in Emails :
          customers = [c \in Customers |-> IF c \in there THEN NewAccount(e) ELSE Unborn]
    /\ tickets = [t \in Tickets |-> Gone]
    /\ attempts = [a \in Addresses |-> NoAttempts]
    /\ saved = [customers |-> customers, tickets |-> tickets]
    /\ sessions = {}
    /\ secrets = 0
    /\ requests = 0
    /\ honoured = [t \in Tickets |-> 0]
    /\ spent = [k \in Codes |-> 0]
    /\ revokedAt = [c \in Customers |-> Never]
    /\ endedAt = [t \in Tickets |-> Never]
    /\ restarted = FALSE

Open(t, k) == tickets[t] # Gone /\ tickets[t].kind = k

Request ==
    /\ requests < MaxRequests
    /\ requests' = requests + 1

Save == saved' = [customers |-> customers', tickets |-> tickets']

histories == <<honoured, spent, revokedAt, endedAt, restarted>>

-----------------------------------------------------------------------------
(* Session tokens.                                                         *)

\* customerJwt and the tokens for staff and for shares.
Issued(c, life, sh) == [owner |-> c, iat |-> now, exp |-> now + life, share |-> sh]
Issue(c, life, sh) == sessions' = sessions \cup {Issued(c, life, sh)}

Accepts_AnyTime(s) == Exists(s.owner) /\ now <= s.exp
\* verifyCustomerJwt and the account that customerAuth looks for.
Accepts(s) ==
    /\ Exists(s.owner)
    /\ now <= s.exp
    /\ customers[s.owner].minIat <= s.iat

\* A call that changes something: a share is read-only, and so are keys with
\* the scope read.
MayChange(c) ==
    /\ Exists(c)
    /\ \/ \E s \in sessions : s.owner = c /\ s.share = Gone /\ Accepts(s)
       \/ \E t \in Tickets : Open(t, "key") /\ tickets[t].owner = c

Change(c) == Request /\ MayChange(c)

-----------------------------------------------------------------------------
(* Failed attempts.                                                        *)

WindowOver(a) == attempts[a].count > 0 /\ now - attempts[a].firstAt > AttemptWindow
\* checkRateLimit drops a record that has expired before it looks.
Attempts(a) == IF WindowOver(a) THEN NoAttempts ELSE attempts[a]
Allowed(a) == Attempts(a).count < MaxAttempts
\* recordFailure
RecordFailure(a) ==
    attempts' = [attempts EXCEPT ![a] =
        IF Attempts(a).count = 0 THEN [count |-> 1, firstAt |-> now]
        ELSE [Attempts(a) EXCEPT !.count = @ + 1]]
Forget(a) == attempts' = [attempts EXCEPT ![a] = NoAttempts]
Look(a) == attempts' = [attempts EXCEPT ![a] = Attempts(a)]

SweepAttempts ==
    /\ \E a \in Addresses : WindowOver(a)
    /\ attempts' = [a \in Addresses |-> Attempts(a)]
    /\ UNCHANGED <<now, customers, tickets, saved, sessions, secrets, requests, histories>>

\* /api/customer/login: sends the code, unless the number is unknown or the
\* account is waiting or suspended.
Login ==
    /\ Request
    /\ \E a \in Addresses, c \in Customers :
          Allowed(a) /\ IF Exists(c) THEN Look(a) ELSE RecordFailure(a)
    /\ UNCHANGED <<now, customers, tickets, saved, sessions, secrets, histories>>

\* The code was wrong, the number unknown, or the second factor wrong.
VerifyFails ==
    /\ Request
    /\ \E a \in Addresses : Allowed(a) /\ RecordFailure(a)
    /\ UNCHANGED <<now, customers, tickets, saved, sessions, secrets, histories>>

MayComeFrom(c, a) == customers[c].allowed = {} \/ a \in customers[c].allowed

\* Codes that the second step may use up: none, with the authenticator.
Factors(c) ==
    IF customers[c].totp = NoFactor THEN {{}}
    ELSE {{}} \cup {{k} : k \in customers[c].codes}

Consume(c, used) == [customers EXCEPT ![c].codes = @ \ used]
Spend(used) == spent' = [k \in Codes |-> spent[k] + IF k \in used THEN 1 ELSE 0]

\* /api/customer/verify.  It does not save.
VerifyEmail ==
    /\ Request
    /\ \E a \in Addresses, c \in Customers :
          /\ Allowed(a)
          /\ Exists(c)
          /\ MayComeFrom(c, a)
          /\ \E used \in Factors(c) :
                /\ customers' = Consume(c, used)
                /\ Spend(used)
          /\ Forget(a)
          /\ Issue(c, SessionLife, Gone)
    /\ UNCHANGED <<now, tickets, saved, secrets, honoured, revokedAt, endedAt, restarted>>

-----------------------------------------------------------------------------
(* The second factor.                                                      *)

Draw == secrets < MaxSecrets /\ secrets' = secrets + 1
CodesOf(n) == {k \in Codes : k[1] = n}

TwoFactorSetup ==
    /\ Draw
    /\ \E c \in Customers :
          Change(c) /\ customers' = [customers EXCEPT ![c].pending = secrets']
    /\ UNCHANGED <<now, tickets, attempts, sessions, histories>>
    /\ Save

\* The setup is confirmed with a code of the authenticator.
TwoFactorVerify ==
    /\ Draw
    /\ \E c \in Customers :
          /\ Change(c)
          /\ customers[c].pending # NoFactor
          /\ customers' = [customers EXCEPT ![c].totp = customers[c].pending,
                                            ![c].pending = NoFactor,
                                            ![c].codes = CodesOf(secrets')]
    /\ UNCHANGED <<now, tickets, attempts, sessions, histories>>
    /\ Save

\* The first of the two handlers of /2fa/disable: it asks for a factor and
\* leaves a setup that is under way.
TwoFactorDisable ==
    /\ \E c \in Customers :
          /\ Change(c)
          /\ customers[c].totp # NoFactor
          /\ \E used \in Factors(c) : Spend(used)
          /\ customers' = [customers EXCEPT ![c].totp = NoFactor, ![c].codes = {}]
    /\ UNCHANGED <<now, tickets, attempts, sessions, secrets, honoured, revokedAt, endedAt,
                   restarted>>
    /\ Save

Regenerated(c) == CodesOf(secrets')

RecoveryRegenerate ==
    /\ Draw
    /\ \E c \in Customers :
          /\ Change(c)
          /\ customers[c].totp # NoFactor
          /\ customers' = [customers EXCEPT ![c].codes = Regenerated(c)]
    /\ UNCHANGED <<now, tickets, attempts, sessions, histories>>
    /\ Save

\* A list that would shut out the caller is refused.
LoginIpAllowlist ==
    /\ \E c \in Customers, a \in Addresses, l \in SUBSET Addresses :
          /\ Change(c)
          /\ l = {} \/ a \in l
          /\ customers' = [customers EXCEPT ![c].allowed = l]
    /\ UNCHANGED <<now, tickets, attempts, sessions, secrets, histories>>
    /\ Save

-----------------------------------------------------------------------------
(* Tickets.                                                                *)

Fresh(t) == tickets[t] = Gone /\ saved.tickets[t] = Gone /\ honoured[t] = 0 /\ endedAt[t] = Never
New(k, c, life, e) == [kind |-> k, owner |-> c, born |-> now, expires |-> now + life,
                       dead |-> FALSE, email |-> e]
Honour(t) == honoured' = [honoured EXCEPT ![t] = @ + 1]
EmailOf(c) == customers[c].email

\* /login/magic: links that ended LinkKept ago are dropped after the save.
LoginMagic ==
    /\ Request
    /\ \E a \in Addresses, c \in Customers, t \in Tickets :
          LET with == [tickets EXCEPT ![t] = New("magic", c, MagicLife, EmailOf(c))] IN
          /\ Allowed(a)
          /\ Look(a)
          /\ Exists(c)
          /\ Fresh(t)
          /\ saved' = [customers |-> customers, tickets |-> with]
          /\ tickets' = [u \in Tickets |->
                IF Open(u, "magic") /\ tickets[u].expires < now - LinkKept THEN Gone
                ELSE with[u]]
    /\ UNCHANGED <<now, customers, sessions, secrets, histories>>

\* used_at, used
Use(t) == [tickets EXCEPT ![t].dead = TRUE]

\* A magic link or an invitation opens a session once.
Claim(k) ==
    /\ Request
    /\ \E t \in Tickets :
          /\ Open(t, k)
          /\ now <= tickets[t].expires
          /\ ~tickets[t].dead
          /\ Exists(tickets[t].owner)
          /\ tickets' = Use(t)
          /\ Issue(tickets[t].owner, SessionLife, Gone)
          /\ Honour(t)
    /\ UNCHANGED <<now, customers, attempts, secrets, spent, revokedAt, endedAt, restarted>>
    /\ Save

MagicClaim == Claim("magic")
InviteClaim == Claim("invite")

\* /admin/api/customers/invite makes the account and the invitation.
Invite ==
    /\ Request
    /\ \E c \in Customers, t \in Tickets, e \in Emails :
          /\ customers[c] = Unborn
          /\ Fresh(t)
          /\ customers' = [customers EXCEPT ![c] = NewAccount(e)]
          /\ tickets' = [tickets EXCEPT ![t] = New("invite", c, InviteLife, e)]
    /\ UNCHANGED <<now, attempts, sessions, secrets, histories>>
    /\ Save

\* family-share/create: shares that have expired count until they are revoked.
SharesOf(c) == {t \in Tickets : Open(t, "share") /\ tickets[t].owner = c}
ShareCreate ==
    /\ \E c \in Customers, t \in Tickets :
          /\ Change(c)
          /\ Cardinality({u \in SharesOf(c) : ~tickets[u].dead}) < MaxShares
          /\ Fresh(t)
          /\ tickets' = [tickets EXCEPT ![t] = New("share", c, ShareLife, EmailOf(c))]
          /\ endedAt' = [endedAt EXCEPT ![t] = now + ShareLife]
    /\ UNCHANGED <<now, customers, attempts, sessions, secrets, honoured, spent, revokedAt,
                   restarted>>
    /\ Save

\* The prefix names the first share that begins with it, revoked or not.
ShareRevoke ==
    /\ \E c \in Customers : \E t \in SharesOf(c) :
          /\ Change(c)
          /\ tickets' = [tickets EXCEPT ![t].dead = TRUE]
          /\ endedAt' = [endedAt EXCEPT ![t] = IF @ < now THEN @ ELSE now]
    /\ UNCHANGED <<now, customers, attempts, sessions, secrets, honoured, spent, revokedAt,
                   restarted>>
    /\ Save

ShareValid(t) == ~tickets[t].dead /\ now <= tickets[t].expires

ShareExchange ==
    /\ Request
    /\ \E t \in Tickets :
          /\ Open(t, "share")
          /\ ShareValid(t)
          /\ Exists(tickets[t].owner)
          /\ Issue(tickets[t].owner, ShareSession, t)
    /\ UNCHANGED <<now, customers, tickets, attempts, secrets, histories>>
    /\ Save

Older(c) == {t \in Tickets : Open(t, "email") /\ tickets[t].owner = c}

\* A new request to change the address takes the place of an older one.
EmailChange ==
    /\ \E c \in Customers, t \in Tickets, e \in Emails :
          /\ Change(c)
          /\ e # EmailOf(c)
          /\ Fresh(t)
          /\ tickets' = [u \in Tickets |->
                IF u = t THEN New("email", c, EmailLife, e)
                ELSE IF u \in Older(c) THEN Gone ELSE tickets[u]]
    /\ UNCHANGED <<now, customers, attempts, sessions, secrets, histories>>
    /\ Save

EmailConfirm ==
    /\ Request
    /\ \E t \in Tickets :
          /\ Open(t, "email")
          /\ now <= tickets[t].expires
          /\ Exists(tickets[t].owner)
          /\ customers' = [customers EXCEPT ![tickets[t].owner].email = tickets[t].email]
          /\ tickets' = [tickets EXCEPT ![t] = Gone]
          /\ Honour(t)
    /\ UNCHANGED <<now, attempts, sessions, secrets, spent, revokedAt, endedAt, restarted>>
    /\ Save

\* The link is late or the account is gone: the request is dropped, not saved.
EmailRefused ==
    /\ Request
    /\ \E t \in Tickets :
          /\ Open(t, "email")
          /\ now > tickets[t].expires \/ ~Exists(tickets[t].owner)
          /\ tickets' = [tickets EXCEPT ![t] = Gone]
    /\ UNCHANGED <<now, customers, attempts, saved, sessions, secrets, histories>>

KeyCreate ==
    /\ \E c \in Customers, t \in Tickets :
          /\ Change(c)
          /\ Fresh(t)
          /\ \E k \in {"key", "readkey"} :
                tickets' = [tickets EXCEPT ![t] = New(k, c, MaxTime, EmailOf(c))]
    /\ UNCHANGED <<now, customers, attempts, sessions, secrets, histories>>
    /\ Save

KeyRevoke ==
    /\ \E c \in Customers, t \in Tickets :
          /\ Change(c)
          /\ Open(t, "key") \/ Open(t, "readkey")
          /\ tickets[t].owner = c
          /\ tickets' = [tickets EXCEPT ![t] = Gone]
    /\ UNCHANGED <<now, customers, attempts, sessions, secrets, histories>>
    /\ Save

-----------------------------------------------------------------------------
(* Ends of access, staff, and the world.                                   *)

RevokeAll ==
    /\ \E c \in Customers :
          /\ Change(c)
          /\ customers' = [customers EXCEPT ![c].minIat = now]
          /\ revokedAt' = [revokedAt EXCEPT ![c] = now]
    /\ UNCHANGED <<now, tickets, attempts, sessions, secrets, honoured, spent, endedAt,
                   restarted>>
    /\ Save

\* The first of the two handlers of /customers/impersonate.
Impersonate ==
    /\ Request
    /\ \E c \in Customers : Exists(c) /\ Issue(c, SupportLife, Gone)
    /\ UNCHANGED <<now, customers, tickets, attempts, secrets, histories>>
    /\ Save

\* An account is deleted; its tickets stay.
Deleted ==
    /\ Request
    /\ \E c \in Customers : Exists(c) /\ customers' = [customers EXCEPT ![c] = Gone]
    /\ UNCHANGED <<now, tickets, attempts, sessions, secrets, histories>>
    /\ Save

\* Any other handler saves the whole state.
OtherSave ==
    /\ saved # [customers |-> customers, tickets |-> tickets]
    /\ customers' = customers
    /\ tickets' = tickets
    /\ UNCHANGED <<now, attempts, sessions, secrets, requests, histories>>
    /\ Save

CloudRestarts ==
    /\ customers' = saved.customers
    /\ tickets' = saved.tickets
    /\ attempts' = [a \in Addresses |-> NoAttempts]
    /\ restarted' = TRUE
    /\ UNCHANGED <<now, saved, sessions, secrets, requests, honoured, spent, revokedAt, endedAt>>

Clock ==
    /\ now < MaxTime
    /\ now' = now + 1
    /\ UNCHANGED <<customers, tickets, attempts, saved, sessions, secrets, requests, histories>>

SessionNext ==
    \/ SweepAttempts \/ Login \/ VerifyFails \/ VerifyEmail
    \/ TwoFactorSetup \/ TwoFactorVerify \/ TwoFactorDisable \/ RecoveryRegenerate
    \/ LoginIpAllowlist
    \/ LoginMagic \/ MagicClaim \/ Invite \/ InviteClaim
    \/ ShareCreate \/ ShareRevoke \/ ShareExchange
    \/ EmailChange \/ EmailConfirm \/ EmailRefused \/ KeyCreate \/ KeyRevoke
    \/ RevokeAll \/ Impersonate \/ Deleted \/ OtherSave \/ CloudRestarts \/ Clock

-----------------------------------------------------------------------------
(* Properties.                                                             *)

\* A magic link, an invitation and a confirmed change of address work once,
\* restarts of the cloud included; a recovery code is accepted once until the
\* cloud restarts (verify does not save the codes that are left), and one that was
\* replaced is not accepted again.  An older request to change the address of an
\* account never brings back an address that was given up for another.
UsedOnce ==
    /\ \A t \in Tickets : honoured[t] <= 1
    /\ ~restarted => \A k \in Codes : spent[k] <= 1
    /\ \A c \in Customers : Cardinality(Older(c)) <= 1
    /\ \A c \in Customers : Exists(c) =>
          /\ Cardinality(customers[c].codes) <= RecoveryCodes
          /\ ~restarted => \A k \in customers[c].codes : spent[k] = 0

\* A session issued before its account last revoked its sessions is refused,
\* restarts included, and what came of a share ends ShareSession after the
\* share ended, however it ended.
AccessEnds ==
    \A s \in sessions : Accepts(s) =>
        /\ s.iat >= revokedAt[s.owner]
        /\ s.share # Gone => now <= endedAt[s.share] + ShareSession

-----------------------------------------------------------------------------
(* What makes them inductive: all of it holds of what was last saved as well, *)
(* which a cloud that restarts comes back with.                               *)

\* An account carries the time it last revoked its sessions, and the codes of one drawing.
AccountsTrue(cs) ==
    /\ cs \in [Customers -> Account \cup {Gone, Unborn}]
    /\ \A c \in Customers :
          /\ cs[c] = Unborn => revokedAt[c] = Never
          /\ cs[c] \in Account => /\ cs[c].minIat = revokedAt[c]
                                  /\ \A k, l \in cs[c].codes : k[1] = l[1]

\* A ticket that had its effect is gone or marked, a share ends when it says, and an account has
\* one request to change its address.
TicketsTrue(ts) ==
    /\ ts \in [Tickets -> Ticket \cup {Gone}]
    /\ \A t \in Tickets : ts[t] # Gone =>
          /\ honoured[t] > 0 => ts[t].dead /\ ts[t].kind # "email"
          /\ ts[t].kind = "share" /\ ~ts[t].dead => ts[t].expires <= endedAt[t]
    /\ \A t, u \in Tickets :
          /\ ts[t] # Gone /\ ts[u] # Gone
          /\ ts[t].kind = "email" /\ ts[u].kind = "email" /\ ts[t].owner = ts[u].owner
          => t = u

\* What came of a share came before it ended.
SessionsTrue ==
    \A s \in sessions :
       /\ s.iat <= now
       /\ s.share # Gone => s.iat <= endedAt[s.share] /\ s.exp = s.iat + ShareSession

\* Until the cloud restarts, a code is of one account, of a drawing that was made, and not spent.
CodesUnspent ==
    ~restarted =>
       /\ \A k \in Codes : spent[k] <= 1 /\ (spent[k] = 1 => k[1] <= secrets)
       /\ \A c \in Customers : Exists(c) =>
             \A k \in customers[c].codes :
                /\ spent[k] = 0 /\ k[1] <= secrets
                /\ \A d \in Customers : Exists(d) /\ k \in customers[d].codes => d = c

SessionInv ==
    /\ SessionTypeOK
    /\ AccountsTrue(customers) /\ AccountsTrue(saved.customers)
    /\ TicketsTrue(tickets) /\ TicketsTrue(saved.tickets)
    /\ \A t \in Tickets : honoured[t] <= 1
    /\ revokedAt \in [Customers -> Times \cup {Never}] /\ endedAt \in [Tickets -> Int]
    /\ SessionsTrue /\ CodesUnspent
=============================================================================
