----------------------------- MODULE PairingService -----------------------------
(***************************************************************************)
(* The stand-in of the vendor's cloud in server.js: endpoints that log in, *)
(* groups with their keys, the rendezvous of a box and an app, the relay   *)
(* of messages, check-ins and licences.                                    *)
(*                                                                         *)
(* Its handlers do not save: the state goes to the file every 30 seconds,  *)
(* and what came after that is lost with the process; only those of staff, *)
(* who authorise boxes and revoke them, save at once.  Restores and resets *)
(* are in StateStore.  A key is named by its owner (NoEid for one of a     *)
(* rekey) and the order in which keys were made; whether it is sealed,     *)
(* names and the list of the last check-ins are left out.  POST            *)
(* /group/:gid/:eid is taken by the route of the update, which comes first *)
(* in the file: the handler that would add the member never runs.          *)
(***************************************************************************)
EXTENDS Integers, Sequences, FiniteSets, SequencesExt

CONSTANTS
    Eids,               \* endpoints: a box and apps
    Gids,               \* groups that are created by the box
    NoEid, NoGroup, NoInvite, NoLicence,
    MaxKeys,            \* keys that are made: a bound
    MaxGroups,          \* groups at one time: a bound
    Peers,              \* whom messages are sent to
    MaxRelay,           \* messages in memory (1000)
    KeptRelay,          \* of these after a cut (500)
    Page,               \* "count" of a poll
    MaxSent,            \* messages: a bound
    MaxMs,              \* the clock of the relay: a bound
    BoxMacs,            \* boxes that may be licensed
    MaxLicences,        \* licences that are made: a bound
    MaxStops            \* restarts: a bound

VARIABLES
    endpoints,          \* endpoints that are known
    groups,             \* eids and symmetricKeys of each group
    keysMade,           \* randomBytes(32) so far
    given,              \* history: keys that the answers of existing groups held
    rendezvous,         \* the appPayload of the box's rendezvous, NoInvite before
    messages,           \* state.messages
    sent,               \* history: every message posted
    cut,                \* history: messages dropped by a cut or a restart
    readers,            \* each peer: its "since" and the messages it got
    ms,                 \* Date.now()
    authorised,         \* authorized_macs
    licences,           \* issued_licenses
    held,               \* the licence each box got last
    licencesMade,       \* licences so far
    revoked,            \* history: licences that staff took back
    seen,               \* boxes with a last_seen
    file,               \* the state file
    stops               \* restarts so far

groupVars == <<groups, keysMade, given>>
meetVars == <<endpoints, rendezvous>>
relayVars == <<messages, sent, cut, readers, ms>>
licenceVars == <<authorised, licences, held, licencesMade, revoked, seen>>
pairingServiceVars == <<groupVars, meetVars, relayVars, licenceVars, file, stops>>

ASSUME PairingAssumption ==
    /\ {MaxKeys, MaxGroups, MaxRelay, KeptRelay, Page, MaxSent, MaxMs} \subseteq Nat
    /\ MaxMs >= 1 /\ KeptRelay <= MaxRelay /\ NoLicence \notin Nat

AllGids == Gids \cup Eids       \* see MemberAsked
Key == [eid: Eids \cup {NoEid}, n: 1 .. MaxKeys]
\* listed: the members came with an update, as an Array, which has no add and no delete.
Group == [eids: SUBSET Eids, keys: Seq(Key), listed: BOOLEAN]
ASSUME NoGroupIsNone == NoGroup \notin Group

Message == [n: 1 .. MaxSent, ts: 1 .. MaxMs, peer: Peers]

PairingServiceTypeOK ==
    /\ endpoints \subseteq Eids
    /\ \A g \in AllGids : groups[g] # NoGroup => groups[g] \in Group
    /\ rendezvous \in Eids \cup {NoInvite}
    /\ messages \in Seq(Message) /\ Len(messages) <= MaxRelay
    /\ readers \in [Peers -> [since: 0 .. MaxMs, inbox: Seq(1 .. MaxSent)]]
    /\ seen \subseteq authorised /\ authorised \subseteq BoxMacs

Stored == [endpoints |-> endpoints, groups |-> groups, rendezvous |-> rendezvous,
           messages |-> messages, authorised |-> authorised, licences |-> licences, seen |-> seen]

PairingServiceInit ==
    /\ endpoints = {} /\ groups = [g \in AllGids |-> NoGroup]
    /\ keysMade = 0 /\ given = {}
    /\ rendezvous = NoInvite
    /\ messages = <<>> /\ sent = {} /\ cut = {} /\ ms = 1
    /\ readers = [p \in Peers |-> [since |-> 0, inbox |-> <<>>]]
    /\ licences = [m \in BoxMacs |-> NoLicence] /\ held = licences
    /\ licencesMade = 0 /\ revoked = {} /\ authorised = {} /\ seen = {}
    /\ file = Stored /\ stops = 0

-----------------------------------------------------------------------------
\* login/eptoken: every login makes an endpoint of its own.
EptLogin ==
    /\ \E e \in Eids \ endpoints : endpoints' = endpoints \cup {e}
    /\ UNCHANGED rendezvous

NewKey(e) == [eid |-> e, n |-> keysMade + 1]
NobodyYet == [eids |-> {}, keys |-> <<>>, listed |-> FALSE]
Created(e) == [eids |-> {e}, keys |-> <<NewKey(e)>>, listed |-> FALSE]
Shell(g) == IF groups[g] = NoGroup THEN NobodyYet ELSE groups[g]

\* The group as it is after the call, and the keys of it that are in the answer.
Answer(g, new, made, told) ==
    /\ groups' = [groups EXCEPT ![g] = new]
    /\ keysMade' = keysMade + made
    /\ given' = given \cup {<<g, k>> : k \in told}

\* Of a caller who is not logged in the group has no member.
CreateGroup ==
    \E g \in Gids :
       /\ groups[g] = NoGroup
       /\ \/ Answer(g, NobodyYet, 0, {})
          \/ keysMade < MaxKeys /\ \E e \in Eids : Answer(g, Created(e), 1, {NewKey(e)})

HasKey(keys, e) == \E i \in DOMAIN keys : keys[i].eid = e

\* ensureGroupForEid: who asks for a group is given a key, which makes him a member; when members
\* are listed the call fails, with the key already in the group.
Needs(g, e) == ~HasKey(Shell(g).keys, e)
WithKey(g, e) ==
    LET old == Shell(g) IN
    IF ~Needs(g, e) THEN old
    ELSE [old EXCEPT !.keys = Append(@, NewKey(e)), !.eids = IF old.listed THEN @ ELSE @ \cup {e}]
Fails(g, e) ==
    /\ Needs(g, e) /\ Shell(g).listed
    /\ keysMade < MaxKeys /\ Answer(g, WithKey(g, e), 1, {})
Ensured(g, e) ==
    \/ ~Needs(g, e) /\ Answer(g, Shell(g), 0, ToSet(Shell(g).keys))
    \/ /\ Needs(g, e) /\ ~Shell(g).listed
       /\ keysMade < MaxKeys /\ Answer(g, WithKey(g, e), 1, ToSet(WithKey(g, e).keys))

FindGroup == \E g \in Gids, e \in Eids : Ensured(g, e) \/ Fails(g, e)

\* Array.filter: SelectSeq, as a function.
Chosen(list, kind) ==
    LET kept[n \in 0 .. Len(list)] ==
          IF n = 0 THEN <<>>
          ELSE IF list[n] \in kind THEN Append(kept[n - 1], list[n]) ELSE kept[n - 1]
    IN kept[Len(list)]

\* What an update makes of a group: a body that has keys, those of an earlier reading, or members
\* replaces what is there.
Updates(now) ==
    LET parts == {Chosen(now.keys, known) : known \in SUBSET ToSet(now.keys)}
    IN {[now EXCEPT !.keys = part] : part \in parts}
           \cup [eids: SUBSET Eids, keys: parts, listed: {TRUE}]

\* POST /group/:appId/:gid: keys that the body left out are no longer promised to anyone.
Updated(g, e) ==
    \/ Fails(g, e)
    \/ /\ Needs(g, e) => ~Shell(g).listed /\ keysMade < MaxKeys
       /\ \E new \in Updates(WithKey(g, e)) :
             /\ groups' = [groups EXCEPT ![g] = new]
             /\ given' = {x \in given : x[1] = g => x[2] \in ToSet(new.keys)}
                             \cup {<<g, k>> : k \in ToSet(new.keys)}
       /\ keysMade' = IF Needs(g, e) THEN keysMade + 1 ELSE keysMade

UpdateGroup == \E g \in Gids, e \in Eids : Updated(g, e)

\* POST /group/:gid/:eid as the README has it: taken for an update of a group with
\* the name of the member, in the application with the name of the group.
MemberAsked == \E e, asking \in Eids : Updated(e, asking)

\* GET /group/:gid and the public keys of the members, which makes the group as well; so does who
\* finds or updates a group without a login.
ReadGroup ==
    \E g \in Gids : \E told \in {{}, ToSet(Shell(g).keys)} : Answer(g, Shell(g), 0, told)

DeleteGroup ==
    /\ \E g \in AllGids :
          /\ groups' = [groups EXCEPT ![g] = NoGroup]
          /\ given' = {x \in given : x[1] # g}
    /\ UNCHANGED keysMade

\* The answer holds the new key alone.
Rekey ==
    /\ keysMade < MaxKeys
    /\ \E g \in Gids :
          Answer(g, [Shell(g) EXCEPT !.keys = <<NewKey(NoEid)>> \o @], 1, {NewKey(NoEid)})

\* POST /group/:appId/:gid/:eid: a member, and no key until he asks for the group.
AddMember ==
    \E g \in Gids, e \in Eids :
       ~Shell(g).listed /\ Answer(g, [Shell(g) EXCEPT !.eids = @ \cup {e}], 0, {})

\* A removed member keeps his key.
RemoveMember ==
    \E g \in Gids, e \in Eids :
       /\ groups[g] # NoGroup /\ ~groups[g].listed
       /\ Answer(g, [groups[g] EXCEPT !.eids = @ \ {e}], 0, {})

-----------------------------------------------------------------------------
\* The box creates its rendezvous anew, the app posts to it; the box polls until then.
CreateRendezvous == rendezvous' = NoInvite /\ UNCHANGED endpoints
PostInvite == rendezvous' \in Eids /\ UNCHANGED endpoints

-----------------------------------------------------------------------------
LastOf(s, k) == SubSeq(s, IF Len(s) > k THEN Len(s) - k + 1 ELSE 1, Len(s))

\* Above the cap only the newest half is kept.
Relay ==
    /\ Cardinality(sent) < MaxSent
    /\ \E p \in Peers :
          LET m == [n |-> Cardinality(sent) + 1, ts |-> ms, peer |-> p]
              all == Append(messages, m)
              kept == IF Len(all) > MaxRelay THEN LastOf(all, KeptRelay) ELSE all
          IN /\ messages' = kept
             /\ sent' = sent \cup {m}
             /\ cut' = cut \cup (ToSet(all) \ ToSet(kept))
    /\ UNCHANGED <<readers, ms>>

Unread(m, p) == m.ts > readers[p].since /\ m.peer = p
UnreadBy(p) == Chosen(messages, {m \in ToSet(messages) : Unread(m, p)})
FirstOf(s, k) == SubSeq(s, 1, IF Len(s) > k THEN k ELSE Len(s))

\* A peer asks for what came after the last message it got.
PollMessages ==
    /\ \E p \in Peers :
          LET page == FirstOf(UnreadBy(p), Page) IN
          /\ page # <<>>
          /\ readers' = [readers EXCEPT
                ![p].since = page[Len(page)].ts,
                ![p].inbox = @ \o [i \in DOMAIN page |-> page[i].n]]
    /\ UNCHANGED <<messages, sent, cut, ms>>

Millisecond ==
    /\ ms < MaxMs /\ ms' = ms + 1
    /\ UNCHANGED <<messages, sent, cut, readers>>

-----------------------------------------------------------------------------
\* license/issue for an authorised box: made once, the same ever after.
LicenceOf(m) == licences[m]

IssueLicence ==
    /\ \E m \in authorised :
          IF LicenceOf(m) # NoLicence
          THEN held' = [held EXCEPT ![m] = licences[m]] /\ UNCHANGED <<licences, licencesMade>>
          ELSE /\ licencesMade < MaxLicences
               /\ licencesMade' = licencesMade + 1
               /\ licences' = [licences EXCEPT ![m] = licencesMade + 1]
               /\ held' = [held EXCEPT ![m] = licencesMade + 1]
    /\ UNCHANGED <<authorised, revoked, seen, file>>

CheckIn ==
    /\ \E m \in authorised : seen' = seen \cup {m}
    /\ UNCHANGED <<authorised, licences, held, licencesMade, revoked, file>>

\* macs/authorize makes the record anew; saved at once, as a revocation.
AuthoriseMac ==
    /\ \E m \in BoxMacs : authorised' = authorised \cup {m} /\ seen' = seen \ {m}
    /\ UNCHANGED <<licences, held, licencesMade, revoked>>
    /\ file' = Stored'

\* macs/revoke; the box still has what it was issued.
RevokeMac ==
    /\ \E m \in BoxMacs :
          /\ authorised' = authorised \ {m} /\ seen' = seen \ {m}
          /\ licences' = [licences EXCEPT ![m] = NoLicence]
          /\ revoked' = revoked \cup ({licences[m]} \ {NoLicence})
    /\ UNCHANGED <<held, licencesMade>>
    /\ file' = Stored'

-----------------------------------------------------------------------------
\* setInterval(saveState, 30000) saves everything.
SaveAll ==
    /\ file' = Stored
    /\ UNCHANGED <<groupVars, meetVars, relayVars, licenceVars, stops>>

\* loadState makes the members of a group a Set again.
AsSets(group) == IF group = NoGroup THEN NoGroup ELSE [group EXCEPT !.listed = FALSE]
StopAndStart ==
    /\ stops < MaxStops /\ stops' = stops + 1
    /\ endpoints' = file.endpoints /\ rendezvous' = file.rendezvous
    /\ groups' = [g \in AllGids |-> AsSets(file.groups[g])]
    /\ given' = {x \in given : file.groups[x[1]] # NoGroup
                                 /\ x[2] \in ToSet(file.groups[x[1]].keys)}
    /\ messages' = file.messages
    /\ cut' = cut \cup (sent \ ToSet(file.messages))
    /\ authorised' = file.authorised /\ licences' = file.licences /\ seen' = file.seen
    /\ UNCHANGED <<keysMade, sent, readers, ms, held, licencesMade, revoked, file>>

GroupNext ==
    /\ \/ CreateGroup \/ FindGroup \/ UpdateGroup \/ MemberAsked \/ ReadGroup \/ DeleteGroup
       \/ Rekey \/ AddMember \/ RemoveMember
    /\ Cardinality({g \in AllGids : groups'[g] # NoGroup}) <= MaxGroups
    /\ UNCHANGED <<meetVars, relayVars, licenceVars, file, stops>>
MeetNext ==
    /\ EptLogin \/ CreateRendezvous \/ PostInvite
    /\ UNCHANGED <<groupVars, relayVars, licenceVars, file, stops>>
RelayNext ==
    /\ Relay \/ PollMessages \/ Millisecond
    /\ UNCHANGED <<groupVars, meetVars, licenceVars, file, stops>>
LicenceNext ==
    /\ UNCHANGED <<groupVars, meetVars, relayVars, stops>>
    /\ IssueLicence \/ CheckIn \/ AuthoriseMac \/ RevokeMac
PersistNext == SaveAll \/ StopAndStart

-----------------------------------------------------------------------------
\* No endpoint has two keys of one group, whatever order it logs in, asks, joins and leaves.
OneKeyEach ==
    \A g \in AllGids : groups[g] # NoGroup =>
       \A i, j \in DOMAIN groups[g].keys :
          groups[g].keys[i].eid = groups[g].keys[j].eid /\ groups[g].keys[i].eid # NoEid => i = j

\* A key that was given out stays in its group until the group is deleted, an update replaces the
\* keys or a restart forgets it: a rekey, who joins and who is removed do not lock anyone out.
KeysKept ==
    \A x \in given : groups[x[1]] # NoGroup /\ x[2] \in ToSet(groups[x[1]].keys)

Got(p) == ToSet(readers[p].inbox)

\* The relay gives a peer each message once and in the order of posting, and what it goes past
\* without giving it was cut, lost in a restart, or posted in the millisecond of one it gave.
RelaySound ==
    /\ \A p \in Peers : \A i, j \in DOMAIN readers[p].inbox :
          i < j => readers[p].inbox[i] < readers[p].inbox[j]
    /\ \A m \in sent :
          \/ m.ts > readers[m.peer].since
          \/ m.n \in Got(m.peer)
          \/ m \in cut
          \/ \E other \in sent : other.ts = m.ts /\ other.n \in Got(m.peer)

\* The licence in the file is the one the box has: it is issued anew only when it was lost or taken
\* back; and one that was taken back is neither issued nor on file again.
LicenceKept ==
    \A m \in BoxMacs :
       /\ file.licences[m] # NoLicence => held[m] = file.licences[m]
       /\ {licences[m], file.licences[m]} \cap revoked = {}

-----------------------------------------------------------------------------
(* What makes them inductive.                                              *)

OneKeyIn(keys) ==
    \A i, j \in DOMAIN keys : keys[i].eid = keys[j].eid /\ keys[i].eid # NoEid => i = j
GroupsTrue(gs) ==
    /\ gs \in [AllGids -> Group \cup {NoGroup}]
    /\ \A g \in AllGids : gs[g] # NoGroup => OneKeyIn(gs[g].keys)
KeysTrue == given \subseteq AllGids \X Key /\ KeysKept

\* What was posted is numbered in the order of posting, and time does not go back.
SentTrue ==
    /\ sent \subseteq Message /\ IsFiniteSet(sent) /\ ms \in 1 .. MaxMs
    /\ \A m \in sent : m.n <= Cardinality(sent) /\ m.ts <= ms
    /\ \A m, l \in sent : m.n <= l.n => m.ts <= l.ts /\ (m.n = l.n => m = l)

\* A list of messages, of the memory or of the file: what was posted, in that order.
ListTrue(list) ==
    /\ list \in Seq(Message) /\ Len(list) <= MaxRelay
    /\ \A i \in DOMAIN list : list[i] \in sent
    /\ \A i, j \in DOMAIN list : i < j => list[i].n < list[j].n

\* What a peer got is not newer than its "since", which is the time of something it got.
ReaderTrue(p) ==
    /\ readers[p].since = 0
          \/ \E m \in sent : m.ts = readers[p].since /\ m.n \in Got(p)
    /\ \A i \in DOMAIN readers[p].inbox :
          \E m \in sent : m.n = readers[p].inbox[i] /\ m.ts <= readers[p].since

RelayTrue ==
    /\ SentTrue /\ ListTrue(messages) /\ ListTrue(file.messages)
    /\ sent \subseteq ToSet(messages) \cup cut
    /\ readers \in [Peers -> [since: 0 .. MaxMs, inbox: Seq(1 .. MaxSent)]]
    /\ \A p \in Peers : ReaderTrue(p)
    /\ RelaySound

\* Licences are numbered as they are made, each for one box.
LicencesTrue ==
    /\ {licences, file.licences, held} \subseteq [BoxMacs -> 1 .. licencesMade \cup {NoLicence}]
    /\ licencesMade \in Nat /\ revoked \subseteq 1 .. licencesMade
    /\ \A m \in BoxMacs :
          /\ licences[m] # NoLicence => held[m] = licences[m] /\ licences[m] \notin revoked
          /\ file.licences[m] # NoLicence => licences[m] = file.licences[m]
    /\ \A m, l \in BoxMacs : licences[m] = licences[l] /\ licences[m] # NoLicence => m = l
    /\ \A known \in {authorised, file.authorised} : known \subseteq BoxMacs
    /\ seen \subseteq authorised /\ file.seen \subseteq file.authorised

PairingInv ==
    /\ endpoints \subseteq Eids /\ file.endpoints \subseteq Eids
    /\ {rendezvous, file.rendezvous} \subseteq Eids \cup {NoInvite}
    /\ keysMade \in 0 .. MaxKeys
    /\ GroupsTrue(groups) /\ GroupsTrue(file.groups) /\ KeysTrue
    /\ RelayTrue
    /\ LicencesTrue
=============================================================================
