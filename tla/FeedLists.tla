------------------------------- MODULE FeedLists -------------------------------
(***************************************************************************)
(* The lists of domains the cloud fetches: the threat feed of all boxes    *)
(* with the changes a box may ask for, the blocklists of one customer and  *)
(* the target lists of the administrators (server.js).                     *)
(*                                                                         *)
(* Every fetch is asynchronous, and nothing keeps two of them apart: while *)
(* one waits, lists are added and deleted and other fetches finish.  A     *)
(* fetch that fails gives an empty set.  One may also never end: nothing   *)
(* counts redirects, an answer that is closed early settles nothing, and   *)
(* the time limit is for a silent line.                                    *)
(*                                                                         *)
(* The threat feed stands for what its sources gave together.  The timers  *)
(* were given fetchThreatFeed before it was wrapped: only the refresh of   *)
(* an administrator takes a snapshot.  Two fetches of the feed do not end  *)
(* in the same millisecond.  The domains of a blocklist are named by its   *)
(* url.  The agent of this repository does not ask for changes: the box is *)
(* a client that does what the endpoint offers.                            *)
(***************************************************************************)
EXTENDS Integers, Sequences, FiniteSets, SequencesExt, FiniteSetsExt

CONSTANTS
    Domains,            \* of the threat feed
    MaxSnapshots,       \* snapshots that are kept (5)
    Urls,               \* blocklists a customer may add
    MaxBlocklists,      \* "max 10 blocklists per customer"
    MaxFetches,         \* refreshes of the feed: a bound
    MaxListCalls,       \* calls that add or delete a list, and restarts: a bound
    Runs                \* refreshes of the blocklists at a time: a bound

ASSUME ListAssumption ==
    /\ {MaxSnapshots, MaxBlocklists, MaxFetches, MaxListCalls} \subseteq Nat
    /\ IsFiniteSet(Domains)

VARIABLES
    feed,               \* threat_feeds: domains, the addresses of them, last_update
    snapshots,          \* threat_feed_snapshots, the newest first
    feedFile,           \* both as saved last
    holder,             \* a box: the etag and the domains it has
    sampled,            \* resolveBlockedDomainIps under way: the domains it asks for
    blocklists,         \* customer_blocklists of the customer
    blocked,            \* customer_blocklist_domains of the customer
    refreshing,         \* refreshAllCustomerBlocklists under way
    hung,               \* history: a refresh got stuck, and none wrote its result since
    firstFetches,       \* blocklists just added that are fetched
    targets,            \* target_lists, the records of those deleted among them
    gone,               \* history: target lists that were deleted
    blockCalls, targetCalls     \* calls so far

feedVars == <<feed, snapshots, feedFile, holder, sampled>>
blockVars == <<blocklists, blocked, refreshing, hung, firstFetches, blockCalls>>
targetVars == <<targets, gone, targetCalls>>
listVars == <<feedVars, blockVars, targetVars>>

NoEtag == <<0, 0>>
NoRun == [doing |-> "nothing"]
Blocklist == [id: 1 .. MaxListCalls, url: Urls]
TargetList == [listed: BOOLEAN, full: BOOLEAN, asked: BOOLEAN]
Ids == 1 .. MaxListCalls

ListTypeOK ==
    /\ feed \in [domains: SUBSET Domains, ips: SUBSET Domains, stamp: 0 .. MaxFetches]
    /\ Len(snapshots) <= MaxSnapshots
    /\ blocklists \in Seq(Blocklist) /\ Len(blocklists) <= MaxBlocklists
    /\ blocked \subseteq Urls /\ hung \in BOOLEAN
    /\ firstFetches \subseteq Blocklist
    /\ targets \in [Ids -> TargetList]

ListInit ==
    /\ feed = [domains |-> {}, ips |-> {}, stamp |-> 0]
    /\ snapshots = <<>>
    /\ feedFile = [feed |-> feed, snapshots |-> snapshots]
    /\ holder = [etag |-> NoEtag, domains |-> {}]
    /\ sampled = {}
    /\ blocklists = <<>>
    /\ blocked = {}
    /\ refreshing = [r \in Runs |-> NoRun] /\ hung = FALSE
    /\ firstFetches = {}
    /\ targets = [i \in Ids |-> [listed |-> FALSE, full |-> FALSE, asked |-> FALSE]]
    /\ gone = {}
    /\ blockCalls = 0 /\ targetCalls = 0

-----------------------------------------------------------------------------
\* threatFeedEtag
Etag(f) == <<Cardinality(f.domains), f.stamp>>

\* snapshotThreatFeed
Snapshot(f, ss) ==
    IF \E i \in DOMAIN ss : ss[i].etag = Etag(f) THEN ss
    ELSE LET all == <<[etag |-> Etag(f), domains |-> f.domains]>> \o ss
         IN SubSeq(all, 1, IF Len(all) > MaxSnapshots THEN MaxSnapshots ELSE Len(all))

\* What the sources, each read in its own format, may give together: one that fails gives none.
SourcesGive == SUBSET Domains

\* The end of fetchThreatFeed: the sources gave ds.
Fetched(ds) == feed' = [feed EXCEPT !.domains = ds, !.stamp = @ + 1]
SaveFeed == feedFile' = [feed |-> feed', snapshots |-> snapshots]

FetchByTimer ==
    /\ feed.stamp < MaxFetches
    /\ \E ds \in SourcesGive : Fetched(ds)
    /\ SaveFeed
    /\ UNCHANGED <<snapshots, holder, sampled, blockVars, targetVars>>

\* The snapshot is taken after the save.
FetchByAdmin ==
    /\ feed.stamp < MaxFetches
    /\ \E ds \in SourcesGive : Fetched(ds)
    /\ SaveFeed
    /\ snapshots' = Snapshot(feed', snapshots)
    /\ UNCHANGED <<holder, sampled, blockVars, targetVars>>

\* resolveBlockedDomainIps: addresses of domains that may be gone when they come.
Resolve ==
    /\ sampled = {} /\ feed.domains # {}
    /\ sampled' = feed.domains
    /\ UNCHANGED <<feed, snapshots, feedFile, holder, blockVars, targetVars>>

Resolved ==
    /\ sampled # {}
    /\ \E found \in SUBSET sampled : feed' = [feed EXCEPT !.ips = found]
    /\ feedFile' = [feed |-> feed', snapshots |-> snapshots]
    /\ sampled' = {}
    /\ UNCHANGED <<snapshots, holder, blockVars, targetVars>>

\* /api/box/threat-feed/delta, and the box that applies the answer.
Delta(since) ==
    LET known == {i \in DOMAIN snapshots : snapshots[i].etag = since} IN
    IF known = {} THEN [full |-> TRUE, added |-> feed.domains, removed |-> {}]
    ELSE LET before == snapshots[Min(known)].domains
         IN [full |-> FALSE, added |-> feed.domains \ before, removed |-> before \ feed.domains]

AskChanges ==
    /\ holder.etag # Etag(feed)
    /\ LET d == Delta(holder.etag) IN
       holder' = [etag |-> Etag(feed),
                  domains |-> IF d.full THEN d.added ELSE (holder.domains \ d.removed) \cup d.added]
    /\ UNCHANGED <<feed, snapshots, feedFile, sampled, blockVars, targetVars>>

-----------------------------------------------------------------------------
\* The loop of refreshAllCustomerBlocklists: what the list has at place p is
\* asked for; the list is the living one, and its places move when it changes.
\* "done" is what was merged when the last list has answered.
Asking(p, got) ==
    IF p <= Len(blocklists) THEN [doing |-> "fetch", place |-> p, url |-> blocklists[p].url, got |-> got]
    ELSE [doing |-> "done", got |-> got]

Merged_Kept == blocked
Merged == {}

\* A refresh of all: an empty list is done with at once.
RefreshAll ==
    /\ \E r \in Runs :
          /\ refreshing[r] = NoRun
          /\ IF blocklists = <<>> THEN blocked' = {} /\ hung' = FALSE /\ UNCHANGED refreshing
             ELSE /\ refreshing' = [refreshing EXCEPT ![r] = Asking(1, Merged)]
                  /\ UNCHANGED <<blocked, hung>>
    /\ UNCHANGED <<feedVars, targetVars, blocklists, firstFetches, blockCalls>>

\* One source answered, or failed; the next is asked, or the result is written.
RefreshAnswered ==
    /\ \E r \in Runs, ok \in BOOLEAN :
          /\ refreshing[r].doing = "fetch"
          /\ LET got == refreshing[r].got \cup (IF ok THEN {refreshing[r].url} ELSE {})
                 next == Asking(refreshing[r].place + 1, got)
             IN IF next.doing = "fetch"
                THEN refreshing' = [refreshing EXCEPT ![r] = next] /\ UNCHANGED <<blocked, hung>>
                ELSE /\ refreshing' = [refreshing EXCEPT ![r] = NoRun]
                     /\ blocked' = next.got /\ hung' = FALSE
    /\ UNCHANGED <<feedVars, targetVars, blocklists, firstFetches, blockCalls>>

\* A source never answers, and what was merged is never written; one refresh is for the lists of
\* all customers, one after the other, and may get stuck before it comes to these.
RunHangs ==
    /\ \E r \in Runs : /\ refreshing[r].doing = "fetch"
                       /\ refreshing' = [refreshing EXCEPT ![r] = NoRun]
    /\ hung' = TRUE
    /\ UNCHANGED <<feedVars, targetVars, blocklists, blocked, firstFetches, blockCalls>>
OthersHang ==
    /\ hung' = TRUE
    /\ UNCHANGED <<feedVars, targetVars, blocklists, blocked, refreshing, firstFetches, blockCalls>>

AddBlocklist ==
    /\ blockCalls < MaxListCalls
    /\ Len(blocklists) < MaxBlocklists
    /\ \E u \in Urls :
          /\ \A i \in DOMAIN blocklists : blocklists[i].url # u
          /\ LET b == [id |-> blockCalls + 1, url |-> u]
             IN /\ blocklists' = Append(blocklists, b)
                /\ firstFetches' = firstFetches \cup {b}
    /\ blockCalls' = blockCalls + 1
    /\ UNCHANGED <<feedVars, targetVars, blocked, refreshing, hung>>

\* The fetch that adding began: it may fail or come late, and its list may be deleted by now.
FirstFetched ==
    /\ \E b \in firstFetches, ok \in BOOLEAN :
          /\ firstFetches' = firstFetches \ {b}
          /\ blocked' = IF ok THEN blocked \cup {b.url} ELSE blocked
    /\ UNCHANGED <<feedVars, targetVars, blocklists, refreshing, hung, blockCalls>>

\* Everything is unblocked until the refresh that the call puts off by 100 ms.
DeleteBlocklist ==
    /\ blockCalls < MaxListCalls
    /\ \E i \in DOMAIN blocklists : blocklists' = RemoveAt(blocklists, i)
    /\ blocked' = {}
    /\ blockCalls' = blockCalls + 1
    /\ UNCHANGED <<feedVars, targetVars, refreshing, hung, firstFetches>>

-----------------------------------------------------------------------------
\* target-lists/create with a url and import-github; the lists that were there
\* from the start are fetched in the same way, and all of them every day.
CreateTargets ==
    /\ targetCalls < MaxListCalls
    /\ targetCalls' = targetCalls + 1
    /\ targets' = [targets EXCEPT ![targetCalls'] = [listed |-> TRUE, full |-> FALSE, asked |-> TRUE]]
    /\ UNCHANGED <<feedVars, blockVars, gone>>

RefreshTargets ==
    /\ \E i \in Ids :
          /\ targets[i].listed /\ ~targets[i].asked
          /\ targets' = [targets EXCEPT ![i].asked = TRUE]
    /\ UNCHANGED <<feedVars, blockVars, gone, targetCalls>>

\* The end of refreshTargetList writes the record it found at its beginning,
\* whether it is in the list still or not; a failure empties it.
TargetsAnswered ==
    /\ \E i \in Ids, got \in BOOLEAN :
          /\ targets[i].asked
          /\ targets' = [targets EXCEPT ![i].asked = FALSE, ![i].full = got]
    /\ UNCHANGED <<feedVars, blockVars, gone, targetCalls>>

DeleteTargets ==
    /\ \E i \in Ids :
          /\ targets[i].listed
          /\ targets' = [targets EXCEPT ![i].listed = FALSE]
          /\ gone' = gone \cup {i}
    /\ UNCHANGED <<feedVars, blockVars, targetCalls>>

-----------------------------------------------------------------------------
\* The cloud stops and starts: fetches are forgotten.  What calls and fetches
\* changed was saved by them, except a snapshot.
RestartFeed ==
    /\ feed' = feedFile.feed
    /\ snapshots' = feedFile.snapshots
    /\ sampled' = {}
    /\ UNCHANGED <<feedFile, holder, blockVars, targetVars>>

RestartBlocklists ==
    /\ blockCalls < MaxListCalls
    /\ refreshing' = [r \in Runs |-> NoRun]
    /\ firstFetches' = {}
    /\ blockCalls' = blockCalls + 1
    /\ UNCHANGED <<feedVars, targetVars, blocklists, blocked, hung>>

RestartTargets ==
    /\ targets' = [i \in Ids |-> [targets[i] EXCEPT !.asked = FALSE]]
    /\ UNCHANGED <<feedVars, blockVars, gone, targetCalls>>

FeedNext == FetchByTimer \/ FetchByAdmin \/ Resolve \/ Resolved \/ AskChanges \/ RestartFeed
BlocklistNext ==
    \/ RefreshAll \/ RefreshAnswered \/ RunHangs \/ OthersHang \/ AddBlocklist \/ FirstFetched
    \/ DeleteBlocklist \/ RestartBlocklists
TargetNext ==
    \/ CreateTargets \/ RefreshTargets \/ TargetsAnswered \/ DeleteTargets
    \/ RestartTargets

-----------------------------------------------------------------------------
\* A box that only ever applied changes has the very list of the cloud when it
\* holds the etag of it, whichever snapshots were taken, dropped and lost.
DeltasAddUp == holder.etag = Etag(feed) => holder.domains = feed.domains

Subscribed == {blocklists[i].url : i \in DOMAIN blocklists}

\* A fetch that outlives its target list does not bring the list back.
DeletedStaysDeleted == \A i \in gone : ~targets[i].listed

\* A deleted blocklist may come back while fetches overlap with its deletion, but not for good: when
\* the customer leaves his lists alone, in the end nothing is blocked that none of them names,
\* unless refreshes get stuck again and again, at whichever customer's list.
BlocksHeal == []<>hung \/ <>[](blocked \subseteq Subscribed)
=============================================================================
