----------------------------- MODULE PolicySync -----------------------------
(***************************************************************************)
(* How the policy of a customer reaches the firewall of a box.             *)
(*                                                                         *)
(* The cloud (GET /api/box/policy/:mac in server.js) computes a bundle and *)
(* an etag of the bundle and the global policy version.  The agent         *)
(* (syncPolicy and applyPolicy in agent.js) asks every minute with the     *)
(* etag it holds in memory, writes the bundle to a cache file, to the      *)
(* files of dnsmasq, to nftables and to its list of schedules, and goes    *)
(* back to the cache when the cloud has been silent for five minutes.      *)
(* tickSchedules adds the devices of an open schedule window to the        *)
(* nftables set.                                                           *)
(*                                                                         *)
(* A policy is a model value: two policies differ in every part the box    *)
(* applies.  Each member of Ticks is a run of tick60s that may be under    *)
(* way, for the timer does not wait for the last one.                      *)
(***************************************************************************)
EXTENDS Integers, FiniteSets

CONSTANTS
    Policies,       \* the bundles the cloud may hold
    Scheduled,      \* those with a schedule that blocks a device
    NoPolicy,       \* nothing applied
    NoEtag,         \* policyEtag = ''
    Versions,       \* values of _policy_global_version
    Ticks,          \* runs of tick60s that may overlap
    Faults,         \* what may go wrong
    MaxChanges,     \* how often the cloud's policy changes: a bound
    MaxMishaps      \* how often something goes wrong: a bound

WriteFaults == {"state", "cache", "dns", "nft", "qos"}

ASSUME PolicySyncAssumption ==
    /\ Scheduled \subseteq Policies
    /\ NoPolicy \notin Policies
    /\ NoEtag \notin [policy: Policies, version: Versions]
    /\ Faults \subseteq WriteFaults \cup {"outage", "reboot", "restart"}
    /\ MaxChanges \in Nat
    /\ MaxMishaps \in Nat

VARIABLES
    policy,         \* the bundle the cloud would compute now
    version,        \* state._policy_global_version
    outage,         \* the cloud does not answer
    open,           \* the clock is in the window of the schedule
    etag,           \* policyEtag
    has,            \* what each part of the box was last given
    dnsLive,        \* the policy the running dnsmasq has read
    reload,         \* _dnsmasqReloadTimer is set
    drop,           \* the scheduled device is in the nftables set
    stale,          \* more than 300 s since _lastSuccessfulSync
    failsafe,       \* _failsafeActive
    tick,           \* the runs of tick60s
    changes, mishaps,
    met,            \* history: the faults met since the box booted
    overlapped      \* history: two ticks of this process were under way at once

cloudVars == <<policy, version, changes>>
applied == <<has, reload, drop>>
agentVars == <<etag, stale, failsafe>>
worldVars == <<outage, open, mishaps>>
history == <<met, overlapped>>
vars == <<policy, version, outage, open, etag, has, dnsLive, reload, drop,
          stale, failsafe, tick, changes, mishaps, met, overlapped>>

Parts == {"cache", "dnsFile", "nft", "sched"}
Etags == [policy: Policies, version: Versions]
MaybePolicy == Policies \cup {NoPolicy}

Idle == [pc |-> "idle", etag |-> NoEtag]

TickState ==
    [pc: {"idle", "asked", "unchanged", "schedules"}, etag: Etags \cup {NoEtag}]
        \cup [pc: {"bundle"}, etag: Etags]

TypeOK ==
    /\ policy \in Policies
    /\ version \in Versions
    /\ etag \in Etags \cup {NoEtag}
    /\ has \in [Parts -> MaybePolicy]
    /\ dnsLive \in MaybePolicy
    /\ tick \in [Ticks -> TickState]
    /\ {outage, open, reload, drop, stale, failsafe, overlapped} \subseteq BOOLEAN
    /\ met \subseteq Faults
    /\ changes \in Nat
    /\ mishaps \in Nat

\* A box that has never synced.  _lastSuccessfulSync starts at 0.
Init ==
    /\ policy \in Policies
    /\ version \in Versions
    /\ outage = FALSE
    /\ open = FALSE
    /\ etag = NoEtag
    /\ has = [x \in Parts |-> NoPolicy]
    /\ dnsLive = NoPolicy
    /\ reload = FALSE
    /\ drop = FALSE
    /\ stale = TRUE
    /\ failsafe = FALSE
    /\ tick = [t \in Ticks |-> Idle]
    /\ changes = 0
    /\ mishaps = 0
    /\ met = {}
    /\ overlapped = FALSE

-----------------------------------------------------------------------------
(* The cloud.                                                              *)

CurrentEtag == [policy |-> policy, version |-> version]

\* A handler edits the rules, a quota or a pause runs out, the global version
\* is bumped, or the cloud comes back from an older state file.
CloudChanges ==
    /\ changes < MaxChanges
    /\ changes' = changes + 1
    /\ policy' \in Policies
    /\ version' \in Versions
    /\ CurrentEtag' # CurrentEtag
    /\ UNCHANGED <<tick, dnsLive, applied, agentVars, worldVars, history>>

Matches_Version(e) == e # NoEtag /\ e.version = version
Matches(e) == e = CurrentEtag

\* The request is served: 304 when If-None-Match is the current etag.
Serve(t) ==
    /\ tick[t].pc = "asked"
    /\ ~outage
    /\ tick' = [tick EXCEPT ![t] =
                  IF Matches(tick[t].etag)
                  THEN [pc |-> "unchanged", etag |-> NoEtag]
                  ELSE [pc |-> "bundle", etag |-> CurrentEtag]]
    /\ UNCHANGED <<dnsLive, cloudVars, applied, agentVars, worldVars, history>>

-----------------------------------------------------------------------------
(* applyPolicy.                                                            *)

\* The parts of the box that take a new bundle, by what fails: saving the
\* state of the agent, writing the cache (ignored), writing a dnsmasq file,
\* nft (ignored), tc.  A failure that is not ignored ends applyPolicy there.
Completes_CacheOnce(f) == IF has["cache"] = NoPolicy THEN Parts ELSE Parts \ {"cache"}
Completes_NoSched(f) == Parts \ {"sched"}
Completes(f) ==
    CASE f = "state" -> {}
      [] f = "cache" -> Parts \ {"cache"}
      [] f = "dns"   -> {"cache"}
      [] f = "nft"   -> Parts \ {"nft"}
      [] f = "qos"   -> Parts \ {"sched"}
      [] OTHER       -> Parts

Throws(f) == f \in {"state", "dns", "qos"}

\* writeIfChanged saw a difference, so dnsmasq is restarted in a second.
Dirty_Never(p) == FALSE
Dirty(p) == has["dnsFile"] # p

\* nftables is rebuilt from the bundle: what tickSchedules added is gone.
Apply(p, parts) ==
    /\ has' = [x \in Parts |-> IF x \in parts THEN p ELSE has[x]]
    /\ reload' = (reload \/ ("dnsFile" \in parts /\ Dirty(p)))
    /\ drop' = (drop /\ "nft" \notin parts)

\* A run of applyPolicy may meet one fault, while there are mishaps left.
Mishap(f) ==
    \/ f = "none" /\ UNCHANGED <<mishaps, met>>
    \/ /\ f \in Faults
       /\ mishaps < MaxMishaps
       /\ mishaps' = mishaps + 1
       /\ met' = met \cup {f}

-----------------------------------------------------------------------------
(* The agent.                                                              *)

\* tick60s reaches syncPolicy and sends the etag it has.
Ask(t) ==
    /\ tick[t].pc = "idle"
    /\ tick' = [tick EXCEPT ![t] = [pc |-> "asked", etag |-> etag]]
    /\ overlapped' = (overlapped \/ \E u \in Ticks : tick[u].pc # "idle")
    /\ UNCHANGED <<dnsLive, cloudVars, applied, agentVars, worldVars, met>>

Synced ==
    /\ stale' = FALSE
    /\ failsafe' = FALSE

ToSchedules(t) == tick' = [tick EXCEPT ![t] = [Idle EXCEPT !.pc = "schedules"]]

HandleUnchanged(t) ==
    /\ tick[t].pc = "unchanged"
    /\ Synced
    /\ ToSchedules(t)
    /\ UNCHANGED <<etag, dnsLive, cloudVars, applied, worldVars, history>>

\* The etag is kept before anything is applied, and stays if applying fails.
HandleBundle(t) ==
    /\ tick[t].pc = "bundle"
    /\ Synced
    /\ etag' = tick[t].etag
    /\ \E f \in WriteFaults \cup {"none"} :
          /\ Mishap(f)
          /\ Apply(tick[t].etag.policy, Completes(f))
    /\ ToSchedules(t)
    /\ UNCHANGED <<dnsLive, outage, open, cloudVars, overlapped>>

FailSafeDue_Synced == stale /\ ~failsafe /\ has["cache"] # NoPolicy /\ etag # NoEtag
FailSafeDue == stale /\ ~failsafe /\ has["cache"] # NoPolicy

\* The request or its answer is lost.  After five silent minutes the cached
\* policy is applied, once.
SyncFails(t) ==
    /\ tick[t].pc \in {"asked", "bundle", "unchanged"}
    /\ outage
    /\ \/ /\ FailSafeDue
          /\ \E f \in {"none", "dns", "nft", "qos"} :
                /\ Mishap(f)
                /\ Apply(has["cache"], Completes(f) \ {"cache"})
                /\ failsafe' = ~Throws(f)
       \/ /\ ~FailSafeDue
          /\ UNCHANGED <<applied, failsafe, mishaps, met>>
    /\ ToSchedules(t)
    /\ UNCHANGED <<dnsLive, outage, open, etag, stale, cloudVars, overlapped>>

\* tickSchedules, at the end of the tick: devices are added to the set when
\* the window is open, and nothing is done when it is not.
TickSchedules(t) ==
    /\ tick[t].pc = "schedules"
    /\ drop' = (drop \/ (open /\ has["sched"] \in Scheduled /\ has["nft"] # NoPolicy))
    /\ tick' = [tick EXCEPT ![t] = Idle]
    /\ UNCHANGED <<dnsLive, has, reload, cloudVars, agentVars, worldVars, history>>

\* The debounced restart of dnsmasq.
ReloadDnsmasq ==
    /\ reload
    /\ reload' = FALSE
    /\ dnsLive' = has["dnsFile"]
    /\ UNCHANGED <<has, drop, tick, cloudVars, agentVars, worldVars, history>>

-----------------------------------------------------------------------------
(* The world.                                                              *)

Elapse300s ==
    /\ ~stale
    /\ stale' = TRUE
    /\ UNCHANGED <<etag, failsafe, dnsLive, tick, cloudVars, applied, worldVars, history>>

TurnClock ==
    /\ open' = ~open
    /\ UNCHANGED <<outage, mishaps, dnsLive, tick, cloudVars, applied, agentVars,
                   history>>

OutageBegins ==
    /\ "outage" \in Faults
    /\ mishaps < MaxMishaps
    /\ mishaps' = mishaps + 1
    /\ ~outage
    /\ outage' = TRUE
    /\ UNCHANGED <<open, dnsLive, tick, cloudVars, applied, agentVars,
                   history>>

OutageEnds ==
    /\ outage
    /\ outage' = FALSE
    /\ UNCHANGED <<open, mishaps, dnsLive, tick, cloudVars, applied, agentVars,
                   history>>

BootEtag == NoEtag

\* What a new process of the agent starts with; agentState.schedules and the
\* cache are on disk.
Boot ==
    /\ mishaps < MaxMishaps
    /\ mishaps' = mishaps + 1
    /\ etag' = BootEtag
    /\ stale' = TRUE
    /\ failsafe' = FALSE
    /\ reload' = FALSE
    /\ tick' = [t \in Ticks |-> Idle]
    /\ overlapped' = FALSE

\* The box reboots: dnsmasq reads its files, nftables starts empty.
Reboot ==
    /\ "reboot" \in Faults
    /\ Boot
    /\ has' = [has EXCEPT !["nft"] = NoPolicy]
    /\ dnsLive' = has["dnsFile"]
    /\ drop' = FALSE
    /\ met' = {}
    /\ UNCHANGED <<outage, open, cloudVars>>

\* Only the process restarts: a self-update, an uncaught exception, or the
\* exit of a box that could not reach the cloud when it started.
AgentRestart ==
    /\ "restart" \in Faults
    /\ Boot
    /\ met' = met \cup {"restart"}
    /\ UNCHANGED <<has, dnsLive, drop, outage, open, cloudVars>>

Tick(t) ==
    \/ Ask(t) \/ Serve(t) \/ HandleUnchanged(t) \/ HandleBundle(t)
    \/ SyncFails(t) \/ TickSchedules(t)

Next ==
    \/ CloudChanges
    \/ \E t \in Ticks : Tick(t)
    \/ ReloadDnsmasq
    \/ Elapse300s
    \/ TurnClock
    \/ OutageBegins
    \/ OutageEnds
    \/ Reboot
    \/ AgentRestart

Spec == Init /\ [][Next]_vars

\* The interval fires, a request is answered or fails in the end, timers fire
\* and time passes.
Fairness ==
    /\ \A t \in Ticks : WF_vars(Tick(t))
    /\ WF_vars(ReloadDnsmasq)
    /\ WF_vars(Elapse300s)

FairSpec == Spec /\ Fairness

-----------------------------------------------------------------------------
(* Properties.                                                             *)

\* The box enforces the policy p, or will when dnsmasq is restarted.
Enforcing(p) ==
    /\ \A x \in Parts : has[x] = p
    /\ dnsLive = p \/ reload

\* Since the box booted no write of applyPolicy has failed and the process has
\* not been restarted.
Gentle == met = {}

\* The etag in memory, which makes the cloud answer 304, is a true account of
\* what every part of the box was given, however ticks overlap and answers
\* come late.  (A failed write makes it a lie until the next boot: the etag is
\* kept before applyPolicy runs.)
EtagTruthful == Gentle /\ etag # NoEtag => Enforcing(etag.policy)

\* The running dnsmasq has read the files that were last written, or will,
\* unless the process was replaced while its restart was pending.
DnsFollows == "restart" \notin met => dnsLive = has["dnsFile"] \/ reload

\* The inductive invariant: a bundle whose dnsmasq files are already in place
\* does not restart dnsmasq, so the etag is only true of the running dnsmasq
\* if that had read the files before.
IndInv == TypeOK /\ DnsFollows /\ EtagTruthful

\* The cloud only answers 304 to a box that enforces the policy the cloud has
\* at that moment, as long as ticks have not overlapped.
UnchangedIsTrue ==
    [][\A t \in Ticks :
         /\ Gentle /\ ~overlapped
         /\ tick[t].pc = "asked" /\ tick'[t].pc = "unchanged"
         => Enforcing(policy)]_vars

\* The fail-safe only changes what is enforced on a box that has not synced
\* since it started: it never takes a box back to an older policy.
FailSafeKeeps ==
    [][/\ met' = {} /\ etag # NoEtag
       /\ ~failsafe /\ failsafe'
       => UNCHANGED <<has, reload>>]_vars

\* Once the cloud stays reachable the box ends up enforcing the cloud's
\* policy, in every part and in the running dnsmasq, unless a write failed or
\* the process was restarted after the last boot.
Converges ==
    <>[]~outage
      => <>[](((\A x \in Parts : has[x] = policy) /\ dnsLive = policy) \/ ~Gentle)

\* A box that comes up without rules and has a cached policy gets rules again,
\* whether the cloud answers or not, unless the write of the agent's own
\* state, of a dnsmasq file or of nftables fails.
NeverLeftOpen ==
    (has["cache"] # NoPolicy /\ has["nft"] = NoPolicy)
      ~> (has["nft"] # NoPolicy \/ met \cap {"state", "dns", "nft"} # {})

\* A scheduled device is cut off for good if the window stays open.
WindowBlocks ==
    <>[](~outage /\ open /\ policy \in Scheduled) => <>[](drop \/ ~Gentle)

\* A scheduled device is let through again when the window stays closed.
WindowUnblocks == <>[](~outage /\ ~open) => <>[]~drop

=============================================================================
