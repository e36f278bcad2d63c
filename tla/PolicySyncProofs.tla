-------------------------- MODULE PolicySyncProofs --------------------------
(***************************************************************************)
(* Proofs about PolicySync for any number of policies, versions and ticks, *)
(* and any set of faults.                                                  *)
(***************************************************************************)
EXTENDS PolicySync, TLAPS

\* A run of applyPolicy that leaves the history empty met no fault.
LEMMA MishapHistory ==
    ASSUME TypeOK, NEW f \in WriteFaults \cup {"none"}, Mishap(f)
    PROVE  /\ met' \subseteq Faults /\ mishaps' \in Nat
           /\ met \subseteq met'
           /\ met' = {} => f = "none"
BY DEF WriteFaults, Mishap, TypeOK

\* The running dnsmasq has read its files, or a restart is pending.
Followed == dnsLive = has["dnsFile"] \/ reload

\* Applying a policy leaves every part of the box of the right type, and the
\* running dnsmasq behind its files only while a restart is pending.
LEMMA ApplyFollows ==
    ASSUME TypeOK,
           NEW p \in Policies, NEW parts \in SUBSET Parts,
           Apply(p, parts), dnsLive' = dnsLive
    PROVE  /\ has' \in [Parts -> MaybePolicy]
           /\ {reload', drop'} \subseteq BOOLEAN
           /\ Followed => (Followed)'
<1>1. has' \in [Parts -> MaybePolicy]
  BY DEF TypeOK, Apply, MaybePolicy
<1>2. {reload', drop'} \subseteq BOOLEAN
  BY DEF Apply
<1>3. ASSUME Followed PROVE (Followed)'
  <2>1. "dnsFile" \in Parts
    BY DEF Parts
  <2>2. CASE "dnsFile" \in parts
    BY <1>3, <2>1, <2>2 DEF Followed, Apply, Dirty
  <2>3. CASE "dnsFile" \notin parts
    BY <1>3, <2>1, <2>3 DEF Followed, Apply
  <2>. QED  BY <2>2, <2>3
<1>. QED  BY <1>1, <1>2, <1>3

\* What fails decides which parts take the bundle; nothing does in the runs
\* where nothing fails.
LEMMA CompletesParts ==
    ASSUME NEW f
    PROVE  /\ Completes(f) \subseteq Parts
           /\ f = "none" => Completes(f) = Parts
BY DEF Completes, Parts

\* The initial states satisfy the invariant.
LEMMA InitInv == Init => IndInv
<1>. SUFFICES ASSUME Init PROVE IndInv
  OBVIOUS
<1>1. TypeOK
  BY DEF Init, TypeOK, MaybePolicy, TickState, Idle
<1>2. DnsFollows
  BY DEF Init, DnsFollows, Parts
<1>3. EtagTruthful
  BY DEF Init, EtagTruthful
<1>. QED  BY <1>1, <1>2, <1>3 DEF IndInv

\* A bundle is applied whole and makes the etag true, or the history says that
\* it was not.
LEMMA HandleBundleInv ==
    ASSUME IndInv, NEW t \in Ticks, HandleBundle(t)
    PROVE  IndInv'
<1>. DEFINE p == tick[t].etag.policy
<1>a. TypeOK /\ DnsFollows
  BY DEF IndInv
<1>b. tick[t] \in TickState
  BY <1>a DEF TypeOK
<1>1. PICK f \in WriteFaults \cup {"none"} : Mishap(f) /\ Apply(p, Completes(f))
  BY DEF HandleBundle
<1>2. /\ met' \subseteq Faults /\ mishaps' \in Nat
      /\ met \subseteq met'
      /\ met' = {} => f = "none"
  BY <1>a, <1>1, MishapHistory
<1>3. Completes(f) \in SUBSET Parts
  BY CompletesParts
<1>4. tick[t].etag \in Etags
  BY <1>b DEF TickState, HandleBundle
<1>5. p \in Policies
  BY <1>4 DEF Etags
<1>6. dnsLive' = dnsLive
  BY DEF HandleBundle
<1>7. /\ has' \in [Parts -> MaybePolicy]
      /\ {reload', drop'} \subseteq BOOLEAN
      /\ Followed => (Followed)'
  BY ApplyFollows, <1>a, <1>1, <1>3, <1>5, <1>6
<1>8. etag' = tick[t].etag /\ etag' \in Etags \cup {NoEtag}
  BY <1>4 DEF HandleBundle
<1>9. tick' \in [Ticks -> TickState]
  BY <1>a DEF HandleBundle, ToSchedules, TypeOK, TickState, Idle
<1>10. TypeOK'
  BY <1>a, <1>2, <1>6, <1>7, <1>8, <1>9 DEF HandleBundle, Synced, cloudVars, TypeOK
<1>11. (DnsFollows)'
  BY <1>a, <1>2, <1>7 DEF DnsFollows, Followed
<1>12. (EtagTruthful)'
  <2>1. SUFFICES ASSUME met' = {}
                 PROVE  (\A x \in Parts : has'[x] = p) /\ (dnsLive' = p \/ reload')
    BY <1>8 DEF EtagTruthful, Gentle, Enforcing
  <2>2. Apply(p, Parts)
    BY <1>1, <1>2, <2>1, CompletesParts
  <2>3. \A x \in Parts : has'[x] = p
    BY <2>2 DEF Apply
  <2>4. has'["dnsFile"] = p
    BY <2>3 DEF Parts
  <2>5. dnsLive' = p \/ reload'
    BY <1>2, <1>11, <2>1, <2>4 DEF DnsFollows
  <2>. QED  BY <2>3, <2>5
<1>. QED  BY <1>10, <1>11, <1>12 DEF IndInv

\* The other way out of a request: the fail-safe gives a box that has synced
\* what it already enforces.
LEMMA SyncFailsInv ==
    ASSUME IndInv, NEW t \in Ticks, SyncFails(t)
    PROVE  IndInv'
<1>. DEFINE p == has["cache"]
<1>a. TypeOK /\ DnsFollows /\ EtagTruthful
  BY DEF IndInv
<1>b. /\ etag' = etag /\ dnsLive' = dnsLive /\ stale' = stale
      /\ outage' = outage /\ open' = open /\ UNCHANGED cloudVars
      /\ overlapped' = overlapped
      /\ tick' = [tick EXCEPT ![t] = [Idle EXCEPT !.pc = "schedules"]]
  BY DEF SyncFails, ToSchedules
<1>c. tick' \in [Ticks -> TickState]
  BY <1>a, <1>b DEF TypeOK, TickState, Idle
<1>1. CASE ~FailSafeDue
  <2>1. UNCHANGED <<applied, failsafe, mishaps, met>>
    BY <1>1 DEF SyncFails
  <2>2. TypeOK'
    BY <1>a, <1>b, <1>c, <2>1 DEF applied, cloudVars, TypeOK
  <2>3. (DnsFollows)' /\ (EtagTruthful)'
    BY <1>a, <1>b, <2>1 DEF applied, DnsFollows, EtagTruthful, Gentle, Enforcing
  <2>. QED  BY <2>2, <2>3 DEF IndInv
<1>2. CASE FailSafeDue
  <2>1. PICK f \in {"none", "dns", "nft", "qos"} :
           /\ Mishap(f)
           /\ Apply(p, Completes(f) \ {"cache"})
           /\ failsafe' = ~Throws(f)
    BY <1>2 DEF SyncFails
  <2>2. /\ met' \subseteq Faults /\ mishaps' \in Nat
        /\ met \subseteq met'
        /\ met' = {} => f = "none"
    BY <1>a, <2>1, MishapHistory DEF WriteFaults
  <2>3. Completes(f) \ {"cache"} \in SUBSET Parts
    BY CompletesParts
  <2>4. p \in Policies
    BY <1>a, <1>2 DEF FailSafeDue, TypeOK, MaybePolicy, Parts
  <2>5. /\ has' \in [Parts -> MaybePolicy]
        /\ {reload', drop'} \subseteq BOOLEAN
        /\ Followed => (Followed)'
    BY ApplyFollows, <1>a, <1>b, <2>1, <2>3, <2>4
  <2>6. failsafe' \in BOOLEAN
    BY <2>1 DEF Throws
  <2>7. TypeOK'
    BY <1>a, <1>b, <1>c, <2>2, <2>5, <2>6 DEF cloudVars, TypeOK
  <2>8. (DnsFollows)'
    BY <1>a, <2>2, <2>5 DEF DnsFollows, Followed
  <2>9. (EtagTruthful)'
    <3>1. SUFFICES ASSUME met' = {}, etag # NoEtag PROVE Enforcing(etag.policy)'
      BY <1>b DEF EtagTruthful, Gentle, Enforcing
    <3>2. \A x \in Parts : has[x] = etag.policy
      BY <1>a, <2>2, <3>1 DEF EtagTruthful, Gentle, Enforcing
    <3>3. p = etag.policy
      BY <3>2 DEF Parts
    <3>4. \A x \in Parts : has'[x] = etag.policy
      BY <2>1, <2>2, <3>1, <3>2, <3>3, CompletesParts DEF Apply
    <3>5. has'["dnsFile"] = etag.policy
      BY <3>4 DEF Parts
    <3>. QED  BY <1>b, <2>2, <2>8, <3>1, <3>4, <3>5 DEF DnsFollows, Enforcing
  <2>. QED  BY <2>7, <2>8, <2>9 DEF IndInv
<1>. QED  BY <1>1, <1>2

\* A reboot forgets the etag and makes dnsmasq read its files.
LEMMA RebootInv ==
    ASSUME IndInv, Reboot
    PROVE  IndInv'
<1>a. TypeOK
  BY DEF IndInv
<1>1. etag' = NoEtag /\ reload' = FALSE /\ stale' = TRUE /\ failsafe' = FALSE
      /\ drop' = FALSE /\ mishaps' = mishaps + 1 /\ met' = {} /\ overlapped' = FALSE
  BY DEF Reboot, Boot, BootEtag
<1>2. tick' \in [Ticks -> TickState]
  BY DEF Reboot, Boot, TickState, Idle
<1>3. has' \in [Parts -> MaybePolicy] /\ has'["dnsFile"] = has["dnsFile"]
  BY <1>a DEF Reboot, TypeOK, MaybePolicy, Parts
<1>4. dnsLive' = has["dnsFile"] /\ dnsLive' \in MaybePolicy
  BY <1>a DEF Reboot, TypeOK, Parts
<1>5. TypeOK'
  <2>1. policy' \in Policies /\ version' \in Versions /\ changes' \in Nat
    BY <1>a DEF Reboot, cloudVars, TypeOK
  <2>2. {outage', open', reload', drop', stale', failsafe', overlapped'} \subseteq BOOLEAN
    BY <1>a, <1>1 DEF Reboot, TypeOK
  <2>3. mishaps' \in Nat
    BY <1>a, <1>1 DEF TypeOK
  <2>. QED  BY <1>1, <1>2, <1>3, <1>4, <2>1, <2>2, <2>3 DEF TypeOK
<1>6. (DnsFollows)'
  BY <1>3, <1>4 DEF DnsFollows
<1>7. (EtagTruthful)'
  BY <1>1 DEF EtagTruthful
<1>. QED  BY <1>5, <1>6, <1>7 DEF IndInv

\* A restart of the process alone keeps what the box has, and its history says
\* so.
LEMMA AgentRestartInv ==
    ASSUME IndInv, AgentRestart
    PROVE  IndInv'
<1>a. TypeOK
  BY DEF IndInv
<1>1. /\ etag' = NoEtag /\ reload' = FALSE /\ stale' = TRUE /\ failsafe' = FALSE
      /\ mishaps' = mishaps + 1 /\ overlapped' = FALSE
      /\ met' = met \cup {"restart"} /\ met' \subseteq Faults
  BY <1>a DEF AgentRestart, Boot, BootEtag, TypeOK
<1>2. tick' \in [Ticks -> TickState]
  BY DEF AgentRestart, Boot, TickState, Idle
<1>3. UNCHANGED <<has, dnsLive, drop, outage, open, cloudVars>>
  BY DEF AgentRestart
<1>4. {outage', open', reload', drop', stale', failsafe', overlapped'} \subseteq BOOLEAN
  BY <1>a, <1>1, <1>3 DEF TypeOK
<1>5. TypeOK'
  BY <1>a, <1>1, <1>2, <1>3, <1>4 DEF cloudVars, TypeOK
<1>6. (DnsFollows)'
  BY <1>1 DEF DnsFollows
<1>7. (EtagTruthful)'
  BY <1>1 DEF EtagTruthful
<1>. QED  BY <1>5, <1>6, <1>7 DEF IndInv

\* Every step keeps the invariant.
LEMMA NextInv == IndInv /\ [Next]_vars => IndInv'
<1>. SUFFICES ASSUME IndInv, [Next]_vars PROVE IndInv'
  OBVIOUS
<1>a. TypeOK /\ DnsFollows /\ EtagTruthful
  BY DEF IndInv
<1>. USE DEF cloudVars, applied, agentVars, worldVars, history, Gentle
<1>1. CASE CloudChanges
  BY <1>1, <1>a DEF CloudChanges, IndInv, TypeOK, DnsFollows, EtagTruthful, Enforcing
<1>2. CASE \E t \in Ticks : Tick(t)
  <2>1. PICK t \in Ticks : Tick(t)
    BY <1>2
  <2>2. CASE Ask(t)
    <3>1. tick' \in [Ticks -> TickState]
      BY <2>2, <1>a DEF Ask, TypeOK, TickState
    <3>. QED  BY <2>2, <3>1, <1>a DEF Ask, IndInv, TypeOK, DnsFollows, EtagTruthful, Enforcing
  <2>3. CASE Serve(t)
    <3>1. CurrentEtag \in Etags
      BY <1>a DEF CurrentEtag, Etags, TypeOK
    <3>2. tick' \in [Ticks -> TickState]
      BY <2>3, <3>1, <1>a DEF Serve, TypeOK, TickState
    <3>. QED  BY <2>3, <3>2, <1>a DEF Serve, IndInv, TypeOK, DnsFollows, EtagTruthful, Enforcing
  <2>4. CASE HandleUnchanged(t)
    <3>1. tick' \in [Ticks -> TickState]
      BY <2>4, <1>a DEF HandleUnchanged, ToSchedules, Idle, TypeOK, TickState
    <3>. QED  BY <2>4, <3>1, <1>a DEF HandleUnchanged, Synced, IndInv, TypeOK, DnsFollows, EtagTruthful, Enforcing
  <2>5. CASE HandleBundle(t)
    BY <2>5, HandleBundleInv
  <2>6. CASE SyncFails(t)
    BY <2>6, SyncFailsInv
  <2>7. CASE TickSchedules(t)
    <3>1. tick' \in [Ticks -> TickState]
      BY <2>7, <1>a DEF TickSchedules, Idle, TypeOK, TickState
    <3>2. drop' \in BOOLEAN
      BY <2>7, <1>a DEF TickSchedules, TypeOK
    <3>. QED  BY <2>7, <3>1, <3>2, <1>a DEF TickSchedules, IndInv, TypeOK, DnsFollows, EtagTruthful, Enforcing
  <2>. QED  BY <2>1, <2>2, <2>3, <2>4, <2>5, <2>6, <2>7 DEF Tick
<1>3. CASE ReloadDnsmasq
  <2>1. dnsLive' = has["dnsFile"] /\ has["dnsFile"] \in MaybePolicy /\ has' = has
    BY <1>3, <1>a DEF ReloadDnsmasq, TypeOK, Parts
  <2>2. TypeOK'
    BY <1>3, <1>a, <2>1 DEF ReloadDnsmasq, TypeOK
  <2>3. (DnsFollows)'
    BY <2>1 DEF DnsFollows
  <2>4. (EtagTruthful)'
    BY <1>3, <1>a, <2>1 DEF ReloadDnsmasq, EtagTruthful, Enforcing, Parts
  <2>. QED  BY <2>2, <2>3, <2>4 DEF IndInv
<1>4. CASE Elapse300s
  BY <1>4, <1>a DEF Elapse300s, IndInv, TypeOK, DnsFollows, EtagTruthful, Enforcing
<1>5. CASE TurnClock
  BY <1>5, <1>a DEF TurnClock, IndInv, TypeOK, DnsFollows, EtagTruthful, Enforcing
<1>6. CASE OutageBegins
  BY <1>6, <1>a DEF OutageBegins, IndInv, TypeOK, DnsFollows, EtagTruthful, Enforcing
<1>7. CASE OutageEnds
  BY <1>7, <1>a DEF OutageEnds, IndInv, TypeOK, DnsFollows, EtagTruthful, Enforcing
<1>8. CASE Reboot
  BY <1>8, RebootInv
<1>9. CASE AgentRestart
  BY <1>9, AgentRestartInv
<1>10. CASE UNCHANGED vars
  BY <1>10, <1>a DEF vars, IndInv, TypeOK, DnsFollows, EtagTruthful, Enforcing
<1>. QED
  BY <1>1, <1>2, <1>3, <1>4, <1>5, <1>6, <1>7, <1>8, <1>9, <1>10 DEF Next

-----------------------------------------------------------------------------
\* The strengthened invariant of the policy channel (syncPolicy, applyPolicy)
\* holds whatever fails and however many ticks overlap.
THEOREM IndInvCorrect == Spec => []IndInv
<1>1. IndInv /\ [Next]_vars => IndInv'
  BY NextInv
<1>. QED  BY <1>1, InitInv, PTL DEF Spec

\* The etag the agent sends is a true account of what it enforces, so the 304
\* of the cloud never hides a policy that was only half applied.
THEOREM EtagCorrect == Spec => []EtagTruthful
<1>1. IndInv => EtagTruthful
  BY DEF IndInv
<1>. QED  BY <1>1, IndInvCorrect, PTL

\* The fail-safe leaves a box that has synced since it started as it is: the
\* cache holds what the box enforces.
THEOREM FailSafeCorrect == Spec => FailSafeKeeps
<1>1. ASSUME IndInv, [Next]_vars, met' = {}, ~failsafe, failsafe', etag # NoEtag
      PROVE  UNCHANGED <<has, reload>>
  <2>1. PICK t \in Ticks : SyncFails(t)
    BY <1>1 DEF Next, vars, Tick, CloudChanges, Ask, Serve, HandleUnchanged, HandleBundle,
         Synced, TickSchedules, ReloadDnsmasq, Elapse300s, TurnClock, OutageBegins,
         OutageEnds, Reboot, AgentRestart, Boot, agentVars
  <2>2. PICK f \in {"none", "dns", "nft", "qos"} :
           Mishap(f) /\ Apply(has["cache"], Completes(f) \ {"cache"})
    BY <1>1, <2>1 DEF SyncFails
  <2>3. f = "none"
    BY <1>1, <2>2, MishapHistory DEF WriteFaults, IndInv
  <2>4. met = {} /\ Apply(has["cache"], Parts \ {"cache"})
    BY <1>1, <2>2, <2>3, CompletesParts DEF Mishap
  <2>5. \A x \in Parts : has[x] = has["cache"]
    BY <1>1, <2>4 DEF IndInv, EtagTruthful, Gentle, Enforcing, Parts
  <2>6. has \in [Parts -> MaybePolicy] /\ reload \in BOOLEAN
    BY <1>1 DEF IndInv, TypeOK
  <2>7. has' = has
    BY <2>4, <2>5, <2>6 DEF Apply
  <2>8. has["dnsFile"] = has["cache"]
    BY <2>5 DEF Parts
  <2>9. reload' = reload
    BY <2>4, <2>6, <2>8 DEF Apply, Dirty
  <2>. QED  BY <2>7, <2>9
<1>2. IndInv /\ [Next]_vars => [/\ met' = {} /\ etag # NoEtag
                                   /\ ~failsafe /\ failsafe'
                                   => UNCHANGED <<has, reload>>]_vars
  BY <1>1
<1>. QED  BY <1>2, IndInvCorrect, PTL DEF Spec, FailSafeKeeps

\* Until ticks overlap one at most is under way, and the etag of an open
\* request is the one the agent still holds.
SentIsHeld ==
    ~overlapped =>
        /\ \A t, u \in Ticks : tick[t].pc # "idle" /\ tick[u].pc # "idle" => t = u
        /\ \A t \in Ticks : tick[t].pc = "asked" => tick[t].etag = etag

\* A step of the tick under way keeps the others idle.
LEMMA SentInv == TypeOK /\ SentIsHeld /\ [Next]_vars => SentIsHeld'
<1>. SUFFICES ASSUME TypeOK, SentIsHeld, [Next]_vars, ~overlapped' PROVE SentIsHeld'
  BY DEF SentIsHeld
<1>a. tick \in [Ticks -> TickState]
  BY DEF TypeOK
<1>. DEFINE Alone(f) == \A t, u \in Ticks : f[t].pc # "idle" /\ f[u].pc # "idle" => t = u
<1>1. CASE \E u \in Ticks : Tick(u)
  <2>1. PICK u \in Ticks : Tick(u)
    BY <1>1
  <2>2. CASE Ask(u)
    <3>1. /\ \A t \in Ticks : tick[t].pc = "idle"
          /\ tick' = [tick EXCEPT ![u] = [pc |-> "asked", etag |-> etag]]
          /\ etag' = etag
      BY <2>2 DEF Ask, agentVars
    <3>2. \A t \in Ticks : t # u => tick'[t].pc = "idle"
      BY <3>1, <1>a
    <3>3. tick'[u].etag = etag'
      BY <3>1, <1>a
    <3>. QED  BY <3>2, <3>3 DEF SentIsHeld
  <2>3. CASE Serve(u) \/ HandleUnchanged(u) \/ HandleBundle(u) \/ SyncFails(u) \/ TickSchedules(u)
    <3>1. ~overlapped /\ tick[u].pc # "idle"
      BY <2>3 DEF Serve, HandleUnchanged, HandleBundle, SyncFails, TickSchedules, history
    <3>2. \A t \in Ticks : t # u => tick[t].pc = "idle"
      BY <3>1 DEF SentIsHeld
    <3>3. \A t \in Ticks : t # u => tick'[t] = tick[t]
      BY <2>3, <1>a DEF Serve, HandleUnchanged, HandleBundle, SyncFails, TickSchedules, ToSchedules
    <3>4. tick'[u].pc # "asked"
      BY <2>3, <1>a DEF Serve, HandleUnchanged, HandleBundle, SyncFails, TickSchedules, ToSchedules, Idle
    <3>5. \A t \in Ticks : t # u => tick'[t].pc = "idle"
      BY <3>2, <3>3
    <3>. QED  BY <3>4, <3>5 DEF SentIsHeld
  <2>. QED  BY <2>1, <2>2, <2>3 DEF Tick
<1>2. CASE Reboot \/ AgentRestart
  <2>1. \A t \in Ticks : tick'[t].pc = "idle"
    BY <1>2 DEF Reboot, AgentRestart, Boot, Idle
  <2>. QED  BY <2>1 DEF SentIsHeld
<1>3. CASE UNCHANGED <<tick, etag, overlapped>>
  BY <1>3 DEF SentIsHeld
<1>. QED
  BY <1>1, <1>2, <1>3 DEF Next, vars, CloudChanges, ReloadDnsmasq, Elapse300s, TurnClock,
     OutageBegins, OutageEnds, agentVars, history

\* As long as ticks do not overlap, the cloud only answers 304 to a box that
\* enforces the policy of that moment.
THEOREM UnchangedCorrect == Spec => UnchangedIsTrue
<1>1. ASSUME IndInv, SentIsHeld, [Next]_vars, met = {}, ~overlapped, NEW t \in Ticks,
             tick[t].pc = "asked", tick'[t].pc = "unchanged"
      PROVE  Enforcing(policy)
  <2>a. tick \in [Ticks -> TickState] /\ policy \in Policies /\ version \in Versions
    BY <1>1 DEF IndInv, TypeOK
  <2>1. Serve(t)
    <3>1. CASE \E u \in Ticks : Tick(u)
      <4>1. PICK u \in Ticks : Tick(u)
        BY <3>1
      <4>2. u = t
        BY <4>1, <1>1, <2>a DEF Tick, Ask, Serve, HandleUnchanged, HandleBundle, SyncFails,
           TickSchedules, ToSchedules
      <4>3. ~(Ask(t) \/ HandleUnchanged(t) \/ HandleBundle(t) \/ SyncFails(t) \/ TickSchedules(t))
        BY <1>1, <2>a DEF Ask, HandleUnchanged, HandleBundle, SyncFails, TickSchedules, ToSchedules, Idle
      <4>. QED  BY <4>1, <4>2, <4>3 DEF Tick
    <3>2. CASE UNCHANGED tick
      BY <3>2, <1>1
    <3>3. CASE Reboot \/ AgentRestart
      BY <3>3, <1>1 DEF Reboot, AgentRestart, Boot, Idle
    <3>. QED
      BY <1>1, <3>1, <3>2, <3>3 DEF Next, vars, CloudChanges, ReloadDnsmasq, Elapse300s,
         TurnClock, OutageBegins, OutageEnds
  <2>2. Matches(tick[t].etag)
    BY <1>1, <2>1, <2>a DEF Serve
  <2>3. etag = CurrentEtag
    BY <1>1, <2>2 DEF Matches, SentIsHeld
  <2>4. CurrentEtag \in Etags /\ CurrentEtag.policy = policy
    BY <2>a DEF CurrentEtag, Etags
  <2>5. etag # NoEtag
    BY <2>3, <2>4, PolicySyncAssumption DEF Etags
  <2>. QED  BY <1>1, <2>3, <2>4, <2>5 DEF IndInv, EtagTruthful, Gentle
<1>2. IndInv /\ SentIsHeld /\ [Next]_vars
        => [\A t \in Ticks :
              /\ Gentle /\ ~overlapped
              /\ tick[t].pc = "asked" /\ tick'[t].pc = "unchanged"
              => Enforcing(policy)]_vars
  BY <1>1 DEF Gentle
<1>3. Init => SentIsHeld
  BY DEF Init, SentIsHeld, Idle
<1>4. IndInv /\ SentIsHeld /\ [Next]_vars => SentIsHeld'
  BY SentInv DEF IndInv
<1>. QED  BY <1>2, <1>3, <1>4, IndInvCorrect, PTL DEF Spec, UnchangedIsTrue

=============================================================================
