------------------------------ MODULE Shaping ------------------------------
(* The traffic shaping of the box: qos.js (one queue on the WAN, a priority  *)
(* and a cap per device) and disturb.js (packets of a device or of a site    *)
(* are lost and late), both called by commands, one at a time.  qos.js keeps *)
(* a record on disk, disturb.js in memory; the kernel forgets everything at  *)
(* a reboot and nothing at a restart of the agent.  The two modules share    *)
(* the root queue of the WAN and the marks of packets.                       *)
EXTENDS Integers, Sequences, FiniteSets, SequencesExt, FiniteSetsExt, Household

CONSTANTS
    Sites,          \* destinations that may be disturbed
    Leases,         \* addresses a device may have
    MaxRate,        \* rates of a cap: 1 .. MaxRate, 0 is no limit
    MaxMarks,       \* bound on the policies ever tried
    MaxShapes       \* bound on the calls of the customer
ASSUME ShapingAssumption == MaxMarks \in Nat

Classes == {"high", "normal", "low", "throttle"}
PRIO_CLASS == [high |-> 10, normal |-> 20, low |-> 30, throttle |-> 40]
FirstId == 10       \* nextId of a new process
Targets == Gadgets \cup Sites
INTENSITY == {"mild", "medium", "aggressive"}
Directions == {"down", "up"}

VARIABLES
    device_priorities, device_caps, \* the record of qos.js
    mes_qos_pre,    \* the priority marks of the kernel, in order: [of, class]
    cap_rules,      \* the rules of the caps in FORWARD: [of, ip, dir, rate]
    root,           \* the root queue of the WAN: "plain", "cake" or "htb"
    netem,          \* the disturbing queues under it: id -> intensity
    mangle,         \* the marks of disturb.js in the kernel, in order: [to, mark]
    policies,       \* disturb.js: target -> [id, intensity]
    nextId, rootInstalled,
    shapes,         \* calls made
    rebooted,       \* history: devices not shaped again since a reboot
    interfered      \* history: the root was replaced under a policy, or policies were forgotten
qosSide == <<device_priorities, device_caps, mes_qos_pre, cap_rules, rebooted>>
disturbSide == <<mangle, policies, nextId, rootInstalled>>
wanSide == <<root, netem>>
shapingVars == <<qosSide, disturbSide, wanSide, shapes, interfered>>

Blank == [x \in {} |-> None]
ShapingInit ==
    /\ device_priorities = Blank /\ device_caps = Blank /\ mes_qos_pre = <<>> /\ cap_rules = {}
    /\ root = "plain" /\ netem = Blank /\ mangle = <<>>
    /\ policies = Blank /\ nextId = FirstId /\ rootInstalled = FALSE
    /\ shapes = 0 /\ rebooted = {} /\ interfered = FALSE

ShapeCall == shapes < MaxShapes /\ shapes' = shapes + 1
With(f, x, y) == [z \in DOMAIN f \cup {x} |-> IF z = x THEN y ELSE f[z]]
Without(f, x) == [z \in DOMAIN f \ {x} |-> f[z]]

-----------------------------------------------------------------------------
(* qos.js                                                                     *)
\* _applyDevicePrio, for each device of an order: the marks of any class it had go, the new
\* one comes last.
OnlyMarks(chain, marks) ==
    LET kept[n \in 0 .. Len(chain)] ==
            IF n = 0 THEN <<>>
            ELSE IF chain[n] \in marks THEN Append(kept[n - 1], chain[n]) ELSE kept[n - 1]
    IN  kept[Len(chain)]
PrioMarks(devices) == [of : devices, class : Classes]
Marked(chain, order, classes) ==
    OnlyMarks(chain, PrioMarks(Gadgets \ {order[i] : i \in DOMAIN order})) \o
        [i \in DOMAIN order |-> [of |-> order[i], class |-> classes[order[i]]]]

\* applyCake: any other root queue of the WAN is replaced with all that is under it; the
\* recorded priorities are marked again, in any order.
ApplyCake ==
    /\ ShapeCall
    /\ root' = "cake" /\ netem' = Blank
    /\ interfered' = (interfered \/ rootInstalled)
    /\ \E order \in SetToSeqs(DOMAIN device_priorities) :
          mes_qos_pre' = Marked(mes_qos_pre, order, device_priorities)
    /\ UNCHANGED <<device_priorities, device_caps, cap_rules, rebooted, disturbSide>>

SetDevicePriority(d, c) ==
    /\ ShapeCall
    /\ device_priorities' = With(device_priorities, d, c)
    /\ mes_qos_pre' = Marked(mes_qos_pre, <<d>>, device_priorities')
    /\ UNCHANGED <<device_caps, cap_rules, rebooted, disturbSide, wanSide, interfered>>

\* The rules of a cap: none while the address of the device is not known.
CapRules(d, cap) ==
    {[of |-> d, ip |-> cap.ip, dir |-> x, rate |-> cap.rate[x]] :
        x \in {y \in Directions : cap.ip # None /\ cap.rate[y] > 0}}

\* dropOldRules of setDeviceCap goes by the comment of a rule, which names the device;
\* before, it went by the whole rule.
DropOldRules_Exact(d, cap) == cap_rules \ CapRules(d, cap)
DropOldRules(d, cap) == {r \in cap_rules : r.of # d}
SetDeviceCap(d, rate, ip) ==
    LET cap == [rate |-> rate, ip |-> ip] IN
    /\ ShapeCall
    /\ cap_rules' = DropOldRules(d, cap) \cup CapRules(d, cap)
    /\ device_caps' = With(device_caps, d, cap)
    /\ rebooted' = rebooted \ {d}
    /\ UNCHANGED <<device_priorities, mes_qos_pre, disturbSide, wanSide, interfered>>

\* clear: the root queue and the marks go, the record is emptied.  The rules of the caps are
\* looked for by a specification none of them has: they stay.
QosClear ==
    /\ ShapeCall
    /\ root' = "plain" /\ netem' = Blank
    /\ mes_qos_pre' = <<>> /\ device_priorities' = Blank /\ device_caps' = Blank
    /\ interfered' = (interfered \/ rootInstalled)
    /\ UNCHANGED <<cap_rules, rebooted, disturbSide>>

-----------------------------------------------------------------------------
(* disturb.js                                                                 *)
\* apply of a target that is disturbed already: another intensity is given to its queue, if
\* that is still there.
DisturbAgain(t, level) ==
    /\ ShapeCall
    /\ t \in DOMAIN policies
    /\ policies' = [policies EXCEPT ![t].intensity = level]
    /\ netem' = IF policies[t].intensity # level /\ policies[t].id \in DOMAIN netem
                THEN [netem EXCEPT ![policies[t].id] = level] ELSE netem
    /\ UNCHANGED <<qosSide, mangle, nextId, rootInstalled, root, interfered>>

\* ensureRootQdisc, installTcForPolicy, installIptablesForPolicy.  The new class needs the
\* root queue and a class number that is free: without them all of the policy is taken back.
Disturb(t, level) ==
    LET id    == nextId
        under == IF rootInstalled THEN netem ELSE Blank
        fails == rootInstalled /\ (root # "htb" \/ id \in DOMAIN netem)
        rule  == [to |-> t, mark |-> id]
    IN
    /\ ShapeCall
    /\ t \notin DOMAIN policies /\ nextId < FirstId + MaxMarks
    /\ policies' = IF fails THEN policies ELSE With(policies, t, [id |-> id, intensity |-> level])
    /\ nextId' = nextId + 1
    /\ rootInstalled' = TRUE
    /\ root' = IF rootInstalled THEN root ELSE "htb"
    /\ netem' = IF fails THEN Without(netem, id) ELSE With(under, id, level)
    /\ mangle' = IF fails THEN RemoveFirst(mangle, rule) ELSE Append(mangle, rule)
    /\ UNCHANGED <<qosSide, interfered>>

\* remove: the last policy takes the root queue with it, whoever installed it.
DisturbRemove(t) ==
    LET id == policies[t].id
        last == DOMAIN policies = {t}
    IN
    /\ ShapeCall
    /\ t \in DOMAIN policies
    /\ policies' = Without(policies, t)
    /\ mangle' = RemoveFirst(mangle, [to |-> t, mark |-> id])
    /\ rootInstalled' = (rootInstalled /\ ~last)
    /\ root' = IF last THEN "plain" ELSE root
    /\ netem' = IF last THEN Blank ELSE Without(netem, id)
    /\ interfered' = (interfered /\ ~(last /\ mangle' = <<>>))
    /\ UNCHANGED <<qosSide, nextId>>

-----------------------------------------------------------------------------
\* The agent starts again: what disturb.js did stays in the kernel without a record.
AgentAgain ==
    /\ ShapeCall
    /\ policies' = Blank /\ nextId' = FirstId /\ rootInstalled' = FALSE
    /\ interfered' = (interfered \/ mangle # <<>> \/ rootInstalled)
    /\ UNCHANGED <<qosSide, mangle, wanSide>>

\* The box starts again: the record of qos.js says what nothing enforces.
BoxAgain ==
    /\ ShapeCall
    /\ policies' = Blank /\ nextId' = FirstId /\ rootInstalled' = FALSE /\ mangle' = <<>>
    /\ root' = "plain" /\ netem' = Blank
    /\ mes_qos_pre' = <<>> /\ cap_rules' = {}
    /\ rebooted' = Gadgets /\ interfered' = FALSE
    /\ UNCHANGED <<device_priorities, device_caps>>

ShapingNext ==
    \/ ApplyCake \/ QosClear \/ AgentAgain \/ BoxAgain
    \/ \E d \in Gadgets, c \in Classes : SetDevicePriority(d, c)
    \/ \E d \in Gadgets, rate \in [Directions -> 0 .. MaxRate], ip \in Leases \cup {None} :
          SetDeviceCap(d, rate, ip)
    \/ \E t \in Targets, level \in INTENSITY : DisturbAgain(t, level) \/ Disturb(t, level)
    \/ \E t \in Targets : DisturbRemove(t)

-----------------------------------------------------------------------------
ShapingTypeOK ==
    /\ DOMAIN device_priorities \subseteq Gadgets /\ DOMAIN device_caps \subseteq Gadgets
    /\ \A i \in DOMAIN mes_qos_pre : mes_qos_pre[i] \in PrioMarks(Gadgets)
    /\ root \in {"plain", "cake", "htb"} /\ DOMAIN netem \subseteq FirstId .. FirstId + MaxMarks
    /\ DOMAIN policies \subseteq Targets /\ nextId \in FirstId .. FirstId + MaxMarks
    /\ rootInstalled \in BOOLEAN /\ interfered \in BOOLEAN /\ rebooted \subseteq Gadgets

\* A device with a recorded cap is limited by the two rules of that cap and by no older one,
\* whatever addresses and rates it had (or by none, from a reboot until the cap is set again);
\* it carries one priority mark at most, the recorded one.  The comment of setDeviceCap says
\* what goes wrong otherwise.
ShapedAsRecorded ==
    \A d \in Gadgets :
        /\ d \in DOMAIN device_caps =>
              {r \in cap_rules : r.of = d} =
                  IF d \in rebooted THEN {} ELSE CapRules(d, device_caps[d])
        /\ \A i, j \in {k \in DOMAIN mes_qos_pre : mes_qos_pre[k].of = d} :
              i = j /\ d \in DOMAIN device_priorities /\ mes_qos_pre[i].class = device_priorities[d]

\* The mark a packet of device d to site s leaves with: the rules of disturb.js come after
\* those of qos.js, and the last rule that matches wins.
MarkOf(d, s) ==
    LET hits == {i \in DOMAIN mangle : mangle[i].to \in {d, s}}
        prio == {i \in DOMAIN mes_qos_pre : mes_qos_pre[i].of = d}
    IN  IF hits # {} THEN mangle[Max(hits)].mark
        ELSE IF prio # {} THEN PRIO_CLASS[mes_qos_pre[Max(prio)].class] ELSE 0

\* Until the root queue is replaced under it or its record is forgotten, a policy of disturb.js
\* disturbs every packet of its target as strongly as it says, and a packet no policy covers
\* is disturbed only when the priority of its device has the number of a policy.
DisturbedAsListed ==
    ~interfered =>
        \A d \in Gadgets, s \in Sites :
            LET covering == {policies[t] : t \in DOMAIN policies \cap {d, s}}
                mark     == MarkOf(d, s)
            IN  IF covering # {}
                THEN \E p \in covering : /\ mark = p.id /\ mark \in DOMAIN netem
                                         /\ netem[mark] = p.intensity
                ELSE mark \in DOMAIN netem =>
                        /\ d \in DOMAIN device_priorities
                        /\ mark = PRIO_CLASS[device_priorities[d]]
=============================================================================
