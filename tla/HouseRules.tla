----------------------------- MODULE HouseRules -----------------------------
(* What a household decides about its devices, and what the policy makes of   *)
(* it: the rules and their history, the block switch of a device, the family  *)
(* and its bedtime, the two pauses, the reset to defaults (server.js).  One   *)
(* household and its box.  Rules that name a category stand for all rules     *)
(* that stop no device.                                                       *)
EXTENDS Integers, Sequences, FiniteSets, Household

CONSTANTS
    Kids,           \* family members
    MaxRules,       \* bound on the rules ever made
    MaxHour,        \* bound on the clock, in hours
    Grace,          \* hours before a scheduled reset is executed (7 days)
    KeptHistory,    \* entries of the rule history that are kept (500)
    FamilyLimit,    \* members the plan allows
    MaxDeeds        \* bound on the calls of the customer

ASSUME HouseAssumption == {MaxRules, MaxHour, KeptHistory} \subseteq Nat

VARIABLES
    hour,
    rules,              \* id -> the rule, None when there is none
    made,               \* rules made so far
    rule_history,
    box_devices,        \* gadget -> its block switch, None when the box does not list it
    family_members,     \* member -> its devices, None when there is none
    schedule,           \* None, or the members and the devices of the bedtime
    pause_until,        \* None, or the hour the pause of the internet ends
    selective_pause,    \* None, or the pause with its exempt members and devices
    reset_pending,      \* None, or the hour the reset executes
    blocked_set,          \* devices the box drops
    bedtime,            \* devices the box's schedule holds
    deeds,              \* calls made
    wish,               \* history: what the customer wants of a gadget: "free" or "blocked",
                        \* "until" when the block leans on a rule that expires, or None
    told                \* history: id -> how often its expiry was notified
houseVars == <<hour, rules, made, rule_history, box_devices, family_members, schedule,
               pause_until, selective_pause, reset_pending, blocked_set, bedtime, deeds, wish, told>>

RuleIds == 1 .. MaxRules
\* A MAC is kept as it was typed; only the policy brings it into the normal form.
Values == (Gadgets \X {"plain", "dashed"}) \cup {<<None, "category">>}
Rules == [value : Values, action : {"block", "allow"}, enabled : BOOLEAN,
          expires : {None} \cup 0 .. MaxHour, notified : BOOLEAN]

HouseInit ==
    /\ hour = 0
    /\ rules = [i \in RuleIds |-> None] /\ made = 0 /\ rule_history = <<>>
    /\ box_devices = [d \in Gadgets |-> FALSE]
    /\ family_members = [k \in Kids |-> None]
    /\ schedule = None /\ pause_until = None /\ selective_pause = None /\ reset_pending = None
    /\ blocked_set = {} /\ bedtime = {}
    /\ deeds = 0 /\ wish = [d \in Gadgets |-> None] /\ told = [i \in RuleIds |-> 0]

Deed == deeds < MaxDeeds /\ deeds' = deeds + 1
Lists == <<rules, made, rule_history>>
Family == <<family_members, schedule>>
Pauses == <<pause_until, selective_pause, reset_pending>>
Box == <<blocked_set, bedtime>>

-----------------------------------------------------------------------------
(* Rules.                                                                     *)
Present == {i \in RuleIds : rules[i] # None}
Named(i, d, spelling) == rules[i].value = <<d, spelling>>
Stops(r, d) == r.action = "block" /\ r.value[1] = d
Expired(r) == r.expires # None /\ r.expires < hour

\* recordRuleHistory
Recorded(log, op, i) ==
    LET all == Append(log, <<op, i>>) IN IF Len(all) > KeptHistory THEN Tail(all) ELSE all

Drop(ids) == rules' = [i \in RuleIds |-> IF i \in ids THEN None ELSE rules[i]]

\* A customer who writes a rule that stops a device no longer wants it free; one who
\* changes or removes a rule of the device no longer wants it blocked.
Ruled(r) == [d \in Gadgets |-> IF wish[d] = "free" /\ Stops(r, d) THEN None ELSE wish[d]]
Changed(i) == {d \in Gadgets : rules[i].value[1] = d}

\* POST rules/add
RuleAdd(r) ==
    /\ Deed /\ made < MaxRules
    /\ ~r.notified /\ (r.expires # None => r.expires >= hour)
    /\ made' = made + 1
    /\ rules' = [rules EXCEPT ![made'] = r]
    /\ rule_history' = Recorded(rule_history, "add", made')
    /\ wish' = Ruled(r)
    /\ UNCHANGED <<hour, box_devices, Family, Pauses, Box, told>>

\* POST rules/update: any of the fields, an hour that has passed too; what the sweep
\* noted about the rule stays.
RuleUpdate(i, r) ==
    /\ Deed /\ i \in Present
    /\ r.notified = rules[i].notified
    /\ rules' = [rules EXCEPT ![i] = r]
    /\ rule_history' = Recorded(rule_history, "update", i)
    /\ wish' = [d \in Gadgets |-> IF d \in Changed(i) THEN None ELSE Ruled(r)[d]]
    /\ UNCHANGED <<hour, made, box_devices, Family, Pauses, Box, told>>

RuleDelete(i) ==
    /\ Deed /\ i \in Present
    /\ Drop({i})
    /\ rule_history' = Recorded(rule_history, "delete", i)
    /\ wish' = [d \in Gadgets |->
                  IF d \in Changed(i) /\ wish[d] # "free" THEN None ELSE wish[d]]
    /\ UNCHANGED <<hour, made, box_devices, Family, Pauses, Box, told>>

\* POST rules/apply-preset: the template is skipped when the same rule is there.
ApplyPreset ==
    /\ Deed /\ made < MaxRules
    /\ ~\E i \in Present : rules[i].value[2] = "category" /\ rules[i].action = "block"
    /\ made' = made + 1
    /\ rules' = [rules EXCEPT ![made'] =
           [value |-> <<None, "category">>, action |-> "block", enabled |-> TRUE,
            expires |-> None, notified |-> FALSE]]
    /\ rule_history' = Recorded(rule_history, "add", made')
    /\ UNCHANGED <<hour, box_devices, Family, Pauses, Box, wish, told>>

Switched(d, on) ==
    box_devices' = [box_devices EXCEPT ![d] = IF @ = None THEN None ELSE on]

\* The rules that make another block rule unnecessary: enabled, whenever they expire.
HasBlock(d) ==
    {i \in Present : Named(i, d, "plain") /\ rules[i].action = "block" /\ rules[i].enabled}

\* POST block-device: the switch, and a rule for the MAC unless one is enabled; allow
\* rules for it go.
Block(d) ==
    /\ Deed /\ Switched(d, TRUE)
    /\ LET has == HasBlock(d)
           kept == [i \in RuleIds |->
                     IF i \in Present /\ Named(i, d, "plain") /\ rules[i].action = "allow"
                     THEN None ELSE rules[i]]
       IN  IF has # {} THEN rules' = kept /\ UNCHANGED made
           ELSE /\ made < MaxRules /\ made' = made + 1
                /\ rules' = [kept EXCEPT ![made'] =
                       [value |-> <<d, "plain">>, action |-> "block", enabled |-> TRUE,
                        expires |-> None, notified |-> FALSE]]
    /\ wish' = [wish EXCEPT ![d] = IF HasBlock(d) # {} /\ \A i \in HasBlock(d) : rules[i].expires # None
                                   THEN "until" ELSE "blocked"]
    /\ UNCHANGED <<hour, rule_history, Family, Pauses, Box, told>>

\* The block rules that an unblock finds: of the MAC as the customer's app writes it.
BlockRules(d) == {i \in Present : Named(i, d, "plain") /\ rules[i].action = "block"}

\* Free of every rule, but for those that spell the MAC differently.
Spelt(d) == \E i \in Present : Named(i, d, "dashed")
Freed(d) == wish' = [wish EXCEPT ![d] = IF Spelt(d) THEN None ELSE "free"]

\* POST block-device with unblock
Unblock(d) ==
    /\ Deed /\ Switched(d, FALSE)
    /\ Drop(BlockRules(d))
    /\ Freed(d)
    /\ UNCHANGED <<hour, made, rule_history, Family, Pauses, Box, told>>

\* What forgetting a device strips.
ForgetRules(d) == {i \in Present : Named(i, d, "plain")}

\* POST device/forget
ForgetDevice(d) ==
    /\ Deed
    /\ box_devices' = [box_devices EXCEPT ![d] = None]
    /\ Drop(ForgetRules(d))
    /\ family_members' = [k \in Kids |->
           IF family_members[k] = None THEN None ELSE family_members[k] \ {d}]
    /\ Freed(d)
    /\ UNCHANGED <<hour, made, rule_history, schedule, Pauses, Box, told>>

\* POST box/devices: the record is written anew, and the agent says nothing of the switch.
DeviceReported(d) ==
    /\ box_devices[d] # FALSE
    /\ box_devices' = [box_devices EXCEPT ![d] = FALSE]
    /\ UNCHANGED <<hour, Lists, Family, Pauses, Box, deeds, wish, told>>

\* A sweep that looks at the rules already disabled.
Swept_Disabled == {i \in Present : Expired(rules[i]) /\ ~rules[i].enabled /\ ~rules[i].notified}

\* sweepExpiredRules, every hour.
Swept == {i \in Present : Expired(rules[i]) /\ rules[i].enabled /\ ~rules[i].notified}

Sweep ==
    /\ Swept # {}
    /\ rules' = [i \in RuleIds |->
           IF i \in Swept THEN [rules[i] EXCEPT !.enabled = FALSE, !.notified = TRUE] ELSE rules[i]]
    /\ told' = [i \in RuleIds |-> IF i \in Swept THEN told[i] + 1 ELSE told[i]]
    /\ UNCHANGED <<hour, made, rule_history, box_devices, Family, Pauses, Box, deeds, wish>>

-----------------------------------------------------------------------------
(* The family, its bedtime, the pauses.                                       *)
House == <<hour, Lists, box_devices, Box, wish, told>>
Members == {k \in Kids : family_members[k] # None}

MemberAdd(k, ds) ==
    /\ Deed /\ k \notin Members /\ Cardinality(Members) < FamilyLimit
    /\ family_members' = [family_members EXCEPT ![k] = ds]
    /\ UNCHANGED <<schedule, Pauses, House>>

MemberUpdate(k, ds) ==
    /\ Deed /\ k \in Members
    /\ family_members' = [family_members EXCEPT ![k] = ds]
    /\ UNCHANGED <<schedule, Pauses, House>>

MemberDelete(k) ==
    /\ Deed /\ k \in Members
    /\ family_members' = [family_members EXCEPT ![k] = None]
    /\ UNCHANGED <<schedule, Pauses, House>>

\* POST family/assign-device: taken from every member, then given to one; an unknown
\* target is refused after the device was taken.
AssignDevice(d, target) ==
    /\ Deed
    /\ family_members' = [k \in Kids |->
           IF k \notin Members THEN None
           ELSE IF k = target THEN family_members[k] \cup {d} ELSE family_members[k] \ {d}]
    /\ UNCHANGED <<schedule, Pauses, House>>

\* POST schedules/add, update, from-preset; the members named need not exist.
ScheduleSet(ks, ds) ==
    /\ Deed
    /\ schedule' = [family_ids |-> ks, device_macs |-> ds]
    /\ UNCHANGED <<family_members, Pauses, House>>

ScheduleDelete ==
    /\ Deed /\ schedule # None /\ schedule' = None
    /\ UNCHANGED <<family_members, Pauses, House>>

Pause(h) ==
    /\ Deed /\ h > hour /\ pause_until' = h
    /\ UNCHANGED <<Family, selective_pause, reset_pending, House>>

Resume ==
    /\ Deed /\ pause_until # None /\ pause_until' = None
    /\ UNCHANGED <<Family, selective_pause, reset_pending, House>>

SelectivePause(ks, ds, h) ==
    /\ Deed /\ h > hour
    /\ selective_pause' = [until |-> h, members |-> ks, devices |-> ds]
    /\ UNCHANGED <<Family, pause_until, reset_pending, House>>

SelectiveCancel ==
    /\ Deed /\ selective_pause # None /\ selective_pause' = None
    /\ UNCHANGED <<Family, pause_until, reset_pending, House>>

\* reset-to-defaults/schedule and cancel.
ResetSchedule ==
    /\ Deed /\ reset_pending = None /\ reset_pending' = hour + Grace
    /\ UNCHANGED <<Family, pause_until, selective_pause, House>>

ResetCancel ==
    /\ Deed /\ reset_pending # None /\ reset_pending' = None
    /\ UNCHANGED <<Family, pause_until, selective_pause, House>>

\* processPendingResets: rules, family and schedules go; the switches of the devices and
\* the pauses stay.
ResetExecutes ==
    /\ reset_pending # None /\ reset_pending <= hour
    /\ reset_pending' = None
    /\ wish' = [d \in Gadgets |-> IF wish[d] = "free" THEN "free" ELSE None]
    /\ Drop(RuleIds) /\ family_members' = [k \in Kids |-> None] /\ schedule' = None
    /\ UNCHANGED <<hour, made, rule_history, box_devices, pause_until, selective_pause, Box,
                   deeds, told>>

-----------------------------------------------------------------------------
(* The policy.                                                                *)
Owned(ks) == UNION {family_members[k] : k \in ks \cap Members}
Paused == pause_until # None /\ pause_until > hour
Selective == selective_pause # None /\ selective_pause.until > hour
\* selectivePauseExpandExcluded
Exempt == selective_pause.devices \cup Owned(selective_pause.members)
Online == {d \in Gadgets : box_devices[d] # None}

\* The devices GET box/policy stops.
Stopped ==
    {d \in Gadgets :
        \/ \E i \in Present : Stops(rules[i], d) /\ rules[i].enabled /\ ~Expired(rules[i])
        \/ box_devices[d] = TRUE
        \/ Paused /\ d \in Online
        \/ Selective /\ d \in Online \ Exempt}

\* The box fetches the policy and applies it.
PolicyPulled ==
    /\ blocked_set' = Stopped
    /\ bedtime' = IF schedule = None THEN {}
                  ELSE schedule.device_macs \cup Owned(schedule.family_ids)
    /\ UNCHANGED <<hour, Lists, box_devices, Family, Pauses, deeds, wish, told>>

HourPasses ==
    /\ hour < MaxHour /\ hour' = hour + 1
    /\ UNCHANGED <<Lists, box_devices, Family, Pauses, Box, deeds, wish, told>>

HouseNext ==
    \/ \E r \in Rules : RuleAdd(r) \/ \E i \in RuleIds : RuleUpdate(i, r)
    \/ \E i \in RuleIds : RuleDelete(i)
    \/ \E d \in Gadgets :
           \/ Block(d) \/ Unblock(d) \/ ForgetDevice(d) \/ DeviceReported(d)
           \/ \E k \in Kids \cup {None} : AssignDevice(d, k)
    \/ \E k \in Kids, ds \in SUBSET Gadgets : MemberAdd(k, ds) \/ MemberUpdate(k, ds)
    \/ \E k \in Kids : MemberDelete(k)
    \/ \E ks \in SUBSET Kids, ds \in SUBSET Gadgets :
           ScheduleSet(ks, ds) \/ \E h \in 1 .. MaxHour : SelectivePause(ks, ds, h)
    \/ \E h \in 1 .. MaxHour : Pause(h)
    \/ ApplyPreset \/ Sweep \/ ScheduleDelete \/ Resume \/ SelectiveCancel
    \/ ResetSchedule \/ ResetCancel \/ ResetExecutes \/ PolicyPulled \/ HourPasses
-----------------------------------------------------------------------------
HouseTypeOK ==
    /\ hour \in 0 .. MaxHour
    /\ rules \in [RuleIds -> Rules \cup {None}] /\ made \in 0 .. MaxRules
    /\ Len(rule_history) <= KeptHistory
    /\ box_devices \in [Gadgets -> BOOLEAN \cup {None}]
    /\ family_members \in [Kids -> (SUBSET Gadgets) \cup {None}]
    /\ {blocked_set, bedtime} \subseteq SUBSET Gadgets

\* The next policy does what the customer last did with the block switch of a device,
\* whichever of the two block signals was set, in whatever order rules, resets, sweeps and
\* the box's reports came in between: a device unblocked or forgotten is let through unless
\* a pause holds it, a device blocked is stopped (POST block-device, POST device/forget,
\* POST box/devices, GET box/policy).  A block that leans on a rule that expires is left out.
SwitchObeyed ==
    [][PolicyPulled =>
           \A d \in Gadgets :
               /\ wish[d] = "blocked" => d \in blocked_set'
               /\ wish[d] = "free" /\ d \in blocked_set' =>
                     Paused \/ (Selective /\ d \notin Exempt)]_houseVars

\* The customer is told of a rule that expires: by the sweep, unless the rule is changed or
\* removed before (sweepExpiredRules).  A rule renewed after it expired is not covered.
ExpiryTold ==
    \A i \in RuleIds :
        (i \in Present /\ Expired(rules[i]) /\ rules[i].enabled /\ told[i] = 0)
            ~> (told[i] = 1 \/ i \notin Present \/ ~rules[i].enabled \/ ~Expired(rules[i]))

\* What makes the types inductive: the history is one of rules, and a bedtime names members
\* and devices.
HouseInv ==
    /\ HouseTypeOK
    /\ rule_history \in Seq({"add", "update", "delete"} \X RuleIds)
    /\ schedule \in {None} \cup [family_ids : SUBSET Kids, device_macs : SUBSET Gadgets]
=============================================================================
