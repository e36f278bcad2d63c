--------------------------- MODULE DeviceIsolation ---------------------------
(***************************************************************************)
(* Cutting one device of a home off, on the box: the quarantine of new     *)
(* devices and the lock of a device to what it was seen to reach.          *)
(*                                                                         *)
(* Quarantine (server.js, box-agent/agent.js, box-agent/quarantine.js):    *)
(* the flag of the customer in the cloud, the policy that carries it, the  *)
(* scan of the agent that holds devices it has never seen, and the         *)
(* commands of the customer.  known-macs.json and quarantine.state.json    *)
(* are written with every change; the nftables set that stops a device is  *)
(* in the kernel and is empty after a reboot.  Commands travel as          *)
(* BoxCommands describes: in order, once or never.                         *)
(*                                                                         *)
(* The lock (box-agent/iot-lockdown.js): a capture collects the endpoints  *)
(* a device talks to and, when it ends, puts them in the place of its      *)
(* list; several may run for one device.  enforce copies the list into an  *)
(* nftables set and adds the rules that drop the rest.  The record of the  *)
(* module is on disk with every change, the set and the rules are in the   *)
(* kernel and gone after a reboot.                                         *)
(*                                                                         *)
(* nftables is external: a set that rules refer to cannot be deleted, and  *)
(* adding a set that is there changes nothing.  The rules let through what *)
(* belongs to a connection that is established, locked or not: only new    *)
(* connections are modelled.                                               *)
(***************************************************************************)
EXTENDS Integers, Sequences, FiniteSets

CONSTANTS
    LanMacs,
    MaxQueue, MaxOrders, MaxReboots     \* bounds

VARIABLES
    wanted,         \* customer.auto_quarantine
    policyFlag,     \* auto_quarantine of agentState.last_policy
    present,        \* devices on the network
    known,          \* known-macs.json
    listed,         \* quarantine.state.json
    stopped,        \* the nftables set
    orders,         \* commands on their way to the box
    counted,        \* commands and reboots so far
    household       \* history: seen by a scan that did not quarantine, or approved

quarantineVars == <<wanted, policyFlag, present, known, listed, stopped, orders, counted,
                    household>>

QuarantineTypeOK ==
    /\ wanted \in BOOLEAN /\ policyFlag \in BOOLEAN
    /\ {present, known, listed, stopped, household} \subseteq SUBSET LanMacs
    /\ orders \in Seq([do: {"add", "approve"}, mac: LanMacs])

QuarantineInit ==
    /\ wanted = FALSE /\ policyFlag = FALSE
    /\ present \in SUBSET LanMacs
    /\ known = {} /\ listed = {} /\ stopped = {}
    /\ orders = <<>>
    /\ counted = [orders |-> 0, reboots |-> 0]
    /\ household = {}

\* /api/customer/auto-quarantine
SetAuto ==
    /\ \E b \in BOOLEAN : b # wanted /\ wanted' = b
    /\ UNCHANGED <<policyFlag, present, known, listed, stopped, orders, counted, household>>

\* The agent stores the policy it received, also across restarts.
PolicyArrives ==
    /\ policyFlag # wanted
    /\ policyFlag' = wanted
    /\ UNCHANGED <<wanted, present, known, listed, stopped, orders, counted, household>>

\* Devices come and go.
Traffic ==
    /\ \E m \in LanMacs : present' = IF m \in present THEN present \ {m} ELSE present \cup {m}
    /\ UNCHANGED <<wanted, policyFlag, known, listed, stopped, orders, counted, household>>

-----------------------------------------------------------------------------
\* quarantine()
Hold(ms) ==
    /\ stopped' = stopped \cup ms
    /\ listed' = listed \cup ms

\* maybeQuarantineNew: all but the known.
Unknown(ms) == ms \ known

\* recordKnown
RecordKnown(ms) == known' = known \cup ms

\* reportDevices: one scan of the network.
ScanHolds ==
    /\ policyFlag
    /\ present # {}
    /\ Hold(Unknown(present))
    /\ UNCHANGED <<wanted, policyFlag, present, known, orders, counted, household>>

ScanRecords ==
    /\ ~policyFlag
    /\ present # {}
    /\ RecordKnown(present)
    /\ household' = household \cup present
    /\ UNCHANGED <<wanted, policyFlag, present, listed, stopped, orders, counted>>

-----------------------------------------------------------------------------
\* quarantine/add and quarantine/approve; of the two handlers of approve the
\* first one answers, and queues a command.
Order ==
    /\ counted.orders < MaxOrders
    /\ Len(orders) < MaxQueue
    /\ \E m \in LanMacs, o \in {"add", "approve"} :
          orders' = Append(orders, [do |-> o, mac |-> m])
    /\ counted' = [counted EXCEPT !.orders = @ + 1]
    /\ UNCHANGED <<wanted, policyFlag, present, known, listed, stopped, household>>

OrderLost ==
    /\ orders # <<>>
    /\ orders' = Tail(orders)
    /\ UNCHANGED <<wanted, policyFlag, present, known, listed, stopped, counted, household>>

Add ==
    /\ orders # <<>> /\ Head(orders).do = "add"
    /\ Hold({Head(orders).mac})
    /\ orders' = Tail(orders)
    /\ UNCHANGED <<wanted, policyFlag, present, known, counted, household>>

\* approve(): out of the set, known, and off the list.
Approve ==
    /\ orders # <<>> /\ Head(orders).do = "approve"
    /\ LET m == Head(orders).mac IN
       /\ stopped' = stopped \ {m}
       /\ listed' = listed \ {m}
       /\ RecordKnown({m})
       /\ household' = household \cup {m}
    /\ orders' = Tail(orders)
    /\ UNCHANGED <<wanted, policyFlag, present, counted>>

\* The files are read again; nothing fills the set.
Reboot ==
    /\ counted.reboots < MaxReboots
    /\ counted' = [counted EXCEPT !.reboots = @ + 1]
    /\ stopped' = {}
    /\ UNCHANGED <<wanted, policyFlag, present, known, listed, orders, household>>

QuarantineNext ==
    \/ SetAuto \/ PolicyArrives \/ Traffic
    \/ ScanHolds \/ ScanRecords
    \/ Order \/ OrderLost \/ Add \/ Approve \/ Reboot

-----------------------------------------------------------------------------
\* A device that was at home while the switch was off, or that the customer
\* approved, is never stopped again unless the customer asks for it, whatever
\* policies, reboots and commands come between: "so toggling on later doesn't
\* quarantine the whole house".
HouseholdSpared == [][(stopped' \ stopped) \cap household # {} => Add]_quarantineVars

\* While the switch is on, a device nobody knows that stays on the network is
\* stopped, also after a reboot has emptied the set.
NewcomersHeld ==
    \A m \in LanMacs :
        (policyFlag /\ m \in present \ known)
            ~> (~policyFlag \/ m \notin present \ known \/ m \in stopped)

-----------------------------------------------------------------------------
(* The lock                                                                   *)

CONSTANTS
    Things,                 \* devices that may be locked
    Endpoints,
    MaxCaptures, MaxMishaps \* captures begun, stops and reboots: bounds

ASSUME LockAssumption == MaxCaptures \in Nat

VARIABLES
    record,         \* _state.by_mac and its file
    captures,       \* tcpdump processes and what they saw
    kernelSet,      \* the nftables set of a device, NoSet when there is none
    kernelRules,    \* devices with rules
    begun, mishaps,
    captured,       \* history: endpoints a capture of the device ended with
    locked,         \* history: what the lists held it was locked with since it had no rules
    booted          \* history: the box was rebooted since the device was locked

lockVars == <<record, captures, kernelSet, kernelRules, begun, mishaps, captured, locked, booted>>

NoSet == {"no set"}

LockTypeOK ==
    /\ record \in [Things -> [learning: BOOLEAN, enforced: BOOLEAN, allow: SUBSET Endpoints]]
    /\ \A c \in captures : c \in [id: 1 .. MaxCaptures, thing: Things, got: SUBSET Endpoints]
    /\ kernelSet \in [Things -> (SUBSET Endpoints) \cup {NoSet}]
    /\ kernelRules \subseteq Things

LockInit ==
    /\ record = [t \in Things |-> [learning |-> FALSE, enforced |-> FALSE, allow |-> {}]]
    /\ captures = {}
    /\ kernelSet = [t \in Things |-> NoSet]
    /\ kernelRules = {}
    /\ begun = 0 /\ mishaps = 0
    /\ captured = [t \in Things |-> {}]
    /\ locked = [t \in Things |-> {}]
    /\ booted = [t \in Things |-> FALSE]

StartLearning ==
    /\ begun < MaxCaptures
    /\ begun' = begun + 1
    /\ \E t \in Things :
          /\ record' = [record EXCEPT ![t].learning = TRUE]
          /\ captures' = captures \cup {[id |-> begun', thing |-> t, got |-> {}]}
    /\ UNCHANGED <<kernelSet, kernelRules, mishaps, captured, locked, booted>>

Packet ==
    /\ \E c \in captures : \E e \in Endpoints \ c.got :
          captures' = (captures \ {c}) \cup {[c EXCEPT !.got = @ \cup {e}]}
    /\ UNCHANGED <<record, kernelSet, kernelRules, begun, mishaps, captured, locked, booted>>

\* child.on('exit')
CaptureEnds ==
    /\ \E c \in captures :
          /\ captures' = captures \ {c}
          /\ record' = [record EXCEPT ![c.thing].allow = c.got, ![c.thing].learning = FALSE]
          /\ captured' = [captured EXCEPT ![c.thing] = @ \cup c.got]
    /\ UNCHANGED <<kernelSet, kernelRules, begun, mishaps, locked, booted>>

\* Delete the set, add it, add the elements.
Filled(t) ==
    IF t \in kernelRules THEN kernelSet[t] \cup record[t].allow ELSE record[t].allow

Enforce ==
    /\ \E t \in Things :
          /\ record[t].allow # {}
          /\ kernelSet' = [kernelSet EXCEPT ![t] = Filled(t)]
          /\ kernelRules' = kernelRules \cup {t}
          /\ record' = [record EXCEPT ![t].enforced = TRUE]
          /\ locked' = [locked EXCEPT ![t] = @ \cup record[t].allow]
          /\ booted' = [booted EXCEPT ![t] = FALSE]
    /\ UNCHANGED <<captures, begun, mishaps, captured>>

\* disable(): the rules, then the set.
DisableLock ==
    /\ \E t \in Things :
          /\ kernelRules' = kernelRules \ {t}
          /\ kernelSet' = [kernelSet EXCEPT ![t] = NoSet]
          /\ record' = [record EXCEPT ![t].enforced = FALSE]
          /\ locked' = [locked EXCEPT ![t] = {}]
    /\ UNCHANGED <<captures, begun, mishaps, captured, booted>>

\* The agent stops: what its captures saw is lost, and the record still says
\* that they learn.
AgentStops ==
    /\ mishaps < MaxMishaps
    /\ mishaps' = mishaps + 1
    /\ captures # {}
    /\ captures' = {}
    /\ UNCHANGED <<record, kernelSet, kernelRules, begun, captured, locked, booted>>

BoxReboots ==
    /\ mishaps < MaxMishaps
    /\ mishaps' = mishaps + 1
    /\ captures' = {}
    /\ kernelSet' = [t \in Things |-> NoSet]
    /\ kernelRules' = {}
    /\ locked' = [t \in Things |-> {}]
    /\ booted' = [t \in Things |-> TRUE]
    /\ UNCHANGED <<record, begun, captured>>

LockNext ==
    \/ StartLearning \/ Packet \/ CaptureEnds \/ Enforce \/ DisableLock
    \/ AgentStops \/ BoxReboots

-----------------------------------------------------------------------------
\* The new connections a locked device may open are to the endpoints of its list and, when it was
\* locked again with another list, of every list since the lock was last lifted: none that no
\* capture of it saw, also when captures overlap and end while it is locked.  Until the box is
\* rebooted the record says of a device that it is locked exactly when the kernel holds its rules.
LockedAsLearned ==
    \A t \in Things :
        /\ t \in kernelRules => /\ kernelSet[t] = locked[t]
                                /\ kernelSet[t] \subseteq captured[t]
        /\ ~booted[t] => (record[t].enforced <=> t \in kernelRules)

-----------------------------------------------------------------------------
\* The household is in known-macs.json, so that no scan takes one of it for new.
HouseholdKnown == household \subseteq known

\* A list holds what captures of its device ended with; the histories keep to endpoints.  This
\* makes LockedAsLearned inductive.
ListsCaptured ==
    /\ begun \in 0 .. MaxCaptures
    /\ {captured, locked} \subseteq [Things -> SUBSET Endpoints] /\ booted \in [Things -> BOOLEAN]
    /\ \A t \in Things : /\ record[t].allow \subseteq captured[t]
                         /\ t \notin kernelRules => locked[t] = {}

LockInv == LockTypeOK /\ ListsCaptured /\ LockedAsLearned
=============================================================================
