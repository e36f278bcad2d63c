---------------------------- MODULE StateIntegrity ----------------------------
(***************************************************************************)
(* What stays in the cloud of a customer who was deleted, and the check    *)
(* and the repair of it (server.js).                                       *)
(*                                                                         *)
(* A customer is deleted in five ways, each of which removes some kinds of *)
(* his records and forgets others; a box that names him goes on reporting. *)
(* The check looks at some kinds, the repair at others.  A reset leaves an *)
(* object without most of the maps, until the next start fills them in: a  *)
(* call that needs one of them throws where it is.                         *)
(*                                                                         *)
(* RecordKinds of records that all of this treats alike are one kind here: under *)
(* "rules" are quotas, under "usage" DNS records and the other maps that   *)
(* finalizeAccountDeletion alone removes, under "vlans" tunnels and guest  *)
(* Wi-Fi, under "sites" WireGuard peers, under "archive" subscriptions and *)
(* blocklists.  Ids are not used again.                                    *)
(***************************************************************************)
EXTENDS Integers, FiniteSets

CONSTANTS
    Households,         \* ids of customers
    Boxes,
    NoOwner,            \* a box without a customer
    Persons,            \* members of a family
    MaxChanges          \* calls: a bound

ASSUME IntegrityAssumption == NoOwner \notin Households /\ MaxChanges \in Nat

VARIABLES
    living,             \* state.customers
    dead,               \* history: those that were deleted
    ownerOf,            \* authorized_macs[...].customer_id
    kept,               \* each id: the kinds of records that are kept under it
    family,             \* family_members: the persons
    named,              \* schedules: the persons that family_ids name
    odd,                \* customers whose plan is in no table
    lacking,            \* a reset left maps out
    report,             \* state._integrity.issues
    changes,
    strays              \* history: boxes that were given an id of nobody, or left with it
                        \* by an unseeding or by a deletion that threw

integrityVars == <<living, dead, ownerOf, kept, family, named, odd, lacking, report, changes, strays>>

\* The maps of the new object of a reset.
AfterReset == {"family", "schedules", "notifications"}
RecordKinds == AfterReset \cup {"rules", "usage", "vlans", "sites", "api_keys", "archive"}

\* What each way of deleting removes.
FinalRemoves == AfterReset \cup {"rules", "usage"}
UnseedRemoves == AfterReset \cup {"rules"}
BulkRemoves == AfterReset

\* What the check looks at, and what the repair removes of customers that are not there.
Checked == AfterReset \cup {"sites"}
Mended == RecordKinds \ {"archive"}

IntegrityTypeOK ==
    /\ living \cup dead \subseteq Households
    /\ ownerOf \in [Boxes -> Households \cup {NoOwner}]
    /\ kept \in [Households -> SUBSET RecordKinds]
    /\ family \in [Households -> SUBSET Persons]
    /\ named \in [Households -> SUBSET Persons]
    /\ odd \subseteq Households /\ strays \subseteq Boxes

IntegrityInit ==
    /\ living = {} /\ dead = {} /\ odd = {} /\ strays = {}
    /\ ownerOf = [b \in Boxes |-> NoOwner]
    /\ kept = [c \in Households |-> {}]
    /\ family = [c \in Households |-> {}] /\ named = family
    /\ lacking = FALSE /\ report = {} /\ changes = 0

-----------------------------------------------------------------------------
\* Calls of customers, boxes and staff.

NewCustomer ==
    /\ \E c \in Households \ (living \cup dead), strange \in BOOLEAN :
          /\ living' = living \cup {c}
          /\ odd' = IF strange THEN odd \cup {c} ELSE odd
    /\ UNCHANGED <<dead, ownerOf, kept, family, named, lacking, report, strays>>

\* A customer's call needs the map it writes to.
AddRecord ==
    /\ \E c \in living, k \in IF lacking THEN {"family", "schedules"} ELSE RecordKinds :
          kept' = [kept EXCEPT ![c] = @ \cup {k}]
    /\ UNCHANGED <<living, dead, ownerOf, family, named, odd, lacking, report, strays>>

AddPerson ==
    /\ \E c \in living, p \in Persons :
          /\ "family" \in kept[c]
          /\ family' = [family EXCEPT ![c] = @ \cup {p}]
    /\ UNCHANGED <<living, dead, ownerOf, kept, named, odd, lacking, report, strays>>

\* The schedules are not told.
DeletePerson ==
    /\ \E c \in living, p \in Persons : family' = [family EXCEPT ![c] = @ \ {p}]
    /\ UNCHANGED <<living, dead, ownerOf, kept, named, odd, lacking, report, strays>>

\* family_ids are taken as they come.
UpdateSchedule ==
    /\ \E c \in living, S \in SUBSET Persons :
          "schedules" \in kept[c] /\ named' = [named EXCEPT ![c] = S]
    /\ UNCHANGED <<living, dead, ownerOf, kept, family, odd, lacking, report, strays>>

AssignBox ==
    /\ \E b \in Boxes, c \in living : ownerOf' = [ownerOf EXCEPT ![b] = c] /\ strays' = strays \ {b}
    /\ UNCHANGED <<living, dead, kept, family, named, odd, lacking, report>>

\* macs/authorize: an id that is nobody's is kept as it was typed.
AuthorizeBox ==
    /\ \E b \in Boxes, c \in living \cup dead :
          /\ ownerOf' = [ownerOf EXCEPT ![b] = c]
          /\ strays' = IF c \in living THEN strays \ {b} ELSE strays \cup {b}
    /\ UNCHANGED <<living, dead, kept, family, named, odd, lacking, report>>

\* Flows are tallied and archived, an alarm notifies, for whomever the box names.
BoxReports ==
    /\ ~lacking
    /\ \E b \in Boxes, made \in {{"usage", "archive"}, {"notifications"}} :
          /\ ownerOf[b] # NoOwner
          /\ kept' = [kept EXCEPT ![ownerOf[b]] = @ \cup made]
    /\ UNCHANGED <<living, dead, ownerOf, family, named, odd, lacking, report, changes, strays>>

-----------------------------------------------------------------------------
\* The ways in which a customer goes: his record first, then the others.
CustomerGone(c, kinds) ==
    /\ living' = living \ {c} /\ dead' = dead \cup {c} /\ odd' = odd \ {c}
    /\ kept' = [kept EXCEPT ![c] = @ \ kinds]
    /\ family' = [family EXCEPT ![c] = IF "family" \in kinds THEN {} ELSE @]
    /\ named' = [named EXCEPT ![c] = IF "schedules" \in kinds THEN {} ELSE @]

BoxesOf(c) == {b \in Boxes : ownerOf[b] = c}
Unassigned(c) == [b \in Boxes |-> IF ownerOf[b] = c THEN NoOwner ELSE ownerOf[b]]
LetGo(c) == ownerOf' = Unassigned(c) /\ UNCHANGED strays
LeftBehind(c) == strays' = strays \cup BoxesOf(c) /\ UNCHANGED ownerOf

\* finalizeAccountDeletion, by delete-now: after a reset it throws at the rules.
DeleteAtOnce ==
    /\ \E c \in living :
          IF lacking THEN CustomerGone(c, AfterReset) /\ LeftBehind(c)
          ELSE CustomerGone(c, FinalRemoves) /\ LetGo(c)
    /\ UNCHANGED <<lacking, report>>

\* The same by the timer, where what is thrown ends the process: nothing was saved.
ScheduledDeletion ==
    /\ \E c \in living :
          IF lacking
          THEN /\ lacking' = FALSE
               /\ UNCHANGED <<living, dead, odd, kept, family, named, ownerOf, strays>>
          ELSE CustomerGone(c, FinalRemoves) /\ LetGo(c) /\ UNCHANGED lacking
    /\ UNCHANGED report

StaffDelete ==
    /\ \E c \in living : CustomerGone(c, {}) /\ LetGo(c)
    /\ UNCHANGED <<lacking, report>>

BulkDelete ==
    /\ \E c \in living : CustomerGone(c, BulkRemoves) /\ LetGo(c)
    /\ UNCHANGED <<lacking, report>>

\* Of a demo customer; a box that is not of the demo keeps his id.
Unseed ==
    /\ \E c \in living :
          /\ CustomerGone(c, IF lacking THEN {"family", "schedules"} ELSE UnseedRemoves)
          /\ LeftBehind(c)
    /\ UNCHANGED <<lacking, report>>

\* Everybody goes with all he had, boxes too.
ResetAll ==
    /\ dead' = dead \cup living /\ living' = {} /\ odd' = {}
    /\ ownerOf' = [b \in Boxes |-> NoOwner] /\ strays' = {}
    /\ kept' = [c \in Households |-> {}]
    /\ family' = [c \in Households |-> {}] /\ named' = family'
    /\ lacking' = TRUE
    /\ report' = {}

\* The next start fills the maps in.
StartAgain ==
    /\ lacking /\ lacking' = FALSE
    /\ UNCHANGED <<living, dead, ownerOf, kept, family, named, odd, report, strays>>

-----------------------------------------------------------------------------
\* runStateIntegrityCheck finds these.
Issues(kinds, persons, ids) ==
    {<<"box", b>> : b \in {x \in Boxes : ownerOf[x] \notin living \cup {NoOwner}}}
    \cup {<<"plan", c>> : c \in odd}
    \cup {<<"records", c>> : c \in {x \in Households \ living : kinds[x] \cap Checked # {}}}
    \cup {<<"person", c>> : c \in {x \in Households : "schedules" \in kinds[x] /\ ~(ids[x] \subseteq persons[x])}}
    \cup (IF lacking THEN {<<"key", "box_state">>} ELSE {})

RunStateIntegrityCheck ==
    /\ report' = Issues(kept, family, named)
    /\ UNCHANGED <<living, dead, ownerOf, kept, family, named, odd, lacking, changes, strays>>

\* The ids a schedule keeps: those of a person of the same family.
Pruned(c) == named[c] \cap family[c]

\* integrity/autofix ends with a check.
Autofix ==
    /\ kept' = [c \in Households |-> IF c \in living THEN kept[c] ELSE kept[c] \ Mended]
    /\ family' = [c \in Households |-> IF c \in living THEN family[c] ELSE {}]
    /\ named' = [c \in Households |-> IF c \in living THEN Pruned(c) ELSE {}]
    /\ report' = Issues(kept', family', named')
    /\ UNCHANGED <<living, dead, ownerOf, odd, lacking, strays>>

IntegrityChange ==
    /\ changes < MaxChanges /\ changes' = changes + 1
    /\ \/ NewCustomer \/ AddRecord \/ AddPerson \/ DeletePerson \/ UpdateSchedule
       \/ AssignBox \/ AuthorizeBox \/ DeleteAtOnce \/ ScheduledDeletion \/ StaffDelete
       \/ BulkDelete \/ Unseed \/ ResetAll \/ StartAgain \/ Autofix

IntegrityNext == IntegrityChange \/ BoxReports \/ RunStateIntegrityCheck

-----------------------------------------------------------------------------
\* Whom the schedules of a customer stop: the policy looks a member's devices up.
StoppedPersons == [c \in Households |-> named[c] \cap family[c]]

\* However customers were deleted before, a repair leaves no issue but boxes, plans and missing
\* maps, which it does not mend, takes nothing from a living customer, and stops and frees no
\* device of his.
RepairSpares ==
    [][Autofix =>
          /\ report' \subseteq {<<"box", b>> : b \in Boxes} \cup {<<"plan", c>> : c \in Households}
                \cup {<<"key", "box_state">>}
          /\ \A c \in living : /\ kept'[c] = kept[c] /\ family'[c] = family[c]
                               /\ StoppedPersons'[c] = StoppedPersons[c]
      ]_integrityVars

\* A deleted customer keeps no box, so that none reports for him, unless staff typed his id,
\* wiped the demo data, or deleted him while maps were missing.
BoxesLetGo ==
    \A b \in Boxes : ownerOf[b] \in living \cup {NoOwner} \/ b \in strays
=============================================================================
