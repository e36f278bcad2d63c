----------------------------- MODULE CloudModules -----------------------------
(***************************************************************************)
(* The settings two modules of the cloud keep inside the state of the      *)
(* server: active-protect (a list of destinations for each device) and     *)
(* quarantine (a switch), of one customer.                                 *)
(*                                                                         *)
(* A module is given the state object once, when the cloud starts.  A      *)
(* restore or a reset puts another object in its place in the server: the  *)
(* module then works on an object that no save writes any more.  Lists are *)
(* Sets in memory and arrays in the file, and active-protect leaves them   *)
(* arrays after a start: what changes a list then throws.                  *)
(*                                                                         *)
(* The flows the server hands to active-protect have no device_mac, so     *)
(* ingestFlow passes every one of them and learns nothing; nothing calls   *)
(* ingestNewDevice, pruneExpired, pruneOld or exportPolicyForBox.  Lists   *)
(* change only by the calls of the customer.                               *)
(***************************************************************************)
EXTENDS Integers, Household

CONSTANTS
    Devices, Destinations,
    LearningTime,       \* the longest time to learn that a customer names
    MaxTime             \* a bound

ASSUME ModuleAssumption == {LearningTime, MaxTime} \subseteq Nat

VARIABLES
    clock,
    held,           \* the object the modules work on
    served,         \* the object of the server; it is the same one while attached
    attached,
    stateFile,
    snapshot,       \* a backup that may be restored
    replaced,       \* history: the state was replaced since the cloud started
    putBack         \* history: what by

moduleVars == <<clock, held, served, attached, stateFile, snapshot, replaced, putBack>>

Moments == 0 .. MaxTime
Entry == [mode: {"off", "learning", "enforcing"}, ends: 0 .. MaxTime + LearningTime,
          allow: SUBSET Destinations, set: BOOLEAN]
ASSUME NothingIsNoEntry == None \notin Entry
Contents == [protect: [Devices -> Entry \cup {None}], switch: {None, TRUE, FALSE}]

Empty == [protect |-> [d \in Devices |-> None], switch |-> None]

\* What becomes of the contents in a file: Sets are written as arrays.
Frozen(o) == [o EXCEPT !.protect = [d \in Devices |->
    IF o.protect[d] = None THEN None ELSE [o.protect[d] EXCEPT !.set = FALSE]]]

ModuleTypeOK ==
    /\ clock \in Moments
    /\ held \in Contents /\ served \in Contents
    /\ stateFile \in Contents /\ snapshot \in Contents /\ putBack \in Contents

ModuleInit ==
    /\ clock = 0
    /\ held = Empty
    /\ served = Empty
    /\ attached = TRUE
    /\ stateFile = Empty
    /\ snapshot = Empty
    /\ replaced = FALSE
    /\ putBack = Empty

\* The modules write o; the server sees it while it has the same object.
Write(o) == held' = o /\ served' = IF attached THEN o ELSE served
SaveModules_Before == stateFile' = Frozen(served)
SaveModules == stateFile' = Frozen(served')

there == <<clock, attached, snapshot, replaced, putBack>>

Protected(d) == held.protect[d] # None

\* maybeFinishLearning
Finished(e) == IF e.mode = "learning" /\ clock >= e.ends THEN [e EXCEPT !.mode = "enforcing"] ELSE e

Put(d, e) == Write([held EXCEPT !.protect[d] = Finished(e)])

-----------------------------------------------------------------------------
\* active-protect/enable: the entry is new, whatever there was.  The handler
\* reads no days, and 0 days, as the default.
Enable ==
    /\ \E d \in Devices, n \in 1 .. LearningTime :
          Put(d, [mode |-> "learning", ends |-> clock + n, allow |-> {}, set |-> TRUE])
    /\ SaveModules
    /\ UNCHANGED there

Disable ==
    /\ \E d \in Devices : Protected(d) /\ Put(d, [held.protect[d] EXCEPT !.mode = "off"])
    /\ SaveModules
    /\ UNCHANGED there

FinishLearning ==
    /\ \E d \in Devices :
          /\ Protected(d)
          /\ held.protect[d].mode = "learning"
          /\ Put(d, [held.protect[d] EXCEPT !.mode = "enforcing", !.ends = clock])
    /\ SaveModules
    /\ UNCHANGED there

\* A look at the entry may end the learning, and does not save.
GetStatus ==
    /\ \E d \in Devices : Protected(d) /\ Put(d, held.protect[d])
    /\ UNCHANGED <<there, stateFile>>

\* allowlist: throws when the list is an array, before anything is changed.
Listed(e, x, op) == [e EXCEPT !.allow = IF op = "add" THEN @ \cup {x} ELSE @ \ {x}]
Allowlist ==
    /\ \E d \in Devices, x \in Destinations, op \in {"add", "remove"} :
          /\ Protected(d)
          /\ held.protect[d].set
          /\ Put(d, Listed(held.protect[d], x, op))
    /\ SaveModules
    /\ UNCHANGED there

\* quarantine/enable and quarantine/disable.
SwitchQuarantine ==
    /\ \E b \in BOOLEAN : Write([held EXCEPT !.switch = b])
    /\ SaveModules
    /\ UNCHANGED there

-----------------------------------------------------------------------------
TakeSnapshot ==
    /\ snapshot' = Frozen(served)
    /\ UNCHANGED <<clock, held, served, attached, stateFile, replaced, putBack>>

\* snapshots/restore, /admin/api/restore and reset-state.
Replace ==
    /\ \E o \in {snapshot, Empty} : served' = o /\ putBack' = o
    /\ attached' = FALSE
    /\ replaced' = TRUE
    /\ SaveModules
    /\ UNCHANGED <<clock, held, snapshot>>

AnySave ==
    /\ served' = served
    /\ SaveModules
    /\ UNCHANGED <<held, there>>

\* loadState, then init of each module.
StartCloud ==
    /\ held' = stateFile
    /\ served' = stateFile
    /\ attached' = TRUE
    /\ replaced' = FALSE
    /\ putBack' = Empty
    /\ UNCHANGED <<clock, stateFile, snapshot>>

TimePasses ==
    /\ clock < MaxTime
    /\ clock' = clock + 1
    /\ UNCHANGED <<held, served, attached, stateFile, snapshot, replaced, putBack>>

ModuleNext ==
    \/ Enable \/ Disable \/ FinishLearning \/ GetStatus \/ Allowlist \/ SwitchQuarantine
    \/ TakeSnapshot \/ Replace \/ AnySave \/ StartCloud \/ TimePasses

-----------------------------------------------------------------------------
\* Two entries that differ in what comes back by itself: the kind of list, and
\* a learning that ends when it is looked at.
Alike(e, f) ==
    IF e = None \/ f = None THEN e = f
    ELSE Finished([e EXCEPT !.set = TRUE]) = Finished([f EXCEPT !.set = TRUE])

\* Until the state is replaced, a restart of the cloud at any moment brings back what the customer
\* set last: no device loses its protection, an entry taken from a list does not return.  From a
\* restore or a reset on, until the cloud starts again, it brings back what was put in the place of
\* the state, and nothing that the customer sets meanwhile, although his calls are answered as
\* ever.
ModulesSurvive ==
    /\ ~replaced => /\ \A d \in Devices : Alike(stateFile.protect[d], held.protect[d])
                    /\ stateFile.switch = held.switch
    /\ replaced => stateFile = putBack

-----------------------------------------------------------------------------
\* The object of the modules is the one of the server until the state is replaced; this makes
\* ModulesSurvive inductive; from then on the server's is the one put back, which is as in a file.
SameObject ==
    /\ ~replaced => attached /\ served = held
    /\ replaced => ~attached /\ served = putBack
    /\ Frozen(snapshot) = snapshot /\ Frozen(putBack) = putBack

ModuleInv == ModuleTypeOK /\ SameObject /\ ModulesSurvive
=============================================================================
