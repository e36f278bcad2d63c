------------------------------- MODULE BoxProofs -------------------------------
(***************************************************************************)
(* Proofs about the box and the cloud that guards its home: BoxPairing,    *)
(* and the modules that MCBoxServices composes.                            *)
(***************************************************************************)
EXTENDS BoxPairing, MCBoxServices, SequenceTheorems, FiniteSetTheorems, TLAPS

Ground == INSTANCE WellFoundedInduction

-----------------------------------------------------------------------------
(* Numbers and lists                                                       *)

\* A set of numbers that is not empty has a first.
LEMMA FirstExists ==
    ASSUME NEW T \in SUBSET Nat, T # {}
    PROVE  \E i \in T : \A j \in T : i <= j
<1> DEFINE less == {ss \in Nat \X Nat : ss[1] < ss[2]}
<1>1. PICK x \in T : \A y \in T : ~(<<y, x>> \in less)
  BY Ground!NatLessThanWellFounded, Ground!WFMin DEF Ground!OpToRel
<1>2. \A y \in T : ~(y < x)
  BY <1>1
<1> QED  BY <1>2
(* SiemForwarder                                                             *)

\* What is left of a list when its first k are taken off.
LEMMA EndOfList ==
    ASSUME NEW X, NEW s \in Seq(X), NEW k \in 0 .. Len(s)
    PROVE  /\ SubSeq(s, k + 1, Len(s)) \in Seq(X)
           /\ Len(SubSeq(s, k + 1, Len(s))) = Len(s) - k
           /\ \A i \in 1 .. Len(s) - k : SubSeq(s, k + 1, Len(s))[i] = s[k + i]
<1>1. Len(s) \in Nat /\ \A i \in k + 1 .. Len(s) : s[i] \in X
  OBVIOUS
<1> QED  BY <1>1

LEMMA EndOfListTo ==
    ASSUME NEW X, NEW s \in Seq(X), NEW m \in Nat, Len(s) = m, NEW k \in 0 .. m
    PROVE  /\ SubSeq(s, k + 1, m) \in Seq(X)
           /\ Len(SubSeq(s, k + 1, m)) = m - k
           /\ \A i \in 1 .. m - k : SubSeq(s, k + 1, m)[i] = s[k + i]
  BY EndOfList

-----------------------------------------------------------------------------
(* A box belongs to a customer that exists.                                *)

\* Every step keeps the owners among the customers and the ghosts.
LEMMA OwnerInv == IndInv /\ [Next]_vars => IndInv'
<1>. SUFFICES ASSUME TypeOK, OwnerExists, [Next]_vars PROVE IndInv'
  BY DEF IndInv
<1>. USE BoxPairingAssumption DEF cloudVars, boxVars, Owners, history
<1>1. ASSUME NEW m \in Macs, BoxStep(m) PROVE IndInv'
  <2>1. CASE Register(m)
    <3>1. TypeOK'
      BY <2>1 DEF Register, TypeOK
    <3>2. (OwnerExists)'
      BY <2>1 DEF Register, TypeOK, OwnerExists, Claimed
    <3>. QED  BY <3>1, <3>2 DEF IndInv
  <2>2. CASE CodeExpires(m)
    <3>1. TypeOK'
      BY <2>2 DEF CodeExpires, TypeOK
    <3>. QED  BY <2>2, <3>1 DEF CodeExpires, OwnerExists, Claimed, IndInv
  <2>3. CASE Revoke(m)
    <3>1. TypeOK'
      BY <2>3 DEF Revoke, Op, TypeOK
    <3>2. (OwnerExists)'
      BY <2>3 DEF Revoke, TypeOK, OwnerExists, Claimed
    <3>. QED  BY <3>1, <3>2 DEF IndInv
  <2>4. CASE EnsureAuth(m) \/ TokenAges(m) \/ SessionExpires(m) \/ Heartbeat(m) \/ Reflash(m)
    <3>1. TypeOK'
      BY <2>4 DEF EnsureAuth, TokenAges, SessionExpires, Heartbeat, Reflash, TypeOK
    <3>2. UNCHANGED <<owner, customers, ghosts>>
      BY <2>4 DEF EnsureAuth, TokenAges, SessionExpires, Heartbeat, Reflash
    <3>. QED  BY <3>1, <3>2 DEF OwnerExists, Claimed, IndInv
  <2>5. CASE TurnedAway(m) \/ AuthRefused(m)
    BY <2>5 DEF TurnedAway, AuthRefused, vars, TypeOK, OwnerExists, Claimed, IndInv
  <2>. QED  BY <1>1, <2>1, <2>2, <2>3, <2>4, <2>5 DEF BoxStep
<1>2. ASSUME NEW c \in Customers, NEW m \in Macs, ClaimStep(c, m) PROVE IndInv'
  <2>1. CASE ClaimCode(c, m)
    <3>1. TypeOK'
      BY <2>1 DEF ClaimCode, Op, TypeOK
    <3>2. (OwnerExists)'
      BY <2>1 DEF ClaimCode, TypeOK, OwnerExists, Claimed
    <3>. QED  BY <3>1, <3>2 DEF IndInv
  <2>2. CASE AutoClaim(c, m)
    <3>1. TypeOK'
      BY <2>2 DEF AutoClaim, Cleared, Op, TypeOK
    <3>2. (OwnerExists)'
      BY <2>2 DEF AutoClaim, TypeOK, OwnerExists, Claimed
    <3>. QED  BY <3>1, <3>2 DEF IndInv
  <2>3. CASE PrepairClaim(c, m)
    <3>1. TypeOK'
      BY <2>3 DEF PrepairClaim, TypeOK
    <3>2. (OwnerExists)'
      BY <2>3 DEF PrepairClaim, TokenHonoured, TypeOK, OwnerExists, Claimed
    <3>. QED  BY <3>1, <3>2 DEF IndInv
  <2>4. CASE Assign(c, m)
    <3>1. TypeOK'
      BY <2>4 DEF Assign, Op, TypeOK
    <3>2. (OwnerExists)'
      BY <2>4 DEF Assign, TypeOK, OwnerExists, Claimed
    <3>. QED  BY <3>1, <3>2 DEF IndInv
  <2>. QED  BY <1>2, <2>1, <2>2, <2>3, <2>4 DEF ClaimStep
<1>3. ASSUME NEW c \in Customers \cup {NoOne}, NEW m \in Macs, Authorize(c, m) PROVE IndInv'
  <2>1. /\ owner' = [owner EXCEPT ![m] = c] /\ customers' = customers
        /\ ghosts' = ghosts \cup ({c} \ (customers \cup {NoOne}))
    BY <1>3 DEF Authorize
  <2>2. TypeOK'
    BY <1>3 DEF Authorize, Op, TypeOK
  <2>3. (OwnerExists)'
    BY <2>1 DEF TypeOK, OwnerExists, Claimed
  <2>. QED  BY <2>2, <2>3 DEF IndInv
<1>4. ASSUME NEW c \in Customers, Prepair(c) \/ PrepairExpires(c) PROVE IndInv'
  <2>1. TypeOK'
    BY <1>4 DEF Prepair, PrepairExpires, Op, TypeOK
  <2>. QED  BY <1>4, <2>1 DEF Prepair, PrepairExpires, OwnerExists, Claimed, IndInv
<1>5. ASSUME NEW c \in Customers, DeleteCustomer(c) PROVE IndInv'
  <2>1. TypeOK'
    BY <1>5 DEF DeleteCustomer, Orphaned, Op, TypeOK
  <2>2. (OwnerExists)'
    BY <1>5 DEF DeleteCustomer, Orphaned, OwnerExists, Claimed
  <2>. QED  BY <2>1, <2>2 DEF IndInv
<1>6. CASE Unseed
  <2>1. TypeOK'
    BY <1>6 DEF Unseed, Op, TypeOK
  <2>2. (OwnerExists)'
    BY <1>6 DEF Unseed, OwnerExists, Claimed
  <2>. QED  BY <2>1, <2>2 DEF IndInv
<1>7. CASE UNCHANGED vars
  BY <1>7 DEF vars, TypeOK, OwnerExists, Claimed, IndInv
<1>. QED  BY <1>1, <1>2, <1>3, <1>4, <1>5, <1>6, <1>7 DEF Next

\* The owner of every box is a customer that exists, or an id an administrator
\* typed or unseeded, whatever customers, administrators and boxes do (claims,
\* QR tokens, deletion, revocation).
THEOREM OwnerCorrect == Spec => []OwnerExists
<1>1. Init => IndInv
  BY BoxPairingAssumption DEF Init, IndInv, TypeOK, Owners, OwnerExists, Claimed
<1>2. IndInv /\ [Next]_vars => IndInv'
  BY OwnerInv
<1>3. IndInv => OwnerExists
  BY DEF IndInv
<1>. QED  BY <1>1, <1>2, <1>3, PTL DEF Spec

-----------------------------------------------------------------------------
(* A code that can be claimed belongs to a box without an owner.           *)

\* Every step keeps the claimable boxes unowned.
LEMMA ClaimableInv == TypeOK /\ ClaimableUnowned /\ [Next]_vars => ClaimableUnowned'
<1>. SUFFICES ASSUME TypeOK, ClaimableUnowned, [Next]_vars PROVE ClaimableUnowned'
  OBVIOUS
<1>. USE BoxPairingAssumption
     DEF cloudVars, boxVars, history, ClaimableUnowned, Claimable, Claimed
<1>1. ASSUME NEW m \in Macs, BoxStep(m) PROVE ClaimableUnowned'
  <2>1. CASE Register(m)
    BY <2>1 DEF Register, TypeOK
  <2>2. CASE CodeExpires(m)
    BY <2>2 DEF CodeExpires, TypeOK
  <2>3. CASE Revoke(m)
    BY <2>3 DEF Revoke, TypeOK
  <2>4. CASE EnsureAuth(m) \/ TokenAges(m) \/ SessionExpires(m) \/ Heartbeat(m) \/ Reflash(m)
    BY <2>4 DEF EnsureAuth, TokenAges, SessionExpires, Heartbeat, Reflash
  <2>5. CASE TurnedAway(m) \/ AuthRefused(m)
    BY <2>5 DEF TurnedAway, AuthRefused, vars
  <2>. QED  BY <1>1, <2>1, <2>2, <2>3, <2>4, <2>5 DEF BoxStep
<1>2. ASSUME NEW c \in Customers, NEW m \in Macs, ClaimStep(c, m) PROVE ClaimableUnowned'
  <2>1. CASE ClaimCode(c, m)
    BY <2>1 DEF ClaimCode, TypeOK
  <2>2. CASE AutoClaim(c, m)
    BY <2>2 DEF AutoClaim, Cleared, TypeOK
  <2>3. CASE PrepairClaim(c, m)
    BY <2>3 DEF PrepairClaim, TypeOK
  <2>4. CASE Assign(c, m)
    BY <2>4 DEF Assign, TypeOK
  <2>. QED  BY <1>2, <2>1, <2>2, <2>3, <2>4 DEF ClaimStep
<1>3. ASSUME NEW c \in Customers \cup {NoOne}, NEW m \in Macs, Authorize(c, m)
      PROVE  ClaimableUnowned'
  BY <1>3 DEF Authorize, TypeOK
<1>4. ASSUME NEW c \in Customers, Prepair(c) \/ PrepairExpires(c) PROVE ClaimableUnowned'
  BY <1>4 DEF Prepair, PrepairExpires
<1>5. ASSUME NEW c \in Customers, DeleteCustomer(c) PROVE ClaimableUnowned'
  BY <1>5 DEF DeleteCustomer, Orphaned
<1>6. CASE Unseed
  BY <1>6 DEF Unseed
<1>7. CASE UNCHANGED vars
  BY <1>7 DEF vars
<1>. QED  BY <1>1, <1>2, <1>3, <1>4, <1>5, <1>6, <1>7 DEF Next

\* A box that was claimed at the box cannot be claimed again by the code it
\* still shows.
THEOREM ClaimableCorrect == Spec => []ClaimableUnowned
<1>1. Init => IndInv /\ ClaimableUnowned
  BY BoxPairingAssumption
  DEF Init, IndInv, TypeOK, Owners, OwnerExists, Claimed, ClaimableUnowned, Claimable
<1>2. IndInv /\ [Next]_vars => IndInv'
  BY OwnerInv
<1>3. IndInv /\ ClaimableUnowned /\ [Next]_vars => ClaimableUnowned'
  BY ClaimableInv DEF IndInv
<1>. QED  BY <1>1, <1>2, <1>3, PTL DEF Spec

-----------------------------------------------------------------------------
(* CloudModules                                                              *)

\* What is written to a file has the type, and only its Sets are lost.
LEMMA FrozenType ==
    ASSUME NEW o \in Contents
    PROVE  /\ Frozen(o) \in Contents
           /\ Frozen(o).switch = o.switch
           /\ \A d \in Devices : Frozen(o).protect[d] =
                 IF o.protect[d] = None THEN None ELSE [o.protect[d] EXCEPT !.set = FALSE]
<1>1. o.protect \in [Devices -> Entry \cup {None}] /\ o.switch \in {None, TRUE, FALSE}
  BY DEF Contents
<1>2. ASSUME NEW d \in Devices, o.protect[d] # None
      PROVE [o.protect[d] EXCEPT !.set = FALSE] \in Entry
  BY <1>1, <1>2 DEF Entry
<1> DEFINE g == [d \in Devices |->
              IF o.protect[d] = None THEN None ELSE [o.protect[d] EXCEPT !.set = FALSE]]
<1>3. g \in [Devices -> Entry \cup {None}]
  BY <1>2
<1>4. Frozen(o) = [o EXCEPT !.protect = g]
  BY DEF Frozen
<1>5. \A d \in Devices : g[d] =
         IF o.protect[d] = None THEN None ELSE [o.protect[d] EXCEPT !.set = FALSE]
  OBVIOUS
<1> HIDE DEF g
<1>6. Frozen(o) \in Contents /\ Frozen(o).switch = o.switch /\ Frozen(o).protect = g
  BY <1>1, <1>3, <1>4 DEF Contents
<1> QED  BY <1>5, <1>6

\* A file that is read and written again has the same in it, and so has one without anything.
LEMMA FrozenTwice == ASSUME NEW o \in Contents PROVE Frozen(Frozen(o)) = Frozen(o)
<1> DEFINE p == Frozen(o)
           q == Frozen(Frozen(o))
<1>1. /\ p \in Contents /\ p.switch = o.switch
      /\ \A d \in Devices : p.protect[d] =
            IF o.protect[d] = None THEN None ELSE [o.protect[d] EXCEPT !.set = FALSE]
  BY FrozenType
<1> HIDE DEF p
<1>2. /\ Frozen(p) \in Contents /\ Frozen(p).switch = p.switch
      /\ \A d \in Devices : Frozen(p).protect[d] =
            IF p.protect[d] = None THEN None ELSE [p.protect[d] EXCEPT !.set = FALSE]
  BY <1>1, FrozenType
<1>3. ASSUME NEW d \in Devices PROVE Frozen(p).protect[d] = p.protect[d]
  <2>1. CASE o.protect[d] = None
    BY <2>1, <1>1, <1>2
  <2>2. CASE o.protect[d] # None
    <3>1. o.protect[d] \in Entry
      BY <2>2 DEF Contents
    <3>2. p.protect[d] = [o.protect[d] EXCEPT !.set = FALSE]
      BY <2>2, <1>1
    <3>3. p.protect[d] \in Entry /\ [p.protect[d] EXCEPT !.set = FALSE] = p.protect[d]
      BY <3>1, <3>2 DEF Entry
    <3> QED  BY <3>3, <1>2, NothingIsNoEntry
  <2> QED  BY <2>1, <2>2
<1>4. Frozen(p).protect = p.protect
  BY <1>1, <1>2, <1>3 DEF Contents
<1>5. Frozen(p) = p
  BY <1>1, <1>2, <1>4 DEF Contents
<1> QED  BY <1>5 DEF p

LEMMA FrozenEmpty == Empty \in Contents /\ Frozen(Empty) = Empty
<1>1. Empty \in Contents /\ \A d \in Devices : Empty.protect[d] = None
  BY DEF Empty, Contents
<1>2. /\ Frozen(Empty) \in Contents /\ Frozen(Empty).switch = Empty.switch
      /\ \A d \in Devices : Frozen(Empty).protect[d] = None
  BY <1>1, FrozenType
<1>3. Frozen(Empty).protect = Empty.protect
  BY <1>1, <1>2 DEF Contents
<1>4. \A x, y \in Contents : x.protect = y.protect /\ x.switch = y.switch => x = y
  BY DEF Contents
<1> QED  BY <1>1, <1>2, <1>3, <1>4

\* What a file gives back is like what was written.
LEMMA FrozenAlike ==
    ASSUME NEW e \in Entry \cup {None}
    PROVE  /\ Alike(e, e)
           /\ Alike(IF e = None THEN None ELSE [e EXCEPT !.set = FALSE], e)
<1>1. CASE e = None
  BY <1>1 DEF Alike
<1>2. CASE e # None
  <2>1. [[e EXCEPT !.set = FALSE] EXCEPT !.set = TRUE] = [e EXCEPT !.set = TRUE]
    BY <1>2 DEF Entry
  <2>2. [e EXCEPT !.set = FALSE] \in Entry
    BY <1>2 DEF Entry
  <2> QED  BY <1>2, <2>1, <2>2, NothingIsNoEntry DEF Alike
<1> QED  BY <1>1, <1>2

\* An entry stays one when its learning ends.
LEMMA FinishedType == ASSUME ModuleTypeOK, NEW e \in Entry PROVE Finished(e) \in Entry
  BY DEF Entry, Finished, ModuleTypeOK

\* What the modules wrote o to and what was saved then is alike.
LEMMA SavedAlike ==
    ASSUME ModuleInv, NEW o \in Contents, held' = o,
           served' = IF attached THEN o ELSE served,
           stateFile' = Frozen(served'), UNCHANGED there
    PROVE  ModuleInv'
<1>3. /\ clock' = clock /\ attached' = attached /\ snapshot' = snapshot /\ replaced' = replaced
      /\ putBack' = putBack
  BY DEF there
<1>4. ModuleTypeOK'
  BY <1>3, FrozenType DEF ModuleInv, ModuleTypeOK
<1>5. SameObject'
  BY <1>3 DEF ModuleInv, SameObject
<1>6. ModulesSurvive'
  <2>0. replaced => stateFile' = putBack'
    BY <1>3 DEF ModuleInv, SameObject
  <2> SUFFICES ASSUME ~replaced
               PROVE  /\ \A x \in Devices : Alike(stateFile.protect[x], held.protect[x])'
                      /\ (stateFile.switch = held.switch)'
    BY <1>3, <2>0 DEF ModulesSurvive
  <2>1. stateFile' = Frozen(o)
    BY DEF ModuleInv, SameObject
  <2>2. ASSUME NEW x \in Devices PROVE Alike(stateFile.protect[x], held.protect[x])'
    <3>1. o.protect[x] \in Entry \cup {None}
      BY DEF Contents
    <3>2. Alike(Frozen(o).protect[x], o.protect[x])
      BY <3>1, FrozenType, FrozenAlike
    <3> QED  BY <2>1, <3>2, <1>3 DEF Alike, Finished
  <2> QED  BY <2>1, <2>2, FrozenType
<1> QED  BY <1>4, <1>5, <1>6 DEF ModuleInv

\* A new entry is finished before it is put, and saved.
LEMMA PutSaved ==
    ASSUME ModuleInv, NEW d \in Devices, NEW e \in Entry, Put(d, e), SaveModules,
           UNCHANGED there
    PROVE  ModuleInv'
<1> DEFINE o == [held EXCEPT !.protect[d] = Finished(e)]
<1>1. o \in Contents
  <2>1. Finished(e) \in Entry
    BY FinishedType DEF ModuleInv
  <2> QED  BY <2>1 DEF ModuleInv, ModuleTypeOK, Contents
<1>2. held' = o /\ served' = (IF attached THEN o ELSE served) /\ stateFile' = Frozen(served')
  BY DEF Put, Write, SaveModules
<1> HIDE DEF o
<1> QED  BY <1>1, <1>2, SavedAlike

\* What is alike now is alike when more time has passed.
Later(e) ==
    IF e.mode = "learning" /\ clock + 1 >= e.ends THEN [e EXCEPT !.mode = "enforcing"] ELSE e

\* An entry and what the file has of it stay alike when the learning ends.
LEMMA AlsoLater ==
    ASSUME clock \in Int, NEW a \in Entry, NEW b \in Entry, Finished(a) = Finished(b)
    PROVE  Later(a) = Later(b)
<1>1. ASSUME NEW e \in Entry PROVE Later(e) = Later(Finished(e))
  <2>1. e.ends \in Int
    BY ModuleAssumption DEF Entry
  <2>2. CASE e.mode = "learning" /\ clock >= e.ends
    <3>1. Finished(e) = [e EXCEPT !.mode = "enforcing"] /\ Finished(e).mode = "enforcing"
      BY <2>2 DEF Finished, Entry
    <3> QED  BY <3>1, <2>1, <2>2 DEF Later
  <2>3. CASE ~(e.mode = "learning" /\ clock >= e.ends)
    BY <2>3 DEF Finished
  <2> QED  BY <2>2, <2>3
<1> QED  BY <1>1

\* At the start the protection modules have nothing listed.
LEMMA ModuleInitial == ModuleInit => ModuleInv
<1> SUFFICES ASSUME ModuleInit PROVE ModuleInv
  OBVIOUS
<1>1. Empty \in Contents
  BY DEF Empty, Contents
<1>2. /\ clock = 0 /\ held = Empty /\ served = Empty /\ attached = TRUE /\ stateFile = Empty
      /\ snapshot = Empty /\ replaced = FALSE /\ putBack = Empty
  BY DEF ModuleInit
<1>3. ModuleTypeOK
  BY <1>1, <1>2, ModuleAssumption DEF ModuleTypeOK, Moments
<1>4. \A d \in Devices : Alike(Empty.protect[d], Empty.protect[d])
  BY DEF Alike
<1> QED  BY <1>2, <1>3, <1>4, FrozenEmpty DEF ModuleInv, SameObject, ModulesSurvive

\* Every step of the protection modules.
LEMMA ModuleStep == ModuleInv /\ [ModuleNext]_moduleVars => ModuleInv'
<1> SUFFICES ASSUME ModuleInv, [ModuleNext]_moduleVars PROVE ModuleInv'
  OBVIOUS
<1> USE DEF there
<1>0. /\ held.protect \in [Devices -> Entry \cup {None}]
      /\ served \in Contents /\ held \in Contents /\ clock \in Moments
  BY DEF ModuleInv, ModuleTypeOK, Contents
<1>1. CASE Enable
  <2>1. PICK d \in Devices, n \in 1 .. LearningTime :
            Put(d, [mode |-> "learning", ends |-> clock + n, allow |-> {}, set |-> TRUE])
    BY <1>1 DEF Enable
  <2>2. [mode |-> "learning", ends |-> clock + n, allow |-> {}, set |-> TRUE] \in Entry
    BY <1>0, ModuleAssumption DEF Entry, Moments
  <2> QED  BY <1>1, <2>1, <2>2, PutSaved DEF Enable
<1>2. CASE Disable
  <2>1. PICK d \in Devices : Protected(d) /\ Put(d, [held.protect[d] EXCEPT !.mode = "off"])
    BY <1>2 DEF Disable
  <2>2. [held.protect[d] EXCEPT !.mode = "off"] \in Entry
    BY <1>0, <2>1 DEF Protected, Entry
  <2> QED  BY <1>2, <2>1, <2>2, PutSaved DEF Disable
<1>3. CASE FinishLearning
  <2>1. PICK d \in Devices :
            Protected(d) /\ Put(d, [held.protect[d] EXCEPT !.mode = "enforcing", !.ends = clock])
    BY <1>3 DEF FinishLearning
  <2>2. [held.protect[d] EXCEPT !.mode = "enforcing", !.ends = clock] \in Entry
    <3> DEFINE e == held.protect[d]
    <3>1. e \in Entry /\ clock \in 0 .. MaxTime + LearningTime
      BY <1>0, <2>1, ModuleAssumption DEF Protected, Moments
    <3> HIDE DEF e
    <3>2. [e EXCEPT !.mode = "enforcing", !.ends = clock] \in Entry
      BY <3>1 DEF Entry
    <3> QED  BY <3>2 DEF e
  <2> QED  BY <1>3, <2>1, <2>2, PutSaved DEF FinishLearning
<1>4. CASE Allowlist
  <2>1. PICK d \in Devices, x \in Destinations, op \in {"add", "remove"} :
            Protected(d) /\ Put(d, Listed(held.protect[d], x, op))
    BY <1>4 DEF Allowlist
  <2>2. Listed(held.protect[d], x, op) \in Entry
    <3> DEFINE e == held.protect[d]
    <3>1. e \in Entry
      BY <1>0, <2>1 DEF Protected
    <3> HIDE DEF e
    <3> DEFINE a == IF op = "add" THEN e.allow \cup {x} ELSE e.allow \ {x}
    <3>2. a \in SUBSET Destinations
      BY <3>1 DEF Entry
    <3>3. Listed(e, x, op) = [e EXCEPT !.allow = a]
      BY DEF Listed
    <3> HIDE DEF a
    <3>4. Listed(e, x, op) \in Entry
      BY <3>1, <3>2, <3>3 DEF Entry
    <3> QED  BY <3>4 DEF e
  <2> QED  BY <1>4, <2>1, <2>2, PutSaved DEF Allowlist
<1>5. CASE GetStatus
  <2>1. PICK d \in Devices : Protected(d) /\ Put(d, held.protect[d])
    BY <1>5 DEF GetStatus
  <2> DEFINE e == held.protect[d]
             o == [held EXCEPT !.protect[d] = Finished(e)]
  <2>2. e \in Entry /\ e # None /\ Finished(e) \in Entry
    BY <1>0, <2>1, FinishedType DEF Protected, ModuleInv
  <2>3. o \in Contents /\ o.switch = held.switch
        /\ \A x \in Devices : o.protect[x] = IF x = d THEN Finished(e) ELSE held.protect[x]
    BY <1>0, <2>2 DEF Contents
  <2>4. held' = o /\ served' = (IF attached THEN o ELSE served)
        /\ stateFile' = stateFile /\ UNCHANGED there
    BY <1>5, <2>1 DEF Put, Write, GetStatus
  <2> HIDE DEF o
  <2>5. ModuleTypeOK'
    BY <2>3, <2>4, <1>0 DEF ModuleInv, ModuleTypeOK
  <2>6. SameObject'
    BY <2>4 DEF ModuleInv, SameObject
  <2>7. ModulesSurvive'
    <3> SUFFICES ASSUME ~replaced, NEW x \in Devices
                 PROVE Alike(stateFile.protect[x], held.protect[x])'
      BY <2>3, <2>4 DEF ModulesSurvive, ModuleInv, there
    <3>1. Alike(stateFile.protect[x], held.protect[x])
      BY DEF ModuleInv, ModulesSurvive
    <3>2. CASE x # d
      BY <3>1, <3>2, <2>3, <2>4 DEF Alike, Finished
    <3>3. CASE x = d
      <4>1. Finished(e) # None
        BY <2>2, NothingIsNoEntry
      <4>2. Finished([Finished(e) EXCEPT !.set = TRUE]) = Finished([e EXCEPT !.set = TRUE])
        BY <2>2 DEF Finished, Entry
      <4>3. Alike(stateFile.protect[d], Finished(e))
        BY <3>1, <3>3, <2>2, <4>1, <4>2 DEF Alike
      <4> QED  BY <4>3, <3>3, <2>3, <2>4 DEF Alike, Finished
    <3> QED  BY <3>2, <3>3
  <2> QED  BY <2>5, <2>6, <2>7 DEF ModuleInv
<1>6. CASE SwitchQuarantine
  <2>1. PICK b \in BOOLEAN : Write([held EXCEPT !.switch = b])
    BY <1>6 DEF SwitchQuarantine
  <2> DEFINE o == [held EXCEPT !.switch = b]
  <2>2. o \in Contents /\ o.switch = b
    BY <1>0 DEF Contents
  <2>3. /\ held' = o /\ served' = (IF attached THEN o ELSE served)
        /\ stateFile' = Frozen(served') /\ UNCHANGED there
    BY <1>6, <2>1 DEF Write, SaveModules, SwitchQuarantine
  <2> HIDE DEF o
  <2> QED  BY <2>2, <2>3, SavedAlike
<1>7. CASE TakeSnapshot
  <2>1. ModuleTypeOK'
    BY <1>7, <1>0, FrozenType DEF TakeSnapshot, ModuleInv, ModuleTypeOK
  <2>2. Frozen(snapshot') = snapshot'
    BY <1>7, <1>0, FrozenTwice DEF TakeSnapshot
  <2> QED  BY <1>7, <2>1, <2>2 DEF TakeSnapshot, ModuleInv, SameObject, ModulesSurvive, Alike, Finished
<1>8. CASE Replace
  <2>1. Empty \in Contents /\ snapshot \in Contents /\ Frozen(snapshot) = snapshot
    BY FrozenEmpty DEF ModuleInv, ModuleTypeOK, SameObject
  <2>2. served' \in Contents /\ putBack' = served' /\ Frozen(served') = served'
    BY <1>8, <2>1, FrozenEmpty DEF Replace
  <2>3. ModuleTypeOK'
    BY <1>8, <2>2, FrozenType DEF Replace, SaveModules, ModuleInv, ModuleTypeOK
  <2>4. stateFile' = putBack'
    BY <1>8, <2>2 DEF Replace, SaveModules
  <2>5. SameObject'
    BY <1>8, <2>1, <2>2 DEF Replace, SameObject
  <2>6. ModulesSurvive'
    BY <1>8, <2>4 DEF Replace, ModulesSurvive
  <2> QED  BY <2>3, <2>5, <2>6 DEF ModuleInv
<1>9. CASE AnySave
  <2>1. ModuleTypeOK'
    BY <1>9, <1>0, FrozenType DEF AnySave, SaveModules, ModuleInv, ModuleTypeOK
  <2>2. CASE replaced
    BY <1>9, <2>1, <2>2 DEF AnySave, SaveModules, ModuleInv, SameObject, ModulesSurvive
  <2>3. CASE ~replaced
    <3>1. attached /\ served = held
      BY <2>3 DEF ModuleInv, SameObject
    <3> QED  BY <1>9, <1>0, <3>1, SavedAlike DEF AnySave, SaveModules
  <2> QED  BY <2>2, <2>3
<1>10. CASE StartCloud
  <2>1. ModuleTypeOK'
    BY <1>10, FrozenEmpty DEF StartCloud, ModuleInv, ModuleTypeOK
  <2>2. SameObject'
    BY <1>10, FrozenEmpty DEF StartCloud, SameObject, ModuleInv
  <2>3. ModulesSurvive'
    <3>1. \A d \in Devices : stateFile.protect[d] \in Entry \cup {None}
      BY DEF ModuleInv, ModuleTypeOK, Contents
    <3>2. \A d \in Devices : Alike(stateFile.protect[d], stateFile.protect[d])
      BY <3>1, FrozenAlike
    <3> QED  BY <1>10, <3>2 DEF StartCloud, ModulesSurvive, Alike, Finished
  <2> QED  BY <2>1, <2>2, <2>3 DEF ModuleInv
<1>11. CASE TimePasses
  <2>1. ModuleTypeOK'
    BY <1>11, ModuleAssumption DEF TimePasses, ModuleInv, ModuleTypeOK, Moments
  <2>2. SameObject'
    BY <1>11 DEF TimePasses, SameObject, ModuleInv
  <2>3. ModulesSurvive'
    <3> SUFFICES ASSUME ~replaced, NEW d \in Devices
                 PROVE Alike(stateFile.protect[d], held.protect[d])'
      BY <1>11 DEF TimePasses, ModulesSurvive, ModuleInv
    <3> DEFINE e == stateFile.protect[d]
               f == held.protect[d]
    <3>1. e \in Entry \cup {None} /\ f \in Entry \cup {None} /\ Alike(e, f)
      BY DEF ModuleInv, ModuleTypeOK, ModulesSurvive, Contents
    <3>2. stateFile' = stateFile /\ held' = held /\ clock' = clock + 1 /\ clock \in Int
      BY <1>11, <1>0 DEF TimePasses, Moments
    <3>3. CASE e = None \/ f = None
      BY <3>1, <3>2, <3>3 DEF Alike
    <3>4. CASE e # None /\ f # None
      <4> DEFINE a == [e EXCEPT !.set = TRUE]
                 b == [f EXCEPT !.set = TRUE]
      <4>1. a \in Entry /\ b \in Entry
        BY <3>1, <3>4 DEF Entry
      <4>2. Finished(a) = Finished(b)
        BY <3>1, <3>4 DEF Alike
      <4> HIDE DEF a, b
      <4>3. Later(a) = Later(b)
        BY <4>1, <4>2, <3>2, <1>0, AlsoLater DEF Moments
      <4> USE DEF a, b
      <4> QED  BY <4>3, <3>2, <3>4 DEF Later, Alike, Finished
    <3> QED  BY <3>3, <3>4
  <2> QED  BY <2>1, <2>2, <2>3 DEF ModuleInv
<1>12. CASE UNCHANGED moduleVars
  BY <1>12 DEF moduleVars, ModuleInv, ModuleTypeOK, SameObject, ModulesSurvive, Alike, Finished
<1> QED
  BY <1>1, <1>2, <1>3, <1>4, <1>5, <1>6, <1>7, <1>8, <1>9, <1>10, <1>11, <1>12 DEF ModuleNext

-----------------------------------------------------------------------------
(* DeviceIsolation                                                           *)

\* At the start the household is known.
LEMMA QuarantineInitial == QuarantineInit => QuarantineTypeOK /\ HouseholdKnown
<1> SUFFICES ASSUME QuarantineInit PROVE QuarantineTypeOK /\ HouseholdKnown
  OBVIOUS
<1>1. orders \in Seq([do : {"add", "approve"}, mac : LanMacs])
  BY DEF QuarantineInit
<1> QED  BY <1>1 DEF QuarantineInit, QuarantineTypeOK, HouseholdKnown

\* Every step of the quarantine: whom the household has is in the list of the known, or the
\* order that puts him there is under way.
LEMMA QuarantineStep ==
    QuarantineTypeOK /\ HouseholdKnown /\ [QuarantineNext]_quarantineVars
        => (QuarantineTypeOK /\ HouseholdKnown)'
<1> SUFFICES ASSUME QuarantineTypeOK, HouseholdKnown, [QuarantineNext]_quarantineVars
             PROVE  (QuarantineTypeOK /\ HouseholdKnown)'
  OBVIOUS
<1> USE DEF QuarantineTypeOK, HouseholdKnown
<1>0. ASSUME orders # <<>>
      PROVE  /\ Head(orders).mac \in LanMacs
             /\ Tail(orders) \in Seq([do : {"add", "approve"}, mac : LanMacs])
  <2>1. Head(orders) \in [do : {"add", "approve"}, mac : LanMacs]
    BY <1>0, HeadTailProperties
  <2> QED  BY <1>0, <2>1, HeadTailProperties
<1>1. CASE SetAuto \/ PolicyArrives \/ Traffic
  BY <1>1 DEF SetAuto, PolicyArrives, Traffic
<1>2. CASE ScanHolds \/ ScanRecords
  BY <1>2 DEF ScanHolds, ScanRecords, Hold, Unknown, RecordKnown
<1>3. CASE Order
  <2>1. PICK m \in LanMacs, o \in {"add", "approve"} :
            orders' = Append(orders, [do |-> o, mac |-> m])
    BY <1>3 DEF Order
  <2>2. [do |-> o, mac |-> m] \in [do : {"add", "approve"}, mac : LanMacs]
    OBVIOUS
  <2> QED  BY <1>3, <2>1, <2>2 DEF Order
<1>4. CASE OrderLost
  BY <1>0, <1>4 DEF OrderLost
<1>5. CASE Add
  BY <1>0, <1>5 DEF Add, Hold
<1>6. CASE Approve
  BY <1>0, <1>6 DEF Approve, RecordKnown
<1>7. CASE Reboot
  BY <1>7 DEF Reboot
<1>8. CASE UNCHANGED quarantineVars
  BY <1>8 DEF quarantineVars
<1> QED
  BY <1>1, <1>2, <1>3, <1>4, <1>5, <1>6, <1>7, <1>8 DEF QuarantineNext

\* Only an order of the customer stops somebody of the household.
LEMMA SparedStep ==
    QuarantineTypeOK /\ HouseholdKnown /\ [QuarantineNext]_quarantineVars
        => [(stopped' \ stopped) \cap household # {} => Add]_quarantineVars
<1> SUFFICES ASSUME HouseholdKnown, QuarantineNext
             PROVE  (stopped' \ stopped) \cap household # {} => Add
  BY DEF quarantineVars
<1>1. CASE ScanHolds
  BY <1>1 DEF ScanHolds, Hold, Unknown, HouseholdKnown
<1>2. CASE SetAuto \/ PolicyArrives \/ Traffic \/ ScanRecords \/ Order \/ OrderLost
  BY <1>2 DEF SetAuto, PolicyArrives, Traffic, ScanRecords, Order, OrderLost
<1>3. CASE Approve \/ Reboot
  BY <1>3 DEF Approve, Reboot
<1> QED  BY <1>1, <1>2, <1>3 DEF QuarantineNext

\* At the start no device is locked.
LEMMA LockInitial == LockInit => LockInv
<1> SUFFICES ASSUME LockInit PROVE LockInv
  OBVIOUS
<1>1. LockTypeOK
  BY DEF LockInit, LockTypeOK
<1>2. ListsCaptured
  BY LockAssumption DEF LockInit, ListsCaptured
<1>3. LockedAsLearned
  BY DEF LockInit, LockedAsLearned
<1> QED  BY <1>1, <1>2, <1>3 DEF LockInv

\* Every step of the lockdown: what a locked device may reach is what was captured of it.
LEMMA LockStep == LockInv /\ [LockNext]_lockVars => LockInv'
<1> SUFFICES ASSUME LockInv, [LockNext]_lockVars PROVE LockInv'
  OBVIOUS
<1>0. LockTypeOK /\ ListsCaptured /\ LockedAsLearned
  BY DEF LockInv
<1>1. CASE StartLearning
  <2>1. PICK t \in Things :
           /\ record' = [record EXCEPT ![t].learning = TRUE]
           /\ captures' = captures \cup {[id |-> begun', thing |-> t, got |-> {}]}
    BY <1>1 DEF StartLearning
  <2>2. begun' \in 1 .. MaxCaptures
    BY <1>0, <1>1, LockAssumption DEF StartLearning, ListsCaptured
  <2>3. [id |-> begun', thing |-> t, got |-> {}] \in
           [id : 1 .. MaxCaptures, thing : Things, got : SUBSET Endpoints]
    BY <2>2
  <2>4. record' \in [Things -> [learning : BOOLEAN, enforced : BOOLEAN, allow : SUBSET Endpoints]]
    BY <2>1, <1>0 DEF LockTypeOK
  <2>5. \A u \in Things :
           record'[u].allow = record[u].allow /\ record'[u].enforced = record[u].enforced
    BY <2>1, <1>0 DEF LockTypeOK
  <2>6. LockTypeOK'
    BY <1>0, <1>1, <2>1, <2>3, <2>4 DEF StartLearning, LockTypeOK
  <2>7. ListsCaptured'
    BY <1>0, <1>1, <2>2, <2>5 DEF StartLearning, ListsCaptured
  <2>8. LockedAsLearned'
    BY <1>0, <1>1, <2>5 DEF StartLearning, LockedAsLearned
  <2> QED  BY <2>6, <2>7, <2>8 DEF LockInv
<1>2. CASE Packet
  <2>1. PICK c \in captures : \E e \in Endpoints \ c.got :
            captures' = (captures \ {c}) \cup {[c EXCEPT !.got = @ \cup {e}]}
    BY <1>2 DEF Packet
  <2>5. PICK e \in Endpoints :
            captures' = (captures \ {c}) \cup {[c EXCEPT !.got = @ \cup {e}]}
    BY <2>1
  <2>2. c \in [id : 1 .. MaxCaptures, thing : Things, got : SUBSET Endpoints]
    BY <1>0 DEF LockTypeOK
  <2>3. [c EXCEPT !.got = @ \cup {e}] \in
           [id : 1 .. MaxCaptures, thing : Things, got : SUBSET Endpoints]
    BY <2>2
  <2>4. LockTypeOK'
    BY <1>0, <1>2, <2>5, <2>3 DEF Packet, LockTypeOK
  <2> QED  BY <1>0, <1>2, <2>4 DEF Packet, ListsCaptured, LockedAsLearned, LockInv
<1>3. CASE CaptureEnds
  <2>1. PICK c \in captures :
           /\ captures' = captures \ {c}
           /\ record' = [record EXCEPT ![c.thing].allow = c.got, ![c.thing].learning = FALSE]
           /\ captured' = [captured EXCEPT ![c.thing] = @ \cup c.got]
    BY <1>3 DEF CaptureEnds
  <2>2. c \in [id : 1 .. MaxCaptures, thing : Things, got : SUBSET Endpoints]
    BY <1>0 DEF LockTypeOK
  <2> DEFINE t == c.thing
             g == c.got
  <2>3. t \in Things /\ g \in SUBSET Endpoints
    BY <2>2
  <2>4. /\ record' = [record EXCEPT ![t].allow = g, ![t].learning = FALSE]
        /\ captured' = [captured EXCEPT ![t] = @ \cup g]
    BY <2>1
  <2> HIDE DEF t, g
  <2>5. record' \in [Things -> [learning : BOOLEAN, enforced : BOOLEAN, allow : SUBSET Endpoints]]
    BY <2>3, <2>4, <1>0 DEF LockTypeOK
  <2>6. \A u \in Things : /\ record'[u].allow = IF u = t THEN g ELSE record[u].allow
                          /\ record'[u].enforced = record[u].enforced
    BY <2>3, <2>4, <1>0 DEF LockTypeOK
  <2>7. captured' \in [Things -> SUBSET Endpoints]
        /\ \A u \in Things : captured[u] \subseteq captured'[u] /\ g \subseteq captured'[t]
    BY <2>3, <2>4, <1>0 DEF ListsCaptured
  <2>8. LockTypeOK'
    BY <1>0, <1>3, <2>1, <2>5 DEF CaptureEnds, LockTypeOK
  <2>9. ListsCaptured'
    <3>1. \A u \in Things : record'[u].allow \subseteq captured'[u]
      BY <1>0, <2>3, <2>6, <2>7 DEF ListsCaptured
    <3>2. UNCHANGED <<kernelRules, begun, locked, booted>>
      BY <1>3 DEF CaptureEnds
    <3> QED  BY <1>0, <2>7, <3>1, <3>2 DEF ListsCaptured
  <2>10. LockedAsLearned'
    BY <1>0, <1>3, <2>6, <2>7 DEF CaptureEnds, LockedAsLearned
  <2> QED  BY <2>8, <2>9, <2>10 DEF LockInv
<1>4. CASE Enforce
  <2>1. PICK t \in Things :
           /\ record[t].allow # {}
           /\ kernelSet' = [kernelSet EXCEPT ![t] = Filled(t)]
           /\ kernelRules' = kernelRules \cup {t}
           /\ record' = [record EXCEPT ![t].enforced = TRUE]
           /\ locked' = [locked EXCEPT ![t] = @ \cup record[t].allow]
           /\ booted' = [booted EXCEPT ![t] = FALSE]
    BY <1>4 DEF Enforce
  <2> DEFINE a == record[t].allow
             lists == locked[t] \cup a
  <2>2. a \in SUBSET Endpoints /\ a \subseteq captured[t] /\ captured[t] \in SUBSET Endpoints
    BY <1>0 DEF LockTypeOK, ListsCaptured
  <2>3. Filled(t) = lists /\ Filled(t) \subseteq captured[t]
    <3>2. CASE t \in kernelRules
      <4>1. kernelSet[t] = locked[t] /\ kernelSet[t] \subseteq captured[t]
        BY <1>0, <3>2 DEF LockedAsLearned
      <4> QED  BY <2>2, <3>2, <4>1 DEF Filled
    <3>3. CASE t \notin kernelRules
      <4>1. locked[t] = {}
        BY <1>0, <3>3 DEF ListsCaptured
      <4> QED  BY <2>2, <3>3, <4>1 DEF Filled
    <3> QED  BY <3>2, <3>3
  <2>4. /\ kernelSet' \in [Things -> (SUBSET Endpoints) \cup {NoSet}]
        /\ locked' \in [Things -> SUBSET Endpoints] /\ booted' \in [Things -> BOOLEAN]
        /\ record' \in [Things -> [learning : BOOLEAN, enforced : BOOLEAN,
                                    allow : SUBSET Endpoints]]
    <3>1. Filled(t) \in SUBSET Endpoints
      BY <2>2, <2>3
    <3>2. kernelSet' \in [Things -> (SUBSET Endpoints) \cup {NoSet}]
      BY <1>0, <2>1, <3>1 DEF LockTypeOK
    <3>3. locked' \in [Things -> SUBSET Endpoints]
      BY <1>0, <2>1, <2>2 DEF ListsCaptured
    <3>4. booted' \in [Things -> BOOLEAN]
      BY <1>0, <2>1 DEF ListsCaptured
    <3>5. record' \in [Things -> [learning : BOOLEAN, enforced : BOOLEAN, allow : SUBSET Endpoints]]
      BY <1>0, <2>1 DEF LockTypeOK
    <3> QED  BY <3>2, <3>3, <3>4, <3>5
  <2>5. \A u \in Things :
           /\ record'[u].allow = record[u].allow
           /\ record'[u].enforced = IF u = t THEN TRUE ELSE record[u].enforced
           /\ kernelSet'[u] = IF u = t THEN Filled(t) ELSE kernelSet[u]
           /\ locked'[u] = IF u = t THEN lists ELSE locked[u]
           /\ booted'[u] = IF u = t THEN FALSE ELSE booted[u]
    BY <1>0, <2>1 DEF LockTypeOK, ListsCaptured
  <2>6. LockTypeOK'
    BY <1>0, <1>4, <2>1, <2>4 DEF Enforce, LockTypeOK
  <2>7. ListsCaptured'
    BY <1>0, <1>4, <2>1, <2>4, <2>5 DEF Enforce, ListsCaptured
  <2>8. LockedAsLearned'
    <3> SUFFICES ASSUME NEW u \in Things
                 PROVE  /\ u \in kernelRules' => /\ kernelSet'[u] = locked'[u]
                                                 /\ kernelSet'[u] \subseteq captured'[u]
                        /\ ~booted'[u] => (record'[u].enforced <=> u \in kernelRules')
      BY DEF LockedAsLearned
    <3>1. captured' = captured /\ kernelRules' = kernelRules \cup {t}
      BY <1>4, <2>1 DEF Enforce
    <3> HIDE DEF a, lists
    <3>2. CASE u = t
      BY <3>1, <3>2, <2>3, <2>5
    <3>3. CASE u # t
      BY <3>1, <3>3, <1>0, <2>5 DEF LockedAsLearned
    <3> QED  BY <3>2, <3>3
  <2> QED  BY <2>6, <2>7, <2>8 DEF LockInv
<1>5. CASE DisableLock
  <2>1. PICK t \in Things :
           /\ kernelRules' = kernelRules \ {t}
           /\ kernelSet' = [kernelSet EXCEPT ![t] = NoSet]
           /\ record' = [record EXCEPT ![t].enforced = FALSE]
           /\ locked' = [locked EXCEPT ![t] = {}]
    BY <1>5 DEF DisableLock
  <2>2. /\ kernelSet' \in [Things -> (SUBSET Endpoints) \cup {NoSet}]
        /\ record' \in [Things -> [learning : BOOLEAN, enforced : BOOLEAN,
                                    allow : SUBSET Endpoints]]
    BY <1>0, <2>1 DEF LockTypeOK
  <2>3. \A u \in Things :
           /\ record'[u].allow = record[u].allow
           /\ record'[u].enforced = IF u = t THEN FALSE ELSE record[u].enforced
           /\ u # t => kernelSet'[u] = kernelSet[u]
           /\ locked'[u] = IF u = t THEN {} ELSE locked[u]
    BY <1>0, <2>1 DEF LockTypeOK, ListsCaptured
  <2>7. locked' \in [Things -> SUBSET Endpoints]
    BY <1>0, <2>1 DEF ListsCaptured
  <2>4. LockTypeOK'
    BY <1>0, <1>5, <2>1, <2>2 DEF DisableLock, LockTypeOK
  <2>5. ListsCaptured'
    <3>1. UNCHANGED <<begun, captured, booted>>
      BY <1>5 DEF DisableLock
    <3>2. \A u \in Things : u \notin kernelRules' => locked'[u] = {}
      BY <1>0, <2>1, <2>3 DEF ListsCaptured
    <3> QED  BY <1>0, <2>3, <2>7, <3>1, <3>2 DEF ListsCaptured
  <2>6. LockedAsLearned'
    <3>1. captured' = captured /\ booted' = booted
      BY <1>5 DEF DisableLock
    <3>2. \A u \in Things : u \in kernelRules' => u # t /\ u \in kernelRules
      BY <2>1
    <3>3. \A u \in Things : u # t => (u \in kernelRules' <=> u \in kernelRules)
      BY <2>1
    <3>4. t \notin kernelRules'
      BY <2>1
    <3> QED  BY <1>0, <2>3, <3>1, <3>2, <3>3, <3>4 DEF LockedAsLearned
  <2> QED  BY <2>4, <2>5, <2>6 DEF LockInv
<1>6. CASE AgentStops
  <2>1. LockTypeOK'
    BY <1>0, <1>6 DEF AgentStops, LockTypeOK
  <2> QED  BY <1>0, <1>6, <2>1 DEF AgentStops, ListsCaptured, LockedAsLearned, LockInv
<1>7. CASE BoxReboots
  <2>1. LockTypeOK'
    BY <1>0, <1>7 DEF BoxReboots, LockTypeOK
  <2> QED  BY <1>0, <1>7, <2>1 DEF BoxReboots, ListsCaptured, LockedAsLearned, LockInv
<1>8. CASE UNCHANGED lockVars
  BY <1>0, <1>8 DEF lockVars, LockTypeOK, ListsCaptured, LockedAsLearned, LockInv
<1> QED  BY <1>1, <1>2, <1>3, <1>4, <1>5, <1>6, <1>7, <1>8 DEF LockNext

-----------------------------------------------------------------------------
(* CommunityIntel                                                            *)

\* Every source has a name.
LEMMA NamesOfSources == \A i \in 1 .. Len(Sources) : Sources[i] \in Names
<1>1. DOMAIN Sources = 1 .. Len(Sources)
  BY IntelAssumption
<1> QED  BY <1>1 DEF Names

\* At the start no feed is loaded.
LEMMA IntelInitial == IntelInit => IntelInv
<1> SUFFICES ASSUME IntelInit PROVE IntelInv
  OBVIOUS
<1>1. Nothing \in [Names -> Result]
  BY DEF Nothing, Result
<1>2. edition \in [Names -> Editions]
  BY IntelAssumption DEF IntelInit
<1>3. intel \in [list : [Names -> Result], counts : [Names -> Result]]
  BY <1>1 DEF IntelInit
<1>4. IntelTypeOK
  BY <1>2, <1>3 DEF IntelInit, IntelTypeOK
<1>5. FileWhole
  BY <1>3, IntelAssumption DEF IntelInit, FileWhole
<1>6. OneRefresh
  BY DEF IntelInit, OneRefresh
<1> QED  BY <1>4, <1>5, <1>6 DEF IntelInv

\* Every step of the feeds: the file has the list of a whole refresh.
LEMMA IntelStep == IntelInv /\ [IntelNext]_intelVars => IntelInv'
<1> SUFFICES ASSUME IntelInv, [IntelNext]_intelVars PROVE IntelInv'
  OBVIOUS
<1> DEFINE Running == [id : 1 .. MaxRefreshes, next : 1 .. Len(Sources) + 1,
                       got : [Names -> Result]]
<1>0. /\ IntelTypeOK /\ FileWhole /\ OneRefresh
      /\ Len(Sources) \in Nat /\ MaxRefreshes \in Nat
  BY IntelAssumption DEF IntelInv
<1>1. CASE Published
  <2>1. edition' \in [Names -> Editions]
    BY <1>0, <1>1 DEF Published, IntelTypeOK
  <2> QED  BY <1>0, <1>1, <2>1 DEF Published, IntelTypeOK, FileWhole, OneRefresh, IntelInv
<1>2. CASE Begin
  <2> DEFINE r == [id |-> started', next |-> 1, got |-> Nothing]
  <2>1. started' \in 1 .. MaxRefreshes
    BY <1>0, <1>2 DEF Begin, FileWhole
  <2>2. Nothing \in [Names -> Result]
    BY DEF Nothing, Result
  <2>3. r \in Running
    BY <1>0, <2>1, <2>2
  <2>4. refreshes' = refreshes \cup {r}
    BY <1>2 DEF Begin
  <2> HIDE DEF r
  <2>5. IntelTypeOK'
    BY <1>0, <1>2, <2>3, <2>4 DEF Begin, IntelTypeOK
  <2> QED  BY <1>0, <1>2, <2>1, <2>5 DEF Begin, FileWhole, OneRefresh, IntelInv
<1>3. CASE Answered
  <2>1. PICK r \in refreshes : /\ r.next <= Len(Sources)
           /\ \E x \in {edition[Sources[r.next]], Failed, NoLines} :
                refreshes' = (refreshes \ {r})
                   \cup {[r EXCEPT !.next = @ + 1, !.got[Sources[r.next]] = x]}
    BY <1>3 DEF Answered
  <2>2. PICK x \in {edition[Sources[r.next]], Failed, NoLines} :
           refreshes' = (refreshes \ {r})
              \cup {[r EXCEPT !.next = @ + 1, !.got[Sources[r.next]] = x]}
    BY <2>1
  <2>3. r \in Running /\ Sources[r.next] \in Names
    BY <1>0, <2>1, NamesOfSources DEF IntelTypeOK
  <2>4. x \in Result
    BY <1>0, <2>3 DEF Result, IntelTypeOK
  <2> DEFINE g == [r.got EXCEPT ![Sources[r.next]] = x]
             q == [r EXCEPT !.next = @ + 1, !.got[Sources[r.next]] = x]
  <2>5. g \in [Names -> Result]
    BY <2>3, <2>4
  <2>6. q = [r EXCEPT !.next = r.next + 1, !.got = g]
    BY <2>3
  <2> DEFINE n == r.next + 1
  <2>10. n \in 1 .. Len(Sources) + 1
    BY <1>0, <2>1, <2>3
  <2> HIDE DEF g, n
  <2>7. q \in Running
    <3>1. [r EXCEPT !.next = n, !.got = g] \in Running
      BY <2>3, <2>5, <2>10
    <3> QED  BY <3>1, <2>6 DEF n
  <2> HIDE DEF q
  <2>8. refreshes' = (refreshes \ {r}) \cup {q}
    BY <2>2 DEF q
  <2>9. IntelTypeOK'
    BY <1>0, <1>3, <2>7, <2>8 DEF Answered, IntelTypeOK
  <2> QED  BY <1>0, <1>3, <2>9 DEF Answered, FileWhole, OneRefresh, IntelInv
<1>4. CASE Finish
  <2>1. PICK r \in refreshes :
           /\ refreshes' = refreshes \ {r}
           /\ IF AnySuccess(r)
              THEN /\ intel' = [list |-> r.got, counts |-> r.got]
                   /\ finished' = finished \cup {r.got}
              ELSE UNCHANGED <<intel, finished>>
    BY <1>4 DEF Finish
  <2>2. r.got \in [Names -> Result]
    BY <1>0, <2>1 DEF IntelTypeOK
  <2>3. IntelTypeOK'
    BY <1>0, <1>4, <2>1, <2>2 DEF Finish, IntelTypeOK
  <2>4. OneRefresh'
    <3>1. CASE AnySuccess(r)
      <4>1. intel'.list = r.got /\ intel'.counts = r.got /\ r.got # Nothing
            /\ finished' = finished \cup {r.got}
        BY <2>1, <3>1 DEF AnySuccess
      <4> QED  BY <4>1, <1>0 DEF OneRefresh
    <3>2. CASE ~AnySuccess(r)
      BY <2>1, <3>2, <1>0 DEF OneRefresh
    <3> QED  BY <3>1, <3>2
  <2> QED  BY <1>0, <1>4, <2>3, <2>4 DEF Finish, FileWhole, IntelInv
<1>5. CASE SaveIntel
  BY <1>0, <1>5 DEF SaveIntel, IntelTypeOK, FileWhole, OneRefresh, IntelInv
<1>6. CASE RestartIntel
  <2>1. IntelTypeOK'
    BY <1>0, <1>6 DEF RestartIntel, IntelTypeOK, FileWhole
  <2>2. OneRefresh'
    BY <1>0, <1>6 DEF RestartIntel, OneRefresh, FileWhole
  <2> QED  BY <1>0, <1>6, <2>1, <2>2 DEF RestartIntel, FileWhole, IntelInv
<1>7. CASE UNCHANGED intelVars
  BY <1>0, <1>7 DEF intelVars, IntelTypeOK, FileWhole, OneRefresh, IntelInv
<1> QED  BY <1>1, <1>2, <1>3, <1>4, <1>5, <1>6, <1>7 DEF IntelNext

-----------------------------------------------------------------------------
(* SiemForwarder                                                           *)

\* What the loop of _withinRate leaves is the end of the list from the first entry that is young.
LEMMA TrimmedIsEnd ==
    ASSUME SiemAssumption, rate \in Seq(Ticks), tick \in Ticks
    PROVE  \E n \in 0 .. Len(rate) :
              /\ Trimmed = SubSeq(rate, n + 1, Len(rate))
              /\ \A i \in 1 .. n : rate[i] < tick - Minute
              /\ n < Len(rate) => rate[n + 1] >= tick - Minute
<1> DEFINE I == {i \in 1 .. Len(rate) : rate[i] >= tick - Minute}
<1>0. /\ Len(rate) \in Nat /\ \A i \in 1 .. Len(rate) : rate[i] \in Int
      /\ tick \in Int /\ Minute \in Int
  BY DEF SiemAssumption, Ticks
<1>1. CASE I = {}
  <2>1. SelectInSeq(rate, LAMBDA t : t >= tick - Minute) = 0
    BY <1>1 DEF SelectInSeq
  <2>2. Trimmed = <<>>
    BY <2>1 DEF Trimmed
  <2>3. SubSeq(rate, Len(rate) + 1, Len(rate)) = <<>>
    BY <1>0, SubSeqEmpty
  <2>4. \A i \in 1 .. Len(rate) : rate[i] < tick - Minute
    BY <1>0, <1>1
  <2> QED  BY <1>0, <2>2, <2>3, <2>4
<1>2. CASE I # {}
  <2>1. \E i \in I : \A j \in I : i <= j
    <3>1. I \in SUBSET Nat
      BY <1>0
    <3> HIDE DEF I
    <3> QED  BY <1>2, <3>1, FirstExists
  <2> DEFINE f == Min(I)
  <2>2. f \in I /\ \A j \in I : f <= j
    <3> HIDE DEF I
    <3> QED  BY <2>1 DEF Min
  <2>3. SelectInSeq(rate, LAMBDA t : t >= tick - Minute) = f
    BY <1>2 DEF SelectInSeq
  <2> HIDE DEF f
  <2>4. f \in 1 .. Len(rate) /\ rate[f] >= tick - Minute
    BY <2>2
  <2>8. f # 0
    BY <1>0, <2>4
  <2>5. Trimmed = SubSeq(rate, f, Len(rate))
    BY <2>3, <2>8, Zenon DEF Trimmed
  <2>6. \A i \in 1 .. f - 1 : rate[i] < tick - Minute
    BY <1>0, <2>2, <2>4
  <2>7. f - 1 \in 0 .. Len(rate) /\ (f - 1) + 1 = f
    BY <1>0, <2>4
  <2> QED  BY <2>4, <2>5, <2>6, <2>7
<1> QED  BY <1>1, <1>2

\* The end of a list that is in order and lets no more through than a minute may is such a list.
LEMMA EndIsSound ==
    ASSUME NEW list \in Seq(Ticks), NEW k \in 0 .. Len(list), NEW now, MinuteSound(list, now)
    PROVE  MinuteSound(SubSeq(list, k + 1, Len(list)), now)
<1> DEFINE w == SubSeq(list, k + 1, Len(list))
           n == Len(list)
<1>0. \A i \in 1 .. n : list[i] \in Ticks
  OBVIOUS
<1>1. n \in Nat /\ DOMAIN list = 1 .. n /\ \A i \in 1 .. n : list[i] \in Int
  BY <1>0 DEF Ticks
<1>2. w \in Seq(Ticks) /\ Len(w) = n - k /\ \A i \in 1 .. n - k : w[i] = list[k + i]
  BY EndOfList
<1>3. DOMAIN w = 1 .. n - k
  BY <1>2
<1> HIDE DEF w, n
<1>4. k \in 0 .. n
  BY DEF n
<1>5. \A i \in 1 .. n - k : k + i \in 1 .. n
  BY <1>1, <1>4
<1>6. ASSUME NEW i \in 1 .. n - k, NEW j \in 1 .. n - k
      PROVE  /\ i <= j => w[i] <= w[j]
             /\ w[i] <= now
             /\ i < j /\ w[j] - w[i] <= Minute => j - i < MaxPerMin
  <2>1. k + i \in 1 .. n /\ k + j \in 1 .. n /\ w[i] = list[k + i] /\ w[j] = list[k + j]
    BY <1>2, <1>5
  <2> DEFINE a == k + i
             b == k + j
  <2>2. /\ a <= b => list[a] <= list[b]
        /\ list[a] <= now
        /\ a < b /\ list[b] - list[a] <= Minute => b - a < MaxPerMin
    BY <2>1, <1>1 DEF MinuteSound
  <2>3. b - a = j - i /\ (a <= b <=> i <= j) /\ (a < b <=> i < j)
    BY <1>1, <1>4
  <2> HIDE DEF a, b
  <2>4. w[i] = list[a] /\ w[j] = list[b]
    BY <2>1 DEF a, b
  <2> QED  BY <2>2, <2>3, <2>4
<1>7. MinuteSound(w, now)
  BY <1>3, <1>6 DEF MinuteSound
<1> QED  BY <1>7 DEF w

\* At the start nothing was sent.
LEMMA SiemInitial == SiemInit => SiemInv
<1> SUFFICES ASSUME SiemInit PROVE SiemInv
  OBVIOUS
<1> USE SiemAssumption
<1>1. rate \in Seq(Ticks) /\ accepted \in Seq(Ticks) /\ Len(accepted) = 0
  BY DEF SiemInit
<1>2. siem \in Counters
  BY DEF SiemInit, Counters
<1>3. SiemTypeOK
  BY <1>1, <1>2 DEF SiemInit, SiemTypeOK
<1>8. MinuteSound(saved.rate, tick)
  <2>1. saved.rate = <<>> /\ DOMAIN saved.rate = {}
    BY DEF SiemInit
  <2> QED  BY <2>1 DEF MinuteSound
<1>4. HistoriesOK
  BY <1>1 DEF SiemInit, HistoriesOK, Ticks
<1>5. RateIsRecent
  <2>1. rate = SubSeq(accepted, 0 + 1, Len(accepted))
    BY <1>1, SubSeqEmpty DEF SiemInit
  <2>2. DOMAIN accepted = {}
    BY <1>1
  <2> QED  BY <1>1, <2>1, <2>2 DEF RateIsRecent
<1>6. CallsApart
  BY FS_EmptySet DEF SiemInit, CallsApart
<1>7. SiemAccounts
  <2>1. DOMAIN accepted = {}
    BY <1>1
  <2>2. siem.forwarded + siem.dropped + Cardinality(flight) = offered
    BY FS_EmptySet DEF SiemInit
  <2>3. \A e \in Events : copies[e] <= MaxRetries
    BY DEF SiemInit
  <2> QED  BY <2>1, <2>2, <2>3 DEF SiemAccounts
<1> QED  BY <1>3, <1>4, <1>5, <1>6, <1>7, <1>8 DEF SiemInv

\* The list of the minute stays the end of what was let through when its head is trimmed.
LEMMA TrimmedIsRecent ==
    ASSUME SiemInv
    PROVE  /\ Trimmed \in Seq(Ticks)
           /\ \E k \in 0 .. Len(accepted) :
                 /\ Trimmed = SubSeq(accepted, k + 1, Len(accepted))
                 /\ Len(Trimmed) = Len(accepted) - k
                 /\ \A i \in 1 .. k : accepted[i] < tick - Minute
<1> USE SiemAssumption
<1>0. /\ rate \in Seq(Ticks) /\ tick \in Ticks /\ accepted \in Seq(Ticks)
      /\ Len(accepted) \in Nat /\ Ticks \subseteq Nat /\ Minute \in Nat
      /\ \A i \in 1 .. Len(accepted) : accepted[i] \in Ticks
  <2>1. rate \in Seq(Ticks)
    BY DEF SiemInv, SiemTypeOK
  <2>2. tick \in Ticks /\ accepted \in Seq(Ticks)
    BY DEF SiemInv, HistoriesOK
  <2>3. Ticks \subseteq Nat /\ Minute \in Nat
    BY DEF Ticks
  <2>4. Len(accepted) \in Nat /\ \A i \in 1 .. Len(accepted) : accepted[i] \in Ticks
    BY <2>2
  <2> QED  BY <2>1, <2>2, <2>3, <2>4
<1>1. PICK k \in 0 .. Len(accepted) : /\ rate = SubSeq(accepted, k + 1, Len(accepted))
                                      /\ \A i \in 1 .. k : accepted[i] < tick - Minute
  BY DEF SiemInv, RateIsRecent
<1>2. PICK n \in 0 .. Len(rate) :
         /\ Trimmed = SubSeq(rate, n + 1, Len(rate))
         /\ \A i \in 1 .. n : rate[i] < tick - Minute
  BY <1>0, TrimmedIsEnd
<1>3. /\ Len(rate) = Len(accepted) - k
      /\ \A i \in 1 .. Len(accepted) - k : rate[i] = accepted[k + i]
  BY <1>0, <1>1, EndOfList
<1>4. /\ Len(Trimmed) = Len(rate) - n /\ Trimmed \in Seq(Ticks)
      /\ \A i \in 1 .. Len(rate) - n : Trimmed[i] = rate[n + i]
  BY <1>0, <1>2, EndOfList
<1> DEFINE m == k + n
           end == SubSeq(accepted, m + 1, Len(accepted))
<1>5. m \in 0 .. Len(accepted)
  BY <1>0, <1>3
<1>6. /\ end \in Seq(Ticks) /\ Len(end) = Len(accepted) - m
      /\ \A i \in 1 .. Len(accepted) - m : end[i] = accepted[m + i]
  <2> HIDE DEF m
  <2> QED  BY <1>0, <1>5, EndOfList
<1>7. Trimmed = end
  <2> HIDE DEF end
  <2>1. Len(Trimmed) = Len(end) /\ Len(Trimmed) \in Nat
    BY <1>0, <1>3, <1>4, <1>5, <1>6
  <2>2. \A i \in 1 .. Len(Trimmed) : Trimmed[i] = end[i]
    <3> SUFFICES ASSUME NEW i \in 1 .. Len(Trimmed) PROVE Trimmed[i] = end[i]
      OBVIOUS
    <3>1. i \in 1 .. Len(rate) - n /\ n + i \in 1 .. Len(accepted) - k
          /\ i \in 1 .. Len(accepted) - m /\ k + (n + i) = m + i
      BY <1>0, <1>3, <1>4, <1>5
    <3>2. Trimmed[i] = rate[n + i] /\ rate[n + i] = accepted[k + (n + i)]
      BY <1>3, <1>4, <3>1
    <3>3. end[i] = accepted[m + i]
      BY <1>6, <3>1
    <3> QED  BY <3>1, <3>2, <3>3
  <2> QED  BY <1>4, <1>6, <2>1, <2>2, SeqEqual
<1>8. \A i \in 1 .. m : accepted[i] < tick - Minute
  <2> SUFFICES ASSUME NEW i \in 1 .. m PROVE accepted[i] < tick - Minute
    OBVIOUS
  <2>1. CASE i <= k
    BY <2>1, <1>1, <1>0
  <2>2. CASE i > k
    <3>1. i - k \in 1 .. n /\ i - k \in 1 .. Len(accepted) - k /\ k + (i - k) = i
      BY <2>2, <1>0, <1>3
    <3> QED  BY <3>1, <1>2, <1>3
  <2> QED  BY <2>1, <2>2, <1>0
<1> HIDE DEF m
<1> QED  BY <1>4, <1>5, <1>6, <1>7, <1>8

\* The three things SiemAccounts says.
Window == \A i, j \in DOMAIN accepted :
             i < j /\ accepted[j] - accepted[i] <= Minute => j - i < MaxPerMin
FewCopies == \A e \in Events : copies[e] <= MaxRetries
Accounted == siem.forwarded + siem.dropped + Cardinality(flight) = offered

\* SiemAccounts is its three parts.
LEMMA SiemParts == SiemAccounts <=> Window /\ FewCopies /\ Accounted
  BY DEF SiemAccounts, Window, FewCopies, Accounted

\* What every step may use.
LEMMA SiemFacts ==
    ASSUME SiemInv
    PROVE  /\ siem \in Counters /\ rate \in Seq(Ticks) /\ flight \subseteq Flight
           /\ copies \in [Events -> Nat] /\ HistoriesOK /\ RateIsRecent /\ CallsApart
           /\ Window /\ FewCopies /\ Accounted
           /\ IsFiniteSet(flight) /\ Cardinality(flight) \in Nat
<1>1. IsFiniteSet(flight)
  BY DEF SiemInv, CallsApart
<1> QED  BY <1>1, SiemParts, FS_CardinalityType DEF SiemInv, SiemTypeOK

\* The counters of a new day begin with the calls that are still under way.
LEMMA RolledSound ==
    ASSUME SiemInv
    PROVE  /\ Rolled \in Counters /\ Offered \in Nat
           /\ Rolled.forwarded + Rolled.dropped + Cardinality(flight) = Offered
<1>0. /\ siem \in Counters /\ Accounted /\ offered \in Nat /\ days \in 0 .. MaxDays
      /\ Cardinality(flight) \in Nat
  BY SiemFacts DEF HistoriesOK
<1>1. CASE siem.day = days
  BY <1>0, <1>1 DEF Rolled, Offered, Accounted
<1>2. CASE siem.day # days
  <2> DEFINE r == [siem EXCEPT !.day = days, !.forwarded = 0, !.dropped = 0]
  <2>1. r \in Counters /\ r.forwarded = 0 /\ r.dropped = 0
    BY <1>0 DEF Counters
  <2>2. Rolled = r /\ Offered = Cardinality(flight)
    BY <1>2 DEF Rolled, Offered
  <2> HIDE DEF r
  <2> QED  BY <1>0, <2>1, <2>2
<1> QED  BY <1>1, <1>2

\* A call that ends is counted; one that goes on takes the place of itself.
LEMMA FlightCounts ==
    ASSUME SiemInv, NEW f \in flight
    PROVE  /\ IsFiniteSet(flight \ {f}) /\ Cardinality(flight \ {f}) = Cardinality(flight) - 1
           /\ \A g \in Flight : g.ev = f.ev =>
                 /\ IsFiniteSet((flight \ {f}) \cup {g})
                 /\ Cardinality((flight \ {f}) \cup {g}) = Cardinality(flight)
<1>0. IsFiniteSet(flight) /\ Cardinality(flight) \in Nat /\ CallsApart
  BY SiemFacts
<1>1. IsFiniteSet(flight \ {f}) /\ Cardinality(flight \ {f}) = Cardinality(flight) - 1
  BY <1>0, FS_RemoveElement
<1>2. ASSUME NEW g \in Flight, g.ev = f.ev
      PROVE  /\ IsFiniteSet((flight \ {f}) \cup {g})
             /\ Cardinality((flight \ {f}) \cup {g}) = Cardinality(flight)
  <2> DEFINE rest == flight \ {f}
  <2>1. g \notin rest
    BY <1>0, <1>2 DEF CallsApart
  <2>2. IsFiniteSet(rest) /\ Cardinality(rest) = Cardinality(flight) - 1
    BY <1>1
  <2> HIDE DEF rest
  <2>3. IsFiniteSet(rest \cup {g}) /\ Cardinality(rest \cup {g}) = Cardinality(rest) + 1
    BY <2>1, <2>2, FS_AddElement
  <2>4. IsFiniteSet(rest \cup {g}) /\ Cardinality(rest \cup {g}) = Cardinality(flight)
    BY <2>2, <2>3, <1>0
  <2> QED  BY <2>4 DEF rest
<1> QED  BY <1>1, <1>2

\* The minute: steps that only let time pass, trim or let nothing through.
LEMMA MinuteKept ==
    ASSUME SiemInv, accepted' = accepted, tick' \in Ticks, tick' >= tick, rate' = rate
    PROVE  RateIsRecent' /\ Window'
<1>0. RateIsRecent /\ Window /\ tick \in Int /\ Minute \in Int
      /\ \A i \in DOMAIN accepted : accepted[i] \in Int
      /\ Len(accepted) \in Nat /\ DOMAIN accepted = 1 .. Len(accepted) /\ tick' \in Int
  BY SiemFacts, SiemAssumption DEF HistoriesOK, Ticks
<1>1. PICK k \in 0 .. Len(accepted) : /\ rate = SubSeq(accepted, k + 1, Len(accepted))
                                      /\ \A i \in 1 .. k : accepted[i] < tick - Minute
  BY <1>0 DEF RateIsRecent
<1>2. \A i \in 1 .. k : accepted[i] < tick' - Minute
  <2>1. \A i \in 1 .. k : i \in DOMAIN accepted
    BY <1>0
  <2> QED  BY <1>0, <1>1, <2>1
<1>3. RateIsRecent'
  <2>1. \A i \in DOMAIN accepted : accepted[i] <= tick'
    BY <1>0 DEF RateIsRecent
  <2>2. \E n \in 0 .. Len(accepted) :
           /\ rate = SubSeq(accepted, n + 1, Len(accepted))
           /\ \A i \in 1 .. n : accepted[i] < tick' - Minute
    BY <1>1, <1>2
  <2> QED  BY <1>0, <2>1, <2>2, Zenon DEF RateIsRecent
<1> QED  BY <1>0, <1>3 DEF Window

\* Trimming the list of the last minute loses nothing of it.
LEMMA MinuteTrimmed ==
    ASSUME SiemInv, accepted' = accepted, tick' = tick, rate' = Trimmed
    PROVE  RateIsRecent' /\ Window'
<1>1. RateIsRecent'
  BY TrimmedIsRecent, SiemFacts DEF RateIsRecent
<1> QED  BY <1>1, SiemFacts DEF Window

\* An event that is let through: in the minute before it there are fewer than MaxPerMin others,
\* for all of them are still on the list.
LEMMA MinuteOfOneMore ==
    ASSUME SiemInv, accepted' = Append(accepted, tick), tick' = tick,
           rate' = Append(Trimmed, tick), Len(Trimmed) < MaxPerMin
    PROVE  accepted' \in Seq(Ticks) /\ RateIsRecent' /\ Window'
<1>0. /\ RateIsRecent /\ Window /\ tick \in Ticks /\ tick \in Int /\ Minute \in Nat
      /\ MaxPerMin \in Int /\ accepted \in Seq(Ticks)
      /\ \A i \in 1 .. Len(accepted) : accepted[i] \in Int
      /\ Len(accepted) \in Nat /\ DOMAIN accepted = 1 .. Len(accepted)
  <2>1. RateIsRecent /\ Window /\ HistoriesOK
    BY SiemFacts
  <2>2. tick \in Ticks /\ accepted \in Seq(Ticks)
    BY <2>1 DEF HistoriesOK
  <2>3. Minute \in Nat /\ MaxPerMin \in Int /\ Ticks \subseteq Int
    BY SiemAssumption DEF Ticks
  <2>4. /\ Len(accepted) \in Nat /\ DOMAIN accepted = 1 .. Len(accepted)
        /\ \A i \in 1 .. Len(accepted) : accepted[i] \in Ticks
    BY <2>2
  <2> QED  BY <2>1, <2>2, <2>3, <2>4
<1>1. PICK k \in 0 .. Len(accepted) :
         /\ Trimmed = SubSeq(accepted, k + 1, Len(accepted))
         /\ Len(Trimmed) = Len(accepted) - k
         /\ \A i \in 1 .. k : accepted[i] < tick - Minute
  BY TrimmedIsRecent
<1> DEFINE n == Len(accepted)
           next == Append(accepted, tick)
<1>2. /\ next \in Seq(Ticks) /\ Len(next) = n + 1 /\ DOMAIN next = 1 .. n + 1
      /\ \A i \in 1 .. n : next[i] = accepted[i]
      /\ next[n + 1] = tick
  BY <1>0
<1>3. /\ \A i, j \in 1 .. n : i <= j => accepted[i] <= accepted[j]
      /\ \A i \in 1 .. n : accepted[i] <= tick
      /\ \A i, j \in 1 .. n : i < j /\ accepted[j] - accepted[i] <= Minute => j - i < MaxPerMin
  BY <1>0 DEF RateIsRecent, Window
<1>4. Append(Trimmed, tick) = SubSeq(next, k + 1, n + 1)
  <2> DEFINE w == SubSeq(next, k + 1, n + 1)
             v == Append(Trimmed, tick)
  <2>1. /\ w \in Seq(Ticks) /\ Len(w) = n + 1 - k
        /\ \A i \in 1 .. n + 1 - k : w[i] = next[k + i]
    <3> DEFINE m == n + 1
    <3>1. m \in Nat /\ k \in 0 .. m
      BY <1>0
    <3>2. next \in Seq(Ticks) /\ Len(next) = m
      BY <1>2
    <3> HIDE DEF m, next
    <3>3. /\ SubSeq(next, k + 1, m) \in Seq(Ticks) /\ Len(SubSeq(next, k + 1, m)) = m - k
          /\ \A i \in 1 .. m - k : SubSeq(next, k + 1, m)[i] = next[k + i]
      BY <3>1, <3>2, EndOfListTo
    <3>4. w = SubSeq(next, k + 1, m)
      BY DEF m
    <3> HIDE DEF w
    <3>5. /\ w \in Seq(Ticks) /\ Len(w) = m - k
          /\ \A i \in 1 .. m - k : w[i] = next[k + i]
      BY <3>3, <3>4, Zenon
    <3> QED  BY <3>5 DEF m
  <2>2. Trimmed \in Seq(Ticks) /\ Len(Trimmed) = n - k
        /\ \A i \in 1 .. n - k : Trimmed[i] = accepted[k + i]
    BY <1>0, <1>1, EndOfList
  <2>3. /\ v \in Seq(Ticks) /\ Len(v) = n - k + 1 /\ v[n - k + 1] = tick
        /\ \A i \in 1 .. n - k : v[i] = Trimmed[i]
    BY <1>0, <2>2
  <2> HIDE DEF w, v, next, n
  <2>4. n \in Nat /\ k \in 0 .. n
    BY <1>0 DEF n
  <2>5. Len(v) = Len(w)
    BY <2>1, <2>3, <2>4
  <2>6. ASSUME NEW i \in 1 .. Len(v) PROVE v[i] = w[i]
    <3>1. CASE i = n - k + 1
      BY <3>1, <1>2, <2>1, <2>3, <2>4
    <3>2. CASE i # n - k + 1
      <4>1. i \in 1 .. n - k /\ k + i \in 1 .. n
        BY <3>2, <2>3, <2>4
      <4> QED  BY <4>1, <1>2, <2>1, <2>2, <2>3, <2>4
    <3> QED  BY <3>1, <3>2
  <2>7. v = w
    BY <2>1, <2>3, <2>5, <2>6, SeqEqual
  <2> QED  BY <2>7 DEF v, w
<1> HIDE DEF next, n
<1>5. n \in Nat /\ k \in 0 .. n /\ accepted' = next /\ Len(accepted') = n + 1
  BY <1>0, <1>2 DEF n, next
<1>6. \A i, j \in 1 .. n + 1 : i <= j => next[i] <= next[j]
  <2> SUFFICES ASSUME NEW i \in 1 .. n + 1, NEW j \in 1 .. n + 1, i <= j
               PROVE next[i] <= next[j]
    OBVIOUS
  <2>1. CASE j = n + 1 /\ i = n + 1
    BY <2>1, <1>2, <1>0
  <2>2. CASE j = n + 1 /\ i # n + 1
    <3>1. i \in 1 .. n
      BY <2>2, <1>5
    <3> QED  BY <2>2, <3>1, <1>2, <1>3
  <2>3. CASE j # n + 1
    <3>1. i \in 1 .. n /\ j \in 1 .. n
      BY <2>3, <1>5
    <3> QED  BY <3>1, <1>2, <1>3
  <2> QED  BY <2>1, <2>2, <2>3
<1>7. \A i \in 1 .. n + 1 : next[i] <= tick
  BY <1>2, <1>5, <1>6, <1>0
<1>8. RateIsRecent'
  <2>1. \A i \in 1 .. k : next[i] < tick - Minute
    BY <1>1, <1>2, <1>5
  <2>2. \E m \in 0 .. n + 1 : /\ Append(Trimmed, tick) = SubSeq(next, m + 1, n + 1)
                              /\ \A i \in 1 .. m : next[i] < tick - Minute
    BY <1>4, <1>5, <2>1
  <2> QED  BY <1>2, <1>5, <1>6, <1>7, <2>2, Zenon DEF RateIsRecent
<1>9. Window'
  <2> SUFFICES ASSUME NEW i \in 1 .. n + 1, NEW j \in 1 .. n + 1, i < j,
                      next[j] - next[i] <= Minute
               PROVE  j - i < MaxPerMin
    BY <1>2, <1>5 DEF Window
  <2>1. i \in 1 .. n
    BY <1>5
  <2>2. CASE j = n + 1
    <3>1. ~(i \in 1 .. k)
      <4>1. next[i] = accepted[i] /\ accepted[i] \in Int /\ next[j] = tick
        BY <2>1, <2>2, <1>0, <1>2 DEF n
      <4>2. tick - accepted[i] <= Minute
        BY <4>1
      <4>3. ASSUME i \in 1 .. k PROVE FALSE
        <5>1. accepted[i] < tick - Minute
          BY <4>3, <1>1
        <5> QED  BY <5>1, <4>1, <4>2, <1>0
      <4> QED  BY <4>3
    <3>2. n - k < MaxPerMin
      BY <1>1 DEF n
    <3> QED  BY <3>1, <3>2, <2>1, <2>2, <1>0, <1>5
  <2>3. CASE j # n + 1
    <3>1. j \in 1 .. n
      BY <2>3, <1>5
    <3> QED  BY <3>1, <2>1, <1>2, <1>3
  <2> QED  BY <2>2, <2>3
<1> QED  BY <1>2, <1>5, <1>8, <1>9

\* A call: the list of the minute, the counters and what was let through apart, nothing changes.
LEMMA CalledSound ==
    ASSUME SiemInv, Called, UNCHANGED <<flight, copies>>
    PROVE  fresh' \subseteq Events /\ CallsApart' /\ FewCopies'
<1>1. PICK e \in fresh : fresh' = fresh \ {e}
  BY DEF Called
<1>2. fresh \subseteq Events /\ CallsApart /\ FewCopies
  BY SiemFacts DEF HistoriesOK
<1> QED  BY <1>1, <1>2 DEF CallsApart, FewCopies

\* A call under way is replaced by what is left of it, after one more copy at most.
LEMMA AttemptSound ==
    ASSUME SiemInv, NEW f \in flight, NEW left \in SUBSET Flight,
           flight' = (flight \ {f}) \cup left, fresh' = fresh,
           \A g \in left : /\ g.ev = f.ev /\ left = {g}
                           /\ copies'[f.ev] <= IF g.at = "send" THEN g.attempt - 1 ELSE g.attempt
                           /\ g.at = "pause" => g.attempt < MaxRetries,
           copies' \in [Events -> Nat], copies'[f.ev] <= MaxRetries,
           \A e \in Events : e # f.ev => copies'[e] = copies[e]
    PROVE  CallsApart' /\ FewCopies' /\ flight' \subseteq Flight
<1>0. /\ CallsApart /\ FewCopies /\ flight \subseteq Flight /\ fresh \subseteq Events
      /\ f.ev \in Events
  BY SiemFacts DEF HistoriesOK, Flight
<1>1. FewCopies'
  BY <1>0 DEF FewCopies
<1>2. flight' \subseteq Flight
  BY <1>0
<1>3. IsFiniteSet(flight')
  <2>1. CASE left = {}
    BY <2>1, FlightCounts
  <2>2. CASE left # {}
    <3>1. PICK g \in left : left = {g} /\ g.ev = f.ev
      BY <2>2
    <3> QED  BY <3>1, FlightCounts
  <2> QED  BY <2>1, <2>2
<1>4. \A g, h \in flight' : g.ev = h.ev => g = h
  <2>1. \A g \in flight \ {f} : g.ev # f.ev
    BY <1>0 DEF CallsApart
  <2> QED  BY <1>0, <2>1 DEF CallsApart
<1>5. \A g \in flight' : /\ g.ev \notin fresh'
                         /\ copies'[g.ev] <= IF g.at = "send" THEN g.attempt - 1 ELSE g.attempt
                         /\ g.at = "pause" => g.attempt < MaxRetries
  <2> SUFFICES ASSUME NEW g \in flight'
               PROVE  /\ g.ev \notin fresh'
                      /\ copies'[g.ev] <= IF g.at = "send" THEN g.attempt - 1 ELSE g.attempt
                      /\ g.at = "pause" => g.attempt < MaxRetries
    OBVIOUS
  <2>1. CASE g \in left
    BY <2>1, <1>0 DEF CallsApart
  <2>2. CASE g \in flight \ {f}
    <3>1. g.ev # f.ev /\ g.ev \in Events
      BY <2>2, <1>0 DEF CallsApart, Flight
    <3> QED  BY <2>2, <3>1, <1>0 DEF CallsApart
  <2> QED  BY <2>1, <2>2
<1>6. \A e \in fresh' : copies'[e] = 0
  BY <1>0 DEF CallsApart
<1> QED  BY <1>1, <1>2, <1>3, <1>4, <1>5, <1>6 DEF CallsApart

\* What the forwarder has in memory.
SiemWhole == /\ siem \in Counters /\ rate \in Seq(Ticks) /\ flight \subseteq Flight
             /\ copies \in [Events -> Nat] /\ HistoriesOK /\ RateIsRecent
             /\ CallsApart /\ Window /\ FewCopies /\ Accounted

\* A cloud that comes back has the minute of the file, and no calls under way.
LEMMA SiemRestarts == SiemInv /\ CloudRestarts => SiemWhole'
<1> SUFFICES ASSUME SiemInv, CloudRestarts PROVE SiemWhole'
  OBVIOUS
<1> DEFINE list == saved.rate
<1>1. /\ saved.siem \in Counters /\ list \in Seq(Ticks) /\ MinuteSound(list, tick)
      /\ HistoriesOK /\ FewCopies /\ CallsApart /\ copies \in [Events -> Nat]
  BY SiemFacts DEF SiemInv, SiemTypeOK
<1>2. /\ siem' = saved.siem /\ rate' = list /\ accepted' = list /\ flight' = {}
      /\ offered' = saved.siem.forwarded + saved.siem.dropped
      /\ tick' = tick /\ days' = days /\ fresh' = fresh /\ copies' = copies
  BY DEF CloudRestarts
<1> HIDE DEF list
<1>3. Len(list) \in Nat /\ DOMAIN list = 1 .. Len(list)
  BY <1>1
<1>4. SubSeq(list, 0 + 1, Len(list)) = list
  <2>1. 0 \in 0 .. Len(list)
    BY <1>3
  <2> DEFINE w == SubSeq(list, 0 + 1, Len(list))
  <2>2. w \in Seq(Ticks) /\ Len(w) = Len(list) - 0
        /\ \A i \in 1 .. Len(list) - 0 : w[i] = list[0 + i]
    BY <1>1, <2>1, EndOfList
  <2> HIDE DEF w
  <2>3. Len(w) = Len(list) /\ \A i \in 1 .. Len(w) : w[i] = list[i]
    BY <1>3, <2>2
  <2>4. w = list
    BY <1>1, <2>2, <2>3, SeqEqual
  <2> QED  BY <2>4 DEF w
<1>5. RateIsRecent'
  <2>1. \E k \in 0 .. Len(list) : /\ list = SubSeq(list, k + 1, Len(list))
                                /\ \A i \in 1 .. k : list[i] < tick - Minute
    <3>1. 0 \in 0 .. Len(list) /\ \A i \in 1 .. 0 : list[i] < tick - Minute
      BY <1>3
    <3> QED  BY <3>1, <1>4
  <2> QED  BY <1>1, <1>2, <2>1 DEF RateIsRecent, MinuteSound
<1>6. Window'
  BY <1>1, <1>2 DEF Window, MinuteSound
<1>7. IsFiniteSet(flight') /\ Cardinality(flight') = 0
  BY <1>2, FS_EmptySet
<1>8. CallsApart'
  BY <1>1, <1>2, <1>7 DEF CallsApart
<1>9. Accounted' /\ offered' \in Nat
  <2>1. saved.siem.forwarded \in Nat /\ saved.siem.dropped \in Nat
    BY <1>1 DEF Counters
  <2> QED  BY <1>2, <1>7, <2>1 DEF Accounted
<1>10. HistoriesOK'
  BY <1>1, <1>2, <1>9 DEF HistoriesOK
<1>11. siem' \in Counters /\ rate' \in Seq(Ticks) /\ flight' \subseteq Flight
       /\ copies' \in [Events -> Nat] /\ FewCopies'
  BY <1>1, <1>2 DEF FewCopies
<1> QED  BY <1>5, <1>6, <1>8, <1>9, <1>10, <1>11 DEF SiemWhole

\* Every step of the forwarder: what it has in memory.
LEMMA SiemMemory == SiemInv /\ [SiemNext]_siemVars => SiemWhole'
<1> SUFFICES ASSUME SiemInv, [SiemNext]_siemVars PROVE SiemWhole'
  OBVIOUS
<1>0. /\ siem \in Counters /\ rate \in Seq(Ticks) /\ flight \subseteq Flight
      /\ copies \in [Events -> Nat] /\ HistoriesOK /\ RateIsRecent /\ CallsApart
      /\ Window /\ FewCopies /\ Accounted
      /\ IsFiniteSet(flight) /\ Cardinality(flight) \in Nat
  BY SiemFacts
<1>00. /\ tick \in Ticks /\ days \in 0 .. MaxDays /\ fresh \subseteq Events
       /\ accepted \in Seq(Ticks) /\ offered \in Nat /\ tick >= tick
  BY <1>0 DEF HistoriesOK, Ticks
<1> USE DEF SiemWhole
<1>1. CASE Configure
  <2>1. siem' \in Counters /\ siem'.forwarded = siem.forwarded /\ siem'.dropped = siem.dropped
    BY <1>0, <1>1 DEF Configure, Counters
  <2>2. RateIsRecent' /\ Window'
    BY <1>00, <1>1, MinuteKept DEF Configure
  <2>3. Accounted'
    BY <1>0, <1>1, <2>1 DEF Configure, Accounted
  <2> QED
    BY <1>0, <1>1, <2>1, <2>2, <2>3 DEF Configure, HistoriesOK, CallsApart, FewCopies
<1>2. CASE KindOff
  <2>1. fresh' \subseteq Events /\ CallsApart' /\ FewCopies'
    BY <1>2, CalledSound DEF KindOff
  <2>2. RateIsRecent' /\ Window'
    BY <1>00, <1>2, MinuteKept DEF KindOff, sides
  <2>3. Accounted' /\ siem' \in Counters /\ offered' \in Nat
    BY <1>2, RolledSound DEF KindOff, Accounted
  <2> QED  BY <1>0, <1>00, <1>2, <2>1, <2>2, <2>3 DEF KindOff, sides, HistoriesOK
<1>3. CASE RateCapped
  <2>1. fresh' \subseteq Events /\ CallsApart' /\ FewCopies'
    BY <1>3, CalledSound DEF RateCapped
  <2>2. RateIsRecent' /\ Window' /\ rate' \in Seq(Ticks)
    BY <1>3, MinuteTrimmed, TrimmedIsRecent DEF RateCapped, sides
  <2>3. Accounted' /\ siem' \in Counters /\ offered' \in Nat
    <3> DEFINE r == Rolled
    <3>1. /\ r \in Counters /\ Offered \in Nat
          /\ r.forwarded + r.dropped + Cardinality(flight) = Offered
      BY RolledSound
    <3>2. siem' = [r EXCEPT !.dropped = r.dropped + 1] /\ offered' = Offered + 1 /\ flight' = flight
      BY <1>3 DEF RateCapped
    <3> HIDE DEF r
    <3>3. siem' \in Counters /\ siem'.forwarded = r.forwarded /\ siem'.dropped = r.dropped + 1
      BY <3>1, <3>2 DEF Counters
    <3>4. r.forwarded \in Nat /\ r.dropped \in Nat
      BY <3>1 DEF Counters
    <3> QED  BY <1>0, <3>1, <3>2, <3>3, <3>4 DEF Accounted
  <2> QED  BY <1>0, <1>00, <1>3, <2>1, <2>2, <2>3 DEF RateCapped, sides, HistoriesOK
<1>4. CASE Forward
  <2>1. PICK e \in fresh : fresh' = fresh \ {e}
    BY <1>4 DEF Forward, Called
  <2> DEFINE f == [ev |-> e, attempt |-> 1, at |-> "send"]
  <2>2. flight' = flight \cup {f}
    <3>1. fresh \ fresh' = {e}
      BY <2>1
    <3> QED  BY <1>4, <3>1 DEF Forward
  <2>3. f \in Flight /\ f.ev = e /\ f.at = "send" /\ f.attempt = 1 /\ e \in Events
    BY <1>00, SiemAssumption DEF Flight
  <2>4. copies' = copies /\ tick' = tick /\ days' = days
    BY <1>4 DEF Forward, sides
  <2> HIDE DEF f
  <2>5. f \notin flight
    BY <1>0, <2>3 DEF CallsApart
  <2>6. IsFiniteSet(flight') /\ Cardinality(flight') = Cardinality(flight) + 1
    BY <1>0, <2>2, <2>5, FS_AddElement
  <2>7. CallsApart'
    <3>1. \A g \in flight : g.ev # e
      BY <1>0 DEF CallsApart
    <3>2. copies[e] = 0
      BY <1>0 DEF CallsApart
    <3>3. \A g, h \in flight' : g.ev = h.ev => g = h
      BY <1>0, <2>2, <2>3, <3>1 DEF CallsApart
    <3>4. \A g \in flight' : /\ g.ev \notin fresh'
                             /\ copies'[g.ev] <= IF g.at = "send" THEN g.attempt - 1 ELSE g.attempt
                             /\ g.at = "pause" => g.attempt < MaxRetries
      BY <1>0, <2>1, <2>2, <2>3, <2>4, <3>1, <3>2 DEF CallsApart
    <3>5. \A x \in fresh' : copies'[x] = 0
      BY <1>0, <2>1, <2>4 DEF CallsApart
    <3> QED  BY <2>6, <3>3, <3>4, <3>5 DEF CallsApart
  <2>8. /\ accepted' = Append(accepted, tick) /\ rate' = Append(Trimmed, tick)
        /\ Len(Trimmed) < MaxPerMin
    BY <1>4 DEF Forward
  <2>9. accepted' \in Seq(Ticks) /\ RateIsRecent' /\ Window'
    BY <2>4, <2>8, MinuteOfOneMore
  <2>10. rate' \in Seq(Ticks)
    BY <1>00, <2>8, TrimmedIsRecent
  <2>11. Accounted' /\ siem' \in Counters /\ offered' \in Nat
    <3> DEFINE r == Rolled
    <3>1. /\ r \in Counters /\ Offered \in Nat
          /\ r.forwarded + r.dropped + Cardinality(flight) = Offered
      BY RolledSound
    <3>2. siem' = r /\ offered' = Offered + 1
      BY <1>4 DEF Forward
    <3>3. r.forwarded \in Nat /\ r.dropped \in Nat
      BY <3>1 DEF Counters
    <3> HIDE DEF r
    <3> QED  BY <1>0, <2>6, <3>1, <3>2, <3>3 DEF Accounted
  <2> QED
    BY <1>0, <1>00, <2>1, <2>2, <2>3, <2>4, <2>7, <2>9, <2>10, <2>11 DEF HistoriesOK, FewCopies
<1>5. CASE SendOk
  <2>1. PICK f \in flight : f.at = "send" /\ Got(f) /\ flight' = flight \ {f}
    BY <1>5 DEF SendOk
  <2>2. f \in Flight /\ f.attempt \in 1 .. MaxRetries /\ f.ev \in Events
        /\ copies[f.ev] <= f.attempt - 1
    BY <1>0, <2>1 DEF Flight, CallsApart
  <2>3. /\ copies' \in [Events -> Nat] /\ copies'[f.ev] = copies[f.ev] + 1
        /\ \A e \in Events : e # f.ev => copies'[e] = copies[e]
    BY <1>0, <2>1, <2>2 DEF Got
  <2>4. copies'[f.ev] <= MaxRetries
    BY <1>0, <2>2, <2>3, SiemAssumption
  <2>5. fresh' = fresh /\ flight' = (flight \ {f}) \cup {}
    BY <1>5, <2>1 DEF SendOk
  <2>6. CallsApart' /\ FewCopies' /\ flight' \subseteq Flight
    <3>1. {} \in SUBSET Flight
      OBVIOUS
    <3> QED  BY <2>3, <2>4, <2>5, <3>1, AttemptSound
  <2>7. Accounted' /\ siem' \in Counters
    <3>1. siem' \in Counters /\ siem'.forwarded = siem.forwarded + 1 /\ siem'.dropped = siem.dropped
      BY <1>0, <1>5 DEF SendOk, Counters
    <3>2. Cardinality(flight') = Cardinality(flight) - 1
      BY <2>1, FlightCounts
    <3>3. siem.forwarded \in Nat /\ siem.dropped \in Nat
      BY <1>0 DEF Counters
    <3>4. offered' = offered
      BY <1>5 DEF SendOk
    <3> QED  BY <1>0, <3>1, <3>2, <3>3, <3>4 DEF Accounted
  <2>8. RateIsRecent' /\ Window'
    BY <1>00, <1>5, MinuteKept DEF SendOk, sides
  <2> QED  BY <1>0, <1>5, <2>3, <2>6, <2>7, <2>8 DEF SendOk, sides, HistoriesOK
<1>6. CASE SendFails
  <2>1. PICK f \in flight, arrived \in BOOLEAN :
           /\ f.at = "send"
           /\ IF arrived THEN Got(f) ELSE UNCHANGED copies
           /\ flight' = (flight \ {f})
                 \cup (IF GivesUp(f) THEN {} ELSE {[f EXCEPT !.at = "pause"]})
           /\ siem' = IF GivesUp(f) THEN [siem EXCEPT !.dropped = @ + 1] ELSE siem
    BY <1>6 DEF SendFails
  <2> DEFINE g == [f EXCEPT !.at = "pause"]
             left == IF GivesUp(f) THEN {} ELSE {g}
  <2>2. f \in Flight /\ f.attempt \in 1 .. MaxRetries /\ f.ev \in Events
        /\ copies[f.ev] <= f.attempt - 1
    BY <1>0, <2>1 DEF Flight, CallsApart
  <2>3. /\ copies' \in [Events -> Nat] /\ copies'[f.ev] <= copies[f.ev] + 1
        /\ \A e \in Events : e # f.ev => copies'[e] = copies[e]
    <3>1. CASE arrived
      BY <1>0, <2>1, <2>2, <3>1 DEF Got
    <3>2. CASE ~arrived
      BY <1>0, <2>1, <2>2, <3>2
    <3> QED  BY <3>1, <3>2
  <2>4. copies'[f.ev] <= f.attempt /\ copies'[f.ev] <= MaxRetries
    BY <1>0, <2>2, <2>3, SiemAssumption
  <2>5. g \in Flight /\ g.ev = f.ev /\ g.at = "pause" /\ g.attempt = f.attempt
    BY <2>2 DEF Flight
  <2>6. IF GivesUp(f) THEN left = {} ELSE left = {g}
    OBVIOUS
  <2>7. flight' = (flight \ {f}) \cup left /\ left \in SUBSET Flight
    BY <2>1, <2>5
  <2> HIDE DEF left, g
  <2>8. \A h \in left : /\ h.ev = f.ev /\ left = {h}
                        /\ copies'[f.ev] <= IF h.at = "send" THEN h.attempt - 1 ELSE h.attempt
                        /\ h.at = "pause" => h.attempt < MaxRetries
    BY <2>2, <2>4, <2>5, <2>6, SiemAssumption DEF GivesUp
  <2>9. fresh' = fresh
    BY <1>6 DEF SendFails
  <2>10. CallsApart' /\ FewCopies' /\ flight' \subseteq Flight
    BY <2>3, <2>4, <2>7, <2>8, <2>9, AttemptSound
  <2>11. Accounted' /\ siem' \in Counters
    <3>1. siem.forwarded \in Nat /\ siem.dropped \in Nat /\ offered' = offered
      BY <1>0, <1>6 DEF Counters, SendFails
    <3>2. CASE GivesUp(f)
      <4>1. siem' \in Counters /\ siem'.forwarded = siem.forwarded
            /\ siem'.dropped = siem.dropped + 1
        BY <1>0, <2>1, <3>2 DEF Counters
      <4>2. Cardinality(flight') = Cardinality(flight) - 1
        <5>1. flight' = (flight \ {f}) \cup {}
          BY <2>1, <3>2
        <5>2. flight' = flight \ {f}
          BY <5>1
        <5> QED  BY <5>2, FlightCounts
      <4>3. Accounted /\ Cardinality(flight) \in Nat
        BY <1>0
      <4>4. Accounted'
        BY <3>1, <4>1, <4>2, <4>3 DEF Accounted
      <4> QED  BY <4>1, <4>4
    <3>3. CASE ~GivesUp(f)
      <4>1. siem' = siem
        BY <2>1, <3>3
      <4>2. Cardinality(flight') = Cardinality(flight)
        <5>1. flight' = (flight \ {f}) \cup {g}
          BY <2>6, <2>7, <3>3
        <5> QED  BY <2>5, <5>1, FlightCounts
      <4> QED  BY <1>0, <3>1, <4>1, <4>2 DEF Accounted
    <3> QED  BY <3>2, <3>3
  <2>12. RateIsRecent' /\ Window'
    BY <1>00, <1>6, MinuteKept DEF SendFails, sides
  <2> QED  BY <1>0, <1>6, <2>3, <2>10, <2>11, <2>12 DEF SendFails, sides, HistoriesOK
<1>7. CASE PauseEnds
  <2>1. PICK f \in flight :
           /\ f.at = "pause"
           /\ flight' = (flight \ {f}) \cup {[f EXCEPT !.at = "send", !.attempt = @ + 1]}
    BY <1>7 DEF PauseEnds
  <2>2. f \in Flight /\ f.attempt \in 1 .. MaxRetries /\ f.ev \in Events
        /\ copies[f.ev] <= f.attempt /\ f.attempt < MaxRetries
    BY <1>0, <2>1 DEF Flight, CallsApart
  <2> DEFINE g == [f EXCEPT !.at = "send", !.attempt = @ + 1]
  <2>3. g \in Flight /\ g.ev = f.ev /\ g.at = "send" /\ g.attempt = f.attempt + 1
    <3> DEFINE n == f.attempt + 1
    <3>1. n \in 1 .. MaxRetries
      BY <2>2, SiemAssumption
    <3>2. g = [f EXCEPT !.at = "send", !.attempt = n]
      OBVIOUS
    <3> HIDE DEF n, g
    <3>3. g \in Flight /\ g.ev = f.ev /\ g.at = "send" /\ g.attempt = n
      BY <2>2, <3>1, <3>2 DEF Flight
    <3> QED  BY <3>3 DEF n
  <2>4. flight' = (flight \ {f}) \cup {g}
    BY <2>1
  <2> HIDE DEF g
  <2>5. copies' = copies /\ fresh' = fresh /\ siem' = siem /\ offered' = offered
    BY <1>7 DEF PauseEnds
  <2>6. CallsApart' /\ FewCopies' /\ flight' \subseteq Flight
    <3>1. copies[f.ev] <= MaxRetries /\ {g} \in SUBSET Flight
      BY <1>0, <2>2, <2>3 DEF FewCopies
    <3>2. \A h \in {g} : /\ h.ev = f.ev /\ {g} = {h}
                         /\ copies'[f.ev] <= IF h.at = "send" THEN h.attempt - 1 ELSE h.attempt
                         /\ h.at = "pause" => h.attempt < MaxRetries
      BY <1>0, <2>2, <2>3, <2>5
    <3> QED  BY <1>0, <2>4, <2>5, <3>1, <3>2, AttemptSound
  <2>7. Accounted'
    <3>1. Cardinality(flight') = Cardinality(flight)
      BY <2>3, <2>4, FlightCounts
    <3> QED  BY <1>0, <2>5, <3>1 DEF Accounted
  <2>8. RateIsRecent' /\ Window'
    BY <1>00, <1>7, MinuteKept DEF PauseEnds, sides
  <2> QED  BY <1>0, <1>7, <2>5, <2>6, <2>7, <2>8 DEF PauseEnds, sides, HistoriesOK
<1>8. CASE NewDay
  <2>1. days' \in 0 .. MaxDays
    BY <1>00, <1>8, SiemAssumption DEF NewDay
  <2>2. RateIsRecent' /\ Window'
    BY <1>00, <1>8, MinuteKept DEF NewDay
  <2> QED
    BY <1>0, <1>8, <2>1, <2>2 DEF NewDay, HistoriesOK, CallsApart, FewCopies, Accounted
<1>9. CASE Ticking
  <2>1. tick' \in Ticks /\ tick' >= tick
    BY <1>00, <1>9, SiemAssumption DEF Ticking, Ticks
  <2>2. RateIsRecent' /\ Window'
    BY <2>1, <1>9, MinuteKept DEF Ticking
  <2> QED
    BY <1>0, <1>9, <2>1, <2>2 DEF Ticking, HistoriesOK, CallsApart, FewCopies, Accounted
<1>10. CASE UNCHANGED siemVars
  <2>1. RateIsRecent' /\ Window'
    BY <1>00, <1>10, MinuteKept DEF siemVars
  <2> QED  BY <1>0, <1>10, <2>1 DEF siemVars, HistoriesOK, CallsApart, FewCopies, Accounted
<1>11. CASE TimerSaves
  <2>1. RateIsRecent' /\ Window'
    BY <1>00, <1>11, MinuteKept DEF TimerSaves
  <2> QED  BY <1>0, <1>11, <2>1 DEF TimerSaves, HistoriesOK, CallsApart, FewCopies, Accounted
<1>12. CASE CloudRestarts
  BY <1>12, SiemRestarts
<1> QED
  BY <1>1, <1>2, <1>3, <1>4, <1>5, <1>6, <1>7, <1>8, <1>9, <1>10, <1>11, <1>12 DEF SiemNext

\* What is saved is what the forwarder had, then or before.
LEMMA SavedOrKept ==
    [SiemNext]_siemVars => /\ saved' = saved \/ saved' = [siem |-> siem', rate |-> rate']
                           /\ tick' = tick \/ tick' = tick + 1
<1> SUFFICES ASSUME [SiemNext]_siemVars
             PROVE  /\ saved' = saved \/ saved' = [siem |-> siem', rate |-> rate']
                    /\ tick' = tick \/ tick' = tick + 1
  OBVIOUS
<1> USE DEF sides
<1>1. CASE Configure \/ TimerSaves
  BY <1>1 DEF Configure, TimerSaves, SaveSiem
<1>2. CASE KindOff \/ RateCapped \/ Forward
  BY <1>2 DEF KindOff, RateCapped, Forward
<1>3. CASE SendOk \/ SendFails \/ PauseEnds
  BY <1>3 DEF SendOk, SendFails, PauseEnds
<1>4. CASE NewDay \/ Ticking \/ CloudRestarts \/ UNCHANGED siemVars
  BY <1>4 DEF NewDay, Ticking, CloudRestarts, siemVars
<1> QED  BY <1>1, <1>2, <1>3, <1>4 DEF SiemNext

\* Every step of the forwarder.
LEMMA SiemStep == SiemInv /\ [SiemNext]_siemVars => SiemInv'
<1> SUFFICES ASSUME SiemInv, [SiemNext]_siemVars PROVE SiemInv'
  OBVIOUS
<1>1. SiemWhole'
  BY SiemMemory
<1>2. SiemAccounts'
  BY <1>1 DEF SiemWhole, SiemAccounts, Window, FewCopies, Accounted
<1>3. tick \in Int /\ tick' \in Ticks /\ tick' \in Int /\ tick' >= tick
  BY SavedOrKept, SiemFacts, <1>1 DEF SiemWhole, HistoriesOK, Ticks
<1>4. saved'.siem \in Counters /\ saved'.rate \in Seq(Ticks) /\ MinuteSound(saved'.rate, tick')
  <2>1. CASE saved' = saved
    <3>1. /\ saved.siem \in Counters /\ saved.rate \in Seq(Ticks)
          /\ MinuteSound(saved.rate, tick)
      BY DEF SiemInv, SiemTypeOK
    <3> DEFINE list == saved.rate
    <3>2. list \in Seq(Ticks) /\ MinuteSound(list, tick)
      BY <3>1
    <3> HIDE DEF list
    <3>4. \A i \in DOMAIN list : list[i] \in Ticks
      BY <3>2
    <3>5. \A i \in DOMAIN list : list[i] \in Int
      BY <3>4 DEF Ticks
    <3>6. MinuteSound(list, tick')
      BY <1>3, <3>2, <3>5 DEF MinuteSound
    <3>3. MinuteSound(saved.rate, tick')
      BY <3>6 DEF list
    <3> QED  BY <2>1, <3>1, <3>3
  <2>2. CASE saved' = [siem |-> siem', rate |-> rate']
    <3>1. saved'.siem = siem' /\ saved'.rate = rate'
      BY <2>2
    <3>2. accepted' \in Seq(Ticks) /\ siem' \in Counters /\ rate' \in Seq(Ticks)
      BY <1>1 DEF SiemWhole, HistoriesOK
    <3>3. MinuteSound(accepted', tick')
      BY <1>1 DEF SiemWhole, RateIsRecent, Window, MinuteSound
    <3>4. PICK k \in 0 .. Len(accepted') : rate' = SubSeq(accepted', k + 1, Len(accepted'))
      BY <1>1 DEF SiemWhole, RateIsRecent
    <3>5. MinuteSound(rate', tick')
      BY <3>2, <3>3, <3>4, EndIsSound
    <3> QED  BY <3>1, <3>2, <3>5
  <2> QED  BY <2>1, <2>2, SavedOrKept
<1>5. SiemTypeOK'
  BY <1>1, <1>4 DEF SiemWhole, SiemTypeOK
<1>6. MinuteSound(saved.rate, tick)'
  BY <1>4 DEF MinuteSound
<1> QED  BY <1>1, <1>2, <1>5, <1>6 DEF SiemWhole, SiemInv

-----------------------------------------------------------------------------
(* TrafficLog                                                                *)

\* Counting up to m: a set of numbers that has 0 and goes on to the next reaches m.
LEMMA CountUp ==
    ASSUME NEW m \in Nat, NEW S, 0 \in S, \A n \in 0 .. m - 1 : n \in S => n + 1 \in S
    PROVE  0 .. m \subseteq S
<1> DEFINE T == {n \in 0 .. m : n \notin S}
<1> SUFFICES ASSUME T # {} PROVE FALSE
  OBVIOUS
<1>1. PICK k \in T : \A j \in T : k <= j
  <2>1. T \in SUBSET Nat
    OBVIOUS
  <2> HIDE DEF T
  <2> QED  BY <2>1, FirstExists
<1>2. k # 0 /\ k - 1 \in 0 .. m - 1 /\ k - 1 \in S
  BY <1>1
<1> QED  BY <1>1, <1>2

\* The recursive function of Only exists: it does up to 0, and with n up to n + 1.
LEMMA KeptExists ==
    ASSUME NEW X, NEW s \in Seq(X), NEW kinds
    PROVE  \E f : f = [n \in 0 .. Len(s) |->
                IF n = 0 THEN <<>>
                ELSE IF s[n] \in kinds THEN Append(f[n - 1], s[n]) ELSE f[n - 1]]
<1> DEFINE Then(f, n) == IF n = 0 THEN <<>>
                ELSE IF s[n] \in kinds THEN Append(f[n - 1], s[n]) ELSE f[n - 1]
           Solved == {m \in 0 .. Len(s) : \E f : f = [n \in 0 .. m |-> Then(f, n)]}
<1>1. Len(s) \in Nat
  OBVIOUS
<1>2. 0 \in Solved
  <2> DEFINE f == [n \in 0 .. 0 |-> <<>>]
  <2>1. f = [n \in 0 .. 0 |-> Then(f, n)]
    OBVIOUS
  <2> HIDE DEF f
  <2> QED  BY <1>1, <2>1
<1>3. ASSUME NEW m \in 0 .. Len(s) - 1, m \in Solved PROVE m + 1 \in Solved
  <2>1. PICK f : f = [n \in 0 .. m |-> Then(f, n)]
    BY <1>3
  <2>7. \A n \in 0 .. m : f[n] = Then(f, n)
    <3> HIDE DEF Then
    <3> QED  BY <2>1
  <2> DEFINE last == IF s[m + 1] \in kinds THEN Append(f[m], s[m + 1]) ELSE f[m]
             g == [n \in 0 .. m + 1 |-> IF n = m + 1 THEN last ELSE f[n]]
  <2>2. \A n \in 0 .. m : g[n] = f[n]
    BY <1>1
  <2>3. g[m + 1] = last
    BY <1>1
  <2>4. g = [n \in 0 .. m + 1 |-> g[n]]
    OBVIOUS
  <2> HIDE DEF g
  <2>5. ASSUME NEW n \in 0 .. m + 1 PROVE g[n] = Then(g, n)
    <3>1. CASE n = 0
      BY <3>1, <2>7, <2>2, <1>1
    <3>2. CASE n \in 1 .. m
      <4>1. f[n] = Then(f, n)
        BY <2>7, <3>2, <1>1
      <4>2. g[n] = f[n] /\ g[n - 1] = f[n - 1]
        BY <3>2, <2>2, <1>1
      <4> QED  BY <4>1, <4>2
    <3>3. CASE n = m + 1
      <4>1. g[n - 1] = f[m] /\ n # 0
        BY <3>3, <2>2, <1>1
      <4> QED  BY <4>1, <3>3, <2>3
    <3> QED  BY <3>1, <3>2, <3>3, <1>1
  <2>6. g = [n \in 0 .. m + 1 |-> Then(g, n)]
    BY <2>4, <2>5
  <2> HIDE DEF Then
  <2> QED  BY <2>6, <1>1
<1>4. Len(s) \in Solved
  <2> HIDE DEF Solved
  <2>1. 0 .. Len(s) \subseteq Solved
    BY <1>1, <1>2, <1>3, CountUp
  <2> QED  BY <1>1, <2>1
<1> QED  BY <1>4

\* A filter keeps entries of the list that are of the kind, and all of a list that is of the kind.
LEMMA OnlyProperties ==
    ASSUME NEW X, NEW s \in Seq(X), NEW kinds
    PROVE  /\ Only(s, kinds) \in Seq(X)
           /\ Len(Only(s, kinds)) <= Len(s)
           /\ \A i \in 1 .. Len(Only(s, kinds)) :
                 /\ Only(s, kinds)[i] \in kinds
                 /\ \E j \in 1 .. Len(s) : Only(s, kinds)[i] = s[j]
           /\ (\A j \in 1 .. Len(s) : s[j] \in kinds) => Only(s, kinds) = s
<1> DEFINE Then(f, n) == IF n = 0 THEN <<>>
                ELSE IF s[n] \in kinds THEN Append(f[n - 1], s[n]) ELSE f[n - 1]
           kept == CHOOSE f : f = [n \in 0 .. Len(s) |-> Then(f, n)]
<1>1. Only(s, kinds) = kept[Len(s)]
  BY Zenon DEF Only
<1>2. kept = [n \in 0 .. Len(s) |-> Then(kept, n)]
  <2>1. \E f : f = [n \in 0 .. Len(s) |-> Then(f, n)]
    BY KeptExists, Zenon
  <2> HIDE DEF Then
  <2> QED  BY <2>1, Zenon
<1>8. \A n \in 0 .. Len(s) : kept[n] = Then(kept, n)
  <2> HIDE DEF Then, kept
  <2> QED  BY <1>2
<1> HIDE DEF kept
<1> DEFINE Good(k, n) ==
       /\ k \in Seq(X) /\ Len(k) <= n
       /\ \A i \in 1 .. Len(k) : k[i] \in kinds /\ \E j \in 1 .. n : k[i] = s[j]
       /\ (\A j \in 1 .. n : s[j] \in kinds) => k = SubSeq(s, 1, n)
    S == {n \in 0 .. Len(s) : Good(kept[n], n)}
<1>3. Len(s) \in Nat
  OBVIOUS
<1>4. 0 \in S
  <2>1. kept[0] = <<>>
    BY <1>2, <1>3
  <2>2. Good(<<>>, 0)
    OBVIOUS
  <2> HIDE DEF Good
  <2> QED  BY <2>1, <2>2, <1>3
<1>5. ASSUME NEW n \in 0 .. Len(s) - 1, n \in S PROVE n + 1 \in S
  <2> DEFINE k == kept[n]
             x == s[n + 1]
  <2>5. n + 1 \in 1 .. Len(s) /\ x \in X
    BY <1>3
  <2>6. Good(k, n)
    <3> HIDE DEF Good
    <3> QED  BY <1>5
  <2>1. Good(k, n) /\ n + 1 \in 1 .. Len(s) /\ x \in X
    BY <2>5, <2>6
  <2>2. kept[n + 1] = IF x \in kinds THEN Append(k, x) ELSE k
    BY <1>8, <1>3
  <2> HIDE DEF k
  <2>3. CASE x \in kinds
    <3>1. /\ Append(k, x) \in Seq(X) /\ Len(Append(k, x)) = Len(k) + 1
          /\ \A i \in 1 .. Len(k) : Append(k, x)[i] = k[i]
          /\ Append(k, x)[Len(k) + 1] = x
      BY <2>1
    <3>2. ASSUME NEW i \in 1 .. Len(k) + 1
          PROVE Append(k, x)[i] \in kinds /\ \E j \in 1 .. n + 1 : Append(k, x)[i] = s[j]
      <4>1. CASE i = Len(k) + 1
        BY <4>1, <2>1, <2>3, <3>1, <1>3
      <4>2. CASE i \in 1 .. Len(k)
        BY <4>2, <2>1, <3>1, <1>3
      <4> QED  BY <4>1, <4>2, <2>1
    <3>3. ASSUME \A j \in 1 .. n + 1 : s[j] \in kinds PROVE Append(k, x) = SubSeq(s, 1, n + 1)
      <4>1. k = SubSeq(s, 1, n)
        <5>1. \A j \in 1 .. n : s[j] \in kinds
          BY <3>3, <1>3
        <5> QED  BY <5>1, <2>1, Zenon
      <4>2. Append(SubSeq(s, 1, n), s[n + 1]) = SubSeq(s, 1, n + 1)
        BY <2>5, <1>3
      <4> QED  BY <4>1, <4>2
    <3> DEFINE w == Append(k, x)
    <3>5. w \in Seq(X) /\ Len(w) <= n + 1
      BY <3>1, <2>1, <1>3
    <3>6. \A i \in 1 .. Len(w) : w[i] \in kinds /\ \E j \in 1 .. n + 1 : w[i] = s[j]
      BY <3>1, <3>2
    <3>7. (\A j \in 1 .. n + 1 : s[j] \in kinds) => w = SubSeq(s, 1, n + 1)
      BY <3>3
    <3>8. kept[n + 1] = w
      BY <2>2, <2>3
    <3> HIDE DEF w
    <3>4. Good(w, n + 1)
      BY <3>5, <3>6, <3>7
    <3> HIDE DEF Good
    <3> QED  BY <3>4, <3>8, <1>3
  <2>4. CASE x \notin kinds
    <3>1. Good(k, n + 1)
      BY <2>1, <2>4, <1>3
    <3> HIDE DEF Good
    <3> QED  BY <3>1, <2>2, <2>4, <1>3
  <2> QED  BY <2>3, <2>4
<1>6. Len(s) \in S
  <2> HIDE DEF S
  <2>1. 0 .. Len(s) \subseteq S
    BY <1>3, <1>4, <1>5, CountUp
  <2> QED  BY <1>3, <2>1
<1>7. SubSeq(s, 1, Len(s)) = s
  OBVIOUS
<1> QED  BY <1>1, <1>6, <1>7

Logs == [account : [Patrons -> Account], flows : Seq(Flow),
         archive : [Patrons -> Seq(Archived)], queries : [Patrons -> Seq(Int)],
         looked : [Patrons -> 0 .. LastHour]]
Bounded(l) == Len(l.flows) <= FlowsMax /\ \A p \in Patrons : Len(l.archive[p]) <= ArchiveMax

\* A list that is cut keeps its end.
LEMMA CappedIsEnd ==
    ASSUME NEW X, NEW s \in Seq(X), NEW k \in Nat
    PROVE  /\ Capped(s, k) \in Seq(X) /\ Len(Capped(s, k)) <= k
           /\ \E n \in 0 .. Len(s) :
                 /\ Len(Capped(s, k)) = Len(s) - n
                 /\ \A i \in 1 .. Len(s) - n : Capped(s, k)[i] = s[n + i]
<1>1. CASE Len(s) > k
  <2> DEFINE n == Len(s) - k
  <2>1. n \in 0 .. Len(s) /\ Len(s) - n = k /\ Len(s) - k + 1 = n + 1
    BY <1>1
  <2>2. Capped(s, k) = SubSeq(s, n + 1, Len(s))
    BY <1>1, <2>1 DEF Capped
  <2> HIDE DEF n
  <2>3. /\ Capped(s, k) \in Seq(X) /\ Len(Capped(s, k)) = Len(s) - n
        /\ \A i \in 1 .. Len(s) - n : Capped(s, k)[i] = s[n + i]
    BY <2>1, <2>2, EndOfList
  <2>4. Len(Capped(s, k)) <= k
    BY <2>1, <2>3
  <2> QED  BY <2>1, <2>3, <2>4
<1>2. CASE ~(Len(s) > k)
  <2>1. Capped(s, k) = s /\ 0 \in 0 .. Len(s) /\ Len(s) - 0 = Len(s) /\ Len(s) <= k
    BY <1>2 DEF Capped
  <2>2. \A i \in 1 .. Len(s) - 0 : Capped(s, k)[i] = s[0 + i]
    BY <2>1
  <2> QED  BY <2>1, <2>2
<1> QED  BY <1>1, <1>2

\* Nothing is left of a customer whose records are filtered out, and where there is nothing of him
\* the filter changes nothing.
LEMMA NotOfProperties ==
    ASSUME NEW p \in Patrons, NEW s \in Seq(Flow)
    PROVE  /\ NotOf(p, s) \in Seq(Flow) /\ Len(NotOf(p, s)) <= Len(s)
           /\ \A i \in 1 .. Len(NotOf(p, s)) :
                 /\ NotOf(p, s)[i].of # p
                 /\ \E j \in 1 .. Len(s) : NotOf(p, s)[i] = s[j]
           /\ (\A j \in 1 .. Len(s) : s[j].of # p) => NotOf(p, s) = s
<1> DEFINE K == {f \in Flow : f.of # p}
<1>1. NotOf(p, s) = Only(s, K)
  BY DEF NotOf
<1>2. \A j \in 1 .. Len(s) : s[j] \in Flow
  OBVIOUS
<1>3. \A f : f \in K <=> f \in Flow /\ f.of # p
  OBVIOUS
<1> HIDE DEF K
<1> QED  BY <1>1, <1>2, <1>3, OnlyProperties

\* Of the queries none is left that is older than wanted.
LEMMA WithinProperties ==
    ASSUME NEW s \in Seq(Int), NEW r
    PROVE  /\ Within(s, r) \in Seq(Int)
           /\ \A i \in 1 .. Len(Within(s, r)) : Within(s, r)[i] >= hour - r
<1> DEFINE K == {ts \in Int : ts >= hour - r}
<1>1. Within(s, r) = Only(s, K)
  BY DEF Within
<1>2. \A ts : ts \in K => ts >= hour - r
  OBVIOUS
<1> HIDE DEF K
<1> QED  BY <1>1, <1>2, OnlyProperties

\* A list with one entry more, which is then cut.
More(s, x, k) == Capped(Append(s, x), k)

\* An entry of a list to which one was appended, and which was then cut, is the new one or an old
\* one.
LEMMA MoreProperties ==
    ASSUME NEW X, NEW s \in Seq(X), NEW x \in X, NEW k \in Nat
    PROVE  /\ More(s, x, k) \in Seq(X) /\ Len(More(s, x, k)) <= k
           /\ \A i \in 1 .. Len(More(s, x, k)) :
                 More(s, x, k)[i] = x \/ \E j \in 1 .. Len(s) : More(s, x, k)[i] = s[j]
           /\ \A i, j \in 1 .. Len(More(s, x, k)) : i <= j =>
                 \/ More(s, x, k)[j] = x
                 \/ \E m, n \in 1 .. Len(s) :
                       m <= n /\ More(s, x, k)[i] = s[m] /\ More(s, x, k)[j] = s[n]
<1> DEFINE a == Append(s, x)
           c == Capped(a, k)
<1>1. /\ a \in Seq(X) /\ Len(a) = Len(s) + 1 /\ Len(s) \in Nat
      /\ \A i \in 1 .. Len(s) : a[i] = s[i]
      /\ a[Len(s) + 1] = x
  OBVIOUS
<1> HIDE DEF a
<1>7. /\ c \in Seq(X) /\ Len(c) <= k
      /\ \E n \in 0 .. Len(a) : /\ Len(c) = Len(a) - n
                               /\ \A i \in 1 .. Len(a) - n : c[i] = a[n + i]
  <2>1. a \in Seq(X) /\ k \in Nat
    BY <1>1
  <2>2. Capped(a, k) \in Seq(X) /\ Len(Capped(a, k)) <= k
    BY <2>1, CappedIsEnd
  <2>3. \E n \in 0 .. Len(a) :
           /\ Len(Capped(a, k)) = Len(a) - n
           /\ \A i \in 1 .. Len(a) - n : Capped(a, k)[i] = a[n + i]
    BY <2>1, CappedIsEnd, Zenon
  <2> QED  BY <2>2, <2>3
<1> HIDE DEF c
<1>2. c \in Seq(X) /\ Len(c) <= k
  BY <1>7
<1>3. PICK n \in 0 .. Len(a) : /\ Len(c) = Len(a) - n
                               /\ \A i \in 1 .. Len(a) - n : c[i] = a[n + i]
  BY <1>7
<1>4. ASSUME NEW i \in 1 .. Len(c)
      PROVE  c[i] = x \/ (n + i \in 1 .. Len(s) /\ c[i] = s[n + i])
  <2>1. c[i] = a[n + i] /\ n + i \in 1 .. Len(s) + 1
    BY <1>1, <1>3
  <2> QED  BY <2>1, <1>1
<1>5. \A i \in 1 .. Len(c) : c[i] = x \/ \E j \in 1 .. Len(s) : c[i] = s[j]
  BY <1>4
<1>6. ASSUME NEW i \in 1 .. Len(c), NEW j \in 1 .. Len(c), i <= j, c[j] # x
      PROVE  \E m, q \in 1 .. Len(s) : m <= q /\ c[i] = s[m] /\ c[j] = s[q]
  <2>1. n + j \in 1 .. Len(s) /\ c[j] = s[n + j]
    BY <1>4, <1>6
  <2>2. n + i \in 1 .. Len(s) /\ n + i <= n + j
    BY <1>1, <1>3, <1>6, <2>1
  <2>3. c[i] = s[n + i]
    BY <1>1, <1>3, <2>2
  <2> QED  BY <2>1, <2>2, <2>3
<1> HIDE DEF a
<1>8. More(s, x, k) = c
  BY DEF More, c, a
<1> QED  BY <1>2, <1>5, <1>6, <1>8

\* The types, of the state and of the file.
LEMMA LogTypes ==
    TrafficLogTypeOK <=> /\ hour \in 0 .. LastHour /\ gcDue \in BOOLEAN
                         /\ log \in Logs /\ Bounded(log) /\ disk \in Logs /\ Bounded(disk)
  BY DEF TrafficLogTypeOK, Logs, Bounded

\* At the start nothing is kept of anybody.
LEMMA FreshSound == TrafficLogInit => LoggingInv
<1> SUFFICES ASSUME TrafficLogInit PROVE LoggingInv
  OBVIOUS
<1> USE LoggingAssumption
<1> DEFINE a == [standing |-> "customer", private |-> FALSE, since |-> 0, retention |-> FirstRetention]
<1>1. a \in Account
  BY DEF Account, Standings
<1>2. /\ FreshLog.account = [p \in Patrons |-> a] /\ FreshLog.flows = <<>>
      /\ FreshLog.archive = [p \in Patrons |-> <<>>] /\ FreshLog.queries = [p \in Patrons |-> <<>>]
      /\ FreshLog.looked = [p \in Patrons |-> 0]
  BY DEF FreshLog
<1>3. a.standing = "customer" /\ a.private = FALSE /\ a.since = 0 /\ a.retention = FirstRetention
  OBVIOUS
<1>4. /\ [p \in Patrons |-> a] \in [Patrons -> Account]
      /\ [p \in Patrons |-> <<>>] \in [Patrons -> Seq(Archived)]
      /\ [p \in Patrons |-> <<>>] \in [Patrons -> Seq(Int)]
      /\ [p \in Patrons |-> 0] \in [Patrons -> 0 .. LastHour]
      /\ <<>> \in Seq(Flow)
  BY <1>1
<1> HIDE DEF a
<1>5. FreshLog \in Logs
  BY <1>4 DEF FreshLog, Logs, a
<1>6. Bounded(FreshLog)
  BY <1>2 DEF Bounded
<1>7. log = FreshLog /\ disk = FreshLog /\ hour = 0 /\ gcDue = FALSE
      /\ promised = [p \in Patrons |-> FALSE]
  BY DEF TrafficLogInit
<1>8. LogSound(FreshLog, hour, promised) /\ ArchiveFades(FreshLog, hour)
  <2>1. ASSUME NEW p \in Patrons
        PROVE  /\ FreshLog.account[p] = a /\ DOMAIN FreshLog.archive[p] = {}
               /\ DOMAIN FreshLog.flows = {} /\ DOMAIN FreshLog.queries[p] = {}
               /\ FreshLog.queries[p] = <<>> /\ promised[p] = FALSE
    BY <1>2, <1>7
  <2>2. FlowsObey(FreshLog, promised)
    BY <1>3, <2>1 DEF FlowsObey
  <2>3. ArchiveInOrder(FreshLog, hour) /\ ArchiveFades(FreshLog, hour)
    BY <2>1 DEF ArchiveInOrder, ArchiveFades
  <2>4. \A p \in Patrons : QueriesObey(FreshLog, p)
    BY <2>1 DEF QueriesObey
  <2> QED  BY <2>2, <2>3, <2>4 DEF LogSound
<1>10. TrafficLogTypeOK
  <2>1. 0 \in 0 .. LastHour
    OBVIOUS
  <2>2. /\ hour \in 0 .. LastHour /\ gcDue \in BOOLEAN
        /\ log \in Logs /\ Bounded(log) /\ disk \in Logs /\ Bounded(disk)
    BY <1>5, <1>6, <1>7, <2>1
  <2> QED  BY <2>2, LogTypes
<1> QED  BY <1>7, <1>8, <1>10 DEF LoggingInv

\* Of a list of queries that was looked through: the rest of the log stays.
LEMMA LookedFields ==
    ASSUME NEW l \in Logs, NEW p \in Patrons, NEW q \in Seq(Int), hour \in 0 .. LastHour
    PROVE  LET m == LookedThrough(l, p, q) IN
           /\ m \in Logs
           /\ m.account = l.account /\ m.flows = l.flows /\ m.archive = l.archive
           /\ m.queries[p] = q /\ m.looked[p] = hour
           /\ \A o \in Patrons \ {p} : m.queries[o] = l.queries[o] /\ m.looked[o] = l.looked[o]
<1> DEFINE qs == [l.queries EXCEPT ![p] = q]
           ls == [l.looked EXCEPT ![p] = hour]
           m == LookedThrough(l, p, q)
<1>1. l.queries \in [Patrons -> Seq(Int)] /\ l.looked \in [Patrons -> 0 .. LastHour]
  BY DEF Logs
<1>2. /\ qs \in [Patrons -> Seq(Int)] /\ qs[p] = q
      /\ \A o \in Patrons \ {p} : qs[o] = l.queries[o]
  BY <1>1
<1>3. /\ ls \in [Patrons -> 0 .. LastHour] /\ ls[p] = hour
      /\ \A o \in Patrons \ {p} : ls[o] = l.looked[o]
  BY <1>1
<1>4. m = [l EXCEPT !.queries = qs, !.looked = ls]
  BY DEF LookedThrough
<1> HIDE DEF qs, ls, m
<1>5. /\ m \in Logs /\ m.queries = qs /\ m.looked = ls
      /\ m.account = l.account /\ m.flows = l.flows /\ m.archive = l.archive
  BY <1>2, <1>3, <1>4 DEF Logs
<1> QED  BY <1>2, <1>3, <1>5 DEF m

\* A list of queries that was looked through, and is as the account wants it, leaves the log sound.
LEMMA LookSound ==
    ASSUME NEW l \in Logs, Bounded(l), NEW p \in Patrons, NEW q \in Seq(Int), NEW h, NEW told,
           hour \in 0 .. LastHour, FlowsObey(l, told), ArchiveInOrder(l, h),
           \A o \in Patrons \ {p} : QueriesObey(l, o),
           l.account[p].retention = 0 \/ l.account[p].standing = "deleted" => q = <<>>,
           \A i \in 1 .. Len(q) : q[i] >= hour - l.account[p].retention
    PROVE  LET m == LookedThrough(l, p, q) IN
           /\ m \in Logs /\ Bounded(m) /\ LogSound(m, h, told)
           /\ m.account = l.account /\ m.archive = l.archive
<1> DEFINE m == LookedThrough(l, p, q)
<1>1. /\ m \in Logs
      /\ m.account = l.account /\ m.flows = l.flows /\ m.archive = l.archive
      /\ m.queries[p] = q /\ m.looked[p] = hour
      /\ \A o \in Patrons \ {p} : m.queries[o] = l.queries[o] /\ m.looked[o] = l.looked[o]
  BY LookedFields
<1> HIDE DEF m
<1>2. Bounded(m)
  BY <1>1 DEF Bounded
<1>3. FlowsObey(m, told) /\ ArchiveInOrder(m, h)
  BY <1>1 DEF FlowsObey, ArchiveInOrder
<1>4. QueriesObey(m, p)
  BY <1>1 DEF QueriesObey
<1>5. ASSUME NEW o \in Patrons \ {p} PROVE QueriesObey(m, o)
  <2>1. QueriesObey(l, o)
    OBVIOUS
  <2> QED  BY <1>1, <2>1 DEF QueriesObey
<1>6. LogSound(m, h, told)
  BY <1>3, <1>4, <1>5 DEF LogSound
<1> QED  BY <1>1, <1>2, <1>6 DEF m

\* What was sound stays so as time passes.
LEMMA SoundLater ==
    ASSUME NEW l \in Logs, NEW h \in Int, NEW g \in Int, h <= g, NEW told, LogSound(l, h, told)
    PROVE  LogSound(l, g, told)
<1>1. ASSUME NEW p \in Patrons, NEW i \in DOMAIN l.archive[p] PROVE l.archive[p][i].at \in Int
  <2>1. l.archive[p] \in Seq(Archived)
    BY DEF Logs
  <2>2. l.archive[p][i] \in Archived
    BY <2>1
  <2> QED  BY <2>2 DEF Archived
<1>2. ArchiveInOrder(l, h)
  BY DEF LogSound
<1>3. ArchiveInOrder(l, g)
  <2>1. ASSUME NEW p \in Patrons, NEW i \in DOMAIN l.archive[p] PROVE l.archive[p][i].at <= g
    <3>1. l.archive[p][i].at <= h
      BY <1>2 DEF ArchiveInOrder
    <3> QED  BY <1>1, <3>1
  <2> QED  BY <1>2, <2>1 DEF ArchiveInOrder
<1> QED  BY <1>3 DEF LogSound

\* A call of a customer is saved at once.
LEMMA SavedStep ==
    ASSUME LoggingInv, log' \in Logs, Bounded(log'), LogSound(log', hour, promised'),
           log'.archive = log.archive, promised' \in [Patrons -> BOOLEAN], Saved,
           UNCHANGED <<hour, gcDue>>
    PROVE  LoggingInv'
<1>1. /\ hour' \in 0 .. LastHour /\ gcDue' \in BOOLEAN
      /\ log' \in Logs /\ Bounded(log') /\ disk' \in Logs /\ Bounded(disk')
  BY LogTypes DEF LoggingInv, Saved
<1>2. TrafficLogTypeOK'
  BY <1>1 DEF TrafficLogTypeOK, Logs, Bounded
<1>3. ~gcDue' => ArchiveFades(log', hour')
  <2>1. ~gcDue => ArchiveFades(log, hour)
    BY DEF LoggingInv
  <2> QED  BY <2>1 DEF ArchiveFades
<1>4. log'.account = disk'.account /\ LogSound(log', hour', promised')
      /\ LogSound(disk', hour', promised')
  BY DEF Saved
<1> QED  BY <1>2, <1>3, <1>4 DEF LoggingInv

\* Of the state before a step of the log.
LEMMA LogFacts ==
    ASSUME LoggingInv
    PROVE  /\ hour \in 0 .. LastHour /\ gcDue \in BOOLEAN /\ LastHour \in Nat
           /\ log \in Logs /\ Bounded(log) /\ disk \in Logs /\ Bounded(disk)
           /\ log.account \in [Patrons -> Account] /\ log.flows \in Seq(Flow)
           /\ promised \in [Patrons -> BOOLEAN] /\ log.account = disk.account
           /\ LogSound(log, hour, promised) /\ LogSound(disk, hour, promised)
           /\ ~gcDue => ArchiveFades(log, hour)
  BY LogTypes, LoggingAssumption DEF LoggingInv, Logs

\* The account of one customer changes, and flows are at most taken out.
LEMMA AccountSound ==
    ASSUME LoggingInv, NEW p \in Patrons, NEW m \in Logs, NEW told,
           m.archive = log.archive, m.queries = log.queries, m.looked = log.looked,
           \A o \in Patrons \ {p} : m.account[o] = log.account[o] /\ told[o] = promised[o],
           Len(m.flows) <= Len(log.flows),
           \A i \in DOMAIN m.flows : \E j \in DOMAIN log.flows : m.flows[i] = log.flows[j],
           m.account[p].private \/ m.account[p].standing = "deleted" =>
              \A i \in DOMAIN m.flows : m.flows[i].of # p,
           m.account[p].private =>
              \A i \in DOMAIN log.archive[p] : log.archive[p][i].at <= m.account[p].since,
           m.account[p].standing = "customer" => m.account[p].private = told[p]
    PROVE  /\ Bounded(m) /\ FlowsObey(m, told) /\ ArchiveInOrder(m, hour)
           /\ \A o \in Patrons \ {p} : QueriesObey(m, o)
<1> USE LoggingAssumption, LogFacts
<1>1. /\ FlowsObey(log, promised) /\ ArchiveInOrder(log, hour)
      /\ \A o \in Patrons : QueriesObey(log, o)
  BY DEF LogSound
<1>2. Bounded(m)
  <2>1. Len(m.flows) \in Nat /\ Len(log.flows) \in Nat
    BY DEF Logs
  <2> QED  BY <2>1 DEF Bounded
<1>3. ArchiveInOrder(m, hour)
  BY <1>1 DEF ArchiveInOrder
<1>4. ASSUME NEW o \in Patrons \ {p} PROVE QueriesObey(m, o)
  <2>1. QueriesObey(log, o)
    BY <1>1
  <2> QED  BY <2>1 DEF QueriesObey
<1>5. ASSUME NEW o \in Patrons, m.account[o].private \/ m.account[o].standing = "deleted",
             NEW i \in DOMAIN m.flows
      PROVE  m.flows[i].of # o
  <2>1. CASE o = p
    BY <1>5, <2>1
  <2>2. CASE o # p
    <3>1. \A j \in DOMAIN log.flows : log.flows[j].of # o
      BY <1>1, <1>5, <2>2 DEF FlowsObey
    <3> QED  BY <3>1
  <2> QED  BY <2>1, <2>2
<1>6. ASSUME NEW o \in Patrons
      PROVE  /\ m.account[o].standing = "customer" => m.account[o].private = told[o]
             /\ m.account[o].private =>
                   \A i \in DOMAIN m.archive[o] : m.archive[o][i].at <= m.account[o].since
  <2>1. CASE o = p
    BY <2>1
  <2>2. CASE o # p
    BY <1>1, <2>2 DEF FlowsObey
  <2> QED  BY <2>1, <2>2
<1>7. FlowsObey(m, told)
  BY <1>5, <1>6 DEF FlowsObey
<1> QED  BY <1>2, <1>3, <1>4, <1>7

\* A customer chooses how long queries are kept.
LEMMA RetentionStep ==
    ASSUME LoggingInv, NEW p \in Patrons, NEW r \in Retentions, SetRetention(p, r)
    PROVE  LoggingInv'
<1> USE LogFacts, LoggingAssumption
<1> DEFINE a == [log.account[p] EXCEPT !.retention = r]
           l == [log EXCEPT !.account[p].retention = r]
           q == IF r = 0 THEN <<>> ELSE Within(log.queries[p], r)
<1>1. log' = LookedThrough(l, p, q) /\ Saved /\ UNCHANGED <<hour, gcDue, promised>>
      /\ log.account[p].standing = "customer"
  BY DEF SetRetention, IsCustomer
<1>2. log.account[p] \in Account
  OBVIOUS
<1>3. /\ a \in Account /\ a.retention = r /\ a.standing = log.account[p].standing
      /\ a.private = log.account[p].private /\ a.since = log.account[p].since
  BY <1>2 DEF Account, Standings
<1>4. l = [log EXCEPT !.account = [log.account EXCEPT ![p] = a]]
  OBVIOUS
<1> HIDE DEF a, l
<1>5. /\ l \in Logs /\ l.account = [log.account EXCEPT ![p] = a] /\ l.flows = log.flows
      /\ l.archive = log.archive /\ l.queries = log.queries /\ l.looked = log.looked
  <2> DEFINE b == [log.account EXCEPT ![p] = a]
  <2>1. b \in [Patrons -> Account]
    BY <1>3
  <2> HIDE DEF b
  <2> QED  BY <1>4, <2>1 DEF Logs, b
<1>6. /\ Bounded(l) /\ FlowsObey(l, promised) /\ ArchiveInOrder(l, hour)
      /\ \A o \in Patrons \ {p} : QueriesObey(l, o)
  <2>1. FlowsObey(log, promised)
    BY DEF LogSound
  <2>2. l.account[p] = a /\ \A o \in Patrons \ {p} : l.account[o] = log.account[o]
    BY <1>5
  <2>3. a.private \/ a.standing = "deleted" => \A i \in DOMAIN l.flows : l.flows[i].of # p
    BY <1>3, <1>5, <2>1 DEF FlowsObey
  <2>4. /\ a.private => \A i \in DOMAIN log.archive[p] : log.archive[p][i].at <= a.since
        /\ a.standing = "customer" => a.private = promised[p]
    BY <1>3, <1>5, <2>1 DEF FlowsObey
  <2>5. /\ Len(l.flows) <= Len(log.flows)
        /\ \A i \in DOMAIN l.flows : \E j \in DOMAIN log.flows : l.flows[i] = log.flows[j]
    BY <1>5
  <2> QED  BY <1>5, <2>2, <2>3, <2>4, <2>5, AccountSound
<1>7. q \in Seq(Int) /\ \A i \in 1 .. Len(q) : q[i] >= hour - r
  <2>1. log.queries[p] \in Seq(Int)
    BY DEF Logs
  <2>2. CASE r = 0
    BY <2>2
  <2>3. CASE r # 0
    BY <2>1, <2>3, WithinProperties
  <2> QED  BY <2>2, <2>3
<1>8. l.account[p].retention = r /\ l.account[p].standing = "customer" /\ (r = 0 => q = <<>>)
  BY <1>1, <1>3, <1>5
<1> HIDE DEF q
<1>9. /\ log' \in Logs /\ Bounded(log') /\ LogSound(log', hour, promised)
      /\ log'.archive = l.archive
  BY <1>1, <1>5, <1>6, <1>7, <1>8, LookSound
<1> QED  BY <1>1, <1>5, <1>9, SavedStep

\* The log with another account of one customer, and with other flows.
Rewritten(p, a, f) == [log EXCEPT !.flows = f, !.account = [log.account EXCEPT ![p] = a]]

\* That log has its type, and the rest of it stays.
LEMMA AccountPut ==
    ASSUME LoggingInv, NEW p \in Patrons, NEW a \in Account, NEW f \in Seq(Flow)
    PROVE  /\ Rewritten(p, a, f) \in Logs
           /\ Rewritten(p, a, f).account[p] = a /\ Rewritten(p, a, f).flows = f
           /\ \A o \in Patrons \ {p} : Rewritten(p, a, f).account[o] = log.account[o]
           /\ Rewritten(p, a, f).archive = log.archive /\ Rewritten(p, a, f).queries = log.queries
           /\ Rewritten(p, a, f).looked = log.looked
<1> USE LogFacts
<1> DEFINE b == [log.account EXCEPT ![p] = a]
           m == Rewritten(p, a, f)
<1>1. b \in [Patrons -> Account] /\ b[p] = a
      /\ \A o \in Patrons \ {p} : b[o] = log.account[o]
  OBVIOUS
<1>2. m = [log EXCEPT !.flows = f, !.account = b]
  BY DEF Rewritten
<1> HIDE DEF b, m
<1>3. /\ m \in Logs /\ m.account = b /\ m.flows = f
      /\ m.archive = log.archive /\ m.queries = log.queries /\ m.looked = log.looked
  BY <1>1, <1>2 DEF Logs
<1> QED  BY <1>1, <1>3 DEF m

\* The account of a customer is deleted.
LEMMA DeletionStep ==
    ASSUME LoggingInv, NEW p \in Patrons, FinalizeDeletion(p)
    PROVE  LoggingInv'
<1> USE LogFacts
<1> DEFINE a == [log.account[p] EXCEPT !.standing = "deleted"]
           f == NotOf(p, log.flows)
           m == [log EXCEPT !.account[p].standing = "deleted", !.flows = NotOf(p, @)]
<1>1. log' = LookedThrough(m, p, <<>>) /\ Saved /\ UNCHANGED <<hour, gcDue, promised>>
  BY DEF FinalizeDeletion
<1>2. /\ a \in Account /\ a.standing = "deleted"
      /\ a.private = log.account[p].private /\ a.since = log.account[p].since
  <2>1. log.account[p] \in Account
    OBVIOUS
  <2> QED  BY <2>1 DEF Account, Standings
<1>3. /\ f \in Seq(Flow) /\ Len(f) <= Len(log.flows)
      /\ \A i \in 1 .. Len(f) : f[i].of # p /\ \E j \in 1 .. Len(log.flows) : f[i] = log.flows[j]
  BY NotOfProperties
<1>4. m = Rewritten(p, a, f)
  <2>1. DOMAIN log = {"account", "flows", "archive", "queries", "looked"}
    BY DEF Logs
  <2> QED  BY <2>1 DEF Rewritten
<1> HIDE DEF a, f, m
<1>5. /\ m \in Logs /\ m.account[p] = a /\ m.flows = f
      /\ \A o \in Patrons \ {p} : m.account[o] = log.account[o]
      /\ m.archive = log.archive /\ m.queries = log.queries /\ m.looked = log.looked
  BY <1>2, <1>3, <1>4, AccountPut
<1>6. /\ Bounded(m) /\ FlowsObey(m, promised) /\ ArchiveInOrder(m, hour)
      /\ \A o \in Patrons \ {p} : QueriesObey(m, o)
  <2>1. FlowsObey(log, promised)
    BY DEF LogSound
  <2>2. a.private => \A i \in DOMAIN log.archive[p] : log.archive[p][i].at <= a.since
    BY <1>2, <2>1 DEF FlowsObey
  <2>3. DOMAIN m.flows = 1 .. Len(f) /\ DOMAIN log.flows = 1 .. Len(log.flows)
    BY <1>3, <1>5
  <2>4. /\ Len(m.flows) <= Len(log.flows)
        /\ \A i \in DOMAIN m.flows : \E j \in DOMAIN log.flows : m.flows[i] = log.flows[j]
        /\ \A i \in DOMAIN m.flows : m.flows[i].of # p
    BY <1>3, <1>5, <2>3
  <2> QED  BY <1>2, <1>5, <2>2, <2>4, AccountSound
<1>7. /\ log' \in Logs /\ Bounded(log') /\ LogSound(log', hour, promised)
      /\ log'.archive = m.archive
  <2> DEFINE q == <<>>
  <2>1. q \in Seq(Int) /\ \A i \in 1 .. Len(q) : q[i] >= hour - m.account[p].retention
    OBVIOUS
  <2>2. m.account[p].retention = 0 \/ m.account[p].standing = "deleted" => q = <<>>
    OBVIOUS
  <2>3. log' = LookedThrough(m, p, q)
    BY <1>1
  <2> HIDE DEF q
  <2> QED  BY <1>5, <1>6, <2>1, <2>2, <2>3, LookSound
<1> QED  BY <1>1, <1>5, <1>7, SavedStep

\* The staff takes an account away: of the queries and the archive all stays, of the ring all or
\* the flows of the others.
LEMMA DropStep ==
    ASSUME LoggingInv, NEW p \in Patrons, NEW flowsToo \in BOOLEAN, DropAccount(p, flowsToo)
    PROVE  LoggingInv'
<1> USE LogFacts
<1> DEFINE a == [log.account[p] EXCEPT !.standing = "dropped"]
           f == IF flowsToo THEN NotOf(p, log.flows) ELSE log.flows
           m == [log EXCEPT !.account[p].standing = "dropped",
                            !.flows = IF flowsToo THEN NotOf(p, @) ELSE @]
<1>1. log' = m /\ Saved /\ UNCHANGED <<hour, gcDue, promised>>
  BY DEF DropAccount
<1>2. /\ a \in Account /\ a.standing = "dropped" /\ a.retention = log.account[p].retention
      /\ a.private = log.account[p].private /\ a.since = log.account[p].since
  <2>1. log.account[p] \in Account
    OBVIOUS
  <2> QED  BY <2>1 DEF Account, Standings
<1>3. FlowsObey(log, promised) /\ QueriesObey(log, p)
  BY DEF LogSound
<1>4. /\ f \in Seq(Flow) /\ Len(f) <= Len(log.flows)
      /\ \A i \in DOMAIN f : \E j \in DOMAIN log.flows : f[i] = log.flows[j]
      /\ a.private => \A i \in DOMAIN f : f[i].of # p
  <2>1. CASE flowsToo
    <3>1. f = NotOf(p, log.flows)
      BY <2>1
    <3> HIDE DEF f, a
    <3>2. /\ f \in Seq(Flow) /\ Len(f) <= Len(log.flows)
          /\ \A i \in 1 .. Len(f) :
                f[i].of # p /\ \E j \in 1 .. Len(log.flows) : f[i] = log.flows[j]
      <4> DEFINE g == NotOf(p, log.flows)
      <4>1. /\ g \in Seq(Flow) /\ Len(g) <= Len(log.flows)
            /\ \A i \in 1 .. Len(g) :
                  g[i].of # p /\ \E j \in 1 .. Len(log.flows) : g[i] = log.flows[j]
        BY NotOfProperties
      <4> HIDE DEF g
      <4> QED  BY <3>1, <4>1 DEF g
    <3>3. DOMAIN f = 1 .. Len(f) /\ DOMAIN log.flows = 1 .. Len(log.flows)
      BY <3>2
    <3> QED  BY <3>2, <3>3
  <2>2. CASE ~flowsToo
    <3>1. f = log.flows /\ Len(log.flows) \in Nat
      BY <2>2
    <3>2. a.private => \A i \in DOMAIN log.flows : log.flows[i].of # p
      BY <1>2, <1>3 DEF FlowsObey
    <3> HIDE DEF f, a
    <3> QED  BY <3>1, <3>2
  <2> QED  BY <2>1, <2>2
<1>5. m = Rewritten(p, a, f)
  <2>1. DOMAIN log = {"account", "flows", "archive", "queries", "looked"}
    BY DEF Logs
  <2> QED  BY <2>1 DEF Rewritten
<1> HIDE DEF a, f, m
<1>6. /\ m \in Logs /\ m.account[p] = a /\ m.flows = f
      /\ \A o \in Patrons \ {p} : m.account[o] = log.account[o]
      /\ m.archive = log.archive /\ m.queries = log.queries /\ m.looked = log.looked
  BY <1>2, <1>4, <1>5, AccountPut
<1>7. /\ Bounded(m) /\ FlowsObey(m, promised) /\ ArchiveInOrder(m, hour)
      /\ \A o \in Patrons \ {p} : QueriesObey(m, o)
  <2>1. a.private => \A i \in DOMAIN log.archive[p] : log.archive[p][i].at <= a.since
    BY <1>2, <1>3 DEF FlowsObey
  <2>2. /\ Len(m.flows) <= Len(log.flows)
        /\ \A i \in DOMAIN m.flows : \E j \in DOMAIN log.flows : m.flows[i] = log.flows[j]
        /\ a.private => \A i \in DOMAIN m.flows : m.flows[i].of # p
    BY <1>4, <1>6
  <2> QED  BY <1>2, <1>6, <2>1, <2>2, AccountSound
<1>8. QueriesObey(m, p)
  BY <1>2, <1>3, <1>6 DEF QueriesObey
<1>9. LogSound(m, hour, promised)
  BY <1>7, <1>8 DEF LogSound
<1> QED  BY <1>1, <1>6, <1>7, <1>9, SavedStep

\* The names of those who are no customers are taken out.
LEMMA AutofixStep == LoggingInv /\ Autofix => LoggingInv'
<1> SUFFICES ASSUME LoggingInv, Autofix PROVE LoggingInv'
  OBVIOUS
<1> USE LogFacts
<1> DEFINE qs == [p \in Patrons |-> IF IsCustomer(p) THEN log.queries[p] ELSE <<>>]
           m == [log EXCEPT !.queries = qs]
<1>1. log' = m /\ Saved /\ UNCHANGED <<hour, gcDue, promised>>
  BY DEF Autofix
<1>2. log.queries \in [Patrons -> Seq(Int)]
  BY DEF Logs
<1>3. qs \in [Patrons -> Seq(Int)] /\ \A p \in Patrons : qs[p] = log.queries[p] \/ qs[p] = <<>>
  BY <1>2
<1> HIDE DEF qs
<1>4. /\ m \in Logs /\ m.queries = qs /\ m.account = log.account /\ m.flows = log.flows
      /\ m.archive = log.archive /\ m.looked = log.looked
  BY <1>3 DEF Logs
<1> HIDE DEF m
<1>5. Bounded(m)
  BY <1>4 DEF Bounded
<1>6. FlowsObey(m, promised) /\ ArchiveInOrder(m, hour)
  BY <1>4 DEF LogSound, FlowsObey, ArchiveInOrder
<1>7. ASSUME NEW p \in Patrons PROVE QueriesObey(m, p)
  <2>1. QueriesObey(log, p)
    BY DEF LogSound
  <2>2. CASE qs[p] = log.queries[p]
    BY <1>4, <2>1, <2>2 DEF QueriesObey
  <2>3. CASE qs[p] = <<>>
    BY <1>4, <2>3 DEF QueriesObey
  <2> QED  BY <1>3, <2>2, <2>3
<1>8. LogSound(m, hour, promised)
  BY <1>6, <1>7 DEF LogSound
<1> QED  BY <1>1, <1>4, <1>5, <1>8, SavedStep

\* A customer switches the privacy mode on or off.
LEMMA PrivacyStep ==
    ASSUME LoggingInv, NEW p \in Patrons, NEW on \in BOOLEAN, SetPrivacy(p, on)
    PROVE  LoggingInv'
<1> USE LogFacts, LoggingAssumption
<1>1. /\ Saved /\ UNCHANGED <<hour, gcDue>> /\ log.account[p].standing = "customer"
      /\ promised' = [promised EXCEPT ![p] = on]
      /\ log' = IF on THEN MadePrivate(p)
                ELSE [log EXCEPT !.account[p].private = FALSE, !.account[p].since = 0]
  BY DEF SetPrivacy, IsCustomer
<1>2. /\ promised' \in [Patrons -> BOOLEAN] /\ promised'[p] = on
      /\ \A o \in Patrons \ {p} : promised'[o] = promised[o]
  BY <1>1
<1>12. log.account[p] \in Account
  OBVIOUS
<1>3. CASE on
  <2> DEFINE a == [standing |-> "customer", private |-> TRUE, since |-> hour, retention |-> 0]
             f == NotOf(p, log.flows)
             m == [log EXCEPT !.flows = NotOf(p, @), !.account[p] = a]
  <2>1. log' = LookedThrough(m, p, <<>>)
    BY <1>1, <1>3 DEF MadePrivate
  <2>2. /\ a \in Account /\ a.standing = "customer" /\ a.private = TRUE /\ a.since = hour
        /\ a.retention = 0
    BY DEF Account, Standings
  <2>3. /\ f \in Seq(Flow) /\ Len(f) <= Len(log.flows)
        /\ \A i \in 1 .. Len(f) : f[i].of # p /\ \E j \in 1 .. Len(log.flows) : f[i] = log.flows[j]
    BY NotOfProperties
  <2>4. m = Rewritten(p, a, f)
    BY DEF Rewritten
  <2> HIDE DEF a, f, m
  <2>5. /\ m \in Logs /\ m.account[p] = a /\ m.flows = f
        /\ \A o \in Patrons \ {p} : m.account[o] = log.account[o]
        /\ m.archive = log.archive /\ m.queries = log.queries /\ m.looked = log.looked
    BY <2>2, <2>3, <2>4, AccountPut
  <2>6. /\ Bounded(m) /\ FlowsObey(m, promised') /\ ArchiveInOrder(m, hour)
        /\ \A o \in Patrons \ {p} : QueriesObey(m, o)
    <3>1. ArchiveInOrder(log, hour)
      BY DEF LogSound
    <3>2. \A i \in DOMAIN log.archive[p] : log.archive[p][i].at <= a.since
      BY <2>2, <3>1 DEF ArchiveInOrder
    <3>3. DOMAIN m.flows = 1 .. Len(f) /\ DOMAIN log.flows = 1 .. Len(log.flows)
      BY <2>3, <2>5
    <3>4. /\ Len(m.flows) <= Len(log.flows)
          /\ \A i \in DOMAIN m.flows : \E j \in DOMAIN log.flows : m.flows[i] = log.flows[j]
          /\ \A i \in DOMAIN m.flows : m.flows[i].of # p
      BY <2>3, <2>5, <3>3
    <3>9. PICK told : told = promised'
      OBVIOUS
    <3>5. told[p] = TRUE /\ \A o \in Patrons \ {p} : told[o] = promised[o]
      BY <1>2, <1>3, <3>9
    <3>6. /\ Bounded(m) /\ FlowsObey(m, told) /\ ArchiveInOrder(m, hour)
          /\ \A o \in Patrons \ {p} : QueriesObey(m, o)
      <4>1. m.account[p].private \/ m.account[p].standing = "deleted" =>
              \A i \in DOMAIN m.flows : m.flows[i].of # p
        BY <3>4
      <4>2. m.account[p].private =>
              \A i \in DOMAIN log.archive[p] : log.archive[p][i].at <= m.account[p].since
        BY <2>5, <3>2
      <4>3. m.account[p].standing = "customer" => m.account[p].private = told[p]
        BY <2>2, <2>5, <3>5
      <4>4. \A o \in Patrons \ {p} : m.account[o] = log.account[o] /\ told[o] = promised[o]
        BY <2>5, <3>5
      <4> QED  BY <2>5, <3>4, <4>1, <4>2, <4>3, <4>4, AccountSound
    <3> QED  BY <3>6, <3>9
  <2>7. /\ log' \in Logs /\ Bounded(log') /\ LogSound(log', hour, promised')
        /\ log'.archive = m.archive
    <3> DEFINE q == <<>>
    <3>1. q \in Seq(Int) /\ \A i \in 1 .. Len(q) : q[i] >= hour - m.account[p].retention
      OBVIOUS
    <3>2. m.account[p].retention = 0 \/ m.account[p].standing = "deleted" => q = <<>>
      OBVIOUS
    <3>3. log' = LookedThrough(m, p, q)
      BY <2>1
    <3> HIDE DEF q
    <3> QED  BY <2>5, <2>6, <3>1, <3>2, <3>3, LookSound
  <2> QED  BY <1>1, <1>2, <2>5, <2>7, SavedStep
<1>4. CASE ~on
  <2> DEFINE a == [log.account[p] EXCEPT !.private = FALSE, !.since = 0]
             m == [log EXCEPT !.account[p].private = FALSE, !.account[p].since = 0]
  <2>1. log' = m
    BY <1>1, <1>4
  <2>2. /\ a \in Account /\ a.standing = log.account[p].standing /\ a.private = FALSE
        /\ a.retention = log.account[p].retention
    <3> DEFINE b == [log.account[p] EXCEPT !.private = FALSE]
    <3>1. /\ b \in Account /\ b.standing = log.account[p].standing /\ b.private = FALSE
          /\ b.retention = log.account[p].retention
      BY <1>12 DEF Account, Standings
    <3>2. a = [b EXCEPT !.since = 0] /\ 0 \in 0 .. LastHour
      BY <1>12 DEF Account, Standings
    <3> HIDE DEF a, b
    <3>3. a \in Account /\ a.standing = b.standing /\ a.private = b.private
          /\ a.retention = b.retention
      BY <3>1, <3>2 DEF Account, Standings
    <3> QED  BY <3>1, <3>3
  <2>3. m = Rewritten(p, a, log.flows)
    <3>1. DOMAIN log = {"account", "flows", "archive", "queries", "looked"}
      BY DEF Logs
    <3> QED  BY <3>1 DEF Rewritten
  <2> HIDE DEF a, m
  <2>4. /\ m \in Logs /\ m.account[p] = a /\ m.flows = log.flows
        /\ \A o \in Patrons \ {p} : m.account[o] = log.account[o]
        /\ m.archive = log.archive /\ m.queries = log.queries /\ m.looked = log.looked
    BY <2>2, <2>3, AccountPut
  <2>5. /\ Bounded(m) /\ FlowsObey(m, promised') /\ ArchiveInOrder(m, hour)
        /\ \A o \in Patrons \ {p} : QueriesObey(m, o)
    <3>1. FlowsObey(log, promised)
      BY DEF LogSound
    <3>2. a.private \/ a.standing = "deleted" => \A i \in DOMAIN m.flows : m.flows[i].of # p
      BY <1>1, <2>2
    <3>3. a.private => \A i \in DOMAIN log.archive[p] : log.archive[p][i].at <= a.since
      BY <2>2
    <3>4. /\ Len(m.flows) <= Len(log.flows)
          /\ \A i \in DOMAIN m.flows : \E j \in DOMAIN log.flows : m.flows[i] = log.flows[j]
      BY <2>4
    <3>5. a.standing = "customer" => a.private = promised'[p]
      BY <1>2, <1>4, <2>2
    <3>9. PICK told : told = promised'
      OBVIOUS
    <3>6. told[p] = on /\ \A o \in Patrons \ {p} : told[o] = promised[o]
      BY <1>2, <3>9
    <3>7. a.standing = "customer" => a.private = told[p]
      BY <3>5, <3>9
    <3>8. /\ Bounded(m) /\ FlowsObey(m, told) /\ ArchiveInOrder(m, hour)
          /\ \A o \in Patrons \ {p} : QueriesObey(m, o)
      <4>1. m.account[p].private \/ m.account[p].standing = "deleted" =>
              \A i \in DOMAIN m.flows : m.flows[i].of # p
        BY <2>4, <3>2
      <4>2. m.account[p].private =>
              \A i \in DOMAIN log.archive[p] : log.archive[p][i].at <= m.account[p].since
        BY <2>4, <3>3
      <4>3. m.account[p].standing = "customer" => m.account[p].private = told[p]
        BY <2>4, <3>7
      <4>4. \A o \in Patrons \ {p} : m.account[o] = log.account[o] /\ told[o] = promised[o]
        BY <2>4, <3>6
      <4> QED  BY <2>4, <3>4, <4>1, <4>2, <4>3, <4>4, AccountSound
    <3> QED  BY <3>8, <3>9
  <2>6. QueriesObey(m, p)
    <3>1. QueriesObey(log, p)
      BY DEF LogSound
    <3> QED  BY <2>2, <2>4, <3>1 DEF QueriesObey
  <2>7. LogSound(m, hour, promised')
    BY <2>5, <2>6 DEF LogSound
  <2> QED  BY <1>1, <1>2, <2>1, <2>4, <2>5, <2>7, SavedStep
<1> QED  BY <1>3, <1>4

\* A report of a box changes the log and nothing else.
LEMMA ReportedStep ==
    ASSUME LoggingInv, log' \in Logs, Bounded(log'), LogSound(log', hour, promised),
           log'.account = log.account, ~gcDue => ArchiveFades(log', hour),
           UNCHANGED <<hour, gcDue, disk, promised>>
    PROVE  LoggingInv'
<1>1. /\ hour' \in 0 .. LastHour /\ gcDue' \in BOOLEAN
      /\ log' \in Logs /\ Bounded(log') /\ disk' \in Logs /\ Bounded(disk')
  BY LogFacts
<1>2. TrafficLogTypeOK'
  BY <1>1 DEF TrafficLogTypeOK, Logs, Bounded
<1> QED  BY <1>2, LogFacts DEF LoggingInv

\* The log with other flows and another archive of one customer.
Arrival(p, f, c) == [log EXCEPT !.flows = f, !.archive = [log.archive EXCEPT ![p] = c]]

\* That log has its type, and the rest of it stays.
LEMMA ArrivalFields ==
    ASSUME LoggingInv, NEW p \in Patrons, NEW f \in Seq(Flow), NEW c \in Seq(Archived)
    PROVE  /\ Arrival(p, f, c) \in Logs
           /\ Arrival(p, f, c).flows = f /\ Arrival(p, f, c).archive[p] = c
           /\ \A o \in Patrons \ {p} : Arrival(p, f, c).archive[o] = log.archive[o]
           /\ Arrival(p, f, c).account = log.account
           /\ Arrival(p, f, c).queries = log.queries /\ Arrival(p, f, c).looked = log.looked
<1> USE LogFacts
<1> DEFINE b == [log.archive EXCEPT ![p] = c]
           m == Arrival(p, f, c)
<1>0. log.archive \in [Patrons -> Seq(Archived)]
  BY DEF Logs
<1>1. b \in [Patrons -> Seq(Archived)] /\ b[p] = c
      /\ \A o \in Patrons \ {p} : b[o] = log.archive[o]
  BY <1>0
<1>2. m = [log EXCEPT !.flows = f, !.archive = b]
  BY DEF Arrival
<1> HIDE DEF b, m
<1>3. /\ m \in Logs /\ m.archive = b /\ m.flows = f
      /\ m.account = log.account /\ m.queries = log.queries /\ m.looked = log.looked
  BY <1>1, <1>2 DEF Logs
<1> QED  BY <1>1, <1>3 DEF m

\* Of an archive to which one entry was added, and which was then cut.
LEMMA ArchivedMore ==
    ASSUME LoggingInv, NEW p \in Patrons, NEW x \in Archived, x.at = hour, x.ts <= hour + Early
    PROVE  LET c == More(log.archive[p], x, ArchiveMax) IN
           /\ c \in Seq(Archived) /\ Len(c) <= ArchiveMax
           /\ \A i \in DOMAIN c : c[i].at <= hour /\ c[i].ts <= c[i].at + Early
           /\ \A i, j \in DOMAIN c : i <= j => c[i].at <= c[j].at
           /\ ~gcDue => \A i \in DOMAIN c : hour - c[i].at <= ArchiveRetention + Early
<1> DEFINE s == log.archive[p]
           c == More(s, x, ArchiveMax)
<1>1. s \in Seq(Archived) /\ ArchiveMax \in Nat /\ ArchiveRetention \in Nat /\ Early \in Nat
      /\ hour \in Int
  BY LogFacts, LoggingAssumption DEF Logs
<1>2. /\ \A i \in DOMAIN s : s[i].at <= hour /\ s[i].ts <= s[i].at + Early
      /\ \A i, j \in DOMAIN s : i <= j => s[i].at <= s[j].at
  BY LogFacts DEF LogSound, ArchiveInOrder
<1>3. ~gcDue => \A i \in DOMAIN s : hour - s[i].at <= ArchiveRetention + Early
  BY LogFacts DEF ArchiveFades
<1> HIDE DEF s
<1>9. x \in Archived /\ s \in Seq(Archived) /\ ArchiveMax \in Nat
  BY <1>1
<1>4. /\ c \in Seq(Archived) /\ Len(c) <= ArchiveMax
      /\ \A i \in 1 .. Len(c) : c[i] = x \/ \E j \in 1 .. Len(s) : c[i] = s[j]
      /\ \A i, j \in 1 .. Len(c) : i <= j =>
            \/ c[j] = x
            \/ \E m, n \in 1 .. Len(s) : m <= n /\ c[i] = s[m] /\ c[j] = s[n]
  BY <1>9, MoreProperties
<1> HIDE DEF c
<1>5. DOMAIN c = 1 .. Len(c) /\ DOMAIN s = 1 .. Len(s)
  BY <1>1, <1>4
<1>6. ASSUME NEW i \in DOMAIN c PROVE c[i].at <= hour /\ c[i].ts <= c[i].at + Early
  <2>1. CASE c[i] = x
    BY <2>1, <1>1
  <2>2. CASE \E j \in DOMAIN s : c[i] = s[j]
    BY <2>2, <1>2
  <2> QED  BY <1>4, <1>5, <2>1, <2>2
<1>7. ASSUME NEW i \in DOMAIN c, NEW j \in DOMAIN c, i <= j PROVE c[i].at <= c[j].at
  <2>1. CASE c[j] = x
    BY <2>1, <1>6
  <2>2. CASE \E m, n \in DOMAIN s : m <= n /\ c[i] = s[m] /\ c[j] = s[n]
    BY <2>2, <1>2
  <2> QED  BY <1>4, <1>5, <1>7, <2>1, <2>2
<1>8. ASSUME ~gcDue, NEW i \in DOMAIN c PROVE hour - c[i].at <= ArchiveRetention + Early
  <2>1. CASE c[i] = x
    BY <2>1, <1>1
  <2>2. CASE \E j \in DOMAIN s : c[i] = s[j]
    BY <2>2, <1>3, <1>8
  <2> QED  BY <1>4, <1>5, <2>1, <2>2
<1> QED  BY <1>4, <1>6, <1>7, <1>8 DEF c, s

\* A box reports a flow.
LEMMA FlowStep ==
    ASSUME LoggingInv, NEW p \in Patrons, FlowComes(p)
    PROVE  LoggingInv'
<1> USE LogFacts, LoggingAssumption
<1>1. log.account[p].standing = "customer" /\ UNCHANGED <<hour, gcDue, disk, promised>>
  BY DEF FlowComes, Report, IsCustomer
<1>2. CASE log.account[p].private
  <2>1. log' = log
    BY <1>2 DEF FlowComes
  <2> QED  BY <1>1, <2>1, ReportedStep
<1>3. CASE ~log.account[p].private
  <2>1. PICK ts \in Stamps :
          log' = [log EXCEPT !.flows = Capped(Append(@, [of |-> p, at |-> hour]), FlowsMax),
                             !.archive[p] = Capped(Append(@, [ts |-> ts, at |-> hour]), ArchiveMax)]
    BY <1>3 DEF FlowComes
  <2> DEFINE x == [ts |-> ts, at |-> hour]
             y == [of |-> p, at |-> hour]
             c == More(log.archive[p], x, ArchiveMax)
             f == More(log.flows, y, FlowsMax)
  <2>2. x \in Archived /\ x.at = hour /\ x.ts <= hour + Early
    BY DEF Archived, Stamps
  <2>3. y \in Flow /\ y.of = p
    BY DEF Flow
  <2>4. log' = Arrival(p, f, c)
    BY <2>1 DEF Arrival, More
  <2> HIDE DEF x, y
  <2>5. /\ c \in Seq(Archived) /\ Len(c) <= ArchiveMax
        /\ \A i \in DOMAIN c : c[i].at <= hour /\ c[i].ts <= c[i].at + Early
        /\ \A i, j \in DOMAIN c : i <= j => c[i].at <= c[j].at
        /\ ~gcDue => \A i \in DOMAIN c : hour - c[i].at <= ArchiveRetention + Early
    BY <2>2, ArchivedMore
  <2>6. /\ f \in Seq(Flow) /\ Len(f) <= FlowsMax
        /\ \A i \in 1 .. Len(f) : f[i] = y \/ \E j \in 1 .. Len(log.flows) : f[i] = log.flows[j]
    <3>1. log.flows \in Seq(Flow) /\ FlowsMax \in Nat
      OBVIOUS
    <3> QED  BY <2>3, <3>1, MoreProperties
  <2> HIDE DEF c, f
  <2>7. PICK m : m = log'
    OBVIOUS
  <2>8. /\ m \in Logs /\ m.flows = f /\ m.archive[p] = c
        /\ \A o \in Patrons \ {p} : m.archive[o] = log.archive[o]
        /\ m.account = log.account /\ m.queries = log.queries /\ m.looked = log.looked
    BY <2>4, <2>5, <2>6, <2>7, ArrivalFields
  <2>9. Bounded(m)
    <3>1. \A o \in Patrons \ {p} : Len(m.archive[o]) <= ArchiveMax
      BY <2>8 DEF Bounded
    <3> QED  BY <2>5, <2>6, <2>8, <3>1 DEF Bounded
  <2>10. ArchiveInOrder(m, hour) /\ (~gcDue => ArchiveFades(m, hour))
    <3>1. ArchiveInOrder(log, hour)
      BY DEF LogSound
    <3>2. ArchiveInOrder(m, hour)
      BY <2>5, <2>8, <3>1 DEF ArchiveInOrder
    <3>3. ASSUME ~gcDue PROVE ArchiveFades(m, hour)
      <4>1. ArchiveFades(log, hour)
        BY <3>3
      <4> QED  BY <2>5, <2>8, <3>3, <4>1 DEF ArchiveFades
    <3> QED  BY <3>2, <3>3
  <2>11. FlowsObey(m, promised)
    <3>1. FlowsObey(log, promised)
      BY DEF LogSound
    <3>2. ASSUME NEW o \in Patrons, m.account[o].private \/ m.account[o].standing = "deleted",
                 NEW i \in DOMAIN m.flows
          PROVE  m.flows[i].of # o
      <4>1. o # p
        BY <1>1, <1>3, <2>8, <3>2
      <4>2. \A j \in 1 .. Len(log.flows) : log.flows[j].of # o
        <5>1. DOMAIN log.flows = 1 .. Len(log.flows)
          OBVIOUS
        <5> QED  BY <2>8, <3>1, <3>2, <5>1 DEF FlowsObey
      <4>3. i \in 1 .. Len(f) /\ m.flows[i] = f[i]
        BY <2>6, <2>8
      <4> QED  BY <2>3, <2>6, <4>1, <4>2, <4>3
    <3>3. ASSUME NEW o \in Patrons
          PROVE  /\ m.account[o].standing = "customer" => m.account[o].private = promised[o]
                 /\ m.account[o].private =>
                       \A i \in DOMAIN m.archive[o] : m.archive[o][i].at <= m.account[o].since
      <4>1. CASE o = p
        BY <1>1, <1>3, <2>8, <3>1, <4>1 DEF FlowsObey
      <4>2. CASE o # p
        BY <2>8, <3>1, <4>2 DEF FlowsObey
      <4> QED  BY <4>1, <4>2
    <3> QED  BY <3>2, <3>3 DEF FlowsObey
  <2>12. \A o \in Patrons : QueriesObey(m, o)
    BY <2>8 DEF LogSound, QueriesObey
  <2>13. LogSound(m, hour, promised)
    BY <2>10, <2>11, <2>12 DEF LogSound
  <2> QED  BY <1>1, <2>7, <2>8, <2>9, <2>10, <2>13, ReportedStep
<1> QED  BY <1>2, <1>3

\* A box reports a query.
LEMMA QueryStep ==
    ASSUME LoggingInv, NEW p \in Patrons, QueryComes(p)
    PROVE  LoggingInv'
<1> USE LogFacts, LoggingAssumption
<1> DEFINE r == log.account[p].retention
<1>1. log.account[p].standing = "customer" /\ UNCHANGED <<hour, gcDue, disk, promised>>
  BY DEF QueryComes, Report, IsCustomer
<1>2. PICK ts \in Stamps :
        log' = LookedThrough(log, p,
                  IF r = 0 THEN <<>> ELSE Within(Append(log.queries[p], ts), r))
  BY DEF QueryComes
<1> DEFINE q == IF r = 0 THEN <<>> ELSE Within(Append(log.queries[p], ts), r)
<1>3. q \in Seq(Int) /\ (r = 0 => q = <<>>) /\ \A i \in 1 .. Len(q) : q[i] >= hour - r
  <2>1. log.queries[p] \in Seq(Int) /\ ts \in Int
    BY DEF Logs, Stamps
  <2>2. Append(log.queries[p], ts) \in Seq(Int)
    BY <2>1
  <2>3. CASE r = 0
    BY <2>3
  <2>4. CASE r # 0
    BY <2>2, <2>4, WithinProperties
  <2> QED  BY <2>3, <2>4
<1>4. log' = LookedThrough(log, p, q)
  BY <1>2
<1> HIDE DEF q
<1>5. FlowsObey(log, promised) /\ ArchiveInOrder(log, hour)
      /\ \A o \in Patrons \ {p} : QueriesObey(log, o)
  BY DEF LogSound
<1>6. /\ log' \in Logs /\ Bounded(log') /\ LogSound(log', hour, promised)
      /\ log'.account = log.account /\ log'.archive = log.archive
  BY <1>1, <1>3, <1>4, <1>5, LookSound
<1>7. ~gcDue => ArchiveFades(log', hour)
  BY <1>6 DEF ArchiveFades
<1> QED  BY <1>1, <1>6, <1>7, ReportedStep

\* The timer of saveState.
LEMMA SaveStep == LoggingInv /\ SaveLog => LoggingInv'
<1> SUFFICES ASSUME LoggingInv, SaveLog PROVE LoggingInv'
  OBVIOUS
<1> USE LogFacts
<1>1. disk' = log /\ UNCHANGED <<hour, gcDue, log, promised>>
  BY DEF SaveLog
<1>2. /\ hour' \in 0 .. LastHour /\ gcDue' \in BOOLEAN
      /\ log' \in Logs /\ Bounded(log') /\ disk' \in Logs /\ Bounded(disk')
  BY <1>1
<1>3. TrafficLogTypeOK'
  BY <1>2 DEF TrafficLogTypeOK, Logs, Bounded
<1> QED  BY <1>1, <1>3 DEF LoggingInv

\* Some hours pass, and the log is as it was or comes from the file.
LEMMA TimeStep ==
    ASSUME LoggingInv, log' = log \/ log' = disk, disk' = disk, promised' = promised,
           gcDue' = TRUE, hour' \in 0 .. LastHour, hour <= hour'
    PROVE  LoggingInv'
<1> USE LogFacts
<1>1. /\ hour' \in 0 .. LastHour /\ gcDue' \in BOOLEAN
      /\ log' \in Logs /\ Bounded(log') /\ disk' \in Logs /\ Bounded(disk')
  OBVIOUS
<1>2. TrafficLogTypeOK'
  BY <1>1 DEF TrafficLogTypeOK, Logs, Bounded
<1>3. PICK now : now = hour'
  OBVIOUS
<1>4. LogSound(log, now, promised) /\ LogSound(disk, now, promised)
  <2>1. now \in Int /\ hour \in Int /\ hour <= now
    BY <1>3
  <2> QED  BY <2>1, SoundLater
<1>5. LogSound(log', now, promised) /\ LogSound(disk', now, promised)
  BY <1>4
<1> QED  BY <1>2, <1>3, <1>5 DEF LoggingInv

\* The cloud dies.
LEMMA DeathStep ==
    ASSUME LoggingInv, NEW hours \in 0 .. 1, CloudDies(hours)
    PROVE  LoggingInv'
<1>1. /\ hour + hours <= LastHour /\ hour' = hour + hours
      /\ log' = disk /\ gcDue' = TRUE /\ UNCHANGED <<disk, promised>>
  BY DEF CloudDies
<1>2. hour' \in 0 .. LastHour /\ hour <= hour'
  BY <1>1, LogFacts
<1> QED  BY <1>1, <1>2, TimeStep

\* An hour passes.
LEMMA HourStep == LoggingInv /\ HourPasses => LoggingInv'
<1> SUFFICES ASSUME LoggingInv, HourPasses PROVE LoggingInv'
  OBVIOUS
<1>1. hour < LastHour /\ hour' = hour + 1 /\ gcDue' = TRUE /\ UNCHANGED <<log, disk, promised>>
  BY DEF HourPasses
<1>2. hour' \in 0 .. LastHour /\ hour <= hour'
  BY <1>1, LogFacts
<1> QED  BY <1>1, <1>2, TimeStep

\* What gcFlowArchive leaves of an archive is its end, and nothing in it came too long ago.
Faded(s) == IF YoungFrom(s) = 0 THEN <<>> ELSE SubSeq(s, YoungFrom(s), Len(s))

\* It is the end of the list, in the order it had.
LEMMA FadedIsEnd ==
    ASSUME NEW s \in Seq(Archived), hour \in Int,
           \A i \in DOMAIN s : s[i].ts <= s[i].at + Early,
           \A i, j \in DOMAIN s : i <= j => s[i].at <= s[j].at
    PROVE  /\ Faded(s) \in Seq(Archived)
           /\ \E k \in 0 .. Len(s) :
                 /\ Len(Faded(s)) = Len(s) - k
                 /\ \A i \in 1 .. Len(s) - k : Faded(s)[i] = s[k + i]
           /\ \A i \in DOMAIN Faded(s) : hour - Faded(s)[i].at <= ArchiveRetention + Early
<1> DEFINE Young == {i \in 1 .. Len(s) : s[i].ts >= hour - ArchiveRetention}
           f == Min(Young)
<1>1. Len(s) \in Nat /\ DOMAIN s = 1 .. Len(s)
  OBVIOUS
<1>2. CASE Young = {}
  <2>1. YoungFrom(s) = 0
    BY <1>2 DEF YoungFrom, SelectInSeq
  <2>2. Faded(s) = <<>>
    BY <2>1, Zenon DEF Faded
  <2>3. /\ Faded(s) \in Seq(Archived) /\ Len(Faded(s)) = 0 /\ DOMAIN Faded(s) = {}
        /\ Len(s) \in 0 .. Len(s) /\ 0 = Len(s) - Len(s)
    BY <1>1, <2>2
  <2>4. \A i \in 1 .. Len(s) - Len(s) : Faded(s)[i] = s[Len(s) + i]
    BY <2>3
  <2> QED  BY <2>3, <2>4
<1>3. CASE Young # {}
  <2>1. \E i \in Young : \A j \in Young : i <= j
    <3>1. Young \in SUBSET Nat
      BY <1>1
    <3> HIDE DEF Young
    <3> QED  BY <1>3, <3>1, FirstExists
  <2>2. f \in Young
    <3> HIDE DEF Young
    <3> QED  BY <2>1 DEF Min
  <2>3. YoungFrom(s) = f
    BY <1>3, Zenon DEF YoungFrom, SelectInSeq
  <2> HIDE DEF f
  <2>4. f \in 1 .. Len(s) /\ s[f].ts >= hour - ArchiveRetention
    BY <2>2
  <2>5. f # 0
    BY <1>1, <2>4
  <2>6. Faded(s) = SubSeq(s, f, Len(s))
    BY <2>3, <2>5, Zenon DEF Faded
  <2>7. PICK k : k = f - 1
    OBVIOUS
  <2>8. k \in 0 .. Len(s) /\ k + 1 = f
    BY <1>1, <2>4, <2>7
  <2>9. Faded(s) = SubSeq(s, k + 1, Len(s))
    BY <2>6, <2>8
  <2>10. /\ Faded(s) \in Seq(Archived) /\ Len(Faded(s)) = Len(s) - k
         /\ \A i \in 1 .. Len(s) - k : Faded(s)[i] = s[k + i]
    BY <2>8, <2>9, EndOfList
  <2>11. ASSUME NEW i \in DOMAIN Faded(s)
         PROVE  hour - Faded(s)[i].at <= ArchiveRetention + Early
    <3>1. i \in 1 .. Len(s) - k /\ k + i \in DOMAIN s /\ f <= k + i /\ f \in DOMAIN s
      BY <1>1, <2>4, <2>8, <2>10
    <3>2. Faded(s)[i] = s[k + i] /\ s[f].at <= s[k + i].at /\ s[f].ts <= s[f].at + Early
      BY <2>10, <3>1
    <3>3. s[f].at \in Int /\ s[k + i].at \in Int /\ s[f].ts \in Int
      <4>1. s[f] \in Archived /\ s[k + i] \in Archived
        BY <3>1
      <4> QED  BY <4>1 DEF Archived
    <3>4. ArchiveRetention \in Int /\ Early \in Int
      BY LoggingAssumption
    <3> QED  BY <2>4, <3>2, <3>3, <3>4
  <2> QED  BY <2>8, <2>10, <2>11
<1> QED  BY <1>2, <1>3

\* The archive is cleaned up.
LEMMA GcStep == LoggingInv /\ GcFlowArchive => LoggingInv'
<1> SUFFICES ASSUME LoggingInv, GcFlowArchive PROVE LoggingInv'
  OBVIOUS
<1> USE LogFacts
<1> DEFINE b == [p \in Patrons |-> Faded(log.archive[p])]
<1>1. /\ log' = [log EXCEPT !.archive = b] /\ gcDue' = FALSE
      /\ UNCHANGED <<hour, disk, promised>>
  BY Zenon DEF GcFlowArchive, Faded
<1>2. ASSUME NEW p \in Patrons
      PROVE  /\ log.archive[p] \in Seq(Archived)
             /\ Faded(log.archive[p]) \in Seq(Archived)
             /\ \E k \in 0 .. Len(log.archive[p]) :
                   /\ Len(Faded(log.archive[p])) = Len(log.archive[p]) - k
                   /\ \A i \in 1 .. Len(log.archive[p]) - k :
                         Faded(log.archive[p])[i] = log.archive[p][k + i]
             /\ \A i \in DOMAIN Faded(log.archive[p]) :
                   hour - Faded(log.archive[p])[i].at <= ArchiveRetention + Early
  <2> DEFINE s == log.archive[p]
  <2>1. s \in Seq(Archived) /\ hour \in Int
    BY DEF Logs
  <2>2. /\ \A i \in DOMAIN s : s[i].ts <= s[i].at + Early
        /\ \A i, j \in DOMAIN s : i <= j => s[i].at <= s[j].at
    BY DEF LogSound, ArchiveInOrder
  <2> HIDE DEF s
  <2>3. /\ Faded(s) \in Seq(Archived)
        /\ \E k \in 0 .. Len(s) :
              /\ Len(Faded(s)) = Len(s) - k
              /\ \A i \in 1 .. Len(s) - k : Faded(s)[i] = s[k + i]
        /\ \A i \in DOMAIN Faded(s) : hour - Faded(s)[i].at <= ArchiveRetention + Early
    BY <2>1, <2>2, FadedIsEnd
  <2> QED  BY <2>1, <2>3 DEF s
<1>3. b \in [Patrons -> Seq(Archived)] /\ \A p \in Patrons : b[p] = Faded(log.archive[p])
  BY <1>2
<1> HIDE DEF b
<1>4. PICK m : m = log'
  OBVIOUS
<1>5. /\ m \in Logs /\ m.archive = b /\ m.account = log.account /\ m.flows = log.flows
      /\ m.queries = log.queries /\ m.looked = log.looked
  BY <1>1, <1>3, <1>4 DEF Logs
<1>6. ASSUME NEW p \in Patrons
      PROVE  /\ Len(b[p]) <= ArchiveMax
             /\ \A i \in DOMAIN b[p] : \E j \in DOMAIN log.archive[p] : b[p][i] = log.archive[p][j]
             /\ \A i, j \in DOMAIN b[p] : i <= j =>
                   \E u, v \in DOMAIN log.archive[p] :
                      u <= v /\ b[p][i] = log.archive[p][u] /\ b[p][j] = log.archive[p][v]
             /\ \A i \in DOMAIN b[p] : hour - b[p][i].at <= ArchiveRetention + Early
  <2> DEFINE s == log.archive[p]
             e == b[p]
  <2>1. PICK k \in 0 .. Len(s) : Len(e) = Len(s) - k /\ \A i \in 1 .. Len(s) - k : e[i] = s[k + i]
    BY <1>2, <1>3
  <2>2. s \in Seq(Archived) /\ e \in Seq(Archived) /\ Len(s) <= ArchiveMax /\ ArchiveMax \in Nat
    BY <1>2, <1>3, LoggingAssumption DEF Bounded
  <2>3. \A i \in DOMAIN e : hour - e[i].at <= ArchiveRetention + Early
    BY <1>2, <1>3
  <2> HIDE DEF s, e
  <2>4. Len(s) \in Nat /\ DOMAIN s = 1 .. Len(s) /\ DOMAIN e = 1 .. Len(s) - k
    BY <2>1, <2>2
  <2>5. \A i \in DOMAIN e : k + i \in DOMAIN s /\ e[i] = s[k + i]
    BY <2>1, <2>4
  <2>6. ASSUME NEW i \in DOMAIN e, NEW j \in DOMAIN e, i <= j
        PROVE  \E u, v \in DOMAIN s : u <= v /\ e[i] = s[u] /\ e[j] = s[v]
    <3>1. k + i <= k + j
      BY <2>4, <2>6
    <3> QED  BY <2>5, <3>1
  <2>7. Len(e) <= ArchiveMax
    BY <2>1, <2>2, <2>4
  <2> QED  BY <2>3, <2>5, <2>6, <2>7 DEF e, s
<1>7. Bounded(m)
  BY <1>5, <1>6 DEF Bounded
<1>8. FlowsObey(log, promised) /\ ArchiveInOrder(log, hour)
      /\ \A p \in Patrons : QueriesObey(log, p)
  BY DEF LogSound
<1>9. ArchiveInOrder(m, hour)
  <2>1. ASSUME NEW p \in Patrons, NEW i \in DOMAIN b[p]
        PROVE  b[p][i].at <= hour /\ b[p][i].ts <= b[p][i].at + Early
    <3>1. PICK j \in DOMAIN log.archive[p] : b[p][i] = log.archive[p][j]
      BY <1>6
    <3> QED  BY <1>8, <3>1 DEF ArchiveInOrder
  <2>2. ASSUME NEW p \in Patrons, NEW i \in DOMAIN b[p], NEW j \in DOMAIN b[p], i <= j
        PROVE  b[p][i].at <= b[p][j].at
    <3>1. PICK u, v \in DOMAIN log.archive[p] :
             u <= v /\ b[p][i] = log.archive[p][u] /\ b[p][j] = log.archive[p][v]
      BY <1>6, <2>2
    <3> QED  BY <1>8, <3>1 DEF ArchiveInOrder
  <2> QED  BY <1>5, <2>1, <2>2 DEF ArchiveInOrder
<1>10. FlowsObey(m, promised)
  <2>1. ASSUME NEW p \in Patrons, m.account[p].private, NEW i \in DOMAIN m.archive[p]
        PROVE  m.archive[p][i].at <= m.account[p].since
    <3>1. PICK j \in DOMAIN log.archive[p] : m.archive[p][i] = log.archive[p][j]
      BY <1>5, <1>6
    <3> QED  BY <1>5, <1>8, <2>1, <3>1 DEF FlowsObey
  <2> QED  BY <1>5, <1>8, <2>1 DEF FlowsObey
<1>11. \A p \in Patrons : QueriesObey(m, p)
  BY <1>5, <1>8 DEF QueriesObey
<1>12. LogSound(m, hour, promised) /\ ArchiveFades(m, hour)
  BY <1>5, <1>6, <1>9, <1>10, <1>11 DEF LogSound, ArchiveFades
<1>13. /\ hour' \in 0 .. LastHour /\ gcDue' \in BOOLEAN
       /\ log' \in Logs /\ Bounded(log') /\ disk' \in Logs /\ Bounded(disk')
  BY <1>1, <1>4, <1>5, <1>7
<1>14. TrafficLogTypeOK'
  BY <1>13 DEF TrafficLogTypeOK, Logs, Bounded
<1> QED  BY <1>1, <1>4, <1>5, <1>12, <1>14 DEF LoggingInv

\* Every step of the log.
LEMMA LoggingStep ==
    ASSUME LoggingInv, FlowsNext \/ \E ps \in SUBSET Patrons : QueriesNext(ps)
    PROVE  LoggingInv'
<1>1. ASSUME NEW p \in Patrons, Calls(p) PROVE LoggingInv'
  BY <1>1, DeletionStep, PrivacyStep, DropStep, Zenon DEF Calls
<1>2. CASE Timers
  BY <1>2, SaveStep, HourStep, GcStep, DeathStep, Zenon DEF Timers
<1>3. CASE FlowsNext
  BY <1>3, <1>1, <1>2, FlowStep, Zenon DEF FlowsNext
<1>4. ASSUME NEW ps \in SUBSET Patrons, QueriesNext(ps) PROVE LoggingInv'
  <2>1. \A p \in ps : p \in Patrons
    OBVIOUS
  <2> QED  BY <1>4, <1>1, <1>2, <2>1, QueryStep, RetentionStep, AutofixStep, Zenon DEF QueriesNext
<1> QED  BY <1>3, <1>4

\* The log stands still.
LEMMA LoggingStutters == LoggingInv /\ UNCHANGED loggingVars => LoggingInv'
<1> SUFFICES ASSUME LoggingInv, UNCHANGED loggingVars PROVE LoggingInv'
  OBVIOUS
<1>1. UNCHANGED <<hour, gcDue, log, disk, promised>>
  BY DEF loggingVars
<1>2. TrafficLogTypeOK'
  BY <1>1 DEF LoggingInv, TrafficLogTypeOK
<1> QED  BY <1>1, <1>2 DEF LoggingInv

\* What the log has to keep follows.
LEMMA LoggingKept == LoggingInv => PrivacyObeyed /\ PrivacyDurable /\ RecordsFade
<1> SUFFICES ASSUME LoggingInv PROVE PrivacyObeyed /\ PrivacyDurable /\ RecordsFade
  OBVIOUS
<1> USE LogFacts
<1>1. FlowsObey(log, promised) /\ \A p \in Patrons : QueriesObey(log, p)
  BY DEF LogSound
<1>2. ASSUME NEW p \in Patrons, log.account[p].private \/ log.account[p].standing = "deleted"
      PROVE  NotOf(p, log.flows) = log.flows
  <2>1. \A j \in 1 .. Len(log.flows) : log.flows[j].of # p
    <3>1. DOMAIN log.flows = 1 .. Len(log.flows)
      OBVIOUS
    <3> QED  BY <1>1, <1>2, <3>1 DEF FlowsObey
  <2> QED  BY <2>1, NotOfProperties
<1>3. PrivacyObeyed
  BY <1>1, <1>2 DEF PrivacyObeyed, FlowsObey, QueriesObey
<1>4. PrivacyDurable
  BY <1>1 DEF PrivacyDurable, FlowsObey, IsCustomer
<1>5. RecordsFade
  BY <1>1 DEF RecordsFade, QueriesObey, ArchiveFades
<1> QED  BY <1>3, <1>4, <1>5

-----------------------------------------------------------------------------
(* The services together                                                   *)

\* The services start as listed.
LEMMA ServicesInitial == ServicesInit => ServicesInv
  BY QuarantineInitial, ModuleInitial, LockInitial, SiemInitial, IntelInitial, FreshSound
     DEF ServicesInit, ServicesInv

\* One service takes a step, the others stand still.
LEMMA ServicesStep == ServicesInv /\ [ServicesNext]_servicesVars => ServicesInv'
<1> SUFFICES ASSUME ServicesInv, [ServicesNext]_servicesVars PROVE ServicesInv'
  OBVIOUS
<1>1. QuarantineTypeOK /\ HouseholdKnown /\ ModuleInv /\ LockInv /\ SiemInv /\ IntelInv
      /\ LoggingInv
  BY DEF ServicesInv
<1>2. [ModuleNext]_moduleVars
  BY Zenon DEF ServicesNext, Modules, Quarantine, Lockdown, Siem, Intel, WireGuardServer, Logging,
               servicesVars, guardVars
<1>3. [QuarantineNext]_quarantineVars
  BY Zenon DEF ServicesNext, Modules, Quarantine, Lockdown, Siem, Intel, WireGuardServer, Logging,
               servicesVars, guardVars
<1>4. [LockNext]_lockVars
  BY Zenon DEF ServicesNext, Modules, Quarantine, Lockdown, Siem, Intel, WireGuardServer, Logging,
               servicesVars, guardVars
<1>5. [SiemNext]_siemVars
  BY Zenon DEF ServicesNext, Modules, Quarantine, Lockdown, Siem, Intel, WireGuardServer, Logging,
               servicesVars, guardVars
<1>6. [IntelNext]_intelVars
  BY Zenon DEF ServicesNext, Modules, Quarantine, Lockdown, Siem, Intel, WireGuardServer, Logging,
               servicesVars, guardVars
<1>7. [FlowsNext \/ QueriesNext(Patrons \cap {"c1"})]_loggingVars
  BY Zenon DEF ServicesNext, Modules, Quarantine, Lockdown, Siem, Intel, WireGuardServer, Logging,
               servicesVars, guardVars
<1>8. LoggingInv'
  <2>1. CASE FlowsNext \/ QueriesNext(Patrons \cap {"c1"})
    <3>1. Patrons \cap {"c1"} \in SUBSET Patrons
      OBVIOUS
    <3> QED  BY <1>1, <2>1, <3>1, LoggingStep, Zenon
  <2>2. CASE UNCHANGED loggingVars
    BY <1>1, <2>2, LoggingStutters
  <2> QED  BY <1>7, <2>1, <2>2
<1>9. (QuarantineTypeOK /\ HouseholdKnown)'
  BY <1>1, <1>3, QuarantineStep
<1>10. ModuleInv' /\ LockInv' /\ SiemInv' /\ IntelInv'
  BY <1>1, <1>2, <1>4, <1>5, <1>6, ModuleStep, LockStep, SiemStep, IntelStep
<1> QED  BY <1>8, <1>9, <1>10 DEF ServicesInv

\* What is listed follows, service by service.
LEMMA ListedFollows == ServicesInv => ServicesAsListed
<1> SUFFICES ASSUME ServicesInv PROVE ServicesAsListed
  OBVIOUS
<1>1. ModuleTypeOK /\ ModulesSurvive
  BY DEF ServicesInv, ModuleInv
<1>2. LockTypeOK /\ LockedAsLearned
  BY DEF ServicesInv, LockInv
<1>3. SiemTypeOK /\ SiemAccounts
  BY DEF ServicesInv, SiemInv
<1>4. IntelTypeOK /\ OneRefresh
  BY DEF ServicesInv, IntelInv
<1>5. TrafficLogTypeOK /\ PrivacyObeyed /\ PrivacyDurable /\ RecordsFade
  BY LoggingKept DEF ServicesInv, LoggingInv
<1> QED  BY <1>1, <1>2, <1>3, <1>4, <1>5 DEF ServicesInv, ServicesAsListed

\* For any devices, events, feeds and customers, and any limits: the lists of the cloud modules
\* survive restarts until the state is replaced, and nothing set after that does; the rules of a
\* locked device let new connections through to what its lists since the lock were seen to hold;
\* of the forwarder every event is accounted for while the cloud runs, and no minute the cloud
\* remembers has more than its limit; one refresh of the feeds runs at a time; and privacy mode
\* keeps the ring and the names empty and the archive as it was, which fades when it was said
\* (active-protect.js, quarantine.js, iot-lockdown.js, siem-forwarder.js, community-intel.js,
\* server.js 13515-13541).
THEOREM ServicesCorrect == ServicesSpec => []ServicesAsListed
<1>1. ServicesInit => ServicesInv
  BY ServicesInitial
<1>2. ServicesInv /\ [ServicesNext]_servicesVars => ServicesInv'
  BY ServicesStep
<1>3. ServicesInv => ServicesAsListed
  BY ListedFollows
<1> QED  BY <1>1, <1>2, <1>3, PTL DEF ServicesSpec

\* No device that the household knew when it was switched on, or approved since, is stopped by
\* anything but an order of the customer: a part of TimersCatchUp.
THEOREM SparedCorrect == ServicesSpec => HouseholdSpared
<1>1. ServicesInit => ServicesInv
  BY ServicesInitial
<1>2. ServicesInv /\ [ServicesNext]_servicesVars => ServicesInv'
  BY ServicesStep
<1>3. ServicesInv /\ [ServicesNext]_servicesVars
         => [(stopped' \ stopped) \cap household # {} => Add]_quarantineVars
  <2> SUFFICES ASSUME ServicesInv, [ServicesNext]_servicesVars
               PROVE  [(stopped' \ stopped) \cap household # {} => Add]_quarantineVars
    OBVIOUS
  <2>1. [QuarantineNext]_quarantineVars
    BY Zenon DEF ServicesNext, Modules, Quarantine, Lockdown, Siem, Intel, WireGuardServer,
                 Logging, servicesVars, guardVars
  <2>2. QuarantineTypeOK /\ HouseholdKnown
    BY DEF ServicesInv
  <2> QED  BY <2>1, <2>2, SparedStep
<1> QED  BY <1>1, <1>2, <1>3, PTL DEF ServicesSpec, HouseholdSpared
================================================================================
