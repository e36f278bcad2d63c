--------------------------- MODULE MultiWanProofs ---------------------------
(***************************************************************************)
(* What the default route of a box with several uplinks is, for any list   *)
(* of WANs, any thresholds and any failures.                               *)
(***************************************************************************)
EXTENDS MultiWan, SequenceTheorems, FiniteSetTheorems, WellFoundedInduction, TLAPS

\* A set of numbers that is not empty has a first one.
LEMMA FirstExists ==
    ASSUME NEW T \in SUBSET Nat, T # {}
    PROVE  \E i \in T : \A j \in T : i \leq j
<1>1. PICK x \in T : \A y \in T : ~(<<y, x>> \in OpToRel(<, Nat))
  BY NatLessThanWellFounded, WFMin, Zenon
<1>2. \A y \in T : ~(y < x)
  BY <1>1 DEF OpToRel
<1> QED  BY <1>2

\* pickActiveWan picks a WAN of the list that is up.
LEMMA PickEligible ==
    ASSUME NEW ws \in Seq(Wan), NEW md, Eligible(ws, md) # {}
    PROVE  Pick(ws, md) \in Eligible(ws, md) /\ Pick(ws, md) \in DOMAIN ws
<1>1. Eligible(ws, md) \in SUBSET Nat /\ Eligible(ws, md) \subseteq DOMAIN ws
  BY DEF Eligible, UpIn
<1>2. \E i \in Eligible(ws, md) : \A j \in Eligible(ws, md) : i \leq j
  BY <1>1, FirstExists
<1>. QED  BY <1>1, <1>2 DEF Pick

\* The mark of a device is that of a WAN of the list, or none.
LEMMA MarkOfListed ==
    ASSUME NEW ws \in Seq(Wan), Len(ws) \leq MaxWans, NEW n
    PROVE  MarkOf(ws, n) \in Marks \cup {NoMark}
<1>. DEFINE named == {i \in DOMAIN ws : ws[i].name = n}
<1>1. named \in SUBSET Nat /\ named \subseteq Marks
  BY MultiWanAssumption DEF Marks
<1>2. named # {} => \E i \in named : \A j \in named : i \leq j
  BY <1>1, FirstExists
<1>. QED  BY <1>1, <1>2 DEF MarkOf

\* ip rule del leaves a list of tables.
LEMMA WithoutRuleType ==
    ASSUME NEW rs \in Seq(Tables), NEW t
    PROVE  WithoutRule(rs, t) \in Seq(Tables)
<1>1. CASE ~\E i \in DOMAIN rs : rs[i] = t
  BY <1>1 DEF WithoutRule
<1>2. CASE \E i \in DOMAIN rs : rs[i] = t
  <2>1. PICK i \in DOMAIN rs : WithoutRule(rs, t) = SubSeq(rs, 1, i - 1) \o SubSeq(rs, i + 1, Len(rs))
    BY <1>2 DEF WithoutRule, RemoveAt
  <2>2. i \in 1 .. Len(rs) /\ Len(rs) \in Nat /\ \A j \in 1 .. Len(rs) : rs[j] \in Tables
    OBVIOUS
  <2>3. SubSeq(rs, 1, i - 1) \in Seq(Tables)
    BY <2>2, SubSeqProperties
  <2>4. SubSeq(rs, i + 1, Len(rs)) \in Seq(Tables)
    BY <2>2, SubSeqProperties
  <2> QED  BY <2>1, <2>3, <2>4
<1> QED  BY <1>1, <1>2

-----------------------------------------------------------------------------
(* A probe.                                                                *)

LEMMA WindowBounds ==
    Window \in Nat /\ FailThreshold \leq Window /\ RecoverThreshold \leq Window
BY MultiWanAssumption DEF Window

\* The window slides: the newest results, one more of them if it agrees.
LEMMA RecordedProperties ==
    ASSUME NEW h \in Seq({0, 1}), Len(h) \leq Window, NEW r \in {0, 1}
    PROVE  /\ Recorded(h, r) \in Seq({0, 1})
           /\ Len(Recorded(h, r)) \leq Window
           /\ LastAre(Recorded(h, r), 0, 1 - r)
           /\ \A n \in Nat : LastAre(h, n, r) =>
                /\ n + 1 \leq Window => LastAre(Recorded(h, r), n + 1, r)
                /\ n \leq Window => LastAre(Recorded(h, r), n, r)
<1>. DEFINE a == Append(h, r)
<1>1. a \in Seq({0, 1}) /\ Len(a) = Len(h) + 1 /\ a[Len(a)] = r
      /\ \A k \in 1 .. Len(h) : a[k] = h[k]
  OBVIOUS
<1>2. ASSUME NEW n \in Nat, LastAre(h, n, r)
      PROVE  LastAre(a, n + 1, r) /\ LastAre(a, n, r)
  <2>1. ASSUME NEW k \in 1 .. n + 1 PROVE a[Len(a) - k + 1] = r
    <3>1. CASE k = 1
      BY <3>1, <1>1
    <3>2. CASE k # 1
      <4>. DEFINE j == k - 1
      <4>0. j \in 1 .. n /\ n \leq Len(h) /\ \A i \in 1 .. n : h[Len(h) - i + 1] = r
        BY <3>2, <1>2 DEF LastAre
      <4>1. j \in 1 .. n /\ h[Len(h) - j + 1] = r
        BY <4>0
      <4>2. Len(h) - (k - 1) + 1 \in 1 .. Len(h) /\ Len(a) - k + 1 = Len(h) - (k - 1) + 1
        BY <4>1, <1>1, <1>2, <3>2 DEF LastAre
      <4>. QED  BY <4>1, <4>2, <1>1
    <3>. QED  BY <3>1, <3>2
  <2>. QED  BY <2>1, <1>1, <1>2 DEF LastAre
<1>3. CASE Len(a) \leq Window
  <2>1. Recorded(h, r) = a
    BY <1>3, <1>1, WindowBounds DEF Recorded
  <2>. QED  BY <2>1, <1>1, <1>2, <1>3 DEF LastAre
<1>4. CASE Len(a) > Window
  <2>. DEFINE b == Tail(a)
  <2>1. Recorded(h, r) = b /\ Len(a) = Window + 1
    BY <1>4, <1>1, WindowBounds DEF Recorded
  <2>2. b \in Seq({0, 1}) /\ Len(b) = Window /\ \A k \in 1 .. Window : b[k] = a[k + 1]
    BY <1>1, <2>1, WindowBounds
  <2>3. ASSUME NEW n \in Nat, n \leq Window, LastAre(a, n, r) PROVE LastAre(b, n, r)
    <3>1. ASSUME NEW k \in 1 .. n PROVE b[Len(b) - k + 1] = r
      <4>1. Len(b) - k + 1 \in 1 .. Window /\ Len(b) - k + 1 + 1 = Len(a) - k + 1
        BY <2>1, <2>2, <2>3, WindowBounds
      <4>. QED  BY <4>1, <2>2, <2>3 DEF LastAre
    <3>. QED  BY <3>1, <2>2, <2>3 DEF LastAre
  <2>4. LastAre(b, 0, 1 - r)
    BY <2>2, WindowBounds DEF LastAre
  <2>5. ASSUME NEW n \in Nat, LastAre(h, n, r)
        PROVE  /\ n + 1 \leq Window => LastAre(b, n + 1, r)
               /\ n \leq Window => LastAre(b, n, r)
    BY <2>3, <1>2, <2>5
  <2>. HIDE DEF b
  <2>. QED  BY <2>1, <2>2, <2>4, <2>5, WindowBounds
<1>. QED  BY <1>1, <1>3, <1>4, WindowBounds

\* Its type, and what stays.
LEMMA ProbedType ==
    ASSUME NEW w \in Wan, Len(w.history) \leq Window, NEW x \in {Answers(w), Misses(w)}
    PROVE  /\ x \in Wan
           /\ Len(x.history) \leq Window
           /\ x.name = w.name /\ x.gateway = w.gateway
<1>1. /\ Recorded(w.history, 0) \in Seq({0, 1}) /\ Len(Recorded(w.history, 0)) \leq Window
      /\ Recorded(w.history, 1) \in Seq({0, 1}) /\ Len(Recorded(w.history, 1)) \leq Window
  BY RecordedProperties DEF Wan
<1>2. /\ w.fails \in 0 .. FailThreshold /\ w.ok \in 0 .. RecoverThreshold /\ w.up \in BOOLEAN
      /\ w.name \in Names /\ w.gateway \in Gateways \cup {NoGateway} /\ w.table \in Tables
  BY DEF Wan
<1>3. CASE x = Answers(w)
  <2>. DEFINE ok == IF w.ok < RecoverThreshold THEN w.ok + 1 ELSE w.ok
  <2>1. x = [name |-> w.name, gateway |-> w.gateway, table |-> w.table,
             up |-> w.up \/ w.ok + 1 >= RecoverThreshold,
             fails |-> 0, ok |-> ok, history |-> Recorded(w.history, 1)]
    BY <1>3 DEF Answers, Wan
  <2>2. ok \in 0 .. RecoverThreshold /\ 0 \in 0 .. FailThreshold
    BY <1>2, MultiWanAssumption
  <2>. QED  BY <1>1, <1>2, <2>1, <2>2 DEF Wan
<1>4. CASE x = Misses(w)
  <2>. DEFINE fails == IF w.fails < FailThreshold THEN w.fails + 1 ELSE w.fails
  <2>1. x = [name |-> w.name, gateway |-> w.gateway, table |-> w.table,
             up |-> w.up /\ w.fails + 1 < FailThreshold,
             fails |-> fails, ok |-> 0, history |-> Recorded(w.history, 0)]
    BY <1>4 DEF Misses, Wan
  <2>2. fails \in 0 .. FailThreshold /\ 0 \in 0 .. RecoverThreshold
    BY <1>2, MultiWanAssumption
  <2>. QED  BY <1>1, <1>2, <2>1, <2>2 DEF Wan
<1>. QED  BY <1>3, <1>4

\* The counters go on counting the newest results, and the WAN changes sides
\* only when enough of them agree.
LEMMA ProbedCounts ==
    ASSUME NEW w \in Wan, Len(w.history) \leq Window,
           LastAre(w.history, w.fails, 0), LastAre(w.history, w.ok, 1),
           NEW x \in {Answers(w), Misses(w)}
    PROVE  /\ LastAre(x.history, x.fails, 0) /\ LastAre(x.history, x.ok, 1)
           /\ w.up /\ ~x.up => LastAre(x.history, FailThreshold, 0)
           /\ ~w.up /\ x.up => LastAre(x.history, RecoverThreshold, 1)
<1>. USE MultiWanAssumption
<1>0. /\ w.history \in Seq({0, 1}) /\ w.up \in BOOLEAN
      /\ w.fails \in 0 .. FailThreshold /\ w.ok \in 0 .. RecoverThreshold
  BY DEF Wan
<1>1. CASE x = Answers(w)
  <2>. DEFINE h == Recorded(w.history, 1)
              ok == IF w.ok < RecoverThreshold THEN w.ok + 1 ELSE w.ok
  <2>1. x.history = h /\ x.fails = 0 /\ x.ok = ok
        /\ x.up = (w.up \/ w.ok + 1 >= RecoverThreshold)
    BY <1>1 DEF Answers, Wan
  <2>2. LastAre(h, 0, 0)
    BY <1>0, RecordedProperties
  <2>3. /\ w.ok + 1 \leq Window => LastAre(h, w.ok + 1, 1)
        /\ w.ok \leq Window => LastAre(h, w.ok, 1)
    BY <1>0, RecordedProperties
  <2>4. LastAre(h, ok, 1)
    BY <2>3, <1>0, WindowBounds
  <2>5. w.ok + 1 >= RecoverThreshold => LastAre(h, RecoverThreshold, 1)
    BY <2>3, <1>0, WindowBounds
  <2>. HIDE DEF h, ok
  <2>. QED  BY <2>1, <2>2, <2>4, <2>5
<1>2. CASE x = Misses(w)
  <2>. DEFINE h == Recorded(w.history, 0)
              fails == IF w.fails < FailThreshold THEN w.fails + 1 ELSE w.fails
  <2>1. x.history = h /\ x.ok = 0 /\ x.fails = fails
        /\ x.up = (w.up /\ w.fails + 1 < FailThreshold)
    BY <1>2 DEF Misses, Wan
  <2>2. LastAre(h, 0, 1)
    BY <1>0, RecordedProperties
  <2>3. /\ w.fails + 1 \leq Window => LastAre(h, w.fails + 1, 0)
        /\ w.fails \leq Window => LastAre(h, w.fails, 0)
    BY <1>0, RecordedProperties
  <2>4. LastAre(h, fails, 0)
    BY <2>3, <1>0, WindowBounds
  <2>5. w.fails + 1 >= FailThreshold => LastAre(h, FailThreshold, 0)
    BY <2>3, <1>0, WindowBounds
  <2>. HIDE DEF h, fails
  <2>. QED  BY <2>1, <2>2, <2>4, <2>5, <1>0
<1>. QED  BY <1>1, <1>2

-----------------------------------------------------------------------------
(* The type invariant.                                                     *)

\* The agent starts well typed.
LEMMA TypeInit == Init => TypeOK
<1>. SUFFICES ASSUME Init PROVE TypeOK
  OBVIOUS
<1>. USE MultiWanAssumption
<1>1. wans \in Seq(Wan) /\ Len(wans) = 0 /\ DOMAIN wans = {}
  BY DEF Init
<1>2. main \subseteq Hops /\ tables \in [Tables -> Hops \cup {NoHop}]
  BY DEF Init, Hops
<1>3. rules \in [Marks -> Seq(Tables)] /\ mangle \in [Devices -> Marks \cup {NoMark}]
  BY DEF Init
<1>4. mode \in Modes /\ asked \in Modes \cup {"none", "unknown"}
  BY DEF Init, Modes
<1>5. deviceRoutes \in [Devices -> Names \cup {NoWan}] /\ running \in BOOLEAN
  BY DEF Init
<1>. QED  BY <1>1, <1>2, <1>3, <1>4, <1>5 DEF Init, TypeOK, WansOK

\* A refusal is counted and remembered.
LEMMA RefusedType ==
    ASSUME TypeOK, Refused \/ Accepted
    PROVE  mishaps' \in Nat /\ met' \subseteq Faults \cup {"moved", "torn", "noGateway"}
<1>1. mishaps \in Nat /\ met \subseteq Faults \cup {"moved", "torn", "noGateway"}
  BY DEF TypeOK
<1>2. CASE Refused
  BY <1>1, <1>2 DEF Refused
<1>3. CASE Accepted
  BY <1>1, <1>3 DEF Accepted
<1>. QED  BY <1>2, <1>3

\* The default route stays a set of hops.
LEMMA ReconcileType ==
    ASSUME NEW ws \in Seq(Wan), NEW md, TypeOK, ReconcileRouting(ws, md)
    PROVE  /\ main' \subseteq Hops
           /\ currentDefault' \in Names \cup {NoWan, Balanced}
           /\ mishaps' \in Nat
           /\ met' \subseteq Faults \cup {"moved", "torn", "noGateway"}
<1>. USE MultiWanAssumption
<1>1. \A i \in DOMAIN ws : ws[i] \in Wan
  OBVIOUS
<1>2. \A i \in DOMAIN ws : ws[i].gateway # NoGateway => Hop(ws[i]) \in Hops
  BY <1>1 DEF Hop, Hops, Wan
<1>3. CASE md = "balance"
  <2>1. UpIn(ws) \subseteq DOMAIN ws
    BY DEF UpIn
  <2>. QED
    BY <1>2, <1>3, <2>1 DEF ReconcileRouting, SetBalancedDefault, NoChange, Accepted, Refused, TypeOK
<1>4. CASE md # "balance"
  <2>1. CASE NoChange /\ Accepted
    BY <2>1 DEF NoChange, Accepted, TypeOK
  <2>2. CASE Eligible(ws, md) # {} /\ SetDefaultRoute(ws[Pick(ws, md)])
    <3>1. Pick(ws, md) \in DOMAIN ws
      BY <2>2, PickEligible
    <3>2. ws[Pick(ws, md)].name \in Names
      BY <3>1, <1>1 DEF Wan
    <3>. DEFINE w == ws[Pick(ws, md)]
    <3>3. CASE w.gateway # NoGateway /\ main' = {Hop(w)} /\ currentDefault' = w.name /\ Accepted
      BY <1>2, <3>1, <3>2, <3>3 DEF Accepted, TypeOK
    <3>4. CASE NoChange /\ (Refused \/ Accepted)
      BY <3>4, RefusedType DEF NoChange, TypeOK
    <3>. QED
      BY <2>2, <3>3, <3>4 DEF SetDefaultRoute
  <2>. QED  BY <1>4, <2>1, <2>2 DEF ReconcileRouting
<1>. QED  BY <1>3, <1>4

\* The list that a command brings.
LEMMA FreshList ==
    ASSUME NEW s \in Settings, NEW ws, ws = [i \in DOMAIN s |-> Fresh(s[i])]
    PROVE  /\ ws \in Seq(Wan) /\ Len(ws) \leq MaxWans /\ ws # <<>>
           /\ \A i \in DOMAIN ws : ws[i].up /\ ws[i].fails = 0 /\ ws[i].ok = 0
                                   /\ ws[i].history = <<>>
           /\ \A i, j \in DOMAIN ws : ws[i].name = ws[j].name => i = j
<1>1. s \in Seq(Setting) /\ Len(s) \in 1 .. MaxWans
  BY MultiWanAssumption DEF Marks
<1>2. ASSUME NEW i \in DOMAIN s PROVE Fresh(s[i]) \in Wan
  <2>1. s[i] \in Setting
    BY <1>1
  <2>2. <<>> \in Seq({0, 1}) /\ 0 \in 0 .. FailThreshold /\ 0 \in 0 .. RecoverThreshold
    BY MultiWanAssumption
  <2>. QED  BY <2>1, <2>2 DEF Setting, Wan, Fresh
<1>3. ws \in [1 .. Len(s) -> Wan]
  BY <1>1, <1>2
<1>4. ws \in Seq(Wan) /\ Len(ws) = Len(s) /\ DOMAIN ws = DOMAIN s
  BY <1>1, <1>3
<1>5. \A i \in DOMAIN ws : ws[i] = Fresh(s[i])
  BY <1>4
<1>6. \A i, j \in DOMAIN s : s[i].name = s[j].name => i = j
  BY MultiWanAssumption
<1>. QED  BY <1>1, <1>4, <1>5, <1>6 DEF Fresh

\* What is left of the tables and rules when the old list is torn down.
LEMMA TornType ==
    ASSUME TypeOK
    PROVE  /\ TornTables(wans) \in [Tables -> Hops \cup {NoHop}]
           /\ TornRules(wans) \in [Marks -> Seq(Tables)]
<1>1. tables \in [Tables -> Hops \cup {NoHop}] /\ rules \in [Marks -> Seq(Tables)]
  BY DEF TypeOK
<1>2. \A k \in Marks : rules[k] \in Seq(Tables) /\ WithoutRule(rules[k], wans[k].table) \in Seq(Tables)
  BY <1>1, WithoutRuleType
<1>. QED  BY <1>1, <1>2 DEF TornTables, TornRules

\* The tables and rules of the new list.
LEMMA InstalledType ==
    ASSUME TypeOK, NEW ws \in Seq(Wan), NEW good
    PROVE  /\ InstalledTables(ws, good) \in [Tables -> Hops \cup {NoHop}]
           /\ InstalledRules(ws) \in [Marks -> Seq(Tables)]
<1>1. \A i \in DOMAIN ws : ws[i] \in Wan
  OBVIOUS
<1>2. ASSUME NEW t \in Tables PROVE InstalledTables(ws, good)[t] \in Hops \cup {NoHop}
  <2>. DEFINE mine == {i \in HasGateway(ws) : ws[i].table = t}
  <2>1. InstalledTables(ws, good)[t] =
          IF mine = {} THEN TornTables(wans)[t]
          ELSE IF mine \subseteq good THEN Hop(ws[CHOOSE i \in mine : TRUE]) ELSE NoHop
    BY DEF InstalledTables
  <2>2. ASSUME NEW i \in mine PROVE Hop(ws[i]) \in Hops
    BY <1>1 DEF HasGateway, Hop, Hops, Wan
  <2>. QED  BY <2>1, <2>2, TornType
<1>3. ASSUME NEW k \in Marks PROVE InstalledRules(ws)[k] \in Seq(Tables)
  <2>1. TornRules(wans)[k] \in Seq(Tables)
    BY TornType
  <2>2. k \in HasGateway(ws) => ws[k].table \in Tables
    BY <1>1 DEF HasGateway, Wan
  <2>3. WithoutRule(TornRules(wans)[k], ws[k].table) \in Seq(Tables)
    BY <2>1, WithoutRuleType
  <2>. QED  BY <2>1, <2>2, <2>3 DEF InstalledRules
<1>4. DOMAIN InstalledTables(ws, good) = Tables /\ DOMAIN InstalledRules(ws) = Marks
  BY DEF InstalledTables, InstalledRules
<1>5. /\ InstalledTables(ws, good) = [t \in Tables |-> InstalledTables(ws, good)[t]]
      /\ InstalledRules(ws) = [k \in Marks |-> InstalledRules(ws)[k]]
  BY DEF InstalledTables, InstalledRules
<1>. QED  BY <1>2, <1>3, <1>4, <1>5

\* The mark of each device.
LEMMA MangleType ==
    ASSUME NEW ws \in Seq(Wan), Len(ws) \leq MaxWans, NEW routes
    PROVE  RebuildDeviceChain(ws, routes) \in [Devices -> Marks \cup {NoMark}]
BY MarkOfListed DEF RebuildDeviceChain

\* A list that is not empty has a first WAN.
LEMMA FirstListed == ASSUME TypeOK, wans # <<>> PROVE 1 \in DOMAIN wans /\ 1 \in 0 .. MaxWans
<1>1. wans \in Seq(Wan) /\ Len(wans) \leq MaxWans /\ MaxWans \in Nat
  BY MultiWanAssumption DEF TypeOK, WansOK
<1>. QED  BY <1>1

\* One step keeps the types.
LEMMA TypeStep == ASSUME TypeOK, StepsListed, [Next]_vars PROVE TypeOK'
<1>0. MaxWans \in Nat /\ MaxMishaps \in Nat
  BY MultiWanAssumption
<1>00. UNCHANGED wans => WansOK'
  BY DEF TypeOK, WansOK
<1>1. CASE Configure
  <2>1. PICK s \in Settings, md \in Modes \cup {"none", "unknown"} :
           LET ws == [i \in DOMAIN s |-> Fresh(s[i])] IN
           /\ wans' = ws
           /\ asked' = md
           /\ rules' = InstalledRules(ws)
           /\ mangle' = RebuildDeviceChain(ws, deviceRoutes)
           /\ \E good : tables' = InstalledTables(ws, good)
           /\ mishaps' \in {mishaps, mishaps + 1}
           /\ met' \subseteq met \cup Brings(ws) \cup ({"refused"} \cap Faults)
    BY <1>1 DEF Configure
  <2>2. wans' \in Seq(Wan) /\ Len(wans') \leq MaxWans
        /\ \A i \in DOMAIN wans' : wans'[i].history = <<>>
    BY <2>1, FreshList
  <2>3. WansOK'
    <3>1. \A i \in DOMAIN wans' : Len(wans'[i].history) \leq Window
      BY <2>2, WindowBounds
    <3>. QED  BY <2>2, <3>1 DEF WansOK
  <2>4. /\ rules' \in [Marks -> Seq(Tables)]
        /\ tables' \in [Tables -> Hops \cup {NoHop}]
        /\ mangle' \in [Devices -> Marks \cup {NoMark}]
    <3>1. rules' \in [Marks -> Seq(Tables)]
      BY <2>1, <2>2, InstalledType
    <3>2. tables' \in [Tables -> Hops \cup {NoHop}]
      BY <2>1, <2>2, InstalledType
    <3>3. mangle' \in [Devices -> Marks \cup {NoMark}]
      BY <2>1, <2>2, MangleType
    <3>. QED  BY <3>1, <3>2, <3>3
  <2>5. met' \subseteq Faults \cup {"moved", "torn", "noGateway"}
    BY <2>1 DEF TypeOK, Brings
  <2>6. mishaps' \in Nat /\ commands' \in Nat
    BY <2>1, <1>1 DEF TypeOK, Configure, Command
  <2>. QED
    BY <1>1, <2>1, <2>3, <2>4, <2>5, <2>6 DEF TypeOK, Configure
<1>2. CASE ConfigureRejected
  BY <1>00, <1>2, TornType DEF TypeOK, ConfigureRejected, Command, stateVars, stepVars
<1>3. CASE RouteDevice
  <2>1. /\ deviceRoutes' \in [Devices -> Names \cup {NoWan}]
        /\ mangle' \in [Devices -> Marks \cup {NoMark}]
    <3>1. PICK d \in Devices, n \in {wans[i].name : i \in DOMAIN wans} :
            /\ deviceRoutes' = [deviceRoutes EXCEPT ![d] = n]
            /\ mangle' = RebuildDeviceChain(wans, deviceRoutes')
      BY <1>3 DEF RouteDevice
    <3>2. n \in Names
      <4>1. PICK i \in DOMAIN wans : n = wans[i].name
        OBVIOUS
      <4>2. wans[i] \in Wan
        BY DEF TypeOK, WansOK
      <4>. QED  BY <4>1, <4>2 DEF Wan
    <3>. QED  BY <3>1, <3>2, MangleType DEF TypeOK, WansOK
  <2>2. commands' \in Nat
    BY <1>3 DEF TypeOK, RouteDevice, Command
  <2>. QED  BY <1>00, <1>3, <2>1, <2>2 DEF TypeOK, RouteDevice, stepVars
<1>4. CASE ConfigureRoute
  <2>1. ReconcileRouting(wans, mode) /\ wans \in Seq(Wan)
    BY <1>4 DEF ConfigureRoute, TypeOK, WansOK
  <2>2. /\ main' \subseteq Hops
        /\ currentDefault' \in Names \cup {NoWan, Balanced}
        /\ mishaps' \in Nat
        /\ met' \subseteq Faults \cup {"moved", "torn", "noGateway"}
    BY <2>1, ReconcileType
  <2>. QED  BY <1>00, <1>4, <2>2 DEF TypeOK, ConfigureRoute
<1>5. CASE SetMode
  <2>1. CASE asked = "unknown"
    <3>1. asked' = "none" /\ pc' = "idle"
      BY <1>5, <2>1 DEF SetMode
    <3>2. UNCHANGED <<wans, mode, currentDefault, deviceRoutes, running, at, main, tables,
                      rules, mangle, commands, mishaps, met>>
      BY <1>5, <2>1 DEF SetMode, NoChange, Accepted
    <3>. QED  BY <1>00, <3>1, <3>2 DEF TypeOK
  <2>2. CASE asked # "unknown"
    <3>1. ReconcileRouting(wans, asked) /\ wans \in Seq(Wan)
      BY <1>5, <2>2 DEF SetMode, TypeOK, WansOK
    <3>2. /\ main' \subseteq Hops
          /\ currentDefault' \in Names \cup {NoWan, Balanced}
          /\ mishaps' \in Nat
          /\ met' \subseteq Faults \cup {"moved", "torn", "noGateway"}
      BY <3>1, ReconcileType
    <3>3. mode' \in Modes
      BY <1>5, <2>2 DEF SetMode, StepsListed, TypeOK
    <3>. QED  BY <1>00, <1>5, <2>2, <3>2, <3>3 DEF TypeOK, SetMode
  <2>. QED  BY <2>1, <2>2
<1>6. CASE Start
  <2>1. at' \in 0 .. MaxWans /\ pc' \in {"idle", "probe"}
    BY <1>0, <1>6, FirstListed DEF Start, StepsListed
  <2>. QED  BY <1>00, <1>6, <2>1 DEF TypeOK, Start, kernelVars, bounds
<1>7. CASE Sweep
  <2>1. 1 \in 0 .. MaxWans
    BY <1>7, FirstListed DEF Sweep, StepsListed
  <2>. QED  BY <1>00, <1>7, <2>1 DEF TypeOK, Sweep, stateVars, kernelVars, bounds
<1>8. CASE ProbeWan
  <2>1. PICK w \in {Answers(wans[at]), Misses(wans[at])} :
           /\ wans' = [wans EXCEPT ![at] = w]
           /\ IF w.up # wans[at].up
              THEN ReconcileRouting(wans', mode)
              ELSE NoChange /\ Accepted
    BY <1>8 DEF ProbeWan
  <2>2. at \in DOMAIN wans /\ wans[at] \in Wan /\ Len(wans[at].history) \leq Window
    BY <1>8 DEF ProbeWan, StepsListed, TypeOK, WansOK
  <2>3. w \in Wan /\ Len(w.history) \leq Window
    BY <2>2, ProbedType
  <2>4. wans \in Seq(Wan) /\ Len(wans) \leq MaxWans
        /\ \A i \in DOMAIN wans : Len(wans[i].history) \leq Window
    BY DEF TypeOK, WansOK
  <2>5. wans' \in Seq(Wan) /\ Len(wans') = Len(wans)
        /\ \A i \in DOMAIN wans' : wans'[i] = IF i = at THEN w ELSE wans[i]
    BY <2>1, <2>2, <2>3, <2>4
  <2>6. WansOK'
    <3>1. ASSUME NEW i \in DOMAIN wans' PROVE Len(wans'[i].history) \leq Window
      <4>1. i \in DOMAIN wans
        BY <2>4, <2>5
      <4>. QED  BY <4>1, <2>3, <2>4, <2>5
    <3>. QED  BY <2>4, <2>5, <3>1 DEF WansOK
  <2>7. /\ main' \subseteq Hops
        /\ currentDefault' \in Names \cup {NoWan, Balanced}
        /\ mishaps' \in Nat
        /\ met' \subseteq Faults \cup {"moved", "torn", "noGateway"}
    <3>1. CASE ReconcileRouting(wans', mode)
      BY <2>5, <3>1, ReconcileType
    <3>2. CASE NoChange /\ Accepted
      BY <3>2 DEF NoChange, Accepted, TypeOK
    <3>. QED  BY <2>1, <3>1, <3>2
  <2>8. at' \in 0 .. MaxWans /\ pc' \in {"idle", "probe"}
    <3>1. at \in Nat /\ at \leq Len(wans) /\ Len(wans) \leq MaxWans /\ Len(wans) \in Nat
      BY <2>2, <2>4
    <3>. QED  BY <1>0, <1>8, <3>1 DEF ProbeWan
  <2>. QED  BY <1>8, <2>6, <2>7, <2>8 DEF TypeOK, ProbeWan
<1>9. CASE LinkLost
  <2>1. main' \subseteq main /\ tables' \in [Tables -> Hops \cup {NoHop}]
    BY <1>9 DEF LinkLost, TypeOK
  <2>. QED
    BY <1>00, <1>9, <2>1 DEF TypeOK, LinkLost, Mishap, stateVars, stepVars
<1>11. CASE ForeignDefault
  BY <1>00, <1>11 DEF TypeOK, ForeignDefault, Mishap, Hops, stateVars, stepVars
<1>12. CASE Restart
  <2>1. wans' \in Seq(Wan) /\ Len(wans') = 0 /\ DOMAIN wans' = {}
    BY <1>12 DEF Restart
  <2>2. /\ mode' \in Modes /\ asked' \in Modes \cup {"none", "unknown"}
        /\ at' \in 0 .. MaxWans /\ mishaps' \in Nat
        /\ deviceRoutes' \in [Devices -> Names \cup {NoWan}]
    BY <1>0, <1>12 DEF Restart, Modes, Mishap, TypeOK
  <2>3. WansOK'
    BY <1>0, <2>1 DEF WansOK
  <2>. QED  BY <1>12, <2>2, <2>3 DEF TypeOK, Restart, kernelVars
<1>10. CASE UNCHANGED vars
  BY <1>00, <1>10 DEF TypeOK, vars
<1>. QED
  BY <1>1, <1>2, <1>3, <1>4, <1>5, <1>6, <1>7, <1>8, <1>9, <1>10,
     <1>11, <1>12 DEF Next, Step

-----------------------------------------------------------------------------
(* The default route.                                                      *)

WantedOf(ws, md) ==
    IF md = "balance" THEN {Hop(ws[i]) : i \in UpIn(ws)} ELSE {Hop(ws[Pick(ws, md)])}

RecordOf(ws, current, hops) ==
    current \in Names =>
        /\ \E g \in Gateways : hops = {[name |-> current, gateway |-> g]}
        /\ \A i \in DOMAIN ws : ws[i].name = current => Hop(ws[i]) \in hops

\* Reconciling leaves the route that is wanted and a true record of it, if the
\* record was true and no route is refused.
LEMMA ReconcileResult ==
    ASSUME NEW ws \in Seq(Wan), NEW md \in Modes,
           ReconcileRouting(ws, md), met' = {},
           HasGateway(ws) = DOMAIN ws,
           \A i, j \in DOMAIN ws : ws[i].name = ws[j].name => i = j,
           RecordOf(ws, currentDefault, main)
    PROVE  /\ RecordOf(ws, currentDefault', main')
           /\ Eligible(ws, md) # {} /\ ~Overflows(ws, md) => main' = WantedOf(ws, md)
<1>1. \A i \in DOMAIN ws : ws[i].gateway # NoGateway /\ ws[i] \in Wan
  BY DEF HasGateway
<1>2. ~Refused
  BY DEF Refused
<1>3. UpIn(ws) \subseteq DOMAIN ws
  BY DEF UpIn
<1>4. CASE md = "balance"
  <2>1. SetBalancedDefault(ws) /\ Eligible(ws, md) = UpIn(ws)
    BY <1>4 DEF ReconcileRouting, Eligible
  <2>2. CASE Cardinality(UpIn(ws)) \leq 1 /\ NoChange
    <3>1. IsFiniteSet(UpIn(ws))
      <4>1. UpIn(ws) \subseteq 1 .. Len(ws)
        BY <1>3
      <4>. QED  BY <4>1, FS_Interval, FS_Subset
    <3>2. Cardinality(UpIn(ws)) \in Nat /\ (Cardinality(UpIn(ws)) = 0 => UpIn(ws) = {})
      BY <3>1, FS_CardinalityType, FS_EmptySet
    <3>3. UpIn(ws) = {} \/ Overflows(ws, md)
      BY <1>4, <2>2, <3>2 DEF Overflows
    <3>. QED  BY <2>1, <2>2, <3>3 DEF NoChange
  <2>3. CASE main' = {Hop(ws[i]) : i \in UpIn(ws)} /\ currentDefault' = Balanced
    BY <1>4, <2>3, MultiWanAssumption DEF RecordOf, WantedOf
  <2>. QED  BY <1>1, <1>2, <1>3, <2>1, <2>2, <2>3 DEF SetBalancedDefault
<1>5. CASE md # "balance" /\ Eligible(ws, md) = {}
  BY <1>5 DEF ReconcileRouting, NoChange
<1>6. CASE md # "balance" /\ Eligible(ws, md) # {}
  <2>. DEFINE w == ws[Pick(ws, md)]
  <2>1. Pick(ws, md) \in DOMAIN ws
    BY <1>6, PickEligible
  <2>2. w \in Wan /\ w.gateway \in Gateways /\ w.name \in Names
    BY <1>1, <2>1 DEF Wan
  <2>3. WantedOf(ws, md) = {Hop(w)}
    BY <1>6 DEF WantedOf
  <2>4. CASE w.name = currentDefault
    <3>1. NoChange
      BY <1>6, <2>4 DEF ReconcileRouting
    <3>2. Hop(w) \in main /\ \E g \in Gateways : main = {[name |-> currentDefault, gateway |-> g]}
      BY <2>1, <2>2, <2>4 DEF RecordOf
    <3>. QED  BY <2>3, <3>1, <3>2 DEF NoChange
  <2>5. CASE w.name # currentDefault
    <3>1. main' = {Hop(w)} /\ currentDefault' = w.name
      BY <1>1, <1>2, <1>6, <2>1, <2>5 DEF ReconcileRouting, SetDefaultRoute
    <3>2. \A i \in DOMAIN ws : ws[i].name = w.name => Hop(ws[i]) = Hop(w)
      BY <2>1
    <3>. QED  BY <2>2, <2>3, <3>1, <3>2 DEF RecordOf, Hop
  <2>. QED  BY <2>4, <2>5
<1>. QED  BY <1>4, <1>5, <1>6

\* The record depends on names and gateways alone.
LEMMA SameRecord ==
    ASSUME NEW ws \in Seq(Wan), NEW xs \in Seq(Wan), DOMAIN xs = DOMAIN ws,
           \A i \in DOMAIN ws : xs[i].name = ws[i].name /\ xs[i].gateway = ws[i].gateway,
           NEW current, NEW hops, RecordOf(ws, current, hops)
    PROVE  RecordOf(xs, current, hops)
<1>1. \A i \in DOMAIN ws : Hop(xs[i]) = Hop(ws[i])
  BY DEF Hop
<1>. QED  BY <1>1 DEF RecordOf

\* What is wanted depends on names, gateways and health alone.
LEMMA SameWanted ==
    ASSUME NEW ws \in Seq(Wan), NEW xs \in Seq(Wan), DOMAIN xs = DOMAIN ws,
           \A i \in DOMAIN ws : /\ xs[i].name = ws[i].name
                                /\ xs[i].gateway = ws[i].gateway
                                /\ xs[i].up = ws[i].up,
           NEW md
    PROVE  /\ Eligible(xs, md) = Eligible(ws, md)
           /\ Overflows(xs, md) = Overflows(ws, md)
           /\ Eligible(ws, md) # {} => WantedOf(xs, md) = WantedOf(ws, md)
<1>1. UpIn(xs) = UpIn(ws)
  BY DEF UpIn
<1>2. Eligible(xs, md) = Eligible(ws, md) /\ Overflows(xs, md) = Overflows(ws, md)
  BY <1>1 DEF Eligible, Overflows
<1>3. Pick(xs, md) = Pick(ws, md)
  BY <1>2 DEF Pick
<1>4. UpIn(ws) \subseteq DOMAIN ws
  BY DEF UpIn
<1>5. Eligible(ws, md) # {} => Pick(ws, md) \in DOMAIN ws
  BY PickEligible
<1>6. \A i \in DOMAIN ws : Hop(xs[i]) = Hop(ws[i])
  BY DEF Hop
<1>. QED  BY <1>1, <1>2, <1>3, <1>4, <1>5, <1>6 DEF WantedOf

\* The parts of the invariant that speak of the default route.
RouteInv == StepsListed /\ NamesDistinct /\ GatewaysKnown /\ RecordTrue /\ DefaultFollows

\* The record of the invariant.
LEMMA RecordTrueIs == RecordTrue <=> (met = {} => RecordOf(wans, currentDefault, main))
BY DEF RecordTrue, RecordOf

\* The route of the invariant.
LEMMA DefaultFollowsIs ==
    DefaultFollows <=>
      (met = {} /\ pc # "configured" /\ Eligible(wans, mode) # {} /\ ~Overflows(wans, mode)
         => main = WantedOf(wans, mode))
BY DEF DefaultFollows, Wanted, WantedOf

\* A probe changes the health of one WAN of the list.
LEMMA ProbeList ==
    ASSUME TypeOK, StepsListed, ProbeWan
    PROVE  \E w \in {Answers(wans[at]), Misses(wans[at])} :
             /\ wans' = [wans EXCEPT ![at] = w]
             /\ IF w.up # wans[at].up
                THEN ReconcileRouting(wans', mode)
                ELSE NoChange /\ Accepted
             /\ at \in DOMAIN wans /\ wans \in Seq(Wan) /\ wans' \in Seq(Wan)
             /\ wans[at] \in Wan /\ Len(wans[at].history) \leq Window
             /\ DOMAIN wans' = DOMAIN wans /\ wans' # <<>>
             /\ \A i \in DOMAIN wans :
                  /\ wans'[i] = IF i = at THEN w ELSE wans[i]
                  /\ wans'[i].name = wans[i].name /\ wans'[i].gateway = wans[i].gateway
<1>1. PICK w \in {Answers(wans[at]), Misses(wans[at])} :
         /\ wans' = [wans EXCEPT ![at] = w]
         /\ IF w.up # wans[at].up
            THEN ReconcileRouting(wans', mode)
            ELSE NoChange /\ Accepted
  BY DEF ProbeWan
<1>2. /\ at \in DOMAIN wans /\ wans[at] \in Wan /\ Len(wans[at].history) \leq Window
      /\ wans \in Seq(Wan)
  BY DEF ProbeWan, StepsListed, TypeOK, WansOK
<1>3. w \in Wan /\ w.name = wans[at].name /\ w.gateway = wans[at].gateway
  BY <1>2, ProbedType
<1>4. /\ wans' \in Seq(Wan) /\ DOMAIN wans' = DOMAIN wans /\ wans' # <<>>
      /\ \A i \in DOMAIN wans : wans'[i] = IF i = at THEN w ELSE wans[i]
  BY <1>1, <1>2, <1>3
<1>5. \A i \in DOMAIN wans : wans'[i].name = wans[i].name /\ wans'[i].gateway = wans[i].gateway
  BY <1>3, <1>4
<1>. QED  BY <1>1, <1>2, <1>4, <1>5

\* What holds of the steps and of the list after a step.
LEMMA ListStep ==
    ASSUME TypeOK, StepsListed, NamesDistinct, [Next]_vars
    PROVE  StepsListed' /\ NamesDistinct'
<1>1. CASE Configure
  <2>1. PICK s \in Settings : wans' = [i \in DOMAIN s |-> Fresh(s[i])]
    BY <1>1 DEF Configure
  <2>2. wans' # <<>> /\ \A i, j \in DOMAIN wans' : wans'[i].name = wans'[j].name => i = j
    BY <2>1, FreshList
  <2>3. pc' = "configured"
    BY <1>1 DEF Configure
  <2>. QED  BY <2>2, <2>3 DEF StepsListed, NamesDistinct
<1>2. CASE ProbeWan
  <2>1. DOMAIN wans' = DOMAIN wans /\ wans' # <<>> /\ at \in DOMAIN wans /\ wans \in Seq(Wan)
        /\ \A i \in DOMAIN wans : wans'[i].name = wans[i].name
    BY <1>2, ProbeList
  <2>2. NamesDistinct'
    BY <2>1 DEF NamesDistinct
  <2>3. pc' = "probe" => at' \in DOMAIN wans
    BY <1>2, <2>1 DEF ProbeWan
  <2>. QED  BY <1>2, <2>1, <2>2, <2>3 DEF StepsListed, ProbeWan
<1>3. CASE Start \/ Sweep
  <2>1. wans # <<>> /\ wans' = wans
    BY <1>3 DEF Start, Sweep, StepsListed, stateVars
  <2>2. 1 \in DOMAIN wans
    BY <2>1, FirstListed
  <2>. QED
    BY <1>3, <2>1, <2>2 DEF Start, Sweep, StepsListed, NamesDistinct, Idle, stateVars
<1>4. CASE Restart
  BY <1>4 DEF Restart, StepsListed, NamesDistinct
<1>5. CASE ConfigureRoute \/ SetMode
  BY <1>5 DEF ConfigureRoute, SetMode, StepsListed, NamesDistinct
<1>6. CASE ConfigureRejected \/ RouteDevice
  BY <1>6 DEF ConfigureRejected, RouteDevice, StepsListed, NamesDistinct, stateVars, stepVars
<1>7. CASE LinkLost \/ ForeignDefault
  BY <1>7 DEF LinkLost, ForeignDefault, StepsListed, NamesDistinct, stateVars, stepVars
<1>8. CASE UNCHANGED vars
  BY <1>8 DEF vars, StepsListed, NamesDistinct
<1>. QED
  BY <1>1, <1>2, <1>3, <1>4, <1>5, <1>6, <1>7, <1>8 DEF Next, Step

\* A list without all its gateways is remembered.
LEMMA GatewaysStep ==
    ASSUME TypeOK, StepsListed, GatewaysKnown, [Next]_vars
    PROVE  GatewaysKnown'
<1>1. CASE Configure
  <2>1. Brings(wans') \subseteq met'
    BY <1>1 DEF Configure
  <2>. QED  BY <2>1 DEF Brings, GatewaysKnown
<1>2. CASE ProbeWan
  <2>1. DOMAIN wans' = DOMAIN wans /\ \A i \in DOMAIN wans : wans'[i].gateway = wans[i].gateway
    BY <1>2, ProbeList
  <2>2. HasGateway(wans') = HasGateway(wans)
    BY <2>1 DEF HasGateway
  <2>3. met \subseteq met'
    BY <1>2 DEF ProbeWan, ReconcileRouting, SetBalancedDefault, SetDefaultRoute, Accepted, Refused
  <2>. QED  BY <2>1, <2>2, <2>3 DEF GatewaysKnown
<1>3. CASE Restart
  BY <1>3 DEF Restart, GatewaysKnown, HasGateway
<1>4. CASE UNCHANGED wans /\ met \subseteq met'
  BY <1>4 DEF GatewaysKnown
<1>5. CASE ConfigureRoute \/ SetMode
  <2>1. UNCHANGED wans /\ met \subseteq met'
    BY <1>5 DEF ConfigureRoute, SetMode, ReconcileRouting, SetBalancedDefault,
                SetDefaultRoute, Accepted, Refused
  <2>. QED  BY <2>1, <1>4
<1>6. CASE ConfigureRejected \/ RouteDevice \/ Start \/ Sweep
  BY <1>4, <1>6 DEF ConfigureRejected, RouteDevice, Start, Sweep, stateVars
<1>7. CASE LinkLost \/ ForeignDefault
  BY <1>4, <1>7 DEF LinkLost, ForeignDefault, stateVars
<1>8. CASE UNCHANGED vars
  BY <1>4, <1>8 DEF vars
<1>. QED
  BY <1>1, <1>2, <1>3, <1>5, <1>6, <1>7, <1>8 DEF Next, Step

\* What goes wrong is forgotten by a restart alone.
LEMMA ReconcileRemembers ==
    ASSUME NEW ws, NEW md, ReconcileRouting(ws, md)
    PROVE  met \subseteq met'
BY DEF ReconcileRouting, SetBalancedDefault, SetDefaultRoute, Accepted, Refused

\* The default route and its record follow the list, the mode and the health.
LEMMA RouteStep ==
    ASSUME TypeOK, RouteInv, [Next]_vars
    PROVE  RecordTrue' /\ DefaultFollows'
<1>. DEFINE Good == /\ RecordOf(wans', currentDefault', main')
                    /\ /\ pc' # "configured"
                       /\ Eligible(wans', mode') # {}
                       /\ ~Overflows(wans', mode')
                       => main' = WantedOf(wans', mode')
<1>0. SUFFICES ASSUME met' = {} PROVE Good
  BY DEF RecordTrue, DefaultFollows, Wanted, RecordOf, WantedOf
<1>1. met = {} =>
        /\ RecordOf(wans, currentDefault, main)
        /\ HasGateway(wans) = DOMAIN wans
        /\ pc # "configured" /\ Eligible(wans, mode) # {} /\ ~Overflows(wans, mode)
           => main = WantedOf(wans, mode)
  BY RecordTrueIs, DefaultFollowsIs DEF RouteInv, GatewaysKnown
<1>2. /\ wans \in Seq(Wan) /\ mode \in Modes /\ asked \in Modes \cup {"none", "unknown"}
      /\ \A i, j \in DOMAIN wans : wans[i].name = wans[j].name => i = j
  BY DEF TypeOK, WansOK, RouteInv, NamesDistinct
<1>3. CASE /\ UNCHANGED <<wans, mode, currentDefault, main>> /\ met \subseteq met'
           /\ pc' # "configured" => pc # "configured"
  BY <1>0, <1>1, <1>3
<1>4. CASE Configure
  <2>1. Brings(wans') = {} /\ met = {} /\ pc' = "configured" /\ UNCHANGED <<currentDefault, main>>
    BY <1>0, <1>4 DEF Configure
  <2>2. \A i \in DOMAIN wans' : wans'[i].name = currentDefault => Hop(wans'[i]) \in main
    BY <2>1 DEF Brings
  <2>. QED  BY <1>1, <2>1, <2>2 DEF RecordOf
<1>5. CASE ConfigureRoute
  <2>1. ReconcileRouting(wans, mode) /\ wans' = wans /\ mode' = mode
    BY <1>5 DEF ConfigureRoute
  <2>2. met = {}
    BY <1>0, <2>1, ReconcileRemembers
  <2>. QED  BY <1>0, <1>1, <1>2, <2>1, <2>2, ReconcileResult
<1>6. CASE SetMode /\ asked # "unknown"
  <2>1. ReconcileRouting(wans, asked) /\ wans' = wans /\ mode' = asked /\ asked \in Modes
    BY <1>2, <1>6 DEF SetMode, RouteInv, StepsListed
  <2>2. met = {}
    BY <1>0, <2>1, ReconcileRemembers
  <2>. QED  BY <1>0, <1>1, <1>2, <2>1, <2>2, ReconcileResult
<1>7. CASE ProbeWan
  <2>1. PICK w \in {Answers(wans[at]), Misses(wans[at])} :
           /\ wans' = [wans EXCEPT ![at] = w]
           /\ IF w.up # wans[at].up THEN ReconcileRouting(wans', mode) ELSE NoChange /\ Accepted
           /\ at \in DOMAIN wans
           /\ wans' \in Seq(Wan) /\ DOMAIN wans' = DOMAIN wans
           /\ \A i \in DOMAIN wans :
                /\ wans'[i] = IF i = at THEN w ELSE wans[i]
                /\ wans'[i].name = wans[i].name /\ wans'[i].gateway = wans[i].gateway
    BY <1>7, ProbeList DEF RouteInv
  <2>2. met = {} /\ mode' = mode /\ pc = "probe" /\ mode \in Modes
    BY <1>0, <1>2, <1>7, ReconcileRemembers, <2>1 DEF ProbeWan, Accepted
  <2>3. RecordOf(wans', currentDefault, main)
    BY <1>1, <1>2, <2>1, <2>2, SameRecord
  <2>4. CASE w.up # wans[at].up
    <3>1. HasGateway(wans') = DOMAIN wans'
      BY <1>1, <2>1, <2>2 DEF HasGateway
    <3>2. \A i, j \in DOMAIN wans' : wans'[i].name = wans'[j].name => i = j
      BY <1>2, <2>1
    <3>. QED  BY <1>0, <2>1, <2>2, <2>3, <2>4, <3>1, <3>2, ReconcileResult
  <2>5. CASE w.up = wans[at].up
    <3>1. NoChange /\ \A i \in DOMAIN wans : wans'[i].up = wans[i].up
      BY <2>1, <2>5
    <3>2. /\ Eligible(wans', mode) = Eligible(wans, mode)
          /\ Overflows(wans', mode) = Overflows(wans, mode)
          /\ Eligible(wans, mode) # {} => WantedOf(wans', mode) = WantedOf(wans, mode)
      <4>1. \A i \in DOMAIN wans : /\ wans'[i].name = wans[i].name
                                   /\ wans'[i].gateway = wans[i].gateway
                                   /\ wans'[i].up = wans[i].up
        BY <2>1, <3>1
      <4>2. wans \in Seq(Wan) /\ wans' \in Seq(Wan) /\ DOMAIN wans' = DOMAIN wans
        BY <1>2, <2>1
      <4>. QED  BY <4>1, <4>2, SameWanted
    <3>. QED  BY <1>1, <2>2, <2>3, <3>1, <3>2 DEF NoChange
  <2>. QED  BY <2>4, <2>5
<1>8. CASE Restart
  <2>1. currentDefault' \notin Names /\ wans' = <<>>
    BY <1>8, MultiWanAssumption DEF Restart
  <2>. QED  BY <2>1 DEF RecordOf, Eligible, UpIn
<1>9. CASE LinkLost \/ ForeignDefault
  BY <1>0, <1>9 DEF LinkLost, ForeignDefault
<1>10. CASE SetMode /\ asked = "unknown"
  BY <1>3, <1>10 DEF SetMode, NoChange, Accepted
<1>11. CASE ConfigureRejected \/ RouteDevice \/ Start \/ Sweep
  BY <1>3, <1>11 DEF ConfigureRejected, RouteDevice, Command, Idle, Start, Sweep,
                     stateVars, stepVars, kernelVars, bounds
<1>12. CASE UNCHANGED vars
  BY <1>3, <1>12 DEF vars
<1>. QED
  BY <1>4, <1>5, <1>6, <1>7, <1>8, <1>9, <1>10, <1>11, <1>12 DEF Next, Step

\* The counters count the newest results.
LEMMA CountsStep ==
    ASSUME TypeOK, StepsListed, CountsTrue, [Next]_vars
    PROVE  CountsTrue'
<1>1. CASE Configure
  <2>1. PICK s \in Settings : wans' = [i \in DOMAIN s |-> Fresh(s[i])]
    BY <1>1 DEF Configure
  <2>2. \A i \in DOMAIN wans' :
           wans'[i].fails = 0 /\ wans'[i].ok = 0 /\ wans'[i].history = <<>>
    BY <2>1, FreshList
  <2>3. LastAre(<<>>, 0, 0) /\ LastAre(<<>>, 0, 1)
    BY DEF LastAre
  <2>. QED  BY <2>2, <2>3 DEF CountsTrue
<1>2. CASE ProbeWan
  <2>1. PICK w \in {Answers(wans[at]), Misses(wans[at])} :
           /\ at \in DOMAIN wans
           /\ wans[at] \in Wan /\ Len(wans[at].history) \leq Window
           /\ DOMAIN wans' = DOMAIN wans
           /\ \A i \in DOMAIN wans : wans'[i] = IF i = at THEN w ELSE wans[i]
    BY <1>2, ProbeList
  <2>2. LastAre(w.history, w.fails, 0) /\ LastAre(w.history, w.ok, 1)
    BY <2>1, ProbedCounts DEF CountsTrue
  <2>. QED  BY <2>1, <2>2 DEF CountsTrue
<1>3. CASE Restart
  BY <1>3 DEF Restart, CountsTrue
<1>4. CASE UNCHANGED wans
  BY <1>4 DEF CountsTrue
<1>5. CASE ConfigureRoute \/ SetMode \/ Start \/ Sweep \/ ConfigureRejected \/ RouteDevice
  BY <1>4, <1>5 DEF ConfigureRoute, SetMode, Start, Sweep, ConfigureRejected, RouteDevice, stateVars
<1>6. CASE LinkLost \/ ForeignDefault
  BY <1>4, <1>6 DEF LinkLost, ForeignDefault, stateVars
<1>7. CASE UNCHANGED vars
  BY <1>4, <1>7 DEF vars
<1>. QED  BY <1>1, <1>2, <1>3, <1>5, <1>6, <1>7 DEF Next, Step

\* The agent starts with no WAN, no failure and the route of its DHCP client.
LEMMA IndInit == Init => IndInv
<1>. SUFFICES ASSUME Init PROVE IndInv
  OBVIOUS
<1>1. TypeOK
  BY TypeInit
<1>2. wans = <<>> /\ currentDefault \notin Names /\ pc = "idle" /\ ~running
  BY MultiWanAssumption DEF Init
<1>3. StepsListed /\ NamesDistinct /\ CountsTrue /\ GatewaysKnown
  BY <1>2 DEF StepsListed, NamesDistinct, CountsTrue, GatewaysKnown, HasGateway
<1>4. RecordTrue /\ DefaultFollows
  BY <1>2 DEF RecordTrue, DefaultFollows, Eligible, UpIn
<1>. QED  BY <1>1, <1>3, <1>4 DEF IndInv

\* No step breaks the invariant.
LEMMA IndStep == IndInv /\ [Next]_vars => IndInv'
<1>. SUFFICES ASSUME IndInv, [Next]_vars PROVE IndInv'
  OBVIOUS
<1>. QED
  BY TypeStep, ListStep, GatewaysStep, RouteStep, CountsStep DEF IndInv, RouteInv

-----------------------------------------------------------------------------
(* The theorems.                                                           *)

\* The state of multi-wan.js and of the kernel keep their types.
THEOREM TypeCorrect == Spec => []TypeOK
<1>1. IndInv => TypeOK
  BY DEF IndInv
<1>. QED  BY <1>1, IndInit, IndStep, PTL DEF Spec

\* The counters count, the record of the default route is true, and with it
\* all of the inductive invariant holds.
THEOREM IndInvCorrect == Spec => []IndInv
BY IndInit, IndStep, PTL DEF Spec

\* The default route is the one that reconcileRouting is to install, after any
\* sequence of commands, failures, recoveries and restarts.
THEOREM DefaultCorrect == Spec => []DefaultFollows
<1>1. IndInv => DefaultFollows
  BY DEF IndInv
<1>. QED  BY <1>1, IndInit, IndStep, PTL DEF Spec

\* No WAN goes down or comes up before probeWan has seen as many results in a
\* row as its thresholds ask for.
THEOREM HysteresisCorrect == Spec => Hysteresis
<1>. DEFINE A == pc = "probe" /\ wans' # <<>> => \A i \in DOMAIN wans :
                   /\ wans[i].up /\ ~wans'[i].up
                      => LastAre(wans'[i].history, FailThreshold, 0)
                   /\ ~wans[i].up /\ wans'[i].up
                      => LastAre(wans'[i].history, RecoverThreshold, 1)
<1>1. IndInv /\ [Next]_vars => [A]_vars
  <2>. SUFFICES ASSUME IndInv, [Next]_vars, pc = "probe", wans' # <<>>, NEW i \in DOMAIN wans
                PROVE  /\ wans[i].up /\ ~wans'[i].up
                          => LastAre(wans'[i].history, FailThreshold, 0)
                       /\ ~wans[i].up /\ wans'[i].up
                          => LastAre(wans'[i].history, RecoverThreshold, 1)
    OBVIOUS
  <2>1. CASE ProbeWan
    <3>1. PICK w \in {Answers(wans[at]), Misses(wans[at])} :
             /\ at \in DOMAIN wans
             /\ wans[at] \in Wan /\ Len(wans[at].history) \leq Window
             /\ wans'[i] = IF i = at THEN w ELSE wans[i]
      BY <2>1, ProbeList DEF IndInv
    <3>2. /\ wans[at].up /\ ~w.up => LastAre(w.history, FailThreshold, 0)
          /\ ~wans[at].up /\ w.up => LastAre(w.history, RecoverThreshold, 1)
      BY <3>1, ProbedCounts DEF IndInv, CountsTrue
    <3>. QED  BY <3>1, <3>2
  <2>2. ~Restart
    BY DEF Restart
  <2>3. ~Configure
    BY DEF Configure, Command, Idle
  <2>4. CASE UNCHANGED wans
    BY <2>4
  <2>5. CASE ConfigureRoute \/ SetMode \/ Start \/ Sweep \/ ConfigureRejected \/ RouteDevice
    BY <2>4, <2>5 DEF ConfigureRoute, SetMode, Start, Sweep, ConfigureRejected, RouteDevice,
                      stateVars
  <2>6. CASE LinkLost \/ ForeignDefault
    BY <2>4, <2>6 DEF LinkLost, ForeignDefault, stateVars
  <2>7. CASE UNCHANGED vars
    BY <2>4, <2>7 DEF vars
  <2>. QED  BY <2>1, <2>2, <2>3, <2>5, <2>6, <2>7 DEF Next, Step
<1>. QED  BY <1>1, IndInit, IndStep, PTL DEF Spec, Hysteresis

\* No handler takes the default route away, but a link that is lost and the
\* delete before the add of setBalancedDefault.
THEOREM RouteNeverDroppedCorrect == Spec => RouteNeverDropped
<1>. DEFINE A == main # {} /\ main' = {} =>
                   \/ "link" \in met'
                   \/ mode' = "balance" /\ met' \cap {"refused", "noGateway"} # {}
<1>1. ASSUME NEW ws \in Seq(Wan), NEW md, ReconcileRouting(ws, md), main # {}, main' = {},
             "noGateway" \in met \/ HasGateway(ws) = DOMAIN ws
      PROVE  md = "balance" /\ met' \cap {"refused", "noGateway"} # {}
  <2>1. md = "balance"
    BY <1>1 DEF ReconcileRouting, SetDefaultRoute, NoChange
  <2>2. SetBalancedDefault(ws) /\ ~NoChange
    BY <1>1, <2>1 DEF ReconcileRouting, NoChange
  <2>3. CASE Cardinality(UpIn(ws)) > 1 /\ main' = {Hop(ws[i]) : i \in UpIn(ws)}
    <3>1. UpIn(ws) = {}
      BY <1>1, <2>3
    <3>. QED  BY <2>3, <3>1, FS_EmptySet
  <2>4. CASE IF \E i \in UpIn(ws) : ws[i].gateway = NoGateway THEN Accepted ELSE Refused
    BY <1>1, <2>1, <2>4 DEF UpIn, HasGateway, Accepted, Refused
  <2>. QED  BY <2>2, <2>3, <2>4 DEF SetBalancedDefault
<1>2. IndInv /\ [Next]_vars => [A]_vars
  <2>. SUFFICES ASSUME IndInv, [Next]_vars, main # {}, main' = {}
                PROVE  \/ "link" \in met'
                       \/ mode' = "balance" /\ met' \cap {"refused", "noGateway"} # {}
    OBVIOUS
  <2>0. wans \in Seq(Wan) /\ ("noGateway" \in met \/ HasGateway(wans) = DOMAIN wans)
    BY DEF IndInv, TypeOK, WansOK, GatewaysKnown
  <2>1. CASE ConfigureRoute
    BY <1>1, <2>0, <2>1 DEF ConfigureRoute
  <2>2. CASE SetMode
    BY <1>1, <2>0, <2>2 DEF SetMode, NoChange
  <2>3. CASE ProbeWan
    <3>1. /\ wans' \in Seq(Wan) /\ DOMAIN wans' = DOMAIN wans
          /\ \A i \in DOMAIN wans : wans'[i].gateway = wans[i].gateway
          /\ ReconcileRouting(wans', mode) \/ NoChange
      BY <2>3, ProbeList DEF IndInv
    <3>2. ReconcileRouting(wans', mode) /\ mode' = mode
      BY <2>3, <3>1 DEF NoChange, ProbeWan
    <3>3. HasGateway(wans') = HasGateway(wans)
      BY <3>1 DEF HasGateway
    <3>. QED  BY <1>1, <2>0, <3>1, <3>2, <3>3
  <2>4. CASE LinkLost
    BY <2>4 DEF LinkLost
  <2>5. CASE Configure \/ ConfigureRejected \/ RouteDevice \/ Start \/ Sweep \/ Restart
    BY <2>5 DEF Configure, ConfigureRejected, RouteDevice, Start, Sweep, Restart, kernelVars
  <2>6. CASE ForeignDefault
    BY <2>6 DEF ForeignDefault
  <2>7. CASE UNCHANGED vars
    BY <2>7 DEF vars
  <2>. QED  BY <2>1, <2>2, <2>3, <2>4, <2>5, <2>6, <2>7 DEF Next, Step
<1>. QED  BY <1>2, IndInit, IndStep, PTL DEF Spec, RouteNeverDropped


-----------------------------------------------------------------------------
(* Devices pinned to a WAN.                                                *)

\* A list of WANs names each table once.
LEMMA FreshTables ==
    ASSUME NEW s \in Settings, NEW ws, ws = [i \in DOMAIN s |-> Fresh(s[i])]
    PROVE  \A i, j \in DOMAIN ws : ws[i].table = ws[j].table => i = j
<1>1. \A i, j \in DOMAIN s : s[i].table = s[j].table => i = j
  BY MultiWanAssumption
<1>. QED  BY <1>1 DEF Fresh

\* After a configure that nothing refused, the newest rule for the mark of a WAN
\* with a gateway is for its table, which has its route.
LEMMA InstalledCurrent ==
    ASSUME NEW ws \in Seq(Wan), Len(ws) \leq MaxWans,
           \A i, j \in DOMAIN ws : ws[i].table = ws[j].table => i = j,
           TypeOK, NEW k \in HasGateway(ws)
    PROVE  /\ InstalledRules(ws)[k] # <<>> /\ Head(InstalledRules(ws)[k]) = ws[k].table
           /\ InstalledTables(ws, HasGateway(ws))[ws[k].table] = Hop(ws[k])
<1>1. k \in DOMAIN ws /\ ws[k] \in Wan /\ k \in Marks
  BY MultiWanAssumption DEF HasGateway, Marks
<1>2. ws[k].table \in Tables
  BY <1>1 DEF Wan
<1>3. InstalledRules(ws)[k] # <<>> /\ Head(InstalledRules(ws)[k]) = ws[k].table
  <2>. DEFINE rest == WithoutRule(TornRules(wans)[k], ws[k].table)
  <2>1. rest \in Seq(Tables)
    BY <1>1, TornType, WithoutRuleType
  <2>2. InstalledRules(ws)[k] = <<ws[k].table>> \o rest
    BY <1>1 DEF InstalledRules
  <2>. HIDE DEF rest
  <2>. QED  BY <1>2, <2>1, <2>2
<1>4. InstalledTables(ws, HasGateway(ws))[ws[k].table] = Hop(ws[k])
  <2>. DEFINE mine == {i \in HasGateway(ws) : ws[i].table = ws[k].table}
  <2>1. mine = {k}
    BY DEF HasGateway
  <2>2. mine # {} /\ mine \subseteq HasGateway(ws) /\ (CHOOSE i \in mine : TRUE) = k
    BY <2>1
  <2>3. InstalledTables(ws, HasGateway(ws))[ws[k].table] =
            IF mine = {} THEN TornTables(wans)[ws[k].table]
            ELSE IF mine \subseteq HasGateway(ws)
                 THEN Hop(ws[CHOOSE i \in mine : TRUE]) ELSE NoHop
    BY <1>2 DEF InstalledTables
  <2>. QED  BY <2>2, <2>3
<1>. QED  BY <1>3, <1>4

\* The table of a WAN stays its table when it is probed.
LEMMA ProbedTable ==
    ASSUME NEW w \in Wan, NEW x \in {Answers(w), Misses(w)}
    PROVE  x.table = w.table
BY DEF Answers, Misses, Wan

\* Every step keeps marks and rules current.
LEMMA PinStep ==
    ASSUME PinInv, [Next]_vars
    PROVE  MarksCurrent' /\ RulesCurrent'
<1>0. /\ TypeOK /\ StepsListed /\ wans \in Seq(Wan) /\ Len(wans) \leq MaxWans
  BY DEF PinInv, IndInv, TypeOK, WansOK
<1>1. ASSUME UNCHANGED <<mangle, deviceRoutes, rules, tables>>, met \subseteq met',
             wans' # <<>> => wans # <<>>,
             DOMAIN wans' = DOMAIN wans,
             \A i \in DOMAIN wans : /\ wans'[i].name = wans[i].name
                                    /\ wans'[i].gateway = wans[i].gateway
                                    /\ wans'[i].table = wans[i].table
      PROVE  MarksCurrent' /\ RulesCurrent'
  <2>1. \A n : MarkOf(wans', n) = MarkOf(wans, n)
    <3>. SUFFICES ASSUME NEW n PROVE MarkOf(wans', n) = MarkOf(wans, n)
      OBVIOUS
    <3>. DEFINE new == {i \in DOMAIN wans' : wans'[i].name = n}
                old == {i \in DOMAIN wans : wans[i].name = n}
                FirstOf(named) == IF named = {} THEN NoMark
                                  ELSE CHOOSE i \in named : \A j \in named : i \leq j
    <3>1. new = old
      BY <1>1
    <3>2. MarkOf(wans', n) = FirstOf(new) /\ MarkOf(wans, n) = FirstOf(old)
      BY Zenon DEF MarkOf
    <3>. HIDE DEF new, old, FirstOf
    <3>. QED  BY <3>1, <3>2
  <2>2. RebuildDeviceChain(wans', deviceRoutes') = RebuildDeviceChain(wans, deviceRoutes)
    BY <1>1, <2>1 DEF RebuildDeviceChain
  <2>3. /\ HasGateway(wans') = HasGateway(wans)
        /\ \A k \in HasGateway(wans) : k \in DOMAIN wans /\ Hop(wans'[k]) = Hop(wans[k])
    BY <1>1 DEF HasGateway, Hop
  <2>. QED  BY <1>1, <2>2, <2>3 DEF PinInv, MarksCurrent, RulesCurrent
<1>2. CASE Configure
  <2>1. PICK s \in Settings, md \in Modes \cup {"none", "unknown"} :
           LET ws == [i \in DOMAIN s |-> Fresh(s[i])] IN
           /\ wans' = ws
           /\ rules' = InstalledRules(ws)
           /\ mangle' = RebuildDeviceChain(ws, deviceRoutes)
           /\ tables' = InstalledTables(ws, HasGateway(ws)) \/ "refused" \in met'
    BY <1>2 DEF Configure
  <2>2. /\ wans' \in Seq(Wan) /\ Len(wans') \leq MaxWans
        /\ \A i, j \in DOMAIN wans' : wans'[i].table = wans'[j].table => i = j
    BY <2>1, FreshList, FreshTables
  <2>3. MarksCurrent'
    BY <1>2, <2>1 DEF MarksCurrent, Configure
  <2>4. \A k \in HasGateway(wans') :
           /\ rules'[k] # <<>> /\ Head(rules'[k]) = wans'[k].table
           /\ "refused" \notin met' => tables'[wans'[k].table] = Hop(wans'[k])
    BY <1>0, <2>1, <2>2, InstalledCurrent
  <2>. QED  BY <2>3, <2>4 DEF RulesCurrent
<1>3. CASE ConfigureRejected
  <2>1. CASE wans = <<>>
    BY <1>3, <2>1 DEF ConfigureRejected, MarksCurrent, RulesCurrent, stateVars
  <2>2. CASE wans # <<>>
    BY <1>3, <2>2 DEF ConfigureRejected, PinInv, MarksCurrent, RulesCurrent, stateVars
  <2>. QED  BY <2>1, <2>2
<1>4. CASE RouteDevice
  BY <1>4 DEF RouteDevice, PinInv, MarksCurrent, RulesCurrent
<1>5. CASE ConfigureRoute \/ SetMode
  <2>1. met \subseteq met'
    BY <1>5, ReconcileRemembers DEF ConfigureRoute, SetMode, Accepted
  <2>. QED  BY <1>1, <1>5, <2>1 DEF ConfigureRoute, SetMode
<1>6. CASE Start \/ Sweep
  BY <1>1, <1>6 DEF Start, Sweep, stateVars, kernelVars
<1>7. CASE ProbeWan
  <2>1. PICK w \in {Answers(wans[at]), Misses(wans[at])} :
             /\ IF w.up # wans[at].up
                THEN ReconcileRouting(wans', mode)
                ELSE NoChange /\ Accepted
             /\ at \in DOMAIN wans /\ wans[at] \in Wan
             /\ DOMAIN wans' = DOMAIN wans
             /\ \A i \in DOMAIN wans :
                  /\ wans'[i] = IF i = at THEN w ELSE wans[i]
                  /\ wans'[i].name = wans[i].name /\ wans'[i].gateway = wans[i].gateway
    BY <1>0, <1>7, ProbeList
  <2>2. w.table = wans[at].table
    BY <2>1, ProbedTable
  <2>3. \A i \in DOMAIN wans : wans'[i].table = wans[i].table
    BY <2>1, <2>2
  <2>4. met \subseteq met'
    BY <2>1, ReconcileRemembers DEF Accepted
  <2>5. wans # <<>>
    BY <2>1
  <2>6. UNCHANGED <<mangle, deviceRoutes, rules, tables>>
    BY <1>7 DEF ProbeWan
  <2>. QED  BY <1>1, <2>1, <2>3, <2>4, <2>5, <2>6
<1>8. CASE LinkLost
  BY <1>8 DEF LinkLost, PinInv, MarksCurrent, RulesCurrent, stateVars
<1>9. CASE ForeignDefault
  BY <1>1, <1>9 DEF ForeignDefault, stateVars
<1>10. CASE Restart
  BY <1>10 DEF Restart, MarksCurrent, RulesCurrent
<1>11. CASE UNCHANGED vars
  BY <1>1, <1>11 DEF vars
<1>. QED
  BY <1>2, <1>3, <1>4, <1>5, <1>6, <1>7, <1>8, <1>9, <1>10, <1>11 DEF Next, Step

\* Marks and rules that are current send each device where it is pinned.
LEMMA PinnedPath == PinInv => PathAsPinned
<1>. SUFFICES ASSUME PinInv, met \cap {"refused", "link", "torn"} = {}, wans # <<>>,
                     NEW d \in Devices,
                     NEW k, k = MarkOf(wans, deviceRoutes[d])
              PROVE  IF k = NoMark THEN PathOf(d) = main
                     ELSE wans[k].gateway # NoGateway => PathOf(d) = {Hop(wans[k])}
  BY DEF PathAsPinned
<1>1. mangle[d] = k
  BY DEF PinInv, MarksCurrent, RebuildDeviceChain
<1>2. CASE k = NoMark
  BY <1>1, <1>2 DEF PathOf
<1>3. CASE k # NoMark /\ wans[k].gateway # NoGateway
  <2>1. wans \in Seq(Wan) /\ Len(wans) \leq MaxWans /\ rules \in [Marks -> Seq(Tables)]
    BY DEF PinInv, IndInv, TypeOK, WansOK
  <2>2. k \in DOMAIN wans /\ k \in Marks
    <3>. DEFINE named == {i \in DOMAIN wans : wans[i].name = deviceRoutes[d]}
    <3>1. named \in SUBSET Nat /\ named # {}
      BY <1>3, <2>1 DEF MarkOf, NoMark
    <3>2. \E i \in named : \A j \in named : i \leq j
      BY <3>1, FirstExists
    <3>3. k \in named
      BY <3>1, <3>2 DEF MarkOf
    <3>. QED  BY <2>1, <3>3, MultiWanAssumption DEF Marks
  <2>3. k \in HasGateway(wans)
    BY <1>3, <2>2 DEF HasGateway
  <2>4. /\ rules[k] # <<>> /\ Head(rules[k]) = wans[k].table
        /\ tables[wans[k].table] = Hop(wans[k])
    BY <2>3 DEF PinInv, RulesCurrent
  <2>. DEFINE hits == {i \in DOMAIN rules[k] : tables[rules[k][i]] # NoHop}
  <2>5. rules[k] \in Seq(Tables) /\ 1 \in DOMAIN rules[k] /\ rules[k][1] = wans[k].table
    BY <2>1, <2>2, <2>4
  <2>6. Hop(wans[k]) # NoHop
    <3>1. wans[k] \in Wan
      BY <2>1, <2>2
    <3>2. wans[k].name \in Names
      BY <3>1 DEF Wan
    <3>. QED  BY <3>2, MultiWanAssumption DEF Hop, NoHop
  <2>7. 1 \in hits
    BY <2>4, <2>5, <2>6
  <2>8. hits \subseteq Nat \ {0}
    BY <2>5
  <2>9. (CHOOSE i \in hits : \A j \in hits : i <= j) = 1
    <3>1. \A j \in hits : 1 <= j
      BY <2>8
    <3>2. \A i \in hits : (\A j \in hits : i <= j) => i = 1
      BY <2>7, <2>8
    <3>. HIDE DEF hits
    <3>. QED  BY <2>7, <3>1, <3>2
  <2>10. PathOf(d) = IF hits = {} THEN main
                     ELSE {tables[rules[k][CHOOSE i \in hits : \A j \in hits : i <= j]]}
    BY <1>1, <1>3 DEF PathOf
  <2>. QED  BY <1>3, <2>4, <2>5, <2>7, <2>9, <2>10
<1>. QED  BY <1>2, <1>3

\* A pinned device leaves by its WAN and any other by the default route, after
\* any sequence of new lists, restarts, failures and recoveries, until a route is
\* refused or lost or a configure is rejected halfway.
THEOREM PinnedCorrect == Spec => []PathAsPinned
<1>1. Init => MarksCurrent /\ RulesCurrent
  BY DEF Init, MarksCurrent, RulesCurrent
<1>2. PinInv /\ [Next]_vars => (MarksCurrent /\ RulesCurrent)'
  BY PinStep
<1>3. PinInv <=> IndInv /\ MarksCurrent /\ RulesCurrent
  BY DEF PinInv
<1>. QED  BY <1>1, <1>2, <1>3, PinnedPath, IndInvCorrect, PTL DEF Spec
=============================================================================
