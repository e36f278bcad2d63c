----------------------------- MODULE RecordsProofs -----------------------------
(***************************************************************************)
(* That what is on record is so.  What the state file keeps, for any       *)
(* writes and any number of stops and kills, and what a rollback keeps     *)
(* whatever else happens.  Then the records of MCUpkeep: the OpenVPN       *)
(* server of a box, the lists the cloud fetches, its watchers, and the     *)
(* upkeep of the agent.                                                    *)
(***************************************************************************)
EXTENDS StateStore, MCUpkeep, FiniteSetTheorems, WellFoundedInduction, TLAPS

\* A first start has the shape of the state.
LEMMA TypeInit == Init => TypeOK
<1>. SUFFICES ASSUME Init PROVE TypeOK
  OBVIOUS
<1>1. 1 \in Days
  BY StateStoreAssumption DEF Days
<1>2. DOMAIN backup = {} /\ backup = [d \in DOMAIN backup |-> {}]
  BY DEF Init
<1>3. backup \in [DOMAIN backup -> {CutFile} \cup SUBSET Writes]
  BY <1>2
<1>. QED
  BY <1>1, <1>2, <1>3 DEF Init, TypeOK

\* The file of the day, whole or torn, is one more backup.
LEMMA DayFileType ==
    ASSUME TypeOK, NEW v \in {CutFile} \cup SUBSET Writes
    PROVE  /\ DOMAIN DayFile(v) \subseteq Days
           /\ DayFile(v) \in [DOMAIN DayFile(v) -> {CutFile} \cup SUBSET Writes]
<1>1. DOMAIN DayFile(v) = DOMAIN backup \cup {day}
  BY DEF DayFile
<1>2. DayFile(v) \in [DOMAIN backup \cup {day} -> {CutFile} \cup SUBSET Writes]
  BY DEF DayFile, TypeOK
<1>. QED
  BY <1>1, <1>2 DEF TypeOK

\* What a cut dailyBackup leaves keeps the shape of the backups.
LEMMA UnrotatedType ==
    ASSUME TypeOK, NEW b \in {backup} \cup Unrotated
    PROVE  DOMAIN b \subseteq Days /\ b \in [DOMAIN b -> {CutFile} \cup SUBSET Writes]
<1>1. CASE b = backup
  BY <1>1 DEF TypeOK
<1>2. CASE b = DayFile(CutFile)
  BY <1>2, DayFileType
<1>3. CASE b = DayFile(mem)
  <2>1. mem \in {CutFile} \cup SUBSET Writes
    BY DEF TypeOK
  <2>. QED
    BY <1>3, <2>1, DayFileType
<1>. QED
  BY <1>1, <1>2, <1>3 DEF Unrotated

\* One step keeps the shape of the state.
LEMMA TypeStep == ASSUME TypeOK, [Next]_vars PROVE TypeOK'
<1>. USE StateStoreAssumption DEF history, TakenBack
<1>1. ASSUME NEW w \in Writes, Write(w) PROVE TypeOK'
  BY <1>1 DEF TypeOK, Days, Write, BeginSave, Free
<1>2. CASE PeriodicSave \/ FinishSave \/ SaveFails
  BY <1>2 DEF TypeOK, Days, PeriodicSave, FinishSave, SaveFails, BeginSave, Serialised
<1>3. CASE DailyBackup
  <2>. DEFINE b == DayFile(mem)
  <2>1. mem \in {CutFile} \cup SUBSET Writes
    BY DEF TypeOK
  <2>2. DOMAIN b \subseteq Days /\ b \in [DOMAIN b -> {CutFile} \cup SUBSET Writes]
    BY <2>1, DayFileType
  <2>3. backup' = Rotated(b, copies)
    BY <1>3 DEF DailyBackup
  <2>. HIDE DEF b
  <2>4. /\ DOMAIN Rotated(b, copies) \subseteq DOMAIN b
        /\ Rotated(b, copies) \in [DOMAIN Rotated(b, copies) -> {CutFile} \cup SUBSET Writes]
    BY <2>2 DEF Rotated
  <2>5. DOMAIN backup' \subseteq Days /\ backup' \in [DOMAIN backup' -> {CutFile} \cup SUBSET Writes]
    BY <2>2, <2>3, <2>4
  <2>6. copies' \in Nat
    BY <1>3 DEF DailyBackup, TypeOK
  <2>. QED
    BY <1>3, <2>5, <2>6 DEF TypeOK, Days, DailyBackup
<1>13. CASE BackupFails
  <2>1. DOMAIN backup' \subseteq Days /\ backup' \in [DOMAIN backup' -> {CutFile} \cup SUBSET Writes]
    BY <1>13, UnrotatedType DEF BackupFails
  <2>. QED
    BY <1>13, <2>1 DEF TypeOK, Days, BackupFails
<1>4. CASE NextDay
  BY <1>4 DEF TypeOK, Days, NextDay
<1>5. CASE CreateSnapshot
  BY <1>5 DEF TypeOK, Days, CreateSnapshot
<1>6. CASE RestoreSnapshot
  BY <1>6 DEF TypeOK, Days, RestoreSnapshot, BeginSave, Safety
<1>7. CASE RestoreUpload
  BY <1>7 DEF TypeOK, Days, RestoreUpload, BeginSave
<1>8. CASE ResetState
  BY <1>8 DEF TypeOK, Days, ResetState, BeginSave
<1>9. CASE Sigterm
  BY <1>9 DEF TypeOK, Days, Sigterm, SavesOnStop, BeginSave
<1>10. CASE Exit
  BY <1>10 DEF TypeOK, Days, Exit, Down
<1>14. CASE Kill
  <2>1. backup' \in {backup} \cup Unrotated
    BY <1>14 DEF Kill
  <2>2. DOMAIN backup' \subseteq Days /\ backup' \in [DOMAIN backup' -> {CutFile} \cup SUBSET Writes]
    BY <2>1, UnrotatedType
  <2>. QED
    BY <1>14, <2>2 DEF TypeOK, Days, Kill, Down
<1>15. CASE PreUpdateCopy
  BY <1>15 DEF TypeOK, Days, PreUpdateCopy
<1>11. CASE Boot
  BY <1>11 DEF TypeOK, Days, Boot, Loaded
<1>12. CASE UNCHANGED vars
  BY <1>12 DEF TypeOK, Days, vars
<1>. QED
  BY <1>1, <1>2, <1>3, <1>4, <1>5, <1>6, <1>7, <1>8, <1>9, <1>10, <1>11, <1>12, <1>13,
     <1>14, <1>15 DEF Next

\* The state always has its shape, whatever fails: server.js 93-128.
THEOREM TypeCorrect == Spec => []TypeOK
<1>. QED
  BY TypeInit, TypeStep, PTL DEF Spec

-----------------------------------------------------------------------------

\* One step keeps the file ahead of what was saved, or the history says that a
\* save was cut short.
LEMMA StoreStep == ASSUME IndInv, [Next]_vars PROVE IndInv'
<1>. USE DEF history
<1>1. TypeOK'
  BY TypeStep DEF IndInv
<1>2. ASSUME NEW w \in Writes, Write(w) PROVE IndInv'
  BY <1>1, <1>2 DEF IndInv, TypeOK, SavedSurvive, StopSaves, Held, Write, BeginSave, Free
<1>3. CASE PeriodicSave
  BY <1>1, <1>3 DEF IndInv, TypeOK, SavedSurvive, StopSaves, Held, PeriodicSave, BeginSave, Free
<1>4. CASE FinishSave
  BY <1>1, <1>4 DEF IndInv, TypeOK, SavedSurvive, StopSaves, Held, FinishSave, Serialised
<1>5. CASE SaveFails
  BY <1>1, <1>5 DEF IndInv, TypeOK, SavedSurvive, StopSaves, Held, SaveFails
<1>6. CASE DailyBackup \/ BackupFails \/ NextDay \/ CreateSnapshot \/ UNCHANGED vars
  <2>1. UNCHANGED <<up, saving, mem, disk, saved, atStop, torn>>
    BY <1>6 DEF DailyBackup, BackupFails, NextDay, CreateSnapshot, vars
  <2>. QED
    BY <1>1, <2>1 DEF IndInv, SavedSurvive, StopSaves, Held
<1>7. CASE RestoreSnapshot \/ RestoreUpload \/ ResetState
  <2>1. up # "down" /\ up' = up /\ BeginSave /\ TakenBack
    BY <1>7 DEF RestoreSnapshot, RestoreUpload, ResetState, Free
  <2>2. saved' \subseteq mem' /\ atStop' \subseteq mem' /\ saving' = TRUE
    BY <2>1 DEF BeginSave, TakenBack
  <2>. QED
    BY <1>1, <2>1, <2>2 DEF IndInv, SavedSurvive, StopSaves, Held
<1>8. CASE Sigterm
  BY <1>1, <1>8 DEF IndInv, TypeOK, SavedSurvive, StopSaves, Held, Sigterm, SavesOnStop, BeginSave
<1>9. CASE Exit
  BY <1>1, <1>9 DEF IndInv, TypeOK, SavedSurvive, StopSaves, Held, Exit, Down
<1>10. CASE Kill
  <2>1. Down /\ up # "down" /\ torn' = (torn \/ saving)
    BY <1>10 DEF Kill
  <2>2. atStop' = IF up = "stopping" THEN atStop ELSE {}
    BY <1>10 DEF Kill
  <2>3. saving \in BOOLEAN /\ torn \in BOOLEAN
    BY DEF IndInv, TypeOK
  <2>4. CASE saving \/ torn
    BY <1>1, <2>1, <2>4 DEF IndInv, SavedSurvive, StopSaves, Held, Down
  <2>5. CASE ~saving /\ ~torn
    BY <1>1, <2>1, <2>2, <2>5 DEF IndInv, SavedSurvive, StopSaves, Held, Down
  <2>. QED
    BY <2>4, <2>5
<1>11. CASE Boot
  BY <1>1, <1>11 DEF IndInv, TypeOK, SavedSurvive, StopSaves, Held, Boot, Loaded
<1>12. CASE PreUpdateCopy
  BY <1>1, <1>12 DEF IndInv, SavedSurvive, StopSaves, Held, PreUpdateCopy
<1>. QED
  BY <1>2, <1>3, <1>4, <1>5, <1>6, <1>7, <1>8, <1>9, <1>10, <1>11, <1>12
     DEF Next

\* Between saves the state file holds everything that was saved or that was in
\* memory at a SIGTERM, unless a save was cut short: server.js 116-128,
\* 18305-18313.
THEOREM IndInvCorrect == Spec => []IndInv
<1>1. Init => IndInv
  BY TypeInit DEF Init, IndInv, SavedSurvive, StopSaves, Held
<1>2. IndInv /\ [Next]_vars => IndInv'
  BY StoreStep
<1>. QED
  BY <1>1, <1>2, PTL DEF Spec

\* A write that was saved survives any number of stops and of kills between
\* saves: server.js 93-128.
THEOREM SavedCorrect == Spec => []SavedSurvive
<1>1. IndInv => SavedSurvive
  BY DEF IndInv
<1>. QED
  BY <1>1, IndInvCorrect, PTL

\* What was in memory at a SIGTERM is read at the next start: server.js
\* 18305-18313.
THEOREM StopCorrect == Spec => []StopSaves
<1>1. IndInv => StopSaves
  BY DEF IndInv
<1>. QED
  BY <1>1, IndInvCorrect, PTL

-----------------------------------------------------------------------------

\* A set of days that is not empty has a last one.
LEMMA LastOf ==
    ASSUME NEW T \in SUBSET Days, T # {}
    PROVE  \E d \in T : \A e \in T : e <= d
<1>. DEFINE Left == {LastDay - d : d \in T}
<1>1. Left \subseteq Nat /\ Left # {}
  <2>1. ASSUME NEW d \in T PROVE LastDay - d \in Nat
    BY StateStoreAssumption DEF Days
  <2>. QED
    BY <2>1
<1>2. PICK x \in Left : \A y \in Left : ~(<<y, x>> \in OpToRel(<, Nat))
  BY <1>1, NatLessThanWellFounded, WFMin, Zenon
<1>3. \A y \in Left : ~(y < x)
  BY <1>1, <1>2 DEF OpToRel
<1>4. PICK d \in T : x = LastDay - d
  BY <1>2
<1>5. ASSUME NEW e \in T PROVE e <= d
  <2>1. ~(LastDay - e < LastDay - d)
    BY <1>3, <1>4
  <2>. QED
    BY <2>1, StateStoreAssumption DEF Days
<1>. QED  BY <1>5

\* A rotation that gives up a day keeps enough newer files: unless the copies
\* alone are enough, the last of the newer days that were not kept would have
\* too few newer files itself.
LEMMA RotationKeeps ==
    ASSUME NEW b, DOMAIN b \subseteq Days, NEW k \in Nat,
           NEW d \in DOMAIN b, d \notin DOMAIN Rotated(b, k), k < Keep
    PROVE  Cardinality(Newer(Rotated(b, k), d)) + k >= Keep
<1>. DEFINE Kept == Newer(Rotated(b, k), d)
            Lost == Newer(b, d) \ Kept
<1>1. /\ DOMAIN Rotated(b, k) = {e \in DOMAIN b : Cardinality(Newer(b, e)) + k < Keep}
      /\ Kept = {e \in DOMAIN b : e > d /\ Cardinality(Newer(b, e)) + k < Keep}
  BY DEF Rotated, Newer
<1>2. \A e \in DOMAIN b : IsFiniteSet(Newer(b, e)) /\ Cardinality(Newer(b, e)) \in Nat
  <2>1. IsFiniteSet(Days)
    BY StateStoreAssumption, FS_Interval DEF Days
  <2>. QED
    BY <2>1, FS_Subset, FS_CardinalityType DEF Newer
<1>3. IsFiniteSet(Kept) /\ Cardinality(Kept) \in Nat /\ Kept \subseteq Newer(b, d)
  <2>1. Kept \subseteq Newer(b, d)
    BY <1>1 DEF Newer
  <2>. QED
    BY <1>2, <2>1, FS_Subset, FS_CardinalityType
<1>4. Cardinality(Newer(b, d)) + k >= Keep
  BY <1>1, <1>2, StateStoreAssumption
<1>5. SUFFICES ASSUME Cardinality(Kept) + k < Keep PROVE FALSE
  BY <1>3, StateStoreAssumption
<1>6. Lost # {} /\ Lost \subseteq Days
  <2>1. Kept # Newer(b, d)
    BY <1>3, <1>4, <1>5, StateStoreAssumption
  <2>. QED
    BY <1>3, <2>1 DEF Newer
<1>7. PICK m \in Lost : \A e \in Lost : e <= m
  BY <1>6, LastOf
<1>8. Newer(b, m) \subseteq Kept
  <2>. SUFFICES ASSUME NEW e \in DOMAIN b, e > m PROVE e \in Kept
    BY DEF Newer
  <2>1. m > d /\ m \in Days /\ d \in Days /\ e \in Days
    BY <1>6 DEF Newer
  <2>2. e > d
    BY <2>1 DEF Days
  <2>3. e \notin Lost
    BY <1>7, <2>1 DEF Days
  <2>. QED
    BY <2>2, <2>3 DEF Newer
<1>9. Cardinality(Newer(b, m)) <= Cardinality(Kept)
  BY <1>3, <1>8, FS_Subset
<1>10. m \in DOMAIN b /\ m > d
  BY DEF Newer
<1>11. m \in Kept
  BY <1>1, <1>2, <1>3, <1>5, <1>9, <1>10, StateStoreAssumption
<1>. QED  BY <1>11

\* The backup of a past day stays as it was until the directory holds enough
\* newer files, whatever fails: server.js 15157-15177, deploy-update.sh 23.
THEOREM BackupsCorrect == Spec => PastBackupsKept
<1>1. ASSUME TypeOK, [Next]_vars, NEW d \in DOMAIN backup, d # day,
             ~(d \in DOMAIN backup' /\ backup'[d] = backup[d])
      PROVE  Cardinality(Newer(backup', d)) + copies' >= Keep
  <2>. DEFINE b == DayFile(mem)
  <2>1. \A v : d \in DOMAIN DayFile(v) /\ DayFile(v)[d] = backup[d]
    BY <1>1 DEF DayFile
  <2>2. backup' \notin {backup} \cup Unrotated
    BY <1>1, <2>1 DEF Unrotated
  <2>3. DailyBackup
    BY <1>1, <2>2 DEF Next, vars, Write, PeriodicSave, FinishSave, SaveFails, BackupFails, NextDay,
       CreateSnapshot, RestoreSnapshot, RestoreUpload, ResetState, Sigterm, Exit, Kill, Down,
       PreUpdateCopy, Boot
  <2>4. backup' = Rotated(b, copies)
    BY <2>3 DEF DailyBackup
  <2>5. d \in DOMAIN b /\ b[d] = backup[d]
    BY <2>1
  <2>6. DOMAIN b \subseteq Days /\ copies \in Nat
    <3>1. mem \in {CutFile} \cup SUBSET Writes
      BY <1>1 DEF TypeOK
    <3>. QED
      BY <1>1, <3>1, DayFileType DEF TypeOK
  <2>. HIDE DEF b
  <2>7. \A e \in DOMAIN Rotated(b, copies) : Rotated(b, copies)[e] = b[e]
    BY DEF Rotated
  <2>8. d \notin DOMAIN Rotated(b, copies)
    BY <1>1, <2>4, <2>5, <2>7
  <2>9. copies' = IF copies < Keep THEN copies ELSE Keep
    BY <2>3 DEF DailyBackup
  <2>10. CASE copies < Keep
    BY <2>4, <2>5, <2>6, <2>8, <2>9, <2>10, RotationKeeps
  <2>11. CASE ~(copies < Keep)
    <3>1. Newer(backup', d) \subseteq Days
      BY <2>4, <2>6 DEF Rotated, Newer
    <3>2. Cardinality(Newer(backup', d)) \in Nat
      <4>1. IsFiniteSet(Days)
        BY StateStoreAssumption, FS_Interval DEF Days
      <4>. QED
        BY <3>1, <4>1, FS_Subset, FS_CardinalityType
    <3>. QED
      BY <2>9, <2>11, <3>2, StateStoreAssumption
  <2>. QED
    BY <2>10, <2>11
<1>2. TypeOK /\ [Next]_vars
        => [\A d \in DOMAIN backup :
              \/ d = day
              \/ d \in DOMAIN backup' /\ backup'[d] = backup[d]
              \/ Cardinality(Newer(backup', d)) + copies' >= Keep]_vars
  BY <1>1
<1>. QED
  BY <1>2, TypeCorrect, PTL DEF Spec, PastBackupsKept

\* What the running cloud loses is in a snapshot, whatever fails, unless a
\* backup is uploaded or the state reset: server.js 15097-15115.
THEOREM RollbackCorrect == Spec => RollbackUndoable
<1>1. ASSUME [Next]_vars, up # "down", up' # "down", ~(mem \subseteq mem'),
             ~RestoreUpload, ~ResetState
      PROVE  mem \in snaps'
  <2>1. mem' # mem
    BY <1>1
  <2>2. ~(\E w \in Writes : Write(w))
    BY <1>1 DEF Write
  <2>3. CASE RestoreSnapshot
    BY <2>3 DEF RestoreSnapshot, Safety
  <2>4. ~(Exit \/ Kill \/ Boot)
    BY <1>1 DEF Exit, Kill, Boot, Down
  <2>5. ~(PeriodicSave \/ FinishSave \/ SaveFails \/ DailyBackup \/ BackupFails \/ NextDay
          \/ CreateSnapshot \/ Sigterm \/ PreUpdateCopy \/ UNCHANGED vars)
    BY <2>1 DEF PeriodicSave, FinishSave, SaveFails, DailyBackup, BackupFails, NextDay,
                CreateSnapshot, Sigterm, PreUpdateCopy, vars
  <2>. QED
    BY <1>1, <2>2, <2>3, <2>4, <2>5 DEF Next
<1>2. [Next]_vars => [up # "down" /\ up' # "down" /\ ~(mem \subseteq mem')
                         => mem \in snaps' \/ RestoreUpload \/ ResetState]_vars
  BY <1>1
<1>. QED
  BY <1>2, PTL DEF Spec, RollbackUndoable

-----------------------------------------------------------------------------
\* A set of numbers that is not empty has a least one.
LEMMA LeastOf ==
    ASSUME NEW T \in SUBSET Nat, T # {}
    PROVE  Min(T) \in T /\ \A j \in T : Min(T) <= j
<1>1. PICK x \in T : \A y \in T : ~(<<y, x>> \in OpToRel(<, Nat))
  BY NatLessThanWellFounded, WFMin, Zenon
<1>2. \A y \in T : ~(y < x)
  BY <1>1 DEF OpToRel
<1>3. \A y \in T : x <= y
  BY <1>2
<1> QED  BY <1>3 DEF Min

-----------------------------------------------------------------------------
\* Whatever was signed was signed by the one authority there is; a server that is settled speaks
\* the protocol of clients.json.
OvpnInv ==
    /\ OvpnTypeOK
    /\ installs \in 0 .. MaxInstalls /\ settled \in BOOLEAN
    /\ caCrt \in {0, caKey} /\ serverCrt \in {0, caCrt}
    /\ \A c \in Clients : certs[c] \in {0, serverCrt}
    /\ settled => metaServer # Missing /\ serverConf # Missing /\ serverConf.proto = metaServer
    /\ \A c \in onList : certs[c] # 0 /\ profiles[c] # Missing
    /\ \A c \in reachable :
          certs[c] # 0 /\ serverConf # Missing /\ profiles[c] = serverConf.proto
    /\ serverConf # Missing => (serverConf.crlVerify => crl)

\* A box without a server.
LEMMA OvpnStarts == OvpnInit => OvpnInv
<1> SUFFICES ASSUME OvpnInit PROVE OvpnInv
  OBVIOUS
<1>1. OvpnTypeOK
  <2>1. 0 \in Authority /\ caKey = 0 /\ caCrt = 0 /\ serverCrt = 0
    BY OpenVpnAssumption DEF OvpnInit, Authority
  <2>2. certs \in [Clients -> Authority] /\ profiles \in [Clients -> Protocols \cup {Missing}]
    BY <2>1 DEF OvpnInit
  <2>3. {caKey, caCrt, serverCrt} \subseteq Authority
    BY <2>1
  <2>4. /\ serverConf = Missing /\ metaServer \in Protocols \cup {Missing}
        /\ onList \subseteq Clients /\ reachable \subseteq Clients
    BY DEF OvpnInit
  <2>5. tlsCrypt \in BOOLEAN /\ crl \in BOOLEAN
    BY Zenon DEF OvpnInit
  <2> QED  BY <2>2, <2>3, <2>4, <2>5, Zenon DEF OvpnTypeOK
<1>2. installs \in 0 .. MaxInstalls
  BY OpenVpnAssumption DEF OvpnInit
<1>3. settled \in BOOLEAN /\ ~settled
  BY Zenon DEF OvpnInit
<1> QED  BY <1>1, <1>2, <1>3 DEF OvpnInit, OvpnInv

\* An install, however far it came.
LEMMA InstallStep ==
    ASSUME OvpnInv, NEW proto \in Protocols, NEW n \in 0 .. 7, Install(proto, n)
    PROVE  OvpnInv'
<1>1. installs' \in 1 .. MaxInstalls /\ installs' = installs + 1
  BY OpenVpnAssumption DEF OvpnInv, Install
<1>2. /\ caKey' \in 0 .. MaxInstalls /\ caCrt' \in {0, caKey'} /\ serverCrt' \in {0, caCrt'}
      /\ \A c \in Clients : certs[c] \in {0, serverCrt'}
  BY <1>1 DEF OvpnInv, OvpnTypeOK, Install, InitPKI, HasCA, Authority
<1>3. tlsCrypt' \in BOOLEAN /\ crl' \in BOOLEAN /\ (crl => crl')
  BY DEF OvpnInv, OvpnTypeOK, Install, InitPKI
<1>4. \/ /\ serverConf' = serverConf /\ metaServer' = metaServer /\ settled' = settled
         /\ reachable' = reachable
      \/ /\ serverConf' = [proto |-> proto, crlVerify |-> crl'] /\ reachable' = {}
         /\ settled' \in BOOLEAN /\ (settled' => metaServer' = proto)
         /\ metaServer' \in {metaServer, proto}
  <2>1. CASE n < 6
    BY <2>1 DEF Install
  <2>2. CASE n >= 6
    <3>1. settled' = (n = 7) /\ reachable' = {}
      BY <2>2, Zenon DEF Install
    <3>2. serverConf' = [proto |-> proto, crlVerify |-> crl']
      BY <2>2 DEF Install, ConfOf
    <3>3. metaServer' = IF n >= 7 THEN proto ELSE metaServer
      BY Zenon DEF Install
    <3>4. CASE n = 7
      <4>1. metaServer' = proto
        BY <3>3, <3>4
      <4>2. settled' \in BOOLEAN
        BY <3>1, Zenon
      <4> QED  BY <3>1, <3>2, <4>1, <4>2
    <3>5. CASE n # 7
      <4>1. metaServer' = metaServer
        BY <2>2, <3>3, <3>5
      <4>2. settled' = FALSE
        BY <3>1, <3>5, Zenon
      <4> QED  BY <3>1, <3>2, <4>1, <4>2
    <3> QED  BY <3>4, <3>5
  <2> QED  BY <2>1, <2>2
<1>5. certs' = certs /\ profiles' = profiles /\ onList' = onList
  BY DEF Install, clientVars
<1>6. serverConf' = Missing \/ serverConf' \in [proto: Protocols, crlVerify: BOOLEAN]
  BY <1>3, <1>4 DEF OvpnInv, OvpnTypeOK
<1>7. metaServer' \in Protocols \cup {Missing} /\ reachable' \subseteq Clients
  BY <1>4 DEF OvpnInv, OvpnTypeOK
<1>8. OvpnTypeOK'
  <2>1. {caKey', caCrt', serverCrt'} \subseteq Authority
    <3>1. caKey' \in Authority
      BY <1>2 DEF Authority
    <3>2. 0 \in Authority
      BY OpenVpnAssumption DEF Authority
    <3>3. caCrt' \in Authority
      BY <1>2, <3>1, <3>2
    <3> QED  BY <1>2, <3>1, <3>2, <3>3
  <2> QED
    BY <1>3, <1>5, <1>6, <1>7, <2>1 DEF OvpnInv, OvpnTypeOK
<1>9. CASE serverConf' = serverConf /\ metaServer' = metaServer /\ settled' = settled
           /\ reachable' = reachable
  <2>1. \A c \in reachable : certs[c] # 0 /\ c \in Clients
    BY DEF OvpnInv, OvpnTypeOK
  <2> QED
    BY <1>1, <1>2, <1>3, <1>5, <1>8, <1>9, <2>1 DEF OvpnInv
<1>10. CASE /\ serverConf' = [proto |-> proto, crlVerify |-> crl'] /\ reachable' = {}
            /\ settled' \in BOOLEAN /\ (settled' => metaServer' = proto)
  <2>1. proto # Missing
    BY OpenVpnAssumption
  <2>2. settled' => serverConf' # Missing
    BY <1>3, <1>10, OpenVpnAssumption
  <2>3. serverConf'.proto = proto /\ serverConf'.crlVerify = crl'
    BY <1>10
  <2> QED
    BY <1>1, <1>2, <1>3, <1>5, <1>8, <1>10, <2>1, <2>2, <2>3 DEF OvpnInv
<1> QED  BY <1>4, <1>9, <1>10

\* A client, however far the command came.
LEMMA AddClientStep ==
    ASSUME OvpnInv, NEW c \in Clients, NEW n \in 0 .. 3, AddClient(c, n)
    PROVE  OvpnInv'
<1>1. UNCHANGED <<pkiVars, serverConf, metaServer, installs, settled>>
  BY DEF AddClient
<1>2. certs[c] = 0 /\ c \notin onList /\ c \notin reachable
  BY DEF AddClient, OvpnInv
<1>3. KnownProtocol \in Protocols /\ (settled => KnownProtocol = serverConf.proto)
  BY OpenVpnAssumption DEF KnownProtocol, OvpnInv, OvpnTypeOK
<1>4. n >= 1 => Signed = serverCrt /\ Signed # 0 /\ Signed \in Authority
  BY DEF AddClient, Signed, OvpnInv, OvpnTypeOK
<1>5. certs' \in [Clients -> Authority] /\ profiles' \in [Clients -> Protocols \cup {Missing}]
  BY <1>3, <1>4 DEF AddClient, OvpnInv, OvpnTypeOK
<1>6. \A d \in Clients : d # c => certs'[d] = certs[d] /\ profiles'[d] = profiles[d]
  BY DEF AddClient, OvpnInv, OvpnTypeOK
<1>7. certs'[c] \in {0, serverCrt}
  BY <1>4, <1>2 DEF AddClient, OvpnInv, OvpnTypeOK
<1>8. n >= 3 => certs'[c] # 0 /\ profiles'[c] = KnownProtocol
  BY <1>4 DEF AddClient, OvpnInv, OvpnTypeOK
<1>9. /\ onList' \in {onList, onList \cup {c}} /\ (c \in onList' => n >= 3)
      /\ reachable' \in {reachable, reachable \cup {c}} /\ (c \in reachable' => n >= 3 /\ settled)
  BY <1>2 DEF AddClient
<1> QED
  BY <1>1, <1>2, <1>3, <1>5, <1>6, <1>7, <1>8, <1>9, OpenVpnAssumption
  DEF OvpnInv, OvpnTypeOK, pkiVars

\* Every command keeps it.
LEMMA OvpnStep == ASSUME OvpnInv, OvpnNext \/ UNCHANGED ovpnVars PROVE OvpnInv'
<1>1. CASE \E proto \in Protocols, n \in 0 .. 7 : Install(proto, n)
  BY <1>1, InstallStep
<1>2. CASE \E c \in Clients, n \in 0 .. 3 : AddClient(c, n)
  BY <1>2, AddClientStep
<1>3. CASE MetaTorn
  BY <1>3 DEF MetaTorn, OvpnInv, OvpnTypeOK, pkiVars
<1>4. CASE UNCHANGED ovpnVars
  BY <1>4 DEF ovpnVars, pkiVars, clientVars, OvpnInv, OvpnTypeOK
<1> QED  BY <1>1, <1>2, <1>3, <1>4 DEF OvpnNext

\* What is promised follows.
LEMMA OvpnSound == OvpnInv => OvpnTypeOK /\ ListedConnect /\ CrlThere
  BY DEF OvpnInv, OvpnTypeOK, ListedConnect, CrlThere

-----------------------------------------------------------------------------
FeedState == [domains: SUBSET Domains, ips: SUBSET Domains, stamp: 0 .. MaxFetches]
SnapshotRecord == [etag: Nat \X Nat, domains: SUBSET Domains]
Run == {NoRun} \cup [doing: {"fetch"}, place: Nat, url: Urls, got: SUBSET Urls]

\* What has the etag of the feed has its domains.
Dated(s) == s.etag[2] <= feed.stamp /\ (s.etag = Etag(feed) => s.domains = feed.domains)
Agree(s, t) == s.etag = t.etag => s.domains = t.domains

\* The feed on file is the one in memory; an etag stands for one list of domains, wherever it is kept.
FeedInv ==
    /\ feed \in FeedState
    /\ feedFile \in [feed: {feed}, snapshots: Seq(SnapshotRecord)]
    /\ sampled \subseteq Domains
    /\ holder \in SnapshotRecord /\ Dated(holder)
    /\ snapshots \in Seq(SnapshotRecord)
    /\ Len(snapshots) <= MaxSnapshots /\ Len(feedFile.snapshots) <= MaxSnapshots
    /\ \A i \in DOMAIN snapshots : Dated(snapshots[i]) /\ Agree(snapshots[i], holder)
    /\ \A i \in DOMAIN feedFile.snapshots :
          Dated(feedFile.snapshots[i]) /\ Agree(feedFile.snapshots[i], holder)
BlocklistInv ==
    /\ blocklists \in Seq(Blocklist) /\ Len(blocklists) <= MaxBlocklists
    /\ blocked \subseteq Urls /\ hung \in BOOLEAN
    /\ firstFetches \subseteq Blocklist
    /\ refreshing \in [Runs -> Run]
    /\ blockCalls \in 0 .. MaxListCalls
\* A list that was deleted was created before.
TargetInv ==
    /\ targets \in [Ids -> TargetList]
    /\ targetCalls \in 0 .. MaxListCalls
    /\ gone \subseteq 1 .. targetCalls
    /\ \A i \in Ids : targets[i].listed => i <= targetCalls
    /\ DeletedStaysDeleted
ListInv == FeedInv /\ BlocklistInv /\ TargetInv

\* The etag of a feed has the time of its last fetch.
LEMMA EtagType ==
    ASSUME NEW f \in FeedState
    PROVE  Etag(f) \in Nat \X Nat /\ Etag(f)[2] = f.stamp
<1>1. IsFiniteSet(f.domains)
  BY ListAssumption, FS_Subset DEF FeedState
<1>2. Cardinality(f.domains) \in Nat
  BY <1>1, FS_CardinalityType
<1> QED  BY <1>2, ListAssumption DEF Etag, FeedState

\* A cloud without lists.
LEMMA ListStarts == ListInit => ListInv
<1> SUFFICES ASSUME ListInit PROVE ListInv
  OBVIOUS
<1>1. feed = [domains |-> {}, ips |-> {}, stamp |-> 0] /\ snapshots = <<>>
      /\ holder = [etag |-> <<0, 0>>, domains |-> {}]
      /\ feedFile = [feed |-> feed, snapshots |-> snapshots] /\ sampled = {}
  BY DEF ListInit, NoEtag
<1>2. feed \in FeedState /\ holder \in SnapshotRecord /\ snapshots \in Seq(SnapshotRecord)
  BY <1>1, ListAssumption DEF FeedState, SnapshotRecord
<1>3. FeedInv
  BY <1>1, <1>2, ListAssumption DEF FeedInv, Dated
<1>4. BlocklistInv
  <2>1. hung \in BOOLEAN
    BY Zenon DEF ListInit
  <2> QED  BY <2>1, ListAssumption DEF ListInit, BlocklistInv, Run
<1>5. targets = [i \in Ids |-> [listed |-> FALSE, full |-> FALSE, asked |-> FALSE]]
      /\ gone = {} /\ targetCalls = 0
  BY DEF ListInit
<1>6. [listed |-> FALSE, full |-> FALSE, asked |-> FALSE] \in TargetList
  BY DEF TargetList
<1>7. TargetInv
  BY <1>5, <1>6, ListAssumption DEF TargetInv, DeletedStaysDeleted
<1> QED  BY <1>3, <1>4, <1>7 DEF ListInv

-----------------------------------------------------------------------------
\* A fetch: nothing that was kept has the new etag.
LEMMA FetchedAnew ==
    ASSUME FeedInv, feed.stamp < MaxFetches, NEW ds \in SUBSET Domains, Fetched(ds)
    PROVE  /\ feed' \in FeedState /\ feed'.stamp = feed.stamp + 1
           /\ \A s \in SnapshotRecord : Dated(s) => s.etag # Etag(feed') /\ s.etag[2] <= feed'.stamp
<1>1. feed' \in FeedState /\ feed'.stamp = feed.stamp + 1
  <2>1. feed \in FeedState
    BY DEF FeedInv
  <2>2. feed' = [domains |-> ds, ips |-> feed.ips, stamp |-> feed.stamp + 1]
    BY <2>1 DEF Fetched, FeedState
  <2>3. feed.stamp + 1 \in 0 .. MaxFetches /\ feed.ips \in SUBSET Domains
    BY <2>1, ListAssumption DEF FeedState
  <2> QED  BY <2>2, <2>3 DEF FeedState
<1>2. ASSUME NEW s \in SnapshotRecord, Dated(s)
      PROVE  s.etag # Etag(feed') /\ s.etag[2] <= feed'.stamp
  <2>1. s.etag[2] \in Nat /\ feed.stamp \in Nat /\ s.etag[2] <= feed.stamp
    BY <1>2, ListAssumption DEF FeedInv, FeedState, SnapshotRecord, Dated
  <2>2. Etag(feed')[2] = feed.stamp + 1
    BY <1>1, EtagType
  <2> QED  BY <1>1, <2>1, <2>2
<1> QED  BY <1>1, <1>2

\* A list of snapshots that is no longer than it may be, of the new feed and of those there were.
LEMMA SnapshotKeeps ==
    ASSUME NEW f \in FeedState, NEW ss \in Seq(SnapshotRecord), Len(ss) <= MaxSnapshots
    PROVE  /\ Snapshot(f, ss) \in Seq(SnapshotRecord) /\ Len(Snapshot(f, ss)) <= MaxSnapshots
           /\ \A i \in DOMAIN Snapshot(f, ss) :
                 \/ Snapshot(f, ss)[i] = [etag |-> Etag(f), domains |-> f.domains]
                 \/ \E j \in DOMAIN ss : Snapshot(f, ss)[i] = ss[j]
<1>1. CASE \E i \in DOMAIN ss : ss[i].etag = Etag(f)
  BY <1>1 DEF Snapshot
<1>2. CASE ~\E i \in DOMAIN ss : ss[i].etag = Etag(f)
  <2> DEFINE new == [etag |-> Etag(f), domains |-> f.domains]
             all == <<new>> \o ss
             k == IF Len(all) > MaxSnapshots THEN MaxSnapshots ELSE Len(all)
  <2>1. new \in SnapshotRecord
    BY EtagType DEF SnapshotRecord, FeedState
  <2>2. Snapshot(f, ss) = SubSeq(all, 1, k)
    BY <1>2, Zenon DEF Snapshot
  <2> HIDE DEF new
  <2>3. all \in Seq(SnapshotRecord) /\ Len(all) = Len(ss) + 1
        /\ \A i \in 1 .. Len(all) : all[i] = IF i = 1 THEN new ELSE ss[i - 1]
    BY <2>1
  <2> HIDE DEF all
  <2>4. k \in 0 .. Len(all) /\ k <= MaxSnapshots
    BY <2>3, ListAssumption
  <2> HIDE DEF k
  <2>5. /\ SubSeq(all, 1, k) \in Seq(SnapshotRecord) /\ Len(SubSeq(all, 1, k)) = k
        /\ \A i \in 1 .. k : SubSeq(all, 1, k)[i] = all[i]
    BY <2>3, <2>4
  <2>6. ASSUME NEW i \in 1 .. k PROVE all[i] = new \/ \E j \in DOMAIN ss : all[i] = ss[j]
    <3>1. i \in 1 .. Len(all) /\ (i # 1 => i - 1 \in DOMAIN ss)
      BY <2>3, <2>4
    <3> QED  BY <2>3, <3>1
  <2>7. DOMAIN SubSeq(all, 1, k) = 1 .. k
    BY <2>5
  <2> QED  BY <2>2, <2>4, <2>5, <2>6, <2>7 DEF new
<1> QED  BY <1>1, <1>2

\* A fetch, with a snapshot of its result or without one.
LEMMA FetchStep ==
    ASSUME FeedInv, feed.stamp < MaxFetches, NEW ds \in SUBSET Domains, Fetched(ds), SaveFeed,
           snapshots' = snapshots \/ snapshots' = Snapshot(feed', snapshots),
           UNCHANGED <<holder, sampled>>
    PROVE  FeedInv'
<1>1. /\ feed' \in FeedState
      /\ \A s \in SnapshotRecord : Dated(s) => s.etag # Etag(feed') /\ s.etag[2] <= feed'.stamp
  BY FetchedAnew
<1> DEFINE new == [etag |-> Etag(feed'), domains |-> feed'.domains]
           DatedNow(s) == s.etag[2] <= feed'.stamp /\ (s.etag = Etag(feed') => s.domains = feed'.domains)
<1>2. holder \in SnapshotRecord /\ Dated(holder) /\ holder.etag # Etag(feed')
      /\ DatedNow(holder)
  BY <1>1 DEF FeedInv
<1>3. \A i \in DOMAIN snapshots : DatedNow(snapshots[i]) /\ Agree(snapshots[i], holder)
  BY <1>1 DEF FeedInv
<1>4. DatedNow(new) /\ Agree(new, holder)
  <2>1. new.etag = Etag(feed') /\ new.domains = feed'.domains
    OBVIOUS
  <2>2. Etag(feed')[2] = feed'.stamp /\ feed'.stamp \in Nat
    BY <1>1, EtagType, ListAssumption DEF FeedState
  <2> HIDE DEF new
  <2> QED  BY <1>2, <2>1, <2>2 DEF Agree
<1>5. feedFile' = [feed |-> feed', snapshots |-> snapshots]
  BY DEF SaveFeed
<1>6. snapshots \in Seq(SnapshotRecord) /\ Len(snapshots) <= MaxSnapshots
  BY DEF FeedInv
<1>7. /\ snapshots' \in Seq(SnapshotRecord) /\ Len(snapshots') <= MaxSnapshots
      /\ \A i \in DOMAIN snapshots' :
            snapshots'[i] = new \/ \E j \in DOMAIN snapshots : snapshots'[i] = snapshots[j]
  <2>1. CASE snapshots' = snapshots
    BY <1>6, <2>1
  <2>2. CASE snapshots' = Snapshot(feed', snapshots)
    BY <1>1, <1>6, <2>2, SnapshotKeeps
  <2> QED  BY <2>1, <2>2
<1>8. \A i \in DOMAIN snapshots' : DatedNow(snapshots'[i]) /\ Agree(snapshots'[i], holder)
  BY <1>3, <1>4, <1>7
<1>9. \A s : Dated(s)' <=> DatedNow(s)
  BY DEF Dated
<1> HIDE DEF DatedNow, new
<1>10. sampled' \subseteq Domains /\ holder' = holder
  BY DEF FeedInv
<1>11. feedFile'.snapshots = snapshots /\ feedFile' \in [feed: {feed'}, snapshots: Seq(SnapshotRecord)]
  BY <1>5, <1>6
<1> QED
  BY <1>1, <1>2, <1>3, <1>6, <1>7, <1>8, <1>9, <1>10, <1>11 DEF FeedInv, Dated

\* Addresses say nothing of the etag.
LEMMA ResolvedStep ==
    ASSUME FeedInv, Resolved
    PROVE  FeedInv'
<1>1. PICK found \in SUBSET sampled : feed' = [feed EXCEPT !.ips = found]
  BY DEF Resolved
<1>2. feed' \in FeedState /\ feed'.stamp = feed.stamp /\ feed'.domains = feed.domains
  BY <1>1 DEF FeedInv, FeedState
<1>3. Etag(feed') = Etag(feed)
  BY <1>2 DEF Etag
<1>4. /\ feedFile' = [feed |-> feed', snapshots |-> snapshots] /\ sampled' = {}
      /\ snapshots' = snapshots /\ holder' = holder
  BY DEF Resolved
<1>5. feedFile'.snapshots = snapshots
  BY <1>4
<1> QED
  BY <1>2, <1>3, <1>4, <1>5 DEF FeedInv, Dated

\* The box applies the changes since what it has.
LEMMA AskStep ==
    ASSUME FeedInv, AskChanges
    PROVE  FeedInv'
<1> DEFINE known == {i \in DOMAIN snapshots : snapshots[i].etag = holder.etag}
           d == Delta(holder.etag)
           now == IF d.full THEN d.added ELSE (holder.domains \ d.removed) \cup d.added
<1>1. now = feed.domains
  <2>1. CASE known = {}
    <3>1. d = [full |-> TRUE, added |-> feed.domains, removed |-> {}]
      BY <2>1, Zenon DEF Delta
    <3> QED  BY <3>1
  <2>2. CASE known # {}
    <3> DEFINE before == snapshots[Min(known)].domains
    <3>1. d = [full |-> FALSE, added |-> feed.domains \ before, removed |-> before \ feed.domains]
      BY <2>2, Zenon DEF Delta
    <3>2. known \in SUBSET Nat
      BY DEF FeedInv
    <3>3. Min(known) \in known
      BY <2>2, <3>2, LeastOf
    <3>4. before = holder.domains
      BY <3>3 DEF FeedInv, Agree
    <3> HIDE DEF before
    <3>5. now = (holder.domains \ (before \ feed.domains)) \cup (feed.domains \ before)
      BY <3>1
    <3> QED  BY <3>4, <3>5
  <2> QED  BY <2>1, <2>2
<1>2. holder' = [etag |-> Etag(feed), domains |-> feed.domains]
  BY <1>1, Zenon DEF AskChanges
<1> HIDE DEF now
<1>3. UNCHANGED <<feed, snapshots, feedFile, sampled>>
  BY DEF AskChanges
<1>4. feed \in FeedState /\ Etag(feed) \in Nat \X Nat /\ Etag(feed)[2] = feed.stamp
  BY EtagType DEF FeedInv
<1>5. /\ holder' \in SnapshotRecord /\ holder'.etag = Etag(feed)
      /\ holder'.domains = feed.domains
  BY <1>2, <1>4 DEF SnapshotRecord, FeedState
<1>6. feed.stamp <= feed.stamp
  BY <1>4, ListAssumption DEF FeedState
<1> QED
  BY <1>3, <1>4, <1>5, <1>6 DEF FeedInv, Dated, Agree

\* The cloud goes back to the snapshots it saved.
LEMMA FeedStep == ASSUME FeedInv, FeedNext \/ UNCHANGED feedVars PROVE FeedInv'
<1>1. CASE FetchByTimer
  BY <1>1, FetchStep DEF FetchByTimer, SourcesGive
<1>2. CASE FetchByAdmin
  BY <1>2, FetchStep DEF FetchByAdmin, SourcesGive
<1>3. CASE Resolve
  <2>1. UNCHANGED <<feed, snapshots, feedFile, holder>> /\ sampled' = feed.domains
    BY <1>3 DEF Resolve
  <2> QED  BY <2>1 DEF FeedInv, FeedState, Dated
<1>4. CASE Resolved
  BY <1>4, ResolvedStep
<1>5. CASE AskChanges
  BY <1>5, AskStep
<1>6. CASE RestartFeed
  <2>1. /\ UNCHANGED <<feed, feedFile, holder>> /\ sampled' = {}
        /\ snapshots' = feedFile.snapshots
    BY <1>6 DEF RestartFeed, FeedInv
  <2> QED  BY <2>1 DEF FeedInv, Dated
<1>7. CASE UNCHANGED feedVars
  BY <1>7 DEF feedVars, FeedInv, Dated
<1> QED  BY <1>1, <1>2, <1>3, <1>4, <1>5, <1>6, <1>7 DEF FeedNext

-----------------------------------------------------------------------------
\* What is asked for next.
LEMMA AskingType ==
    ASSUME BlocklistInv, NEW p \in Nat \ {0}, NEW got \in SUBSET Urls
    PROVE  /\ p <= Len(blocklists) => Asking(p, got) \in Run
           /\ Asking(p, got).doing = "fetch" => Asking(p, got) \in Run
           /\ Asking(p, got).got = got
<1>1. CASE p <= Len(blocklists)
  <2>1. blocklists[p].url \in Urls
    <3>1. blocklists \in Seq(Blocklist) /\ p \in 1 .. Len(blocklists)
      BY <1>1 DEF BlocklistInv
    <3>2. blocklists[p] \in Blocklist
      BY <3>1
    <3> QED  BY <3>2 DEF Blocklist
  <2>2. Asking(p, got) = [doing |-> "fetch", place |-> p, url |-> blocklists[p].url, got |-> got]
    BY <1>1, Zenon DEF Asking
  <2> QED  BY <2>1, <2>2 DEF Run
<1>2. CASE ~(p <= Len(blocklists))
  <2>1. Asking(p, got) = [doing |-> "done", got |-> got]
    BY <1>2, Zenon DEF Asking
  <2> QED  BY <1>2, <2>1
<1> QED  BY <1>1, <1>2

\* Blocklists and the domains of them keep their shape.
LEMMA BlocklistStep == ASSUME BlocklistInv, BlocklistNext \/ UNCHANGED blockVars PROVE BlocklistInv'
<1>1. CASE RefreshAll
  <2>1. PICK r \in Runs :
           IF blocklists = <<>> THEN blocked' = {} /\ hung' = FALSE /\ UNCHANGED refreshing
           ELSE /\ refreshing' = [refreshing EXCEPT ![r] = Asking(1, Merged)]
                /\ UNCHANGED <<blocked, hung>>
    BY <1>1 DEF RefreshAll
  <2>2. blocklists # <<>> => Asking(1, Merged) \in Run
    <3>1. SUFFICES ASSUME blocklists # <<>> PROVE Asking(1, Merged) \in Run
      OBVIOUS
    <3>2. 1 <= Len(blocklists)
      BY <3>1, SMT DEF BlocklistInv
    <3>3. Merged \in SUBSET Urls
      BY DEF Merged
    <3>4. 1 \in Nat \ {0}
      OBVIOUS
    <3> QED  BY <3>2, <3>3, <3>4, AskingType, Zenon
  <2>3. hung' \in BOOLEAN
    BY <2>1, Zenon DEF BlocklistInv
  <2> QED  BY <1>1, <2>1, <2>2, <2>3 DEF RefreshAll, BlocklistInv
<1>2. CASE RefreshAnswered
  <2> DEFINE got(r, ok) == refreshing[r].got \cup (IF ok THEN {refreshing[r].url} ELSE {})
             next(r, ok) == Asking(refreshing[r].place + 1, got(r, ok))
  <2>1. PICK r \in Runs, ok \in BOOLEAN :
           /\ refreshing[r].doing = "fetch"
           /\ IF next(r, ok).doing = "fetch"
              THEN refreshing' = [refreshing EXCEPT ![r] = next(r, ok)] /\ UNCHANGED <<blocked, hung>>
              ELSE /\ refreshing' = [refreshing EXCEPT ![r] = NoRun]
                   /\ blocked' = next(r, ok).got /\ hung' = FALSE
    BY <1>2, Zenon DEF RefreshAnswered
  <2>2. /\ refreshing[r].place + 1 \in Nat \ {0} /\ refreshing[r].url \in Urls
        /\ refreshing[r].got \in SUBSET Urls
    BY <2>1 DEF BlocklistInv, Run, NoRun
  <2>3. got(r, ok) \in SUBSET Urls
    BY <2>2
  <2> HIDE DEF got
  <2>4. next(r, ok).got = got(r, ok) /\ (next(r, ok).doing = "fetch" => next(r, ok) \in Run)
    BY <2>2, <2>3, AskingType
  <2> HIDE DEF next
  <2>5. refreshing' \in [Runs -> Run] /\ blocked' \subseteq Urls
    BY <2>1, <2>3, <2>4 DEF BlocklistInv, Run
  <2>6. hung' \in BOOLEAN
    BY <2>1, Zenon DEF BlocklistInv
  <2> QED  BY <1>2, <2>5, <2>6 DEF RefreshAnswered, BlocklistInv
<1>3. CASE AddBlocklist
  <2>1. PICK u \in Urls :
           /\ blocklists' = Append(blocklists, [id |-> blockCalls + 1, url |-> u])
           /\ firstFetches' = firstFetches \cup {[id |-> blockCalls + 1, url |-> u]}
    BY <1>3 DEF AddBlocklist
  <2>2. /\ blockCalls' \in 1 .. MaxListCalls /\ blockCalls' = blockCalls + 1
        /\ Len(blocklists) < MaxBlocklists
    BY <1>3, ListAssumption DEF AddBlocklist, BlocklistInv
  <2> DEFINE b == [id |-> blockCalls + 1, url |-> u]
  <2>3. b \in Blocklist
    BY <2>2 DEF Blocklist
  <2> HIDE DEF b
  <2>4. blocklists' = Append(blocklists, b) /\ firstFetches' = firstFetches \cup {b}
    BY <2>1 DEF b
  <2>5. blocklists' \in Seq(Blocklist) /\ Len(blocklists') <= MaxBlocklists
    BY <2>2, <2>3, <2>4, ListAssumption DEF BlocklistInv
  <2> QED  BY <1>3, <2>2, <2>3, <2>4, <2>5 DEF AddBlocklist, BlocklistInv
<1>4. CASE FirstFetched
  <2>1. blocked' \subseteq Urls /\ firstFetches' \subseteq firstFetches
    BY <1>4 DEF FirstFetched, BlocklistInv, Blocklist
  <2> QED  BY <1>4, <2>1 DEF FirstFetched, BlocklistInv
<1>5. CASE DeleteBlocklist
  <2>1. PICK i \in DOMAIN blocklists : blocklists' = RemoveAt(blocklists, i)
    BY <1>5 DEF DeleteBlocklist
  <2>2. blocklists' \in Seq(Blocklist) /\ Len(blocklists') <= Len(blocklists)
    <3>1. SubSeq(blocklists, 1, i - 1) \in Seq(Blocklist) /\ Len(SubSeq(blocklists, 1, i - 1)) = i - 1
      BY DEF BlocklistInv
    <3>2. /\ SubSeq(blocklists, i + 1, Len(blocklists)) \in Seq(Blocklist)
          /\ Len(SubSeq(blocklists, i + 1, Len(blocklists))) = Len(blocklists) - i
      BY DEF BlocklistInv
    <3> QED  BY <2>1, <3>1, <3>2 DEF RemoveAt, BlocklistInv
  <2>3. blockCalls' \in 0 .. MaxListCalls
    BY <1>5, ListAssumption DEF DeleteBlocklist, BlocklistInv
  <2> QED  BY <1>5, <2>2, <2>3, ListAssumption DEF DeleteBlocklist, BlocklistInv
<1>6. CASE RestartBlocklists
  BY <1>6, ListAssumption DEF RestartBlocklists, BlocklistInv, Run
<1>7. CASE UNCHANGED blockVars
  BY <1>7 DEF blockVars, BlocklistInv
<1>8. CASE RunHangs \/ OthersHang
  <2>1. hung' = TRUE /\ UNCHANGED <<blocklists, blocked, firstFetches, blockCalls>>
    BY <1>8 DEF RunHangs, OthersHang
  <2>2. refreshing' \in [Runs -> Run]
    BY <1>8 DEF RunHangs, OthersHang, BlocklistInv, Run
  <2>3. hung' \in BOOLEAN
    BY <2>1, Zenon
  <2> QED  BY <2>1, <2>2, <2>3 DEF BlocklistInv
<1> QED  BY <1>1, <1>2, <1>3, <1>4, <1>5, <1>6, <1>7, <1>8 DEF BlocklistNext

-----------------------------------------------------------------------------
\* Only what was created is listed, and it was not deleted.
LEMMA TargetStep == ASSUME TargetInv, TargetNext \/ UNCHANGED targetVars PROVE TargetInv'
<1>1. CASE CreateTargets
  <2>1. /\ targetCalls' \in 1 .. MaxListCalls /\ targetCalls' = targetCalls + 1 /\ gone' = gone
        /\ targets' = [targets EXCEPT ![targetCalls'] =
                          [listed |-> TRUE, full |-> FALSE, asked |-> TRUE]]
    BY <1>1, ListAssumption DEF CreateTargets, TargetInv
  <2> DEFINE new == [listed |-> TRUE, full |-> FALSE, asked |-> TRUE]
  <2>2. new \in TargetList
    BY DEF TargetList
  <2>3. /\ targets' \in [Ids -> TargetList]
        /\ \A i \in Ids : i # targetCalls' => targets'[i] = targets[i]
    BY <2>1, <2>2 DEF TargetInv
  <2> QED  BY <2>1, <2>3, ListAssumption DEF TargetInv, DeletedStaysDeleted, Ids
<1>2. ASSUME UNCHANGED <<gone, targetCalls>>, targets' \in [Ids -> TargetList],
             \A i \in Ids : targets'[i].listed = targets[i].listed
      PROVE  TargetInv'
  BY <1>2, ListAssumption DEF TargetInv, DeletedStaysDeleted, Ids
<1>3. CASE RefreshTargets
  <2>1. PICK i \in Ids : targets' = [targets EXCEPT ![i].asked = TRUE]
    BY <1>3 DEF RefreshTargets
  <2>2. targets' \in [Ids -> TargetList] /\ \A j \in Ids : targets'[j].listed = targets[j].listed
    BY <2>1 DEF TargetInv, TargetList
  <2> QED  BY <1>2, <1>3, <2>2 DEF RefreshTargets
<1>4. CASE TargetsAnswered
  <2>1. PICK i \in Ids, got \in BOOLEAN :
           targets' = [targets EXCEPT ![i].asked = FALSE, ![i].full = got]
    BY <1>4 DEF TargetsAnswered
  <2>2. targets' \in [Ids -> TargetList] /\ \A j \in Ids : targets'[j].listed = targets[j].listed
    BY <2>1 DEF TargetInv, TargetList
  <2> QED  BY <1>2, <1>4, <2>2 DEF TargetsAnswered
<1>5. CASE DeleteTargets
  <2>1. PICK i \in Ids : /\ targets[i].listed /\ gone' = gone \cup {i}
                         /\ targets' = [targets EXCEPT ![i].listed = FALSE]
    BY <1>5 DEF DeleteTargets
  <2>2. /\ targets' \in [Ids -> TargetList] /\ ~targets'[i].listed
        /\ \A j \in Ids : j # i => targets'[j] = targets[j]
    BY <2>1 DEF TargetInv, TargetList
  <2>3. i \in 1 .. targetCalls /\ targetCalls' = targetCalls
    BY <1>5, <2>1, ListAssumption DEF DeleteTargets, TargetInv, Ids
  <2> QED  BY <2>1, <2>2, <2>3, ListAssumption DEF TargetInv, DeletedStaysDeleted, Ids
<1>6. CASE RestartTargets
  <2>1. targets' = [i \in Ids |-> [targets[i] EXCEPT !.asked = FALSE]]
    BY <1>6 DEF RestartTargets
  <2>2. targets' \in [Ids -> TargetList] /\ \A j \in Ids : targets'[j].listed = targets[j].listed
    BY <2>1 DEF TargetInv, TargetList
  <2> QED  BY <1>2, <1>6, <2>2 DEF RestartTargets
<1>7. CASE UNCHANGED targetVars
  BY <1>7 DEF targetVars, TargetInv, DeletedStaysDeleted
<1> QED  BY <1>1, <1>3, <1>4, <1>5, <1>6, <1>7 DEF TargetNext

\* The three parts share nothing.
LEMMA ListStep ==
    ASSUME ListInv, FeedNext \/ BlocklistNext \/ TargetNext \/ UNCHANGED listVars
    PROVE  ListInv'
<1>1. CASE FeedNext
  <2>1. UNCHANGED <<blockVars, targetVars>>
    BY <1>1 DEF FeedNext, FetchByTimer, FetchByAdmin, Resolve, Resolved, AskChanges, RestartFeed
  <2> QED  BY <1>1, <2>1, FeedStep, BlocklistStep, TargetStep DEF ListInv
<1>2. CASE BlocklistNext
  <2>1. UNCHANGED <<feedVars, targetVars>>
    BY <1>2 DEF BlocklistNext, RefreshAll, RefreshAnswered, RunHangs, OthersHang, AddBlocklist,
                FirstFetched, DeleteBlocklist, RestartBlocklists
  <2> QED  BY <1>2, <2>1, FeedStep, BlocklistStep, TargetStep DEF ListInv
<1>3. CASE TargetNext
  <2>1. UNCHANGED <<feedVars, blockVars>>
    BY <1>3 DEF TargetNext, CreateTargets, RefreshTargets, TargetsAnswered, DeleteTargets,
                RestartTargets
  <2> QED  BY <1>3, <2>1, FeedStep, BlocklistStep, TargetStep DEF ListInv
<1>4. CASE UNCHANGED listVars
  <2>1. UNCHANGED feedVars /\ UNCHANGED blockVars /\ UNCHANGED targetVars
    BY <1>4 DEF listVars
  <2> QED  BY <2>1, FeedStep, BlocklistStep, TargetStep DEF ListInv
<1> QED  BY <1>1, <1>2, <1>3, <1>4

\* What is promised follows.
LEMMA ListSound == ListInv => ListTypeOK /\ DeltasAddUp /\ DeletedStaysDeleted
<1> SUFFICES ASSUME ListInv PROVE ListTypeOK /\ DeltasAddUp /\ DeletedStaysDeleted
  OBVIOUS
<1>1. DeltasAddUp
  BY DEF ListInv, FeedInv, Dated, DeltasAddUp
<1>2. hung \in BOOLEAN
  BY Zenon DEF ListInv, BlocklistInv
<1> QED  BY <1>1, <1>2 DEF ListInv, FeedInv, FeedState, BlocklistInv, TargetInv, ListTypeOK

-----------------------------------------------------------------------------
\* Open outages that are not watched.
OpenOutages == {i \in DOMAIN outageLog : outageLog[i].open}
Forgotten == {i \in OpenOutages : outageLog[i].id # watched}

\* Incidents are told apart by their places, outages by their numbers, which count them.
FleetInv ==
    /\ fleet \subseteq Boxes /\ silent \in [Boxes -> 0 .. Forsaken]
    /\ incidents \in Seq(Incident)
    /\ \A i, j \in Opens : i = j
    /\ toldOffline \in [Customers -> 0 .. Dedup] /\ toldIncident \in [Customers -> 0 .. Dedup]
    /\ OwnersTold
HomeInv ==
    /\ quiet \in [HomeDevices -> 0 .. Familiar + 1]
    /\ outageLog \in Seq(Outage) /\ watched \in 0 .. MaxIncidents
    /\ Len(outageLog) <= MaxIncidents
    /\ \A i \in DOMAIN outageLog : outageLog[i].id = Len(outageLog) + 1 - i
    /\ OpenWatched
WatchInv ==
    /\ FleetInv /\ HomeInv
    /\ down \subseteq Boxes \cup HomeDevices /\ toRun \subseteq Watchers
    /\ restarts \in Nat

\* A cloud that starts for the first time.
LEMMA WatchStarts == OutagesInit => WatchInv
<1> SUFFICES ASSUME OutagesInit PROVE WatchInv
  OBVIOUS
<1>1. FleetInv
  <2>1. silent = [b \in Boxes |-> 0] /\ fleet = Boxes /\ incidents = <<>>
    BY DEF OutagesInit
  <2>2. Opens = {}
    BY <2>1 DEF Opens
  <2>3. OwnersTold
    BY <2>1, WatchAssumption DEF OwnersTold
  <2> QED  BY <2>1, <2>2, <2>3, WatchAssumption DEF OutagesInit, FleetInv
<1>2. HomeInv
  <2>1. outageLog = <<>> /\ watched = 0 /\ restarts = 0
    BY DEF OutagesInit
  <2>2. {i \in DOMAIN outageLog : outageLog[i].open} = {}
    BY <2>1
  <2>3. OpenWatched
    BY <2>1, <2>2, FS_EmptySet DEF OpenWatched
  <2> QED  BY <2>1, <2>3, WatchAssumption DEF OutagesInit, HomeInv
<1> QED  BY <1>1, <1>2 DEF OutagesInit, WatchInv

\* Ages grow up to a bound.
LEMMA LaterType ==
    ASSUME NEW S, NEW k \in Nat, NEW most \in Nat, NEW ages \in [S -> 0 .. most]
    PROVE  Later(ages, k, most) \in [S -> 0 .. most]
  BY DEF Later, Less

\* k units that pass leave the incidents open that were.
LEMMA PassStep ==
    ASSUME WatchInv, NEW k \in Nat, Pass(k)
    PROVE  /\ silent' \in [Boxes -> 0 .. Forsaken] /\ quiet' \in [HomeDevices -> 0 .. Familiar + 1]
           /\ toldOffline' \in [Customers -> 0 .. Dedup] /\ toldIncident' \in [Customers -> 0 .. Dedup]
           /\ incidents' \in Seq(Incident) /\ Opens' = Opens
<1>1. silent' \in [Boxes -> 0 .. Forsaken]
  BY WatchAssumption DEF Pass, Less, WatchInv, FleetInv
<1>2. quiet' \in [HomeDevices -> 0 .. Familiar + 1]
  BY WatchAssumption DEF Pass, Less, WatchInv, HomeInv
<1>3. toldOffline' \in [Customers -> 0 .. Dedup] /\ toldIncident' \in [Customers -> 0 .. Dedup]
  BY WatchAssumption, LaterType DEF Pass, WatchInv, FleetInv
<1>4. incidents' \in Seq(Incident) /\ Opens' = Opens
  <2> DEFINE older(i) == IF incidents[i].open THEN [incidents[i] EXCEPT !.age = Less(@ + k, 1)]
                         ELSE incidents[i]
  <2>1. incidents' = [i \in DOMAIN incidents |-> older(i)]
    BY DEF Pass
  <2>2. incidents \in Seq(Incident)
    BY DEF WatchInv, FleetInv
  <2>3. ASSUME NEW i \in DOMAIN incidents
        PROVE  older(i) \in Incident /\ older(i).open = incidents[i].open
    <3>1. incidents[i] \in Incident
      BY <2>2
    <3> QED  BY <3>1 DEF Incident, Less
  <2> HIDE DEF older
  <2>4. incidents' \in Seq(Incident) /\ DOMAIN incidents' = DOMAIN incidents
    <3>1. incidents' \in [1 .. Len(incidents) -> Incident]
      BY <2>1, <2>2, <2>3
    <3>2. Len(incidents) \in Nat
      BY <2>2
    <3>3. incidents' \in Seq(Incident)
      BY <3>1, <3>2
    <3> QED  BY <2>1, <3>3
  <2> QED  BY <2>1, <2>3, <2>4 DEF Opens
<1> QED  BY <1>1, <1>2, <1>3, <1>4

\* The log is finite.
LEMMA OutagesFinite == WatchInv => IsFiniteSet(OpenOutages) /\ IsFiniteSet(Forgotten)
<1> SUFFICES ASSUME WatchInv PROVE IsFiniteSet(OpenOutages) /\ IsFiniteSet(Forgotten)
  OBVIOUS
<1>1. IsFiniteSet(1 .. Len(outageLog))
  BY FS_Interval DEF WatchInv, HomeInv
<1>2. OpenOutages \subseteq 1 .. Len(outageLog) /\ Forgotten \subseteq 1 .. Len(outageLog)
  BY DEF OpenOutages, Forgotten, WatchInv, HomeInv
<1> QED  BY <1>1, <1>2, FS_Subset

\* A unit passes, in which the watchers run, or the cloud is down.
LEMMA UnitStep ==
    ASSUME WatchInv, Unit \/ RestartWatchers
    PROVE  WatchInv'
<1>1. PICK k \in Nat : Pass(k)
  BY WatchAssumption DEF Unit, RestartWatchers
<1>2. /\ silent' \in [Boxes -> 0 .. Forsaken] /\ quiet' \in [HomeDevices -> 0 .. Familiar + 1]
      /\ toldOffline' \in [Customers -> 0 .. Dedup] /\ toldIncident' \in [Customers -> 0 .. Dedup]
      /\ incidents' \in Seq(Incident) /\ Opens' = Opens
  BY <1>1, PassStep
<1>3. UNCHANGED <<fleet, down, outageLog>> /\ toRun' = Watchers
  BY DEF Unit, RestartWatchers
<1>4. OwnersTold'
  BY <1>3 DEF OwnersTold, Watchers
<1>5. FleetInv'
  BY <1>2, <1>3, <1>4 DEF WatchInv, FleetInv
<1>6. CASE Unit
  <2>1. watched' = watched /\ restarts' = restarts
    BY <1>6 DEF Unit
  <2>2. OpenWatched'
    BY <1>3, <2>1 DEF WatchInv, HomeInv, OpenWatched
  <2> QED  BY <1>2, <1>3, <1>5, <2>1, <2>2 DEF WatchInv, HomeInv
<1>7. CASE RestartWatchers
  <2>1. watched' = 0 /\ restarts' = restarts + 1
    BY <1>7 DEF RestartWatchers
  <2>2. OpenWatched'
    <3>1. IsFiniteSet(OpenOutages) /\ IsFiniteSet(Forgotten)
      BY OutagesFinite
    <3>2. Cardinality(Forgotten) <= restarts
      BY Zenon DEF WatchInv, HomeInv, OpenWatched, Forgotten, OpenOutages
    <3>3. PICK x : OpenOutages \subseteq Forgotten \cup {x}
      <4>1. ASSUME NEW i \in OpenOutages \ Forgotten, NEW j \in OpenOutages \ Forgotten
            PROVE  i = j
        BY DEF OpenOutages, Forgotten, WatchInv, HomeInv
      <4>2. CASE OpenOutages \ Forgotten = {}
        BY <4>2
      <4>3. CASE OpenOutages \ Forgotten # {}
        BY <4>1, <4>3
      <4> QED  BY <4>2, <4>3
    <3>4. /\ IsFiniteSet(Forgotten \cup {x})
          /\ Cardinality(Forgotten \cup {x}) <= Cardinality(Forgotten) + 1
      <4>1. Cardinality(Forgotten) \in Nat
        BY <3>1, FS_CardinalityType
      <4>2. /\ IsFiniteSet(Forgotten \cup {x})
            /\ Cardinality(Forgotten \cup {x})
                  = IF x \in Forgotten THEN Cardinality(Forgotten) ELSE Cardinality(Forgotten) + 1
        BY <3>1, FS_AddElement, Zenon
      <4> QED  BY <4>1, <4>2
    <3>5. Cardinality(OpenOutages) <= Cardinality(Forgotten \cup {x})
      BY <3>3, <3>4, FS_Subset
    <3>6. /\ Cardinality(OpenOutages) \in Nat /\ Cardinality(Forgotten) \in Nat
          /\ Cardinality(Forgotten \cup {x}) \in Nat
      BY <3>1, <3>4, FS_CardinalityType
    <3>7. Cardinality(OpenOutages) <= restarts + 1
      BY <3>2, <3>4, <3>5, <3>6 DEF WatchInv
    <3>8. /\ {i \in DOMAIN outageLog' : outageLog'[i].open} = OpenOutages
          /\ {i \in OpenOutages : outageLog'[i].id # watched'} = OpenOutages
      <4>1. \A i \in OpenOutages : outageLog[i].id # 0
        BY DEF OpenOutages, WatchInv, HomeInv
      <4> QED  BY <1>3, <2>1, <4>1 DEF OpenOutages
    <3> QED  BY <2>1, <3>7, <3>8 DEF OpenWatched
  <2>3. watched' \in 0 .. MaxIncidents /\ restarts' \in Nat
    BY <2>1, WatchAssumption DEF WatchInv
  <2> QED  BY <1>2, <1>3, <1>5, <2>2, <2>3 DEF WatchInv, HomeInv
<1> QED  BY <1>6, <1>7

\* Boxes and devices come and go, and boxes are removed.
LEMMA TurnStep ==
    ASSUME WatchInv, FleetNext \/ HomeNext \/ UNCHANGED outageVars
    PROVE  WatchInv'
<1>1. CASE Turn(Boxes) \/ Turn(HomeDevices)
  <2>1. /\ UNCHANGED <<fleetVars, homeVars, toRun, restarts>>
        /\ down' \subseteq Boxes \cup HomeDevices
    BY <1>1 DEF Turn, WatchInv
  <2> QED
    BY <2>1 DEF WatchInv, FleetInv, HomeInv, fleetVars, homeVars, Opens, OwnersTold, OpenWatched
<1>2. CASE RemoveBox
  <2>1. /\ UNCHANGED <<down, silent, incidents, toldOffline, toldIncident, homeVars, toRun, restarts>>
        /\ fleet' \subseteq fleet
    BY <1>2 DEF RemoveBox
  <2> QED
    BY <2>1 DEF WatchInv, FleetInv, HomeInv, homeVars, Opens, OwnersTold, OpenWatched
<1>3. CASE UNCHANGED outageVars
  BY <1>3 DEF outageVars, fleetVars, homeVars, WatchInv, FleetInv, HomeInv, Opens, OwnersTold,
              OpenWatched
<1> QED  BY <1>1, <1>2, <1>3 DEF FleetNext, HomeNext

\* Who is told now was told less than half an hour ago.
LEMMA ToldType ==
    ASSUME NEW ages \in [Customers -> 0 .. Dedup], NEW who
    PROVE  /\ Told(ages, who) \in [Customers -> 0 .. Dedup]
           /\ \A c \in Customers : c \in who => Told(ages, who)[c] < Dedup
  BY WatchAssumption DEF Told

\* The owners of silent boxes are told.
LEMMA HealthStep == ASSUME WatchInv, RunBoxHealthScan PROVE WatchInv'
<1> DEFINE who == {Owner[b] : b \in {x \in fleet : silent[x] > Offline /\ silent[x] < Forsaken}}
<1>1. toldOffline' = Told(toldOffline, who) /\ toRun' = toRun \ {"health"}
      /\ UNCHANGED <<fleet, down, silent, incidents, toldIncident, homeVars, turns, restarts>>
  BY DEF RunBoxHealthScan
<1>2. /\ toldOffline' \in [Customers -> 0 .. Dedup]
      /\ \A c \in Customers : c \in who => toldOffline'[c] < Dedup
  BY <1>1, ToldType DEF WatchInv, FleetInv
<1>3. OwnersTold'
  BY <1>1, <1>2 DEF OwnersTold, WatchInv, FleetInv, Customers
<1> QED
  BY <1>1, <1>2, <1>3 DEF WatchInv, FleetInv, HomeInv, homeVars, Opens, OpenWatched

\* An incident is opened only when none is.
LEMMA IspStep == ASSUME WatchInv, DetectIspWideOutage PROVE WatchInv'
<1>1. /\ toRun' = toRun \ {"isp"}
      /\ UNCHANGED <<fleet, down, silent, toldOffline, homeVars, turns, restarts>>
  BY DEF DetectIspWideOutage
<1>2. incidents \in Seq(Incident) /\ RecentlyOffline \in SUBSET Boxes
  BY DEF WatchInv, FleetInv, RecentlyOffline
<1> DEFINE OneOpen == \A i, j \in Opens' : i = j
<1>3. /\ incidents' \in Seq(Incident) /\ OneOpen
      /\ toldIncident' \in [Customers -> 0 .. Dedup]
  <2>1. CASE Opens = {} /\ OpenIncident
    <3> DEFINE new == [open |-> TRUE, age |-> 0, affected |-> RecentlyOffline]
    <3>1. new \in Incident
      BY <1>2 DEF Incident
    <3>2. incidents' = <<new>> \o incidents
      BY <2>1 DEF OpenIncident
    <3> HIDE DEF new
    <3>3. /\ incidents' \in Seq(Incident) /\ DOMAIN incidents' = 1 .. Len(incidents) + 1
          /\ \A i \in 2 .. Len(incidents) + 1 : incidents'[i] = incidents[i - 1]
      BY <1>2, <3>1, <3>2
    <3>4. ASSUME NEW i \in Opens' PROVE i = 1
      <4>1. i \in DOMAIN incidents' /\ incidents'[i].open
        BY DEF Opens
      <4>2. i # 1 => i - 1 \in DOMAIN incidents /\ incidents[i - 1].open
        BY <1>2, <3>3, <4>1
      <4> QED  BY <2>1, <4>2 DEF Opens
    <3>5. toldIncident' \in [Customers -> 0 .. Dedup]
      BY <2>1, ToldType DEF OpenIncident, WatchInv, FleetInv
    <3> QED  BY <3>3, <3>4, <3>5
  <2>2. CASE /\ UNCHANGED toldIncident
             /\ \/ incidents' = incidents
                \/ incidents' = [incidents EXCEPT ![OpenOne].affected = RecentlyOffline]
                \/ incidents' = [incidents EXCEPT ![OpenOne].open = FALSE]
    <3>1. ASSUME NEW i \in DOMAIN incidents
          PROVE  /\ [incidents[i] EXCEPT !.affected = RecentlyOffline] \in Incident
                 /\ [incidents[i] EXCEPT !.open = FALSE] \in Incident
                 /\ [incidents[i] EXCEPT !.affected = RecentlyOffline].open = incidents[i].open
                 /\ ~[incidents[i] EXCEPT !.open = FALSE].open
      <4>1. incidents[i] \in Incident
        BY <1>2
      <4> QED  BY <1>2, <4>1 DEF Incident
    <3> DEFINE k == OpenOne
               a == [incidents[k] EXCEPT !.affected = RecentlyOffline]
               b == [incidents[k] EXCEPT !.open = FALSE]
    <3>2. \/ incidents' = incidents
          \/ incidents' = [incidents EXCEPT ![k] = a]
          \/ incidents' = [incidents EXCEPT ![k] = b]
      BY <2>2
    <3>3. k \in DOMAIN incidents =>
             /\ a \in Incident /\ b \in Incident /\ a.open = incidents[k].open /\ ~b.open
      BY <3>1
    <3> HIDE DEF k, a, b
    <3>4. /\ incidents' \in Seq(Incident) /\ DOMAIN incidents' = DOMAIN incidents
          /\ \A i \in DOMAIN incidents : i # k => incidents'[i] = incidents[i]
          /\ k \in DOMAIN incidents => incidents'[k] \in {incidents[k], a, b}
      BY <1>2, <3>2, <3>3
    <3>5. Opens' \subseteq Opens
      BY <3>3, <3>4 DEF Opens
    <3> QED  BY <2>2, <3>4, <3>5 DEF WatchInv, FleetInv
  <2> QED  BY <2>1, <2>2 DEF DetectIspWideOutage
<1>4. OwnersTold'
  BY <1>1 DEF OwnersTold, WatchInv, FleetInv
<1> HIDE DEF OneOpen
<1>5. FleetInv'
  BY <1>1, <1>3, <1>4 DEF WatchInv, FleetInv, OneOpen
<1>6. HomeInv'
  BY <1>1 DEF WatchInv, HomeInv, homeVars, OpenWatched
<1> QED  BY <1>1, <1>5, <1>6 DEF WatchInv

\* An outage that begins is watched; one that ends is closed.
LEMMA HomeStep == ASSUME WatchInv, RunOutageDetector PROVE WatchInv'
<1>1. /\ toRun' = toRun \ {"home"}
      /\ UNCHANGED <<fleetVars, quiet, down, turns, restarts>>
  BY DEF RunOutageDetector
<1>2. /\ outageLog \in Seq(Outage) /\ Len(outageLog) <= MaxIncidents
      /\ \A i \in DOMAIN outageLog : outageLog[i].id = Len(outageLog) + 1 - i
      /\ watched \in 0 .. MaxIncidents
  BY DEF WatchInv, HomeInv
<1>3. /\ watched # 0 => \E i \in OpenOutages : outageLog[i].id = watched
      /\ Cardinality(Forgotten) <= restarts
  <2>1. OpenWatched <=> /\ watched # 0 => \E i \in OpenOutages : outageLog[i].id = watched
                        /\ Cardinality(Forgotten) <= restarts
    BY DEF OpenWatched, Forgotten, OpenOutages
  <2> QED  BY <2>1 DEF WatchInv, HomeInv
<1>4. IsFiniteSet(Forgotten)
  BY OutagesFinite
<1> DEFINE OpenNow == {i \in DOMAIN outageLog' : outageLog'[i].open}
           ForgottenNow == {i \in OpenNow : outageLog'[i].id # watched'}
<1>5. SUFFICES /\ outageLog' \in Seq(Outage) /\ Len(outageLog') <= MaxIncidents
               /\ \A i \in DOMAIN outageLog' : outageLog'[i].id = Len(outageLog') + 1 - i
               /\ watched' \in 0 .. MaxIncidents
               /\ watched' # 0 => \E i \in OpenNow : outageLog'[i].id = watched'
               /\ Cardinality(ForgottenNow) <= restarts
  <2>1. FleetInv'
    BY <1>1 DEF WatchInv, FleetInv, fleetVars, Opens, OwnersTold
  <2>2. OpenWatched' <=> /\ watched' # 0 => \E i \in OpenNow : outageLog'[i].id = watched'
                         /\ Cardinality(ForgottenNow) <= restarts
    BY <1>1, Zenon DEF OpenWatched
  <2> HIDE DEF OpenNow, ForgottenNow
  <2> QED  BY <1>1, <2>1, <2>2 DEF WatchInv, HomeInv
<1>6. CASE /\ watched = 0 /\ Len(outageLog) < MaxIncidents
           /\ outageLog' = <<[id |-> Len(outageLog) + 1, open |-> TRUE]>> \o outageLog
           /\ watched' = Len(outageLog) + 1
  <2> DEFINE new == [id |-> Len(outageLog) + 1, open |-> TRUE]
  <2>1. new \in Outage /\ new.id = Len(outageLog) + 1 /\ new.open
    BY <1>2, <1>6, WatchAssumption DEF Outage
  <2>2. outageLog' = <<new>> \o outageLog
    BY <1>6
  <2> HIDE DEF new
  <2>3. /\ outageLog' \in Seq(Outage) /\ Len(outageLog') = Len(outageLog) + 1
        /\ DOMAIN outageLog' = 1 .. Len(outageLog) + 1 /\ outageLog'[1] = new
        /\ \A i \in 2 .. Len(outageLog) + 1 : outageLog'[i] = outageLog[i - 1]
    BY <1>2, <2>1, <2>2
  <2>4. \A i \in DOMAIN outageLog' : outageLog'[i].id = Len(outageLog') + 1 - i
    <3> SUFFICES ASSUME NEW i \in DOMAIN outageLog'
                 PROVE  outageLog'[i].id = Len(outageLog') + 1 - i
      OBVIOUS
    <3>1. CASE i = 1
      BY <1>2, <2>1, <2>3, <3>1
    <3>2. CASE i # 1
      <4>1. i \in 2 .. Len(outageLog) + 1 /\ i - 1 \in DOMAIN outageLog
        BY <1>2, <2>3, <3>2
      <4>2. outageLog[i - 1].id = Len(outageLog) + 1 - (i - 1)
        BY <1>2, <4>1
      <4> QED  BY <1>2, <2>3, <4>1, <4>2
    <3> QED  BY <3>1, <3>2
  <2>5. 1 \in OpenNow /\ outageLog'[1].id = watched'
    BY <1>2, <1>6, <2>1, <2>3
  <2>6. ForgottenNow \subseteq {i + 1 : i \in Forgotten}
    <3> SUFFICES ASSUME NEW i \in ForgottenNow PROVE i - 1 \in Forgotten /\ i = (i - 1) + 1
      OBVIOUS
    <3>1. i \in DOMAIN outageLog' /\ outageLog'[i].open /\ i # 1
      BY <2>5
    <3>2. i \in 2 .. Len(outageLog) + 1 /\ i - 1 \in DOMAIN outageLog
      BY <1>2, <2>3, <3>1
    <3>3. outageLog[i - 1].open /\ outageLog[i - 1].id # 0
      <4>1. outageLog[i - 1].id = Len(outageLog) + 1 - (i - 1)
        BY <1>2, <3>2
      <4> QED  BY <1>2, <2>3, <3>1, <3>2, <4>1
    <3> QED  BY <1>6, <3>2, <3>3 DEF Forgotten, OpenOutages
  <2>7. Cardinality(ForgottenNow) <= restarts
    <3> DEFINE moved == {i + 1 : i \in Forgotten}
    <3>1. IsFiniteSet(moved) /\ Cardinality(moved) <= Cardinality(Forgotten)
      <4> DEFINE f == [i \in Forgotten |-> i + 1]
      <4>1. f \in Surjection(Forgotten, moved)
        BY DEF Surjection
      <4> HIDE DEF f, moved
      <4> QED  BY <1>4, <4>1, FS_Surjection
    <3>2. Cardinality(ForgottenNow) <= Cardinality(moved) /\ IsFiniteSet(ForgottenNow)
      BY <2>6, <3>1, FS_Subset
    <3>3. /\ Cardinality(ForgottenNow) \in Nat /\ Cardinality(moved) \in Nat
          /\ Cardinality(Forgotten) \in Nat
      BY <1>4, <3>1, <3>2, FS_CardinalityType
    <3> HIDE DEF moved, ForgottenNow
    <3> QED  BY <1>3, <3>1, <3>2, <3>3 DEF WatchInv
  <2> HIDE DEF ForgottenNow, OpenNow
  <2>8. watched' \in 0 .. MaxIncidents /\ Len(outageLog') <= MaxIncidents
    BY <1>2, <1>6, <2>3, WatchAssumption
  <2> QED  BY <2>3, <2>4, <2>5, <2>7, <2>8
<1>7. CASE /\ watched # 0 /\ watched' = 0
           /\ outageLog' = [i \in DOMAIN outageLog |->
                 IF outageLog[i].id = watched THEN [outageLog[i] EXCEPT !.open = FALSE]
                 ELSE outageLog[i]]
  <2>1. ASSUME NEW i \in DOMAIN outageLog
        PROVE  /\ outageLog'[i] \in Outage /\ outageLog'[i].id = outageLog[i].id
               /\ outageLog'[i].open <=> outageLog[i].open /\ outageLog[i].id # watched
    <3>1. outageLog[i] \in Outage
      BY <1>2
    <3> QED  BY <1>7, <3>1 DEF Outage
  <2>2. DOMAIN outageLog' = DOMAIN outageLog /\ Len(outageLog) \in Nat
        /\ DOMAIN outageLog = 1 .. Len(outageLog)
    BY <1>2, <1>7
  <2>3. outageLog' \in Seq(Outage) /\ Len(outageLog') = Len(outageLog)
    <3>1. outageLog' \in [1 .. Len(outageLog) -> Outage]
      BY <1>7, <2>1, <2>2
    <3> QED  BY <2>2, <3>1
  <2>4. \A i \in DOMAIN outageLog' : outageLog'[i].id = Len(outageLog') + 1 - i
    BY <1>2, <2>1, <2>2, <2>3
  <2>5. ForgottenNow = Forgotten
    <3>1. \A i \in DOMAIN outageLog : outageLog[i].id # 0
      BY <1>2, <2>2
    <3> QED  BY <1>7, <2>1, <2>2, <3>1 DEF Forgotten, OpenOutages
  <2> HIDE DEF ForgottenNow, OpenNow
  <2> QED  BY <1>2, <1>3, <1>7, <2>3, <2>4, <2>5, WatchAssumption
<1>8. CASE UNCHANGED <<outageLog, watched>>
  <2>1. OpenNow = OpenOutages /\ ForgottenNow = Forgotten
    BY <1>8 DEF Forgotten, OpenOutages
  <2> HIDE DEF ForgottenNow, OpenNow
  <2> QED  BY <1>2, <1>3, <1>8, <2>1
<1> QED  BY <1>6, <1>7, <1>8, Zenon DEF RunOutageDetector

\* Every step keeps it.
LEMMA WatchStep ==
    ASSUME WatchInv, OutagesNext \/ UNCHANGED outageVars
    PROVE  WatchInv'
  BY UnitStep, TurnStep, HealthStep, IspStep, HomeStep DEF OutagesNext, Watch

\* What is promised follows.
LEMMA WatchSound == WatchInv => OutagesTypeOK /\ OneIncident /\ OwnersTold /\ OpenWatched
<1> SUFFICES ASSUME WatchInv PROVE OutagesTypeOK /\ OneIncident /\ OwnersTold /\ OpenWatched
  OBVIOUS
<1>1. OneIncident
  <2>1. \A i, j \in Opens : i = j
    BY DEF WatchInv, FleetInv
  <2>2. CASE Opens = {}
    BY <2>2, FS_EmptySet DEF OneIncident
  <2>3. CASE Opens # {}
    <3>1. PICK i : Opens = {i}
      BY <2>1, <2>3
    <3> QED  BY <3>1, FS_Singleton DEF OneIncident
  <2> QED  BY <2>2, <2>3
<1> QED  BY <1>1 DEF WatchInv, FleetInv, HomeInv, OutagesTypeOK

-----------------------------------------------------------------------------
Firmware == [image: Images \cup {NoContent}, sha: Payloads \cup {NoContent}]
StagedImage == [content: Payloads \cup {NoContent, Torn}, verified: BOOLEAN]
UploadedAs(f) == [image |-> f.image, content |-> f.sha]
Configuration == [policy: Nat, touched: Nat]

\* What is listed, and what the box was offered, was uploaded as it is.
ImageInv ==
    /\ uploaded \subseteq [image: Images, content: Payloads]
    /\ firmwares \in [Keys -> Firmware]
    /\ files \in [Keys -> Payloads \cup {NoContent, Torn}]
    /\ \A k \in Keys : firmwares[k] # NoFirmware => UploadedAs(firmwares[k]) \in uploaded
    /\ offer \in Firmware
    /\ offer # NoFirmware => UploadedAs(offer) \in uploaded
    /\ round = "download" => offer # NoFirmware
    /\ staged \in [Images -> StagedImage]
    /\ VerifiedWasUploaded
\* What is written was fetched, and what is renamed was written.
AgentInv ==
    /\ published \in AgentEditions /\ agentFile \in AgentEditions
    /\ newFile \in AgentEditions \cup {0, Torn}
    /\ fetched \in {0} \cup AgentEditions
    /\ running \in {0} \cup AgentEditions /\ leaving \in BOOLEAN
    /\ round \in Steps /\ ticking \in BOOLEAN
    /\ round = "write" => fetched \in AgentEditions
    /\ round = "rename" => newFile \in AgentEditions
\* While the log is shipped, a crash in it is shipped or behind as many that are.
NewerThan(S, n) == {m \in S : m > n}
CrashInv ==
    /\ entries \in Nat
    /\ crashLog \cup shipping \cup rotated \cup crashes \cup received \subseteq 1 .. entries
    /\ \A n \in crashes :
          \/ n \in received \cup crashLog \cup rotated
          \/ Cardinality(NewerThan(received, n)) >= ShippedEntries
    /\ round = "crashlog" =>
          \A n \in crashes \cap crashLog :
             n \in shipping \/ Cardinality(NewerThan(shipping, n)) >= ShippedEntries
ReportInv ==
    /\ config \in Configuration
    /\ configsSeen \in Seq(Configuration) /\ Len(configsSeen) <= KeptReports
    /\ baseline \in {0} \cup AgentEditions
    /\ recently \cup muted \cup warned \subseteq Reports
BoxInv == ImageInv /\ AgentInv /\ CrashInv /\ ReportInv

\* A box as it is delivered.
LEMMA BoxStarts == UpkeepInit => BoxInv
<1> SUFFICES ASSUME UpkeepInit PROVE BoxInv
  OBVIOUS
<1>1. ImageInv
  <2>1. NoFirmware \in Firmware /\ NotStaged \in StagedImage /\ ~NotStaged.verified
    BY DEF NoFirmware, Firmware, NotStaged, StagedImage
  <2>2. /\ firmwares = [k \in Keys |-> NoFirmware] /\ files = [k \in Keys |-> NoContent]
        /\ offer = NoFirmware /\ uploaded = {} /\ round = "none"
        /\ staged = [i \in Images |-> NotStaged]
    BY DEF UpkeepInit
  <2> QED  BY <2>1, <2>2 DEF ImageInv, VerifiedWasUploaded
<1>2. AgentInv
  <2>1. 1 \in AgentEditions
    BY UpkeepAssumption DEF AgentEditions
  <2>2. leaving \in BOOLEAN /\ ticking \in BOOLEAN
    BY Zenon DEF UpkeepInit
  <2> QED  BY <2>1, <2>2 DEF UpkeepInit, AgentInv, Steps
<1>3. CrashInv
  BY DEF UpkeepInit, CrashInv
<1>4. ReportInv
  <2>1. config = [policy |-> 0, touched |-> 0] /\ configsSeen = <<>>
    BY DEF UpkeepInit
  <2>2. config \in Configuration /\ configsSeen \in Seq(Configuration) /\ Len(configsSeen) = 0
    BY <2>1 DEF Configuration
  <2> QED  BY <2>2, UpkeepAssumption DEF UpkeepInit, ReportInv
<1> QED  BY <1>1, <1>2, <1>3, <1>4 DEF BoxInv

-----------------------------------------------------------------------------
\* The newest image that is listed is one of them.
LEMMA LatestListed ==
    ASSUME ImageInv, ListedFirmware # {}
    PROVE  Latest \in ListedFirmware
<1>1. ListedFirmware \subseteq Firmware
      /\ \A f \in ListedFirmware : f # NoFirmware /\ UploadedAs(f) \in uploaded
  BY DEF ImageInv, ListedFirmware
<1>2. \A f \in ListedFirmware : f.image \in Images
  BY <1>1 DEF ImageInv, UploadedAs
<1>3. \A f \in ListedFirmware : f.image.version \in Nat
  BY <1>2, UpkeepAssumption
<1> DEFINE bounds == {n \in Nat : \A f \in ListedFirmware : f.image.version <= n}
           m == Min(bounds)
<1>4. bounds # {}
  <2>1. PICK last \in Images : \A i \in Images : i.version <= last.version
    BY UpkeepAssumption
  <2>2. last.version \in bounds
    BY <1>2, <2>1, UpkeepAssumption
  <2> QED  BY <2>2
<1>5. m \in bounds /\ \A n \in bounds : m <= n
  BY <1>4, LeastOf
<1>6. m \in Nat /\ \A f \in ListedFirmware : f.image.version <= m
  BY <1>5
<1>7. \E f \in ListedFirmware : f.image.version = m
  <2> SUFFICES ASSUME \A f \in ListedFirmware : f.image.version # m PROVE FALSE
    OBVIOUS
  <2>1. PICK f0 \in ListedFirmware : TRUE
    OBVIOUS
  <2>2. \A f \in ListedFirmware : f.image.version < m
    <3> HIDE DEF m, bounds
    <3> QED  BY <1>3, <1>6
  <2>3. m - 1 \in Nat
    <3> HIDE DEF m, bounds
    <3> QED  BY <1>3, <1>6, <2>1, <2>2
  <2>4. \A f \in ListedFirmware : f.image.version <= m - 1
    <3> HIDE DEF m, bounds
    <3> QED  BY <1>3, <1>6, <2>2
  <2>5. m - 1 \in bounds
    BY <2>3, <2>4
  <2>6. m <= m - 1
    <3> HIDE DEF m
    <3> QED  BY <1>5, <2>5
  <2> HIDE DEF m, bounds
  <2> QED  BY <1>6, <2>6
<1>8. \E f \in ListedFirmware : \A g \in ListedFirmware : g.image.version <= f.image.version
  <2> HIDE DEF m, bounds
  <2> QED  BY <1>6, <1>7
<1> QED  BY <1>8, Zenon DEF Latest

\* What the cloud has, of a call that may end in between.
LEMMA CloudCallStep == ASSUME ImageInv, CloudCalls PROVE ImageInv'
<1>1. ASSUME NEW i \in Images, NEW c \in Payloads, NEW got \in {c, Torn}, Upload(i, c, got)
      PROVE  ImageInv'
  <2> DEFINE f == [image |-> i, sha |-> c]
  <2>1. /\ uploaded' = uploaded \cup {[image |-> i, content |-> c]}
        /\ files' = [files EXCEPT ![i.key] = got]
        /\ firmwares' = firmwares \/ firmwares' = [firmwares EXCEPT ![i.key] = f]
        /\ UNCHANGED <<offer, staged, round>>
    BY <1>1 DEF Upload, BoxAlone, stagedVars, roundVars
  <2>2. f \in Firmware /\ UploadedAs(f) = [image |-> i, content |-> c]
    BY DEF Firmware, UploadedAs
  <2>3. [image |-> i, content |-> c] \in [image: Images, content: Payloads]
    OBVIOUS
  <2>4. uploaded' \subseteq [image: Images, content: Payloads] /\ uploaded \subseteq uploaded'
        /\ UploadedAs(f) \in uploaded'
    BY <2>1, <2>2, <2>3 DEF ImageInv
  <2> HIDE DEF f
  <2>5. files' \in [Keys -> Payloads \cup {NoContent, Torn}]
    BY <2>1 DEF ImageInv, Keys
  <2>6. /\ firmwares' \in [Keys -> Firmware]
        /\ \A k \in Keys : firmwares'[k] = firmwares[k] \/ firmwares'[k] = f
    BY <2>1, <2>2 DEF ImageInv, Keys
  <2>7. \A k \in Keys : firmwares'[k] # NoFirmware => UploadedAs(firmwares'[k]) \in uploaded'
    BY <2>4, <2>6 DEF ImageInv
  <2>8. VerifiedWasUploaded'
    BY <2>1, <2>4 DEF ImageInv, VerifiedWasUploaded
  <2> QED  BY <2>1, <2>4, <2>5, <2>6, <2>7, <2>8 DEF ImageInv, UploadedAs
<1>2. ASSUME NEW k \in Keys, NEW whole \in BOOLEAN, DeleteFirmware(k, whole)
      PROVE  ImageInv'
  <2>1. /\ files' = [files EXCEPT ![k] = NoContent]
        /\ firmwares' = firmwares \/ firmwares' = [firmwares EXCEPT ![k] = NoFirmware]
        /\ UNCHANGED <<uploaded, offer, staged, round>>
    BY <1>2 DEF DeleteFirmware, BoxAlone, stagedVars, roundVars
  <2>2. NoFirmware \in Firmware
    BY DEF NoFirmware, Firmware
  <2>3. /\ firmwares' \in [Keys -> Firmware]
        /\ \A j \in Keys : firmwares'[j] = firmwares[j] \/ firmwares'[j] = NoFirmware
    BY <2>1, <2>2 DEF ImageInv
  <2>4. files' \in [Keys -> Payloads \cup {NoContent, Torn}]
    BY <2>1 DEF ImageInv
  <2> QED  BY <2>1, <2>3, <2>4 DEF ImageInv, UploadedAs, VerifiedWasUploaded
<1> QED  BY <1>1, <1>2 DEF CloudCalls

\* The list is read; the best image for the model is offered.
LEMMA ListAnsweredStep == ASSUME ImageInv, ListAnswered PROVE ImageInv'
<1>1. UNCHANGED <<firmwares, files, uploaded, staged>>
  BY DEF ListAnswered, cloudVars
<1>2. \/ offer' = NoFirmware /\ round' # "download"
      \/ offer' \in ListedFirmware
  BY LatestListed DEF ListAnswered, To, Unanswered
<1>3. NoFirmware \in Firmware
  BY DEF NoFirmware, Firmware
<1>4. /\ offer' \in Firmware
      /\ offer' # NoFirmware => UploadedAs(offer') \in uploaded
      /\ round' = "download" => offer' # NoFirmware
  BY <1>2, <1>3 DEF ImageInv, ListedFirmware
<1> QED
  BY <1>1, <1>4 DEF ImageInv, VerifiedWasUploaded, UploadedAs

\* What is downloaded is compared with the hash of the offer, which nobody has uploaded since.
LEMMA DownloadStep == ASSUME ImageInv, Download PROVE ImageInv'
<1>1. UNCHANGED <<firmwares, files, uploaded, offer>> /\ round' \in {"fetch", "blocked"}
      /\ round = "download"
  BY DEF Download, cloudVars, To
<1>2. offer \in Firmware /\ UploadedAs(offer) \in uploaded
  BY <1>1 DEF ImageInv
<1> DEFINE got == Served(offer.image.key)
           good == [content |-> got, verified |-> TRUE]
           cut == [content |-> Torn, verified |-> FALSE]
<1>3. \/ staged' = staged
      \/ Matches(got) /\ staged' = [staged EXCEPT ![offer.image] = good]
      \/ staged' = [staged EXCEPT ![offer.image] = NotStaged]
      \/ staged' = [staged EXCEPT ![offer.image] = cut]
  BY Zenon DEF Download
<1>4. /\ NotStaged \in StagedImage /\ ~NotStaged.verified /\ cut \in StagedImage /\ ~cut.verified
  BY DEF NotStaged, StagedImage
<1>5. Matches(got) => /\ good \in StagedImage
                      /\ [image |-> offer.image, content |-> good.content] \in uploaded
  BY <1>2 DEF Matches, StagedImage, Firmware, UploadedAs
<1> HIDE DEF got, good, cut
<1>6. staged' \in [Images -> StagedImage]
  BY <1>3, <1>4, <1>5 DEF ImageInv
<1>7. VerifiedWasUploaded'
  <2> SUFFICES ASSUME NEW i \in Images, staged'[i].verified
               PROVE  [image |-> i, content |-> staged'[i].content] \in uploaded
    BY <1>1 DEF VerifiedWasUploaded
  <2>1. CASE staged'[i] = staged[i]
    BY <2>1 DEF ImageInv, VerifiedWasUploaded
  <2>2. CASE staged'[i] # staged[i]
    BY <1>3, <1>4, <1>5, <2>2 DEF ImageInv
  <2> QED  BY <2>1, <2>2
<1> QED  BY <1>1, <1>6, <1>7 DEF ImageInv, UploadedAs

\* Where the other actions leave the images, and the round.
LEMMA ImagesAlone ==
    ASSUME \/ AgentStarts \/ CrashLogShipped \/ RoundBegins \/ AgentFetched \/ WriteAgent
           \/ RenameAgent \/ ReportRound \/ AgentExits \/ AgentCrashes \/ RejectionLogged
           \/ LogRotates \/ Judging \/ Publish \/ HalfHour \/ ConfigChanges \/ UNCHANGED upkeepVars
    PROVE  /\ UNCHANGED <<firmwares, files, uploaded, offer, staged>>
           /\ round' = "download" => round = "download"
<1>1. CASE AgentStarts \/ CrashLogShipped \/ RoundBegins \/ AgentFetched \/ WriteAgent \/ RenameAgent
  BY <1>1 DEF AgentStarts, CrashLogShipped, RoundBegins, AgentFetched, WriteAgent, RenameAgent,
              To, Unanswered, cloudVars, stagedVars
<1>2. CASE ReportRound
  BY <1>2 DEF ReportRound, SnapshotSent, IntegrityReported, RouteChecked, To, Unanswered, cloudVars,
              stagedVars
<1>3. CASE AgentExits \/ AgentCrashes \/ RejectionLogged \/ LogRotates
  BY <1>3 DEF AgentExits, AgentCrashes, RejectionLogged, LogRotates, Ends, cloudVars, stagedVars,
              roundVars
<1>4. CASE Judging \/ Publish \/ HalfHour
  BY <1>4 DEF Judging, MarkKnownGood, ResetBaseline, MuteReports, Publish, HalfHour, BoxAlone,
              cloudVars, stagedVars, roundVars
<1>5. CASE ConfigChanges
  BY <1>5 DEF ConfigChanges, cloudVars, stagedVars, roundVars
<1>6. CASE UNCHANGED upkeepVars
  BY <1>6 DEF upkeepVars, cloudVars, stagedVars, roundVars
<1> QED  BY <1>1, <1>2, <1>3, <1>4, <1>5, <1>6

\* No step verifies an image that was not uploaded.
LEMMA ImageStep == ASSUME ImageInv, UpkeepNext \/ UNCHANGED upkeepVars PROVE ImageInv'
<1>1. CASE CloudCalls
  BY <1>1, CloudCallStep
<1>2. CASE ListAnswered
  BY <1>2, ListAnsweredStep
<1>3. CASE Download
  BY <1>3, DownloadStep
<1>4. CASE PowerFails
  <2>1. /\ UNCHANGED <<firmwares, files, uploaded, offer>> /\ round' = "none"
        /\ staged' = [i \in Images |-> NotStaged]
    BY <1>4 DEF PowerFails, Ends, cloudVars
  <2>2. NotStaged \in StagedImage /\ ~NotStaged.verified
    BY DEF NotStaged, StagedImage
  <2> QED  BY <2>1, <2>2 DEF ImageInv, VerifiedWasUploaded, UploadedAs
<1>5. CASE \/ AgentStarts \/ CrashLogShipped \/ RoundBegins \/ AgentFetched \/ WriteAgent
           \/ RenameAgent \/ ReportRound \/ AgentExits \/ AgentCrashes \/ RejectionLogged
           \/ LogRotates \/ Judging \/ Publish \/ HalfHour \/ ConfigChanges \/ UNCHANGED upkeepVars
  BY <1>5, ImagesAlone DEF ImageInv, VerifiedWasUploaded, UploadedAs
<1> QED
  BY <1>1, <1>2, <1>3, <1>4, <1>5, Zenon DEF UpkeepNext, AgentSteps, UpdateRound, Faults

-----------------------------------------------------------------------------
\* What the cloud and its customers do leaves the agent alone, but for what is published.
LEMMA AgentAlone ==
    ASSUME CloudCalls \/ Judging \/ HalfHour \/ ConfigChanges \/ Publish \/ UNCHANGED upkeepVars
    PROVE  /\ UNCHANGED <<agentVars, roundVars, crashVars>>
           /\ published' = published \/ Publish
<1>1. CASE CloudCalls
  BY <1>1 DEF CloudCalls, Upload, DeleteFirmware, BoxAlone
<1>2. CASE Judging \/ HalfHour \/ Publish
  BY <1>2 DEF Judging, MarkKnownGood, ResetBaseline, MuteReports, HalfHour, Publish, BoxAlone
<1>3. CASE ConfigChanges
  BY <1>3 DEF ConfigChanges
<1>4. CASE UNCHANGED upkeepVars
  BY <1>4 DEF upkeepVars
<1> QED  BY <1>1, <1>2, <1>3, <1>4

\* The agent ends: nothing waits to be renamed any more.
LEMMA EndsStep ==
    ASSUME AgentInv, AgentExits \/ AgentCrashes \/ PowerFails
    PROVE  AgentInv'
<1>1. /\ running' = 0 /\ round' = "none" /\ fetched' = 0 /\ UNCHANGED <<published, agentFile>>
  BY DEF AgentExits, AgentCrashes, PowerFails, Ends
<1>2. leaving' \in BOOLEAN /\ ticking' \in BOOLEAN
  BY Zenon DEF AgentExits, AgentCrashes, PowerFails, Ends
<1>3. newFile' \in {newFile, Torn}
  BY DEF AgentExits, AgentCrashes, PowerFails
<1> QED  BY <1>1, <1>2, <1>3 DEF AgentInv, Steps

\* The agent goes on with its round.
LEMMA AgentGoesOn ==
    ASSUME AgentInv,
           \/ AgentStarts \/ CrashLogShipped \/ RoundBegins \/ UpdateRound \/ ReportRound
           \/ RejectionLogged \/ LogRotates
    PROVE  AgentInv'
<1>1. ASSUME UNCHANGED <<published, agentFile, newFile, fetched>>,
             running' \in {running, agentFile}, leaving' = leaving,
             ticking' = ticking \/ ticking' = TRUE,
             round' \in Steps, round' \notin {"write", "rename"} \/ round' = round
      PROVE  AgentInv'
  <2>1. ticking' \in BOOLEAN
    BY <1>1, Zenon DEF AgentInv
  <2>2. leaving' \in BOOLEAN
    BY <1>1, Zenon DEF AgentInv
  <2>3. running' \in {0} \cup AgentEditions
    BY <1>1 DEF AgentInv
  <2> QED  BY <1>1, <2>1, <2>2, <2>3 DEF AgentInv
<1>2. CASE AgentStarts \/ CrashLogShipped \/ RoundBegins
  BY <1>1, <1>2 DEF AgentStarts, CrashLogShipped, RoundBegins, To, Unanswered, agentVars, Steps
<1>3. CASE ListAnswered \/ Download
  BY <1>1, <1>3 DEF ListAnswered, Download, To, Unanswered, agentVars, Steps
<1>4. CASE SnapshotSent \/ IntegrityReported
  BY <1>1, <1>4 DEF SnapshotSent, IntegrityReported, To, Unanswered, agentVars, Steps
<1>5. CASE RouteChecked
  BY <1>1, <1>5 DEF RouteChecked, To, agentVars, Steps
<1>6. CASE RejectionLogged \/ LogRotates
  BY <1>1, <1>6 DEF RejectionLogged, LogRotates, agentVars, roundVars, AgentInv
<1>7. CASE AgentFetched
  <2>1. /\ UNCHANGED <<published, agentFile, newFile, running, leaving, ticking>>
        /\ fetched' \in {fetched, published} /\ round' \in {"snapshot", "write", "stalled"}
        /\ round' = "write" => fetched' = published
    BY <1>7 DEF AgentFetched, To, Unanswered
  <2> QED  BY <2>1 DEF AgentInv, Steps
<1>8. CASE WriteAgent
  <2>1. /\ UNCHANGED <<published, agentFile, fetched, running, leaving, ticking>>
        /\ \/ newFile' = fetched /\ round' = "rename" /\ round = "write"
           \/ newFile' = Torn /\ round' = "snapshot"
    BY <1>8 DEF WriteAgent, To
  <2> QED  BY <2>1 DEF AgentInv, Steps
<1>9. CASE RenameAgent
  <2>1. /\ UNCHANGED <<published, fetched, running, ticking>> /\ round' = "snapshot"
        /\ agentFile' = newFile /\ newFile' = 0 /\ round = "rename"
    BY <1>9 DEF RenameAgent, To
  <2>2. leaving' \in BOOLEAN
    BY <1>9, Zenon DEF RenameAgent
  <2> QED  BY <2>1, <2>2 DEF AgentInv, Steps
<1> QED
  BY <1>2, <1>3, <1>4, <1>5, <1>6, <1>7, <1>8, <1>9 DEF UpdateRound, ReportRound

\* No step tears the agent.
LEMMA AgentStep == ASSUME AgentInv, UpkeepNext \/ UNCHANGED upkeepVars PROVE AgentInv'
<1>1. CASE CloudCalls \/ Judging \/ HalfHour \/ ConfigChanges \/ Publish \/ UNCHANGED upkeepVars
  <2>1. /\ UNCHANGED <<agentVars, roundVars>>
        /\ published' = published \/ Publish
    BY <1>1, AgentAlone
  <2>2. published' \in AgentEditions
    BY <2>1, UpkeepAssumption DEF Publish, AgentInv, AgentEditions
  <2> QED  BY <2>1, <2>2 DEF AgentInv, agentVars, roundVars
<1>2. CASE AgentExits \/ AgentCrashes \/ PowerFails
  BY <1>2, EndsStep
<1>3. CASE \/ AgentStarts \/ CrashLogShipped \/ RoundBegins \/ UpdateRound \/ ReportRound
           \/ RejectionLogged \/ LogRotates
  BY <1>3, AgentGoesOn
<1> QED  BY <1>1, <1>2, <1>3, Zenon DEF UpkeepNext, AgentSteps, Faults

-----------------------------------------------------------------------------
\* A larger set has more newer entries.
LEMMA MoreNewer ==
    ASSUME NEW k \in Nat, NEW T, T \subseteq 1 .. k, NEW S, S \subseteq T, NEW n, NEW o,
           \A m \in S : m > o => m > n,
           Cardinality(NewerThan(S, o)) >= ShippedEntries
    PROVE  Cardinality(NewerThan(T, n)) >= ShippedEntries
<1>1. IsFiniteSet(1 .. k)
  BY FS_Interval
<1>2. NewerThan(T, n) \subseteq 1 .. k /\ NewerThan(S, o) \subseteq NewerThan(T, n)
  BY DEF NewerThan
<1>3. IsFiniteSet(NewerThan(T, n))
  BY <1>1, <1>2, FS_Subset
<1>4. /\ IsFiniteSet(NewerThan(S, o))
      /\ Cardinality(NewerThan(S, o)) <= Cardinality(NewerThan(T, n))
  BY <1>2, <1>3, FS_Subset
<1>5. Cardinality(NewerThan(S, o)) \in Nat /\ Cardinality(NewerThan(T, n)) \in Nat
  BY <1>3, <1>4, FS_CardinalityType
<1> QED  BY <1>4, <1>5, UpkeepAssumption

\* What does not fit in the end of the log is behind as many entries as fit: the newest of what
\* does not fit has only entries behind it that do.
LEMMA EndOfLogFull ==
    ASSUME entries \in Nat, crashLog \subseteq 1 .. entries, NEW n \in crashLog, n \notin EndOfLog
    PROVE  Cardinality(NewerThan(EndOfLog, n)) >= ShippedEntries
<1> DEFINE from(x) == {m \in crashLog : m >= x}
           unfit == crashLog \ EndOfLog
           places == {entries - x : x \in unfit}
<1>1. EndOfLog = {x \in crashLog : Cardinality(from(x)) <= ShippedEntries}
  BY DEF EndOfLog
<1>2. ASSUME NEW x \in crashLog PROVE IsFiniteSet(from(x)) /\ Cardinality(from(x)) \in Nat
  <2>1. IsFiniteSet(1 .. entries)
    BY FS_Interval
  <2>2. from(x) \subseteq 1 .. entries
    OBVIOUS
  <2> QED  BY <2>1, <2>2, FS_Subset, FS_CardinalityType
<1>3. places \in SUBSET Nat /\ places # {}
  <2>1. \A x \in unfit : entries - x \in Nat
    OBVIOUS
  <2> QED  BY <2>1
<1>4. Min(places) \in places /\ \A p \in places : Min(places) <= p
  BY <1>3, LeastOf
<1>5. PICK last \in unfit : \A x \in unfit : x <= last
  <2>1. PICK last \in unfit : entries - last = Min(places)
    BY <1>4
  <2>2. ASSUME NEW x \in unfit PROVE x <= last
    <3>1. entries - last <= entries - x
      BY <1>4, <2>1
    <3>2. x \in Int /\ last \in Int
      OBVIOUS
    <3> HIDE DEF unfit, places
    <3> QED  BY <3>1, <3>2
  <2> QED  BY <2>2
<1>6. last \in crashLog /\ n <= last /\ last \in Int /\ n \in Int
  BY <1>5
<1>7. Cardinality(from(last)) > ShippedEntries
  BY <1>1, <1>2, <1>5, <1>6, UpkeepAssumption
<1>8. NewerThan(EndOfLog, last) = from(last) \ {last}
  <2>1. \A m \in crashLog : m \in Int
    OBVIOUS
  <2>2. \A m \in crashLog : m > last => m \in EndOfLog
    BY <1>5, <1>6, <2>1
  <2>3. NewerThan(EndOfLog, last) = {m \in crashLog : m > last}
    BY <1>1, <2>2 DEF NewerThan
  <2>4. \A m \in crashLog : m > last <=> m >= last /\ m # last
    BY <1>6, <2>1
  <2> QED  BY <2>3, <2>4
<1>9. Cardinality(from(last) \ {last}) = Cardinality(from(last)) - 1
  <2>1. last \in from(last)
    BY <1>6
  <2>2. IsFiniteSet(from(last))
    BY <1>2, <1>6
  <2> HIDE DEF from
  <2> QED  BY <2>1, <2>2, FS_RemoveElement
<1>10. Cardinality(NewerThan(EndOfLog, last)) >= ShippedEntries
  <2>1. Cardinality(from(last)) \in Nat
    BY <1>2, <1>6
  <2> HIDE DEF from
  <2> QED  BY <1>7, <1>8, <1>9, <2>1, UpkeepAssumption
<1>11. EndOfLog \subseteq 1 .. entries
  BY <1>1
<1>12. \A m \in EndOfLog : m > last => m > n
  BY <1>6, <1>11
<1> QED  BY <1>10, <1>11, <1>12, MoreNewer

\* The log is read when the agent starts, is shipped, and is emptied when the cloud has answered.
LEMMA ShippedStep ==
    ASSUME CrashInv, CrashLogShipped
    PROVE  CrashInv'
<1>1. UNCHANGED <<entries, crashes, rotated>> /\ shipping' = {} /\ round = "crashlog" /\ round' # "crashlog"
  BY DEF CrashLogShipped, To, Unanswered
<1>2. \/ UNCHANGED <<crashLog, received>>
      \/ received' = received \cup shipping /\ crashLog' \in {crashLog, {}}
  BY DEF CrashLogShipped, CrashComes
<1>3. received' \subseteq 1 .. entries /\ crashLog' \subseteq crashLog /\ received \subseteq received'
      /\ entries \in Nat
  BY <1>2 DEF CrashInv
<1>4. ASSUME NEW n \in crashes
      PROVE  \/ n \in received' \cup crashLog' \cup rotated'
             \/ Cardinality(NewerThan(received', n)) >= ShippedEntries
  <2>1. CASE n \in received \cup rotated
    BY <1>1, <1>3, <2>1
  <2>2. CASE Cardinality(NewerThan(received, n)) >= ShippedEntries
    BY <1>3, <2>2, MoreNewer
  <2>3. CASE n \in crashLog /\ n \notin crashLog'
    <3>1. received' = received \cup shipping
      BY <1>2, <2>3
    <3>2. n \in shipping \/ Cardinality(NewerThan(shipping, n)) >= ShippedEntries
      BY <1>1, <2>3 DEF CrashInv
    <3>3. CASE Cardinality(NewerThan(shipping, n)) >= ShippedEntries
      BY <1>3, <3>1, <3>3, MoreNewer
    <3> QED  BY <3>1, <3>2, <3>3
  <2> QED  BY <2>1, <2>2, <2>3 DEF CrashInv
<1> QED  BY <1>1, <1>3, <1>4 DEF CrashInv

\* No step loses a crash that newer ones do not stand for.
LEMMA CrashStep == ASSUME CrashInv, UpkeepNext \/ UNCHANGED upkeepVars PROVE CrashInv'
<1>1. CASE CrashLogShipped
  BY <1>1, ShippedStep
<1>2. CASE AgentStarts
  <2>1. UNCHANGED <<crashLog, rotated, entries, crashes, received>> /\ shipping' = EndOfLog
    BY <1>2 DEF AgentStarts
  <2>2. EndOfLog \subseteq crashLog
    BY DEF EndOfLog
  <2>3. \A n \in crashes \cap crashLog :
           n \in EndOfLog \/ Cardinality(NewerThan(EndOfLog, n)) >= ShippedEntries
    BY EndOfLogFull DEF CrashInv
  <2> QED  BY <2>1, <2>2, <2>3 DEF CrashInv
<1>3. CASE AgentCrashes \/ RejectionLogged
  <2>1. /\ UNCHANGED <<shipping, received>> /\ entries' = entries + 1
        /\ crashLog \subseteq crashLog' /\ rotated \subseteq rotated'
        /\ crashLog' \cup rotated' = crashLog \cup rotated \cup {entries'}
        /\ crashLog' \subseteq crashLog \cup {entries'}
        /\ \/ crashes' = crashes \cup {entries'} /\ round' = "none"
           \/ crashes' = crashes /\ round' = round
    BY <1>3 DEF AgentCrashes, RejectionLogged, Logged, Ends, roundVars
  <2>2. entries' \in Nat /\ entries' \notin crashes /\ 1 .. entries \subseteq 1 .. entries'
        /\ entries' \in 1 .. entries'
    BY <2>1 DEF CrashInv
  <2> QED  BY <2>1, <2>2 DEF CrashInv
<1>4. ASSUME UNCHANGED crashVars, round' # "crashlog" \/ round' = round
      PROVE  CrashInv'
  BY <1>4 DEF CrashInv, crashVars
<1>5. CASE CloudCalls \/ Judging \/ HalfHour \/ ConfigChanges \/ Publish \/ UNCHANGED upkeepVars
  BY <1>4, <1>5, AgentAlone DEF roundVars
<1>6. CASE PowerFails \/ AgentExits \/ RoundBegins
  BY <1>4, <1>6 DEF PowerFails, AgentExits, RoundBegins, Ends, To
<1>7. CASE UpdateRound
  BY <1>4, <1>7 DEF UpdateRound, ListAnswered, Download, AgentFetched, WriteAgent, RenameAgent, To,
                    Unanswered
<1>8. CASE ReportRound
  BY <1>4, <1>8 DEF ReportRound, SnapshotSent, IntegrityReported, RouteChecked, To, Unanswered
<1>9. CASE LogRotates
  <2>1. /\ UNCHANGED <<shipping, entries, crashes, received>> /\ crashLog' = {}
        /\ rotated' = rotated \cup crashLog
    BY <1>9 DEF LogRotates
  <2> QED  BY <2>1 DEF CrashInv
<1> QED
  BY <1>1, <1>2, <1>3, <1>5, <1>6, <1>7, <1>8, <1>9, Zenon DEF UpkeepNext, AgentSteps, Faults

-----------------------------------------------------------------------------
\* Alarms are of the kinds there are.
LEMMA AlarmStep ==
    ASSUME ReportInv, NEW kind \in Reports, Alarm(kind) \/ NoAlarm
    PROVE  recently' \cup muted' \cup warned' \subseteq Reports
  BY DEF Alarm, NoAlarm, alarmVars, ReportInv

\* The newest snapshots are kept.
LEMMA SnapshotStep == ASSUME ReportInv, SnapshotComes
    PROVE  configsSeen' \in Seq(Configuration) /\ Len(configsSeen') <= KeptReports
<1> DEFINE all == <<config>> \o configsSeen
           two == {Len(all), KeptReports}
           k == Min(two)
<1>1. all \in Seq(Configuration) /\ Len(all) \in Nat
  BY DEF ReportInv
<1>2. configsSeen' = SubSeq(all, 1, k)
  BY Zenon DEF SnapshotComes
<1> HIDE DEF all
<1>3. two \in SUBSET Nat /\ two # {}
  BY <1>1, UpkeepAssumption
<1>4. k \in two /\ \A j \in two : k <= j
  BY <1>3, LeastOf
<1> HIDE DEF k
<1>5. k \in Nat /\ k <= Len(all) /\ k <= KeptReports
  BY <1>1, <1>4, UpkeepAssumption
<1> QED  BY <1>1, <1>2, <1>5

\* Reports keep their shape.
LEMMA ReportStep ==
    ASSUME ReportInv, AgentInv, UpkeepNext \/ UNCHANGED upkeepVars
    PROVE  ReportInv'
<1>1. CASE SnapshotSent
  <2>1. /\ UNCHANGED <<config, baseline>>
        /\ (SnapshotComes \/ (NoAlarm /\ UNCHANGED configsSeen))
    BY <1>1 DEF SnapshotSent
  <2>2. configsSeen' \in Seq(Configuration) /\ Len(configsSeen') <= KeptReports
    BY <2>1, SnapshotStep DEF ReportInv
  <2>3. recently' \cup muted' \cup warned' \subseteq Reports
    BY <2>1, AlarmStep DEF SnapshotComes, Reports
  <2> QED  BY <2>1, <2>2, <2>3 DEF ReportInv
<1>2. CASE IntegrityReported
  <2>1. UNCHANGED <<config, configsSeen>> /\ (ReportComes(agentFile) \/ (NoAlarm /\ UNCHANGED baseline))
    BY <1>2 DEF IntegrityReported, configVars
  <2>2. baseline' \in {0} \cup AgentEditions
    BY <2>1 DEF ReportComes, ReportInv, AgentInv
  <2>3. recently' \cup muted' \cup warned' \subseteq Reports
    BY <2>1, AlarmStep DEF ReportComes, Reports
  <2> QED  BY <2>1, <2>2, <2>3 DEF ReportInv
<1>3. CASE RouteChecked
  <2>1. UNCHANGED <<config, configsSeen, baseline>> /\ (Alarm("way") \/ NoAlarm)
    BY <1>3 DEF RouteChecked, RouteComes, configVars
  <2>2. recently' \cup muted' \cup warned' \subseteq Reports
    BY <2>1, AlarmStep DEF Reports
  <2> QED  BY <2>1, <2>2 DEF ReportInv
<1>4. CASE HalfHour \/ Judging
  <2>1. UNCHANGED <<config, configsSeen>>
    BY <1>4 DEF HalfHour, Judging, MarkKnownGood, ResetBaseline, MuteReports, BoxAlone
  <2>2. baseline' \in {0, baseline}
    BY <1>4 DEF HalfHour, Judging, MarkKnownGood, ResetBaseline, MuteReports
  <2>3. recently' \subseteq recently /\ warned' \subseteq warned /\ muted' \subseteq muted \cup Reports
    BY <1>4 DEF HalfHour, Judging, MarkKnownGood, ResetBaseline, MuteReports, alarmVars
  <2> QED  BY <2>1, <2>2, <2>3 DEF ReportInv
<1>5. CASE ConfigChanges
  <2>1. UNCHANGED <<configsSeen, baseline, alarmVars>>
    BY <1>5 DEF ConfigChanges
  <2>2. config' \in Configuration
    BY <1>5 DEF ConfigChanges, ReportInv, Configuration
  <2> QED  BY <2>1, <2>2 DEF ReportInv, alarmVars
<1>6. ASSUME UNCHANGED <<configVars, alarmVars, baseline>> PROVE ReportInv'
  BY <1>6 DEF ReportInv, configVars, alarmVars
<1>7. CASE CloudCalls
  <2>1. UNCHANGED <<configVars, alarmVars, baseline>>
    BY <1>7 DEF CloudCalls, Upload, DeleteFirmware, BoxAlone, configVars
  <2> QED  BY <1>6, <2>1
<1>8. CASE Publish
  BY <1>6, <1>8 DEF Publish, BoxAlone, configVars
<1>9. CASE AgentStarts \/ CrashLogShipped \/ RoundBegins
  BY <1>6, <1>9 DEF AgentStarts, CrashLogShipped, RoundBegins
<1>10. CASE UpdateRound
  BY <1>6, <1>10 DEF UpdateRound, ListAnswered, Download, AgentFetched, WriteAgent, RenameAgent
<1>11. CASE AgentExits \/ Faults
  BY <1>6, <1>11 DEF AgentExits, Faults, AgentCrashes, RejectionLogged, LogRotates, PowerFails
<1>12. CASE UNCHANGED upkeepVars
  BY <1>6, <1>12 DEF upkeepVars
<1> QED
  BY <1>1, <1>2, <1>3, <1>4, <1>5, <1>7, <1>8, <1>9, <1>10, <1>11, <1>12, Zenon
  DEF UpkeepNext, AgentSteps, ReportRound

\* Every step keeps it.
LEMMA BoxStep == ASSUME BoxInv, UpkeepNext \/ UNCHANGED upkeepVars PROVE BoxInv'
  BY ImageStep, AgentStep, CrashStep, ReportStep DEF BoxInv

\* What is promised follows.
LEMMA BoxSound == BoxInv => UpkeepTypeOK /\ VerifiedWasUploaded /\ AgentWhole /\ CrashesKept
<1> SUFFICES ASSUME BoxInv
             PROVE  UpkeepTypeOK /\ VerifiedWasUploaded /\ AgentWhole /\ CrashesKept
  OBVIOUS
<1>1. UpkeepTypeOK
  <2>1. leaving \in BOOLEAN /\ ticking \in BOOLEAN
    BY Zenon DEF BoxInv, AgentInv
  <2> QED
    BY <2>1 DEF BoxInv, ImageInv, AgentInv, CrashInv, ReportInv, UpkeepTypeOK, Firmware
<1>2. CrashesKept
  BY Zenon DEF BoxInv, CrashInv, CrashesKept, NewerThan
<1> QED  BY <1>1, <1>2 DEF BoxInv, ImageInv, AgentInv, AgentWhole

-----------------------------------------------------------------------------
CareInv == OvpnInv /\ ListInv /\ WatchInv /\ BoxInv

\* One of the four takes a step and the others none.
LEMMA CareStep == ASSUME CareInv, [CareNext]_careVars PROVE CareInv'
<1>1. CASE OpenVpn(OvpnNext)
  <2>1. OvpnNext /\ UNCHANGED listVars /\ UNCHANGED outageVars /\ UNCHANGED upkeepVars
    BY <1>1 DEF OpenVpn
  <2> QED  BY <2>1, OvpnStep, ListStep, WatchStep, BoxStep DEF CareInv
<1>2. CASE Lists("feed", FeedNext) \/ Lists("blocklists", BlocklistNext) \/ Lists("targets", TargetNext)
  <2>1. /\ FeedNext \/ BlocklistNext \/ TargetNext
        /\ UNCHANGED ovpnVars /\ UNCHANGED outageVars /\ UNCHANGED upkeepVars
    BY <1>2 DEF Lists
  <2> QED  BY <2>1, OvpnStep, ListStep, WatchStep, BoxStep DEF CareInv
<1>3. CASE \/ Watching("fleet", Unit \/ RestartWatchers \/ Watch \/ FleetNext)
           \/ Watching("home", Unit \/ RestartWatchers \/ Watch \/ HomeNext)
  <2>1. /\ OutagesNext
        /\ UNCHANGED ovpnVars /\ UNCHANGED listVars /\ UNCHANGED upkeepVars
    BY <1>3 DEF Watching, OutagesNext
  <2> QED  BY <2>1, OvpnStep, ListStep, WatchStep, BoxStep DEF CareInv
<1>4. CASE \/ Upkeep("images", AgentSteps \/ PowerFails \/ CloudCalls)
           \/ Upkeep("agent", AgentSteps \/ AgentExits \/ AgentCrashes \/ PowerFails \/ Publish
                                 \/ HalfHour \/ ResetBaseline \/ MuteReports("integrity")
                                 \/ ImageOffered)
           \/ Upkeep("crashes", AgentSteps \/ Faults)
           \/ Upkeep("reports", AgentSteps \/ PowerFails \/ HalfHour \/ ConfigChanges
                                   \/ MarkKnownGood \/ MuteReports("drift"))
  <2>1. UNCHANGED ovpnVars /\ UNCHANGED listVars /\ UNCHANGED outageVars
    BY <1>4 DEF Upkeep
  <2>2. "integrity" \in Reports /\ "drift" \in Reports
    BY DEF Reports
  <2>3. UpkeepNext
    <3>1. ImageOffered => CloudCalls
      BY DEF ImageOffered, CloudCalls
    <3> QED  BY <1>4, <2>2, <3>1, Zenon DEF Upkeep, UpkeepNext, Judging, Faults
  <2> QED  BY <2>1, <2>3, OvpnStep, ListStep, WatchStep, BoxStep DEF CareInv
<1>5. CASE UNCHANGED careVars
  <2>1. /\ UNCHANGED ovpnVars /\ UNCHANGED listVars /\ UNCHANGED outageVars
        /\ UNCHANGED upkeepVars
    BY <1>5 DEF careVars
  <2> QED  BY <2>1, OvpnStep, ListStep, WatchStep, BoxStep DEF CareInv
<1> QED  BY <1>1, <1>2, <1>3, <1>4, <1>5, Zenon DEF CareNext

\* What is on record is so: a verified image was uploaded, the agent is whole, sending loses no
\* crash (one that the disk did not take, or that logrotate moved away before it was sent, is lost),
\* one incident is open and owners are told, clients that are listed connect, changes add up and
\* what was deleted stays so.  Of openvpn.js, agent.js and server.js, for any number of clients,
\* lists, boxes and images, and any number of calls, faults and restarts.
THEOREM RecordsCorrect == CareSpec => []RecordsTrue
<1>1. CareInit => CareInv
  BY OvpnStarts, ListStarts, WatchStarts, BoxStarts DEF CareInit, CareInv
<1>2. CareInv /\ [CareNext]_careVars => CareInv'
  BY CareStep
<1>3. CareInv => RecordsTrue
  BY OvpnSound, ListSound, WatchSound, BoxSound DEF CareInv, RecordsTrue
<1> QED  BY <1>1, <1>2, <1>3, PTL DEF CareSpec
=============================================================================
