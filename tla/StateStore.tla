----------------------------- MODULE StateStore -----------------------------
(***************************************************************************)
(* The state of the cloud and its copies on disk (server.js).              *)
(*                                                                         *)
(* One object in memory holds everything.  Handlers change it and either   *)
(* call saveState or leave that to the timer of thirty seconds; saveState  *)
(* rewrites the state file in place.  At a start the file is read back,    *)
(* and a file that cannot be parsed counts as none.  Apart from it there   *)
(* are a backup file per day, rewritten five seconds after each start, and *)
(* the snapshots of the administrators.  deploy-update.sh puts a copy of   *)
(* the state file into the directory of the daily backups, under a name    *)
(* that the rotation of those counts and sorts behind every date.          *)
(*                                                                         *)
(* The contents of the state are the set of the writes made to it.  A      *)
(* state file that was cut short is the empty set, for that is what it is  *)
(* read as.  A daily backup exists if its day is in the domain of backup.  *)
(***************************************************************************)
EXTENDS Naturals, FiniteSets

CONSTANTS
    Writes,         \* what handlers ever write
    LastDay,        \* the days are 1..LastDay: a bound
    Keep,           \* backup files kept (14)
    CutFile,        \* what a backup file holds that was cut short
    MaxCopies,      \* copies made by updates that are on disk: a bound
    Events,         \* what else may happen
    MaxSnaps        \* snapshot files ever made: a bound

ASSUME StateStoreAssumption ==
    /\ LastDay \in Nat \ {0}
    /\ Keep \in Nat \ {0}
    /\ \A W \in SUBSET Writes : CutFile # W
    /\ MaxCopies \in Nat
    /\ Events \subseteq {"kill", "kill_in_save", "disk_full", "restore", "upload", "reset"}
    /\ MaxSnaps \in Nat

VARIABLES
    up,             \* the process
    saving,         \* saveState is between opening and closing the file
    mem,            \* state
    disk,           \* what loadState would read from the state file
    day,            \* the date
    due,            \* a timer of dailyBackup is about to fire
    backup,         \* mes-cloud-<date>.json
    copies,         \* how many mes-cloud-pre-update-<time>.json there are
    snaps,          \* the contents of the snapshot files
    saved,          \* history: writes that a completed save had in it and
                    \* that nobody took back since
    atStop,         \* history: what was in memory at the last SIGTERM
    torn            \* history: a save was cut short, and no later one has
                    \* made up for it

history == <<saved, atStop, torn>>
vars == <<up, saving, mem, disk, day, due, backup, copies, snaps, saved, atStop,
          torn>>

Days == 1..LastDay

TypeOK ==
    /\ up \in {"running", "stopping", "down"}
    /\ saving \in BOOLEAN
    /\ mem \subseteq Writes
    /\ disk \subseteq Writes
    /\ day \in Days
    /\ due \in BOOLEAN
    /\ DOMAIN backup \subseteq Days
    /\ backup \in [DOMAIN backup -> {CutFile} \cup SUBSET Writes]
    /\ copies \in Nat
    /\ snaps \subseteq SUBSET Writes
    /\ saved \subseteq Writes
    /\ atStop \subseteq Writes
    /\ torn \in BOOLEAN

\* The first start, with an empty state file.
Init ==
    /\ up = "running"
    /\ saving = FALSE
    /\ mem = {}
    /\ disk = {}
    /\ day = 1
    /\ due = TRUE
    /\ backup = [d \in {} |-> {}]
    /\ copies = 0
    /\ snaps = {}
    /\ saved = {}
    /\ atStop = {}
    /\ torn = FALSE

-----------------------------------------------------------------------------
(* Handlers and timers, one at a time.                                     *)

Free == up # "down" /\ ~saving

\* saveState opens the file, which empties it ...
BeginSave ==
    /\ saving' = TRUE
    /\ disk' = {}

\* The JSON that is written.  Without the replacer the members of a Set, such
\* as a group's, were not in it.
Serialised_NoSets == mem \ {CHOOSE w \in Writes : TRUE}
Serialised == mem

\* ... and writes it.
FinishSave ==
    /\ saving
    /\ saving' = FALSE
    /\ disk' = Serialised
    /\ saved' = saved \cup mem
    /\ torn' = (torn /\ ~(saved \subseteq mem))
    /\ UNCHANGED <<up, mem, day, due, backup, copies, snaps, atStop>>

\* The write fails; the error is logged and the process goes on.
SaveFails ==
    /\ "disk_full" \in Events
    /\ saving
    /\ saving' = FALSE
    /\ torn' = TRUE
    /\ UNCHANGED <<up, mem, disk, day, due, backup, copies, snaps, saved, atStop>>

\* A handler, also on a connection that outlives SIGTERM, with or without a
\* save of its own.
Write(w) ==
    /\ Free
    /\ w \notin mem
    /\ mem' = mem \cup {w}
    /\ BeginSave \/ UNCHANGED <<saving, disk>>
    /\ UNCHANGED <<up, day, due, backup, copies, snaps, history>>

PeriodicSave ==
    /\ Free
    /\ BeginSave
    /\ UNCHANGED <<up, mem, day, due, backup, copies, snaps, history>>

Newer(b, d) == {e \in DOMAIN b : e > d}

\* The dated files that are left when the last Keep files of the directory are
\* kept, of which k are copies made by updates: those come last, so that the
\* dated files go first.
Rotated_OneLess(b, k) ==
    [d \in {e \in DOMAIN b : Cardinality(Newer(b, e)) + k < Keep - 1} |-> b[d]]
Rotated(b, k) ==
    [d \in {e \in DOMAIN b : Cardinality(Newer(b, e)) + k < Keep} |-> b[d]]

\* The file of the date is written over.
DayFile(v) == [d \in DOMAIN backup \cup {day} |-> IF d = day THEN v ELSE backup[d]]

\* dailyBackup.  (No unlink fails.)
DailyBackup ==
    /\ Free
    /\ due
    /\ due' = FALSE
    /\ backup' = Rotated(DayFile(mem), copies)
    /\ copies' = IF copies < Keep THEN copies ELSE Keep
    /\ UNCHANGED <<up, saving, mem, disk, day, snaps, history>>

\* A dailyBackup that does not get to the rotation: the file is cut short, or
\* it is whole and the directory cannot be read.
Unrotated == {DayFile(CutFile), DayFile(mem)}

\* The error is logged, and the day goes without a backup, or with a torn one
\* in the place of the one that an earlier start had made.
BackupFails ==
    /\ "disk_full" \in Events
    /\ Free
    /\ due
    /\ due' = FALSE
    /\ backup' \in {backup} \cup Unrotated
    /\ UNCHANGED <<up, saving, mem, disk, day, copies, snaps, history>>

NextDay ==
    /\ day < LastDay
    /\ ~saving
    /\ day' = day + 1
    /\ due' = (up # "down")
    /\ UNCHANGED <<up, saving, mem, disk, backup, copies, snaps, history>>

-----------------------------------------------------------------------------
(* Administrators.                                                         *)

\* POST /admin/api/snapshots/create.
CreateSnapshot ==
    /\ Free
    /\ Cardinality(snaps) < MaxSnaps
    /\ snaps' = snaps \cup {mem}
    /\ UNCHANGED <<up, saving, mem, disk, day, due, backup, copies, history>>

\* The snapshot a restore makes first.
Safety_AfterReplacing(s) == s
Safety(s) == mem

\* The history forgets what is replaced on purpose.
TakenBack ==
    /\ saved' = saved \cap mem'
    /\ atStop' = atStop \cap mem'
    /\ UNCHANGED torn

\* POST /admin/api/snapshots/restore.
RestoreSnapshot ==
    /\ "restore" \in Events
    /\ Free
    /\ \E s \in snaps :
          /\ Cardinality(snaps \cup {mem}) <= MaxSnaps
          /\ snaps' = snaps \cup {Safety(s)}
          /\ mem' = s
    /\ BeginSave
    /\ TakenBack
    /\ UNCHANGED <<up, day, due, backup, copies>>

\* POST /admin/api/restore with a daily backup.  A torn one cannot be parsed,
\* and an update's copy is not in the form of a backup.
RestoreUpload ==
    /\ "upload" \in Events
    /\ Free
    /\ \E d \in DOMAIN backup : backup[d] # CutFile /\ mem' = backup[d]
    /\ BeginSave
    /\ TakenBack
    /\ UNCHANGED <<up, day, due, backup, copies, snaps>>

\* POST /admin/api/reset-state; the administrators and the configuration it
\* keeps are not among the writes.
ResetState ==
    /\ "reset" \in Events
    /\ Free
    /\ mem' = {}
    /\ BeginSave
    /\ TakenBack
    /\ UNCHANGED <<up, day, due, backup, copies, snaps>>

-----------------------------------------------------------------------------
(* Stopping and starting.                                                  *)

\* SIGTERM: save, stop listening, and exit when the connections are closed.
SavesOnStop_Not == UNCHANGED <<saving, disk>>
SavesOnStop == BeginSave

Sigterm ==
    /\ up = "running"
    /\ ~saving
    /\ up' = "stopping"
    /\ atStop' = mem
    /\ SavesOnStop
    /\ UNCHANGED <<mem, day, due, backup, copies, snaps, saved, torn>>

Down ==
    /\ up' = "down"
    /\ mem' = {}
    /\ saving' = FALSE
    /\ due' = FALSE
    /\ UNCHANGED <<disk, day, copies, snaps, saved>>

Exit ==
    /\ up = "stopping"
    /\ ~saving
    /\ Down
    /\ UNCHANGED <<backup, atStop, torn>>

\* SIGKILL, or the machine stops; in the middle of saveState the state file
\* stays torn, in the middle of dailyBackup the file of the day may.
Kill ==
    /\ up # "down"
    /\ IF saving THEN "kill_in_save" \in Events ELSE "kill" \in Events
    /\ Down
    /\ \/ backup' = backup
       \/ "kill_in_save" \in Events /\ ~saving /\ due /\ backup' \in Unrotated
    /\ atStop' = IF up = "stopping" THEN atStop ELSE {}
    /\ torn' = (torn \/ saving)

\* What a start reads: a file that cannot be parsed is an empty state, as a
\* missing one.
Loaded == disk

\* deploy-update.sh, which stops the container first, copies the state file, if
\* it can; then it starts the new code.
PreUpdateCopy ==
    /\ up = "down"
    /\ copies < MaxCopies
    /\ copies' = copies + 1
    /\ UNCHANGED <<up, saving, mem, disk, day, due, backup, snaps, history>>

Boot ==
    /\ up = "down"
    /\ up' = "running"
    /\ mem' = Loaded
    /\ due' = TRUE
    /\ atStop' = {}
    /\ UNCHANGED <<saving, disk, day, backup, copies, snaps, saved, torn>>

Next ==
    \/ \E w \in Writes : Write(w)
    \/ PeriodicSave \/ FinishSave \/ SaveFails
    \/ DailyBackup \/ BackupFails \/ NextDay
    \/ CreateSnapshot \/ RestoreSnapshot \/ RestoreUpload \/ ResetState
    \/ Sigterm \/ Exit \/ Kill \/ PreUpdateCopy \/ Boot

Spec == Init /\ [][Next]_vars

-----------------------------------------------------------------------------
(* Properties.                                                             *)

\* What the cloud has, or would have after a start.
Held == IF up = "down" THEN disk ELSE mem

\* A write that was saved is there for good, across stops, kills and failed
\* saves that a later one made up for, until it is taken back on purpose.
\* (The file is rewritten in place: a kill inside a save loses everything.)
SavedSurvive == torn \/ saved \subseteq Held

\* After SIGTERM everything that was in memory is read back at the next start,
\* also what no handler had saved, if the last save was not cut short.
StopSaves == up = "down" /\ ~torn => atStop \subseteq disk

\* The inductive invariant: between saves the file holds what was saved, and
\* what was there at a SIGTERM.
IndInv ==
    /\ TypeOK
    /\ SavedSurvive
    /\ StopSaves
    /\ saving => up # "down"
    /\ ~saving /\ ~torn => saved \subseteq disk
    /\ up = "stopping" => /\ atStop \subseteq mem
                          /\ ~saving /\ ~torn => atStop \subseteq disk

\* The backup of a past day is only given up to rotation: whatever fails, it
\* stays as it was until Keep newer files are there.  Updates' copies count as
\* newer, so that after Keep updates there need not be one dated backup.
PastBackupsKept ==
    [][\A d \in DOMAIN backup :
         \/ d = day
         \/ d \in DOMAIN backup' /\ backup'[d] = backup[d]
         \/ Cardinality(Newer(backup', d)) + copies' >= Keep]_vars

\* "So you can roll back the rollback": whatever the running cloud loses is in
\* a snapshot, except by an uploaded backup or a reset, which take none.
RollbackUndoable ==
    [][up # "down" /\ up' # "down" /\ ~(mem \subseteq mem')
         => mem \in snaps' \/ RestoreUpload \/ ResetState]_vars

=============================================================================
