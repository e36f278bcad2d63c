---------------------------- MODULE Administration ----------------------------
(***************************************************************************)
(* Who may administer the cloud, and the log of what they did (server.js). *)
(*                                                                         *)
(* state.admins and state.api_keys give a request its role; the bootstrap  *)
(* admin of the environment is always super.  Every change is saved, then  *)
(* logged: the entry of the last change is in memory until the next save.  *)
(* The log is a hash chain, newest first; a hash is modelled as what it    *)
(* covers, the entry and everything before it, so two hashes are equal     *)
(* exactly when what they cover is.  A log that grows past MaxLog is cut   *)
(* to KeptLog entries and signed again.                                    *)
(*                                                                         *)
(* Somebody may edit the state file while the server is down.  Passwords,  *)
(* names, the allowlist of addresses and the scopes of a key, which        *)
(* nothing reads, are left out; resellers and support staff act like       *)
(* "read_only" here, except that a reseller may toggle a key.              *)
(***************************************************************************)
EXTENDS Integers, Sequences

CONSTANTS
    Admins, Keys,
    NoOne,
    MaxLog, KeptLog,        \* 5000 and 3000 in the code
    MaxActs, MaxCrashes     \* bounds

ASSUME AdminAssumption == MaxLog \in Nat /\ KeptLog \in 1 .. MaxLog /\ MaxCrashes \in Nat

VARIABLES
    admins,     \* state.admins
    keys,       \* state.api_keys
    keyMap,     \* state.api_keys is there: a reset takes the map itself away
    entries,    \* state.admin_actions, newest first
    checkDue,   \* the check of the log five seconds after the start is to come
    disk,       \* the state file
    acts, crashes,
    tamper      \* history: what became of the last edit of the log

adminVars == <<admins, keys, keyMap, entries, checkDue, disk, acts, crashes, tamper>>

Roles == {"super", "admin", "reseller", "read_only"}
NoAdmin == [role |-> NoOne, active |-> FALSE, totp |-> FALSE, pending |-> FALSE]
NoKey == [role |-> NoOne, active |-> FALSE]
Marker(n) == <<"chain repaired", n>>

AdminTypeOK ==
    /\ admins \in [Admins -> [role : Roles \cup {NoOne}, active : BOOLEAN, totp : BOOLEAN,
                              pending : BOOLEAN]]
    /\ keys \in [Keys -> [role : Roles \cup {NoOne}, active : BOOLEAN]]
    /\ Len(entries) <= MaxLog + MaxCrashes      \* the marker of a start may come on top
    /\ tamper \in {"none", "open", "marked", "absorbed"}

Saved(a, k, m, e, t) == [admins |-> a, keys |-> k, keyMap |-> m, entries |-> e, tamper |-> t]

AdminInit ==
    /\ admins = [a \in Admins |-> NoAdmin]
    /\ keys = [k \in Keys |-> NoKey] /\ keyMap = TRUE
    /\ entries = <<>> /\ checkDue = TRUE
    /\ disk = Saved(admins, keys, TRUE, <<>>, "none")
    /\ acts = 0 /\ crashes = 0
    /\ tamper = "none"

-----------------------------------------------------------------------------
(* The log                                                                 *)

\* What the entries say, signed from the oldest to the newest.
Said(es) == [i \in 1 .. Len(es) |-> es[i].said]
Signed(words) ==
    [i \in 1 .. Len(words) |->
        [said |-> words[i], prev |-> SubSeq(words, i + 1, Len(words)),
         hash |-> SubSeq(words, i, Len(words))]]

\* verifyAuditChain; repairAuditChain
Intact(es) ==
    \A i \in 1 .. Len(es) :
        /\ es[i].prev = IF i = Len(es) THEN <<>> ELSE es[i + 1].hash
        /\ es[i].hash = <<es[i].said>> \o es[i].prev
Repaired(es) == Signed(Said(es))

Chained(word, es) ==
    LET prev == IF es = <<>> THEN <<>> ELSE es[1].hash
    IN  <<[said |-> word, prev |-> prev, hash |-> <<word>> \o prev]>> \o es

\* logAdminAction: append, cut when too long, sign what is kept.
Cut_Unsigned(es) == SubSeq(es, 1, KeptLog)
Cut(es) == Signed(Said(SubSeq(es, 1, KeptLog)))
Grown(word, es) == LET more == Chained(word, es) IN IF Len(more) > MaxLog THEN Cut(more) ELSE more
Marked(es) == \E i \in 1 .. Len(es) : es[i].said[1] = "chain repaired"

\* A cut takes an edit that nobody saw into the new chain.
Log(word, es, t) ==
    LET now == Grown(word, es) IN
    /\ entries' = now
    /\ tamper' = IF Len(es) < MaxLog THEN t
                 ELSE IF t = "open" THEN "absorbed"
                 ELSE IF t = "marked" /\ ~Marked(now) THEN "none" ELSE t

\* saveState() with the log as it is, then the entry.  Of an entry the model keeps what
\* was done and when.
Act(what) ==
    /\ acts < MaxActs
    /\ acts' = acts + 1
    /\ disk' = Saved(admins', keys', keyMap', entries, tamper)
    /\ Log(<<what, acts>>, entries, tamper)
    /\ UNCHANGED <<checkDue, crashes>>

-----------------------------------------------------------------------------
(* Requests                                                                *)

\* adminAuth: the bootstrap admin, an active admin, an active key.
Callers ==
    {[who |-> "admin", role |-> "super"]}
    \cup {[who |-> a, role |-> admins[a].role] : a \in {b \in Admins : admins[b].active}}
    \cup {[who |-> k, role |-> keys[k].role] : k \in {l \in Keys : keys[l].active}}

Absent(a) == admins[a] = NoAdmin

CreateAdmin ==
    \E c \in Callers, a \in Admins, r \in Roles :
        /\ c.role = "super" /\ Absent(a)
        /\ admins' = [admins EXCEPT ![a] = [NoAdmin EXCEPT !.role = r, !.active = TRUE]]
        /\ UNCHANGED <<keys, keyMap>>
        /\ Act("create")

UpdateAdmin ==
    \E c \in Callers, a \in Admins, r \in Roles, on \in BOOLEAN :
        /\ c.role = "super" /\ ~Absent(a)
        /\ admins' = [admins EXCEPT ![a].role = r, ![a].active = on]
        /\ UNCHANGED <<keys, keyMap>>
        /\ Act("update")

\* Also a name that is not there is deleted and logged.
DeleteAdmin ==
    \E c \in Callers, a \in Admins :
        /\ c.role = "super"
        /\ admins' = [admins EXCEPT ![a] = NoAdmin]
        /\ UNCHANGED <<keys, keyMap>>
        /\ Act("delete")

AssignCustomers ==
    \E c \in Callers, a \in Admins :
        /\ c.role = "super" /\ ~Absent(a)
        /\ UNCHANGED <<admins, keys, keyMap>>
        /\ Act("assign")

\* 2fa/setup saves and does not log.
SetUp2fa ==
    \E c \in Callers :
        /\ c.who \in Admins /\ c.role # "read_only"
        /\ ~admins[c.who].pending
        /\ admins' = [admins EXCEPT ![c.who].pending = TRUE]
        /\ disk' = Saved(admins', keys, keyMap, entries, tamper)
        /\ UNCHANGED <<keys, keyMap, entries, checkDue, acts, crashes, tamper>>

Verify2fa ==
    \E c \in Callers :
        /\ c.who \in Admins /\ c.role # "read_only" /\ admins[c.who].pending
        /\ admins' = [admins EXCEPT ![c.who].totp = TRUE, ![c.who].pending = FALSE]
        /\ UNCHANGED <<keys, keyMap>>
        /\ Act("2fa on")

Disable2fa ==
    \E c \in Callers, a \in Admins :
        /\ c.role # "read_only" /\ ~Absent(a)
        /\ a = c.who \/ c.role = "super"
        /\ admins' = [admins EXCEPT ![a].totp = FALSE, ![a].pending = FALSE]
        /\ UNCHANGED <<keys, keyMap>>
        /\ Act("2fa off")

CreateKey ==
    \E c \in Callers, k \in Keys, r \in Roles :
        /\ c.role \in {"super", "admin"} /\ keyMap /\ keys[k] = NoKey
        /\ keys' = [keys EXCEPT ![k] = [role |-> r, active |-> TRUE]]
        /\ UNCHANGED <<admins, keyMap>>
        /\ Act("key")

DeleteKey ==
    \E c \in Callers, k \in Keys :
        /\ c.role \in {"super", "admin"} /\ keyMap
        /\ keys' = [keys EXCEPT ![k] = NoKey]
        /\ UNCHANGED <<admins, keyMap>>
        /\ Act("no key")

ToggleKey ==
    \E c \in Callers, k \in Keys :
        /\ c.role # "read_only" /\ keyMap /\ keys[k] # NoKey
        /\ keys' = [keys EXCEPT ![k].active = ~@]
        /\ UNCHANGED <<admins, keyMap>>
        /\ Act("toggle")

\* audit/repair: nothing when the chain holds; the marker, then the save.
RepairLog ==
    /\ acts < MaxActs
    /\ acts' = acts + 1
    /\ ~Intact(entries)
    /\ \E c \in Callers :
          /\ c.role # "read_only"
          /\ Log(Marker(acts), Repaired(entries), "marked")
    /\ disk' = Saved(admins, keys, keyMap, entries', tamper')
    /\ UNCHANGED <<admins, keys, keyMap, checkDue, crashes>>

\* reset-state keeps the admins and nothing of the log.
ResetState ==
    /\ acts < MaxActs
    /\ acts' = acts + 1
    /\ \E c \in Callers : c.role = "super"
    /\ keys' = [k \in Keys |-> NoKey] /\ keyMap' = FALSE
    /\ entries' = <<>> /\ tamper' = "none"
    /\ disk' = Saved(admins, keys', FALSE, <<>>, "none")
    /\ UNCHANGED <<admins, checkDue, crashes>>

\* Some other handler or timer saves.
SaveState ==
    /\ disk' = Saved(admins, keys, keyMap, entries, tamper)
    /\ disk' # disk
    /\ UNCHANGED <<admins, keys, keyMap, entries, checkDue, acts, crashes, tamper>>

-----------------------------------------------------------------------------
(* Restart                                                                 *)

\* An edit of the file: an entry says something else, or one that is not the
\* newest is gone.
Edits(es) ==
    {[es EXCEPT ![i].said = <<"edited", crashes>>] : i \in 1 .. Len(es)}
    \cup {SubSeq(es, 1, i - 1) \o SubSeq(es, i + 1, Len(es)) : i \in 2 .. Len(es)}

Restart ==
    /\ crashes < MaxCrashes
    /\ crashes' = crashes + 1
    /\ admins' = disk.admins /\ keys' = disk.keys
    /\ keyMap' = TRUE
    /\ \/ entries' = disk.entries /\ tamper' = disk.tamper
       \/ entries' \in Edits(disk.entries) /\ tamper' = "open"
    /\ disk' = Saved(disk.admins, disk.keys, disk.keyMap, entries', tamper')
    /\ checkDue' = TRUE
    /\ UNCHANGED acts

\* Five seconds later: repaired, with a marker that no cut follows.
BootMark(es) == Chained(Marker(-crashes), Repaired(es))
BootCheck ==
    /\ checkDue
    /\ checkDue' = FALSE
    /\ IF Intact(entries)
       THEN UNCHANGED <<entries, tamper, disk>>
       ELSE /\ entries' = BootMark(entries)
            /\ tamper' = "marked"
            /\ disk' = Saved(admins, keys, keyMap, entries', "marked")
    /\ UNCHANGED <<admins, keys, keyMap, acts, crashes>>

AdminNext ==
    \/ CreateAdmin \/ UpdateAdmin \/ DeleteAdmin \/ AssignCustomers
    \/ SetUp2fa \/ Verify2fa \/ Disable2fa
    \/ CreateKey \/ DeleteKey \/ ToggleKey
    \/ RepairLog \/ ResetState \/ SaveState \/ Restart \/ BootCheck

-----------------------------------------------------------------------------
\* The log tells an edit: the chain holds as long as nobody edited the file, cuts,
\* restarts and repairs included; while an edit is neither repaired nor cut away the
\* chain does not hold; and a repair leaves its marker, until a cut drops it.
\* And a crash loses no entry but the last one.
AuditHonest ==
    /\ tamper = "open" <=> ~Intact(entries)
    /\ tamper = "marked" => Marked(entries)
    /\ \/ Said(entries) = Said(disk.entries)
       \/ /\ entries # <<>>
          /\ Said(entries) = Said(Grown(entries[1].said, disk.entries))

-----------------------------------------------------------------------------
(* What the proof of AuditHonest rests on.                                    *)
\* What an entry can say before the edits of the next start, and the entries made of it.
Deeds == {"create", "update", "delete", "assign", "2fa on", "2fa off", "key", "no key", "toggle",
          "chain repaired", "edited"}
Words(starts) == {w \in Deeds \X Int : w[1] = "edited" => w[2] < starts}
EntryOf(words) == [said : words, prev : Seq(words), hash : Seq(words)]
Logs(words) == Seq(EntryOf(words))

\* An entry says something else than its hash was made of, or an entry is gone.
Altered(es) ==
    \/ \E i \in DOMAIN es : es[i].hash = <<>> \/ es[i].hash[1] # es[i].said
    \/ es # <<>> /\ Len(es[1].hash) > Len(es)

LogOK(es, t) ==
    /\ es \in Logs(Words(crashes))
    /\ es # <<>> => Len(es[1].hash) >= Len(es)
    /\ IF t = "open" THEN Altered(es) ELSE Intact(es)
    /\ crashes = 0 => t # "open"
    /\ t \in {"none", "open", "marked", "absorbed"}
Marks(word) == word[1] = "chain repaired"
LogSound(es, t) == LogOK(es, t) /\ (t = "marked" => Marked(es))

\* Memory is what the file has, or an entry ahead of it.
OneAhead ==
    \/ Said(entries) = Said(disk.entries)
    \/ entries # <<>> /\ Said(entries) = Said(Grown(entries[1].said, disk.entries))

\* A start may leave one marker above the bound, and the check of the last one is to come.
Room == MaxLog + crashes - (IF checkDue /\ crashes > 0 THEN 1 ELSE 0)

LogInv ==
    /\ acts \in Nat /\ crashes \in 0 .. MaxCrashes
    /\ LogSound(entries, tamper) /\ LogSound(disk.entries, disk.tamper)
    /\ OneAhead
    /\ Len(entries) <= Room /\ Len(disk.entries) <= Room

AdminsTyped ==
    /\ {admins, disk.admins} \subseteq [Admins -> [role : Roles \cup {NoOne}, active : BOOLEAN,
                                                  totp : BOOLEAN, pending : BOOLEAN]]
    /\ {keys, disk.keys} \subseteq [Keys -> [role : Roles \cup {NoOne}, active : BOOLEAN]]

AdminInv == AdminsTyped /\ LogInv
=============================================================================
