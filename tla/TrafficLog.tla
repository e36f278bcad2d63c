------------------------------- MODULE TrafficLog -------------------------------
(***************************************************************************)
(* What the cloud keeps of the traffic of its customers (server.js): the   *)
(* ring of the last flows, which all customers share, the archive of flows *)
(* of each for ninety days, and the names looked up, for as long as the    *)
(* customer wants.  Privacy mode stops what comes to all three and empties *)
(* the ring and the names; the archive of what came before stays.  The TLS *)
(* handshakes (sni_handshakes), stored for a day with no look at privacy   *)
(* mode, are left out.                                                     *)
(*                                                                         *)
(* All of it is in the state: reports of a box change it in memory, the    *)
(* calls of a customer save it at once, the rest is left to the timer of   *)
(* thirty seconds; a cloud that dies comes back with the records and the   *)
(* wishes of an earlier moment.  Boxes stamp what they report, with clocks *)
(* that are late or early.  Snapshots, which take both back together, are  *)
(* in StateStore.                                                          *)
(*                                                                         *)
(* Time is counted in the hours of gcFlowArchive.  A report has one record *)
(* in it.  Devices, names and sizes are left out.                          *)
(***************************************************************************)
EXTENDS Integers, Sequences, SequencesExt

CONSTANTS
    Patrons,            \* customers
    Retentions,         \* that a customer may choose: hours, 0 for none
    FirstRetention,     \* 24 hours
    ArchiveRetention,   \* FLOW_ARCHIVE_RETENTION_MS: 90 days
    FlowsMax,           \* FLOWS_MAX
    ArchiveMax,         \* FLOW_ARCHIVE_MAX_PER_CUSTOMER
    Late, Early,        \* how far the clock of a box may be off: a bound
    LastHour,           \* the clock: a bound
    MaxReports,         \* reports of boxes: a bound
    MaxWishes,          \* calls of customers: a bound
    MaxDeaths           \* of the cloud: a bound

ASSUME LoggingAssumption ==
    /\ {ArchiveRetention, FlowsMax, ArchiveMax, Late, Early, LastHour} \subseteq Nat
    /\ {0, FirstRetention} \subseteq Retentions /\ Retentions \subseteq Nat

VARIABLES
    hour,               \* Date.now()
    gcDue,              \* the timer of gcFlowArchive is to fire in this hour
    log,                \* state: flows, flow_archive, dns_queries and the customers
    disk,               \* the state file
    promised,           \* history: the privacy mode each customer was told to have
    reports, wishes, deaths     \* so far

loggingVars == <<hour, gcDue, log, disk, promised, reports, wishes, deaths>>

\* A customer, or one that asked to be deleted, or one whose account the staff took away.
Standings == {"customer", "deleted", "dropped"}
Account ==
    [standing: Standings, private: BOOLEAN, since: 0 .. LastHour, retention: Retentions]
Flow == [of: Patrons, at: 0 .. LastHour]
Archived == [ts: Int, at: 0 .. LastHour]    \* at, history: when it came

\* looked, history: when the list of queries was last looked through.
TrafficLogTypeOK ==
    /\ hour \in 0 .. LastHour /\ gcDue \in BOOLEAN
    /\ \A l \in {log, disk} :
          /\ l \in [account: [Patrons -> Account], flows: Seq(Flow),
                    archive: [Patrons -> Seq(Archived)], queries: [Patrons -> Seq(Int)],
                    looked: [Patrons -> 0 .. LastHour]]
          /\ Len(l.flows) <= FlowsMax
          /\ \A p \in Patrons : Len(l.archive[p]) <= ArchiveMax

FreshLog ==
    [account |-> [p \in Patrons |->
        [standing |-> "customer", private |-> FALSE, since |-> 0, retention |-> FirstRetention]],
     flows |-> <<>>, archive |-> [p \in Patrons |-> <<>>],
     queries |-> [p \in Patrons |-> <<>>], looked |-> [p \in Patrons |-> 0]]

TrafficLogInit ==
    /\ hour = 0 /\ gcDue = FALSE
    /\ log = FreshLog /\ disk = FreshLog
    /\ promised = [p \in Patrons |-> FALSE]
    /\ reports = 0 /\ wishes = 0 /\ deaths = 0

-----------------------------------------------------------------------------
Capped(list, k) == IF Len(list) > k THEN SubSeq(list, Len(list) - k + 1, Len(list)) ELSE list
\* Array.filter: SelectSeq, as a function.
Only(list, kind) ==
    LET kept[n \in 0 .. Len(list)] ==
          IF n = 0 THEN <<>>
          ELSE IF list[n] \in kind THEN Append(kept[n - 1], list[n]) ELSE kept[n - 1]
    IN kept[Len(list)]

Stamps == (hour - Late) .. (hour + Early)
IsCustomer(p) == log.account[p].standing = "customer"
Report(p) == reports < MaxReports /\ reports' = reports + 1 /\ IsCustomer(p)

\* POST /api/box/flows: nothing is kept of a customer in privacy mode.
FlowComes(p) ==
    /\ Report(p)
    /\ \E ts \in Stamps :
          log' = IF log.account[p].private THEN log
                 ELSE [log EXCEPT !.flows = Capped(Append(@, [of |-> p, at |-> hour]), FlowsMax),
                                  !.archive[p] = Capped(Append(@, [ts |-> ts, at |-> hour]), ArchiveMax)]
    /\ UNCHANGED <<hour, gcDue, disk, promised, wishes, deaths>>

Within(queries, retention) == Only(queries, {ts \in Int : ts >= hour - retention})
LookedThrough(l, p, queries) == [l EXCEPT !.queries[p] = queries, !.looked[p] = hour]

\* POST /api/box/dns-queries; that the newest 20000 are kept is left out.
QueryComes(p) ==
    /\ Report(p)
    /\ LET retention == log.account[p].retention IN
       \E ts \in Stamps :
          log' = LookedThrough(log, p,
                    IF retention = 0 THEN <<>> ELSE Within(Append(log.queries[p], ts), retention))
    /\ UNCHANGED <<hour, gcDue, disk, promised, wishes, deaths>>

-----------------------------------------------------------------------------
Wish == wishes < MaxWishes /\ wishes' = wishes + 1
Saved == disk' = log'
NotOf(p, flows) == Only(flows, {f \in Flow : f.of # p})

\* Privacy mode is switched on: the ring and the queries go, the archive stays.
MadePrivate(p) ==
    LookedThrough([log EXCEPT !.flows = NotOf(p, @),
                              !.account[p] = [standing |-> "customer", private |-> TRUE,
                                              since |-> hour, retention |-> 0]],
                  p, <<>>)

\* POST /api/customer/privacy-mode: switched off, it leaves the retention of queries at 0.
SetPrivacy(p, on) ==
    /\ Wish /\ IsCustomer(p)
    /\ log' = IF on THEN MadePrivate(p)
              ELSE [log EXCEPT !.account[p].private = FALSE, !.account[p].since = 0]
    /\ Saved
    /\ promised' = [promised EXCEPT ![p] = on]
    /\ UNCHANGED <<hour, gcDue, reports, deaths>>

\* POST /api/customer/dns-retention, in privacy mode as well.
SetRetention(p, retention) ==
    /\ Wish /\ IsCustomer(p)
    /\ log' = LookedThrough([log EXCEPT !.account[p].retention = retention], p,
                            IF retention = 0 THEN <<>> ELSE Within(log.queries[p], retention))
    /\ Saved
    /\ UNCHANGED <<hour, gcDue, promised, reports, deaths>>

\* finalizeAccountDeletion: the archive is not among what is deleted.
FinalizeDeletion(p) ==
    /\ Wish /\ IsCustomer(p)
    /\ log' = LookedThrough([log EXCEPT !.account[p].standing = "deleted",
                                        !.flows = NotOf(p, @)], p, <<>>)
    /\ Saved
    /\ UNCHANGED <<hour, gcDue, promised, reports, deaths>>

\* The staff takes an account away (customers/delete, bulk delete; unseed-demo, which empties the
\* ring of its flows): what is kept of the customer's traffic stays, and nothing is added to it,
\* for his boxes are nobody's.
DropAccount(p, flowsToo) ==
    /\ Wish /\ IsCustomer(p)
    /\ log' = [log EXCEPT !.account[p].standing = "dropped",
                          !.flows = IF flowsToo THEN NotOf(p, @) ELSE @]
    /\ Saved
    /\ UNCHANGED <<hour, gcDue, promised, reports, deaths>>

\* POST /admin/api/integrity/autofix takes out the names of those who are no customers.
Autofix ==
    /\ Wish
    /\ log' = [log EXCEPT !.queries = [p \in Patrons |-> IF IsCustomer(p) THEN @[p] ELSE <<>>]]
    /\ Saved
    /\ UNCHANGED <<hour, gcDue, promised, reports, deaths>>

-----------------------------------------------------------------------------
\* The timer of saveState.
SaveLog ==
    /\ disk # log /\ disk' = log
    /\ UNCHANGED <<hour, gcDue, log, promised, reports, wishes, deaths>>

\* The cloud dies; it is back after some hours, and cleans up five minutes later.
CloudDies(hours) ==
    /\ deaths < MaxDeaths /\ deaths' = deaths + 1
    /\ hour + hours <= LastHour /\ hour' = hour + hours
    /\ log' = disk /\ gcDue' = TRUE
    /\ UNCHANGED <<disk, promised, reports, wishes>>

HourPasses ==
    /\ ~gcDue /\ hour < LastHour
    /\ hour' = hour + 1 /\ gcDue' = TRUE
    /\ UNCHANGED <<log, disk, promised, reports, wishes, deaths>>

\* gcFlowArchive drops from the head of the list, up to the first that is young enough.
YoungFrom(list) == SelectInSeq(list, LAMBDA e : e.ts >= hour - ArchiveRetention)
GcFlowArchive ==
    /\ gcDue /\ gcDue' = FALSE
    /\ log' = [log EXCEPT !.archive = [p \in Patrons |->
                  LET first == YoungFrom(log.archive[p])
                  IN IF first = 0 THEN <<>> ELSE SubSeq(log.archive[p], first, Len(log.archive[p]))]]
    /\ UNCHANGED <<hour, disk, promised, reports, wishes, deaths>>

Calls(p) ==
    FinalizeDeletion(p) \/ \E yes \in BOOLEAN : SetPrivacy(p, yes) \/ DropAccount(p, yes)
Timers == SaveLog \/ HourPasses \/ GcFlowArchive \/ \E hours \in 0 .. 1 : CloudDies(hours)
FlowsNext == (\E p \in Patrons : FlowComes(p) \/ Calls(p)) \/ Timers
QueriesNext(patrons) ==
    (\E p \in patrons : QueryComes(p) \/ Calls(p) \/ \E r \in Retentions : SetRetention(p, r))
        \/ Autofix \/ Timers

-----------------------------------------------------------------------------
\* While a customer is in privacy mode no flow of his is in the ring, none was archived since he
\* switched it on, and names that were looked up are there only if he asked for them again; of a
\* customer who had his account deleted there is no flow and no name (of one whose account the
\* staff took away there may be).  So it stays whatever reports, calls of the staff and deaths of
\* the cloud come in between.
PrivacyObeyed ==
    \A p \in Patrons : LET a == log.account[p] IN
       /\ a.private => \A i \in DOMAIN log.archive[p] : log.archive[p][i].at <= a.since
       /\ a.private \/ a.standing = "deleted" => NotOf(p, log.flows) = log.flows
       /\ a.retention = 0 \/ a.standing = "deleted" => log.queries[p] = <<>>

\* What a customer was told of his privacy mode is so, also after the cloud died.
PrivacyDurable == \A p \in Patrons : IsCustomer(p) => log.account[p].private = promised[p]

\* The archive gives up what came ninety days ago, also of a customer in privacy mode or one who
\* is deleted, and also what is late in it or behind one that a box with an early clock stamped;
\* names are not older than the customer wanted when the list was last looked through.
RecordsFade ==
    \A p \in Patrons :
       /\ ~gcDue =>
             \A i \in DOMAIN log.archive[p] : hour - log.archive[p][i].at <= ArchiveRetention + Early
       /\ \A i \in DOMAIN log.queries[p] :
             log.queries[p][i] >= log.looked[p] - log.account[p].retention

-----------------------------------------------------------------------------
(* What makes them inductive: all of it holds of the file as well, which a    *)
(* cloud that dies comes back with.  h is the time, told what was promised.   *)

\* Privacy mode is as told, and what it and a deletion take out does not come back.
FlowsObey(l, told) ==
    \A p \in Patrons : LET a == l.account[p] IN
       /\ a.standing = "customer" => a.private = told[p]
       /\ a.private => \A i \in DOMAIN l.archive[p] : l.archive[p][i].at <= a.since
       /\ a.private \/ a.standing = "deleted" => \A i \in DOMAIN l.flows : l.flows[i].of # p

QueriesObey(l, p) ==
    /\ l.account[p].retention = 0 \/ l.account[p].standing = "deleted" => l.queries[p] = <<>>
    /\ \A i \in DOMAIN l.queries[p] :
          l.queries[p][i] >= l.looked[p] - l.account[p].retention

\* Archives are in the order of arrival, and no stamp is later than clocks are early.
ArchiveInOrder(l, h) ==
    \A p \in Patrons :
       /\ \A i \in DOMAIN l.archive[p] :
             l.archive[p][i].at <= h /\ l.archive[p][i].ts <= l.archive[p][i].at + Early
       /\ \A i, j \in DOMAIN l.archive[p] : i <= j => l.archive[p][i].at <= l.archive[p][j].at

LogSound(l, h, told) ==
    FlowsObey(l, told) /\ ArchiveInOrder(l, h) /\ \A p \in Patrons : QueriesObey(l, p)

ArchiveFades(l, h) ==
    \A p \in Patrons : \A i \in DOMAIN l.archive[p] :
       h - l.archive[p][i].at <= ArchiveRetention + Early

\* Wishes are saved at once, so that the file has the accounts as they are.
LoggingInv ==
    /\ TrafficLogTypeOK /\ promised \in [Patrons -> BOOLEAN]
    /\ log.account = disk.account
    /\ LogSound(log, hour, promised) /\ LogSound(disk, hour, promised)
    /\ ~gcDue => ArchiveFades(log, hour)
=============================================================================
