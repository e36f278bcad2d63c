---------------------------- MODULE SiemForwarder ----------------------------
(***************************************************************************)
(* Events of one customer on their way to his SIEM                         *)
(* (cloud-modules/siem-forwarder.js).                                      *)
(*                                                                         *)
(* forward() is not awaited by its callers: any number of calls run at the *)
(* same time, each suspended in a send or in the pause before the next     *)
(* attempt.  A send that the receiver got may still end as a failure: a    *)
(* TCP receiver that does not close its side lets it run into the timeout. *)
(* The seconds of the sliding minute are ticks of a clock.                 *)
(*                                                                         *)
(* The counters and the minute are in the state, which a call of the       *)
(* customer and the timer of saveState write.  A cloud that dies loses the *)
(* calls under way without counting them, and what it counted since.  A    *)
(* restore, which leaves the forwarder an object no save writes any more,  *)
(* is as in CloudModules.                                                  *)
(***************************************************************************)
EXTENDS Integers, Sequences, FiniteSets, SequencesExt

CONSTANTS
    Events,             \* alarms and flows that come up
    MaxPerMin, Minute,  \* MAX_PER_MIN in a sliding window of 60 s
    MaxRetries,         \* MAX_RETRIES
    MaxTick, MaxDays, MaxConfigs,   \* bounds
    MaxDowns                        \* of the cloud: a bound

ASSUME SiemAssumption ==
    /\ {MaxPerMin, Minute, MaxRetries, MaxTick, MaxDays} \subseteq Nat
    /\ MaxRetries >= 1

VARIABLES
    tick,
    siem,           \* _state.siem_config of the customer
    rate,           \* _state.siem_rate of the customer
    saved,          \* siem and rate in the state file
    flight,         \* calls of forward under way
    fresh,          \* events that did not come up yet
    days, configs, downs,
    copies,         \* history: copies of an event the receivers got
    accepted,       \* history: when events were let through, as far as the cloud remembers
    offered         \* history: calls the counters of the day have to account for

siemVars == <<tick, siem, rate, saved, flight, fresh, days, configs, downs, copies, accepted,
              offered>>

Ticks == 0 .. MaxTick
Flight == [ev: Events, attempt: 1 .. MaxRetries, at: {"send", "pause"}]

Counters == [enabled: BOOLEAN, day: 0 .. MaxDays, forwarded: Nat, dropped: Nat]

SiemTypeOK ==
    /\ siem \in Counters /\ saved.siem \in Counters
    /\ rate \in Seq(Ticks) /\ saved.rate \in Seq(Ticks)
    /\ flight \subseteq Flight
    /\ copies \in [Events -> Nat]

SiemInit ==
    /\ tick = 0
    /\ siem = [enabled |-> FALSE, day |-> 0, forwarded |-> 0, dropped |-> 0]
    /\ rate = <<>>
    /\ saved = [siem |-> siem, rate |-> rate]
    /\ flight = {}
    /\ fresh = Events
    /\ days = 0 /\ configs = 0 /\ downs = 0
    /\ copies = [e \in Events |-> 0]
    /\ accepted = <<>>
    /\ offered = 0

sides == <<tick, days, configs, downs, saved>>
SaveSiem == saved' = [siem |-> siem', rate |-> rate']

\* configure(): a customer switches the forwarding on or off.
Configure ==
    /\ configs < MaxConfigs
    /\ configs' = configs + 1
    /\ siem' = [siem EXCEPT !.enabled = ~@]
    /\ UNCHANGED <<tick, days, downs, rate, flight, fresh, copies, accepted, offered>>
    /\ SaveSiem

\* _rollDay
Rolled == IF siem.day = days THEN siem
          ELSE [siem EXCEPT !.day = days, !.forwarded = 0, !.dropped = 0]
\* Calls of an earlier day that are under way will be counted on this one.
Offered == IF siem.day = days THEN offered ELSE Cardinality(flight)

\* _withinRate: entries older than a minute go from the head, then the rest is counted.
Trimmed ==
    LET first == SelectInSeq(rate, LAMBDA t : t >= tick - Minute)
    IN IF first = 0 THEN <<>> ELSE SubSeq(rate, first, Len(rate))

\* Calls of forward(), one for each event that comes up.
Called == siem.enabled /\ \E e \in fresh : fresh' = fresh \ {e}

\* Events of this kind are not forwarded.
KindOff ==
    /\ Called
    /\ siem' = Rolled
    /\ offered' = Offered
    /\ UNCHANGED <<sides, rate, flight, copies, accepted>>

RateCapped ==
    /\ Called
    /\ Len(Trimmed) >= MaxPerMin
    /\ rate' = Trimmed
    /\ siem' = [Rolled EXCEPT !.dropped = @ + 1]
    /\ offered' = Offered + 1
    /\ UNCHANGED <<sides, flight, copies, accepted>>

\* The event is let through, and sent for the first time.
Forward ==
    /\ Called
    /\ Len(Trimmed) < MaxPerMin
    /\ flight' = flight \cup {[ev |-> e, attempt |-> 1, at |-> "send"] : e \in fresh \ fresh'}
    /\ rate' = Append(Trimmed, tick)
    /\ siem' = Rolled
    /\ offered' = Offered + 1
    /\ accepted' = Append(accepted, tick)
    /\ UNCHANGED <<sides, copies>>

Got(f) == copies' = [copies EXCEPT ![f.ev] = @ + 1]

SendOk ==
    /\ \E f \in flight :
          /\ f.at = "send"
          /\ Got(f)
          /\ flight' = flight \ {f}
    /\ siem' = [siem EXCEPT !.forwarded = @ + 1]
    /\ UNCHANGED <<sides, rate, fresh, accepted, offered>>

GivesUp(f) == f.attempt = MaxRetries

\* The send failed, whether the receiver got the event or not: a pause, or the
\* event is dropped.
SendFails ==
    /\ \E f \in flight, arrived \in BOOLEAN :
          /\ f.at = "send"
          /\ IF arrived THEN Got(f) ELSE UNCHANGED copies
          /\ flight' = (flight \ {f})
                \cup (IF GivesUp(f) THEN {} ELSE {[f EXCEPT !.at = "pause"]})
          /\ siem' = IF GivesUp(f) THEN [siem EXCEPT !.dropped = @ + 1] ELSE siem
    /\ UNCHANGED <<sides, rate, fresh, accepted, offered>>

PauseEnds ==
    /\ \E f \in flight :
          /\ f.at = "pause"
          /\ flight' = (flight \ {f})
                \cup {[f EXCEPT !.at = "send", !.attempt = @ + 1]}
    /\ UNCHANGED <<sides, siem, rate, fresh, copies, accepted, offered>>

NewDay ==
    /\ days < MaxDays
    /\ days' = days + 1
    /\ UNCHANGED <<tick, configs, downs, siem, rate, saved, flight, fresh, copies, accepted, offered>>

Ticking ==
    /\ tick < MaxTick
    /\ tick' = tick + 1
    /\ UNCHANGED <<days, configs, downs, siem, rate, saved, flight, fresh, copies, accepted, offered>>

\* The timer of saveState.
TimerSaves ==
    /\ UNCHANGED <<tick, days, configs, downs, siem, rate, flight, fresh, copies, accepted, offered>>
    /\ SaveSiem

\* The cloud dies and is back with what the file has: nothing takes up the calls that were under
\* way, and nothing counts them.
CloudRestarts ==
    /\ downs < MaxDowns
    /\ downs' = downs + 1
    /\ siem' = saved.siem /\ rate' = saved.rate
    /\ flight' = {}
    /\ accepted' = saved.rate
    /\ offered' = saved.siem.forwarded + saved.siem.dropped
    /\ UNCHANGED <<tick, days, configs, saved, fresh, copies>>

SiemNext ==
    \/ Configure \/ KindOff \/ RateCapped \/ Forward \/ SendOk \/ SendFails \/ PauseEnds
    \/ NewDay \/ Ticking \/ TimerSaves \/ CloudRestarts

-----------------------------------------------------------------------------
\* However calls overlap: no window of a minute lets more than MaxPerMin events
\* through that the cloud remembers, a receiver gets at most MaxRetries copies of
\* an event, and the counters of the day with the calls under way account for every
\* call since the moment whose counters the cloud last started with; what was under
\* way when it died is neither sent any more nor counted.
SiemAccounts ==
    /\ \A i, j \in DOMAIN accepted :
          i < j /\ accepted[j] - accepted[i] <= Minute => j - i < MaxPerMin
    /\ \A e \in Events : copies[e] <= MaxRetries
    /\ siem.forwarded + siem.dropped + Cardinality(flight) = offered

\* Every event that is let through ends: as forwarded, as dropped, or with the cloud.
ForwardsEnd == \A e \in Events : (\E f \in flight : f.ev = e) ~> (\A f \in flight : f.ev # e)

-----------------------------------------------------------------------------
(* What makes SiemAccounts inductive                                           *)

HistoriesOK ==
    /\ tick \in Ticks /\ days \in 0 .. MaxDays /\ fresh \subseteq Events
    /\ accepted \in Seq(Ticks) /\ offered \in Nat

\* siem_rate is the end of what was let through, in order, and what fell off it is older than a
\* minute.
RateIsRecent ==
    /\ \A i, j \in DOMAIN accepted : i <= j => accepted[i] <= accepted[j]
    /\ \A i \in DOMAIN accepted : accepted[i] <= tick
    /\ \E k \in 0 .. Len(accepted) :
          /\ rate = SubSeq(accepted, k + 1, Len(accepted))
          /\ \A i \in 1 .. k : accepted[i] < tick - Minute

\* The minute of the file is in order, and lets no more through than any other.
MinuteSound(list, now) ==
    /\ \A i, j \in DOMAIN list : i <= j => list[i] <= list[j]
    /\ \A i \in DOMAIN list : list[i] <= now
    /\ \A i, j \in DOMAIN list : i < j /\ list[j] - list[i] <= Minute => j - i < MaxPerMin

\* An event has one call, which has sent no more copies than it made attempts, and which goes on
\* after a pause only if it has one left.
CallsApart ==
    /\ IsFiniteSet(flight)
    /\ \A f, g \in flight : f.ev = g.ev => f = g
    /\ \A f \in flight : /\ f.ev \notin fresh
                         /\ copies[f.ev] <= IF f.at = "send" THEN f.attempt - 1 ELSE f.attempt
                         /\ f.at = "pause" => f.attempt < MaxRetries
    /\ \A e \in fresh : copies[e] = 0

SiemInv ==
    /\ SiemTypeOK /\ HistoriesOK /\ RateIsRecent /\ CallsApart /\ SiemAccounts
    /\ MinuteSound(saved.rate, tick)
=============================================================================
