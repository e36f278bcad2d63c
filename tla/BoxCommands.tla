----------------------------- MODULE BoxCommands ----------------------------
(***************************************************************************)
(* The command channel from the cloud to one box.                          *)
(*                                                                         *)
(* Handlers of the cloud (server.js) append commands to                    *)
(* state.box_commands[mac]; the agent (agent.js) polls, runs each command  *)
(* of the answer in turn and posts its result.  Between the two is a       *)
(* network that may lose an answer or a result, a box that reboots because *)
(* a command told it to, and a cloud that comes back from the state it     *)
(* last wrote to disk.  The timer of the agent does not wait for the       *)
(* previous tick: each member of Ticks is a tick that may be under way.    *)
(*                                                                         *)
(* A command is the number of its creation, so the order of the array is   *)
(* the order of the numbers.                                               *)
(***************************************************************************)
EXTENDS Integers, FiniteSets

CONSTANTS
    MaxCommands,    \* how many commands are ever created: a bound
    QueueCap,       \* the most commands a capping enqueuer leaves (100)
    Ticks,          \* ticks of the agent that may be under way together
    Reboots,        \* the commands whose action reboots the box
    Faults          \* what may cut a command short

Cmds == 1..MaxCommands

ASSUME BoxCommandsAssumption ==
    /\ MaxCommands \in Nat
    /\ QueueCap \in Nat \ {0}
    /\ Reboots \subseteq Cmds
    /\ Faults \subseteq {"lost_answer", "lost_result", "agent_restart",
                         "cloud_crash", "revoke"}

VARIABLES
    next,           \* the next command to be created
    mem,            \* cmd.status in state.box_commands, absent if not there
    disk,           \* the same in the state file
    waiter,         \* the customer request that waits for each command
    tick,           \* the ticks of the agent
    executed,       \* how often the box ran each command
    outcome,        \* how the last run of each command ended
    rebooting,      \* the one second timer of a reboot command is running
    harmed,         \* history: a fault or a reboot has cut something short
    overlapped      \* history: two ticks have had commands in hand together

cloudVars == <<next, mem, disk, waiter>>
boxVars == <<tick, executed, outcome, rebooting>>
history == <<harmed, overlapped>>
vars == <<next, mem, disk, waiter, tick, executed, outcome, rebooting, harmed, overlapped>>

Finished == {"completed", "failed"}
Status == {"absent", "pending", "in_progress"} \cup Finished

IdleTick == [pc |-> "idle", batch |-> {}, cmd |-> 0]

TickState ==
    [pc: {"idle", "polling", "running", "posting"},
     batch: SUBSET Cmds, cmd: Cmds \cup {0}]

TypeOK ==
    /\ next \in 1..(MaxCommands + 1)
    /\ mem \in [Cmds -> Status]
    /\ disk \in [Cmds -> Status]
    /\ waiter \in [Cmds -> {"none", "waiting", "queued"} \cup Finished]
    /\ tick \in [Ticks -> TickState]
    /\ executed \in [Cmds -> Nat]
    /\ outcome \in [Cmds -> {"none"} \cup Finished]
    /\ rebooting \in BOOLEAN
    /\ harmed \in BOOLEAN
    /\ overlapped \in BOOLEAN

Init ==
    /\ next = 1
    /\ mem = [c \in Cmds |-> "absent"]
    /\ disk = [c \in Cmds |-> "absent"]
    /\ waiter = [c \in Cmds |-> "none"]
    /\ tick = [t \in Ticks |-> IdleTick]
    /\ executed = [c \in Cmds |-> 0]
    /\ outcome = [c \in Cmds |-> "none"]
    /\ rebooting = FALSE
    /\ harmed = FALSE
    /\ overlapped = FALSE

-----------------------------------------------------------------------------
(* Enqueuing.                                                              *)

Queued(m) == {c \in Cmds : m[c] # "absent"}
Pending(m) == {c \in Cmds : m[c] = "pending"}

\* The queue after "if (length > 100) shift()": the oldest entry goes,
\* whatever its status.
Capped(m) ==
    IF Cardinality(Queued(m)) <= QueueCap THEN {m}
    ELSE {[m EXCEPT ![c] = "absent"] : c \in {d \in Queued(m) : \A e \in Queued(m) : d <= e}}

\* POST /api/customer/box/action on a box that is online: push, cap, save,
\* and hold the request open for the result.
Request ==
    /\ next \in Cmds
    /\ next' = next + 1
    /\ mem' \in Capped([mem EXCEPT ![next] = "pending"])
    /\ disk' = mem'
    /\ waiter' = [waiter EXCEPT ![next] = "waiting"]
    /\ UNCHANGED boxVars
    /\ UNCHANGED history

\* _queueBoxCmd and the handlers and timers that push inline: no cap, and the
\* state file is left to a later save.
Enqueue ==
    /\ next \in Cmds
    /\ next' = next + 1
    /\ mem' = [mem EXCEPT ![next] = "pending"]
    /\ UNCHANGED <<disk, waiter>>
    /\ UNCHANGED boxVars
    /\ UNCHANGED history

\* The open request looks at the command every 250 ms ...
WaiterReply(c) ==
    /\ waiter[c] = "waiting"
    /\ mem[c] \in Finished
    /\ waiter' = [waiter EXCEPT ![c] = mem[c]]
    /\ UNCHANGED <<next, mem, disk>>
    /\ UNCHANGED boxVars
    /\ UNCHANGED history

\* ... and after 15 s answers that the box will execute it on its next poll.
WaiterTimeout(c) ==
    /\ waiter[c] = "waiting"
    /\ waiter' = [waiter EXCEPT ![c] = "queued"]
    /\ UNCHANGED <<next, mem, disk>>
    /\ UNCHANGED boxVars
    /\ UNCHANGED history

-----------------------------------------------------------------------------
(* The box polls, runs and reports.                                        *)

Start(m) == [c \in Cmds |-> IF m[c] = "pending" THEN "in_progress" ELSE m[c]]

\* What the poll handler leaves in the state file.
PollSave_Skipped(m) == disk
PollSave(m) == m

\* GET /api/box/commands at the cloud: every pending command is handed out
\* and marked, the mark is saved, and the answer is on its way.  An answer
\* without commands changes nothing.
HandlePoll(t) ==
    /\ tick[t].pc = "idle"
    /\ Pending(mem) # {}
    /\ mem' = Start(mem)
    /\ disk' = PollSave(Start(mem))
    /\ tick' = [tick EXCEPT ![t] = [pc |-> "polling", batch |-> Pending(mem), cmd |-> 0]]
    /\ UNCHANGED <<next, waiter, executed, outcome, rebooting>>
    /\ overlapped' = (overlapped \/ \E u \in Ticks \ {t} : tick[u].pc # "idle")
    /\ UNCHANGED harmed

PollAnswered(t) ==
    /\ tick[t].pc = "polling"
    /\ tick' = [tick EXCEPT ![t].pc = "running"]
    /\ UNCHANGED cloudVars
    /\ UNCHANGED <<executed, outcome, rebooting>>
    /\ UNCHANGED history

\* The answer never arrives: the agent logs "cmd poll failed" and goes on.
PollLost(t) ==
    /\ "lost_answer" \in Faults
    /\ tick[t].pc = "polling"
    /\ tick' = [tick EXCEPT ![t] = IdleTick]
    /\ UNCHANGED cloudVars
    /\ UNCHANGED <<executed, outcome, rebooting>>
    /\ harmed' = TRUE
    /\ UNCHANGED overlapped

\* The commands of a batch are run in the order of the array.
FirstOf_Any(b) == b
FirstOf(b) == {c \in b : \A d \in b : c <= d}

\* runAction on the next command of the batch; a failure is a result too.  A
\* reboot is only scheduled, one second from now.
Execute(t, o) ==
    /\ tick[t].pc = "running"
    /\ \E c \in FirstOf(tick[t].batch) :
        /\ tick' = [tick EXCEPT ![t] =
                [pc |-> "posting", batch |-> tick[t].batch \ {c}, cmd |-> c]]
        /\ executed' = [executed EXCEPT ![c] = @ + 1]
        /\ outcome' = [outcome EXCEPT ![c] = o]
        /\ rebooting' = (rebooting \/ (c \in Reboots /\ o = "completed"))
    /\ UNCHANGED cloudVars
    /\ UNCHANGED history

\* The tick goes on with the rest of the batch, or is over.
NextOf_DropsRest(tk) == IdleTick

NextOf(tk) ==
    IF tk.batch = {} THEN IdleTick
    ELSE [pc |-> "running", batch |-> tk.batch, cmd |-> 0]

Report_Forgotten(m, c) == m
Report_AlwaysCompleted(m, c) == [m EXCEPT ![c] = "completed"]
Report(m, c) == [m EXCEPT ![c] = outcome[c]]

\* POST /api/box/commands/:id/result at the cloud; 404 if it is not there.
ResultHandled(t) ==
    /\ tick[t].pc = "posting"
    /\ IF mem[tick[t].cmd] = "absent"
       THEN UNCHANGED <<mem, disk>>
       ELSE mem' = Report(mem, tick[t].cmd) /\ disk' = mem'
    /\ tick' = [tick EXCEPT ![t] = NextOf(tick[t])]
    /\ UNCHANGED <<next, waiter, executed, outcome, rebooting>>
    /\ UNCHANGED history

\* The post fails and is not tried again.
ResultLost(t) ==
    /\ "lost_result" \in Faults
    /\ tick[t].pc = "posting"
    /\ tick' = [tick EXCEPT ![t] = NextOf(tick[t])]
    /\ UNCHANGED cloudVars
    /\ UNCHANGED <<executed, outcome, rebooting>>
    /\ harmed' = TRUE
    /\ UNCHANGED overlapped

\* The agent starts afresh: because of a reboot command, or any other cause.
\* Batches are only in its memory.
AgentRestart ==
    /\ rebooting \/ "agent_restart" \in Faults
    /\ tick' = [t \in Ticks |-> IdleTick]
    /\ rebooting' = FALSE
    /\ UNCHANGED cloudVars
    /\ UNCHANGED <<executed, outcome>>
    /\ harmed' = TRUE
    /\ UNCHANGED overlapped

-----------------------------------------------------------------------------
(* The cloud's own events.                                                 *)

\* saveState, by its timer or by any other handler.
Save ==
    /\ disk # mem
    /\ disk' = mem
    /\ UNCHANGED <<next, mem, waiter>>
    /\ UNCHANGED boxVars
    /\ UNCHANGED history

\* The process dies and loads the state file; open requests are cut off.
CloudCrash ==
    /\ "cloud_crash" \in Faults
    /\ mem' = disk
    /\ waiter' = [c \in Cmds |-> IF waiter[c] = "waiting" THEN "none" ELSE waiter[c]]
    /\ UNCHANGED <<next, disk>>
    /\ UNCHANGED boxVars
    /\ harmed' = TRUE
    /\ UNCHANGED overlapped

\* POST /admin/api/macs/revoke deletes the queue of the box.
Revoke ==
    /\ "revoke" \in Faults
    /\ mem' = [c \in Cmds |-> "absent"]
    /\ disk' = mem'
    /\ UNCHANGED <<next, waiter>>
    /\ UNCHANGED boxVars
    /\ harmed' = TRUE
    /\ UNCHANGED overlapped

Next ==
    \/ Request \/ Enqueue \/ Save \/ CloudCrash \/ Revoke \/ AgentRestart
    \/ \E c \in Cmds : WaiterReply(c) \/ WaiterTimeout(c)
    \/ \E t \in Ticks : HandlePoll(t) \/ PollAnswered(t) \/ PollLost(t)
    \/ \E t \in Ticks, o \in Finished : Execute(t, o)
    \/ \E t \in Ticks : ResultHandled(t) \/ ResultLost(t)

\* The box polls once a minute, its requests are answered, runAction returns
\* (every action is bounded by a timeout), a due reboot happens, and open
\* requests end.  The answer of a poll that may be lost is not always lost.
Fairness ==
    /\ \A t \in Ticks :
        /\ WF_vars(HandlePoll(t))
        /\ SF_vars(PollAnswered(t))
        /\ WF_vars(\E o \in Finished : Execute(t, o))
        /\ SF_vars(ResultHandled(t))
    /\ WF_vars(rebooting /\ AgentRestart)
    /\ \A c \in Cmds : WF_vars(WaiterReply(c) \/ WaiterTimeout(c))

Spec == Init /\ [][Next]_vars
FairSpec == Spec /\ Fairness

-----------------------------------------------------------------------------
(* Properties.                                                             *)

\* "Mark them as in_progress when delivered (so we don't re-deliver)": no
\* command runs twice, also when ticks of the agent overlap and when the cloud
\* restarts from its state file between handing a command out and its result.
AtMostOnce == \A c \in Cmds : executed[c] <= 1

\* What the cloud says about a command is what the box did: a finished status
\* and the reply to the customer are the outcome of a run of that command.
ResultsTrue ==
    \A c \in Cmds :
        /\ mem[c] \in Finished => executed[c] > 0 /\ mem[c] = outcome[c]
        /\ waiter[c] \in Finished => executed[c] > 0 /\ waiter[c] = outcome[c]

\* Commands take effect in the order in which they were queued, as a switch of
\* network mode (stop the old one, start the new one) relies on, whatever is
\* lost or restarted; unless ticks of the agent overlap.
InOrder ==
    [][~overlapped' => \A c \in Cmds : executed'[c] # executed[c] =>
            \A d \in Cmds : d > c => executed[d] = 0]_vars

\* Until something is cut short, a command marked in_progress is in the hands of
\* a tick: it does not sit in the queue for ever with nobody working on it.
Holds(t, c) ==
    c \in tick[t].batch \/ (tick[t].pc = "posting" /\ tick[t].cmd = c)

InProgressHeld ==
    ~harmed =>
        \A c \in Cmds : mem[c] = "in_progress" => \E t \in Ticks : Holds(t, c)

\* Every pending command is finished, or removed from the queue, unless
\* something is cut short on the way.
EventuallyFinished ==
    \A c \in Cmds :
        mem[c] = "pending" ~> (mem[c] \in Finished \cup {"absent"} \/ harmed)

-----------------------------------------------------------------------------
(* The strengthening that makes AtMostOnce inductive: a command that a tick *)
(* holds or the box has run is pending neither in memory nor on disk.      *)

GivenOut == {c \in Cmds : executed[c] > 0 \/ \E t \in Ticks : c \in tick[t].batch}

HandedOutOnce ==
    /\ \A c \in GivenOut : mem[c] # "pending" /\ disk[c] # "pending" /\ c < next
    /\ \A t \in Ticks, c \in Cmds : c \in tick[t].batch => executed[c] = 0
    /\ \A t, u \in Ticks : t # u => tick[t].batch \cap tick[u].batch = {}
    /\ \A c \in Cmds : c >= next => mem[c] = "absent" /\ disk[c] = "absent"

\* What a tick posts is the outcome of a command that was run.
PostsOutcome ==
    \A t \in Ticks : tick[t].pc = "posting" =>
        /\ tick[t].cmd \in Cmds
        /\ outcome[tick[t].cmd] \in Finished
        /\ executed[tick[t].cmd] > 0

IndInv == TypeOK /\ PostsOutcome /\ HandedOutOnce /\ AtMostOnce
=============================================================================
