------------------------- MODULE BoxCommandsProofs --------------------------
(***************************************************************************)
(* Proofs about BoxCommands: no command runs twice, what the cloud says of *)
(* a command is what the box did, under every fault and with any number of *)
(* overlapping ticks; until something is cut short, a command marked       *)
(* in_progress is held by a tick; and commands take effect in their order  *)
(* until ticks overlap.                                                    *)
(***************************************************************************)
EXTENDS BoxCommands, TLAPS

\* The cap only ever takes commands out of the queue.
LEMMA CappedProperties ==
    ASSUME NEW m \in [Cmds -> Status], NEW n \in Capped(m)
    PROVE  /\ n \in [Cmds -> Status]
           /\ \A c \in Cmds : n[c] = m[c] \/ n[c] = "absent"
<1>1. n = m \/ \E c \in Cmds : n = [m EXCEPT ![c] = "absent"]
  BY DEF Capped, Queued
<1> QED  BY <1>1 DEF Status

\* A tick that goes on keeps the rest of its batch and its type.
LEMMA NextOfProperties ==
    ASSUME NEW tk \in TickState
    PROVE  /\ NextOf(tk) \in TickState
           /\ NextOf(tk).batch = tk.batch
           /\ NextOf(tk).pc # "posting"
BY DEF NextOf, IdleTick, TickState

-----------------------------------------------------------------------------
(* Type correctness.                                                       *)

LEMMA TypeStep == TypeOK /\ PostsOutcome /\ [Next]_vars => TypeOK'
<1> SUFFICES ASSUME TypeOK, PostsOutcome, [Next]_vars
             PROVE  TypeOK'
  OBVIOUS
<1> USE DEF TypeOK, history
<1>1. "absent" \in Status /\ "pending" \in Status /\ "in_progress" \in Status
      /\ Finished \subseteq Status /\ IdleTick \in TickState
  BY DEF Status, IdleTick, TickState
<1>2. CASE Request
  <2>1. [mem EXCEPT ![next] = "pending"] \in [Cmds -> Status]
    BY <1>1
  <2>2. mem' \in [Cmds -> Status]
    BY <1>2, <2>1, CappedProperties DEF Request
  <2>3. next' \in 1..(MaxCommands + 1)
    BY <1>2, BoxCommandsAssumption DEF Request, Cmds
  <2> QED  BY <1>2, <2>2, <2>3 DEF Request, boxVars
<1>3. CASE Enqueue
  <2>1. next' \in 1..(MaxCommands + 1)
    BY <1>3, BoxCommandsAssumption DEF Enqueue, Cmds
  <2> QED  BY <1>1, <1>3, <2>1 DEF Enqueue, boxVars
<1>4. CASE Save
  BY <1>4 DEF Save, boxVars
<1>5. CASE CloudCrash
  BY <1>5 DEF CloudCrash, boxVars
<1>6. CASE Revoke
  BY <1>1, <1>6 DEF Revoke, boxVars
<1>7. CASE AgentRestart
  BY <1>1, <1>7 DEF AgentRestart, cloudVars
<1>8. ASSUME NEW c \in Cmds, WaiterReply(c) \/ WaiterTimeout(c)
      PROVE  TypeOK'
  BY <1>8 DEF WaiterReply, WaiterTimeout, boxVars
<1>9. ASSUME NEW t \in Ticks, HandlePoll(t)
      PROVE  TypeOK'
  <2>1. Start(mem) \in [Cmds -> Status]
    BY <1>1 DEF Start
  <2>2. [pc |-> "polling", batch |-> Pending(mem), cmd |-> 0] \in TickState
    BY DEF TickState, Pending
  <2> QED  BY <1>9, <2>1, <2>2 DEF HandlePoll, PollSave
<1>10. ASSUME NEW t \in Ticks, PollAnswered(t)
       PROVE  TypeOK'
  <2>1. [tick[t] EXCEPT !.pc = "running"] \in TickState
    BY DEF TickState
  <2> QED  BY <1>10, <2>1 DEF PollAnswered, cloudVars
<1>11. ASSUME NEW t \in Ticks, PollLost(t)
       PROVE  TypeOK'
  BY <1>1, <1>11 DEF PollLost, cloudVars
<1>12. ASSUME NEW t \in Ticks, NEW o \in Finished, Execute(t, o)
       PROVE  TypeOK'
  <2>1. PICK c \in FirstOf(tick[t].batch) :
          /\ tick' = [tick EXCEPT ![t] =
                [pc |-> "posting", batch |-> tick[t].batch \ {c}, cmd |-> c]]
          /\ executed' = [executed EXCEPT ![c] = @ + 1]
          /\ outcome' = [outcome EXCEPT ![c] = o]
          /\ rebooting' = (rebooting \/ (c \in Reboots /\ o = "completed"))
    BY <1>12 DEF Execute
  <2>2. tick[t].batch \in SUBSET Cmds /\ c \in Cmds
    BY DEF FirstOf, TickState
  <2>3. [pc |-> "posting", batch |-> tick[t].batch \ {c}, cmd |-> c] \in TickState
    BY <2>2 DEF TickState
  <2>4. tick' \in [Ticks -> TickState]
    BY <2>1, <2>3
  <2>5. executed' \in [Cmds -> Nat] /\ outcome' \in [Cmds -> {"none"} \cup Finished]
    BY <2>1, <2>2
  <2>6. rebooting' \in BOOLEAN
    BY <2>1
  <2> QED  BY <1>12, <2>4, <2>5, <2>6 DEF Execute, cloudVars
<1>13. ASSUME NEW t \in Ticks, ResultHandled(t)
       PROVE  TypeOK'
  <2>1. tick' \in [Ticks -> TickState]
    BY <1>13, NextOfProperties DEF ResultHandled
  <2>2. mem' \in [Cmds -> Status] /\ disk' \in [Cmds -> Status]
    <3>1. outcome[tick[t].cmd] \in Status
      BY <1>1, <1>13 DEF PostsOutcome, ResultHandled
    <3> QED  BY <1>13, <3>1 DEF ResultHandled, Report
  <2> QED  BY <1>13, <2>1, <2>2 DEF ResultHandled
<1>14. ASSUME NEW t \in Ticks, ResultLost(t)
       PROVE  TypeOK'
  BY <1>14, NextOfProperties DEF ResultLost, cloudVars
<1>15. CASE UNCHANGED vars
  BY <1>15 DEF vars
<1> QED
  BY <1>2, <1>3, <1>4, <1>5, <1>6, <1>7, <1>8, <1>9, <1>10, <1>11, <1>12, <1>13,
     <1>14, <1>15 DEF Next

-----------------------------------------------------------------------------
(* No command runs twice.                                                  *)

\* A command in the hands of a tick, or one that was run, is never pending
\* again, in memory or in the state file.
LEMMA HandedOutStep ==
    ASSUME IndInv, [Next]_vars
    PROVE  PostsOutcome' /\ HandedOutOnce' /\ AtMostOnce'
<1> USE DEF IndInv, TypeOK
<1>0. TypeOK'
  BY TypeStep
<1>1. IdleTick.batch = {} /\ IdleTick.pc = "idle"
  BY DEF IdleTick
<1>2. ASSUME UNCHANGED boxVars,
             next' \in {next, next + 1}, next' = next + 1 => next \in Cmds,
             \A c \in Cmds : mem'[c] \in {mem[c], "absent"} \/ mem'[c] = disk[c]
                                \/ (c = next /\ next' = next + 1),
             \A c \in Cmds : disk'[c] \in {disk[c], mem'[c]}
      PROVE  PostsOutcome' /\ HandedOutOnce' /\ AtMostOnce'
  <2>1. PostsOutcome' /\ AtMostOnce'
    BY <1>2 DEF PostsOutcome, AtMostOnce, boxVars
  <2>2. GivenOut' = GivenOut
    BY <1>2 DEF GivenOut, boxVars
  <2>3. next \in Int
    OBVIOUS
  <2>4. ASSUME NEW c \in GivenOut
        PROVE  mem'[c] # "pending" /\ disk'[c] # "pending" /\ c < next'
    <3>1. c \in Cmds /\ c < next /\ mem[c] # "pending" /\ disk[c] # "pending"
      BY DEF HandedOutOnce, GivenOut
    <3>2. mem'[c] # "pending"
      BY <1>2, <2>3, <3>1
    <3>3. disk'[c] \in {disk[c], mem'[c]}
      BY <1>2, <3>1
    <3>4. c < next'
      <4>1. next' = next \/ next' = next + 1
        BY <1>2
      <4> QED  BY <2>3, <3>1, <4>1 DEF Cmds
    <3> QED  BY <3>1, <3>2, <3>3, <3>4
  <2>5. ASSUME NEW c \in Cmds, c >= next'
        PROVE  mem'[c] = "absent" /\ disk'[c] = "absent"
    <3>1. c >= next /\ (next' = next + 1 => c # next) /\ c \in Int
      BY <1>2, <2>3, <2>5 DEF Cmds
    <3>2. mem[c] = "absent" /\ disk[c] = "absent"
      BY <3>1 DEF HandedOutOnce
    <3> QED  BY <1>2, <3>1, <3>2
  <2> QED  BY <1>2, <2>1, <2>2, <2>4, <2>5 DEF HandedOutOnce, boxVars
<1>3. CASE Request
  <2>1. \A c \in Cmds : mem'[c] \in {mem[c], "absent"} \/ c = next
    <3>1. [mem EXCEPT ![next] = "pending"] \in [Cmds -> Status]
      BY DEF Status
    <3> QED  BY <1>3, <3>1, CappedProperties DEF Request
  <2> QED  BY <1>2, <1>3, <2>1 DEF Request
<1>4. CASE Enqueue
  BY <1>2, <1>4 DEF Enqueue
<1>5. CASE Save
  BY <1>2, <1>5 DEF Save
<1>6. CASE CloudCrash
  BY <1>2, <1>6 DEF CloudCrash
<1>7. CASE Revoke
  BY <1>2, <1>7 DEF Revoke
<1>8. ASSUME NEW c \in Cmds, WaiterReply(c) \/ WaiterTimeout(c)
      PROVE  PostsOutcome' /\ HandedOutOnce' /\ AtMostOnce'
  BY <1>2, <1>8 DEF WaiterReply, WaiterTimeout
<1>9. ASSUME UNCHANGED cloudVars, UNCHANGED <<executed, outcome>>,
             \A t \in Ticks : tick'[t].batch \in {tick[t].batch, {}},
             \A t \in Ticks : tick'[t].pc = "posting" => tick'[t] = tick[t]
      PROVE  PostsOutcome' /\ HandedOutOnce' /\ AtMostOnce'
  <2>1. PostsOutcome' /\ AtMostOnce'
    BY <1>9 DEF PostsOutcome, AtMostOnce
  <2>2. GivenOut' \subseteq GivenOut
    BY <1>9 DEF GivenOut
  <2>3. \A t, u \in Ticks : t # u => tick'[t].batch \cap tick'[u].batch = {}
    BY <1>9 DEF HandedOutOnce
  <2>4. \A t \in Ticks, c \in Cmds : c \in tick'[t].batch => executed'[c] = 0
    BY <1>9 DEF HandedOutOnce
  <2> QED  BY <1>9, <2>1, <2>2, <2>3, <2>4 DEF HandedOutOnce, cloudVars
<1>10. CASE AgentRestart
  BY <1>1, <1>9, <1>10 DEF AgentRestart
<1>11. ASSUME NEW t \in Ticks, PollAnswered(t)
       PROVE  PostsOutcome' /\ HandedOutOnce' /\ AtMostOnce'
  <2>1. tick'[t] = [tick[t] EXCEPT !.pc = "running"] /\ tick[t] \in TickState
    BY <1>11 DEF PollAnswered
  <2>2. tick'[t].batch = tick[t].batch /\ tick'[t].pc = "running"
    BY <2>1 DEF TickState
  <2>3. \A u \in Ticks \ {t} : tick'[u] = tick[u]
    BY <1>11 DEF PollAnswered
  <2>4. /\ \A u \in Ticks : tick'[u].batch \in {tick[u].batch, {}}
        /\ \A u \in Ticks : tick'[u].pc = "posting" => tick'[u] = tick[u]
    BY <2>2, <2>3
  <2> QED  BY <1>9, <1>11, <2>4 DEF PollAnswered
<1>12. ASSUME NEW t \in Ticks, PollLost(t)
       PROVE  PostsOutcome' /\ HandedOutOnce' /\ AtMostOnce'
  BY <1>1, <1>9, <1>12 DEF PollLost
<1>13. ASSUME NEW t \in Ticks, ResultLost(t)
       PROVE  PostsOutcome' /\ HandedOutOnce' /\ AtMostOnce'
  <2>1. \A u \in Ticks \ {t} : tick'[u] = tick[u]
    BY <1>13 DEF ResultLost
  <2>2. tick'[t].batch = tick[t].batch /\ tick'[t].pc # "posting"
    BY <1>13, NextOfProperties DEF ResultLost
  <2> QED  BY <1>9, <1>13, <2>1, <2>2 DEF ResultLost
<1>14. ASSUME NEW t \in Ticks, HandlePoll(t)
       PROVE  PostsOutcome' /\ HandedOutOnce' /\ AtMostOnce'
  <2>1. /\ tick'[t].batch = Pending(mem) /\ tick'[t].pc = "polling"
        /\ \A u \in Ticks \ {t} : tick'[u] = tick[u]
        /\ mem' = Start(mem) /\ disk' = Start(mem)
        /\ UNCHANGED <<next, executed, outcome>>
    BY <1>14 DEF HandlePoll, PollSave
  <2>2. \A c \in Cmds : mem'[c] # "pending" /\ disk'[c] # "pending"
    BY <2>1 DEF Start
  <2>3. \A c \in Pending(mem) : c \in Cmds /\ c \notin GivenOut /\ c < next
    BY DEF HandedOutOnce, Pending, Cmds
  <2>4. GivenOut' \subseteq GivenOut \cup Pending(mem)
    BY <2>1 DEF GivenOut
  <2>5. \A c \in GivenOut' : mem'[c] # "pending" /\ disk'[c] # "pending" /\ c < next'
    BY <2>1, <2>2, <2>3, <2>4 DEF GivenOut, HandedOutOnce
  <2>6. \A u, v \in Ticks : u # v => tick'[u].batch \cap tick'[v].batch = {}
    BY <2>1, <2>3 DEF HandedOutOnce, GivenOut
  <2>7. \A u \in Ticks, c \in Cmds : c \in tick'[u].batch => executed'[c] = 0
    BY <2>1, <2>3 DEF HandedOutOnce, GivenOut
  <2>8. \A c \in Cmds : c >= next' => mem'[c] = "absent" /\ disk'[c] = "absent"
    BY <2>1 DEF HandedOutOnce, Start
  <2>9. PostsOutcome' /\ AtMostOnce'
    BY <2>1 DEF PostsOutcome, AtMostOnce
  <2> QED  BY <2>5, <2>6, <2>7, <2>8, <2>9 DEF HandedOutOnce
<1>15. ASSUME NEW t \in Ticks, NEW o \in Finished, Execute(t, o)
       PROVE  PostsOutcome' /\ HandedOutOnce' /\ AtMostOnce'
  <2>1. PICK c \in FirstOf(tick[t].batch) :
          /\ tick' = [tick EXCEPT ![t] =
                [pc |-> "posting", batch |-> tick[t].batch \ {c}, cmd |-> c]]
          /\ executed' = [executed EXCEPT ![c] = @ + 1]
          /\ outcome' = [outcome EXCEPT ![c] = o]
    BY <1>15 DEF Execute
  <2>2. c \in Cmds /\ c \in tick[t].batch /\ executed[c] = 0
    BY DEF FirstOf, TickState, HandedOutOnce
  <2>3. /\ tick'[t].batch = tick[t].batch \ {c}
        /\ tick'[t].pc = "posting" /\ tick'[t].cmd = c
        /\ \A u \in Ticks \ {t} : tick'[u] = tick[u]
    BY <2>1
  <2>4. /\ executed'[c] = 1 /\ outcome'[c] = o
        /\ \A d \in Cmds \ {c} : executed'[d] = executed[d] /\ outcome'[d] = outcome[d]
    BY <2>1, <2>2
  <2>5. GivenOut' \subseteq GivenOut
    BY <2>2, <2>3, <2>4 DEF GivenOut
  <2>6. \A u, v \in Ticks : u # v => tick'[u].batch \cap tick'[v].batch = {}
    BY <2>2, <2>3 DEF HandedOutOnce
  <2>7. \A u \in Ticks, d \in Cmds : d \in tick'[u].batch => executed'[d] = 0
    BY <2>2, <2>3, <2>4 DEF HandedOutOnce
  <2>8. UNCHANGED cloudVars
    BY <1>15 DEF Execute
  <2>9. PostsOutcome' /\ AtMostOnce'
    BY <2>2, <2>3, <2>4 DEF PostsOutcome, AtMostOnce
  <2> QED  BY <2>5, <2>6, <2>7, <2>8, <2>9 DEF HandedOutOnce, cloudVars
<1>16. ASSUME NEW t \in Ticks, ResultHandled(t)
       PROVE  PostsOutcome' /\ HandedOutOnce' /\ AtMostOnce'
  <2> DEFINE c == tick[t].cmd
  <2>1. c \in Cmds /\ outcome[c] \in Finished
    BY <1>16 DEF PostsOutcome, ResultHandled
  <2>2. /\ \A d \in Cmds : \/ mem'[d] = mem[d] /\ disk'[d] \in {disk[d], mem[d]}
                           \/ d = c /\ mem'[d] = outcome[c] /\ disk'[d] = outcome[c]
                                    /\ mem[d] # "absent"
    BY <1>16, <2>1 DEF ResultHandled, Report
  <2>3. outcome[c] # "pending"
    BY <2>1 DEF Finished
  <2>4. /\ tick'[t].batch = tick[t].batch /\ tick'[t].pc # "posting"
        /\ \A u \in Ticks \ {t} : tick'[u] = tick[u]
        /\ UNCHANGED <<next, executed, outcome>>
    BY <1>16, NextOfProperties DEF ResultHandled
  <2>5. GivenOut' = GivenOut
    BY <2>4 DEF GivenOut
  <2>6. \A d \in GivenOut' : mem'[d] # "pending" /\ disk'[d] # "pending" /\ d < next'
    BY <2>2, <2>3, <2>4, <2>5 DEF HandedOutOnce, GivenOut
  <2>7. \A d \in Cmds : d >= next' => mem'[d] = "absent" /\ disk'[d] = "absent"
    BY <2>2, <2>4 DEF HandedOutOnce
  <2>8. PostsOutcome' /\ AtMostOnce'
    BY <2>4 DEF PostsOutcome, AtMostOnce
  <2>9. /\ \A u \in Ticks : tick'[u].batch = tick[u].batch
    BY <2>4
  <2> QED  BY <2>4, <2>6, <2>7, <2>8, <2>9 DEF HandedOutOnce
<1>17. CASE UNCHANGED vars
  BY <1>17 DEF vars, PostsOutcome, HandedOutOnce, GivenOut, AtMostOnce
<1> QED
  BY <1>3, <1>4, <1>5, <1>6, <1>7, <1>8, <1>10, <1>11, <1>12, <1>13, <1>14, <1>15,
     <1>16, <1>17 DEF Next

\* The initial states satisfy the invariant.
LEMMA InitIndInv == Init => IndInv
<1> SUFFICES ASSUME Init PROVE IndInv
  OBVIOUS
<1>1. IdleTick \in TickState /\ IdleTick.batch = {} /\ IdleTick.pc = "idle"
  BY DEF IdleTick, TickState
<1>2. TypeOK
  <2>1. MaxCommands \in Nat
    BY BoxCommandsAssumption
  <2>2. next \in 1..(MaxCommands + 1)
    BY <2>1 DEF Init
  <2>3. tick \in [Ticks -> TickState]
    BY <1>1 DEF Init
  <2>4. /\ mem \in [Cmds -> Status] /\ disk \in [Cmds -> Status]
        /\ waiter \in [Cmds -> {"none", "waiting", "queued"} \cup Finished]
        /\ executed \in [Cmds -> Nat]
        /\ outcome \in [Cmds -> {"none"} \cup Finished]
        /\ rebooting \in BOOLEAN /\ harmed \in BOOLEAN /\ overlapped \in BOOLEAN
    BY DEF Init, Status
  <2> QED  BY <2>2, <2>3, <2>4 DEF TypeOK
<1>3. GivenOut = {}
  BY <1>1 DEF Init, GivenOut
<1>4. PostsOutcome /\ HandedOutOnce /\ AtMostOnce
  BY <1>1, <1>3 DEF Init, PostsOutcome, HandedOutOnce, AtMostOnce
<1> QED  BY <1>2, <1>4 DEF IndInv

\* The invariant: whatever is lost, restarted, revoked or overlaps, what the
\* box was given is never pending again.
THEOREM IndInvCorrect == Spec => []IndInv
<1>1. Init => IndInv
  BY InitIndInv
<1>2. IndInv /\ [Next]_vars => IndInv'
  BY TypeStep, HandedOutStep DEF IndInv
<1> QED  BY <1>1, <1>2, PTL DEF Spec

\* The types hold in every reachable state.
THEOREM TypeCorrect == Spec => []TypeOK
<1>1. IndInv => TypeOK
  BY DEF IndInv
<1> QED  BY <1>1, IndInvCorrect, PTL

\* No command is run twice, for any number of commands, ticks and faults.
THEOREM NeverTwice == Spec => []AtMostOnce
<1>1. IndInv => AtMostOnce
  BY DEF IndInv
<1> QED  BY <1>1, IndInvCorrect, PTL

-----------------------------------------------------------------------------
(* Until something is cut short nothing is in progress without a tick.     *)

IdleIsEmpty == \A t \in Ticks : tick[t].pc = "idle" => tick[t].batch = {}

HeldInv == IndInv /\ InProgressHeld /\ IdleIsEmpty

\* Every step that lets go of a command also finishes it, or is a fault.
LEMMA HeldStep ==
    ASSUME HeldInv, [Next]_vars
    PROVE  InProgressHeld' /\ IdleIsEmpty'
<1> USE DEF HeldInv, IndInv, TypeOK
<1>1. ASSUME UNCHANGED boxVars, UNCHANGED history,
             \A c \in Cmds : mem'[c] = "in_progress" => mem[c] = "in_progress"
      PROVE  InProgressHeld' /\ IdleIsEmpty'
  BY <1>1 DEF InProgressHeld, IdleIsEmpty, Holds, boxVars, history
<1>2. CASE Request
  <2>1. [mem EXCEPT ![next] = "pending"] \in [Cmds -> Status]
    BY DEF Status
  <2>2. \A c \in Cmds : mem'[c] \in {mem[c], "pending", "absent"}
    BY <1>2, <2>1, CappedProperties DEF Request
  <2> QED  BY <1>1, <1>2, <2>2 DEF Request
<1>3. CASE Enqueue
  BY <1>1, <1>3 DEF Enqueue
<1>4. CASE Save
  BY <1>1, <1>4 DEF Save
<1>5. ASSUME NEW c \in Cmds, WaiterReply(c) \/ WaiterTimeout(c)
      PROVE  InProgressHeld' /\ IdleIsEmpty'
  BY <1>1, <1>5 DEF WaiterReply, WaiterTimeout
<1>6. ASSUME harmed', \A t \in Ticks : tick'[t] \in {tick[t], IdleTick, NextOf(tick[t])}
      PROVE  InProgressHeld' /\ IdleIsEmpty'
  <2>1. \A t \in Ticks : NextOf(tick[t]).pc = "idle" => NextOf(tick[t]).batch = {}
    BY DEF NextOf, IdleTick
  <2> QED  BY <1>6, <2>1 DEF InProgressHeld, IdleIsEmpty, IdleTick
<1>7. CASE CloudCrash \/ Revoke \/ AgentRestart
  BY <1>6, <1>7 DEF CloudCrash, Revoke, AgentRestart, boxVars
<1>13. ASSUME NEW t \in Ticks, PollLost(t) \/ ResultLost(t)
       PROVE  InProgressHeld' /\ IdleIsEmpty'
  BY <1>6, <1>13 DEF PollLost, ResultLost
<1>8. ASSUME NEW t \in Ticks, HandlePoll(t)
      PROVE  InProgressHeld' /\ IdleIsEmpty'
  <2>1. /\ tick'[t].batch = Pending(mem) /\ tick'[t].pc = "polling"
        /\ \A u \in Ticks \ {t} : tick'[u] = tick[u]
        /\ tick[t].pc = "idle" /\ tick[t].batch = {}
        /\ mem' = Start(mem) /\ harmed' = harmed
    BY <1>8 DEF HandlePoll, IdleIsEmpty
  <2>2. ASSUME ~harmed, NEW c \in Cmds, mem'[c] = "in_progress"
        PROVE  \E u \in Ticks : Holds(u, c)'
    <3>1. CASE mem[c] = "pending"
      BY <2>1, <3>1 DEF Pending, Holds
    <3>2. CASE mem[c] # "pending"
      <4>1. mem[c] = "in_progress"
        BY <2>1, <2>2, <3>2 DEF Start
      <4>2. PICK u \in Ticks : Holds(u, c)
        BY <2>2, <4>1 DEF InProgressHeld
      <4>3. u # t
        BY <2>1, <4>2 DEF Holds
      <4> QED  BY <2>1, <4>2, <4>3 DEF Holds
    <3> QED  BY <3>1, <3>2
  <2> QED  BY <2>1, <2>2 DEF InProgressHeld, IdleIsEmpty
<1>9. ASSUME NEW t \in Ticks, PollAnswered(t)
      PROVE  InProgressHeld' /\ IdleIsEmpty'
  <2>1. tick'[t] = [tick[t] EXCEPT !.pc = "running"] /\ tick[t] \in TickState
    BY <1>9 DEF PollAnswered
  <2>2. tick'[t].batch = tick[t].batch /\ tick'[t].pc = "running"
    BY <2>1 DEF TickState
  <2>3. /\ \A u \in Ticks \ {t} : tick'[u] = tick[u]
        /\ tick[t].pc = "polling" /\ mem' = mem /\ harmed' = harmed
    BY <1>9 DEF PollAnswered, cloudVars, history
  <2> QED  BY <2>2, <2>3 DEF InProgressHeld, IdleIsEmpty, Holds
<1>10. ASSUME NEW t \in Ticks, NEW o \in Finished, Execute(t, o)
       PROVE  InProgressHeld' /\ IdleIsEmpty'
  <2>1. PICK c \in FirstOf(tick[t].batch) :
          /\ tick' = [tick EXCEPT ![t] =
                [pc |-> "posting", batch |-> tick[t].batch \ {c}, cmd |-> c]]
    BY <1>10 DEF Execute
  <2>2. /\ tick[t].pc = "running" /\ mem' = mem /\ harmed' = harmed
    BY <1>10, <2>1 DEF Execute, cloudVars, history
  <2>3. /\ tick'[t].batch = tick[t].batch \ {c}
        /\ tick'[t].pc = "posting" /\ tick'[t].cmd = c
        /\ \A u \in Ticks \ {t} : tick'[u] = tick[u]
    BY <2>1
  <2> QED  BY <2>2, <2>3 DEF InProgressHeld, IdleIsEmpty, Holds
<1>11. ASSUME NEW t \in Ticks, ResultHandled(t)
       PROVE  InProgressHeld' /\ IdleIsEmpty'
  <2> DEFINE c == tick[t].cmd
  <2>1. c \in Cmds /\ outcome[c] # "in_progress"
    BY <1>11 DEF PostsOutcome, ResultHandled, Finished
  <2>2. /\ mem'[c] # "in_progress"
        /\ \A d \in Cmds \ {c} : mem'[d] = mem[d]
    BY <1>11, <2>1 DEF ResultHandled, Report
  <2>3. /\ tick'[t] = NextOf(tick[t])
        /\ \A u \in Ticks \ {t} : tick'[u] = tick[u]
        /\ harmed' = harmed
    BY <1>11 DEF ResultHandled, history
  <2>4. /\ tick'[t].batch = tick[t].batch
        /\ tick'[t].pc = "idle" => tick[t].batch = {}
    BY <2>3, NextOfProperties DEF NextOf, IdleTick
  <2>5. ASSUME ~harmed, NEW d \in Cmds, mem'[d] = "in_progress"
        PROVE  \E u \in Ticks : Holds(u, d)'
    <3>1. d # c /\ mem[d] = "in_progress"
      BY <2>2, <2>5
    <3>2. PICK u \in Ticks : Holds(u, d)
      BY <2>5, <3>1 DEF InProgressHeld
    <3> QED  BY <2>3, <2>4, <3>1, <3>2 DEF Holds
  <2> QED  BY <2>3, <2>4, <2>5 DEF InProgressHeld, IdleIsEmpty
<1>12. CASE UNCHANGED vars
  BY <1>12 DEF vars, InProgressHeld, IdleIsEmpty, Holds
<1> QED
  BY <1>2, <1>3, <1>4, <1>5, <1>7, <1>8, <1>9, <1>10, <1>11, <1>12, <1>13 DEF Next

\* What InProgressHeld rests on holds in every reachable state.
THEOREM HeldInvCorrect == Spec => []HeldInv
<1>1. Init => HeldInv
  <2> SUFFICES ASSUME Init PROVE InProgressHeld /\ IdleIsEmpty
    BY InitIndInv DEF HeldInv
  <2> QED  BY DEF Init, InProgressHeld, IdleIsEmpty, IdleTick
<1>2. HeldInv /\ [Next]_vars => HeldInv'
  <2> SUFFICES ASSUME HeldInv, [Next]_vars PROVE HeldInv'
    OBVIOUS
  <2>1. IndInv'
    BY TypeStep, HandedOutStep DEF HeldInv, IndInv
  <2> QED  BY <2>1, HeldStep DEF HeldInv
<1> QED  BY <1>1, <1>2, PTL DEF Spec

\* Until an answer or a result is lost, a process restarts or the box is revoked,
\* every command marked in_progress is in the hands of a tick of the agent.
THEOREM NothingStuck == Spec => []InProgressHeld
<1>1. HeldInv => InProgressHeld
  BY DEF HeldInv
<1> QED  BY <1>1, HeldInvCorrect, PTL

-----------------------------------------------------------------------------
(* What the cloud says of a command is what the box did.                   *)

\* The state file says so as well: a cloud that restarts from it keeps to it.
DiskTrue ==
    \A c \in Cmds : disk[c] \in Finished => executed[c] > 0 /\ disk[c] = outcome[c]

TruthInv == IndInv /\ ResultsTrue /\ DiskTrue

\* A status comes from a result, and the command of a result does not run again.
LEMMA TruthStep ==
    ASSUME TruthInv, [Next]_vars
    PROVE  ResultsTrue' /\ DiskTrue'
<1> USE DEF TruthInv, IndInv, TypeOK
<1>1. ASSUME UNCHANGED <<executed, outcome>>,
             \A c \in Cmds : mem'[c] \in Finished => mem'[c] \in {mem[c], disk[c]},
             \A c \in Cmds : disk'[c] \in Finished => disk'[c] \in {mem[c], disk[c]},
             \A c \in Cmds : waiter'[c] \in Finished => waiter'[c] \in {waiter[c], mem[c]}
      PROVE  ResultsTrue' /\ DiskTrue'
  BY <1>1 DEF ResultsTrue, DiskTrue
<1>2. CASE Request
  <2>1. [mem EXCEPT ![next] = "pending"] \in [Cmds -> Status]
    BY DEF Status
  <2>2. \A c \in Cmds : mem'[c] \in {mem[c], "pending", "absent"}
    BY <1>2, <2>1, CappedProperties DEF Request
  <2>3. \A c \in Cmds : waiter'[c] \in {waiter[c], "waiting"}
    BY <1>2 DEF Request
  <2>4. disk' = mem' /\ UNCHANGED <<executed, outcome>>
    BY <1>2 DEF Request, boxVars
  <2> QED  BY <1>1, <2>2, <2>3, <2>4 DEF Finished
<1>3. CASE Enqueue
  BY <1>1, <1>3 DEF Enqueue, boxVars, Finished
<1>4. CASE Save
  BY <1>1, <1>4 DEF Save, boxVars
<1>5. CASE CloudCrash
  BY <1>1, <1>5 DEF CloudCrash, boxVars, Finished
<1>6. CASE Revoke
  BY <1>1, <1>6 DEF Revoke, boxVars, Finished
<1>7. CASE AgentRestart
  BY <1>1, <1>7 DEF AgentRestart, cloudVars
<1>8. ASSUME NEW c \in Cmds, WaiterReply(c) \/ WaiterTimeout(c)
      PROVE  ResultsTrue' /\ DiskTrue'
  <2>1. \A d \in Cmds : waiter'[d] \in {waiter[d], mem[d], "queued"}
    BY <1>8 DEF WaiterReply, WaiterTimeout
  <2> QED  BY <1>1, <1>8, <2>1 DEF WaiterReply, WaiterTimeout, boxVars, Finished
<1>9. ASSUME NEW t \in Ticks, HandlePoll(t)
      PROVE  ResultsTrue' /\ DiskTrue'
  <2>1. \A c \in Cmds : mem'[c] \in {mem[c], "in_progress"} /\ disk'[c] = mem'[c]
    BY <1>9 DEF HandlePoll, PollSave, Start
  <2> QED  BY <1>1, <1>9, <2>1 DEF HandlePoll, Finished
<1>10. ASSUME NEW t \in Ticks, PollAnswered(t) \/ PollLost(t) \/ ResultLost(t)
       PROVE  ResultsTrue' /\ DiskTrue'
  BY <1>1, <1>10 DEF PollAnswered, PollLost, ResultLost, cloudVars
<1>11. ASSUME NEW t \in Ticks, NEW o \in Finished, Execute(t, o)
       PROVE  ResultsTrue' /\ DiskTrue'
  <2>1. PICK c \in FirstOf(tick[t].batch) :
          /\ executed' = [executed EXCEPT ![c] = @ + 1]
          /\ outcome' = [outcome EXCEPT ![c] = o]
    BY <1>11 DEF Execute
  <2>2. c \in Cmds /\ executed[c] = 0
    BY DEF FirstOf, TickState, HandedOutOnce
  <2>3. mem[c] \notin Finished /\ disk[c] \notin Finished /\ waiter[c] \notin Finished
    BY <2>2 DEF ResultsTrue, DiskTrue
  <2>4. \A d \in Cmds \ {c} : executed'[d] = executed[d] /\ outcome'[d] = outcome[d]
    BY <2>1
  <2>5. UNCHANGED <<mem, disk, waiter>>
    BY <1>11 DEF Execute, cloudVars
  <2> QED  BY <2>3, <2>4, <2>5 DEF ResultsTrue, DiskTrue
<1>12. ASSUME NEW t \in Ticks, ResultHandled(t)
       PROVE  ResultsTrue' /\ DiskTrue'
  <2> DEFINE c == tick[t].cmd
  <2>1. c \in Cmds /\ outcome[c] \in Finished /\ executed[c] > 0
    BY <1>12 DEF PostsOutcome, ResultHandled
  <2>2. \A d \in Cmds \ {c} : mem'[d] = mem[d] /\ disk'[d] \in {mem[d], disk[d]}
    BY <1>12, <2>1 DEF ResultHandled, Report
  <2>3. mem'[c] \in {mem[c], outcome[c]} /\ disk'[c] \in {disk[c], outcome[c]}
    BY <1>12, <2>1 DEF ResultHandled, Report
  <2>4. UNCHANGED <<executed, outcome, waiter>>
    BY <1>12 DEF ResultHandled
  <2> HIDE DEF c
  <2> QED  BY <2>1, <2>2, <2>3, <2>4 DEF ResultsTrue, DiskTrue
<1>13. CASE UNCHANGED vars
  BY <1>1, <1>13 DEF vars
<1> QED
  BY <1>2, <1>3, <1>4, <1>5, <1>6, <1>7, <1>8, <1>9, <1>10, <1>11, <1>12, <1>13 DEF Next

\* A finished status and the reply to the customer are the outcome of a run of
\* that command on the box, whatever is lost, restarted, revoked or overlaps.
THEOREM ResultsCorrect == Spec => []ResultsTrue
<1>1. Init => TruthInv
  BY InitIndInv DEF Init, TruthInv, ResultsTrue, DiskTrue, Finished
<1>2. TruthInv /\ [Next]_vars => TruthInv'
  <2> SUFFICES ASSUME TruthInv, [Next]_vars PROVE TruthInv'
    OBVIOUS
  <2>1. IndInv'
    BY TypeStep, HandedOutStep DEF TruthInv, IndInv
  <2> QED  BY <2>1, TruthStep DEF TruthInv
<1>3. TruthInv => ResultsTrue
  BY DEF TruthInv
<1> QED  BY <1>1, <1>2, <1>3, PTL DEF Spec

-----------------------------------------------------------------------------
(* Commands take effect in their order.                                    *)

\* What the box was given was created before all that is still pending, in
\* memory and in the state file.
GivenFirst ==
    \A d \in GivenOut, c \in Cmds :
        mem[c] = "pending" \/ disk[c] = "pending" => d < c

\* What the box has run was created before all that a tick still holds, and
\* one tick at a time holds anything.
RunFirst ==
    \A t \in Ticks, d \in Cmds :
        executed[d] > 0 => \A c \in tick[t].batch : d < c

OneBusy == \A t, u \in Ticks : tick[t].pc # "idle" /\ tick[u].pc # "idle" => t = u

OrderInv == HeldInv /\ GivenFirst /\ (~overlapped => OneBusy /\ RunFirst)

LEMMA OrderStep ==
    ASSUME OrderInv, [Next]_vars
    PROVE  /\ GivenFirst'
           /\ ~overlapped' => OneBusy' /\ RunFirst'
           /\ ~overlapped' => \A c \in Cmds : executed'[c] # executed[c] =>
                  \A d \in Cmds : d > c => executed[d] = 0
<1> DEFINE Kept ==
           /\ GivenFirst'
           /\ ~overlapped' => OneBusy' /\ RunFirst'
           /\ ~overlapped' => \A c \in Cmds : executed'[c] # executed[c] =>
                  \A d \in Cmds : d > c => executed[d] = 0
<1> USE DEF OrderInv, HeldInv, IndInv, TypeOK
<1>1. ASSUME UNCHANGED <<executed, overlapped>>,
             \A t \in Ticks : tick'[t].batch \subseteq tick[t].batch,
             \A t \in Ticks : tick'[t].pc # "idle" => tick[t].pc # "idle",
             \A c \in Cmds : mem'[c] = "pending" \/ disk'[c] = "pending" =>
                  mem[c] = "pending" \/ disk[c] = "pending" \/ c = next
      PROVE  Kept
  <2>1. GivenOut' \subseteq GivenOut
    BY <1>1 DEF GivenOut
  <2>2. \A d \in GivenOut : d < next
    BY DEF HandedOutOnce
  <2>3. GivenFirst'
    BY <1>1, <2>1, <2>2 DEF GivenFirst
  <2>4. ~overlapped' => OneBusy' /\ RunFirst'
    BY <1>1 DEF OneBusy, RunFirst
  <2> QED  BY <1>1, <2>3, <2>4
<1>2. CASE Request
  <2>1. [mem EXCEPT ![next] = "pending"] \in [Cmds -> Status]
    BY DEF Status
  <2>2. \A c \in Cmds : mem'[c] \in {mem[c], "absent"} \/ c = next
    BY <1>2, <2>1, CappedProperties DEF Request
  <2> QED  BY <1>1, <1>2, <2>2 DEF Request, boxVars, history
<1>3. CASE Enqueue
  BY <1>1, <1>3 DEF Enqueue, boxVars, history
<1>4. CASE Save \/ CloudCrash
  BY <1>1, <1>4 DEF Save, CloudCrash, boxVars, history
<1>5. CASE Revoke
  BY <1>1, <1>5 DEF Revoke, boxVars
<1>6. CASE AgentRestart
  BY <1>1, <1>6 DEF AgentRestart, cloudVars, IdleTick
<1>7. ASSUME NEW c \in Cmds, WaiterReply(c) \/ WaiterTimeout(c)
      PROVE  Kept
  BY <1>1, <1>7 DEF WaiterReply, WaiterTimeout, boxVars, history
<1>8. ASSUME NEW t \in Ticks, PollAnswered(t)
      PROVE  Kept
  <2>1. tick'[t] = [tick[t] EXCEPT !.pc = "running"] /\ tick[t] \in TickState
    BY <1>8 DEF PollAnswered
  <2>2. tick'[t].batch = tick[t].batch
    BY <2>1 DEF TickState
  <2>3. tick[t].pc # "idle" /\ \A u \in Ticks \ {t} : tick'[u] = tick[u]
    BY <1>8 DEF PollAnswered
  <2> QED  BY <1>1, <1>8, <2>2, <2>3 DEF PollAnswered, cloudVars, history
<1>9. ASSUME NEW t \in Ticks, PollLost(t)
      PROVE  Kept
  BY <1>1, <1>9 DEF PollLost, cloudVars, IdleTick
<1>10. ASSUME NEW t \in Ticks, ResultLost(t)
       PROVE  Kept
  <2>1. /\ tick'[t].batch = tick[t].batch /\ tick[t].pc # "idle"
        /\ \A u \in Ticks \ {t} : tick'[u] = tick[u]
    BY <1>10, NextOfProperties DEF ResultLost
  <2> QED  BY <1>1, <1>10, <2>1 DEF ResultLost, cloudVars
<1>11. ASSUME NEW t \in Ticks, ResultHandled(t)
       PROVE  Kept
  <2>1. /\ tick'[t].batch = tick[t].batch /\ tick[t].pc # "idle"
        /\ \A u \in Ticks \ {t} : tick'[u] = tick[u]
    BY <1>11, NextOfProperties DEF ResultHandled
  <2>2. outcome[tick[t].cmd] # "pending"
    BY <1>11 DEF PostsOutcome, ResultHandled, Finished
  <2>3. \A c \in Cmds : mem'[c] = "pending" \/ disk'[c] = "pending" =>
            mem[c] = "pending" \/ disk[c] = "pending"
    BY <1>11, <2>2 DEF ResultHandled, Report
  <2> QED  BY <1>1, <1>11, <2>1, <2>3 DEF ResultHandled, history
<1>12. ASSUME NEW t \in Ticks, HandlePoll(t)
       PROVE  Kept
  <2>1. /\ tick'[t].batch = Pending(mem) /\ tick'[t].pc = "polling"
        /\ tick[t].pc = "idle"
        /\ \A u \in Ticks \ {t} : tick'[u] = tick[u]
        /\ mem' = Start(mem) /\ disk' = Start(mem) /\ executed' = executed
        /\ overlapped' = (overlapped \/ \E u \in Ticks \ {t} : tick[u].pc # "idle")
    BY <1>12 DEF HandlePoll, PollSave
  <2>2. GivenFirst'
    BY <2>1 DEF GivenFirst, Start
  <2>3. ASSUME ~overlapped'
        PROVE  OneBusy' /\ RunFirst'
    <3>1. ~overlapped /\ \A u \in Ticks \ {t} : tick[u].pc = "idle"
      BY <2>1, <2>3
    <3>2. OneBusy'
      BY <2>1, <3>1 DEF OneBusy
    <3>3. \A d \in Cmds : executed[d] > 0 => \A c \in Pending(mem) : d < c
      BY DEF GivenFirst, GivenOut, Pending
    <3>4. RunFirst'
      BY <2>1, <3>1, <3>3 DEF RunFirst
    <3> QED  BY <3>2, <3>4
  <2> QED  BY <2>1, <2>2, <2>3
<1>13. ASSUME NEW t \in Ticks, NEW o \in Finished, Execute(t, o)
       PROVE  Kept
  <2>1. PICK c \in FirstOf(tick[t].batch) :
          /\ tick' = [tick EXCEPT ![t] =
                [pc |-> "posting", batch |-> tick[t].batch \ {c}, cmd |-> c]]
          /\ executed' = [executed EXCEPT ![c] = @ + 1]
    BY <1>13 DEF Execute
  <2>2. /\ c \in Cmds /\ c \in tick[t].batch
        /\ \A d \in tick[t].batch : d \in Cmds /\ c <= d
    BY DEF FirstOf, TickState
  <2>3. /\ tick'[t].batch = tick[t].batch \ {c} /\ tick'[t].pc = "posting"
        /\ tick[t].pc = "running"
        /\ \A u \in Ticks \ {t} : tick'[u] = tick[u]
    BY <1>13, <2>1 DEF Execute
  <2>4. \A d \in Cmds \ {c} : executed'[d] = executed[d]
    BY <2>1
  <2>5. UNCHANGED <<mem, disk, overlapped>>
    BY <1>13 DEF Execute, cloudVars, history
  <2>6. GivenOut' \subseteq GivenOut
    BY <2>2, <2>3, <2>4 DEF GivenOut
  <2>7. GivenFirst'
    BY <2>5, <2>6 DEF GivenFirst
  <2>8. ASSUME ~overlapped'
        PROVE  /\ OneBusy' /\ RunFirst'
               /\ \A d \in Cmds : d > c => executed[d] = 0
    <3>1. \A u \in Ticks \ {t} : tick[u].pc = "idle" /\ tick[u].batch = {}
      BY <2>3, <2>5, <2>8 DEF OneBusy, IdleIsEmpty
    <3>2. OneBusy'
      BY <2>3, <3>1 DEF OneBusy
    <3>3. \A d \in tick'[t].batch : c < d
      BY <2>2, <2>3 DEF Cmds
    <3>4. \A d \in Cmds : executed[d] > 0 => \A e \in tick[t].batch : d < e
      BY <2>5, <2>8 DEF RunFirst
    <3>5. RunFirst'
      BY <2>3, <2>4, <3>1, <3>3, <3>4 DEF RunFirst
    <3>6. \A d \in Cmds : d > c => executed[d] = 0
      BY <2>2, <3>4 DEF Cmds
    <3> QED  BY <3>2, <3>5, <3>6
  <2> QED  BY <2>4, <2>7, <2>8
<1>14. CASE UNCHANGED vars
  BY <1>1, <1>14 DEF vars
<1> QED
  BY <1>2, <1>3, <1>4, <1>5, <1>6, <1>7, <1>8, <1>9, <1>10, <1>11, <1>12, <1>13, <1>14 DEF Next

\* A command takes effect before every later one, whatever is lost, restarted or
\* revoked, until ticks of the agent overlap.
THEOREM OrderCorrect == Spec => InOrder
<1>1. Init => GivenFirst /\ OneBusy /\ RunFirst
  BY DEF Init, GivenFirst, GivenOut, OneBusy, RunFirst, IdleTick
<1>2. OrderInv /\ [Next]_vars => (GivenFirst /\ (~overlapped => OneBusy /\ RunFirst))'
  BY OrderStep
<1>3. OrderInv /\ [Next]_vars =>
        [~overlapped' => \A c \in Cmds : executed'[c] # executed[c] =>
            \A d \in Cmds : d > c => executed[d] = 0]_vars
  BY OrderStep
<1>4. OrderInv <=> HeldInv /\ GivenFirst /\ (~overlapped => OneBusy /\ RunFirst)
  BY DEF OrderInv
<1> QED  BY <1>1, <1>2, <1>3, <1>4, HeldInvCorrect, PTL DEF Spec, InOrder
=============================================================================
