-------------------------------- MODULE MCDates --------------------------------
(* Small instances of the life of an account, of the rules of a house, and   *)
(* of what a deleted account leaves behind: what calls change and what timers *)
(* do when a date has come.  They share no state: one of them runs at a time. *)
EXTENDS AccountLifecycle, HouseRules, StateIntegrity

VARIABLE subject      \* the module that runs

datesVars == <<lifeVars, houseVars, integrityVars, subject>>

DatesInit == subject \in {"account", "house", "remains"} /\ LifeInit /\ HouseInit /\ IntegrityInit

Life(A) == subject = "account" /\ A /\ UNCHANGED <<houseVars, integrityVars, subject>>
HouseHeld(A) == subject = "house" /\ A /\ UNCHANGED <<lifeVars, integrityVars, subject>>
Remains(A) == subject = "remains" /\ A /\ UNCHANGED <<lifeVars, houseVars, subject>>

DatesNext == Life(LifeNext) \/ HouseHeld(HouseNext) \/ Remains(IntegrityNext)

\* Days pass, and the timers of the cloud fire, the sweep of the rules among them.
DatesFairness ==
    /\ WF_datesVars(Life(Day)) /\ WF_datesVars(Life(AutoResume))
    /\ WF_datesVars(Life(TrialJob)) /\ WF_datesVars(Life(ScheduledDeletions))
    /\ WF_datesVars(HouseHeld(Sweep))

DatesSpec == DatesInit /\ [][DatesNext]_datesVars /\ DatesFairness

-----------------------------------------------------------------------------
\* The records of an account agree: its plan with the log of plan changes, its bills with the
\* periods, the code and the reminders (AccountLifecycle); and no box names a customer that was
\* deleted, unless somebody named it so since (StateIntegrity).  The types come first.
BooksSound ==
    /\ LifeTypeOK /\ HouseTypeOK /\ IntegrityTypeOK
    /\ PlanAccounted /\ BillingSound /\ BoxesLetGo

\* An account is deleted when its grace is over and not before (AccountLifecycle), and the repair
\* of what deletions leave behind takes nothing that a customer, a box or a member still has
\* (StateIntegrity).
DeletionsHold == DeletionGrace /\ RepairSpares

\* Every date that was set comes to its effect: a pause, a trial and a deletion end, and the
\* customer is told of a rule that expired; until then what was switched on or off is obeyed
\* (AccountLifecycle, HouseRules).
DatesKept == DatesCome /\ ExpiryTold /\ SwitchObeyed
=============================================================================
