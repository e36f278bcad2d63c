SPECIFICATION FairSpec
CONSTANTS
    MaxCommands = 3
    QueueCap = 2
    Ticks = {t1, t2}
    Reboots = {1}
    Faults = {"lost_answer", "lost_result", "agent_restart", "cloud_crash", "revoke"}
INVARIANTS
    AtMostOnce
    ResultsTrue
    InProgressHeld
PROPERTIES
    InOrder
    EventuallyFinished
CHECK_DEADLOCK FALSE
