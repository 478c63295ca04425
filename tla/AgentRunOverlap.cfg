\* Two retry requests that overlap, and a crash with both ways to boot.
CONSTANTS
    r1 = r1
    r2 = r2
    t1 = t1
    t2 = t2
    t3 = t3
    q1 = q1
    q2 = q2
    Nobody = Nobody
    Runs = {r1}
    Tasks = {t1, t2}
    Requests = {q1, q2}
    DatabaseFaults = FALSE
    BootModes = {"recover", "serve"}
    MaxCrashes = 1
SPECIFICATION FairSpec
INVARIANTS RunningHasExecutor
PROPERTIES SerialRunningEnds UndisturbedQueuedEnds
CHECK_DEADLOCK FALSE
