\* A retry whose task overtakes the commit of the request.
CONSTANTS
    r1 = r1
    r2 = r2
    t1 = t1
    t2 = t2
    t3 = t3
    q1 = q1
    q2 = q2
    Nobody = Nobody
    Runs = {r1}
    Tasks = {t1, t2}
    Requests = {q1}
    DatabaseFaults = FALSE
    BootModes = {"recover"}
    MaxCrashes = 0
SPECIFICATION FairSpec
PROPERTIES QueuedEnds
CHECK_DEADLOCK FALSE
