\* The restart of create_app, which recovers nothing.
CONSTANTS
    r1 = r1
    r2 = r2
    t1 = t1
    t2 = t2
    t3 = t3
    q1 = q1
    q2 = q2
    Nobody = Nobody
    Runs = {r1}
    Tasks = {t1}
    Requests = {q1}
    DatabaseFaults = FALSE
    BootModes = {"serve"}
    MaxCrashes = 1
SPECIFICATION FairSpec
PROPERTIES CrashesAreRecovered
CHECK_DEADLOCK FALSE
