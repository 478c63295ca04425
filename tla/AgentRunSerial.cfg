\* One retry request at a time, with database faults, a crash and both ways to boot.
CONSTANTS
    r1 = r1
    r2 = r2
    t1 = t1
    t2 = t2
    t3 = t3
    q1 = q1
    q2 = q2
    Nobody = Nobody
    Runs = {r1, r2}
    Tasks = {t1, t2, t3}
    Requests = {q1}
    DatabaseFaults = TRUE
    BootModes = {"recover", "serve"}
    MaxCrashes = 1
SPECIFICATION Spec
SYMMETRY Symmetry
INVARIANTS SerialInv NoDuplicateExecution
PROPERTIES LifecycleSpec
CHECK_DEADLOCK FALSE
