\* Two executions that may overlap, two streams, reconnects, faults and a crash.
CONSTANTS
    Nobody = Nobody
    Executions = {e1, e2}
    Clients = {c1}
    MaxEvents = 3
    MaxExecutions = 2
    MaxConnects = 2
    MaxCrashes = 1
    MaxFaults = 1
SPECIFICATION FairSpec
INVARIANTS LogIsContiguous NothingMissed SeenWhole
PROPERTIES EndIsHeard
CHECK_DEADLOCK FALSE
