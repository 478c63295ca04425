\* A failed run is retried while a client follows it.
CONSTANTS
    Nobody = Nobody
    Executions = {e1}
    Clients = {c1}
    MaxEvents = 2
    MaxExecutions = 2
    MaxConnects = 2
    MaxCrashes = 0
    MaxFaults = 0
SPECIFICATION Spec
INVARIANTS TerminalEventIsCurrent
CHECK_DEADLOCK FALSE
