\* A document is deleted while it is being imported.
CONSTANTS
    Nobody = Nobody
    Docs = {d1}
    Displaced = {}
    Workers = {w1}
    Requests = {q1}
    MAX_RETRIES = 2
    MaxAttempts = 8
    MaxCrashes = 0
SPECIFICATION Spec
PROPERTIES DeletedStaysDeleted
CHECK_DEADLOCK FALSE
