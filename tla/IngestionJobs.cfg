\* Two documents, the file of one may be out of place; one worker that may die,
\* deletes and retries.
CONSTANTS
    Nobody = Nobody
    Docs = {d1, d2}
    Displaced = {d2}
    Workers = {w1}
    Requests = {q1}
    MAX_RETRIES = 2
    MaxAttempts = 8
    MaxCrashes = 1
SPECIFICATION FairSpec
INVARIANTS DocumentFollowsJob RunningIsHeldOrLeased AttemptsAreBounded
PROPERTIES SettledIsTerminal JobsSettle
CHECK_DEADLOCK FALSE
