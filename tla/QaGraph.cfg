\* All gateways, the source's limits and smaller ones, two pages of evidence.
CONSTANTS
    c1 = c1
    c2 = c2
    c3 = c3
    p1 = p1
    p2 = p2
    p3 = p3
    Chunks = {c1, c2, c3}
    Pages = {p1, p2, p3}
    PageOf <- TwoPages
    MaxEvidence = 2
    MaxRetries = 2
    MaxItems = 2
    Limits <- AllLimits
    Gateways = {"live", "demo", "unset"}
SPECIFICATION Spec
INVARIANTS WithinBudget AnswerIsGrounded EventsTellTheEnding
PROPERTIES RunnerSpec Termination
CHECK_DEADLOCK FALSE
