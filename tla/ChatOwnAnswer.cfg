SPECIFICATION ChatSpec
CONSTANTS
    Tabs <- MCTabs
    Runs <- MCRuns
    TabOf <- OneTab
    MaxPolls = 3
INVARIANT PollEndsWithItsAnswer
CHECK_DEADLOCK FALSE
