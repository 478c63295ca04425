SPECIFICATION FairSpec
CONSTANTS
    Tabs <- MCTabs
    Runs <- MCRuns
    TabOf <- OneTab
    MaxPolls = 3
PROPERTY EveryPromiseResolves
CHECK_DEADLOCK FALSE
