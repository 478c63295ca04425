SPECIFICATION FairSpec
CONSTANTS
    Tabs <- MCTabs
    Runs <- MCRuns
    TabOf <- OneTab
    MaxPolls = 3
INVARIANTS AnswerFollowsQuestion NumbersHaveNoGap
PROPERTY AskingEnds
CHECK_DEADLOCK FALSE
