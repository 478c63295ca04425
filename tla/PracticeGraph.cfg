\* Trainings of one and of two questions, the source's limits and smaller ones.
CONSTANTS
    c1 = c1
    c2 = c2
    Chunks = {c1, c2}
    Questions <- TheQuestions
    Answers <- TheAnswers
    StepLists <- TheStepLists
    Targets = {1, 2, 3}
    Limits <- TheLimits
SPECIFICATION Spec
INVARIANTS RulesReadTheRightAnswer SummaryIsComplete NoSourceTwice
PROPERTY Termination
CHECK_DEADLOCK FALSE
