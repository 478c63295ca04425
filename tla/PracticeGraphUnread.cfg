\* An evaluator model that grades without the answer.
CONSTANTS
    c1 = c1
    c2 = c2
    Chunks = {c1, c2}
    Questions <- TheQuestions
    Answers <- TheAnswers
    StepLists <- TheStepLists
    Targets = {1, 2, 3}
    Limits <- TheLimits
SPECIFICATION Spec
INVARIANT EveryGradeReadsItsAnswer
CHECK_DEADLOCK FALSE
