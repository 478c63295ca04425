\* Two finishes of one session at the same time.
CONSTANTS
    s1 = s1
    s2 = s2
    NoSession = NoSession
    Ungraded = Ungraded
    PageSize = 2
    MaxAnswers = 3
    Elsewhere <- OneElsewhere
    Sessions = {s1}
    Sizes <- TwoToThree
    Finishers = {f1, f2}
    f1 = f1
    f2 = f2
    Questions <- FourQuestions
    Judgements <- GoodAndReview
SPECIFICATION Spec
INVARIANTS FinishIsIdempotent
