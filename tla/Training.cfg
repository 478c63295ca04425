\* One session of three questions and one question elsewhere, three answers, one finish at a time.
CONSTANTS
    s1 = s1
    s2 = s2
    NoSession = NoSession
    Ungraded = Ungraded
    PageSize = 2
    MaxAnswers = 3
    Elsewhere <- OneElsewhere
    Sessions = {s1}
    Sizes <- TwoToThree
    Finishers = {f1}
    f1 = f1
    f2 = f2
    Questions <- FourQuestions
    Judgements <- GoodAndReview
SPECIFICATION Spec
INVARIANTS FinishIsIdempotent CurrentItemIsFirstOpen ReportsAgree
