----------------------------- MODULE AnswerRules -----------------------------
(***************************************************************************)
(* The rules that grade without a model, or check what a model has graded  *)
(* (agents/rules/grading.py).  Scores are integers, in the smallest step a *)
(* rubric uses; numbers in answers are integers, in thousandths.           *)
(*                                                                         *)
(* A text is written in full-width or in half-width characters; what is    *)
(* left of it without blanks, widths and cases is a sequence of tokens,    *)
(* each with the set of the numbers it denotes: one or none.               *)
(***************************************************************************)
EXTENDS Integers, Sequences, SequencesExt

Token == [form : STRING, value : SUBSET Int]

Text == [wide : BOOLEAN, tokens : Seq(Token)]

\* normalize_answer makes the characters half-width; the choice of an option
\* is only stripped and put into upper case.
NormalForm(text) == text.tokens

SameOption(user, expected) == user = expected

\* The first number of a text, if there is one (_extract_number).
NumbersOf(text) ==
    LET numeric == SelectSeq(NormalForm(text), LAMBDA t : t.value # {})
    IN  IF numeric = <<>> THEN {} ELSE Head(numeric).value

Magnitude(n) == IF n < 0 THEN -n ELSE n

\* Less than 1 % away from the expected number, or equal to it.
CloseTo(number, expected) ==
    \/ expected # 0 /\ 100 * Magnitude(number - expected) < Magnitude(expected)
    \/ number = expected

\* grade_fill_blank: the same text, an equivalent form or a close number.
\* Numbers are compared with the expected answer only.
BlankIsFilled(user, expected, forms) ==
    \/ NormalForm(user) = NormalForm(expected)
    \/ \E form \in forms : NormalForm(user) = NormalForm(form)
    \/ \E u \in NumbersOf(user), e \in NumbersOf(expected) : CloseTo(u, e)

\* All or nothing: grade_choice and grade_fill_blank.
ObjectiveScore(met, max_score) == IF met THEN max_score ELSE 0

-----------------------------------------------------------------------------
(* Grades given by a model: a rubric maps its items to their maxima; a step *)
(* is the score the model gives for an item, which it may invent.           *)

Smaller(a, b) == IF a < b THEN a ELSE b

Larger(a, b) == IF a > b THEN a ELSE b

\* What a step adds to the total: nothing for an unknown item, never more
\* than the item allows.
Credit(step, rubric) ==
    IF step.item \in DOMAIN rubric
    THEN Smaller(Larger(0, step.score), rubric[step.item])
    ELSE 0

StepTotal(steps, rubric) ==
    FoldLeft(LAMBDA total, step : Credit(step, rubric) + total, 0, steps)

\* validate_step_scores: what is reported, and the total that is used anyway.
StepsAreValid(steps, rubric, max_total) ==
    /\ \A i \in DOMAIN steps :
          /\ steps[i].item \in DOMAIN rubric
          /\ steps[i].score \in 0 .. rubric[steps[i].item]
    /\ StepTotal(steps, rubric) <= max_total

ValidatedScore(steps, rubric, max_total) ==
    Smaller(StepTotal(steps, rubric), max_total)

\* The total of a rubric: the highest score of its question.
RubricTotal(rubric) == FoldFunction(+, 0, rubric)

=============================================================================
