------------------------------ MODULE GradeBook ------------------------------
(***************************************************************************)
(* What the rest of the API relies on when answers are graded: a question  *)
(* is graded once and in one step, which also logs what the grade does to  *)
(* the mastery of the knowledge point and enters a bad answer in the wrong *)
(* book.  Grading implements it; Training is built on it.                  *)
(*                                                                         *)
(* As in Grading: one user, one knowledge point.                           *)
(***************************************************************************)
EXTENDS MasteryRules, SequencesExt

CONSTANTS
    Questions,  \* practice items, of all sessions
    Judgements, \* what the grader may say of an answer
    Ungraded    \* no judgement yet

VARIABLES
    grade,      \* grade[q]: the judgement on the submission of question q
    changes,    \* mastery_change_logs of the grades, in commit order
    wrong       \* questions in the wrong book

bookVars == <<grade, changes, wrong>>

Change == [question : Questions, before : Level, after : Level]

BookTypeOK ==
    /\ grade \in [Questions -> Judgements \union {Ungraded}]
    /\ changes \in Seq(Change)
    /\ wrong \subseteq Questions

BookInit ==
    /\ grade = [q \in Questions |-> Ungraded]
    /\ changes = <<>>
    /\ wrong = {}

\* MasteryRecord.current_level, before the first grade that of a new row.
CurrentLevel == IF changes = <<>> THEN DefaultLevel ELSE Last(changes).after

NewLevel(j) ==
    IF IsGradable(j.confident, j.review) THEN ComputeMastery(CurrentLevel, j.ratio)
                                         ELSE CurrentLevel

Grade(q, j) ==
    /\ grade[q] = Ungraded
    /\ grade' = [grade EXCEPT ![q] = j]
    /\ changes' = Append(changes, [question |-> q, before |-> CurrentLevel,
                                   after |-> NewLevel(j)])
    /\ wrong' = wrong \union {w \in {q} : ShouldCreateWrongBook(j.ratio, j.review)}

BookNext == \E q \in Questions, j \in Judgements : Grade(q, j)

BookSpec == BookInit /\ [][BookNext]_bookVars

=============================================================================
