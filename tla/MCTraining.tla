----------------------------- MODULE MCTraining -----------------------------
(* Instances of Training for TLC.                                          *)
EXTENDS Training

CONSTANTS s1, s2, f1, f2

judged(ratio, review) == [ratio |-> ratio, review |-> review, confident |-> TRUE]

\* Good, and good but due for review: the one changes the level, the other makes
\* an entry in the wrong book.
GoodAndReview == {judged(90, FALSE), judged(90, TRUE)}

OneElsewhere == {<<s2, 1>>}

FourQuestions == (Sessions \X (1 .. 3)) \union OneElsewhere

TwoToThree == {2, 3}

=============================================================================
