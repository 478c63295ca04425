----------------------------- MODULE MCGrading ------------------------------
(* Instances of Grading for TLC.                                           *)
EXTENDS Grading, TLC

CONSTANTS i1, i2, i3, k1, k2, k3, q1, q2

judged(ratio, review, confident) ==
    [ratio |-> ratio, review |-> review, confident |-> confident]

Good90 == {judged(90, FALSE, TRUE)}

\* Good, bad, due for review, and without any confidence.
GoodBadAndDoubtful ==
    Good90 \union {judged(30, FALSE, TRUE), judged(90, TRUE, TRUE), judged(30, FALSE, FALSE)}

Symmetry == Permutations(Items) \union Permutations(Keys) \union Permutations(Requests)

=============================================================================
