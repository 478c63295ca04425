----------------------------- MODULE MCQaGraph ------------------------------
(* Instances of QaGraph for TLC.                                           *)
EXTENDS QaGraph

CONSTANTS c1, c2, c3, p1, p2, p3

\* Two chunks of one page, one of another; nothing is on the third page.
TwoPages == [c \in {c1, c2, c3} |-> IF c = c3 THEN p2 ELSE p1]

limitedTo(m, h) == [calls |-> m, hops |-> h]

SourceLimits == {limitedTo(4, 8)}

\* The limits of graph.py, and smaller ones, each of which stops some node.
AllLimits ==
    SourceLimits \union
    {limitedTo(0, 8), limitedTo(2, 8), limitedTo(3, 8),
     limitedTo(4, 1), limitedTo(4, 2), limitedTo(4, 3)}

=============================================================================
