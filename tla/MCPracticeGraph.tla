--------------------------- MODULE MCPracticeGraph ---------------------------
(* Instances of PracticeGraph for TLC.                                     *)
EXTENDS PracticeGraph

CONSTANTS c1, c2

word(form) == [form |-> form, value |-> {}]
number(form, n) == [form |-> form, value |-> {n}]
text(tokens) == [wide |-> FALSE, tokens |-> tokens]
wideText(tokens) == [wide |-> TRUE, tokens |-> tokens]

\* Option a in both widths; 2.00 and 2.01, which is less than 1 % off.
optionA == text(<<word("a")>>)
wideA == wideText(<<word("a")>>)
two == text(<<number("2.00", 2000)>>)
nearTwo == text(<<word("about"), number("2.01", 2010)>>)

TheAnswers == {optionA, wideA, nearTwo}

question(type, expected, rubric, sources) ==
    [type |-> type, expected |-> expected, rubric |-> rubric, sources |-> sources]

TheQuestions ==
    {question("choice", optionA, [R1 |-> 2], {c1}),
     question("fill_blank", two, [R1 |-> 1], {}),
     question("calculation", two, [R1 |-> 1, R2 |-> 2], {c1, c2})}

\* Steps in and out of range, of known and unknown items, and one twice.
step(id, n) == [item |-> id, score |-> n]
TheStepLists ==
    {<<step("R1", 1), step("R2", 1)>>, <<step("R1", 3), step("R2", 2)>>,
     <<step("R2", 2), step("R2", 2)>>, <<step("R9", 5)>>}

limitedTo(m, h) == [calls |-> m, hops |-> h]
TheLimits == {limitedTo(4, 8), limitedTo(1, 8), limitedTo(4, 1)}

=============================================================================
