---------------------------- MODULE PracticeGraph ----------------------------
(***************************************************************************)
(* One training on the practice graph (agents/graph_practice.py): the      *)
(* coordinator, then for each question the questioner, the interrupt that  *)
(* waits for the student, and the evaluator; at last the summary.  A       *)
(* checkpointer keeps the state while the graph waits.                     *)
(*                                                                         *)
(* LangGraph hands every node a copy of the state's channels and merges    *)
(* what the node returns: the counters a node increments in its copy are   *)
(* lost unless it returns them, and here only error returns do.            *)
(***************************************************************************)
EXTENDS AnswerRules, FiniteSets

CONSTANTS
    Chunks,      \* knowledge chunks
    Questions,   \* what the questioner model may return
    Answers,     \* what the student may submit
    StepLists,   \* step scores the evaluator model may return
    Targets,     \* filters.target_count
    Limits       \* settings of MAX_MODEL_CALLS and MAX_NODE_HOPS

\* A GeneratedQuestionPrivate: only the fields that decide something.  Its
\* rubric maps each item to its maximal score; sources is what it cites.
Question ==
    [type : {"choice", "fill_blank", "calculation", "short_answer"},
     expected : Text, rubric : UNION {[ids -> Nat \ {0}] : ids \in (SUBSET STRING) \ {{}}},
     sources : SUBSET Chunks]

ASSUME ConstantsAssumption ==
    /\ \A q \in Questions :
          /\ q.type \in {"choice", "fill_blank", "calculation", "short_answer"}
          /\ q.sources \subseteq Chunks
          /\ DOMAIN q.rubric # {} /\ IsFiniteSet(DOMAIN q.rubric)
          /\ \A id \in DOMAIN q.rubric : q.rubric[id] \in Nat \ {0}
    /\ StepLists \subseteq Seq([item : STRING, score : Nat])
    /\ Targets \subseteq Nat \ {0}
    /\ Limits \subseteq [calls : Nat \ {0}, hops : Nat \ {0}]

VARIABLES
    limit,      \* MAX_MODEL_CALLS and MAX_NODE_HOPS, fixed for the training
    target,     \* AgentState.target_count
    pc,         \* the node to execute, what it awaits, or where it has ended
    hops,       \* AgentState.node_hops, the channel
    calls,      \* AgentState.model_calls, the channel
    index,      \* AgentState.current_item_index
    items,      \* AgentState.practice_items
    shown,      \* order_no of AgentState.current_public_question, 0 without
    answer,     \* AgentState.user_answer, and the question it was given to
    excluded,   \* AgentState.exclude_chunk_ids
    found,      \* the candidates of the question being generated
    summary,    \* AgentState.practice_summary
    error,      \* AgentState.error
    trail       \* the events published so far

settings == <<limit, target>>
counters == <<hops, calls>>
work == <<index, items, shown, excluded>>
vars == <<settings, pc, counters, work, answer, found, summary, error, trail>>

-----------------------------------------------------------------------------
(* Types                                                                   *)

PC == {"coordinator", "questioner", "generate", "wait", "waiting", "evaluator",
       "grade", "summary", "error", "end", "raised"}

Event == {"summary", "failed", "run.completed", "run.failed"}

\* A grade, and the order number of the question whose answer it was read from;
\* 0 when no answer was read.
Ungraded == [score |-> 0, max |-> 0, of |-> 0]

Item == [question : Questions, grade : [score : Nat, max : Nat, of : Nat]]

NoAnswer == [text |-> [wide |-> FALSE, tokens |-> <<>>], of |-> 0]

NoSummary == [score |-> 0, max |-> 0, count |-> 0]

TypeOK ==
    /\ limit \in Limits
    /\ target \in Targets
    /\ pc \in PC
    /\ hops \in Nat
    /\ calls \in Nat
    /\ index \in Nat
    /\ items \in Seq(Item)
    /\ shown \in Nat
    /\ answer \in [text : Answers, of : Nat] \union {NoAnswer}
    /\ excluded \subseteq Chunks
    /\ found \subseteq Chunks
    /\ summary \in [score : Nat, max : Nat, count : Nat]
    /\ error \in {"none", "AGENT_LIMIT_EXCEEDED", "PRACTICE_STATE_CONFLICT"}
    /\ trail \in Seq(Event)

\* The state a training starts with; the coordinator sets the rest.
Init ==
    /\ limit \in Limits
    /\ target \in Targets
    /\ pc = "coordinator"
    /\ hops = 0 /\ calls = 0
    /\ index = 0
    /\ items = <<>>
    /\ shown = 0
    /\ answer = NoAnswer
    /\ excluded = {}
    /\ found = {}
    /\ summary = NoSummary
    /\ error = "none"
    /\ trail = <<>>

-----------------------------------------------------------------------------
(* Helpers of the nodes                                                    *)

LimitsExceeded(c, h) == c >= limit.calls \/ h >= limit.hops

Emit(event) == trail' = Append(trail, event)

\* _error_return: the counters of the node's copy reach their channels.
Fail(code, c, h) ==
    /\ error' = code
    /\ calls' = c
    /\ hops' = h
    /\ UNCHANGED <<settings, work, answer, found, summary, trail>>

\* The rubric's dictionary and its item type have no acceptable forms, so
\* the equivalent forms that grade_fill_blank would accept never reach it.
AcceptableForms(question) == {}

-----------------------------------------------------------------------------
(* Coordinator and questioner.  Their edges are unconditional: a node that *)
(* is stopped by a limit is followed by the next one all the same.         *)

CoordinatorStops ==
    /\ pc = "coordinator"
    /\ LimitsExceeded(calls, hops + 1)
    /\ pc' = "questioner"
    /\ Fail("AGENT_LIMIT_EXCEEDED", calls, hops + 1)

Coordinator ==
    /\ pc = "coordinator"
    /\ ~LimitsExceeded(calls, hops + 1)
    /\ index' = 0
    /\ items' = <<>>
    /\ excluded' = {}
    /\ Emit("summary")
    /\ pc' = "questioner"
    /\ UNCHANGED <<settings, counters, shown, answer, found, summary, error>>

QuestionerStops ==
    /\ pc = "questioner"
    /\ LimitsExceeded(calls + 1, hops + 1)
    /\ pc' = "wait"
    /\ Fail("AGENT_LIMIT_EXCEEDED", calls + 1, hops + 1)

\* questioner_node up to its model call.  A retriever that honours
\* exclude_chunk_ids returns none of them.
Retrieve(candidates) ==
    /\ pc = "questioner"
    /\ ~LimitsExceeded(calls + 1, hops + 1)
    /\ candidates \intersect excluded = {}
    /\ found' = candidates
    /\ pc' = "generate"
    /\ UNCHANGED <<settings, counters, work, answer, summary, error, trail>>

\* Mutation: the order number is the index.
GeneratedZeroBased(question, confident) ==
    /\ pc = "generate"
    /\ items' = Append(items, [question |-> question, grade |-> Ungraded])
    /\ shown' = index
    /\ trail' = trail \o (IF confident THEN <<"summary">> ELSE <<"summary", "summary">>)
    /\ pc' = "wait"
    /\ UNCHANGED <<settings, counters, index, excluded, answer, found, summary, error>>

\* The rest of questioner_node: a question of low confidence is announced as
\* replaced by a past one, and used.  Nothing ties its sources to what was found.
Generated(question, confident) ==
    /\ pc = "generate"
    /\ items' = Append(items, [question |-> question, grade |-> Ungraded])
    /\ shown' = index + 1
    /\ trail' = trail \o (IF confident THEN <<"summary">> ELSE <<"summary", "summary">>)
    /\ pc' = "wait"
    /\ UNCHANGED <<settings, counters, index, excluded, answer, found, summary, error>>

-----------------------------------------------------------------------------
(* The student                                                             *)

\* wait_for_answer_node interrupts the graph: the call of the graph returns.
Interrupt ==
    /\ pc = "wait"
    /\ pc' = "waiting"
    /\ UNCHANGED <<settings, counters, work, answer, found, summary, error, trail>>

\* The graph is called again with the answer to the question on the screen,
\* and the node, executed anew, returns it.
Resume(text) ==
    /\ pc = "waiting"
    /\ answer' = [text |-> text, of |-> shown]
    /\ pc' = "evaluator"
    /\ UNCHANGED <<settings, counters, work, found, summary, error, trail>>

-----------------------------------------------------------------------------
(* The evaluator                                                           *)

\* A limit, or no question at the index: the only error that is routed.
EvaluatorError ==
    IF LimitsExceeded(calls, hops + 1)   THEN "AGENT_LIMIT_EXCEEDED"
    ELSE IF index + 1 \notin DOMAIN items THEN "PRACTICE_STATE_CONFLICT"
    ELSE "none"

\* Mutation: the student is asked again.
EvaluatorAsksAgain ==
    /\ pc = "evaluator"
    /\ EvaluatorError # "none"
    /\ pc' = "wait"
    /\ UNCHANGED <<settings, counters, work, answer, found, summary, error, trail>>

EvaluatorStops ==
    /\ pc = "evaluator"
    /\ EvaluatorError # "none"
    /\ pc' = "error"
    /\ Fail(EvaluatorError, calls, hops + 1)

\* Mutation: the sources of the last question alone.
SourcesOfLatest(item) == item.question.sources

\* _finish_item extends exclude_chunk_ids by the sources of the finished item.
SourcesUsed(item) == excluded \union item.question.sources

\* The sum of a field of all grades.
TotalOf(graded, field) ==
    LET total[n \in 0 .. Len(graded)] ==
            IF n = 0 THEN 0 ELSE total[n - 1] + graded[n].grade[field]
    IN  total[Len(graded)]

\* _finish_item: store the grade; then the summary of all grades after the
\* last question, or the next index, with the question's sources excluded.
FinishItem(grade) ==
    LET graded == [items EXCEPT ![index + 1].grade = grade]
    IN  /\ items' = graded
        /\ IF index + 1 >= target
           THEN /\ summary' = [score |-> TotalOf(graded, "score"),
                               max |-> TotalOf(graded, "max"), count |-> Len(graded)]
                /\ pc' = "summary"
                /\ UNCHANGED <<index, excluded>>
           ELSE /\ index' = index + 1
                /\ excluded' = SourcesUsed(items[index + 1])
                /\ pc' = "questioner"
                /\ UNCHANGED summary

HasRule(question) == question.type \in {"choice", "fill_blank"}

\* The answer that a question with a rule gets its marks for.
AnswerIsRight(question) ==
    IF question.type = "choice"
    THEN SameOption(answer.text, question.expected)
    ELSE BlankIsFilled(answer.text, question.expected, AcceptableForms(question))

\* A choice or a blank: no model call and no event.
GradeByRule ==
    /\ pc = "evaluator"
    /\ EvaluatorError = "none"
    /\ LET question == items[index + 1].question
           max_score == RubricTotal(question.rubric)
       IN  /\ HasRule(question)
           /\ FinishItem([score |-> ObjectiveScore(AnswerIsRight(question), max_score),
                          max |-> max_score, of |-> answer.of])
    /\ UNCHANGED <<settings, counters, shown, answer, found, error, trail>>

\* Any other question: the evaluator model is asked, with the text of the question,
\* its expected answer, its rubric and its sources.  The student's answer has been
\* read from the state, and is not part of the message.
AskGrader ==
    /\ pc = "evaluator"
    /\ EvaluatorError = "none"
    /\ ~HasRule(items[index + 1].question)
    /\ pc' = "grade"
    /\ UNCHANGED <<settings, counters, work, answer, found, summary, error, trail>>

\* Mutation: the total of the model is used as it is.
GradedUnchecked(steps) ==
    /\ pc = "grade"
    /\ LET rubric == items[index + 1].question.rubric
           max_total == RubricTotal(rubric)
       IN  /\ FinishItem([score |-> FoldLeft(LAMBDA t, s : t + s.score, 0, steps),
                          max |-> max_total, of |-> 0])
           /\ trail' = trail \o (IF StepsAreValid(steps, rubric, max_total)
                                 THEN <<"summary">> ELSE <<"failed", "summary">>)
    /\ UNCHANGED <<settings, counters, shown, answer, found, error>>

\* It returns step scores for an answer it has not seen.  They are checked: what
\* is not valid is announced as failed, and the clamped total is used in any case.
Graded(steps) ==
    /\ pc = "grade"
    /\ LET rubric == items[index + 1].question.rubric
           max_total == RubricTotal(rubric)
       IN  /\ FinishItem([score |-> ValidatedScore(steps, rubric, max_total),
                          max |-> max_total, of |-> 0])
           /\ trail' = trail \o (IF StepsAreValid(steps, rubric, max_total)
                                 THEN <<"summary">> ELSE <<"failed", "summary">>)
    /\ UNCHANGED <<settings, counters, shown, answer, found, error>>

-----------------------------------------------------------------------------
(* The end                                                                 *)

\* summary_node
Summarise ==
    /\ pc = "summary"
    /\ Emit("run.completed")
    /\ pc' = "end"
    /\ UNCHANGED <<settings, counters, work, answer, found, summary, error>>

\* error_node of the QA graph, which returns its counters.
ErrorNode ==
    /\ pc = "error"
    /\ hops' = hops + 1
    /\ Emit("run.failed")
    /\ pc' = "end"
    /\ UNCHANGED <<settings, calls, work, answer, found, summary, error>>

\* A model call, a missing dependency or an event that cannot be published
\* raises, and the exception leaves the graph.
Raises ==
    /\ pc \in {"coordinator", "questioner", "generate", "grade", "summary", "error"}
    /\ pc' = "raised"
    /\ UNCHANGED <<settings, counters, work, answer, found, summary, error, trail>>

-----------------------------------------------------------------------------
(* The specification                                                       *)

GraphStep ==
    \/ CoordinatorStops
    \/ Coordinator
    \/ QuestionerStops
    \/ \E candidates \in SUBSET Chunks : Retrieve(candidates)
    \/ \E question \in Questions, confident \in BOOLEAN : Generated(question, confident)
    \/ Interrupt
    \/ EvaluatorStops
    \/ GradeByRule
    \/ AskGrader
    \/ \E steps \in StepLists : Graded(steps)
    \/ Summarise
    \/ ErrorNode
    \/ Raises

Next == GraphStep \/ \E text \in Answers : Resume(text)

\* Awaits of the graph end, and the student answers at last.
Spec ==
    /\ Init /\ [][Next]_vars
    /\ WF_vars(GraphStep)
    /\ WF_vars(\E text \in Answers : Resume(text))

-----------------------------------------------------------------------------
(* Properties                                                              *)

Finished(i) == i <= index \/ summary # NoSummary

\* A choice or a blank is graded by the answer that was given to it, though the
\* index, the question on the screen and the answer are channels that three nodes
\* write at different times; questions are graded in order, each against its own
\* rubric; and what waits for an answer is the question that will be graded.
RulesReadTheRightAnswer ==
    /\ \A i \in DOMAIN items :
          IF Finished(i)
          THEN /\ HasRule(items[i].question) => items[i].grade.of = i
               /\ items[i].grade.max = RubricTotal(items[i].question.rubric)
          ELSE items[i].grade = Ungraded
    /\ pc = "waiting" /\ error = "none" => shown = index + 1 /\ shown = Len(items)

\* Every grade is of the student's answer, as the evaluator's node says of both of
\* its ways to grade (graph_practice.py:260).  It is false: see AskGrader.
EveryGradeReadsItsAnswer ==
    \A i \in DOMAIN items : Finished(i) => items[i].grade.of = i

\* A grade is within the marks of its question.
GradesFit ==
    \A i \in DOMAIN items :
        /\ items[i].grade.score <= items[i].grade.max
        /\ items[i].grade # Ungraded =>
              items[i].grade.max = RubricTotal(items[i].question.rubric)

\* A summary is over the questions that were asked for; a training that is
\* over has published its end last, and the one that is true.
TrainingIsTold ==
    /\ summary # NoSummary => summary.count = target /\ Len(items) = target
    /\ pc = "end" => \/ Last(trail) = "run.completed" /\ summary # NoSummary /\ error = "none"
                     \/ Last(trail) = "run.failed" /\ summary = NoSummary /\ error # "none"

\* The summary is over exactly the questions that were asked for, each graded
\* within its marks, and run.completed is published for it alone; a training
\* that fails says so once and at the end (_finish_item, summary_node).
SummaryIsComplete ==
    /\ GradesFit
    /\ TrainingIsTold
    /\ summary.score <= summary.max

\* With a retriever that honours exclude_chunk_ids, the candidates of a question
\* share no chunk with the questions before it (graph_practice.py's
\* exclude_chunk_ids, extended by one node and read by another).
NoSourceTwice ==
    pc = "generate" =>
        \A i \in DOMAIN items : found \intersect items[i].question.sources = {}

\* With a student who answers, the training comes to its end.
Termination == <>(pc \in {"end", "raised"})

=============================================================================
