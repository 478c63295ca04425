--------------------------- MODULE QaGraphProofs ----------------------------
(***************************************************************************)
(* Proofs about QaGraph: the model calls stay within the limit whatever    *)
(* its value, published answers rest on the evidence, and the runner keeps *)
(* the contract on which AgentRun is built.                                *)
(***************************************************************************)
EXTENDS QaGraph, TLAPS

-----------------------------------------------------------------------------
(* The inductive invariant                                                 *)

\* The counters at each node: how far a node may still go before a limit.
CountersFit ==
    /\ pc = "coordinator" => hops = 0
    /\ pc \in {"coordinator", "knowledge", "error"} => calls = 0 /\ invoked = 0
    /\ pc \in {"organise", "evaluator_qa", "refusal"} => calls = 1 /\ invoked = 1
    /\ pc \in {"answer", "rewrite"} => calls = 2 /\ limit.calls > 2
    /\ pc = "answer" => invoked = 2
    /\ pc = "rewrite" => invoked = 3
    /\ pc \in {"knowledge", "evaluator_qa", "refusal"} \union Awaiting => hops < limit.hops
    /\ pc = "error" => hops <= limit.hops /\ error = "AGENT_LIMIT_EXCEEDED"

\* What is published and returned at each node.
OutputFits ==
    /\ pc \notin {"end", "returned"} => response = "none"
    /\ pc # "returned" <=> result = NoResult
    /\ pc \notin {"coordinator", "error", "returned"} => trail # <<>>
    /\ result.status = "none" <=> pc # "returned"
    /\ result.status = "succeeded" => result.calls = calls
    /\ pc = "end" \/ result.status = "succeeded" =>
           /\ calls \in {invoked, invoked + 1}
           /\ response \in {"answer", "refusal"} => calls = invoked

\* What the evaluator may rely on.
EvidenceFits ==
    /\ pc \in {"evaluator_qa", "answer", "rewrite"} => knowledge.sufficient
    /\ pc \in {"answer", "rewrite"} => ItemsHaveSources
    /\ pc = "rewrite" => evidence # {}

\* Until the graph ends, only summaries have been published.
TrailFits ==
    pc \notin {"end", "returned"} =>
        /\ error = IF pc = "error" THEN "AGENT_LIMIT_EXCEEDED" ELSE "none"
        /\ \A i \in 1 .. Len(trail) : trail[i] = "summary"

QaInv ==
    /\ TypeOK
    /\ CountersFit
    /\ OutputFits
    /\ EvidenceFits
    /\ TrailFits
    /\ WithinBudget
    /\ AnswerIsGrounded
    /\ EventsTellTheEnding

\* Publishing an event extends the trail by it.
LEMMA EmitGrows ==
    ASSUME trail \in Seq(Event), NEW event \in Event, Emit(event)
    PROVE  /\ trail' \in Seq(Event)
           /\ trail' # <<>>
           /\ Len(trail) \in Nat
           /\ Len(trail') = Len(trail) + 1
           /\ trail'[Len(trail')] = event
           /\ \A i \in 1 .. Len(trail) : trail'[i] = trail[i]
BY DEF Emit

LEMMA InitFits == Init => QaInv
<1> SUFFICES ASSUME Init PROVE QaInv
  OBVIOUS
<1>1. TypeOK
  BY QaAssumption DEF Init, TypeOK, PC, Nodes, Event, NoResult, Result
<1>2. CountersFit /\ WithinBudget
  BY QaAssumption DEF Init, CountersFit, WithinBudget, Nodes, Awaiting
<1>3. OutputFits /\ EvidenceFits /\ AnswerIsGrounded
  BY DEF Init, OutputFits, EvidenceFits, AnswerIsGrounded, NoResult
<1>4. TrailFits /\ EventsTellTheEnding
  BY DEF Init, TrailFits, EventsTellTheEnding, NoResult
<1> QED
  BY <1>1, <1>2, <1>3, <1>4 DEF QaInv

\* The bounds of the settings, as the steps need them.
LEMMA LimitTypes ==
    ASSUME TypeOK
    PROVE  limit.calls \in Nat /\ limit.hops \in Nat \ {0}
BY QaAssumption DEF TypeOK

\* Every action keeps the types.
LEMMA NextTypes ==
    ASSUME TypeOK, [Next]_vars
    PROVE  TypeOK'
<1> USE QaAssumption
<1> USE DEF settings, counters, material
<1>1. CASE LimitStops
  BY <1>1 DEF TypeOK, LimitStops, Fail, PC, Nodes
<1>2. CASE Coordinator
  BY <1>2, EmitGrows DEF TypeOK, Coordinator, PC, Nodes, Event
<1>3. ASSUME NEW found \in Retrievable, Retrieve(found)
      PROVE  TypeOK'
  BY <1>3 DEF TypeOK, Retrieve, Retrievable, Invoke, PC, Awaiting
<1>4. ASSUME NEW sufficient \in BOOLEAN, NEW items \in SUBSET Item,
             Organised(sufficient, items)
      PROVE  TypeOK'
  BY <1>4, EmitGrows DEF TypeOK, Organised, PC, Nodes, Event
<1>5. CASE StartAnswer
  BY <1>5 DEF TypeOK, StartAnswer, Invoke, PC, Awaiting
<1>6. CASE ItemsRejected
  BY <1>6, EmitGrows DEF TypeOK, ItemsRejected, Fail, PC, Event
<1>7. ASSUME NEW pages \in SUBSET Pages, AnswerAccepted(pages) \/ RewriteAccepted(pages)
      PROVE  TypeOK'
  <2>1. CASE AnswerAccepted(pages)
    BY <2>1, EmitGrows DEF TypeOK, AnswerAccepted, Accept, PC, Event
  <2>2. CASE RewriteAccepted(pages)
    BY <2>2, EmitGrows DEF TypeOK, RewriteAccepted, Accept, PC, Event
  <2> QED
    BY <1>7, <2>1, <2>2
<1>8. ASSUME NEW pages \in SUBSET Pages, AnswerRetried(pages)
      PROVE  TypeOK'
  BY <1>8 DEF TypeOK, AnswerRetried, Invoke, PC, Awaiting
<1>9. ASSUME NEW pages \in SUBSET Pages, RewriteRejected(pages)
      PROVE  TypeOK'
  BY <1>9, EmitGrows DEF TypeOK, RewriteRejected, Fail, PC, Event
<1>10. CASE Refusal
  BY <1>10, EmitGrows DEF TypeOK, Refusal, PC, Event
<1>11. CASE ErrorNode
  BY <1>11, EmitGrows DEF TypeOK, ErrorNode, PC, Event
<1>12. CASE RetryRequest
  BY <1>12 DEF TypeOK, RetryRequest
<1>13. CASE Raises
  BY <1>13 DEF TypeOK, Raises, PC, Result
<1>14. CASE Return
  BY <1>14 DEF TypeOK, Return, PC, Result
<1>15. CASE UNCHANGED vars
  BY <1>15 DEF TypeOK, vars
<1> QED
  BY <1>1, <1>2, <1>3, <1>4, <1>5, <1>6, <1>7, <1>8, <1>9, <1>10, <1>11,
     <1>12, <1>13, <1>14, <1>15 DEF Next

\* Every action keeps the counters within the limits: a node compares before
\* its last call, and the evaluator's comparison leaves room for two calls.
LEMMA NextCounts ==
    ASSUME QaInv, [Next]_vars
    PROVE  CountersFit' /\ WithinBudget'
<1>0. TypeOK /\ CountersFit /\ WithinBudget
  BY DEF QaInv
<1>1. limit.calls \in Nat /\ limit.hops \in Nat \ {0} /\ hops \in Nat
         /\ calls \in Nat /\ invoked \in Nat
  BY <1>0, LimitTypes DEF TypeOK
<1> USE <1>0, <1>1 DEF CountersFit, WithinBudget, LimitsExceeded, Awaiting, settings
<1>2. CASE LimitStops
  BY <1>2 DEF LimitStops, Fail
<1>3. CASE Coordinator
  BY <1>3 DEF Coordinator
<1>4. ASSUME NEW found \in Retrievable, Retrieve(found)
      PROVE  CountersFit' /\ WithinBudget'
  BY <1>4 DEF Retrieve, Invoke
<1>5. ASSUME NEW sufficient \in BOOLEAN, NEW items \in SUBSET Item,
             Organised(sufficient, items)
      PROVE  CountersFit' /\ WithinBudget'
  BY <1>5 DEF Organised, counters
<1>6. CASE StartAnswer
  BY <1>6 DEF StartAnswer, Invoke
<1>7. CASE ItemsRejected
  BY <1>7 DEF ItemsRejected, Fail
<1>8. ASSUME NEW pages \in SUBSET Pages,
             AnswerAccepted(pages) \/ RewriteAccepted(pages)
      PROVE  CountersFit' /\ WithinBudget'
  BY <1>8 DEF AnswerAccepted, RewriteAccepted, Accept, counters
<1>9. ASSUME NEW pages \in SUBSET Pages,
             AnswerRetried(pages) \/ RewriteRejected(pages)
      PROVE  CountersFit' /\ WithinBudget'
  BY <1>9 DEF AnswerRetried, RewriteRejected, Invoke, Fail
<1>10. CASE Refusal \/ ErrorNode
  BY <1>10 DEF Refusal, ErrorNode
<1>11. CASE RetryRequest
  BY <1>11 DEF RetryRequest
<1>12. CASE Raises \/ Return
  BY <1>12 DEF Raises, Return, counters
<1>13. CASE UNCHANGED vars
  BY <1>13 DEF vars, counters
<1> QED
  BY <1>2, <1>3, <1>4, <1>5, <1>6, <1>7, <1>8, <1>9, <1>10, <1>11, <1>12,
     <1>13 DEF Next

\* Every action keeps what is published and returned in step with the node.
LEMMA NextOutput ==
    ASSUME QaInv, [Next]_vars
    PROVE  OutputFits'
<1>0. TypeOK /\ OutputFits /\ CountersFit
  BY DEF QaInv
<1>1. trail \in Seq(Event) /\ calls \in Nat /\ invoked \in Nat
  BY <1>0 DEF TypeOK
<1> USE <1>0, <1>1 DEF OutputFits, NoResult, settings
<1>2. CASE LimitStops
  BY <1>2 DEF LimitStops, Fail, CountersFit
<1>3. CASE Coordinator
  BY <1>3, EmitGrows DEF Coordinator, Event
<1>4. ASSUME NEW found \in Retrievable, Retrieve(found)
      PROVE  OutputFits'
  BY <1>4 DEF Retrieve, Invoke
<1>5. ASSUME NEW sufficient \in BOOLEAN, NEW items \in SUBSET Item,
             Organised(sufficient, items)
      PROVE  OutputFits'
  BY <1>5, EmitGrows DEF Organised, Event
<1>6. CASE StartAnswer
  BY <1>6 DEF StartAnswer, Invoke
<1>7. CASE ItemsRejected
  BY <1>7, EmitGrows DEF ItemsRejected, Fail, CountersFit, Event
<1>8. ASSUME NEW pages \in SUBSET Pages,
             AnswerAccepted(pages) \/ RewriteAccepted(pages)
      PROVE  OutputFits'
  BY <1>8, EmitGrows
  DEF AnswerAccepted, RewriteAccepted, Accept, CountersFit, Event, counters
<1>9. ASSUME NEW pages \in SUBSET Pages, AnswerRetried(pages)
      PROVE  OutputFits'
  BY <1>9 DEF AnswerRetried, Invoke
<1>10. ASSUME NEW pages \in SUBSET Pages, RewriteRejected(pages)
       PROVE  OutputFits'
  BY <1>10, EmitGrows DEF RewriteRejected, Fail, CountersFit, Event
<1>11. CASE Refusal \/ ErrorNode
  BY <1>11, EmitGrows DEF Refusal, ErrorNode, CountersFit, Event
<1>12. CASE RetryRequest
  BY <1>12 DEF RetryRequest, Awaiting
<1>13. CASE Raises
  BY <1>13 DEF Raises, CallMayRaise, Nodes, Awaiting, counters
<1>14. CASE Return
  BY <1>14 DEF Return, counters
<1>15. CASE UNCHANGED vars
  BY <1>15 DEF vars, counters
<1> QED
  BY <1>2, <1>3, <1>4, <1>5, <1>6, <1>7, <1>8, <1>9, <1>10, <1>11, <1>12,
     <1>13, <1>14, <1>15 DEF Next

\* Every action keeps the answer grounded: once the items are checked, neither
\* they nor the evidence change, and what is published has just been checked.
LEMMA NextGrounds ==
    ASSUME QaInv, [Next]_vars
    PROVE  EvidenceFits' /\ AnswerIsGrounded'
<1>0. EvidenceFits /\ AnswerIsGrounded /\ OutputFits
  BY DEF QaInv
<1> USE <1>0 DEF EvidenceFits, AnswerIsGrounded, OutputFits, ItemsHaveSources,
                 material
<1>1. CASE LimitStops
  BY <1>1 DEF LimitStops, Fail
<1>2. CASE Coordinator
  BY <1>2 DEF Coordinator
<1>3. ASSUME NEW found \in Retrievable, Retrieve(found)
      PROVE  EvidenceFits' /\ AnswerIsGrounded'
  BY <1>3 DEF Retrieve, Invoke
<1>4. ASSUME NEW sufficient \in BOOLEAN, NEW items \in SUBSET Item,
             Organised(sufficient, items)
      PROVE  EvidenceFits' /\ AnswerIsGrounded'
  BY <1>4 DEF Organised
<1>5. CASE StartAnswer
  BY <1>5 DEF StartAnswer, Invoke
<1>6. CASE ItemsRejected
  BY <1>6 DEF ItemsRejected, Fail
<1>7. ASSUME NEW pages \in SUBSET Pages,
             AnswerAccepted(pages) \/ RewriteAccepted(pages)
      PROVE  EvidenceFits' /\ AnswerIsGrounded'
  BY <1>7 DEF AnswerAccepted, RewriteAccepted, Accept, CitesEvidence
<1>8. ASSUME NEW pages \in SUBSET Pages,
             AnswerRetried(pages) \/ RewriteRejected(pages)
      PROVE  EvidenceFits' /\ AnswerIsGrounded'
  BY <1>8 DEF AnswerRetried, RewriteRejected, Invoke, Fail
<1>9. CASE Refusal \/ ErrorNode
  BY <1>9 DEF Refusal, ErrorNode
<1>10. CASE RetryRequest \/ Raises \/ Return \/ UNCHANGED vars
  BY <1>10 DEF RetryRequest, Raises, Return, vars
<1> QED
  BY <1>1, <1>2, <1>3, <1>4, <1>5, <1>6, <1>7, <1>8, <1>9, <1>10 DEF Next

\* An event that is published is the last one.
LEMMA EmitIsLast ==
    ASSUME trail \in Seq(Event), NEW event \in Event, Emit(event)
    PROVE  LastEvent' = event
BY EmitGrows DEF LastEvent

\* While the graph goes on, the last event is a summary.
LEMMA SummaryIsLast ==
    ASSUME trail \in Seq(Event), trail # <<>>,
           \A i \in 1 .. Len(trail) : trail[i] = "summary"
    PROVE  LastEvent = "summary"
<1>1. Len(trail) \in 1 .. Len(trail)
  OBVIOUS
<1> QED
  BY <1>1 DEF LastEvent

\* Every action keeps the events in step with the node and the error.
LEMMA NextPublishes ==
    ASSUME QaInv, [Next]_vars
    PROVE  TrailFits' /\ EventsTellTheEnding'
<1>0. TypeOK /\ TrailFits /\ EventsTellTheEnding /\ OutputFits
  BY DEF QaInv
<1>1. trail \in Seq(Event) /\ trail' \in Seq(Event)
  BY <1>0, NextTypes DEF TypeOK
<1> USE <1>0, <1>1
<1>2. CASE LimitStops
  <2>1. /\ pc \notin {"end", "returned", "error"}
        /\ response = "none" /\ result.status = "none"
        /\ error' = "AGENT_LIMIT_EXCEEDED" /\ trail' = trail
        /\ response' = response /\ result' = result
        /\ pc' = IF pc = "evaluator_qa" THEN "end" ELSE "error"
    BY <1>2 DEF LimitStops, Fail, OutputFits
  <2>2. pc' = "end" => LastEvent' = "summary"
    BY <2>1, SummaryIsLast DEF TrailFits, OutputFits, LastEvent
  <2> QED
    BY <2>1, <2>2 DEF TrailFits, EventsTellTheEnding
<1>3. ASSUME pc \notin {"end", "returned", "error"},
             pc' \notin {"end", "returned", "error"},
             UNCHANGED <<error, result>>,
             trail' = trail \/ Emit("summary")
      PROVE  TrailFits' /\ EventsTellTheEnding'
  <2>1. \A i \in 1 .. Len(trail') : trail'[i] = "summary"
    BY <1>3, EmitGrows DEF TrailFits, Event
  <2>2. result'.status = "none"
    BY <1>3 DEF OutputFits
  <2> QED
    BY <1>3, <2>1, <2>2 DEF TrailFits, EventsTellTheEnding
<1>4. CASE \/ Coordinator
           \/ \E found \in Retrievable : Retrieve(found)
           \/ \E sufficient \in BOOLEAN, items \in SUBSET Item :
                  Organised(sufficient, items)
           \/ StartAnswer
           \/ \E pages \in SUBSET Pages : AnswerRetried(pages)
           \/ RetryRequest
  BY <1>3, <1>4
  DEF Coordinator, Retrieve, Organised, StartAnswer, AnswerRetried,
      RetryRequest, Invoke, Awaiting
<1>5. ASSUME pc \notin {"end", "returned"}, pc' = "end", result' = result,
             NEW event \in Event, Emit(event),
             \/ event = "summary" /\ response' = "answer" /\ error' = "none"
             \/ event = "rejection" /\ response' = "none"
                                    /\ error' = "AGENT_OUTPUT_INVALID"
             \/ event = "run.completed" /\ response' = "refusal"
                                        /\ error' = "none"
             \/ event = "run.failed" /\ response' = "apology"
                                     /\ error' = "AGENT_LIMIT_EXCEEDED"
      PROVE  TrailFits' /\ EventsTellTheEnding'
  <2>1. LastEvent' = event /\ result'.status = "none"
    BY <1>5, EmitIsLast DEF OutputFits
  <2>2. \A i \in 1 .. Len(trail') : trail'[i] # "summary" => i = Len(trail')
    <3> TAKE i \in 1 .. Len(trail')
    <3>1. CASE i = Len(trail')
      BY <3>1
    <3>2. CASE i # Len(trail')
      <4>1. i \in 1 .. Len(trail)
        BY <1>5, <3>2, EmitGrows
      <4> QED
        BY <1>5, <4>1, EmitGrows DEF TrailFits
    <3> QED
      BY <3>1, <3>2
  <2> QED
    BY <1>5, <2>1, <2>2 DEF TrailFits, EventsTellTheEnding
<1>6. CASE ItemsRejected
  BY <1>5, <1>6 DEF ItemsRejected, Fail, OutputFits, Event
<1>7. ASSUME NEW pages \in SUBSET Pages,
             AnswerAccepted(pages) \/ RewriteAccepted(pages)
      PROVE  TrailFits' /\ EventsTellTheEnding'
  BY <1>5, <1>7
  DEF AnswerAccepted, RewriteAccepted, Accept, TrailFits, OutputFits, Event
<1>8. ASSUME NEW pages \in SUBSET Pages, RewriteRejected(pages)
      PROVE  TrailFits' /\ EventsTellTheEnding'
  BY <1>5, <1>8 DEF RewriteRejected, Fail, OutputFits, Event
<1>9. CASE Refusal \/ ErrorNode
  BY <1>5, <1>9 DEF Refusal, ErrorNode, TrailFits, OutputFits, Event
<1>10. CASE Raises
  <2>1. /\ pc \notin {"end", "returned"} /\ pc' = "returned" /\ trail' = trail
        /\ result'.status = "failed"
    BY <1>10 DEF Raises, CallMayRaise, Nodes, Awaiting
  <2> QED
    BY <2>1 DEF TrailFits, EventsTellTheEnding
<1>11. CASE Return
  <2>1. /\ pc = "end" /\ pc' = "returned" /\ result'.status = "succeeded"
        /\ UNCHANGED <<trail, response, error>>
    BY <1>11 DEF Return
  <2> QED
    BY <2>1 DEF TrailFits, EventsTellTheEnding, LastEvent
<1>12. CASE UNCHANGED vars
  BY <1>12 DEF vars, TrailFits, EventsTellTheEnding, LastEvent
<1> QED
  BY <1>2, <1>4, <1>6, <1>7, <1>8, <1>9, <1>10, <1>11, <1>12 DEF Next

-----------------------------------------------------------------------------
(* Theorems                                                                *)

\* The invariant holds for all chunks, pages, limits and numbers of attempts.
THEOREM QaInvariant == Spec => []QaInv
<1>1. QaInv /\ [Next]_vars => QaInv'
  BY NextTypes, NextCounts, NextOutput, NextGrounds, NextPublishes DEF QaInv
<1> QED
  BY InitFits, <1>1, PTL DEF Spec

\* The variables of a run of the graph keep their types.
THEOREM TypeCorrect == Spec => []TypeOK
BY QaInvariant, PTL DEF QaInv

\* No run makes more model calls than MAX_MODEL_CALLS allows, whatever its value.
THEOREM CallsWithinBudget == Spec => []WithinBudget
BY QaInvariant, PTL DEF QaInv

\* An answer that is published rests on the evidence that was retrieved.
THEOREM AnswersAreGrounded == Spec => []AnswerIsGrounded
BY QaInvariant, PTL DEF QaInv

\* The model_calls stored with an answer or a refusal is exact.
THEOREM StoredCallsAreExact == Spec => []CallsAreCounted
<1>1. QaInv => CallsAreCounted
  BY DEF QaInv, OutputFits, CallsAreCounted
<1> QED
  BY <1>1, QaInvariant, PTL

\* The last event a run publishes tells which ending of the graph was reached:
\* a refusal, an apology, a rejection, an answer or an exception.
THEOREM EndingIsTold == Spec => []EventsTellTheEnding
BY QaInvariant, PTL DEF QaInv

\* A step of the graph is a step of the runner contract, or none.
LEMMA StepIsContracted ==
    ASSUME QaInv, [Next]_vars
    PROVE  [Runner!Next]_(Runner!vars)
<1>0. TypeOK /\ OutputFits /\ trail \in Seq(Event)
  BY DEF QaInv, TypeOK
<1> USE <1>0 DEF OutputFits, Runner!Next, Runner!vars, OutcomeSeen
<1>1. CASE Raises
  BY <1>1
  DEF Raises, CallMayRaise, Runner!Return, Runner!MayReturn, NoResult, Nodes,
      Awaiting
<1>2. CASE Return
  <2>1. trail # <<>> /\ result.status = "none" /\ trail' = trail
    BY <1>2 DEF Return
  <2>2. OutcomeSeen' \in {"answered", "silent"} /\ ~result'.again
    BY <1>2 DEF Return
  <2> QED
    BY <1>2, <2>1, <2>2 DEF Return, Runner!Return, Runner!MayReturn
<1>3. CASE ~Raises /\ ~Return /\ Next
  <2>1. pc # "returned" /\ result' = result
    BY <1>3
    DEF Next, LimitStops, Coordinator, Retrieve, Organised, StartAnswer,
        ItemsRejected, AnswerAccepted, AnswerRetried, RewriteAccepted,
        RewriteRejected, Refusal, ErrorNode, RetryRequest, Fail, GatewayAnswers,
        Awaiting
  <2>2. UNCHANGED trail \/ \E event \in Event : Emit(event)
    BY <1>3
    DEF Next, LimitStops, Coordinator, Retrieve, Organised, StartAnswer,
        ItemsRejected, AnswerAccepted, AnswerRetried, RewriteAccepted,
        RewriteRejected, Refusal, ErrorNode, RetryRequest, Accept, Event
  <2>3. OutcomeSeen = "none" /\ OutcomeSeen' = "none"
    BY <2>1
  <2>4. UNCHANGED trail \/ trail' # <<>>
    BY <2>2, EmitGrows
  <2> QED
    BY <2>1, <2>3, <2>4 DEF Runner!Emit
<1>4. CASE UNCHANGED vars
  BY <1>4 DEF vars
<1> QED
  BY <1>1, <1>2, <1>3, <1>4

\* LangGraphAgentRunner keeps the contract that AgentRun assumes of a runner.
THEOREM ImplementsContract == Spec => RunnerSpec
<1>1. Init => Runner!Init
  BY DEF Init, Runner!Init, OutcomeSeen, NoResult
<1>2. QaInv /\ [Next]_vars => [Runner!Next]_(Runner!vars)
  BY StepIsContracted
<1> QED
  BY <1>1, <1>2, QaInvariant, PTL DEF Spec, RunnerSpec, Runner!Spec

==============================================================================
