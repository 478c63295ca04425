------------------------------ MODULE QaGraph -------------------------------
(***************************************************************************)
(* One run of the question-answering graph (agents/graph.py), from the     *)
(* call of LangGraphAgentRunner.run to the AgentRunResult it returns: the  *)
(* five nodes and their edges, the counters and limits, the retrieval, the *)
(* attempts of the model gateway, the checks of the citations and the      *)
(* events that are published on the way.                                   *)
(*                                                                         *)
(* A knowledge item is the set of the chunks its source_ref_ids name once  *)
(* the labels REF_1, ... are mapped back; a label the model has invented   *)
(* names a chunk that was not retrieved.  An answer is the set of pages    *)
(* that the pattern [document page] finds in it.                           *)
(***************************************************************************)
EXTENDS Naturals, Sequences, FiniteSets

CONSTANTS
    Chunks,      \* chunks that may be retrieved or named
    Pages,       \* document pages that an answer may cite
    PageOf,      \* PageOf[c]: document_name and page_number of chunk c
    MaxEvidence, \* MAX_EVIDENCE
    MaxRetries,  \* MAX_RETRIES of the model gateway
    MaxItems,    \* knowledge items the model returns at most (a bound)
    Limits,      \* values of MAX_MODEL_CALLS and MAX_NODE_HOPS
    Gateways     \* settings of the gateway: "live", "demo" or "unset"

ASSUME QaAssumption ==
    /\ PageOf \in [Chunks -> Pages]
    /\ MaxEvidence \in Nat /\ MaxRetries \in Nat /\ MaxItems \in Nat
    /\ Limits \subseteq [calls : Nat, hops : Nat \ {0}]
    /\ Gateways \subseteq {"live", "demo", "unset"}

VARIABLES
    limit,      \* MAX_MODEL_CALLS and MAX_NODE_HOPS, fixed for the run
    gateway,    \* how the gateway is configured, fixed for the run
    pc,         \* the node to execute, or the model call that is awaited
    hops,       \* AgentState.node_hops
    calls,      \* AgentState.model_calls
    attempt,    \* the gateway's attempt at the model call that is awaited
    invoked,    \* model calls really made by the run (history)
    evidence,   \* AgentState.evidence
    knowledge,  \* AgentState.sufficient and AgentState.knowledge
    cited,      \* pages cited by the last answer of the model
    response,   \* AgentState.public_response
    error,      \* AgentState.error
    trail,      \* the events published so far
    result      \* the AgentRunResult

settings == <<limit, gateway>>
counters == <<hops, calls, attempt, invoked>>
material == <<evidence, knowledge, cited>>
vars == <<settings, pc, counters, material, response, error, trail, result>>

-----------------------------------------------------------------------------
(* Types                                                                   *)

Nodes == {"coordinator", "knowledge", "evaluator_qa", "refusal", "error"}

\* The model calls of knowledge_node and, twice, of evaluator_qa_node.
Awaiting == {"organise", "answer", "rewrite"}

PC == Nodes \union Awaiting \union {"end", "returned"}

Event == {"summary", "rejection", "run.completed", "run.failed"}

Item == SUBSET Chunks \ {{}}

NoResult == [status |-> "none", again |-> FALSE, calls |-> 0, hops |-> 0]

Result == [status : {"none", "succeeded", "failed"}, again : BOOLEAN,
           calls : Nat, hops : Nat]

\* The counters stay within a few steps of zero and each wait of the gateway
\* within its attempts (graph.py, model_gateway.py).
TypeOK ==
    /\ limit \in Limits
    /\ gateway \in Gateways
    /\ pc \in PC
    /\ hops \in Nat
    /\ calls \in Nat
    /\ attempt \in 0 .. MaxRetries
    /\ invoked \in Nat
    /\ evidence \subseteq Chunks
    /\ knowledge \in [sufficient : BOOLEAN, items : SUBSET Item]
    /\ cited \subseteq Pages
    /\ response \in {"none", "answer", "refusal", "apology"}
    /\ error \in {"none", "AGENT_LIMIT_EXCEEDED", "AGENT_OUTPUT_INVALID"}
    /\ trail \in Seq(Event)
    /\ result \in Result

\* The initial state that the runner builds.
Init ==
    /\ limit \in Limits
    /\ gateway \in Gateways
    /\ pc = "coordinator"
    /\ hops = 0 /\ calls = 0 /\ attempt = 0 /\ invoked = 0
    /\ evidence = {}
    /\ knowledge = [sufficient |-> FALSE, items |-> {}]
    /\ cited = {}
    /\ response = "none"
    /\ error = "none"
    /\ trail = <<>>
    /\ result = NoResult

-----------------------------------------------------------------------------
(* Helpers of the nodes                                                    *)

\* Mutation: the limits may be reached, not only approached.
LimitsPassed(c, h) == c > limit.calls \/ h > limit.hops

LimitsExceeded(c, h) == c >= limit.calls \/ h >= limit.hops

Emit(event) == trail' = Append(trail, event)

\* Await model.invoke_structured; the first request is on its way.
Invoke(call) ==
    /\ pc' = call
    /\ attempt' = 0
    /\ invoked' = invoked + 1

\* A response that parses or, in demo mode, a hit of the cache.
GatewayAnswers == pc \in Awaiting /\ gateway # "unset"

\* _error_return: the state's error is set, public_response is not.
Fail(code) ==
    /\ error' = code
    /\ UNCHANGED <<response, result>>

\* Mutation: one cited page that was retrieved is enough.
CitesSomeEvidence(pages) == pages \intersect {PageOf[c] : c \in evidence} # {}

\* _check_citations: pages are cited, and each is a page of the evidence.
CitesEvidence(pages) ==
    /\ pages # {}
    /\ pages \subseteq {PageOf[c] : c \in evidence}

\* The rule before the model is asked: each item has a retrieved source.
ItemsHaveSources ==
    \A item \in knowledge.items : item \intersect evidence # {}

-----------------------------------------------------------------------------
(* The nodes                                                               *)

\* A node counts its hop and then looks at the limits; the evaluator has by
\* then counted the call it is about to make.  Its edge leads to END, so its
\* error never reaches the error node.
LimitStops ==
    /\ pc \in {"coordinator", "knowledge", "evaluator_qa"}
    /\ hops' = hops + 1
    /\ calls' = IF pc = "evaluator_qa" THEN calls + 1 ELSE calls
    /\ LimitsExceeded(calls', hops')
    /\ pc' = IF pc = "evaluator_qa" THEN "end" ELSE "error"
    /\ Fail("AGENT_LIMIT_EXCEEDED")
    /\ UNCHANGED <<settings, attempt, invoked, material, trail>>

\* coordinator_node in mode qa: a fixed decision, no model call.
Coordinator ==
    /\ pc = "coordinator"
    /\ hops' = hops + 1
    /\ ~LimitsExceeded(calls, hops')
    /\ Emit("summary")
    /\ pc' = "knowledge"
    /\ UNCHANGED <<settings, calls, attempt, invoked, material, response, error, result>>

\* What _DbRetriever may return, none when the database fails; knowledge_node
\* takes the first MAX_EVIDENCE.
Retrievable == {found \in SUBSET Chunks : Cardinality(found) <= MaxEvidence}

\* knowledge_node up to its model call: the model is asked in any case.
Retrieve(found) ==
    /\ pc = "knowledge"
    /\ hops' = hops + 1
    /\ ~LimitsExceeded(calls, hops')
    /\ evidence' = found
    /\ calls' = calls + 1
    /\ Invoke("organise")
    /\ UNCHANGED <<settings, knowledge, cited, response, error, trail, result>>

\* The rest of knowledge_node: the verdict of the model is the route.
Organised(sufficient, items) ==
    /\ pc = "organise"
    /\ GatewayAnswers
    /\ Cardinality(items) <= MaxItems
    /\ knowledge' = [sufficient |-> sufficient, items |-> items]
    /\ Emit("summary")
    /\ pc' = IF sufficient THEN "evaluator_qa" ELSE "refusal"
    /\ UNCHANGED <<settings, counters, evidence, cited, response, error, result>>

\* evaluator_qa_node up to its model call.
StartAnswer ==
    /\ pc = "evaluator_qa"
    /\ hops' = hops + 1
    /\ calls' = calls + 1
    /\ ~LimitsExceeded(calls', hops')
    /\ ItemsHaveSources
    /\ Invoke("answer")
    /\ UNCHANGED <<settings, material, response, error, trail, result>>

\* Mutation: the failed check of the items is not announced.
ItemsRejectedSilently ==
    /\ pc = "evaluator_qa"
    /\ hops' = hops + 1
    /\ calls' = calls + 1
    /\ ~LimitsExceeded(calls', hops')
    /\ ~ItemsHaveSources
    /\ pc' = "end"
    /\ Fail("AGENT_OUTPUT_INVALID")
    /\ UNCHANGED <<settings, attempt, invoked, material, trail>>

\* evaluator_qa_node when an item has no source that was retrieved.
ItemsRejected ==
    /\ pc = "evaluator_qa"
    /\ hops' = hops + 1
    /\ calls' = calls + 1
    /\ ~LimitsExceeded(calls', hops')
    /\ ~ItemsHaveSources
    /\ Emit("rejection")
    /\ pc' = "end"
    /\ Fail("AGENT_OUTPUT_INVALID")
    /\ UNCHANGED <<settings, attempt, invoked, material>>

\* The evaluator publishes an answer.
Accept ==
    /\ Emit("summary")
    /\ response' = "answer"
    /\ pc' = "end"

\* Without evidence there is nothing to check a citation against.
AnswerAccepted(pages) ==
    /\ pc = "answer"
    /\ GatewayAnswers
    /\ CitesEvidence(pages) \/ evidence = {}
    /\ cited' = pages
    /\ Accept
    /\ UNCHANGED <<settings, counters, evidence, knowledge, error, result>>

\* Mutation: bad citations are asked for again and again, uncounted.
AnswerRetriedForever(pages) ==
    /\ pc = "answer"
    /\ GatewayAnswers
    /\ ~CitesEvidence(pages) /\ evidence # {}
    /\ cited' = pages
    /\ attempt' = 0
    /\ UNCHANGED <<settings, pc, hops, calls, invoked, evidence, knowledge,
                   response, error, trail, result>>

\* Bad citations are sent back to the model once; this call is counted when
\* it returns.
AnswerRetried(pages) ==
    /\ pc = "answer"
    /\ GatewayAnswers
    /\ ~CitesEvidence(pages) /\ evidence # {}
    /\ cited' = pages
    /\ Invoke("rewrite")
    /\ UNCHANGED <<settings, hops, calls, evidence, knowledge, response, error, trail, result>>

RewriteAccepted(pages) ==
    /\ pc = "rewrite"
    /\ GatewayAnswers
    /\ calls' = calls + 1
    /\ CitesEvidence(pages)
    /\ cited' = pages
    /\ Accept
    /\ UNCHANGED <<settings, hops, attempt, invoked, evidence, knowledge, error, result>>

RewriteRejected(pages) ==
    /\ pc = "rewrite"
    /\ GatewayAnswers
    /\ calls' = calls + 1
    /\ ~CitesEvidence(pages)
    /\ cited' = pages
    /\ Emit("rejection")
    /\ pc' = "end"
    /\ Fail("AGENT_OUTPUT_INVALID")
    /\ UNCHANGED <<settings, hops, attempt, invoked, evidence, knowledge>>

\* refusal_node announces the end of the run itself.
Refusal ==
    /\ pc = "refusal"
    /\ hops' = hops + 1
    /\ Emit("run.completed")
    /\ response' = "refusal"
    /\ pc' = "end"
    /\ UNCHANGED <<settings, calls, attempt, invoked, material, error, result>>

\* Mutation: the error node publishes nothing.
ErrorNodeSilent ==
    /\ pc = "error"
    /\ hops' = hops + 1
    /\ response' = "apology"
    /\ pc' = "end"
    /\ UNCHANGED <<settings, calls, attempt, invoked, material, error, trail, result>>

\* error_node turns the error into a response.
ErrorNode ==
    /\ pc = "error"
    /\ hops' = hops + 1
    /\ Emit("run.failed")
    /\ response' = "apology"
    /\ pc' = "end"
    /\ UNCHANGED <<settings, calls, attempt, invoked, material, error, result>>

-----------------------------------------------------------------------------
(* The model gateway and the runner                                        *)

\* A request that times out or loses its connection is sent again after a
\* delay; nothing else is.
RetryRequest ==
    /\ pc \in Awaiting
    /\ gateway = "live"
    /\ attempt < MaxRetries
    /\ attempt' = attempt + 1
    /\ UNCHANGED <<settings, pc, hops, calls, invoked, material, response, error, trail, result>>

\* A model call raises ModelGatewayError after the last attempt and at once for
\* an HTTP status, an invalid output, a miss of the demo cache or a missing
\* setting; so may the publication of the event that follows.
CallMayRaise == pc \in Awaiting

\* An exception leaves the graph, and run() reports it as retryable whatever
\* the gateway has said.  A node raises for a blank question or an event that
\* cannot be published.
Raises ==
    /\ pc \in Nodes \/ CallMayRaise
    /\ pc' = "returned"
    /\ result' = [status |-> "failed", again |-> TRUE, calls |-> 0, hops |-> 0]
    /\ UNCHANGED <<settings, counters, material, response, error, trail>>

\* The graph has ended.  run() does not look at the state's error.
Return ==
    /\ pc = "end"
    /\ pc' = "returned"
    /\ result' = [status |-> "succeeded", again |-> FALSE, calls |-> calls, hops |-> hops]
    /\ UNCHANGED <<settings, counters, material, response, error, trail>>

-----------------------------------------------------------------------------
(* The specification                                                       *)

Next ==
    \/ LimitStops
    \/ Coordinator
    \/ \E found \in Retrievable : Retrieve(found)
    \/ \E sufficient \in BOOLEAN, items \in SUBSET Item : Organised(sufficient, items)
    \/ StartAnswer
    \/ ItemsRejected
    \/ \E pages \in SUBSET Pages :
          \/ AnswerAccepted(pages)
          \/ AnswerRetried(pages)
          \/ RewriteAccepted(pages)
          \/ RewriteRejected(pages)
    \/ Refusal
    \/ ErrorNode
    \/ RetryRequest
    \/ Raises
    \/ Return

\* An await of the graph ends: requests and statements have time-outs.
Spec == Init /\ [][Next]_vars /\ WF_vars(Next)

-----------------------------------------------------------------------------
(* Properties                                                              *)

\* graph.py's limits are kept although each node counts and compares at a
\* moment of its own: the run never makes more model calls than allowed, and
\* only the error node may come after the last hop.
WithinBudget ==
    /\ invoked <= limit.calls
    /\ hops <= limit.hops + 1
    /\ hops = limit.hops + 1 => error = "AGENT_LIMIT_EXCEEDED"

\* The model_calls that is stored with an answer or a refusal is the number of
\* calls made, though a call is counted now before, now after it; a run that
\* ends in an error may have counted one call that it did not make.
CallsAreCounted ==
    result.status = "succeeded" =>
        /\ result.calls \in {invoked, invoked + 1}
        /\ response \in {"answer", "refusal"} => result.calls = invoked

\* An answer is published only on a verdict of sufficient evidence; each
\* knowledge item rests on some of the evidence and, if there is any, the answer
\* that is published, after a retry the second one, cites pages of the evidence
\* and no others (evaluator_qa_node).
AnswerIsGrounded ==
    response = "answer" =>
        /\ knowledge.sufficient
        /\ \A item \in knowledge.items : \E c \in item : c \in evidence
        /\ evidence # {} => cited # {}
        /\ evidence # {} => \A p \in cited : \E c \in evidence : PageOf[c] = p

LastEvent == IF trail = <<>> THEN "none" ELSE trail[Len(trail)]

\* What the events say of the ending of the graph: run.completed is published
\* for a refusal, run.failed for an apology, a rejection for an answer or items
\* that are held back, each once and last, and after an exception none of them.
\* They do not say what the runner reports: it reports a success in all these
\* cases but the exception, a run.failed included (real_agent_runner.py).
EventsTellTheEnding ==
    /\ \A i \in 1 .. Len(trail) :
          trail[i] # "summary" => i = Len(trail) /\ pc \in {"end", "returned"}
    /\ result.status = "failed" => \A i \in 1 .. Len(trail) : trail[i] = "summary"
    /\ pc = "end" \/ result.status = "succeeded" =>
          /\ LastEvent = "run.completed" <=> response = "refusal"
          /\ LastEvent = "run.failed" <=> response = "apology"
          /\ LastEvent = "rejection" <=> error = "AGENT_OUTPUT_INVALID"
          /\ LastEvent = "summary" =>
                \/ response = "answer" /\ error = "none"
                \/ response = "none" /\ error = "AGENT_LIMIT_EXCEEDED"

\* The graph ends and the runner returns, whatever the model says.
Termination == <>(pc = "returned")

\* README.md promises answers with citations, or a refusal: what is reported
\* as a success is one of the two.
SucceededIsCitedOrRefused ==
    result.status = "succeeded" =>
        \/ response = "refusal"
        \/ response = "answer" /\ cited # {}

\* AgentRunnerService's view of the run.
OutcomeSeen ==
    CASE result.status = "none"   -> "none"
      [] result.status = "failed" -> "failed"
      [] OTHER -> IF response = "none" THEN "silent" ELSE "answered"

Runner == INSTANCE RunnerContract WITH
              emitted <- trail # <<>>,
              outcome <- OutcomeSeen,
              again <- result.again

\* LangGraphAgentRunner behaves as AgentRun takes a runner to behave.
RunnerSpec == Runner!Spec

=============================================================================
