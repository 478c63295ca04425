# StudyAgents in TLA+

StudyAgents answers questions about uploaded course material and trains its
users with generated exercises. It is a FastAPI process, a worker process for
the ingestion of documents, PostgreSQL between the two, and a Vue frontend that
follows the work of the agents through server-sent events. This directory holds
TLA+ specifications of the parts where order matters: background tasks that
outlive their request, transactions that overlap, streams that join late, and
processes that die in between.

Run a check with `tlc -config <run>.cfg <module>.tla` (the table under
[Runs](#runs) names both) and a proof with `tlapm <module>.tla`.

## Inventory

Paths are relative to the root of the repository.

| Component | State | Operations | Where it is hard | Model |
|---|---|---|---|---|
| Agent run lifecycle (`apps/api/services/agent_runner.py`, `db/models/run_state.py`, `routers/agent_runs.py`, `repositories/{agent_run,chat}.py`) | rows of `agent_runs`, assistant messages, the registry `_running` in memory | start, execute, three endings, retry, recover | a task outlives the request that made it; two sessions write one row; a crash leaves rows behind | `RunState`, `RunLifecycle`, `AgentRun`, `AgentRunProofs` |
| Agent events and streams (`agent_event_sink.py`, `sse_manager.py`, `routers/agent_sse.py`) | rows of `agent_events`, the queues and marks of `SSEManager` | emit, publish, mark_completed, connect, replay, fallback, live loop | replay and live events overlap; the mark is memory, the status is a row | `EventStream`, `EventStreamProofs` |
| Ingestion jobs (`routers/documents.py`, `routers/ingestion_jobs.py`, `apps/worker/main.py`, `worker/services/job_service.py`, `worker/ingestion*`) | rows of `documents`, `ingestion_jobs`, `chunks`; leases | upload, delete, retry; recover, claim, import, record | three sessions in one worker, leases that run out, crashes between two commits | `IngestionJobs`, `ImportProofs` |
| Answers and grading (`grading_service.py`, `routers/practice.py`) | idempotency records, submissions, grades, mastery, change log, wrong book | submit an answer | row locks, unique keys, repeated and simultaneous submissions | `Grading`, `GradeBook`, `GradingProofs` |
| Mastery rules (`mastery_rules.py`) | none | pure functions | thresholds, rounding, windows | `MasteryRules` |
| Training sessions (`training_service.py`, `routers/{practice,training}.py`) | sessions and items | create, current and next question, finish, summary | two overlapping finishes; reports of several SELECTs while answers are graded | `Training` over `GradeBook`, `TrainingProofs` |
| Wrong book, learning summary (`routers/{wrong_book,learning_summary}.py`) | marks of wrong-book entries | list by pages, mark, summarise | one report, up to five SELECTs | `Training`, `TrainingProofs` |
| QA agent graph (`agents/graph.py`, `services/real_agent_runner.py`) | graph state of one run | route, retrieve, organise, answer, check citations, refuse | counters and limits at different moments, retries inside a node, error states that must not be reported as success | `QaGraph`, `RunnerContract`, `QaGraphProofs` |
| Practice agent graph (`agents/graph_practice.py`, `agents/rules/grading.py`) | graph state of one training, kept by a checkpointer while the student thinks | route, question, wait, evaluate, summarise | edges that ignore errors, channels that lose what a node does not return, resume after an interrupt | `PracticeGraph`, `AnswerRules`, `PracticeGraphProofs` |
| Model gateway (`model_gateway.py`) | none | call, retry, repair | attempts and time-outs | its attempts and outcomes, in `QaGraph` |
| Chat (`routers/sessions.py`, `repositories/chat.py`, `useChatStore.ts`) | message rows; the questions a tab waits for | ask, answer, poll | sequence numbers of simultaneous messages; a poll that races the commit of the answer | `Chat`, `AskingProofs` |
| Upload checks and storage | files | check, hash, store | two uploads of one file | not modelled |
| Authentication | session rows | login, logout, roles | expiry | not modelled |
| Retrieval (`worker/retrieval/*`, `keyword_indexer.py`) | the in-memory indexes, the cache of answers | index, remove, retrieve, judge | statistics kept by hand, cached answers, score thresholds | `Retrieval`, `AskingProofs` |
| Structuring and chunking (`worker/ingestion/{structurer,chunker}.py`) | none | section, flatten, split, merge, overlap | indices computed from cuts, buffers that must be flushed | `Chunking`, `ImportProofs` |
| Parsing, extraction, vectors | none | PDF, OCR, regular expressions, embeddings | pure functions of text | not modelled |
| Review queue, in-memory job manager | review items; the manager is not wired in | review, approve | plain updates | not modelled |
| Frontend | the browser's view | connect, follow, poll | a stream that ends before the answer is stored | its side of a stream and of a chat |
| Contracts, migrations, scripts, health, logging | none | schemas, one-off operations | none | not modelled |

How they interact:

* A chat request inserts an `agent_runs` row and hands the run to
  `AgentRunnerService`, which creates an `asyncio` task. The task has its own
  database session. It emits events through `AgentEventSink`, each in a commit
  of its own, and ends by writing the status of the run and calling
  `SSEManager.mark_completed`. A client reads the events through
  `GET /agent-runs/{id}/events`.
* The chat store of the browser closes its stream at the terminal event, which
  the graph publishes before the answer is stored, and polls for the answer.
  It never reconnects; replaying from a `Last-Event-ID` is a service of the
  server for other clients, and modelled as such.
* A training session is created by the API's own `TrainingService`. The
  practice graph is a second implementation of training that only tests run;
  nothing but their models connects the two.
* A grading request runs in the request itself and stores its run and two
  events afterwards, in a second transaction of the same session.
* The API and the worker share nothing but tables: the API inserts document and
  job, the worker polls, claims under a lease, imports in a session of the
  pipeline, and records the outcome with the session that loaded the rows
  before the import.
* `get_session` commits after the handler has returned and rolls back when it
  raises. SQLAlchemy writes only the columns whose value differs from the one
  the session has loaded. Both facts decide what overlapping sessions do to
  each other, and every model keeps them.

What makes each part correct, in one sentence: a run is executed by one task at
a time and reaches the status its execution earned; a stream shows every event
once it is committed, in order, and ends with the status of the run; a job is
settled once, its document says the same, and nobody forgets it; an answer is
graded once, and mastery is the sum of the grades, whatever the client repeats;
a report says nothing that was never true; an import loses no text, and the
index counts what it holds.
`PROJECT.json` lists the hazards at their lines with the properties that cover
them.

## Modules

**RunState** has the statuses and `VALID_TRANSITIONS` of `run_state.py`.

**RunLifecycle** is the abstract specification of a run: what a reader of the
database sees. A run moves along the table, or by one of three moves that code
makes without asking the table (insert; recovery; failure before the first
commit as running), and an answer appears in the step that completes the run.

**AgentRun** is the service. `status`, `retryable`, `answered` are committed
rows; `writer[r]` is the transaction with an uncommitted write to the row;
`registry` is `_running`; `pc` and `job` are the tasks, `rpc` and `rrun` the
retry requests; `up` and `crashes` the process. An action is what runs between
two awaits at which something else may read or write the same state:

| Code | Actions |
|---|---|
| `start_qa` | `StartQa` (row, first event and task; nobody else knows the run) |
| `_execute_run`, `transition_run_status` | `ExecLoad`, `ExecFlush` (row lock, not committed) |
| the first `emit`, which commits the session | `ExecEmit` |
| `runner.run` returns or raises | `RunnerReturns`, `Raise` |
| `_on_success`, `_on_failure`, `_on_exception` | `SaveLoad`, `SaveCommit`, `PersistFails` |
| `finally` | `ExecFinish` |
| `POST /agent-runs/{id}/retry`, `retry_run`, commit in `get_session` | `RetryRead`, `RetryCheck`, `RetryFlush`, `RetryCommit`, `RetryRollback` |
| `recover_stale_runs`; `create_app`, which does not call it | `RecoverStaleRuns`, `BootWithoutRecovery` |
| the process dies | `Crash` |

`SaveCommit` writes `Written(loaded, target, current)`: the ORM leaves a column
alone whose new value equals the loaded one. This is how a late ending can miss
a change made meanwhile. The runner is its outcome (answered, no answer,
failed, exception) and whether that is retryable.

**RunnerContract** is what AgentRun relies on in one call of a runner: events,
then at most one return, of a result that `RunState!MayReturn` allows. AgentRun
uses the same operator, so a runner that implements the contract is one that
AgentRun has taken into account.

**QaGraph** is one call of `LangGraphAgentRunner.run` in mode qa. `pc` is the
node to execute or the model call that is awaited; `hops`, `calls`, `evidence`,
`knowledge`, `response` and `error` are the fields of `AgentState`; `attempt`
is the gateway's; `trail` is what has been published; `invoked` counts the
calls that were really made. `limit` and `gateway` are configuration: they are
chosen in `Init` and never change.

| Code | Actions |
|---|---|
| a node that finds a limit reached | `LimitStops` |
| `coordinator_node` (no model call in mode qa) | `Coordinator` |
| `knowledge_node` up to and after its model call, the edge it chooses | `Retrieve`, `Organised` |
| `evaluator_qa_node` up to its first model call | `StartAnswer`, `ItemsRejected` |
| its check of the answer, the second call, the second check | `AnswerAccepted`, `AnswerRetried`, `RewriteAccepted`, `RewriteRejected` |
| `refusal_node`, `error_node` | `Refusal`, `ErrorNode` |
| the gateway's retry of a request | `RetryRequest` |
| an exception that leaves the graph; the end of the graph | `Raises`, `Return` |

The retriever turns a database error into no evidence, so `Retrieve({})` is
both an empty result and a failure. Every exception is reported as retryable,
whatever the gateway has said. The evaluator's edge leads to END, so only a
limit found by the first two nodes reaches `error_node`.

**EventStream** is one run: `log` is `agent_events`, `lock` the row lock of
`SELECT ... FOR UPDATE`, `mark` the two dictionaries of `SSEManager`, and each
client has the connection's queue, what it has received and the
`Last-Event-ID` it will send. `emit` is `Lock`, `Insert`, `Commit`, `Publish`;
an ending is `Finish` (commit of the status) and `MarkCompleted`; a stream is
`Connect`, `Replay`, `FallbackRead`, `FallbackMark`, then `Get` or `Heartbeat`
and `EndOrWait`. `Disconnect` and `DisconnectEarly` differ because a generator
cancelled during the replay never reaches its `finally`. `Begin` admits two
overlapping executions, since AgentRun shows that retries may overlap.

**IngestionJobs** is the API and the workers. A worker is at one of six points
of `_process_pending_jobs`; `work[w]` is what its session has loaded, and
`docLock` the row lock the pipeline holds from its first flush to its commit.
The stages of the pipeline (parse, chunk, extract, index) are in one
transaction and are therefore `StartImport` and `CommitImport` or
`ImportFails`. `Crash` also stands for a database error that ends a round.
`RefusePath` is the exception the worker catches itself: the stored path leads
out of the files root, and the handler fails the job and leaves the document
as it is. The API stores paths under that root only, so it takes a file that
has become a link since; `Displaced` are the documents this may happen to.
Handlers are registered for every stage, so the branch for a missing handler is
unreachable and left out. Progress percentages are dropped by the recorder the
worker installs and are left out too.

**Grading** is `submit_answer` statement by statement under READ COMMITTED: an
uncommitted insert of a unique key makes others wait (`keyOf`, `itemOf`,
`masteryOf`), and a commit makes them fail. It has one user and one knowledge
point, because rows of different users and points are never read or locked
together. `Entries` computes the change log with the rules below, and with the
way `_get_recent_score_ratios` recovers earlier scores from it.

**GradeBook** is what the rest of the API may rely on: a question is graded in
one step, with its entry in the mastery log and the wrong book. `Grading`
implements it (`GradesAtomically`): the refinement maps the committed
submissions to grades and the log without its derived entries to the changes;
requests under way are invisible. `Training` is built on it, so it needs none
of the locks. Levels start at `DefaultLevel`, the 0 the column has
(`mastery_record.py:25`), which is what the service stores; the rule
`initial_mastery`, of which nothing is called but by tests, says 0.5
(`InitialMastery`). See GradingInitial below.

**Training** is everything around the answers. Requests that write are single
steps, but for a finish, which reads the status before it writes it. Requests
that only read go on one SELECT at a time with the writers in between; `reader`
is the one in flight and what it has read. They do not write, so one at a time
shows all that any of them can see. Mastery and its log belong to a user and a
knowledge point, not to a session: `Elsewhere` are questions of the user's
other sessions, of which only the answers matter here.

| Code | Actions |
|---|---|
| `TrainingService.create_training` | `Create` |
| `submit_answer`, as `GradeBook` has it; the same in another session | `Answer`, `AnswerElsewhere` |
| `finish_practice_session` | `FinishRead`, `FinishCommit` |
| `update_wrong_book` | `MarkEntry` |
| `get_practice_session`, `get_next_question` | `Begin`, `Scan`, `Respond` |
| `get_practice_summary` | `Begin`, `Scan`, `ScanGrade`, `ReadMastery`, `ReadLogs`, `Respond` |
| `get_learning_summary` | `Begin`, `ReadLevel`, `ReadReason`, `CountPending`, `CountReviewing`, `ReadRecent`, `Respond` |
| `list_wrong_book` | `Begin`, `CountTotal`, `ReadPage`, `Respond` |

**AnswerRules** has the rules that grade without a model or check one that has
graded: options, blanks and numbers, rubrics and step scores. A text is a
sequence of tokens, each with the number it denotes, if any, and the width of
its characters; parsing is not part of it. Scores are integers.

**PracticeGraph** is one training on the practice graph. `pc` is the node to
execute, the model call or the student that is awaited; the other variables are
channels of `AgentState`. A node works on a copy: what it does not return is
lost, and these nodes return their counters with an error only. So limits are
compared with zero plus one, and the model has it that way (`counters` change
in `Fail` and `ErrorNode` alone). The message to the grading model holds the
question, the expected answer, the rubric and the sources, and not what the
student answered (`graph_practice.py:299-309`): `Graded` returns step scores
that no answer has to do with, and the rules that grade choices and blanks are
the only readers of `answer`.

| Code | Actions |
|---|---|
| `coordinator_node` | `CoordinatorStops`, `Coordinator` |
| `questioner_node` up to and after its model call | `QuestionerStops`, `Retrieve`, `Generated` |
| `wait_for_answer_node`, the call that resumes the graph | `Interrupt`, `Resume` |
| `evaluator_node`, `_finish_item` | `EvaluatorStops`, `GradeByRule`, `AskGrader`, `Graded` |
| `summary_node`, `error_node` | `Summarise`, `ErrorNode` |
| an exception that leaves the graph | `Raises` |

**Chunking** is an import from the layout of a document to its chunks, one
action for each step: `Structure`, `FlattenPages`, `Split`, `Merge`,
`Overlap`. A character is a class (letter, stop, newline, blank) and an
identity, so that one can ask where it has gone. Whether a block is a heading,
and of which level, is an input. A loop of the code is a recursive function of
the number of its turns, so that theorems can be proved about it.

**Retrieval** is `HybridRetriever` over the in-memory back ends. `docFreq` and
`totalDocs` are what the keyword index keeps by hand; `cache` is the cache of
answers; `last` the call that has just returned. Similarities are an arbitrary
order of the hits; fusion scores are exact fractions; a sorted list is the one
row of its elements that is in order (`Sorted`). `Index`, `RemoveVector`, `RemoveKeyword`, `RetrieveCached`,
`RetrieveFresh` and `ClearCache` are the calls: the back ends never suspend.

**Chat** is one chat session: `log` is the committed messages, `number[r]` the
sequence number that the open transaction of a question or an answer has read,
`ask[r]` where the promise chain of the browser stands, `active[t]` the one
stream that the tab would close (`activeEventSource`).

| Code | Actions |
|---|---|
| `sendMessage`, `startQa` of the store | `Ask`, `RefuseQuestion` |
| `POST /sessions/{id}/qa`: insert and commit of the question | `InsertQuestion`, `CommitQuestion` |
| the runner's endings; a failure that cannot be persisted either | `InsertAnswer`, `CommitAnswer`, `EndWithoutAnswer`; `EndUnheard` |
| `connectAndStreamSSE` at the terminal event or an error; the same once the server ends the stream | `StartPolling`, `StreamEnds` |
| `pollForAssistantMessage` | `Poll`, `PollFails` |

**MasteryRules** has the rules over integers: hundredths for ratios (the code
rounds them to two digits), ten-thousandths for levels (four digits). A tie in
the rounding of a level goes up here; in the code it depends on the binary
representation.

**MC\*** declare the model values of the instances, where there is more to say
than a configuration can. An operator under a comment
"Mutation" is a variant of the definition after it with a plausible bug; no
specification uses it, and it serves to show that a property would notice.

## Runs

All bounds are constants of the `.cfg`.

| Run | Instance | What it shows |
|---|---|---|
| AgentRunSerial | 2 runs, 3 tasks, 1 retry request, faults, 1 crash, both boots | With retries one at a time: the inductive invariant `SerialInv`, no duplicate execution, `RunLifecycle` is implemented |
| AgentRunOverlap | 1 run, 2 tasks, 2 retry requests, 1 crash, both boots | With overlapping retries: a running run has a task that will end it, unless a boot has abandoned it; running runs end or are abandoned while retries do not overlap; queued runs end when nothing disturbs |
| QaGraph | 3 chunks on 2 of 3 pages, 2 of them retrieved, 2 items, `MAX_RETRIES = 2`, 7 pairs of limits, 3 gateways | Calls and hops stay within the limits and are stored right, a published answer is grounded, the last event tells which ending the graph took, the runner contract is implemented, the run ends |
| EventStream | 2 executions, 1 client, 3 events, 2 connects, 1 crash, 1 fault | Numbers are contiguous, an open stream misses nothing, a run executed once is seen in order and whole (`SeenWhole`), the end is heard, also after a restart |
| IngestionJobs | 2 documents, one of them displaced, 1 worker, 1 retry request, 1 crash, `MAX_RETRIES = 2` | Document and job agree (but for the displaced), nothing is orphaned, attempts are bounded, settled is final, every job settles |
| Grading | 3 items, 3 keys, 2 requests, 4 judgements | Graded once, no lost mastery update, no deadlock, and `GradeBook` is implemented |
| PracticeGraph | trainings of 1 to 3 questions, 3 questions, 3 answers, 4 lists of step scores, 3 pairs of limits | A rule grades the answer given to its own question, the summary is complete and within its marks, sources are used once, the training ends |
| Training | 1 session of 2 or 3 questions (2 are refused), 1 question of another session, 3 answers, 1 finish at a time, pages of 2 entries, 2 judgements | Repeated finishes agree, students are sent to the first open question, summaries, learning summaries and pages agree with what was graded |
| Chunking | texts of 1, 8, 9 and 11 letters and stops, all of them; white space around breaks; all triples of short blocks on one page or two; sizes 5, 8, 2, 3 for 500, 800, 80, 100 | No text is lost, pieces follow each other, chunks are merged as far as allowed and bounded |
| Retrieval | 3 chunks, 2 terms, 4 questions, 3 filters and none, 2 roles, `RrfK = 10`, 1 cached answer | Statistics follow the index, answers obey the filters asked for, fusion prefers agreement |
| Chat | 2 questions of one tab, 3 polls | Answers are numbered after their questions, without gaps; the promise of a question resolves, but for two cases that are named |
| AgentRunDuplicate | 1 run, 2 retry requests | The finding below |

Why the bounds are enough:

* *AgentRun.* Tasks of different runs touch each other only through a
  recovery, for which two runs and three tasks suffice: one run may have a
  task left from a rolled back retry while the other starts. A further crash
  repeats what one can do, since a crash empties all memory, and what it leaves
  in the rows is reached again after it.
* *QaGraph.* The rules about evidence ask whether a set meets or lies in
  another: two retrieved chunks, a third that is not, a page with two chunks and
  a page with none give every answer. With the source's limits of 4 calls and 8
  hops no node is ever stopped; the smaller pairs in `AllLimits` stop each node
  in turn. The run ends, so TLC's deadlock check is off.
* *EventStream.* Two executions are the most that race for one number; three
  events are one before, one during and one after a replay; streams do not
  read each other's state, so one client stands for each of many. The bound on
  events is in the guard of `Lock`, so no behaviour is cut inside an emit.
* *IngestionJobs.* Two documents make the worker choose; `compose.yml` starts
  one worker. One document is displaced and one is not, so that a refused path
  can be told from every other failure. With `Workers = {w1, w2}` TLC finds `SettledIsTerminal` violated:
  nothing renews a lease, an import of more than five minutes is claimed by the
  second worker, and the late outcome of the first overwrites a settled job. A lease
  may expire during every attempt that `MAX_RETRIES` and one crash allow;
  `MaxAttempts = 8` is above the largest number reached (4), so it only keeps
  the model finite if `AttemptsAreBounded` should fail.
* *PracticeGraph.* Three questions are one before, one at and one after the
  index; the questions are one of each kind of grading (choice, blank, model),
  with no, one and two sources; the step scores are in range, out of range,
  doubled and of an unknown item; the limits stop the questioner and the
  coordinator. About 33,000 states.
* *Training.* Three questions give a first, a middle and a last position and a
  page that is not full; sessions of fewer than three are refused by the code.
  The reader meets writers at every SELECT. Three answers are enough to answer
  all of the session, or some of it before and after one elsewhere, which is all
  a report over several SELECTs can confuse. About 1.15 million states. A second
  finish request in flight is TrainingFinish.cfg, below.
* *Chunking.* The lengths are at, below and above both limits and long enough
  for two cuts; a triple is the shortest sequence in which a merge depends on
  an earlier one. The sizes keep the order and the inequalities of the
  source's. About 53,000 states.
* *Retrieval.* The three chunks differ in what the code looks at: shared and
  repeated terms, chapter, year, role, marker. One answer is cached at a time,
  because entries do not influence each other.
* *Chat.* Questions meet in pairs: one closes the other's stream, reads
  the number the other is about to use, or counts the other's answer. With
  `TabOf <- TwoTabs`, the same properties hold of two tabs.
* *Grading.* Two requests are enough for any two statements to overlap; three
  items give runs of scores longer than the window of two that the rules look
  at. The four judgements are good, bad, good but due for review, and without
  confidence, which are the classes the rules tell apart. Grading, Training and
  Retrieval keep TLC's deadlock check on; in the others the system may stop:
  the program ends, or the bounds are used up.

Symmetry is used in AgentRunSerial and Grading, which check no liveness.
`LifecycleSpec` is a safety property.

### Fairness

* *AgentRun*: weak fairness of every task, request and of the boot. `asyncio`
  runs every ready callback in turn, a runner's model calls have time-outs, and
  `compose.yml` restarts the process (`restart: unless-stopped`). That a boot
  recovers is not assumed: the program's own, `create_app`, does not, and puts
  the running runs it finds into the history variable `abandoned`. Nobody is
  forced to start or to retry a run, and no outcome of a runner is forced.
* *QaGraph*: weak fairness of `Next`. Each wait is for a model request or a
  statement, and both have time-outs; no answer, verdict or success is forced.
* *EventStream*: weak fairness of executions and generators, as above. Clients
  are free: they need not connect, and may leave. An execution may publish, end
  or fail as long as it takes some step in the end.
* *IngestionJobs*: weak fairness of the worker's loop, of the passing of time
  (leases) and of a retry that has read its job. No success is forced: a job
  may fail each time, and settles then as failed.
* *PracticeGraph*: weak fairness of the graph, as for QaGraph, and of the
  student: `Termination` is about trainings whose student answers. Nothing in
  the code ends one that is abandoned.
* *Chat*: weak fairness of requests and polls, each of which returns or fails
  in the end, of the execution of a run, which is over at last, as in AgentRun,
  and of the stream of a run that is marked as ended (`StreamEnds`). No other
  stream has to end: when the failure of a run cannot be persisted, nobody marks
  the run (`agent_runner.py:568-571`), and the stream sends heartbeats as long
  as the client listens. `AskingEnds` names that case, and the one of a stream
  that a later question of the tab has closed, as the only two in which a
  promise stays open.
* The other runs have safety properties only.

`SerialRunningEnds`, `UndisturbedQueuedEnds` and `EndIsHeard` have their
hypothesis in the formula: overlapping retries, a crash of a queued run and
database faults each break the conclusion, and the first two are findings or
hazards of their own. `SerialRunningEnds` also has the second way in which a
running run may stay so: a restart has abandoned it. Without that disjunct it
is false of the program (AgentRunStranded).

## Findings

**AgentRunDuplicate** is a run whose only property TLC violates; `PROJECT.json`
quotes the line of the repository it disagrees with. `retry_run` tests
`_running`, awaits the update of the row, then registers its task. Two retries
pass the test together and the run is executed twice at once.

Fourteen more configurations show counterexamples when run by hand, with
`tlc -config <name>.cfg MC<module>.tla` (`EventStream.tla`, `IngestionJobs.tla`
for those two). Each checks one property that a reader of the code or its tests
would expect and that does not hold:

| Configuration | Property | What happens |
|---|---|---|
| AgentRunRetryLost | `QueuedEnds` | `retry_run` creates its task before the request commits. A task that reads the row first finds it failed, gives up, and the commit leaves the run queued with no task. |
| AgentRunStranded | `CrashesAreRecovered` | `create_app` (`main.py:32-90`) does not call `recover_stale_runs`: a run that was running at a crash stays running, and cannot be retried. |
| QaGraphUnanswered | `SucceededIsCitedOrRefused` | `run()` does not look at the error of the state the graph returns: when the evaluator rejects an answer, the run is stored as completed without one, and cannot be retried. |
| EventStreamStale | `TerminalEventIsCurrent` | The mark of a failed execution outlives its retry. A client that follows the retry is told `run.failed` and disconnected. |
| IngestionJobsDeleted | `DeletedStaysDeleted` | A document deleted during its import is active again afterwards. |
| GradingMastered | `TwoGoodScoresMaster` | The query for recent scores also reads log entries that a grade derives, and takes the mastery level for a score: after three good answers the third is not logged as mastered. |
| GradingInitial | `NewPointsStartHalfway` | "The default mastery of a new knowledge point is 0.5", say `mastery_rules.py:68` and `test_mastery_rules.py:120-122`. `_get_or_create_mastery` stores the default of the column, 0, and the first change is computed from there. |
| PracticeGraphUnread | `EveryGradeReadsItsAnswer` | The message to the grading model does not hold what the student answered (`graph_practice.py:299-309`). |
| TrainingOwnChange | `ChangeIsOfTheSession` | The summary announces the change of mastery of this session (`practice.py:455` and 459), but its query names no session: it is what the knowledge point has changed since it was new. |
| TrainingFinish | `FinishIsIdempotent` | Two finishes, one to complete and one to cancel, both read `active` (`practice.py:338`); the later commit wins and the earlier response was wrong. |
| ChunkingMaximum | `WithinMaximum` | A stop between target and maximum is looked for beyond the maximum (`chunker.py:265`), so a chunk exceeds it by more than the tolerance `test_chunker.py` allows. |
| RetrievalSufficient | `RelevantIsSufficient` | The verdict compares the best score with 0.05 (`sufficiency.py:65`), but a fused score is at most 2/61: every fused answer is judged too weak. |
| ChatOwnAnswer | `PollEndsWithItsAnswer` | The poll waits until there are more answers than before (`useChatStore.ts:673`, called with the words "until the assistant message is stored", line 543): the answer of another question ends it. |
| ChatUnheard | `EveryPromiseResolves` | A failure that cannot be persisted leaves the run unmarked: its stream sends heartbeats only, and `startQa` waits for it for ever. |

`FinishIsIdempotent` holds when finishes do not overlap: the run Training checks
it for one finish at a time, and `FinishesAgree` proves it.

More are recorded under "hazards" only. A run that is queued when the process
dies is recovered by nobody, by `recover_stale_runs` neither. A job whose path
is refused fails for good, and its document stays pending. A
second worker overwrites a settled job, as said under the bounds. A generator
cancelled during the replay leaves its queue behind. Two uploads of one file at
once leave two rows of one hash, after which `check_duplicate` raises for every
further upload of it.

Noticed while reading, without a property: the practice graph's limits never
accumulate, as its counters are lost; no question carries `acceptable_forms`,
so a blank has one accepted text; exam
questions are never protected from being cut, as the chunker files all of them
under page 0; `recent_accuracy` divides by at least 10
(`learning_summary.py:99`), which assumes questions of ten marks; the list of
practice sessions filters by status after it has cut its page
(`practice.py:192`).

## Theorems

**AgentRunProofs.** For all finite or infinite sets of runs, tasks and requests:

* `TypeCorrect`: `TypeOK`. It needs `Assigned`, that a live task and an active
  request name a run and that a task which is not live has no job.
* `RunningIsExecuted`: `RunningHasExecutor`, for any number of overlapping
  retries, assuming that failures can be persisted (`~DatabaseFaults`), of the
  runs that no boot has abandoned. It is inductive with
  `TypeOK` and `Assigned`: a step that makes a run running leaves its own task
  working on it, and a task stops being the executor only by writing a status
  that is not running. `WillEnd` asks that a saving task has loaded a status
  other than its target, for otherwise the ORM writes nothing.
* `SerialRetriesFit`: `SerialInv`, with faults, crashes and both ways to boot,
  assuming `\A a, b \in Requests : a = b`. No property of serial retries is
  inductive alone: that a run is not executed twice rests on the registry
  naming every live task (`LiveFits`), that rests on the check of the registry
  still being true when the retry flushes (`RequestFits`), and that an answer
  is never overwritten rests on what each stage of a task may find in its row
  (`TaskFits`).
* `NoDuplicates`, `CompletedStays`, `ImplementsLifecycle`: consequences. In the
  last, every step of AgentRun is shown to be a move of `RunLifecycle` or a
  stutter (`StepSeen`); `EndingMoves` is the one hard case, the commit of an
  ending.

The finding AgentRunDuplicate shows that the assumption on requests cannot be
dropped: TLC finds `NoDuplicateExecution` violated with two requests.

**EventStreamProofs.** `NumbersAreContiguous`, for any number of executions,
clients, faults and crashes: `EmitInv` adds to `LogIsContiguous` that an
execution between its lock and its commit holds the lock and that the number it
has read is the length of the log (`LockInv`). The lemma `NextIsLength` is the
step from a maximum plus one to a length. `TypeCorrect` is `TypeOK`.

* `EventsAreNotMissed` is inductive with `StreamInv`: a replay sends exactly
  what the log has from `resume` on (`NewerIsRest`), and a client has all that
  it does not ask for (`ResumeFits`). An event that is committed but not yet
  published counts as on its way, so the order of queue and history is all that
  matters: `Publish` reaches every open stream.
* `RunsAreSeenWhole` needs one execution (`AloneInv`), which makes the run
  active while it emits and gives it one verdict for the mark, for the fallback
  and for every closed stream (`VerdictInv`); that what a client has received,
  followed by what waits in its queue, has no gap (`OrderInv`); and that a
  closed stream has the whole log and stays so (`ClosedInv`). The step that
  appends to a queue uses `NothingMissed`: all that is earlier has been
  received, waits, or is the event itself.

**QaGraphProofs.** For all sets of chunks and pages, any number of retries, any
limits (at least one hop) and any setting of the gateway:

* `QaInvariant`: `QaInv`, the invariant the others follow from. No property is
  inductive alone. That no call is made beyond the limit needs to know, at each
  node, how far `calls` and `invoked` may be apart, since the first calls are
  counted before they are made and the rewrite after (`CountersFit`); that an
  answer is grounded needs what has been checked on the way to the call that is
  awaited (`EvidenceFits`); that `run.completed` and `run.failed` come last
  needs that a run that goes on has published summaries only (`TrailFits`); and
  all need to know when there is a response, an error and a result
  (`OutputFits`).
* `TypeCorrect`, `CallsWithinBudget`, `AnswersAreGrounded`,
  `StoredCallsAreExact`, `EndingIsTold`: its consequences. The rewrite
  stays within the budget for every limit, although it is not checked: two
  calls are counted when the evaluator starts, and that must be less than the
  limit. `EndingIsTold` says which ending the last event stands for; it says
  nothing of what the runner then reports, which is success after `run.failed`
  too (QaGraphUnanswered).
* `ImplementsContract`: the run of the graph implements `RunnerContract`. With
  `ImplementsLifecycle` this is the chain from the nodes of the graph to the
  row a reader sees: `MayReturn` is the interface of both.

The proofs assume the named ASSUMEs of the modules, which TLC evaluates on
every run, and nothing else.

**GradingProofs.** For any items, keys, judgements and any number of requests:
`GradingInv` says which keys and locks a request holds at each statement and
that what it has read stays true while it does (`LocksFit`, `RequestFits`), and
relates keys, grades and reports (`GradesFit`). `NothingIsGradedTwice` counts
keys with `FiniteSetTheorems`. `NobodyWaitsForEver`: locks are taken in the
order key, item, mastery, so in a set of waiting requests those that wait
furthest in this order wait for one outside the set.

* `MasteryAddsUp` is `MasteryIsExplained`. `LogExplains` relates the row to
  the log: attempts, good answers and the streak are the numbers of the places
  of the log with a grade that counts, with a good one, and behind the last bad
  one. A grade appends one entry, and what it derives appends others, none of
  which is such a place; `PlaceBehind` counts the new one.
* `GradingIsAtomic`: Grading implements `GradeBook`, which the reports of
  Training are checked over. One statement of `submit_answer`, the commit, is
  the abstract grade; every other one is a stutter. The log of changes is the
  subsequence of the log at its grades, and the m-th of them stays the m-th.

**PracticeGraphProofs.** For any questions, answers, sources, targets and
limits: `TrainingInv` has where index, questions, screen and answer stand at
each node (`Place`), which errors are possible where (`Errors`) and that the
sources of finished questions are excluded. `RulesReadAnswers` and
`SourcesAreFresh` follow; the first speaks of rules only, as the grading model
is given no answer. `TrainingsAreTold` is `SummaryIsComplete` and `TrainingTypes` is
`TypeOK`: both need that the totals of a summary are natural numbers and the
score at most the maximum (`SummaryFits`), whatever the number of questions, and
that is an induction over them (`TotalsFit`). That the totals of one rubric and
of one list of graded steps are natural numbers, whatever scores a model
returns, is shown for the folds they are computed with (`RubricsAddUp`,
`CreditsAddUp`, from `FoldIsNat`): the assumptions only give the types of
rubrics and steps.

Here and in ImportProofs, induction is over sets, as the provers cannot
instantiate a theorem whose parameter is an operator: `<` on the naturals is a
well-founded set of pairs (`BelowIsWellFounded`), so a set of naturals with 0
and the successor of each member has all of them (`SetInduction`). A recursive
function is a CHOOSE in disguise; that there is a function with its equation is
shown by the same induction (`SumsExist`, `AddsExist`, `JoinsExist`,
`PositionsExist`, `MergesExist`, `FoldsExist`) before the equation is used.

**TrainingProofs.** For any sessions, sizes, judgements and page size, and any
number of requests that finish a session; one request reads.

* `BookExplains` ties the grade book to the log of changes and the wrong book:
  which questions have a grade, which of them are bad, and which have an entry,
  those of other sessions included.
  `BookGrows` says what a later state may add.
* A report is a sequence of SELECTs, each of which sees a later book.
  `ReaderFits` says, for each SELECT that lies ahead, what those behind have
  read, as bounds: a number read earlier is at most what can be counted now,
  one read later at least. `SentToFirstOpen` and `ReportsAreTrue` are
  `CurrentItemIsFirstOpen` and `ReportsAgree`, at the moment of the answer.
* `FinishesAgree` is `FinishIsIdempotent` under `[]OneFinishAtATime`: no two
  finishes of one session are in flight. The configuration TrainingFinish shows
  that the hypothesis is needed. `FinishesOneByOneAgree` is the case of a single
  request at a time.
* `TrainingTypes`: `TypeOK`.

**ImportProofs.** The job of an import and the chunks it makes.

*The job* (IngestionJobs), for any documents, crashes and bounds. `TypeCorrect`
and `RunningIsLeased` hold for any number of workers and retries; the others
assume `OneAtATime`, at most one worker and one retry request, and need it: TLC
finds `SettledIsTerminal` violated with two workers, and two retries overwrite
a job that has been claimed. `JobsInv` is the inductive invariant: what a
worker has loaded is still true when it records the outcome, but for a delete
(`WorkFits`), a job that waits or has been cut off has an execution left
(`AttemptsFit`), a retry that has judged its job still finds it so
(`RetriesFit`). `DocumentsFollow`, `AttemptsStayBounded` and `SettledStays`
follow from it; the last is an action property and is shown action by action.

*The chunks* (Chunking), for any documents, sizes and kind of pages. Every step
computes its result from that of the step before, so the inductive invariant
`Pipeline` only says that each result is what its function makes of the one
before; the work is in what the functions do:

* `ConcatSet` and `ConcatSelects`: the members of a concatenation, and the place
  of one in it. `StripOfPart`: stripping a part of a text leaves a part of it,
  with all that is not white space.
* `Places`: the pieces of a text are parts of it, each of which begins and ends
  later than the one before, and every solid character is in one
  (`HardCutPlaces`, `SoftCutPlaces`). That a soft cut comes to the end needs
  that every break lies behind the one before (`CutPositions`). `CutsFollow` is
  `PiecesFollow`: a piece is found by its first character, as the characters of
  a text are distinct.
* `SectionsKeep`, `DocumentSegments`: every paragraph and formula is in a
  section, hence in a segment of its page; a heading may be dropped. `MergeKeeps`:
  merging keeps the characters of every piece that is not blank, on its page
  (`Holds`), and the sizes (`Small`). `OwnCharacters`: what a chunk has that its
  merged piece has not comes first. Together they are `NoCharacterIsLost`, for
  `NothingLost`.
* `ChunksAreWellSized` is `WellSized`. That two neighbours may not be merged was
  to hold always, and the proof failed: a blank piece is looked at, cannot be
  merged, and is dropped when its turn comes; then its neighbours, which were
  never compared, follow each other. The property is now stated for imports
  without blank pieces. The other half, the sizes, has no such condition.

`ChunkingAssumption` has what the documents are: only text blocks are headings,
and a text does not have the same character twice.

**AskingProofs.** What a question rests on, Chat and Retrieval.

* `AnswersFollow` and `NoGaps`, for any tabs and questions. `NumberingInv`:
  stored numbers are an initial segment; a number that an open transaction has
  read is in it or next, and stays so while others commit; the number read for
  an answer is above its question's. No row lock is needed for this, and no
  more can be said without one: numbers may be shared.
* `StatisticsAreExact`: the counters are the cardinalities they stand for, for
  any chunks and terms. It needs that the index is finite (`IndexInv`).
* `FiltersAreObeyed` is `AnswersObeyTheirFilters`. It is inductive with
  `CacheObeys`: what the cache holds for a key obeys the filters in the key.
* `AgreementComesFirst` is `FusionPrefersAgreement`, if neither search returns
  more than `RrfK + 1` hits; the source has 20 and 60. With more, 1/(k + 1) is
  no less than twice 1/(k + rank): the best hit of one search ties with the
  last ones of both, or precedes them. The proof compares fractions by their
  products (`BetterRanks`, `TwoBeatOne`).

Model-checked only: every liveness property, as fairness and ENABLED are beyond
the provers used here. Every invariant and every action property that a passing
run checks is stated by a theorem.
`TypeOK` is an invariant of the proofs where there are proofs, and of no run.

## What the models leave out

* Questions, answers, chunks, scores' explanations and texts of errors: no
  property tells them apart.
* Authorisation: every modelled request has passed it.
* Isolation anomalies other than those of READ COMMITTED and of stale ORM
  state: rows have primary keys and each statement touches one row, apart from
  the claims and recoveries, which are one statement each.
* The status cancelled: no code sets it. `RunState` has it because the table
  has.
* More than one API process. `_running` and `SSEManager` are per process, and
  `compose.yml` starts one.

## Not modelled

* *Authentication and roles*: they guard every endpoint and change no state
  that a module reads.
* *Parsing, OCR, extraction, vectors*: calls of libraries and regular
  expressions over text that keep no state; their results are inputs.
* *Upload checks and storage*: file types and hashes. The race of two uploads
  of one file is a hazard in `PROJECT.json`: every upload of IngestionJobs is a
  file of its own.
* *The list of practice sessions, filters and notes of the wrong book, the
  seven days of the learning summary*: reads and edits of single rows.
* *Review queue and in-memory job manager*: only tests call them.
* *Contracts, migrations, scripts, health, logging*: no behaviour that
  interleaves.

## What is left

1. *Composition.* AgentRun and EventStream share the end of an execution; a
   module that joins them would state `TerminalEventIsCurrent` for exactly the
   retries AgentRun allows, in place of `Begin`'s approximation. EventStream
   and Chat share the terminal event in the same way.
2. *Uploads.* Hashes in IngestionJobs, for two uploads of one file.
