------------------------------ MODULE AgentRun ------------------------------
(***************************************************************************)
(* The lifecycle of agent runs: AgentRunnerService (start_qa, retry_run,   *)
(* recover_stale_runs, _execute_run and its three endings), the retry      *)
(* endpoint that calls it, and the transactions they run in.               *)
(*                                                                         *)
(* One API process runs asyncio tasks and request handlers, interleaved at *)
(* their awaits.  PostgreSQL is READ COMMITTED: a transaction reads the    *)
(* last committed row or its own pending update, an UPDATE waits for the   *)
(* row lock and then overwrites.  The ORM writes only the columns whose    *)
(* value differs from the one this session loaded.                         *)
(***************************************************************************)
EXTENDS RunState, Naturals, FiniteSets

CONSTANTS
    Runs,            \* runs a user may start
    Tasks,           \* asyncio tasks that may live at the same time (a bound)
    Requests,        \* retry requests that may be in flight at the same time
    Nobody,          \* no task, no request, no run
    DatabaseFaults,  \* may a statement or a commit of the database fail?
    BootModes,       \* "recover": recover_stale_runs is called before serving,
                     \* "serve": create_app as it is, which never calls it
    MaxCrashes       \* how often the process may crash (a bound)

ASSUME ConstantsAssumption ==
    /\ Nobody \notin Tasks \union Requests \union Runs
    /\ Tasks \intersect Requests = {}
    /\ DatabaseFaults \in BOOLEAN
    /\ BootModes \subseteq {"recover", "serve"}
    /\ MaxCrashes \in Nat

VARIABLES
    status,     \* status[r]: committed agent_runs.status
    retryable,  \* retryable[r]: committed agent_runs.retryable (NULL is FALSE)
    answered,   \* answered[r]: a committed assistant message of r exists
    writer,     \* writer[r]: the transaction with an uncommitted UPDATE of r
    registry,   \* registry[r]: AgentRunnerService._running.get(r)
    pc,         \* pc[t]: how far task t is in _execute_run
    job,        \* job[t]: the locals of _execute_run in task t
    rpc,        \* rpc[q]: how far retry request q is
    rrun,       \* rrun[q]: the run request q retries
    up,         \* is the process serving (FALSE: booting)?
    crashes,    \* crashes so far
    abandoned   \* history: the runs a restart found running and left so

database == <<status, retryable, answered>>
locals == <<pc, job>>
requests == <<rpc, rrun>>
process == <<up, crashes, abandoned>>
vars == <<database, writer, registry, locals, requests, process>>

-----------------------------------------------------------------------------
(* Types                                                                   *)

TaskPC == {"idle", "spawned", "loaded", "started", "working", "returned",
           "saving", "closing"}

\* "answered" and "silent" are results with status succeeded, with and without
\* a public_response; "raised" is an exception caught by _execute_run.
Outcome == {"none", "answered", "silent", "failed", "raised"}

Job == [run : Runs \union {Nobody}, chat : BOOLEAN, outcome : Outcome,
        again : BOOLEAN, seen : Status, seenRetryable : BOOLEAN]

NewJob(r, chat) == [run |-> r, chat |-> chat, outcome |-> "none",
                    again |-> FALSE, seen |-> "absent", seenRetryable |-> FALSE]

NoJob == NewJob(Nobody, FALSE)

Live(t) == pc[t] # "idle"

TypeOK ==
    /\ status \in [Runs -> Status]
    /\ retryable \in [Runs -> BOOLEAN]
    /\ answered \in [Runs -> BOOLEAN]
    /\ writer \in [Runs -> Tasks \union Requests \union {Nobody}]
    /\ registry \in [Runs -> Tasks \union {Nobody}]
    /\ pc \in [Tasks -> TaskPC]
    /\ job \in [Tasks -> Job]
    /\ rpc \in [Requests -> {"idle", "read", "checked", "flushed"}]
    /\ rrun \in [Requests -> Runs \union {Nobody}]
    /\ up \in BOOLEAN
    /\ crashes \in 0 .. MaxCrashes
    /\ abandoned \in SUBSET Runs

\* A live task, and a request in flight, has a run.
Assigned ==
    /\ \A t \in Tasks : Live(t) => job[t].run \in Runs
    /\ \A q \in Requests : rpc[q] # "idle" => rrun[q] \in Runs

Init ==
    /\ status = [r \in Runs |-> "absent"]
    /\ retryable = [r \in Runs |-> FALSE]
    /\ answered = [r \in Runs |-> FALSE]
    /\ writer = [r \in Runs |-> Nobody]
    /\ registry = [r \in Runs |-> Nobody]
    /\ pc = [t \in Tasks |-> "idle"]
    /\ job = [t \in Tasks |-> NoJob]
    /\ rpc = [q \in Requests |-> "idle"]
    /\ rrun = [q \in Requests |-> Nobody]
    /\ up = TRUE
    /\ crashes = 0
    /\ abandoned = {}

-----------------------------------------------------------------------------
(* Helpers                                                                 *)

\* asyncio.create_task(_execute_run(...)); self._running[r] = task
Spawn(t, r, chat) ==
    /\ pc[t] = "idle"
    /\ pc' = [pc EXCEPT ![t] = "spawned"]
    /\ job' = [job EXCEPT ![t] = NewJob(r, chat)]
    /\ registry' = [registry EXCEPT ![r] = t]

\* Only one transaction at a time holds the lock of a row.
MayWrite(x, r) == writer[r] \in {Nobody, x}

Release(x) == [r \in Runs |-> IF writer[r] = x THEN Nobody ELSE writer[r]]

\* The row as the transaction of task t reads it.
StatusSeenBy(t, r) == IF writer[r] = t THEN "running" ELSE status[r]

-----------------------------------------------------------------------------
(* Starting a run                                                          *)

\* start_qa: the row, the user's message and the run.started event are one
\* transaction, committed before the task is created.
StartQa(r, t) ==
    /\ up
    /\ status[r] = "absent"
    /\ status' = [status EXCEPT ![r] = "queued"]
    /\ Spawn(t, r, TRUE)
    /\ UNCHANGED <<retryable, answered, writer, requests, process>>

-----------------------------------------------------------------------------
(* Executing a run: the steps of _execute_run between two awaits           *)

\* transition_run_status loads the row and validates the move to running; a
\* ValueError ends in _on_exception, which calls it permanent.
ExecLoad(t) ==
    /\ pc[t] = "spawned"
    /\ IF ValidTransition(status[job[t].run], "running")
       THEN /\ pc' = [pc EXCEPT ![t] = "loaded"]
            /\ UNCHANGED job
       ELSE /\ pc' = [pc EXCEPT ![t] = "returned"]
            /\ job' = [job EXCEPT ![t].outcome = "raised", ![t].again = FALSE]
    /\ UNCHANGED <<database, writer, registry, requests, process>>

\* The UPDATE to running is flushed, not committed.
ExecFlush(t) ==
    /\ pc[t] = "loaded"
    /\ MayWrite(t, job[t].run)
    /\ writer' = [writer EXCEPT ![job[t].run] = t]
    /\ pc' = [pc EXCEPT ![t] = "started"]
    /\ UNCHANGED <<database, registry, job, requests, process>>

\* The first event the runner emits commits the session, and with it the
\* pending status.  Later emits leave these variables alone.
ExecEmit(t) ==
    /\ pc[t] = "started"
    /\ status' = [status EXCEPT ![job[t].run] = "running"]
    /\ writer' = Release(t)
    /\ pc' = [pc EXCEPT ![t] = "working"]
    /\ UNCHANGED <<retryable, answered, registry, job, requests, process>>

\* The runner returns; it is "working" once it has published an event.
RunnerReturns(t, outcome, again) ==
    /\ pc[t] \in {"started", "working"}
    /\ MayReturn(pc[t] = "working", outcome, again)
    /\ pc' = [pc EXCEPT ![t] = "returned"]
    /\ job' = [job EXCEPT ![t].outcome = outcome, ![t].again = again]
    /\ UNCHANGED <<database, writer, registry, requests, process>>

\* Mutation: the exception is only logged, no failure is persisted.
RaiseOnlyLogged(t, again) ==
    /\ pc[t] \in {"started", "working"}
    /\ pc' = [pc EXCEPT ![t] = "closing"]
    /\ writer' = Release(t)
    /\ UNCHANGED <<database, registry, job, requests, process>>

\* An exception of the runner, of emit or of the database rolls the session
\* back; _is_retryable_exception may say either.
Raise(t, again) ==
    /\ \/ pc[t] \in {"started", "working"}
       \/ DatabaseFaults /\ pc[t] \in {"spawned", "loaded", "returned", "saving"}
    /\ job[t].outcome # "raised"
    /\ pc' = [pc EXCEPT ![t] = "returned"]
    /\ job' = [job EXCEPT ![t].outcome = "raised", ![t].again = again]
    /\ writer' = Release(t)
    /\ UNCHANGED <<database, registry, requests, process>>

\* _on_success, _on_failure and _on_exception load the row ...
SaveLoad(t) ==
    LET r == job[t].run IN
    /\ pc[t] = "returned"
    /\ pc' = [pc EXCEPT ![t] = "saving"]
    /\ job' = [job EXCEPT ![t].seen = StatusSeenBy(t, r),
                          ![t].seenRetryable = retryable[r]]
    /\ UNCHANGED <<database, writer, registry, requests, process>>

Succeeded(outcome) == outcome \in {"answered", "silent"}

\* Mutation: an exception leaves the run be.
TargetOfResults(outcome) ==
    CASE Succeeded(outcome)  -> "completed"
      [] outcome = "failed"  -> "failed"
      [] outcome = "raised"  -> "running"

Target(outcome) == IF Succeeded(outcome) THEN "completed" ELSE "failed"

\* The columns an ending changes: a value equal to the loaded one is not
\* written, so a column another transaction changed meanwhile stays.
Written(loaded, target, current) == IF loaded = target THEN current ELSE target

\* Mutation: the message is saved for every result, not only for an answer.
SaveCommitAlwaysAnswers(t) ==
    LET r == job[t].run
        j == job[t]
    IN
    /\ pc[t] = "saving"
    /\ MayWrite(t, r)
    /\ status' = [status EXCEPT ![r] = Written(j.seen, Target(j.outcome), @)]
    /\ answered' = [answered EXCEPT ![r] = @ \/ j.chat]
    /\ writer' = Release(t)
    /\ pc' = [pc EXCEPT ![t] = "closing"]
    /\ UNCHANGED <<retryable, registry, job, requests, process>>

\* ... and flush what differs, with the assistant message, in one commit.
SaveCommit(t) ==
    LET r == job[t].run
        j == job[t]
    IN
    /\ pc[t] = "saving"
    /\ MayWrite(t, r)
    /\ status' = [status EXCEPT ![r] = Written(j.seen, Target(j.outcome), @)]
    /\ retryable' = IF Succeeded(j.outcome) THEN retryable
                    ELSE [retryable EXCEPT
                            ![r] = Written(j.seenRetryable, j.again, @)]
    /\ answered' = [answered EXCEPT ![r] = @ \/ (j.outcome = "answered" /\ j.chat)]
    /\ writer' = Release(t)
    /\ pc' = [pc EXCEPT ![t] = "closing"]
    /\ UNCHANGED <<registry, job, requests, process>>

\* The failure of _on_exception itself is only logged.
PersistFails(t) ==
    /\ DatabaseFaults
    /\ pc[t] \in {"returned", "saving"}
    /\ job[t].outcome = "raised"
    /\ pc' = [pc EXCEPT ![t] = "closing"]
    /\ UNCHANGED <<database, writer, registry, job, requests, process>>

\* finally: self._running.pop(run_id, None), whichever task is registered.
ExecFinish(t) ==
    /\ pc[t] = "closing"
    /\ pc' = [pc EXCEPT ![t] = "idle"]
    /\ registry' = [registry EXCEPT ![job[t].run] = Nobody]
    /\ job' = [job EXCEPT ![t] = NoJob]
    /\ UNCHANGED <<database, writer, requests, process>>

-----------------------------------------------------------------------------
(* Retrying a run: POST /agent-runs/{run_id}/retry                         *)

\* The router loads the row; router and service judge it by this one load,
\* which the session's identity map repeats.  A refusal changes nothing.
RetryRead(q, r) ==
    /\ up
    /\ rpc[q] = "idle"
    /\ status[r] = "failed"
    /\ retryable[r]
    /\ rpc' = [rpc EXCEPT ![q] = "read"]
    /\ rrun' = [rrun EXCEPT ![q] = r]
    /\ UNCHANGED <<database, writer, registry, locals, process>>

EndRequest(q) ==
    /\ rpc' = [rpc EXCEPT ![q] = "idle"]
    /\ rrun' = [rrun EXCEPT ![q] = Nobody]

\* Mutation: the registry is not consulted.
RetryUnchecked(q) ==
    /\ rpc[q] = "read"
    /\ rpc' = [rpc EXCEPT ![q] = "checked"]
    /\ UNCHANGED <<database, writer, registry, locals, rrun, process>>

\* if run_id in self._running: 409
RetryCheck(q) ==
    /\ rpc[q] = "read"
    /\ IF registry[rrun[q]] = Nobody
       THEN rpc' = [rpc EXCEPT ![q] = "checked"] /\ UNCHANGED rrun
       ELSE EndRequest(q)
    /\ UNCHANGED <<database, writer, registry, locals, process>>

\* The move failed -> queued is flushed and the task is created at once: the
\* request commits only after its handler has returned (get_session).
RetryFlush(q, t) ==
    /\ rpc[q] = "checked"
    /\ MayWrite(q, rrun[q])
    /\ writer' = [writer EXCEPT ![rrun[q]] = q]
    /\ Spawn(t, rrun[q], FALSE)
    /\ rpc' = [rpc EXCEPT ![q] = "flushed"]
    /\ UNCHANGED <<database, rrun, process>>

RetryCommit(q) ==
    /\ rpc[q] = "flushed"
    /\ status' = [status EXCEPT ![rrun[q]] = "queued"]
    /\ writer' = Release(q)
    /\ EndRequest(q)
    /\ UNCHANGED <<retryable, answered, registry, locals, process>>

\* A database error rolls the request back; a task it created lives on.
RetryRollback(q) ==
    /\ DatabaseFaults
    /\ rpc[q] # "idle"
    /\ writer' = Release(q)
    /\ EndRequest(q)
    /\ UNCHANGED <<database, registry, locals, process>>

-----------------------------------------------------------------------------
(* Crash and restart                                                       *)

\* Tasks, handlers and their open transactions die with the process.
Crash ==
    /\ up
    /\ crashes < MaxCrashes
    /\ up' = FALSE
    /\ crashes' = crashes + 1
    /\ pc' = [t \in Tasks |-> "idle"]
    /\ job' = [t \in Tasks |-> NoJob]
    /\ rpc' = [q \in Requests |-> "idle"]
    /\ rrun' = [q \in Requests |-> Nobody]
    /\ writer' = [r \in Runs |-> Nobody]
    /\ registry' = [r \in Runs |-> Nobody]
    /\ UNCHANGED <<database, abandoned>>

StaleRuns == {r \in Runs : status[r] = "running"}

\* recover_stale_runs: every running row becomes queued in one commit, then
\* each gets a task of its own, taskOf[r], without a chat session.
RecoverStaleRuns(taskOf) ==
    LET owns(t, r) == r \in StaleRuns /\ taskOf[r] = t
        runOf(t) == CHOOSE r \in Runs : owns(t, r)
        recovering(t) == \E r \in Runs : owns(t, r)
    IN
    /\ ~up
    /\ "recover" \in BootModes
    /\ \A r1, r2 \in StaleRuns : taskOf[r1] = taskOf[r2] => r1 = r2
    /\ up' = TRUE
    /\ status' = [r \in Runs |-> IF r \in StaleRuns THEN "queued" ELSE status[r]]
    /\ pc' = [t \in Tasks |-> IF recovering(t) THEN "spawned" ELSE pc[t]]
    /\ job' = [t \in Tasks |->
                 IF recovering(t) THEN NewJob(runOf(t), FALSE) ELSE job[t]]
    /\ registry' = [r \in Runs |-> IF r \in StaleRuns THEN taskOf[r]
                                                      ELSE registry[r]]
    /\ abandoned' = {}
    /\ UNCHANGED <<retryable, answered, writer, requests, crashes>>

\* create_app wires the service without recovering anything: what was running
\* stays running, without a task, and a retry wants it failed.
BootWithoutRecovery ==
    /\ ~up
    /\ "serve" \in BootModes
    /\ up' = TRUE
    /\ abandoned' = abandoned \union StaleRuns
    /\ UNCHANGED <<database, writer, registry, locals, requests, crashes>>

-----------------------------------------------------------------------------
(* The specification                                                       *)

TaskStep(t) ==
    \/ ExecLoad(t)
    \/ ExecFlush(t)
    \/ ExecEmit(t)
    \/ \E outcome \in {"answered", "silent", "failed"}, again \in BOOLEAN :
            RunnerReturns(t, outcome, again)
    \/ \E again \in BOOLEAN : Raise(t, again)
    \/ SaveLoad(t)
    \/ SaveCommit(t)
    \/ PersistFails(t)
    \/ ExecFinish(t)

RequestStep(q) ==
    \/ RetryCheck(q)
    \/ \E t \in Tasks : RetryFlush(q, t)
    \/ RetryCommit(q)
    \/ RetryRollback(q)

Boot ==
    \/ \E taskOf \in [StaleRuns -> Tasks] : RecoverStaleRuns(taskOf)
    \/ BootWithoutRecovery

Next ==
    \/ \E r \in Runs, t \in Tasks : StartQa(r, t)
    \/ \E t \in Tasks : TaskStep(t)
    \/ \E q \in Requests, r \in Runs : RetryRead(q, r)
    \/ \E q \in Requests : RequestStep(q)
    \/ Crash
    \/ Boot

Spec == Init /\ [][Next]_vars

\* The event loop schedules every task and handler that can go on, runners
\* return (the model gateway has a timeout), a crashed process is restarted
\* (compose.yml: unless-stopped), whether or not it recovers anything then.
Fairness ==
    /\ \A t \in Tasks : WF_vars(TaskStep(t))
    /\ \A q \in Requests : WF_vars(RequestStep(q))
    /\ WF_vars(Boot)

FairSpec == Spec /\ Fairness

-----------------------------------------------------------------------------
(* Properties                                                              *)

\* A registered task is a live execution of that run: a stale entry of
\* _running would answer 409 to every later retry of the run.
RegistryNamesLiveTask ==
    \A r \in Runs : registry[r] # Nobody =>
        /\ Live(registry[r])
        /\ job[registry[r]].run = r

\* Task t will still move run r out of "running".
WillEnd(t, r) ==
    /\ job[t].run = r
    /\ \/ pc[t] \in {"working", "returned"}
       \/ pc[t] = "saving" /\ job[t].seen # Target(job[t].outcome)

\* A run the database shows as running has a task that will end it, even when
\* retries overlap and overwrite each other's status; a restart that does not
\* recover it and a failure to persist a failure are what may leave it without.
RunningHasExecutor ==
    up => \A r \in Runs \ abandoned :
            status[r] = "running" => \E t \in Tasks : WillEnd(t, r)

-----------------------------------------------------------------------------
(* Retries one at a time: nothing below survives two overlapping requests  *)

\* The registry keeps a run from being executed twice at the same time
\* (AgentRunnerService: the registry is there to prevent concurrent runs).
NoDuplicateExecution ==
    \A t1, t2 \in Tasks :
        Live(t1) /\ Live(t2) /\ job[t1].run = job[t2].run => t1 = t2

\* The answer in the chat and the completed status appear together and stay:
\* nobody retries, overwrites or fails a run that has answered.
AnsweredIsCompleted ==
    \A r \in Runs : answered[r] => status[r] = "completed"

\* What task t may find in the row of its run: its own progress decides it.
TaskFits(t) ==
    LET s == status[job[t].run]
        o == job[t].outcome
        ending == pc[t] \in {"returned", "saving"}
    IN
    /\ s # "absent"
    /\ pc[t] = "spawned" => s \in {"queued", "failed"}
    /\ pc[t] \in {"loaded", "started"} => s = "queued"
    /\ pc[t] = "working" => s = "running"
    /\ ending => s # "completed" /\ o # "none"
    /\ ending /\ o = "failed" => s # "failed"
    /\ ending /\ Succeeded(o) => s = "running"
    /\ pc[t] = "saving" /\ Succeeded(o) => job[t].seen = "running"
    /\ s = "completed" => pc[t] = "closing"

\* Every live task is the registered one of its run.
LiveFits ==
    \A t \in Tasks : Live(t) => registry[job[t].run] = t /\ TaskFits(t)

\* A retry in flight keeps its run failed; once it has passed the check of
\* the registry, no task of the run is left.
RequestFits ==
    \A q \in Requests : rpc[q] # "idle" =>
        /\ status[rrun[q]] = "failed"
        /\ rpc[q] = "checked" => registry[rrun[q]] = Nobody

DownIsIdle ==
    ~up => /\ \A t \in Tasks : ~Live(t)
           /\ \A q \in Requests : rpc[q] = "idle"

\* The inductive invariant behind the properties of serial retries.
SerialInv ==
    /\ RegistryNamesLiveTask
    /\ LiveFits
    /\ RequestFits
    /\ DownIsIdle
    /\ AnsweredIsCompleted
    /\ \A r \in Runs : status[r] # "cancelled"

\* run_state.py: completed is terminal.
CompletedIsTerminal ==
    [][\A r \in Runs : status[r] = "completed" => status'[r] = "completed"]_vars

\* The database as its readers see it follows the run lifecycle.
Lifecycle == INSTANCE RunLifecycle

LifecycleSpec == Lifecycle!Spec

\* A run that is shown as running ends, or the process crashes and its restart
\* leaves the run as it is, which the restart of create_app always does.
RunningEnds ==
    \A r \in Runs :
        status[r] = "running" ~> (status[r] \in Terminal \/ r \in abandoned)

\* A run that is queued is executed: a queued run that no task holds would
\* stay queued, for only running runs are recovered and only failed retried.
QueuedEnds == \A r \in Runs : status[r] = "queued" ~> status[r] \in Terminal

\* What recover_stale_runs is there for (the class comment of the service): a
\* run that a crash interrupts is executed again.  create_app never calls it.
CrashesAreRecovered ==
    \A r \in Runs : status[r] = "running" ~> status[r] \in Terminal

InFlight == {q \in Requests : rpc[q] # "idle"}

\* Unless retries overlap, a running run ends, through failures and retries in
\* turn; only a crash without recovery keeps it from that.
SerialRunningEnds == [](Cardinality(InFlight) <= 1) => RunningEnds

\* With neither a crash nor a retry, every run that was started is executed.
UndisturbedQueuedEnds == [](up /\ InFlight = {}) => QueuedEnds

=============================================================================
