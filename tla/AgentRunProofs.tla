--------------------------- MODULE AgentRunProofs ---------------------------
(***************************************************************************)
(* Theorems about AgentRun, for any sets of runs, tasks and requests.      *)
(***************************************************************************)
EXTENDS AgentRun, TLAPS

-----------------------------------------------------------------------------
(* Type correctness                                                        *)

LEMMA JobTypes ==
    /\ NoJob \in Job
    /\ \A r \in Runs, chat \in BOOLEAN : NewJob(r, chat) \in Job
    /\ \A j \in Job, o \in Outcome, a \in BOOLEAN :
         [j EXCEPT !.outcome = o, !.again = a] \in Job
    /\ \A j \in Job, s \in Status, b \in BOOLEAN :
         [j EXCEPT !.seen = s, !.seenRetryable = b] \in Job
BY DEF NoJob, NewJob, Job, Outcome, Status

LEMMA InitTypes == Init => TypeOK /\ Assigned
<1> SUFFICES ASSUME Init PROVE TypeOK /\ Assigned
  OBVIOUS
<1>1. up \in BOOLEAN /\ crashes \in 0 .. MaxCrashes
  BY ConstantsAssumption DEF Init, ConstantsAssumption
<1>2. job \in [Tasks -> Job]
  BY JobTypes DEF Init
<1> QED
  BY <1>1, <1>2 DEF Init, TypeOK, Assigned, Live, TaskPC, Status

LEMMA TypeStep ==
    ASSUME TypeOK, Assigned, [Next]_vars
    PROVE  TypeOK'
<1>1. ASSUME NEW r \in Runs, NEW t \in Tasks, StartQa(r, t)
      PROVE  TypeOK'
  BY <1>1, JobTypes
  DEF TypeOK, StartQa, Spawn, Status, ALL_STATUSES, TaskPC, requests, process
<1>2. ASSUME NEW t \in Tasks, TaskStep(t)
      PROVE  TypeOK'
  <2>1. CASE ExecLoad(t)
    <3>1. pc' \in [Tasks -> TaskPC]
      BY <2>1 DEF TypeOK, ExecLoad, TaskPC
    <3>2. \/ job' = job
          \/ job' = [job EXCEPT ![t].outcome = "raised", ![t].again = FALSE]
      BY <2>1 DEF ExecLoad
    <3>3. job' \in [Tasks -> Job]
      <4>1. job[t] \in Job
        BY DEF TypeOK
      <4>2. \A a \in BOOLEAN :
              [job[t] EXCEPT !.outcome = "raised", !.again = a] \in Job
        BY <4>1, JobTypes DEF Outcome
      <4>3. [job[t] EXCEPT !.outcome = "raised", !.again = FALSE] \in Job
        BY <4>2, Zenon
      <4> QED
        BY <3>2, <4>3 DEF TypeOK
    <3> QED
      BY <2>1, <3>1, <3>3 DEF TypeOK, ExecLoad, database, requests, process
  <2>2. CASE ExecFlush(t)
    BY <2>2 DEF TypeOK, ExecFlush, TaskPC, database, requests, process
  <2>3. CASE ExecEmit(t)
    BY <2>3 DEF TypeOK, ExecEmit, Release, TaskPC, Status, ALL_STATUSES,
                requests, process
  <2>4. ASSUME NEW outcome \in {"answered", "silent", "failed"},
               NEW again \in BOOLEAN, RunnerReturns(t, outcome, again)
        PROVE  TypeOK'
    BY <2>4, JobTypes
    DEF TypeOK, RunnerReturns, TaskPC, Outcome, database, requests, process
  <2>5. ASSUME NEW again \in BOOLEAN, Raise(t, again)
        PROVE  TypeOK'
    BY <2>5, JobTypes
    DEF TypeOK, Raise, Release, TaskPC, Outcome, database, requests, process
  <2>6. CASE SaveLoad(t)
    <3>1. job[t].run \in Runs
      BY <2>6 DEF SaveLoad, Assigned, Live
    <3>2. StatusSeenBy(t, job[t].run) \in Status
      BY <3>1 DEF TypeOK, StatusSeenBy, Status, ALL_STATUSES
    <3> QED
      BY <2>6, <3>1, <3>2, JobTypes
      DEF TypeOK, SaveLoad, TaskPC, database, requests, process
  <2>7. CASE SaveCommit(t)
    <3>1. job[t].run \in Runs /\ job[t] \in Job
      BY <2>7 DEF TypeOK, SaveCommit, Assigned, Live
    <3>2. /\ status' \in [Runs -> Status]
          /\ retryable' \in [Runs -> BOOLEAN]
          /\ answered' \in [Runs -> BOOLEAN]
      BY <2>7, <3>1 DEF TypeOK, SaveCommit, Written, Target, Job, Status,
                        ALL_STATUSES
    <3> QED
      BY <2>7, <3>2 DEF TypeOK, SaveCommit, Release, TaskPC, requests, process
  <2>8. CASE PersistFails(t)
    BY <2>8 DEF TypeOK, PersistFails, TaskPC, database, requests, process
  <2>9. CASE ExecFinish(t)
    BY <2>9, JobTypes
    DEF TypeOK, ExecFinish, TaskPC, database, requests, process
  <2> QED
    BY <1>2, <2>1, <2>2, <2>3, <2>4, <2>5, <2>6, <2>7, <2>8, <2>9
    DEF TaskStep
<1>3. ASSUME NEW q \in Requests, NEW r \in Runs, RetryRead(q, r)
      PROVE  TypeOK'
  BY <1>3 DEF TypeOK, RetryRead, database, locals, process
<1>4. ASSUME NEW q \in Requests, RequestStep(q)
      PROVE  TypeOK'
  <2>1. CASE RetryCheck(q)
    BY <2>1 DEF TypeOK, RetryCheck, EndRequest, database, locals, process
  <2>2. ASSUME NEW t \in Tasks, RetryFlush(q, t)
        PROVE  TypeOK'
    <3>1. rrun[q] \in Runs
      BY <2>2 DEF RetryFlush, Assigned
    <3> QED
      BY <2>2, <3>1, JobTypes
      DEF TypeOK, RetryFlush, Spawn, TaskPC, database, process
  <2>3. CASE RetryCommit(q)
    BY <2>3 DEF TypeOK, RetryCommit, EndRequest, Release, Status,
                ALL_STATUSES, locals, process
  <2>4. CASE RetryRollback(q)
    BY <2>4 DEF TypeOK, RetryRollback, EndRequest, Release, database,
                locals, process
  <2> QED
    BY <1>4, <2>1, <2>2, <2>3, <2>4 DEF RequestStep
<1>5. CASE Crash
  <2>1. crashes' \in 0 .. MaxCrashes
    <3>1. crashes \in 0 .. MaxCrashes /\ MaxCrashes \in Nat
      BY ConstantsAssumption DEF TypeOK, ConstantsAssumption
    <3>2. crashes < MaxCrashes /\ crashes' = crashes + 1
      BY <1>5 DEF Crash
    <3> QED
      BY <3>1, <3>2
  <2>2. up' \in BOOLEAN
    BY <1>5 DEF Crash
  <2> QED
    BY <1>5, <2>1, <2>2, JobTypes DEF TypeOK, Crash, TaskPC, database
<1>6. CASE Boot
  <2>1. ASSUME NEW taskOf \in [StaleRuns -> Tasks], RecoverStaleRuns(taskOf)
        PROVE  TypeOK'
    <3> DEFINE owns(t, r) == r \in StaleRuns /\ taskOf[r] = t
               runOf(t) == CHOOSE r \in Runs : owns(t, r)
    <3>1. \A t \in Tasks : (\E r \in Runs : owns(t, r)) => runOf(t) \in Runs
      OBVIOUS
    <3>2. job' \in [Tasks -> Job]
      BY <2>1, <3>1, JobTypes DEF TypeOK, RecoverStaleRuns
    <3> QED
      BY <2>1, <3>2
      DEF TypeOK, RecoverStaleRuns, TaskPC, Status, ALL_STATUSES, requests
  <2>2. CASE BootWithoutRecovery
    BY <2>2
    DEF TypeOK, BootWithoutRecovery, StaleRuns, database, locals, requests
  <2> QED
    BY <1>6, <2>1, <2>2 DEF Boot
<1>7. CASE UNCHANGED vars
  BY <1>7 DEF TypeOK, vars, database, locals, requests, process
<1> QED
  BY <1>1, <1>2, <1>3, <1>4, <1>5, <1>6, <1>7 DEF Next

LEMMA AssignedStep ==
    ASSUME TypeOK, Assigned, [Next]_vars
    PROVE  Assigned'
<1>1. ASSUME NEW r \in Runs, NEW t \in Tasks, StartQa(r, t)
      PROVE  Assigned'
  BY <1>1 DEF TypeOK, Assigned, Live, StartQa, Spawn, NewJob, requests
<1>2. ASSUME NEW t \in Tasks, TaskStep(t)
      PROVE  Assigned'
  <2>1. /\ \A u \in Tasks : pc'[u] # "idle" => pc[u] # "idle"
        /\ \A u \in Tasks : pc'[u] # "idle" => job'[u].run = job[u].run
        /\ UNCHANGED requests
    <3> USE DEF TypeOK, Job
    <3>1. CASE ExecLoad(t) \/ ExecFlush(t) \/ ExecEmit(t)
      BY <3>1 DEF ExecLoad, ExecFlush, ExecEmit
    <3>2. ASSUME NEW outcome, NEW again, RunnerReturns(t, outcome, again)
          PROVE  /\ \A u \in Tasks : pc'[u] # "idle" => pc[u] # "idle"
                 /\ \A u \in Tasks : pc'[u] # "idle" =>
                        job'[u].run = job[u].run
                 /\ UNCHANGED requests
      BY <3>2 DEF RunnerReturns
    <3>5. ASSUME NEW again, Raise(t, again)
          PROVE  /\ \A u \in Tasks : pc'[u] # "idle" => pc[u] # "idle"
                 /\ \A u \in Tasks : pc'[u] # "idle" =>
                        job'[u].run = job[u].run
                 /\ UNCHANGED requests
      BY <3>5 DEF Raise
    <3>3. CASE SaveLoad(t) \/ SaveCommit(t) \/ PersistFails(t)
      BY <3>3 DEF SaveLoad, SaveCommit, PersistFails
    <3>4. CASE ExecFinish(t)
      BY <3>4 DEF ExecFinish
    <3> QED
      BY <1>2, <3>1, <3>2, <3>3, <3>4, <3>5 DEF TaskStep
  <2> QED
    BY <2>1 DEF Assigned, Live, requests
<1>3. ASSUME NEW q \in Requests, NEW r \in Runs, RetryRead(q, r)
      PROVE  Assigned'
  BY <1>3 DEF TypeOK, Assigned, Live, RetryRead, locals
<1>4. ASSUME NEW q \in Requests, RequestStep(q)
      PROVE  Assigned'
  BY <1>4
  DEF TypeOK, Assigned, Live, RequestStep, RetryCheck, RetryFlush, RetryCommit,
      RetryRollback, EndRequest, Spawn, NewJob, locals
<1>5. CASE Crash
  BY <1>5 DEF Assigned, Live, Crash
<1>6. CASE Boot
  <2>1. ASSUME NEW taskOf \in [StaleRuns -> Tasks], RecoverStaleRuns(taskOf)
        PROVE  Assigned'
    <3> DEFINE owns(t, r) == r \in StaleRuns /\ taskOf[r] = t
               runOf(t) == CHOOSE r \in Runs : owns(t, r)
    <3>1. \A t \in Tasks : (\E r \in Runs : owns(t, r)) => runOf(t) \in Runs
      OBVIOUS
    <3> QED
      BY <2>1, <3>1 DEF Assigned, Live, RecoverStaleRuns, NewJob, requests
  <2>2. CASE BootWithoutRecovery
    BY <2>2 DEF Assigned, Live, BootWithoutRecovery, locals, requests
  <2> QED
    BY <1>6, <2>1, <2>2 DEF Boot
<1>7. CASE UNCHANGED vars
  BY <1>7 DEF Assigned, Live, vars, locals, requests
<1> QED
  BY <1>1, <1>2, <1>3, <1>4, <1>5, <1>6, <1>7 DEF Next

\* Every variable keeps its type: a status is one of run_state.py, the lock
\* of a row is held by a task or a request.
THEOREM TypeCorrect == Spec => []TypeOK
<1>1. Init => TypeOK /\ Assigned
  BY InitTypes
<1>2. TypeOK /\ Assigned /\ [Next]_vars => (TypeOK /\ Assigned)'
  BY TypeStep, AssignedStep
<1> QED
  BY <1>1, <1>2, PTL DEF Spec

-----------------------------------------------------------------------------
(* A running run has an executor                                           *)

LEMMA Bookkeeping == Spec => [](TypeOK /\ Assigned)
<1>1. TypeOK /\ Assigned /\ [Next]_vars => (TypeOK /\ Assigned)'
  BY TypeStep, AssignedStep
<1> QED
  BY <1>1, InitTypes, PTL DEF Spec

\* A step of another task does not take the executor of a run away.
LEMMA ExecutorStep ==
    ASSUME TypeOK, Assigned, RunningHasExecutor, ~DatabaseFaults,
           NEW t \in Tasks, TaskStep(t)
    PROVE  RunningHasExecutor'
<1> SUFFICES ASSUME up', NEW r \in Runs, r \notin abandoned',
                    status'[r] = "running"
             PROVE  \E u \in Tasks : WillEnd(u, r)'
  BY DEF RunningHasExecutor
<1>1. CASE ExecEmit(t) /\ job[t].run = r
  BY <1>1 DEF ExecEmit, WillEnd, TypeOK
<1>2. CASE ~(ExecEmit(t) /\ job[t].run = r)
  <2>1. up /\ r \notin abandoned /\ status[r] = "running"
    <3>1. CASE ExecEmit(t)
      BY <1>2, <3>1 DEF ExecEmit, TypeOK, process
    <3>2. CASE SaveCommit(t)
      <4>1. status'[r] = status[r] \/ status'[r] = Target(job[t].outcome)
        BY <3>2 DEF SaveCommit, Written, TypeOK
      <4>2. Target(job[t].outcome) # "running"
        BY DEF Target
      <4> QED
        BY <3>2, <4>1, <4>2 DEF SaveCommit, process
    <3>3. CASE ~ExecEmit(t) /\ ~SaveCommit(t)
      BY <3>3
      DEF TaskStep, ExecLoad, ExecFlush, RunnerReturns, Raise, SaveLoad,
          PersistFails, ExecFinish, database, process
    <3> QED
      BY <3>1, <3>2, <3>3
  <2>2. PICK u \in Tasks : WillEnd(u, r)
    BY <2>1 DEF RunningHasExecutor
  <2>3. CASE u # t
    BY <2>2, <2>3
    DEF WillEnd, TaskStep, ExecLoad, ExecFlush, ExecEmit, RunnerReturns, Raise,
        SaveLoad, SaveCommit, PersistFails, ExecFinish, TypeOK
  <2>4. CASE u = t
    <3>1. ~SaveCommit(t)
      BY <2>1, <2>2, <2>4
      DEF WillEnd, SaveCommit, Written, Target, TypeOK
    <3>2. CASE SaveLoad(t)
      BY <2>1, <2>2, <2>4, <3>2
      DEF WillEnd, SaveLoad, StatusSeenBy, Target, TypeOK, Job
    <3>3. CASE ~SaveLoad(t)
      BY <2>2, <2>4, <3>1, <3>3
      DEF WillEnd, TaskStep, ExecLoad, ExecFlush, ExecEmit, RunnerReturns,
          Raise, PersistFails, ExecFinish, TypeOK, Job
    <3> QED
      BY <3>2, <3>3
  <2> QED
    BY <2>3, <2>4
<1> QED
  BY <1>1, <1>2

\* As long as the database does not fail, a run that is shown as running and
\* was not left running by a restart has a live task that will end it: whatever
\* the number of overlapping retries, runs, tasks and crashes.
THEOREM RunningIsExecuted ==
    ASSUME ~DatabaseFaults
    PROVE  Spec => []RunningHasExecutor
<1>1. Init => RunningHasExecutor
  BY DEF Init, RunningHasExecutor
<1>2. ASSUME TypeOK, Assigned, RunningHasExecutor, [Next]_vars
      PROVE  RunningHasExecutor'
  <2>1. ASSUME NEW r \in Runs, NEW t \in Tasks, StartQa(r, t)
        PROVE  RunningHasExecutor'
    <3> SUFFICES ASSUME up', NEW e \in Runs, e \notin abandoned',
                        status'[e] = "running"
                 PROVE  \E u \in Tasks : WillEnd(u, e)'
      BY DEF RunningHasExecutor
    <3>1. up /\ e \notin abandoned /\ status[e] = "running"
      BY <1>2, <2>1 DEF StartQa, TypeOK, process
    <3>2. PICK u \in Tasks : WillEnd(u, e)
      BY <1>2, <3>1 DEF RunningHasExecutor
    <3>3. u # t
      BY <2>1, <3>2 DEF WillEnd, StartQa, Spawn
    <3>4. pc'[u] = pc[u] /\ job'[u] = job[u]
      BY <1>2, <2>1, <3>3 DEF StartQa, Spawn, TypeOK
    <3> QED
      BY <3>2, <3>4 DEF WillEnd
  <2>2. ASSUME NEW t \in Tasks, TaskStep(t)
        PROVE  RunningHasExecutor'
    BY <1>2, <2>2, ExecutorStep
  <2>3. ASSUME NEW q \in Requests, NEW r \in Runs, RetryRead(q, r)
        PROVE  RunningHasExecutor'
    BY <1>2, <2>3
    DEF RunningHasExecutor, WillEnd, RetryRead, database, locals, process
  <2>4. ASSUME NEW q \in Requests, RequestStep(q)
        PROVE  RunningHasExecutor'
    <3> SUFFICES ASSUME up', NEW r \in Runs, r \notin abandoned',
                        status'[r] = "running"
                 PROVE  \E u \in Tasks : WillEnd(u, r)'
      BY DEF RunningHasExecutor
    <3>1. ASSUME NEW t \in Tasks, RetryFlush(q, t)
          PROVE  \E u \in Tasks : WillEnd(u, r)'
      <4>1. PICK u \in Tasks : WillEnd(u, r)
        BY <1>2, <3>1 DEF RunningHasExecutor, RetryFlush, database, process
      <4>2. u # t
        BY <3>1, <4>1 DEF WillEnd, RetryFlush, Spawn
      <4>3. pc'[u] = pc[u] /\ job'[u] = job[u]
        BY <3>1, <4>2 DEF RetryFlush, Spawn, TypeOK
      <4> QED
        BY <4>1, <4>3 DEF WillEnd
    <3>2. CASE RetryCommit(q)
      <4>1. up /\ r \notin abandoned /\ status[r] = "running"
        BY <3>2, <1>2 DEF RetryCommit, TypeOK, process
      <4> QED
        BY <1>2, <3>2, <4>1 DEF RunningHasExecutor, WillEnd, RetryCommit, locals
    <3>3. CASE RetryCheck(q) \/ RetryRollback(q)
      <4>1. /\ up /\ r \notin abandoned /\ status[r] = "running"
            /\ UNCHANGED locals
        BY <3>3 DEF RetryCheck, RetryRollback, database, process
      <4> QED
        BY <1>2, <4>1 DEF RunningHasExecutor, WillEnd, locals
    <3> QED
      BY <2>4, <3>1, <3>2, <3>3 DEF RequestStep
  <2>5. CASE Crash
    BY <2>5 DEF Crash, RunningHasExecutor
  <2>6. CASE Boot
    <3>1. CASE BootWithoutRecovery
      BY <3>1 DEF BootWithoutRecovery, StaleRuns, RunningHasExecutor, database
    <3>2. ASSUME NEW taskOf \in [StaleRuns -> Tasks], RecoverStaleRuns(taskOf)
          PROVE  \A r \in Runs : status'[r] # "running"
      BY <3>2 DEF RecoverStaleRuns, StaleRuns
    <3> QED
      BY <2>6, <3>1, <3>2 DEF Boot, RunningHasExecutor
  <2>7. CASE UNCHANGED vars
    BY <1>2, <2>7
    DEF RunningHasExecutor, WillEnd, vars, database, locals, process
  <2> QED
    BY <1>2, <2>1, <2>2, <2>3, <2>4, <2>5, <2>6, <2>7 DEF Next
<1> QED
  BY <1>1, <1>2, Bookkeeping, PTL DEF Spec

-----------------------------------------------------------------------------
(* Retries one at a time                                                   *)

\* What a step of the one task t of its run keeps, if it changes no other run
\* and leaves the task fit for the row it finds.
LEMMA TaskMoves ==
    ASSUME TypeOK, Assigned, SerialInv, NEW t \in Tasks,
           Live(t), Live(t)', TaskFits(t)', job'[t].run = job[t].run,
           \A u \in Tasks \ {t} : pc'[u] = pc[u] /\ job'[u] = job[u],
           \A r \in Runs \ {job[t].run} : status'[r] = status[r],
           status[job[t].run] = "failed" => status'[job[t].run] = "failed",
           status'[job[t].run] # "cancelled",
           AnsweredIsCompleted',
           UNCHANGED <<registry, requests, process>>
    PROVE  SerialInv'
<1>1. RegistryNamesLiveTask'
  BY DEF SerialInv, RegistryNamesLiveTask, Live, TypeOK
<1>2. LiveFits'
  <2> SUFFICES ASSUME NEW u \in Tasks, Live(u)'
               PROVE  (registry[job[u].run] = u /\ TaskFits(u))'
    BY DEF LiveFits
  <2>1. CASE u = t
    BY <2>1 DEF SerialInv, LiveFits
  <2>2. CASE u # t
    <3>1. Live(u) /\ job'[u] = job[u] /\ pc'[u] = pc[u]
      BY <2>2 DEF Live
    <3>2. job[u].run # job[t].run
      BY <2>2, <3>1 DEF SerialInv, LiveFits
    <3>3. status'[job[u].run] = status[job[u].run]
      BY <3>1, <3>2 DEF Assigned
    <3> QED
      BY <3>1, <3>3 DEF SerialInv, LiveFits, TaskFits
  <2> QED
    BY <2>1, <2>2
<1>3. RequestFits'
  BY DEF SerialInv, RequestFits, Assigned, requests
<1>4. DownIsIdle'
  BY DEF SerialInv, DownIsIdle, Live, requests, process
<1>5. \A r \in Runs : status'[r] # "cancelled"
  BY DEF SerialInv
<1> QED
  BY <1>1, <1>2, <1>3, <1>4, <1>5 DEF SerialInv

LEMMA TaskStepSerial ==
    ASSUME TypeOK, Assigned, SerialInv, NEW t \in Tasks, TaskStep(t)
    PROVE  SerialInv'
<1> DEFINE r == job[t].run
<1>0. /\ Live(t) => r \in Runs /\ registry[r] = t /\ TaskFits(t)
      /\ job[t] \in Job
      /\ AnsweredIsCompleted
  BY DEF SerialInv, LiveFits, Assigned, TypeOK
<1>1. CASE ExecLoad(t)
  <2>1. TaskFits(t)'
    BY <1>0, <1>1
    DEF ExecLoad, TaskFits, Live, TypeOK, Job, ValidTransition,
        VALID_TRANSITIONS, Status, ALL_STATUSES, Succeeded, database
  <2> QED
    BY <1>0, <1>1, <2>1, TaskMoves
    DEF ExecLoad, Live, TypeOK, Job, SerialInv, AnsweredIsCompleted, database
<1>2. CASE ExecFlush(t)
  <2>1. TaskFits(t)'
    BY <1>0, <1>2 DEF ExecFlush, TaskFits, Live, TypeOK, database
  <2> QED
    BY <1>0, <1>2, <2>1, TaskMoves
    DEF ExecFlush, Live, TypeOK, Job, SerialInv, AnsweredIsCompleted, database
<1>3. CASE ExecEmit(t)
  <2>1. TaskFits(t)'
    BY <1>0, <1>3 DEF ExecEmit, TaskFits, Live, TypeOK
  <2>2. AnsweredIsCompleted'
    BY <1>0, <1>3 DEF ExecEmit, TaskFits, Live, TypeOK, AnsweredIsCompleted
  <2> QED
    BY <1>0, <1>3, <2>1, <2>2, TaskMoves
    DEF ExecEmit, Live, TypeOK, Job, SerialInv, TaskFits
<1>4. ASSUME NEW outcome \in {"answered", "silent", "failed"},
             NEW again \in BOOLEAN, RunnerReturns(t, outcome, again)
      PROVE  SerialInv'
  <2>1. TaskFits(t)'
    BY <1>0, <1>4
    DEF RunnerReturns, MayReturn, TaskFits, Live, TypeOK, Job, Succeeded, database
  <2> QED
    BY <1>0, <1>4, <2>1, TaskMoves
    DEF RunnerReturns, Live, TypeOK, Job, SerialInv, AnsweredIsCompleted,
        database
<1>5. ASSUME NEW again \in BOOLEAN, Raise(t, again)
      PROVE  SerialInv'
  <2>1. TaskFits(t)'
    BY <1>0, <1>5 DEF Raise, TaskFits, Live, TypeOK, Job, Succeeded, database
  <2> QED
    BY <1>0, <1>5, <2>1, TaskMoves
    DEF Raise, Live, TypeOK, Job, SerialInv, AnsweredIsCompleted, database
<1>6. CASE SaveLoad(t)
  <2>1. TaskFits(t)'
    BY <1>0, <1>6
    DEF SaveLoad, StatusSeenBy, TaskFits, Live, TypeOK, Job, database
  <2> QED
    BY <1>0, <1>6, <2>1, TaskMoves
    DEF SaveLoad, Live, TypeOK, Job, SerialInv, AnsweredIsCompleted, database
<1>7. CASE SaveCommit(t)
  <2>1. status'[r] = IF Succeeded(job[t].outcome) THEN "completed"
                     ELSE Written(job[t].seen, "failed", status[r])
    BY <1>0, <1>7
    DEF SaveCommit, TaskFits, Live, TypeOK, Written, Target
  <2>2. TaskFits(t)'
    BY <1>0, <1>7, <2>1
    DEF SaveCommit, TaskFits, Live, TypeOK, Written, Succeeded
  <2>3. AnsweredIsCompleted'
    BY <1>0, <1>7, <2>1
    DEF SaveCommit, TaskFits, Live, TypeOK, AnsweredIsCompleted, Succeeded
  <2> QED
    BY <1>0, <1>7, <2>1, <2>2, <2>3, TaskMoves
    DEF SaveCommit, Live, TypeOK, Job, SerialInv, TaskFits, Written
<1>8. CASE PersistFails(t)
  <2>1. TaskFits(t)'
    BY <1>0, <1>8 DEF PersistFails, TaskFits, Live, TypeOK, database
  <2> QED
    BY <1>0, <1>8, <2>1, TaskMoves
    DEF PersistFails, Live, TypeOK, Job, SerialInv, AnsweredIsCompleted,
        database
<1>9. CASE ExecFinish(t)
  <2>1. /\ Live(t) /\ ~Live(t)'
        /\ \A u \in Tasks \ {t} : pc'[u] = pc[u] /\ job'[u] = job[u]
        /\ registry' = [registry EXCEPT ![r] = Nobody]
        /\ UNCHANGED <<database, requests, process>>
    BY <1>9 DEF ExecFinish, Live, TypeOK
  <2>2. \A u \in Tasks \ {t} : Live(u) => job[u].run # r
    BY <1>0, <2>1 DEF SerialInv, LiveFits
  <2>3. RegistryNamesLiveTask'
    BY <1>0, <2>1 DEF SerialInv, RegistryNamesLiveTask, Live, TypeOK
  <2>4. LiveFits'
    BY <2>1, <2>2 DEF SerialInv, LiveFits, TaskFits, Live, TypeOK, Assigned,
                      database
  <2>5. RequestFits' /\ DownIsIdle'
    BY <2>1 DEF SerialInv, RequestFits, DownIsIdle, Live, TypeOK, Assigned,
                database, requests, process
  <2> QED
    BY <2>1, <2>3, <2>4, <2>5
    DEF SerialInv, AnsweredIsCompleted, database
<1> QED
  BY <1>1, <1>2, <1>3, <1>4, <1>5, <1>6, <1>7, <1>8, <1>9 DEF TaskStep

LEMMA RequestStepSerial ==
    ASSUME \A a, b \in Requests : a = b,
           TypeOK, Assigned, SerialInv, NEW q \in Requests, RequestStep(q)
    PROVE  SerialInv'
<1> DEFINE r == rrun[q]
<1>0. /\ rpc[q] # "idle"
      /\ r \in Runs /\ status[r] = "failed" /\ up
      /\ rpc[q] = "checked" => registry[r] = Nobody
  BY DEF SerialInv, RequestFits, DownIsIdle, Assigned, RequestStep, RetryCheck,
         RetryFlush, RetryCommit, RetryRollback
<1>1. CASE RetryCheck(q) \/ RetryRollback(q)
  <2>1. UNCHANGED <<database, registry, locals, process>>
    BY <1>1 DEF RetryCheck, RetryRollback
  <2>2. RequestFits'
    BY <1>0, <1>1, <2>1
    DEF SerialInv, RequestFits, RetryCheck, RetryRollback, EndRequest, TypeOK,
        database
  <2> QED
    BY <1>0, <2>1, <2>2
    DEF SerialInv, RegistryNamesLiveTask, LiveFits, TaskFits, Live, DownIsIdle,
        AnsweredIsCompleted, database, locals, process
<1>2. ASSUME NEW t \in Tasks, RetryFlush(q, t)
      PROVE  SerialInv'
  <2>1. /\ ~Live(t) /\ pc'[t] = "spawned" /\ job'[t] = NewJob(r, FALSE)
        /\ \A u \in Tasks \ {t} : pc'[u] = pc[u] /\ job'[u] = job[u]
        /\ registry' = [registry EXCEPT ![r] = t] /\ registry[r] = Nobody
        /\ rpc' = [rpc EXCEPT ![q] = "flushed"]
        /\ UNCHANGED <<database, rrun, process>>
    BY <1>0, <1>2 DEF RetryFlush, Spawn, Live, TypeOK
  <2>2. \A u \in Tasks : Live(u) => job[u].run \in Runs /\ job[u].run # r
    BY <2>1, ConstantsAssumption
    DEF SerialInv, LiveFits, Assigned, ConstantsAssumption
  <2>3. RegistryNamesLiveTask'
    BY <1>0, <2>1
    DEF SerialInv, RegistryNamesLiveTask, Live, TypeOK, NewJob
  <2>4. LiveFits'
    <3>1. (registry[job[t].run] = t /\ TaskFits(t))'
      BY <1>0, <2>1 DEF TaskFits, NewJob, TypeOK, database
    <3>2. ASSUME NEW u \in Tasks \ {t}, Live(u)'
          PROVE  (registry[job[u].run] = u /\ TaskFits(u))'
      BY <2>1, <2>2, <3>2
      DEF SerialInv, LiveFits, TaskFits, Live, TypeOK, database
    <3> QED
      BY <3>1, <3>2 DEF LiveFits
  <2>5. RequestFits'
    BY <1>0, <2>1 DEF SerialInv, RequestFits, TypeOK, database
  <2> QED
    BY <1>0, <2>1, <2>3, <2>4, <2>5
    DEF SerialInv, DownIsIdle, AnsweredIsCompleted, database, process
<1>3. CASE RetryCommit(q)
  <2>1. /\ status' = [status EXCEPT ![r] = "queued"]
        /\ rpc' = [rpc EXCEPT ![q] = "idle"]
        /\ UNCHANGED <<answered, registry, pc, job, up>>
    BY <1>3 DEF RetryCommit, EndRequest, locals, process
  <2>2. LiveFits'
    <3> SUFFICES ASSUME NEW t \in Tasks, Live(t)
                 PROVE  registry[job[t].run] = t /\ TaskFits(t)'
      BY <2>1 DEF LiveFits, Live
    <3>1. registry[job[t].run] = t /\ TaskFits(t) /\ job[t].run \in Runs
      BY DEF SerialInv, LiveFits, Assigned
    <3>2. CASE job[t].run = r
      BY <1>0, <2>1, <3>1, <3>2 DEF TaskFits, TypeOK, Succeeded, Live
    <3>3. CASE job[t].run # r
      BY <2>1, <3>1, <3>3 DEF TaskFits, TypeOK
    <3> QED
      BY <3>1, <3>2, <3>3
  <2>3. RequestFits'
    BY <2>1 DEF RequestFits, TypeOK
  <2>4. AnsweredIsCompleted'
    BY <1>0, <2>1 DEF SerialInv, AnsweredIsCompleted, TypeOK
  <2> QED
    BY <1>0, <2>1, <2>2, <2>3, <2>4
    DEF SerialInv, RegistryNamesLiveTask, Live, DownIsIdle, TypeOK
<1> QED
  BY <1>1, <1>2, <1>3 DEF RequestStep

LEMMA RecoverySerial ==
    ASSUME TypeOK, Assigned, SerialInv,
           NEW taskOf \in [StaleRuns -> Tasks], RecoverStaleRuns(taskOf)
    PROVE  SerialInv'
<1> DEFINE owns(t, r) == r \in StaleRuns /\ taskOf[r] = t
           runOf(t) == CHOOSE r \in Runs : owns(t, r)
           recovering(t) == \E r \in Runs : owns(t, r)
<1>1. /\ ~up /\ up'
      /\ \A r1, r2 \in StaleRuns : taskOf[r1] = taskOf[r2] => r1 = r2
      /\ status' = [r \in Runs |-> IF r \in StaleRuns THEN "queued" ELSE status[r]]
      /\ pc' = [t \in Tasks |-> IF recovering(t) THEN "spawned" ELSE pc[t]]
      /\ job' = [t \in Tasks |->
                   IF recovering(t) THEN NewJob(runOf(t), FALSE) ELSE job[t]]
      /\ registry' = [r \in Runs |-> IF r \in StaleRuns THEN taskOf[r]
                                                        ELSE registry[r]]
      /\ UNCHANGED <<answered, rpc>>
  BY DEF RecoverStaleRuns, requests
<1>2. /\ \A t \in Tasks : ~Live(t)
      /\ \A q \in Requests : rpc[q] = "idle"
      /\ \A r \in Runs : registry[r] = Nobody
  BY <1>1 DEF SerialInv, DownIsIdle, RegistryNamesLiveTask, TypeOK
<1>3. \A r \in StaleRuns : r \in Runs /\ status[r] = "running"
  BY DEF StaleRuns
<1>4. \A r \in StaleRuns : owns(taskOf[r], r) /\ recovering(taskOf[r])
  BY <1>3
<1>5. \A t \in Tasks : recovering(t) => runOf(t) \in StaleRuns /\ taskOf[runOf(t)] = t
  OBVIOUS
<1>6. \A r \in StaleRuns : runOf(taskOf[r]) = r
  BY <1>1, <1>4, <1>5
<1>7. RegistryNamesLiveTask'
  <2> SUFFICES ASSUME NEW r \in Runs, registry'[r] # Nobody
               PROVE  (Live(registry[r]) /\ job[registry[r]].run = r)'
    BY DEF RegistryNamesLiveTask
  <2>1. r \in StaleRuns /\ registry'[r] = taskOf[r]
    BY <1>1, <1>2
  <2> QED
    BY <1>1, <1>4, <1>6, <2>1 DEF Live, NewJob
<1>8. LiveFits'
  <2> SUFFICES ASSUME NEW t \in Tasks, Live(t)'
               PROVE  (registry[job[t].run] = t /\ TaskFits(t))'
    BY DEF LiveFits
  <2>1. recovering(t) /\ pc'[t] = "spawned" /\ job'[t] = NewJob(runOf(t), FALSE)
    BY <1>1, <1>2 DEF Live
  <2>2. registry'[runOf(t)] = t /\ status'[runOf(t)] = "queued"
    BY <1>1, <1>3, <1>5, <2>1
  <2> QED
    BY <2>1, <2>2 DEF TaskFits, NewJob
<1>9. AnsweredIsCompleted'
  BY <1>1, <1>3 DEF SerialInv, AnsweredIsCompleted
<1> QED
  BY <1>1, <1>2, <1>7, <1>8, <1>9
  DEF SerialInv, RequestFits, DownIsIdle

LEMMA SerialStep ==
    ASSUME \A a, b \in Requests : a = b,
           TypeOK, Assigned, SerialInv, [Next]_vars
    PROVE  SerialInv'
<1>1. ASSUME NEW r \in Runs, NEW t \in Tasks, StartQa(r, t)
      PROVE  SerialInv'
  <2>1. /\ up /\ up' /\ ~Live(t) /\ status[r] = "absent"
        /\ status' = [status EXCEPT ![r] = "queued"]
        /\ pc'[t] = "spawned" /\ job'[t] = NewJob(r, TRUE)
        /\ \A u \in Tasks \ {t} : pc'[u] = pc[u] /\ job'[u] = job[u]
        /\ registry' = [registry EXCEPT ![r] = t]
        /\ UNCHANGED <<answered, rpc, rrun>>
    BY <1>1 DEF StartQa, Spawn, Live, TypeOK, requests, process
  <2>2. \A u \in Tasks : Live(u) => job[u].run \in Runs /\ job[u].run # r
    BY <2>1 DEF SerialInv, LiveFits, TaskFits, Assigned
  <2>3. RegistryNamesLiveTask'
    BY <2>1, <2>2 DEF SerialInv, RegistryNamesLiveTask, Live, TypeOK, NewJob
  <2>4. LiveFits'
    <3>1. (registry[job[t].run] = t /\ TaskFits(t))'
      BY <2>1 DEF TaskFits, NewJob, TypeOK
    <3>2. ASSUME NEW u \in Tasks \ {t}, Live(u)'
          PROVE  (registry[job[u].run] = u /\ TaskFits(u))'
      BY <2>1, <2>2, <3>2 DEF SerialInv, LiveFits, TaskFits, Live, TypeOK
    <3> QED
      BY <3>1, <3>2 DEF LiveFits
  <2>5. RequestFits'
    BY <2>1 DEF SerialInv, RequestFits, TypeOK, Assigned
  <2>6. AnsweredIsCompleted' /\ \A s \in Runs : status'[s] # "cancelled"
    BY <2>1 DEF SerialInv, AnsweredIsCompleted, TypeOK
  <2> QED
    BY <2>1, <2>3, <2>4, <2>5, <2>6 DEF SerialInv, DownIsIdle
<1>2. ASSUME NEW t \in Tasks, TaskStep(t)
      PROVE  SerialInv'
  BY <1>2, TaskStepSerial
<1>3. ASSUME NEW q \in Requests, NEW r \in Runs, RetryRead(q, r)
      PROVE  SerialInv'
  <2>1. /\ up /\ status[r] = "failed"
        /\ rpc' = [rpc EXCEPT ![q] = "read"] /\ rrun' = [rrun EXCEPT ![q] = r]
        /\ UNCHANGED <<database, registry, locals, process>>
    BY <1>3 DEF RetryRead
  <2>2. RequestFits'
    BY <2>1 DEF SerialInv, RequestFits, TypeOK, database
  <2> QED
    BY <2>1, <2>2
    DEF SerialInv, RegistryNamesLiveTask, LiveFits, TaskFits, Live, DownIsIdle,
        AnsweredIsCompleted, database, locals, process
<1>4. ASSUME NEW q \in Requests, RequestStep(q)
      PROVE  SerialInv'
  BY <1>4, RequestStepSerial
<1>5. CASE Crash
  BY <1>5
  DEF Crash, SerialInv, RegistryNamesLiveTask, LiveFits, Live, RequestFits,
      DownIsIdle, AnsweredIsCompleted, database
<1>6. CASE Boot
  <2>1. CASE BootWithoutRecovery
    BY <2>1
    DEF BootWithoutRecovery, SerialInv, RegistryNamesLiveTask, LiveFits,
        TaskFits, Live, RequestFits, DownIsIdle, AnsweredIsCompleted, database,
        locals, requests
  <2> QED
    BY <1>6, <2>1, RecoverySerial DEF Boot
<1>7. CASE UNCHANGED vars
  BY <1>7
  DEF vars, SerialInv, RegistryNamesLiveTask, LiveFits, TaskFits, Live,
      RequestFits, DownIsIdle, AnsweredIsCompleted, database, locals, requests,
      process
<1> QED
  BY <1>1, <1>2, <1>3, <1>4, <1>5, <1>6, <1>7 DEF Next

LEMMA InitSerial == Init => SerialInv
BY DEF Init, SerialInv, RegistryNamesLiveTask, LiveFits, Live, RequestFits,
       DownIsIdle, AnsweredIsCompleted

\* When retry requests do not overlap, every live task is the registered one
\* of its run and finds the row in the state its own progress implies: across
\* crashes, database faults, restarts and any number of retries in turn.
THEOREM SerialRetriesFit ==
    ASSUME \A a, b \in Requests : a = b
    PROVE  Spec => []SerialInv
<1>1. TypeOK /\ Assigned /\ SerialInv /\ [Next]_vars => SerialInv'
  BY SerialStep
<1> QED
  BY <1>1, InitSerial, Bookkeeping, PTL DEF Spec

\* The registry of running tasks keeps a run from being executed by two tasks
\* at once, and an answer in the chat belongs to a completed run.
THEOREM NoDuplicates ==
    ASSUME \A a, b \in Requests : a = b
    PROVE  Spec => [](NoDuplicateExecution /\ AnsweredIsCompleted
                        /\ RegistryNamesLiveTask)
<1>1. SerialInv => NoDuplicateExecution /\ AnsweredIsCompleted
                     /\ RegistryNamesLiveTask
  BY DEF SerialInv, NoDuplicateExecution, LiveFits
<1> QED
  BY <1>1, SerialRetriesFit, PTL

-----------------------------------------------------------------------------
(* What the readers of the database see                                    *)

\* The moves of the transition table a run makes, and the one it never makes.
LEMMA TableMoves ==
    /\ ValidTransition("queued", "running")
    /\ ValidTransition("running", "completed")
    /\ ValidTransition("running", "failed")
    /\ ValidTransition("failed", "queued")
    /\ \A target : ~ValidTransition("completed", target)
BY DEF ValidTransition, VALID_TRANSITIONS, Status, ALL_STATUSES

\* The abstract specification consults the same table.
LEMMA SameTable ==
    /\ Lifecycle!ALL_STATUSES = ALL_STATUSES
    /\ \A current, target :
         Lifecycle!ValidTransition(current, target) <=>
            ValidTransition(current, target)
<1>1. Lifecycle!VALID_TRANSITIONS = VALID_TRANSITIONS
  BY DEF Lifecycle!VALID_TRANSITIONS, VALID_TRANSITIONS, Lifecycle!Status,
         Status, Lifecycle!ALL_STATUSES, ALL_STATUSES
<1> QED
  BY <1>1 DEF Lifecycle!ValidTransition, ValidTransition,
              Lifecycle!ALL_STATUSES, ALL_STATUSES

\* The status an ending of a run gives it, and whether it adds an answer.
LEMMA EndingMoves ==
    ASSUME TypeOK, Assigned, SerialInv, NEW t \in Tasks, SaveCommit(t)
    PROVE  LET r == job[t].run IN
           \/ UNCHANGED <<status, answered>>
           \/ /\ status[r] \in {"queued", "running"}
              /\ status' = [status EXCEPT ![r] = "failed"]
              /\ answered' = answered
           \/ /\ status[r] = "running"
              /\ status' = [status EXCEPT ![r] = "completed"]
              /\ \/ answered' = answered
                 \/ answered' = [answered EXCEPT ![r] = TRUE]
<1> DEFINE r == job[t].run
           o == job[t].outcome
<1>1. /\ r \in Runs /\ TaskFits(t) /\ pc[t] = "saving"
      /\ status[r] \in {"queued", "running", "failed", "completed", "cancelled", "absent"}
      /\ status[r] # "cancelled"
  BY DEF SaveCommit, SerialInv, LiveFits, Assigned, Live, TypeOK, Status,
         ALL_STATUSES
<1>2. /\ status' = [status EXCEPT ![r] = Written(job[t].seen, Target(o), @)]
      /\ answered' = [answered EXCEPT ![r] = @ \/ (o = "answered" /\ job[t].chat)]
  BY DEF SaveCommit
<1>3. CASE Succeeded(o)
  <2>1. status[r] = "running" /\ status' = [status EXCEPT ![r] = "completed"]
    BY <1>1, <1>2, <1>3 DEF TaskFits, Written, Target, TypeOK
  <2>2. \/ answered' = answered
        \/ answered' = [answered EXCEPT ![r] = TRUE]
    <3>1. CASE o = "answered" /\ job[t].chat
      BY <1>1, <1>2, <3>1 DEF TypeOK
    <3>2. CASE ~(o = "answered" /\ job[t].chat)
      BY <1>1, <1>2, <3>2 DEF TypeOK
    <3> QED
      BY <3>1, <3>2
  <2> QED
    BY <2>1, <2>2
<1>4. CASE ~Succeeded(o)
  <2>1. answered' = answered
    BY <1>1, <1>2, <1>4 DEF TypeOK, Succeeded
  <2>2. status[r] \in {"queued", "running", "failed"}
    BY <1>1 DEF TaskFits
  <2>3. status' = status \/ status' = [status EXCEPT ![r] = "failed"]
    BY <1>1, <1>2, <1>4 DEF Written, Target, TypeOK
  <2>4. status[r] = "failed" /\ status' = [status EXCEPT ![r] = "failed"]
          => status' = status
    BY <1>1 DEF TypeOK
  <2> QED
    BY <2>1, <2>2, <2>3, <2>4
<1> QED
  BY <1>3, <1>4

LEMMA StepSeen ==
    ASSUME \A a, b \in Requests : a = b,
           TypeOK, Assigned, SerialInv, [Next]_vars
    PROVE  [Lifecycle!Next]_(Lifecycle!vars)
<1> USE DEF Lifecycle!vars
<1>1. ASSUME NEW r \in Runs, NEW target \in ALL_STATUSES,
             \/ ValidTransition(status[r], target)
             \/ <<status[r], target>> \in Lifecycle!UnvalidatedMove,
             status' = [status EXCEPT ![r] = target],
             \/ answered' = answered
             \/ target = "completed" /\ answered' = [answered EXCEPT ![r] = TRUE]
      PROVE  Lifecycle!Next
  BY <1>1, SameTable DEF Lifecycle!Next, Lifecycle!Move
<1>2. ASSUME NEW r \in Runs, NEW t \in Tasks, StartQa(r, t)
      PROVE  Lifecycle!Next
  BY <1>1, <1>2 DEF StartQa, Lifecycle!UnvalidatedMove, ALL_STATUSES
<1>3. ASSUME NEW t \in Tasks, TaskStep(t)
      PROVE  [Lifecycle!Next]_(Lifecycle!vars)
  <2> DEFINE r == job[t].run
  <2>1. CASE ExecEmit(t)
    <3>1. r \in Runs /\ status[r] = "queued"
      BY <2>1 DEF ExecEmit, SerialInv, LiveFits, TaskFits, Assigned, Live
    <3> QED
      BY <1>1, <2>1, <3>1, TableMoves DEF ExecEmit, ALL_STATUSES
  <2>2. CASE SaveCommit(t)
    <3>1. r \in Runs
      BY <2>2 DEF SaveCommit, Assigned, Live
    <3>2. <<"queued", "failed">> \in Lifecycle!UnvalidatedMove
      BY DEF Lifecycle!UnvalidatedMove
    <3>3. CASE /\ status[r] \in {"queued", "running"}
               /\ status' = [status EXCEPT ![r] = "failed"]
               /\ answered' = answered
      <4>1. "failed" \in ALL_STATUSES
        BY DEF ALL_STATUSES
      <4> QED
        BY <1>1, <3>1, <3>2, <3>3, <4>1, TableMoves
    <3>4. CASE /\ status[r] = "running"
               /\ status' = [status EXCEPT ![r] = "completed"]
               /\ \/ answered' = answered
                  \/ answered' = [answered EXCEPT ![r] = TRUE]
      <4>1. "completed" \in ALL_STATUSES
        BY DEF ALL_STATUSES
      <4> QED
        BY <1>1, <3>1, <3>4, <4>1, TableMoves
    <3> QED
      BY <2>2, <3>3, <3>4, EndingMoves
  <2>3. CASE ~ExecEmit(t) /\ ~SaveCommit(t)
    BY <1>3, <2>3
    DEF TaskStep, ExecLoad, ExecFlush, RunnerReturns, Raise, SaveLoad,
        PersistFails, ExecFinish, database
  <2> QED
    BY <2>1, <2>2, <2>3
<1>4. ASSUME NEW q \in Requests, RequestStep(q)
      PROVE  [Lifecycle!Next]_(Lifecycle!vars)
  <2>1. CASE RetryCommit(q)
    <3>1. rrun[q] \in Runs /\ status[rrun[q]] = "failed"
      BY <2>1 DEF RetryCommit, SerialInv, RequestFits, Assigned
    <3> QED
      BY <1>1, <2>1, <3>1, TableMoves DEF RetryCommit, ALL_STATUSES
  <2>2. CASE ~RetryCommit(q)
    BY <1>4, <2>2 DEF RequestStep, RetryCheck, RetryFlush, RetryRollback, database
  <2> QED
    BY <2>1, <2>2
<1>5. CASE Boot
  <2>1. ASSUME NEW taskOf \in [StaleRuns -> Tasks], RecoverStaleRuns(taskOf)
        PROVE  Lifecycle!Next
    BY <2>1
    DEF RecoverStaleRuns, StaleRuns, Lifecycle!Next, Lifecycle!RecoverAll
  <2> QED
    BY <1>5, <2>1 DEF Boot, BootWithoutRecovery, database
<1>6. CASE Crash \/ UNCHANGED vars \/ \E q \in Requests, r \in Runs : RetryRead(q, r)
  BY <1>6 DEF Crash, RetryRead, vars, database
<1> QED
  BY <1>2, <1>3, <1>4, <1>5, <1>6 DEF Next

\* When retries do not overlap, what the database shows of a run follows the
\* run lifecycle, with the answer appearing in the step that completes it.
THEOREM ImplementsLifecycle ==
    ASSUME \A a, b \in Requests : a = b
    PROVE  Spec => LifecycleSpec
<1>1. Init => Lifecycle!Init
  BY DEF Init, Lifecycle!Init
<1>2. TypeOK /\ Assigned /\ SerialInv /\ [Next]_vars
        => [Lifecycle!Next]_(Lifecycle!vars)
  BY StepSeen
<1> QED
  BY <1>1, <1>2, Bookkeeping, SerialRetriesFit, PTL
  DEF Spec, LifecycleSpec, Lifecycle!Spec

\* A completed run stays completed: completed is terminal in run_state.py.
THEOREM CompletedStays ==
    ASSUME \A a, b \in Requests : a = b
    PROVE  Spec => CompletedIsTerminal
<1>1. ASSUME TypeOK, Assigned, SerialInv, [Next]_vars
      PROVE  [\A r \in Runs : status[r] = "completed" => status'[r] = "completed"]_vars
  <2>1. [Lifecycle!Next]_(Lifecycle!vars)
    BY <1>1, StepSeen
  <2>2. CASE Lifecycle!RecoverAll
    BY <2>2 DEF Lifecycle!RecoverAll
  <2>3. ASSUME NEW r \in Runs, Lifecycle!Move(r)
        PROVE  \A s \in Runs : status[s] = "completed" => status'[s] = "completed"
    <3>1. status[r] # "completed"
      BY <2>3, SameTable, TableMoves
      DEF Lifecycle!Move, Lifecycle!UnvalidatedMove
    <3> QED
      BY <1>1, <2>3, <3>1 DEF Lifecycle!Move, TypeOK
  <2> QED
    BY <2>1, <2>2, <2>3 DEF Lifecycle!Next, Lifecycle!vars
<1> QED
  BY <1>1, Bookkeeping, SerialRetriesFit, PTL DEF Spec, CompletedIsTerminal

=============================================================================
