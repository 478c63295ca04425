--------------------------- MODULE IngestionJobs ----------------------------
(***************************************************************************)
(* Ingestion of uploaded documents: the document and job rows the API      *)
(* writes (upload, delete, retry), and the worker that claims jobs under a *)
(* lease, runs the import pipeline in a session of its own, and records    *)
(* the outcome.  Every document has one job, created with it.              *)
(*                                                                         *)
(* As everywhere the ORM writes only columns whose value differs from the  *)
(* one its session has loaded, and an UPDATE waits for the row lock.       *)
(***************************************************************************)
EXTENDS Naturals

CONSTANTS
    Docs,        \* documents that may be uploaded
    Displaced,   \* those whose stored file may become a link out of files_root
    Workers,     \* worker processes (compose.yml starts one)
    Requests,    \* retry requests that may be in flight at the same time
    Nobody,      \* no worker, no document
    MAX_RETRIES, \* executions of a job after the first one
    MaxAttempts, \* leases expire up to this number of attempts (a bound)
    MaxCrashes   \* how often a worker may die (a bound)

ASSUME JobsAssumption ==
    /\ Nobody \notin Workers \union Docs
    /\ Displaced \subseteq Docs
    /\ {MAX_RETRIES, MaxAttempts, MaxCrashes} \subseteq Nat

VARIABLES
    docs,       \* docs[d]: committed documents.status
    indexed,    \* indexed[d]: committed chunks of d exist
    docLock,    \* docLock[d]: the worker whose pipeline holds the row of d
    jobs,       \* jobs[d]: committed ingestion_jobs.status
    attempts,   \* attempts[d]: executions of the job so far
    lease,      \* lease[d]: lease_until is NULL, in the future or past
    wpc,        \* wpc[w]: how far worker w is in _process_pending_jobs
    work,       \* work[w]: its document, and the rows its session has loaded
    retrying,   \* retrying[q]: the job request q has read as retryable
    crashes     \* crashes so far

documents == <<docs, indexed, docLock>>
jobRows == <<jobs, attempts, lease>>
vars == <<documents, jobRows, wpc, work, retrying, crashes>>

-----------------------------------------------------------------------------
(* Types                                                                   *)

DocStatus == {"absent", "pending", "extracting", "active", "failed", "deleted"}

VALID_STATUSES ==
    {"pending", "running", "succeeded", "failed_retryable", "failed_permanent"}

JobStatus == VALID_STATUSES \union {"absent"}

Outcome == {"none", "success", "retryable", "permanent", "refused"}

Work == [doc : Docs \union {Nobody}, seenJob : JobStatus, seenDoc : DocStatus,
         seenAttempts : Nat, outcome : Outcome]

NoWork == [doc |-> Nobody, seenJob |-> "absent", seenDoc |-> "absent",
           seenAttempts |-> 0, outcome |-> "none"]

TypeOK ==
    /\ docs \in [Docs -> DocStatus]
    /\ indexed \in [Docs -> BOOLEAN]
    /\ docLock \in [Docs -> Workers \union {Nobody}]
    /\ jobs \in [Docs -> JobStatus]
    /\ attempts \in [Docs -> Nat]
    /\ lease \in [Docs -> {"none", "held", "expired"}]
    /\ wpc \in [Workers -> {"idle", "polled", "claimed", "loaded", "importing",
                            "handled"}]
    /\ work \in [Workers -> Work]
    /\ retrying \in [Requests -> Docs \union {Nobody}]
    /\ crashes \in 0 .. MaxCrashes

Init ==
    /\ docs = [d \in Docs |-> "absent"]
    /\ indexed = [d \in Docs |-> FALSE]
    /\ docLock = [d \in Docs |-> Nobody]
    /\ jobs = [d \in Docs |-> "absent"]
    /\ attempts = [d \in Docs |-> 0]
    /\ lease = [d \in Docs |-> "none"]
    /\ wpc = [w \in Workers |-> "idle"]
    /\ work = [w \in Workers |-> NoWork]
    /\ retrying = [q \in Requests |-> Nobody]
    /\ crashes = 0

-----------------------------------------------------------------------------
(* Helpers                                                                 *)

Failed == {"failed_retryable", "failed_permanent"}

Goes(w, from, to) == wpc[w] = from /\ wpc' = [wpc EXCEPT ![w] = to]

\* _ALLOWED_TRANSITIONS; validate_transition also lets a status stay.
Allowed(current, target) ==
    \/ current = target
    \/ current = "pending" /\ target = "running"
    \/ current = "running" /\ target \in {"succeeded"} \union Failed
    \/ current = "failed_retryable" /\ target = "pending"

\* Mutation: one retry too many.
MaxRetriesExceeded(n) == (IF n = 0 THEN 0 ELSE n - 1) > MAX_RETRIES

\* retry_count, max(0, attempts - 1), has reached MAX_RETRIES.
MaxRetriesReached(n) == (IF n = 0 THEN 0 ELSE n - 1) >= MAX_RETRIES

Written(loaded, target, current) == IF loaded = target THEN current ELSE target

\* Another worker's pipeline holds the row of d until it commits or rolls back.
MayWrite(w, d) == docLock[d] \in {Nobody, w}

Unlocked(w) == [d \in Docs |-> IF docLock[d] = w THEN Nobody ELSE docLock[d]]

-----------------------------------------------------------------------------
(* The API                                                                 *)

\* POST /documents, once the file is stored and no duplicate was found:
\* document and job are inserted in one commit.
Upload(d) ==
    /\ docs[d] = "absent"
    /\ docs' = [docs EXCEPT ![d] = "pending"]
    /\ jobs' = [jobs EXCEPT ![d] = "pending"]
    /\ UNCHANGED <<indexed, docLock, attempts, lease, wpc, work, retrying, crashes>>

\* DELETE /documents/{id}: a soft delete that leaves the job alone.
Delete(d) ==
    /\ docs[d] \notin {"absent", "deleted"}
    /\ docLock[d] = Nobody
    /\ docs' = [docs EXCEPT ![d] = "deleted"]
    /\ UNCHANGED <<indexed, docLock, jobRows, wpc, work, retrying, crashes>>

\* Mutation: every failed job may be retried.
RetryReadFailed(q, d) ==
    /\ retrying[q] = Nobody
    /\ jobs[d] \in Failed
    /\ ~MaxRetriesReached(attempts[d])
    /\ retrying' = [retrying EXCEPT ![q] = d]
    /\ UNCHANGED <<documents, jobRows, wpc, work, crashes>>

\* POST /ingestion-jobs/{id}/retry reads and judges the job ...
RetryRead(q, d) ==
    /\ retrying[q] = Nobody
    /\ jobs[d] = "failed_retryable"
    /\ ~MaxRetriesReached(attempts[d])
    /\ retrying' = [retrying EXCEPT ![q] = d]
    /\ UNCHANGED <<documents, jobRows, wpc, work, crashes>>

\* ... and puts it back, whatever has happened to the row meanwhile.
RetryWrite(q) ==
    LET d == retrying[q] IN
    /\ d # Nobody
    /\ jobs' = [jobs EXCEPT ![d] = "pending"]
    /\ lease' = [lease EXCEPT ![d] = "none"]
    /\ retrying' = [retrying EXCEPT ![q] = Nobody]
    /\ UNCHANGED <<documents, attempts, wpc, work, crashes>>

-----------------------------------------------------------------------------
(* The worker: one round of _process_pending_jobs                          *)

\* Mutation: only jobs without a lease are taken for stale.
RecoverUnleased(w) ==
    LET stale == {d \in Docs : jobs[d] = "running" /\ lease[d] = "none"} IN
    /\ Goes(w, "idle", "polled")
    /\ jobs' = [d \in Docs |-> IF d \in stale THEN "pending" ELSE jobs[d]]
    /\ UNCHANGED <<documents, attempts, lease, work, retrying, crashes>>

\* recover_stale_jobs: running jobs whose lease has expired are pending again.
RecoverStaleJobs(w) ==
    LET stale == {d \in Docs : jobs[d] = "running" /\ lease[d] = "expired"} IN
    /\ Goes(w, "idle", "polled")
    /\ jobs' = [d \in Docs |-> IF d \in stale THEN "pending" ELSE jobs[d]]
    /\ lease' = [d \in Docs |-> IF d \in stale THEN "none" ELSE lease[d]]
    /\ UNCHANGED <<documents, attempts, work, retrying, crashes>>

\* Mutation: the job is claimed without a lease.
ClaimUnleased(w, d) ==
    /\ Goes(w, "polled", "claimed")
    /\ jobs[d] = "pending"
    /\ jobs' = [jobs EXCEPT ![d] = "running"]
    /\ attempts' = [attempts EXCEPT ![d] = @ + 1]
    /\ work' = [work EXCEPT ![w].doc = d]
    /\ UNCHANGED <<documents, lease, retrying, crashes>>

\* claim_next_job: FOR UPDATE SKIP LOCKED, committed before the import starts.
ClaimNextJob(w, d) ==
    /\ Goes(w, "polled", "claimed")
    /\ jobs[d] = "pending"
    /\ jobs' = [jobs EXCEPT ![d] = "running"]
    /\ attempts' = [attempts EXCEPT ![d] = @ + 1]
    /\ lease' = [lease EXCEPT ![d] = "held"]
    /\ work' = [work EXCEPT ![w].doc = d]
    /\ UNCHANGED <<documents, retrying, crashes>>

ClaimNothing(w) ==
    /\ Goes(w, "polled", "idle")
    /\ \A d \in Docs : jobs[d] # "pending"
    /\ UNCHANGED <<documents, jobRows, work, retrying, crashes>>

\* A second session loads job and document; it keeps them through the import.
Load(w) ==
    LET d == work[w].doc IN
    /\ Goes(w, "claimed", "loaded")
    /\ work' = [work EXCEPT ![w].seenJob = jobs[d], ![w].seenDoc = docs[d],
                            ![w].seenAttempts = attempts[d]]
    /\ UNCHANGED <<documents, jobRows, retrying, crashes>>

\* resolve_storage_path refuses the stored name: an exception before the import
RefusePath(w) ==
    /\ Goes(w, "loaded", "handled")
    /\ work[w].doc \in Displaced
    /\ work' = [work EXCEPT ![w].outcome = "refused"]
    /\ UNCHANGED <<documents, jobRows, retrying, crashes>>

\* The pipeline, in a third session, stores pages and flushes the status
\* "extracting": from here on it holds the row of the document.
StartImport(w) ==
    LET d == work[w].doc IN
    /\ Goes(w, "loaded", "importing")
    /\ docLock[d] = Nobody
    /\ docLock' = [docLock EXCEPT ![d] = w]
    /\ UNCHANGED <<docs, indexed, jobRows, work, retrying, crashes>>

\* It succeeds and commits pages, chunks and that status ...
CommitImport(w) ==
    LET d == work[w].doc IN
    /\ Goes(w, "importing", "handled")
    /\ docs' = [docs EXCEPT ![d] = "extracting"]
    /\ indexed' = [indexed EXCEPT ![d] = TRUE]
    /\ docLock' = Unlocked(w)
    /\ work' = [work EXCEPT ![w].outcome = "success"]
    /\ UNCHANGED <<jobRows, retrying, crashes>>

\* ... or fails, before or after the first page, and rolls everything back.
ImportFails(w, outcome) ==
    /\ Goes(w, "loaded", "handled") \/ Goes(w, "importing", "handled")
    /\ docLock' = Unlocked(w)
    /\ work' = [work EXCEPT ![w].outcome = outcome]
    /\ UNCHANGED <<docs, indexed, jobRows, retrying, crashes>>

\* The status complete_job or fail_job asks for (a refused path is an error
\* that determine_error_type takes for permanent).
Target(k) ==
    CASE k.outcome = "success" -> "succeeded"
      [] k.outcome = "retryable" /\ ~MaxRetriesReached(k.seenAttempts)
            -> "failed_retryable"
      [] OTHER -> "failed_permanent"

\* The status the worker gives the document: none after an exception.
DocumentResult(k) ==
    CASE k.outcome = "success" -> "active"
      [] k.outcome = "refused" -> k.seenDoc
      [] OTHER -> "failed"

\* Mutation: a failure is recorded in the job only.
RecordJobOnly(w) ==
    LET k == work[w]
        d == k.doc
    IN
    /\ Goes(w, "handled", "idle")
    /\ Allowed(k.seenJob, Target(k))
    /\ MayWrite(w, d)
    /\ jobs' = [jobs EXCEPT ![d] = Written(k.seenJob, Target(k), @)]
    /\ docs' = IF k.outcome # "success" THEN docs
               ELSE [docs EXCEPT ![d] = Written(k.seenDoc, "active", @)]
    /\ work' = [work EXCEPT ![w] = NoWork]
    /\ UNCHANGED <<indexed, docLock, attempts, lease, retrying, crashes>>

\* The outcome is recorded in job and document, in one commit, by the session
\* that loaded them before the import; an exception is recorded in the job
\* only.  When validate_transition refuses the
\* status it has loaded, so does the fail_job that follows: nothing is written.
Record(w) ==
    LET k == work[w]
        d == k.doc
        accepted == Allowed(k.seenJob, Target(k))
    IN
    /\ Goes(w, "handled", "idle")
    /\ accepted /\ k.outcome # "refused" => MayWrite(w, d)
    /\ jobs' = IF ~accepted THEN jobs
               ELSE [jobs EXCEPT ![d] = Written(k.seenJob, Target(k), @)]
    /\ docs' = IF ~accepted THEN docs
               ELSE [docs EXCEPT ![d] = Written(k.seenDoc, DocumentResult(k), @)]
    /\ work' = [work EXCEPT ![w] = NoWork]
    /\ UNCHANGED <<indexed, docLock, attempts, lease, retrying, crashes>>

\* The process dies, or a database error ends the round: the open transactions
\* are rolled back, and the same or a new worker polls again.
Crash(w) ==
    /\ crashes < MaxCrashes
    /\ wpc[w] # "idle"
    /\ crashes' = crashes + 1
    /\ wpc' = [wpc EXCEPT ![w] = "idle"]
    /\ work' = [work EXCEPT ![w] = NoWork]
    /\ docLock' = Unlocked(w)
    /\ UNCHANGED <<docs, indexed, jobRows, retrying>>

\* Five minutes have passed since the job was claimed; nothing renews a lease.
LeaseExpires(d) ==
    /\ jobs[d] = "running"
    /\ lease[d] = "held"
    /\ attempts[d] < MaxAttempts
    /\ lease' = [lease EXCEPT ![d] = "expired"]
    /\ UNCHANGED <<documents, jobs, attempts, wpc, work, retrying, crashes>>

-----------------------------------------------------------------------------
(* The specification                                                       *)

WorkerStep(w) ==
    \/ RecoverStaleJobs(w)
    \/ \E d \in Docs : ClaimNextJob(w, d)
    \/ ClaimNothing(w)
    \/ Load(w)
    \/ RefusePath(w)
    \/ StartImport(w)
    \/ CommitImport(w)
    \/ \E outcome \in {"retryable", "permanent"} : ImportFails(w, outcome)
    \/ Record(w)

Next ==
    \/ \E d \in Docs : Upload(d) \/ Delete(d) \/ LeaseExpires(d)
    \/ \E q \in Requests : RetryWrite(q) \/ \E d \in Docs : RetryRead(q, d)
    \/ \E w \in Workers : WorkerStep(w) \/ Crash(w)

Spec == Init /\ [][Next]_vars

\* Workers poll for ever, imports end, time passes, handlers return.
Fairness ==
    /\ \A w \in Workers : WF_vars(WorkerStep(w))
    /\ \A d \in Docs : WF_vars(LeaseExpires(d))
    /\ \A q \in Requests : WF_vars(RetryWrite(q))

FairSpec == Spec /\ Fairness

-----------------------------------------------------------------------------
(* Properties                                                              *)

\* The document shows what became of its job: it is active only with its
\* chunks and a succeeded job, and a settled job has not left it half-way.  Only
\* an exception in the worker itself does: its handler fails the job and leaves
\* the document as it was, a new one "pending" for ever.
DocumentFollowsJob ==
    \A d \in Docs :
        /\ docs[d] = "active" => jobs[d] = "succeeded" /\ indexed[d]
        /\ jobs[d] = "succeeded" => docs[d] \in {"active", "deleted"}
        /\ jobs[d] \in Failed => d \in Displaced \/ docs[d] \in {"failed", "deleted"}

\* A running job is in the hands of a worker, or its lease will bring it back:
\* no crash leaves a job running for ever.
RunningIsHeldOrLeased ==
    \A d \in Docs : jobs[d] = "running" =>
        \/ \E w \in Workers : work[w].doc = d
        \/ lease[d] # "none"

\* A job is executed at most MAX_RETRIES times after the first execution, not
\* counting the executions that a crash has cut off.
AttemptsAreBounded ==
    \A d \in Docs : attempts[d] <= MAX_RETRIES + 1 + crashes

\* job_service.py: succeeded and failed_permanent are terminal.
SettledIsTerminal ==
    [][\A d \in Docs : jobs[d] \in {"succeeded", "failed_permanent"} =>
            jobs'[d] = jobs[d]]_vars

\* A deleted document stays deleted: it is not listed or retrieved any more.
DeletedStaysDeleted ==
    [][\A d \in Docs : docs[d] = "deleted" => docs'[d] = "deleted"]_vars

\* Every job that waits or runs is eventually settled, also after a crash.
JobsSettle ==
    \A d \in Docs :
        jobs[d] \in {"pending", "running"} ~> jobs[d] \in {"succeeded"} \union Failed

=============================================================================
