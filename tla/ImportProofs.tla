---------------------------- MODULE ImportProofs ----------------------------
(***************************************************************************)
(* Theorems about the two parts of an import: the job that runs it         *)
(* (IngestionJobs), for any number of documents and any bounds, and the    *)
(* chunks that it makes of a document (Chunking), for any documents and    *)
(* any sizes.  What holds for one worker and one retry at a time only (the *)
(* deployment compose.yml describes) says so.                              *)
(*                                                                         *)
(* The recursive functions of Chunking are reasoned about along the        *)
(* natural numbers, with induction over a set (SetInduction): a set of     *)
(* numbers that holds 0, and with a number the next one, holds them all.   *)
(***************************************************************************)
EXTENDS IngestionJobs, Chunking, SequenceTheorems, FiniteSetTheorems, WellFoundedInduction,
        TLAPS

-----------------------------------------------------------------------------
(* PART I: the job of an import                                            *)

\* A worker that has a job in its hands
Engaged(w) == wpc[w] \in {"claimed", "loaded", "importing", "handled"}

Assigned == \A w \in Workers : Engaged(w) => work[w].doc \in Docs

-----------------------------------------------------------------------------
(* The inductive invariant for one worker and one retry at a time          *)

\* What a worker has loaded is still true when it records the outcome, but for
\* a delete that has come in between.
LoadedFits(w) ==
    LET k == work[w] IN
    /\ k.seenJob = "running"
    /\ k.seenAttempts = attempts[k.doc]
    /\ k.seenDoc \notin {"absent", "active"}
    /\ k.outcome = "success" => indexed[k.doc] /\ docs[k.doc] \in {"extracting", "deleted"}
    /\ k.outcome # "success" => docs[k.doc] \in {k.seenDoc, "deleted"}
    /\ k.outcome = "refused" => k.doc \in Displaced

WorkFits ==
    \A w \in Workers :
        /\ ~Engaged(w) => work[w] = NoWork
        /\ Engaged(w) => jobs[work[w].doc] = "running"
        /\ wpc[w] = "claimed" => work[w].outcome = "none"
        /\ wpc[w] \in {"loaded", "importing"} => LoadedFits(w) /\ work[w].outcome = "none"
        /\ wpc[w] = "handled" => LoadedFits(w) /\ work[w].outcome # "none"

\* Document and job are inserted together.
RowsFit == \A d \in Docs : docs[d] = "absent" <=> jobs[d] = "absent"

\* One execution is left to every job that waits or has been cut off.
AttemptsFit ==
    \A d \in Docs :
        /\ jobs[d] = "absent" => attempts[d] = 0
        /\ jobs[d] = "pending" => attempts[d] <= MAX_RETRIES + crashes
        /\ jobs[d] = "running" =>
              \/ \E w \in Workers : Engaged(w) /\ work[w].doc = d
              \/ attempts[d] <= MAX_RETRIES + crashes
        /\ jobs[d] = "failed_retryable" => attempts[d] <= MAX_RETRIES

\* A retry that has judged its job still finds it as it was.
RetriesFit ==
    \A q \in Requests : retrying[q] # Nobody =>
        retrying[q] \in Docs /\ jobs[retrying[q]] = "failed_retryable"

JobsFit ==
    /\ WorkFits
    /\ RowsFit
    /\ AttemptsFit
    /\ RetriesFit
    /\ DocumentFollowsJob
    /\ AttemptsAreBounded

JobsInv == TypeOK /\ Assigned /\ JobsFit

OneAtATime ==
    /\ \A v, w \in Workers : v = w
    /\ \A p, q \in Requests : p = q

-----------------------------------------------------------------------------
(* Type correctness                                                        *)

\* What a worker does with its work keeps it one.
LEMMA WorkTypes ==
    /\ NoWork \in Work
    /\ \A k \in Work, d \in Docs : [k EXCEPT !.doc = d] \in Work
    /\ \A k \in Work, o \in Outcome : [k EXCEPT !.outcome = o] \in Work
    /\ \A k \in Work, j \in JobStatus, s \in DocStatus, n \in Nat :
         [k EXCEPT !.seenJob = j, !.seenDoc = s, !.seenAttempts = n] \in Work
BY DEF NoWork, Work, JobStatus, DocStatus, Outcome

LEMMA TypeInit == Init => TypeOK /\ Assigned
<1> SUFFICES ASSUME Init PROVE TypeOK /\ Assigned
  OBVIOUS
<1>1. 0 \in 0 .. MaxCrashes
  BY JobsAssumption
<1> QED
  BY <1>1, WorkTypes DEF Init, TypeOK, Assigned, Engaged, DocStatus, JobStatus

\* A target is a status that settles a running job.
LEMMA TargetSettles ==
  ASSUME NEW k
  PROVE  Target(k) \in {"succeeded", "failed_retryable", "failed_permanent"}
BY DEF Target

\* What changes a document and its row from outside keeps the types.
LEMMA DocumentTypes ==
  ASSUME TypeOK, Assigned, NEW d \in Docs, Upload(d) \/ Delete(d) \/ LeaseExpires(d)
  PROVE  TypeOK' /\ Assigned'
<1> USE DEF TypeOK, documents, jobRows, Assigned, Engaged
<1>1. CASE Upload(d)
  BY <1>1 DEF Upload, DocStatus, JobStatus, VALID_STATUSES
<1>2. CASE Delete(d)
  BY <1>2 DEF Delete, DocStatus
<1>3. CASE LeaseExpires(d)
  BY <1>3 DEF LeaseExpires
<1> QED
  BY <1>1, <1>2, <1>3

\* ... so do the two halves of a retry,
LEMMA RetryTypes ==
  ASSUME TypeOK, Assigned, NEW d \in Docs, NEW q \in Requests,
         RetryRead(q, d) \/ RetryWrite(q)
  PROVE  TypeOK' /\ Assigned'
<1> USE DEF TypeOK, documents, jobRows, Assigned, Engaged
<1>1. CASE RetryRead(q, d)
  BY <1>1 DEF RetryRead
<1>2. CASE RetryWrite(q)
  BY <1>2 DEF RetryWrite, JobStatus, VALID_STATUSES
<1> QED
  BY <1>1, <1>2

\* ... and the steps and the crash of a worker.
LEMMA WorkerTypes ==
  ASSUME TypeOK, Assigned, NEW w \in Workers, WorkerStep(w) \/ Crash(w)
  PROVE  TypeOK' /\ Assigned'
<1> USE DEF TypeOK, documents, jobRows, Goes, Assigned, Engaged
<1>1. CASE RecoverStaleJobs(w)
  BY <1>1 DEF RecoverStaleJobs, JobStatus, VALID_STATUSES
<1>2. ASSUME NEW d \in Docs, ClaimNextJob(w, d) PROVE TypeOK' /\ Assigned'
  <2>1. [work[w] EXCEPT !.doc = d] \in Work /\ [work[w] EXCEPT !.doc = d].doc = d
    BY WorkTypes DEF Work
  <2>2. work' = [work EXCEPT ![w] = [work[w] EXCEPT !.doc = d]]
    BY <1>2 DEF ClaimNextJob
  <2> QED
    BY <1>2, <2>1, <2>2 DEF ClaimNextJob, JobStatus, VALID_STATUSES
<1>3. CASE ClaimNothing(w)
  BY <1>3 DEF ClaimNothing
<1>4. CASE Load(w)
  <2> DEFINE d == work[w].doc
             k == [work[w] EXCEPT !.seenJob = jobs[d], !.seenDoc = docs[d],
                                  !.seenAttempts = attempts[d]]
  <2>1. d \in Docs
    BY <1>4 DEF Load
  <2>2. k \in Work /\ k.doc = d
    <3>1. work[w] \in Work /\ jobs[d] \in JobStatus /\ docs[d] \in DocStatus
          /\ attempts[d] \in Nat
      BY <2>1
    <3> QED
      BY <3>1, WorkTypes DEF Work
  <2>3. work' = [work EXCEPT ![w] = k]
    BY <1>4 DEF Load
  <2> HIDE DEF k
  <2>4. work' \in [Workers -> Work] /\ \A v \in Workers : work'[v].doc = work[v].doc
    BY <2>2, <2>3
  <2> QED
    BY <1>4, <2>4 DEF Load
<1>5. CASE StartImport(w)
  BY <1>5 DEF StartImport
<1>6. ASSUME NEW o \in {"success", "retryable", "permanent", "refused"},
             work' = [work EXCEPT ![w].outcome = o]
      PROVE  work' \in [Workers -> Work] /\ \A v \in Workers : work'[v].doc = work[v].doc
  <2>1. [work[w] EXCEPT !.outcome = o] \in Work
        /\ [work[w] EXCEPT !.outcome = o].doc = work[w].doc
    <3>1. work[w] \in Work /\ o \in Outcome
      BY DEF Outcome
    <3> QED
      BY <3>1, WorkTypes DEF Work
  <2> QED
    BY <1>6, <2>1
<1>7. CASE CommitImport(w)
  BY <1>6, <1>7 DEF CommitImport, Unlocked, DocStatus
<1>11. CASE RefusePath(w)
  BY <1>6, <1>11 DEF RefusePath
<1>8. ASSUME NEW o \in {"retryable", "permanent"}, ImportFails(w, o)
      PROVE  TypeOK' /\ Assigned'
  BY <1>6, <1>8 DEF ImportFails, Unlocked
<1>9. CASE Record(w)
  <2>1. DocumentResult(work[w]) \in DocStatus
    BY DEF DocumentResult, DocStatus, Work
  <2>2. docs' \in [Docs -> DocStatus] /\ jobs' \in [Docs -> JobStatus]
    BY <1>9, <2>1, TargetSettles DEF Record, Written, JobStatus, VALID_STATUSES
  <2> QED
    BY <1>9, <2>2, WorkTypes DEF Record
<1>10. CASE Crash(w)
  <2>1. crashes' \in 0 .. MaxCrashes
    BY <1>10, JobsAssumption DEF Crash
  <2> QED
    BY <1>10, <2>1, WorkTypes DEF Crash, Unlocked
<1> QED
  BY <1>1, <1>2, <1>3, <1>4, <1>5, <1>7, <1>8, <1>9, <1>10, <1>11
     DEF WorkerStep

LEMMA TypeStep == TypeOK /\ Assigned /\ [Next]_vars => TypeOK' /\ Assigned'
<1> SUFFICES ASSUME TypeOK, Assigned, [Next]_vars PROVE TypeOK' /\ Assigned'
  OBVIOUS
<1>1. CASE UNCHANGED vars
  BY <1>1 DEF vars, documents, jobRows, TypeOK, Assigned, Engaged
<1>2. CASE \E d \in Docs : Upload(d) \/ Delete(d) \/ LeaseExpires(d)
  BY <1>2, DocumentTypes
<1>3. ASSUME NEW q \in Requests, RetryWrite(q) PROVE TypeOK' /\ Assigned'
  <2>1. retrying[q] \in Docs
    BY <1>3 DEF RetryWrite, TypeOK
  <2> QED
    BY <1>3, <2>1, RetryTypes
<1>4. ASSUME NEW q \in Requests, NEW d \in Docs, RetryRead(q, d)
      PROVE  TypeOK' /\ Assigned'
  BY <1>4, RetryTypes
<1>5. CASE \E w \in Workers : WorkerStep(w) \/ Crash(w)
  BY <1>5, WorkerTypes
<1> QED
  BY <1>1, <1>2, <1>3, <1>4, <1>5 DEF Next

\* Every reachable state is of the types declared, for any number of workers
\* and requests.
THEOREM TypeCorrect == Spec => []TypeOK
<1> QED
  BY TypeInit, TypeStep, PTL DEF Spec

-----------------------------------------------------------------------------
(* The invariant, action by action                                         *)

LEMMA FitInit == Init => JobsFit
<1> SUFFICES ASSUME Init PROVE JobsFit
  OBVIOUS
<1> QED
  BY JobsAssumption
     DEF Init, JobsFit, WorkFits, Engaged, RowsFit, AttemptsFit, RetriesFit,
         DocumentFollowsJob, Failed, AttemptsAreBounded

\* An upload, a delete and the end of a lease touch no row that a worker or a
\* retry has judged.
LEMMA DocumentFits ==
  ASSUME JobsInv, NEW d \in Docs, Upload(d) \/ Delete(d) \/ LeaseExpires(d)
  PROVE  JobsFit'
<1> USE DEF JobsInv, JobsFit, TypeOK, Assigned, Engaged, documents, jobRows
<1>1. CASE Upload(d)
  <2>1. /\ docs[d] = "absent" /\ jobs[d] = "absent" /\ attempts[d] = 0
        /\ docs' = [docs EXCEPT ![d] = "pending"]
        /\ jobs' = [jobs EXCEPT ![d] = "pending"]
        /\ UNCHANGED <<indexed, docLock, attempts, lease, wpc, work, retrying, crashes>>
    BY <1>1 DEF Upload, RowsFit, AttemptsFit
  <2>2. WorkFits'
    BY <2>1 DEF WorkFits, LoadedFits
  <2>3. RowsFit' /\ RetriesFit' /\ DocumentFollowsJob' /\ AttemptsAreBounded'
    BY <2>1 DEF RowsFit, RetriesFit, DocumentFollowsJob, AttemptsAreBounded, Failed
  <2>4. AttemptsFit'
    BY <2>1, JobsAssumption DEF AttemptsFit
  <2> QED
    BY <2>2, <2>3, <2>4
<1>2. CASE Delete(d)
  <2>1. /\ docs[d] # "absent"
        /\ docs' = [docs EXCEPT ![d] = "deleted"]
        /\ UNCHANGED <<indexed, docLock, jobs, attempts, lease, wpc, work, retrying, crashes>>
    BY <1>2 DEF Delete
  <2>2. WorkFits'
    BY <2>1 DEF WorkFits, LoadedFits
  <2>3. RowsFit' /\ RetriesFit' /\ DocumentFollowsJob' /\ AttemptsAreBounded'
    BY <2>1 DEF RowsFit, RetriesFit, DocumentFollowsJob, AttemptsAreBounded, Failed
  <2>4. AttemptsFit'
    BY <2>1 DEF AttemptsFit
  <2> QED
    BY <2>2, <2>3, <2>4
<1>3. CASE LeaseExpires(d)
  BY <1>3 DEF LeaseExpires, WorkFits, LoadedFits, RowsFit, AttemptsFit, RetriesFit,
              DocumentFollowsJob, AttemptsAreBounded
<1> QED
  BY <1>1, <1>2, <1>3

\* A retry writes over the row that it has judged.
LEMMA RetryFits ==
  ASSUME JobsInv, OneAtATime, NEW q \in Requests, NEW d \in Docs,
         RetryRead(q, d) \/ RetryWrite(q)
  PROVE  JobsFit'
<1> USE DEF JobsInv, JobsFit, TypeOK, Assigned, Engaged, documents, jobRows, OneAtATime
<1>1. CASE RetryRead(q, d)
  BY <1>1 DEF RetryRead, WorkFits, LoadedFits, RowsFit, AttemptsFit, RetriesFit,
              DocumentFollowsJob, AttemptsAreBounded
<1>2. CASE RetryWrite(q)
  <2> DEFINE e == retrying[q]
  <2>1. /\ e \in Docs /\ jobs[e] = "failed_retryable"
        /\ jobs' = [jobs EXCEPT ![e] = "pending"]
        /\ retrying' = [retrying EXCEPT ![q] = Nobody]
        /\ UNCHANGED <<docs, indexed, docLock, attempts, wpc, work, crashes>>
    BY <1>2 DEF RetryWrite, RetriesFit
  <2>2. WorkFits'
    BY <2>1 DEF WorkFits, LoadedFits
  <2>3. RowsFit' /\ RetriesFit' /\ DocumentFollowsJob' /\ AttemptsAreBounded'
    BY <2>1 DEF RowsFit, RetriesFit, DocumentFollowsJob, AttemptsAreBounded, Failed
  <2>4. AttemptsFit'
    BY <2>1, JobsAssumption DEF AttemptsFit
  <2> QED
    BY <2>2, <2>3, <2>4
<1> QED
  BY <1>1, <1>2

\* The only worker polls, so nobody has the stale jobs in hand.
LEMMA RecoverFits ==
  ASSUME JobsInv, OneAtATime, NEW w \in Workers, RecoverStaleJobs(w)
  PROVE  JobsFit'
<1> USE DEF JobsInv, JobsFit, TypeOK, Assigned, Engaged, documents, jobRows, OneAtATime
<1> DEFINE stale == {d \in Docs : jobs[d] = "running" /\ lease[d] = "expired"}
<1>1. /\ \A v \in Workers : wpc[v] = "idle" /\ wpc'[v] = "polled"
      /\ jobs' = [d \in Docs |-> IF d \in stale THEN "pending" ELSE jobs[d]]
      /\ UNCHANGED <<docs, indexed, docLock, attempts, work, retrying, crashes>>
  BY DEF RecoverStaleJobs, Goes
<1>2. WorkFits'
  BY <1>1 DEF WorkFits
<1>3. RowsFit' /\ RetriesFit' /\ DocumentFollowsJob' /\ AttemptsAreBounded'
  BY <1>1 DEF RowsFit, RetriesFit, DocumentFollowsJob, AttemptsAreBounded, Failed
<1>4. AttemptsFit'
  BY <1>1 DEF AttemptsFit
<1> QED
  BY <1>2, <1>3, <1>4

\* A job that is claimed had an execution left.
LEMMA ClaimFits ==
  ASSUME JobsInv, OneAtATime, NEW w \in Workers, NEW d \in Docs, ClaimNextJob(w, d)
  PROVE  JobsFit'
<1> USE DEF JobsInv, JobsFit, TypeOK, Assigned, Engaged, documents, jobRows, OneAtATime
<1>1. /\ \A v \in Workers : v = w
      /\ wpc[w] = "polled" /\ wpc'[w] = "claimed" /\ work[w] = NoWork
      /\ jobs[d] = "pending" /\ jobs' = [jobs EXCEPT ![d] = "running"]
      /\ attempts' = [attempts EXCEPT ![d] = @ + 1]
      /\ work'[w].doc = d /\ work'[w].outcome = "none"
      /\ UNCHANGED <<docs, indexed, docLock, retrying, crashes>>
  BY DEF ClaimNextJob, Goes, WorkFits, Work, NoWork
<1>2. WorkFits'
  BY <1>1 DEF WorkFits
<1>3. RowsFit' /\ RetriesFit' /\ DocumentFollowsJob'
  BY <1>1 DEF RowsFit, RetriesFit, DocumentFollowsJob, Failed
<1>4. AttemptsFit' /\ AttemptsAreBounded'
  BY <1>1, JobsAssumption DEF AttemptsFit, AttemptsAreBounded
<1> QED
  BY <1>2, <1>3, <1>4

LEMMA ClaimNothingFits ==
  ASSUME JobsInv, OneAtATime, NEW w \in Workers, ClaimNothing(w)
  PROVE  JobsFit'
BY DEF ClaimNothing, Goes, JobsInv, JobsFit, TypeOK, Assigned, Engaged, documents, jobRows,
       OneAtATime, WorkFits, RowsFit, AttemptsFit, RetriesFit, DocumentFollowsJob,
       AttemptsAreBounded

\* What is loaded is true at that moment.
LEMMA LoadFits ==
  ASSUME JobsInv, OneAtATime, NEW w \in Workers, Load(w)
  PROVE  JobsFit'
<1> USE DEF JobsInv, JobsFit, TypeOK, Assigned, Engaged, documents, jobRows, OneAtATime
<1> DEFINE d == work[w].doc
<1>1. /\ \A v \in Workers : v = w
      /\ wpc[w] = "claimed" /\ wpc'[w] = "loaded"
      /\ d \in Docs /\ jobs[d] = "running" /\ docs[d] \notin {"absent", "active"}
      /\ work[w] \in Work /\ work[w].outcome = "none"
      /\ UNCHANGED <<docs, indexed, docLock, jobs, attempts, lease, retrying, crashes>>
  BY DEF Load, Goes, WorkFits, RowsFit, DocumentFollowsJob
<1>2. /\ work'[w].doc = d /\ work'[w].outcome = "none" /\ work'[w].seenJob = jobs[d]
      /\ work'[w].seenDoc = docs[d] /\ work'[w].seenAttempts = attempts[d]
  BY <1>1 DEF Load, Work
<1>3. WorkFits'
  BY <1>1, <1>2 DEF WorkFits, LoadedFits
<1>4. RowsFit' /\ RetriesFit' /\ DocumentFollowsJob' /\ AttemptsAreBounded'
  BY <1>1 DEF RowsFit, RetriesFit, DocumentFollowsJob, AttemptsAreBounded
<1>5. AttemptsFit'
  BY <1>1, <1>2 DEF AttemptsFit
<1> QED
  BY <1>3, <1>4, <1>5

LEMMA StartImportFits ==
  ASSUME JobsInv, OneAtATime, NEW w \in Workers, StartImport(w)
  PROVE  JobsFit'
BY DEF StartImport, Goes, JobsInv, JobsFit, TypeOK, Assigned, Engaged, documents, jobRows,
       OneAtATime, WorkFits, LoadedFits, RowsFit, AttemptsFit, RetriesFit,
       DocumentFollowsJob, AttemptsAreBounded

\* The end of an import changes nothing of the job, and the document only with
\* the chunks.
LEMMA ImportFits ==
  ASSUME JobsInv, OneAtATime, NEW w \in Workers,
         \/ RefusePath(w) \/ CommitImport(w)
         \/ \E o \in {"retryable", "permanent"} : ImportFails(w, o)
  PROVE  JobsFit'
<1> USE DEF JobsInv, JobsFit, TypeOK, Assigned, Engaged, documents, jobRows, OneAtATime
<1> DEFINE d == work[w].doc
<1>1. /\ \A v \in Workers : v = w
      /\ wpc[w] \in {"loaded", "importing"} /\ wpc'[w] = "handled"
      /\ d \in Docs /\ jobs[d] = "running" /\ work[w] \in Work /\ LoadedFits(w)
      /\ docs[d] # "absent"
      /\ UNCHANGED <<jobs, attempts, lease, retrying, crashes>>
  BY DEF RefusePath, CommitImport, ImportFails, Goes, WorkFits, RowsFit
<1>2. PICK o \in {"success", "retryable", "permanent", "refused"} :
         /\ work' = [work EXCEPT ![w].outcome = o]
         /\ IF o = "success"
            THEN /\ docs' = [docs EXCEPT ![d] = "extracting"]
                 /\ indexed' = [indexed EXCEPT ![d] = TRUE]
            ELSE UNCHANGED <<docs, indexed>>
         /\ o = "refused" => d \in Displaced
  BY DEF RefusePath, CommitImport, ImportFails
<1>3. /\ work'[w].doc = d /\ work'[w].outcome = o
      /\ work'[w].seenJob = work[w].seenJob /\ work'[w].seenDoc = work[w].seenDoc
      /\ work'[w].seenAttempts = work[w].seenAttempts
  BY <1>1, <1>2 DEF Work
<1>4. work[w].outcome = "none"
  BY <1>1 DEF WorkFits
<1>5. LoadedFits(w)'
  BY <1>1, <1>2, <1>3, <1>4 DEF LoadedFits
<1>6. WorkFits'
  BY <1>1, <1>2, <1>3, <1>5 DEF WorkFits
<1>7. RowsFit' /\ RetriesFit' /\ AttemptsAreBounded'
  BY <1>1, <1>2 DEF RowsFit, RetriesFit, AttemptsAreBounded
<1>8. DocumentFollowsJob'
  BY <1>1, <1>2 DEF DocumentFollowsJob, Failed
<1>9. AttemptsFit'
  BY <1>1, <1>3 DEF AttemptsFit
<1> QED
  BY <1>6, <1>7, <1>8, <1>9

\* The outcome is recorded over the rows that were loaded.
LEMMA RecordFits ==
  ASSUME JobsInv, OneAtATime, NEW w \in Workers, Record(w)
  PROVE  JobsFit'
<1> USE DEF JobsInv, JobsFit, TypeOK, Assigned, Engaged, documents, jobRows, OneAtATime
<1> DEFINE k == work[w]
           d == k.doc
<1>1. /\ \A v \in Workers : v = w
      /\ wpc[w] = "handled" /\ wpc'[w] = "idle"
      /\ d \in Docs /\ jobs[d] = "running" /\ k \in Work /\ LoadedFits(w)
      /\ docs[d] # "absent" /\ k.outcome # "none"
      /\ work'[w] = NoWork
      /\ UNCHANGED <<indexed, docLock, attempts, lease, retrying, crashes>>
  BY DEF Record, Goes, WorkFits, RowsFit
<1>2. Target(k) \in {"succeeded"} \union Failed /\ Target(k) # k.seenJob
      /\ Allowed(k.seenJob, Target(k))
  BY <1>1, TargetSettles DEF LoadedFits, Allowed, Failed
<1>3. jobs' = [jobs EXCEPT ![d] = Target(k)]
      /\ docs' = [docs EXCEPT ![d] = Written(k.seenDoc, DocumentResult(k), @)]
  BY <1>2 DEF Record, Written
<1>4. /\ docs'[d] # "absent"
      /\ k.outcome = "success" => /\ docs'[d] = "active" /\ jobs'[d] = "succeeded"
                                  /\ indexed[d]
      /\ k.outcome # "success" =>
            /\ jobs'[d] \in Failed /\ docs'[d] # "active"
            /\ d \in Displaced \/ docs'[d] \in {"failed", "deleted"}
  BY <1>1, <1>3 DEF LoadedFits, Written, DocumentResult, Target, Failed
<1>5. WorkFits' /\ RowsFit' /\ RetriesFit' /\ AttemptsAreBounded'
  BY <1>1, <1>2, <1>3, <1>4 DEF WorkFits, RowsFit, RetriesFit, AttemptsAreBounded, Failed
<1>6. DocumentFollowsJob'
  BY <1>1, <1>3, <1>4 DEF DocumentFollowsJob, Failed
<1>7. jobs'[d] = "failed_retryable" => attempts[d] <= MAX_RETRIES
  BY <1>1, <1>3, JobsAssumption DEF Target, MaxRetriesReached, LoadedFits
<1>8. AttemptsFit'
  BY <1>1, <1>2, <1>3, <1>7 DEF AttemptsFit, Failed
<1> QED
  BY <1>5, <1>6, <1>8

\* A crash leaves a running job, and one more crash to count.
LEMMA CrashFits ==
  ASSUME JobsInv, OneAtATime, NEW w \in Workers, Crash(w)
  PROVE  JobsFit'
<1> USE DEF JobsInv, JobsFit, TypeOK, Assigned, Engaged, documents, jobRows, OneAtATime
<1>1. /\ \A v \in Workers : v = w
      /\ wpc'[w] = "idle" /\ work'[w] = NoWork /\ crashes' = crashes + 1
      /\ UNCHANGED <<docs, indexed, jobs, attempts, lease, retrying>>
  BY DEF Crash
<1>2. WorkFits' /\ RowsFit' /\ RetriesFit' /\ DocumentFollowsJob'
  BY <1>1 DEF WorkFits, RowsFit, RetriesFit, DocumentFollowsJob
<1>3. AttemptsFit' /\ AttemptsAreBounded'
  BY <1>1, JobsAssumption DEF AttemptsFit, AttemptsAreBounded
<1> QED
  BY <1>2, <1>3

-----------------------------------------------------------------------------
(* Theorems                                                                *)

\* One worker and one retry at a time: what is loaded, judged and counted fits.
THEOREM JobsStayFit ==
  ASSUME OneAtATime
  PROVE  Spec => []JobsInv
<1>1. Init => JobsInv
  BY TypeInit, FitInit DEF JobsInv
<1>2. JobsInv /\ [Next]_vars => JobsInv'
  <2> SUFFICES ASSUME JobsInv, [Next]_vars PROVE JobsFit'
    BY TypeStep DEF JobsInv
  <2>1. CASE UNCHANGED vars
    BY <2>1 DEF vars, documents, jobRows, JobsInv, JobsFit, Engaged, WorkFits, LoadedFits,
                RowsFit, AttemptsFit, RetriesFit, DocumentFollowsJob, AttemptsAreBounded
  <2>2. CASE \E d \in Docs : Upload(d) \/ Delete(d) \/ LeaseExpires(d)
    BY <2>2, DocumentFits
  <2>3. ASSUME NEW q \in Requests, RetryWrite(q) PROVE JobsFit'
    <3>1. retrying[q] \in Docs
      BY <2>3 DEF RetryWrite, JobsInv, TypeOK
    <3> QED
      BY <2>3, <3>1, RetryFits
  <2>4. ASSUME NEW q \in Requests, NEW d \in Docs, RetryRead(q, d) PROVE JobsFit'
    BY <2>4, RetryFits
  <2>5. ASSUME NEW w \in Workers, WorkerStep(w) \/ Crash(w) PROVE JobsFit'
    BY <2>5, RecoverFits, ClaimFits, ClaimNothingFits, LoadFits, StartImportFits,
       ImportFits, RecordFits, CrashFits DEF WorkerStep
  <2> QED
    BY <2>1, <2>2, <2>3, <2>4, <2>5 DEF Next
<1> QED
  BY <1>1, <1>2, PTL DEF Spec

\* The document shows what became of its job.
THEOREM DocumentsFollow ==
  ASSUME OneAtATime
  PROVE  Spec => []DocumentFollowsJob
<1>1. JobsInv => DocumentFollowsJob
  BY DEF JobsInv, JobsFit
<1> QED
  BY <1>1, JobsStayFit, PTL

\* A job is executed at most MAX_RETRIES times again, crashes aside.
THEOREM AttemptsStayBounded ==
  ASSUME OneAtATime
  PROVE  Spec => []AttemptsAreBounded
<1>1. JobsInv => AttemptsAreBounded
  BY DEF JobsInv, JobsFit
<1> QED
  BY <1>1, JobsStayFit, PTL

\* A settled job stays as it is.
THEOREM SettledStays ==
  ASSUME OneAtATime
  PROVE  Spec => SettledIsTerminal
<1>1. ASSUME JobsInv, [Next]_vars,
             NEW d \in Docs, jobs[d] \in {"succeeded", "failed_permanent"}
      PROVE  jobs'[d] = jobs[d]
  <2> USE DEF JobsInv, TypeOK, Assigned, documents, jobRows
  <2>1. CASE UNCHANGED vars
    BY <2>1 DEF vars
  <2>2. ASSUME NEW e \in Docs, Upload(e) \/ Delete(e) \/ LeaseExpires(e)
        PROVE  jobs'[d] = jobs[d]
    BY <1>1, <2>2 DEF Upload, Delete, LeaseExpires, JobsFit, RowsFit
  <2>3. ASSUME NEW q \in Requests, RetryWrite(q) \/ \E e \in Docs : RetryRead(q, e)
        PROVE  jobs'[d] = jobs[d]
    BY <1>1, <2>3 DEF RetryWrite, RetryRead, JobsFit, RetriesFit
  <2>4. ASSUME NEW w \in Workers, WorkerStep(w) \/ Crash(w)
        PROVE  jobs'[d] = jobs[d]
    <3>1. CASE Record(w)
      <4>1. jobs[work[w].doc] = "running"
        BY <1>1, <3>1 DEF Record, Goes, JobsFit, WorkFits, Engaged
      <4> QED
        BY <1>1, <3>1, <4>1 DEF Record
    <3>2. CASE ~Record(w)
      BY <1>1, <2>4, <3>2
         DEF WorkerStep, RecoverStaleJobs, ClaimNextJob, ClaimNothing, Load, RefusePath,
             StartImport, CommitImport, ImportFails, Crash
    <3> QED
      BY <3>1, <3>2
  <2> QED
    BY <1>1, <2>1, <2>2, <2>3, <2>4 DEF Next
<1>2. JobsInv /\ [Next]_vars =>
        [\A d \in Docs : jobs[d] \in {"succeeded", "failed_permanent"} =>
              jobs'[d] = jobs[d]]_vars
  BY <1>1
<1> QED
  BY <1>2, JobsStayFit, PTL DEF Spec, SettledIsTerminal

\* A running job has a lease, whatever the number of workers and retries.
THEOREM RunningIsLeased == Spec => []RunningIsHeldOrLeased
<1> DEFINE Leased == TypeOK /\ Assigned /\ \A d \in Docs : jobs[d] = "running" => lease[d] # "none"
<1>1. Init => Leased
  BY TypeInit DEF Init
<1>2. Leased /\ [Next]_vars => Leased'
  <2> SUFFICES ASSUME Leased, [Next]_vars
               PROVE  \A d \in Docs : jobs'[d] = "running" => lease'[d] # "none"
    BY TypeStep
  <2> USE DEF TypeOK, Assigned, documents, jobRows
  <2>1. CASE UNCHANGED vars
    BY <2>1 DEF vars
  <2>2. CASE \E d \in Docs : Upload(d) \/ Delete(d) \/ LeaseExpires(d)
    BY <2>2 DEF Upload, Delete, LeaseExpires
  <2>3. CASE \E q \in Requests : RetryWrite(q) \/ \E d \in Docs : RetryRead(q, d)
    BY <2>3 DEF RetryWrite, RetryRead
  <2>4. ASSUME NEW w \in Workers, WorkerStep(w) \/ Crash(w)
        PROVE  \A d \in Docs : jobs'[d] = "running" => lease'[d] # "none"
    <3>1. CASE Record(w)
      BY <3>1, TargetSettles DEF Record, Written
    <3>2. CASE ~Record(w)
      BY <2>4, <3>2
         DEF WorkerStep, RecoverStaleJobs, ClaimNextJob, ClaimNothing, Load, RefusePath,
             StartImport, CommitImport, ImportFails, Crash
    <3> QED
      BY <3>1, <3>2
  <2> QED
    BY <2>1, <2>2, <2>3, <2>4 DEF Next
<1>3. Leased => RunningIsHeldOrLeased
  BY DEF RunningIsHeldOrLeased
<1> QED
  BY <1>1, <1>2, <1>3, PTL DEF Spec

-----------------------------------------------------------------------------
(* PART II: from the layout of a document to its chunks                    *)

-----------------------------------------------------------------------------
(* Numbers                                                                 *)

Below == {p \in Nat \X Nat : p[1] < p[2]}

LEMMA BelowIsWellFounded == IsWellFoundedOn(Below, Nat)
<1>1. OpToRel(<, Nat) = Below
  BY Zenon DEF OpToRel, Below
<1> QED
  BY <1>1, NatLessThanWellFounded, Zenon

\* A set of natural numbers has a least one.
LEMMA LeastNumber ==
  ASSUME NEW S \in SUBSET Nat, S # {}
  PROVE  Min(S) \in S /\ \A y \in S : Min(S) <= y
<1>1. PICK x \in S : \A y \in S : ~(<<y, x>> \in Below)
  BY BelowIsWellFounded, WFMin
<1>2. ASSUME NEW y \in S PROVE x <= y
  <2>1. x \in Nat /\ y \in Nat
    OBVIOUS
  <2>2. ~(<<y, x>>[1] < <<y, x>>[2])
    BY <1>1, <2>1, Zenon DEF Below
  <2> QED
    BY <2>1, <2>2
<1> QED
  BY <1>2 DEF Min

\* The largest one is the one that leaves least to the bound.
LEMMA LargestNumber ==
  ASSUME NEW n \in Nat, NEW S \in SUBSET (1 .. n), S # {}
  PROVE  Max(S) \in S /\ \A y \in S : y <= Max(S)
<1> DEFINE T == {n - y : y \in S}
<1>1. T \in SUBSET Nat /\ T # {}
  <2>1. \A y \in S : y \in 1 .. n /\ n - y \in Nat
    OBVIOUS
  <2> QED
    BY <2>1
<1>2. Min(T) \in T /\ \A y \in T : Min(T) <= y
  <2> HIDE DEF T
  <2> QED
    BY <1>1, LeastNumber
<1>3. PICK x \in S : Min(T) = n - x
  BY <1>2
<1>4. ASSUME NEW y \in S PROVE y <= x
  <2>1. n - x <= n - y
    BY <1>2, <1>3
  <2> QED
    BY <2>1
<1> QED
  BY <1>4 DEF Max

\* Induction as a fact about a set, which every prover can use.
LEMMA SetInduction ==
  ASSUME NEW S, 0 \in S, \A n \in Nat : n \in S => n + 1 \in S
  PROVE  \A n \in Nat : n \in S
<1> SUFFICES ASSUME NEW n \in Nat, n \notin S PROVE FALSE
  OBVIOUS
<1> DEFINE T == {m \in Nat : m \notin S}
<1>1. T \in SUBSET Nat /\ T # {}
  OBVIOUS
<1>2. Min(T) \in T /\ \A y \in T : Min(T) <= y
  <2> HIDE DEF T
  <2> QED
    BY <1>1, LeastNumber
<1>3. Min(T) \in Nat /\ Min(T) # 0
  BY <1>2
<1>4. Min(T) - 1 \in Nat /\ ~(Min(T) <= Min(T) - 1)
  BY <1>3
<1>5. Min(T) - 1 \in S
  BY <1>2, <1>4
<1> QED
  BY <1>2, <1>4, <1>5

-----------------------------------------------------------------------------
(* Sequences of sequences                                                  *)

Joins(f, n, seqs) == f = [k \in 0 .. n |-> IF k = 0 THEN <<>> ELSE f[k - 1] \o seqs[k]]

\* The recursive function of Concat exists, up to any number.
LEMMA JoinsExist ==
  ASSUME NEW seqs, NEW n \in Nat
  PROVE  \E f : Joins(f, n, seqs)
<1> DEFINE S == {m \in Nat : \E f : Joins(f, m, seqs)}
<1>1. 0 \in S
  <2> DEFINE g == [k \in 0 .. 0 |-> <<>>]
  <2>1. g = [k \in 0 .. 0 |-> IF k = 0 THEN <<>> ELSE g[k - 1] \o seqs[k]]
    OBVIOUS
  <2>2. Joins(g, 0, seqs)
    BY <2>1 DEF Joins
  <2> QED
    BY <2>2
<1>2. ASSUME NEW m \in Nat, m \in S PROVE m + 1 \in S
  <2>1. PICK f : Joins(f, m, seqs)
    BY <1>2
  <2> DEFINE g == [k \in 0 .. m + 1 |-> IF k = m + 1 THEN f[m] \o seqs[m + 1] ELSE f[k]]
  <2>2. \A k \in 0 .. m : f[k] = IF k = 0 THEN <<>> ELSE f[k - 1] \o seqs[k]
    BY <2>1 DEF Joins
  <2>3. ASSUME NEW k \in 0 .. m + 1
        PROVE  g[k] = IF k = 0 THEN <<>> ELSE g[k - 1] \o seqs[k]
    <3>1. CASE k = m + 1
      <4>1. m \in 0 .. m + 1 /\ m + 1 \in 0 .. m + 1 /\ m # m + 1 /\ m + 1 # 0 /\ (m + 1) - 1 = m
        OBVIOUS
      <4>2. g[m] = f[m]
        BY <4>1
      <4>3. g[m + 1] = f[m] \o seqs[m + 1]
        BY <4>1
      <4> HIDE DEF g
      <4> QED
        BY <3>1, <4>1, <4>2, <4>3
    <3>2. CASE k \in 0 .. m
      <4>1. g[k] = f[k]
        BY <3>2
      <4>2. k = 0 \/ g[k - 1] = f[k - 1]
        BY <3>2
      <4> QED
        BY <2>2, <3>2, <4>1, <4>2
    <3> QED
      BY <3>1, <3>2
  <2>4. Joins(g, m + 1, seqs)
    <3>1. g = [k \in 0 .. m + 1 |-> g[k]]
      OBVIOUS
    <3> HIDE DEF g
    <3> QED
      BY <2>3, <3>1 DEF Joins
  <2> QED
    BY <2>4
<1> HIDE DEF S
<1>3. n \in S
  BY <1>1, <1>2, SetInduction
<1> QED
  BY <1>3 DEF S

\* The equation of Concat.
LEMMA ConcatSteps ==
  ASSUME NEW seqs, Len(seqs) \in Nat
  PROVE  \E f : /\ f[0] = <<>>
                /\ \A k \in 1 .. Len(seqs) : f[k] = f[k - 1] \o seqs[k]
                /\ Concat(seqs) = f[Len(seqs)]
<1> DEFINE L == Len(seqs)
           upTo == CHOOSE f : f = [k \in 0 .. L |->
                      IF k = 0 THEN <<>> ELSE f[k - 1] \o seqs[k]]
<1>1. \E f : f = [k \in 0 .. L |-> IF k = 0 THEN <<>> ELSE f[k - 1] \o seqs[k]]
  BY JoinsExist DEF Joins
<1>2. upTo = [k \in 0 .. L |-> IF k = 0 THEN <<>> ELSE upTo[k - 1] \o seqs[k]]
  BY <1>1
<1>3. Concat(seqs) = upTo[L]
  BY DEF Concat
<1> HIDE DEF upTo
<1>4. \A k \in 0 .. L : upTo[k] = IF k = 0 THEN <<>> ELSE upTo[k - 1] \o seqs[k]
  BY <1>2
<1>5. upTo[0] = <<>>
  BY <1>4
<1>6. \A k \in 1 .. L : upTo[k] = upTo[k - 1] \o seqs[k]
  <2>1. \A k \in 1 .. L : k \in 0 .. L /\ k # 0
    OBVIOUS
  <2> QED
    BY <1>4, <2>1
<1> QED
  BY <1>3, <1>5, <1>6

LEMMA JoinedSet ==
  ASSUME NEW S, NEW s \in Seq(S), NEW t \in Seq(S)
  PROVE  s \o t \in Seq(S) /\ ToSet(s \o t) = ToSet(s) \cup ToSet(t)
<1>1. /\ s \o t \in Seq(S)
      /\ Len(s \o t) = Len(s) + Len(t)
      /\ \A i \in 1 .. Len(s) + Len(t) :
            (s \o t)[i] = IF i <= Len(s) THEN s[i] ELSE t[i - Len(s)]
  BY ConcatProperties
<1>2. /\ Len(s) \in Nat /\ DOMAIN s = 1 .. Len(s)
      /\ Len(t) \in Nat /\ DOMAIN t = 1 .. Len(t)
      /\ DOMAIN (s \o t) = 1 .. Len(s) + Len(t)
  BY <1>1, LenProperties
<1>3. ASSUME NEW x \in ToSet(s) PROVE x \in ToSet(s \o t)
  <2>1. PICK i \in DOMAIN s : s[i] = x
    BY DEF ToSet
  <2>2. i \in 1 .. Len(s) + Len(t) /\ i <= Len(s)
    BY <1>2
  <2> QED
    BY <1>1, <1>2, <2>1, <2>2 DEF ToSet
<1>4. ASSUME NEW x \in ToSet(t) PROVE x \in ToSet(s \o t)
  <2>1. PICK i \in DOMAIN t : t[i] = x
    BY DEF ToSet
  <2>2. i + Len(s) \in 1 .. Len(s) + Len(t) /\ ~(i + Len(s) <= Len(s)) /\ (i + Len(s)) - Len(s) = i
    BY <1>2
  <2>3. (s \o t)[i + Len(s)] = x
    BY <1>1, <2>1, <2>2
  <2> QED
    BY <1>2, <2>2, <2>3 DEF ToSet
<1>5. ASSUME NEW x \in ToSet(s \o t) PROVE x \in ToSet(s) \cup ToSet(t)
  <2>1. PICK i \in 1 .. Len(s) + Len(t) : (s \o t)[i] = x
    BY <1>2 DEF ToSet
  <2>2. CASE i <= Len(s)
    BY <1>1, <1>2, <2>1, <2>2 DEF ToSet
  <2>3. CASE ~(i <= Len(s))
    <3>1. i - Len(s) \in 1 .. Len(t)
      BY <1>2, <2>3
    <3> QED
      BY <1>1, <1>2, <2>1, <2>3, <3>1 DEF ToSet
  <2> QED
    BY <2>2, <2>3
<1>6. ToSet(s \o t) = ToSet(s) \cup ToSet(t)
  <2>1. \A x : x \in ToSet(s \o t) <=> x \in ToSet(s) \cup ToSet(t)
    BY <1>3, <1>4, <1>5
  <2> QED
    BY <2>1
<1> QED
  BY <1>1, <1>6

\* A concatenation has the members of its parts.
LEMMA ConcatSet ==
  ASSUME NEW S, NEW seqs \in Seq(Seq(S))
  PROVE  /\ Concat(seqs) \in Seq(S)
         /\ ToSet(Concat(seqs)) = UNION {ToSet(seqs[n]) : n \in DOMAIN seqs}
<1> DEFINE L == Len(seqs)
<1>1. L \in Nat /\ DOMAIN seqs = 1 .. L /\ \A k \in 1 .. L : seqs[k] \in Seq(S)
  BY LenProperties, ElementOfSeq
<1>2. PICK f : /\ f[0] = <<>>
               /\ \A k \in 1 .. L : f[k] = f[k - 1] \o seqs[k]
               /\ Concat(seqs) = f[L]
  BY <1>1, ConcatSteps
<1> DEFINE Fits(n) == /\ f[n] \in Seq(S)
                      /\ ToSet(f[n]) = UNION {ToSet(seqs[k]) : k \in 1 .. n}
           N == {n \in Nat : n <= L => Fits(n)}
<1>3. 0 \in N
  <2>1. f[0] \in Seq(S) /\ ToSet(f[0]) = {}
    BY <1>2 DEF ToSet
  <2> QED
    BY <2>1
<1>4. ASSUME NEW n \in Nat, n \in N PROVE n + 1 \in N
  <2> SUFFICES ASSUME n + 1 <= L PROVE Fits(n + 1)
    OBVIOUS
  <2>1. Fits(n) /\ n + 1 \in 1 .. L /\ (n + 1) - 1 = n
    BY <1>1, <1>4
  <2>2. f[n + 1] = f[n] \o seqs[n + 1]
    BY <1>2, <2>1
  <2>3. f[n + 1] \in Seq(S) /\ ToSet(f[n + 1]) = ToSet(f[n]) \cup ToSet(seqs[n + 1])
    BY <1>1, <2>1, <2>2, JoinedSet
  <2>4. 1 .. n + 1 = (1 .. n) \cup {n + 1}
    BY <1>1
  <2>5. UNION {ToSet(seqs[k]) : k \in 1 .. n + 1}
          = (UNION {ToSet(seqs[k]) : k \in 1 .. n}) \cup ToSet(seqs[n + 1])
    BY <2>4
  <2> QED
    BY <2>1, <2>3, <2>5
<1>5. L \in N
  <2> HIDE DEF N
  <2> QED
    BY <1>1, <1>3, <1>4, SetInduction
<1> QED
  BY <1>1, <1>2, <1>5

\* What a loop with a filter makes: each member comes from a place of its own,
\* places are in order, and none that has a member is left out.
Selected(C, seqs, n, place) ==
    /\ place \in [1 .. Len(C) -> 1 .. n]
    /\ \A k \in 1 .. Len(C) : seqs[place[k]] # <<>> /\ C[k] = seqs[place[k]][1]
    /\ \A k, l \in 1 .. Len(C) : k < l => place[k] < place[l]
    /\ \A m \in 1 .. n : seqs[m] # <<>> => \E k \in 1 .. Len(C) : place[k] = m

\* One part more, which is empty, or has one member.
LEMMA SelectedNone ==
  ASSUME NEW S, NEW C \in Seq(S), NEW seqs, NEW n \in Nat, NEW place,
         Selected(C, seqs, n, place), seqs[n + 1] = <<>>
  PROVE  Selected(C, seqs, n + 1, place)
<1>1. Len(C) \in Nat /\ 1 .. n \subseteq 1 .. n + 1
  BY LenProperties
<1>2. place \in [1 .. Len(C) -> 1 .. n + 1]
  BY <1>1 DEF Selected
<1>3. ASSUME NEW m \in 1 .. n + 1, seqs[m] # <<>> PROVE \E k \in 1 .. Len(C) : place[k] = m
  <2>1. m \in 1 .. n
    BY <1>3
  <2> QED
    BY <1>3, <2>1 DEF Selected
<1> QED
  BY <1>2, <1>3 DEF Selected

LEMMA SelectedOne ==
  ASSUME NEW S, NEW C \in Seq(S), NEW D \in Seq(S), NEW seqs, NEW n \in Nat, NEW place,
         Selected(C, seqs, n, place), D = C \o seqs[n + 1],
         seqs[n + 1] \in Seq(S), Len(seqs[n + 1]) = 1
  PROVE  \E new : Selected(D, seqs, n + 1, new)
<1> DEFINE L == Len(C)
           new == [k \in 1 .. L + 1 |-> IF k = L + 1 THEN n + 1 ELSE place[k]]
<1>1. L \in Nat /\ Len(D) = L + 1
      /\ \A k \in 1 .. L : D[k] = C[k]
      /\ D[L + 1] = seqs[n + 1][1]
  <2>1. /\ Len(C) \in Nat
        /\ Len(D) = Len(C) + 1
        /\ \A i \in 1 .. Len(C) + 1 :
              D[i] = IF i <= Len(C) THEN C[i] ELSE seqs[n + 1][i - Len(C)]
    <3> DEFINE t == seqs[n + 1]
    <3>1. Len(C) \in Nat
      BY LenProperties
    <3>2. /\ Len(C \o t) = Len(C) + Len(t)
          /\ \A i \in 1 .. Len(C) + Len(t) :
                (C \o t)[i] = IF i <= Len(C) THEN C[i] ELSE t[i - Len(C)]
      <4> HIDE DEF t
      <4>1. t \in Seq(S)
        BY DEF t
      <4> QED
        BY <4>1, ConcatProperties
    <3>3. D = C \o t /\ Len(t) = 1
      OBVIOUS
    <3> QED
      BY <3>1, <3>2, <3>3
  <2>2. ~(L + 1 <= L) /\ (L + 1) - L = 1 /\ L + 1 \in 1 .. L + 1
    BY <2>1
  <2>3. \A k \in 1 .. L : k \in 1 .. L + 1 /\ k <= L
    BY <2>1
  <2> QED
    BY <2>1, <2>2, <2>3
<1>2. /\ \A k \in 1 .. L : new[k] = place[k] /\ place[k] \in 1 .. n
      /\ new[L + 1] = n + 1
  <2>1. \A k \in 1 .. L : k \in 1 .. L + 1 /\ k # L + 1
    BY <1>1
  <2>2. L + 1 \in 1 .. L + 1
    BY <1>1
  <2> QED
    BY <2>1, <2>2 DEF Selected
<1>3. new \in [1 .. L + 1 -> 1 .. n + 1]
  <2>1. \A k \in 1 .. L + 1 : k \in 1 .. L \/ k = L + 1
    BY <1>1
  <2>2. 1 .. n \subseteq 1 .. n + 1 /\ n + 1 \in 1 .. n + 1
    OBVIOUS
  <2>3. \A k \in 1 .. L + 1 : new[k] \in 1 .. n + 1
    <3> HIDE DEF new
    <3> QED
      BY <1>2, <2>1, <2>2
  <2> QED
    BY <2>3
<1>4. seqs[n + 1] # <<>>
  <2> SUFFICES ASSUME seqs[n + 1] = <<>> PROVE FALSE
    OBVIOUS
  <2>1. Len(<<>>) = 1
    OBVIOUS
  <2> QED
    BY <2>1
<1> HIDE DEF new
<1>5. ASSUME NEW k \in 1 .. Len(D)
      PROVE  seqs[new[k]] # <<>> /\ D[k] = seqs[new[k]][1]
  <2>1. CASE k = L + 1
    BY <1>1, <1>2, <1>4, <2>1
  <2>2. CASE k # L + 1
    <3>1. k \in 1 .. L
      BY <1>1, <2>2
    <3> QED
      BY <1>1, <1>2, <3>1 DEF Selected
  <2> QED
    BY <2>1, <2>2
<1>6. ASSUME NEW k \in 1 .. Len(D), NEW l \in 1 .. Len(D), k < l
      PROVE  new[k] < new[l]
  <2>1. k \in 1 .. L
    BY <1>1, <1>6
  <2>2. CASE l = L + 1
    BY <1>2, <2>1, <2>2
  <2>3. CASE l # L + 1
    <3>1. l \in 1 .. L
      BY <1>1, <2>3
    <3> QED
      BY <1>2, <1>6, <2>1, <3>1 DEF Selected
  <2> QED
    BY <2>2, <2>3
<1>7. ASSUME NEW m \in 1 .. n + 1, seqs[m] # <<>>
      PROVE  \E k \in 1 .. Len(D) : new[k] = m
  <2>1. CASE m = n + 1
    <3>1. L + 1 \in 1 .. Len(D)
      BY <1>1
    <3> QED
      BY <1>2, <2>1, <3>1
  <2>2. CASE m # n + 1
    <3>1. m \in 1 .. n
      BY <2>2
    <3>2. PICK k \in 1 .. L : place[k] = m
      BY <1>7, <3>1 DEF Selected
    <3>3. k \in 1 .. Len(D)
      BY <1>1
    <3> QED
      BY <1>2, <3>2, <3>3
  <2> QED
    BY <2>1, <2>2
<1>8. Selected(D, seqs, n + 1, new)
  BY <1>1, <1>3, <1>5, <1>6, <1>7 DEF Selected
<1> QED
  BY <1>8

LEMMA OneLong ==
  ASSUME NEW S, NEW t \in Seq(S), t # <<>>, Len(t) <= 1
  PROVE  Len(t) = 1
<1>1. Len(t) \in Nat \ {0}
  BY EmptySeq
<1>2. \A n \in Nat \ {0} : n <= 1 => n = 1
  OBVIOUS
<1> QED
  BY <1>1, <1>2

\* Of parts with one member or none, a concatenation has each member at one
\* place, and the places are in order.
LEMMA ConcatSelects ==
  ASSUME NEW S, NEW seqs \in Seq(Seq(S)), \A n \in DOMAIN seqs : Len(seqs[n]) <= 1
  PROVE  \E place : Selected(Concat(seqs), seqs, Len(seqs), place)
<1> DEFINE L == Len(seqs)
<1>1. L \in Nat /\ DOMAIN seqs = 1 .. L /\ \A k \in 1 .. L : seqs[k] \in Seq(S)
  BY LenProperties, ElementOfSeq
<1>2. PICK f : /\ f[0] = <<>>
               /\ \A k \in 1 .. L : f[k] = f[k - 1] \o seqs[k]
               /\ Concat(seqs) = f[L]
  BY <1>1, ConcatSteps
<1> DEFINE Fits(n) == f[n] \in Seq(S) /\ \E place : Selected(f[n], seqs, n, place)
           N == {n \in Nat : n <= L => Fits(n)}
<1>3. 0 \in N
  <2>1. f[0] \in Seq(S) /\ Len(f[0]) = 0
    BY <1>2
  <2>2. Selected(f[0], seqs, 0, [k \in 1 .. 0 |-> k])
    BY <2>1 DEF Selected
  <2> QED
    BY <2>1, <2>2
<1>4. ASSUME NEW n \in Nat, n \in N PROVE n + 1 \in N
  <2> SUFFICES ASSUME n + 1 <= L PROVE Fits(n + 1)
    OBVIOUS
  <2>1. Fits(n) /\ n + 1 \in 1 .. L /\ (n + 1) - 1 = n
    BY <1>1, <1>4
  <2>2. f[n + 1] = f[n] \o seqs[n + 1] /\ seqs[n + 1] \in Seq(S)
    BY <1>1, <1>2, <2>1
  <2>3. f[n + 1] \in Seq(S)
    BY <2>1, <2>2, ConcatProperties
  <2>4. PICK place : Selected(f[n], seqs, n, place)
    BY <2>1
  <2>5. CASE seqs[n + 1] = <<>>
    <3>1. f[n + 1] = f[n]
      BY <2>1, <2>2, <2>5, ConcatEmptySeq
    <3> QED
      BY <2>1, <2>4, <2>5, <3>1, SelectedNone
  <2>6. CASE seqs[n + 1] # <<>>
    <3>1. Len(seqs[n + 1]) = 1
      <4>1. Len(seqs[n + 1]) <= 1
        BY <1>1, <2>1
      <4> QED
        BY <2>2, <2>6, <4>1, OneLong
    <3> QED
      BY <2>1, <2>2, <2>3, <2>4, <3>1, SelectedOne
  <2> QED
    BY <2>5, <2>6
<1>5. L \in N
  <2> HIDE DEF N
  <2> QED
    BY <1>1, <1>3, <1>4, SetInduction
<1> QED
  BY <1>1, <1>2, <1>5

-----------------------------------------------------------------------------
(* Texts                                                                   *)

Text == Seq(Char)

LEMMA LesserOfTwo ==
  ASSUME NEW a \in Int, NEW b \in Int
  PROVE  Min({a, b}) = IF a <= b THEN a ELSE b
  BY DEF Min

LEMMA LargerOfTwo ==
  ASSUME NEW a \in Int, NEW b \in Int
  PROVE  Max({a, b}) = IF a >= b THEN a ELSE b
  BY DEF Max

LEMMA TextFacts ==
  ASSUME NEW text \in Text
  PROVE  /\ Len(text) \in Nat /\ DOMAIN text = 1 .. Len(text)
         /\ \A n \in 1 .. Len(text) : text[n] \in Char
         /\ Solid(text) \subseteq 1 .. Len(text)
  BY LenProperties, ElementOfSeq DEF Text, Solid

\* A part of a text, by its two ends.
LEMMA PartFacts ==
  ASSUME NEW text \in Text, NEW m \in 1 .. Len(text) + 1, NEW n \in 0 .. Len(text), m <= n + 1
  PROVE  /\ SubSeq(text, m, n) \in Text
         /\ Len(SubSeq(text, m, n)) = n - m + 1
         /\ \A i \in 1 .. n - m + 1 : SubSeq(text, m, n)[i] = text[m + i - 1]
<1>1. /\ Len(text) \in Nat /\ m \in Int /\ n \in Int
      /\ \A i \in m .. n : i \in 1 .. Len(text)
  BY TextFacts
<1>2. \A i \in m .. n : text[i] \in Char
  BY <1>1, TextFacts
<1>3. /\ SubSeq(text, m, n) \in Seq(Char)
      /\ Len(SubSeq(text, m, n)) = IF m <= n THEN n - m + 1 ELSE 0
      /\ \A i \in 1 .. n - m + 1 : SubSeq(text, m, n)[i] = text[m + i - 1]
  BY <1>1, <1>2, SubSeqProperties
<1>4. Len(SubSeq(text, m, n)) = n - m + 1
  BY <1>1, <1>3
<1> QED
  BY <1>3, <1>4 DEF Text

\* The first and the last character of a text that is not blank.
LEMMA SolidEnds ==
  ASSUME NEW text \in Text, Solid(text) # {}
  PROVE  /\ Min(Solid(text)) \in Solid(text) /\ Max(Solid(text)) \in Solid(text)
         /\ \A n \in Solid(text) : Min(Solid(text)) <= n /\ n <= Max(Solid(text))
<1>1. Len(text) \in Nat /\ Solid(text) \subseteq 1 .. Len(text)
  BY TextFacts
<1>2. Solid(text) \in SUBSET Nat /\ Solid(text) \in SUBSET (1 .. Len(text))
  BY <1>1
<1>3. Min(Solid(text)) \in Solid(text) /\ \A n \in Solid(text) : Min(Solid(text)) <= n
  BY <1>2, LeastNumber
<1>4. Max(Solid(text)) \in Solid(text) /\ \A n \in Solid(text) : n <= Max(Solid(text))
  BY <1>1, <1>2, LargestNumber
<1> QED
  BY <1>3, <1>4

LEMMA NoneIsEmpty ==
  ASSUME NEW t, Len(t) \in Nat \ {0}
  PROVE  t # <<>>
<1> SUFFICES ASSUME t = <<>> PROVE FALSE
  OBVIOUS
<1>1. Len(<<>>) \in Nat \ {0}
  OBVIOUS
<1> QED
  BY <1>1

\* What strip leaves of the characters from m to n.
LEMMA StripOfPart ==
  ASSUME NEW text \in Text, NEW m \in 1 .. Len(text) + 1, NEW n \in 0 .. Len(text), m <= n + 1
  PROVE  LET u == SubSeq(text, m, n)
             a == Min(Solid(u)) + m - 1
             b == Max(Solid(u)) + m - 1
         IN  /\ Strip(u) \in Text
             /\ Strip(u) = <<>> <=> Solid(u) = {}
             /\ Solid(u) # {} =>
                   a \in m .. n /\ b \in a .. n /\ Strip(u) = SubSeq(text, a, b)
             /\ \A i \in m .. n : ~IsWhite(text[i]) =>
                   Solid(u) # {} /\ i \in a .. b
<1> DEFINE u == SubSeq(text, m, n)
           a == Min(Solid(u)) + m - 1
           b == Max(Solid(u)) + m - 1
           k == Min(Solid(u))
           l == Max(Solid(u))
<1>1. /\ u \in Text /\ Len(u) = n - m + 1
      /\ \A i \in 1 .. n - m + 1 : u[i] = text[m + i - 1]
  BY PartFacts
<1>2. Len(text) \in Nat /\ m \in Nat /\ n \in Nat /\ m >= 1
  BY TextFacts
<1>3. Len(u) \in Nat /\ DOMAIN u = 1 .. Len(u) /\ Solid(u) \subseteq 1 .. Len(u)
  <2> HIDE DEF u
  <2> QED
    BY <1>1, TextFacts
<1>4. ASSUME NEW i \in m .. n, ~IsWhite(text[i]) PROVE i - m + 1 \in Solid(u)
  <2>1. i - m + 1 \in 1 .. n - m + 1 /\ m + (i - m + 1) - 1 = i
    BY <1>2
  <2>2. u[i - m + 1] = text[i]
    <3>1. u[i - m + 1] = text[m + (i - m + 1) - 1]
      BY <1>1, <2>1
    <3> QED
      BY <2>1, <3>1
  <2> HIDE DEF u
  <2> QED
    BY <1>1, <1>3, <1>4, <2>1, <2>2 DEF Solid
<1>5. CASE Solid(u) = {}
  <2>1. Strip(u) = <<>> /\ Strip(u) \in Text
    BY <1>5 DEF Strip, Text
  <2> QED
    BY <1>4, <1>5, <2>1
<1>6. CASE Solid(u) # {}
  <2>1. /\ k \in Solid(u) /\ l \in Solid(u)
        /\ \A i \in Solid(u) : k <= i /\ i <= l
    <3> HIDE DEF u
    <3> QED
      BY <1>1, <1>6, SolidEnds
  <2>2. k \in 1 .. n - m + 1 /\ l \in k .. n - m + 1
    <3>1. k \in 1 .. n - m + 1 /\ l \in 1 .. n - m + 1 /\ k <= l
      BY <1>1, <1>3, <2>1
    <3> QED
      BY <1>2, <3>1
  <2>3. Strip(u) = SubSeq(u, k, l)
    BY <1>6 DEF Strip
  <2>4. /\ SubSeq(u, k, l) \in Text
        /\ Len(SubSeq(u, k, l)) = l - k + 1
        /\ \A i \in 1 .. l - k + 1 : SubSeq(u, k, l)[i] = u[k + i - 1]
    <3>1. k \in 1 .. Len(u) + 1 /\ l \in 0 .. Len(u) /\ k <= l + 1
      BY <1>1, <1>2, <2>2
    <3> HIDE DEF u, k, l
    <3> QED
      BY <1>1, <3>1, PartFacts
  <2>5. a \in m .. n /\ b \in a .. n /\ b - a + 1 = l - k + 1
    <3>1. a = k + m - 1 /\ b = l + m - 1
      OBVIOUS
    <3> HIDE DEF a, b, k, l
    <3> QED
      BY <1>2, <2>2, <3>1
  <2>6. /\ SubSeq(text, a, b) \in Text
        /\ Len(SubSeq(text, a, b)) = b - a + 1
        /\ \A i \in 1 .. b - a + 1 : SubSeq(text, a, b)[i] = text[a + i - 1]
    <3>1. a \in 1 .. Len(text) + 1 /\ b \in 0 .. Len(text) /\ a <= b + 1
      BY <1>2, <2>5
    <3> HIDE DEF a, b
    <3> QED
      BY <3>1, PartFacts
  <2>7. ASSUME NEW i \in 1 .. l - k + 1
        PROVE  SubSeq(u, k, l)[i] = SubSeq(text, a, b)[i]
    <3>1. k + i - 1 \in 1 .. n - m + 1 /\ m + (k + i - 1) - 1 = a + i - 1
      <4>1. a = k + m - 1
        OBVIOUS
      <4> HIDE DEF a, k, l
      <4> QED
        BY <1>2, <2>2, <4>1
    <3>2. u[k + i - 1] = text[m + (k + i - 1) - 1]
      BY <1>1, <3>1
    <3>3. SubSeq(text, a, b)[i] = text[a + i - 1]
      BY <2>5, <2>6
    <3> QED
      BY <2>4, <3>1, <3>2, <3>3
  <2>8. Strip(u) = SubSeq(text, a, b)
    <3>1. Len(SubSeq(u, k, l)) = Len(SubSeq(text, a, b))
      BY <2>4, <2>5, <2>6
    <3>2. SubSeq(u, k, l) = SubSeq(text, a, b)
      <4> HIDE DEF u, a, b, k, l
      <4> QED
        BY <2>4, <2>6, <2>7, <3>1, SeqEqual DEF Text
    <3> QED
      BY <2>3, <3>2
  <2>9. Strip(u) # <<>>
    <3>1. Len(Strip(u)) \in Nat \ {0}
      <4> HIDE DEF u, k, l
      <4> QED
        BY <1>2, <2>2, <2>3, <2>4
    <3> QED
      BY <3>1, NoneIsEmpty
  <2>10. ASSUME NEW i \in m .. n, ~IsWhite(text[i]) PROVE i \in a .. b
    <3>1. k <= i - m + 1 /\ i - m + 1 <= l
      BY <1>4, <2>1, <2>10
    <3>2. a = k + m - 1 /\ b = l + m - 1
      OBVIOUS
    <3> HIDE DEF a, b, k, l
    <3> QED
      BY <1>2, <2>2, <3>1, <3>2
  <2>11. Strip(u) \in Text
    BY <2>3, <2>4
  <2> HIDE DEF u, a, b, k, l
  <2>12. u = SubSeq(text, m, n) /\ a = Min(Solid(u)) + m - 1 /\ b = Max(Solid(u)) + m - 1
    BY DEF u, a, b
  <2> QED
    BY <1>6, <2>5, <2>8, <2>9, <2>10, <2>11, <2>12
<1> QED
  BY <1>5, <1>6
-----------------------------------------------------------------------------
(* Cuts                                                                    *)

LEMMA Sizes ==
  /\ target_chars \in Nat \ {0} /\ max_chars \in Nat /\ max_chars >= target_chars
  /\ overlap_chars \in Nat /\ min_merge_chars \in Nat
  BY ChunkingAssumption

\* No piece is longer.
Longest == IF max_chars >= 2 * target_chars THEN max_chars ELSE 2 * target_chars

\* The texts are the parts of the text between from and to.
Places(text, texts, from, to) ==
    /\ from \in [1 .. Len(texts) -> 1 .. Len(text)]
    /\ to \in [1 .. Len(texts) -> 1 .. Len(text)]
    /\ \A k \in 1 .. Len(texts) :
          /\ from[k] <= to[k] /\ to[k] - from[k] < Longest
          /\ texts[k] = SubSeq(text, from[k], to[k])
    /\ \A k, l \in 1 .. Len(texts) : k < l =>
          /\ from[k] < from[l] /\ to[k] <= to[l]
          /\ Breakpoints(text) # {} => to[k] < from[l]
    /\ \A n \in Solid(text) : \E k \in 1 .. Len(texts) : from[k] <= n /\ n <= to[k]

LEMMA Multiples ==
  ASSUME NEW t \in Nat \ {0}, NEW a \in Nat, NEW b \in Nat
  PROVE  (a <= b => a * t <= b * t) /\ (a < b => a * t + t <= b * t)
<1> DEFINE S == {n \in Nat : (a + n) * t >= a * t}
<1>1. 0 \in S
  OBVIOUS
<1>2. ASSUME NEW n \in Nat, n \in S PROVE n + 1 \in S
  <2>1. (a + (n + 1)) * t = (a + n) * t + t
    OBVIOUS
  <2>2. (a + n) * t \in Int /\ a * t \in Int
    OBVIOUS
  <2> QED
    BY <1>2, <2>1, <2>2
<1>3. \A n \in Nat : n \in S
  <2> HIDE DEF S
  <2> QED
    BY <1>1, <1>2, SetInduction
<1>4. \A n \in Nat : (a + n) * t >= a * t
  BY <1>3
<1>5. ASSUME a <= b PROVE a * t <= b * t
  <2>1. b - a \in Nat /\ a + (b - a) = b
    BY <1>5
  <2>2. (a + (b - a)) * t >= a * t
    BY <1>4, <2>1
  <2> QED
    BY <2>1, <2>2
<1>6. ASSUME a < b PROVE a * t + t <= b * t
  <2>1. (b - a) - 1 \in Nat /\ a + ((b - a) - 1) = b - 1
    BY <1>6
  <2>2. (a + ((b - a) - 1)) * t >= a * t
    BY <1>4, <2>1
  <2>3. (b - 1) * t = b * t - t
    OBVIOUS
  <2>4. b * t \in Int /\ a * t \in Int
    OBVIOUS
  <2> QED
    BY <2>1, <2>2, <2>3, <2>4
<1> QED
  BY <1>5, <1>6

LEMMA Quotients ==
  ASSUME NEW a \in Nat, NEW t \in Nat \ {0}
  PROVE  a \div t \in Nat /\ (a \div t) * t <= a /\ a < (a \div t) * t + t
<1>1. a \div t \in Nat /\ t * (a \div t) <= a /\ a < t * ((a \div t) + 1)
  OBVIOUS
<1> DEFINE q == a \div t
<1>2. t * q = q * t /\ t * (q + 1) = q * t + t
  <2>1. q \in Nat
    BY <1>1
  <2> HIDE DEF q
  <2> QED
    BY <2>1
<1> QED
  BY <1>1, <1>2

\* Without breakpoints, pieces begin every target_chars and cover the text.
LEMMA HardCutPlaces ==
  ASSUME NEW text \in Text
  PROVE  /\ HardCut(text) \in Seq(Text)
         /\ Breakpoints(text) = {} => \E from, to : Places(text, HardCut(text), from, to)
<1> DEFINE L == Len(text)
           t == target_chars
           N == (L + t - 1) \div t
           from == [k \in 1 .. N |-> (k - 1) * t + 1]
           to == [k \in 1 .. N |-> Min({(k - 1) * t + max_chars, L})]
<1>1. L \in Nat /\ DOMAIN text = 1 .. L /\ Solid(text) \subseteq 1 .. L
  BY TextFacts
<1>2. t \in Nat \ {0} /\ max_chars \in Nat /\ max_chars >= t
  BY Sizes
<1>3. N \in Nat /\ N * t <= L + t - 1 /\ L + t - 1 < N * t + t
  <2>1. L + t - 1 \in Nat
    BY <1>1, <1>2
  <2> HIDE DEF L, t
  <2> QED
    BY <1>2, <2>1, Quotients
<1> HIDE DEF N, t, L
<1>4. ASSUME NEW k \in 1 .. N
      PROVE  /\ (k - 1) * t \in Nat /\ (k - 1) * t < L
             /\ from[k] = (k - 1) * t + 1
             /\ to[k] = IF (k - 1) * t + max_chars <= L THEN (k - 1) * t + max_chars ELSE L
  <2>1. k - 1 \in Nat /\ k - 1 < N
    BY <1>3
  <2>2. (k - 1) * t + t <= N * t /\ (k - 1) * t \in Nat
    <3> DEFINE j == k - 1
    <3>1. j \in Nat /\ j < N
      BY <2>1
    <3> HIDE DEF j
    <3>2. j * t + t <= N * t /\ j * t \in Nat
      BY <3>1, <1>2, <1>3, Multiples
    <3> QED
      BY <3>2 DEF j
  <2>3. (k - 1) * t < L
    <3> DEFINE a == (k - 1) * t
               b == N * t
    <3>1. a \in Nat /\ b \in Int /\ a + t <= b /\ b <= L + t - 1
      <4>1. N * t \in Int
        BY <1>2, <1>3
      <4> QED
        BY <1>3, <2>2, <4>1
    <3> HIDE DEF a, b
    <3>2. a < L
      BY <1>1, <1>2, <3>1
    <3> QED
      BY <3>2 DEF a
  <2>4. to[k] = Min({(k - 1) * t + max_chars, L})
    OBVIOUS
  <2>5. (k - 1) * t + max_chars \in Int /\ L \in Int
    BY <1>1, <1>2, <2>2
  <2>6. to[k] = IF (k - 1) * t + max_chars <= L THEN (k - 1) * t + max_chars ELSE L
    <3> DEFINE a == (k - 1) * t + max_chars
    <3> HIDE DEF a
    <3>1. Min({a, L}) = IF a <= L THEN a ELSE L
      BY <2>5, LesserOfTwo DEF a
    <3> QED
      BY <2>4, <3>1 DEF a
  <2> QED
    BY <2>2, <2>3, <2>6
<1>5. ASSUME NEW k \in 1 .. N
      PROVE  /\ from[k] \in 1 .. L /\ to[k] \in from[k] .. L
             /\ to[k] - from[k] < max_chars
  <2> DEFINE a == (k - 1) * t
  <2>1. /\ a \in Nat /\ a < L
        /\ from[k] = a + 1
        /\ to[k] = IF a + max_chars <= L THEN a + max_chars ELSE L
    BY <1>4
  <2> HIDE DEF a, from, to
  <2> QED
    BY <1>1, <1>2, <2>1
<1>6. /\ Len(HardCut(text)) = N
      /\ \A k \in 1 .. N : HardCut(text)[k] = SubSeq(text, from[k], to[k])
  <2>1. HardCut(text) = [k \in 1 .. N |-> SubSeq(text, from[k], to[k])]
    BY DEF HardCut, N, t, L
  <2> HIDE DEF from, to
  <2> DEFINE cut == [k \in 1 .. N |-> SubSeq(text, from[k], to[k])]
  <2>2. \A k \in 1 .. N : cut[k] = SubSeq(text, from[k], to[k])
    OBVIOUS
  <2>3. Len(cut) = N
    BY <1>3
  <2> HIDE DEF cut
  <2>4. HardCut(text) = cut
    BY <2>1 DEF cut
  <2> QED
    BY <2>2, <2>3, <2>4
<1>7. \A k \in 1 .. N : SubSeq(text, from[k], to[k]) \in Text
  <2> HIDE DEF from, to
  <2>1. ASSUME NEW k \in 1 .. N PROVE SubSeq(text, from[k], to[k]) \in Text
    <3> DEFINE a == from[k]
               b == to[k]
    <3>1. a \in 1 .. Len(text) + 1 /\ b \in 0 .. Len(text) /\ a <= b + 1
      BY <1>1, <1>5 DEF L
    <3> HIDE DEF a, b
    <3>2. SubSeq(text, a, b) \in Text
      BY <3>1, PartFacts
    <3> QED
      BY <3>2 DEF a, b
  <2> QED
    BY <2>1
<1>8. HardCut(text) \in Seq(Text)
  <2>1. HardCut(text) = [k \in 1 .. N |-> SubSeq(text, from[k], to[k])]
    BY DEF HardCut, N, t, L
  <2> HIDE DEF from, to
  <2> QED
    BY <1>3, <1>7, <2>1
<1>9. ASSUME NEW k \in 1 .. N, NEW l \in 1 .. N, k < l
      PROVE  from[k] < from[l] /\ to[k] <= to[l]
  <2> DEFINE a == (k - 1) * t
             b == (l - 1) * t
  <2>1. a + t <= b
    <3> DEFINE i == k - 1
               j == l - 1
    <3>1. i \in Nat /\ j \in Nat /\ i < j
      BY <1>3, <1>9
    <3> HIDE DEF i, j
    <3>2. i * t + t <= j * t
      BY <3>1, <1>2, Multiples
    <3> QED
      BY <3>2 DEF i, j
  <2>2. /\ a \in Nat /\ b \in Nat /\ from[k] = a + 1 /\ from[l] = b + 1
        /\ to[k] = IF a + max_chars <= L THEN a + max_chars ELSE L
        /\ to[l] = IF b + max_chars <= L THEN b + max_chars ELSE L
    BY <1>4
  <2> HIDE DEF a, b, from, to
  <2> QED
    BY <1>1, <1>2, <2>1, <2>2
<1>10. ASSUME NEW n \in Solid(text)
       PROVE  \E k \in 1 .. N : from[k] <= n /\ n <= to[k]
  <2> DEFINE q == (n - 1) \div t
  <2>1. n \in 1 .. L /\ n - 1 \in Nat
    BY <1>1
  <2>2. q \in Nat /\ q * t <= n - 1 /\ n - 1 < q * t + t
    <3> DEFINE m == n - 1
    <3> HIDE DEF m
    <3>1. m \div t \in Nat /\ (m \div t) * t <= m /\ m < (m \div t) * t + t
      BY <1>2, <2>1, Quotients DEF m
    <3> QED
      BY <3>1 DEF m
  <2> HIDE DEF q
  <2>3. q * t \in Int /\ N * t \in Int
    BY <1>2, <1>3, <2>2
  <2>4. q < N
    <3> SUFFICES ASSUME N <= q PROVE FALSE
      BY <1>3, <2>2
    <3>1. N * t <= q * t
      BY <1>2, <1>3, <2>2, Multiples
    <3> QED
      BY <1>1, <1>2, <1>3, <2>1, <2>2, <2>3, <3>1
  <2>5. q + 1 \in 1 .. N /\ (q + 1) - 1 = q
    BY <1>3, <2>2, <2>4
  <2>6. /\ from[q + 1] = q * t + 1
        /\ to[q + 1] = IF q * t + max_chars <= L THEN q * t + max_chars ELSE L
    BY <1>4, <2>5
  <2> HIDE DEF from, to
  <2>7. from[q + 1] <= n /\ n <= to[q + 1]
    BY <1>1, <1>2, <2>1, <2>2, <2>3, <2>6
  <2> QED
    BY <2>5, <2>7
<1>11. ASSUME Breakpoints(text) = {}
       PROVE  Places(text, HardCut(text), from, to)
  <2>1. max_chars <= Longest
    BY <1>2, Sizes DEF Longest
  <2>2. Longest \in Nat
    BY Sizes DEF Longest
  <2>3. \A k \in 1 .. N : from[k] <= to[k] /\ to[k] - from[k] < Longest
    <3> HIDE DEF from, to
    <3> QED
      BY <1>1, <1>2, <1>5, <2>1, <2>2
  <2>4. from \in [1 .. N -> 1 .. L] /\ to \in [1 .. N -> 1 .. L]
    <3>1. \A k \in 1 .. N : from[k] \in 1 .. L /\ to[k] \in 1 .. L
      <4> HIDE DEF from, to
      <4> QED
        BY <1>1, <1>5
    <3>2. from = [k \in 1 .. N |-> from[k]] /\ to = [k \in 1 .. N |-> to[k]]
      OBVIOUS
    <3> HIDE DEF from, to
    <3> QED
      BY <3>1, <3>2
  <2> HIDE DEF from, to
  <2> QED
    BY <1>6, <1>9, <1>10, <1>11, <2>3, <2>4 DEF Places, L
<1> QED
  BY <1>8, <1>11

\* A cut goes on, is not longer than the longest piece, and ends in the text.
LEMMA BestBreakBounds ==
  ASSUME NEW text \in Text, NEW pos \in 0 .. Len(text)
  PROVE  /\ BestBreak(text, pos) \in pos .. Len(text)
         /\ BestBreak(text, pos) - pos <= Longest
         /\ pos < Len(text) => pos < BestBreak(text, pos)
<1> DEFINE L == Len(text)
           limit == Min({pos + 2 * target_chars, L})
           near == {b \in Breakpoints(text) : pos + target_chars <= b /\ b <= pos + max_chars}
           early == {b \in Breakpoints(text) : pos < b /\ b < limit}
<1>1. L \in Nat /\ Breakpoints(text) \subseteq 1 .. L /\ pos \in Nat /\ pos <= L
  BY TextFacts DEF Breakpoints
<1>2. limit = IF pos + 2 * target_chars <= L THEN pos + 2 * target_chars ELSE L
  <2>1. pos + 2 * target_chars \in Int /\ L \in Int
    BY <1>1, Sizes
  <2> QED
    BY <2>1, LesserOfTwo
<1>3. near \in SUBSET Nat /\ early \in SUBSET Nat
  BY <1>1
<1>4. BestBreak(text, pos) = IF near # {} THEN Min(near) ELSE IF early # {} THEN Min(early) ELSE limit
  BY DEF BestBreak
<1>5. CASE near # {}
  <2>1. Min(near) \in near
    <3> HIDE DEF near
    <3> QED
      BY <1>3, <1>5, LeastNumber
  <2>2. BestBreak(text, pos) = Min(near)
    BY <1>4, <1>5
  <2>3. BestBreak(text, pos) \in near
    BY <2>1, <2>2
  <2> QED
    BY <1>1, <2>3, Sizes DEF Longest
<1>6. CASE near = {} /\ early # {}
  <2>1. Min(early) \in early
    <3> HIDE DEF early
    <3> QED
      BY <1>3, <1>6, LeastNumber
  <2>2. BestBreak(text, pos) \in early
    BY <1>4, <1>6, <2>1
  <2> HIDE DEF limit
  <2> QED
    BY <1>1, <1>2, <2>2, Sizes DEF Longest
<1>7. CASE near = {} /\ early = {}
  <2>1. BestBreak(text, pos) = limit
    BY <1>4, <1>7
  <2> HIDE DEF limit
  <2> QED
    BY <1>1, <1>2, <2>1, Sizes DEF Longest
<1> QED
  BY <1>5, <1>6, <1>7

Positions(f, n, text) == f = [k \in 0 .. n |-> IF k = 0 THEN 0 ELSE BestBreak(text, f[k - 1])]

\* The recursive function of SoftCut exists, up to any number.
LEMMA PositionsExist ==
  ASSUME NEW text, NEW n \in Nat
  PROVE  \E f : Positions(f, n, text)
<1> DEFINE S == {m \in Nat : \E f : Positions(f, m, text)}
<1>1. 0 \in S
  <2> DEFINE g == [k \in 0 .. 0 |-> 0]
  <2>1. g = [k \in 0 .. 0 |-> IF k = 0 THEN 0 ELSE BestBreak(text, g[k - 1])]
    OBVIOUS
  <2>2. Positions(g, 0, text)
    BY <2>1 DEF Positions
  <2> QED
    BY <2>2
<1>2. ASSUME NEW m \in Nat, m \in S PROVE m + 1 \in S
  <2>1. PICK f : Positions(f, m, text)
    BY <1>2
  <2> DEFINE g == [k \in 0 .. m + 1 |-> IF k = m + 1 THEN BestBreak(text, f[m]) ELSE f[k]]
  <2>2. \A k \in 0 .. m : f[k] = IF k = 0 THEN 0 ELSE BestBreak(text, f[k - 1])
    BY <2>1 DEF Positions
  <2>3. ASSUME NEW k \in 0 .. m + 1
        PROVE  g[k] = IF k = 0 THEN 0 ELSE BestBreak(text, g[k - 1])
    <3>1. CASE k = m + 1
      <4>1. m \in 0 .. m + 1 /\ m + 1 \in 0 .. m + 1 /\ m # m + 1 /\ m + 1 # 0 /\ (m + 1) - 1 = m
        OBVIOUS
      <4>2. g[m] = f[m]
        BY <4>1
      <4>3. g[m + 1] = BestBreak(text, f[m])
        BY <4>1
      <4> HIDE DEF g
      <4> QED
        BY <3>1, <4>1, <4>2, <4>3
    <3>2. CASE k \in 0 .. m
      <4>1. g[k] = f[k]
        BY <3>2
      <4>2. k = 0 \/ g[k - 1] = f[k - 1]
        BY <3>2
      <4> QED
        BY <2>2, <3>2, <4>1, <4>2
    <3> QED
      BY <3>1, <3>2
  <2>4. Positions(g, m + 1, text)
    <3>1. g = [k \in 0 .. m + 1 |-> g[k]]
      OBVIOUS
    <3> HIDE DEF g
    <3> QED
      BY <2>3, <3>1 DEF Positions
  <2> QED
    BY <2>4
<1> HIDE DEF S
<1>3. n \in S
  BY <1>1, <1>2, SetInduction
<1> QED
  BY <1>3 DEF S

\* The positions of the cuts go on to the end of the text.
LEMMA CutPositions ==
  ASSUME NEW text \in Text
  PROVE  LET L == Len(text)
         IN  \E pos : /\ pos \in [0 .. L -> 0 .. L]
                      /\ pos[0] = 0 /\ pos[L] = L
                      /\ \A k \in 1 .. L : /\ pos[k - 1] <= pos[k]
                                           /\ pos[k] - pos[k - 1] <= Longest
                      /\ \A k, l \in 0 .. L : k <= l => pos[k] <= pos[l]
                      /\ SoftCut(text) =
                           Concat([k \in 1 .. L |->
                              IF Strip(SubSeq(text, pos[k - 1] + 1, pos[k])) = <<>> THEN <<>>
                              ELSE <<Strip(SubSeq(text, pos[k - 1] + 1, pos[k]))>>])
<1> DEFINE L == Len(text)
           pos == CHOOSE f : f = [k \in 0 .. L |-> IF k = 0 THEN 0 ELSE BestBreak(text, f[k - 1])]
<1>1. L \in Nat /\ DOMAIN text = 1 .. L
  BY TextFacts
<1>2. pos = [k \in 0 .. L |-> IF k = 0 THEN 0 ELSE BestBreak(text, pos[k - 1])]
  <2>1. \E f : f = [k \in 0 .. L |-> IF k = 0 THEN 0 ELSE BestBreak(text, f[k - 1])]
    BY <1>1, PositionsExist DEF Positions
  <2> QED
    BY <2>1
<1>3. SoftCut(text) =
         Concat([k \in DOMAIN text |->
            IF Strip(SubSeq(text, pos[k - 1] + 1, pos[k])) = <<>> THEN <<>>
            ELSE <<Strip(SubSeq(text, pos[k - 1] + 1, pos[k]))>>])
  BY DEF SoftCut
<1> HIDE DEF pos, L
<1>4. pos[0] = 0 /\ \A k \in 1 .. L : pos[k] = BestBreak(text, pos[k - 1])
  <2>1. \A k \in 0 .. L : pos[k] = IF k = 0 THEN 0 ELSE BestBreak(text, pos[k - 1])
    BY <1>2
  <2>2. 0 \in 0 .. L /\ \A k \in 1 .. L : k \in 0 .. L /\ k # 0
    BY <1>1
  <2> QED
    BY <2>1, <2>2
<1> DEFINE Fits(n) == pos[n] \in 0 .. L /\ (pos[n] >= n \/ pos[n] = L)
           N == {n \in Nat : n <= L => Fits(n)}
<1>5. 0 \in N
  BY <1>1, <1>4
<1>6. ASSUME NEW n \in Nat, n \in N PROVE n + 1 \in N
  <2> SUFFICES ASSUME n + 1 <= L PROVE Fits(n + 1)
    OBVIOUS
  <2>1. Fits(n) /\ n + 1 \in 1 .. L /\ (n + 1) - 1 = n
    BY <1>1, <1>6
  <2>2. pos[n + 1] = BestBreak(text, pos[n])
    BY <1>4, <2>1
  <2>3. /\ pos[n + 1] \in pos[n] .. L
        /\ pos[n] < L => pos[n] < pos[n + 1]
    BY <2>1, <2>2, BestBreakBounds DEF L
  <2> QED
    BY <1>1, <2>1, <2>3
<1>7. \A n \in Nat : n \in N
  <2> HIDE DEF N
  <2> QED
    BY <1>5, <1>6, SetInduction
<1>8. \A n \in 0 .. L : Fits(n)
  BY <1>1, <1>7
<1>9. pos[L] = L
  <2>1. Fits(L)
    BY <1>1, <1>8
  <2> QED
    BY <1>1, <2>1
<1>10. ASSUME NEW k \in 1 .. L PROVE pos[k - 1] <= pos[k] /\ pos[k] - pos[k - 1] <= Longest
  <2>1. k - 1 \in 0 .. L
    BY <1>1
  <2>2. pos[k - 1] \in 0 .. Len(text)
    BY <1>8, <2>1 DEF L
  <2>3. /\ BestBreak(text, pos[k - 1]) \in pos[k - 1] .. Len(text)
        /\ BestBreak(text, pos[k - 1]) - pos[k - 1] <= Longest
    BY <2>2, BestBreakBounds
  <2> QED
    BY <1>1, <1>4, <2>2, <2>3 DEF L
<1>11. ASSUME NEW k \in 0 .. L, NEW l \in 0 .. L, k <= l PROVE pos[k] <= pos[l]
  <2> DEFINE M == {n \in Nat : k + n <= L => pos[k] <= pos[k + n]}
  <2>1. 0 \in M
    BY <1>1, <1>8
  <2>2. ASSUME NEW n \in Nat, n \in M PROVE n + 1 \in M
    <3> SUFFICES ASSUME k + (n + 1) <= L PROVE pos[k] <= pos[k + (n + 1)]
      OBVIOUS
    <3>1. /\ k + n <= L /\ k + n \in 0 .. L /\ k + (n + 1) \in 1 .. L
          /\ (k + (n + 1)) - 1 = k + n /\ k + (n + 1) \in 0 .. L
      BY <1>1
    <3>2. pos[k + n] <= pos[k + (n + 1)]
      BY <1>10, <3>1
    <3>3. pos[k] <= pos[k + n]
      BY <2>2, <3>1
    <3>4. pos[k] \in 0 .. L /\ pos[k + n] \in 0 .. L /\ pos[k + (n + 1)] \in 0 .. L
      BY <1>8, <3>1
    <3> QED
      BY <1>1, <3>2, <3>3, <3>4
  <2>3. l - k \in M
    <3> HIDE DEF M
    <3>1. l - k \in Nat
      BY <1>1, <1>11
    <3> QED
      BY <2>1, <2>2, <3>1, SetInduction
  <2>4. k + (l - k) = l
    BY <1>1
  <2> QED
    BY <1>1, <2>3, <2>4
<1>12. pos \in [0 .. L -> 0 .. L]
  BY <1>2, <1>8
<1>13. SoftCut(text) =
         Concat([k \in 1 .. L |->
            IF Strip(SubSeq(text, pos[k - 1] + 1, pos[k])) = <<>> THEN <<>>
            ELSE <<Strip(SubSeq(text, pos[k - 1] + 1, pos[k]))>>])
  BY <1>1, <1>3
<1> HIDE DEF Fits, N
<1> QED
  BY <1>4, <1>9, <1>10, <1>11, <1>12, <1>13 DEF L

\* With breakpoints, what is left between two cuts when it is stripped.
LEMMA SoftCutPlaces ==
  ASSUME NEW text \in Text
  PROVE  /\ SoftCut(text) \in Seq(Text)
         /\ \E from, to : Places(text, SoftCut(text), from, to)
<1> DEFINE L == Len(text)
<1>1. L \in Nat /\ DOMAIN text = 1 .. L /\ Solid(text) \subseteq 1 .. L
      /\ Longest \in Nat
  BY TextFacts, Sizes DEF Longest
<1>2. PICK pos : /\ pos \in [0 .. L -> 0 .. L]
                 /\ pos[0] = 0 /\ pos[L] = L
                 /\ \A k \in 1 .. L : /\ pos[k - 1] <= pos[k]
                                      /\ pos[k] - pos[k - 1] <= Longest
                 /\ \A k, l \in 0 .. L : k <= l => pos[k] <= pos[l]
                 /\ SoftCut(text) =
                      Concat([k \in 1 .. L |->
                         IF Strip(SubSeq(text, pos[k - 1] + 1, pos[k])) = <<>> THEN <<>>
                         ELSE <<Strip(SubSeq(text, pos[k - 1] + 1, pos[k]))>>])
  BY CutPositions
<1> DEFINE u(k) == SubSeq(text, pos[k - 1] + 1, pos[k])
           a(k) == Min(Solid(u(k))) + (pos[k - 1] + 1) - 1
           b(k) == Max(Solid(u(k))) + (pos[k - 1] + 1) - 1
           seqs == [k \in 1 .. L |-> IF Strip(u(k)) = <<>> THEN <<>> ELSE <<Strip(u(k))>>]
<1>3. ASSUME NEW k \in 1 .. L
      PROVE  /\ pos[k - 1] \in 0 .. L /\ pos[k] \in 0 .. L /\ pos[k - 1] <= pos[k]
             /\ pos[k] - pos[k - 1] <= Longest
             /\ Strip(u(k)) \in Text
             /\ Strip(u(k)) # <<>> =>
                   /\ a(k) \in pos[k - 1] + 1 .. pos[k] /\ b(k) \in a(k) .. pos[k]
                   /\ Strip(u(k)) = SubSeq(text, a(k), b(k))
             /\ \A i \in pos[k - 1] + 1 .. pos[k] :
                   ~IsWhite(text[i]) => Strip(u(k)) # <<>> /\ i \in a(k) .. b(k)
  <2>1. k - 1 \in 0 .. L /\ k \in 0 .. L
    BY <1>1
  <2>2. pos[k - 1] \in 0 .. L /\ pos[k] \in 0 .. L /\ pos[k - 1] <= pos[k]
        /\ pos[k] - pos[k - 1] <= Longest
    BY <1>2, <2>1
  <2> DEFINE m == pos[k - 1] + 1
             n == pos[k]
  <2>3. m \in 1 .. Len(text) + 1 /\ n \in 0 .. Len(text) /\ m <= n + 1
    BY <1>1, <2>2
  <2> HIDE DEF m, n
  <2>4. LET v == SubSeq(text, m, n)
            c == Min(Solid(v)) + m - 1
            d == Max(Solid(v)) + m - 1
        IN  /\ Strip(v) \in Text
            /\ Strip(v) = <<>> <=> Solid(v) = {}
            /\ Solid(v) # {} =>
                  c \in m .. n /\ d \in c .. n /\ Strip(v) = SubSeq(text, c, d)
            /\ \A i \in m .. n : ~IsWhite(text[i]) =>
                  Solid(v) # {} /\ i \in c .. d
    BY <2>3, StripOfPart
  <2> QED
    BY <2>2, <2>4 DEF m, n
<1>4. /\ SoftCut(text) = Concat(seqs) /\ Len(seqs) = L /\ DOMAIN seqs = 1 .. L
      /\ \A k \in 1 .. L : seqs[k] = IF Strip(u(k)) = <<>> THEN <<>> ELSE <<Strip(u(k))>>
  <2>1. SoftCut(text) = Concat(seqs)
    BY <1>2
  <2> QED
    BY <1>1, <2>1
<1>5. seqs \in Seq(Seq(Text)) /\ \A k \in DOMAIN seqs : Len(seqs[k]) <= 1
  <2>1. ASSUME NEW k \in 1 .. L
        PROVE  (IF Strip(u(k)) = <<>> THEN <<>> ELSE <<Strip(u(k))>>) \in Seq(Text)
               /\ Len(IF Strip(u(k)) = <<>> THEN <<>> ELSE <<Strip(u(k))>>) <= 1
    <3> DEFINE s == Strip(u(k))
    <3>1. s \in Text
      BY <1>3
    <3> HIDE DEF s
    <3>2. /\ (IF s = <<>> THEN <<>> ELSE <<s>>) \in Seq(Text)
          /\ Len(IF s = <<>> THEN <<>> ELSE <<s>>) <= 1
      <4>1. CASE s = <<>>
        BY <4>1
      <4>2. CASE s # <<>>
        BY <3>1, <4>2
      <4> QED
        BY <4>1, <4>2
    <3> QED
      BY <3>2 DEF s
  <2>2. \A k \in 1 .. L : seqs[k] \in Seq(Text)
    <3> HIDE DEF seqs, u
    <3> QED
      BY <1>4, <2>1
  <2>3. \A k \in 1 .. L : Len(seqs[k]) <= 1
    <3> HIDE DEF seqs, u
    <3> QED
      BY <1>4, <2>1
  <2>4. seqs \in [1 .. L -> Seq(Seq(Char))]
    BY <2>2 DEF Text
  <2> HIDE DEF seqs, u
  <2> QED
    BY <1>1, <1>4, <2>3, <2>2, <2>4 DEF Text
<1> DEFINE C == SoftCut(text)
<1>6. C \in Seq(Text)
  <2> HIDE DEF seqs
  <2> QED
    BY <1>4, <1>5, ConcatSet
<1>7. PICK place : Selected(C, seqs, L, place)
  <2> HIDE DEF seqs
  <2> QED
    BY <1>4, <1>5, ConcatSelects
<1> HIDE DEF C
<1> DEFINE from == [j \in 1 .. Len(C) |-> a(place[j])]
           to == [j \in 1 .. Len(C) |-> b(place[j])]
<1>8. ASSUME NEW j \in 1 .. Len(C)
      PROVE  /\ place[j] \in 1 .. L
             /\ C[j] = SubSeq(text, from[j], to[j])
             /\ from[j] \in pos[place[j] - 1] + 1 .. pos[place[j]]
             /\ to[j] \in from[j] .. pos[place[j]]
             /\ from[j] = a(place[j]) /\ to[j] = b(place[j])
  <2>1. place[j] \in 1 .. L /\ seqs[place[j]] # <<>> /\ C[j] = seqs[place[j]][1]
    BY <1>7 DEF Selected
  <2>2. from[j] = a(place[j]) /\ to[j] = b(place[j])
    OBVIOUS
  <2> HIDE DEF seqs, a, b, u, from, to
  <2>3. Strip(u(place[j])) # <<>> /\ C[j] = Strip(u(place[j]))
    <3>1. seqs[place[j]] = IF Strip(u(place[j])) = <<>> THEN <<>> ELSE <<Strip(u(place[j]))>>
      BY <1>4, <2>1
    <3>2. Strip(u(place[j])) # <<>>
      BY <2>1, <3>1
    <3>3. seqs[place[j]] = <<Strip(u(place[j]))>>
      BY <3>1, <3>2
    <3> QED
      BY <2>1, <3>2, <3>3
  <2> QED
    BY <1>3, <2>1, <2>2, <2>3
<1> HIDE DEF from, to, a, b, u, seqs
<1>9. ASSUME NEW j \in 1 .. Len(C)
      PROVE  /\ from[j] \in 1 .. L /\ to[j] \in 1 .. L /\ from[j] <= to[j]
             /\ to[j] - from[j] < Longest
  <2>1. /\ place[j] \in 1 .. L
        /\ pos[place[j] - 1] \in 0 .. L /\ pos[place[j]] \in 0 .. L
        /\ pos[place[j]] - pos[place[j] - 1] <= Longest
    BY <1>3, <1>8
  <2> DEFINE p == pos[place[j] - 1]
             q == pos[place[j]]
  <2>2. p \in 0 .. L /\ q \in 0 .. L /\ q - p <= Longest /\ from[j] \in p + 1 .. q /\ to[j] \in from[j] .. q
    BY <1>8, <2>1
  <2> HIDE DEF p, q
  <2> QED
    BY <1>1, <2>2
<1>10. ASSUME NEW j \in 1 .. Len(C), NEW l \in 1 .. Len(C), j < l
       PROVE  from[j] < from[l] /\ to[j] <= to[l] /\ to[j] < from[l]
  <2>1. place[j] \in 1 .. L /\ place[l] \in 1 .. L /\ place[j] < place[l]
    BY <1>7, <1>8, <1>10 DEF Selected
  <2>2. place[j] \in 0 .. L /\ place[l] - 1 \in 0 .. L /\ place[j] <= place[l] - 1
    BY <1>1, <2>1
  <2>3. pos[place[j]] <= pos[place[l] - 1] /\ pos[place[j]] \in 0 .. L /\ pos[place[l] - 1] \in 0 .. L
    BY <1>2, <2>2
  <2> DEFINE p == pos[place[j]]
             q == pos[place[l] - 1]
  <2>4. /\ p <= q /\ p \in 0 .. L /\ q \in 0 .. L /\ to[j] <= p /\ q + 1 <= from[l]
        /\ from[j] \in 1 .. L /\ to[j] \in 1 .. L /\ from[l] \in 1 .. L /\ to[l] \in 1 .. L
        /\ from[j] <= to[j] /\ from[l] <= to[l]
    <3>1. to[j] <= p /\ q + 1 <= from[l]
      <4>1. to[j] \in from[j] .. p /\ from[l] \in q + 1 .. pos[place[l]]
        BY <1>8
      <4> HIDE DEF p, q
      <4> QED
        BY <4>1
    <3> QED
      BY <1>9, <2>3, <3>1
  <2> HIDE DEF p, q
  <2> QED
    BY <1>1, <2>4
<1>11. ASSUME NEW n \in Solid(text)
       PROVE  \E j \in 1 .. Len(C) : from[j] <= n /\ n <= to[j]
  <2>1. n \in 1 .. L /\ ~IsWhite(text[n])
    BY <1>1 DEF Solid
  <2> DEFINE K == {k \in 0 .. L : n <= pos[k]}
  <2>2. L \in K /\ K \in SUBSET Nat
    BY <1>1, <1>2, <2>1
  <2>3. Min(K) \in K /\ \A k \in K : Min(K) <= k
    <3> HIDE DEF K
    <3> QED
      BY <2>2, LeastNumber
  <2> DEFINE k == Min(K)
  <2>4. k \in 0 .. L /\ n <= pos[k] /\ k # 0
    BY <1>1, <1>2, <2>1, <2>3
  <2>5. k \in 1 .. L /\ k - 1 \in 0 .. L /\ ~(k <= k - 1)
    BY <1>1, <2>4
  <2>6. ~(n <= pos[k - 1])
    BY <2>3, <2>5
  <2> HIDE DEF k
  <2>7. pos[k - 1] \in 0 .. L /\ pos[k] \in 0 .. L
    BY <1>2, <2>4, <2>5
  <2>8. n \in pos[k - 1] + 1 .. pos[k]
    BY <1>1, <2>1, <2>4, <2>6, <2>7
  <2>9. Strip(u(k)) # <<>> /\ n \in a(k) .. b(k)
    BY <1>3, <2>1, <2>5, <2>8
  <2>10. seqs[k] # <<>>
    <3>1. seqs[k] = <<Strip(u(k))>>
      BY <1>4, <2>5, <2>9
    <3> QED
      BY <3>1
  <2>11. PICK j \in 1 .. Len(C) : place[j] = k
    BY <1>7, <2>5, <2>10 DEF Selected
  <2>12. from[j] = a(k) /\ to[j] = b(k)
    BY <1>8, <2>11
  <2> QED
    BY <2>9, <2>11, <2>12
<1>12. Places(text, C, from, to)
  <2>1. from \in [1 .. Len(C) -> 1 .. L] /\ to \in [1 .. Len(C) -> 1 .. L]
    <3>1. from = [j \in 1 .. Len(C) |-> from[j]] /\ to = [j \in 1 .. Len(C) |-> to[j]]
      BY DEF from, to
    <3> QED
      BY <1>9, <3>1
  <2> QED
    BY <1>8, <1>9, <1>10, <1>11, <2>1 DEF Places
<1> QED
  BY <1>6, <1>12 DEF C

\* Either way, pieces are placed in their text.
LEMMA CutPlaces ==
  ASSUME NEW text \in Text
  PROVE  /\ Cut(text) \in Seq(Text)
         /\ \E from, to : Places(text, Cut(text), from, to)
<1>1. CASE Breakpoints(text) = {}
  <2>1. Cut(text) = HardCut(text)
    BY <1>1 DEF Cut
  <2> QED
    BY <1>1, <2>1, HardCutPlaces
<1>2. CASE Breakpoints(text) # {}
  <2>1. Cut(text) = SoftCut(text)
    BY <1>2 DEF Cut
  <2> QED
    BY <2>1, SoftCutPlaces
<1> QED
  BY <1>1, <1>2

LEMMA WholeText ==
  ASSUME NEW text \in Text
  PROVE  SubSeq(text, 1, Len(text)) = text
<1>1. Len(text) \in Nat /\ 1 \in 1 .. Len(text) + 1 /\ Len(text) \in 0 .. Len(text) /\ 1 <= Len(text) + 1
  BY TextFacts
<1> DEFINE n == Len(text)
           m == 1
<1>2. n = Len(text) /\ m = 1 /\ m \in 1 .. Len(text) + 1 /\ n \in 0 .. Len(text) /\ m <= n + 1
  BY <1>1
<1> HIDE DEF n, m
<1>3. /\ SubSeq(text, m, n) \in Text
      /\ Len(SubSeq(text, m, n)) = n - m + 1
      /\ \A i \in 1 .. n - m + 1 : SubSeq(text, m, n)[i] = text[m + i - 1]
  BY <1>2, PartFacts
<1>4. n - m + 1 = Len(text) /\ \A i \in 1 .. Len(text) : m + i - 1 = i
  BY <1>1, <1>2
<1>5. Len(SubSeq(text, m, n)) = Len(text) /\ \A i \in 1 .. Len(text) : SubSeq(text, m, n)[i] = text[i]
  BY <1>3, <1>4
<1>6. SubSeq(text, m, n) = text
  BY <1>3, <1>5, SeqEqual DEF Text
<1> QED
  BY <1>2, <1>6

\* A text that is short enough is its own and only piece.
LEMMA UncutPlaces ==
  ASSUME NEW text \in Text, text # <<>>, Len(text) <= max_chars
  PROVE  \E from, to : Places(text, <<text>>, from, to)
<1> DEFINE L == Len(text)
           from == [k \in 1 .. 1 |-> 1]
           to == [k \in 1 .. 1 |-> L]
<1>1. L \in Nat /\ L # 0 /\ Solid(text) \subseteq 1 .. L
  BY TextFacts, EmptySeq DEF Text
<1>2. max_chars <= Longest /\ Longest \in Nat /\ max_chars \in Nat
  BY Sizes DEF Longest
<1>3. Len(<<text>>) = 1 /\ <<text>>[1] = text
  OBVIOUS
<1>4. \A k \in 1 .. 1 : k = 1
  OBVIOUS
<1>5. from[1] = 1 /\ to[1] = L /\ from \in [1 .. 1 -> 1 .. L] /\ to \in [1 .. 1 -> 1 .. L]
  BY <1>1
<1> DEFINE one == <<text>>
<1> HIDE DEF from, to, one
<1>6. /\ from \in [1 .. Len(one) -> 1 .. L]
      /\ to \in [1 .. Len(one) -> 1 .. L]
  BY <1>3, <1>5 DEF one
<1>7. \A k \in 1 .. Len(one) :
          /\ from[k] <= to[k] /\ to[k] - from[k] < Longest
          /\ one[k] = SubSeq(text, from[k], to[k])
  <2>1. from[1] <= to[1] /\ to[1] - from[1] < Longest
    BY <1>1, <1>2, <1>5
  <2>2. one[1] = SubSeq(text, from[1], to[1])
    BY <1>3, <1>5, WholeText DEF one
  <2> QED
    BY <1>3, <1>4, <2>1, <2>2 DEF one
<1>8. \A k, l \in 1 .. Len(one) : ~(k < l)
  BY <1>3, <1>4 DEF one
<1>9. \A n \in Solid(text) : \E k \in 1 .. Len(one) : from[k] <= n /\ n <= to[k]
  BY <1>1, <1>3, <1>5 DEF one
<1>10. Places(text, one, from, to)
  BY <1>6, <1>7, <1>8, <1>9 DEF Places
<1> QED
  BY <1>10 DEF one

-----------------------------------------------------------------------------
(* Characters that are found again                                         *)

\* The characters of a part are those between its ends.
LEMMA IdsOfPart ==
  ASSUME NEW text \in Text, NEW m \in 1 .. Len(text) + 1, NEW n \in 0 .. Len(text), m <= n + 1
  PROVE  \A i : i \in Ids(SubSeq(text, m, n))
                  <=> i # 0 /\ \E k \in Solid(text) : m <= k /\ k <= n /\ text[k].id = i
<1> DEFINE u == SubSeq(text, m, n)
<1>1. /\ Len(text) \in Nat /\ m \in Nat /\ n \in Nat /\ m >= 1 /\ n <= Len(text)
      /\ DOMAIN text = 1 .. Len(text)
  BY TextFacts
<1>2. /\ u \in Text /\ Len(u) = n - m + 1
      /\ \A i \in 1 .. n - m + 1 : u[i] = text[m + i - 1]
  BY PartFacts
<1>3. DOMAIN u = 1 .. n - m + 1
  <2> HIDE DEF u
  <2> QED
    BY <1>2, TextFacts
<1> HIDE DEF u
<1>4. ASSUME NEW i, i \in Ids(u)
      PROVE  i # 0 /\ \E k \in Solid(text) : m <= k /\ k <= n /\ text[k].id = i
  <2>1. i # 0 /\ \E j \in Solid(u) : u[j].id = i
    BY <1>4 DEF Ids
  <2>2. PICK j \in Solid(u) : u[j].id = i
    BY <2>1
  <2>3. j \in 1 .. n - m + 1 /\ ~IsWhite(u[j])
    BY <1>3 DEF Solid
  <2>4. m + j - 1 \in 1 .. Len(text) /\ m <= m + j - 1 /\ m + j - 1 <= n
    BY <1>1, <2>3
  <2>5. u[j] = text[m + j - 1]
    BY <1>2, <2>3
  <2>6. m + j - 1 \in Solid(text)
    BY <1>1, <2>3, <2>4, <2>5 DEF Solid
  <2> QED
    BY <2>1, <2>2, <2>4, <2>5, <2>6
<1>5. ASSUME NEW k \in Solid(text), m <= k, k <= n, text[k].id # 0
      PROVE  text[k].id \in Ids(u)
  <2>1. k \in 1 .. Len(text) /\ ~IsWhite(text[k])
    BY <1>1 DEF Solid
  <2>2. k - m + 1 \in 1 .. n - m + 1 /\ m + (k - m + 1) - 1 = k
    BY <1>1, <1>5, <2>1
  <2>3. u[k - m + 1] = text[k]
    <3>1. u[k - m + 1] = text[m + (k - m + 1) - 1]
      BY <1>2, <2>2
    <3> QED
      BY <2>2, <3>1
  <2>4. k - m + 1 \in Solid(u)
    BY <1>3, <2>1, <2>2, <2>3 DEF Solid
  <2> QED
    BY <1>5, <2>3, <2>4 DEF Ids
<1> QED
  BY <1>4, <1>5 DEF u

\* Pieces that are placed in a text have all its characters, and no others.
LEMMA PlacesKeepIds ==
  ASSUME NEW text \in Text, NEW texts \in Seq(Text), NEW from, NEW to,
         Places(text, texts, from, to)
  PROVE  \A i : i \in Ids(text) <=> \E k \in 1 .. Len(texts) : i \in Ids(texts[k])
<1>1. Len(text) \in Nat /\ Solid(text) \subseteq 1 .. Len(text)
  BY TextFacts
<1>2. ASSUME NEW k \in 1 .. Len(texts)
      PROVE  \A i : i \in Ids(texts[k])
                <=> i # 0 /\ \E n \in Solid(text) : from[k] <= n /\ n <= to[k] /\ text[n].id = i
  <2> DEFINE a == from[k]
             b == to[k]
  <2>1. a \in 1 .. Len(text) /\ b \in 1 .. Len(text) /\ a <= b /\ texts[k] = SubSeq(text, a, b)
    BY DEF Places
  <2> HIDE DEF a, b
  <2>2. a \in 1 .. Len(text) + 1 /\ b \in 0 .. Len(text) /\ a <= b + 1
    BY <1>1, <2>1
  <2>3. \A i : i \in Ids(texts[k])
                <=> i # 0 /\ \E n \in Solid(text) : a <= n /\ n <= b /\ text[n].id = i
    BY <2>1, <2>2, IdsOfPart
  <2> QED
    BY <2>3 DEF a, b
<1>3. ASSUME NEW i, i \in Ids(text) PROVE \E k \in 1 .. Len(texts) : i \in Ids(texts[k])
  <2>1. i # 0 /\ \E n \in Solid(text) : text[n].id = i
    BY <1>3 DEF Ids
  <2>2. PICK n \in Solid(text) : text[n].id = i
    BY <2>1
  <2>3. PICK k \in 1 .. Len(texts) : from[k] <= n /\ n <= to[k]
    BY DEF Places
  <2> QED
    BY <1>2, <2>1, <2>2, <2>3
<1>4. ASSUME NEW i, NEW k \in 1 .. Len(texts), i \in Ids(texts[k]) PROVE i \in Ids(text)
  <2>1. i # 0 /\ \E n \in Solid(text) : text[n].id = i
    BY <1>2, <1>4
  <2> QED
    BY <2>1 DEF Ids
<1> QED
  BY <1>3, <1>4

LEMMA BlankTexts ==
  ASSUME NEW text \in Text
  PROVE  /\ IsBlank(text) <=> Solid(text) = {}
         /\ IsBlank(text) => Ids(text) = {}
<1>1. CASE Solid(text) = {}
  BY <1>1 DEF IsBlank, Strip, Ids
<1>2. CASE Solid(text) # {}
  <2> DEFINE a == Min(Solid(text))
             b == Max(Solid(text))
  <2>1. a \in Solid(text) /\ b \in Solid(text) /\ a <= b
    BY <1>2, SolidEnds
  <2>2. Strip(text) = SubSeq(text, a, b)
    BY <1>2 DEF Strip
  <2> HIDE DEF a, b
  <2>3. Len(text) \in Nat /\ a \in 1 .. Len(text) /\ b \in 1 .. Len(text)
    BY <2>1, TextFacts
  <2>4. a \in 1 .. Len(text) + 1 /\ b \in 0 .. Len(text) /\ a <= b + 1
    BY <2>1, <2>3
  <2>5. Len(SubSeq(text, a, b)) = b - a + 1
    BY <2>4, PartFacts
  <2>6. Len(SubSeq(text, a, b)) \in Nat \ {0}
    BY <2>1, <2>3, <2>5
  <2>7. Strip(text) # <<>>
    BY <2>2, <2>6, NoneIsEmpty
  <2> QED
    BY <1>2, <2>7 DEF IsBlank
<1> QED
  BY <1>1, <1>2

-----------------------------------------------------------------------------
(* Pieces                                                                  *)

Piece ==
    [text : Text, page : Nat, exam : {FALSE}, heading : BOOLEAN, material : {"text", "formula"}]

LEMMA PieceText ==
  ASSUME NEW x \in Piece, NEW t \in Text
  PROVE  LET y == [x EXCEPT !.text = t]
         IN  /\ y \in Piece /\ y.text = t
             /\ y.page = x.page /\ y.exam = x.exam
             /\ y.heading = x.heading /\ y.material = x.material
  BY DEF Piece

TextsOf(list) == [k \in 1 .. Len(list) |-> list[k].text]

\* What a segment is split into.
LEMMA SplitPieces ==
  ASSUME NEW x \in Piece
  PROVE  LET cut == SplitSegment(x)
         IN  /\ cut \in Seq(Piece) /\ TextsOf(cut) \in Seq(Text)
             /\ \A k \in 1 .. Len(cut) : cut[k].page = x.page
             /\ x.text # <<>> => \E from, to : Places(x.text, TextsOf(cut), from, to)
             /\ x.text = <<>> => cut = <<x>>
<1> DEFINE cut == SplitSegment(x)
<1>1. x.text \in Text /\ x.exam = FALSE /\ Len(x.text) \in Nat /\ max_chars \in Nat
  BY TextFacts, Sizes DEF Piece
<1>2. CASE Len(x.text) <= max_chars
  <2>1. cut = <<x>>
    BY <1>2 DEF SplitSegment
  <2>2. Len(<<x>>) = 1 /\ <<x>>[1] = x /\ <<x>> \in Seq(Piece) /\ \A k \in 1 .. 1 : k = 1
    OBVIOUS
  <2>3. TextsOf(<<x>>) = <<x.text>>
    <3> DEFINE one == <<x>>
    <3>1. Len(one) = 1 /\ one[1] = x
      OBVIOUS
    <3> HIDE DEF one
    <3>2. TextsOf(one) = [k \in 1 .. 1 |-> x.text]
      BY <2>2, <3>1 DEF TextsOf
    <3>3. [k \in 1 .. 1 |-> x.text] = <<x.text>>
      OBVIOUS
    <3> QED
      BY <3>2, <3>3 DEF one
  <2>4. <<x.text>> \in Seq(Text)
    BY <1>1
  <2>5. x.text # <<>> => \E from, to : Places(x.text, TextsOf(<<x>>), from, to)
    BY <1>1, <1>2, <2>3, UncutPlaces
  <2> DEFINE one == <<x>>
  <2>6. cut = one /\ Len(one) = 1 /\ one[1] = x /\ one \in Seq(Piece)
        /\ TextsOf(one) \in Seq(Text) /\ one = <<x>>
        /\ (x.text # <<>> => \E from, to : Places(x.text, TextsOf(one), from, to))
    BY <2>1, <2>2, <2>3, <2>4, <2>5
  <2> HIDE DEF one
  <2>7. \A k \in 1 .. Len(one) : one[k].page = x.page
    BY <2>2, <2>6
  <2> QED
    BY <2>6, <2>7
<1>3. CASE ~(Len(x.text) <= max_chars)
  <2> DEFINE texts == Cut(x.text)
             list == [k \in 1 .. Len(texts) |-> [x EXCEPT !.text = texts[k]]]
  <2>1. texts \in Seq(Text) /\ \E from, to : Places(x.text, texts, from, to)
    BY <1>1, CutPlaces
  <2>2. cut = [k \in DOMAIN texts |-> [x EXCEPT !.text = texts[k]]]
    BY <1>1, <1>3 DEF SplitSegment
  <2> HIDE DEF texts
  <2>3. /\ DOMAIN texts = 1 .. Len(texts) /\ Len(texts) \in Nat
        /\ \A k \in 1 .. Len(texts) : texts[k] \in Text
    BY <2>1, LenProperties, ElementOfSeq
  <2>4. cut = list /\ Len(list) = Len(texts)
    BY <2>2, <2>3
  <2>5. \A k \in 1 .. Len(texts) :
           list[k] \in Piece /\ list[k].text = texts[k] /\ list[k].page = x.page
    <3>1. \A k \in 1 .. Len(texts) : list[k] = [x EXCEPT !.text = texts[k]]
      OBVIOUS
    <3> HIDE DEF list
    <3>2. ASSUME NEW k \in 1 .. Len(texts)
          PROVE  list[k] \in Piece /\ list[k].text = texts[k] /\ list[k].page = x.page
      <4> DEFINE t == texts[k]
      <4>1. t \in Text
        BY <2>3
      <4>2. list[k] = [x EXCEPT !.text = t]
        BY <3>1
      <4> HIDE DEF t
      <4>3. /\ [x EXCEPT !.text = t] \in Piece /\ [x EXCEPT !.text = t].text = t
            /\ [x EXCEPT !.text = t].page = x.page
        BY <4>1, PieceText
      <4> QED
        BY <4>2, <4>3 DEF t
    <3> QED
      BY <3>2
  <2>6. list \in Seq(Piece)
    <3>1. list \in [1 .. Len(texts) -> Piece]
      BY <2>5
    <3> HIDE DEF list
    <3> QED
      BY <2>3, <3>1
  <2> HIDE DEF list
  <2>7. TextsOf(list) = texts
    <3>1. texts = [k \in 1 .. Len(texts) |-> texts[k]]
      <4> HIDE DEF texts
      <4> QED
        BY <2>1, <2>3
    <3> QED
      BY <2>4, <2>5, <3>1 DEF TextsOf
  <2>8. x.text # <<>>
    <3> SUFFICES ASSUME x.text = <<>> PROVE FALSE
      OBVIOUS
    <3>1. Len(x.text) = 0
      BY <1>1, EmptySeq DEF Text
    <3> QED
      BY <1>1, <1>3, <3>1
  <2> QED
    BY <2>1, <2>4, <2>5, <2>6, <2>7, <2>8
<1> QED
  BY <1>2, <1>3

LEMMA Members ==
  ASSUME NEW S, NEW list \in Seq(S)
  PROVE  /\ Len(list) \in Nat /\ DOMAIN list = 1 .. Len(list)
         /\ \A x : x \in ToSet(list) <=> \E k \in 1 .. Len(list) : list[k] = x
         /\ ToSet(list) \subseteq S
  BY LenProperties, ElementOfSeq DEF ToSet

LEMMA SplitKeeps ==
  ASSUME NEW x \in Piece
  PROVE  /\ \A i : i \in Ids(x.text) <=> \E y \in ToSet(SplitSegment(x)) : i \in Ids(y.text)
         /\ \A y \in ToSet(SplitSegment(x)) : y.page = x.page /\ Len(y.text) <= Longest
<1> DEFINE cut == SplitSegment(x)
           texts == TextsOf(cut)
<1>1. /\ cut \in Seq(Piece) /\ texts \in Seq(Text)
      /\ \A k \in 1 .. Len(cut) : cut[k].page = x.page
      /\ x.text # <<>> => \E from, to : Places(x.text, texts, from, to)
      /\ x.text = <<>> => cut = <<x>>
  BY SplitPieces
<1>2. /\ Len(cut) \in Nat
      /\ \A y : y \in ToSet(cut) <=> \E k \in 1 .. Len(cut) : cut[k] = y
  <2> HIDE DEF cut, texts
  <2> QED
    BY <1>1, Members
<1>3. Len(texts) = Len(cut) /\ \A k \in 1 .. Len(cut) : texts[k] = cut[k].text
  <2>1. texts = [k \in 1 .. Len(cut) |-> cut[k].text]
    BY DEF TextsOf
  <2> HIDE DEF cut, texts
  <2> QED
    BY <1>2, <2>1
<1>4. x.text \in Text
  BY DEF Piece
<1> HIDE DEF cut, texts
<1>5. CASE x.text # <<>>
  <2>1. PICK from : \E to : Places(x.text, texts, from, to)
    BY <1>1, <1>5
  <2>2. PICK to : Places(x.text, texts, from, to)
    BY <2>1
  <2>3. \A i : i \in Ids(x.text) <=> \E k \in 1 .. Len(texts) : i \in Ids(texts[k])
    BY <1>1, <1>4, <2>2, PlacesKeepIds
  <2>4. ASSUME NEW k \in 1 .. Len(cut) PROVE Len(cut[k].text) <= Longest
    <3> DEFINE a == from[k]
               b == to[k]
    <3>1. /\ a \in 1 .. Len(x.text) /\ b \in 1 .. Len(x.text) /\ a <= b /\ b - a < Longest
          /\ texts[k] = SubSeq(x.text, a, b)
      BY <1>3, <2>2 DEF Places
    <3> HIDE DEF a, b
    <3>2. /\ Len(x.text) \in Nat /\ Longest \in Nat
          /\ a \in 1 .. Len(x.text) + 1 /\ b \in 0 .. Len(x.text) /\ a <= b + 1
      BY <1>4, <3>1, TextFacts, Sizes DEF Longest
    <3>3. Len(SubSeq(x.text, a, b)) = b - a + 1
      BY <1>4, <3>2, PartFacts
    <3>4. b - a + 1 <= Longest
      BY <3>1, <3>2
    <3> QED
      BY <1>3, <3>1, <3>3, <3>4
  <2> QED
    BY <1>1, <1>2, <1>3, <2>3, <2>4 DEF cut
<1>6. CASE x.text = <<>>
  <2>1. ToSet(cut) = {x}
    <3> DEFINE one == <<x>>
    <3>1. Len(one) = 1 /\ one[1] = x /\ cut = one
      BY <1>1, <1>6
    <3> HIDE DEF one
    <3>2. \A k \in 1 .. 1 : k = 1
      OBVIOUS
    <3>3. \A y : y \in ToSet(cut) <=> \E k \in 1 .. 1 : one[k] = y
      BY <1>2, <3>1, Zenon
    <3>4. 1 \in 1 .. 1
      OBVIOUS
    <3>5. \A y : y \in ToSet(cut) <=> y = x
      BY <3>1, <3>2, <3>3, <3>4, Zenon
    <3> QED
      BY <3>5
  <2>2. Len(x.text) = 0 /\ Longest \in Nat
    BY <1>4, <1>6, EmptySeq, Sizes DEF Text, Longest
  <2>3. Len(x.text) <= Longest
    BY <2>2
  <2> QED
    BY <2>1, <2>3 DEF cut
<1> QED
  BY <1>5, <1>6

\* What the pieces of a page have of its characters.
Found(list, p) == UNION {Ids(x.text) : x \in {y \in ToSet(list) : y.page = p}}

\* Splitting keeps the characters of every page.
LEMMA SplitFinds ==
  ASSUME NEW segs \in Seq(Piece)
  PROVE  /\ SplitSegments(segs) \in Seq(Piece)
         /\ \A p : Found(SplitSegments(segs), p) = Found(segs, p)
         /\ \A y \in ToSet(SplitSegments(segs)) : Len(y.text) <= Longest
<1> DEFINE seqs == [n \in DOMAIN segs |-> SplitSegment(segs[n])]
           cut == SplitSegments(segs)
<1>1. /\ Len(segs) \in Nat /\ DOMAIN segs = 1 .. Len(segs)
      /\ \A x : x \in ToSet(segs) <=> \E k \in 1 .. Len(segs) : segs[k] = x
      /\ ToSet(segs) \subseteq Piece
  BY Members
<1>2. \A n \in 1 .. Len(segs) : segs[n] \in Piece /\ segs[n] \in ToSet(segs)
  BY <1>1
<1>3. \A n \in 1 .. Len(segs) : SplitSegment(segs[n]) \in Seq(Piece)
  BY <1>2, SplitPieces
<1>4. seqs \in Seq(Seq(Piece)) /\ DOMAIN seqs = 1 .. Len(segs)
  <2>1. seqs \in [1 .. Len(segs) -> Seq(Piece)]
    BY <1>1, <1>3
  <2> HIDE DEF seqs
  <2> QED
    BY <1>1, <2>1
<1>5. cut = Concat(seqs)
  BY DEF SplitSegments
<1>6. cut \in Seq(Piece) /\ ToSet(cut) = UNION {ToSet(seqs[n]) : n \in DOMAIN seqs}
  <2> HIDE DEF seqs, cut
  <2> QED
    BY <1>4, <1>5, ConcatSet
<1>7. \A y : y \in ToSet(cut) <=> \E x \in ToSet(segs) : y \in ToSet(SplitSegment(x))
  <2>1. \A n \in 1 .. Len(segs) : seqs[n] = SplitSegment(segs[n])
    BY <1>1
  <2>2. \A y : y \in ToSet(cut) <=> \E n \in 1 .. Len(segs) : y \in ToSet(seqs[n])
    <3> HIDE DEF seqs, cut
    <3> QED
      BY <1>4, <1>6
  <2> HIDE DEF seqs, cut
  <2> QED
    BY <1>1, <2>1, <2>2
<1> HIDE DEF cut, seqs
<1>8. \A y \in ToSet(cut) : Len(y.text) <= Longest
  BY <1>1, <1>7, SplitKeeps
<1>9. ASSUME NEW p, NEW i, i \in Found(cut, p) PROVE i \in Found(segs, p)
  <2>1. PICK y \in ToSet(cut) : y.page = p /\ i \in Ids(y.text)
    BY <1>9 DEF Found
  <2>2. PICK x \in ToSet(segs) : y \in ToSet(SplitSegment(x))
    BY <1>7
  <2>3. x.page = p /\ i \in Ids(x.text)
    BY <1>1, <2>1, <2>2, SplitKeeps
  <2> QED
    BY <2>3 DEF Found
<1>10. ASSUME NEW p, NEW i, i \in Found(segs, p) PROVE i \in Found(cut, p)
  <2>1. PICK x \in ToSet(segs) : x.page = p /\ i \in Ids(x.text)
    BY <1>10 DEF Found
  <2>2. PICK y \in ToSet(SplitSegment(x)) : i \in Ids(y.text)
    BY <1>1, <2>1, SplitKeeps
  <2>3. y \in ToSet(cut) /\ y.page = p
    BY <1>1, <1>7, <2>1, <2>2, SplitKeeps
  <2> QED
    BY <2>2, <2>3 DEF Found
<1>11. ASSUME NEW p PROVE Found(cut, p) = Found(segs, p)
  <2>1. \A i : i \in Found(cut, p) <=> i \in Found(segs, p)
    BY <1>9, <1>10
  <2> QED
    BY <2>1
<1> QED
  BY <1>6, <1>8, <1>11 DEF cut

-----------------------------------------------------------------------------
(* Merging                                                                 *)

LEMMA JoinedTexts ==
  ASSUME NEW a \in Text, NEW b \in Text
  PROVE  /\ a \o b \in Text /\ Len(a \o b) = Len(a) + Len(b)
         /\ Solid(a \o b) = {} <=> Solid(a) = {} /\ Solid(b) = {}
         /\ Ids(a \o b) = Ids(a) \cup Ids(b)
<1>1. /\ a \o b \in Text
      /\ Len(a \o b) = Len(a) + Len(b)
      /\ \A i \in 1 .. Len(a) + Len(b) : (a \o b)[i] = IF i <= Len(a) THEN a[i] ELSE b[i - Len(a)]
  BY ConcatProperties DEF Text
<1>2. /\ Len(a) \in Nat /\ DOMAIN a = 1 .. Len(a)
      /\ Len(b) \in Nat /\ DOMAIN b = 1 .. Len(b)
  BY TextFacts
<1>3. DOMAIN (a \o b) = 1 .. Len(a) + Len(b)
  BY <1>1, TextFacts
<1>4. ASSUME NEW n \in Solid(a) PROVE n \in Solid(a \o b) /\ (a \o b)[n] = a[n]
  <2>1. n \in 1 .. Len(a) /\ ~IsWhite(a[n])
    BY <1>2 DEF Solid
  <2>2. n \in 1 .. Len(a) + Len(b) /\ n <= Len(a)
    BY <1>2, <2>1
  <2> QED
    BY <1>1, <1>3, <2>1, <2>2 DEF Solid
<1>5. ASSUME NEW n \in Solid(b) PROVE n + Len(a) \in Solid(a \o b) /\ (a \o b)[n + Len(a)] = b[n]
  <2>1. n \in 1 .. Len(b) /\ ~IsWhite(b[n])
    BY <1>2 DEF Solid
  <2>2. n + Len(a) \in 1 .. Len(a) + Len(b) /\ ~(n + Len(a) <= Len(a)) /\ (n + Len(a)) - Len(a) = n
    BY <1>2, <2>1
  <2>3. (a \o b)[n + Len(a)] = b[n]
    BY <1>1, <2>2
  <2> QED
    BY <1>3, <2>1, <2>2, <2>3 DEF Solid
<1>6. ASSUME NEW n \in Solid(a \o b)
      PROVE  \/ n \in Solid(a) /\ (a \o b)[n] = a[n]
             \/ n - Len(a) \in Solid(b) /\ (a \o b)[n] = b[n - Len(a)]
  <2>1. n \in 1 .. Len(a) + Len(b) /\ ~IsWhite((a \o b)[n])
    BY <1>3 DEF Solid
  <2>2. CASE n <= Len(a)
    <3>1. n \in 1 .. Len(a)
      BY <1>2, <2>1, <2>2
    <3> QED
      BY <1>1, <1>2, <2>1, <2>2, <3>1 DEF Solid
  <2>3. CASE ~(n <= Len(a))
    <3>1. n - Len(a) \in 1 .. Len(b)
      BY <1>2, <2>1, <2>3
    <3> QED
      BY <1>1, <1>2, <2>1, <2>3, <3>1 DEF Solid
  <2> QED
    BY <2>2, <2>3
<1>7. Solid(a \o b) = {} <=> Solid(a) = {} /\ Solid(b) = {}
  BY <1>4, <1>5, <1>6
<1> DEFINE c == a \o b
<1> HIDE DEF c
<1>8. \A i : i \in Ids(c) <=> i # 0 /\ \E n \in Solid(c) : c[n].id = i
  BY DEF Ids
<1>9. \A i : i \in Ids(a) <=> i # 0 /\ \E n \in Solid(a) : a[n].id = i
  BY DEF Ids
<1>10. \A i : i \in Ids(b) <=> i # 0 /\ \E n \in Solid(b) : b[n].id = i
  BY DEF Ids
<1>11. ASSUME NEW i, i \in Ids(c) PROVE i \in Ids(a) \/ i \in Ids(b)
  <2>1. PICK n \in Solid(c) : c[n].id = i
    BY <1>8, <1>11
  <2>2. i # 0
    BY <1>8, <1>11
  <2> QED
    BY <1>6, <1>9, <1>10, <2>1, <2>2 DEF c
<1>12. ASSUME NEW i, i \in Ids(a) PROVE i \in Ids(c)
  <2>1. PICK n \in Solid(a) : a[n].id = i
    BY <1>9, <1>12
  <2>2. i # 0 /\ n \in Solid(c) /\ c[n] = a[n]
    BY <1>4, <1>9, <1>12 DEF c
  <2> QED
    BY <1>8, <2>1, <2>2
<1>13. ASSUME NEW i, i \in Ids(b) PROVE i \in Ids(c)
  <2>1. PICK n \in Solid(b) : b[n].id = i
    BY <1>10, <1>13
  <2>2. i # 0 /\ n + Len(a) \in Solid(c) /\ c[n + Len(a)] = b[n]
    BY <1>5, <1>10, <1>13 DEF c
  <2> QED
    BY <1>8, <2>1, <2>2
<1>14. Ids(c) = Ids(a) \cup Ids(b)
  <2>1. \A i : i \in Ids(c) <=> i \in Ids(a) \cup Ids(b)
    BY <1>11, <1>12, <1>13
  <2> QED
    BY <2>1
<1> QED
  BY <1>1, <1>7, <1>14 DEF c

\* What stands between two formulas, or between two other pieces.
LEMMA Separators ==
  /\ <<>> \in Text /\ Len(<<>>) = 0 /\ Solid(<<>>) = {} /\ Ids(<<>>) = {}
  /\ <<Newline>> \in Text /\ Len(<<Newline>>) = 1 /\ Solid(<<Newline>>) = {} /\ Ids(<<Newline>>) = {}
<1>1. Newline \in Char /\ IsWhite(Newline)
  BY DEF Newline, Char, Class, IsWhite
<1> DEFINE one == <<Newline>>
<1>2. one \in Seq(Char) /\ Len(one) = 1 /\ DOMAIN one = 1 .. 1 /\ one[1] = Newline
  BY <1>1
<1>3. \A n \in 1 .. 1 : n = 1
  OBVIOUS
<1> HIDE DEF one
<1>4. Solid(one) = {}
  BY <1>1, <1>2, <1>3 DEF Solid
<1>5. Ids(one) = {}
  BY <1>4 DEF Ids
<1>6. <<>> \in Text /\ Len(<<>>) = 0 /\ Solid(<<>>) = {} /\ Ids(<<>>) = {}
  BY DEF Text, Solid, Ids
<1> QED
  BY <1>2, <1>4, <1>5, <1>6 DEF one, Text

\* A join has the characters of both pieces, and one more at most.
LEMMA JoinedPieces ==
  ASSUME NEW x \in Piece, NEW y \in Piece, x.material = y.material
  PROVE  LET z == Joined(x, y)
         IN  /\ z \in Piece /\ z.page = x.page /\ z.heading = x.heading /\ z.material = x.material
             /\ Len(x.text) + Len(y.text) <= Len(z.text)
             /\ Len(z.text) <= Len(x.text) + Len(y.text) + 1
             /\ IsBlank(z.text) <=> IsBlank(x.text) /\ IsBlank(y.text)
             /\ Ids(z.text) = Ids(x.text) \cup Ids(y.text)
<1> DEFINE s == IF x.material = "formula" THEN <<Newline>> ELSE <<>>
           z == Joined(x, y)
<1>1. s \in Text /\ Len(s) \in 0 .. 1 /\ Solid(s) = {} /\ Ids(s) = {}
  BY Separators
<1>2. x.text \in Text /\ y.text \in Text
  BY DEF Piece
<1>3. z = [x EXCEPT !.text = (x.text \o s) \o y.text]
  BY DEF Joined
<1> HIDE DEF s, z
<1>4. /\ x.text \o s \in Text /\ Len(x.text \o s) = Len(x.text) + Len(s)
      /\ Solid(x.text \o s) = {} <=> Solid(x.text) = {} /\ Solid(s) = {}
      /\ Ids(x.text \o s) = Ids(x.text) \cup Ids(s)
  BY <1>1, <1>2, JoinedTexts
<1> DEFINE t == x.text \o s
           u == t \o y.text
<1>5. t \in Text
  BY <1>4
<1> HIDE DEF t
<1>6. /\ u \in Text /\ Len(u) = Len(t) + Len(y.text)
      /\ Solid(u) = {} <=> Solid(t) = {} /\ Solid(y.text) = {}
      /\ Ids(u) = Ids(t) \cup Ids(y.text)
  BY <1>2, <1>5, JoinedTexts
<1> HIDE DEF u
<1>7. z = [x EXCEPT !.text = u]
  BY <1>3 DEF t, u
<1>8. /\ z \in Piece /\ z.text = u /\ z.page = x.page /\ z.heading = x.heading /\ z.material = x.material
  BY <1>6, <1>7, PieceText
<1>9. Len(x.text) \in Nat /\ Len(y.text) \in Nat
  BY <1>2, TextFacts
<1>10. Len(u) = Len(x.text) + Len(s) + Len(y.text)
  BY <1>4, <1>6 DEF t
<1>11. Len(x.text) + Len(y.text) <= Len(u) /\ Len(u) <= Len(x.text) + Len(y.text) + 1
  <2> DEFINE a == Len(x.text)
             b == Len(y.text)
             c == Len(s)
             d == Len(u)
  <2>1. a \in Nat /\ b \in Nat /\ c \in 0 .. 1 /\ d = a + c + b
    BY <1>1, <1>9, <1>10
  <2> HIDE DEF a, b, c, d
  <2>2. a + b <= d /\ d <= a + b + 1
    BY <2>1
  <2> QED
    BY <2>2 DEF a, b, d
<1>12. Ids(u) = Ids(x.text) \cup Ids(y.text)
  BY <1>1, <1>4, <1>6 DEF t
<1>13. IsBlank(u) <=> IsBlank(x.text) /\ IsBlank(y.text)
  <2>1. Solid(u) = {} <=> Solid(x.text) = {} /\ Solid(y.text) = {}
    BY <1>1, <1>4, <1>6 DEF t
  <2> QED
    BY <1>2, <1>6, <2>1, BlankTexts
<1> QED
  BY <1>8, <1>11, <1>12, <1>13 DEF z

\* A blank piece that is dropped has no characters.
LEMMA KeptPieces ==
  ASSUME NEW list \in Seq(Piece), NEW x \in Piece
  PROVE  /\ list \o Kept(x) \in Seq(Piece)
         /\ \A p, i : i \in Found(list \o Kept(x), p)
                        <=> i \in Found(list, p) \/ (x.page = p /\ i \in Ids(x.text))
         /\ ToSet(list \o Kept(x)) \subseteq ToSet(list) \cup {x}
<1>1. x.text \in Text
  BY DEF Piece
<1>2. CASE IsBlank(x.text)
  <2>1. Kept(x) = <<>>
    BY <1>2 DEF Kept
  <2>2. list \o Kept(x) = list
    BY <2>1, ConcatEmptySeq
  <2>3. Ids(x.text) = {}
    BY <1>1, <1>2, BlankTexts
  <2> QED
    BY <2>2, <2>3
<1>3. CASE ~IsBlank(x.text)
  <2> DEFINE one == <<x>>
  <2>1. Kept(x) = one /\ one \in Seq(Piece) /\ Len(one) = 1 /\ one[1] = x
    BY <1>3 DEF Kept
  <2> HIDE DEF one
  <2>2. \A y : y \in ToSet(one) <=> y = x
    <3>1. \A y : y \in ToSet(one) <=> \E k \in 1 .. 1 : one[k] = y
      BY <2>1, Members
    <3>2. 1 \in 1 .. 1 /\ \A k \in 1 .. 1 : k = 1
      OBVIOUS
    <3> QED
      BY <2>1, <3>1, <3>2, Zenon
  <2>3. list \o one \in Seq(Piece) /\ ToSet(list \o one) = ToSet(list) \cup ToSet(one)
    BY <2>1, JoinedSet
  <2>4. \A y : y \in ToSet(list \o one) <=> y \in ToSet(list) \/ y = x
    BY <2>2, <2>3
  <2>5. ASSUME NEW p, NEW i
        PROVE  i \in Found(list \o one, p) <=> i \in Found(list, p) \/ (x.page = p /\ i \in Ids(x.text))
    BY <2>4 DEF Found
  <2> QED
    BY <2>1, <2>3, <2>4, <2>5
<1> QED
  BY <1>2, <1>3

Merges(f, n, raw) ==
    f = [k \in 1 .. n |-> IF k = 1 THEN [done |-> <<>>, buffer |-> raw[1]]
                                   ELSE MergeNext(f[k - 1], raw[k])]

\* The recursive function of MergeShortChunks exists, up to any number.
LEMMA MergesExist ==
  ASSUME NEW raw, NEW n \in Nat
  PROVE  \E f : Merges(f, n, raw)
<1> DEFINE first == [done |-> <<>>, buffer |-> raw[1]]
           S == {m \in Nat : \E f : Merges(f, m, raw)}
<1>1. 0 \in S
  <2> DEFINE g == [k \in 1 .. 0 |-> 0]
  <2>1. g = [k \in 1 .. 0 |-> IF k = 1 THEN first ELSE MergeNext(g[k - 1], raw[k])]
    OBVIOUS
  <2>2. Merges(g, 0, raw)
    BY <2>1 DEF Merges
  <2> QED
    BY <2>2
<1>2. ASSUME NEW m \in Nat, m \in S PROVE m + 1 \in S
  <2>1. PICK f : Merges(f, m, raw)
    BY <1>2
  <2> DEFINE g == [k \in 1 .. m + 1 |->
                     IF k = 1 THEN first
                     ELSE IF k = m + 1 THEN MergeNext(f[m], raw[m + 1]) ELSE f[k]]
  <2>2. \A k \in 1 .. m : f[k] = IF k = 1 THEN first ELSE MergeNext(f[k - 1], raw[k])
    BY <2>1 DEF Merges
  <2> HIDE DEF first
  <2>3. ASSUME NEW k \in 1 .. m PROVE g[k] = f[k]
    <3>1. k \in 1 .. m + 1 /\ k # m + 1
      OBVIOUS
    <3>2. g[k] = IF k = 1 THEN first ELSE f[k]
      BY <3>1
    <3>3. k = 1 => f[k] = first
      BY <2>2
    <3> HIDE DEF g
    <3> QED
      BY <3>2, <3>3
  <2>4. ASSUME NEW k \in 1 .. m + 1
        PROVE  g[k] = IF k = 1 THEN first ELSE MergeNext(g[k - 1], raw[k])
    <3>1. CASE k = 1
      BY <3>1
    <3>2. CASE k = m + 1 /\ k # 1
      <4>1. m \in 1 .. m /\ m + 1 \in 1 .. m + 1 /\ m + 1 # 1 /\ (m + 1) - 1 = m
        BY <3>2
      <4>2. g[m] = f[m]
        BY <2>3, <4>1
      <4>3. g[m + 1] = MergeNext(f[m], raw[m + 1])
        BY <4>1
      <4> HIDE DEF g
      <4> QED
        BY <3>2, <4>1, <4>2, <4>3
    <3>3. CASE k \in 1 .. m /\ k # 1
      <4>1. k - 1 \in 1 .. m
        BY <3>3
      <4>2. g[k] = f[k] /\ g[k - 1] = f[k - 1]
        BY <2>3, <3>3, <4>1
      <4> HIDE DEF g
      <4> QED
        BY <2>2, <3>3, <4>2
    <3> QED
      BY <3>1, <3>2, <3>3
  <2>5. Merges(g, m + 1, raw)
    <3>1. g = [k \in 1 .. m + 1 |-> g[k]]
      OBVIOUS
    <3> HIDE DEF g
    <3> QED
      BY <2>4, <3>1 DEF Merges, first
  <2> QED
    BY <2>5
<1> HIDE DEF S
<1>3. n \in S
  BY <1>1, <1>2, SetInduction
<1> QED
  BY <1>3 DEF S

\* The equations of MergeShortChunks.
LEMMA MergeSteps ==
  ASSUME NEW raw \in Seq(Piece), raw # <<>>
  PROVE  \E f : /\ f[1] = [done |-> <<>>, buffer |-> raw[1]]
                /\ \A k \in 2 .. Len(raw) : f[k] = MergeNext(f[k - 1], raw[k])
                /\ MergeShortChunks(raw) = f[Len(raw)].done \o Kept(f[Len(raw)].buffer)
<1> DEFINE L == Len(raw)
           state == CHOOSE f : f = [k \in 1 .. L |->
                       IF k = 1 THEN [done |-> <<>>, buffer |-> raw[1]]
                                ELSE MergeNext(f[k - 1], raw[k])]
<1>1. L \in Nat /\ L # 0 /\ DOMAIN raw = 1 .. L
  BY Members, EmptySeq
<1>2. state = [k \in 1 .. L |-> IF k = 1 THEN [done |-> <<>>, buffer |-> raw[1]]
                                ELSE MergeNext(state[k - 1], raw[k])]
  <2>1. \E f : f = [k \in 1 .. L |-> IF k = 1 THEN [done |-> <<>>, buffer |-> raw[1]]
                                    ELSE MergeNext(f[k - 1], raw[k])]
    BY <1>1, MergesExist DEF Merges
  <2> QED
    BY <2>1
<1>3. MergeShortChunks(raw) = state[L].done \o Kept(state[L].buffer)
  <2> DEFINE other == CHOOSE f : f = [k \in DOMAIN raw |->
                        IF k = 1 THEN [done |-> <<>>, buffer |-> raw[1]]
                                 ELSE MergeNext(f[k - 1], raw[k])]
  <2>1. other = state
    BY <1>1
  <2>2. MergeShortChunks(raw) = other[L].done \o Kept(other[L].buffer)
    BY DEF MergeShortChunks
  <2> HIDE DEF other, state
  <2> QED
    BY <2>1, <2>2
<1> HIDE DEF state
<1>4. \A k \in 1 .. L : state[k] = IF k = 1 THEN [done |-> <<>>, buffer |-> raw[1]]
                                   ELSE MergeNext(state[k - 1], raw[k])
  BY <1>2
<1>5. 1 \in 1 .. L /\ \A k \in 2 .. L : k \in 1 .. L /\ k # 1
  BY <1>1
<1>6. state[1] = [done |-> <<>>, buffer |-> raw[1]]
  BY <1>4, <1>5
<1>7. \A k \in 2 .. L : state[k] = MergeNext(state[k - 1], raw[k])
  BY <1>4, <1>5
<1> QED
  BY <1>3, <1>6, <1>7

MergeState == [done : Seq(Piece), buffer : Piece]

\* The maximum and a newline, or where cuts go to.
Largest == IF max_chars + 1 >= 2 * target_chars THEN max_chars + 1 ELSE 2 * target_chars

Holds(state, p, i) ==
    i \in Found(state.done, p) \/ (state.buffer.page = p /\ i \in Ids(state.buffer.text))

Small(state) ==
    /\ \A y \in ToSet(state.done) : Len(y.text) <= Largest
    /\ Len(state.buffer.text) <= Largest

\* No two neighbours, the buffer being the last, could have been merged.
Apart(state) ==
    LET done == state.done
    IN  /\ \A n \in 1 .. Len(done) : n > 1 => ~MayMerge(done[n - 1], done[n])
        /\ Len(done) > 0 => ~MayMerge(done[Len(done)], state.buffer)
        /\ ~IsBlank(state.buffer.text)

\* One more piece: its characters are in the result or in the buffer.
LEMMA MergeNextKeeps ==
  ASSUME NEW state \in MergeState, NEW x \in Piece
  PROVE  LET next == MergeNext(state, x)
         IN  /\ next \in MergeState
             /\ \A p, i : Holds(next, p, i) <=> Holds(state, p, i) \/ (x.page = p /\ i \in Ids(x.text))
             /\ Small(state) /\ Len(x.text) <= Longest => Small(next)
<1> DEFINE b == state.buffer
           d == state.done
           next == MergeNext(state, x)
<1>1. b \in Piece /\ d \in Seq(Piece) /\ state = [done |-> d, buffer |-> b]
  BY DEF MergeState
<1>2. Len(b.text) \in Nat /\ Len(x.text) \in Nat
  BY <1>1, TextFacts DEF Piece
<1>3. /\ Longest \in Nat /\ Largest \in Nat /\ Longest <= Largest /\ max_chars + 1 <= Largest
      /\ max_chars \in Nat
  BY Sizes DEF Longest, Largest
<1>4. CASE MayMerge(b, x)
  <2> DEFINE z == Joined(b, x)
  <2>1. next = [state EXCEPT !.buffer = z]
    BY <1>4 DEF MergeNext
  <2>2. b.material = x.material /\ b.page = x.page /\ Len(b.text) + Len(x.text) <= max_chars
    BY <1>4 DEF MayMerge
  <2>3. /\ z \in Piece /\ z.page = b.page
        /\ Len(z.text) <= Len(b.text) + Len(x.text) + 1
        /\ Ids(z.text) = Ids(b.text) \cup Ids(x.text)
    <3> HIDE DEF b
    <3> QED
      BY <1>1, <2>2, JoinedPieces
  <2> HIDE DEF z
  <2>4. next = [done |-> d, buffer |-> z]
    <3> HIDE DEF next, b, d
    <3> QED
      BY <1>1, <2>1
  <2>5. Len(z.text) <= Largest
    <3>1. Len(z.text) \in Nat
      BY <2>3, TextFacts DEF Piece
    <3> DEFINE i == Len(b.text)
               j == Len(x.text)
               k == Len(z.text)
    <3>2. i \in Nat /\ j \in Nat /\ k \in Nat /\ i + j <= max_chars /\ k <= i + j + 1
      BY <1>2, <2>2, <2>3, <3>1
    <3> HIDE DEF i, j, k
    <3>3. k <= Largest
      BY <1>3, <3>2
    <3> QED
      BY <3>3 DEF k
  <2> HIDE DEF next, b, d
  <2>6. next.done = d /\ next.buffer = z /\ state.done = d /\ state.buffer = b
    BY <2>4, <1>1
  <2>7. next \in MergeState
    BY <1>1, <2>3, <2>4 DEF MergeState
  <2>8. ASSUME NEW p, NEW i
        PROVE  Holds(next, p, i) <=> Holds(state, p, i) \/ (x.page = p /\ i \in Ids(x.text))
    <3>1. Holds(next, p, i) <=> i \in Found(d, p) \/ (z.page = p /\ i \in Ids(z.text))
      BY <2>6 DEF Holds
    <3>2. Holds(state, p, i) <=> i \in Found(d, p) \/ (b.page = p /\ i \in Ids(b.text))
      BY <2>6 DEF Holds
    <3> QED
      BY <2>2, <2>3, <3>1, <3>2
  <2>9. Small(state) => Small(next)
    BY <2>5, <2>6 DEF Small
  <2> QED
    BY <2>7, <2>8, <2>9 DEF next
<1>5. CASE ~MayMerge(b, x)
  <2> DEFINE e == d \o Kept(b)
  <2>1. next = [done |-> e, buffer |-> x]
    BY <1>5 DEF MergeNext
  <2>2. /\ e \in Seq(Piece)
        /\ \A p, i : i \in Found(e, p) <=> i \in Found(d, p) \/ (b.page = p /\ i \in Ids(b.text))
        /\ ToSet(e) \subseteq ToSet(d) \cup {b}
    <3> HIDE DEF b, d
    <3> QED
      BY <1>1, KeptPieces
  <2> HIDE DEF next, b, d, e
  <2>3. next.done = e /\ next.buffer = x /\ state.done = d /\ state.buffer = b
    BY <2>1, <1>1
  <2>4. next \in MergeState
    BY <2>1, <2>2 DEF MergeState
  <2>5. ASSUME NEW p, NEW i
        PROVE  Holds(next, p, i) <=> Holds(state, p, i) \/ (x.page = p /\ i \in Ids(x.text))
    <3>1. Holds(next, p, i) <=> i \in Found(e, p) \/ (x.page = p /\ i \in Ids(x.text))
      BY <2>3 DEF Holds
    <3>2. Holds(state, p, i) <=> i \in Found(d, p) \/ (b.page = p /\ i \in Ids(b.text))
      BY <2>3 DEF Holds
    <3> QED
      BY <2>2, <3>1, <3>2
  <2>6. ASSUME Small(state), Len(x.text) <= Longest PROVE Small(next)
    <3>1. Len(x.text) <= Largest
      BY <1>2, <1>3, <2>6
    <3> QED
      BY <2>2, <2>3, <2>6, <3>1 DEF Small
  <2> QED
    BY <2>4, <2>5, <2>6 DEF next
<1> QED
  BY <1>4, <1>5

\* One more piece: either it is joined to the buffer, which was too long or too
\* different for the one before and still is, or it is the new buffer.
LEMMA MergeNextApart ==
  ASSUME NEW state \in MergeState, NEW x \in Piece, Apart(state), ~IsBlank(x.text)
  PROVE  Apart(MergeNext(state, x))
<1> DEFINE b == state.buffer
           d == state.done
           next == MergeNext(state, x)
<1>1. b \in Piece /\ d \in Seq(Piece) /\ state = [done |-> d, buffer |-> b] /\ Len(d) \in Nat
      /\ \A n \in 1 .. Len(d) : d[n] \in Piece
  BY Members DEF MergeState
<1>2. Len(b.text) \in Nat /\ Len(x.text) \in Nat /\ max_chars \in Nat
  BY <1>1, TextFacts, Sizes DEF Piece
<1>3. /\ \A n \in 1 .. Len(d) : n > 1 => ~MayMerge(d[n - 1], d[n])
      /\ Len(d) > 0 => ~MayMerge(d[Len(d)], b)
      /\ ~IsBlank(b.text)
  BY DEF Apart
<1>4. CASE MayMerge(b, x)
  <2> DEFINE z == Joined(b, x)
  <2>1. next = [state EXCEPT !.buffer = z]
    BY <1>4 DEF MergeNext
  <2>2. b.material = x.material /\ b.page = x.page
    BY <1>4 DEF MayMerge
  <2>3. /\ z \in Piece /\ z.page = b.page /\ z.material = b.material
        /\ Len(b.text) + Len(x.text) <= Len(z.text)
        /\ ~IsBlank(z.text)
    <3> HIDE DEF b
    <3>1. /\ z \in Piece /\ z.page = b.page /\ z.material = b.material
          /\ Len(b.text) + Len(x.text) <= Len(z.text)
          /\ IsBlank(z.text) <=> IsBlank(b.text) /\ IsBlank(x.text)
      BY <1>1, <2>2, JoinedPieces
    <3>2. ~IsBlank(b.text)
      BY <1>3
    <3> HIDE DEF z
    <3> QED
      BY <3>1, <3>2
  <2> HIDE DEF z
  <2>4. next = [done |-> d, buffer |-> z]
    <3> HIDE DEF next, b, d
    <3> QED
      BY <1>1, <2>1
  <2>5. ASSUME NEW y \in Piece, ~MayMerge(y, b) PROVE ~MayMerge(y, z)
    <3> SUFFICES ASSUME MayMerge(y, z) PROVE FALSE
      OBVIOUS
    <3>1. /\ Len(y.text) \in Nat /\ Len(z.text) \in Nat
          /\ b.exam = FALSE
      BY <1>1, <2>3, TextFacts DEF Piece
    <3> HIDE DEF b
    <3>2. /\ Len(y.text) < min_merge_chars /\ ~y.heading /\ ~y.exam
          /\ y.page = z.page /\ y.material = z.material
          /\ Len(y.text) + Len(z.text) <= max_chars
      BY DEF MayMerge
    <3>3. Len(y.text) + Len(b.text) <= max_chars
      <4> DEFINE i == Len(y.text)
                 j == Len(b.text)
                 k == Len(z.text)
      <4>1. i \in Nat /\ j \in Nat /\ k \in Nat /\ i + k <= max_chars /\ j <= k
        <5>1. Len(b.text) <= Len(z.text)
          <6> DEFINE l == Len(x.text)
          <6>1. j \in Nat /\ l \in Nat /\ k \in Nat /\ j + l <= k
            BY <1>2, <2>3, <3>1
          <6> HIDE DEF j, k, l
          <6>2. j <= k
            BY <6>1
          <6> QED
            BY <6>2 DEF j, k
        <5> QED
          BY <1>2, <3>1, <3>2, <5>1
      <4> HIDE DEF i, j, k
      <4>2. i + j <= max_chars
        BY <1>2, <4>1
      <4> QED
        BY <4>2 DEF i, j
    <3> QED
      BY <2>3, <2>5, <3>1, <3>2, <3>3 DEF MayMerge
  <2> HIDE DEF next, b, d
  <2>6. next.done = d /\ next.buffer = z
    BY <2>4
  <2>7. Len(d) > 0 => ~MayMerge(d[Len(d)], z)
    <3>1. Len(d) > 0 => Len(d) \in 1 .. Len(d)
      BY <1>1
    <3> QED
      BY <1>1, <1>3, <2>5, <3>1
  <2>8. Apart(next)
    BY <1>3, <2>3, <2>6, <2>7 DEF Apart
  <2> QED
    BY <2>8 DEF next
<1>5. CASE ~MayMerge(b, x)
  <2> DEFINE e == Append(d, b)
  <2>1. next = [done |-> d \o Kept(b), buffer |-> x]
    BY <1>5 DEF MergeNext
  <2>2. Kept(b) = <<b>>
    BY <1>3 DEF Kept
  <2> HIDE DEF b, d
  <2>3. d \o <<b>> = e
    BY <1>1, AppendIsConcat
  <2>4. /\ Len(e) = Len(d) + 1
        /\ \A n \in 1 .. Len(d) : e[n] = d[n]
        /\ e[Len(d) + 1] = b
    BY <1>1, AppendProperties
  <2> HIDE DEF e, next
  <2>5. next.done = e /\ next.buffer = x
    BY <2>1, <2>2, <2>3
  <2>6. ASSUME NEW n \in 1 .. Len(e), n > 1 PROVE ~MayMerge(e[n - 1], e[n])
    <3>1. CASE n = Len(d) + 1
      <4>1. n - 1 = Len(d) /\ Len(d) \in 1 .. Len(d) /\ Len(d) > 0
        BY <1>1, <2>6, <3>1
      <4>2. e[n - 1] = d[Len(d)] /\ e[n] = b
        BY <2>4, <3>1, <4>1
      <4> QED
        BY <1>3, <4>1, <4>2
    <3>2. CASE n # Len(d) + 1
      <4>1. n \in 1 .. Len(d) /\ n - 1 \in 1 .. Len(d)
        BY <1>1, <2>4, <2>6, <3>2
      <4>2. e[n - 1] = d[n - 1] /\ e[n] = d[n]
        BY <2>4, <4>1
      <4> QED
        BY <1>3, <2>6, <4>1, <4>2
    <3> QED
      BY <3>1, <3>2
  <2>7. ~MayMerge(e[Len(e)], x)
    BY <1>5, <2>4
  <2>8. Apart(next)
    BY <2>5, <2>6, <2>7 DEF Apart
  <2> QED
    BY <2>8 DEF next
<1> QED
  BY <1>4, <1>5

NoneBlank(list) == \A n \in 1 .. Len(list) : ~IsBlank(list[n].text)

\* Merging keeps the characters of every page and bounds the lengths; without
\* blank pieces it leaves nothing that may be merged.
LEMMA MergeKeeps ==
  ASSUME NEW raw \in Seq(Piece), \A y \in ToSet(raw) : Len(y.text) <= Longest
  PROVE  LET list == MergeShortChunks(raw)
         IN  /\ list \in Seq(Piece)
             /\ \A p : Found(list, p) = Found(raw, p)
             /\ \A y \in ToSet(list) : Len(y.text) <= Largest
             /\ NoneBlank(raw) =>
                   \A n \in 1 .. Len(list) : n > 1 => ~MayMerge(list[n - 1], list[n])
<1> DEFINE list == MergeShortChunks(raw)
           L == Len(raw)
<1>1. /\ L \in Nat
      /\ \A x : x \in ToSet(raw) <=> \E k \in 1 .. L : raw[k] = x
      /\ \A k \in 1 .. L : raw[k] \in Piece /\ raw[k] \in ToSet(raw)
      /\ <<>> \in Seq(Piece) /\ Len(<<>>) = 0
  BY Members
<1>2. CASE raw = <<>>
  <2>1. list = <<>>
    BY <1>2 DEF MergeShortChunks
  <2>2. list = raw /\ ToSet(list) = {} /\ Len(list) = 0
    BY <1>2, <2>1 DEF ToSet
  <2>3. \A n \in 1 .. 0 : FALSE
    OBVIOUS
  <2> HIDE DEF list
  <2> QED
    BY <2>2, <2>3 DEF list
<1>3. CASE raw # <<>>
  <2>1. PICK f : /\ f[1] = [done |-> <<>>, buffer |-> raw[1]]
                 /\ \A k \in 2 .. L : f[k] = MergeNext(f[k - 1], raw[k])
                 /\ list = f[L].done \o Kept(f[L].buffer)
    BY <1>3, MergeSteps
  <2>2. L # 0 /\ 1 \in 1 .. L
    BY <1>1, <1>3, EmptySeq
  <2> HIDE DEF list
  <2> DEFINE Part(n, p, i) == \E k \in 1 .. n : raw[k].page = p /\ i \in Ids(raw[k].text)
             Fits(n) == /\ f[n] \in MergeState
                        /\ \A p, i : Holds(f[n], p, i) <=> Part(n, p, i)
                        /\ Small(f[n])
                        /\ NoneBlank(raw) => Apart(f[n])
             N == {n \in Nat : n + 1 <= L => Fits(n + 1)}
  <2>3. 0 \in N
    <3>1. raw[1] \in Piece /\ raw[1] \in ToSet(raw)
      BY <1>1, <2>2
    <3>2. f[1] \in MergeState /\ f[1].done = <<>> /\ f[1].buffer = raw[1]
      BY <1>1, <2>1, <3>1 DEF MergeState
    <3>3. ASSUME NEW p, NEW i PROVE Holds(f[1], p, i) <=> Part(1, p, i)
      <4>1. \A k : k \in 1 .. 1 <=> k = 1
        OBVIOUS
      <4>2. Found(<<>>, p) = {}
        BY DEF Found, ToSet
      <4> QED
        BY <3>2, <4>1, <4>2 DEF Holds
    <3>4. Small(f[1])
      <4>1. Len(raw[1].text) \in Nat /\ Longest <= Largest /\ Longest \in Nat /\ Largest \in Nat
        BY <3>1, TextFacts, Sizes DEF Piece, Longest, Largest
      <4>2. Len(raw[1].text) <= Longest
        BY <3>1
      <4>3. Len(raw[1].text) <= Largest
        BY <4>1, <4>2
      <4>4. ToSet(<<>>) = {}
        BY DEF ToSet
      <4> QED
        BY <3>2, <4>3, <4>4 DEF Small
    <3>5. NoneBlank(raw) => Apart(f[1])
      <4>1. \A n \in 1 .. 0 : FALSE
        OBVIOUS
      <4>2. ~(0 > 0)
        OBVIOUS
      <4> QED
        BY <1>1, <2>2, <3>2, <4>1, <4>2 DEF Apart, NoneBlank
    <3>6. 0 + 1 = 1
      OBVIOUS
    <3> HIDE DEF Part
    <3> QED
      BY <3>2, <3>3, <3>4, <3>5, <3>6
  <2>4. ASSUME NEW n \in Nat, n \in N PROVE n + 1 \in N
    <3> SUFFICES ASSUME (n + 1) + 1 <= L PROVE Fits((n + 1) + 1)
      OBVIOUS
    <3> DEFINE m == n + 1
    <3>1. Fits(m) /\ m \in Nat /\ m + 1 \in 2 .. L /\ (m + 1) - 1 = m /\ m + 1 \in 1 .. L
      BY <1>1, <2>4
    <3> HIDE DEF m
    <3>2. f[m + 1] = MergeNext(f[m], raw[m + 1]) /\ raw[m + 1] \in Piece /\ raw[m + 1] \in ToSet(raw)
      BY <1>1, <2>1, <3>1
    <3> DEFINE x == raw[m + 1]
               s == f[m]
               t == f[m + 1]
    <3>3. s \in MergeState /\ x \in Piece /\ Len(x.text) <= Longest /\ t = MergeNext(s, x)
      BY <3>1, <3>2
    <3>4. \A k : k \in 1 .. m + 1 <=> k \in 1 .. m \/ k = m + 1
      BY <3>1
    <3>5. \A p, i : Part(m + 1, p, i) <=> Part(m, p, i) \/ (x.page = p /\ i \in Ids(x.text))
      BY <3>4
    <3>6. Small(s) /\ (\A p, i : Holds(s, p, i) <=> Part(m, p, i)) /\ (NoneBlank(raw) => Apart(s))
      BY <3>1
    <3>7. NoneBlank(raw) => ~IsBlank(x.text)
      BY <3>1 DEF NoneBlank
    <3> HIDE DEF s, t, x, Part
    <3>8. /\ t \in MergeState
          /\ \A p, i : Holds(t, p, i) <=> Holds(s, p, i) \/ (x.page = p /\ i \in Ids(x.text))
          /\ Small(t)
      BY <3>3, <3>6, MergeNextKeeps
    <3>9. NoneBlank(raw) => Apart(t)
      BY <3>3, <3>6, <3>7, MergeNextApart
    <3>10. \A p, i : Holds(t, p, i) <=> Part(m + 1, p, i)
      BY <3>5, <3>6, <3>8
    <3>11. Fits(m + 1)
      BY <3>8, <3>9, <3>10 DEF t
    <3> QED
      BY <3>11 DEF m
  <2>5. L - 1 \in N
    <3> HIDE DEF N
    <3>1. L - 1 \in Nat
      BY <1>1, <2>2
    <3> QED
      BY <2>3, <2>4, <3>1, SetInduction
  <2>6. Fits(L)
    <3>1. (L - 1) + 1 = L /\ L <= L
      BY <1>1
    <3> HIDE DEF Fits
    <3> QED
      BY <2>5, <3>1
  <2> DEFINE d == f[L].done
             b == f[L].buffer
  <2>7. d \in Seq(Piece) /\ b \in Piece /\ list = d \o Kept(b)
    BY <2>1, <2>6 DEF MergeState
  <2>8. /\ list \in Seq(Piece)
        /\ \A p, i : i \in Found(list, p) <=> i \in Found(d, p) \/ (b.page = p /\ i \in Ids(b.text))
        /\ ToSet(list) \subseteq ToSet(d) \cup {b}
    <3> HIDE DEF d, b
    <3> QED
      BY <2>7, KeptPieces
  <2>9. ASSUME NEW p PROVE Found(list, p) = Found(raw, p)
    <3>1. ASSUME NEW i PROVE i \in Found(list, p) <=> Part(L, p, i)
      <4>1. Holds(f[L], p, i) <=> Part(L, p, i)
        BY <2>6
      <4>2. Holds(f[L], p, i) <=> i \in Found(d, p) \/ (b.page = p /\ i \in Ids(b.text))
        BY DEF Holds
      <4> HIDE DEF Part, d, b, Fits
      <4> QED
        BY <2>8, <4>1, <4>2
    <3>2. ASSUME NEW i PROVE i \in Found(raw, p) <=> Part(L, p, i)
      BY <1>1 DEF Found
    <3>3. \A i : i \in Found(list, p) <=> i \in Found(raw, p)
      <4> HIDE DEF Part
      <4> QED
        BY <3>1, <3>2
    <3> QED
      BY <3>3
  <2>10. \A y \in ToSet(list) : Len(y.text) <= Largest
    <3>1. Small(f[L])
      BY <2>6
    <3>2. (\A y \in ToSet(d) : Len(y.text) <= Largest) /\ Len(b.text) <= Largest
      BY <3>1 DEF Small
    <3> HIDE DEF d, b
    <3> QED
      BY <2>8, <3>2
  <2>11. ASSUME NoneBlank(raw), NEW n \in 1 .. Len(list), n > 1
         PROVE  ~MayMerge(list[n - 1], list[n])
    <3>1. Apart(f[L])
      BY <2>6, <2>11
    <3>2. /\ \A k \in 1 .. Len(d) : k > 1 => ~MayMerge(d[k - 1], d[k])
          /\ Len(d) > 0 => ~MayMerge(d[Len(d)], b)
          /\ ~IsBlank(b.text)
      BY <3>1 DEF Apart
    <3> HIDE DEF d, b, Fits
    <3>3. Kept(b) = <<b>>
      BY <3>2 DEF Kept
    <3>4. list = Append(d, b) /\ Len(d) \in Nat
      BY <2>7, <3>3, AppendIsConcat, Members
    <3>5. /\ Len(list) = Len(d) + 1
          /\ \A k \in 1 .. Len(d) : list[k] = d[k]
          /\ list[Len(d) + 1] = b
      BY <2>7, <3>4, AppendProperties
    <3>6. CASE n = Len(d) + 1
      <4>1. n - 1 = Len(d) /\ Len(d) \in 1 .. Len(d) /\ Len(d) > 0
        BY <2>11, <3>4, <3>6
      <4>2. list[n - 1] = d[Len(d)] /\ list[n] = b
        BY <3>5, <3>6, <4>1
      <4> QED
        BY <3>2, <4>1, <4>2
    <3>7. CASE n # Len(d) + 1
      <4>1. n \in 1 .. Len(d) /\ n - 1 \in 1 .. Len(d)
        BY <2>11, <3>4, <3>5, <3>7
      <4>2. list[n - 1] = d[n - 1] /\ list[n] = d[n]
        BY <3>5, <4>1
      <4> QED
        BY <2>11, <3>2, <4>1, <4>2
    <3> QED
      BY <3>6, <3>7
  <2> HIDE DEF Fits
  <2> QED
    BY <2>8, <2>9, <2>10, <2>11 DEF list
<1> QED
  BY <1>2, <1>3

-----------------------------------------------------------------------------
(* Sections                                                                *)

Section == [heading : Text, paragraphs : Seq(Text), formulas : Seq(Text)]
PageState == [sections : Seq(Section), current : Section]

\* A block that the structurer keeps.
Taken(block) == block.kind = "formula" \/ (block.kind = "text" /\ block.level \notin {1, 2})

\* All the section has, it has from one of these texts.
Within(section, texts) ==
    /\ section.heading = <<>> \/ section.heading \in texts
    /\ ToSet(section.paragraphs) \subseteq texts
    /\ ToSet(section.formulas) \subseteq texts

InPage(page, section) == section \in ToSet(page.sections) \/ section = page.current

LEMMA AppendedSet ==
  ASSUME NEW S, NEW list \in Seq(S), NEW x \in S
  PROVE  /\ Append(list, x) \in Seq(S)
         /\ ToSet(Append(list, x)) = ToSet(list) \cup {x}
         /\ Append(list, x) # <<>>
<1> DEFINE new == Append(list, x)
<1>1. /\ new \in Seq(S) /\ Len(new) = Len(list) + 1
      /\ \A n \in 1 .. Len(list) : new[n] = list[n]
      /\ new[Len(list) + 1] = x
  BY AppendProperties
<1> HIDE DEF new
<1>2. /\ Len(list) \in Nat
      /\ \A y : y \in ToSet(list) <=> \E k \in 1 .. Len(list) : list[k] = y
      /\ \A y : y \in ToSet(new) <=> \E k \in 1 .. Len(new) : new[k] = y
  BY <1>1, Members
<1>3. \A k : k \in 1 .. Len(list) + 1 <=> k \in 1 .. Len(list) \/ k = Len(list) + 1
  BY <1>2
<1>4. \A y : y \in ToSet(new) <=> y \in ToSet(list) \/ y = x
  BY <1>1, <1>2, <1>3
<1>5. ToSet(new) = ToSet(list) \cup {x}
  BY <1>4
<1>6. Len(new) \in Nat \ {0}
  BY <1>1, <1>2
<1>7. new # <<>>
  BY <1>6, NoneIsEmpty
<1> QED
  BY <1>1, <1>5, <1>7 DEF new

LEMMA EmptySection ==
  /\ NoSection \in Section /\ NoSection.heading = <<>>
  /\ ToSet(NoSection.paragraphs) = {} /\ ToSet(NoSection.formulas) = {}
<1>1. <<>> \in Text /\ <<>> \in Seq(Text) /\ ToSet(<<>>) = {}
  BY DEF Text, ToSet
<1> QED
  BY <1>1 DEF NoSection, Section

\* One more block: its text is a paragraph of a section, or need not be, and no
\* paragraph is lost when a section is closed.
LEMMA AddBlockKeeps ==
  ASSUME NEW page \in PageState, NEW block \in Block, block.kind # "text" => block.level = 0,
         NEW texts,
         \A section : InPage(page, section) => Within(section, texts),
         NEW more, more = texts \cup {block.text}
  PROVE  LET next == AddBlock(page, block)
         IN  /\ next \in PageState
             /\ \A section : InPage(next, section) => Within(section, more)
             /\ \A t : (\E section : InPage(page, section) /\ t \in ToSet(section.paragraphs))
                         => \E section : InPage(next, section) /\ t \in ToSet(section.paragraphs)
             /\ Taken(block) =>
                   \E section : InPage(next, section) /\ block.text \in ToSet(section.paragraphs)
<1> DEFINE next == AddBlock(page, block)
           secs == page.sections
           cur == page.current
           t == block.text
<1>1. /\ secs \in Seq(Section) /\ cur \in Section /\ page = [sections |-> secs, current |-> cur]
      /\ t \in Text /\ block.kind \in {"text", "formula", "table", "figure"} /\ block.level \in 0 .. 4
  BY DEF PageState, Block, Text
<1>2. /\ cur.heading \in Text /\ cur.paragraphs \in Seq(Text) /\ cur.formulas \in Seq(Text)
      /\ cur = [heading |-> cur.heading, paragraphs |-> cur.paragraphs, formulas |-> cur.formulas]
  BY <1>1 DEF Section
<1>3. /\ \A section \in ToSet(secs) : Within(section, texts)
      /\ Within(cur, texts)
  BY DEF InPage
<1>4. texts \subseteq more /\ t \in more
  OBVIOUS
<1> DEFINE p2 == Append(cur.paragraphs, t)
           f2 == Append(cur.formulas, t)
<1>5. /\ p2 \in Seq(Text) /\ ToSet(p2) = ToSet(cur.paragraphs) \cup {t}
      /\ f2 \in Seq(Text) /\ ToSet(f2) = ToSet(cur.formulas) \cup {t}
  BY <1>1, <1>2, AppendedSet
<1> HIDE DEF p2, f2
<1> DEFINE Good(n) ==
             /\ n \in PageState
             /\ \A section : InPage(n, section) => Within(section, more)
             /\ \A u : (\E section : InPage(page, section) /\ u \in ToSet(section.paragraphs))
                         => \E section : InPage(n, section) /\ u \in ToSet(section.paragraphs)
             /\ Taken(block) =>
                   \E section : InPage(n, section) /\ t \in ToSet(section.paragraphs)
\* The page goes on with another current section that has all the old one has.
<1>6. ASSUME NEW new \in Section, Within(new, more), ToSet(cur.paragraphs) \subseteq ToSet(new.paragraphs),
             Taken(block) => t \in ToSet(new.paragraphs)
      PROVE  Good([sections |-> secs, current |-> new])
  <2> DEFINE n == [sections |-> secs, current |-> new]
  <2>1. n \in PageState /\ n.sections = secs /\ n.current = new
    BY <1>1, <1>6 DEF PageState
  <2> HIDE DEF n
  <2>2. \A section : InPage(n, section) <=> section \in ToSet(secs) \/ section = new
    BY <2>1 DEF InPage
  <2>3. \A section : InPage(page, section) <=> section \in ToSet(secs) \/ section = cur
    BY DEF InPage
  <2>4. \A section : InPage(n, section) => Within(section, more)
    BY <1>3, <1>4, <1>6, <2>2 DEF Within
  <2>5. ASSUME NEW u, NEW section, InPage(page, section), u \in ToSet(section.paragraphs)
        PROVE  \E other : InPage(n, other) /\ u \in ToSet(other.paragraphs)
    <3>1. CASE section \in ToSet(secs)
      BY <2>2, <2>5, <3>1
    <3>2. CASE section = cur
      BY <1>6, <2>2, <2>5, <3>2
    <3> QED
      BY <2>3, <2>5, <3>1, <3>2
  <2>6. Taken(block) => \E section : InPage(n, section) /\ t \in ToSet(section.paragraphs)
    BY <1>6, <2>2
  <2> HIDE DEF secs, cur, t
  <2>7. Good(n)
    BY <2>1, <2>4, <2>5, <2>6
  <2> QED
    BY <2>7 DEF n
<1>7. CASE block.kind \in {"table", "figure"}
  <2>1. next = page /\ ~Taken(block)
    BY <1>7 DEF AddBlock, Taken
  <2>2. Within(cur, more)
    BY <1>3, <1>4 DEF Within
  <2>3. Good([sections |-> secs, current |-> cur])
    <3> HIDE DEF Good, next
    <3> QED
      BY <1>1, <1>6, <2>1, <2>2
  <2>4. Good(next)
    <3> HIDE DEF Good, next, secs, cur
    <3> QED
      BY <1>1, <2>1, <2>3
  <2> QED
    BY <2>4
<1>8. CASE block.kind \notin {"table", "figure"} /\ block.level \in {1, 2}
  <2> DEFINE new == [NoSection EXCEPT !.heading = t]
             all == IF cur.paragraphs # <<>> THEN Append(secs, cur) ELSE secs
  <2>1. next = [sections |-> all, current |-> new]
    BY <1>8 DEF AddBlock
  <2>2. ~Taken(block)
    BY <1>8 DEF Taken
  <2>3. new \in Section /\ Within(new, more)
    <3>1. new = [heading |-> t, paragraphs |-> <<>>, formulas |-> <<>>]
      BY DEF NoSection
    <3>2. <<>> \in Seq(Text) /\ ToSet(<<>>) = {}
      BY DEF ToSet
    <3> QED
      BY <1>1, <1>4, <3>1, <3>2 DEF Section, Within
  <2>4. /\ all \in Seq(Section)
        /\ \A section : section \in ToSet(all) => section \in ToSet(secs) \/ section = cur
        /\ \A section : section \in ToSet(secs) => section \in ToSet(all)
        /\ cur.paragraphs # <<>> => cur \in ToSet(all)
    <3>1. CASE cur.paragraphs = <<>>
      BY <1>1, <3>1
    <3>2. CASE cur.paragraphs # <<>>
      <4>1. all = Append(secs, cur)
        BY <3>2
      <4>2. Append(secs, cur) \in Seq(Section) /\ ToSet(Append(secs, cur)) = ToSet(secs) \cup {cur}
        BY <1>1, AppendedSet
      <4> HIDE DEF all, secs, cur
      <4> QED
        BY <4>1, <4>2
    <3> QED
      BY <3>1, <3>2
  <2>5. cur.paragraphs = <<>> => ToSet(cur.paragraphs) = {}
    BY DEF ToSet
  <2> HIDE DEF new, all, next
  <2>6. next \in PageState /\ next.sections = all /\ next.current = new
    BY <2>1, <2>3, <2>4 DEF PageState
  <2>7. \A section : InPage(next, section) <=> section \in ToSet(all) \/ section = new
    BY <2>6 DEF InPage
  <2>8. \A section : InPage(next, section) => Within(section, more)
    BY <1>3, <1>4, <2>3, <2>4, <2>7 DEF Within
  <2>9. ASSUME NEW u, NEW section, InPage(page, section), u \in ToSet(section.paragraphs)
        PROVE  \E other : InPage(next, other) /\ u \in ToSet(other.paragraphs)
    <3>1. section \in ToSet(secs) \/ section = cur
      BY <2>9 DEF InPage
    <3>2. section \in ToSet(all)
      BY <2>4, <2>5, <2>9, <3>1
    <3> QED
      BY <2>7, <2>9, <3>2
  <2>10. Good(next)
    BY <2>2, <2>6, <2>8, <2>9
  <2> QED
    BY <2>10 DEF next
<1>9. CASE block.kind = "formula" /\ block.level \notin {1, 2}
  <2> DEFINE new == [heading |-> cur.heading, paragraphs |-> p2, formulas |-> f2]
  <2>1. next = [page EXCEPT !.current = new]
    BY <1>9 DEF AddBlock, p2, f2
  <2>2. next = [sections |-> secs, current |-> new]
    <3> HIDE DEF secs, cur, next, new
    <3> QED
      BY <1>1, <2>1
  <2>3. new \in Section /\ new.paragraphs = p2 /\ new.formulas = f2 /\ new.heading = cur.heading
    BY <1>2, <1>5 DEF Section
  <2> HIDE DEF new
  <2>4. Within(new, more)
    BY <1>3, <1>4, <1>5, <2>3 DEF Within
  <2>5. ToSet(cur.paragraphs) \subseteq ToSet(new.paragraphs) /\ t \in ToSet(new.paragraphs)
    BY <1>5, <2>3
  <2>6. Good([sections |-> secs, current |-> new])
    <3> HIDE DEF Good, secs, cur, t
    <3> QED
      BY <1>6, <2>3, <2>4, <2>5
  <2>7. Good(next)
    <3> HIDE DEF Good, next, secs, new
    <3> QED
      BY <2>2, <2>6
  <2> QED
    BY <2>7
<1>10. CASE block.kind = "text" /\ block.level \notin {1, 2}
  <2> DEFINE new == [heading |-> cur.heading, paragraphs |-> p2, formulas |-> cur.formulas]
  <2>1. next = [page EXCEPT !.current.paragraphs = p2]
    BY <1>10 DEF AddBlock, p2
  <2>2. next = [sections |-> secs, current |-> new]
    <3>1. next = [sections |-> secs, current |-> [cur EXCEPT !.paragraphs = p2]]
      <4> HIDE DEF secs, cur, next
      <4> QED
        BY <1>1, <2>1
    <3>2. [cur EXCEPT !.paragraphs = p2] = new
      <4> HIDE DEF cur
      <4> QED
        BY <1>2
    <3> HIDE DEF next, new, cur, secs
    <3> QED
      BY <3>1, <3>2
  <2>3. new \in Section /\ new.paragraphs = p2 /\ new.formulas = cur.formulas /\ new.heading = cur.heading
    BY <1>2, <1>5 DEF Section
  <2> HIDE DEF new
  <2>4. Within(new, more)
    BY <1>3, <1>4, <1>5, <2>3 DEF Within
  <2>5. ToSet(cur.paragraphs) \subseteq ToSet(new.paragraphs) /\ t \in ToSet(new.paragraphs)
    BY <1>5, <2>3
  <2>6. Good([sections |-> secs, current |-> new])
    <3> HIDE DEF Good, secs, cur, t
    <3> QED
      BY <1>6, <2>3, <2>4, <2>5
  <2>7. Good(next)
    <3> HIDE DEF Good, next, secs, new
    <3> QED
      BY <2>2, <2>6
  <2> QED
    BY <2>7
<1>11. \/ block.kind \in {"table", "figure"}
       \/ block.kind \notin {"table", "figure"} /\ block.level \in {1, 2}
       \/ block.kind = "formula" /\ block.level \notin {1, 2}
       \/ block.kind = "text" /\ block.level \notin {1, 2}
  BY <1>1
<1> QED
  BY <1>7, <1>8, <1>9, <1>10, <1>11

FirstPage == [sections |-> <<>>, current |-> NoSection]

Folds(f, n, blocks) ==
    f = [k \in 0 .. n |-> IF k = 0 THEN [sections |-> <<>>, current |-> NoSection]
                                   ELSE AddBlock(f[k - 1], blocks[k])]

\* The recursive function of SectionsOf exists, up to any number.
LEMMA FoldsExist ==
  ASSUME NEW blocks, NEW n \in Nat
  PROVE  \E f : Folds(f, n, blocks)
<1> DEFINE S == {m \in Nat : \E f : Folds(f, m, blocks)}
<1>1. 0 \in S
  <2> DEFINE g == [k \in 0 .. 0 |-> FirstPage]
  <2>1. g = [k \in 0 .. 0 |-> IF k = 0 THEN FirstPage ELSE AddBlock(g[k - 1], blocks[k])]
    OBVIOUS
  <2>2. Folds(g, 0, blocks)
    BY <2>1 DEF Folds, FirstPage
  <2> QED
    BY <2>2
<1>2. ASSUME NEW m \in Nat, m \in S PROVE m + 1 \in S
  <2>1. PICK f : Folds(f, m, blocks)
    BY <1>2
  <2> DEFINE g == [k \in 0 .. m + 1 |-> IF k = m + 1 THEN AddBlock(f[m], blocks[m + 1]) ELSE f[k]]
  <2>2. \A k \in 0 .. m : f[k] = IF k = 0 THEN FirstPage ELSE AddBlock(f[k - 1], blocks[k])
    BY <2>1 DEF Folds, FirstPage
  <2>3. ASSUME NEW k \in 0 .. m + 1
        PROVE  g[k] = IF k = 0 THEN FirstPage ELSE AddBlock(g[k - 1], blocks[k])
    <3>1. CASE k = m + 1
      <4>1. m \in 0 .. m + 1 /\ m + 1 \in 0 .. m + 1 /\ m # m + 1 /\ m + 1 # 0 /\ (m + 1) - 1 = m
        OBVIOUS
      <4>2. g[m] = f[m]
        BY <4>1
      <4>3. g[m + 1] = AddBlock(f[m], blocks[m + 1])
        BY <4>1
      <4> HIDE DEF g
      <4> QED
        BY <3>1, <4>1, <4>2, <4>3
    <3>2. CASE k \in 0 .. m
      <4>1. g[k] = f[k]
        BY <3>2
      <4>2. k = 0 \/ g[k - 1] = f[k - 1]
        BY <3>2
      <4> QED
        BY <2>2, <3>2, <4>1, <4>2
    <3> QED
      BY <3>1, <3>2
  <2>4. Folds(g, m + 1, blocks)
    <3>1. g = [k \in 0 .. m + 1 |-> g[k]]
      OBVIOUS
    <3> HIDE DEF g
    <3> QED
      BY <2>3, <3>1 DEF Folds, FirstPage
  <2> QED
    BY <2>4
<1> HIDE DEF S
<1>3. n \in S
  BY <1>1, <1>2, SetInduction
<1> QED
  BY <1>3 DEF S

LEMMA SectionSteps ==
  ASSUME NEW blocks \in Seq(Block)
  PROVE  \E f : /\ f[0] = FirstPage
                /\ \A k \in 1 .. Len(blocks) : f[k] = AddBlock(f[k - 1], blocks[k])
                /\ LET end == f[Len(blocks)]
                   IN  SectionsOf(blocks) = IF end.current = NoSection THEN end.sections
                                            ELSE Append(end.sections, end.current)
<1> DEFINE L == Len(blocks)
           page == CHOOSE f : f = [k \in 0 .. L |->
                      IF k = 0 THEN [sections |-> <<>>, current |-> NoSection]
                               ELSE AddBlock(f[k - 1], blocks[k])]
<1>1. L \in Nat
  BY Members
<1>2. page = [k \in 0 .. L |-> IF k = 0 THEN [sections |-> <<>>, current |-> NoSection]
                                        ELSE AddBlock(page[k - 1], blocks[k])]
  <2>1. \E f : f = [k \in 0 .. L |-> IF k = 0 THEN [sections |-> <<>>, current |-> NoSection]
                                              ELSE AddBlock(f[k - 1], blocks[k])]
    BY <1>1, FoldsExist DEF Folds
  <2> QED
    BY <2>1
<1>3. SectionsOf(blocks) = IF page[L].current = NoSection THEN page[L].sections
                           ELSE Append(page[L].sections, page[L].current)
  BY DEF SectionsOf
<1> HIDE DEF page
<1>4. \A k \in 0 .. L : page[k] = IF k = 0 THEN FirstPage ELSE AddBlock(page[k - 1], blocks[k])
  BY <1>2 DEF FirstPage
<1>5. page[0] = FirstPage
  BY <1>1, <1>4
<1>6. \A k \in 1 .. L : page[k] = AddBlock(page[k - 1], blocks[k])
  <2>1. \A k \in 1 .. L : k \in 0 .. L /\ k # 0
    OBVIOUS
  <2> QED
    BY <1>4, <2>1
<1> QED
  BY <1>3, <1>5, <1>6

\* Every text that has to be is a paragraph of a section of its page.
LEMMA SectionsKeep ==
  ASSUME NEW blocks \in Seq(Block),
         \A n \in 1 .. Len(blocks) : blocks[n].kind # "text" => blocks[n].level = 0
  PROVE  LET texts == {blocks[n].text : n \in 1 .. Len(blocks)}
         IN  /\ SectionsOf(blocks) \in Seq(Section)
             /\ \A section \in ToSet(SectionsOf(blocks)) : Within(section, texts)
             /\ \A n \in 1 .. Len(blocks) : Taken(blocks[n]) =>
                   \E section \in ToSet(SectionsOf(blocks)) : blocks[n].text \in ToSet(section.paragraphs)
<1> DEFINE L == Len(blocks)
           Texts(n) == {blocks[k].text : k \in 1 .. n}
<1>1. L \in Nat /\ \A n \in 1 .. L : blocks[n] \in Block
  BY Members
<1>2. PICK f : /\ f[0] = FirstPage
               /\ \A k \in 1 .. L : f[k] = AddBlock(f[k - 1], blocks[k])
               /\ SectionsOf(blocks) = IF f[L].current = NoSection THEN f[L].sections
                                       ELSE Append(f[L].sections, f[L].current)
  BY SectionSteps
<1> DEFINE Has(n, t) == \E section : InPage(f[n], section) /\ t \in ToSet(section.paragraphs)
           Fits(n) == /\ f[n] \in PageState
                      /\ \A section : InPage(f[n], section) => Within(section, Texts(n))
                      /\ \A k \in 1 .. n : Taken(blocks[k]) => Has(n, blocks[k].text)
           N == {n \in Nat : n <= L => Fits(n)}
<1>3. 0 \in N
  <2>1. f[0].sections = <<>> /\ f[0].current = NoSection /\ f[0] \in PageState
    BY <1>2, EmptySection DEF FirstPage, PageState
  <2>2. ToSet(<<>>) = {}
    BY DEF ToSet
  <2>3. \A section : InPage(f[0], section) => section = NoSection
    BY <2>1, <2>2 DEF InPage
  <2>4. Within(NoSection, Texts(0))
    BY EmptySection DEF Within
  <2>5. \A k \in 1 .. 0 : FALSE
    OBVIOUS
  <2> HIDE DEF Texts, Has
  <2> QED
    BY <2>1, <2>3, <2>4, <2>5
<1>4. ASSUME NEW n \in Nat, n \in N PROVE n + 1 \in N
  <2> SUFFICES ASSUME n + 1 <= L PROVE Fits(n + 1)
    OBVIOUS
  <2>1. Fits(n) /\ n + 1 \in 1 .. L /\ (n + 1) - 1 = n
    <3> HIDE DEF L, Fits
    <3>1. n <= L /\ n + 1 \in 1 .. L /\ (n + 1) - 1 = n
      BY <1>1
    <3>2. n <= L => Fits(n)
      BY <1>4
    <3> QED
      BY <3>1, <3>2
  <2> DEFINE page == f[n]
             next == f[n + 1]
             block == blocks[n + 1]
             texts == Texts(n)
             more == Texts(n + 1)
  <2>2. /\ next = AddBlock(page, block) /\ block \in Block
        /\ block.kind # "text" => block.level = 0
    BY <1>1, <1>2, <2>1
  <2>3. page \in PageState /\ \A section : InPage(page, section) => Within(section, texts)
    BY <2>1
  <2>4. \A k : k \in 1 .. n + 1 <=> k \in 1 .. n \/ k = n + 1
    OBVIOUS
  <2>5. more = texts \cup {block.text}
    <3>1. \A t : t \in more <=> t \in texts \/ t = block.text
      BY <2>4
    <3> HIDE DEF more, texts, block
    <3> QED
      BY <3>1
  <2> HIDE DEF page, next, block, texts, more
  <2>6. /\ next \in PageState
        /\ \A section : InPage(next, section) => Within(section, more)
        /\ \A t : (\E section : InPage(page, section) /\ t \in ToSet(section.paragraphs))
                    => \E section : InPage(next, section) /\ t \in ToSet(section.paragraphs)
        /\ Taken(block) =>
              \E section : InPage(next, section) /\ block.text \in ToSet(section.paragraphs)
    BY <2>2, <2>3, <2>5, AddBlockKeeps
  <2>7. ASSUME NEW k \in 1 .. n + 1, Taken(blocks[k]) PROVE Has(n + 1, blocks[k].text)
    <3>1. CASE k \in 1 .. n
      <4>1. Has(n, blocks[k].text)
        BY <2>1, <2>7, <3>1
      <4> QED
        BY <2>6, <4>1 DEF page, next
    <3>2. CASE k = n + 1
      BY <2>6, <2>7, <3>2 DEF block, next
    <3> QED
      BY <2>4, <3>1, <3>2
  <2> HIDE DEF Has, Texts
  <2> QED
    BY <2>6, <2>7 DEF next, more
<1>5. Fits(L)
  <2> HIDE DEF Fits
  <2>1. L \in N
    <3> HIDE DEF N
    <3> QED
      BY <1>1, <1>3, <1>4, SetInduction
  <2> QED
    BY <1>1, <2>1
<1> DEFINE secs == f[L].sections
           cur == f[L].current
           all == SectionsOf(blocks)
<1>6. secs \in Seq(Section) /\ cur \in Section
  BY <1>5 DEF PageState
<1>7. /\ all \in Seq(Section)
      /\ \A section \in ToSet(all) : section \in ToSet(secs) \/ section = cur
      /\ \A section \in ToSet(secs) : section \in ToSet(all)
      /\ cur # NoSection => cur \in ToSet(all)
  <2>1. CASE cur = NoSection
    <3>1. all = secs
      BY <1>2, <2>1
    <3> QED
      BY <1>6, <2>1, <3>1
  <2>2. CASE cur # NoSection
    <3>1. all = Append(secs, cur)
      BY <1>2, <2>2
    <3>2. Append(secs, cur) \in Seq(Section) /\ ToSet(Append(secs, cur)) = ToSet(secs) \cup {cur}
      BY <1>6, AppendedSet
    <3> HIDE DEF all, secs, cur
    <3> QED
      BY <3>1, <3>2
  <2> QED
    BY <2>1, <2>2
<1>8. \A section \in ToSet(all) : Within(section, Texts(L))
  <2>1. \A section \in ToSet(all) : InPage(f[L], section)
    BY <1>7 DEF InPage
  <2> HIDE DEF all, Texts
  <2> QED
    BY <1>5, <2>1
<1>9. ASSUME NEW n \in 1 .. L, Taken(blocks[n])
      PROVE  \E section \in ToSet(all) : blocks[n].text \in ToSet(section.paragraphs)
  <2>1. PICK section : InPage(f[L], section) /\ blocks[n].text \in ToSet(section.paragraphs)
    <3>1. Has(L, blocks[n].text)
      BY <1>5, <1>9
    <3> QED
      BY <3>1
  <2>2. section \in ToSet(secs) \/ section = cur
    BY <2>1 DEF InPage
  <2>3. section # NoSection
    BY <2>1, EmptySection
  <2> HIDE DEF all, secs, cur
  <2> QED
    BY <1>7, <2>1, <2>2, <2>3
<1> HIDE DEF Fits
<1> QED
  BY <1>7, <1>8, <1>9

-----------------------------------------------------------------------------
(* Segments                                                                *)

LEMMA PlainPiece ==
  ASSUME NEW text \in Text, NEW page \in Nat, NEW heading \in BOOLEAN,
         NEW material \in {"text", "formula"}
  PROVE  LET x == Segment(text, page, FALSE, heading, material)
         IN  x \in Piece /\ x.text = text /\ x.page = page
  BY DEF Segment, Piece

LEMMA OneMember ==
  ASSUME NEW S, NEW x \in S
  PROVE  <<x>> \in Seq(S) /\ <<x>> # <<>> /\ \A y : y \in ToSet(<<x>>) <=> y = x
<1> DEFINE one == <<x>>
<1>1. one \in Seq(S) /\ Len(one) = 1 /\ one[1] = x
  OBVIOUS
<1> HIDE DEF one
<1>2. \A y : y \in ToSet(one) <=> \E k \in 1 .. 1 : one[k] = y
  BY <1>1, Members
<1>3. 1 \in 1 .. 1 /\ \A k \in 1 .. 1 : k = 1
  OBVIOUS
<1>4. \A y : y \in ToSet(one) <=> y = x
  BY <1>1, <1>2, <1>3, Zenon
<1>5. Len(one) \in Nat \ {0}
  BY <1>1
<1>6. one # <<>>
  BY <1>5, NoneIsEmpty
<1> QED
  BY <1>1, <1>4, <1>6 DEF one

LEMMA NoMember ==
  ASSUME NEW S
  PROVE  <<>> \in Seq(S) /\ ToSet(<<>>) = {}
  BY DEF ToSet

\* A section becomes segments of its page, with all paragraphs that are not blank.
LEMMA SectionSegments ==
  ASSUME NEW section \in Section, NEW page \in Nat, NEW texts, Within(section, texts)
  PROVE  LET list == SegmentsOfSection(section, page)
         IN  /\ list \in Seq(Piece)
             /\ \A x \in ToSet(list) : x.page = page /\ x.text \in texts
             /\ \A t \in ToSet(section.paragraphs) :
                   ~IsBlank(t) => \E x \in ToSet(list) : x.text = t
<1> DEFINE h == section.heading
           ps == section.paragraphs
           fs == section.formulas
           P(t) == Segment(t, page, FALSE, FALSE, "text")
           F(t) == Segment(t, page, FALSE, FALSE, "formula")
           H == Segment(h, page, FALSE, TRUE, "text")
           first == IF h = <<>> THEN <<>> ELSE <<H>>
           each == [n \in DOMAIN ps |-> IF IsBlank(ps[n]) THEN <<>> ELSE <<P(ps[n])>>]
           last == [n \in DOMAIN fs |-> F(fs[n])]
<1>1. SegmentsOfSection(section, page) = (first \o Concat(each)) \o last
  BY DEF SegmentsOfSection
<1>2. h \in Text /\ ps \in Seq(Text) /\ fs \in Seq(Text)
  BY DEF Section
<1>3. /\ h = <<>> \/ h \in texts
      /\ ToSet(ps) \subseteq texts /\ ToSet(fs) \subseteq texts
  BY DEF Within
<1> HIDE DEF h, ps, fs
<1>4. ASSUME NEW t \in Text
      PROVE  /\ P(t) \in Piece /\ P(t).text = t /\ P(t).page = page
             /\ F(t) \in Piece /\ F(t).text = t /\ F(t).page = page
  BY PlainPiece
<1>5. H \in Piece /\ H.text = h /\ H.page = page
  BY <1>2, PlainPiece
<1> HIDE DEF P, F, H
<1>6. /\ first \in Seq(Piece)
      /\ \A x \in ToSet(first) : x.page = page /\ x.text \in texts
  <2>1. CASE h = <<>>
    <3>1. first = <<>>
      BY <2>1
    <3> HIDE DEF first
    <3> QED
      BY <3>1, NoMember
  <2>2. CASE h # <<>>
    <3>1. first = <<H>>
      BY <2>2
    <3>2. <<H>> \in Seq(Piece) /\ \A y : y \in ToSet(<<H>>) <=> y = H
      BY <1>5, OneMember
    <3> HIDE DEF first
    <3> QED
      BY <1>3, <1>5, <2>2, <3>1, <3>2
  <2> QED
    BY <2>1, <2>2
<1>7. /\ Len(ps) \in Nat /\ DOMAIN ps = 1 .. Len(ps)
      /\ \A t : t \in ToSet(ps) <=> \E k \in 1 .. Len(ps) : ps[k] = t
      /\ \A k \in 1 .. Len(ps) : ps[k] \in Text /\ ps[k] \in ToSet(ps)
  <2>1. /\ Len(ps) \in Nat /\ DOMAIN ps = 1 .. Len(ps)
        /\ \A t : t \in ToSet(ps) <=> \E k \in 1 .. Len(ps) : ps[k] = t
        /\ ToSet(ps) \subseteq Text
    BY <1>2, Members
  <2> QED
    BY <2>1
<1>8. ASSUME NEW n \in 1 .. Len(ps)
      PROVE  /\ each[n] \in Seq(Piece)
             /\ \A x \in ToSet(each[n]) : x.page = page /\ x.text \in texts
             /\ ~IsBlank(ps[n]) => \E x \in ToSet(each[n]) : x.text = ps[n]
  <2> DEFINE t == ps[n]
  <2>1. t \in Text /\ t \in texts
    BY <1>3, <1>7
  <2>2. each[n] = IF IsBlank(t) THEN <<>> ELSE <<P(t)>>
    BY <1>7
  <2> HIDE DEF t, each
  <2>3. CASE IsBlank(t)
    <3>1. each[n] = <<>>
      BY <2>2, <2>3
    <3> QED
      BY <2>3, <3>1, NoMember DEF t
  <2>4. CASE ~IsBlank(t)
    <3>1. each[n] = <<P(t)>>
      BY <2>2, <2>4
    <3>2. P(t) \in Piece /\ P(t).text = t /\ P(t).page = page
      BY <1>4, <2>1
    <3> DEFINE q == P(t)
    <3>3. q \in Piece /\ q.text = t /\ q.page = page /\ each[n] = <<q>>
      BY <3>1, <3>2
    <3> HIDE DEF q
    <3>4. <<q>> \in Seq(Piece) /\ \A y : y \in ToSet(<<q>>) <=> y = q
      BY <3>3, OneMember
    <3> QED
      BY <2>1, <3>3, <3>4 DEF t
  <2> QED
    BY <2>3, <2>4
<1>9. each \in Seq(Seq(Piece)) /\ DOMAIN each = 1 .. Len(ps)
  <2>1. each \in [1 .. Len(ps) -> Seq(Piece)]
    <3>1. DOMAIN each = 1 .. Len(ps) /\ each = [n \in 1 .. Len(ps) |-> each[n]]
      BY <1>7
    <3> HIDE DEF each
    <3> QED
      BY <1>8, <3>1
  <2> HIDE DEF each
  <2> QED
    BY <1>7, <2>1
<1>10. /\ Concat(each) \in Seq(Piece)
       /\ ToSet(Concat(each)) = UNION {ToSet(each[n]) : n \in DOMAIN each}
  <2> HIDE DEF each
  <2> QED
    BY <1>9, ConcatSet
<1> HIDE DEF each, first
<1>11. /\ \A x \in ToSet(Concat(each)) : x.page = page /\ x.text \in texts
       /\ \A t \in ToSet(ps) : ~IsBlank(t) => \E x \in ToSet(Concat(each)) : x.text = t
  <2>1. \A x : x \in ToSet(Concat(each)) <=> \E n \in 1 .. Len(ps) : x \in ToSet(each[n])
    BY <1>9, <1>10
  <2> QED
    BY <1>7, <1>8, <2>1
<1>12. /\ last \in Seq(Piece)
       /\ \A x \in ToSet(last) : x.page = page /\ x.text \in texts
  <2>1. /\ Len(fs) \in Nat /\ DOMAIN fs = 1 .. Len(fs)
        /\ \A t : t \in ToSet(fs) <=> \E k \in 1 .. Len(fs) : fs[k] = t
        /\ ToSet(fs) \subseteq Text
    BY <1>2, Members
  <2>2. \A n \in 1 .. Len(fs) : /\ last[n] = F(fs[n]) /\ fs[n] \in ToSet(fs) /\ fs[n] \in Text
    BY <2>1
  <2>3. last \in [1 .. Len(fs) -> Piece] /\ Len(last) = Len(fs)
    <3>1. DOMAIN last = 1 .. Len(fs) /\ last = [n \in 1 .. Len(fs) |-> last[n]]
      BY <2>1
    <3> HIDE DEF last
    <3> QED
      BY <1>4, <2>1, <2>2, <3>1
  <2> HIDE DEF last
  <2>4. last \in Seq(Piece)
    BY <2>1, <2>3
  <2>5. \A x : x \in ToSet(last) <=> \E k \in 1 .. Len(fs) : last[k] = x
    BY <2>3, <2>4, Members
  <2> QED
    BY <1>3, <1>4, <2>2, <2>4, <2>5
<1> HIDE DEF last
<1> DEFINE mid == Concat(each)
           both == first \o mid
           list == both \o last
<1>13. mid \in Seq(Piece)
  BY <1>10
<1> HIDE DEF mid
<1>14. both \in Seq(Piece) /\ ToSet(both) = ToSet(first) \cup ToSet(mid)
  BY <1>6, <1>13, JoinedSet
<1> HIDE DEF both
<1>15. list \in Seq(Piece) /\ ToSet(list) = ToSet(both) \cup ToSet(last)
  BY <1>12, <1>14, JoinedSet
<1> HIDE DEF list
<1>16. SegmentsOfSection(section, page) = list
  BY <1>1 DEF list, both, mid
<1>17. \A x \in ToSet(list) : x.page = page /\ x.text \in texts
  BY <1>6, <1>11, <1>12, <1>14, <1>15 DEF mid
<1>18. \A t \in ToSet(ps) : ~IsBlank(t) => \E x \in ToSet(list) : x.text = t
  BY <1>11, <1>14, <1>15 DEF mid
<1> QED
  BY <1>15, <1>16, <1>17, <1>18 DEF ps

\* The segments of a page: of the page, with texts of its blocks, and none of
\* the blocks that are to be kept is missing.
OfPage(list, blocks, page, whole) ==
    /\ list \in Seq(Piece)
    /\ \A x \in ToSet(list) :
          x.page = page /\ \E n \in 1 .. Len(blocks) : x.text = blocks[n].text
    /\ \A n \in 1 .. Len(blocks) :
          (whole \/ Taken(blocks[n])) /\ ~IsBlank(blocks[n].text)
             => \E x \in ToSet(list) : x.text = blocks[n].text

\* The sections of a page become segments of that page,
LEMMA StructuredSegments ==
  ASSUME NEW blocks \in Seq(Block), NEW page \in Nat,
         \A n \in 1 .. Len(blocks) : blocks[n].kind # "text" => blocks[n].level = 0
  PROVE  OfPage(SegmentsOfStructured(SectionsOf(blocks), page), blocks, page, FALSE)
<1> DEFINE secs == SectionsOf(blocks)
           texts == {blocks[n].text : n \in 1 .. Len(blocks)}
           seqs == [n \in DOMAIN secs |-> SegmentsOfSection(secs[n], page)]
           list == SegmentsOfStructured(secs, page)
<1>1. /\ secs \in Seq(Section)
      /\ \A section \in ToSet(secs) : Within(section, texts)
      /\ \A n \in 1 .. Len(blocks) : Taken(blocks[n]) =>
            \E section \in ToSet(secs) : blocks[n].text \in ToSet(section.paragraphs)
  BY SectionsKeep
<1>2. list = Concat(seqs)
  BY DEF SegmentsOfStructured
<1> HIDE DEF secs, list
<1>3. /\ Len(secs) \in Nat /\ DOMAIN secs = 1 .. Len(secs)
      /\ \A x : x \in ToSet(secs) <=> \E k \in 1 .. Len(secs) : secs[k] = x
      /\ ToSet(secs) \subseteq Section
  BY <1>1, Members
<1>4. ASSUME NEW s \in ToSet(secs)
      PROVE  /\ SegmentsOfSection(s, page) \in Seq(Piece)
             /\ \A x \in ToSet(SegmentsOfSection(s, page)) : x.page = page /\ x.text \in texts
             /\ \A t \in ToSet(s.paragraphs) :
                   ~IsBlank(t) => \E x \in ToSet(SegmentsOfSection(s, page)) : x.text = t
  <2>1. s \in Section /\ Within(s, texts)
    BY <1>1, <1>3
  <2> HIDE DEF texts
  <2> QED
    BY <2>1, SectionSegments
<1>5. /\ seqs \in Seq(Seq(Piece)) /\ DOMAIN seqs = 1 .. Len(secs)
      /\ \A n \in 1 .. Len(secs) : seqs[n] = SegmentsOfSection(secs[n], page)
  <2>1. \A n \in 1 .. Len(secs) : seqs[n] = SegmentsOfSection(secs[n], page) /\ secs[n] \in ToSet(secs)
    BY <1>3
  <2>2. DOMAIN seqs = 1 .. Len(secs) /\ seqs = [n \in 1 .. Len(secs) |-> seqs[n]]
    BY <1>3
  <2> HIDE DEF seqs
  <2>3. seqs \in [1 .. Len(secs) -> Seq(Piece)]
    BY <1>4, <2>1, <2>2
  <2> QED
    BY <1>3, <2>1, <2>2, <2>3
<1> HIDE DEF seqs
<1>6. list \in Seq(Piece) /\ ToSet(list) = UNION {ToSet(seqs[n]) : n \in DOMAIN seqs}
  BY <1>2, <1>5, ConcatSet
<1>7. \A x : x \in ToSet(list) <=> \E s \in ToSet(secs) : x \in ToSet(SegmentsOfSection(s, page))
  <2>1. \A x : x \in ToSet(list) <=> \E n \in 1 .. Len(secs) : x \in ToSet(seqs[n])
    BY <1>5, <1>6
  <2> QED
    BY <1>3, <1>5, <2>1
<1>8. ASSUME NEW x \in ToSet(list)
      PROVE  x.page = page /\ \E n \in 1 .. Len(blocks) : x.text = blocks[n].text
  <2>1. x.page = page /\ x.text \in texts
    BY <1>4, <1>7
  <2> QED
    BY <2>1
<1>9. ASSUME NEW n \in 1 .. Len(blocks), Taken(blocks[n]), ~IsBlank(blocks[n].text)
      PROVE  \E x \in ToSet(list) : x.text = blocks[n].text
  <2>1. PICK s \in ToSet(secs) : blocks[n].text \in ToSet(s.paragraphs)
    BY <1>1, <1>9
  <2>2. PICK x \in ToSet(SegmentsOfSection(s, page)) : x.text = blocks[n].text
    BY <1>4, <1>9, <2>1
  <2> QED
    BY <1>7, <2>1, <2>2
<1> QED
  BY <1>6, <1>8, <1>9 DEF OfPage, list, secs

\* ... and so do its blocks, if it has not been structured.
LEMMA LayoutSegments ==
  ASSUME NEW blocks \in Seq(Block), NEW page \in Nat \ {0}
  PROVE  OfPage(SegmentsOfLayout(blocks, page), blocks, page, TRUE)
<1> DEFINE L == Len(blocks)
           P(n) == Segment(blocks[n].text, page, FALSE, blocks[n].tagged,
                           IF blocks[n].kind = "formula" THEN "formula" ELSE "text")
           seqs == [n \in DOMAIN blocks |-> IF IsBlank(blocks[n].text) THEN <<>> ELSE <<P(n)>>]
           list == SegmentsOfLayout(blocks, page)
<1>1. /\ L \in Nat /\ DOMAIN blocks = 1 .. L
      /\ \A n \in 1 .. L : blocks[n] \in Block
  BY Members
<1>2. InExamRange(page) = FALSE
  BY DEF InExamRange
<1>3. list = Concat(seqs)
  BY <1>2 DEF SegmentsOfLayout
<1> HIDE DEF list
<1>4. ASSUME NEW n \in 1 .. L
      PROVE  P(n) \in Piece /\ P(n).text = blocks[n].text /\ P(n).page = page
  <2>1. /\ blocks[n].text \in Text /\ blocks[n].tagged \in BOOLEAN
        /\ (IF blocks[n].kind = "formula" THEN "formula" ELSE "text") \in {"text", "formula"}
    BY <1>1 DEF Block, Text
  <2> DEFINE t == blocks[n].text
             h == blocks[n].tagged
             m == IF blocks[n].kind = "formula" THEN "formula" ELSE "text"
  <2>2. t \in Text /\ h \in BOOLEAN /\ m \in {"text", "formula"} /\ page \in Nat
    BY <2>1
  <2>3. P(n) = Segment(t, page, FALSE, h, m)
    OBVIOUS
  <2> DEFINE q == Segment(t, page, FALSE, h, m)
  <2> HIDE DEF t, h, m, P
  <2>5. q \in Piece /\ q.text = t /\ q.page = page
    BY <2>2 DEF Segment, Piece
  <2> HIDE DEF q
  <2>6. P(n) = q
    BY <2>3 DEF q
  <2>4. P(n) \in Piece /\ P(n).text = t /\ P(n).page = page
    BY <2>5, <2>6
  <2> QED
    BY <2>4 DEF t
<1> HIDE DEF P
<1>5. /\ DOMAIN seqs = 1 .. L /\ seqs = [n \in 1 .. L |-> seqs[n]]
      /\ \A n \in 1 .. L : seqs[n] = IF IsBlank(blocks[n].text) THEN <<>> ELSE <<P(n)>>
  BY <1>1
<1> HIDE DEF seqs
<1>6. ASSUME NEW n \in 1 .. L
      PROVE  /\ seqs[n] \in Seq(Piece)
             /\ \A x \in ToSet(seqs[n]) : x.page = page /\ x.text = blocks[n].text
             /\ ~IsBlank(blocks[n].text) => \E x \in ToSet(seqs[n]) : x.text = blocks[n].text
  <2>1. CASE IsBlank(blocks[n].text)
    <3>1. seqs[n] = <<>>
      BY <1>5, <2>1
    <3> QED
      BY <2>1, <3>1, NoMember
  <2>2. CASE ~IsBlank(blocks[n].text)
    <3> DEFINE q == P(n)
    <3>1. q \in Piece /\ q.text = blocks[n].text /\ q.page = page /\ seqs[n] = <<q>>
      BY <1>4, <1>5, <2>2
    <3> HIDE DEF q
    <3>2. <<q>> \in Seq(Piece) /\ \A y : y \in ToSet(<<q>>) <=> y = q
      BY <3>1, OneMember
    <3> QED
      BY <3>1, <3>2
  <2> QED
    BY <2>1, <2>2
<1>7. seqs \in Seq(Seq(Piece))
  <2>1. seqs \in [1 .. L -> Seq(Piece)]
    BY <1>5, <1>6
  <2> QED
    BY <1>1, <2>1
<1>8. list \in Seq(Piece) /\ ToSet(list) = UNION {ToSet(seqs[n]) : n \in DOMAIN seqs}
  BY <1>3, <1>7, ConcatSet
<1>9. \A x : x \in ToSet(list) <=> \E n \in 1 .. L : x \in ToSet(seqs[n])
  BY <1>5, <1>8
<1>10. \A x \in ToSet(list) : x.page = page /\ \E n \in 1 .. L : x.text = blocks[n].text
  BY <1>6, <1>9
<1>11. \A n \in 1 .. L : ~IsBlank(blocks[n].text) => \E x \in ToSet(list) : x.text = blocks[n].text
  BY <1>6, <1>9
<1> QED
  BY <1>8, <1>10, <1>11 DEF OfPage, list

SegmentsOf(document, whole) ==
    Concat([p \in DOMAIN document |->
              IF whole THEN SegmentsOfLayout(document[p], p)
              ELSE SegmentsOfStructured(SectionsOf(document[p]), p)])

\* The segments of a document have what its pages have.
LEMMA DocumentSegments ==
  ASSUME NEW document \in Documents, NEW whole \in BOOLEAN
  PROVE  LET list == SegmentsOf(document, whole)
         IN  /\ list \in Seq(Piece)
             /\ \A x \in ToSet(list) :
                   /\ x.page \in DOMAIN document
                   /\ \E n \in DOMAIN document[x.page] : x.text = document[x.page][n].text
             /\ \A p \in DOMAIN document : \A n \in DOMAIN document[p] :
                   (whole \/ Taken(document[p][n])) /\ ~IsBlank(document[p][n].text)
                      => \E x \in ToSet(list) : x.page = p /\ x.text = document[p][n].text
<1> DEFINE L == Len(document)
           Page(p) == IF whole THEN SegmentsOfLayout(document[p], p)
                      ELSE SegmentsOfStructured(SectionsOf(document[p]), p)
           seqs == [p \in DOMAIN document |-> Page(p)]
           list == SegmentsOf(document, whole)
<1>1. document \in Seq(Seq(Block))
  BY ChunkingAssumption
<1>2. /\ L \in Nat /\ DOMAIN document = 1 .. L
      /\ \A p \in 1 .. L : document[p] \in Seq(Block)
  BY <1>1, LenProperties, ElementOfSeq
<1>3. \A p \in 1 .. L : DOMAIN document[p] = 1 .. Len(document[p])
  BY <1>2, LenProperties
<1>4. ASSUME NEW p \in 1 .. L
      PROVE  OfPage(Page(p), document[p], p, whole)
  <2>1. /\ p \in Nat \ {0} /\ document[p] \in Seq(Block)
        /\ \A n \in 1 .. Len(document[p]) :
              document[p][n].kind # "text" => document[p][n].level = 0
    BY <1>2, <1>3, ChunkingAssumption
  <2>2. CASE whole
    BY <2>1, <2>2, LayoutSegments DEF OfPage
  <2>3. CASE ~whole
    <3>1. whole = FALSE
      BY <2>3
    <3> QED
      BY <2>1, <3>1, StructuredSegments
  <2> QED
    BY <2>2, <2>3
<1>5. list = Concat(seqs)
  BY DEF SegmentsOf
<1>6. DOMAIN seqs = 1 .. L /\ seqs = [p \in 1 .. L |-> seqs[p]] /\ \A p \in 1 .. L : seqs[p] = Page(p)
  BY <1>2
<1> HIDE DEF list, seqs, Page
<1>7. seqs \in Seq(Seq(Piece))
  <2>1. \A p \in 1 .. L : seqs[p] \in Seq(Piece)
    BY <1>4, <1>6 DEF OfPage
  <2>2. seqs \in [1 .. L -> Seq(Piece)]
    BY <1>6, <2>1
  <2>3. L \in Nat
    BY <1>2
  <2> HIDE DEF L
  <2> DEFINE Pieces == Seq(Piece)
  <2>4. seqs \in [1 .. L -> Pieces]
    BY <2>2
  <2> HIDE DEF Pieces
  <2>5. seqs \in Seq(Pieces)
    BY <2>3, <2>4
  <2> QED
    BY <2>5 DEF Pieces
<1>8. list \in Seq(Piece) /\ ToSet(list) = UNION {ToSet(seqs[p]) : p \in DOMAIN seqs}
  BY <1>5, <1>7, ConcatSet
<1>9. \A x : x \in ToSet(list) <=> \E p \in 1 .. L : x \in ToSet(Page(p))
  BY <1>6, <1>8
<1>10. ASSUME NEW x \in ToSet(list)
       PROVE  /\ x.page \in DOMAIN document
              /\ \E n \in DOMAIN document[x.page] : x.text = document[x.page][n].text
  <2>1. PICK p \in 1 .. L : x \in ToSet(Page(p))
    BY <1>9
  <2>2. x.page = p /\ \E n \in 1 .. Len(document[p]) : x.text = document[p][n].text
    BY <1>4, <2>1 DEF OfPage
  <2> QED
    BY <1>2, <1>3, <2>2
<1>11. ASSUME NEW p \in DOMAIN document, NEW n \in DOMAIN document[p],
              whole \/ Taken(document[p][n]), ~IsBlank(document[p][n].text)
       PROVE  \E x \in ToSet(list) : x.page = p /\ x.text = document[p][n].text
  <2>1. p \in 1 .. L /\ n \in 1 .. Len(document[p])
    BY <1>2, <1>3
  <2>2. PICK x \in ToSet(Page(p)) : x.text = document[p][n].text
    BY <1>4, <1>11, <2>1 DEF OfPage
  <2>3. x.page = p
    BY <1>4, <2>1, <2>2 DEF OfPage
  <2> QED
    BY <1>9, <2>1, <2>2, <2>3
<1> QED
  BY <1>8, <1>10, <1>11 DEF list

-----------------------------------------------------------------------------
(* Chunks                                                                  *)

\* An overlap is no longer than overlap_chars.
LEMMA OverlapSize ==
  ASSUME NEW text \in Text
  PROVE  OverlapOf(text) \in Text /\ Len(OverlapOf(text)) <= overlap_chars
<1> DEFINE m == Max({1, Len(text) - overlap_chars + 1})
           n == Len(text)
           tail == SubSeq(text, m, n)
           kept == {k \in DOMAIN tail : tail[k].class = "letter"}
<1>1. n \in Nat /\ overlap_chars \in Nat
  BY TextFacts, Sizes
<1>2. m = IF 1 >= n - overlap_chars + 1 THEN 1 ELSE n - overlap_chars + 1
  <2>1. 1 \in Int /\ Len(text) - overlap_chars + 1 \in Int
    BY <1>1
  <2> QED
    BY <2>1, LargerOfTwo
<1> HIDE DEF m
<1>3. m \in 1 .. n + 1 /\ n \in 0 .. n /\ m <= n + 1 /\ n - m + 1 <= overlap_chars /\ n - m + 1 \in Nat
  BY <1>1, <1>2
<1>4. tail \in Text /\ Len(tail) = n - m + 1
  BY <1>3, PartFacts
<1> HIDE DEF tail
<1>5. /\ Len(tail) \in Nat /\ Len(tail) <= overlap_chars
      /\ DOMAIN tail = 1 .. Len(tail)
  BY <1>3, <1>4, TextFacts
<1>6. LStrip(tail) \in Text /\ Len(LStrip(tail)) <= Len(tail)
  <2>1. CASE kept = {}
    <3>1. LStrip(tail) = <<>>
      BY <2>1 DEF LStrip
    <3> QED
      BY <1>5, <3>1, Separators
  <2>2. CASE kept # {}
    <3>1. LStrip(tail) = SubSeq(tail, Min(kept), Len(tail))
      BY <2>2 DEF LStrip
    <3>2. kept \in SUBSET Nat
      BY <1>5
    <3> DEFINE a == Min(kept)
               b == Len(tail)
    <3>3. a \in kept
      <4> HIDE DEF kept
      <4> QED
        BY <2>2, <3>2, LeastNumber
    <3>4. a \in 1 .. Len(tail) + 1 /\ b \in 0 .. Len(tail) /\ a <= b + 1 /\ b - a + 1 <= b
      BY <1>5, <3>3
    <3> HIDE DEF a, b
    <3>5. SubSeq(tail, a, b) \in Text /\ Len(SubSeq(tail, a, b)) = b - a + 1
      BY <1>4, <3>4, PartFacts
    <3> QED
      BY <3>1, <3>4, <3>5 DEF a, b
  <2> QED
    BY <2>1, <2>2
<1>7. OverlapOf(text) = tail \/ OverlapOf(text) = LStrip(tail)
  BY DEF OverlapOf, tail, m, n
<1>8. Len(LStrip(tail)) <= overlap_chars
  <2>1. Len(LStrip(tail)) \in Nat
    BY <1>6, TextFacts
  <2> QED
    BY <1>1, <1>5, <1>6, <2>1
<1> QED
  BY <1>4, <1>5, <1>6, <1>7, <1>8

\* What stands before the text of a chunk.
Before(o) == o = <<>> \/ \E q \in Text : o = q \o <<Newline>>

\* A chunk is its merged piece behind an overlap and a newline.
LEMMA OverlapKeeps ==
  ASSUME NEW list \in Seq(Piece)
  PROVE  LET new == AddOverlap(list)
         IN  /\ Len(new) = Len(list) /\ DOMAIN new = 1 .. Len(list)
             /\ \A n \in 1 .. Len(list) :
                   /\ new[n].page = list[n].page
                   /\ \E o \in Text : /\ Before(o) /\ Len(o) <= overlap_chars + 1
                                      /\ new[n].text = o \o list[n].text
<1> DEFINE new == AddOverlap(list)
           L == Len(list)
<1>1. /\ L \in Nat /\ DOMAIN list = 1 .. L
      /\ \A n \in 1 .. L : list[n] \in Piece /\ list[n].text \in Text
  <2>1. L \in Nat /\ DOMAIN list = 1 .. L /\ \A n \in 1 .. L : list[n] \in Piece
    BY LenProperties, ElementOfSeq
  <2>2. \A x \in Piece : x.text \in Text
    BY DEF Piece
  <2> QED
    BY <2>1, <2>2
<1>2. overlap_chars \in Nat /\ <<>> \in Text /\ Len(<<>>) = 0
  BY Sizes, Separators
<1>3. ASSUME NEW n \in 1 .. L
      PROVE  \E o \in Text : /\ Before(o) /\ Len(o) <= overlap_chars + 1
                             /\ list[n].text = o \o list[n].text
  <2>1. list[n].text = <<>> \o list[n].text
    BY <1>1, ConcatEmptySeq DEF Text
  <2>2. Len(<<>>) <= overlap_chars + 1 /\ Before(<<>>)
    BY <1>2 DEF Before
  <2> QED
    BY <1>2, <2>1, <2>2
<1>4. CASE overlap_chars = 0
  <2>1. new = list
    BY <1>4 DEF AddOverlap
  <2> QED
    BY <1>1, <1>3, <2>1
<1>5. CASE overlap_chars # 0
  <2> DEFINE both == [n \in 1 .. L |->
                        IF n = 1 THEN list[n]
                        ELSE [list[n] EXCEPT !.text = OverlapOf(list[n - 1].text) \o <<Newline>> \o @]]
  <2>1. new = both
    BY <1>1, <1>5 DEF AddOverlap
  <2>2. Len(both) = L /\ DOMAIN both = 1 .. L
    BY <1>1
  <2>3. ASSUME NEW n \in 1 .. L
        PROVE  /\ both[n].page = list[n].page
               /\ \E o \in Text : /\ Before(o) /\ Len(o) <= overlap_chars + 1
                                  /\ both[n].text = o \o list[n].text
    <3>1. CASE n = 1
      <4>1. both[n] = list[n]
        BY <3>1
      <4> HIDE DEF both
      <4> QED
        BY <1>3, <4>1
    <3>2. CASE n # 1
      <4> DEFINE q == OverlapOf(list[n - 1].text)
                 o == q \o <<Newline>>
                 t == o \o list[n].text
      <4>1. both[n] = [list[n] EXCEPT !.text = t]
        BY <3>2
      <4>2. list[n - 1].text \in Text
        <5>1. n - 1 \in 1 .. L
          BY <1>1, <3>2
        <5> QED
          BY <1>1, <5>1
      <4>3. q \in Text /\ Len(q) <= overlap_chars /\ Len(q) \in Nat
        BY <4>2, OverlapSize, TextFacts
      <4> HIDE DEF both, q
      <4>4. o \in Text /\ Len(o) = Len(q) + 1
        BY <4>3, Separators, JoinedTexts
      <4>5. Before(o)
        BY <4>3 DEF Before
      <4>6. Len(o) <= overlap_chars + 1
        BY <1>2, <4>3, <4>4
      <4> HIDE DEF o
      <4>7. t \in Text
        BY <1>1, <4>4, JoinedTexts
      <4> DEFINE x == list[n]
      <4>8. x \in Piece /\ both[n] = [x EXCEPT !.text = t]
        BY <1>1, <4>1
      <4> HIDE DEF x, t
      <4>9. both[n].text = t /\ both[n].page = x.page
        BY <4>7, <4>8, PieceText
      <4> QED
        BY <4>4, <4>5, <4>6, <4>9 DEF x, t
    <3> QED
      BY <3>1, <3>2
  <2> HIDE DEF both, new
  <2> QED
    BY <2>1, <2>2, <2>3 DEF new
<1> QED
  BY <1>4, <1>5

\* The characters of a chunk are its own, but for those before its own text.
LEMMA OwnCharacters ==
  ASSUME NEW o \in Text, NEW t \in Text, Before(o), NEW m \in Solid(o \o t)
  PROVE  (o \o t)[m].id \in Ids(t) \cup {0} \/ m < Len(o)
<1> DEFINE c == o \o t
<1>1. /\ c \in Text /\ Len(c) = Len(o) + Len(t)
      /\ \A i \in 1 .. Len(o) + Len(t) : c[i] = IF i <= Len(o) THEN o[i] ELSE t[i - Len(o)]
  BY ConcatProperties DEF Text
<1> HIDE DEF c
<1>2. /\ Len(o) \in Nat /\ Len(t) \in Nat /\ DOMAIN t = 1 .. Len(t) /\ DOMAIN c = 1 .. Len(o) + Len(t)
  BY <1>1, TextFacts
<1>3. m \in 1 .. Len(o) + Len(t) /\ ~IsWhite(c[m])
  BY <1>2 DEF Solid, c
<1>4. CASE m > Len(o)
  <2>1. m - Len(o) \in 1 .. Len(t) /\ ~(m <= Len(o))
    BY <1>2, <1>3, <1>4
  <2>2. c[m] = t[m - Len(o)]
    BY <1>1, <1>3, <2>1
  <2>3. m - Len(o) \in Solid(t)
    BY <1>2, <1>3, <2>1, <2>2 DEF Solid
  <2>4. c[m].id \in Ids(t) \cup {0}
    BY <2>2, <2>3 DEF Ids
  <2> QED
    BY <2>4 DEF c
<1>5. CASE m = Len(o)
  <2>1. o # <<>>
    <3> SUFFICES ASSUME o = <<>> PROVE FALSE
      OBVIOUS
    <3>1. Len(o) = 0
      BY Separators
    <3> QED
      BY <1>3, <1>5, <3>1
  <2>2. PICK q \in Text : o = q \o <<Newline>>
    BY <2>1 DEF Before
  <2> DEFINE one == <<Newline>>
  <2>3. one \in Text /\ Len(one) = 1 /\ one[1] = Newline
    BY Separators
  <2> HIDE DEF one
  <2>4. /\ Len(q \o one) = Len(q) + 1
        /\ \A i \in 1 .. Len(q) + 1 : (q \o one)[i] = IF i <= Len(q) THEN q[i] ELSE one[i - Len(q)]
    <3>1. /\ Len(q \o one) = Len(q) + Len(one)
          /\ \A i \in 1 .. Len(q) + Len(one) :
                (q \o one)[i] = IF i <= Len(q) THEN q[i] ELSE one[i - Len(q)]
      BY <2>3, ConcatProperties DEF Text
    <3> QED
      BY <2>3, <3>1
  <2>5. Len(q) \in Nat /\ m = Len(q) + 1
    BY <1>5, <2>2, <2>4, TextFacts DEF one
  <2>6. m \in 1 .. Len(q) + 1 /\ ~(m <= Len(q)) /\ m - Len(q) = 1
    BY <2>5
  <2>7. o[m] = Newline
    BY <2>2, <2>3, <2>4, <2>6 DEF one
  <2>8. c[m] = Newline
    <3>1. m <= Len(o)
      BY <1>2, <1>3, <1>5
    <3> QED
      BY <1>1, <1>3, <2>7, <3>1
  <2>9. IsWhite(Newline)
    BY DEF Newline, IsWhite
  <2> QED
    BY <1>3, <2>8, <2>9
<1>6. CASE m < Len(o)
  BY <1>6
<1>7. m > Len(o) \/ m = Len(o) \/ m < Len(o)
  BY <1>2, <1>3
<1> QED
  BY <1>4, <1>5, <1>6, <1>7

-----------------------------------------------------------------------------
(* The import                                                              *)

\* Each step has left what it makes of the result of the one before it.
Pipeline ==
    /\ layout \in Documents /\ direct \in BOOLEAN
    /\ pc \in {"structure", "flatten", "split", "merge", "overlap", "done"}
    /\ pc = "flatten" /\ ~direct => structured = [p \in DOMAIN layout |-> SectionsOf(layout[p])]
    /\ pc \in {"split", "merge", "overlap", "done"} => segments = SegmentsOf(layout, direct)
    /\ pc \in {"merge", "overlap", "done"} => pieces = SplitSegments(segments)
    /\ pc \in {"overlap", "done"} => merged = MergeShortChunks(pieces)
    /\ pc = "done" => chunks = AddOverlap(merged)

\* Each step makes its result of the one before.
LEMMA PipelineSteps ==
  /\ ChunkingInit => Pipeline
  /\ Pipeline /\ [ChunkingNext]_chunkingVars => Pipeline'
<1>1. ChunkingInit => Pipeline
  BY DEF ChunkingInit, Pipeline
<1>2. ASSUME Pipeline, [ChunkingNext]_chunkingVars PROVE Pipeline'
  <2> USE <1>2
  <2>1. CASE Structure
    BY <2>1 DEF Structure, StepsTo, Pipeline
  <2>2. CASE FlattenPages
    <3>1. segments' = SegmentsOf(layout, direct)
      <4>1. CASE direct
        BY <2>2, <4>1 DEF FlattenPages, SegmentsOf
      <4>2. CASE ~direct
        <5>1. structured = [p \in DOMAIN layout |-> SectionsOf(layout[p])]
          BY <2>2, <4>2 DEF FlattenPages, StepsTo, Pipeline
        <5>2. [p \in DOMAIN layout |-> SegmentsOfStructured(structured[p], p)]
                = [p \in DOMAIN layout |-> SegmentsOfStructured(SectionsOf(layout[p]), p)]
          BY <5>1
        <5>3. /\ segments' = Concat([p \in DOMAIN layout |-> SegmentsOfStructured(structured[p], p)])
              /\ SegmentsOf(layout, direct)
                   = Concat([p \in DOMAIN layout |-> SegmentsOfStructured(SectionsOf(layout[p]), p)])
          BY <2>2, <4>2 DEF FlattenPages, SegmentsOf
        <5> QED
          BY <5>2, <5>3
      <4> QED
        BY <4>1, <4>2 DEF Pipeline
    <3> QED
      BY <2>2, <3>1 DEF FlattenPages, StepsTo, Pipeline
  <2>3. CASE Split
    BY <2>3 DEF Split, StepsTo, Pipeline
  <2>4. CASE Merge
    BY <2>4 DEF Merge, StepsTo, Pipeline
  <2>5. CASE Overlap
    BY <2>5 DEF Overlap, StepsTo, Pipeline
  <2>6. CASE UNCHANGED chunkingVars
    BY <2>6 DEF chunkingVars, results, Pipeline
  <2> QED
    BY <2>1, <2>2, <2>3, <2>4, <2>5, <2>6 DEF ChunkingNext
<1> QED
  BY <1>1, <1>2

LEMMA PipelineHolds == ChunkingSpec => []Pipeline
  BY PipelineSteps, PTL DEF ChunkingSpec

\* No character of a paragraph or formula is lost on the way to the chunks, and
\* none turns up in a chunk of another page, but for the overlap.
THEOREM NoCharacterIsLost == ChunkingSpec => []NothingLost
<1>1. ASSUME Pipeline PROVE NothingLost
  <2> SUFFICES ASSUME pc = "done" PROVE NothingLost
    BY DEF NothingLost
  <2>1. /\ layout \in Documents /\ direct \in BOOLEAN
        /\ segments = SegmentsOf(layout, direct)
        /\ pieces = SplitSegments(segments)
        /\ merged = MergeShortChunks(pieces)
        /\ chunks = AddOverlap(merged)
    BY <1>1 DEF Pipeline
  <2>2. /\ segments \in Seq(Piece)
        /\ \A x \in ToSet(segments) :
              /\ x.page \in DOMAIN layout
              /\ \E n \in DOMAIN layout[x.page] : x.text = layout[x.page][n].text
        /\ \A p \in DOMAIN layout : \A n \in DOMAIN layout[p] :
              (direct \/ Taken(layout[p][n])) /\ ~IsBlank(layout[p][n].text)
                 => \E x \in ToSet(segments) : x.page = p /\ x.text = layout[p][n].text
    <3> DEFINE list == SegmentsOf(layout, direct)
    <3>1. /\ list \in Seq(Piece)
          /\ \A x \in ToSet(list) :
                /\ x.page \in DOMAIN layout
                /\ \E n \in DOMAIN layout[x.page] : x.text = layout[x.page][n].text
          /\ \A p \in DOMAIN layout : \A n \in DOMAIN layout[p] :
                (direct \/ Taken(layout[p][n])) /\ ~IsBlank(layout[p][n].text)
                   => \E x \in ToSet(list) : x.page = p /\ x.text = layout[p][n].text
      BY <2>1, DocumentSegments
    <3> HIDE DEF list
    <3>2. segments = list
      BY <2>1 DEF list
    <3> QED
      BY <3>1, <3>2
  <2>3. /\ pieces \in Seq(Piece)
        /\ \A p : Found(pieces, p) = Found(segments, p)
        /\ \A y \in ToSet(pieces) : Len(y.text) <= Longest
    BY <2>1, <2>2, SplitFinds
  <2>4. merged \in Seq(Piece) /\ \A p : Found(merged, p) = Found(pieces, p)
    BY <2>1, <2>3, MergeKeeps
  <2>5. /\ Len(merged) \in Nat
        /\ \A y : y \in ToSet(merged) <=> \E n \in 1 .. Len(merged) : merged[n] = y
        /\ \A n \in 1 .. Len(merged) :
              merged[n] \in Piece /\ merged[n] \in ToSet(merged) /\ merged[n].text \in Text
    <3>1. /\ Len(merged) \in Nat
          /\ \A y : y \in ToSet(merged) <=> \E n \in 1 .. Len(merged) : merged[n] = y
          /\ ToSet(merged) \subseteq Piece
      BY <2>4, Members
    <3>2. \A x \in Piece : x.text \in Text
      BY DEF Piece
    <3> QED
      BY <3>1, <3>2
  <2>6. /\ DOMAIN chunks = 1 .. Len(merged)
        /\ \A n \in 1 .. Len(merged) :
              /\ chunks[n].page = merged[n].page
              /\ \E o \in Text : /\ Before(o) /\ Len(o) <= overlap_chars + 1
                                 /\ chunks[n].text = o \o merged[n].text
    BY <2>1, <2>4, OverlapKeeps
  <2> DEFINE chunksOf(p) == {n \in DOMAIN chunks : chunks[n].page = p}
             ofPage(p) == UNION {Ids(layout[p][b].text) : b \in DOMAIN layout[p]}
  <2>7. ASSUME NEW p \in DOMAIN layout, NEW b \in DOMAIN layout[p], Searchable(layout[p][b]),
               NEW i \in Ids(layout[p][b].text)
        PROVE  \E n \in chunksOf(p) : i \in Ids(chunks[n].text)
    <3> DEFINE t == layout[p][b].text
    <3>1. t \in Text
      <4>1. layout \in Seq(Seq(Block))
        BY <2>1, ChunkingAssumption
      <4>2. layout[p] \in Seq(Block)
        BY <4>1, LenProperties, ElementOfSeq
      <4>3. layout[p][b] \in Block
        BY <4>2, LenProperties, ElementOfSeq
      <4> QED
        BY <4>3 DEF Block, Text
    <3>2. direct \/ Taken(layout[p][b])
      BY <2>7 DEF Searchable, Taken
    <3>3. ~IsBlank(t)
      <4> HIDE DEF t
      <4>1. i \in Ids(t)
        BY <2>7 DEF t
      <4> QED
        BY <3>1, <4>1, BlankTexts
    <3>4. PICK x \in ToSet(segments) : x.page = p /\ x.text = t
      BY <2>2, <3>2, <3>3
    <3>5. i \in Found(segments, p)
      BY <2>7, <3>4 DEF Found
    <3>6. i \in Found(merged, p)
      BY <2>3, <2>4, <3>5
    <3>7. PICK y \in ToSet(merged) : y.page = p /\ i \in Ids(y.text)
      BY <3>6 DEF Found
    <3>8. PICK n \in 1 .. Len(merged) : merged[n] = y
      BY <2>5
    <3>9. PICK o \in Text : chunks[n].text = o \o merged[n].text
      BY <2>6
    <3> DEFINE u == merged[n].text
    <3>10. u \in Text /\ chunks[n].text = o \o u /\ i \in Ids(u)
      BY <2>5, <3>7, <3>8, <3>9
    <3> HIDE DEF u
    <3>11. i \in Ids(o \o u)
      BY <3>10, JoinedTexts
    <3>12. n \in chunksOf(p)
      BY <2>6, <3>7, <3>8
    <3> QED
      BY <3>10, <3>11, <3>12
  <2>8. ASSUME NEW p \in DOMAIN layout, NEW n \in chunksOf(p), NEW m \in Solid(chunks[n].text),
               chunks[n].text[m].id \notin ofPage(p) \union {0}
        PROVE  LET own == Len(chunks[n].text) - Len(merged[n].text)
               IN  m < own /\ own <= overlap_chars + 1
    <3> DEFINE u == merged[n].text
               c == chunks[n].text
    <3>1. n \in 1 .. Len(merged) /\ chunks[n].page = p /\ merged[n].page = p
      BY <2>6
    <3>2. PICK o \in Text : /\ Before(o) /\ Len(o) <= overlap_chars + 1
                            /\ c = o \o u
      BY <2>6, <3>1
    <3>3. u \in Text /\ Len(u) \in Nat /\ Len(o) \in Nat
      BY <2>5, <3>1, TextFacts
    <3>4. Ids(u) \subseteq ofPage(p)
      <4> SUFFICES ASSUME NEW i \in Ids(u) PROVE i \in ofPage(p)
        OBVIOUS
      <4>1. i \in Found(merged, p)
        BY <2>5, <3>1 DEF Found
      <4>2. i \in Found(segments, p)
        BY <2>3, <2>4, <4>1
      <4>3. PICK x \in ToSet(segments) : x.page = p /\ i \in Ids(x.text)
        BY <4>2 DEF Found
      <4>4. PICK b \in DOMAIN layout[p] : x.text = layout[p][b].text
        BY <2>2, <4>3
      <4> QED
        BY <4>3, <4>4
    <3> HIDE DEF u
    <3>5. Len(o \o u) = Len(o) + Len(u)
      BY <3>3, JoinedTexts
    <3>6. m \in Solid(o \o u) /\ (o \o u)[m].id \notin ofPage(p) \cup {0}
      BY <2>8, <3>2
    <3>7. (o \o u)[m].id \in Ids(u) \cup {0} \/ m < Len(o)
      BY <3>2, <3>3, <3>6, OwnCharacters
    <3>8. m < Len(o)
      <4> HIDE DEF ofPage
      <4> QED
        BY <3>4, <3>6, <3>7
    <3>9. Len(c) - Len(u) = Len(o)
      BY <3>2, <3>3, <3>5
    <3> QED
      BY <3>2, <3>8, <3>9 DEF u
  <2>9. \A p \in DOMAIN layout : \A b \in DOMAIN layout[p] : Searchable(layout[p][b]) =>
           Ids(layout[p][b].text) \subseteq UNION {Ids(chunks[n].text) : n \in chunksOf(p)}
    <3> HIDE DEF chunksOf
    <3> QED
      BY <2>7
  <2>10. \A p \in DOMAIN layout : \A n \in chunksOf(p) :
            LET own == Len(chunks[n].text) - Len(merged[n].text)
            IN  \A m \in Solid(chunks[n].text) :
                  chunks[n].text[m].id \notin ofPage(p) \union {0} => m < own /\ own <= overlap_chars + 1
    <3> HIDE DEF chunksOf, ofPage
    <3> QED
      BY <2>8
  <2> QED
    BY <2>9, <2>10, Zenon DEF NothingLost
<1> QED
  BY <1>1, PipelineHolds, PTL

\* The pieces of a segment are cut from it in order, leave only white space
\* between them and repeat nothing where there are breakpoints.
THEOREM CutsFollow == ChunkingSpec => []PiecesFollow
<1>1. ASSUME Pipeline PROVE PiecesFollow
  <2> SUFFICES ASSUME pc = "merge", NEW s \in {n \in DOMAIN segments : segments[n].text # <<>>}
               PROVE  LET text == segments[s].text
                          cut == SplitSegment(segments[s])
                          starts(k) == CHOOSE n \in DOMAIN text : text[n] = cut[k].text[1]
                          ends(k) == starts(k) + Len(cut[k].text) - 1
                      IN  \A k \in DOMAIN cut :
                             /\ cut[k].text = SubSeq(text, starts(k), ends(k))
                             /\ k > 1 => /\ starts(k - 1) < starts(k)
                                         /\ IsBlank(SubSeq(text, ends(k - 1) + 1, starts(k) - 1))
                                         /\ Breakpoints(text) # {} => ends(k - 1) < starts(k)
    BY Zenon DEF PiecesFollow
  <2> DEFINE x == segments[s]
             text == x.text
             cut == SplitSegment(x)
             texts == TextsOf(cut)
             starts(k) == CHOOSE n \in DOMAIN text : text[n] = cut[k].text[1]
             ends(k) == starts(k) + Len(cut[k].text) - 1
  <2>1. /\ layout \in Documents /\ direct \in BOOLEAN
        /\ segments = SegmentsOf(layout, direct)
    BY <1>1 DEF Pipeline
  <2>2. /\ segments \in Seq(Piece)
        /\ \A y \in ToSet(segments) :
              /\ y.page \in DOMAIN layout
              /\ \E n \in DOMAIN layout[y.page] : y.text = layout[y.page][n].text
    BY <2>1, DocumentSegments
  <2>3. x \in Piece /\ x \in ToSet(segments) /\ text # <<>>
    <3>1. s \in DOMAIN segments
      OBVIOUS
    <3> QED
      BY <2>2, <3>1, LenProperties, ElementOfSeq DEF ToSet
  <2>4. \A n, m \in DOMAIN text : text[n] = text[m] => n = m
    <3>1. PICK b \in DOMAIN layout[x.page] : text = layout[x.page][b].text
      BY <2>2, <2>3
    <3>2. x.page \in DOMAIN layout
      BY <2>2, <2>3
    <3> QED
      BY <2>1, <3>1, <3>2, ChunkingAssumption
  <2>5. /\ cut \in Seq(Piece) /\ texts \in Seq(Text)
        /\ \E from, to : Places(text, texts, from, to)
    BY <2>3, SplitPieces
  <2>6. PICK from : \E to : Places(text, texts, from, to)
    BY <2>5
  <2>7. PICK to : Places(text, texts, from, to)
    BY <2>6
  <2>8. text \in Text /\ Len(text) \in Nat /\ DOMAIN text = 1 .. Len(text)
    BY <2>3, TextFacts DEF Piece
  <2>9. /\ Len(cut) \in Nat /\ DOMAIN cut = 1 .. Len(cut) /\ Len(texts) = Len(cut)
        /\ \A k \in 1 .. Len(cut) : texts[k] = cut[k].text
    <3>1. Len(cut) \in Nat /\ DOMAIN cut = 1 .. Len(cut)
      <4> HIDE DEF cut, texts
      <4> QED
        BY <2>5, Members
    <3>2. texts = [k \in 1 .. Len(cut) |-> cut[k].text]
      BY DEF TextsOf
    <3> HIDE DEF cut, texts
    <3> QED
      BY <3>1, <3>2
  <2> HIDE DEF x, cut, texts
  <2>10. ASSUME NEW k \in 1 .. Len(cut)
         PROVE  /\ starts(k) = from[k] /\ ends(k) = to[k]
                /\ from[k] \in 1 .. Len(text) /\ to[k] \in from[k] .. Len(text)
                /\ cut[k].text = SubSeq(text, from[k], to[k])
    <3> DEFINE a == from[k]
               b == to[k]
               t == cut[k].text
    <3>1. a \in 1 .. Len(text) /\ b \in 1 .. Len(text) /\ a <= b /\ t = SubSeq(text, a, b)
      BY <2>7, <2>9 DEF Places
    <3> HIDE DEF a, b, t
    <3>2. a \in 1 .. Len(text) + 1 /\ b \in 0 .. Len(text) /\ a <= b + 1
      BY <2>8, <3>1
    <3>3. /\ Len(t) = b - a + 1
          /\ \A i \in 1 .. b - a + 1 : t[i] = text[a + i - 1]
      BY <2>8, <3>1, <3>2, PartFacts
    <3>4. t[1] = text[a]
      <4>1. 1 \in 1 .. b - a + 1 /\ a + 1 - 1 = a
        BY <3>1
      <4>2. t[1] = text[a + 1 - 1]
        BY <3>3, <4>1
      <4> QED
        BY <4>1, <4>2
    <3>5. starts(k) = a
      <4>1. starts(k) = CHOOSE n \in DOMAIN text : text[n] = text[a]
        BY <3>4 DEF t
      <4> HIDE DEF starts
      <4>2. a \in DOMAIN text
        BY <2>8, <3>1
      <4>3. \A n \in DOMAIN text : text[n] = text[a] <=> n = a
        BY <2>4, <4>2
      <4> QED
        BY <4>1, <4>2, <4>3
    <3>6. ends(k) = a + Len(t) - 1
      <4>1. ends(k) = starts(k) + Len(cut[k].text) - 1
        OBVIOUS
      <4> HIDE DEF starts, ends
      <4> QED
        BY <3>5, <4>1 DEF t
    <3> HIDE DEF starts, ends
    <3>7. ends(k) = b
      BY <3>1, <3>3, <3>6
    <3>8. b \in a .. Len(text)
      BY <3>1
    <3> QED
      BY <3>1, <3>5, <3>7, <3>8 DEF a, b, t
  <2> HIDE DEF starts, ends
  <2>11. ASSUME NEW k \in 1 .. Len(cut), k > 1
         PROVE  /\ from[k - 1] < from[k]
                /\ IsBlank(SubSeq(text, to[k - 1] + 1, from[k] - 1))
                /\ Breakpoints(text) # {} => to[k - 1] < from[k]
    <3>1. k - 1 \in 1 .. Len(cut) /\ k - 1 < k
      BY <2>9, <2>11
    <3>2. /\ from[k - 1] < from[k] /\ to[k - 1] <= to[k]
          /\ Breakpoints(text) # {} => to[k - 1] < from[k]
      BY <2>7, <2>9, <3>1 DEF Places
    <3> DEFINE a == to[k - 1] + 1
               b == from[k] - 1
    <3>3. a \in 1 .. Len(text) + 1 /\ b \in 0 .. Len(text)
      <4> DEFINE size == Len(text)
                 last == to[k - 1]
                 first == from[k - 1]
                 next == from[k]
      <4>1. size \in Nat /\ next \in 1 .. size
        BY <2>8, <2>10
      <4>2. first \in 1 .. size /\ last \in first .. size
        BY <2>10, <3>1
      <4> HIDE DEF size, last, first, next
      <4>3. last + 1 \in 1 .. size + 1 /\ next - 1 \in 0 .. size
        BY <4>1, <4>2
      <4> QED
        BY <4>3 DEF size, last, next
    <3>4. CASE a <= b + 1
      <4> DEFINE u == SubSeq(text, a, b)
      <4>1. \A n \in Solid(text) : ~(a <= n /\ n <= b)
        <5> SUFFICES ASSUME NEW n \in Solid(text), a <= n, n <= b PROVE FALSE
          OBVIOUS
        <5>1. n \in 1 .. Len(text)
          BY <2>8, TextFacts
        <5>2. PICK l \in 1 .. Len(cut) : from[l] <= n /\ n <= to[l]
          BY <2>7, <2>9 DEF Places
        <5>3. /\ from[l] \in 1 .. Len(text) /\ to[l] \in 1 .. Len(text)
              /\ from[k] \in 1 .. Len(text) /\ to[k - 1] \in 1 .. Len(text)
          BY <2>7, <2>9, <3>1 DEF Places
        <5>4. CASE k <= l
          <6>1. from[k] <= from[l]
            <7>1. CASE k = l
              BY <5>3, <7>1
            <7>2. CASE k < l
              <8>1. from[k] < from[l]
                BY <2>7, <2>9, <7>2 DEF Places
              <8> QED
                BY <5>3, <8>1
            <7> QED
              BY <2>9, <5>4, <7>1, <7>2
          <6> QED
            BY <5>1, <5>2, <5>3, <6>1
        <5>5. CASE l <= k - 1
          <6>1. to[l] <= to[k - 1]
            <7>1. CASE l = k - 1
              BY <5>3, <7>1
            <7>2. CASE l < k - 1
              BY <2>7, <2>9, <3>1, <7>2 DEF Places
            <7> QED
              BY <2>9, <3>1, <5>5, <7>1, <7>2
          <6> QED
            BY <5>1, <5>2, <5>3, <6>1
        <5> QED
          BY <2>9, <5>4, <5>5
      <4> HIDE DEF a, b
      <4>2. u \in Text /\ DOMAIN u = 1 .. b - a + 1
            /\ \A i \in 1 .. b - a + 1 : u[i] = text[a + i - 1]
        <5>1. /\ u \in Text /\ Len(u) = b - a + 1
              /\ \A i \in 1 .. b - a + 1 : u[i] = text[a + i - 1]
          BY <2>8, <3>3, <3>4, PartFacts
        <5> HIDE DEF u
        <5> QED
          BY <5>1, TextFacts
      <4> HIDE DEF u
      <4>3. Solid(u) = {}
        <5> SUFFICES ASSUME NEW i \in Solid(u) PROVE FALSE
          OBVIOUS
        <5>1. i \in 1 .. b - a + 1 /\ ~IsWhite(u[i])
          BY <4>2 DEF Solid
        <5>2. a + i - 1 \in 1 .. Len(text) /\ a <= a + i - 1 /\ a + i - 1 <= b
          BY <2>8, <3>3, <5>1
        <5>3. a + i - 1 \in Solid(text)
          BY <2>8, <4>2, <5>1, <5>2 DEF Solid
        <5> QED
          BY <4>1, <5>2, <5>3
      <4>4. IsBlank(u)
        BY <4>2, <4>3, BlankTexts
      <4> QED
        BY <3>2, <4>4 DEF u, a, b
    <3>5. CASE ~(a <= b + 1)
      <4> HIDE DEF a, b
      <4>1. /\ a \in Int /\ b \in Int /\ ~(a <= b)
            /\ \A i \in a .. b : text[i] \in Char
        BY <3>3, <3>5
      <4>2. SubSeq(text, a, b) \in Seq(Char) /\ Len(SubSeq(text, a, b)) = 0
        BY <4>1, SubSeqProperties
      <4>3. SubSeq(text, a, b) = <<>>
        BY <4>2, EmptySeq
      <4>4. IsBlank(<<>>)
        BY Separators, BlankTexts
      <4> QED
        BY <3>2, <4>3, <4>4 DEF a, b
    <3> QED
      BY <3>4, <3>5
  <2>12. ASSUME NEW k \in DOMAIN cut
         PROVE  /\ cut[k].text = SubSeq(text, starts(k), ends(k))
                /\ k > 1 => /\ starts(k - 1) < starts(k)
                            /\ IsBlank(SubSeq(text, ends(k - 1) + 1, starts(k) - 1))
                            /\ Breakpoints(text) # {} => ends(k - 1) < starts(k)
    <3>1. k \in 1 .. Len(cut)
      BY <2>9
    <3>2. cut[k].text = SubSeq(text, starts(k), ends(k))
      BY <2>10, <3>1
    <3>3. ASSUME k > 1
          PROVE  /\ starts(k - 1) < starts(k)
                 /\ IsBlank(SubSeq(text, ends(k - 1) + 1, starts(k) - 1))
                 /\ Breakpoints(text) # {} => ends(k - 1) < starts(k)
      <4>1. k - 1 \in 1 .. Len(cut)
        BY <2>9, <3>1, <3>3
      <4>2. starts(k - 1) = from[k - 1] /\ ends(k - 1) = to[k - 1] /\ starts(k) = from[k]
        BY <2>10, <3>1, <4>1
      <4> QED
        BY <2>11, <3>1, <3>3, <4>2
    <3> QED
      BY <3>2, <3>3
  <2> QED
    BY <2>12 DEF x, cut, starts, ends
<1> QED
  BY <1>1, PipelineHolds, PTL

\* Merging leaves no two neighbours that may be merged, unless a blank piece has
\* stood between them, and no chunk becomes longer than the sizes allow.
THEOREM ChunksAreWellSized == ChunkingSpec => []WellSized
<1>1. ASSUME Pipeline PROVE WellSized
  <2>1. ASSUME pc \in {"overlap", "done"}
        PROVE  /\ pieces \in Seq(Piece) /\ merged \in Seq(Piece)
               /\ \A y \in ToSet(merged) : Len(y.text) <= Largest
               /\ NoneBlank(pieces) =>
                     \A n \in 1 .. Len(merged) : n > 1 => ~MayMerge(merged[n - 1], merged[n])
    <3>1. /\ layout \in Documents /\ direct \in BOOLEAN
          /\ segments = SegmentsOf(layout, direct)
          /\ pieces = SplitSegments(segments)
          /\ merged = MergeShortChunks(pieces)
      BY <1>1, <2>1 DEF Pipeline
    <3>2. segments \in Seq(Piece)
      BY <3>1, DocumentSegments
    <3>3. pieces \in Seq(Piece) /\ \A y \in ToSet(pieces) : Len(y.text) <= Longest
      BY <3>1, <3>2, SplitFinds
    <3>4. LET list == MergeShortChunks(pieces)
          IN  /\ list \in Seq(Piece)
              /\ \A y \in ToSet(list) : Len(y.text) <= Largest
              /\ NoneBlank(pieces) =>
                    \A n \in 1 .. Len(list) : n > 1 => ~MayMerge(list[n - 1], list[n])
      BY <3>3, MergeKeeps
    <3> QED
      BY <3>1, <3>3, <3>4
  <2>2. ASSUME pc = "overlap", \A n \in DOMAIN pieces : ~IsBlank(pieces[n].text)
        PROVE  \A n \in DOMAIN merged \ {1} : ~MayMerge(merged[n - 1], merged[n])
    <3>1. /\ Len(pieces) \in Nat /\ DOMAIN pieces = 1 .. Len(pieces)
          /\ Len(merged) \in Nat /\ DOMAIN merged = 1 .. Len(merged)
      BY <2>1, <2>2, LenProperties
    <3>2. NoneBlank(pieces)
      BY <2>2, <3>1 DEF NoneBlank
    <3>3. \A n \in 1 .. Len(merged) : n # 1 => n > 1
      BY <3>1
    <3> QED
      BY <2>1, <2>2, <3>1, <3>2, <3>3
  <2>3. ASSUME pc = "done", NEW n \in DOMAIN chunks
        PROVE  Len(chunks[n].text) <= Max({max_chars + 1, 2 * target_chars}) + overlap_chars + 1
    <3>1. chunks = AddOverlap(merged) /\ merged \in Seq(Piece)
      BY <1>1, <2>1, <2>3 DEF Pipeline
    <3>2. /\ n \in 1 .. Len(merged)
          /\ \E o \in Text : /\ Before(o) /\ Len(o) <= overlap_chars + 1
                             /\ chunks[n].text = o \o merged[n].text
      BY <2>3, <3>1, OverlapKeeps
    <3>3. PICK o \in Text : Len(o) <= overlap_chars + 1 /\ chunks[n].text = o \o merged[n].text
      BY <3>2
    <3> DEFINE y == merged[n]
               u == y.text
    <3>4. y \in Piece /\ y \in ToSet(merged)
      BY <3>1, <3>2, LenProperties, ElementOfSeq DEF ToSet
    <3>5. Len(u) <= Largest
      BY <2>1, <2>3, <3>4
    <3> HIDE DEF y
    <3>6. u \in Text /\ Len(u) \in Nat
      BY <3>4, TextFacts DEF Piece
    <3> HIDE DEF u
    <3>7. Len(o \o u) = Len(o) + Len(u) /\ Len(o) \in Nat
      BY <3>6, JoinedTexts, TextFacts
    <3>8. Max({max_chars + 1, 2 * target_chars}) = Largest /\ Largest \in Nat /\ overlap_chars \in Nat
      <4>1. max_chars + 1 \in Int /\ 2 * target_chars \in Int
        BY Sizes
      <4> QED
        BY <4>1, Sizes, LargerOfTwo DEF Largest
    <3>9. Len(o \o u) <= Largest + overlap_chars + 1
      <4> DEFINE i == Len(o)
                 j == Len(u)
                 k == Len(o \o u)
      <4>1. i \in Nat /\ j \in Nat /\ k = i + j /\ i <= overlap_chars + 1 /\ j <= Largest
        BY <3>3, <3>5, <3>6, <3>7
      <4> HIDE DEF i, j, k
      <4>2. k <= Largest + overlap_chars + 1
        BY <3>8, <4>1
      <4> QED
        BY <4>2 DEF k
    <3>10. chunks[n].text = o \o u
      BY <3>3 DEF u, y
    <3> QED
      BY <3>8, <3>9, <3>10
  <2> QED
    BY <2>2, <2>3 DEF WellSized
<1> QED
  BY <1>1, PipelineHolds, PTL

=============================================================================
