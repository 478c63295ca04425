---------------------------- MODULE EventStream -----------------------------
(***************************************************************************)
(* The event log of one agent run and its server-sent event streams:       *)
(* AgentEventSink.emit, which numbers, commits and publishes events, and   *)
(* SSEManager, whose streams replay the log, then follow a queue until the *)
(* run is marked as ended.  AgentRun models when a run is executed and     *)
(* retried; here an execution emits events and ends the run.               *)
(***************************************************************************)
EXTENDS Integers, FiniteSets, SequencesExt

CONSTANTS
    Executions,     \* executions of the run that may live at the same time
    Clients,        \* browsers following the run
    Nobody,         \* no execution
    MaxEvents,      \* length of the log (a bound)
    MaxExecutions,  \* executions over time: first, recovered, retried (a bound)
    MaxConnects,    \* connections over time (a bound)
    MaxCrashes,     \* crashes of the API process (a bound)
    MaxFaults       \* failed database calls (a bound)

ASSUME BoundsAssumption ==
    /\ Nobody \notin Executions
    /\ MaxEvents \in Nat \ {0}
    /\ {MaxExecutions, MaxConnects, MaxCrashes, MaxFaults} \subseteq Nat

VARIABLES
    log,        \* the committed sequence_no's of agent_events, in commit order
    status,     \* agent_runs.status; "active" is queued or running
    lock,       \* the execution whose transaction holds the lock of the run row
    epc,        \* epc[e]: how far execution e is
    pending,    \* pending[e]: the sequence_no that emit of e has picked
    verdict,    \* verdict[e]: the status execution e gave the run
    mark,       \* SSEManager: _run_terminal_event if in _run_completed, else "none"
    cpc,        \* cpc[c]: how far the stream of client c is
    queue,      \* queue[c]: the asyncio.Queue of its connection
    found,      \* found[c]: the status its fallback check has read
    received,   \* received[c]: the events the client has received, in order
    resume,     \* resume[c]: Last-Event-ID + 1 (0: no such header)
    heard,      \* heard[c]: the terminal event that closed its stream
    since,      \* since[c]: how the run has ended since c connected (history)
    counts      \* how often each bounded event has happened

emitting == <<log, lock, pending>>
ending == <<status, verdict, mark>>
streams == <<cpc, queue, found, received, resume, heard, since>>
vars == <<emitting, ending, epc, streams, counts>>

-----------------------------------------------------------------------------
(* Types                                                                   *)

Ended == {"completed", "failed"}

EventKinds == {"executions", "connects", "crashes", "faults"}

TypeOK ==
    /\ log \in Seq(Nat)
    /\ status \in Ended \union {"active"}
    /\ lock \in Executions \union {Nobody}
    /\ epc \in [Executions -> {"idle", "working", "locked", "inserted",
                               "committed", "raised", "ended"}]
    /\ pending \in [Executions -> Nat]
    /\ verdict \in [Executions -> Ended]
    /\ mark \in Ended \union {"none"}
    /\ cpc \in [Clients -> {"away", "connected", "replayed", "found", "live",
                            "sent", "closed"}]
    /\ queue \in [Clients -> Seq(Nat)]
    /\ found \in [Clients -> Ended]
    /\ received \in [Clients -> Seq(Nat)]
    /\ resume \in [Clients -> Nat]
    /\ heard \in [Clients -> Ended \union {"none"}]
    /\ since \in [Clients -> SUBSET Ended]
    /\ counts \in [EventKinds -> Nat]

\* start_qa commits run.started, number 0, with the row of the run.
Init ==
    /\ log = <<0>>
    /\ status = "active"
    /\ lock = Nobody
    /\ epc = [e \in Executions |-> "idle"]
    /\ pending = [e \in Executions |-> 0]
    /\ verdict = [e \in Executions |-> "failed"]
    /\ mark = "none"
    /\ cpc = [c \in Clients |-> "away"]
    /\ queue = [c \in Clients |-> <<>>]
    /\ found = [c \in Clients |-> "failed"]
    /\ received = [c \in Clients |-> <<>>]
    /\ resume = [c \in Clients |-> 0]
    /\ heard = [c \in Clients |-> "none"]
    /\ since = [c \in Clients |-> {}]
    /\ counts = [k \in EventKinds |-> 0]

-----------------------------------------------------------------------------
(* Helpers                                                                 *)

Happens(k, bound) ==
    /\ counts[k] < bound
    /\ counts' = [counts EXCEPT ![k] = @ + 1]

Goes(e, from, to) == epc[e] = from /\ epc' = [epc EXCEPT ![e] = to]

Streams(c, from, to) == cpc[c] = from /\ cpc' = [cpc EXCEPT ![c] = to]

\* get_next_sequence: SELECT the largest sequence_no, plus one.
NextSequence ==
    LET last == CHOOSE n \in Range(log) : \A m \in Range(log) : m <= n
    IN  IF log = <<>> THEN 0 ELSE last + 1

\* Mutation: a client is subscribed only once its history has been replayed.
SubscribedAfterReplay(c) == cpc[c] \in {"live", "sent"}

\* The connections in SSEManager._queues that somebody reads.
Subscribed(c) == cpc[c] \notin {"away", "closed"}

\* get_events_since, ORDER BY sequence_no: what a replay will send; the i-th
\* of its numbers is the one with i - 1 smaller ones.
Newer(c) ==
    LET newer == {n \in Range(log) : n >= resume[c]}
    IN  [i \in 1 .. Cardinality(newer) |->
            CHOOSE n \in newer : Cardinality({m \in newer : m < n}) = i - 1]

-----------------------------------------------------------------------------
(* Executions                                                              *)

\* An execution begins: the first one, a recovery, or the retry of a failed
\* run.  Overlapping retries may run two at once (see AgentRun).
Begin(e) ==
    /\ Happens("executions", MaxExecutions)
    /\ Goes(e, "idle", "working")
    /\ status = "active" \/ (status = "failed" /\ lock = Nobody)
    /\ status' = "active"
    /\ UNCHANGED <<emitting, verdict, mark, streams>>

\* Mutation: the row of the run is read without FOR UPDATE.
LockNothing(e) ==
    /\ Goes(e, "working", "locked")
    /\ Len(log) < MaxEvents
    /\ UNCHANGED <<emitting, ending, streams, counts>>

\* emit: SELECT ... FOR UPDATE on the row of the run.
Lock(e) ==
    /\ Goes(e, "working", "locked")
    /\ lock = Nobody
    /\ Len(log) < MaxEvents
    /\ lock' = e
    /\ UNCHANGED <<log, pending, ending, streams, counts>>

\* The next number is read and the event inserted, both under the lock.
Insert(e) ==
    /\ Goes(e, "locked", "inserted")
    /\ pending' = [pending EXCEPT ![e] = NextSequence]
    /\ UNCHANGED <<log, lock, ending, streams, counts>>

Commit(e) ==
    /\ Goes(e, "inserted", "committed")
    /\ log' = Append(log, pending[e])
    /\ lock' = Nobody
    /\ UNCHANGED <<pending, ending, streams, counts>>

\* publish: the queues are unbounded, so put never waits and this is one step.
Publish(e) ==
    /\ Goes(e, "committed", "working")
    /\ queue' = [c \in Clients |-> IF Subscribed(c) THEN Append(queue[c], pending[e])
                                                    ELSE queue[c]]
    /\ pending' = [pending EXCEPT ![e] = 0]
    /\ UNCHANGED <<log, lock, ending, cpc, found, received, resume, heard,
                   since, counts>>

\* A database error ends emit with an exception and rolls its session back.
EmitFails(e) ==
    /\ Happens("faults", MaxFaults)
    /\ \/ Goes(e, "locked", "raised")
       \/ Goes(e, "inserted", "raised")
    /\ lock' = Nobody
    /\ pending' = [pending EXCEPT ![e] = 0]
    /\ UNCHANGED <<log, ending, streams>>

\* _on_success, _on_failure, _on_exception: first the commit of the status ...
Finish(e) ==
    /\ \/ Goes(e, "working", "ended")
       \/ Goes(e, "raised", "ended") /\ status' = "failed"
    /\ lock = Nobody
    /\ status' \in Ended
    /\ verdict' = [verdict EXCEPT ![e] = status']
    /\ since' = [c \in Clients |-> IF Subscribed(c) THEN since[c] \union {status'}
                                                    ELSE since[c]]
    /\ UNCHANGED <<emitting, mark, cpc, queue, found, received, resume, heard, counts>>

\* ... then mark_completed.
MarkCompleted(e) ==
    /\ Goes(e, "ended", "idle")
    /\ mark' = verdict[e]
    /\ verdict' = [verdict EXCEPT ![e] = "failed"]
    /\ UNCHANGED <<emitting, status, streams, counts>>

-----------------------------------------------------------------------------
(* Streams: sse_endpoint and its generator                                 *)

\* connect: the queue is registered before anything is read.
Connect(c) ==
    /\ Happens("connects", MaxConnects)
    /\ Streams(c, "away", "connected")
    /\ since' = [since EXCEPT ![c] = {status} \intersect Ended]
    /\ UNCHANGED <<emitting, ending, epc, queue, found, received, resume, heard>>

\* The history is read once and sent; its frames carry an id: line, which the
\* browser will send back as Last-Event-ID.
Replay(c) ==
    /\ Streams(c, "connected", "replayed")
    /\ received' = [received EXCEPT ![c] = @ \o Newer(c)]
    /\ resume' = [resume EXCEPT ![c] = IF Newer(c) = <<>> THEN @
                                       ELSE Last(Newer(c)) + 1]
    /\ UNCHANGED <<emitting, ending, epc, queue, found, heard, since,
                   counts>>

\* An error of the replay is logged and the stream goes on without it.
ReplayFails(c) ==
    /\ Happens("faults", MaxFaults)
    /\ Streams(c, "connected", "replayed")
    /\ UNCHANGED <<emitting, ending, epc, queue, found, received, resume, heard,
                   since>>

\* Mutation: only the memory of the process is consulted.
FallbackSkipped(c) ==
    /\ Streams(c, "replayed", "live")
    /\ UNCHANGED <<emitting, ending, epc, queue, found, received, resume, heard,
                   since, counts>>

\* Unless the run is marked, its row is read: a late subscriber, or one after
\* a restart, finds it ended ...
FallbackRead(c) ==
    /\ \/ Streams(c, "replayed", "found") /\ mark = "none" /\ status \in Ended
       \/ Streams(c, "replayed", "live") /\ (mark # "none" \/ status \notin Ended)
    /\ found' = [found EXCEPT ![c] = IF cpc'[c] = "found" THEN status ELSE @]
    /\ UNCHANGED <<emitting, ending, epc, queue, received, resume, heard, since, counts>>

\* ... and marks it for everybody.
FallbackMark(c) ==
    /\ Streams(c, "found", "live")
    /\ mark' = found[c]
    /\ found' = [found EXCEPT ![c] = "failed"]
    /\ UNCHANGED <<emitting, status, verdict, epc, queue, received, resume,
                   heard, since, counts>>

FallbackFails(c) ==
    /\ Happens("faults", MaxFaults)
    /\ Streams(c, "replayed", "live")
    /\ mark = "none"
    /\ UNCHANGED <<emitting, ending, epc, queue, found, received, resume, heard,
                   since>>

\* queue.get(): a live frame has no id: line.
Get(c) ==
    /\ Streams(c, "live", "sent")
    /\ queue[c] # <<>>
    /\ received' = [received EXCEPT ![c] = Append(@, Head(queue[c]))]
    /\ queue' = [queue EXCEPT ![c] = Tail(@)]
    /\ UNCHANGED <<emitting, ending, epc, found, resume, heard, since,
                   counts>>

\* Fifteen seconds without an event.
Heartbeat(c) ==
    /\ Streams(c, "live", "sent")
    /\ queue[c] = <<>>
    /\ UNCHANGED <<emitting, ending, epc, queue, found, received, resume, heard,
                   since, counts>>

\* Mutation: a marked run closes the stream whatever is still queued.
EndAtOnce(c) ==
    /\ \/ /\ Streams(c, "sent", "closed")
          /\ mark # "none"
          /\ heard' = [heard EXCEPT ![c] = mark]
       \/ /\ Streams(c, "sent", "live")
          /\ mark = "none"
          /\ UNCHANGED heard
    /\ UNCHANGED <<emitting, ending, epc, queue, found, received, resume, since, counts>>

\* After each frame: a marked run and an empty queue close the stream.
EndOrWait(c) ==
    /\ \/ /\ Streams(c, "sent", "closed")
          /\ mark # "none" /\ queue[c] = <<>>
          /\ heard' = [heard EXCEPT ![c] = mark]
       \/ /\ Streams(c, "sent", "live")
          /\ mark = "none" \/ queue[c] # <<>>
          /\ UNCHANGED heard
    /\ UNCHANGED <<emitting, ending, epc, queue, found, received, resume, since, counts>>

\* The connection drops in the loop, whose finally releases the queue.
Disconnect(c) ==
    /\ \/ Streams(c, "live", "away")
       \/ Streams(c, "sent", "away")
    /\ queue' = [queue EXCEPT ![c] = <<>>]
    /\ since' = [since EXCEPT ![c] = {}]
    /\ UNCHANGED <<emitting, ending, epc, found, received, resume, heard, counts>>

\* It drops before the loop, after some of the history has arrived: the
\* cancelled generator never reaches the finally.  The queue it leaves behind
\* in SSEManager._queues is read by nobody and not modelled any further.
DisconnectEarly(c) ==
    /\ \/ /\ Streams(c, "connected", "away")
          /\ \E n \in 0 .. Len(Newer(c)) :
               /\ received' = [received EXCEPT ![c] = @ \o SubSeq(Newer(c), 1, n)]
               /\ resume' = [resume EXCEPT ![c] = IF n = 0 THEN @
                                                  ELSE Newer(c)[n] + 1]
       \/ /\ \/ Streams(c, "replayed", "away")
             \/ Streams(c, "found", "away")
          /\ UNCHANGED <<received, resume>>
    /\ queue' = [queue EXCEPT ![c] = <<>>]
    /\ found' = [found EXCEPT ![c] = "failed"]
    /\ since' = [since EXCEPT ![c] = {}]
    /\ UNCHANGED <<emitting, ending, epc, heard, counts>>

\* The process dies with its executions, its streams and SSEManager's memory.
Crash ==
    /\ Happens("crashes", MaxCrashes)
    /\ lock' = Nobody
    /\ epc' = [e \in Executions |-> "idle"]
    /\ mark' = "none"
    /\ cpc' = [c \in Clients |-> IF cpc[c] = "closed" THEN "closed" ELSE "away"]
    /\ queue' = [c \in Clients |-> <<>>]
    /\ pending' = [e \in Executions |-> 0]
    /\ verdict' = [e \in Executions |-> "failed"]
    /\ found' = [c \in Clients |-> "failed"]
    /\ since' = [c \in Clients |-> IF cpc[c] = "closed" THEN since[c] ELSE {}]
    /\ UNCHANGED <<log, status, received, resume, heard>>

-----------------------------------------------------------------------------
(* The specification                                                       *)

ExecutionStep(e) ==
    \/ Lock(e)
    \/ Insert(e)
    \/ Commit(e)
    \/ Publish(e)
    \/ EmitFails(e)
    \/ Finish(e)
    \/ MarkCompleted(e)

ServerStep(c) ==
    \/ Replay(c)
    \/ ReplayFails(c)
    \/ FallbackRead(c)
    \/ FallbackMark(c)
    \/ FallbackFails(c)
    \/ Get(c)
    \/ Heartbeat(c)
    \/ EndOrWait(c)

ClientStep(c) ==
    \/ Connect(c)
    \/ Disconnect(c)
    \/ DisconnectEarly(c)

Next ==
    \/ \E e \in Executions : Begin(e) \/ ExecutionStep(e)
    \/ \E c \in Clients : ServerStep(c) \/ ClientStep(c)
    \/ Crash

Spec == Init /\ [][Next]_vars

\* The event loop runs every execution and every generator that can go on.
Fairness ==
    /\ \A e \in Executions : WF_vars(ExecutionStep(e))
    /\ \A c \in Clients : WF_vars(ServerStep(c))

FairSpec == Spec /\ Fairness

-----------------------------------------------------------------------------
(* Properties                                                              *)

\* emit: sequence_no never repeats and never skips, in commit order, also when
\* two executions emit at once or a transaction is rolled back.
LogIsContiguous == \A i \in 1 .. Len(log) : log[i] = i - 1

\* What has been committed but not published yet.
InPublication == {pending[e] : e \in {x \in Executions : epc[x] = "committed"}}

\* While no database call has failed, an open stream misses nothing: each event
\* of the log has been received, waits in its queue, or is being published.
NothingMissed ==
    counts["faults"] = 0 =>
        \A c \in Clients : cpc[c] \in {"replayed", "found", "live", "sent"} =>
            Range(log) \subseteq
                Range(received[c]) \union Range(queue[c]) \union InPublication

\* A run executed once is seen whole: no event is received before all earlier
\* ones, and when the terminal event closes a stream, the stream is complete and
\* that event names the status of the run.
SeenWhole ==
    counts["executions"] <= 1 /\ counts["faults"] = 0 =>
        \A c \in Clients :
            /\ \A i \in DOMAIN received[c] :
                  0 .. received[c][i] \subseteq {received[c][j] : j \in 1 .. i}
            /\ cpc[c] = "closed" => /\ Range(received[c]) = Range(log)
                                   /\ heard[c] = status

\* The terminal event names a status the run has had since the client connected:
\* a failed run that is retried is not failed while it runs again.
TerminalEventIsCurrent ==
    \A c \in Clients : cpc[c] = "closed" => heard[c] \in since[c]

\* A client that stays connected to an ended run is told so: late subscribers,
\* and those that come back after a restart, included.
EndIsHeard ==
    [](counts["faults"] = 0) =>
        \A c \in Clients :
            Subscribed(c) /\ status \in Ended ~> ~Subscribed(c) \/ status = "active"

=============================================================================
