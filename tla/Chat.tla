--------------------------------- MODULE Chat ----------------------------------
(***************************************************************************)
(* One chat session: the messages stored by routers/sessions.py and the    *)
(* agent runner, numbered by repositories/chat.py, and the browser tabs    *)
(* that ask in it (stores/useChatStore.ts).                                *)
(*                                                                         *)
(* A question is a run of its own.  insert_message reads the largest       *)
(* number, flushes, and its transaction commits later: other transactions  *)
(* come between.  A tab asks whenever the user likes: nothing disables its *)
(* input while a question is open, because isStreaming is never set.       *)
(* A commit and the arrival of its response are one step.                  *)
(***************************************************************************)
EXTENDS Integers, FiniteSets, FiniteSetsExt

CONSTANTS
    Tabs,       \* browser tabs on the session
    Runs,       \* the questions, 1..n: a tab asks its own in this order
    TabOf,      \* [Runs -> Tabs]
    MaxPolls    \* POLL_MAX_RETRIES, 30 in the code

ASSUME RunsAssumption == Runs \subseteq Nat /\ TabOf \in [Runs -> Tabs]
ASSUME PollsAssumption == MaxPolls \in Nat \ {0}

VARIABLES
    log,        \* committed chat_messages: [role, run, seq]
    run,        \* what the server has made of a question
    number,     \* the sequence_no its open transaction has read
    ask,        \* the question in the store: its promise chain
    active,     \* activeEventSource of a tab: the question it streams, or Nobody
    before,     \* prevAssistantCount of its poll
    tries,      \* attempts of its poll
    bubbles     \* stored messages the tab shows: [Tabs -> set of <<role, run>>]

server == <<log, run, number>>
client == <<ask, active, before, tries, bubbles>>
chatVars == <<log, run, number, ask, active, before, tries, bubbles>>

Unread == -1    \* no number read
Nobody == -1    \* no open stream

ServerStates == {"none", "inserting", "running", "answering", "completed", "failed",
                 "lost"}   \* over, and the row still running
AskStates == {"unasked", "posting", "streaming", "polling", "dropped",
              "refused", "found", "gaveup"}
Resolved == {"refused", "found", "gaveup"}

TypeOK ==
    /\ log \subseteq [role : {"user", "assistant"}, run : Runs, seq : Nat]
    /\ run \in [Runs -> ServerStates]
    /\ number \in [Runs -> Nat \cup {Unread}]
    /\ ask \in [Runs -> AskStates] /\ active \in [Tabs -> Runs \cup {Nobody}]
    /\ before \in [Runs -> Nat] /\ tries \in [Runs -> 0..MaxPolls]
    /\ bubbles \in [Tabs -> SUBSET ({"user", "assistant"} \X Runs)]
-----------------------------------------------------------------------------
Numbers == {m.seq : m \in log}

NextNumber == IF Numbers = {} THEN 0 ELSE Max(Numbers) + 1

\* Mutations: one number per stored message; the step to the next one forgotten.
NumberByCount == Cardinality(log)

LargestNumber ==
    IF Numbers = {} THEN 0 ELSE Max(Numbers)

\* get_next_message_sequence
NextSequence == NextNumber

Message(role, r, n) == [role |-> role, run |-> r, seq |-> n]

Answers(t) == {b \in bubbles[t] : b[1] = "assistant"}

ChatInit ==
    /\ log = {}
    /\ run = [r \in Runs |-> "none"]
    /\ number = [r \in Runs |-> Unread]
    /\ ask = [r \in Runs |-> "unasked"]
    /\ active = [t \in Tabs |-> Nobody]
    /\ before = [r \in Runs |-> 0]
    /\ tries = [r \in Runs |-> 0]
    /\ bubbles = [t \in Tabs |-> {}]
-----------------------------------------------------------------------------
\* The server.

\* start_qa: the run row and the user message, flushed
InsertQuestion(r) ==
    /\ ask[r] = "posting" /\ run[r] = "none"
    /\ run' = [run EXCEPT ![r] = "inserting"]
    /\ number' = [number EXCEPT ![r] = NextSequence]
    /\ UNCHANGED <<log, client>>

\* its commit, the task, the response; the tab opens the event stream and keeps
\* it in the place of any other, or the response is lost and the tab takes the
\* question for failed
CommitQuestion(r) ==
    /\ run[r] = "inserting"
    /\ log' = log \cup {Message("user", r, number[r])}
    /\ run' = [run EXCEPT ![r] = "running"]
    /\ number' = [number EXCEPT ![r] = Unread]
    /\ \/ /\ ask' = [ask EXCEPT ![r] = "streaming"]
          /\ active' = [active EXCEPT ![TabOf[r]] = r]
       \/ /\ ask' = [ask EXCEPT ![r] = "refused"]
          /\ UNCHANGED active
    /\ UNCHANGED <<before, tries, bubbles>>

\* the request fails, before or after the insert: rollback, finishStream
RefuseQuestion(r) ==
    /\ ask[r] = "posting" /\ run[r] \in {"none", "inserting"}
    /\ run' = [run EXCEPT ![r] = "failed"]
    /\ number' = [number EXCEPT ![r] = Unread]
    /\ ask' = [ask EXCEPT ![r] = "refused"]
    /\ UNCHANGED <<log, active, before, tries, bubbles>>

\* _on_success, a response to store: the assistant message, flushed
InsertAnswer(r) ==
    /\ run[r] = "running"
    /\ run' = [run EXCEPT ![r] = "answering"]
    /\ number' = [number EXCEPT ![r] = NextSequence]
    /\ UNCHANGED <<log, client>>

CommitAnswer(r) ==
    /\ run[r] = "answering"
    /\ log' = log \cup {Message("assistant", r, number[r])}
    /\ run' = [run EXCEPT ![r] = "completed"]
    /\ number' = [number EXCEPT ![r] = Unread]
    /\ UNCHANGED client

\* _on_failure, _on_exception, or a success without a response: no message
EndWithoutAnswer(r) ==
    /\ run[r] \in {"running", "answering"}
    /\ \/ run' = [run EXCEPT ![r] = "failed"]
       \/ run[r] = "running" /\ run' = [run EXCEPT ![r] = "completed"]
    /\ number' = [number EXCEPT ![r] = Unread]
    /\ UNCHANGED <<log, client>>

\* The failure cannot be stored either, so the run is never marked as ended:
\* "Failed to persist failure"
EndUnheard(r) ==
    /\ run[r] \in {"running", "answering"}
    /\ run' = [run EXCEPT ![r] = "lost"]
    /\ number' = [number EXCEPT ![r] = Unread]
    /\ UNCHANGED <<log, client>>
-----------------------------------------------------------------------------
\* The tabs.

\* disconnectSSE closes the active stream: its promise then never resolves
Disconnected(t) ==
    [r \in Runs |-> IF r = active[t] THEN "dropped" ELSE ask[r]]

\* sendMessage shows the question under a local id (left out: it is there as
\* soon as the question is asked), then startQa
Ask(r) ==
    /\ ask[r] = "unasked"
    /\ \A e \in Runs : (TabOf[e] = TabOf[r] /\ e < r) => ask[e] # "unasked"
    /\ ask' = [Disconnected(TabOf[r]) EXCEPT ![r] = "posting"]
    /\ active' = [active EXCEPT ![TabOf[r]] = Nobody]
    /\ UNCHANGED <<server, before, tries, bubbles>>

\* The terminal event, which the graph publishes before the answer is stored,
\* or onerror, at any time: pollForAssistantMessage counts what is there.
\* activeEventSource is cleared, even when it is the stream of another.
StartPolling(r) ==
    /\ ask[r] = "streaming"
    /\ ask' = [ask EXCEPT ![r] = "polling"]
    /\ active' = [active EXCEPT ![TabOf[r]] = Nobody]
    /\ before' = [before EXCEPT ![r] = Cardinality(Answers(TabOf[r]))]
    /\ UNCHANGED <<server, tries, bubbles>>

\* The server ends the stream of a run that is marked as ended; the browser
\* takes the end for an error.
StreamEnds(r) == run[r] \in {"completed", "failed"} /\ StartPolling(r)

\* one attempt: the messages of the session are merged by id
Merged(t) == bubbles[t] \cup {<<m.role, m.run>> : m \in log}

\* the loop of attempts: it ends as `how`, or when the attempts are used up
Attempt(r, how) ==
    LET over == how = "found" \/ tries[r] + 1 = MaxPolls
    IN  /\ ask' = [ask EXCEPT ![r] =
                     IF how = "found" THEN "found" ELSE IF over THEN "gaveup" ELSE @]
        /\ tries' = [tries EXCEPT ![r] = IF over THEN 0 ELSE @ + 1]
        /\ before' = [before EXCEPT ![r] = IF over THEN 0 ELSE @]

\* Mutation: an attempt without a find is free.
AttemptUncounted(r, how) ==
    /\ ask' = [ask EXCEPT ![r] = IF how = "found" THEN "found" ELSE @]
    /\ UNCHANGED <<tries, before>>

PollAttempt(r, how) == Attempt(r, how)

Poll(r) ==
    /\ ask[r] = "polling"
    /\ LET t     == TabOf[r]
           count == Cardinality({b \in Merged(t) : b[1] = "assistant"})
       IN  /\ bubbles' = [bubbles EXCEPT ![t] = Merged(t)]
           /\ PollAttempt(r, IF count > before[r] THEN "found" ELSE "none")
    /\ UNCHANGED <<server, active>>

PollFails(r) ==
    /\ ask[r] = "polling"
    /\ PollAttempt(r, "none")
    /\ UNCHANGED <<server, active, bubbles>>

ChatNext ==
    \E r \in Runs :
        \/ InsertQuestion(r) \/ CommitQuestion(r) \/ RefuseQuestion(r)
        \/ InsertAnswer(r) \/ CommitAnswer(r)
        \/ EndWithoutAnswer(r) \/ EndUnheard(r)
        \/ Ask(r) \/ StartPolling(r) \/ Poll(r) \/ PollFails(r)

ChatSpec == ChatInit /\ [][ChatNext]_chatVars

\* A request is answered or refused; a run is over at last (its nodes and calls
\* are bounded); the stream of a run that is marked as ended ends; an attempt
\* returns or fails.  Nothing ends the stream of any other run: the server
\* sends heartbeats as long as the run is not marked.
FairSpec ==
    /\ ChatSpec
    /\ \A r \in Runs :
         /\ WF_chatVars(InsertQuestion(r) \/ RefuseQuestion(r))
         /\ WF_chatVars(CommitQuestion(r))
         /\ WF_chatVars(InsertAnswer(r) \/ CommitAnswer(r) \/ EndWithoutAnswer(r) \/ EndUnheard(r))
         /\ WF_chatVars(StreamEnds(r))
         /\ WF_chatVars(Poll(r) \/ PollFails(r))
-----------------------------------------------------------------------------
(***************************************************************************)
(* However the transactions of the session overlap, the answer of a run is *)
(* numbered after its question: read in the order of sequence_no, no       *)
(* answer precedes what it answers.                                        *)
(***************************************************************************)
AnswerFollowsQuestion ==
    \A m \in log : m.role = "assistant" =>
        \E q \in log : q.role = "user" /\ q.run = m.run /\ q.seq < m.seq

(***************************************************************************)
(* The stored numbers are 0..n without a gap, whatever is refused or rolled *)
(* back on the way (overlapping transactions may share a number).          *)
(***************************************************************************)
NumbersHaveNoGap ==
    \A n \in Numbers : 0..n \subseteq Numbers

\* A later question of the tab has closed its stream
Overtaken(r) ==
    /\ ask[r] = "dropped"
    /\ \E e \in Runs : TabOf[e] = TabOf[r] /\ e > r /\ ask[e] # "unasked"

\* Its stream is open on a run that is over and was never marked as ended
Unheard(r) == ask[r] = "streaming" /\ run[r] = "lost"

(***************************************************************************)
(* The promise of a question resolves: the request is refused, or the poll *)
(* finds an answer or gives up.  Two questions never resolve, and no       *)
(* third: one whose stream a later question of the tab has closed, and one *)
(* that hears heartbeats of a run that could not even store its failure.   *)
(***************************************************************************)
AskingEnds ==
    \A r \in Runs :
        ask[r] = "posting" ~> ask[r] \in Resolved \/ Overtaken(r) \/ Unheard(r)

(***************************************************************************)
(* What startQa awaits (connectAndStreamSSE resolves after the poll): the  *)
(* promise of every question resolves.  It is not so: see AskingEnds.      *)
(***************************************************************************)
EveryPromiseResolves ==
    \A r \in Runs : ask[r] = "posting" ~> ask[r] \in Resolved

(***************************************************************************)
(* What the poll is for ("until the assistant message is stored"): when it *)
(* ends before its last attempt, the answer of its own run is shown.  It   *)
(* is not so: the poll stops at the answer of any other question.          *)
(***************************************************************************)
PollEndsWithItsAnswer ==
    \A r \in Runs : ask[r] = "found" => <<"assistant", r>> \in bubbles[TabOf[r]]
=============================================================================
