------------------------------ MODULE Training -------------------------------
(***************************************************************************)
(* Practice sessions between their creation and their summary              *)
(* (routers/practice.py, routers/training.py, services/training_service.py,*)
(* routers/wrong_book.py, routers/learning_summary.py).                    *)
(*                                                                         *)
(* The requests that only read do so one SELECT at a time, and under READ  *)
(* COMMITTED each SELECT sees what has been committed by then.  They do    *)
(* not disturb each other, so one of them is in flight at a time, between  *)
(* any steps of the requests that write: answers, which are graded as      *)
(* GradeBook says, finishes, and changes of a wrong-book entry.            *)
(***************************************************************************)
EXTENDS GradeBook, FiniteSets, FiniteSetsExt

CONSTANTS
    Sessions,   \* practice sessions
    Sizes,      \* numbers of questions the adapter may generate
    Finishers,  \* finish requests that may be in flight at the same time
    PageSize,   \* entries on a page of the wrong book
    MaxAnswers, \* bound: answers given, in this session or elsewhere
    Elsewhere,  \* items of other sessions of the user, which are only answered
    NoSession

\* A question is a session and an order number, or one elsewhere.
ASSUME TrainingAssumption ==
    /\ IsFiniteSet(Sessions) /\ NoSession \notin Sessions
    /\ Sizes \subseteq Nat
    /\ \E n \in Sizes : \A m \in Sizes : m <= n
    /\ PageSize \in Nat \ {0}
    /\ MaxAnswers \in Nat
    /\ Questions = (Sessions \X (1 .. Max(Sizes))) \union Elsewhere
    /\ Elsewhere \intersect (Sessions \X (1 .. Max(Sizes))) = {}
    /\ IsFiniteSet(Elsewhere)
    /\ Judgements \subseteq [ratio : Ratio, review : BOOLEAN, confident : BOOLEAN]
    /\ Ungraded \notin Judgements

VARIABLES
    status,     \* status[s]: PracticeSession.status
    size,       \* size[s]: the number of its items, numbered from 1
    reviewing,  \* questions whose wrong-book entry has status "reviewing"
    finish,     \* finish[f]: a finish request and the status it will write
    answered,   \* answered[s]: the statuses that finish has answered (history)
    reader      \* the request that reads, and what it has read so far

vars == <<bookVars, status, size, reviewing, finish, answered, reader>>

-----------------------------------------------------------------------------
(* Types                                                                   *)

Finished == {"completed", "cancelled"}

NoFinish == [session |-> NoSession, to |-> "active"]

\* The endpoints that read: of a session, of all grades, of the wrong book
\* (all entries, or the pending ones).
SessionKind == {"detail", "next", "summary"}

BookKind == {"book", "pendingBook"}

Kind == SessionKind \union BookKind \union {"learning"}

\* pos: the position or the page looked at; seen: positions found submitted;
\* counted: those of them whose grade was found; bad: those whose wrong-book
\* entry was found; level: the mastery found; logs: the number of entries of the
\* mastery log found, which are a prefix of it, of whatever session; pending
\* (for a page: the total) and reviewing: counts; items: the entries of the page,
\* or the grades found.  History: the questions of a session answered when a
\* request about it began, and whether a wrong-book entry has been changed since.
Reader ==
    [kind : Kind \union {"none"}, session : Sessions \union {NoSession},
     pc : {"idle", "scan", "grade", "mastery", "logs", "level", "reason", "pending",
           "reviewing", "recent", "total", "page", "done"},
     pos : Nat, seen : SUBSET Nat, counted : SUBSET Nat, bad : SUBSET Nat,
     level : Level, logs : Nat, pending : Nat, reviewing : Nat,
     items : SUBSET Questions, before : SUBSET Questions, patched : BOOLEAN]

NoReader ==
    [kind |-> "none", session |-> NoSession, pc |-> "idle", pos |-> 0,
     seen |-> {}, counted |-> {}, bad |-> {}, level |-> DefaultLevel, logs |-> 0,
     pending |-> 0, reviewing |-> 0, items |-> {}, before |-> {}, patched |-> FALSE]

TypeOK ==
    /\ BookTypeOK
    /\ status \in [Sessions -> {"absent", "active"} \union Finished]
    /\ size \in [Sessions -> {0} \union Sizes]
    /\ reviewing \subseteq Questions
    /\ finish \in [Finishers -> [session : Sessions \union {NoSession},
                                 to : {"active"} \union Finished]]
    /\ answered \in [Sessions -> SUBSET Finished]
    /\ reader \in Reader

Init ==
    /\ BookInit
    /\ status = [s \in Sessions |-> "absent"]
    /\ size = [s \in Sessions |-> 0]
    /\ reviewing = {}
    /\ finish = [f \in Finishers |-> NoFinish]
    /\ answered = [s \in Sessions |-> {}]
    /\ reader = NoReader

-----------------------------------------------------------------------------
(* The requests that write                                                 *)

Submitted(s) == {n \in 1 .. size[s] : grade[<<s, n>>] # Ungraded}

\* create_training: session and items are one commit, after the adapter has
\* generated them; fewer than three are refused and everything is rolled back.
Create(s, n) ==
    /\ status[s] = "absent"
    /\ n >= 3
    /\ status' = [status EXCEPT ![s] = "active"]
    /\ size' = [size EXCEPT ![s] = n]
    /\ UNCHANGED <<bookVars, reviewing, finish, answered, reader>>

\* submit_answer, whole: neither the order of the questions nor the status of
\* the session is looked at.
Answer(s, n, j) ==
    /\ Len(changes) < MaxAnswers
    /\ n \in 1 .. size[s]
    /\ Grade(<<s, n>>, j)
    /\ UNCHANGED <<status, size, reviewing, finish, answered, reader>>

\* The same in another session, of which nothing else is modelled.
AnswerElsewhere(q, j) ==
    /\ Len(changes) < MaxAnswers
    /\ Grade(q, j)
    /\ UNCHANGED <<status, size, reviewing, finish, answered, reader>>

\* Mutation: a finished session is finished again.
FinishAgain(f, s, to) ==
    /\ finish[f] = NoFinish
    /\ status[s] # "absent"
    /\ finish' = [finish EXCEPT ![f] = [session |-> s, to |-> to]]
    /\ UNCHANGED <<bookVars, status, size, reviewing, answered, reader>>

\* finish_practice_session: a finished session is answered as it is.
FinishRead(f, s, to) ==
    /\ finish[f] = NoFinish
    /\ status[s] # "absent"
    /\ IF status[s] \in Finished
       THEN /\ answered' = [answered EXCEPT ![s] = @ \union {status[s]}]
            /\ UNCHANGED finish
       ELSE /\ finish' = [finish EXCEPT ![f] = [session |-> s, to |-> to]]
            /\ UNCHANGED answered
    /\ UNCHANGED <<bookVars, status, size, reviewing, reader>>

\* The UPDATE names the row by its id alone, and what was read decides.
FinishCommit(f) ==
    LET s == finish[f].session IN
    /\ finish[f] # NoFinish
    /\ status' = [status EXCEPT ![s] = finish[f].to]
    /\ answered' = [answered EXCEPT ![s] = @ \union {finish[f].to}]
    /\ finish' = [finish EXCEPT ![f] = NoFinish]
    /\ UNCHANGED <<bookVars, size, reviewing, reader>>

\* update_wrong_book with a status: pending or reviewing.
MarkEntry(q) ==
    /\ q \in wrong
    /\ reviewing' = IF q \in reviewing THEN reviewing \ {q} ELSE reviewing \union {q}
    /\ reader' = [reader EXCEPT !.patched = reader.pc # "idle"]
    /\ UNCHANGED <<bookVars, status, size, finish, answered>>

-----------------------------------------------------------------------------
(* The requests that read                                                  *)

Reading(from) == reader.pc = from /\ UNCHANGED <<bookVars, status, size, reviewing,
                                                 finish, answered>>

\* The session and its items do not change any more, so that reading them is
\* one step; the other kinds read no session, and a list starts at any page.
Begin(kind, s, pos) ==
    /\ Reading("idle")
    /\ IF kind \in SessionKind THEN s \in Sessions /\ status[s] # "absent"
                               ELSE s = NoSession
    /\ kind \notin BookKind => pos = 1
    /\ reader' = [NoReader EXCEPT !.kind = kind, !.session = s, !.pos = pos,
                      !.pc = CASE kind = "learning" -> "level"
                               [] kind \in BookKind -> "total"
                               [] OTHER -> "scan",
                      !.before = {q \in Questions \ Elsewhere :
                                     kind \in SessionKind /\ q[1] = s /\ grade[q] # Ungraded}]

\* The request looks at the next position, or has seen the last one.
After(pos) ==
    IF pos < size[reader.session] THEN [at |-> pos + 1, pc |-> "scan"]
    ELSE [at |-> pos, pc |-> IF reader.kind = "summary" THEN "mastery" ELSE "done"]

\* Mutation: the items before the number of answers are taken for answered.
ScanByCount ==
    /\ Reading("scan")
    /\ reader' = [reader EXCEPT !.seen = 1 .. Cardinality(Submitted(reader.session)),
                                !.pos = size[reader.session],
                                !.pc = "done"]

\* SELECT of the submission of one item.  get_next_question stops at the first
\* item without one, the summary reads on about an item with one.
Scan ==
    LET k == reader.pos
        found == grade[<<reader.session, k>>] # Ungraded
        stops == reader.kind = "next" /\ ~found
        reads == reader.kind = "summary" /\ found
    IN
    /\ Reading("scan")
    /\ reader' = [reader EXCEPT
           !.seen = @ \union {p \in {k} : found},
           !.pos = IF stops \/ reads THEN k ELSE After(k).at,
           !.pc = CASE stops -> "done" [] reads -> "grade" [] OTHER -> After(k).pc]

\* SELECT of its grade, and of the wrong-book entry of the same submission
ScanGrade ==
    LET k == reader.pos
        q == <<reader.session, k>>
    IN
    /\ Reading("grade")
    /\ reader' = [reader EXCEPT
           !.counted = @ \union {p \in {k} : grade[q] # Ungraded},
           !.bad = @ \union {p \in {k} : grade[q] # Ungraded /\ q \in wrong},
           !.pos = After(k).at, !.pc = After(k).pc]

\* The mastery row, which is looked up if any grade was found, ...
ReadMastery ==
    LET found == reader.counted # {} /\ changes # <<>> IN
    /\ Reading("mastery")
    /\ reader' = [reader EXCEPT !.pc = IF found THEN "logs" ELSE "done",
                                !.level = IF found THEN CurrentLevel ELSE @]

\* Mutation: only the oldest entry.
ReadOldestLog ==
    /\ Reading("logs")
    /\ reader' = [reader EXCEPT !.pc = "done", !.logs = 1]

\* ... and then all entries of its log: nothing selects those of the session.
ReadLogs ==
    /\ Reading("logs")
    /\ reader' = [reader EXCEPT !.pc = "done", !.logs = Len(changes)]

\* get_learning_summary: the mastery row, if there is one, and its last log entry
ReadLevel ==
    /\ Reading("level")
    /\ reader' = [reader EXCEPT !.pc = IF changes = <<>> THEN "pending" ELSE "reason",
                                !.level = CurrentLevel]

ReadReason ==
    /\ Reading("reason")
    /\ reader' = [reader EXCEPT !.pc = "pending", !.logs = Len(changes)]

\* It counts the entries by status in two SELECTs,
CountPending ==
    /\ Reading("pending")
    /\ reader' = [reader EXCEPT !.pc = "reviewing",
                                !.pending = Cardinality(wrong \ reviewing)]

CountReviewing ==
    /\ Reading("reviewing")
    /\ reader' = [reader EXCEPT !.pc = "recent",
                                !.reviewing = Cardinality(wrong \intersect reviewing)]

\* and selects the certain grades of the last days (here: all of them).
ReadRecent ==
    /\ Reading("recent")
    /\ reader' = [reader EXCEPT !.pc = "done",
           !.items = {q \in Questions : grade[q] # Ungraded
                                       /\ IsGradable(grade[q].confident, grade[q].review)}]

\* list_wrong_book: the entries that match, counted and then read page by page,
\* the latest error first.
Listed == IF reader.kind = "pendingBook" THEN wrong \ reviewing ELSE wrong

CountTotal ==
    /\ Reading("total")
    /\ reader' = [reader EXCEPT !.pc = "page", !.pending = Cardinality(Listed)]

ErrorAt(q) == CHOOSE m \in 1 .. Len(changes) : changes[m].question = q

Place(q) == Cardinality({w \in Listed : ErrorAt(w) >= ErrorAt(q)})

Skipped == (reader.pos - 1) * PageSize

ReadPage ==
    /\ Reading("page")
    /\ reader' = [reader EXCEPT !.pc = "done",
           !.items = {q \in Listed : Place(q) \in Skipped + 1 .. Skipped + PageSize}]

Respond == Reading("done") /\ reader' = NoReader

-----------------------------------------------------------------------------
(* The specification                                                       *)

\* Bound: pages asked for, up to one behind the last.
MaxPage == (Cardinality(Questions) \div PageSize) + 1

\* A response is made of what has been read without another await, so that no
\* request that writes comes between the last SELECT and it.
Write ==
    /\ reader.pc # "done"
    /\ \/ \E s \in Sessions, n \in Sizes : Create(s, n)
       \/ \E s \in Sessions, n \in 1 .. Max(Sizes), j \in Judgements : Answer(s, n, j)
       \/ \E q \in Elsewhere, j \in Judgements : AnswerElsewhere(q, j)
       \/ \E f \in Finishers, s \in Sessions, to \in Finished : FinishRead(f, s, to)
       \/ \E f \in Finishers : FinishCommit(f)
       \/ \E q \in Questions : MarkEntry(q)

Read ==
    \/ \E kind \in Kind, s \in Sessions \union {NoSession}, pos \in 1 .. MaxPage :
          Begin(kind, s, pos)
    \/ Scan
    \/ ScanGrade
    \/ ReadMastery
    \/ ReadLogs
    \/ CountPending
    \/ CountReviewing
    \/ ReadLevel
    \/ ReadReason
    \/ ReadRecent
    \/ CountTotal
    \/ ReadPage
    \/ Respond

Next == Write \/ Read

Spec == Init /\ [][Next]_vars

-----------------------------------------------------------------------------
(* Properties                                                              *)

\* finish_practice_session: "repeated finishes return the same result".
FinishIsIdempotent == \A s \in Sessions : Cardinality(answered[s]) <= 1

Done(kinds) == reader.pc = "done" /\ reader.kind \in kinds

OfSession(Q) == {n \in 1 .. size[reader.session] : <<reader.session, n>> \in Q}

\* The question a student is sent to (current_item, get_next_question) is the
\* first one that was open at some moment of the request: nothing before it is
\* open now, it was open when the request began.  The progress next to it
\* counts no answer that was not given, and misses none given before.
CurrentItemIsFirstOpen ==
    Done({"detail", "next"}) =>
        LET open == (1 .. size[reader.session]) \ reader.seen
            first == IF open = {} THEN size[reader.session] + 1 ELSE Min(open)
        IN  /\ 1 .. first - 1 \subseteq Submitted(reader.session)
            /\ first \notin OfSession(reader.before)
            /\ reader.kind = "detail" =>
                  /\ OfSession(reader.before) \subseteq reader.seen
                  /\ reader.seen \subseteq Submitted(reader.session)

\* mastery_change of a summary: from the level before the first entry found to
\* the one after the last.
ReportedChange ==
    IF reader.logs = 0 THEN 0 ELSE changes[reader.logs].after - changes[1].before

\* What is reported is what was done.  A summary is about the answers given by
\* some moment after it was asked for, every one of them with its grade and, if
\* it was bad, its wrong-book entry.  The mastery it names is one that all of
\* them have counted for, and not newer than the change it names; and that is
\* the change since the knowledge point was new, by any session.
SummaryAgrees ==
    /\ OfSession(reader.before) \subseteq reader.counted
    /\ reader.counted = reader.seen
    /\ reader.bad = {n \in reader.counted :
                        LET j == grade[<<reader.session, n>>] IN
                        ShouldCreateWrongBook(j.ratio, j.review)}
    /\ reader.counted # {} =>
          /\ \E m \in 1 .. reader.logs :
                /\ reader.level = changes[m].after
                /\ \A n \in reader.counted :
                      \E k \in 1 .. m : changes[k].question = <<reader.session, n>>
          /\ ReportedChange = changes[reader.logs].after - DefaultLevel

\* A learning summary names a level that is not newer than the change it gives
\* as the reason.  No answer that led to the last change it names is missing
\* from what it says after that: the certain ones are among the recent grades,
\* and the bad ones in the counts of the wrong book, unless an entry is changed
\* meanwhile.
LearningAgrees ==
    LET graded(m) == grade[changes[m].question]
        bad == {m \in 1 .. reader.logs :
                   ShouldCreateWrongBook(graded(m).ratio, graded(m).review)}
    IN
    /\ \E m \in 0 .. reader.logs :
          reader.level = IF m = 0 THEN DefaultLevel ELSE changes[m].after
    /\ \A m \in 1 .. reader.logs :
          IsGradable(graded(m).confident, graded(m).review) =>
              changes[m].question \in reader.items
    /\ ~reader.patched =>
          /\ reader.pending + reader.reviewing >= Cardinality(bad)
          /\ reader.pending + reader.reviewing <= Cardinality(wrong)

\* A page of the wrong book is as full as the total next to it says, unless an
\* entry leaves the list meanwhile.
PageAgrees ==
    reader.kind = "book" \/ ~reader.patched =>
        Cardinality(reader.items) >=
            Min({PageSize, reader.pending - (reader.pos - 1) * PageSize})

ReportsAgree ==
    /\ Done({"summary"}) => SummaryAgrees
    /\ Done({"learning"}) => LearningAgrees
    /\ Done(BookKind) => PageAgrees

\* "The mastery change of this session" (practice.py:455 and 459): the sum of
\* what its own entries changed.  It is false: see ReadLogs.
ChangeIsOfTheSession ==
    Done({"summary"}) =>
        ReportedChange =
            MapThenSumSet(LAMBDA m : changes[m].after - changes[m].before,
                {m \in 1 .. reader.logs : changes[m].question \notin Elsewhere
                                          /\ changes[m].question[1] = reader.session})

=============================================================================
