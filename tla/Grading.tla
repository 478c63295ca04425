------------------------------ MODULE Grading -------------------------------
(***************************************************************************)
(* Submitting answers in a practice session: GradingService.submit_answer  *)
(* (idempotency, submission, grade, mastery, wrong book: one transaction)  *)
(* and the router, which then records an agent run in a second one.        *)
(*                                                                         *)
(* One user, and one knowledge point, which all the items practise: rows   *)
(* of other users and knowledge points are never read or locked together.  *)
(* PostgreSQL is READ COMMITTED: a SELECT does not see uncommitted rows,   *)
(* an INSERT waits for an uncommitted one with the same unique key and     *)
(* fails once that is committed, FOR UPDATE waits for the row's lock.      *)
(***************************************************************************)
EXTENDS MasteryRules, FiniteSets, SequencesExt

CONSTANTS
    Items,      \* questions of the practice session
    Keys,       \* X-Idempotency-Key's the client uses
    Requests,   \* requests that may be in flight at the same time
    Nobody,     \* no request, no item
    Judgements  \* what the grader may say of an answer

ASSUME GradingAssumption ==
    /\ Nobody \notin Requests \union Items
    /\ Judgements \subseteq [ratio : Ratio, review : BOOLEAN, confident : BOOLEAN]

VARIABLES
    idem,       \* idem[k]: the item whose result the completed record of k holds
    grades,     \* grades[i]: the graded submissions of item i, by attempt
    mastery,    \* the mastery_records row
    log,        \* mastery_change_logs, in commit order
    wrong,      \* items in the wrong book
    reported,   \* items with a "practice_grade" agent run
    keyOf,      \* keyOf[k]: the transaction with an uncommitted record of key k
    itemOf,     \* itemOf[i]: ... with an uncommitted submission of item i
    masteryOf,  \* ... with the lock, or an uncommitted insert, of the mastery row
    pc,         \* pc[q]: how far request q is
    req         \* req[q]: its parameters and what its session has read

records == <<idem, grades, mastery, log, wrong>>
locks == <<keyOf, itemOf, masteryOf>>
vars == <<records, reported, locks, pc, req>>

-----------------------------------------------------------------------------
(* Types                                                                   *)

NoJudgement == [ratio |-> 0, review |-> FALSE, confident |-> FALSE]

Mastery == [exists : BOOLEAN, level : Level, streak : Nat, attempts : Nat,
            correct : Nat]

\* No row, and what a new one holds: the defaults of the columns.
NoMastery == [exists |-> FALSE, level |-> DefaultLevel, streak |-> 0, attempts |-> 0,
              correct |-> 0]

\* An entry of kind "grade" is the change by a grade; the two others are
\* derived from it and repeat the level it has led to.
Entry == [kind : {"grade", "difficulty", "mastered"}, item : Items,
          before : Level, after : Level]

Request == [item : Items \union {Nobody}, key : Keys \union {Nobody}, attempt : Nat,
            judgement : Judgements \union {NoJudgement}, mastery : Mastery]

NoRequest == [item |-> Nobody, key |-> Nobody, attempt |-> 0,
              judgement |-> NoJudgement, mastery |-> NoMastery]

TypeOK ==
    /\ idem \in [Keys -> Items \union {Nobody}]
    /\ grades \in [Items -> Seq(Judgements)]
    /\ mastery \in Mastery
    /\ log \in Seq(Entry)
    /\ wrong \subseteq Items
    /\ reported \subseteq Items
    /\ keyOf \in [Keys -> Requests \union {Nobody}]
    /\ itemOf \in [Items -> Requests \union {Nobody}]
    /\ masteryOf \in Requests \union {Nobody}
    /\ pc \in [Requests -> {"idle", "asked", "checked", "keyed", "ungraded",
                            "submitted", "judged", "missing", "updating", "graded"}]
    /\ req \in [Requests -> Request]

Init ==
    /\ idem = [k \in Keys |-> Nobody]
    /\ grades = [i \in Items |-> <<>>]
    /\ mastery = NoMastery
    /\ log = <<>>
    /\ wrong = {}
    /\ reported = {}
    /\ keyOf = [k \in Keys |-> Nobody]
    /\ itemOf = [i \in Items |-> Nobody]
    /\ masteryOf = Nobody
    /\ pc = [q \in Requests |-> "idle"]
    /\ req = [q \in Requests |-> NoRequest]

-----------------------------------------------------------------------------
(* Helpers                                                                 *)

Goes(q, from, to) == pc[q] = from /\ pc' = [pc EXCEPT ![q] = to]

Gradable(j) == IsGradable(j.confident, j.review)

Good(j) == j.ratio >= MASTERED_THRESHOLD

\* Commit and rollback release whatever the transaction of q holds.
ReleaseAll(q) ==
    /\ keyOf' = [k \in Keys |-> IF keyOf[k] = q THEN Nobody ELSE keyOf[k]]
    /\ itemOf' = [i \in Items |-> IF itemOf[i] = q THEN Nobody ELSE itemOf[i]]
    /\ masteryOf' = IF masteryOf = q THEN Nobody ELSE masteryOf

\* Mutation: the session is not rolled back.
AbortHoldingLocks(q) ==
    /\ pc' = [pc EXCEPT ![q] = "idle"]
    /\ req' = [req EXCEPT ![q] = NoRequest]
    /\ UNCHANGED <<records, reported, locks>>

\* The handler ends with an error: get_session rolls everything back, the
\* status "failed" of the idempotency record included.
Abort(q) ==
    /\ pc' = [pc EXCEPT ![q] = "idle"]
    /\ req' = [req EXCEPT ![q] = NoRequest]
    /\ ReleaseAll(q)
    /\ UNCHANGED <<records, reported>>

\* _get_recent_score_ratios recovers each ratio from the levels of an entry.
RatioOf(entry) ==
    Clamp(0, 100, ((10 * entry.after - 7 * entry.before) \div 3 + 50) \div 100)

\* What it returns, with the new ratio: of the five latest entries one is the
\* entry of the new grade itself, which is skipped.
RecentRatios(ratio) ==
    LET earlier == SubSeq(log, IF Len(log) > 4 THEN Len(log) - 3 ELSE 1, Len(log))
    IN  Append([n \in DOMAIN earlier |-> RatioOf(earlier[n])], ratio)

\* The mastery row after judgement j.
Updated(m, j) ==
    IF ~Gradable(j) THEN [m EXCEPT !.exists = TRUE]
    ELSE [exists |-> TRUE,
          level |-> ComputeMastery(m.level, j.ratio),
          streak |-> ComputeStreakUpdate(Good(j), m.streak),
          attempts |-> m.attempts + 1,
          correct |-> m.correct + IF Good(j) THEN 1 ELSE 0]

\* The entries a judgement appends to the log; the difficulty starts from 2.
Entries(i, before, after, j) ==
    LET entry(kind, from) == [kind |-> kind, item |-> i, before |-> from, after |-> after]
        recent == RecentRatios(j.ratio)
        good == [n \in DOMAIN recent |-> recent[n] >= MASTERED_THRESHOLD]
        harder == Gradable(j) /\ ComputeDifficultyAdjustment(recent, 2) # 2
        mastered == Gradable(j) /\ ComputeMasteryStatus(good) = "mastered"
    IN  <<entry("grade", before)>>
        \o (IF harder THEN <<entry("difficulty", after)>> ELSE <<>>)
        \o (IF mastered THEN <<entry("mastered", after)>> ELSE <<>>)

-----------------------------------------------------------------------------
(* POST /practice/sessions/{id}/answers                                    *)

Submit(q, i, k) ==
    /\ Goes(q, "idle", "asked")
    /\ req' = [req EXCEPT ![q].item = i, ![q].key = k]
    /\ UNCHANGED <<records, reported, locks>>

\* A completed record is answered with its result, whatever the request asks;
\* the row lock of this read only delays other replays.
CheckKey(q) ==
    LET i == idem[req[q].key] IN
    /\ \/ Goes(q, "asked", "checked") /\ i = Nobody /\ UNCHANGED req
       \/ Goes(q, "asked", "graded") /\ i # Nobody /\ req' = [req EXCEPT ![q].item = i]
    /\ UNCHANGED <<records, reported, locks>>

\* INSERT of the record in status "processing"
InsertKey(q) ==
    LET k == req[q].key IN
    /\ Goes(q, "checked", "keyed")
    /\ keyOf[k] = Nobody
    /\ idem[k] = Nobody
    /\ keyOf' = [keyOf EXCEPT ![k] = q]
    /\ UNCHANGED <<records, reported, itemOf, masteryOf, req>>

\* Mutation: a graded item gets a further attempt.
CheckNothing(q) ==
    /\ Goes(q, "keyed", "ungraded")
    /\ req' = [req EXCEPT ![q].attempt = Len(grades[req[q].item]) + 1]
    /\ UNCHANGED <<records, reported, locks>>

\* The item is the user's and of the asked version, and has no graded attempt.
CheckItem(q) ==
    LET i == req[q].item IN
    /\ Goes(q, "keyed", "ungraded")
    /\ grades[i] = <<>>
    /\ req' = [req EXCEPT ![q].attempt = Len(grades[i]) + 1]
    /\ UNCHANGED <<records, reported, locks>>

\* INSERT of the submission: (item_id, attempt) is unique.
InsertSubmission(q) ==
    LET i == req[q].item IN
    /\ Goes(q, "ungraded", "submitted")
    /\ itemOf[i] = Nobody
    /\ Len(grades[i]) < req[q].attempt
    /\ itemOf' = [itemOf EXCEPT ![i] = q]
    /\ UNCHANGED <<records, reported, keyOf, masteryOf, req>>

\* The adapter answers; its exception is an Abort.
Judge(q, j) ==
    /\ Goes(q, "submitted", "judged")
    /\ req' = [req EXCEPT ![q].judgement = j]
    /\ UNCHANGED <<records, reported, locks>>

\* Mutation: an existing row is read without FOR UPDATE.
SelectMasteryUnlocked(q) ==
    /\ \/ Goes(q, "judged", "updating") /\ mastery.exists
       \/ Goes(q, "judged", "missing") /\ ~mastery.exists
    /\ req' = [req EXCEPT ![q].mastery = mastery]
    /\ UNCHANGED <<records, reported, locks>>

\* _get_or_create_mastery: SELECT ... FOR UPDATE, which sees no uncommitted row
SelectMastery(q) ==
    /\ \/ /\ Goes(q, "judged", "updating")
          /\ mastery.exists
          /\ masteryOf = Nobody
          /\ masteryOf' = q
       \/ /\ Goes(q, "judged", "missing")
          /\ ~mastery.exists
          /\ UNCHANGED masteryOf
    /\ req' = [req EXCEPT ![q].mastery = mastery]
    /\ UNCHANGED <<records, reported, keyOf, itemOf>>

\* ... or INSERT: (user_id, knowledge_point) is unique.
InsertMastery(q) ==
    /\ Goes(q, "missing", "updating")
    /\ masteryOf = Nobody
    /\ ~mastery.exists
    /\ masteryOf' = q
    /\ UNCHANGED <<records, reported, keyOf, itemOf, req>>

\* Grade, mastery, log, wrong book and the completed record: one commit.
CommitGrade(q) ==
    LET i == req[q].item
        j == req[q].judgement
        old == req[q].mastery
        new == Updated(old, j)
    IN
    /\ Goes(q, "updating", "graded")
    /\ grades' = [grades EXCEPT ![i] = Append(@, j)]
    /\ mastery' = new
    /\ log' = log \o Entries(i, old.level, new.level, j)
    /\ wrong' = IF ShouldCreateWrongBook(j.ratio, j.review) THEN wrong \union {i}
                                                            ELSE wrong
    /\ idem' = [idem EXCEPT ![req[q].key] = i]
    /\ ReleaseAll(q)
    /\ UNCHANGED <<reported, req>>

\* The router stores a run and its two events for the result, new or replayed.
RecordRun(q) ==
    /\ Goes(q, "graded", "idle")
    /\ reported' = reported \union {req[q].item}
    /\ req' = [req EXCEPT ![q] = NoRequest]
    /\ UNCHANGED <<records, locks>>

\* A duplicate key, an item that is graded already, a second attempt 1, a
\* mastery row somebody else has inserted meanwhile.
Refused(q) ==
    /\ \/ /\ pc[q] = "checked"
          /\ keyOf[req[q].key] = Nobody
          /\ idem[req[q].key] # Nobody
       \/ /\ pc[q] = "keyed"
          /\ grades[req[q].item] # <<>>
       \/ /\ pc[q] = "ungraded"
          /\ itemOf[req[q].item] = Nobody
          /\ Len(grades[req[q].item]) >= req[q].attempt
       \/ /\ pc[q] = "missing"
          /\ masteryOf = Nobody
          /\ mastery.exists
    /\ Abort(q)

\* The grader raises, the version is another one, the database fails, the
\* process dies.
Fails(q) == pc[q] # "idle" /\ Abort(q)

-----------------------------------------------------------------------------
(* The specification                                                       *)

Handle(q) ==
    \/ CheckKey(q)
    \/ InsertKey(q)
    \/ CheckItem(q)
    \/ InsertSubmission(q)
    \/ \E j \in Judgements : Judge(q, j)
    \/ SelectMastery(q)
    \/ InsertMastery(q)
    \/ CommitGrade(q)
    \/ RecordRun(q)
    \/ Refused(q)

Next ==
    \E q \in Requests :
        \/ \E i \in Items, k \in Keys : Submit(q, i, k)
        \/ Handle(q)
        \/ Fails(q)

Spec == Init /\ [][Next]_vars

-----------------------------------------------------------------------------
(* Properties                                                              *)

\* Whatever keys the client uses, and however its requests overlap, an item is
\* graded at most once, under one key, and nothing is reported before.
GradedOnce ==
    /\ \A i \in Items :
          Cardinality({k \in Keys : idem[k] = i}) = Len(grades[i])
    /\ \A i \in Items : Len(grades[i]) <= 1
    /\ \A i \in reported : grades[i] # <<>>

\* The places of the log with the change by a grade; of those, the ones with a
\* grade that counts, and with a good one.
GradePlaces == {n \in DOMAIN log : log[n].kind = "grade"}

GradeOf(entry) == grades[entry.item][1]

ScorePlaces == {n \in GradePlaces : Gradable(GradeOf(log[n]))}

GoodPlaces == {n \in ScorePlaces : Good(GradeOf(log[n]))}

\* The m-th of a set of places
Ranked(P, m) == {n \in P : Cardinality({p \in P : p <= n}) = m}

Nth(P, m) == CHOOSE n \in Ranked(P, m) : TRUE

\* The grades in the order in which they were committed.
GradeLog == [m \in 1 .. Cardinality(GradePlaces) |-> log[Nth(GradePlaces, m)]]

\* The levels in the log form a chain from the level of a new row, the default
\* of its column, to the level of the row; what a grade derives repeats its level.
LevelsAreChained ==
    /\ \A m \in DOMAIN log :
          log[m].before = CASE log[m].kind # "grade" -> log[m].after
                            [] m = 1 -> DefaultLevel
                            [] OTHER -> log[m - 1].after
    /\ mastery.level = IF log = <<>> THEN DefaultLevel ELSE Last(log).after

\* No update of the mastery row is lost: it counts every gradable grade, its
\* streak is that of the latest ones, and the levels in the log form a chain.
MasteryIsExplained ==
    /\ Cardinality(GradePlaces) = Cardinality({i \in Items : grades[i] # <<>>})
    /\ mastery.attempts = Cardinality(ScorePlaces)
    /\ mastery.correct = Cardinality(GoodPlaces)
    /\ mastery.streak = Cardinality({n \in ScorePlaces :
                           \A l \in ScorePlaces : l >= n => l \in GoodPlaces})
    /\ LevelsAreChained

\* What the other components see of the grades.
Book == INSTANCE GradeBook WITH
    Questions <- Items,
    Ungraded <- Nobody,
    grade <- [i \in Items |-> IF grades[i] = <<>> THEN Nobody ELSE Last(grades[i])],
    changes <- [n \in DOMAIN GradeLog |-> [question |-> GradeLog[n].item,
                                           before |-> GradeLog[n].before,
                                           after |-> GradeLog[n].after]]

\* For every other component an answer is graded once and in one step, with its
\* entry in the mastery log and in the wrong book: a request takes up to ten
\* steps for it, others overlap with them, and any of them may fail.
GradesAtomically == Book!BookSpec

\* initial_mastery ("the default mastery of a new knowledge point is 0.5",
\* mastery_rules.py:68): the first change of a point starts from 0.5.  It is not
\* so: _get_or_create_mastery stores the default of the column, 0.
NewPointsStartHalfway == log # <<>> => log[1].before = InitialMastery

\* compute_mastery_status: two good scores in a row make the point "mastered",
\* which the grading of the second one logs.
TwoGoodScoresMaster ==
    LET counts(entry) == Gradable(GradeOf(entry)) /\ Good(GradeOf(entry)) IN
    \A n \in 2 .. Len(GradeLog) :
        counts(GradeLog[n - 1]) /\ counts(GradeLog[n]) =>
            \E m \in DOMAIN log :
                log[m].kind = "mastered" /\ log[m].item = GradeLog[n].item

\* The transaction request q waits for.
WaitsFor(q) ==
    CASE pc[q] = "checked"                     -> keyOf[req[q].key]
      [] pc[q] = "ungraded"                    -> itemOf[req[q].item]
      [] pc[q] = "judged" /\ mastery.exists    -> masteryOf
      [] pc[q] = "missing"                     -> masteryOf
      [] OTHER                                 -> Nobody

\* No requests wait for each other, or for one that is gone: key, item and
\* mastery row are locked in this order and released by every ending.
NoDeadlock ==
    \A Q \in (SUBSET Requests) \ {{}} :
        \E q \in Q : WaitsFor(q) \notin Q /\ (WaitsFor(q) # Nobody =>
                                                pc[WaitsFor(q)] # "idle")

=============================================================================
