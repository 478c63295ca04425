---------------------------- MODULE TrainingProofs -----------------------------
(***************************************************************************)
(* Practice sessions, for any sessions, sizes and judgements: what the     *)
(* reading requests report although answers, finishes and changes of the   *)
(* wrong book are committed between their SELECTs, and when repeated       *)
(* finishes agree.                                                         *)
(***************************************************************************)
EXTENDS Training, FiniteSetTheorems, WellFoundedInduction, TLAPS
-----------------------------------------------------------------------------
(* Numbers and finite sets                                                 *)

Below == {p \in Nat \X Nat : p[1] < p[2]}

LEMMA BelowIsWellFounded == IsWellFoundedOn(Below, Nat)
<1>1. OpToRel(<, Nat) = Below
  BY Zenon DEF OpToRel, Below
<1> QED
  BY <1>1, NatLessThanWellFounded, Zenon

\* A set of natural numbers has a least one.
LEMMA LeastNumber ==
  ASSUME NEW S \in SUBSET Nat, S # {}
  PROVE  Min(S) \in S /\ \A y \in S : Min(S) <= y
<1>1. PICK x \in S : \A y \in S : ~(<<y, x>> \in Below)
  BY BelowIsWellFounded, WFMin
<1>2. ASSUME NEW y \in S PROVE x <= y
  <2>1. x \in Nat /\ y \in Nat
    OBVIOUS
  <2>2. ~(<<y, x>>[1] < <<y, x>>[2])
    BY <1>1, <2>1, Zenon DEF Below
  <2> QED
    BY <2>1, <2>2
<1> QED
  BY <1>2 DEF Min

LEMMA LesserOfTwo ==
  ASSUME NEW a \in Int, NEW b \in Int
  PROVE  Min({a, b}) = IF a <= b THEN a ELSE b
  BY DEF Min

LEMMA LargestSize ==
  Max(Sizes) \in Nat /\ \A n \in Sizes : n <= Max(Sizes)
  BY TrainingAssumption DEF Max

LEMMA FiniteQuestions ==
  /\ IsFiniteSet(Questions)
  /\ Cardinality(Questions) \in Nat
  /\ \A Q \in SUBSET Questions : IsFiniteSet(Q) /\ Cardinality(Q) \in Nat
<1>1. IsFiniteSet(1 .. Max(Sizes))
  BY LargestSize, FS_Interval
<1>2. IsFiniteSet(Questions)
  BY <1>1, FS_Product, FS_Union, TrainingAssumption
<1>3. ASSUME NEW Q \in SUBSET Questions PROVE IsFiniteSet(Q)
  BY <1>2, FS_Subset
<1> QED
  BY <1>2, <1>3, FS_CardinalityType

\* A subset of a finite set, and its size.
LEMMA SmallerSet ==
  ASSUME NEW S, NEW T, IsFiniteSet(T), S \subseteq T
  PROVE  /\ IsFiniteSet(S)
         /\ Cardinality(S) \in Nat
         /\ Cardinality(T) \in Nat
         /\ Cardinality(S) <= Cardinality(T)
<1>1. IsFiniteSet(S) /\ Cardinality(S) <= Cardinality(T)
  BY FS_Subset
<1> QED
  BY <1>1, FS_CardinalityType

-----------------------------------------------------------------------------
(* The grade book                                                          *)

\* Every grade has its change in the log, only grades have one, and no two
\* changes are of the same question.
BookExplains ==
    /\ BookTypeOK
    /\ \A q \in Questions : grade[q] # Ungraded =>
          \E m \in 1 .. Len(changes) : changes[m].question = q
    /\ \A m \in 1 .. Len(changes) : grade[changes[m].question] # Ungraded
    /\ \A m, n \in 1 .. Len(changes) :
          changes[m].question = changes[n].question => m = n
    /\ Len(changes) > 0 => changes[1].before = DefaultLevel
    /\ wrong = {q \in Questions : /\ grade[q] # Ungraded
                                  /\ ShouldCreateWrongBook(grade[q].ratio, grade[q].review)}

\* What a step keeps: grades stay, the logs are extended.
BookGrows ==
    /\ \A q \in Questions : grade[q] # Ungraded => grade'[q] = grade[q]
    /\ Len(changes) <= Len(changes')
    /\ \A m \in 1 .. Len(changes) : changes'[m] = changes[m]
    /\ wrong \subseteq wrong'

LEMMA LevelIsLevel ==
  ASSUME NEW old \in Level, NEW ratio \in Ratio
  PROVE  ComputeMastery(old, ratio) \in Level
<1> DEFINE n == 7 * old + 300 * ratio + 5
<1>1. n \in Int
  BY DEF Level, Ratio
<1> HIDE DEF n
<1>2. n \div 10 \in Int
  BY <1>1
<1>3. ASSUME NEW k \in Int PROVE Clamp(0, 10000, k) \in Level
  <2>1. CASE k < 0
    BY <2>1 DEF Clamp, Level
  <2>2. CASE k > 10000
    BY <2>2 DEF Clamp, Level
  <2>3. CASE k \in 0 .. 10000
    BY <2>3 DEF Clamp, Level
  <2> QED
    BY <2>1, <2>2, <2>3
<1> QED
  BY <1>2, <1>3 DEF ComputeMastery, n

LEMMA CurrentIsLevel ==
  ASSUME changes \in Seq(Change)
  PROVE  CurrentLevel \in Level
<1>1. CASE changes = <<>>
  BY <1>1 DEF CurrentLevel, Level, DefaultLevel
<1>2. CASE changes # <<>>
  <2>1. changes[Len(changes)] \in Change
    BY <1>2
  <2> QED
    BY <1>2, <2>1 DEF CurrentLevel, Change, Last
<1> QED
  BY <1>1, <1>2

\* One grade more: it is logged once and makes an entry if it is bad.
LEMMA GradeKeeps ==
  ASSUME BookExplains, NEW q \in Questions, NEW j \in Judgements, Grade(q, j)
  PROVE  BookExplains' /\ BookGrows
<1> DEFINE entry == [question |-> q, before |-> CurrentLevel, after |-> NewLevel(j)]
<1>1. CurrentLevel \in Level
  BY CurrentIsLevel DEF BookExplains, BookTypeOK
<1>2. j.ratio \in Ratio /\ j # Ungraded
  BY TrainingAssumption
<1>3. NewLevel(j) \in Level
  BY <1>1, <1>2, LevelIsLevel DEF NewLevel
<1>4. entry \in Change /\ entry.question = q
  BY <1>1, <1>3 DEF Change
<1>5. changes \in Seq(Change) /\ changes' = Append(changes, entry)
  BY DEF BookExplains, BookTypeOK, Grade
<1> HIDE DEF entry
<1>6. /\ changes' \in Seq(Change)
      /\ Len(changes') = Len(changes) + 1 /\ Len(changes) \in Nat
      /\ \A m \in 1 .. Len(changes) : changes'[m] = changes[m]
      /\ changes'[Len(changes) + 1] = entry
  BY <1>4, <1>5
<1>7. /\ grade \in [Questions -> Judgements \union {Ungraded}]
      /\ grade[q] = Ungraded /\ grade' = [grade EXCEPT ![q] = j]
  BY DEF BookExplains, BookTypeOK, Grade
<1>8. BookTypeOK'
  BY <1>6, <1>7 DEF BookExplains, BookTypeOK, Grade
<1>9. \A m \in 1 .. Len(changes) : changes[m].question \in Questions \ {q}
  <2>1. ASSUME NEW m \in 1 .. Len(changes)
        PROVE  changes[m].question \in Questions \ {q}
    <3>1. changes[m] \in Change
      BY <1>5
    <3>2. changes[m].question \in Questions
      BY <3>1 DEF Change
    <3>3. grade[changes[m].question] # Ungraded
      BY DEF BookExplains
    <3> QED
      BY <1>7, <3>2, <3>3
  <2> QED
    BY <2>1
<1>10. ASSUME NEW p \in Questions, grade'[p] # Ungraded
       PROVE  \E m \in 1 .. Len(changes') : changes'[m].question = p
  <2>1. CASE p = q
    BY <1>4, <1>6, <2>1
  <2>2. CASE p # q
    <3>1. PICK m \in 1 .. Len(changes) : changes[m].question = p
      BY <1>7, <1>10, <2>2 DEF BookExplains
    <3> QED
      BY <1>6, <3>1
  <2> QED
    BY <2>1, <2>2
<1>11. ASSUME NEW m \in 1 .. Len(changes') PROVE grade'[changes'[m].question] # Ungraded
  <2>1. CASE m = Len(changes) + 1
    BY <1>2, <1>4, <1>6, <1>7, <2>1
  <2>2. CASE m \in 1 .. Len(changes)
    BY <1>6, <1>7, <1>9, <2>2 DEF BookExplains
  <2> QED
    BY <1>6, <2>1, <2>2
<1>12. ASSUME NEW m \in 1 .. Len(changes'), NEW n \in 1 .. Len(changes'),
              changes'[m].question = changes'[n].question
       PROVE  m = n
  BY <1>4, <1>6, <1>9, <1>12 DEF BookExplains
<1>13. wrong' = {p \in Questions :
                   /\ grade'[p] # Ungraded
                   /\ ShouldCreateWrongBook(grade'[p].ratio, grade'[p].review)}
  <2>1. wrong' = wrong \union {w \in {q} : ShouldCreateWrongBook(j.ratio, j.review)}
    BY DEF Grade
  <2>2. \A p \in Questions \ {q} : grade'[p] = grade[p]
    BY <1>7
  <2>3. grade'[q] = j
    BY <1>7
  <2>4. q \notin wrong /\ wrong \subseteq Questions
    BY <1>7 DEF BookExplains
  <2>5. ASSUME NEW p \in Questions
        PROVE  p \in wrong' <=>
                 /\ grade'[p] # Ungraded
                 /\ ShouldCreateWrongBook(grade'[p].ratio, grade'[p].review)
    <3>1. CASE p = q
      BY <1>2, <2>1, <2>3, <2>4, <3>1
    <3>2. CASE p # q
      <4>1. p \in wrong' <=> p \in wrong
        BY <2>1, <3>2
      <4> QED
        BY <2>2, <3>2, <4>1 DEF BookExplains
    <3> QED
      BY <3>1, <3>2
  <2> QED
    BY <2>1, <2>4, <2>5
<1>16. changes'[1].before = DefaultLevel
  <2>1. CASE Len(changes) = 0
    <3>1. changes = <<>>
      BY <1>5, <2>1
    <3>2. CurrentLevel = DefaultLevel
      BY <3>1 DEF CurrentLevel
    <3>3. entry.before = CurrentLevel
      BY DEF entry
    <3> QED
      BY <1>6, <2>1, <3>2, <3>3
  <2>2. CASE Len(changes) # 0
    <3>1. 1 \in 1 .. Len(changes)
      BY <1>6, <2>2
    <3> QED
      BY <1>6, <2>2, <3>1 DEF BookExplains
  <2> QED
    BY <2>1, <2>2
<1>14. BookExplains'
  BY <1>8, <1>10, <1>11, <1>12, <1>13, <1>16 DEF BookExplains
<1>15. wrong \subseteq wrong'
  BY DEF Grade
<1> QED
  BY <1>6, <1>7, <1>14, <1>15 DEF BookGrows

LEMMA BookStays ==
  ASSUME BookExplains, UNCHANGED bookVars
  PROVE  BookExplains' /\ BookGrows
<1>1. BookExplains'
  BY DEF BookExplains, BookTypeOK, bookVars
<1>2. Len(changes) \in Nat
  BY DEF BookExplains, BookTypeOK
<1> QED
  BY <1>1, <1>2 DEF BookGrows, bookVars

-----------------------------------------------------------------------------
(* What a reading request knows                                            *)

\* The positions up to n have been looked at.
Scanned(n) ==
    /\ reader.seen \subseteq 1 .. n
    /\ \A k \in reader.seen : grade[<<reader.session, k>>] # Ungraded
    /\ \A k \in 1 .. n : <<reader.session, k>> \in reader.before => k \in reader.seen

BadCounted ==
    {n \in reader.counted : LET j == grade[<<reader.session, n>>] IN
                            ShouldCreateWrongBook(j.ratio, j.review)}

\* The first n changes include those of all answers that are counted.
CountedBy(n) ==
    \A p \in reader.counted : \E k \in 1 .. n : changes[k].question = <<reader.session, p>>

InSession == {"scan", "grade", "mastery", "logs"}

\* A request about a session: the answers that were there when it began are
\* among those found in the positions it has passed.
SessionRequestFits ==
    reader.pc \in InSession =>
        /\ reader.kind \in SessionKind
        /\ reader.pc # "scan" => reader.kind = "summary"
        /\ reader.session \in Sessions
        /\ status[reader.session] # "absent"
        /\ reader.pos \in 1 .. size[reader.session]
        /\ \A q \in reader.before : grade[q] # Ungraded
        /\ reader.pc = "scan" => Scanned(reader.pos - 1)
        /\ reader.pc = "scan" /\ reader.kind = "next" => reader.seen = 1 .. reader.pos - 1
        /\ reader.pc = "scan" /\ reader.kind = "summary" => reader.counted = reader.seen
        /\ reader.pc = "grade" => /\ Scanned(reader.pos)
                                  /\ reader.pos \in reader.seen
                                  /\ reader.counted = reader.seen \ {reader.pos}
        /\ reader.pc = "mastery" => /\ Scanned(size[reader.session])
                                    /\ reader.counted = reader.seen
        /\ reader.pc = "logs" => /\ Scanned(size[reader.session])
                                 /\ reader.counted = reader.seen
                                 /\ \E m \in 1 .. Len(changes) :
                                       reader.level = changes[m].after /\ CountedBy(m)
        /\ reader.kind = "summary" => reader.bad = BadCounted

InLearning == {"level", "reason", "pending", "reviewing", "recent"}

\* The wrong-book entries behind the first n changes.
BadOf(n) == {q \in wrong : \E m \in 1 .. n : changes[m].question = q}

\* A learning request: its level is that of a change it has seen, and while no
\* entry is changed its counts lie between the entries behind those changes
\* and all entries.
LearningRequestFits ==
    reader.pc \in InLearning =>
        /\ reader.kind = "learning"
        /\ reader.pc = "level" => reader.logs = 0
        /\ reader.pc = "reason" => \E m \in 1 .. Len(changes) : reader.level = changes[m].after
        /\ reader.pc \in {"pending", "reviewing", "recent"} =>
              /\ reader.logs \in 0 .. Len(changes)
              /\ \E m \in 0 .. reader.logs :
                    reader.level = IF m = 0 THEN DefaultLevel ELSE changes[m].after
        /\ reader.pc = "reviewing" /\ ~reader.patched =>
              /\ Cardinality(BadOf(reader.logs) \ reviewing) <= reader.pending
              /\ reader.pending <= Cardinality(wrong \ reviewing)
        /\ reader.pc = "recent" /\ ~reader.patched =>
              /\ Cardinality(BadOf(reader.logs)) <= reader.pending + reader.reviewing
              /\ reader.pending + reader.reviewing <= Cardinality(wrong)

\* A request for a page: the list is at least as long as the total says.
PageRequestFits ==
    reader.pc \in {"total", "page"} =>
        /\ reader.kind \in BookKind
        /\ reader.pos >= 1
        /\ reader.pc = "page" /\ (reader.kind = "book" \/ ~reader.patched) =>
              reader.pending <= Cardinality(Listed)

ReaderFits ==
    /\ reader \in Reader
    /\ SessionRequestFits
    /\ LearningRequestFits
    /\ PageRequestFits
    /\ CurrentItemIsFirstOpen
    /\ ReportsAgree

\* What a committed write does to what a request has read
SessionsStay ==
    \A s \in Sessions : status[s] # "absent" =>
        status'[s] # "absent" /\ size'[s] = size[s]

\* Later grades add no entries behind the first n changes.
LEMMA BadStays ==
  ASSUME BookExplains, BookExplains', BookGrows, NEW n \in 0 .. Len(changes)
  PROVE  BadOf(n)' = BadOf(n)
<1>1. Len(changes) \in Nat
  BY DEF BookExplains, BookTypeOK
<1>2. \A m \in 1 .. n : changes'[m] = changes[m]
  BY <1>1 DEF BookGrows
<1>3. ASSUME NEW q \in wrong', NEW m \in 1 .. n, changes[m].question = q
      PROVE  q \in wrong
  <2>1. q \in Questions /\ ShouldCreateWrongBook(grade'[q].ratio, grade'[q].review)
    BY <1>3 DEF BookExplains
  <2>2. m \in 1 .. Len(changes)
    BY <1>1, <1>3
  <2>3. grade[q] # Ungraded
    BY <1>3, <2>2 DEF BookExplains
  <2>4. grade'[q] = grade[q]
    BY <2>1, <2>3 DEF BookGrows
  <2>5. wrong = {p \in Questions : /\ grade[p] # Ungraded
                                  /\ ShouldCreateWrongBook(grade[p].ratio, grade[p].review)}
    BY DEF BookExplains
  <2> QED
    BY <2>1, <2>3, <2>4, <2>5
<1>4. wrong \subseteq wrong'
  BY DEF BookGrows
<1> QED
  BY <1>2, <1>3, <1>4 DEF BadOf

LEMMA SizeIsNumber ==
  ASSUME size \in [Sessions -> {0} \union Sizes], NEW s \in Sessions
  PROVE  size[s] \in Nat /\ (size[s] = 0 \/ size[s] \in Sizes)
<1>1. \A n \in Sizes : n \in Nat
  BY TrainingAssumption
<1>2. size[s] \in {0} \union Sizes
  OBVIOUS
<1>3. size[s] = 0 \/ size[s] \in Sizes
  BY <1>2
<1> QED
  BY <1>1, <1>3

LEMMA PositionIsQuestion ==
  ASSUME size \in [Sessions -> {0} \union Sizes], NEW s \in Sessions, NEW k \in 1 .. size[s]
  PROVE  <<s, k>> \in Questions
<1>1. k \in 1 .. Max(Sizes)
  BY SizeIsNumber, LargestSize
<1> QED
  BY <1>1, TrainingAssumption

\* Whatever another transaction commits, what a request has read stays true in
\* the sense of ReaderFits: every bound of it is one that grows with the book.
LEMMA WriteKeepsRequest ==
  ASSUME ReaderFits, reader.pc # "done", BookExplains, BookExplains', BookGrows,
         SessionsStay, size \in [Sessions -> {0} \union Sizes], NEW p \in BOOLEAN,
         reader' = [reader EXCEPT !.patched = p],
         reader.pc # "idle" /\ ~p => reviewing' = reviewing /\ ~reader.patched
  PROVE  ReaderFits'
<1>1. /\ reader \in Reader /\ reader' \in Reader
      /\ reader'.pc = reader.pc /\ reader'.kind = reader.kind
      /\ reader'.session = reader.session /\ reader'.pos = reader.pos
      /\ reader'.seen = reader.seen /\ reader'.counted = reader.counted
      /\ reader'.bad = reader.bad /\ reader'.level = reader.level
      /\ reader'.logs = reader.logs /\ reader'.pending = reader.pending
      /\ reader'.reviewing = reader.reviewing /\ reader'.items = reader.items
      /\ reader'.before = reader.before /\ reader'.patched = p
  BY DEF ReaderFits, Reader
<1>2. CurrentItemIsFirstOpen' /\ ReportsAgree'
  BY <1>1 DEF CurrentItemIsFirstOpen, ReportsAgree, Done
<1>3. ASSUME reader.pc \in InSession PROVE SessionRequestFits'
  <2>1. SessionRequestFits /\ reader.session \in Sessions /\ status[reader.session] # "absent"
    BY <1>3 DEF ReaderFits, SessionRequestFits
  <2>2. size'[reader.session] = size[reader.session] /\ status'[reader.session] # "absent"
    BY <2>1 DEF SessionsStay
  <2>3. \A q \in Questions : grade[q] # Ungraded => grade'[q] = grade[q]
    BY DEF BookGrows
  <2>4. reader.before \subseteq Questions
    BY <1>1 DEF Reader
  <2>5. /\ reader.seen \subseteq 1 .. size[reader.session]
        /\ reader.counted \subseteq reader.seen \/ reader.kind # "summary"
        /\ \A k \in reader.seen : grade[<<reader.session, k>>] # Ungraded
    <3>1. size[reader.session] \in Nat
      BY <2>1, SizeIsNumber
    <3>2. reader.pos \in 1 .. size[reader.session]
      BY <1>3, <2>1 DEF SessionRequestFits
    <3>3. PICK n \in 0 .. size[reader.session] : Scanned(n)
      <4>1. /\ reader.pos - 1 \in 0 .. size[reader.session]
            /\ reader.pos \in 0 .. size[reader.session]
            /\ size[reader.session] \in 0 .. size[reader.session]
        BY <3>1, <3>2
      <4> QED
        BY <1>3, <2>1, <4>1 DEF SessionRequestFits, InSession
    <3>4. reader.counted \subseteq reader.seen \/ reader.kind # "summary"
      BY <1>3, <2>1 DEF SessionRequestFits, InSession
    <3> QED
      BY <3>1, <3>3, <3>4 DEF Scanned
  <2>6. \A k \in reader.seen : grade'[<<reader.session, k>>] = grade[<<reader.session, k>>]
    BY <2>1, <2>3, <2>5, PositionIsQuestion
  <2>7. BadCounted' = BadCounted \/ reader.kind # "summary"
    BY <1>1, <2>5, <2>6 DEF BadCounted
  <2>8. \A n : Scanned(n) => Scanned(n)'
    BY <1>1, <2>6 DEF Scanned
  <2>9. \A q \in reader.before : grade'[q] # Ungraded
    BY <1>3, <2>1, <2>3, <2>4 DEF SessionRequestFits
  <2>10. ASSUME reader.pc = "logs"
         PROVE  \E m \in 1 .. Len(changes') : reader.level = changes'[m].after /\ CountedBy(m)'
    <3>1. PICK m \in 1 .. Len(changes) : reader.level = changes[m].after /\ CountedBy(m)
      BY <1>3, <2>1, <2>10 DEF SessionRequestFits
    <3>2. /\ Len(changes) \in Nat /\ Len(changes') \in Nat /\ Len(changes) <= Len(changes')
          /\ \A k \in 1 .. Len(changes) : changes'[k] = changes[k]
      BY DEF BookExplains, BookTypeOK, BookGrows
    <3>3. m \in 1 .. Len(changes') /\ \A k \in 1 .. m : changes'[k] = changes[k]
      BY <3>2
    <3>4. CountedBy(m)'
      <4>1. ASSUME NEW c \in reader.counted
            PROVE  \E k \in 1 .. m : changes'[k].question = <<reader.session, c>>
        BY <3>1, <3>3 DEF CountedBy
      <4> QED
        BY <1>1, <4>1 DEF CountedBy
    <3> QED
      BY <3>1, <3>3, <3>4
  <2> QED
    BY <1>1, <1>3, <2>1, <2>2, <2>7, <2>8, <2>9, <2>10 DEF SessionRequestFits
<1>4. ASSUME reader.pc \in InLearning PROVE LearningRequestFits'
  <2>1. LearningRequestFits
    BY DEF ReaderFits
  <2>2. Len(changes) \in Nat /\ Len(changes') \in Nat /\ Len(changes) <= Len(changes')
    BY DEF BookExplains, BookTypeOK, BookGrows
  <2>3. \A m \in 1 .. Len(changes) : changes'[m] = changes[m]
    BY DEF BookGrows
  <2>4. ASSUME reader.pc = "reason"
        PROVE  \E m \in 1 .. Len(changes') : reader.level = changes'[m].after
    BY <1>4, <2>1, <2>2, <2>3, <2>4 DEF LearningRequestFits
  <2>5. ASSUME reader.pc \in {"pending", "reviewing", "recent"}
        PROVE  /\ reader.logs \in 0 .. Len(changes) /\ reader.logs \in 0 .. Len(changes')
               /\ \E m \in 0 .. reader.logs :
                     reader.level = IF m = 0 THEN DefaultLevel ELSE changes'[m].after
    <3>1. reader.logs \in 0 .. Len(changes)
      BY <1>4, <2>1, <2>5 DEF LearningRequestFits
    <3>2. PICK m \in 0 .. reader.logs :
                 reader.level = IF m = 0 THEN DefaultLevel ELSE changes[m].after
      BY <1>4, <2>1, <2>5 DEF LearningRequestFits
    <3>3. m = 0 \/ changes'[m] = changes[m]
      BY <2>2, <2>3, <3>1
    <3> QED
      BY <2>2, <3>1, <3>2, <3>3
  <2>6. ASSUME reader.pc \in {"pending", "reviewing", "recent"}
        PROVE  BadOf(reader.logs)' = BadOf(reader.logs)
    <3>1. \A n \in 0 .. Len(changes) : BadOf(n)' = BadOf(n)
      BY BadStays
    <3>2. BadOf(reader.logs)' = {q \in wrong' : \E m \in 1 .. reader'.logs :
                                                  changes'[m].question = q}
      BY DEF BadOf
    <3>3. \A n : {q \in wrong' : \E m \in 1 .. n : changes'[m].question = q} = BadOf(n)'
      BY DEF BadOf
    <3> QED
      BY <1>1, <2>5, <2>6, <3>1, <3>2, <3>3
  <2>7. Cardinality(wrong) \in Nat /\ Cardinality(wrong') \in Nat
        /\ Cardinality(wrong) <= Cardinality(wrong')
    <3>1. wrong \subseteq wrong' /\ wrong' \subseteq Questions
      BY DEF BookGrows, BookExplains
    <3> QED
      BY <3>1, FiniteQuestions, SmallerSet
  <2>8. ASSUME reviewing' = reviewing
        PROVE  /\ Cardinality(wrong \ reviewing) \in Nat
               /\ Cardinality(wrong' \ reviewing') \in Nat
               /\ Cardinality(wrong \ reviewing) <= Cardinality(wrong' \ reviewing')
    <3>1. /\ wrong \ reviewing \subseteq wrong' \ reviewing'
          /\ wrong' \ reviewing' \subseteq Questions
      BY <2>8 DEF BookGrows, BookExplains
    <3>2. IsFiniteSet(wrong' \ reviewing')
      BY <3>1, FiniteQuestions
    <3> QED
      BY <3>1, <3>2, SmallerSet
  <2>9. reader.pending \in Nat /\ reader.reviewing \in Nat
    BY <1>1 DEF Reader
  <2>10. ASSUME reader.pc = "reviewing", ~p
         PROVE  /\ Cardinality(BadOf(reader.logs)' \ reviewing') <= reader.pending
                /\ reader.pending <= Cardinality(wrong' \ reviewing')
    <3>1. reviewing' = reviewing /\ ~reader.patched
      BY <2>10
    <3>2. /\ Cardinality(BadOf(reader.logs) \ reviewing) <= reader.pending
          /\ reader.pending <= Cardinality(wrong \ reviewing)
      BY <2>1, <2>10, <3>1 DEF LearningRequestFits, InLearning
    <3> QED
      BY <2>6, <2>8, <2>9, <2>10, <3>1, <3>2
  <2>11. ASSUME reader.pc = "recent", ~p
         PROVE  /\ Cardinality(BadOf(reader.logs)') <= reader.pending + reader.reviewing
                /\ reader.pending + reader.reviewing <= Cardinality(wrong')
    <3>1. ~reader.patched
      BY <2>11
    <3>2. /\ Cardinality(BadOf(reader.logs)) <= reader.pending + reader.reviewing
          /\ reader.pending + reader.reviewing <= Cardinality(wrong)
      BY <2>1, <2>11, <3>1 DEF LearningRequestFits, InLearning
    <3> QED
      BY <2>6, <2>7, <2>9, <2>11, <3>2
  <2>12. reader.kind = "learning" /\ (reader.pc = "level" => reader.logs = 0)
    BY <1>4, <2>1 DEF LearningRequestFits
  <2> QED
    BY <1>1, <2>4, <2>5, <2>10, <2>11, <2>12 DEF LearningRequestFits
<1>5. ASSUME reader.pc \in {"total", "page"} PROVE PageRequestFits'
  <2>1. reader.kind \in BookKind /\ reader.pos >= 1
    BY <1>5 DEF ReaderFits, PageRequestFits
  <2>2. ASSUME reader.pc = "page", reader.kind = "book" \/ ~p
        PROVE  reader.pending <= Cardinality(Listed')
    <3>1. reader.kind = "book" \/ (reviewing' = reviewing /\ ~reader.patched)
      BY <2>2
    <3>2. reader.pending <= Cardinality(Listed)
      BY <2>2, <3>1 DEF ReaderFits, PageRequestFits
    <3>3. Listed \subseteq Listed' /\ Listed' \subseteq Questions
      BY <1>1, <2>1, <3>1 DEF Listed, BookGrows, BookExplains, BookKind
    <3>4. /\ Cardinality(Listed) \in Nat /\ Cardinality(Listed') \in Nat
          /\ Cardinality(Listed) <= Cardinality(Listed')
      BY <3>3, FiniteQuestions, SmallerSet
    <3>5. reader.pending \in Nat
      BY <1>1 DEF Reader
    <3> QED
      BY <3>2, <3>4, <3>5
  <2> QED
    BY <1>1, <2>1, <2>2 DEF PageRequestFits
<1> QED
  BY <1>1, <1>2, <1>3, <1>4, <1>5
     DEF ReaderFits, SessionRequestFits, LearningRequestFits, PageRequestFits

-----------------------------------------------------------------------------
(* The steps of a reading request                                          *)

WorldFits ==
    /\ BookExplains
    /\ status \in [Sessions -> {"absent", "active"} \union Finished]
    /\ size \in [Sessions -> {0} \union Sizes]
    /\ \A s \in Sessions : status[s] # "absent" => size[s] >= 3

\* A request that begins has read nothing.
LEMMA BeginKeeps ==
  ASSUME ReaderFits, WorldFits,
         NEW kind \in Kind, NEW s \in Sessions \union {NoSession}, NEW pos \in 1 .. MaxPage,
         Begin(kind, s, pos)
  PROVE  ReaderFits'
<1> DEFINE asked == {q \in Questions \ Elsewhere :
                        kind \in SessionKind /\ q[1] = s /\ grade[q] # Ungraded}
           pc == CASE kind = "learning" -> "level"
                   [] kind \in BookKind -> "total"
                   [] OTHER -> "scan"
<1>1. pos \in Nat /\ pos >= 1
  <2>1. Cardinality(Questions) \in Nat /\ PageSize \in Nat \ {0}
    BY FiniteQuestions, TrainingAssumption
  <2>2. MaxPage \in Int
    BY <2>1 DEF MaxPage
  <2> QED
    BY <2>2
<1>2. pc = IF kind = "learning" THEN "level" ELSE IF kind \in BookKind THEN "total" ELSE "scan"
  BY DEF Kind, SessionKind, BookKind
<1>3. pc = "scan" <=> kind \in SessionKind
  BY <1>2 DEF Kind, SessionKind, BookKind
<1>4. UNCHANGED <<bookVars, status, size, reviewing>>
  BY DEF Begin, Reading
<1>5. reader' = [NoReader EXCEPT !.kind = kind, !.session = s, !.pos = pos,
                                 !.pc = pc, !.before = asked]
  BY DEF Begin
<1>6. asked \subseteq Questions /\ \A q \in asked : grade[q] # Ungraded
  OBVIOUS
<1>7. kind \in SessionKind => s \in Sessions /\ status[s] # "absent" /\ pos = 1
  BY DEF Begin, SessionKind, BookKind
<1>8. pc \in {"level", "total", "scan"}
  BY <1>2
<1> HIDE DEF asked, pc
<1>9. reader' = [kind |-> kind, session |-> s, pc |-> pc, pos |-> pos,
                 seen |-> {}, counted |-> {}, bad |-> {}, level |-> DefaultLevel, logs |-> 0,
                 pending |-> 0, reviewing |-> 0, items |-> {}, before |-> asked,
                 patched |-> FALSE]
  BY <1>5 DEF NoReader
<1>10. reader' \in Reader
  BY <1>1, <1>6, <1>8, <1>9 DEF Reader, Kind, Level, DefaultLevel
<1>11. SessionRequestFits'
  <2> SUFFICES ASSUME reader'.pc \in InSession PROVE SessionRequestFits'
    BY DEF SessionRequestFits
  <2>1. pc = "scan" /\ kind \in SessionKind /\ s \in Sessions /\ status[s] # "absent" /\ pos = 1
    BY <1>3, <1>7, <1>8, <1>9 DEF InSession
  <2>2. size[s] \in Nat /\ size[s] >= 3
    BY <2>1, SizeIsNumber DEF WorldFits
  <2>3. Scanned(0)'
    BY <1>9 DEF Scanned
  <2>4. BadCounted' = {}
    BY <1>9 DEF BadCounted
  <2>5. grade' = grade /\ status' = status /\ size' = size
    BY <1>4 DEF bookVars
  <2>6. 1 .. 1 - 1 = {}
    OBVIOUS
  <2>7. reader'.pos - 1 = 0
    BY <1>9, <2>1
  <2> QED
    BY <1>6, <1>9, <2>1, <2>2, <2>3, <2>4, <2>5, <2>6, <2>7 DEF SessionRequestFits
<1>12. LearningRequestFits'
  BY <1>2, <1>8, <1>9 DEF LearningRequestFits, InLearning
<1>13. PageRequestFits'
  BY <1>1, <1>2, <1>8, <1>9 DEF PageRequestFits, BookKind
<1>14. CurrentItemIsFirstOpen' /\ ReportsAgree'
  BY <1>8, <1>9 DEF CurrentItemIsFirstOpen, ReportsAgree, Done
<1> QED
  BY <1>10, <1>11, <1>12, <1>13, <1>14 DEF ReaderFits

\* Of n positions, those seen have an answer.  Either all that had one at the
\* beginning are seen, or everything before a position that had none.
LEMMA FirstOpen ==
  ASSUME NEW n \in Nat, NEW seen \in SUBSET (1 .. n), NEW given, NEW before,
         seen \subseteq given,
         \/ before \subseteq seen
         \/ \E k \in 1 .. n : seen = 1 .. k - 1 /\ k \notin before,
         before \subseteq 1 .. n
  PROVE  LET open == (1 .. n) \ seen
             first == IF open = {} THEN n + 1 ELSE Min(open)
         IN  1 .. first - 1 \subseteq given /\ first \notin before
<1> DEFINE open == (1 .. n) \ seen
           first == IF open = {} THEN n + 1 ELSE Min(open)
<1>1. CASE open = {}
  BY <1>1
<1>2. CASE open # {}
  <2>1. Min(open) \in open /\ \A y \in open : Min(open) <= y
    <3>1. open \in SUBSET Nat
      OBVIOUS
    <3> HIDE DEF open
    <3> QED
      BY <1>2, <3>1, LeastNumber
  <2>2. first = Min(open)
    BY <1>2
  <2> HIDE DEF first
  <2>3. first \in 1 .. n /\ first \notin seen
    BY <2>1, <2>2
  <2>4. ASSUME NEW y \in 1 .. n, y \notin seen PROVE first <= y
    BY <2>1, <2>2, <2>4
  <2>5. 1 .. first - 1 \subseteq seen
    <3>1. ASSUME NEW y \in 1 .. first - 1 PROVE y \in seen
      <4>1. y \in 1 .. n /\ ~(first <= y)
        BY <2>3
      <4> QED
        BY <2>4, <4>1
    <3> QED
      BY <3>1
  <2>6. first \notin before
    <3>1. ASSUME NEW k \in 1 .. n, seen = 1 .. k - 1, k \notin before PROVE first = k
      <4>1. k \notin seen
        BY <3>1
      <4>2. first <= k
        BY <2>4, <4>1
      <4>3. ~(first \in 1 .. k - 1)
        BY <2>3, <3>1
      <4> QED
        BY <2>3, <4>2, <4>3
    <3> QED
      BY <2>3, <3>1
  <2> QED
    BY <2>5, <2>6 DEF first
<1> QED
  BY <1>1, <1>2

\* One position more, for the next question, the current one or the summary.
LEMMA ScanKeeps ==
  ASSUME ReaderFits, WorldFits, Scan
  PROVE  ReaderFits'
<1> DEFINE k == reader.pos
           n == size[reader.session]
           found == grade[<<reader.session, k>>] # Ungraded
           stops == reader.kind = "next" /\ ~found
           reads == reader.kind = "summary" /\ found
           seen == reader.seen \union {p \in {k} : found}
           next == [at |-> k + 1, pc |-> "scan"]
           over == [at |-> k, pc |-> IF reader.kind = "summary" THEN "mastery" ELSE "done"]
           after == IF k < n THEN next ELSE over
           pos == IF stops \/ reads THEN k ELSE after.at
           pc == CASE stops -> "done" [] reads -> "grade" [] OTHER -> after.pc
           Passed(m) == /\ reader'.seen \subseteq 1 .. m
                        /\ \A p \in reader'.seen : grade'[<<reader'.session, p>>] # Ungraded
                        /\ \A p \in 1 .. m : <<reader'.session, p>> \in reader'.before =>
                              p \in reader'.seen
<1>1. reader.pc = "scan" /\ SessionRequestFits /\ reader \in Reader
  BY DEF Scan, Reading, ReaderFits
<1>2. /\ reader.kind \in SessionKind /\ reader.session \in Sessions
      /\ status[reader.session] # "absent" /\ k \in 1 .. n
      /\ Scanned(k - 1) /\ (reader.kind = "next" => reader.seen = 1 .. k - 1)
      /\ reader.kind = "summary" => reader.counted = reader.seen /\ reader.bad = BadCounted
      /\ \A q \in reader.before : grade[q] # Ungraded
  BY <1>1 DEF SessionRequestFits, InSession
<1>3. n \in Nat /\ <<reader.session, k>> \in Questions /\ k \in Nat
  BY <1>2, SizeIsNumber, PositionIsQuestion DEF WorldFits
<1>4. grade' = grade /\ status' = status /\ size' = size
  BY DEF Scan, Reading, bookVars
<1>5. pc = (IF stops THEN "done" ELSE IF reads THEN "grade" ELSE after.pc)
  OBVIOUS
<1>6. after = After(k)
  BY DEF After
<1>7. reader' = [reader EXCEPT !.seen = seen, !.pos = pos, !.pc = pc]
  BY <1>6 DEF Scan
<1>8. pc \in {"done", "grade", "scan", "mastery"} /\ pos \in Nat /\ seen \in SUBSET Nat
  BY <1>1, <1>3, <1>5 DEF Reader
<1>9. /\ reader' \in Reader
      /\ reader'.seen = seen /\ reader'.pos = pos /\ reader'.pc = pc
      /\ reader'.kind = reader.kind /\ reader'.session = reader.session
      /\ reader'.counted = reader.counted /\ reader'.bad = reader.bad
      /\ reader'.before = reader.before
  <2> HIDE DEF seen, pos, pc
  <2> QED
    BY <1>1, <1>7, <1>8 DEF Reader
<1>10. /\ seen \subseteq 1 .. k
       /\ \A p \in seen : grade[<<reader.session, p>>] # Ungraded
       /\ \A p \in 1 .. k : <<reader.session, p>> \in reader.before => p \in seen
  BY <1>2, <1>3 DEF Scanned
<1>11. Passed(k)
  <2> HIDE DEF seen, pos, pc, k
  <2> QED
    BY <1>4, <1>9, <1>10
<1>12. BadCounted' = BadCounted
  BY <1>4, <1>9 DEF BadCounted
<1>13. reader.kind = "next" /\ found => seen = 1 .. k
  BY <1>2, <1>3
<1>14. ~found => seen = reader.seen
  OBVIOUS
<1>15. found => seen = reader.seen \union {k} /\ k \notin reader.seen
  BY <1>2, <1>3 DEF Scanned
<1>16. /\ pc = "scan" => k < n /\ pos = k + 1 /\ ~stops /\ ~reads
       /\ pc = "grade" => reads /\ pos = k
       /\ pc = "mastery" => k = n /\ pos = k /\ reader.kind = "summary" /\ ~found
       /\ pc = "done" => \/ stops
                         \/ k = n /\ reader.kind # "summary" /\ (reader.kind = "next" => found)
  <2>1. CASE stops
    BY <2>1
  <2>2. CASE ~stops /\ reads
    BY <2>2
  <2>3. CASE ~stops /\ ~reads /\ k < n
    BY <2>3
  <2>4. CASE ~stops /\ ~reads /\ ~(k < n)
    <3>1. k = n
      BY <1>2, <1>3, <2>4
    <3>2. pos = k /\ pc = IF reader.kind = "summary" THEN "mastery" ELSE "done"
      BY <2>4
    <3> QED
      BY <2>4, <3>1, <3>2
  <2> QED
    BY <2>1, <2>2, <2>3, <2>4
<1>17. SessionRequestFits'
  <2> SUFFICES ASSUME pc # "done" PROVE SessionRequestFits'
    BY <1>9 DEF SessionRequestFits, InSession
  <2>1. pos \in 1 .. n
    BY <1>2, <1>3, <1>8, <1>16
  <2>2. pc = "scan" => Passed(pos - 1)
    <3>1. pc = "scan" => pos - 1 = k
      BY <1>3, <1>16
    <3> HIDE DEF pos, k, Passed, pc
    <3> QED
      BY <1>11, <3>1
  <2>3. pc = "scan" /\ reader.kind = "next" => seen = 1 .. pos - 1
    <3>1. pc = "scan" => pos - 1 = k
      BY <1>3, <1>16
    <3> QED
      BY <1>13, <1>16, <3>1
  <2>4. pc = "scan" /\ reader.kind = "summary" => reader.counted = seen
    BY <1>2, <1>14, <1>16
  <2>5. pc = "grade" => Passed(pos) /\ pos \in seen /\ reader.counted = seen \ {pos}
    <3>1. pc = "grade" => pos = k /\ reads
      BY <1>16
    <3>2. pc = "grade" => pos \in seen /\ reader.counted = seen \ {pos}
      BY <1>2, <1>15, <3>1
    <3> HIDE DEF pos, k, Passed, pc, reads
    <3> QED
      BY <1>11, <3>1, <3>2
  <2>6. pc = "mastery" => Passed(n) /\ reader.counted = seen
    <3>1. pc = "mastery" => n = k /\ reader.kind = "summary" /\ ~found
      BY <1>16
    <3>2. pc = "mastery" => reader.counted = seen
      BY <1>2, <1>14, <3>1
    <3> HIDE DEF n, k, seen, pc, found, Passed
    <3> QED
      BY <1>11, <3>1, <3>2
  <2>7. pc \in {"scan", "grade", "mastery"} /\ (pc # "scan" => reader.kind = "summary")
    BY <1>8, <1>16
  <2> HIDE DEF pc, pos, seen, k, Passed
  <2>8. \A m : Passed(m) => Scanned(m)'
    BY DEF Scanned, Passed
  <2> QED
    BY <1>2, <1>4, <1>9, <1>12, <2>1, <2>2, <2>3, <2>4, <2>5, <2>6, <2>7, <2>8
       DEF SessionRequestFits, InSession
<1>18. CurrentItemIsFirstOpen'
  <2> SUFFICES ASSUME pc = "done", reader.kind \in {"detail", "next"}
               PROVE  CurrentItemIsFirstOpen'
    BY <1>9 DEF CurrentItemIsFirstOpen, Done
  <2> DEFINE given == Submitted(reader.session)
             before == OfSession(reader.before)
             open == (1 .. n) \ seen
             first == IF open = {} THEN n + 1 ELSE Min(open)
  <2>1. seen \subseteq given /\ seen \in SUBSET (1 .. n)
    BY <1>2, <1>3, <1>10 DEF Submitted
  <2>2. before \subseteq 1 .. n
    BY DEF OfSession
  <2>3. CASE k = n /\ (reader.kind = "next" => found)
    <3>1. before \subseteq seen
      BY <1>10, <2>3 DEF OfSession
    <3> HIDE DEF given, before, seen, n
    <3>2. 1 .. first - 1 \subseteq given /\ first \notin before
      BY <1>3, <2>1, <2>2, <3>1, FirstOpen
    <3> QED
      BY <1>4, <1>9, <2>1, <3>1, <3>2
         DEF CurrentItemIsFirstOpen, given, before, n, Submitted, OfSession
  <2>4. CASE stops
    <3>1. seen = 1 .. k - 1 /\ k \notin before
      BY <1>2, <1>14, <2>4 DEF OfSession
    <3>2. \E p \in 1 .. n : seen = 1 .. p - 1 /\ p \notin before
      BY <1>2, <3>1
    <3> HIDE DEF given, before, seen, n
    <3>3. 1 .. first - 1 \subseteq given /\ first \notin before
      BY <1>3, <2>1, <2>2, <3>2, FirstOpen
    <3> QED
      BY <1>4, <1>9, <2>4, <3>3
         DEF CurrentItemIsFirstOpen, given, before, n, Submitted, OfSession
  <2> QED
    BY <1>16, <2>3, <2>4
<1>19. LearningRequestFits' /\ PageRequestFits'
  BY <1>8, <1>9 DEF LearningRequestFits, PageRequestFits, InLearning
<1>20. ReportsAgree'
  BY <1>2, <1>9, <1>16 DEF ReportsAgree, Done, SessionKind, BookKind
<1> QED
  BY <1>9, <1>17, <1>18, <1>19, <1>20 DEF ReaderFits

LEMMA ScanGradeKeeps ==
  ASSUME ReaderFits, WorldFits, ScanGrade
  PROVE  ReaderFits'
<1> DEFINE k == reader.pos
           n == size[reader.session]
           q == <<reader.session, k>>
           counted == reader.counted \union {p \in {k} : grade[q] # Ungraded}
           bad == reader.bad \union {p \in {k} : grade[q] # Ungraded /\ q \in wrong}
           pos == IF k < n THEN k + 1 ELSE k
           pc == IF k < n THEN "scan" ELSE "mastery"
           Bad(p) == ShouldCreateWrongBook(grade[<<reader.session, p>>].ratio,
                                           grade[<<reader.session, p>>].review)
<1>1. reader.pc = "grade" /\ SessionRequestFits /\ reader \in Reader
  BY DEF ScanGrade, Reading, ReaderFits
<1>2. /\ reader.kind = "summary" /\ reader.session \in Sessions
      /\ status[reader.session] # "absent" /\ k \in 1 .. n
      /\ Scanned(k) /\ k \in reader.seen /\ reader.counted = reader.seen \ {k}
      /\ reader.bad = BadCounted
      /\ \A p \in reader.before : grade[p] # Ungraded
  BY <1>1 DEF SessionRequestFits, InSession
<1>3. n \in Nat /\ q \in Questions /\ k \in Nat /\ grade[q] # Ungraded
  BY <1>2, SizeIsNumber, PositionIsQuestion DEF WorldFits, Scanned
<1>4. grade' = grade /\ status' = status /\ size' = size
  BY DEF ScanGrade, Reading, bookVars
<1>5. After(k).at = pos /\ After(k).pc = pc
  BY <1>2 DEF After
<1>6. reader' = [reader EXCEPT !.counted = counted, !.bad = bad, !.pos = pos, !.pc = pc]
  <2> HIDE DEF pos, pc
  <2> QED
    BY <1>5 DEF ScanGrade
<1>7. pc \in {"scan", "mastery"} /\ pos \in 1 .. n /\ pos \in Nat
  BY <1>2, <1>3
<1>8. counted = reader.seen
  BY <1>2, <1>3
<1>9. bad = {p \in reader.seen : Bad(p)}
  <2>1. reader.bad = {p \in reader.seen \ {k} : Bad(p)}
    BY <1>2 DEF BadCounted
  <2>2. q \in wrong <=> Bad(k)
    BY <1>3 DEF WorldFits, BookExplains
  <2> HIDE DEF Bad
  <2>3. bad = reader.bad \union {p \in {k} : Bad(k)}
    BY <1>3, <2>2
  <2> QED
    BY <1>2, <2>1, <2>3
<1>10. reader.seen \subseteq Nat
  BY <1>1 DEF Reader
<1>11. /\ reader' \in Reader
      /\ reader'.seen = reader.seen /\ reader'.pos = pos /\ reader'.pc = pc
      /\ reader'.kind = reader.kind /\ reader'.session = reader.session
      /\ reader'.counted = reader.seen /\ reader'.bad = bad
      /\ reader'.before = reader.before
  <2>1. bad \subseteq Nat
    BY <1>9, <1>10
  <2> HIDE DEF counted, bad, pos, pc
  <2> QED
    BY <1>1, <1>6, <1>7, <1>8, <1>10, <2>1 DEF Reader
<1>12. reader'.bad = BadCounted'
  <2> HIDE DEF bad, pos, pc
  <2> QED
    BY <1>4, <1>9, <1>11 DEF BadCounted
<1>13. \A m : Scanned(m) => Scanned(m)'
  <2> HIDE DEF bad, pos, pc
  <2> QED
    BY <1>4, <1>11 DEF Scanned
<1>14. pc = "scan" => pos - 1 = k
  BY <1>3
<1>15. pc = "mastery" => n = k
  BY <1>2, <1>3
<1>16. SessionRequestFits'
  <2>1. pc = "scan" => Scanned(pos - 1)
    <3> HIDE DEF pos, pc
    <3> QED
      BY <1>2, <1>14
  <2>2. pc = "mastery" => Scanned(n)
    <3> HIDE DEF pos, pc, n
    <3> QED
      BY <1>2, <1>15
  <2>3. pc = "scan" => Scanned(reader.pos - 1)' /\ reader'.kind # "next"
    <3> HIDE DEF pos, pc
    <3> QED
      BY <1>2, <1>11, <1>13, <2>1
  <2>4. pc = "mastery" => Scanned(size[reader.session])'
    <3> HIDE DEF pos, pc
    <3> QED
      BY <1>4, <1>11, <1>13, <2>2
  <2> HIDE DEF bad, pos, pc
  <2> QED
    BY <1>2, <1>4, <1>7, <1>11, <1>12, <2>3, <2>4 DEF SessionRequestFits, InSession, SessionKind
<1>17. /\ LearningRequestFits' /\ PageRequestFits'
       /\ CurrentItemIsFirstOpen' /\ ReportsAgree'
  <2> HIDE DEF pc
  <2> QED
    BY <1>7, <1>11 DEF LearningRequestFits, PageRequestFits, InLearning,
                       CurrentItemIsFirstOpen, ReportsAgree, Done
<1> QED
  BY <1>11, <1>16, <1>17 DEF ReaderFits

\* The summary reads mastery last, when all its grades are counted: the row, which
\* is there if one is, and names a level that they have all counted for ...
LEMMA ReadMasteryKeeps ==
  ASSUME ReaderFits, WorldFits, ReadMastery
  PROVE  ReaderFits'
<1> DEFINE n == size[reader.session]
           found == reader.counted # {} /\ changes # <<>>
           pc == IF found THEN "logs" ELSE "done"
           level == IF found THEN CurrentLevel ELSE reader.level
<1>1. reader.pc = "mastery" /\ SessionRequestFits /\ reader \in Reader
  BY DEF ReadMastery, Reading, ReaderFits
<1>2. /\ reader.kind = "summary" /\ reader.session \in Sessions
      /\ status[reader.session] # "absent" /\ reader.pos \in 1 .. n
      /\ \A q \in reader.before : grade[q] # Ungraded
      /\ Scanned(n) /\ reader.counted = reader.seen
      /\ reader.bad = BadCounted
  BY <1>1 DEF SessionRequestFits, InSession
<1>3. UNCHANGED <<bookVars, status, size>>
  BY DEF ReadMastery, Reading
<1>4. Len(changes) \in Nat /\ changes \in Seq(Change) /\ CurrentLevel \in Level
  BY CurrentIsLevel DEF WorldFits, BookExplains, BookTypeOK
<1>5. reader' = [reader EXCEPT !.pc = pc, !.level = level]
  BY DEF ReadMastery
<1>6. pc \in {"logs", "done"} /\ level \in Level
  BY <1>1, <1>4 DEF Reader
<1>7. CountedBy(Len(changes))
  <2> SUFFICES ASSUME NEW p \in reader.counted
               PROVE  \E m \in 1 .. Len(changes) : changes[m].question = <<reader.session, p>>
    BY DEF CountedBy
  <2>1. p \in 1 .. n /\ grade[<<reader.session, p>>] # Ungraded
    BY <1>2 DEF Scanned
  <2>2. <<reader.session, p>> \in Questions
    BY <1>2, <2>1, PositionIsQuestion DEF WorldFits
  <2> QED
    BY <2>1, <2>2 DEF WorldFits, BookExplains
<1>8. reader.counted # {} => changes # <<>>
  BY <1>4, <1>7 DEF CountedBy
<1>9. pc = "logs" => level = CurrentLevel
  OBVIOUS
<1>10. pc = "done" => reader.counted = {}
  BY <1>8
<1>11. pc = "logs" => changes # <<>>
  OBVIOUS
<1> HIDE DEF pc, level, found
<1>12. /\ reader' \in Reader
       /\ reader'.seen = reader.seen /\ reader'.pc = pc /\ reader'.level = level
       /\ reader'.kind = reader.kind /\ reader'.session = reader.session
       /\ reader'.counted = reader.counted /\ reader'.bad = reader.bad
       /\ reader'.before = reader.before /\ reader'.pos = reader.pos
  BY <1>1, <1>5, <1>6 DEF Reader
<1>13. BadCounted' = BadCounted
  BY <1>3, <1>12 DEF BadCounted, bookVars
<1>14. OfSession(reader.before) \subseteq reader.counted
  BY <1>2 DEF OfSession, Scanned
<1>15. ASSUME pc = "done" PROVE SummaryAgrees'
  <2>1. OfSession(reader.before)' \subseteq reader'.counted
    BY <1>3, <1>12, <1>14 DEF OfSession
  <2>2. reader'.counted = reader'.seen /\ reader'.counted = {}
    BY <1>2, <1>10, <1>12, <1>15
  <2>3. reader'.bad = {p \in reader'.counted :
                          LET j == grade'[<<reader'.session, p>>] IN
                          ShouldCreateWrongBook(j.ratio, j.review)}
    BY <1>2, <1>12, <1>13 DEF BadCounted
  <2> QED
    BY <2>1, <2>2, <2>3 DEF SummaryAgrees
<1>16. CurrentItemIsFirstOpen' /\ ReportsAgree'
  BY <1>2, <1>6, <1>12, <1>15 DEF CurrentItemIsFirstOpen, ReportsAgree, Done, BookKind
<1>17. SessionRequestFits'
  <2> SUFFICES ASSUME pc = "logs" PROVE SessionRequestFits'
    BY <1>6, <1>12 DEF SessionRequestFits, InSession
  <2>1. Len(changes) \in 1 .. Len(changes) /\ CurrentLevel = changes[Len(changes)].after
    BY <1>4, <1>11 DEF CurrentLevel, Last
  <2>2. CountedBy(Len(changes))'
    BY <1>3, <1>7, <1>12 DEF CountedBy, bookVars
  <2>3. \E m \in 1 .. Len(changes') : reader'.level = changes'[m].after /\ CountedBy(m)'
    BY <1>3, <1>9, <1>12, <2>1, <2>2 DEF bookVars
  <2>4. Scanned(size[reader.session])'
    BY <1>2, <1>3, <1>12 DEF Scanned, bookVars
  <2> QED
    BY <1>2, <1>3, <1>12, <1>13, <2>3, <2>4
       DEF SessionRequestFits, InSession, SessionKind, bookVars
<1>18. LearningRequestFits' /\ PageRequestFits'
  BY <1>6, <1>12 DEF LearningRequestFits, PageRequestFits, InLearning
<1> QED
  BY <1>12, <1>16, <1>17, <1>18 DEF ReaderFits

\* ... and then its log, which is not older.
LEMMA ReadLogsKeeps ==
  ASSUME ReaderFits, WorldFits, ReadLogs
  PROVE  ReaderFits'
<1> DEFINE n == size[reader.session]
           logs == Len(changes)
<1>1. reader.pc = "logs" /\ SessionRequestFits /\ reader \in Reader
  BY DEF ReadLogs, Reading, ReaderFits
<1>2. /\ reader.kind = "summary" /\ reader.session \in Sessions
      /\ Scanned(n) /\ reader.counted = reader.seen
      /\ reader.bad = BadCounted
      /\ \E m \in 1 .. Len(changes) : reader.level = changes[m].after /\ CountedBy(m)
  BY <1>1 DEF SessionRequestFits, InSession
<1>3. UNCHANGED <<bookVars, status, size>>
  BY DEF ReadLogs, Reading
<1>4. logs \in Nat
  BY DEF WorldFits, BookExplains, BookTypeOK
<1>5. reader' = [reader EXCEPT !.pc = "done", !.logs = logs]
  BY DEF ReadLogs
<1>6. /\ reader' \in Reader
      /\ reader'.seen = reader.seen /\ reader'.pc = "done" /\ reader'.logs = logs
      /\ reader'.kind = reader.kind /\ reader'.session = reader.session
      /\ reader'.counted = reader.counted /\ reader'.bad = reader.bad
      /\ reader'.before = reader.before /\ reader'.level = reader.level
  <2> HIDE DEF logs
  <2> QED
    BY <1>1, <1>4, <1>5 DEF Reader
<1>7. OfSession(reader.before) \subseteq reader.counted
  BY <1>2 DEF OfSession, Scanned
<1>8. PICK m \in 1 .. logs : reader.level = changes[m].after /\ CountedBy(m)
  BY <1>2
<1>9. logs # 0 /\ changes[1].before = DefaultLevel
  BY <1>4, <1>8 DEF WorldFits, BookExplains
<1> HIDE DEF logs
<1>10. BadCounted' = BadCounted
  BY <1>3, <1>6 DEF BadCounted, bookVars
<1>11. SummaryAgrees'
  <2>1. OfSession(reader.before)' \subseteq reader'.counted
    BY <1>3, <1>6, <1>7 DEF OfSession
  <2>2. reader'.counted = reader'.seen
    BY <1>2, <1>6
  <2>3. reader'.bad = {p \in reader'.counted :
                          LET j == grade'[<<reader'.session, p>>] IN
                          ShouldCreateWrongBook(j.ratio, j.review)}
    BY <1>2, <1>6, <1>10 DEF BadCounted
  <2>4. /\ m \in 1 .. reader'.logs /\ reader'.level = changes'[m].after
        /\ \A p \in reader'.counted :
              \E k \in 1 .. m : changes'[k].question = <<reader'.session, p>>
    BY <1>3, <1>6, <1>8 DEF bookVars, CountedBy
  <2>5. ReportedChange' = changes'[reader'.logs].after - DefaultLevel
    BY <1>3, <1>6, <1>9 DEF ReportedChange, bookVars
  <2> QED
    BY <2>1, <2>2, <2>3, <2>4, <2>5 DEF SummaryAgrees
<1>12. CurrentItemIsFirstOpen' /\ ReportsAgree'
  BY <1>2, <1>6, <1>11 DEF CurrentItemIsFirstOpen, ReportsAgree, Done, BookKind
<1>13. SessionRequestFits' /\ LearningRequestFits' /\ PageRequestFits'
  BY <1>6 DEF SessionRequestFits, LearningRequestFits, PageRequestFits, InSession, InLearning
<1> QED
  BY <1>6, <1>12, <1>13 DEF ReaderFits

LEMMA ReadLevelKeeps ==
  ASSUME ReaderFits, WorldFits, ReadLevel \/ ReadReason
  PROVE  ReaderFits'
<1> DEFINE len == Len(changes)
<1>1. reader \in Reader /\ LearningRequestFits /\ UNCHANGED bookVars
  BY DEF ReadLevel, ReadReason, Reading, ReaderFits
<1>2. len \in Nat /\ changes \in Seq(Change) /\ CurrentLevel \in Level
  BY CurrentIsLevel DEF WorldFits, BookExplains, BookTypeOK
<1>3. CASE ReadLevel
  <2> DEFINE pc == IF changes = <<>> THEN "pending" ELSE "reason"
  <2>1. reader.pc = "level" /\ reader.kind = "learning" /\ reader.logs = 0
    BY <1>1, <1>3 DEF ReadLevel, Reading, LearningRequestFits, InLearning
  <2>2. reader' = [reader EXCEPT !.pc = pc, !.level = CurrentLevel]
    BY <1>3 DEF ReadLevel
  <2>3. pc \in {"pending", "reason"}
    OBVIOUS
  <2>4. pc = "pending" => CurrentLevel = DefaultLevel
    BY DEF CurrentLevel
  <2>5. pc = "reason" => \E m \in 1 .. len : CurrentLevel = changes[m].after
    <3> SUFFICES ASSUME changes # <<>>
                 PROVE  \E m \in 1 .. len : CurrentLevel = changes[m].after
      OBVIOUS
    <3>1. len \in 1 .. len
      BY <1>2
    <3>2. CurrentLevel = changes[len].after
      BY DEF CurrentLevel, Last
    <3> QED
      BY <3>1, <3>2
  <2> HIDE DEF pc
  <2>6. /\ reader' \in Reader
        /\ reader'.pc = pc /\ reader'.level = CurrentLevel
        /\ reader'.kind = "learning" /\ reader'.logs = 0
    BY <1>1, <1>2, <2>1, <2>2, <2>3 DEF Reader
  <2>7. changes' = changes
    BY <1>1 DEF bookVars
  <2>8. LearningRequestFits'
    <3>1. 0 \in 0 .. Len(changes')
      BY <1>2, <2>7
    <3>2. pc = "pending" =>
            \E m \in 0 .. 0 : CurrentLevel = IF m = 0 THEN DefaultLevel ELSE changes'[m].after
      BY <2>4
    <3>3. pc = "reason" => \E m \in 1 .. Len(changes') : CurrentLevel = changes'[m].after
      BY <2>5, <2>7
    <3> QED
      BY <2>3, <2>6, <3>1, <3>2, <3>3 DEF LearningRequestFits
  <2> QED
    BY <2>3, <2>6, <2>8 DEF ReaderFits, SessionRequestFits, PageRequestFits, InSession,
                             CurrentItemIsFirstOpen, ReportsAgree, Done
<1>4. CASE ReadReason
  <2>1. reader.pc = "reason" /\ reader.kind = "learning"
    BY <1>1, <1>4 DEF ReadReason, Reading, LearningRequestFits, InLearning
  <2>2. PICK m \in 1 .. len : reader.level = changes[m].after
    BY <1>1, <2>1 DEF LearningRequestFits, InLearning
  <2>3. reader' = [reader EXCEPT !.pc = "pending", !.logs = len]
    BY <1>4 DEF ReadReason
  <2>4. /\ reader' \in Reader
        /\ reader'.pc = "pending" /\ reader'.level = reader.level
        /\ reader'.kind = "learning" /\ reader'.logs = len
    BY <1>1, <1>2, <2>1, <2>3 DEF Reader
  <2>5. changes' = changes
    BY <1>1 DEF bookVars
  <2>6. LearningRequestFits'
    <3>1. m \in 0 .. len /\ m # 0 /\ len \in 0 .. Len(changes')
      BY <1>2, <2>5
    <3>2. \E i \in 0 .. len : reader.level = IF i = 0 THEN DefaultLevel ELSE changes'[i].after
      BY <2>2, <2>5, <3>1
    <3> HIDE DEF len
    <3> QED
      BY <2>4, <3>1, <3>2 DEF LearningRequestFits
  <2> QED
    BY <2>4, <2>6 DEF ReaderFits, SessionRequestFits, PageRequestFits, InSession,
                      CurrentItemIsFirstOpen, ReportsAgree, Done
<1> QED
  BY <1>3, <1>4

\* Pending and reviewing entries are all the entries.
LEMMA CountsAddUp ==
  ASSUME NEW S, IsFiniteSet(S), NEW T
  PROVE  /\ Cardinality(S) \in Nat /\ Cardinality(S \ T) \in Nat
         /\ Cardinality(S \intersect T) \in Nat
         /\ Cardinality(S) = Cardinality(S \ T) + Cardinality(S \intersect T)
<1>1. /\ IsFiniteSet(S \ T)
      /\ Cardinality(S \ T) = Cardinality(S) - Cardinality(S \intersect T)
  BY FS_Difference
<1>2. IsFiniteSet(S \intersect T)
  BY FS_Intersection
<1>3. /\ Cardinality(S) \in Nat /\ Cardinality(S \ T) \in Nat
      /\ Cardinality(S \intersect T) \in Nat
  BY <1>1, <1>2, FS_CardinalityType
<1> QED
  BY <1>1, <1>3

LEMMA CountingKeeps ==
  ASSUME ReaderFits, WorldFits, CountPending \/ CountReviewing
  PROVE  ReaderFits'
<1> DEFINE bad == BadOf(reader.logs)
<1>1. reader \in Reader /\ LearningRequestFits
      /\ UNCHANGED bookVars /\ reviewing' = reviewing
  BY DEF CountPending, CountReviewing, Reading, ReaderFits
<1>2. /\ reader.pc \in {"pending", "reviewing"} /\ reader.kind = "learning"
      /\ reader.logs \in 0 .. Len(changes)
      /\ \E m \in 0 .. reader.logs :
            reader.level = IF m = 0 THEN DefaultLevel ELSE changes[m].after
  BY <1>1 DEF CountPending, CountReviewing, Reading, LearningRequestFits, InLearning
<1>3. /\ IsFiniteSet(wrong) /\ IsFiniteSet(bad) /\ bad \subseteq wrong
  BY FiniteQuestions DEF WorldFits, BookExplains, BadOf
<1>4. /\ IsFiniteSet(wrong \ reviewing) /\ IsFiniteSet(wrong \intersect reviewing)
  BY <1>3, FS_Difference, FS_Intersection
<1> HIDE DEF bad
<1>5. /\ Cardinality(wrong \ reviewing) \in Nat
      /\ Cardinality(bad \ reviewing) <= Cardinality(wrong \ reviewing)
  BY <1>3, <1>4, SmallerSet
<1>6. /\ Cardinality(wrong \intersect reviewing) \in Nat
      /\ Cardinality(bad \intersect reviewing) <= Cardinality(wrong \intersect reviewing)
  BY <1>3, <1>4, SmallerSet
<1>7. /\ Cardinality(wrong) = Cardinality(wrong \ reviewing) + Cardinality(wrong \intersect reviewing)
      /\ Cardinality(bad) = Cardinality(bad \ reviewing) + Cardinality(bad \intersect reviewing)
      /\ Cardinality(bad \ reviewing) \in Nat /\ Cardinality(bad \intersect reviewing) \in Nat
  BY <1>3, CountsAddUp
<1>8. CASE CountPending
  <2>1. reader' = [reader EXCEPT !.pc = "reviewing", !.pending = Cardinality(wrong \ reviewing)]
    BY <1>8 DEF CountPending
  <2>2. /\ reader' \in Reader
        /\ reader'.pc = "reviewing" /\ reader'.level = reader.level
        /\ reader'.kind = reader.kind /\ reader'.logs = reader.logs
        /\ reader'.pending = Cardinality(wrong \ reviewing)
    BY <1>1, <1>5, <2>1 DEF Reader
  <2>3. BadOf(reader.logs)' = bad
    BY <1>1, <2>2 DEF bad, BadOf, bookVars
  <2>4. LearningRequestFits'
    BY <1>1, <1>2, <1>5, <2>2, <2>3 DEF LearningRequestFits, bookVars
  <2> QED
    BY <2>2, <2>4 DEF ReaderFits, SessionRequestFits, PageRequestFits, InSession,
                      CurrentItemIsFirstOpen, ReportsAgree, Done
<1>9. CASE CountReviewing
  <2>1. reader' = [reader EXCEPT !.pc = "recent",
                                 !.reviewing = Cardinality(wrong \intersect reviewing)]
    BY <1>9 DEF CountReviewing
  <2>2. /\ reader' \in Reader
        /\ reader'.pc = "recent" /\ reader'.level = reader.level
        /\ reader'.kind = reader.kind /\ reader'.logs = reader.logs
        /\ reader'.pending = reader.pending /\ reader'.patched = reader.patched
        /\ reader'.reviewing = Cardinality(wrong \intersect reviewing)
        /\ reader.pending \in Nat
    BY <1>1, <1>6, <2>1 DEF Reader
  <2>3. BadOf(reader.logs)' = bad
    BY <1>1, <2>2 DEF bad, BadOf, bookVars
  <2>4. ~reader.patched => /\ Cardinality(bad \ reviewing) <= reader.pending
                           /\ reader.pending <= Cardinality(wrong \ reviewing)
    BY <1>1, <1>9 DEF CountReviewing, Reading, LearningRequestFits, InLearning, bad
  <2>5. ~reader.patched =>
          /\ Cardinality(bad) <= reader.pending + Cardinality(wrong \intersect reviewing)
          /\ reader.pending + Cardinality(wrong \intersect reviewing) <= Cardinality(wrong)
    BY <1>5, <1>6, <1>7, <2>2, <2>4
  <2>6. LearningRequestFits'
    BY <1>1, <1>2, <2>2, <2>3, <2>5 DEF LearningRequestFits, bookVars
  <2> QED
    BY <2>2, <2>6 DEF ReaderFits, SessionRequestFits, PageRequestFits, InSession,
                      CurrentItemIsFirstOpen, ReportsAgree, Done
<1> QED
  BY <1>8, <1>9

\* Different changes are of different questions, so that there are no more bad
\* ones among the first n than wrong-book entries behind them.
LEMMA BadChanges ==
  ASSUME BookExplains, NEW n \in 0 .. Len(changes),
         NEW M \in SUBSET (1 .. n),
         \A m \in M : LET j == grade[changes[m].question] IN
                      ShouldCreateWrongBook(j.ratio, j.review)
  PROVE  Cardinality(M) \in Nat /\ Cardinality(M) <= Cardinality(BadOf(n))
<1> DEFINE f == [m \in M |-> changes[m].question]
<1>1. Len(changes) \in Nat /\ changes \in Seq(Change)
  BY DEF BookExplains, BookTypeOK
<1>2. ASSUME NEW m \in M PROVE m \in 1 .. Len(changes) /\ f[m] \in BadOf(n)
  <2>1. m \in 1 .. Len(changes)
    BY <1>1
  <2>2. changes[m] \in Change
    BY <1>1, <2>1
  <2>3. changes[m].question \in Questions /\ grade[changes[m].question] # Ungraded
    BY <2>1, <2>2 DEF Change, BookExplains
  <2>4. changes[m].question \in wrong
    BY <2>3 DEF BookExplains
  <2> QED
    BY <2>1, <2>4 DEF BadOf
<1>3. ASSUME NEW a \in M, NEW b \in M, f[a] = f[b] PROVE a = b
  BY <1>2, <1>3 DEF BookExplains
<1>4. f \in Injection(M, BadOf(n))
  BY <1>2, <1>3 DEF Injection, IsInjective
<1>5. IsFiniteSet(BadOf(n))
  BY FiniteQuestions DEF BookExplains, BadOf
<1>6. IsFiniteSet(M) /\ Cardinality(M) <= Cardinality(BadOf(n))
  BY <1>4, <1>5, FS_Injection
<1> QED
  BY <1>6, FS_CardinalityType

LEMMA ReadRecentKeeps ==
  ASSUME ReaderFits, WorldFits, ReadRecent
  PROVE  ReaderFits'
<1> DEFINE items == {q \in Questions : grade[q] # Ungraded
                         /\ IsGradable(grade[q].confident, grade[q].review)}
           bad == {m \in 1 .. reader.logs :
                     LET j == grade[changes[m].question] IN
                     ShouldCreateWrongBook(j.ratio, j.review)}
<1>1. reader \in Reader /\ LearningRequestFits /\ UNCHANGED bookVars
  BY DEF ReadRecent, Reading, ReaderFits
<1>2. /\ reader.pc = "recent" /\ reader.kind = "learning"
      /\ reader.logs \in 0 .. Len(changes)
      /\ \E m \in 0 .. reader.logs :
            reader.level = IF m = 0 THEN DefaultLevel ELSE changes[m].after
      /\ ~reader.patched =>
            /\ Cardinality(BadOf(reader.logs)) <= reader.pending + reader.reviewing
            /\ reader.pending + reader.reviewing <= Cardinality(wrong)
  BY <1>1 DEF ReadRecent, Reading, LearningRequestFits, InLearning
<1>3. reader' = [reader EXCEPT !.pc = "done", !.items = items]
  BY DEF ReadRecent
<1>4. items \subseteq Questions
  OBVIOUS
<1>5. ASSUME NEW m \in 1 .. reader.logs,
             LET j == grade[changes[m].question] IN IsGradable(j.confident, j.review)
      PROVE  changes[m].question \in items
  <2>1. Len(changes) \in Nat /\ m \in 1 .. Len(changes)
    BY <1>2 DEF WorldFits, BookExplains, BookTypeOK
  <2>2. changes[m] \in Change
    BY <2>1 DEF WorldFits, BookExplains, BookTypeOK
  <2>3. changes[m].question \in Questions /\ grade[changes[m].question] # Ungraded
    BY <2>1, <2>2 DEF Change, WorldFits, BookExplains
  <2> QED
    BY <1>5, <2>3
<1> HIDE DEF items
<1>6. /\ reader' \in Reader
      /\ reader'.pc = "done" /\ reader'.kind = "learning" /\ reader'.level = reader.level
      /\ reader'.logs = reader.logs /\ reader'.patched = reader.patched
      /\ reader'.pending = reader.pending /\ reader'.reviewing = reader.reviewing
      /\ reader'.items = items
  BY <1>1, <1>2, <1>3, <1>4 DEF Reader
<1>7. /\ Cardinality(bad) \in Nat
      /\ Cardinality(bad) <= Cardinality(BadOf(reader.logs))
  <2>1. BookExplains
    BY DEF WorldFits
  <2> QED
    BY <1>2, <2>1, BadChanges
<1>8. Cardinality(BadOf(reader.logs)) \in Nat /\ Cardinality(wrong) \in Nat
  BY FiniteQuestions DEF WorldFits, BookExplains, BadOf
<1>9. ~reader.patched =>
         /\ reader.pending + reader.reviewing >= Cardinality(bad)
         /\ reader.pending + reader.reviewing <= Cardinality(wrong)
  <2>1. reader.pending \in Nat /\ reader.reviewing \in Nat
    BY <1>1 DEF Reader
  <2> HIDE DEF bad
  <2> QED
    BY <1>2, <1>7, <1>8, <2>1
<1>10. LearningAgrees'
  <2>1. changes' = changes /\ grade' = grade /\ wrong' = wrong
    BY <1>1 DEF bookVars
  <2>2. {m \in 1 .. reader'.logs :
           ShouldCreateWrongBook(grade'[changes'[m].question].ratio,
                                 grade'[changes'[m].question].review)} = bad
    BY <1>6, <2>1
  <2> HIDE DEF bad
  <2> QED
    BY <1>2, <1>5, <1>6, <1>9, <2>1, <2>2 DEF LearningAgrees
<1>11. CurrentItemIsFirstOpen' /\ ReportsAgree'
  BY <1>6, <1>10 DEF CurrentItemIsFirstOpen, ReportsAgree, Done, BookKind
<1> QED
  BY <1>6, <1>11 DEF ReaderFits, SessionRequestFits, LearningRequestFits, PageRequestFits,
                     InSession, InLearning

LEMMA CountTotalKeeps ==
  ASSUME ReaderFits, WorldFits, CountTotal
  PROVE  ReaderFits'
<1>1. reader \in Reader /\ PageRequestFits /\ UNCHANGED <<bookVars, reviewing>>
  BY DEF CountTotal, Reading, ReaderFits
<1>2. reader.pc = "total" /\ reader.kind \in BookKind /\ reader.pos >= 1
  BY <1>1 DEF CountTotal, Reading, PageRequestFits
<1>3. Cardinality(Listed) \in Nat
  BY FiniteQuestions DEF Listed, WorldFits, BookExplains
<1>4. reader' = [reader EXCEPT !.pc = "page", !.pending = Cardinality(Listed)]
  BY DEF CountTotal
<1>5. /\ reader' \in Reader
      /\ reader'.pc = "page" /\ reader'.kind = reader.kind /\ reader'.pos = reader.pos
      /\ reader'.pending = Cardinality(Listed)
  BY <1>1, <1>3, <1>4 DEF Reader
<1>6. Listed' = Listed
  BY <1>1, <1>5 DEF Listed, bookVars
<1>7. PageRequestFits'
  BY <1>2, <1>3, <1>5, <1>6 DEF PageRequestFits
<1> QED
  BY <1>5, <1>7 DEF ReaderFits, SessionRequestFits, LearningRequestFits, InSession, InLearning,
                    CurrentItemIsFirstOpen, ReportsAgree, Done

\* A finite set whose elements have different errors is counted by their places.
LEMMA PlacesAreFilled ==
  ASSUME BookExplains, NEW k \in 1 .. Cardinality(Listed)
  PROVE  \E q \in Listed : Place(q) = k
<1> DEFINE n == Cardinality(Listed)
           f == [q \in Listed |-> Place(q)]
<1>1. Listed \subseteq wrong /\ IsFiniteSet(Listed) /\ n \in Nat
  BY FiniteQuestions DEF Listed, BookExplains
<1>2. ASSUME NEW q \in Listed
      PROVE  ErrorAt(q) \in 1 .. Len(changes) /\ changes[ErrorAt(q)].question = q
  BY <1>1 DEF ErrorAt, BookExplains
<1>3. Len(changes) \in Nat
  BY DEF BookExplains, BookTypeOK
<1>4. ASSUME NEW q \in Listed PROVE Place(q) \in 1 .. n
  <2> DEFINE after == {w \in Listed : ErrorAt(w) >= ErrorAt(q)}
  <2>1. q \in after /\ after \subseteq Listed
    BY <1>2, <1>3
  <2> HIDE DEF after
  <2>2. IsFiniteSet(after) /\ Cardinality(after) \in Nat /\ Cardinality(after) <= n
    BY <1>1, <2>1, SmallerSet
  <2>3. Cardinality(after) # 0
    BY <2>1, <2>2, FS_EmptySet
  <2> QED
    BY <1>1, <2>2, <2>3 DEF Place, after
<1>5. ASSUME NEW q \in Listed, NEW r \in Listed, ErrorAt(q) < ErrorAt(r)
      PROVE  Place(q) # Place(r)
  <2> DEFINE A == {w \in Listed : ErrorAt(w) >= ErrorAt(q)}
             B == {w \in Listed : ErrorAt(w) >= ErrorAt(r)}
  <2>1. q \in A /\ q \notin B /\ B \subseteq A /\ A \subseteq Listed
    BY <1>2, <1>3, <1>5
  <2> HIDE DEF A, B
  <2>2. IsFiniteSet(A)
    BY <1>1, <2>1, FS_Subset
  <2>3. Cardinality(A) # Cardinality(B)
    BY <2>1, <2>2, FS_Subset
  <2> QED
    BY <2>3 DEF Place, A, B
<1>6. ASSUME NEW q \in Listed, NEW r \in Listed, Place(q) = Place(r) PROVE q = r
  <2>1. ~(ErrorAt(q) < ErrorAt(r)) /\ ~(ErrorAt(r) < ErrorAt(q))
    BY <1>5, <1>6
  <2>2. ErrorAt(q) = ErrorAt(r)
    BY <1>2, <1>3, <2>1
  <2> QED
    BY <1>2, <2>2
<1>7. f \in Injection(Listed, 1 .. n)
  BY <1>4, <1>6 DEF Injection, IsInjective
<1>8. IsFiniteSet(1 .. n) /\ Cardinality(1 .. n) = n
  BY <1>1, FS_Interval
<1>9. f \in Surjection(Listed, 1 .. n)
  <2> HIDE DEF n, f
  <2>1. Cardinality(Listed) = Cardinality(1 .. n)
    BY <1>8 DEF n
  <2> QED
    BY <1>7, <1>8, <2>1, FS_Injection
<1>10. \E q \in Listed : f[q] = k
  BY <1>9 DEF Surjection
<1> QED
  BY <1>10

\* A page is read when the list is at least as long as its total.
LEMMA ReadPageKeeps ==
  ASSUME ReaderFits, WorldFits, ReadPage
  PROVE  ReaderFits'
<1> DEFINE n == Cardinality(Listed)
           items == {q \in Listed : Place(q) \in Skipped + 1 .. Skipped + PageSize}
           due == reader.pending - Skipped
<1>1. reader \in Reader /\ PageRequestFits
  BY DEF ReadPage, Reading, ReaderFits
<1>2. /\ reader.pc = "page" /\ reader.kind \in BookKind /\ reader.pos >= 1
      /\ reader.kind = "book" \/ ~reader.patched => reader.pending <= n
  BY <1>1 DEF ReadPage, Reading, PageRequestFits
<1>3. PageSize \in Nat /\ PageSize > 0 /\ reader.pos \in Nat /\ reader.pending \in Nat
  BY <1>1, TrainingAssumption DEF Reader
<1>4. Skipped \in Nat
  BY <1>2, <1>3 DEF Skipped
<1>5. BookExplains /\ Listed \subseteq Questions /\ IsFiniteSet(Listed) /\ n \in Nat
  BY FiniteQuestions DEF WorldFits, BookExplains, Listed
<1>6. reader' = [reader EXCEPT !.pc = "done", !.items = items]
  BY DEF ReadPage
<1>7. /\ reader' \in Reader
      /\ reader'.pc = "done" /\ reader'.kind = reader.kind /\ reader'.pos = reader.pos
      /\ reader'.pending = reader.pending /\ reader'.patched = reader.patched
      /\ reader'.items = items
  <2>1. items \subseteq Questions
    BY <1>5
  <2> HIDE DEF items
  <2> QED
    BY <1>1, <1>6, <2>1 DEF Reader
<1>8. IsFiniteSet(items) /\ Cardinality(items) \in Nat
  BY <1>5, FiniteQuestions
<1>9. ASSUME NEW m \in Nat, m <= PageSize, Skipped + m <= n PROVE m <= Cardinality(items)
  <2> DEFINE P == Skipped + 1 .. Skipped + m
             owner == [k \in P |-> CHOOSE q \in Listed : Place(q) = k]
  <2>1. ASSUME NEW k \in P PROVE owner[k] \in items /\ Place(owner[k]) = k
    <3>1. k \in 1 .. n /\ k \in Skipped + 1 .. Skipped + PageSize
      BY <1>3, <1>4, <1>5, <1>9
    <3>2. \E q \in Listed : Place(q) = k
      BY <1>5, <3>1, PlacesAreFilled
    <3>3. owner[k] \in Listed /\ Place(owner[k]) = k
      BY <3>2
    <3> QED
      BY <3>1, <3>3
  <2>2. owner \in Injection(P, items)
    <3>1. \A a, b \in P : owner[a] = owner[b] => a = b
      BY <2>1
    <3>2. owner \in [P -> items]
      BY <2>1
    <3> HIDE DEF owner, P, items
    <3> QED
      BY <3>1, <3>2 DEF Injection, IsInjective
  <2>3. Cardinality(P) = m
    <3>1. Skipped + 1 \in Int /\ Skipped + m \in Int
      BY <1>4
    <3>2. Cardinality(P) = IF Skipped + 1 > Skipped + m THEN 0 ELSE (Skipped + m) - (Skipped + 1) + 1
      BY <3>1, FS_Interval
    <3> QED
      BY <1>4, <3>2
  <2> HIDE DEF owner, P, items
  <2> QED
    BY <1>8, <2>2, <2>3, FS_Injection
<1>10. PageAgrees'
  <2> SUFFICES ASSUME reader.kind = "book" \/ ~reader.patched
               PROVE  Cardinality(items) >= Min({PageSize, due})
    BY <1>7 DEF PageAgrees, Skipped
  <2>1. reader.pending <= n
    BY <1>2
  <2>2. due \in Int
    BY <1>3, <1>4
  <2>3. Min({PageSize, due}) = IF PageSize <= due THEN PageSize ELSE due
    BY <1>3, <2>2, LesserOfTwo
  <2> HIDE DEF items, n
  <2>4. CASE PageSize <= due
    <3>1. Skipped + PageSize <= n
      BY <1>3, <1>4, <1>5, <2>1, <2>4
    <3> QED
      BY <1>3, <1>8, <1>9, <2>3, <2>4, <3>1
  <2>5. CASE due < PageSize /\ due >= 0
    <3>1. due \in Nat /\ Skipped + due <= n /\ due <= PageSize
      BY <1>3, <1>4, <1>5, <2>1, <2>2, <2>5
    <3>2. due <= Cardinality(items)
      BY <1>9, <3>1
    <3>3. Min({PageSize, due}) = due
      BY <1>3, <2>2, <2>3, <2>5
    <3> HIDE DEF due
    <3> QED
      BY <1>8, <3>1, <3>2, <3>3
  <2>6. CASE due < PageSize /\ due < 0
    BY <1>3, <1>8, <2>2, <2>3, <2>6
  <2> QED
    BY <1>3, <2>2, <2>4, <2>5, <2>6
<1>11. CurrentItemIsFirstOpen' /\ ReportsAgree'
  BY <1>2, <1>7, <1>10 DEF CurrentItemIsFirstOpen, ReportsAgree, Done, BookKind
<1> QED
  BY <1>7, <1>11 DEF ReaderFits, SessionRequestFits, LearningRequestFits, PageRequestFits,
                     InSession, InLearning

LEMMA IdleFits ==
  ASSUME reader' = NoReader
  PROVE  ReaderFits'
<1>1. reader' \in Reader /\ reader'.pc = "idle"
  BY DEF NoReader, Reader, Level, DefaultLevel
<1> QED
  BY <1>1 DEF ReaderFits, SessionRequestFits, LearningRequestFits, PageRequestFits,
              InSession, InLearning, CurrentItemIsFirstOpen, ReportsAgree, Done

-----------------------------------------------------------------------------
(* The invariant                                                           *)

\* A finish in flight is of a session that exists.
FinishesFit ==
    /\ finish \in [Finishers -> [session : Sessions \union {NoSession},
                                 to : {"active"} \union Finished]]
    /\ answered \in [Sessions -> SUBSET Finished]
    /\ \A f \in Finishers : finish[f] # NoFinish =>
          /\ finish[f].session \in Sessions
          /\ status[finish[f].session] # "absent"
          /\ finish[f].to \in Finished

TrainingInv ==
    /\ WorldFits
    /\ reviewing \subseteq Questions
    /\ FinishesFit
    /\ ReaderFits

LEMMA TrainingInit == Init => TrainingInv
<1> SUFFICES ASSUME Init PROVE TrainingInv
  OBVIOUS
<1>1. BookExplains
  <2>1. changes = <<>> /\ Len(changes) = 0 /\ changes \in Seq(Change)
    BY DEF Init, BookInit
  <2> QED
    BY <2>1 DEF Init, BookInit, BookExplains, BookTypeOK
<1>2. WorldFits
  BY <1>1 DEF Init, WorldFits
<1>3. FinishesFit
  BY DEF Init, FinishesFit, NoFinish
<1>4. reader \in Reader /\ reader.pc = "idle"
  BY DEF Init, NoReader, Reader, Level, DefaultLevel
<1>5. ReaderFits
  BY <1>4 DEF ReaderFits, SessionRequestFits, LearningRequestFits, PageRequestFits,
              InSession, InLearning, CurrentItemIsFirstOpen, ReportsAgree, Done
<1> QED
  BY <1>2, <1>3, <1>5 DEF Init, TrainingInv

\* A write that is neither an answer nor a change of an entry.
LEMMA SessionWriteKeeps ==
  ASSUME TrainingInv, reader.pc # "done", UNCHANGED <<bookVars, reviewing, reader>>,
         WorldFits', SessionsStay
  PROVE  ReaderFits'
<1>1. BookExplains' /\ BookGrows
  BY BookStays DEF TrainingInv, WorldFits
<1>2. reader' = [reader EXCEPT !.patched = reader.patched] /\ reader.patched \in BOOLEAN
  BY DEF TrainingInv, ReaderFits, Reader
<1>3. reader.pc # "idle" /\ ~reader.patched => reviewing' = reviewing /\ ~reader.patched
  OBVIOUS
<1> QED
  BY <1>1, <1>2, <1>3, WriteKeepsRequest DEF TrainingInv, WorldFits

LEMMA WriteKeeps ==
  ASSUME TrainingInv, Write
  PROVE  TrainingInv'
<1>1. reader.pc # "done"
  BY DEF Write
<1>2. ASSUME NEW s \in Sessions, NEW n \in Sizes, Create(s, n) PROVE TrainingInv'
  <2>1. BookExplains'
    BY <1>2, BookStays DEF Create, TrainingInv, WorldFits
  <2>2. n \in Nat
    BY TrainingAssumption
  <2>3. WorldFits'
    BY <1>2, <2>1, <2>2 DEF Create, TrainingInv, WorldFits
  <2>4. SessionsStay
    BY <1>2 DEF Create, TrainingInv, WorldFits, SessionsStay
  <2>5. ReaderFits'
    BY <1>1, <1>2, <2>3, <2>4, SessionWriteKeeps DEF Create
  <2>6. FinishesFit'
    BY <1>2, <2>4 DEF Create, TrainingInv, FinishesFit, SessionsStay
  <2> QED
    BY <1>2, <2>3, <2>5, <2>6 DEF Create, TrainingInv
<1>3. ASSUME NEW q \in Questions, NEW j \in Judgements, Grade(q, j),
             UNCHANGED <<status, size, reviewing, finish, answered, reader>>
      PROVE  TrainingInv'
  <2>1. BookExplains' /\ BookGrows
    BY <1>3, GradeKeeps DEF TrainingInv, WorldFits
  <2>2. WorldFits' /\ SessionsStay
    BY <1>3, <2>1 DEF TrainingInv, WorldFits, SessionsStay
  <2>3. reader' = [reader EXCEPT !.patched = reader.patched] /\ reader.patched \in BOOLEAN
    BY <1>3 DEF TrainingInv, ReaderFits, Reader
  <2>4. reader.pc # "idle" /\ ~reader.patched => reviewing' = reviewing /\ ~reader.patched
    BY <1>3
  <2>5. ReaderFits'
    BY <1>1, <2>1, <2>2, <2>3, <2>4, WriteKeepsRequest DEF TrainingInv, WorldFits
  <2> QED
    BY <1>3, <2>2, <2>5 DEF TrainingInv, FinishesFit
<1>7. ASSUME NEW s \in Sessions, NEW n \in 1 .. Max(Sizes), NEW j \in Judgements,
             Answer(s, n, j)
      PROVE  TrainingInv'
  <2>1. <<s, n>> \in Questions
    BY TrainingAssumption
  <2> QED
    BY <1>3, <1>7, <2>1 DEF Answer
<1>8. ASSUME NEW q \in Elsewhere, NEW j \in Judgements, AnswerElsewhere(q, j)
      PROVE  TrainingInv'
  <2>1. q \in Questions
    BY TrainingAssumption
  <2> QED
    BY <1>3, <1>8, <2>1 DEF AnswerElsewhere
<1>4. ASSUME NEW f \in Finishers, NEW s \in Sessions, NEW to \in Finished, FinishRead(f, s, to)
      PROVE  TrainingInv'
  <2>1. BookExplains'
    BY <1>4, BookStays DEF FinishRead, TrainingInv, WorldFits
  <2>2. WorldFits' /\ SessionsStay
    BY <1>4, <2>1 DEF FinishRead, TrainingInv, WorldFits, SessionsStay
  <2>3. ReaderFits'
    BY <1>1, <1>4, <2>2, SessionWriteKeeps DEF FinishRead
  <2>4. FinishesFit'
    <3>1. CASE status[s] \in Finished
      BY <1>4, <3>1 DEF FinishRead, TrainingInv, FinishesFit
    <3>2. CASE status[s] \notin Finished
      BY <1>4, <3>2 DEF FinishRead, TrainingInv, FinishesFit
    <3> QED
      BY <3>1, <3>2
  <2> QED
    BY <1>4, <2>2, <2>3, <2>4 DEF FinishRead, TrainingInv
<1>5. ASSUME NEW f \in Finishers, FinishCommit(f) PROVE TrainingInv'
  <2> DEFINE s == finish[f].session
  <2>1. BookExplains'
    BY <1>5, BookStays DEF FinishCommit, TrainingInv, WorldFits
  <2>2. /\ s \in Sessions /\ status[s] # "absent" /\ finish[f].to \in Finished
        /\ status' = [status EXCEPT ![s] = finish[f].to] /\ size' = size
        /\ answered' = [answered EXCEPT ![s] = @ \union {finish[f].to}]
        /\ finish' = [finish EXCEPT ![f] = NoFinish]
    BY <1>5 DEF FinishCommit, TrainingInv, FinishesFit
  <2> HIDE DEF s
  <2>3. WorldFits' /\ SessionsStay
    BY <2>1, <2>2 DEF TrainingInv, WorldFits, SessionsStay, Finished
  <2>4. ReaderFits'
    BY <1>1, <1>5, <2>3, SessionWriteKeeps DEF FinishCommit
  <2>5. FinishesFit'
    BY <2>2, <2>3 DEF TrainingInv, FinishesFit, NoFinish, SessionsStay
  <2> QED
    BY <1>5, <2>3, <2>4, <2>5 DEF FinishCommit, TrainingInv
<1>6. ASSUME NEW q \in Questions, MarkEntry(q) PROVE TrainingInv'
  <2>1. BookExplains' /\ BookGrows
    BY <1>6, BookStays DEF MarkEntry, TrainingInv, WorldFits
  <2>2. WorldFits' /\ SessionsStay
    BY <1>6, <2>1 DEF MarkEntry, TrainingInv, WorldFits, SessionsStay
  <2>3. /\ reader' = [reader EXCEPT !.patched = reader.pc # "idle"]
        /\ (reader.pc # "idle") \in BOOLEAN
    BY <1>6 DEF MarkEntry
  <2>4. ReaderFits'
    BY <1>1, <2>1, <2>2, <2>3, WriteKeepsRequest DEF TrainingInv, WorldFits
  <2> QED
    BY <1>6, <2>2, <2>4 DEF MarkEntry, TrainingInv, FinishesFit
<1> QED
  BY <1>2, <1>4, <1>5, <1>6, <1>7, <1>8 DEF Write

LEMMA ReadKeeps ==
  ASSUME TrainingInv, Read
  PROVE  TrainingInv'
<1>1. UNCHANGED <<bookVars, status, size, reviewing, finish, answered>>
  BY DEF Read, Begin, Scan, ScanGrade, ReadMastery, ReadLogs, CountPending, CountReviewing, ReadLevel,
         ReadReason, ReadRecent, CountTotal, ReadPage, Respond, Reading
<1>2. BookExplains'
  BY <1>1, BookStays DEF TrainingInv, WorldFits
<1>3. WorldFits' /\ FinishesFit' /\ (reviewing \subseteq Questions)'
  BY <1>1, <1>2 DEF TrainingInv, WorldFits, FinishesFit
<1>4. ReaderFits'
  <2>1. ReaderFits /\ WorldFits
    BY DEF TrainingInv
  <2>2. ASSUME Respond PROVE ReaderFits'
    BY <2>2, IdleFits DEF Respond
  <2> QED
    BY <2>1, <2>2, BeginKeeps, ScanKeeps, ScanGradeKeeps, ReadMasteryKeeps, ReadLogsKeeps, CountingKeeps,
       ReadLevelKeeps, ReadRecentKeeps, CountTotalKeeps, ReadPageKeeps DEF Read
<1> QED
  BY <1>3, <1>4 DEF TrainingInv

LEMMA TrainingStays ==
  ASSUME TrainingInv, UNCHANGED vars
  PROVE  TrainingInv'
<1>1. BookExplains'
  BY BookStays DEF TrainingInv, WorldFits, vars
<1>2. WorldFits' /\ FinishesFit' /\ (reviewing \subseteq Questions)'
  BY <1>1 DEF TrainingInv, WorldFits, FinishesFit, vars
<1>3. ReaderFits'
  <2>1. /\ grade' = grade /\ changes' = changes /\ wrong' = wrong /\ status' = status
        /\ size' = size /\ reviewing' = reviewing /\ reader' = reader
    BY DEF vars, bookVars
  <2>2. \A n : (Scanned(n)' <=> Scanned(n)) /\ (CountedBy(n)' <=> CountedBy(n))
    BY <2>1 DEF Scanned, CountedBy
  <2>3. BadCounted' = BadCounted /\ (\A n : BadOf(n)' = BadOf(n)) /\ Listed' = Listed
    BY <2>1 DEF BadCounted, BadOf, Listed
  <2>4. SessionRequestFits' /\ LearningRequestFits' /\ PageRequestFits'
    BY <2>1, <2>2, <2>3 DEF TrainingInv, ReaderFits, SessionRequestFits,
                            LearningRequestFits, PageRequestFits
  <2>5. /\ OfSession(reader.before)' = OfSession(reader.before)
        /\ Submitted(reader.session)' = Submitted(reader.session)
        /\ ReportedChange' = ReportedChange
        /\ \A kinds : Done(kinds)' <=> Done(kinds)
    BY <2>1 DEF OfSession, Submitted, ReportedChange, Done
  <2>6. CurrentItemIsFirstOpen'
    BY <2>1 DEF TrainingInv, ReaderFits, CurrentItemIsFirstOpen, Done, OfSession, Submitted
  <2>7. (SummaryAgrees' <=> SummaryAgrees) /\ (PageAgrees' <=> PageAgrees)
    BY <2>1, <2>5 DEF SummaryAgrees, PageAgrees
  <2>8. LearningAgrees' <=> LearningAgrees
    BY <2>1 DEF LearningAgrees
  <2>9. ReportsAgree'
    BY <2>5, <2>7, <2>8 DEF TrainingInv, ReaderFits, ReportsAgree
  <2> QED
    BY <2>1, <2>4, <2>6, <2>9 DEF TrainingInv, ReaderFits
<1> QED
  BY <1>2, <1>3 DEF TrainingInv

LEMMA TrainingStep == TrainingInv /\ [Next]_vars => TrainingInv'
  BY WriteKeeps, ReadKeeps, TrainingStays DEF Next

LEMMA TrainingHolds == Spec => []TrainingInv
  BY TrainingInit, TrainingStep, PTL DEF Spec

-----------------------------------------------------------------------------
(***************************************************************************)
(* Every variable keeps its type.                                          *)
(***************************************************************************)
THEOREM TrainingTypes == Spec => []TypeOK
<1>1. TrainingInv => TypeOK
  BY DEF TrainingInv, WorldFits, BookExplains, FinishesFit, ReaderFits, TypeOK
<1> QED
  BY <1>1, TrainingHolds, PTL

(***************************************************************************)
(* current_item and get_next_question read one submission after the other  *)
(* while answers are committed: the student is sent to the first question  *)
(* that was open at some moment of the request.                            *)
(***************************************************************************)
THEOREM SentToFirstOpen == Spec => []CurrentItemIsFirstOpen
<1>1. TrainingInv => CurrentItemIsFirstOpen
  BY DEF TrainingInv, ReaderFits
<1> QED
  BY <1>1, TrainingHolds, PTL

(***************************************************************************)
(* The summary of a session, the learning summary and the pages of the     *)
(* wrong book agree with what was done, whatever is committed between      *)
(* their SELECTs.                                                          *)
(***************************************************************************)
THEOREM ReportsAreTrue == Spec => []ReportsAgree
<1>1. TrainingInv => ReportsAgree
  BY DEF TrainingInv, ReaderFits
<1> QED
  BY <1>1, TrainingHolds, PTL

-----------------------------------------------------------------------------
(* Finishes                                                                *)

\* No two finish requests of one session are in flight.
OneFinishAtATime ==
    \A f, g \in Finishers :
        /\ finish[f] # NoFinish /\ finish[g] # NoFinish
        /\ finish[f].session = finish[g].session
        => f = g

\* What was answered is the status of the session; a finish is in flight only
\* of a session that is not finished.
FinishInv ==
    /\ \A s \in Sessions : answered[s] \subseteq {status[s]} \intersect Finished
    /\ \A f \in Finishers : finish[f] # NoFinish => status[finish[f].session] \notin Finished

\* A finish that overlaps with no other one finds the session as it read it.
LEMMA FinishStep ==
  ASSUME TrainingInv, FinishInv, OneFinishAtATime, [Next]_vars
  PROVE  FinishInv'
<1>1. FinishesFit /\ status \in [Sessions -> {"absent", "active"} \union Finished]
  BY DEF TrainingInv, WorldFits
<1>2. ASSUME NEW s \in Sessions, NEW n \in Sizes, Create(s, n) PROVE FinishInv'
  BY <1>1, <1>2 DEF Create, FinishInv, FinishesFit, Finished
<1>3. ASSUME NEW f \in Finishers, NEW s \in Sessions, NEW to \in Finished, FinishRead(f, s, to)
      PROVE  FinishInv'
  <2>1. CASE status[s] \in Finished
    BY <1>1, <1>3, <2>1 DEF FinishRead, FinishInv, FinishesFit
  <2>2. CASE status[s] \notin Finished
    BY <1>1, <1>3, <2>2 DEF FinishRead, FinishInv, FinishesFit
  <2> QED
    BY <2>1, <2>2
<1>4. ASSUME NEW f \in Finishers, FinishCommit(f) PROVE FinishInv'
  <2> DEFINE s == finish[f].session
             to == finish[f].to
  <2>1. /\ s \in Sessions /\ to \in Finished /\ finish[f] # NoFinish
        /\ status' = [status EXCEPT ![s] = to]
        /\ answered' = [answered EXCEPT ![s] = @ \union {to}]
        /\ finish' = [finish EXCEPT ![f] = NoFinish]
    BY <1>1, <1>4 DEF FinishCommit, FinishesFit
  <2>2. answered[s] = {}
    BY <2>1 DEF FinishInv
  <2>3. ASSUME NEW g \in Finishers, finish'[g] # NoFinish
        PROVE  finish[g] # NoFinish /\ finish'[g] = finish[g] /\ finish[g].session # s
    <3>1. g # f /\ finish'[g] = finish[g]
      BY <1>1, <2>1, <2>3 DEF FinishesFit
    <3> QED
      BY <2>1, <2>3, <3>1 DEF OneFinishAtATime
  <2>4. ASSUME NEW g \in Finishers, finish'[g] # NoFinish
        PROVE  status'[finish'[g].session] \notin Finished
    <3>1. finish[g].session \in Sessions /\ status[finish[g].session] \notin Finished
      BY <1>1, <2>3, <2>4 DEF FinishInv, FinishesFit
    <3> HIDE DEF s
    <3> QED
      BY <1>1, <2>1, <2>3, <2>4, <3>1
  <2>5. ASSUME NEW t \in Sessions PROVE answered'[t] \subseteq {status'[t]} \intersect Finished
    <3> HIDE DEF s, to
    <3>1. CASE t = s
      BY <1>1, <2>1, <2>2, <3>1 DEF FinishesFit
    <3>2. CASE t # s
      BY <1>1, <2>1, <3>2 DEF FinishInv, FinishesFit
    <3> QED
      BY <3>1, <3>2
  <2> QED
    BY <2>4, <2>5 DEF FinishInv
<1>5. ASSUME UNCHANGED <<status, finish, answered>> PROVE FinishInv'
  BY <1>5 DEF FinishInv
<1>6. ASSUME Read \/ UNCHANGED vars PROVE FinishInv'
  BY <1>5, <1>6 DEF Read, Begin, Scan, ScanGrade, ReadMastery, ReadLogs, CountPending, CountReviewing,
     ReadLevel, ReadReason, ReadRecent, CountTotal, ReadPage, Respond, Reading, vars
<1>7. ASSUME Write PROVE FinishInv'
  BY <1>2, <1>3, <1>4, <1>5, <1>7 DEF Write, Answer, AnswerElsewhere, MarkEntry
<1> QED
  BY <1>6, <1>7 DEF Next

(***************************************************************************)
(* finish_practice_session answers "repeated finishes return the same      *)
(* result" truly as long as no two finishes of one session overlap, with   *)
(* any number of sessions and of requests: nothing but the overlap breaks  *)
(* it, which the run TrainingFinish shows to do so.                        *)
(***************************************************************************)
THEOREM FinishesAgree == Spec /\ []OneFinishAtATime => []FinishIsIdempotent
<1>1. Init => FinishInv
  BY DEF Init, FinishInv
<1>2. TrainingInv /\ FinishInv /\ OneFinishAtATime /\ [Next]_vars => FinishInv'
  BY FinishStep
<1>3. FinishInv => FinishIsIdempotent
  <2> SUFFICES ASSUME FinishInv, NEW s \in Sessions PROVE Cardinality(answered[s]) <= 1
    BY DEF FinishIsIdempotent
  <2>1. answered[s] \subseteq {status[s]}
    BY DEF FinishInv
  <2>2. IsFiniteSet({status[s]}) /\ Cardinality({status[s]}) = 1
    BY FS_Singleton
  <2> QED
    BY <2>1, <2>2, SmallerSet
<1> QED
  BY <1>1, <1>2, <1>3, TrainingHolds, PTL DEF Spec

(***************************************************************************)
(* In particular when finish requests come one at a time, whichever        *)
(* sessions they are of, as in the run Training.                           *)
(***************************************************************************)
THEOREM FinishesOneByOneAgree ==
  ASSUME \A f, g \in Finishers : f = g
  PROVE  Spec => []FinishIsIdempotent
<1>1. OneFinishAtATime
  BY DEF OneFinishAtATime
<1> QED
  BY <1>1, FinishesAgree, PTL

=============================================================================
