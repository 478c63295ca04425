------------------------- MODULE PracticeGraphProofs -------------------------
(***************************************************************************)
(* Trainings of any length, with any questions, answers, grades and        *)
(* limits: rules read the right answer, sources are used once, and the end *)
(* is told.                                                                *)
(***************************************************************************)
EXTENDS PracticeGraph, FiniteSetTheorems, WellFoundedInduction, TLAPS

Answering == {"wait", "waiting", "evaluator"}

Shape ==
    /\ limit \in Limits
    /\ target \in Targets
    /\ pc \in PC
    /\ hops \in Nat
    /\ calls \in Nat
    /\ index \in Nat
    /\ items \in Seq(Item)
    /\ shown \in Nat
    /\ answer \in [text : Answers, of : Nat] \union {NoAnswer}
    /\ error \in {"none", "AGENT_LIMIT_EXCEEDED", "PRACTICE_STATE_CONFLICT"}
    /\ trail \in Seq(Event)

\* Where the index, the questions, the screen and the answer stand at each node.
\* A questioner that a limit has stopped leaves no question behind; the student
\* is asked all the same, and the evaluator finds the same limit exceeded.
Place ==
    /\ index < target
    /\ Len(items) \in {index, index + 1}
    /\ pc = "coordinator" => index = 0 /\ Len(items) = 0
    /\ pc \in {"questioner", "generate"} => Len(items) = index
    /\ pc \in Answering /\ error = "none" => Len(items) = index + 1
    /\ pc \in Answering /\ Len(items) = index + 1 => shown = index + 1
    /\ pc = "evaluator" /\ Len(items) = index + 1 => answer.of = index + 1
    /\ pc = "grade" => /\ Len(items) = index + 1 /\ answer.of = index + 1
                       /\ ~HasRule(items[index + 1].question)

GradesInOrder ==
    \A i \in DOMAIN items :
        IF i <= index \/ summary # NoSummary
        THEN /\ items[i].grade.of = IF HasRule(items[i].question) THEN i ELSE 0
             /\ items[i].grade.max = RubricTotal(items[i].question.rubric)
        ELSE items[i].grade = Ungraded

Errors ==
    /\ pc \in {"coordinator", "generate", "grade", "summary"} => error = "none"
    /\ pc \in {"questioner"} \union Answering /\ error # "none" =>
          calls >= limit.calls \/ hops >= limit.hops
    /\ pc = "error" => error # "none"
    /\ pc = "summary" => summary # NoSummary
    /\ pc \notin {"summary", "end", "raised"} => summary = NoSummary

SourcesExcluded ==
    /\ \A i \in 1 .. index : items[i].question.sources \subseteq excluded
    /\ pc = "generate" => found \intersect excluded = {}

TrainingInv ==
    /\ Shape
    /\ Place
    /\ GradesInOrder
    /\ GradesFit
    /\ Errors
    /\ TrainingIsTold
    /\ SourcesExcluded

-----------------------------------------------------------------------------

LEMMA TrainingInit == Init => TrainingInv
<1> SUFFICES ASSUME Init PROVE TrainingInv
  OBVIOUS
<1>1. target \in Nat \ {0}
  BY ConstantsAssumption DEF Init
<1>2. items = <<>> /\ DOMAIN items = {} /\ Len(items) = 0 /\ trail \in Seq(Event)
  BY DEF Init
<1> QED
  BY <1>1, <1>2 DEF Init, TrainingInv, Shape, Place, GradesInOrder, GradesFit,
     Errors, TrainingIsTold, SourcesExcluded, PC, Answering, NoAnswer

LEMMA StutterKeeps == TrainingInv /\ UNCHANGED vars => TrainingInv'
<1> SUFFICES ASSUME TrainingInv, UNCHANGED vars PROVE TrainingInv'
  OBVIOUS
<1>1. UNCHANGED <<limit, target, pc, hops, calls, index, items, shown, excluded,
                  answer, found, summary, error, trail>>
  BY DEF vars, settings, counters, work
<1> QED
  BY <1>1 DEF TrainingInv, Shape, Place, GradesInOrder, GradesFit, Errors,
     TrainingIsTold, SourcesExcluded

\* The steps that touch neither the questions nor their grades.
LEMMA QuietStep ==
  ASSUME TrainingInv,
         UNCHANGED <<limit, target, index, items, excluded, summary>>,
         pc' \in PC, hops' \in Nat, calls' \in Nat, shown' = shown,
         answer' \in [text : Answers, of : Nat] \union {NoAnswer},
         error' \in {"none", "AGENT_LIMIT_EXCEEDED", "PRACTICE_STATE_CONFLICT"},
         trail' \in Seq(Event),
         Place', Errors', TrainingIsTold',
         pc' = "generate" => found' \intersect excluded = {}
  PROVE  TrainingInv'
BY DEF TrainingInv, Shape, GradesInOrder, GradesFit, SourcesExcluded

LEMMA CoordinatorStopsKeeps == TrainingInv /\ CoordinatorStops => TrainingInv'
<1> SUFFICES ASSUME TrainingInv, CoordinatorStops PROVE TrainingInv'
  OBVIOUS
<1> USE DEF settings, work
<1>1. error' = "AGENT_LIMIT_EXCEEDED" /\ calls' = calls /\ hops' = hops + 1
      /\ pc = "coordinator" /\ pc' = "questioner"
      /\ UNCHANGED <<limit, target, index, items, shown, excluded, answer, found,
                     summary, trail>>
  BY DEF CoordinatorStops, Fail
<1>2. calls >= limit.calls \/ hops + 1 >= limit.hops
  BY DEF CoordinatorStops, LimitsExceeded
<1>3. Place' /\ Errors' /\ TrainingIsTold'
  BY <1>1, <1>2 DEF TrainingInv, Place, Errors, TrainingIsTold, Answering
<1> QED
  BY <1>1, <1>3, QuietStep DEF TrainingInv, Shape, PC

LEMMA CoordinatorKeeps == TrainingInv /\ Coordinator => TrainingInv'
<1> SUFFICES ASSUME TrainingInv, Coordinator PROVE TrainingInv'
  OBVIOUS
<1> USE DEF settings, counters
<1>1. target \in Nat \ {0}
  BY ConstantsAssumption DEF TrainingInv, Shape
<1>2. pc = "coordinator" /\ pc' = "questioner" /\ index' = 0 /\ items' = <<>>
      /\ excluded' = {} /\ trail' = Append(trail, "summary")
      /\ UNCHANGED <<limit, target, hops, calls, shown, answer, found, summary, error>>
  BY DEF Coordinator, Emit
<1>3. DOMAIN items' = {} /\ Len(items') = 0 /\ items' \in Seq(Item)
      /\ trail' \in Seq(Event)
  BY <1>2 DEF TrainingInv, Shape, Event
<1> QED
  BY <1>1, <1>2, <1>3 DEF TrainingInv, Shape, Place, GradesInOrder, GradesFit,
     Errors, TrainingIsTold, SourcesExcluded, PC, Answering

LEMMA QuestionerStopsKeeps == TrainingInv /\ QuestionerStops => TrainingInv'
<1> SUFFICES ASSUME TrainingInv, QuestionerStops PROVE TrainingInv'
  OBVIOUS
<1> USE DEF settings, work
<1>1. error' = "AGENT_LIMIT_EXCEEDED" /\ calls' = calls + 1 /\ hops' = hops + 1
      /\ pc = "questioner" /\ pc' = "wait"
      /\ UNCHANGED <<limit, target, index, items, shown, excluded, answer, found,
                     summary, trail>>
  BY DEF QuestionerStops, Fail
<1>2. calls + 1 >= limit.calls \/ hops + 1 >= limit.hops
  BY DEF QuestionerStops, LimitsExceeded
<1>3. Place' /\ Errors' /\ TrainingIsTold'
  BY <1>1, <1>2 DEF TrainingInv, Shape, Place, Errors, TrainingIsTold, Answering
<1> QED
  BY <1>1, <1>3, QuietStep DEF TrainingInv, Shape, PC

\* A questioner or an evaluator that the limits let pass carries no error.
LEMMA PassingIsClean ==
  ASSUME TrainingInv, pc \in {"questioner", "evaluator"},
         NEW c \in Nat, c >= calls, ~LimitsExceeded(c, hops + 1)
  PROVE  error = "none"
<1>1. limit.calls \in Nat /\ limit.hops \in Nat
  BY ConstantsAssumption DEF TrainingInv, Shape
<1> QED
  BY <1>1 DEF TrainingInv, Shape, Errors, LimitsExceeded, Answering

LEMMA RetrieveKeeps ==
  ASSUME TrainingInv, NEW candidates \in SUBSET Chunks, Retrieve(candidates)
  PROVE  TrainingInv'
<1> USE DEF settings, counters, work
<1>1. pc = "questioner" /\ pc' = "generate" /\ found' = candidates
      /\ candidates \intersect excluded = {}
      /\ UNCHANGED <<limit, target, hops, calls, index, items, shown, excluded,
                     answer, summary, error, trail>>
  BY DEF Retrieve
<1>2. error = "none"
  BY <1>1, PassingIsClean DEF Retrieve, TrainingInv, Shape
<1>3. Place' /\ Errors' /\ TrainingIsTold'
  BY <1>1, <1>2 DEF TrainingInv, Place, Errors, TrainingIsTold, Answering
<1> QED
  BY <1>1, <1>3, QuietStep DEF TrainingInv, Shape, PC

LEMMA GeneratedKeeps ==
  ASSUME TrainingInv, NEW question \in Questions, NEW confident \in BOOLEAN,
         Generated(question, confident)
  PROVE  TrainingInv'
<1> USE DEF settings, counters
<1> DEFINE new == [question |-> question, grade |-> Ungraded]
<1>1. pc = "generate" /\ pc' = "wait" /\ items' = Append(items, new)
      /\ shown' = index + 1
      /\ UNCHANGED <<limit, target, hops, calls, index, excluded, answer, found,
                     summary, error>>
  BY DEF Generated
<1>2. trail' \in Seq(Event)
  <2>1. <<"summary">> \in Seq(Event) /\ <<"summary", "summary">> \in Seq(Event)
    BY DEF Event
  <2> QED
    BY <2>1 DEF Generated, TrainingInv, Shape
<1>3. Len(items) = index /\ error = "none" /\ summary = NoSummary /\ index \in Nat
      /\ items \in Seq(Item)
  BY <1>1 DEF TrainingInv, Shape, Place, Errors
<1>4. new \in Item
  BY DEF Item, Ungraded
<1>5. /\ items' \in Seq(Item) /\ Len(items') = index + 1
      /\ DOMAIN items' = 1 .. index + 1 /\ DOMAIN items = 1 .. index
      /\ items'[index + 1] = new
      /\ \A i \in 1 .. index : items'[i] = items[i]
  BY <1>1, <1>3, <1>4
<1>6. GradesInOrder' /\ GradesFit'
  BY <1>1, <1>3, <1>5 DEF TrainingInv, GradesInOrder, GradesFit, Ungraded
<1>7. SourcesExcluded'
  BY <1>1, <1>3, <1>5 DEF TrainingInv, SourcesExcluded
<1>8. Place' /\ Errors' /\ TrainingIsTold' /\ Shape'
  BY <1>1, <1>2, <1>3, <1>5
     DEF TrainingInv, Shape, Place, Errors, TrainingIsTold, Answering, PC
<1> QED
  BY <1>6, <1>7, <1>8 DEF TrainingInv

LEMMA StudentKeeps ==
  ASSUME TrainingInv, Interrupt \/ \E text \in Answers : Resume(text)
  PROVE  TrainingInv'
<1> USE DEF settings, counters, work
<1>1. CASE Interrupt
  <2>1. pc = "wait" /\ pc' = "waiting"
        /\ UNCHANGED <<limit, target, hops, calls, index, items, shown, excluded,
                       answer, found, summary, error, trail>>
    BY <1>1 DEF Interrupt
  <2>2. Place' /\ Errors' /\ TrainingIsTold'
    BY <2>1 DEF TrainingInv, Place, Errors, TrainingIsTold, Answering
  <2> QED
    BY <2>1, <2>2, QuietStep DEF TrainingInv, Shape, PC
<1>2. CASE \E text \in Answers : Resume(text)
  <2>1. PICK text \in Answers : Resume(text)
    BY <1>2
  <2>2. pc = "waiting" /\ pc' = "evaluator" /\ answer' = [text |-> text, of |-> shown]
        /\ UNCHANGED <<limit, target, hops, calls, index, items, shown, excluded,
                       found, summary, error, trail>>
    BY <2>1 DEF Resume
  <2>3. answer' \in [text : Answers, of : Nat] /\ answer'.of = shown
    BY <2>2 DEF TrainingInv, Shape
  <2>4. Place' /\ Errors' /\ TrainingIsTold'
    BY <2>2, <2>3 DEF TrainingInv, Place, Errors, TrainingIsTold, Answering
  <2> QED
    BY <2>2, <2>3, <2>4, QuietStep DEF TrainingInv, Shape, PC
<1> QED
  BY <1>1, <1>2

LEMMA EvaluatorStopsKeeps == TrainingInv /\ EvaluatorStops => TrainingInv'
<1> SUFFICES ASSUME TrainingInv, EvaluatorStops PROVE TrainingInv'
  OBVIOUS
<1> USE DEF settings, work
<1>1. error' = EvaluatorError /\ calls' = calls /\ hops' = hops + 1
      /\ pc = "evaluator" /\ pc' = "error" /\ EvaluatorError # "none"
      /\ UNCHANGED <<limit, target, index, items, shown, excluded, answer, found,
                     summary, trail>>
  BY DEF EvaluatorStops, Fail
<1>2. EvaluatorError \in {"none", "AGENT_LIMIT_EXCEEDED", "PRACTICE_STATE_CONFLICT"}
  BY DEF EvaluatorError
<1>3. Place' /\ Errors' /\ TrainingIsTold'
  BY <1>1 DEF TrainingInv, Place, Errors, TrainingIsTold, Answering
<1> QED
  BY <1>1, <1>2, <1>3, QuietStep DEF TrainingInv, Shape, PC

\* An evaluator that goes on has the question on the screen and its answer.
LEMMA EvaluatorHasAnswer ==
  ASSUME TrainingInv, pc = "evaluator", EvaluatorError = "none"
  PROVE  error = "none" /\ Len(items) = index + 1 /\ answer.of = index + 1
<1>1. ~LimitsExceeded(calls, hops + 1) /\ index + 1 \in DOMAIN items
  BY DEF EvaluatorError
<1>2. error = "none"
  BY <1>1, PassingIsClean DEF TrainingInv, Shape
<1> QED
  BY <1>2 DEF TrainingInv, Place, Answering

LEMMA AskGraderKeeps == TrainingInv /\ AskGrader => TrainingInv'
<1> SUFFICES ASSUME TrainingInv, AskGrader PROVE TrainingInv'
  OBVIOUS
<1> USE DEF settings, counters, work
<1>1. pc = "evaluator" /\ pc' = "grade" /\ EvaluatorError = "none"
      /\ UNCHANGED <<limit, target, hops, calls, index, items, shown, excluded,
                     answer, found, summary, error, trail>>
  BY DEF AskGrader
<1>2. error = "none" /\ Len(items) = index + 1 /\ answer.of = index + 1
      /\ ~HasRule(items[index + 1].question)
  BY <1>1, EvaluatorHasAnswer DEF AskGrader
<1>3. Place' /\ Errors' /\ TrainingIsTold'
  BY <1>1, <1>2 DEF TrainingInv, Place, Errors, TrainingIsTold, Answering
<1> QED
  BY <1>1, <1>3, QuietStep DEF TrainingInv, Shape, PC

-----------------------------------------------------------------------------
(* Induction                                                               *)

Below == {p \in Nat \X Nat : p[1] < p[2]}

LEMMA BelowIsWellFounded == IsWellFoundedOn(Below, Nat)
<1>1. OpToRel(<, Nat) = Below
  BY Zenon DEF OpToRel, Below
<1> QED
  BY <1>1, NatLessThanWellFounded, Zenon

\* Induction as a fact about a set, which every prover can use.
LEMMA SetInduction ==
  ASSUME NEW S, 0 \in S, \A n \in Nat : n \in S => n + 1 \in S
  PROVE  \A n \in Nat : n \in S
<1> DEFINE T == Nat \ S
<1> SUFFICES ASSUME T # {} PROVE FALSE
  OBVIOUS
<1>1. PICK x \in T : \A y \in T : ~(<<y, x>> \in Below)
  <2> HIDE DEF T
  <2>1. T \subseteq Nat
    BY DEF T
  <2>2. \E x \in T : \A y \in T : ~(<<y, x>> \in Below)
    BY <2>1, BelowIsWellFounded, WFMin
  <2> QED
    BY <2>2
<1>2. x \in Nat /\ x # 0 /\ x \notin S
  OBVIOUS
<1>3. x - 1 \in Nat /\ (x - 1) + 1 = x
  BY <1>2
<1>4. x - 1 \in T
  BY <1>2, <1>3
<1>5. <<x - 1, x>> \in Below
  <2>1. <<x - 1, x>> \in Nat \X Nat
    BY <1>2, <1>3
  <2>2. <<x - 1, x>>[1] < <<x - 1, x>>[2]
    BY <1>2, <1>3
  <2> QED
    BY <2>1, <2>2, Zenon DEF Below
<1> QED
  BY <1>1, <1>4, <1>5

-----------------------------------------------------------------------------
(* What the rules add up                                                   *)

\* The folds of the rules: g adds, over the subsets of D with at most n members,
\* the weights of the members, in the order in which pick takes them away.
UpTo(D, n) == {s \in SUBSET D : Cardinality(s) <= n}

Adds(g, D, n, w, pick) ==
    g = [s \in UpTo(D, n) |-> IF s = {} THEN 0 ELSE w[pick[s]] + g[s \ {pick[s]}]]

\* Without the member that is picked, a set is smaller by one.
LEMMA OneLess ==
  ASSUME NEW D, IsFiniteSet(D), NEW pick, \A s \in SUBSET D : s # {} => pick[s] \in s,
         NEW n \in Nat, NEW s \in UpTo(D, n + 1), s # {}
  PROVE  s \ {pick[s]} \in UpTo(D, n)
<1>1. s \in SUBSET D /\ Cardinality(s) <= n + 1 /\ pick[s] \in s
  BY DEF UpTo
<1>2. IsFiniteSet(s) /\ Cardinality(s) \in Nat
  BY <1>1, FS_Subset, FS_CardinalityType
<1> DEFINE x == pick[s]
<1>3. x \in s
  BY <1>1
<1> HIDE DEF x
<1>4. Cardinality(s \ {x}) = Cardinality(s) - 1
  BY <1>2, <1>3, FS_RemoveElement
<1>5. s \ {x} \in SUBSET D /\ Cardinality(s \ {x}) <= n
  BY <1>1, <1>2, <1>4
<1> QED
  BY <1>5 DEF UpTo, x

LEMMA NoneUpToZero ==
  ASSUME NEW D, IsFiniteSet(D), NEW s \in UpTo(D, 0)
  PROVE  s = {}
<1>1. s \in SUBSET D /\ Cardinality(s) <= 0
  BY DEF UpTo
<1>2. IsFiniteSet(s) /\ Cardinality(s) \in Nat
  BY <1>1, FS_Subset, FS_CardinalityType
<1>3. Cardinality(s) = 0
  BY <1>1, <1>2
<1> QED
  BY <1>2, <1>3, FS_EmptySet

\* The recursive function of a fold exists, up to any size.
LEMMA AddsExist ==
  ASSUME NEW D, IsFiniteSet(D), NEW w,
         NEW pick, \A s \in SUBSET D : s # {} => pick[s] \in s
  PROVE  \A n \in Nat : \E g : Adds(g, D, n, w, pick)
<1> DEFINE S == {n \in Nat : \E g : Adds(g, D, n, w, pick)}
<1>1. 0 \in S
  <2> DEFINE g == [s \in UpTo(D, 0) |-> 0]
  <2>1. \A s \in UpTo(D, 0) : s = {}
    BY NoneUpToZero
  <2>2. Adds(g, D, 0, w, pick)
    BY <2>1 DEF Adds
  <2> QED
    BY <2>2
<1>2. ASSUME NEW n \in Nat, n \in S PROVE n + 1 \in S
  <2>1. PICK f : Adds(f, D, n, w, pick)
    BY <1>2
  <2> DEFINE Value(h, s) == IF s = {} THEN 0 ELSE w[pick[s]] + h[s \ {pick[s]}]
             g == [s \in UpTo(D, n + 1) |-> Value(f, s)]
  <2>2. UpTo(D, n) \subseteq UpTo(D, n + 1)
    <3> SUFFICES ASSUME NEW s \in UpTo(D, n) PROVE s \in UpTo(D, n + 1)
      OBVIOUS
    <3>1. s \in SUBSET D /\ Cardinality(s) <= n
      BY DEF UpTo
    <3>2. Cardinality(s) \in Nat
      BY <3>1, FS_Subset, FS_CardinalityType
    <3>3. Cardinality(s) <= n + 1
      BY <3>1, <3>2
    <3> QED
      BY <3>1, <3>3 DEF UpTo
  <2>3. \A s \in UpTo(D, n) : f[s] = Value(f, s)
    <3>1. f = [s \in UpTo(D, n) |-> Value(f, s)]
      BY <2>1 DEF Adds
    <3> HIDE DEF Value
    <3> QED
      BY <3>1
  <2>4. \A s \in UpTo(D, n + 1) : g[s] = Value(f, s)
    OBVIOUS
  <2>5. \A s \in UpTo(D, n) : g[s] = f[s]
    BY <2>2, <2>3, <2>4
  <2> HIDE DEF g
  <2>6. ASSUME NEW s \in UpTo(D, n + 1) PROVE Value(f, s) = Value(g, s)
    <3>1. CASE s = {}
      BY <3>1
    <3>2. CASE s # {}
      <4>1. s \ {pick[s]} \in UpTo(D, n)
        BY <3>2, OneLess
      <4> QED
        BY <2>5, <4>1
    <3> QED
      BY <3>1, <3>2
  <2>7. g = [s \in UpTo(D, n + 1) |-> Value(g, s)]
    <3> HIDE DEF Value
    <3> QED
      BY <2>6 DEF g
  <2>8. Adds(g, D, n + 1, w, pick)
    BY <2>7 DEF Adds
  <2> QED
    BY <2>8
<1> HIDE DEF S
<1>3. \A n \in Nat : n \in S
  BY <1>1, <1>2, SetInduction
<1> QED
  BY <1>3 DEF S

\* Whatever the weights are added to is a natural number.
LEMMA AddsNumbers ==
  ASSUME NEW D, IsFiniteSet(D), NEW w, \A x \in D : w[x] \in Nat,
         NEW pick, \A s \in SUBSET D : s # {} => pick[s] \in s,
         NEW m \in Nat, NEW g, Adds(g, D, m, w, pick)
  PROVE  \A s \in UpTo(D, m) : g[s] \in Nat
<1> DEFINE S == {n \in Nat : n <= m => \A s \in UpTo(D, n) : g[s] \in Nat}
<1>1. \A s \in UpTo(D, m) : g[s] = IF s = {} THEN 0 ELSE w[pick[s]] + g[s \ {pick[s]}]
  BY DEF Adds
<1>2. \A n \in Nat : n <= m => UpTo(D, n) \subseteq UpTo(D, m)
  <2> SUFFICES ASSUME NEW n \in Nat, n <= m, NEW s \in UpTo(D, n) PROVE s \in UpTo(D, m)
    OBVIOUS
  <2>1. s \in SUBSET D /\ Cardinality(s) <= n
    BY DEF UpTo
  <2>2. Cardinality(s) \in Nat
    BY <2>1, FS_Subset, FS_CardinalityType
  <2>3. Cardinality(s) <= m
    BY <2>1, <2>2
  <2> QED
    BY <2>1, <2>3 DEF UpTo
<1>3. 0 \in S
  <2> SUFFICES ASSUME NEW s \in UpTo(D, 0) PROVE g[s] \in Nat
    OBVIOUS
  <2>1. s = {} /\ s \in UpTo(D, m)
    BY <1>2, NoneUpToZero
  <2> QED
    BY <1>1, <2>1
<1>4. ASSUME NEW n \in Nat, n \in S PROVE n + 1 \in S
  <2> SUFFICES ASSUME n + 1 <= m, NEW s \in UpTo(D, n + 1) PROVE g[s] \in Nat
    OBVIOUS
  <2>1. s \in UpTo(D, m) /\ s \in SUBSET D
    BY <1>2 DEF UpTo
  <2>2. CASE s = {}
    BY <1>1, <2>1, <2>2
  <2>3. CASE s # {}
    <3>1. s \ {pick[s]} \in UpTo(D, n)
      BY <2>3, OneLess
    <3>2. g[s \ {pick[s]}] \in Nat
      BY <1>4, <3>1
    <3>3. w[pick[s]] \in Nat
      BY <2>1, <2>3
    <3>4. g[s] = w[pick[s]] + g[s \ {pick[s]}]
      BY <1>1, <2>1, <2>3
    <3> QED
      BY <3>2, <3>3, <3>4
  <2> QED
    BY <2>2, <2>3
<1> HIDE DEF S
<1>5. m \in S
  BY <1>3, <1>4, SetInduction
<1> QED
  BY <1>5 DEF S

\* A fold of natural numbers over a finite set exists and is a natural number.
AddsAll(g, D, w, pick) ==
    g = [s \in SUBSET D |-> IF s = {} THEN 0 ELSE w[pick[s]] + g[s \ {pick[s]}]]

LEMMA FoldIsNat ==
  ASSUME NEW D, IsFiniteSet(D), NEW w, \A x \in D : w[x] \in Nat,
         NEW pick, \A s \in SUBSET D : s # {} => pick[s] \in s
  PROVE  /\ \E g : AddsAll(g, D, w, pick)
         /\ \A g : AddsAll(g, D, w, pick) => g[D] \in Nat
<1> DEFINE m == Cardinality(D)
<1>1. m \in Nat
  BY FS_CardinalityType
<1>2. UpTo(D, m) = SUBSET D
  BY FS_Subset DEF UpTo
<1>3. \A g : Adds(g, D, m, w, pick) <=> AddsAll(g, D, w, pick)
  BY <1>2 DEF Adds, AddsAll
<1> HIDE DEF m
<1>4. \E g : Adds(g, D, m, w, pick)
  BY <1>1, AddsExist
<1>5. ASSUME NEW g, AddsAll(g, D, w, pick) PROVE g[D] \in Nat
  <2>1. Adds(g, D, m, w, pick)
    BY <1>3, <1>5
  <2>2. \A s \in UpTo(D, m) : g[s] \in Nat
    BY <1>1, <2>1, AddsNumbers
  <2> QED
    BY <1>2, <2>2
<1> QED
  BY <1>3, <1>4, <1>5

\* The total of a rubric.
LEMMA RubricsAddUp ==
  ASSUME NEW rubric, IsFiniteSet(DOMAIN rubric), \A id \in DOMAIN rubric : rubric[id] \in Nat
  PROVE  RubricTotal(rubric) \in Nat
<1> DEFINE D == DOMAIN rubric
           OneOf(s) == CHOOSE x \in s : TRUE
           pick == [s \in SUBSET D |-> OneOf(s)]
           Total(g, s) == IF s = {} THEN 0 ELSE rubric[OneOf(s)] + g[s \ {OneOf(s)}]
           total == CHOOSE g : g = [s \in SUBSET D |-> Total(g, s)]
<1>1. \A s \in SUBSET D : s # {} => pick[s] \in s
  OBVIOUS
<1>2. \A s \in SUBSET D : pick[s] = OneOf(s)
  OBVIOUS
<1>3. RubricTotal(rubric) = total[D]
  BY DEF RubricTotal, FoldFunction, FoldFunctionOnSet, MapThenFoldSet
<1> HIDE DEF pick, OneOf
<1>4. \A g : AddsAll(g, D, rubric, pick) <=> g = [s \in SUBSET D |-> Total(g, s)]
  BY <1>2 DEF AddsAll
<1> HIDE DEF D, Total
<1>5. /\ \E g : AddsAll(g, D, rubric, pick)
      /\ \A g : AddsAll(g, D, rubric, pick) => g[D] \in Nat
  <2>1. IsFiniteSet(D) /\ \A id \in D : rubric[id] \in Nat
    BY DEF D
  <2> QED
    BY <1>1, <2>1, FoldIsNat
<1>6. total = [s \in SUBSET D |-> Total(total, s)]
  <2>1. \E g : g = [s \in SUBSET D |-> Total(g, s)]
    BY <1>4, <1>5
  <2> QED
    BY <2>1, Zenon
<1> HIDE DEF total
<1> QED
  BY <1>3, <1>4, <1>5, <1>6

\* A set of the first n numbers has a greatest one.
LEMMA GreatestExists ==
  \A n \in Nat : \A s \in SUBSET (1 .. n) : s # {} => \E x \in s : \A y \in s : x >= y
<1> DEFINE S == {n \in Nat : \A s \in SUBSET (1 .. n) :
                    s # {} => \E x \in s : \A y \in s : x >= y}
<1>1. 0 \in S
  <2>1. 1 .. 0 = {}
    OBVIOUS
  <2> QED
    BY <2>1
<1>2. ASSUME NEW n \in Nat, n \in S PROVE n + 1 \in S
  <2> SUFFICES ASSUME NEW s \in SUBSET (1 .. n + 1), s # {}
               PROVE  \E x \in s : \A y \in s : x >= y
    OBVIOUS
  <2>1. CASE n + 1 \in s
    BY <2>1
  <2>2. CASE n + 1 \notin s
    <3>1. s \in SUBSET (1 .. n)
      BY <2>2
    <3> QED
      BY <1>2, <3>1
  <2> QED
    BY <2>1, <2>2
<1> HIDE DEF S
<1>3. \A n \in Nat : n \in S
  BY <1>1, <1>2, SetInduction
<1> QED
  BY <1>3 DEF S

\* The total of the steps that a model has graded.
LEMMA CreditsAddUp ==
  ASSUME NEW rubric, \A id \in DOMAIN rubric : rubric[id] \in Nat,
         NEW steps \in Seq([item : STRING, score : Nat])
  PROVE  StepTotal(steps, rubric) \in Nat
<1> DEFINE D == DOMAIN steps
           pick == [s \in SUBSET D |-> Max(s)]
           w == [i \in D |-> Credit(steps[i], rubric)]
           Total(g, s) == IF s = {} THEN 0
                          ELSE Credit(steps[Max(s)], rubric) + g[s \ {Max(s)}]
           total == CHOOSE g : g = [s \in SUBSET D |-> Total(g, s)]
<1> DEFINE Step == [item : STRING, score : Nat]
<1>1. Len(steps) \in Nat /\ D = 1 .. Len(steps) /\ \A i \in D : steps[i] \in Step
  <2> HIDE DEF Step
  <2>1. steps \in Seq(Step)
    BY DEF Step
  <2> QED
    BY <2>1
<1>2. \A i \in D : steps[i].score \in Int
  BY <1>1
<1>3. StepTotal(steps, rubric) = total[D]
  BY DEF StepTotal, FoldLeft, MapThenFoldSet
<1> HIDE DEF D
<1>4. IsFiniteSet(D)
  BY <1>1, FS_Interval
<1>5. \A i \in D : w[i] = Credit(steps[i], rubric) /\ w[i] \in Nat
  <2> SUFFICES ASSUME NEW i \in D PROVE Credit(steps[i], rubric) \in Nat
    OBVIOUS
  <2>1. steps[i].score \in Int
    BY <1>2
  <2> QED
    BY <2>1 DEF Credit, Smaller, Larger
<1>6. ASSUME NEW s \in SUBSET D, s # {}
      PROVE  Max(s) \in s
  <2>1. \E x \in s : \A y \in s : x >= y
    BY <1>1, <1>6, GreatestExists
  <2> QED
    BY <2>1 DEF Max
<1>7. \A s \in SUBSET D : pick[s] = Max(s)
  OBVIOUS
<1> HIDE DEF pick, w
<1>8. \A g : AddsAll(g, D, w, pick) <=> g = [s \in SUBSET D |-> Total(g, s)]
  <2> SUFFICES ASSUME NEW g, NEW s \in SUBSET D
               PROVE  (IF s = {} THEN 0 ELSE w[pick[s]] + g[s \ {pick[s]}]) = Total(g, s)
    BY DEF AddsAll
  <2>1. CASE s = {}
    BY <2>1
  <2>2. CASE s # {}
    <3>1. Max(s) \in D /\ pick[s] = Max(s)
      BY <1>6, <1>7, <2>2
    <3>2. w[Max(s)] = Credit(steps[Max(s)], rubric)
      BY <1>5, <3>1
    <3> QED
      BY <2>2, <3>1, <3>2
  <2> QED
    BY <2>1, <2>2
<1> HIDE DEF Total
<1>9. /\ \E g : AddsAll(g, D, w, pick)
      /\ \A g : AddsAll(g, D, w, pick) => g[D] \in Nat
  BY <1>4, <1>5, <1>6, <1>7, FoldIsNat
<1>10. total = [s \in SUBSET D |-> Total(total, s)]
  <2>1. \E g : g = [s \in SUBSET D |-> Total(g, s)]
    BY <1>8, <1>9
  <2> QED
    BY <2>1, Zenon
<1> HIDE DEF total
<1> QED
  BY <1>3, <1>8, <1>9, <1>10

-----------------------------------------------------------------------------
(* Grading                                                                 *)

\* _finish_item, given the grade of the question that was answered.
LEMMA FinishKeeps ==
  ASSUME TrainingInv, pc \in {"evaluator", "grade"}, error = "none",
         Len(items) = index + 1, answer.of = index + 1,
         NEW grade \in [score : Nat, max : Nat, of : Nat],
         grade.of = IF HasRule(items[index + 1].question) THEN index + 1 ELSE 0,
         grade.score <= grade.max,
         grade.max = RubricTotal(items[index + 1].question.rubric),
         FinishItem(grade), trail' \in Seq(Event),
         UNCHANGED <<limit, target, hops, calls, shown, answer, found, error>>
  PROVE  TrainingInv'
<1> DEFINE graded == [items EXCEPT ![index + 1].grade = grade]
<1>1. index \in Nat /\ items \in Seq(Item) /\ target \in Nat \ {0} /\ index < target
  BY ConstantsAssumption DEF TrainingInv, Shape, Place
<1>2. items' = graded
  BY DEF FinishItem
<1>3. DOMAIN items = 1 .. index + 1 /\ items[index + 1] \in Item
  BY <1>1
<1>4. /\ items' \in Seq(Item) /\ Len(items') = index + 1
      /\ DOMAIN items' = 1 .. index + 1
      /\ items'[index + 1].grade = grade
      /\ items'[index + 1].question = items[index + 1].question
      /\ \A i \in 1 .. index : items'[i] = items[i]
  <2>1. [items[index + 1] EXCEPT !.grade = grade] \in Item
    BY <1>3 DEF Item
  <2>2. items' = [items EXCEPT ![index + 1] = [@ EXCEPT !.grade = grade]]
    BY <1>2
  <2>3. [items[index + 1] EXCEPT !.grade = grade].grade = grade
        /\ [items[index + 1] EXCEPT !.grade = grade].question = items[index + 1].question
    BY <1>3 DEF Item
  <2> QED
    BY <1>1, <1>3, <2>1, <2>2, <2>3
<1>5. GradesFit'
  <2>1. ASSUME NEW i \in 1 .. index + 1
        PROVE  /\ items'[i].grade.score <= items'[i].grade.max
               /\ items'[i].grade # Ungraded =>
                     items'[i].grade.max = RubricTotal(items'[i].question.rubric)
    <3>1. CASE i = index + 1
      BY <3>1, <1>4
    <3>2. CASE i # index + 1
      <4>1. i \in DOMAIN items /\ items'[i] = items[i]
        BY <3>2, <1>1, <1>3, <1>4
      <4> QED
        BY <4>1 DEF TrainingInv, GradesFit
    <3> QED
      BY <3>1, <3>2
  <2> QED
    BY <1>4, <2>1 DEF GradesFit
<1>6. summary = NoSummary
  BY DEF TrainingInv, Errors
<1>7. ASSUME NEW i \in 1 .. index + 1
      PROVE  /\ items'[i].grade.of = IF HasRule(items'[i].question) THEN i ELSE 0
             /\ items'[i].grade.max = RubricTotal(items'[i].question.rubric)
  <2>1. CASE i = index + 1
    BY <2>1, <1>4
  <2>2. CASE i # index + 1
    <3>1. i \in DOMAIN items /\ i <= index /\ items'[i] = items[i]
      BY <2>2, <1>1, <1>3, <1>4
    <3> QED
      BY <3>1 DEF TrainingInv, GradesInOrder
  <2> QED
    BY <2>1, <2>2
<1>8. CASE index + 1 >= target
  <2>1. /\ summary' = [score |-> TotalOf(graded, "score"),
                       max |-> TotalOf(graded, "max"), count |-> Len(graded)]
        /\ pc' = "summary" /\ index' = index /\ excluded' = excluded
    BY <1>8 DEF FinishItem
  <2>2. summary'.count = index + 1 /\ index + 1 = target
    BY <1>1, <1>2, <1>4, <1>8, <2>1
  <2>3. summary' # NoSummary
    BY <1>1, <2>2 DEF NoSummary
  <2>4. GradesInOrder'
    BY <1>4, <1>7, <2>3 DEF GradesInOrder
  <2>5. SourcesExcluded'
    BY <1>4, <2>1 DEF TrainingInv, SourcesExcluded
  <2>6. Place' /\ Errors' /\ TrainingIsTold' /\ Shape'
    BY <1>1, <1>4, <2>1, <2>2, <2>3
       DEF TrainingInv, Shape, Place, Errors, TrainingIsTold, Answering, PC
  <2> QED
    BY <1>5, <2>4, <2>5, <2>6 DEF TrainingInv
<1>9. CASE ~(index + 1 >= target)
  <2>1. /\ index' = index + 1 /\ pc' = "questioner" /\ summary' = summary
        /\ excluded' = excluded \union items[index + 1].question.sources
    BY <1>9 DEF FinishItem, SourcesUsed
  <2>2. GradesInOrder'
    BY <1>1, <1>4, <1>7, <2>1 DEF GradesInOrder
  <2>3. SourcesExcluded'
    <3>1. ASSUME NEW i \in 1 .. index'
          PROVE  items'[i].question.sources \subseteq excluded'
      <4>1. CASE i = index + 1
        BY <4>1, <1>4, <2>1
      <4>2. CASE i # index + 1
        BY <4>2, <1>1, <1>4, <2>1 DEF TrainingInv, SourcesExcluded
      <4> QED
        BY <4>1, <4>2
    <3> QED
      BY <3>1, <2>1 DEF SourcesExcluded
  <2>4. Place' /\ Errors' /\ TrainingIsTold' /\ Shape'
    BY <1>1, <1>4, <1>6, <1>9, <2>1
       DEF TrainingInv, Shape, Place, Errors, TrainingIsTold, Answering, PC
  <2> QED
    BY <1>5, <2>2, <2>3, <2>4 DEF TrainingInv
<1> QED
  BY <1>8, <1>9

LEMMA GradeByRuleKeeps == TrainingInv /\ GradeByRule => TrainingInv'
<1> SUFFICES ASSUME TrainingInv, GradeByRule PROVE TrainingInv'
  OBVIOUS
<1> USE DEF settings, counters
<1> DEFINE question == items[index + 1].question
           max_score == RubricTotal(question.rubric)
           grade == [score |-> ObjectiveScore(AnswerIsRight(question), max_score),
                     max |-> max_score, of |-> answer.of]
<1>1. pc = "evaluator" /\ EvaluatorError = "none" /\ FinishItem(grade) /\ HasRule(question)
      /\ UNCHANGED <<limit, target, hops, calls, shown, answer, found, error, trail>>
  BY DEF GradeByRule
<1>2. error = "none" /\ Len(items) = index + 1 /\ answer.of = index + 1
  BY <1>1, EvaluatorHasAnswer
<1>3. question \in Questions
  <2>1. items \in Seq(Item) /\ index \in Nat
    BY DEF TrainingInv, Shape
  <2>2. items[index + 1] \in Item
    BY <1>2, <2>1
  <2> QED
    BY <2>2 DEF Item
<1>4. max_score \in Nat
  <2> DEFINE rubric == question.rubric
  <2>1. IsFiniteSet(DOMAIN rubric) /\ \A id \in DOMAIN rubric : rubric[id] \in Nat
    BY <1>3, ConstantsAssumption
  <2> QED
    BY <2>1, RubricsAddUp
<1>5. grade.score \in Nat /\ grade.score <= grade.max
  BY <1>4 DEF ObjectiveScore
<1>6. grade \in [score : Nat, max : Nat, of : Nat] /\ grade.of = (IF HasRule(items[index + 1].question) THEN index + 1 ELSE 0)
      /\ grade.max = RubricTotal(items[index + 1].question.rubric)
  BY <1>1, <1>2, <1>4, <1>5 DEF TrainingInv, Shape
<1>7. trail' \in Seq(Event)
  BY <1>1 DEF TrainingInv, Shape
<1> HIDE DEF grade
<1> QED
  BY <1>1, <1>2, <1>5, <1>6, <1>7, FinishKeeps

LEMMA GradedKeeps ==
  ASSUME TrainingInv, NEW steps \in StepLists, Graded(steps)
  PROVE  TrainingInv'
<1> USE DEF settings, counters
<1> DEFINE rubric == items[index + 1].question.rubric
           max_total == RubricTotal(rubric)
           grade == [score |-> ValidatedScore(steps, rubric, max_total),
                     max |-> max_total, of |-> 0]
<1>1. pc = "grade" /\ FinishItem(grade)
      /\ UNCHANGED <<limit, target, hops, calls, shown, answer, found, error>>
  BY DEF Graded
<1>2. error = "none" /\ Len(items) = index + 1 /\ answer.of = index + 1
      /\ ~HasRule(items[index + 1].question)
  BY <1>1 DEF TrainingInv, Place, Errors
<1>3. items[index + 1].question \in Questions
  <2>1. items \in Seq(Item) /\ index \in Nat
    BY DEF TrainingInv, Shape
  <2>2. items[index + 1] \in Item
    BY <1>2, <2>1
  <2> QED
    BY <2>2 DEF Item
<1>4. max_total \in Nat /\ StepTotal(steps, rubric) \in Nat
  <2>1. IsFiniteSet(DOMAIN rubric) /\ \A id \in DOMAIN rubric : rubric[id] \in Nat
    BY <1>3, ConstantsAssumption
  <2>2. steps \in Seq([item : STRING, score : Nat])
    BY ConstantsAssumption
  <2> HIDE DEF rubric
  <2> QED
    BY <2>1, <2>2, RubricsAddUp, CreditsAddUp
<1>5. grade.score \in Nat /\ grade.score <= grade.max
  BY <1>4 DEF ValidatedScore, Smaller
<1>6. grade \in [score : Nat, max : Nat, of : Nat] /\ grade.of = (IF HasRule(items[index + 1].question) THEN index + 1 ELSE 0)
      /\ grade.max = RubricTotal(items[index + 1].question.rubric)
  BY <1>2, <1>4, <1>5 DEF TrainingInv, Shape
<1>7. trail' \in Seq(Event)
  <2>1. <<"summary">> \in Seq(Event) /\ <<"failed", "summary">> \in Seq(Event)
    BY DEF Event
  <2> QED
    BY <2>1 DEF Graded, TrainingInv, Shape
<1> HIDE DEF grade
<1> QED
  BY <1>1, <1>2, <1>5, <1>6, <1>7, FinishKeeps

-----------------------------------------------------------------------------
(* The end                                                                 *)

LEMMA SummariseKeeps == TrainingInv /\ Summarise => TrainingInv'
<1> SUFFICES ASSUME TrainingInv, Summarise PROVE TrainingInv'
  OBVIOUS
<1> USE DEF settings, counters, work
<1>1. pc = "summary" /\ pc' = "end" /\ trail' = Append(trail, "run.completed")
      /\ UNCHANGED <<limit, target, hops, calls, index, items, shown, excluded,
                     answer, found, summary, error>>
  BY DEF Summarise, Emit
<1>2. trail' \in Seq(Event) /\ Last(trail') = "run.completed"
  BY <1>1 DEF TrainingInv, Shape, Event, Last
<1>3. Place' /\ Errors' /\ TrainingIsTold'
  BY <1>1, <1>2 DEF TrainingInv, Place, Errors, TrainingIsTold, Answering
<1> QED
  BY <1>1, <1>2, <1>3, QuietStep DEF TrainingInv, Shape, PC

LEMMA ErrorNodeKeeps == TrainingInv /\ ErrorNode => TrainingInv'
<1> SUFFICES ASSUME TrainingInv, ErrorNode PROVE TrainingInv'
  OBVIOUS
<1> USE DEF settings, work
<1>1. pc = "error" /\ pc' = "end" /\ trail' = Append(trail, "run.failed")
      /\ hops' = hops + 1
      /\ UNCHANGED <<limit, target, calls, index, items, shown, excluded,
                     answer, found, summary, error>>
  BY DEF ErrorNode, Emit
<1>2. trail' \in Seq(Event) /\ Last(trail') = "run.failed"
  BY <1>1 DEF TrainingInv, Shape, Event, Last
<1>3. Place' /\ Errors' /\ TrainingIsTold'
  BY <1>1, <1>2 DEF TrainingInv, Place, Errors, TrainingIsTold, Answering
<1> QED
  BY <1>1, <1>2, <1>3, QuietStep DEF TrainingInv, Shape, PC

LEMMA RaisesKeeps == TrainingInv /\ Raises => TrainingInv'
<1> SUFFICES ASSUME TrainingInv, Raises PROVE TrainingInv'
  OBVIOUS
<1> USE DEF settings, counters, work
<1>1. pc' = "raised"
      /\ UNCHANGED <<limit, target, hops, calls, index, items, shown, excluded,
                     answer, found, summary, error, trail>>
  BY DEF Raises
<1>2. Place' /\ Errors' /\ TrainingIsTold'
  BY <1>1 DEF TrainingInv, Place, Errors, TrainingIsTold, Answering
<1> QED
  BY <1>1, <1>2, QuietStep DEF TrainingInv, Shape, PC

-----------------------------------------------------------------------------
(* The summary: totals of grades                                           *)

\* f[k] is the sum of a field of the first k grades, for k up to n.
Sums(f, n, graded, field) ==
    f = [k \in 0 .. n |-> IF k = 0 THEN 0 ELSE f[k - 1] + graded[k].grade[field]]

LEMMA SumsExist ==
  ASSUME NEW graded, NEW field
  PROVE  \A n \in Nat : \E f : Sums(f, n, graded, field)
<1> DEFINE S == {n \in Nat : \E f : Sums(f, n, graded, field)}
<1>1. 0 \in S
  <2>1. Sums([k \in 0 .. 0 |-> 0], 0, graded, field)
    BY DEF Sums
  <2> QED
    BY <2>1
<1>2. ASSUME NEW n \in Nat, n \in S PROVE n + 1 \in S
  <2>1. PICK f : Sums(f, n, graded, field)
    BY <1>2
  <2> DEFINE g == [k \in 0 .. n + 1 |-> IF k = n + 1 THEN f[n] + graded[n + 1].grade[field]
                                                    ELSE f[k]]
  <2>2. \A k \in 0 .. n : f[k] = IF k = 0 THEN 0 ELSE f[k - 1] + graded[k].grade[field]
    BY <2>1 DEF Sums
  <2>3. ASSUME NEW k \in 0 .. n + 1
        PROVE  g[k] = IF k = 0 THEN 0 ELSE g[k - 1] + graded[k].grade[field]
    <3>1. CASE k = n + 1
      BY <3>1
    <3>2. CASE k \in 0 .. n
      <4>1. g[k] = f[k]
        BY <3>2
      <4>2. k = 0 \/ g[k - 1] = f[k - 1]
        BY <3>2
      <4> QED
        BY <2>2, <3>2, <4>1, <4>2
    <3> QED
      BY <3>1, <3>2
  <2>4. Sums(g, n + 1, graded, field)
    <3>1. g = [k \in 0 .. n + 1 |-> g[k]]
      OBVIOUS
    <3> HIDE DEF g
    <3> QED
      BY <2>3, <3>1 DEF Sums
  <2> QED
    BY <2>4
<1> HIDE DEF S
<1>3. \A n \in Nat : n \in S
  BY <1>1, <1>2, SetInduction
<1> QED
  BY <1>3 DEF S

LEMMA TotalIsSum ==
  ASSUME NEW graded, NEW field, Len(graded) \in Nat
  PROVE  \E f : Sums(f, Len(graded), graded, field) /\ TotalOf(graded, field) = f[Len(graded)]
<1> DEFINE L == Len(graded)
           total == CHOOSE f : f = [k \in 0 .. L |->
                          IF k = 0 THEN 0 ELSE f[k - 1] + graded[k].grade[field]]
<1>1. \E f : f = [k \in 0 .. L |-> IF k = 0 THEN 0 ELSE f[k - 1] + graded[k].grade[field]]
  BY SumsExist DEF Sums
<1>2. total = [k \in 0 .. L |-> IF k = 0 THEN 0 ELSE total[k - 1] + graded[k].grade[field]]
  BY <1>1
<1>3. TotalOf(graded, field) = total[L]
  BY DEF TotalOf
<1> QED
  BY <1>2, <1>3 DEF Sums

LEMMA BothAdd ==
  ASSUME NEW a \in Nat, NEW b \in Nat, NEW c \in Nat, NEW d \in Nat, a <= b, c <= d
  PROVE  a + c <= b + d
  OBVIOUS

\* By induction on the number of grades.
LEMMA TotalsFit ==
  ASSUME NEW graded \in Seq(Item),
         \A i \in DOMAIN graded : graded[i].grade.score <= graded[i].grade.max
  PROVE  /\ TotalOf(graded, "score") \in Nat /\ TotalOf(graded, "max") \in Nat
         /\ TotalOf(graded, "score") <= TotalOf(graded, "max")
<1> DEFINE L == Len(graded)
<1>1. L \in Nat /\ DOMAIN graded = 1 .. L
  OBVIOUS
<1>2. PICK f : Sums(f, L, graded, "score") /\ TotalOf(graded, "score") = f[L]
  BY <1>1, TotalIsSum
<1>3. PICK g : Sums(g, L, graded, "max") /\ TotalOf(graded, "max") = g[L]
  BY <1>1, TotalIsSum
<1> DEFINE Fit(n) == f[n] \in Nat /\ g[n] \in Nat /\ f[n] <= g[n]
           S == {n \in Nat : n <= L => Fit(n)}
<1>4. 0 \in S
  BY <1>1, <1>2, <1>3 DEF Sums
<1>5. ASSUME NEW n \in Nat, n \in S PROVE n + 1 \in S
  <2> SUFFICES ASSUME n + 1 <= L PROVE Fit(n + 1)
    OBVIOUS
  <2>1. Fit(n) /\ n + 1 \in 1 .. L /\ n + 1 \in 0 .. L
    BY <1>1, <1>5
  <2>2. graded[n + 1] \in Item
    BY <1>1, <2>1
  <2>3. /\ graded[n + 1].grade.score \in Nat /\ graded[n + 1].grade.max \in Nat
        /\ graded[n + 1].grade.score <= graded[n + 1].grade.max
    BY <1>1, <2>1, <2>2 DEF Item
  <2>4. n + 1 # 0 /\ (n + 1) - 1 = n
    OBVIOUS
  <2>5. f[n + 1] = f[n] + graded[n + 1].grade.score
    BY <1>2, <2>1, <2>4 DEF Sums
  <2>6. g[n + 1] = g[n] + graded[n + 1].grade.max
    BY <1>3, <2>1, <2>4 DEF Sums
  <2>7. f[n] + graded[n + 1].grade.score <= g[n] + graded[n + 1].grade.max
    BY <2>1, <2>3, BothAdd
  <2>8. f[n + 1] \in Nat /\ g[n + 1] \in Nat
    BY <2>1, <2>3, <2>5, <2>6
  <2> QED
    BY <2>5, <2>6, <2>7, <2>8
<1>6. L \in S
  <2> HIDE DEF S
  <2> QED
    BY <1>1, <1>4, <1>5, SetInduction
<1> QED
  BY <1>1, <1>2, <1>3, <1>6

\* What TrainingInv leaves open of the types, and of the summary.
SummaryFits ==
    /\ summary \in [score : Nat, max : Nat, count : Nat]
    /\ summary.score <= summary.max

SourcesAreChunks == excluded \subseteq Chunks /\ found \subseteq Chunks

LEMMA FinishFits ==
  ASSUME TrainingInv, TrainingInv', SummaryFits, SourcesAreChunks, NEW grade,
         FinishItem(grade), found' = found, index + 1 \in DOMAIN items
  PROVE  SummaryFits' /\ SourcesAreChunks'
<1>1. items' = [items EXCEPT ![index + 1].grade = grade]
  BY DEF FinishItem
<1>2. CASE index + 1 >= target
  <2>1. /\ summary' = [score |-> TotalOf(items', "score"),
                       max |-> TotalOf(items', "max"), count |-> Len(items')]
        /\ excluded' = excluded
    BY <1>1, <1>2 DEF FinishItem
  <2>2. items' \in Seq(Item) /\ Len(items') \in Nat
    BY DEF TrainingInv, Shape
  <2>3. \A i \in DOMAIN items' : items'[i].grade.score <= items'[i].grade.max
    BY DEF TrainingInv, GradesFit
  <2>4. /\ TotalOf(items', "score") \in Nat /\ TotalOf(items', "max") \in Nat
        /\ TotalOf(items', "score") <= TotalOf(items', "max")
    BY <2>2, <2>3, TotalsFit
  <2> QED
    BY <2>1, <2>2, <2>4 DEF SummaryFits, SourcesAreChunks
<1>3. CASE ~(index + 1 >= target)
  <2>1. summary' = summary /\ excluded' = excluded \union items[index + 1].question.sources
    BY <1>3 DEF FinishItem, SourcesUsed
  <2>2. items[index + 1] \in Item
    BY DEF TrainingInv, Shape
  <2>3. items[index + 1].question \in Questions
    BY <2>2 DEF Item
  <2>4. items[index + 1].question.sources \subseteq Chunks
    BY <2>3, ConstantsAssumption
  <2> QED
    BY <2>1, <2>4 DEF SummaryFits, SourcesAreChunks
<1> QED
  BY <1>2, <1>3

LEMMA SummaryStep ==
  ASSUME TrainingInv, TrainingInv', SummaryFits, SourcesAreChunks, [Next]_vars
  PROVE  SummaryFits' /\ SourcesAreChunks'
<1> USE DEF settings, counters, work
<1>1. CASE UNCHANGED <<summary, excluded, found>>
  BY <1>1 DEF SummaryFits, SourcesAreChunks
<1>2. CASE Coordinator
  BY <1>2 DEF Coordinator, SummaryFits, SourcesAreChunks
<1>3. ASSUME NEW candidates \in SUBSET Chunks, Retrieve(candidates)
      PROVE  SummaryFits' /\ SourcesAreChunks'
  BY <1>3 DEF Retrieve, SummaryFits, SourcesAreChunks
<1>4. ASSUME GradeByRule PROVE SummaryFits' /\ SourcesAreChunks'
  <2>1. PICK grade : FinishItem(grade)
    BY <1>4 DEF GradeByRule
  <2>2. index + 1 \in DOMAIN items /\ found' = found
    BY <1>4 DEF GradeByRule, EvaluatorError
  <2> QED
    BY <2>1, <2>2, FinishFits
<1>5. ASSUME NEW steps \in StepLists, Graded(steps) PROVE SummaryFits' /\ SourcesAreChunks'
  <2>1. PICK grade : FinishItem(grade)
    BY <1>5 DEF Graded
  <2>2. index + 1 \in DOMAIN items /\ found' = found
    BY <1>5 DEF Graded, TrainingInv, Shape, Place
  <2> QED
    BY <2>1, <2>2, FinishFits
<1>6. ASSUME \/ CoordinatorStops \/ QuestionerStops \/ Interrupt \/ EvaluatorStops
             \/ AskGrader \/ Summarise \/ ErrorNode \/ Raises
             \/ \E text \in Answers : Resume(text)
             \/ \E question \in Questions, confident \in BOOLEAN : Generated(question, confident)
             \/ UNCHANGED vars
      PROVE  UNCHANGED <<summary, excluded, found>>
  BY <1>6 DEF CoordinatorStops, QuestionerStops, Interrupt, EvaluatorStops, AskGrader,
     Summarise, ErrorNode, Raises, Resume, Generated, Fail, vars
<1> QED
  BY <1>1, <1>2, <1>3, <1>4, <1>5, <1>6 DEF Next, GraphStep

-----------------------------------------------------------------------------

\* One question at a time is asked, answered and graded, from the coordinator to
\* the end, whatever the models, the student and the limits do.
THEOREM TrainingsGoOn == Spec => []TrainingInv
<1>1. Init => TrainingInv
  BY TrainingInit
<1>2. TrainingInv /\ [Next]_vars => TrainingInv'
  <2> SUFFICES ASSUME TrainingInv, [Next]_vars PROVE TrainingInv'
    OBVIOUS
  <2> QED
    BY StutterKeeps, CoordinatorStopsKeeps, CoordinatorKeeps, QuestionerStopsKeeps,
       RetrieveKeeps, GeneratedKeeps, StudentKeeps, EvaluatorStopsKeeps,
       AskGraderKeeps, GradeByRuleKeeps, GradedKeeps, SummariseKeeps,
       ErrorNodeKeeps, RaisesKeeps DEF Next, GraphStep
<1> QED
  BY <1>1, <1>2, PTL DEF Spec

\* Choices and blanks are graded by the answer that was given to them, and every
\* question in its turn against its own rubric.
THEOREM RulesReadAnswers == Spec => []RulesReadTheRightAnswer
<1>1. TrainingInv => RulesReadTheRightAnswer
  BY DEF TrainingInv, GradesInOrder, Place, Answering, RulesReadTheRightAnswer, Finished
<1> QED
  BY <1>1, TrainingsGoOn, PTL

\* What a question is generated from shares no chunk with earlier questions.
THEOREM SourcesAreFresh == Spec => []NoSourceTwice
<1>1. ASSUME TrainingInv PROVE NoSourceTwice
  <2> SUFFICES ASSUME pc = "generate", NEW i \in DOMAIN items
               PROVE  found \intersect items[i].question.sources = {}
    BY DEF NoSourceTwice
  <2>1. i \in 1 .. index
    BY <1>1 DEF TrainingInv, Shape, Place
  <2> QED
    BY <1>1, <2>1 DEF TrainingInv, SourcesExcluded
<1> QED
  BY <1>1, TrainingsGoOn, PTL

LEMMA SummaryHolds == Spec => [](TrainingInv /\ SummaryFits /\ SourcesAreChunks)
<1>1. Init => SummaryFits /\ SourcesAreChunks
  BY DEF Init, SummaryFits, SourcesAreChunks, NoSummary
<1>2. /\ TrainingInv /\ TrainingInv' /\ SummaryFits /\ SourcesAreChunks /\ [Next]_vars
      => SummaryFits' /\ SourcesAreChunks'
  BY SummaryStep
<1> QED
  BY <1>1, <1>2, TrainingsGoOn, PTL DEF Spec

\* The summary is over exactly the questions that were asked for, each graded
\* within its marks, and the end that is published is the one that is true.
THEOREM TrainingsAreTold == Spec => []SummaryIsComplete
<1>1. TrainingInv /\ SummaryFits => SummaryIsComplete
  BY DEF TrainingInv, SummaryFits, SummaryIsComplete
<1> QED
  BY <1>1, SummaryHolds, PTL

\* Every variable keeps its type.
THEOREM TrainingTypes == Spec => []TypeOK
<1>1. TrainingInv /\ SummaryFits /\ SourcesAreChunks => TypeOK
  BY DEF TrainingInv, Shape, SummaryFits, SourcesAreChunks, TypeOK
<1> QED
  BY <1>1, SummaryHolds, PTL

=============================================================================
