--------------------------- MODULE GradingProofs ----------------------------
(***************************************************************************)
(* Theorems about Grading, for any items, keys, requests and judgements.   *)
(***************************************************************************)
EXTENDS Grading, FiniteSetTheorems, SequenceTheorems, TLAPS

\* The stages at which a request has an uncommitted record of its key, and an
\* uncommitted submission of its item.
HasKey == {"keyed", "ungraded", "submitted", "judged", "missing", "updating"}

HasItem == {"submitted", "judged", "missing", "updating"}

\* A lock belongs to a request under way, at a stage that needs it ...
LocksFit ==
    /\ \A k \in Keys : keyOf[k] # Nobody =>
          pc[keyOf[k]] \in HasKey /\ req[keyOf[k]].key = k
    /\ \A i \in Items : itemOf[i] # Nobody =>
          pc[itemOf[i]] \in HasItem /\ req[itemOf[i]].item = i
    /\ masteryOf # Nobody => pc[masteryOf] = "updating"

\* ... and what a request has read stays true while it holds it.
RequestFits(q) ==
    /\ pc[q] # "idle" => req[q].item \in Items /\ req[q].key \in Keys
    /\ pc[q] \in HasKey => keyOf[req[q].key] = q /\ idem[req[q].key] = Nobody
    /\ pc[q] = "ungraded" => req[q].attempt = 1
    /\ pc[q] \in HasItem => itemOf[req[q].item] = q /\ grades[req[q].item] = <<>>
    /\ pc[q] \in {"judged", "missing", "updating"} => req[q].judgement \in Judgements
    /\ pc[q] = "missing" => req[q].mastery = NoMastery
    /\ pc[q] = "updating" => masteryOf = q /\ req[q].mastery = mastery
    /\ pc[q] = "graded" => grades[req[q].item] # <<>>

\* One completed record for each grade, one grade for each item
GradesFit ==
    /\ \A k \in Keys : idem[k] # Nobody => grades[idem[k]] # <<>>
    /\ \A k, l \in Keys : idem[k] = idem[l] /\ idem[k] # Nobody => k = l
    /\ \A i \in Items : grades[i] # <<>> => \E k \in Keys : idem[k] = i
    /\ \A i \in Items : Len(grades[i]) <= 1
    /\ \A i \in reported : grades[i] # <<>>

GradingInv ==
    /\ TypeOK
    /\ LocksFit
    /\ \A q \in Requests : RequestFits(q)
    /\ GradesFit
    /\ ~mastery.exists => mastery = NoMastery
    /\ LevelsAreChained

-----------------------------------------------------------------------------
(* The rules                                                               *)

LEMMA TenthIsNumber ==
  ASSUME NEW n \in Int PROVE n \div 10 \in Int
OBVIOUS

LEMMA ClampedIsLevel ==
  ASSUME NEW n \in Int PROVE Clamp(0, 10000, n) \in Level
<1>1. CASE n < 0
  BY <1>1 DEF Clamp, Level
<1>2. CASE n > 10000
  BY <1>2 DEF Clamp, Level
<1>3. CASE n \in 0 .. 10000
  BY <1>3 DEF Clamp, Level
<1> QED
  BY <1>1, <1>2, <1>3

LEMMA LevelIsLevel ==
  ASSUME NEW old \in Level, NEW ratio \in Ratio
  PROVE  ComputeMastery(old, ratio) \in Level
<1>1. 7 * old + 300 * ratio + 5 \in Int
  BY DEF Level, Ratio
<1>2. (7 * old + 300 * ratio + 5) \div 10 \in Int
  BY <1>1, TenthIsNumber
<1> QED
  BY <1>2, ClampedIsLevel DEF ComputeMastery

LEMMA UpdatedIsMastery ==
  ASSUME NEW m \in Mastery, NEW j \in Judgements
  PROVE  Updated(m, j) \in Mastery /\ Updated(m, j).exists
<1>1. j.ratio \in Ratio
  BY GradingAssumption
<1>2. ComputeMastery(m.level, j.ratio) \in Level
  BY <1>1, LevelIsLevel DEF Mastery
<1>3. ComputeStreakUpdate(Good(j), m.streak) \in Nat
  BY DEF ComputeStreakUpdate, Mastery
<1>4. [m EXCEPT !.exists = TRUE] \in Mastery /\ [m EXCEPT !.exists = TRUE].exists
  BY DEF Mastery
<1> QED
  BY <1>2, <1>3, <1>4 DEF Updated, Mastery

\* What a grade appends to the log: the change, then repetitions of its level.
LEMMA EntriesChain ==
  ASSUME NEW i \in Items, NEW a \in Level, NEW b \in Level, NEW j,
         NEW e, e = Entries(i, a, b, j)
  PROVE  /\ e \in Seq(Entry) /\ Len(e) \in 1 .. 3
         /\ e[1].kind = "grade" /\ e[1].item = i /\ e[1].before = a /\ e[1].after = b
         /\ \A n \in 2 .. Len(e) :
               e[n].kind # "grade" /\ e[n].before = b /\ e[n].after = b
<1> DEFINE entry(kind, from) == [kind |-> kind, item |-> i, before |-> from, after |-> b]
           g == entry("grade", a)
           d == entry("difficulty", b)
           m == entry("mastered", b)
<1>1. g \in Entry /\ d \in Entry /\ m \in Entry
  BY DEF Entry
<1>2. /\ g.kind = "grade" /\ g.item = i /\ g.before = a /\ g.after = b
      /\ d.kind # "grade" /\ d.before = b /\ d.after = b
      /\ m.kind # "grade" /\ m.before = b /\ m.after = b
  OBVIOUS
<1>3. PICK s, t : /\ e = <<g>> \o s \o t
                  /\ s \in {<<>>, <<d>>} /\ t \in {<<>>, <<m>>}
  <2> DEFINE recent == RecentRatios(j.ratio)
             good == [n \in DOMAIN recent |-> recent[n] >= MASTERED_THRESHOLD]
             harder == Gradable(j) /\ ComputeDifficultyAdjustment(recent, 2) # 2
             mastered == Gradable(j) /\ ComputeMasteryStatus(good) = "mastered"
  <2>1. e = <<g>> \o (IF harder THEN <<d>> ELSE <<>>) \o (IF mastered THEN <<m>> ELSE <<>>)
    BY Zenon DEF Entries
  <2> HIDE DEF harder, mastered, g, d, m
  <2> QED
    BY <2>1, Zenon
<1> HIDE DEF g, d, m
<1>4. /\ s \in Seq(Entry) /\ Len(s) \in 0 .. 1 /\ \A n \in 1 .. Len(s) : s[n] = d
      /\ t \in Seq(Entry) /\ Len(t) \in 0 .. 1 /\ \A n \in 1 .. Len(t) : t[n] = m
  <2>1. ASSUME NEW x \in Entry, NEW r \in {<<>>, <<x>>}
        PROVE  r \in Seq(Entry) /\ Len(r) \in 0 .. 1 /\ \A n \in 1 .. Len(r) : r[n] = x
    <3>1. CASE r = <<>>
      BY <3>1
    <3>2. CASE r = <<x>>
      BY <3>2
    <3> QED
      BY <3>1, <3>2
  <2> QED
    BY <1>1, <1>3, <2>1
<1>5. /\ <<g>> \o s \in Seq(Entry) /\ Len(<<g>> \o s) = 1 + Len(s)
      /\ (<<g>> \o s)[1] = g /\ \A n \in 2 .. 1 + Len(s) : (<<g>> \o s)[n] = d
  <2>1. <<g>> \in Seq(Entry) /\ Len(<<g>>) = 1 /\ <<g>>[1] = g
    BY <1>1
  <2> QED
    BY <1>4, <2>1
<1>6. /\ e \in Seq(Entry) /\ Len(e) = 1 + Len(s) + Len(t) /\ e[1] = g
      /\ \A n \in 2 .. Len(e) : e[n] \in {d, m}
  BY <1>3, <1>4, <1>5
<1> QED
  BY <1>2, <1>4, <1>6

-----------------------------------------------------------------------------
(* The invariant, action by action                                         *)

LEMMA RequestTypes ==
    /\ NoRequest \in Request
    /\ \A r \in Request, i \in Items, k \in Keys : [r EXCEPT !.item = i, !.key = k] \in Request
    /\ \A r \in Request, i \in Items : [r EXCEPT !.item = i] \in Request
    /\ \A r \in Request, n \in Nat : [r EXCEPT !.attempt = n] \in Request
    /\ \A r \in Request, j \in Judgements : [r EXCEPT !.judgement = j] \in Request
    /\ \A r \in Request, m \in Mastery : [r EXCEPT !.mastery = m] \in Request
<1>1. NoMastery \in Mastery
  BY DEF Mastery, NoMastery, DefaultLevel, Level
<1>2. NoRequest \in Request
  BY <1>1 DEF NoRequest, Request
<1> QED
  BY <1>2 DEF Request

LEMMA GradingInit == Init => GradingInv
<1> SUFFICES ASSUME Init PROVE GradingInv
  OBVIOUS
<1>1. TypeOK
  <2>1. mastery \in Mastery
    BY DEF Init, NoMastery, DefaultLevel, Mastery, Level
  <2>2. req \in [Requests -> Request]
    BY RequestTypes DEF Init
  <2>3. grades \in [Items -> Seq(Judgements)] /\ log \in Seq(Entry)
    BY DEF Init
  <2> QED
    BY <2>1, <2>2, <2>3 DEF Init, TypeOK
<1>2. LocksFit /\ GradesFit
  BY DEF Init, LocksFit, GradesFit
<1>3. \A q \in Requests : RequestFits(q)
  BY DEF Init, RequestFits, HasKey, HasItem
<1>4. LevelsAreChained /\ (~mastery.exists => mastery = NoMastery)
  BY DEF Init, LevelsAreChained, NoMastery
<1> QED
  BY <1>1, <1>2, <1>3, <1>4 DEF GradingInv

\* Steps that write no row and take no lock
LEMMA ReadingKeeps ==
  ASSUME GradingInv, NEW q \in Requests,
         \/ \E i \in Items, k \in Keys : Submit(q, i, k)
         \/ CheckKey(q) \/ CheckItem(q) \/ \E j \in Judgements : Judge(q, j)
  PROVE  GradingInv'
<1> USE DEF GradingInv, records, locks, Goes
<1>1. /\ UNCHANGED <<idem, grades, mastery, log, wrong, reported, keyOf, itemOf, masteryOf>>
      /\ pc \in [Requests -> {"idle", "asked", "checked", "keyed", "ungraded",
                  "submitted", "judged", "missing", "updating", "graded"}]
      /\ req \in [Requests -> Request]
  BY DEF Submit, CheckKey, CheckItem, Judge, TypeOK
<1>2. LevelsAreChained' /\ GradesFit' /\ (~mastery'.exists => mastery' = NoMastery)
  BY <1>1 DEF LevelsAreChained, GradesFit
<1>3. CASE \E i \in Items, k \in Keys : Submit(q, i, k)
  <2>1. PICK i \in Items, k \in Keys : Submit(q, i, k)
    BY <1>3
  <2>2. /\ [req[q] EXCEPT !.item = i, !.key = k] \in Request
        /\ req' = [req EXCEPT ![q] = [req[q] EXCEPT !.item = i, !.key = k]]
        /\ pc[q] = "idle" /\ pc' = [pc EXCEPT ![q] = "asked"]
    BY <1>1, <2>1, RequestTypes DEF Submit
  <2>3. req'[q].item = i /\ req'[q].key = k
    BY <1>1, <2>2 DEF Request
  <2>4. TypeOK'
    BY <1>1, <2>2 DEF TypeOK
  <2>5. LocksFit'
    BY <1>1, <2>2 DEF LocksFit, TypeOK, HasKey, HasItem
  <2>6. \A r \in Requests : RequestFits(r)'
    BY <1>1, <2>2, <2>3 DEF RequestFits, HasKey, HasItem
  <2> QED
    BY <1>2, <2>4, <2>5, <2>6
<1>4. CASE CheckKey(q)
  <2> DEFINE i == idem[req[q].key]
  <2>1. CASE i = Nobody
    <3>1. pc[q] = "asked" /\ pc' = [pc EXCEPT ![q] = "checked"] /\ req' = req
      BY <1>4, <2>1 DEF CheckKey
    <3>2. TypeOK' /\ LocksFit'
      BY <1>1, <3>1 DEF TypeOK, LocksFit, HasKey, HasItem
    <3>3. \A r \in Requests : RequestFits(r)'
      BY <1>1, <3>1 DEF RequestFits, HasKey, HasItem
    <3> QED
      BY <1>2, <3>2, <3>3
  <2>2. CASE i # Nobody
    <3>1. pc[q] = "asked" /\ pc' = [pc EXCEPT ![q] = "graded"] /\ req[q].key \in Keys
          /\ req' = [req EXCEPT ![q] = [req[q] EXCEPT !.item = i]]
      BY <1>4, <2>2 DEF CheckKey, RequestFits
    <3>2. i \in Items /\ grades[i] # <<>>
      BY <2>2, <3>1 DEF GradesFit, TypeOK
    <3>3. [req[q] EXCEPT !.item = i] \in Request
      BY <1>1, <3>2, RequestTypes
    <3>4. req'[q].item = i /\ req'[q].key = req[q].key
      BY <1>1, <3>1 DEF Request
    <3>5. TypeOK' /\ LocksFit'
      BY <1>1, <3>1, <3>3 DEF TypeOK, LocksFit, HasKey, HasItem
    <3>6. \A r \in Requests : RequestFits(r)'
      BY <1>1, <3>1, <3>2, <3>4 DEF RequestFits, HasKey, HasItem
    <3> QED
      BY <1>2, <3>5, <3>6
  <2> QED
    BY <2>1, <2>2
<1>5. CASE CheckItem(q)
  <2>1. /\ pc[q] = "keyed" /\ pc' = [pc EXCEPT ![q] = "ungraded"]
        /\ req' = [req EXCEPT ![q] = [req[q] EXCEPT !.attempt = 1]]
    BY <1>5 DEF CheckItem
  <2>2. /\ [req[q] EXCEPT !.attempt = 1] \in Request
        /\ req'[q].attempt = 1 /\ req'[q].item = req[q].item /\ req'[q].key = req[q].key
    <3>1. req[q] \in Request /\ req'[q] = [req[q] EXCEPT !.attempt = 1]
      BY <1>1, <2>1 DEF TypeOK
    <3>2. [req[q] EXCEPT !.attempt = 1] \in Request
      BY <3>1, RequestTypes
    <3> QED
      BY <3>1, <3>2 DEF Request
  <2>3. TypeOK'
    BY <1>1, <2>1, <2>2 DEF TypeOK
  <2>4. LocksFit'
    BY <1>1, <2>1, <2>2 DEF TypeOK, LocksFit, HasKey, HasItem
  <2>5. \A r \in Requests : RequestFits(r)'
    BY <1>1, <2>1, <2>2 DEF RequestFits, HasKey, HasItem
  <2> QED
    BY <1>2, <2>3, <2>4, <2>5
<1>6. CASE \E j \in Judgements : Judge(q, j)
  <2>1. PICK j \in Judgements : Judge(q, j)
    BY <1>6
  <2>2. /\ pc[q] = "submitted" /\ pc' = [pc EXCEPT ![q] = "judged"]
        /\ req' = [req EXCEPT ![q] = [req[q] EXCEPT !.judgement = j]]
    BY <2>1 DEF Judge
  <2>3. /\ [req[q] EXCEPT !.judgement = j] \in Request
        /\ req'[q].judgement = j /\ req'[q].item = req[q].item /\ req'[q].key = req[q].key
    BY <1>1, <2>2, RequestTypes DEF Request
  <2>4. TypeOK'
    BY <1>1, <2>2, <2>3 DEF TypeOK
  <2>5. LocksFit'
    BY <1>1, <2>2, <2>3 DEF TypeOK, LocksFit, HasKey, HasItem
  <2>6. \A r \in Requests : RequestFits(r)'
    BY <1>1, <2>2, <2>3 DEF RequestFits, HasKey, HasItem
  <2> QED
    BY <1>2, <2>4, <2>5, <2>6
<1> QED
  BY <1>3, <1>4, <1>5, <1>6

\* INSERTs and the SELECT ... FOR UPDATE
LEMMA LockingKeeps ==
  ASSUME GradingInv, NEW q \in Requests,
         InsertKey(q) \/ InsertSubmission(q) \/ SelectMastery(q) \/ InsertMastery(q)
  PROVE  GradingInv'
<1> USE DEF GradingInv, records, locks, Goes
<1>1. /\ UNCHANGED <<idem, grades, mastery, log, wrong, reported>>
      /\ pc \in [Requests -> {"idle", "asked", "checked", "keyed", "ungraded",
                  "submitted", "judged", "missing", "updating", "graded"}]
      /\ req \in [Requests -> Request]
      /\ keyOf \in [Keys -> Requests \union {Nobody}]
      /\ itemOf \in [Items -> Requests \union {Nobody}]
      /\ Nobody \notin Requests
  BY GradingAssumption DEF InsertKey, InsertSubmission, SelectMastery, InsertMastery, TypeOK
<1>2. LevelsAreChained' /\ GradesFit' /\ (~mastery'.exists => mastery' = NoMastery)
  BY <1>1 DEF LevelsAreChained, GradesFit
<1>3. CASE InsertKey(q)
  <2>1. /\ pc[q] = "checked" /\ pc' = [pc EXCEPT ![q] = "keyed"]
        /\ req[q].key \in Keys /\ keyOf[req[q].key] = Nobody /\ idem[req[q].key] = Nobody
        /\ keyOf' = [keyOf EXCEPT ![req[q].key] = q]
        /\ UNCHANGED <<itemOf, masteryOf, req>>
    BY <1>3 DEF InsertKey, RequestFits
  <2>2. TypeOK'
    BY <1>1, <2>1 DEF TypeOK
  <2>3. LocksFit'
    BY <1>1, <2>1 DEF TypeOK, LocksFit, HasKey, HasItem
  <2>4. \A r \in Requests : RequestFits(r)'
    BY <1>1, <2>1 DEF RequestFits, HasKey, HasItem
  <2> QED
    BY <1>2, <2>2, <2>3, <2>4
<1>4. CASE InsertSubmission(q)
  <2>1. /\ pc[q] = "ungraded" /\ pc' = [pc EXCEPT ![q] = "submitted"]
        /\ req[q].item \in Items /\ itemOf[req[q].item] = Nobody
        /\ Len(grades[req[q].item]) < 1
        /\ itemOf' = [itemOf EXCEPT ![req[q].item] = q]
        /\ UNCHANGED <<keyOf, masteryOf, req>>
    BY <1>4 DEF InsertSubmission, RequestFits
  <2>2. grades[req[q].item] = <<>>
    BY <2>1 DEF TypeOK
  <2>3. TypeOK'
    BY <1>1, <2>1 DEF TypeOK
  <2>4. LocksFit'
    BY <1>1, <2>1 DEF TypeOK, LocksFit, HasKey, HasItem
  <2>5. \A r \in Requests : RequestFits(r)'
    BY <1>1, <2>1, <2>2 DEF RequestFits, HasKey, HasItem
  <2> QED
    BY <1>2, <2>3, <2>4, <2>5
<1>5. CASE SelectMastery(q)
  <2>1. /\ pc[q] = "judged"
        /\ \/ /\ masteryOf = Nobody /\ masteryOf' = q
              /\ pc' = [pc EXCEPT ![q] = "updating"]
           \/ /\ ~mastery.exists /\ masteryOf' = masteryOf
              /\ pc' = [pc EXCEPT ![q] = "missing"]
        /\ req' = [req EXCEPT ![q] = [req[q] EXCEPT !.mastery = mastery]]
        /\ UNCHANGED <<keyOf, itemOf>>
    BY <1>5 DEF SelectMastery
  <2>2. /\ [req[q] EXCEPT !.mastery = mastery] \in Request
        /\ req'[q].mastery = mastery /\ req'[q].judgement = req[q].judgement
        /\ req'[q].item = req[q].item /\ req'[q].key = req[q].key
    <3>1. /\ mastery \in Mastery /\ req[q] \in Request
          /\ req'[q] = [req[q] EXCEPT !.mastery = mastery]
      BY <1>1, <2>1 DEF TypeOK
    <3>2. [req[q] EXCEPT !.mastery = mastery] \in Request
      BY <3>1, RequestTypes
    <3> QED
      BY <3>1, <3>2 DEF Request
  <2>3. TypeOK'
    BY <1>1, <2>1, <2>2 DEF TypeOK
  <2>4. LocksFit'
    BY <1>1, <2>1, <2>2 DEF TypeOK, LocksFit, HasKey, HasItem
  <2>5. \A r \in Requests : RequestFits(r)'
    BY <1>1, <2>1, <2>2 DEF RequestFits, HasKey, HasItem
  <2> QED
    BY <1>2, <2>3, <2>4, <2>5
<1>6. CASE InsertMastery(q)
  <2>1. /\ pc[q] = "missing" /\ pc' = [pc EXCEPT ![q] = "updating"]
        /\ masteryOf = Nobody /\ masteryOf' = q /\ ~mastery.exists
        /\ UNCHANGED <<keyOf, itemOf, req>>
    BY <1>6 DEF InsertMastery
  <2>2. TypeOK'
    BY <1>1, <2>1 DEF TypeOK
  <2>3. LocksFit'
    BY <1>1, <2>1 DEF TypeOK, LocksFit, HasKey, HasItem
  <2>4. \A r \in Requests : RequestFits(r)'
    BY <1>1, <2>1 DEF RequestFits, HasKey, HasItem
  <2> QED
    BY <1>2, <2>2, <2>3, <2>4
<1> QED
  BY <1>3, <1>4, <1>5, <1>6

\* The chain of levels goes on with the level of the row.
LEMMA ChainGrows ==
  ASSUME log \in Seq(Entry), LevelsAreChained, NEW i \in Items, NEW j, NEW b \in Level,
         mastery.level \in Level, mastery'.level = b,
         log' = log \o Entries(i, mastery.level, b, j)
  PROVE  log' \in Seq(Entry) /\ LevelsAreChained'
<1> DEFINE a == mastery.level
           e == Entries(i, a, b, j)
           n == Len(log)
<1>1. /\ e \in Seq(Entry) /\ Len(e) \in 1 .. 3
      /\ e[1].kind = "grade" /\ e[1].before = a /\ e[1].after = b
      /\ \A k \in 2 .. Len(e) : e[k].kind # "grade" /\ e[k].before = b /\ e[k].after = b
  <2>1. a \in Level /\ e = Entries(i, a, b, j)
    OBVIOUS
  <2> HIDE DEF a, e
  <2>2. e \in Seq(Entry) /\ Len(e) \in 1 .. 3
    BY <2>1, EntriesChain
  <2>3. e[1].kind = "grade" /\ e[1].before = a /\ e[1].after = b
    BY <2>1, EntriesChain
  <2>4. ASSUME NEW k \in 2 .. Len(e)
        PROVE  e[k].kind # "grade" /\ e[k].before = b /\ e[k].after = b
    BY <2>1, EntriesChain
  <2> QED
    BY <2>2, <2>3, <2>4
<1>2. log' = log \o e
  OBVIOUS
<1> HIDE DEF e
<1>3. /\ log' \in Seq(Entry) /\ n \in Nat /\ Len(log') = n + Len(e)
      /\ \A m \in 1 .. n : log'[m] = log[m]
      /\ \A k \in 1 .. Len(e) : log'[n + k] = e[k]
  BY <1>1, <1>2
<1>4. ASSUME NEW m \in DOMAIN log'
      PROVE  log'[m].before = CASE log'[m].kind # "grade" -> log'[m].after
                                [] m = 1 -> DefaultLevel
                                [] OTHER -> log'[m - 1].after
  <2>1. CASE m \in 1 .. n
    <3>1. log'[m] = log[m] /\ (m # 1 => log'[m - 1] = log[m - 1])
      BY <1>3, <2>1
    <3>2. log[m].before = CASE log[m].kind # "grade" -> log[m].after
                            [] m = 1 -> DefaultLevel
                            [] OTHER -> log[m - 1].after
      BY <2>1 DEF LevelsAreChained
    <3> QED
      BY <3>1, <3>2
  <2>2. CASE m = n + 1
    <3>1. log'[m] = e[1]
      BY <1>1, <1>3, <2>2
    <3>2. CASE n = 0
      <4>1. a = DefaultLevel /\ m = 1
        BY <2>2, <3>2 DEF LevelsAreChained
      <4> QED
        BY <1>1, <3>1, <4>1
    <3>3. CASE n # 0
      <4>1. log # <<>> /\ m # 1 /\ log'[m - 1] = log[n]
        BY <1>3, <2>2, <3>3
      <4>2. a = log[n].after
        BY <4>1 DEF LevelsAreChained, Last
      <4> QED
        BY <1>1, <3>1, <4>1, <4>2
    <3> QED
      BY <3>2, <3>3
  <2>3. CASE m \notin 1 .. n + 1
    <3>1. m - n \in 2 .. Len(e) /\ m = n + (m - n)
      BY <1>1, <1>3, <2>3
    <3>2. log'[m] = e[m - n]
      BY <1>3, <3>1
    <3> QED
      BY <1>1, <3>1, <3>2
  <2> QED
    BY <2>1, <2>2, <2>3
<1>5. log' # <<>> /\ Last(log').after = b
  <2>1. log' # <<>> /\ Last(log') = e[Len(e)]
    BY <1>1, <1>3 DEF Last
  <2>2. e[Len(e)].after = b
    BY <1>1
  <2> QED
    BY <2>1, <2>2
<1> QED
  BY <1>3, <1>4, <1>5 DEF LevelsAreChained

LEMMA CommitKeeps ==
  ASSUME GradingInv, NEW q \in Requests, CommitGrade(q)
  PROVE  GradingInv'
<1> USE DEF GradingInv, records, locks, Goes
<1> DEFINE i == req[q].item
           j == req[q].judgement
           k == req[q].key
           new == Updated(mastery, j)
<1>1. /\ pc \in [Requests -> {"idle", "asked", "checked", "keyed", "ungraded",
                  "submitted", "judged", "missing", "updating", "graded"}]
      /\ pc[q] = "updating" /\ pc' = [pc EXCEPT ![q] = "graded"]
      /\ Nobody \notin Requests /\ Nobody \notin Items
      /\ mastery \in Mastery
      /\ UNCHANGED <<reported, req>>
  BY GradingAssumption DEF CommitGrade, TypeOK
<1>2. /\ i \in Items /\ k \in Keys /\ j \in Judgements /\ req[q].mastery = mastery
      /\ keyOf[k] = q /\ idem[k] = Nobody /\ itemOf[i] = q /\ grades[i] = <<>>
      /\ masteryOf = q
  BY <1>1 DEF RequestFits, HasKey, HasItem
<1>3. /\ grades' = [grades EXCEPT ![i] = <<j>>]
      /\ mastery' = new
      /\ log' = log \o Entries(i, mastery.level, new.level, j)
      /\ wrong' \in SUBSET Items
      /\ idem' = [idem EXCEPT ![k] = i]
      /\ keyOf' = [l \in Keys |-> IF keyOf[l] = q THEN Nobody ELSE keyOf[l]]
      /\ itemOf' = [l \in Items |-> IF itemOf[l] = q THEN Nobody ELSE itemOf[l]]
      /\ masteryOf' = Nobody
  <2>1. Append(grades[i], j) = <<j>>
    BY <1>2
  <2> QED
    BY <1>2, <2>1 DEF CommitGrade, ReleaseAll, TypeOK
<1>4. new \in Mastery /\ new.exists
  BY <1>1, <1>2, UpdatedIsMastery
<1> HIDE DEF new
<1>5. log' \in Seq(Entry) /\ LevelsAreChained'
  <2>1. mastery.level \in Level /\ new.level \in Level
    BY <1>1, <1>4 DEF Mastery
  <2>2. log \in Seq(Entry) /\ mastery'.level = new.level
    BY <1>3 DEF TypeOK
  <2> QED
    BY <1>2, <1>3, <2>1, <2>2, ChainGrows
<1>6. TypeOK'
  <2>1. /\ idem' \in [Keys -> Items \union {Nobody}]
        /\ grades' \in [Items -> Seq(Judgements)]
    BY <1>2, <1>3 DEF TypeOK
  <2>2. /\ keyOf' \in [Keys -> Requests \union {Nobody}]
        /\ itemOf' \in [Items -> Requests \union {Nobody}]
    BY <1>3 DEF TypeOK
  <2> QED
    BY <1>1, <1>3, <1>4, <1>5, <2>1, <2>2 DEF TypeOK
<1>7. LocksFit'
  BY <1>1, <1>3 DEF LocksFit, TypeOK, HasKey, HasItem
<1>8. ASSUME NEW r \in Requests PROVE RequestFits(r)'
  <2>1. CASE r = q
    BY <1>1, <1>2, <1>3, <2>1 DEF RequestFits, HasKey, HasItem, TypeOK
  <2>2. CASE r # q
    <3>1. pc'[r] = pc[r] /\ req' = req /\ RequestFits(r)
      BY <1>1, <2>2
    <3>2. pc[r] \in HasKey => keyOf'[req[r].key] = r /\ idem'[req[r].key] = Nobody
      <4>1. SUFFICES ASSUME pc[r] \in HasKey
                     PROVE  keyOf'[req[r].key] = r /\ idem'[req[r].key] = Nobody
        OBVIOUS
      <4>2. req[r].key \in Keys /\ keyOf[req[r].key] = r /\ idem[req[r].key] = Nobody
        BY <3>1, <4>1 DEF RequestFits, HasKey
      <4>3. req[r].key # k
        BY <1>2, <2>2, <4>2
      <4> QED
        BY <1>3, <2>2, <4>2, <4>3 DEF TypeOK
    <3>3. pc[r] \in HasItem => itemOf'[req[r].item] = r /\ grades'[req[r].item] = <<>>
      <4>1. SUFFICES ASSUME pc[r] \in HasItem
                     PROVE  itemOf'[req[r].item] = r /\ grades'[req[r].item] = <<>>
        OBVIOUS
      <4>2. req[r].item \in Items /\ itemOf[req[r].item] = r /\ grades[req[r].item] = <<>>
        BY <3>1, <4>1 DEF RequestFits, HasItem
      <4>3. req[r].item # i
        BY <1>2, <2>2, <4>2
      <4> QED
        BY <1>3, <2>2, <4>2, <4>3 DEF TypeOK
    <3>4. pc[r] # "updating"
      BY <1>2, <2>2, <3>1 DEF RequestFits
    <3>5. pc[r] = "graded" => grades'[req[r].item] # <<>>
      BY <1>3, <3>1 DEF RequestFits, TypeOK
    <3> QED
      BY <3>1, <3>2, <3>3, <3>4, <3>5 DEF RequestFits
  <2> QED
    BY <2>1, <2>2
<1>9. GradesFit'
  <2>1. \A l \in Keys : idem[l] # i
    BY <1>1, <1>2 DEF GradesFit
  <2>2. \A l \in Keys : idem'[l] = IF l = k THEN i ELSE idem[l]
    BY <1>2, <1>3 DEF TypeOK
  <2>3. \A l \in Items : grades'[l] = IF l = i THEN <<j>> ELSE grades[l]
    BY <1>2, <1>3 DEF TypeOK
  <2>4. <<j>> # <<>> /\ Len(<<j>>) = 1
    OBVIOUS
  <2>5. \A l \in Keys : idem'[l] # Nobody => grades'[idem'[l]] # <<>>
    <3>1. ASSUME NEW l \in Keys, idem'[l] # Nobody PROVE grades'[idem'[l]] # <<>>
      <4>1. CASE l = k
        BY <1>2, <2>2, <2>3, <2>4, <4>1
      <4>2. CASE l # k
        <5>1. idem'[l] = idem[l] /\ idem[l] \in Items /\ grades[idem[l]] # <<>>
          BY <2>2, <3>1, <4>2 DEF GradesFit, TypeOK
        <5> QED
          BY <2>3, <2>4, <5>1
      <4> QED
        BY <4>1, <4>2
    <3> QED
      BY <3>1
  <2>6. \A l, m \in Keys : idem'[l] = idem'[m] /\ idem'[l] # Nobody => l = m
    BY <2>1, <2>2 DEF GradesFit
  <2>7. ASSUME NEW l \in Items, grades'[l] # <<>> PROVE \E m \in Keys : idem'[m] = l
    <3>1. CASE l = i
      BY <1>2, <2>2, <3>1
    <3>2. CASE l # i
      <4>1. PICK m \in Keys : idem[m] = l
        BY <2>3, <2>7, <3>2 DEF GradesFit
      <4>2. m # k
        BY <1>1, <1>2, <4>1
      <4> QED
        BY <2>2, <4>1, <4>2
    <3> QED
      BY <3>1, <3>2
  <2>8. \A l \in Items : Len(grades'[l]) <= 1
    <3>1. \A l \in Items : Len(grades[l]) <= 1
      BY DEF GradesFit
    <3>2. ASSUME NEW l \in Items PROVE Len(grades'[l]) <= 1
      <4>1. CASE l = i
        <5>1. Len(grades'[l]) = 1
          BY <2>3, <2>4, <4>1
        <5> QED
          BY <5>1
      <4>2. CASE l # i
        <5>1. grades'[l] = grades[l]
          BY <2>3, <4>2
        <5> QED
          BY <3>1, <5>1
      <4> QED
        BY <4>1, <4>2
    <3> QED
      BY <3>2
  <2>9. \A l \in reported : grades'[l] # <<>>
    <3>1. \A l \in reported : l \in Items /\ grades[l] # <<>>
      BY DEF GradesFit, TypeOK
    <3> QED
      BY <2>3, <2>4, <3>1
  <2> QED
    BY <1>1, <2>5, <2>6, <2>7, <2>8, <2>9 DEF GradesFit
<1> QED
  BY <1>3, <1>4, <1>5, <1>6, <1>7, <1>8, <1>9

LEMMA EndingKeeps ==
  ASSUME GradingInv, NEW q \in Requests, RecordRun(q) \/ (pc[q] # "idle" /\ Abort(q))
  PROVE  GradingInv'
<1> USE DEF GradingInv, records, locks, Goes
<1>1. /\ pc \in [Requests -> {"idle", "asked", "checked", "keyed", "ungraded",
                  "submitted", "judged", "missing", "updating", "graded"}]
      /\ req \in [Requests -> Request]
      /\ keyOf \in [Keys -> Requests \union {Nobody}]
      /\ itemOf \in [Items -> Requests \union {Nobody}]
      /\ Nobody \notin Requests /\ NoRequest \in Request
      /\ UNCHANGED <<idem, grades, mastery, log, wrong>>
      /\ pc' = [pc EXCEPT ![q] = "idle"] /\ req' = [req EXCEPT ![q] = NoRequest]
  BY GradingAssumption, RequestTypes DEF RecordRun, Abort, TypeOK
<1>2. LevelsAreChained' /\ (~mastery'.exists => mastery' = NoMastery)
  BY <1>1 DEF LevelsAreChained
<1>3. CASE RecordRun(q)
  <2>1. /\ pc[q] = "graded" /\ req[q].item \in Items /\ grades[req[q].item] # <<>>
        /\ reported' = reported \union {req[q].item}
        /\ UNCHANGED <<keyOf, itemOf, masteryOf>>
    BY <1>3 DEF RecordRun, RequestFits
  <2>2. TypeOK'
    BY <1>1, <2>1 DEF TypeOK
  <2>3. GradesFit'
    BY <1>1, <2>1 DEF GradesFit
  <2>4. LocksFit'
    BY <1>1, <2>1 DEF LocksFit, TypeOK, HasKey, HasItem
  <2>5. \A r \in Requests : RequestFits(r)'
    BY <1>1, <2>1 DEF RequestFits, HasKey, HasItem
  <2> QED
    BY <1>2, <2>2, <2>3, <2>4, <2>5
<1>4. CASE Abort(q)
  <2>1. /\ reported' = reported
        /\ keyOf' = [k \in Keys |-> IF keyOf[k] = q THEN Nobody ELSE keyOf[k]]
        /\ itemOf' = [i \in Items |-> IF itemOf[i] = q THEN Nobody ELSE itemOf[i]]
        /\ masteryOf' = IF masteryOf = q THEN Nobody ELSE masteryOf
    BY <1>4 DEF Abort, ReleaseAll
  <2>2. TypeOK'
    BY <1>1, <2>1 DEF TypeOK
  <2>3. GradesFit'
    BY <1>1, <2>1 DEF GradesFit
  <2>4. LocksFit'
    BY <1>1, <2>1 DEF LocksFit, TypeOK
  <2>5. ASSUME NEW r \in Requests PROVE RequestFits(r)'
    <3>1. CASE r = q
      BY <1>1, <3>1 DEF RequestFits, HasKey, HasItem
    <3>2. CASE r # q
      BY <1>1, <2>1, <3>2 DEF RequestFits, HasKey, HasItem, TypeOK
    <3> QED
      BY <3>1, <3>2
  <2> QED
    BY <1>2, <2>2, <2>3, <2>4, <2>5
<1> QED
  BY <1>3, <1>4

-----------------------------------------------------------------------------
(* What the log says of the mastery row                                    *)

Graded == {i \in Items : grades[i] # <<>>}

StreakPlaces ==
    {n \in ScorePlaces : \A l \in ScorePlaces : l >= n => l \in GoodPlaces}

\* A change by a grade, as other components see it
Change(entry) == [question |-> entry.item, before |-> entry.before, after |-> entry.after]

Changes == [n \in DOMAIN GradeLog |-> Change(GradeLog[n])]

\* Every change by a grade is the one of a graded item, and the row is what the
\* changes add up to: its counts and, as other components see it, its level.
LogExplains ==
    /\ \A n \in GradePlaces : grades[log[n].item] # <<>>
    /\ \A m \in 1 .. Cardinality(GradePlaces) : Ranked(GradePlaces, m) # {}
    /\ IsFiniteSet(Graded)
    /\ Cardinality(GradePlaces) = Cardinality(Graded)
    /\ mastery.attempts = Cardinality(ScorePlaces)
    /\ mastery.correct = Cardinality(GoodPlaces)
    /\ mastery.streak = Cardinality(StreakPlaces)
    /\ mastery.level = IF Changes = <<>> THEN DefaultLevel ELSE Last(Changes).after

\* A place behind all others is the last one, and the others keep their ranks.
LEMMA PlaceBehind ==
  ASSUME NEW n \in Nat, NEW P \in SUBSET (1 .. n)
  PROVE  /\ IsFiniteSet(P) /\ Cardinality(P) \in Nat
         /\ Cardinality(P \union {n + 1}) = Cardinality(P) + 1
         /\ Ranked(P \union {n + 1}, Cardinality(P) + 1) = {n + 1}
         /\ \A m \in 1 .. Cardinality(P) : Ranked(P \union {n + 1}, m) = Ranked(P, m)
<1> DEFINE c == Cardinality(P)
           Q == P \union {n + 1}
           Upto(R, k) == {p \in R : p <= k}
<1>1. IsFiniteSet(P) /\ c \in Nat
  <2>1. IsFiniteSet(1 .. n)
    BY FS_Interval
  <2>2. IsFiniteSet(P)
    BY <2>1, FS_Subset
  <2> QED
    BY <2>2, FS_CardinalityType
<1>2. Cardinality(Q) = c + 1
  BY <1>1, FS_AddElement
<1>3. \A k \in P : Upto(Q, k) = Upto(P, k)
  OBVIOUS
<1>4. Upto(Q, n + 1) = Q
  <2>1. \A p \in Q : p <= n + 1
    OBVIOUS
  <2> QED
    BY <2>1
<1>5. ASSUME NEW k \in P PROVE Cardinality(Upto(P, k)) <= c
  BY <1>1, FS_Subset
<1>6. \A m : Ranked(Q, m) = {k \in Q : Cardinality(Upto(Q, k)) = m}
  BY DEF Ranked
<1>7. \A m : Ranked(P, m) = {k \in P : Cardinality(Upto(P, k)) = m}
  BY DEF Ranked
<1> HIDE DEF Upto, c
<1>8. ASSUME NEW m PROVE Ranked(Q, m) = Ranked(P, m) \union {k \in {n + 1} : m = c + 1}
  <2>1. ASSUME NEW k PROVE k \in Ranked(Q, m) <=> k \in Ranked(P, m) \/ (k = n + 1 /\ m = c + 1)
    <3>1. CASE k \in P
      <4>1. k # n + 1 /\ k \in Q
        BY <3>1
      <4> QED
        BY <1>3, <1>6, <1>7, <3>1, <4>1
    <3>2. CASE k = n + 1
      <4>1. k \notin P /\ k \in Q
        BY <3>2
      <4>2. Cardinality(Upto(Q, k)) = c + 1
        BY <1>2, <1>4, <3>2
      <4> HIDE DEF Q
      <4> QED
        BY <1>6, <1>7, <3>2, <4>1, <4>2
    <3>3. CASE k \notin Q
      BY <1>6, <1>7, <3>3
    <3> QED
      BY <3>1, <3>2, <3>3
  <2> QED
    BY <2>1
<1>9. Ranked(P, c + 1) = {}
  <2>1. ASSUME NEW k \in P PROVE Cardinality(Upto(P, k)) # c + 1
    <3>1. Upto(P, k) \subseteq P
      BY DEF Upto
    <3>2. Cardinality(Upto(P, k)) \in Nat
      BY <1>1, <3>1, FS_Subset, FS_CardinalityType
    <3> QED
      BY <1>1, <1>5, <3>2
  <2> QED
    BY <1>7, <2>1
<1>10. Ranked(Q, c + 1) = {n + 1}
  BY <1>8, <1>9
<1>11. \A m \in 1 .. c : Ranked(Q, m) = Ranked(P, m)
  BY <1>1, <1>8
<1> QED
  BY <1>1, <1>2, <1>10, <1>11 DEF c

\* What a commit makes of the rows that the log explains
Commits(i, j) ==
    /\ grades[i] = <<>>
    /\ grades' = [grades EXCEPT ![i] = <<j>>]
    /\ mastery' = Updated(mastery, j)
    /\ log' = log \o Entries(i, mastery.level, mastery'.level, j)
    /\ wrong' = IF ShouldCreateWrongBook(j.ratio, j.review) THEN wrong \union {i} ELSE wrong

LEMMA CommitFacts ==
  ASSUME GradingInv, NEW q \in Requests, CommitGrade(q)
  PROVE  \E i \in Items, j \in Judgements : Commits(i, j)
<1> DEFINE i == req[q].item
           j == req[q].judgement
<1>1. /\ i \in Items /\ j \in Judgements /\ req[q].mastery = mastery
      /\ grades[i] = <<>>
  BY DEF GradingInv, CommitGrade, Goes, RequestFits, HasKey, HasItem
<1>2. Append(grades[i], j) = <<j>>
  BY <1>1
<1>3. Commits(i, j)
  BY <1>1, <1>2 DEF CommitGrade, Commits
<1> QED
  BY <1>1, <1>3

\* A commit adds one place behind all others.
LEMMA PlacesGrow ==
  ASSUME GradingInv, NEW i \in Items, NEW j \in Judgements, Commits(i, j)
  PROVE  /\ Len(log) \in Nat /\ GradePlaces \in SUBSET (1 .. Len(log))
         /\ GradePlaces' = GradePlaces \union {Len(log) + 1}
         /\ \A n \in GradePlaces : log'[n] = log[n]
         /\ log'[Len(log) + 1].item = i
         /\ log'[Len(log) + 1].before = mastery.level
         /\ log'[Len(log) + 1].after = mastery'.level
<1> DEFINE e == Entries(i, mastery.level, mastery'.level, j)
           n == Len(log)
<1>1. /\ log \in Seq(Entry) /\ n \in Nat /\ DOMAIN log = 1 .. n
      /\ mastery.level \in Level /\ mastery'.level \in Level /\ log' = log \o e
  BY UpdatedIsMastery DEF GradingInv, TypeOK, Commits, Mastery
<1>2. e \in Seq(Entry) /\ Len(e) \in 1 .. 3 /\ e[1].kind = "grade" /\ e[1].item = i
      /\ e[1].before = mastery.level /\ e[1].after = mastery'.level
  <2> HIDE DEF e
  <2>1. e = Entries(i, mastery.level, mastery'.level, j)
    BY DEF e
  <2> QED
    BY <1>1, <2>1, EntriesChain
<1>3. \A k \in 2 .. Len(e) : e[k].kind # "grade"
  <2> HIDE DEF e
  <2>1. e = Entries(i, mastery.level, mastery'.level, j)
    BY DEF e
  <2> QED
    BY <1>1, <2>1, EntriesChain
<1> HIDE DEF e
<1>4. /\ DOMAIN log' = 1 .. n + Len(e)
      /\ \A m \in 1 .. n : log'[m] = log[m]
      /\ \A k \in 1 .. Len(e) : log'[n + k] = e[k]
  BY <1>1, <1>2
<1>5. log'[n + 1] = e[1]
  BY <1>2, <1>4
<1>6. ASSUME NEW m \in (n + 2) .. (n + Len(e)) PROVE log'[m].kind # "grade"
  <2>1. m - n \in 2 .. Len(e) /\ m = n + (m - n)
    BY <1>1, <1>2
  <2>2. log'[m] = e[m - n]
    BY <1>4, <2>1
  <2> QED
    BY <1>3, <2>1, <2>2
<1> HIDE DEF n
<1>7. GradePlaces' = GradePlaces \union {n + 1}
  <2>1. DOMAIN log' = 1 .. n \union {n + 1} \union (n + 2) .. (n + Len(e))
    BY <1>1, <1>2, <1>4
  <2>2. \A m \in 1 .. n : m \in GradePlaces' <=> m \in GradePlaces
    BY <1>1, <1>4, <2>1 DEF GradePlaces
  <2>3. n + 1 \in GradePlaces'
    BY <1>2, <1>5, <2>1 DEF GradePlaces
  <2>4. \A m \in (n + 2) .. (n + Len(e)) : m \notin GradePlaces'
    BY <1>6 DEF GradePlaces
  <2>5. GradePlaces' \subseteq 1 .. n \union {n + 1} \union (n + 2) .. (n + Len(e))
    BY <2>1 DEF GradePlaces
  <2>6. GradePlaces \subseteq 1 .. n
    BY <1>1 DEF GradePlaces
  <2> QED
    BY <2>2, <2>3, <2>4, <2>5, <2>6
<1>8. GradePlaces \subseteq 1 .. n
  BY <1>1 DEF GradePlaces
<1> QED
  BY <1>1, <1>2, <1>4, <1>5, <1>7, <1>8 DEF n

LEMMA ChangeIsChange ==
  /\ \A i \in Items, a, b \in Level :
        [question |-> i, before |-> a, after |-> b] \in Book!Change
  /\ \A entry \in Entry : Change(entry) \in Book!Change
<1>1. Book!Level = Level
  BY DEF Book!Level, Level
<1>2. ASSUME NEW i \in Items, NEW a \in Level, NEW b \in Level
      PROVE  [question |-> i, before |-> a, after |-> b] \in Book!Change
  BY <1>1 DEF Book!Change
<1>3. ASSUME NEW entry \in Entry PROVE Change(entry) \in Book!Change
  <2>1. entry.item \in Items /\ entry.before \in Level /\ entry.after \in Level
    BY DEF Entry
  <2> QED
    BY <1>2, <2>1 DEF Change
<1> QED
  BY <1>2, <1>3

\* The log of the changes, as other components see it, grows by one entry.
LEMMA ChangesGrow ==
  ASSUME GradingInv, LogExplains, NEW i \in Items, NEW j \in Judgements, Commits(i, j)
  PROVE  /\ Changes \in Seq(Book!Change)
         /\ Changes' = Append(Changes, [question |-> i, before |-> mastery.level,
                                        after |-> mastery'.level])
         /\ \A m \in 1 .. Cardinality(GradePlaces') : Ranked(GradePlaces', m) # {}
<1> DEFINE n == Len(log)
           P == GradePlaces
           c == Cardinality(P)
           x == [question |-> i, before |-> mastery.level, after |-> mastery'.level]
<1>1. /\ n \in Nat /\ P \in SUBSET (1 .. n) /\ GradePlaces' = P \union {n + 1}
      /\ \A k \in P : log'[k] = log[k]
      /\ x = Change(log'[n + 1])
  BY PlacesGrow DEF Change
<1>2. /\ c \in Nat /\ Cardinality(GradePlaces') = c + 1
      /\ Ranked(GradePlaces', c + 1) = {n + 1}
      /\ \A m \in 1 .. c : Ranked(GradePlaces', m) = Ranked(P, m)
  BY <1>1, PlaceBehind
<1>3. \A m \in 1 .. c : Ranked(P, m) # {}
  BY DEF LogExplains
<1> HIDE DEF n, P, c
<1>4. ASSUME NEW m \in 1 .. c PROVE Nth(P, m) \in P /\ Nth(GradePlaces', m) = Nth(P, m)
  <2>1. Ranked(P, m) # {} /\ Ranked(P, m) \subseteq P
    BY <1>3 DEF Ranked
  <2>2. Nth(P, m) \in P
    BY <2>1 DEF Nth
  <2>3. Ranked(GradePlaces', m) = Ranked(P, m)
    BY <1>2
  <2>4. Nth(GradePlaces', m) = Nth(P, m)
    BY <2>3 DEF Nth
  <2> QED
    BY <2>2, <2>4
<1>5. Nth(GradePlaces', c + 1) = n + 1
  BY <1>2 DEF Nth
<1>6. Changes = [m \in 1 .. c |-> Change(log[Nth(P, m)])]
  BY DEF Changes, GradeLog, P, c
<1>7. Changes' = [m \in 1 .. c + 1 |-> Change(log'[Nth(GradePlaces', m)])]
  BY <1>2 DEF Changes, GradeLog
<1>8. Changes \in Seq(Book!Change)
  <2>1. ASSUME NEW m \in 1 .. c PROVE Change(log[Nth(P, m)]) \in Book!Change
    <3>1. log \in Seq(Entry) /\ Nth(P, m) \in 1 .. n
      BY <1>1, <1>4 DEF GradingInv, TypeOK
    <3>2. log[Nth(P, m)] \in Entry
      BY <3>1 DEF n
    <3> QED
      BY <3>2, ChangeIsChange
  <2> QED
    BY <1>2, <1>6, <2>1, IsASeq
<1>9. x \in Book!Change
  <2>1. mastery.level \in Level /\ mastery'.level \in Level
    BY UpdatedIsMastery DEF GradingInv, TypeOK, Commits, Mastery
  <2> QED
    BY <2>1, ChangeIsChange
<1>10. Changes' = Append(Changes, x)
  <2>1. Len(Changes) = c
    BY <1>2, <1>6, <1>8
  <2> DEFINE y == Append(Changes, x)
  <2>2. /\ y \in Seq(Book!Change) /\ Len(y) = c + 1 /\ y[c + 1] = x
        /\ \A m \in 1 .. c : y[m] = Changes[m]
    BY <1>2, <1>8, <1>9, <2>1, AppendProperties
  <2>3. y = [m \in 1 .. c + 1 |-> y[m]]
    BY <2>2
  <2> HIDE DEF y, x
  <2>4. ASSUME NEW m \in 1 .. c + 1 PROVE y[m] = Change(log'[Nth(GradePlaces', m)])
    <3>1. CASE m = c + 1
      BY <1>1, <1>5, <2>2, <3>1
    <3>2. CASE m # c + 1
      <4>1. m \in 1 .. c
        BY <1>2, <3>2
      <4>2. log'[Nth(P, m)] = log[Nth(P, m)]
        BY <1>1, <1>4, <4>1
      <4> QED
        BY <1>4, <1>6, <2>2, <4>1, <4>2
    <3> QED
      BY <3>1, <3>2
  <2> QED
    BY <1>7, <2>3, <2>4 DEF y
<1>11. ASSUME NEW m \in 1 .. Cardinality(GradePlaces') PROVE Ranked(GradePlaces', m) # {}
  <2>1. CASE m = c + 1
    BY <1>2, <2>1
  <2>2. CASE m # c + 1
    <3>1. m \in 1 .. c
      BY <1>2, <2>2
    <3> QED
      BY <1>2, <1>3, <3>1
  <2> QED
    BY <2>1, <2>2
<1> QED
  BY <1>8, <1>10, <1>11

\* Old places keep their grades, the new one has the new grade.
LEMMA ScoresGrow ==
  ASSUME GradingInv, LogExplains, NEW i \in Items, NEW j \in Judgements, Commits(i, j)
  PROVE  LET n == Len(log) + 1 IN
         /\ ScorePlaces' = ScorePlaces \union {k \in {n} : Gradable(j)}
         /\ GoodPlaces' = GoodPlaces \union {k \in {n} : Gradable(j) /\ Good(j)}
         /\ StreakPlaces' = IF ~Gradable(j) THEN StreakPlaces
                            ELSE IF Good(j) THEN StreakPlaces \union {n} ELSE {}
         /\ \A k \in GradePlaces' : grades'[log'[k].item] # <<>>
<1> DEFINE n == Len(log) + 1
<1>1. /\ Len(log) \in Nat /\ GradePlaces \in SUBSET (1 .. Len(log))
      /\ GradePlaces' = GradePlaces \union {n}
      /\ \A k \in GradePlaces : log'[k] = log[k]
      /\ log'[n].item = i
  BY PlacesGrow
<1>2. n \in Nat /\ \A k \in GradePlaces : k \in Nat /\ k < n
  BY <1>1
<1>3. grades \in [Items -> Seq(Judgements)] /\ grades[i] = <<>>
      /\ grades' = [grades EXCEPT ![i] = <<j>>]
  BY DEF GradingInv, TypeOK, Commits
<1>4. ASSUME NEW k \in GradePlaces
      PROVE  grades'[log'[k].item] = grades[log[k].item] /\ grades[log[k].item] # <<>>
  <2>1. grades[log[k].item] # <<>> /\ log'[k] = log[k]
    BY <1>1 DEF LogExplains
  <2>2. log[k].item \in Items
    <3>1. log \in Seq(Entry) /\ k \in 1 .. Len(log)
      BY <1>1 DEF GradingInv, TypeOK
    <3>2. log[k] \in Entry
      BY <3>1
    <3> QED
      BY <3>2 DEF Entry
  <2>3. log[k].item # i
    BY <1>3, <2>1
  <2> QED
    BY <1>3, <2>1, <2>2, <2>3
<1>5. grades'[log'[n].item] = <<j>> /\ <<j>>[1] = j /\ <<j>> # <<>>
  BY <1>1, <1>3
<1> HIDE DEF n
<1>6. ScorePlaces' = ScorePlaces \union {k \in {n} : Gradable(j)}
  <2>1. \A k \in GradePlaces : k \in ScorePlaces' <=> k \in ScorePlaces
    BY <1>1, <1>4 DEF ScorePlaces, GradeOf, Gradable
  <2>2. n \in ScorePlaces' <=> Gradable(j)
    BY <1>1, <1>5 DEF ScorePlaces, GradeOf, Gradable
  <2>3. ScorePlaces' \subseteq GradePlaces \union {n} /\ ScorePlaces \subseteq GradePlaces
    BY <1>1 DEF ScorePlaces
  <2> QED
    BY <2>1, <2>2, <2>3
<1>7. ScorePlaces \subseteq GradePlaces /\ GoodPlaces \subseteq ScorePlaces
  BY DEF ScorePlaces, GoodPlaces
<1>8. GoodPlaces' = GoodPlaces \union {k \in {n} : Gradable(j) /\ Good(j)}
  <2>1. \A k \in GradePlaces : k \in GoodPlaces' <=> k \in GoodPlaces
    <3>1. ASSUME NEW k \in GradePlaces PROVE k \in GoodPlaces' <=> k \in GoodPlaces
      <4>1. k \in ScorePlaces' <=> k \in ScorePlaces
        BY <1>2, <1>6
      <4>2. GradeOf(log[k])' = GradeOf(log[k])
        BY <1>4 DEF GradeOf
      <4>3. k \in GoodPlaces' <=> k \in ScorePlaces' /\ Good(GradeOf(log[k])')
        BY DEF GoodPlaces, Good
      <4> QED
        BY <4>1, <4>2, <4>3 DEF GoodPlaces
    <3> QED
      BY <3>1
  <2>2. n \in GoodPlaces' <=> Gradable(j) /\ Good(j)
    <3>1. grades'[log'[n].item][1] = j
      BY <1>5
    <3>2. n \in GoodPlaces' <=> n \in ScorePlaces' /\ Good(grades'[log'[n].item][1])
      BY DEF GoodPlaces, Good, GradeOf
    <3>3. n \in ScorePlaces' <=> Gradable(j)
      BY <1>2, <1>6, <1>7
    <3> QED
      BY <3>1, <3>2, <3>3
  <2>3. GoodPlaces' \subseteq GradePlaces \union {n} /\ GoodPlaces \subseteq GradePlaces
    BY <1>1 DEF ScorePlaces, GoodPlaces
  <2> QED
    BY <2>1, <2>2, <2>3
<1>9. StreakPlaces' = IF ~Gradable(j) THEN StreakPlaces
                      ELSE IF Good(j) THEN StreakPlaces \union {n} ELSE {}
  <2>1. StreakPlaces' = {k \in ScorePlaces' : \A l \in ScorePlaces' : l >= k => l \in GoodPlaces'}
    BY DEF StreakPlaces
  <2>2. CASE ~Gradable(j)
    <3>1. ScorePlaces' = ScorePlaces /\ GoodPlaces' = GoodPlaces
      BY <1>6, <1>8, <2>2
    <3> QED
      BY <2>1, <2>2, <3>1 DEF StreakPlaces
  <2>3. CASE Gradable(j) /\ Good(j)
    <3>1. ScorePlaces' = ScorePlaces \union {n} /\ GoodPlaces' = GoodPlaces \union {n}
      BY <1>6, <1>8, <2>3
    <3>2. \A l \in ScorePlaces : l < n /\ ~(l >= n) /\ n >= l /\ n >= n /\ l # n
      BY <1>2, <1>7
    <3>3. n \in StreakPlaces'
      BY <2>1, <3>1, <3>2
    <3>4. \A k \in ScorePlaces : k \in StreakPlaces' <=> k \in StreakPlaces
      BY <2>1, <3>1, <3>2 DEF StreakPlaces
    <3>5. StreakPlaces \subseteq ScorePlaces /\ StreakPlaces' \subseteq ScorePlaces \union {n}
      BY <2>1, <3>1 DEF StreakPlaces
    <3> QED
      BY <2>3, <3>3, <3>4, <3>5
  <2>4. CASE Gradable(j) /\ ~Good(j)
    <3>1. n \in ScorePlaces' /\ n \notin GoodPlaces'
      BY <1>2, <1>6, <1>7, <1>8, <2>4
    <3>2. \A k \in ScorePlaces' : n >= k
      BY <1>2, <1>6, <1>7
    <3> QED
      BY <2>1, <2>4, <3>1, <3>2
  <2> QED
    BY <2>2, <2>3, <2>4
<1>10. \A k \in GradePlaces' : grades'[log'[k].item] # <<>>
  BY <1>1, <1>4, <1>5
<1> QED
  BY <1>6, <1>8, <1>9, <1>10 DEF n

LEMMA CommitExplains ==
  ASSUME GradingInv, LogExplains, NEW i \in Items, NEW j \in Judgements, Commits(i, j)
  PROVE  LogExplains'
<1> DEFINE n == Len(log) + 1
<1>1. /\ n \in Nat /\ n - 1 \in Nat /\ GradePlaces \in SUBSET (1 .. n - 1)
      /\ GradePlaces' = GradePlaces \union {n}
  BY PlacesGrow
<1>2. /\ ScorePlaces' = ScorePlaces \union {k \in {n} : Gradable(j)}
      /\ GoodPlaces' = GoodPlaces \union {k \in {n} : Gradable(j) /\ Good(j)}
      /\ StreakPlaces' = IF ~Gradable(j) THEN StreakPlaces
                         ELSE IF Good(j) THEN StreakPlaces \union {n} ELSE {}
      /\ \A k \in GradePlaces' : grades'[log'[k].item] # <<>>
  BY ScoresGrow
<1>3. /\ ScorePlaces \subseteq 1 .. n - 1 /\ GoodPlaces \subseteq 1 .. n - 1
      /\ StreakPlaces \subseteq 1 .. n - 1
  BY <1>1 DEF ScorePlaces, GoodPlaces, StreakPlaces
<1>4. Graded' = Graded \union {i} /\ i \notin Graded
  <2>1. /\ grades \in [Items -> Seq(Judgements)] /\ grades[i] = <<>>
        /\ grades' = [grades EXCEPT ![i] = <<j>>] /\ <<j>> # <<>>
    BY DEF GradingInv, TypeOK, Commits
  <2> QED
    BY <2>1 DEF Graded
<1> HIDE DEF n
<1>5. ASSUME NEW P, P \subseteq 1 .. n - 1
      PROVE  Cardinality(P) \in Nat /\ Cardinality(P \union {n}) = Cardinality(P) + 1
  <2>1. n = (n - 1) + 1
    BY <1>1
  <2>2. Cardinality(P) \in Nat /\ Cardinality(P \union {(n - 1) + 1}) = Cardinality(P) + 1
    BY <1>1, <1>5, PlaceBehind
  <2> QED
    BY <2>1, <2>2
<1>6. IsFiniteSet(Graded') /\ Cardinality(Graded') = Cardinality(Graded) + 1
  BY <1>4, FS_AddElement DEF LogExplains
<1>7. Cardinality(GradePlaces') = Cardinality(Graded')
  BY <1>1, <1>5, <1>6 DEF LogExplains
<1>8. mastery \in Mastery /\ mastery' = Updated(mastery, j)
  BY DEF GradingInv, TypeOK, Commits
<1>9. mastery'.attempts = Cardinality(ScorePlaces')
  <2>1. mastery'.attempts = mastery.attempts + IF Gradable(j) THEN 1 ELSE 0
    BY <1>8 DEF Updated, Mastery
  <2>2. CASE Gradable(j)
    BY <1>2, <1>3, <1>5, <2>1, <2>2 DEF LogExplains
  <2>3. CASE ~Gradable(j)
    <3>1. ScorePlaces' = ScorePlaces
      BY <1>2, <2>3
    <3>2. Cardinality(ScorePlaces) \in Nat
      BY <1>3, <1>5
    <3> QED
      BY <2>1, <2>3, <3>1, <3>2 DEF LogExplains
  <2> QED
    BY <2>2, <2>3
<1>10. mastery'.correct = Cardinality(GoodPlaces')
  <2>1. mastery'.correct = mastery.correct + IF Gradable(j) /\ Good(j) THEN 1 ELSE 0
    BY <1>8 DEF Updated, Mastery
  <2>2. CASE Gradable(j) /\ Good(j)
    BY <1>2, <1>3, <1>5, <2>1, <2>2 DEF LogExplains
  <2>3. CASE ~(Gradable(j) /\ Good(j))
    <3>1. GoodPlaces' = GoodPlaces
      BY <1>2, <2>3
    <3>2. Cardinality(GoodPlaces) \in Nat
      BY <1>3, <1>5
    <3> QED
      BY <2>1, <2>3, <3>1, <3>2 DEF LogExplains
  <2> QED
    BY <2>2, <2>3
<1>11. mastery'.streak = Cardinality(StreakPlaces')
  <2>1. mastery'.streak = IF ~Gradable(j) THEN mastery.streak
                          ELSE IF Good(j) THEN mastery.streak + 1 ELSE 0
    BY <1>8 DEF Updated, ComputeStreakUpdate, Mastery
  <2>2. CASE ~Gradable(j)
    BY <1>2, <2>1, <2>2 DEF LogExplains
  <2>3. CASE Gradable(j) /\ Good(j)
    BY <1>2, <1>3, <1>5, <2>1, <2>3 DEF LogExplains
  <2>4. CASE Gradable(j) /\ ~Good(j)
    BY <1>2, <2>1, <2>4, FS_EmptySet
  <2> QED
    BY <2>2, <2>3, <2>4
<1>12. mastery'.level = IF Changes' = <<>> THEN DefaultLevel ELSE Last(Changes').after
  <2> DEFINE x == [question |-> i, before |-> mastery.level, after |-> mastery'.level]
  <2>1. x \in Book!Change
    <3>1. mastery.level \in Level /\ mastery'.level \in Level
      BY <1>8, UpdatedIsMastery DEF Mastery
    <3> QED
      BY <3>1, ChangeIsChange
  <2>2. Changes \in Seq(Book!Change) /\ Changes' = Append(Changes, x)
    BY ChangesGrow
  <2>3. x.after = mastery'.level
    OBVIOUS
  <2> HIDE DEF x
  <2>4. Changes' # <<>> /\ Last(Changes') = x
    BY <2>1, <2>2, AppendProperties DEF Last
  <2> QED
    BY <2>3, <2>4
<1>13. \A m \in 1 .. Cardinality(GradePlaces') : Ranked(GradePlaces', m) # {}
  BY ChangesGrow
<1> QED
  BY <1>2, <1>6, <1>7, <1>9, <1>10, <1>11, <1>12, <1>13 DEF LogExplains

\* As other components see it, the commit is the grading of a question.
LEMMA CommitGrades ==
  ASSUME GradingInv, LogExplains, NEW i \in Items, NEW j \in Judgements, Commits(i, j)
  PROVE  Book!Grade(i, j)
<1> DEFINE seen == [k \in Items |-> IF grades[k] = <<>> THEN Nobody ELSE Last(grades[k])]
           seen_next == [k \in Items |-> IF grades'[k] = <<>> THEN Nobody ELSE Last(grades'[k])]
<1>1. /\ grades \in [Items -> Seq(Judgements)] /\ grades[i] = <<>>
      /\ grades' = [grades EXCEPT ![i] = <<j>>] /\ <<j>> # <<>> /\ Last(<<j>>) = j
  BY DEF GradingInv, TypeOK, Commits, Last
<1>2. seen[i] = Nobody /\ seen_next = [seen EXCEPT ![i] = j]
  BY <1>1
<1>3. mastery.level = Book!CurrentLevel
  BY DEF LogExplains, Book!CurrentLevel, DefaultLevel, Book!DefaultLevel, Changes, Change, Last, Book!Last
<1>4. mastery'.level = Book!NewLevel(j)
  <2>1. mastery \in Mastery /\ mastery' = Updated(mastery, j)
    BY DEF GradingInv, TypeOK, Commits
  <2>2. mastery'.level = IF Gradable(j) THEN ComputeMastery(mastery.level, j.ratio)
                                        ELSE mastery.level
    BY <2>1 DEF Updated, Mastery
  <2>3. Book!ComputeMastery(mastery.level, j.ratio) = ComputeMastery(mastery.level, j.ratio)
    BY DEF ComputeMastery, Book!ComputeMastery, Clamp, Book!Clamp
  <2>4. Book!IsGradable(j.confident, j.review) = Gradable(j)
    BY DEF Gradable, IsGradable, Book!IsGradable
  <2> QED
    BY <1>3, <2>2, <2>3, <2>4 DEF Book!NewLevel
<1>5. Changes' = Append(Changes, [question |-> i, before |-> Book!CurrentLevel,
                                  after |-> Book!NewLevel(j)])
  BY <1>3, <1>4, ChangesGrow
<1>6. wrong' = wrong \union {w \in {i} : Book!ShouldCreateWrongBook(j.ratio, j.review)}
  <2>1. wrong' = IF ShouldCreateWrongBook(j.ratio, j.review) THEN wrong \union {i} ELSE wrong
    BY DEF Commits
  <2>2. Book!ShouldCreateWrongBook(j.ratio, j.review) = ShouldCreateWrongBook(j.ratio, j.review)
    BY DEF ShouldCreateWrongBook, Book!ShouldCreateWrongBook, MASTERED_THRESHOLD,
           Book!MASTERED_THRESHOLD
  <2> QED
    BY <2>1, <2>2
<1> QED
  BY <1>2, <1>5, <1>6 DEF Book!Grade, Changes, Change

LEMMA LogExplainsInit == Init => LogExplains /\ Book!BookInit
<1> SUFFICES ASSUME Init PROVE LogExplains /\ Book!BookInit
  OBVIOUS
<1>1. log = <<>> /\ grades = [i \in Items |-> <<>>] /\ mastery = NoMastery /\ wrong = {}
  BY DEF Init
<1>2. GradePlaces = {} /\ ScorePlaces = {} /\ GoodPlaces = {} /\ StreakPlaces = {} /\ Graded = {}
  BY <1>1 DEF GradePlaces, ScorePlaces, GoodPlaces, StreakPlaces, Graded
<1>3. IsFiniteSet({}) /\ Cardinality({}) = 0
  BY FS_EmptySet
<1>4. Changes = <<>>
  BY <1>2, <1>3 DEF Changes, GradeLog
<1>5. LogExplains
  BY <1>1, <1>2, <1>3, <1>4 DEF LogExplains, NoMastery
<1>6. [i \in Items |-> IF grades[i] = <<>> THEN Nobody ELSE Last(grades[i])]
        = [i \in Items |-> Nobody]
  BY <1>1
<1> QED
  BY <1>1, <1>4, <1>5, <1>6 DEF Book!BookInit, Changes, Change

\* Every step but a commit leaves the rows alone.
LEMMA GradingSteps ==
  ASSUME GradingInv, [Next]_vars
  PROVE  \/ UNCHANGED <<grades, mastery, log, wrong>>
         \/ \E i \in Items, j \in Judgements : Commits(i, j)
<1>1. CASE UNCHANGED vars
  BY <1>1 DEF vars, records
<1>2. ASSUME NEW q \in Requests, CommitGrade(q)
      PROVE  \E i \in Items, j \in Judgements : Commits(i, j)
  BY <1>2, CommitFacts
<1>3. ASSUME NEW q \in Requests,
             \/ \E i \in Items, k \in Keys : Submit(q, i, k)
             \/ CheckKey(q) \/ InsertKey(q) \/ CheckItem(q) \/ InsertSubmission(q)
             \/ \E j \in Judgements : Judge(q, j)
             \/ SelectMastery(q) \/ InsertMastery(q) \/ RecordRun(q) \/ Abort(q)
      PROVE  UNCHANGED <<grades, mastery, log, wrong>>
  BY <1>3 DEF Submit, CheckKey, InsertKey, CheckItem, InsertSubmission, Judge, SelectMastery,
              InsertMastery, RecordRun, Abort, records
<1>4. ASSUME NEW q \in Requests, Refused(q) \/ Fails(q) PROVE Abort(q)
  BY <1>4 DEF Refused, Fails
<1> QED
  BY <1>1, <1>2, <1>3, <1>4 DEF Next, Handle

LEMMA LogExplainsStep ==
  ASSUME GradingInv, LogExplains, [Next]_vars
  PROVE  LogExplains' /\ [Book!BookNext]_(Book!bookVars)
<1>1. CASE UNCHANGED <<grades, mastery, log, wrong>>
  <2>1. UNCHANGED <<GradePlaces, ScorePlaces, GoodPlaces, StreakPlaces, Graded, Changes>>
    BY <1>1 DEF GradePlaces, ScorePlaces, GoodPlaces, StreakPlaces, Graded, GradeOf, Gradable,
                Good, Changes, GradeLog, Change
  <2>2. LogExplains'
    BY <1>1, <2>1 DEF LogExplains
  <2>3. UNCHANGED Book!bookVars
    BY <1>1, <2>1 DEF Book!bookVars, Changes, Change
  <2> QED
    BY <2>2, <2>3
<1>2. ASSUME NEW i \in Items, NEW j \in Judgements, Commits(i, j)
      PROVE  LogExplains' /\ Book!BookNext
  BY <1>2, CommitExplains, CommitGrades DEF Book!BookNext
<1> QED
  BY <1>1, <1>2, GradingSteps

-----------------------------------------------------------------------------
(* Theorems                                                                *)

\* What a request has read and locked is true until it ends, however requests
\* overlap and wherever they fail.
THEOREM LocksProtect == Spec => []GradingInv
<1>1. Init => GradingInv
  BY GradingInit
<1>2. GradingInv /\ [Next]_vars => GradingInv'
  <2> SUFFICES ASSUME GradingInv, [Next]_vars PROVE GradingInv'
    OBVIOUS
  <2>1. CASE UNCHANGED vars
    BY <2>1 DEF vars, records, locks, GradingInv, TypeOK, LocksFit, RequestFits, GradesFit,
                LevelsAreChained, HasKey, HasItem
  <2>2. ASSUME NEW q \in Requests,
               \/ \E i \in Items, k \in Keys : Submit(q, i, k)
               \/ Handle(q) \/ Fails(q)
        PROVE  GradingInv'
    <3>1. Refused(q) => pc[q] # "idle" /\ Abort(q)
      BY DEF Refused
    <3> QED
      BY <2>2, <3>1, ReadingKeeps, LockingKeeps, CommitKeeps, EndingKeeps DEF Handle, Fails
  <2> QED
    BY <2>1, <2>2 DEF Next
<1> QED
  BY <1>1, <1>2, PTL DEF Spec

\* An item is graded at most once, under one key, whatever keys a client uses
\* and however its requests overlap.
THEOREM NothingIsGradedTwice == Spec => []GradedOnce
<1>1. ASSUME GradingInv PROVE GradedOnce
  <2> USE <1>1 DEF GradingInv, GradesFit, TypeOK
  <2>1. ASSUME NEW i \in Items
        PROVE  Cardinality({k \in Keys : idem[k] = i}) = Len(grades[i])
    <3>1. i # Nobody /\ grades[i] \in Seq(Judgements) /\ Len(grades[i]) <= 1
      BY GradingAssumption
    <3>2. CASE grades[i] = <<>>
      <4>1. {k \in Keys : idem[k] = i} = {}
        BY <3>1, <3>2
      <4> QED
        BY <3>2, <4>1, FS_EmptySet
    <3>3. CASE grades[i] # <<>>
      <4>1. PICK k \in Keys : idem[k] = i
        BY <3>3
      <4>2. {l \in Keys : idem[l] = i} = {k}
        BY <3>1, <4>1
      <4>3. Len(grades[i]) = 1
        <5> DEFINE n == Len(grades[i])
        <5>1. n # 0
          BY <3>1, <3>3, EmptySeq
        <5>2. n \in Nat /\ n <= 1
          BY <3>1
        <5> HIDE DEF n
        <5>3. n = 1
          BY <5>1, <5>2
        <5> QED
          BY <5>3 DEF n
      <4> QED
        BY <4>2, <4>3, FS_Singleton
    <3> QED
      BY <3>2, <3>3
  <2> QED
    BY <2>1 DEF GradedOnce
<1> QED
  BY <1>1, LocksProtect, PTL

\* No update of the mastery row is lost, whatever requests overlap, are refused
\* or fail: the row counts every gradable grade, its streak is that of the
\* latest ones, and the log leads to its level step by step.
THEOREM MasteryAddsUp == Spec => []MasteryIsExplained
<1>1. GradingInv /\ LogExplains /\ [Next]_vars => LogExplains'
  BY LogExplainsStep
<1>2. GradingInv /\ LogExplains => MasteryIsExplained
  <2>1. LogExplains /\ LevelsAreChained => MasteryIsExplained
    BY DEF LogExplains, MasteryIsExplained, StreakPlaces, Graded
  <2> QED
    BY <2>1 DEF GradingInv
<1> QED
  BY <1>1, <1>2, LogExplainsInit, LocksProtect, PTL DEF Spec

\* submit_answer implements GradeBook: for every other component a question is
\* graded once and in one step, with its entries in the log and the wrong book.
THEOREM GradingIsAtomic == Spec => GradesAtomically
<1>1. GradingInv /\ LogExplains /\ [Next]_vars => LogExplains'
  BY LogExplainsStep
<1>2. GradingInv /\ LogExplains /\ [Next]_vars => [Book!BookNext]_(Book!bookVars)
  BY LogExplainsStep
<1>3. Init => LogExplains /\ Book!BookInit
  BY LogExplainsInit
<1> QED
  BY <1>1, <1>2, <1>3, LocksProtect, PTL DEF Spec, GradesAtomically, Book!BookSpec

\* No requests, however many, wait for each other in a circle, or for one that
\* is gone: those that wait furthest in the order of the locks wait for one
\* that waits for nothing.
THEOREM NobodyWaitsForEver == Spec => []NoDeadlock
<1>1. ASSUME GradingInv, NEW Q \in SUBSET Requests, Q # {}
      PROVE  \E q \in Q : WaitsFor(q) \notin Q /\
                (WaitsFor(q) # Nobody => pc[WaitsFor(q)] # "idle")
  <2> USE <1>1, GradingAssumption DEF GradingInv, TypeOK, LocksFit
  <2>1. CASE \E q \in Q : WaitsFor(q) = Nobody
    BY <2>1
  <2>2. CASE \A q \in Q : WaitsFor(q) # Nobody
    <3>1. \A q \in Q : pc[q] \in {"checked", "ungraded", "judged", "missing"}
      BY <2>2 DEF WaitsFor
    <3>2. CASE \E q \in Q : pc[q] \in {"judged", "missing"}
      <4>1. PICK q \in Q : pc[q] \in {"judged", "missing"}
        BY <3>2
      <4>2. WaitsFor(q) = masteryOf
        BY <2>2, <4>1 DEF WaitsFor
      <4>3. pc[masteryOf] = "updating"
        BY <2>2, <4>2
      <4> QED
        BY <3>1, <4>2, <4>3
    <3>3. CASE ~(\E q \in Q : pc[q] \in {"judged", "missing"})
      <4>1. CASE \E q \in Q : pc[q] = "ungraded"
        <5>1. PICK q \in Q : pc[q] = "ungraded"
          BY <4>1
        <5>2. WaitsFor(q) = itemOf[req[q].item] /\ req[q].item \in Items
          BY <5>1 DEF WaitsFor, RequestFits
        <5>3. pc[WaitsFor(q)] \in HasItem
          BY <2>2, <5>2
        <5> QED
          BY <3>1, <3>3, <5>3 DEF HasItem
      <4>2. CASE \A q \in Q : pc[q] = "checked"
        <5>1. PICK q \in Q : pc[q] = "checked"
          BY <4>2
        <5>2. WaitsFor(q) = keyOf[req[q].key] /\ req[q].key \in Keys
          BY <5>1 DEF WaitsFor, RequestFits
        <5>3. pc[WaitsFor(q)] \in HasKey
          BY <2>2, <5>2
        <5> QED
          BY <4>2, <5>3 DEF HasKey
      <4> QED
        BY <3>1, <3>3, <4>1, <4>2
    <3> QED
      BY <3>2, <3>3
  <2> QED
    BY <2>1, <2>2
<1>2. GradingInv => NoDeadlock
  BY <1>1 DEF NoDeadlock
<1> QED
  BY <1>2, LocksProtect, PTL

=============================================================================
