----------------------------- MODULE AskingProofs ------------------------------
(***************************************************************************)
(* What a question rests on: the numbers of the messages of its session    *)
(* (Chat), and the index that is searched for it (Retrieval), for every    *)
(* set of tabs and questions, of chunks and of what they hold.             *)
(***************************************************************************)
EXTENDS Chat, Retrieval, FiniteSetTheorems, TLAPS
-----------------------------------------------------------------------------
(* Chat: the numbering of the messages                                     *)

Open(r) == run[r] \in {"inserting", "answering"}

\* The user message of r is stored, below n
AskedBelow(r, n) == \E q \in log : q.role = "user" /\ q.run = r /\ q.seq < n

(***************************************************************************)
(* The stored numbers are an initial segment of the naturals.  A number    *)
(* that an open transaction has read is one of them or the next one, and   *)
(* stays so while others commit; the number read for an answer is above    *)
(* that of its question, which was stored before the run began.            *)
(***************************************************************************)
NumberingInv ==
    /\ run \in [Runs -> ServerStates]
    /\ number \in [Runs -> Nat \cup {Unread}]
    /\ \E n \in Nat : Numbers = 0..(n - 1)
    /\ \A r \in Runs : Open(r) =>
         number[r] \in Nat /\ (number[r] = 0 \/ number[r] - 1 \in Numbers)
    /\ \A r \in Runs : run[r] = "running" =>
         \E q \in log : q.role = "user" /\ q.run = r
    /\ \A r \in Runs : run[r] = "answering" => AskedBelow(r, number[r])
    /\ AnswerFollowsQuestion

\* The maximum plus one is the first number that is not in the log.
LEMMA NextIsNew ==
  ASSUME NEW n \in Nat, Numbers = 0..(n - 1)
  PROVE  NextSequence = n
<1>1. CASE n = 0
  BY <1>1 DEF NextSequence, NextNumber
<1>2. CASE n > 0
  <2>1. n - 1 \in Numbers /\ Numbers # {} /\ \A y \in Numbers : n - 1 >= y
    BY <1>2
  <2>2. Max(Numbers) = n - 1
    <3>1. \A x \in Numbers : (\A y \in Numbers : x >= y) => x = n - 1
      BY <2>1
    <3> QED
      BY <2>1, <3>1 DEF Max
  <2> QED
    BY <1>2, <2>1, <2>2 DEF NextSequence, NextNumber
<1> QED
  BY <1>1, <1>2

\* One more message of a number that is known or next: still a segment
LEMMA SegmentGrows ==
  ASSUME NEW n \in Nat, NEW k \in 0..n
  PROVE  \E j \in Nat : 0..(n - 1) \cup {k} = 0..(j - 1)
<1>1. CASE k \in 0..(n - 1)
  <2>1. 0..(n - 1) \cup {k} = 0..(n - 1)
    BY <1>1
  <2> QED
    BY <2>1
<1>2. CASE k = n
  <2>1. 0..(n - 1) \cup {k} = 0..((n + 1) - 1)
    BY <1>2
  <2> QED
    BY <2>1
<1> QED
  BY <1>1, <1>2

LEMMA NumberingInit == ChatInit => NumberingInv
<1> SUFFICES ASSUME ChatInit PROVE NumberingInv
  OBVIOUS
<1>1. Numbers = 0..(0 - 1)
  BY DEF ChatInit, Numbers
<1> QED
  BY <1>1 DEF ChatInit, NumberingInv, ServerStates, Unread, Open, AnswerFollowsQuestion

\* A step that leaves the log alone and reads no number
LEMMA QuietStep ==
  ASSUME NumberingInv, log' = log,
         run' \in [Runs -> ServerStates], number' \in [Runs -> Nat \cup {Unread}],
         \A r \in Runs : run'[r] \in {"inserting", "running", "answering"} =>
                           run'[r] = run[r] /\ number'[r] = number[r]
  PROVE  NumberingInv'
<1>1. Numbers' = Numbers
  BY DEF Numbers
<1>2. \A r \in Runs : Open(r)' => Open(r) /\ number'[r] = number[r]
  BY DEF Open
<1>3. \A r \in Runs : run'[r] = "answering" => AskedBelow(r, number[r])'
  BY DEF NumberingInv, AskedBelow
<1> QED
  BY <1>1, <1>2, <1>3 DEF NumberingInv, AskedBelow, AnswerFollowsQuestion

LEMMA InsertStep ==
  ASSUME NumberingInv, NEW r \in Runs, InsertQuestion(r) \/ InsertAnswer(r)
  PROVE  NumberingInv'
<1>1. PICK n \in Nat : Numbers = 0..(n - 1)
  BY DEF NumberingInv
<1>2. number' = [number EXCEPT ![r] = n] /\ log' = log
  BY <1>1, NextIsNew DEF InsertQuestion, InsertAnswer
<1>3. Numbers' = Numbers
  BY <1>2 DEF Numbers
<1>4. n = 0 \/ n - 1 \in Numbers
  BY <1>1
<1>5. \A m \in log : m.seq < n
  <2>1. \A m \in log : m.seq \in Numbers
    BY DEF Numbers
  <2> QED
    BY <1>1, <2>1
<1>6. run' \in [Runs -> ServerStates] /\ number' \in [Runs -> Nat \cup {Unread}]
  BY <1>2 DEF NumberingInv, InsertQuestion, InsertAnswer, ServerStates
<1>7. \A e \in Runs \ {r} : run'[e] = run[e] /\ number'[e] = number[e]
  BY <1>2 DEF NumberingInv, InsertQuestion, InsertAnswer
<1>8. number'[r] = n /\ run'[r] \in {"inserting", "answering"}
  BY <1>2 DEF NumberingInv, InsertQuestion, InsertAnswer
<1>9. \A e \in Runs : Open(e)' =>
        number'[e] \in Nat /\ (number'[e] = 0 \/ number'[e] - 1 \in Numbers')
  BY <1>3, <1>4, <1>7, <1>8 DEF NumberingInv, Open
<1>10. \A e \in Runs : run'[e] = "running" =>
         \E q \in log' : q.role = "user" /\ q.run = e
  BY <1>2, <1>7, <1>8 DEF NumberingInv
<1>11. \A e \in Runs : run'[e] = "answering" => AskedBelow(e, number[e])'
  <2>1. ASSUME NEW e \in Runs, run'[e] = "answering" PROVE AskedBelow(e, number[e])'
    <3>1. CASE e = r
      <4>1. run[r] = "running"
        BY <2>1, <3>1 DEF NumberingInv, InsertQuestion, InsertAnswer
      <4>2. \E q \in log : q.role = "user" /\ q.run = r
        BY <4>1 DEF NumberingInv
      <4> QED
        BY <1>2, <1>5, <1>8, <3>1, <4>2 DEF AskedBelow
    <3>2. CASE e # r
      BY <1>2, <1>7, <2>1, <3>2 DEF NumberingInv, AskedBelow
    <3> QED
      BY <3>1, <3>2
  <2> QED
    BY <2>1
<1> QED
  BY <1>1, <1>2, <1>3, <1>6, <1>9, <1>10, <1>11 DEF NumberingInv, AnswerFollowsQuestion

LEMMA CommitStep ==
  ASSUME NumberingInv, NEW r \in Runs, CommitQuestion(r) \/ CommitAnswer(r)
  PROVE  NumberingInv'
<1>1. PICK n \in Nat : Numbers = 0..(n - 1)
  BY DEF NumberingInv
<1>2. Open(r) /\ number[r] \in Nat /\ (number[r] = 0 \/ number[r] - 1 \in Numbers)
  BY DEF NumberingInv, Open, CommitQuestion, CommitAnswer
<1>3. PICK role \in {"user", "assistant"} :
        /\ log' = log \cup {Message(role, r, number[r])}
        /\ role = "user" <=> run[r] = "inserting"
  BY DEF CommitQuestion, CommitAnswer
<1>4. Numbers' = Numbers \cup {number[r]}
  <2>1. Message(role, r, number[r]).seq = number[r]
    BY DEF Message
  <2>2. Numbers' = {m.seq : m \in log \cup {Message(role, r, number[r])}}
    BY <1>3 DEF Numbers
  <2>3. {m.seq : m \in log \cup {Message(role, r, number[r])}}
          = {m.seq : m \in log} \cup {Message(role, r, number[r]).seq}
    OBVIOUS
  <2> QED
    BY <2>1, <2>2, <2>3 DEF Numbers
<1>5. \E j \in Nat : Numbers' = 0..(j - 1)
  <2>1. number[r] \in 0..n
    BY <1>1, <1>2
  <2>2. \E j \in Nat : 0..(n - 1) \cup {number[r]} = 0..(j - 1)
    BY <2>1, SegmentGrows
  <2> QED
    BY <1>1, <1>4, <2>2
<1>6. run' \in [Runs -> ServerStates] /\ number' \in [Runs -> Nat \cup {Unread}]
  BY DEF NumberingInv, CommitQuestion, CommitAnswer, ServerStates
<1>7. \A e \in Runs \ {r} : run'[e] = run[e] /\ number'[e] = number[e]
  BY DEF NumberingInv, CommitQuestion, CommitAnswer
<1>8. run'[r] = IF run[r] = "inserting" THEN "running" ELSE "completed"
  BY DEF NumberingInv, CommitQuestion, CommitAnswer
<1>9. \A e \in Runs : Open(e)' =>
        number'[e] \in Nat /\ (number'[e] = 0 \/ number'[e] - 1 \in Numbers')
  BY <1>4, <1>7, <1>8 DEF NumberingInv, Open
<1>10. \A e \in Runs : run'[e] = "running" =>
         \E q \in log' : q.role = "user" /\ q.run = e
  <2>1. ASSUME NEW e \in Runs, run'[e] = "running"
        PROVE  \E q \in log' : q.role = "user" /\ q.run = e
    <3>1. CASE e = r
      <4>1. role = "user"
        BY <1>3, <1>8, <2>1, <3>1
      <4>2. Message(role, r, number[r]) \in log'
        BY <1>3
      <4> QED
        BY <3>1, <4>1, <4>2 DEF Message
    <3>2. CASE e # r
      BY <1>3, <1>7, <2>1, <3>2 DEF NumberingInv
    <3> QED
      BY <3>1, <3>2
  <2> QED
    BY <2>1
<1>11. \A e \in Runs : run'[e] = "answering" => AskedBelow(e, number[e])'
  BY <1>3, <1>7, <1>8 DEF NumberingInv, AskedBelow
<1>12. AnswerFollowsQuestion'
  <2>1. ASSUME NEW m \in log', m.role = "assistant"
        PROVE  \E q \in log' : q.role = "user" /\ q.run = m.run /\ q.seq < m.seq
    <3>1. CASE m \in log
      BY <1>3, <2>1, <3>1 DEF NumberingInv, AnswerFollowsQuestion
    <3>2. CASE m = Message(role, r, number[r])
      <4>1. role = "assistant" /\ m.run = r /\ m.seq = number[r]
        BY <2>1, <3>2 DEF Message
      <4>2. run[r] = "answering"
        BY <1>2, <1>3, <4>1 DEF Open
      <4>3. AskedBelow(r, number[r])
        BY <4>2 DEF NumberingInv
      <4> QED
        BY <1>3, <4>1, <4>3 DEF AskedBelow
    <3> QED
      BY <1>3, <2>1, <3>1, <3>2
  <2> QED
    BY <2>1 DEF AnswerFollowsQuestion
<1> QED
  BY <1>5, <1>6, <1>9, <1>10, <1>11, <1>12 DEF NumberingInv

LEMMA NumberingStep == NumberingInv /\ [ChatNext]_chatVars => NumberingInv'
<1> SUFFICES ASSUME NumberingInv, [ChatNext]_chatVars PROVE NumberingInv'
  OBVIOUS
<1>1. ASSUME NEW r \in Runs, InsertQuestion(r) \/ InsertAnswer(r) PROVE NumberingInv'
  BY <1>1, InsertStep
<1>2. ASSUME NEW r \in Runs, CommitQuestion(r) \/ CommitAnswer(r) PROVE NumberingInv'
  BY <1>2, CommitStep
<1>3. ASSUME NEW r \in Runs, RefuseQuestion(r) \/ EndWithoutAnswer(r) \/ EndUnheard(r)
      PROVE  NumberingInv'
  <2>1. log' = log
    BY <1>3 DEF RefuseQuestion, EndWithoutAnswer, EndUnheard
  <2>2. run' \in [Runs -> ServerStates] /\ number' \in [Runs -> Nat \cup {Unread}]
    BY <1>3 DEF RefuseQuestion, EndWithoutAnswer, EndUnheard, NumberingInv, ServerStates
  <2>3. \A e \in Runs : run'[e] \in {"inserting", "running", "answering"} =>
                          run'[e] = run[e] /\ number'[e] = number[e]
    BY <1>3 DEF RefuseQuestion, EndWithoutAnswer, EndUnheard, NumberingInv
  <2> QED
    BY <2>1, <2>2, <2>3, QuietStep
<1>4. ASSUME UNCHANGED server PROVE NumberingInv'
  BY <1>4, QuietStep DEF server, NumberingInv
<1>5. ASSUME NEW r \in Runs, Ask(r) \/ StartPolling(r) \/ Poll(r) \/ PollFails(r)
      PROVE  NumberingInv'
  BY <1>4, <1>5 DEF Ask, StartPolling, Poll, PollFails
<1>6. CASE UNCHANGED chatVars
  BY <1>4, <1>6 DEF chatVars, server
<1> QED
  BY <1>1, <1>2, <1>3, <1>5, <1>6 DEF ChatNext

(***************************************************************************)
(* Read in the order of sequence_no, no answer precedes the question it    *)
(* answers, however the transactions of the session overlap.               *)
(***************************************************************************)
THEOREM AnswersFollow == ChatSpec => []AnswerFollowsQuestion
<1>1. NumberingInv => AnswerFollowsQuestion
  BY DEF NumberingInv
<1> QED
  BY NumberingInit, NumberingStep, <1>1, PTL DEF ChatSpec

(***************************************************************************)
(* The numbers of a session have no gap: get_next_message_sequence never   *)
(* skips one, whatever is rolled back.                                     *)
(***************************************************************************)
THEOREM NoGaps == ChatSpec => []NumbersHaveNoGap
<1>1. NumberingInv => NumbersHaveNoGap
  BY DEF NumberingInv, NumbersHaveNoGap
<1> QED
  BY NumberingInit, NumberingStep, <1>1, PTL DEF ChatSpec
-----------------------------------------------------------------------------
(* Retrieval: the statistics of the keyword index                          *)

\* The documents of D that hold the term t
Holders(D, t) == {c \in D : Has(c, t)}

(***************************************************************************)
(* The index is a finite set of documents and the counters agree with it:  *)
(* the finiteness is what makes one more document one more to count.       *)
(***************************************************************************)
IndexInv ==
    /\ IsFiniteSet(keywords)
    /\ totalDocs = Cardinality(keywords)
    /\ docFreq = [t \in Tokens |-> Cardinality(Holders(keywords, t))]

LEMMA HoldersFinite ==
  ASSUME NEW D, IsFiniteSet(D), NEW t
  PROVE  IsFiniteSet(Holders(D, t)) /\ Cardinality(Holders(D, t)) \in Nat
  BY FS_Subset, FS_CardinalityType DEF Holders

\* One document more counts for its terms,
LEMMA HoldersWith ==
  ASSUME NEW D, IsFiniteSet(D), NEW c, c \notin D, NEW t
  PROVE  Cardinality(Holders(D \cup {c}, t))
           = Cardinality(Holders(D, t)) + (IF Has(c, t) THEN 1 ELSE 0)
<1>1. CASE Has(c, t)
  <2>1. Holders(D \cup {c}, t) = Holders(D, t) \cup {c} /\ c \notin Holders(D, t)
    BY <1>1 DEF Holders
  <2> QED
    BY <1>1, <2>1, HoldersFinite, FS_AddElement
<1>2. CASE ~Has(c, t)
  <2>1. Holders(D \cup {c}, t) = Holders(D, t)
    BY <1>2 DEF Holders
  <2> QED
    BY <1>2, <2>1, HoldersFinite
<1> QED
  BY <1>1, <1>2

\* ... and one less does, too.
LEMMA HoldersWithout ==
  ASSUME NEW D, IsFiniteSet(D), NEW c \in D, NEW t
  PROVE  Cardinality(Holders(D \ {c}, t))
           = Cardinality(Holders(D, t)) - (IF Has(c, t) THEN 1 ELSE 0)
<1>1. CASE Has(c, t)
  <2>1. Holders(D \ {c}, t) = Holders(D, t) \ {c} /\ c \in Holders(D, t)
    BY <1>1 DEF Holders
  <2> QED
    BY <1>1, <2>1, HoldersFinite, FS_RemoveElement
<1>2. CASE ~Has(c, t)
  <2>1. Holders(D \ {c}, t) = Holders(D, t)
    BY <1>2 DEF Holders
  <2> QED
    BY <1>2, <2>1, HoldersFinite
<1> QED
  BY <1>1, <1>2

LEMMA IndexInvInit == Init => IndexInv
<1> SUFFICES ASSUME Init PROVE IndexInv
  OBVIOUS
<1>1. \A t \in Tokens : Holders({}, t) = {}
  BY DEF Holders
<1> QED
  BY <1>1, FS_EmptySet DEF Init, IndexInv

LEMMA IndexInvStep == IndexInv /\ [Next]_vars => IndexInv'
<1> SUFFICES ASSUME IndexInv, [Next]_vars PROVE IndexInv'
  OBVIOUS
<1> USE DEF IndexInv
<1>1. ASSUME NEW c \in Chunks, Index(c) PROVE IndexInv'
  <2>1. keywords' = keywords \cup {c} /\ c \notin keywords
    BY <1>1 DEF Index
  <2>2. IsFiniteSet(keywords')
        /\ Cardinality(keywords') = Cardinality(keywords) + 1
    BY <2>1, FS_AddElement
  <2>3. docFreq' = [t \in Tokens |-> Cardinality(Holders(keywords', t))]
    BY <1>1, <2>1, HoldersWith DEF Index
  <2> QED
    BY <1>1, <2>2, <2>3 DEF Index, Holders
<1>2. ASSUME NEW c \in Chunks, RemoveKeyword(c) PROVE IndexInv'
  <2>1. keywords' = keywords \ {c} /\ c \in keywords
    BY <1>2 DEF RemoveKeyword
  <2>2. IsFiniteSet(keywords')
        /\ Cardinality(keywords') = Cardinality(keywords) - 1
    BY <2>1, FS_RemoveElement
  <2>3. docFreq' = [t \in Tokens |-> Cardinality(Holders(keywords', t))]
    BY <1>2, <2>1, HoldersWithout DEF RemoveKeyword, FreqAfterRemove, Without
  <2> QED
    BY <1>2, <2>2, <2>3 DEF RemoveKeyword, Holders
<1>3. ASSUME UNCHANGED <<keywords, docFreq, totalDocs>> PROVE IndexInv'
  BY <1>3 DEF Holders, Has
<1>4. ASSUME NEW c \in Chunks, RemoveVector(c) PROVE IndexInv'
  BY <1>3, <1>4 DEF RemoveVector
<1>5. ASSUME NEW q \in Queries, NEW f \in Filters \cup {NoFilter}, NEW role \in Roles,
             RetrieveCached(q, f, role) \/ RetrieveFresh(q, f, role)
      PROVE  IndexInv'
  BY <1>3, <1>5 DEF RetrieveCached, RetrieveFresh
<1>6. CASE ClearCache
  BY <1>3, <1>6 DEF ClearCache
<1>7. CASE UNCHANGED vars
  BY <1>3, <1>7 DEF vars
<1> QED
  BY <1>1, <1>2, <1>4, <1>5, <1>6, <1>7 DEF Next

(***************************************************************************)
(* After any sequence of add and remove, the total is the number of        *)
(* documents and a term's frequency the number of documents that hold it   *)
(* (InMemoryKeywordBackend.add and .remove).                               *)
(***************************************************************************)
THEOREM StatisticsAreExact == Spec => []StatisticsFollowIndex
<1>1. IndexInv => StatisticsFollowIndex
  BY DEF IndexInv, StatisticsFollowIndex, Holders
<1> QED
  BY IndexInvInit, IndexInvStep, <1>1, PTL DEF Spec
-----------------------------------------------------------------------------
(* Retrieval: the answers                                                  *)

\* A row lists elements of its set, none of them twice.
LEMMA RowsList ==
  ASSUME NEW S, NEW s \in SetToSeqs(S)
  PROVE  /\ DOMAIN s = 1 .. Cardinality(S)
         /\ \A i \in DOMAIN s : s[i] \in S
         /\ \A i, j \in DOMAIN s : i # j => s[i] # s[j]
  BY DEF SetToSeqs

\* What begins a row lists elements of its set too.
LEMMA FirstOnes ==
  ASSUME NEW S, NEW s \in SetToSeqs(S), NEW k
  PROVE  ToSet(FirstOf(s, k)) \subseteq S
  BY RowsList DEF ToSet, FirstOf

LEMMA VectorHitsMatch ==
  ASSUME NEW q, NEW f, NEW v \in VectorHits(q, f)
  PROVE  \A c \in ToSet(v) : VectorMatches(c, f)
<1>1. PICK s \in SetToSeqs({c \in vectors : q.embedded /\ VectorMatches(c, f)}) :
        v = FirstOf(s, VectorK)
  BY DEF VectorHits
<1> QED
  BY <1>1, FirstOnes

LEMMA KeywordHitsMatch ==
  ASSUME NEW q, NEW f, NEW w \in KeywordHits(q, f)
  PROVE  \A c \in ToSet(w) : KeywordMatches(c, f)
<1>1. PICK s \in SetToSeqs({c \in keywords : KeywordMatches(c, f) /\ Scores(c, q)}) :
        w = FirstOf(s, KeywordK)
  BY DEF KeywordHits
<1> QED
  BY <1>1, FirstOnes

\* Fusion lists hits in order, and references are hits in that order.
LEMMA FusedInOrder ==
  ASSUME NEW v, NEW w, NEW hits \in Fused(v, w)
  PROVE  /\ \A i \in DOMAIN hits : hits[i] \in ToSet(v) \cup ToSet(w)
         /\ \A i, j \in DOMAIN hits : i < j => Precedes(v, w, hits[i], hits[j])
<1>1. hits \in SetToSeqs(ToSet(v) \cup ToSet(w))
  BY DEF Fused, Sorted
<1> QED
  BY <1>1, RowsList DEF Fused, Sorted

\* Sources are hits, in the same order.
LEMMA ReferencesInOrder ==
  ASSUME NEW hits, NEW role, NEW refs \in SourceRefs(hits, role)
  PROVE  \E places :
           /\ \A n \in DOMAIN refs : places[n] \in DOMAIN hits /\ refs[n] = hits[places[n]]
           /\ \A n, m \in DOMAIN refs : n < m => places[n] < places[m]
           /\ DOMAIN refs \subseteq Int
<1>1. PICK places \in SetToSeqs(Visible(hits, role)) :
        /\ refs = [n \in DOMAIN places \cap (1 .. FinalK) |-> hits[places[n]]]
        /\ \A i, j \in DOMAIN places : i < j => places[i] < places[j]
  BY DEF SourceRefs, Sorted
<1>2. \A n \in DOMAIN places : places[n] \in DOMAIN hits
  BY RowsList DEF Visible
<1>3. DOMAIN refs = DOMAIN places \cap (1 .. FinalK)
  BY <1>1
<1> QED
  BY <1>1, <1>2, <1>3

LEMMA ReferencesAreHits ==
  ASSUME NEW v, NEW w, NEW hits \in Fused(v, w), NEW role, NEW refs \in SourceRefs(hits, role)
  PROVE  ToSet(refs) \subseteq ToSet(v) \cup ToSet(w)
  BY FusedInOrder, ReferencesInOrder DEF ToSet

(***************************************************************************)
(* What an answer of the cache rests on matches the filters of its key,    *)
(* which are those of every question that will find it.                    *)
(***************************************************************************)
CacheObeys ==
    \A key \in DOMAIN cache : key[2] # NoFilter =>
        \A c \in ToSet(cache[key].refs) : MatchesBoth(c, key[2])

AnswersInv == CacheObeys /\ AnswersObeyTheirFilters

LEMMA AnswersStep == AnswersInv /\ [Next]_vars => AnswersInv'
<1> SUFFICES ASSUME AnswersInv, [Next]_vars PROVE AnswersInv'
  OBVIOUS
<1> USE DEF AnswersInv
<1>1. ASSUME UNCHANGED cache, last' = Nothing \/ last' = last PROVE AnswersInv'
  BY <1>1 DEF CacheObeys, AnswersObeyTheirFilters, Nothing, MatchesBoth
<1>2. ASSUME NEW c \in Chunks, Index(c) \/ RemoveVector(c) \/ RemoveKeyword(c)
      PROVE  AnswersInv'
  BY <1>1, <1>2 DEF Index, RemoveVector, RemoveKeyword
<1>3. ASSUME NEW q \in Queries, NEW f \in Filters \cup {NoFilter}, NEW role \in Roles,
             RetrieveCached(q, f, role)
      PROVE  AnswersInv'
  <2>1. CacheKey(q, f) \in DOMAIN cache /\ CacheKey(q, f)[2] = f
    BY <1>3 DEF RetrieveCached, CacheKey
  <2>2. last'.filters = f /\ last'.refs = cache[CacheKey(q, f)].refs /\ cache' = cache
    BY <1>3 DEF RetrieveCached
  <2> QED
    BY <2>1, <2>2 DEF CacheObeys, AnswersObeyTheirFilters
<1>4. ASSUME NEW q \in Queries, NEW f \in Filters \cup {NoFilter}, NEW role \in Roles,
             RetrieveFresh(q, f, role)
      PROVE  AnswersInv'
  <2> DEFINE Answered(v, w, refs) ==
               /\ last'.filters = f /\ last'.refs = refs
               /\ cache' = [k \in DOMAIN cache \cup {CacheKey(q, f)} |->
                              IF k \in DOMAIN cache THEN cache[k]
                              ELSE [refs |-> refs, reason |-> Verdict(v, w, refs, q)]]
  <2>1. PICK v \in VectorHits(q, f), w \in KeywordHits(q, f) :
          \E hits \in Fused(v, w) : \E refs \in SourceRefs(hits, role) : Answered(v, w, refs)
    BY <1>4 DEF RetrieveFresh
  <2>2. PICK hits \in Fused(v, w) : \E refs \in SourceRefs(hits, role) : Answered(v, w, refs)
    BY <2>1
  <2>3. PICK refs \in SourceRefs(hits, role) : Answered(v, w, refs)
    BY <2>2
  <2>4. f # NoFilter => \A c \in ToSet(refs) : MatchesBoth(c, f)
    BY VectorHitsMatch, KeywordHitsMatch, ReferencesAreHits DEF VectorMatches, KeywordMatches
  <2>5. CacheKey(q, f)[2] = f
    BY DEF CacheKey
  <2>6. CacheObeys'
    <3>1. ASSUME NEW key \in DOMAIN cache', key[2] # NoFilter,
                 NEW c \in ToSet(cache'[key].refs)
          PROVE  MatchesBoth(c, key[2])
      <4>1. CASE key \in DOMAIN cache
        <5>1. cache'[key] = cache[key]
          BY <2>3, <4>1
        <5> QED
          BY <3>1, <4>1, <5>1 DEF CacheObeys
      <4>2. CASE key \notin DOMAIN cache
        <5>1. key = CacheKey(q, f) /\ cache'[key].refs = refs
          BY <2>3, <4>2
        <5> QED
          BY <2>4, <2>5, <3>1, <5>1
      <4> QED
        BY <4>1, <4>2
    <3> QED
      BY <3>1 DEF CacheObeys, MatchesBoth
  <2>7. AnswersObeyTheirFilters'
    BY <2>3, <2>4 DEF AnswersObeyTheirFilters, MatchesBoth
  <2> QED
    BY <2>6, <2>7
<1>5. CASE ClearCache
  BY <1>5 DEF ClearCache, CacheObeys, AnswersObeyTheirFilters, Nothing
<1>6. CASE UNCHANGED vars
  BY <1>1, <1>6 DEF vars
<1> QED
  BY <1>2, <1>3, <1>4, <1>5, <1>6 DEF Next

(***************************************************************************)
(* Whatever was indexed, asked and cached before, and for any filters, an  *)
(* answer rests on chunks that obey the filters of its own question        *)
(* (HybridRetriever.retrieve with _cache_key).                             *)
(***************************************************************************)
THEOREM FiltersAreObeyed == Spec => []AnswersObeyTheirFilters
<1>1. Init => AnswersInv
  BY DEF Init, AnswersInv, CacheObeys, AnswersObeyTheirFilters, Nothing
<1>2. AnswersInv => AnswersObeyTheirFilters
  BY DEF AnswersInv
<1> QED
  BY <1>1, <1>2, AnswersStep, PTL DEF Spec
-----------------------------------------------------------------------------
(* Retrieval: fusion                                                       *)

LEMMA ProductsGrow ==
  ASSUME NEW a \in Nat, NEW b \in Nat, NEW c \in Nat \ {0}, a < b
  PROVE  a * c < b * c
<1>1. (b - a) * c > 0
  OBVIOUS
<1>2. (b - a) * c = b * c - a * c /\ a * c \in Nat /\ b * c \in Nat
  OBVIOUS
<1> QED
  BY <1>1, <1>2

\* 1/a + 1/b > 1/c + 1/d when a < c and b < d.
LEMMA BetterRanks ==
  ASSUME NEW a \in Nat \ {0}, NEW b \in Nat \ {0}, NEW c \in Nat \ {0}, NEW d \in Nat \ {0},
         a < c, b < d
  PROVE  (b + a) * (c * d) > (d + c) * (a * b)
<1>1. b * (c * d) > (a * b) * d
  <2>1. a * (b * d) < c * (b * d)
    <3>1. b * d \in Nat \ {0}
      OBVIOUS
    <3> QED
      BY <3>1, ProductsGrow
  <2> QED
    BY <2>1
<1>2. a * (c * d) > (a * b) * c
  <2>1. b * (a * c) < d * (a * c)
    <3>1. a * c \in Nat \ {0}
      OBVIOUS
    <3> QED
      BY <3>1, ProductsGrow
  <2> QED
    BY <2>1
<1>3. /\ (b + a) * (c * d) = b * (c * d) + a * (c * d)
      /\ (d + c) * (a * b) = (a * b) * d + (a * b) * c
  OBVIOUS
<1>4. /\ b * (c * d) \in Nat /\ (a * b) * d \in Nat
      /\ a * (c * d) \in Nat /\ (a * b) * c \in Nat
  OBVIOUS
<1> QED
  BY <1>1, <1>2, <1>3, <1>4

\* 1/a + 1/b > 1/c when c is more than half of a and of b.
LEMMA TwoBeatOne ==
  ASSUME NEW a \in Nat \ {0}, NEW b \in Nat \ {0}, NEW c \in Nat \ {0}, a < 2 * c, b < 2 * c
  PROVE  (b + a) * c > a * b
<1>1. a * b < (2 * c) * b /\ b * a < (2 * c) * a
  BY ProductsGrow
<1>2. /\ (2 * c) * b = 2 * (b * c) /\ (2 * c) * a = 2 * (a * c) /\ b * a = a * b
      /\ (b + a) * c = b * c + a * c
      /\ a * b \in Nat /\ b * c \in Nat /\ a * c \in Nat
  OBVIOUS
<1> QED
  BY <1>1, <1>2

LEMMA RanksOfHits ==
  ASSUME NEW q, NEW f, NEW v \in VectorHits(q, f), NEW w \in KeywordHits(q, f), NEW c
  PROVE  /\ c \in ToSet(v) => Rank(v, c) \in 1 .. VectorK
         /\ c \in ToSet(w) => Rank(w, c) \in 1 .. KeywordK
<1>1. DOMAIN v \subseteq 1 .. VectorK
  BY DEF VectorHits, FirstOf
<1>2. DOMAIN w \subseteq 1 .. KeywordK
  BY DEF KeywordHits, FirstOf
<1>3. c \in ToSet(v) => Rank(v, c) \in DOMAIN v
  BY DEF ToSet, Rank
<1>4. c \in ToSet(w) => Rank(w, c) \in DOMAIN w
  BY DEF ToSet, Rank
<1> QED
  BY <1>1, <1>2, <1>3, <1>4

\* Of two hits, the one that both searches found is worth more than one that
\* is ranked worse by both, and than one that only one of them found.
LEMMA AgreementIsWorthMore ==
  ASSUME VectorK <= RrfK + 1, KeywordK <= RrfK + 1,
         NEW q, NEW f, NEW v \in VectorHits(q, f), NEW w \in KeywordHits(q, f),
         NEW a \in ToSet(v) \cap ToSet(w), NEW b \in ToSet(v) \cup ToSet(w),
         b \in ToSet(v) \cap ToSet(w) =>
            Rank(v, a) < Rank(v, b) /\ Rank(w, a) < Rank(w, b)
  PROVE  Above(Score(v, w, a), Score(v, w, b)) /\ ~Above(Score(v, w, b), Score(v, w, a))
<1> DEFINE A == RrfK + Rank(v, a)
           B == RrfK + Rank(w, a)
           C == RrfK + Rank(v, b)
           D == RrfK + Rank(w, b)
<1>1. RrfK \in Nat /\ VectorK \in Nat /\ KeywordK \in Nat
  BY BoundsAssumption
<1>2. /\ A \in Nat \ {0} /\ A < 2 * (RrfK + 1)
      /\ B \in Nat \ {0} /\ B < 2 * (RrfK + 1)
  <2>1. Rank(v, a) \in 1 .. VectorK /\ Rank(w, a) \in 1 .. KeywordK
    BY RanksOfHits
  <2> QED
    BY <1>1, <2>1
<1>3. b \in ToSet(v) => C \in Nat \ {0} /\ C >= RrfK + 1
  <2>1. b \in ToSet(v) => Rank(v, b) \in 1 .. VectorK
    BY RanksOfHits
  <2> QED
    BY <1>1, <2>1
<1>4. b \in ToSet(w) => D \in Nat \ {0} /\ D >= RrfK + 1
  <2>1. b \in ToSet(w) => Rank(w, b) \in 1 .. KeywordK
    BY RanksOfHits
  <2> QED
    BY <1>1, <2>1
<1>5. Score(v, w, a) = [num |-> 1 * B + 1 * A, den |-> A * B]
  BY DEF Score, PartsOf, Part, Plus
<1>6. 1 * B + 1 * A = B + A /\ B + A \in Nat /\ A * B \in Nat
  <2> HIDE DEF A, B
  <2> QED
    BY <1>2
<1>7. CASE b \in ToSet(v) /\ b \in ToSet(w)
  <2>1. Score(v, w, b) = [num |-> 1 * D + 1 * C, den |-> C * D]
    BY <1>7 DEF Score, PartsOf, Part, Plus
  <2>2. A < C /\ B < D
    <3>1. /\ Rank(v, a) \in 1 .. VectorK /\ Rank(w, a) \in 1 .. KeywordK
          /\ Rank(v, b) \in 1 .. VectorK /\ Rank(w, b) \in 1 .. KeywordK
      BY <1>7, RanksOfHits
    <3> QED
      BY <1>1, <1>7, <3>1
  <2> HIDE DEF A, B, C, D
  <2>3. (B + A) * (C * D) > (D + C) * (A * B)
    BY <1>2, <1>3, <1>4, <1>7, <2>2, BetterRanks
  <2>4. 1 * D + 1 * C = D + C /\ (B + A) * (C * D) \in Nat /\ (D + C) * (A * B) \in Nat
    BY <1>2, <1>3, <1>4, <1>7
  <2> QED
    BY <1>5, <1>6, <2>1, <2>3, <2>4 DEF Above
<1>8. ASSUME NEW E \in Nat \ {0}, E >= RrfK + 1, Score(v, w, b) = [num |-> 1, den |-> E]
      PROVE  Above(Score(v, w, a), Score(v, w, b)) /\ ~Above(Score(v, w, b), Score(v, w, a))
  <2> HIDE DEF A, B
  <2>1. A < 2 * E /\ B < 2 * E
    BY <1>1, <1>2, <1>8
  <2>2. (B + A) * E > A * B
    BY <1>2, <2>1, TwoBeatOne
  <2>3. 1 * (A * B) = A * B /\ (B + A) * E \in Nat
    BY <1>6
  <2> QED
    BY <1>5, <1>6, <1>8, <2>2, <2>3 DEF Above
<1>9. CASE b \notin ToSet(w)
  <2>1. Score(v, w, b) = [num |-> 1, den |-> C]
    BY <1>9 DEF Score, PartsOf, Part
  <2> QED
    BY <1>3, <1>8, <1>9, <2>1
<1>10. CASE b \notin ToSet(v) /\ b \in ToSet(w)
  <2>1. Score(v, w, b) = [num |-> 1, den |-> D]
    BY <1>10 DEF Score, PartsOf, Part
  <2> QED
    BY <1>4, <1>8, <1>10, <2>1
<1> QED
  BY <1>7, <1>9, <1>10

LEMMA FusionStep ==
  ASSUME VectorK <= RrfK + 1, KeywordK <= RrfK + 1,
         FusionPrefersAgreement, [Next]_vars
  PROVE  FusionPrefersAgreement'
<1>1. ASSUME last' = Nothing \/ last' = last PROVE FusionPrefersAgreement'
  <2>1. CASE last' = Nothing
    BY <2>1 DEF FusionPrefersAgreement, Nothing
  <2>2. CASE last' = last
    BY <2>2 DEF FusionPrefersAgreement
  <2> QED
    BY <1>1, <2>1, <2>2
<1>2. ASSUME NEW c \in Chunks, Index(c) \/ RemoveVector(c) \/ RemoveKeyword(c)
      PROVE  FusionPrefersAgreement'
  BY <1>1, <1>2 DEF Index, RemoveVector, RemoveKeyword
<1>3. ASSUME NEW q \in Queries, NEW f \in Filters \cup {NoFilter}, NEW role \in Roles,
             RetrieveCached(q, f, role)
      PROVE  FusionPrefersAgreement'
  BY <1>3 DEF RetrieveCached, FusionPrefersAgreement
<1>4. ASSUME NEW q \in Queries, NEW f \in Filters \cup {NoFilter}, NEW role \in Roles,
             RetrieveFresh(q, f, role)
      PROVE  FusionPrefersAgreement'
  <2> DEFINE Told(v, w, refs) == last'.refs = refs /\ last'.vector = v /\ last'.keyword = w
  <2>1. PICK v \in VectorHits(q, f), w \in KeywordHits(q, f) :
          \E hits \in Fused(v, w) : \E refs \in SourceRefs(hits, role) : Told(v, w, refs)
    BY <1>4 DEF RetrieveFresh
  <2>2. PICK hits \in Fused(v, w) : \E refs \in SourceRefs(hits, role) : Told(v, w, refs)
    BY <2>1
  <2>3. PICK refs \in SourceRefs(hits, role) : Told(v, w, refs)
    BY <2>2
  <2>4. ASSUME NEW i \in DOMAIN refs, NEW j \in DOMAIN refs,
               refs[i] \in ToSet(v) \cap ToSet(w),
               refs[j] \in ToSet(v) \cap ToSet(w) =>
                  /\ Rank(v, refs[i]) < Rank(v, refs[j])
                  /\ Rank(w, refs[i]) < Rank(w, refs[j]),
               refs[i] # refs[j]
        PROVE  i < j
    <3>1. refs[j] \in ToSet(v) \cup ToSet(w)
      BY ReferencesAreHits DEF ToSet
    <3>2. /\ Above(Score(v, w, refs[i]), Score(v, w, refs[j]))
          /\ ~Above(Score(v, w, refs[j]), Score(v, w, refs[i]))
      BY <2>4, <3>1, AgreementIsWorthMore
    <3>3. ~Precedes(v, w, refs[j], refs[i])
      BY <3>2 DEF Precedes
    <3>4. ~(j < i)
      <4>1. PICK places :
              /\ \A n \in DOMAIN refs : places[n] \in DOMAIN hits /\ refs[n] = hits[places[n]]
              /\ \A n, m \in DOMAIN refs : n < m => places[n] < places[m]
        BY ReferencesInOrder
      <4> QED
        BY <3>3, <4>1, FusedInOrder
    <3>5. i # j /\ i \in Int /\ j \in Int
      BY <2>4, ReferencesInOrder
    <3> QED
      BY <3>4, <3>5
  <2> QED
    BY <2>3, <2>4 DEF FusionPrefersAgreement
<1>5. CASE ClearCache
  BY <1>1, <1>5 DEF ClearCache
<1>6. CASE UNCHANGED vars
  BY <1>1, <1>6 DEF vars
<1> QED
  BY <1>2, <1>3, <1>4, <1>5, <1>6 DEF Next

(***************************************************************************)
(* When neither search returns more than k + 1 hits, for the k of the      *)
(* fusion, what both searches found precedes what one found, and agreement *)
(* on the order is kept (rrf_fusion; the source has 20 hits and k = 60).   *)
(***************************************************************************)
THEOREM AgreementComesFirst ==
  ASSUME VectorK <= RrfK + 1, KeywordK <= RrfK + 1
  PROVE  Spec => []FusionPrefersAgreement
<1>1. Init => FusionPrefersAgreement
  BY DEF Init, FusionPrefersAgreement, Nothing
<1>2. FusionPrefersAgreement /\ [Next]_vars => FusionPrefersAgreement'
  BY FusionStep
<1> QED
  BY <1>1, <1>2, PTL DEF Spec
=============================================================================
