------------------------------- MODULE Retrieval -------------------------------
(***************************************************************************)
(* The hybrid retriever of apps/worker/retrieval: a vector index, a        *)
(* keyword index with its document statistics, the reciprocal rank fusion  *)
(* of the two hit lists, the references built from it, the verdict on      *)
(* whether they suffice, and the cache of answers.                         *)
(*                                                                         *)
(* The in-memory back ends never suspend, so one call is one step.         *)
(* Similarity and BM25 values are abstracted to the order they induce,     *)
(* which is arbitrary; fusion scores are exact fractions.  A sorted list    *)
(* is the one row of its elements that is in order.  Chunk ids are fresh   *)
(* (uuid4), so an id is indexed once.                                      *)
(***************************************************************************)
EXTENDS Integers, Sequences, FiniteSets, SequencesExt

CONSTANTS
    Chunks,      \* chunk ids
    Content,     \* what a chunk holds: see ContentAssumption
    Tokens,      \* the terms of tokenize_chinese that matter
    Queries,     \* [text, words, embedded, computes, visual]
    Filters,     \* [chapters, excluded, year, points]; NoFilter is None
    NoFilter,
    Roles,       \* "member", "admin"
    VectorK, KeywordK, FinalK, RrfK,
    MaxCached    \* bound: answers kept before the model stops asking anew

\* tokens is the token list as counts; year 0 stands for None
ASSUME ContentAssumption ==
    \A c \in Chunks : /\ Content[c].tokens \in [Tokens -> Nat]
                      /\ Content[c].year \in Nat
ASSUME BoundsAssumption ==
    VectorK \in Nat /\ KeywordK \in Nat /\ FinalK \in Nat /\ RrfK \in Nat

VARIABLES
    vectors,     \* InMemoryVectorBackend._ids
    keywords,    \* InMemoryKeywordBackend._ids
    docFreq,     \* its _doc_freq: term -> number of documents
    totalDocs,   \* its _total_docs
    cache,       \* HybridRetriever._cache
    last         \* the call of retrieve that just returned: input, hits and answer

vars == <<vectors, keywords, docFreq, totalDocs, cache, last>>

Nothing == [asked |-> FALSE]
-----------------------------------------------------------------------------
\* The two back ends.

Has(c, t) == Content[c].tokens[t] > 0

MatchesBoth(c, f) ==
    /\ f.chapters # {} => f.chapters \cap Content[c].chapters # {}
    /\ c \notin f.excluded
    /\ (f.year # 0 /\ Content[c].year # 0) => f.year = Content[c].year

\* The metadata the retriever stores has no knowledge_point_ids and no
\* question_type: the first filter drops every chunk, the second none.
VectorMatches(c, f) == f = NoFilter \/ (MatchesBoth(c, f) /\ f.points = {})

\* The keyword back end does not look at knowledge points at all.
KeywordMatches(c, f) == f = NoFilter \/ MatchesBoth(c, f)

\* Each term's idf is positive exactly when df <= total_docs.
Scores(c, q) == \E t \in q.words : Has(c, t) /\ docFreq[t] \in 1..totalDocs

FirstOf(s, k) == [i \in DOMAIN s \cap (1 .. k) |-> s[i]]

\* The rows of the elements of S that are in the order Before.
Sorted(S, Before(_, _)) ==
    {s \in SetToSeqs(S) : \A i, j \in DOMAIN s : i < j => Before(s[i], s[j])}

\* The possible hit lists: the matching chunks in the order of their values.
VectorHits(q, f) ==
    {FirstOf(s, VectorK) : s \in SetToSeqs(
        {c \in vectors : q.embedded /\ VectorMatches(c, f)})}

KeywordHits(q, f) ==
    {FirstOf(s, KeywordK) : s \in SetToSeqs(
        {c \in keywords : KeywordMatches(c, f) /\ Scores(c, q)})}
-----------------------------------------------------------------------------
\* rrf_fusion: score(d) = sum of 1 / (k + rank), a fraction.

Rank(s, c) == CHOOSE i \in DOMAIN s : s[i] = c

Part(s, c) == [num |-> 1, den |-> RrfK + Rank(s, c)]

Plus(x, y) == [num |-> x.num * y.den + y.num * x.den, den |-> x.den * y.den]

Above(x, y) == x.num * y.den > y.num * x.den

\* Mutation: the keyword rank replaces the vector rank.
PartsOverwritten(v, w, c) == IF c \in ToSet(w) THEN Part(w, c) ELSE Part(v, c)

PartsOf(v, w, c) ==
    CASE c \notin ToSet(w) -> Part(v, c)
      [] c \notin ToSet(v) -> Part(w, c)
      [] OTHER -> Plus(Part(v, c), Part(w, c))

Score(v, w, c) == PartsOf(v, w, c)

\* The order of the dict scores: the vector hits, then the other ones.
InsertedBefore(v, w, a, b) ==
    IF a \in ToSet(v) THEN b \in ToSet(v) => Rank(v, a) < Rank(v, b)
                      ELSE b \notin ToSet(v) /\ Rank(w, a) < Rank(w, b)

\* sorted() is stable: equal scores keep the order of insertion.
Precedes(v, w, a, b) ==
    \/ Above(Score(v, w, a), Score(v, w, b))
    \/ ~Above(Score(v, w, b), Score(v, w, a)) /\ InsertedBefore(v, w, a, b)

Fused(v, w) ==
    Sorted(ToSet(v) \cup ToSet(w), LAMBDA a, b : Precedes(v, w, a, b))

\* The hits that the role may see, in their order, and the first of them.
Visible(hits, role) == {i \in DOMAIN hits : Content[hits[i]].staff => role = "admin"}

SourceRefs(hits, role) ==
    {[n \in DOMAIN places \cap (1 .. FinalK) |-> hits[places[n]]] :
        places \in Sorted(Visible(hits, role), LAMBDA i, j : i < j)}
-----------------------------------------------------------------------------
\* judge_sufficiency: the first rule that fails, in the order of the code.

\* _is_staff_only reads the excerpt, not the visibility
Public(refs) == {c \in ToSet(refs) : ~Content[c].marked}

TooWeak(score) == 20 * score.num < score.den  \* max_score < 0.05

Pictured(refs) == \E c \in Public(refs) : Content[c].figure /\ ~Content[c].paged

Conflicting(refs) ==
    LET denying == {c \in Public(refs) : Content[c].denies}
    IN  /\ Cardinality(Public(refs)) >= 3
        /\ Cardinality(denying) >= 2
        /\ Cardinality({Content[c].document : c \in denying}) >= 2

Verdict(v, w, refs, q) ==
    CASE refs = <<>> -> "no_results"
      [] refs # <<>> /\ Public(refs) = {} -> "staff_only"
      [] OTHER ->
         IF \A c \in Public(refs) : TooWeak(Score(v, w, c)) THEN "topic_mismatch"
         ELSE IF q.computes /\ \A c \in Public(refs) : ~Content[c].numeric
              THEN "missing_condition"
         ELSE IF q.visual /\ Pictured(refs) THEN "image_unavailable"
         ELSE IF Conflicting(refs) THEN "conflicting" ELSE "sufficient"
-----------------------------------------------------------------------------
Init ==
    /\ vectors = {} /\ keywords = {}
    /\ docFreq = [t \in Tokens |-> 0] /\ totalDocs = 0
    /\ cache = << >> /\ last = Nothing

\* index_chunks, for one chunk: both back ends get it
Index(c) ==
    /\ c \notin vectors \cup keywords
    /\ vectors' = vectors \cup {c}
    /\ keywords' = keywords \cup {c}
    /\ docFreq' = [t \in Tokens |-> docFreq[t] + (IF Has(c, t) THEN 1 ELSE 0)]
    /\ totalDocs' = totalDocs + 1
    /\ last' = Nothing
    /\ UNCHANGED cache

RemoveVector(c) ==
    /\ c \in vectors
    /\ vectors' = vectors \ {c}
    /\ last' = Nothing
    /\ UNCHANGED <<keywords, docFreq, totalDocs, cache>>

\* remove takes each term of the document once out of the statistics
Without(c) == [t \in Tokens |-> docFreq[t] - (IF Has(c, t) THEN 1 ELSE 0)]

\* Mutation: once per occurrence.
WithoutOccurrences(c) ==
    [t \in Tokens |-> IF docFreq[t] > Content[c].tokens[t]
                      THEN docFreq[t] - Content[c].tokens[t] ELSE 0]

FreqAfterRemove(c) == Without(c)

RemoveKeyword(c) ==
    /\ c \in keywords
    /\ keywords' = keywords \ {c}
    /\ docFreq' = FreqAfterRemove(c)
    /\ totalDocs' = totalDocs - 1
    /\ last' = Nothing
    /\ UNCHANGED <<vectors, cache>>

\* Mutation: the filters are left out.
KeyOfQuery(q, f) == <<q.text, NoFilter>>

\* _cache_key: the query's text and the filters, and nothing else
CacheKey(q, f) == <<q.text, f>>

RetrieveCached(q, f, role) ==
    /\ CacheKey(q, f) \in DOMAIN cache
    /\ last' = [asked |-> TRUE, fresh |-> FALSE, query |-> q, filters |-> f,
                refs |-> cache[CacheKey(q, f)].refs,
                reason |-> cache[CacheKey(q, f)].reason]
    /\ UNCHANGED <<vectors, keywords, docFreq, totalDocs, cache>>

RetrieveFresh(q, f, role) ==
    /\ CacheKey(q, f) \notin DOMAIN cache
    /\ Cardinality(DOMAIN cache) < MaxCached
    /\ \E v \in VectorHits(q, f), w \in KeywordHits(q, f) :
       \E hits \in Fused(v, w) : \E refs \in SourceRefs(hits, role) :
         LET reason == Verdict(v, w, refs, q)
         IN  /\ last' = [asked |-> TRUE, fresh |-> TRUE, query |-> q, filters |-> f,
                         refs |-> refs, reason |-> reason,
                         vector |-> v, keyword |-> w]
             /\ cache' = [k \in DOMAIN cache \cup {CacheKey(q, f)} |->
                            IF k \in DOMAIN cache THEN cache[k]
                            ELSE [refs |-> refs, reason |-> reason]]
    /\ UNCHANGED <<vectors, keywords, docFreq, totalDocs>>

ClearCache ==
    /\ cache # << >>
    /\ cache' = << >>
    /\ last' = Nothing
    /\ UNCHANGED <<vectors, keywords, docFreq, totalDocs>>

Next ==
    \/ \E c \in Chunks : Index(c) \/ RemoveVector(c) \/ RemoveKeyword(c)
    \/ \E q \in Queries, f \in Filters \cup {NoFilter}, role \in Roles :
         RetrieveCached(q, f, role) \/ RetrieveFresh(q, f, role)
    \/ ClearCache

Spec == Init /\ [][Next]_vars
-----------------------------------------------------------------------------
(***************************************************************************)
(* After any sequence of add and remove, the document frequency of a term  *)
(* is the number of documents that hold it and the total is the number of  *)
(* documents: a term counted too often makes its idf negative, one counted *)
(* too rarely makes documents that hold it unfindable.                     *)
(***************************************************************************)
StatisticsFollowIndex ==
    /\ totalDocs = Cardinality(keywords)
    /\ \A t \in Tokens : docFreq[t] = Cardinality({c \in keywords : Has(c, t)})

(***************************************************************************)
(* Whatever was asked before, an answer (cached ones too) respects the     *)
(* filters of its own question: chapters, excluded chunks and year.        *)
(***************************************************************************)
AnswersObeyTheirFilters ==
    (last.asked /\ last.filters # NoFilter) =>
        \A c \in ToSet(last.refs) : MatchesBoth(c, last.filters)

(***************************************************************************)
(* Fusion prefers agreement: of two references, the one both searches      *)
(* found precedes the one only one found, and of two that both found, one  *)
(* that both rank better precedes.                                         *)
(***************************************************************************)
FusionPrefersAgreement ==
    (last.asked /\ last.fresh) =>
        LET v == last.vector
            w == last.keyword
            Both(c) == c \in ToSet(v) \cap ToSet(w)
        IN  \A i, j \in DOMAIN last.refs :
              LET a == last.refs[i]
                  b == last.refs[j]
              IN  ( /\ Both(a)
                    /\ Both(b) => Rank(v, a) < Rank(v, b) /\ Rank(w, a) < Rank(w, b)
                    /\ a # b ) => i < j

(***************************************************************************)
(* A question that is neither a computation nor about a picture, whose     *)
(* best vector hit and best keyword hit are the same public chunk, is      *)
(* judged sufficient (or conflicting) - what the test named for it says.   *)
(***************************************************************************)
RelevantIsSufficient ==
    ( /\ last.asked /\ last.fresh
      /\ ~last.query.computes /\ ~last.query.visual
      /\ last.vector # <<>> /\ last.keyword # <<>>
      /\ last.vector[1] = last.keyword[1]
      /\ last.vector[1] \in ToSet(last.refs)
      /\ ~Content[last.vector[1]].marked )
        => last.reason \in {"sufficient", "conflicting"}
=============================================================================
