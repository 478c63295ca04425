------------------------------ MODULE MCRetrieval ------------------------------
(***************************************************************************)
(* Three chunks of two documents: "wave" is public and says its term       *)
(* twice, "table" is public, of another chapter and year and shares both   *)
(* terms, "key" is for staff and carries the answer marker.                *)
(***************************************************************************)
EXTENDS Retrieval

MCChunks == {"wave", "table", "key"}
MCTokens == {"interference", "slit"}

Held(n, m) == [t \in MCTokens |-> IF t = "interference" THEN n ELSE m]

MCContent == [c \in MCChunks |->
    [tokens   |-> CASE c = "wave" -> Held(2, 0) [] c = "table" -> Held(1, 1)
                    [] OTHER -> Held(0, 1),
     chapters |-> IF c = "table" THEN {"II"} ELSE {"I"},
     year     |-> IF c = "table" THEN 2023 ELSE 0,
     staff    |-> c = "key",
     marked   |-> c = "key",
     numeric  |-> c = "table",
     figure   |-> c = "wave",
     paged    |-> c # "wave",
     denies   |-> TRUE,
     document |-> IF c = "table" THEN "notes" ELSE "exam"]]

Query(text, words, embedded, computes, visual) ==
    [text |-> text, words |-> words, embedded |-> embedded,
     computes |-> computes, visual |-> visual]

MCQueries == {Query("both", MCTokens, TRUE, FALSE, FALSE),
              Query("both", MCTokens, FALSE, FALSE, FALSE),
              Query("compute", {"interference"}, TRUE, TRUE, FALSE),
              Query("see", {"interference"}, TRUE, FALSE, TRUE)}

MCFilters == {[chapters |-> {"I"}, excluded |-> {}, year |-> 0, points |-> {}],
              [chapters |-> {}, excluded |-> {"wave"}, year |-> 2022, points |-> {}],
              [chapters |-> {}, excluded |-> {}, year |-> 0, points |-> {"p"}]}
MCNoFilter == [chapters |-> {}, excluded |-> {}, year |-> 0, points |-> {"none"}]
MCRoles == {"member", "admin"}
=============================================================================
