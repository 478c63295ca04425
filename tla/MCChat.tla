-------------------------------- MODULE MCChat ---------------------------------
(***************************************************************************)
(* Two questions: of one tab, where the second may come at any moment of   *)
(* the first, or of two tabs on the same session.                          *)
(***************************************************************************)
EXTENDS Chat

MCTabs == {"left", "right"}
MCRuns == 1..2
OneTab == [r \in MCRuns |-> "left"]
TwoTabs == [r \in MCRuns |-> IF r = 1 THEN "left" ELSE "right"]
=============================================================================
