----------------------------- MODULE MCAgentRun -----------------------------
(* Instances of AgentRun for TLC.                                          *)
EXTENDS AgentRun, TLC

CONSTANTS r1, r2, t1, t2, t3, q1, q2

Symmetry == Permutations(Tasks) \union Permutations(Requests) \union Permutations(Runs)

=============================================================================
