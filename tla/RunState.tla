------------------------------ MODULE RunState ------------------------------
(***************************************************************************)
(* The status constants of agent_runs and the table of valid transitions   *)
(* (apps/api/db/models/run_state.py).  "absent" stands for a run whose row *)
(* has not been inserted yet.                                              *)
(***************************************************************************)

ALL_STATUSES == {"queued", "running", "completed", "failed", "cancelled"}

Status == ALL_STATUSES \union {"absent"}

\* VALID_TRANSITIONS.get(current, set()): "absent" has no entry.
VALID_TRANSITIONS ==
    [current \in Status |->
        CASE current = "queued"  -> {"running"}
          [] current = "running" -> {"completed", "failed", "cancelled"}
          [] current = "failed"  -> {"queued"}
          [] OTHER               -> {}]

\* validate_transition raises ValueError when this is FALSE.
ValidTransition(current, target) == target \in VALID_TRANSITIONS[current]

Terminal == {"completed", "failed", "cancelled"}

\* What AgentRunnerProtocol.run may return: a success, with a public_response
\* ("answered") or without ("silent"), only after it has published an event; a
\* failure at any time, and only a failure says whether to try again.
MayReturn(emitted, outcome, again) ==
    /\ outcome \in {"answered", "silent", "failed"}
    /\ outcome # "failed" => emitted /\ ~again

=============================================================================
