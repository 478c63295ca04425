--------------------------- MODULE RunnerContract ---------------------------
(***************************************************************************)
(* What AgentRunnerService relies on in one call of a runner: any number   *)
(* of events, then at most one return, of a result that MayReturn allows.  *)
(* AgentRun takes its runner to be this and no more.                       *)
(***************************************************************************)
EXTENDS RunState

VARIABLES
    emitted,    \* has the runner published an event?
    outcome,    \* how it has returned, "none" before
    again       \* AgentRunResult.retryable

vars == <<emitted, outcome, again>>

Init ==
    /\ emitted = FALSE
    /\ outcome = "none"
    /\ again = FALSE

Emit ==
    /\ outcome = "none"
    /\ emitted' = TRUE
    /\ UNCHANGED <<outcome, again>>

Return ==
    /\ outcome = "none"
    /\ outcome' \in {"answered", "silent", "failed"}
    /\ again' \in BOOLEAN
    /\ MayReturn(emitted, outcome', again')
    /\ UNCHANGED emitted

Next == Emit \/ Return

Spec == Init /\ [][Next]_vars

=============================================================================
