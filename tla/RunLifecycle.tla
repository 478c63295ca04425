---------------------------- MODULE RunLifecycle ----------------------------
(***************************************************************************)
(* What a reader of the database may see of an agent run: a status that    *)
(* moves along the transition table of run_state.py, and an answer in the  *)
(* chat that appears in the very step that completes the run.  Three moves *)
(* are made by code that does not consult the table and are named here:    *)
(* the insertion of the row, the recovery of a running row after a         *)
(* restart, and the failure of a run before its first commit as running.   *)
(***************************************************************************)
EXTENDS RunState

CONSTANT Runs

VARIABLES
    status,     \* status[r]: committed agent_runs.status
    answered    \* answered[r]: the chat holds an assistant message of r

vars == <<status, answered>>

TypeOK ==
    /\ status \in [Runs -> Status]
    /\ answered \in [Runs -> BOOLEAN]

Init ==
    /\ status = [r \in Runs |-> "absent"]
    /\ answered = [r \in Runs |-> FALSE]

UnvalidatedMove ==
    {<<"absent", "queued">>, <<"running", "queued">>, <<"queued", "failed">>}

\* One run moves; the other runs keep their status.
Move(r) ==
    \E target \in ALL_STATUSES :
        /\ \/ ValidTransition(status[r], target)
           \/ <<status[r], target>> \in UnvalidatedMove
        /\ status' = [status EXCEPT ![r] = target]
        /\ \/ UNCHANGED answered
           \/ /\ target = "completed"
              /\ answered' = [answered EXCEPT ![r] = TRUE]

\* A restart puts every running run back in the queue at once.
RecoverAll ==
    /\ status' = [r \in Runs |-> IF status[r] = "running" THEN "queued"
                                                          ELSE status[r]]
    /\ UNCHANGED answered

Next == RecoverAll \/ \E r \in Runs : Move(r)

Spec == Init /\ [][Next]_vars

=============================================================================
