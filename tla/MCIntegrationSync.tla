------------------------- MODULE MCIntegrationSync -------------------------
(* Instances of IntegrationSync small enough for TLC. *)
EXTENDS IntegrationSync, TLC

NoOps == {}
TriggerOnly == {"trigger"}
Requests == {"trigger", "revoke"}
AllOps == {"reconnect", "revoke", "trigger", "delete", "rotate"}

\* Processes, rows, tasks and tokens are interchangeable (safety runs only).
Symmetry == Permutations(Procs) \cup Permutations(RunIds) \cup Permutations(TaskIds)
              \cup Permutations(Tokens)
=============================================================================
