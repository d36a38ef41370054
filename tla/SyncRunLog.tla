----------------------------- MODULE SyncRunLog -----------------------------
(***************************************************************************)
(* What the sync_runs table promises to the dashboard, whoever writes it:  *)
(* a row is recorded by one sync at a time, ends as a success or a         *)
(* failure, and a success is final.  A row may be given up while its sync  *)
(* still runs (a reaper cannot tell a slow sync from a dead one); then     *)
(* only that sync may still have the last word.  A sync that dies leaves   *)
(* its row to the reaper.  IntegrationSync implements this.                *)
(***************************************************************************)
CONSTANT RunIds      \* rows of sync_runs

VARIABLES
  status,            \* the status column of each row
  recorded           \* the rows whose sync is still alive

logVars == <<status, recorded>>

LogInit ==
  /\ status = [r \in RunIds |-> "none"]
  /\ recorded = {}

\* A row nobody records any more stands for a new one.
Begin(r) ==
  /\ r \notin recorded
  /\ status' = [status EXCEPT ![r] = "running"]
  /\ recorded' = recorded \cup {r}

End(r, verdict) ==
  /\ r \in recorded /\ status[r] # "success"
  /\ status' = [status EXCEPT ![r] = verdict]
  /\ recorded' = recorded \ {r}

GiveUp(R) ==
  /\ \A r \in R : status[r] = "running"
  /\ status' = [r \in RunIds |-> IF r \in R THEN "failed" ELSE status[r]]
  /\ UNCHANGED recorded

\* The process that was recording the rows R dies.
Abandon(R) ==
  /\ recorded' = recorded \ R
  /\ UNCHANGED status

LogNext ==
  \/ \E R \in SUBSET RunIds : Abandon(R) \/ GiveUp(R)
  \/ \E r \in RunIds : Begin(r)
  \/ \E r \in RunIds, verdict \in {"success", "failed"} : End(r, verdict)

LogSpec == LogInit /\ [][LogNext]_logVars
=============================================================================
