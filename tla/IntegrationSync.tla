-------------------------- MODULE IntegrationSync --------------------------
(***************************************************************************)
(* One connected provider (one row of the integrations table) and all that *)
(* reads or writes it: the asynq workers that run syncs, the sync_runs     *)
(* rows they record, the scheduler and the start-up recovery of each       *)
(* worker process, and the API calls of the user.                          *)
(*                                                                         *)
(* Every database statement, queue operation and provider call of the      *)
(* code is a step of its own; what happens between two of them is local.   *)
(* Rows, sync runs and HasRunning are keyed by the integration's id, so    *)
(* two connections share nothing but the workers.                          *)
(*                                                                         *)
(* External: asynq (at-least-once delivery, a lease on each active task,   *)
(* MaxRetry attempts) and the provider (which tokens it accepts, what a    *)
(* call answers), modelled by what the code relies on.                     *)
(***************************************************************************)
EXTENDS Naturals

CONSTANTS
  Procs,         \* worker processes (cmd/worker, or an API with EmbedWorker)
  Slots,         \* concurrent handlers of one process (asynq Concurrency)
  RunIds,        \* sync_runs rows that can matter at one time
  TaskIds,       \* integration:sync tasks that can be queued at one time
  Tokens,        \* credentials a provider may issue
  Wiped,         \* the "{}" Revoke leaves in place of the credentials
  NoRun, NoTask, \* "no row", "no task"
  MaxRetry,      \* asynq attempts after the first one
  MaxCrashes,    \* bound on process crashes
  MaxFaults,     \* bound on database statements and enqueues that fail
  UserOps        \* the API operations the environment uses

ASSUME BoundsAssumption ==
  /\ MaxRetry \in Nat
  /\ MaxCrashes \in Nat
  /\ MaxFaults \in Nat
  /\ UserOps \subseteq {"reconnect", "revoke", "trigger", "webhook", "delete", "rotate"}

ASSUME NullAssumption ==
  /\ Wiped \notin Tokens
  /\ NoRun \notin RunIds
  /\ NoTask \notin TaskIds

VARIABLES
  conn,      \* the integrations row: status, cred, due (last_sync_at is old)
  runs,      \* the sync_runs table
  tasks,     \* the asynq queue
  wk,        \* what each handler slot is doing
  sched,     \* where each process's scheduler goroutine is
  accepted,  \* the tokens the provider accepts
  rotation,  \* the row RotateCredentials has read and not yet saved
  request,   \* the row Connect or Revoke has read, changed and not yet saved
  crashes,   \* crashes so far
  faults     \* failed statements and enqueues so far

vars == <<conn, runs, tasks, wk, sched, accepted, rotation, request, crashes, faults>>

Workers == Procs \X Slots
Creds == Tokens \cup {Wiped}

Statuses == {"none", "syncing", "active", "retrying", "expired", "error",
             "revoked", "deleted"}
Connection == [status : Statuses, cred : Creds, due : BOOLEAN]
NoRow == [status |-> "none", cred |-> Wiped, due |-> TRUE]

Run == [st : {"none", "running", "success", "failed"}, old : BOOLEAN]

Task == [st : {"free", "pending", "active"}, left : 0 .. MaxRetry]
FreeTask == [st |-> "free", left |-> 0]

Outcomes == {"none", "success", "expired", "retrying", "error", "fault"}
Steps == {"idle", "load", "check", "start", "sync", "refresh", "rotate",
          "resync", "mark", "finish", "settle"}
Slot == [pc : Steps, task : TaskIds \cup {NoTask}, run : RunIds \cup {NoRun},
         cred : Creds, out : Outcomes]
IdleSlot == [pc |-> "idle", task |-> NoTask, run |-> NoRun,
             cred |-> Wiped, out |-> "none"]

SchedSteps == {"down", "reap", "scan", "requeue", "idle", "due"}

TypeOK ==
  /\ conn \in Connection
  /\ runs \in [RunIds -> Run]
  /\ tasks \in [TaskIds -> Task]
  /\ wk \in [Workers -> Slot]
  /\ sched \in [Procs -> SchedSteps]
  /\ accepted \subseteq Tokens
  /\ rotation \in Connection
  /\ request \in Connection
  /\ crashes \in 0 .. MaxCrashes
  /\ faults \in 0 .. MaxFaults

Exists == conn.status \notin {"none", "deleted"}

\* Tokens nobody holds: what the provider issues is new.
Unused(t) ==
  /\ t \notin accepted
  /\ t # conn.cred
  /\ t # rotation.cred
  /\ t # request.cred
  /\ \A w \in Workers : wk[w].cred # t

\* Mutant: no staleRunThreshold, a crashed run counts for ever.
HasRunning_NoCutoff == \E r \in RunIds : runs[r].st = "running"

(* HasRunning: a row still "running" and younger than staleRunThreshold. *)
HasRunning == \E r \in RunIds : runs[r].st = "running" /\ ~runs[r].old

Holds(w, r) == wk[w].run = r

\* A row that nobody holds, and that is finished or stale, is read by nothing but
\* the reaper: its id may stand for the next row.
Reusable(r) ==
  /\ runs[r].st = "running" => runs[r].old
  /\ \A w \in Workers : ~Holds(w, r)

\* A database statement or an enqueue fails.
Fault == faults < MaxFaults /\ faults' = faults + 1

\* The status each outcome of the runner writes to the row.
StatusOf(out) == CASE out = "success"  -> "active"
                   [] out = "expired"  -> "expired"
                   [] out = "retrying" -> "retrying"
                   [] OTHER            -> "error"

Init ==
  /\ conn = NoRow
  /\ runs = [r \in RunIds |-> [st |-> "none", old |-> FALSE]]
  /\ tasks = [t \in TaskIds |-> FreeTask]
  /\ wk = [w \in Workers |-> IdleSlot]
  /\ sched = [p \in Procs |-> "reap"]
  /\ accepted = {}
  /\ rotation = NoRow
  /\ request = NoRow
  /\ crashes = 0
  /\ faults = 0

(***************************************************************************)
(* The queue                                                               *)
(***************************************************************************)

\* Mutant: the first attempt is counted as a retry.
Enqueue_ExtraAttempt ==
  \/ \E t \in TaskIds :
       /\ tasks[t].st = "free"
       /\ tasks' = [tasks EXCEPT ![t] = [st |-> "pending", left |-> MaxRetry + 1]]
  \/ (\A t \in TaskIds : tasks[t].st # "free") /\ UNCHANGED tasks

\* Client.Enqueue: one more pending task with all its attempts.  Bound: when
\* every TaskId is in use, the task that would be one more of the same kind
\* is not added.
Enqueue ==
  \/ \E t \in TaskIds :
       /\ tasks[t].st = "free"
       /\ tasks' = [tasks EXCEPT ![t] = [st |-> "pending", left |-> MaxRetry]]
  \/ (\A t \in TaskIds : tasks[t].st # "free") /\ UNCHANGED tasks

EnqueueFails == Fault /\ UNCHANGED tasks

\* asynq's verdict on a failed attempt: another one, or the archive.
Requeued(task) == IF task.left > 0
                  THEN [st |-> "pending", left |-> task.left - 1]
                  ELSE FreeTask

\* Mutant: the asynq server is started before the recovery has run.
Dequeue_BeforeRecovery(w, t) ==
  /\ sched[w[1]] # "down"
  /\ wk[w].pc = "idle"
  /\ tasks[t].st = "pending"
  /\ tasks' = [tasks EXCEPT ![t].st = "active"]
  /\ wk' = [wk EXCEPT ![w] = [IdleSlot EXCEPT !.pc = "load", !.task = t]]
  /\ UNCHANGED <<conn, runs, sched, accepted, rotation, request, crashes, faults>>

Dequeue(w, t) ==
  /\ sched[w[1]] \in {"idle", "due"}
  /\ wk[w].pc = "idle"
  /\ tasks[t].st = "pending"
  /\ tasks' = [tasks EXCEPT ![t].st = "active"]
  /\ wk' = [wk EXCEPT ![w] = [IdleSlot EXCEPT !.pc = "load", !.task = t]]
  /\ UNCHANGED <<conn, runs, sched, accepted, rotation, request, crashes, faults>>

\* The lease of a task whose handler died with its process expires.
LeaseExpires(t) ==
  /\ tasks[t].st = "active"
  /\ \A w \in Workers : wk[w].task # t
  /\ tasks' = [tasks EXCEPT ![t] = Requeued(@)]
  /\ UNCHANGED <<conn, runs, wk, sched, accepted, rotation, request, crashes, faults>>

(***************************************************************************)
(* integrationSyncRunner.run, step by step                                 *)
(***************************************************************************)

Goto(w, pc) == wk' = [wk EXCEPT ![w].pc = pc]
Conclude(w, out, pc) == wk' = [wk EXCEPT ![w].out = out, ![w].pc = pc]

\* The row is read once; everything below works on this copy.  A row that is
\* gone ends the task for good (asynq.SkipRetry).
Load(w) ==
  /\ wk[w].pc = "load"
  /\ IF Exists
     THEN /\ wk' = [wk EXCEPT ![w].cred = conn.cred, ![w].pc = "check"]
          /\ UNCHANGED tasks
     ELSE /\ tasks' = [tasks EXCEPT ![wk[w].task] = FreeTask]
          /\ wk' = [wk EXCEPT ![w] = IdleSlot]
  /\ UNCHANGED <<conn, runs, sched, accepted, rotation, request, crashes, faults>>

\* A sync already in flight: the task is done without doing anything.
CheckRunning(w) ==
  /\ wk[w].pc = "check"
  /\ IF HasRunning THEN Conclude(w, "success", "settle") ELSE Goto(w, "start")
  /\ UNCHANGED <<conn, runs, tasks, sched, accepted, rotation, request, crashes, faults>>

\* Mutant: undecryptable credentials do not end the run.
StartRun_IgnoresDecrypt(w) ==
  /\ wk[w].pc = "start"
  /\ \E r \in RunIds :
       /\ Reusable(r)
       /\ runs' = [runs EXCEPT ![r] = [st |-> "running", old |-> FALSE]]
       /\ wk' = [wk EXCEPT ![w].run = r, ![w].pc = "sync"]
  /\ UNCHANGED <<conn, tasks, sched, accepted, rotation, request, crashes, faults>>

\* The credentials are decrypted locally after Start, whether or not it failed.
AfterStart(w, run) ==
  LET wiped == wk[w].cred = Wiped
  IN wk' = [wk EXCEPT ![w].run = run,
                      ![w].out = IF wiped THEN "fault" ELSE "none",
                      ![w].pc  = IF wiped THEN "finish" ELSE "sync"]

\* SyncRunRepository.Start.
StartRun(w) ==
  /\ wk[w].pc = "start"
  /\ \E r \in RunIds :
       /\ Reusable(r)
       /\ runs' = [runs EXCEPT ![r] = [st |-> "running", old |-> FALSE]]
       /\ AfterStart(w, r)
  /\ UNCHANGED <<conn, tasks, sched, accepted, rotation, request, crashes, faults>>

\* What client.Sync answers to a token: AuthExpired exactly when the provider
\* rejects it.  "fault" stands for a sync whose results could not be ingested.
Answers(token) == IF token \in accepted
                  THEN {"success", "retrying", "error", "fault"}
                  ELSE {"expired"}

\* After a call: the row is marked first and the run finished second, except
\* that a fault finishes the run first.
AfterSync(w, out) ==
  Conclude(w, out, IF out = "fault" THEN "finish" ELSE "mark")

SyncCall(w) ==
  /\ wk[w].pc = "sync"
  /\ \E out \in Answers(wk[w].cred) :
       IF out = "expired" THEN Goto(w, "refresh") ELSE AfterSync(w, out)
  /\ UNCHANGED <<conn, runs, tasks, sched, accepted, rotation, request, crashes, faults>>

\* tryRefresh: the provider trades the token for a new one, or refuses.
RefreshCall(w) ==
  /\ wk[w].pc = "refresh"
  /\ \/ \E t \in Tokens :
          /\ Unused(t)
          /\ accepted' = (accepted \ {wk[w].cred}) \cup {t}
          /\ wk' = [wk EXCEPT ![w].cred = t, ![w].pc = "rotate"]
     \/ /\ Conclude(w, "expired", "mark")
        /\ UNCHANGED accepted
  /\ UNCHANGED <<conn, runs, tasks, sched, rotation, request, crashes, faults>>

\* UPDATE integrations SET credentials: any status, but not a deleted row.
SaveRefreshed(w) ==
  /\ wk[w].pc = "rotate"
  /\ conn' = IF Exists THEN [conn EXCEPT !.cred = wk[w].cred] ELSE conn
  /\ Goto(w, "resync")
  /\ UNCHANGED <<runs, tasks, sched, accepted, rotation, request, crashes, faults>>

SyncAgain(w) ==
  /\ wk[w].pc = "resync"
  /\ \E out \in Answers(wk[w].cred) : AfterSync(w, out)
  /\ UNCHANGED <<conn, runs, tasks, sched, accepted, rotation, request, crashes, faults>>

\* The unconditional UPDATE of status (and, on success, last_sync_at).
MarkRow(w) ==
  /\ wk[w].pc = "mark"
  /\ conn' = IF Exists
             THEN [conn EXCEPT !.status = StatusOf(wk[w].out),
                               !.due = @ /\ wk[w].out # "success"]
             ELSE conn
  /\ Goto(w, IF wk[w].out = "fault" THEN "settle" ELSE "finish")
  /\ UNCHANGED <<runs, tasks, sched, accepted, rotation, request, crashes, faults>>

\* finishRun: by id, whatever the row says by now, if Start made a row.
FinishRun(w) ==
  /\ wk[w].pc = "finish"
  /\ runs' = IF wk[w].run = NoRun THEN runs
             ELSE [runs EXCEPT ![wk[w].run].st =
                     IF wk[w].out = "success" THEN "success" ELSE "failed"]
  /\ wk' = [wk EXCEPT ![w].run = NoRun,
                      ![w].pc = IF wk[w].out = "fault" THEN "mark" ELSE "settle"]
  /\ UNCHANGED <<conn, tasks, sched, accepted, rotation, request, crashes, faults>>

\* The handler returns: nil and SkipRetry end the task, an error retries it.
Settle(w) ==
  /\ wk[w].pc = "settle"
  /\ tasks' = [tasks EXCEPT ![wk[w].task] =
                 IF wk[w].out \in {"success", "expired"}
                 THEN FreeTask ELSE Requeued(@)]
  /\ wk' = [wk EXCEPT ![w] = IdleSlot]
  /\ UNCHANGED <<conn, runs, sched, accepted, rotation, request, crashes, faults>>

(***************************************************************************)
(* The same statements when they fail.  Only the first one and the saving  *)
(* of refreshed credentials look at their error; the others are ignored    *)
(* and the sync goes on.                                                   *)
(***************************************************************************)

LoadFails(w) == wk[w].pc = "load" /\ Conclude(w, "error", "settle")

\* `err == nil && running`: a failed HasRunning lets the sync through.
CheckFails(w) == wk[w].pc = "check" /\ Goto(w, "start")

\* A failed Start: the sync goes on without a sync_runs row.
StartFails(w) == wk[w].pc = "start" /\ AfterStart(w, NoRun)

\* The refreshed token is lost, and the sync ends as expired.
SaveRefreshedFails(w) == wk[w].pc = "rotate" /\ Conclude(w, "expired", "mark")

\* A failed update of the status: the row keeps the one it had.
MarkFails(w) ==
  /\ wk[w].pc = "mark"
  /\ Goto(w, IF wk[w].out = "fault" THEN "settle" ELSE "finish")

\* A failed Finish: the row stays "running", and nobody holds it any more.
FinishFails(w) ==
  /\ wk[w].pc = "finish" /\ wk[w].run # NoRun
  /\ wk' = [wk EXCEPT ![w].run = NoRun,
                      ![w].pc = IF wk[w].out = "fault" THEN "mark" ELSE "settle"]

RunnerFault(w) ==
  /\ \/ LoadFails(w) \/ CheckFails(w) \/ StartFails(w)
     \/ SaveRefreshedFails(w) \/ MarkFails(w) \/ FinishFails(w)
  /\ Fault
  /\ UNCHANGED <<conn, runs, tasks, sched, accepted, rotation, request, crashes>>

(***************************************************************************)
(* The scheduler goroutine and the recovery at start-up                    *)
(***************************************************************************)

SchedGoto(p, s) == sched' = [sched EXCEPT ![p] = s]

\* Mutants: the reaper's WHERE without started_at, and without status.
Reap_AnyRunning(p) ==
  /\ sched[p] = "reap"
  /\ runs' = [r \in RunIds |-> IF runs[r].st = "running"
                               THEN [runs[r] EXCEPT !.st = "failed"]
                               ELSE runs[r]]
  /\ SchedGoto(p, "scan")
  /\ UNCHANGED <<conn, tasks, wk, accepted, rotation, request, crashes, faults>>

Reap_AnyStatus(p) ==
  /\ sched[p] = "reap"
  /\ runs' = [r \in RunIds |-> IF runs[r].old
                               THEN [runs[r] EXCEPT !.st = "failed"]
                               ELSE runs[r]]
  /\ SchedGoto(p, "scan")
  /\ UNCHANGED <<conn, tasks, wk, accepted, rotation, request, crashes, faults>>

\* ReapStaleRuns: every stale "running" row becomes "failed".
Reap(p) ==
  /\ sched[p] = "reap"
  /\ runs' = [r \in RunIds |-> IF runs[r].st = "running" /\ runs[r].old
                               THEN [runs[r] EXCEPT !.st = "failed"]
                               ELSE runs[r]]
  /\ SchedGoto(p, "scan")
  /\ UNCHANGED <<conn, tasks, wk, accepted, rotation, request, crashes, faults>>

\* Mutant: the scan only when a run was reaped.
Scan_OnlyIfReaped(p) ==
  /\ sched[p] = "scan"
  /\ SchedGoto(p, IF /\ conn.status \in {"syncing", "retrying"}
                     /\ \E r \in RunIds : runs[r].st = "failed" /\ runs[r].old
                  THEN "requeue" ELSE "idle")
  /\ UNCHANGED <<conn, runs, tasks, wk, accepted, rotation, request, crashes, faults>>

\* RecoverStaleSyncs selects the integrations left syncing or retrying.
Scan(p) ==
  /\ sched[p] = "scan"
  /\ SchedGoto(p, IF conn.status \in {"syncing", "retrying"}
                  THEN "requeue" ELSE "idle")
  /\ UNCHANGED <<conn, runs, tasks, wk, accepted, rotation, request, crashes, faults>>

\* resyncDueIntegrations selects the active ones not synced recently.
TickSelects(p) ==
  /\ sched[p] = "idle"
  /\ conn.status = "active" /\ conn.due
  /\ SchedGoto(p, "due")
  /\ UNCHANGED <<conn, runs, tasks, wk, accepted, rotation, request, crashes, faults>>

\* Both then skip a connection with a run in flight and enqueue otherwise.
SchedEnqueues(p) ==
  /\ sched[p] \in {"requeue", "due"}
  /\ ~HasRunning
  /\ Enqueue
  /\ SchedGoto(p, "idle")
  /\ UNCHANGED <<conn, runs, wk, accepted, rotation, request, crashes, faults>>

SchedSkips(p) ==
  /\ sched[p] \in {"requeue", "due"}
  /\ HasRunning
  /\ SchedGoto(p, "idle")
  /\ UNCHANGED <<conn, runs, tasks, wk, accepted, rotation, request, crashes, faults>>

\* A failed reaping is logged and the scan goes on; a failed scan, HasRunning
\* or Enqueue leaves the connection as it is.
SchedFault(p) ==
  /\ \/ sched[p] = "reap" /\ SchedGoto(p, "scan")
     \/ sched[p] \in {"scan", "requeue", "due"} /\ SchedGoto(p, "idle")
  /\ Fault
  /\ UNCHANGED <<conn, runs, tasks, wk, accepted, rotation, request, crashes>>

(***************************************************************************)
(* The API process                                                         *)
(***************************************************************************)

\* The credentials of a Connect, which the provider has just validated.
Validated(t) == t \in Tokens /\ Unused(t) /\ accepted' = accepted \cup {t}

\* A row is saved; then the first sync is enqueued, or not.
Enqueued == (Enqueue /\ UNCHANGED faults) \/ EnqueueFails

\* IntegrationService.Connect of a provider that has no row yet.
ConnectNew ==
  /\ conn = NoRow
  /\ \E t \in Tokens :
       Validated(t) /\ conn' = [conn EXCEPT !.status = "syncing", !.cred = t]
  /\ Enqueued
  /\ UNCHANGED <<runs, wk, sched, rotation, request, crashes>>

\* Connect again, and Revoke: the row is read, and saved whole with its new
\* status and credentials, so that every other column goes back to what was
\* read.  A save that fails ends the request with nothing changed: here it is
\* one that never happens.  Bound: one such request at a time.
ConnectRead ==
  /\ "reconnect" \in UserOps /\ Exists
  /\ request = NoRow
  /\ \E t \in Tokens :
       Validated(t) /\ request' = [conn EXCEPT !.status = "syncing", !.cred = t]
  /\ UNCHANGED <<conn, runs, tasks, wk, sched, rotation, crashes, faults>>

ConnectSave ==
  /\ request.status = "syncing"
  /\ conn' = request
  /\ request' = NoRow
  /\ Enqueued
  /\ UNCHANGED <<runs, wk, sched, accepted, rotation, crashes>>

RevokeRead ==
  /\ "revoke" \in UserOps /\ Exists
  /\ request = NoRow
  /\ request' = [conn EXCEPT !.status = "revoked", !.cred = Wiped]
  /\ UNCHANGED <<conn, runs, tasks, wk, sched, accepted, rotation, crashes, faults>>

RevokeSave ==
  /\ request.status = "revoked"
  /\ conn' = request
  /\ request' = NoRow
  /\ UNCHANGED <<runs, tasks, wk, sched, accepted, rotation, crashes, faults>>

\* TriggerSync and EnqueueWebhookSync: any existing row, a revoked one too
\* ("{}" is not an empty credentials column).
RequestSync ==
  /\ {"trigger", "webhook"} \cap UserOps # {} /\ Exists
  /\ Enqueue
  /\ UNCHANGED <<conn, runs, wk, sched, accepted, rotation, request, crashes, faults>>

Delete ==
  /\ "delete" \in UserOps /\ Exists
  /\ conn' = [conn EXCEPT !.status = "deleted"]
  /\ UNCHANGED <<runs, tasks, wk, sched, accepted, rotation, request, crashes, faults>>

\* RotateCredentials lists the rows, and later saves each one whole with its
\* credentials encrypted again: every column goes back to what was read.
RotateRead ==
  /\ "rotate" \in UserOps /\ Exists
  /\ rotation = NoRow /\ conn.cred # Wiped
  /\ rotation' = conn
  /\ UNCHANGED <<conn, runs, tasks, wk, sched, accepted, request, crashes, faults>>

RotateSave ==
  /\ rotation # NoRow
  /\ conn' = rotation
  /\ rotation' = NoRow
  /\ UNCHANGED <<runs, tasks, wk, sched, accepted, request, crashes, faults>>

(***************************************************************************)
(* Time, the provider, crashes                                             *)
(***************************************************************************)

\* staleRunThreshold passes for a running row.
RunAges(r) ==
  /\ runs[r].st = "running" /\ ~runs[r].old
  /\ runs' = [runs EXCEPT ![r].old = TRUE]
  /\ UNCHANGED <<conn, tasks, wk, sched, accepted, rotation, request, crashes, faults>>

\* resyncInterval passes since the last successful sync.
BecomesDue ==
  /\ Exists /\ ~conn.due
  /\ conn' = [conn EXCEPT !.due = TRUE]
  /\ UNCHANGED <<runs, tasks, wk, sched, accepted, rotation, request, crashes, faults>>

\* The provider stops accepting a token.
TokenExpires(t) ==
  /\ t \in accepted
  /\ accepted' = accepted \ {t}
  /\ UNCHANGED <<conn, runs, tasks, wk, sched, rotation, request, crashes, faults>>

\* A worker process dies: its handlers and its scheduler are gone.
Crash(p) ==
  /\ sched[p] # "down" /\ crashes < MaxCrashes
  /\ crashes' = crashes + 1
  /\ sched' = [sched EXCEPT ![p] = "down"]
  /\ wk' = [w \in Workers |-> IF w[1] = p THEN IdleSlot ELSE wk[w]]
  /\ UNCHANGED <<conn, runs, tasks, accepted, rotation, request, faults>>

Restart(p) ==
  /\ sched[p] = "down"
  /\ SchedGoto(p, "reap")
  /\ UNCHANGED <<conn, runs, tasks, wk, accepted, rotation, request, crashes, faults>>

RunnerStep(w) ==
  \/ Load(w) \/ CheckRunning(w) \/ StartRun(w) \/ SyncCall(w)
  \/ RefreshCall(w) \/ SaveRefreshed(w) \/ SyncAgain(w)
  \/ MarkRow(w) \/ FinishRun(w) \/ Settle(w)

SchedStep(p) == Reap(p) \/ Scan(p) \/ TickSelects(p) \/ SchedSkips(p) \/ Restart(p)

UserStep ==
  \/ ConnectNew \/ ConnectRead \/ ConnectSave
  \/ RevokeRead \/ RevokeSave \/ RequestSync \/ Delete \/ RotateRead \/ RotateSave

Next ==
  \/ \E w \in Workers, t \in TaskIds : Dequeue(w, t)
  \/ \E t \in TaskIds : LeaseExpires(t)
  \/ \E w \in Workers : RunnerStep(w) \/ RunnerFault(w)
  \/ \E p \in Procs : SchedStep(p) \/ SchedFault(p) \/ SchedEnqueues(p) \/ Crash(p)
  \/ UserStep
  \/ \E r \in RunIds : RunAges(r)
  \/ BecomesDue
  \/ \E t \in Tokens : TokenExpires(t)

Spec == Init /\ [][Next]_vars

(***************************************************************************)
(* Handlers keep running, asynq keeps handing out and recovering tasks,    *)
(* the scheduler keeps ticking, a dead process is restarted, time passes,  *)
(* and a rotation under way ends.  Users, the provider, crashes and faults *)
(* owe nothing.                                                            *)
(***************************************************************************)
Fairness ==
  /\ \A w \in Workers : WF_vars(RunnerStep(w))
  /\ \A t \in TaskIds : SF_vars(\E w \in Workers : Dequeue(w, t))
  /\ \A t \in TaskIds : WF_vars(LeaseExpires(t))
  /\ \A p \in Procs : WF_vars(SchedStep(p)) /\ SF_vars(SchedEnqueues(p))
  /\ \A r \in RunIds : WF_vars(RunAges(r))
  /\ WF_vars(BecomesDue)
  /\ WF_vars(RotateSave)

FairSpec == Spec /\ Fairness

(***************************************************************************)
(* Safety                                                                  *)
(***************************************************************************)

InFlight(w) == wk[w].run # NoRun

\* Two handlers never record the same sync_runs row, and the row of a sync
\* that is still in flight is "running", or was reaped after it went stale:
\* Start, Finish and ReapStaleRuns address rows by id without any lock.
RowFollowsSync ==
  \A w \in Workers : InFlight(w) =>
    /\ \/ runs[wk[w].run].st = "running"
       \/ runs[wk[w].run].st = "failed" /\ runs[wk[w].run].old
    /\ \A v \in Workers : v # w => wk[v].run # wk[w].run

\* ReapStaleRuns fails only rows whose handler is gone ("worker process
\* stopped before this sync finished"), however long a sync takes.
ReapOnlyOrphans ==
  \A w \in Workers : InFlight(w) => runs[wk[w].run].st = "running"

\* A sync recorded as a success is never turned into a failure: Finish and
\* ReapStaleRuns race for the same row.
SuccessIsFinal ==
  [][\A r \in RunIds : runs[r].st = "success" => runs'[r].st # "failed"]_vars

\* Handler w is between Start and Finish, calling the provider or writing what
\* the call brought.
Syncing(w) ==
  \/ wk[w].pc \in {"sync", "refresh", "rotate", "resync"}
  \/ wk[w].pc = "mark" /\ wk[w].out # "fault"

\* The HasRunning check lets no handler through while another one is syncing,
\* unless the query itself failed, the Start of the other sync failed (it has no
\* row), or that sync is older than staleRunThreshold.  What the check cannot
\* see is another handler between its own check and its Start.
GuardSeesSyncs ==
  [][\A w \in Workers : wk[w].pc = "check" /\ wk'[w].pc = "start" =>
       \/ faults' # faults
       \/ \A v \in Workers : Syncing(v) =>
            IF InFlight(v) THEN runs[wk[v].run].old ELSE faults > 0]_vars

\* No provider call is made with the "{}" that Revoke leaves, whoever still
\* enqueues syncs of the revoked connection, and whatever the rotation saves.
NoCallWithoutToken ==
  \A w \in Workers : wk[w].pc \in {"sync", "resync", "rotate", "refresh"} =>
    wk[w].cred \in Tokens

(***************************************************************************)
(* The abstract specification                                              *)
(***************************************************************************)

\* A row is recorded while a live handler holds its id.
Log == INSTANCE SyncRunLog WITH
         status   <- [r \in RunIds |-> runs[r].st],
         recorded <- {r \in RunIds : \E w \in Workers : Holds(w, r)}

\* The handlers, reapers and crashes together keep what SyncRunLog promises:
\* every write to sync_runs is a begin, an end, a giving up or nothing.
KeepsRunLog == Log!LogSpec

(***************************************************************************)
(* Liveness                                                                *)
(***************************************************************************)

\* The periodic resync keeps an active connection fresh, whatever crashed
\* before: a due one is synced, or stops being active.
DueIsResynced == (conn.status = "active" /\ conn.due)
                   ~> (conn.status # "active" \/ ~conn.due)

Stuck == conn.status \in {"syncing", "retrying"}

\* A process that starts when no run is fresh, and then stays up with its
\* statements answered, gets a connection left syncing or retrying moving
\* again, whether or not there was a sync_runs row to reap: a first sync that
\* was never enqueued, a status that could not be written, a killed handler.
RecoveryUnsticks ==
  \A p \in Procs :
    (/\ sched[p] = "reap" /\ crashes = MaxCrashes /\ faults = MaxFaults
     /\ Stuck /\ ~HasRunning)
      ~> (~Stuck \/ \E w \in Workers : InFlight(w))

\* A connection does not stay "syncing" for ever.
SyncingEnds == conn.status = "syncing" ~> conn.status # "syncing"
=============================================================================
