----------------------- MODULE IntegrationSyncProofs -----------------------
(***************************************************************************)
(* Machine-checked proofs about IntegrationSync, for any number of worker  *)
(* processes, handlers, sync_runs rows, tasks and tokens.                  *)
(***************************************************************************)
EXTENDS IntegrationSync, TLAPS

-----------------------------------------------------------------------------
(* Types *)

LEMMA EnqueueType ==
  ASSUME TypeOK, Enqueue
  PROVE  tasks' \in [TaskIds -> Task]
BY BoundsAssumption DEF TypeOK, Enqueue, Task

LEMMA RequeuedType ==
  ASSUME NEW task \in Task
  PROVE  Requeued(task) \in Task
BY BoundsAssumption DEF Requeued, Task, FreeTask

LEMMA IdleSlotType == IdleSlot \in Slot
BY DEF IdleSlot, Slot, Creds, Steps, Outcomes

LEMMA FaultType ==
  ASSUME TypeOK, Fault
  PROVE  faults' \in 0 .. MaxFaults
BY BoundsAssumption DEF TypeOK, Fault

LEMMA AfterStartType ==
  ASSUME TypeOK, NEW w \in Workers, NEW run \in RunIds \cup {NoRun}, AfterStart(w, run)
  PROVE  wk' \in [Workers -> Slot]
<1>1. wk[w] \in Slot /\ wk \in [Workers -> Slot]
  BY DEF TypeOK
<1> QED  BY <1>1 DEF AfterStart, Slot, Steps, Outcomes

\* A failed statement only moves its handler on.
LEMMA RunnerFaultType ==
  ASSUME TypeOK, NEW w \in Workers, RunnerFault(w)
  PROVE  TypeOK'
<1>w. wk[w] \in Slot /\ wk \in [Workers -> Slot]
  BY DEF TypeOK
<1>1. CASE LoadFails(w) \/ SaveRefreshedFails(w)
  BY <1>1, <1>w, FaultType
     DEF TypeOK, RunnerFault, LoadFails, SaveRefreshedFails, Conclude, Slot, Steps, Outcomes
<1>2. CASE CheckFails(w) \/ MarkFails(w)
  BY <1>2, <1>w, FaultType DEF TypeOK, RunnerFault, CheckFails, MarkFails, Goto, Slot, Steps
<1>3. CASE StartFails(w)
  BY <1>3, FaultType, AfterStartType DEF TypeOK, RunnerFault, StartFails
<1>4. CASE FinishFails(w)
  BY <1>4, <1>w, FaultType DEF TypeOK, RunnerFault, FinishFails, Slot, Steps
<1> QED  BY <1>1, <1>2, <1>3, <1>4 DEF RunnerFault

\* Every step of a handler keeps the types.
LEMMA RunnerStepType ==
  ASSUME TypeOK, NEW w \in Workers, RunnerStep(w)
  PROVE  TypeOK'
<1> USE IdleSlotType DEF TypeOK
<1>w. wk[w] \in Slot
  OBVIOUS
<1>1. CASE Load(w)
  <2>1. tasks' \in [TaskIds -> Task]
    BY <1>1, BoundsAssumption DEF Load, FreeTask, Task
  <2>2. wk' \in [Workers -> Slot]
    BY <1>1, <1>w DEF Load, Slot, Steps, Connection
  <2> QED  BY <1>1, <2>1, <2>2 DEF Load
<1>2. CASE CheckRunning(w)
  <2>1. wk' \in [Workers -> Slot]
    BY <1>2, <1>w DEF CheckRunning, Conclude, Goto, Slot, Steps, Outcomes
  <2> QED  BY <1>2, <2>1 DEF CheckRunning
<1>3. CASE StartRun(w)
  <2>1. PICK r \in RunIds :
          /\ runs' = [runs EXCEPT ![r] = [st |-> "running", old |-> FALSE]]
          /\ AfterStart(w, r)
    BY <1>3 DEF StartRun
  <2>2. runs' \in [RunIds -> Run]
    BY <2>1 DEF Run
  <2>3. wk' \in [Workers -> Slot]
    BY <2>1, AfterStartType
  <2> QED  BY <1>3, <2>2, <2>3 DEF StartRun
<1>4. CASE SyncCall(w)
  <2>1. wk' \in [Workers -> Slot]
    BY <1>4, <1>w DEF SyncCall, AfterSync, Conclude, Goto, Answers, Slot, Steps, Outcomes
  <2> QED  BY <1>4, <2>1 DEF SyncCall
<1>5. CASE RefreshCall(w)
  <2>1. ASSUME NEW t \in Tokens,
               accepted' = (accepted \ {wk[w].cred}) \cup {t},
               wk' = [wk EXCEPT ![w].cred = t, ![w].pc = "rotate"]
        PROVE  wk' \in [Workers -> Slot] /\ accepted' \subseteq Tokens
    BY <2>1, <1>w DEF Slot, Steps, Creds
  <2>2. ASSUME Conclude(w, "expired", "mark")
        PROVE  wk' \in [Workers -> Slot]
    BY <2>2, <1>w DEF Conclude, Slot, Steps, Outcomes
  <2> QED  BY <1>5, <2>1, <2>2 DEF RefreshCall
<1>6. CASE SaveRefreshed(w)
  <2>1. wk' \in [Workers -> Slot]
    BY <1>6, <1>w DEF SaveRefreshed, Goto, Slot, Steps
  <2>2. conn' \in Connection
    BY <1>6, <1>w DEF SaveRefreshed, Connection, Slot
  <2> QED  BY <1>6, <2>1, <2>2 DEF SaveRefreshed
<1>7. CASE SyncAgain(w)
  <2>1. wk' \in [Workers -> Slot]
    BY <1>7, <1>w DEF SyncAgain, AfterSync, Conclude, Answers, Slot, Steps, Outcomes
  <2> QED  BY <1>7, <2>1 DEF SyncAgain
<1>8. CASE MarkRow(w)
  <2>1. wk' \in [Workers -> Slot]
    BY <1>8, <1>w DEF MarkRow, Goto, Slot, Steps
  <2>2. conn' \in Connection
    BY <1>8, <1>w DEF MarkRow, StatusOf, Connection, Statuses
  <2> QED  BY <1>8, <2>1, <2>2 DEF MarkRow
<1>9. CASE FinishRun(w)
  <2>1. wk' \in [Workers -> Slot]
    BY <1>9, <1>w DEF FinishRun, Slot, Steps
  <2>2. runs' \in [RunIds -> Run]
    BY <1>9 DEF FinishRun, Run
  <2> QED  BY <1>9, <2>1, <2>2 DEF FinishRun
<1>10. CASE Settle(w)
  <2>1. wk' \in [Workers -> Slot]
    BY <1>10, <1>w DEF Settle
  <2>2. FreeTask \in Task
    BY BoundsAssumption DEF FreeTask, Task
  <2>3. tasks' \in [TaskIds -> Task]
    BY <1>10, <2>2, RequeuedType DEF Settle
  <2> QED  BY <1>10, <2>1, <2>3 DEF Settle
<1> QED
  BY <1>1, <1>2, <1>3, <1>4, <1>5, <1>6, <1>7, <1>8, <1>9, <1>10 DEF RunnerStep

\* So does every step of a scheduler, of the API and of the environment.
LEMMA OtherStepType ==
  ASSUME TypeOK, Next, \A w \in Workers : ~RunnerStep(w) /\ ~RunnerFault(w)
  PROVE  TypeOK'
<1> USE IdleSlotType DEF TypeOK
<1>1. ASSUME NEW w \in Workers, NEW t \in TaskIds, Dequeue(w, t)
      PROVE  TypeOK'
  BY <1>1 DEF Dequeue, Task, IdleSlot, Slot, Steps
<1>2. ASSUME NEW t \in TaskIds, LeaseExpires(t)
      PROVE  TypeOK'
  BY <1>2, RequeuedType DEF LeaseExpires
<1>3. ASSUME NEW p \in Procs, Reap(p)
      PROVE  TypeOK'
  BY <1>3 DEF Reap, SchedGoto, SchedSteps, Run
<1>4. ASSUME NEW p \in Procs, Scan(p) \/ TickSelects(p) \/ SchedSkips(p) \/ Restart(p)
      PROVE  TypeOK'
  BY <1>4 DEF Scan, TickSelects, SchedSkips, Restart, SchedGoto, SchedSteps
<1>5. ASSUME NEW p \in Procs, SchedEnqueues(p)
      PROVE  TypeOK'
  BY <1>5, EnqueueType DEF SchedEnqueues, SchedGoto, SchedSteps
<1>6. ASSUME NEW p \in Procs, Crash(p)
      PROVE  TypeOK'
  BY <1>6, BoundsAssumption DEF Crash, SchedSteps
<1>0. NoRow \in Connection
  BY DEF NoRow, Connection, Statuses, Creds
<1>7. CASE ConnectNew \/ ConnectRead \/ ConnectSave
  <2>1. ConnectNew => conn' \in Connection /\ accepted' \subseteq Tokens
    BY DEF ConnectNew, Validated, Connection, Statuses, Creds
  <2>2. ConnectRead => request' \in Connection /\ accepted' \subseteq Tokens
    BY DEF ConnectRead, Validated, Connection, Statuses, Creds
  <2>3. ASSUME Enqueued PROVE tasks' \in [TaskIds -> Task] /\ faults' \in 0 .. MaxFaults
    BY <2>3, EnqueueType, FaultType DEF Enqueued, EnqueueFails
  <2>4. CASE ConnectNew  BY <2>1, <2>3, <2>4 DEF ConnectNew
  <2>5. CASE ConnectRead  BY <2>2, <2>5 DEF ConnectRead
  <2>6. CASE ConnectSave  BY <1>0, <2>3, <2>6 DEF ConnectSave
  <2> QED  BY <1>7, <2>4, <2>5, <2>6
<1>14. ASSUME NEW p \in Procs, SchedFault(p)
       PROVE  TypeOK'
  BY <1>14, FaultType DEF SchedFault, SchedGoto, SchedSteps
<1>8. CASE RevokeRead \/ RevokeSave \/ Delete
  BY <1>0, <1>8 DEF RevokeRead, RevokeSave, Delete, Connection, Statuses, Creds
<1>9. CASE RequestSync
  BY <1>9, EnqueueType DEF RequestSync
<1>10. CASE RotateRead \/ RotateSave
  BY <1>0, <1>10 DEF RotateRead, RotateSave
<1>11. ASSUME NEW r \in RunIds, RunAges(r)
       PROVE  TypeOK'
  BY <1>11 DEF RunAges, Run
<1>12. CASE BecomesDue
  BY <1>12 DEF BecomesDue, Connection
<1>13. ASSUME NEW t \in Tokens, TokenExpires(t)
       PROVE  TypeOK'
  BY <1>13 DEF TokenExpires
<1> QED
  BY <1>1, <1>2, <1>3, <1>4, <1>5, <1>6, <1>7, <1>8, <1>9, <1>10, <1>11, <1>12, <1>13,
     <1>14 DEF Next, SchedStep, UserStep

LEMMA InitType == Init => TypeOK
BY BoundsAssumption, IdleSlotType
   DEF Init, TypeOK, NoRow, Connection, Statuses, Creds, Run, FreeTask, Task, SchedSteps

LEMMA NextType == TypeOK /\ [Next]_vars => TypeOK'
<1> SUFFICES ASSUME TypeOK, [Next]_vars PROVE TypeOK'
  OBVIOUS
<1>1. CASE Next
  BY <1>1, RunnerStepType, RunnerFaultType, OtherStepType
<1>2. CASE UNCHANGED vars
  BY <1>2 DEF vars, TypeOK
<1> QED  BY <1>1, <1>2

\* Every variable keeps its type.
THEOREM TypeCorrect == Spec => []TypeOK
<1>1. Init => TypeOK
  BY InitType
<1>2. TypeOK /\ [Next]_vars => TypeOK'
  BY NextType
<1> QED  BY <1>1, <1>2, PTL DEF Spec

-----------------------------------------------------------------------------
(* The rows of sync_runs and the handlers that own them.                   *)

\* A handler holds a row only between Start and Finish, and it does hold one
\* there unless a Start failed; two handlers never hold the same one, and it is
\* "running" unless it went stale and was reaped.  This is what makes
\* RowFollowsSync inductive: the step a handler is at bounds when it holds a row.
HoldsARow(w) ==
  \/ wk[w].pc \in {"sync", "refresh", "rotate", "resync", "finish"}
  \/ wk[w].pc = "mark" /\ wk[w].out # "fault"

StepMatchesRow ==
  \A w \in Workers : /\ InFlight(w) => HoldsARow(w)
                     /\ HoldsARow(w) => InFlight(w) \/ faults > 0

FaultsStay == faults > 0 => faults' > 0

RunInv == TypeOK /\ StepMatchesRow /\ RowFollowsSync

LEMMA InitRunInv == Init => RunInv
BY InitType, NullAssumption
   DEF Init, RunInv, StepMatchesRow, HoldsARow, RowFollowsSync, InFlight, IdleSlot

\* A step that leaves the sync_runs table and, in every handler, the row, the
\* step and the outcome alone.
LEMMA UntouchedRunInv ==
  ASSUME RunInv, TypeOK', FaultsStay, UNCHANGED runs,
         \A w \in Workers : /\ wk'[w].run = wk[w].run
                            /\ wk'[w].pc = wk[w].pc
                            /\ wk'[w].out = wk[w].out
  PROVE  RunInv'
BY DEF RunInv, FaultsStay, StepMatchesRow, HoldsARow, RowFollowsSync, InFlight

\* A step of one handler that leaves the table alone and keeps its row.
LEMMA LocalStepRunInv ==
  ASSUME RunInv, TypeOK', FaultsStay, UNCHANGED runs, NEW w \in Workers,
         \A v \in Workers : v # w => wk'[v] = wk[v],
         wk'[w].run = wk[w].run,
         HoldsARow(w) <=> HoldsARow(w)'
  PROVE  RunInv'
BY DEF RunInv, FaultsStay, StepMatchesRow, HoldsARow, RowFollowsSync, InFlight

\* A handler that lets go of its row, or a handler that dies.
LEMMA IdleStepRunInv ==
  ASSUME RunInv, TypeOK', FaultsStay, UNCHANGED runs,
         \A v \in Workers : \/ wk'[v] = wk[v]
                            \/ wk'[v].run = NoRun /\ ~HoldsARow(v)'
  PROVE  RunInv'
BY DEF RunInv, FaultsStay, StepMatchesRow, HoldsARow, RowFollowsSync, InFlight

LEMMA StartRunInv ==
  ASSUME RunInv, TypeOK', FaultsStay, NEW w \in Workers, StartRun(w)
  PROVE  RunInv'
<1> USE DEF RunInv
<1>1. PICK r \in RunIds :
        /\ \A v \in Workers : ~Holds(v, r)
        /\ runs' = [runs EXCEPT ![r] = [st |-> "running", old |-> FALSE]]
        /\ AfterStart(w, r)
  BY DEF StartRun, Reusable
<1>2. wk[w] \in Slot /\ wk \in [Workers -> Slot] /\ runs \in [RunIds -> Run]
  BY DEF TypeOK
<1>3. wk'[w].run = r /\ wk'[w].pc \in {"finish", "sync"}
  BY <1>1, <1>2 DEF AfterStart, Slot
<1>4. \A v \in Workers : v # w => wk'[v] = wk[v] /\ wk'[v].run # r
  BY <1>1, <1>2 DEF AfterStart, Holds
<1>5. StepMatchesRow'
  BY <1>3, <1>4, NullAssumption DEF FaultsStay, StepMatchesRow, HoldsARow, InFlight
<1>6. runs'[r].st = "running" /\ \A q \in RunIds : q # r => runs'[q] = runs[q]
  BY <1>1, <1>2
<1>7. \A v \in Workers : InFlight(v) => wk[v].run \in RunIds
  BY <1>2 DEF InFlight, Slot
<1>8. RowFollowsSync'
  BY <1>3, <1>4, <1>6, <1>7 DEF RowFollowsSync, InFlight
<1> QED  BY <1>5, <1>8

LEMMA FinishRunInv ==
  ASSUME RunInv, TypeOK', FaultsStay, NEW w \in Workers, FinishRun(w)
  PROVE  RunInv'
<1> USE DEF RunInv
<1>1. wk[w] \in Slot /\ wk \in [Workers -> Slot] /\ runs \in [RunIds -> Run]
  BY DEF TypeOK
<1>2. /\ wk'[w].run = NoRun /\ wk'[w].out = wk[w].out
      /\ wk'[w].pc = IF wk[w].out = "fault" THEN "mark" ELSE "settle"
  BY <1>1 DEF FinishRun, Slot
<1>3. \A v \in Workers : v # w => wk'[v] = wk[v]
  BY <1>1 DEF FinishRun
<1>4. StepMatchesRow'
  BY <1>2, <1>3 DEF FaultsStay, StepMatchesRow, HoldsARow, InFlight
<1>6. \A v \in Workers : v # w /\ InFlight(v) => wk[v].run # wk[w].run
  BY DEF RowFollowsSync, InFlight
<1>7. \A q \in RunIds : q # wk[w].run => runs'[q] = runs[q]
  BY <1>1 DEF FinishRun
<1>8. \A v \in Workers : InFlight(v) => wk[v].run \in RunIds
  BY <1>1 DEF InFlight, Slot
<1>9. RowFollowsSync'
  BY <1>2, <1>3, <1>6, <1>7, <1>8 DEF RowFollowsSync, InFlight
<1> QED  BY <1>4, <1>9

LEMMA ReapInv ==
  ASSUME RunInv, TypeOK', FaultsStay, NEW p \in Procs, Reap(p)
  PROVE  RunInv'
<1> USE DEF RunInv
<1>1. wk \in [Workers -> Slot] /\ runs \in [RunIds -> Run] /\ wk' = wk
  BY DEF TypeOK, Reap
<1>2. \A q \in RunIds : \/ runs'[q] = runs[q]
                        \/ runs'[q].st = "failed" /\ runs'[q].old
  BY <1>1 DEF Reap, Run
<1>3. \A v \in Workers : InFlight(v) => wk[v].run \in RunIds
  BY <1>1 DEF InFlight, Slot
<1> QED
  BY <1>1, <1>2, <1>3 DEF FaultsStay, StepMatchesRow, HoldsARow, RowFollowsSync, InFlight

LEMMA RunAgesInv ==
  ASSUME RunInv, TypeOK', FaultsStay, NEW r \in RunIds, RunAges(r)
  PROVE  RunInv'
<1> USE DEF RunInv
<1>1. wk \in [Workers -> Slot] /\ runs \in [RunIds -> Run] /\ wk' = wk
  BY DEF TypeOK, RunAges
<1>2. \A q \in RunIds : /\ runs'[q].st = runs[q].st
                        /\ runs[q].old => runs'[q].old
  BY <1>1 DEF RunAges, Run
<1>3. \A v \in Workers : InFlight(v) => wk[v].run \in RunIds
  BY <1>1 DEF InFlight, Slot
<1> QED
  BY <1>1, <1>2, <1>3 DEF FaultsStay, StepMatchesRow, HoldsARow, RowFollowsSync, InFlight

LEMMA RunnerStepRunInv ==
  ASSUME RunInv, TypeOK', FaultsStay, NEW w \in Workers, RunnerStep(w)
  PROVE  RunInv'
<1> USE DEF RunInv
<1>w. wk \in [Workers -> Slot] /\ wk[w] \in Slot
  BY DEF TypeOK
<1>1. CASE Load(w)
  <2>1. wk[w].run = NoRun
    BY <1>1 DEF Load, StepMatchesRow, HoldsARow, InFlight
  <2>2. /\ \A v \in Workers : v # w => wk'[v] = wk[v]
        /\ wk'[w].run = NoRun /\ wk'[w].pc \in {"check", "idle"}
    BY <1>1, <1>w, <2>1 DEF Load, Slot, IdleSlot
  <2> QED  BY <1>1, <2>2, IdleStepRunInv DEF Load, HoldsARow
<1>2. CASE CheckRunning(w)
  <2>1. /\ \A v \in Workers : v # w => wk'[v] = wk[v]
        /\ wk'[w].run = wk[w].run /\ wk'[w].pc \in {"settle", "start"}
    BY <1>2, <1>w DEF CheckRunning, Conclude, Goto, Slot
  <2> QED
    BY <1>2, <2>1, LocalStepRunInv DEF CheckRunning, StepMatchesRow, HoldsARow
<1>3. CASE StartRun(w)
  BY <1>3, StartRunInv
<1>4. CASE SyncCall(w) \/ SyncAgain(w)
  <2>1. PICK out \in {"success", "retrying", "error", "fault", "expired"} :
          AfterSync(w, out) \/ Goto(w, "refresh")
    BY <1>4 DEF SyncCall, SyncAgain, Answers
  <2>2. /\ \A v \in Workers : v # w => wk'[v] = wk[v]
        /\ wk'[w].run = wk[w].run /\ HoldsARow(w)'
    BY <2>1, <1>w DEF AfterSync, Conclude, Goto, Slot, HoldsARow
  <2> QED
    BY <1>4, <2>2, LocalStepRunInv DEF SyncCall, SyncAgain, StepMatchesRow, HoldsARow
<1>5. CASE RefreshCall(w)
  <2>1. \/ \E t \in Tokens : wk' = [wk EXCEPT ![w].cred = t, ![w].pc = "rotate"]
        \/ Conclude(w, "expired", "mark")
    BY <1>5 DEF RefreshCall
  <2>2. /\ \A v \in Workers : v # w => wk'[v] = wk[v]
        /\ wk'[w].run = wk[w].run /\ HoldsARow(w)'
    <3>1. CASE \E t \in Tokens : wk' = [wk EXCEPT ![w].cred = t, ![w].pc = "rotate"]
      BY <3>1, <1>w DEF Slot, HoldsARow
    <3>2. CASE Conclude(w, "expired", "mark")
      BY <3>2, <1>w DEF Conclude, Slot, HoldsARow
    <3> QED  BY <2>1, <3>1, <3>2
  <2> QED
    BY <1>5, <2>2, LocalStepRunInv DEF RefreshCall, StepMatchesRow, HoldsARow
<1>6. CASE SaveRefreshed(w)
  <2>1. /\ \A v \in Workers : v # w => wk'[v] = wk[v]
        /\ wk'[w].run = wk[w].run /\ wk'[w].pc = "resync"
    BY <1>6, <1>w DEF SaveRefreshed, Goto, Slot
  <2> QED
    BY <1>6, <2>1, LocalStepRunInv DEF SaveRefreshed, StepMatchesRow, HoldsARow
<1>7. CASE MarkRow(w)
  <2>1. /\ \A v \in Workers : v # w => wk'[v] = wk[v]
        /\ wk'[w].run = wk[w].run /\ wk'[w].out = wk[w].out
        /\ wk'[w].pc = IF wk[w].out = "fault" THEN "settle" ELSE "finish"
    BY <1>7, <1>w DEF MarkRow, Goto, Slot
  <2> QED
    BY <1>7, <2>1, LocalStepRunInv DEF MarkRow, StepMatchesRow, HoldsARow
<1>8. CASE FinishRun(w)
  BY <1>8, FinishRunInv
<1>9. CASE Settle(w)
  <2>1. /\ \A v \in Workers : v # w => wk'[v] = wk[v]
        /\ wk'[w] = IdleSlot
    BY <1>9, <1>w DEF Settle
  <2> QED  BY <1>9, <2>1, IdleStepRunInv DEF Settle, IdleSlot, HoldsARow
<1> QED
  BY <1>1, <1>2, <1>3, <1>4, <1>5, <1>6, <1>7, <1>8, <1>9 DEF RunnerStep

\* A failed Start makes no row, and a failed Finish leaves its row to the reaper.
LEMMA RunnerFaultRunInv ==
  ASSUME RunInv, TypeOK', FaultsStay, NEW w \in Workers, RunnerFault(w)
  PROVE  RunInv'
<1> USE DEF RunInv
<1>w. wk \in [Workers -> Slot] /\ wk[w] \in Slot
  BY DEF TypeOK
<1>f. UNCHANGED runs /\ faults' > 0
  BY BoundsAssumption DEF TypeOK, RunnerFault, Fault
<1>1. \A v \in Workers : v # w => wk'[v] = wk[v]
  BY <1>w DEF RunnerFault, LoadFails, CheckFails, StartFails, SaveRefreshedFails, MarkFails,
              FinishFails, Conclude, Goto, AfterStart
<1>2. wk'[w].run = NoRun \/ (wk'[w].run = wk[w].run /\ HoldsARow(w)')
  <2>1. CASE LoadFails(w) \/ CheckFails(w)
    <3>1. ~HoldsARow(w)
      BY <2>1 DEF LoadFails, CheckFails, HoldsARow
    <3>2. wk'[w].run = wk[w].run
      BY <2>1, <1>w DEF LoadFails, CheckFails, Conclude, Goto, Slot
    <3> QED  BY <3>1, <3>2 DEF StepMatchesRow, InFlight
  <2>2. CASE StartFails(w)
    BY <2>2, <1>w DEF StartFails, AfterStart, Slot
  <2>3. CASE SaveRefreshedFails(w)
    BY <2>3, <1>w DEF SaveRefreshedFails, Conclude, Slot, HoldsARow
  <2>4. CASE MarkFails(w)
    <3>1. /\ wk'[w].run = wk[w].run /\ wk'[w].out = wk[w].out
          /\ wk'[w].pc = IF wk[w].out = "fault" THEN "settle" ELSE "finish"
      BY <2>4, <1>w DEF MarkFails, Goto, Slot
    <3> QED  BY <2>4, <3>1 DEF MarkFails, StepMatchesRow, HoldsARow, InFlight
  <2>5. CASE FinishFails(w)
    BY <2>5, <1>w DEF FinishFails, Slot
  <2> QED  BY <2>1, <2>2, <2>3, <2>4, <2>5 DEF RunnerFault
<1> QED
  BY <1>f, <1>1, <1>2 DEF StepMatchesRow, HoldsARow, RowFollowsSync, InFlight

LEMMA NextFaultsStay == TypeOK /\ [Next]_vars => FaultsStay
<1> SUFFICES ASSUME TypeOK, [Next]_vars PROVE faults' = faults \/ Fault
  BY BoundsAssumption DEF FaultsStay, Fault, TypeOK
<1>1. ASSUME NEW w \in Workers, RunnerStep(w) \/ RunnerFault(w)
      PROVE  faults' = faults \/ Fault
  BY <1>1 DEF RunnerStep, RunnerFault, Load, CheckRunning, StartRun, SyncCall, RefreshCall,
              SaveRefreshed, SyncAgain, MarkRow, FinishRun, Settle
<1>2. ASSUME NEW p \in Procs,
             SchedStep(p) \/ SchedFault(p) \/ SchedEnqueues(p) \/ Crash(p)
      PROVE  faults' = faults \/ Fault
  BY <1>2 DEF SchedStep, SchedFault, SchedEnqueues, Crash, Reap, Scan, TickSelects, SchedSkips,
              Restart
<1>3. CASE UserStep
  BY <1>3 DEF UserStep, ConnectNew, ConnectRead, ConnectSave, Enqueued, EnqueueFails, RevokeRead,
              RevokeSave,
              Delete, RequestSync, RotateRead, RotateSave
<1>4. CASE \/ \E w \in Workers, t \in TaskIds : Dequeue(w, t)
           \/ \E t \in TaskIds : LeaseExpires(t)
           \/ \E r \in RunIds : RunAges(r)
           \/ BecomesDue
           \/ \E t \in Tokens : TokenExpires(t)
           \/ UNCHANGED vars
  BY <1>4 DEF Dequeue, LeaseExpires, RunAges, BecomesDue, TokenExpires, vars
<1> QED  BY <1>1, <1>2, <1>3, <1>4 DEF Next

LEMMA NextRunInv == RunInv /\ [Next]_vars => RunInv'
<1> SUFFICES ASSUME RunInv, [Next]_vars PROVE RunInv'
  OBVIOUS
<1>t. TypeOK' /\ FaultsStay
  BY NextType, NextFaultsStay DEF RunInv
<1>w. wk \in [Workers -> Slot]
  BY DEF RunInv, TypeOK
<1>1. ASSUME NEW w \in Workers, NEW t \in TaskIds, Dequeue(w, t)
      PROVE  RunInv'
  <2>1. /\ \A v \in Workers : v # w => wk'[v] = wk[v]
        /\ wk'[w].run = NoRun /\ wk'[w].pc = "load"
    BY <1>1, <1>w DEF Dequeue, IdleSlot
  <2> QED  BY <1>1, <1>t, <2>1, IdleStepRunInv DEF Dequeue, HoldsARow
<1>2. ASSUME NEW w \in Workers, RunnerStep(w) \/ RunnerFault(w)
      PROVE  RunInv'
  BY <1>2, <1>t, RunnerStepRunInv, RunnerFaultRunInv
<1>3. ASSUME NEW p \in Procs, Reap(p)
      PROVE  RunInv'
  BY <1>3, <1>t, ReapInv
<1>4. ASSUME NEW p \in Procs, Crash(p)
      PROVE  RunInv'
  <2>1. \A v \in Workers : wk'[v] = wk[v] \/ wk'[v] = IdleSlot
    BY <1>4 DEF Crash
  <2> QED  BY <1>4, <1>t, <2>1, IdleStepRunInv DEF Crash, IdleSlot, HoldsARow
<1>5. ASSUME NEW r \in RunIds, RunAges(r)
      PROVE  RunInv'
  BY <1>5, <1>t, RunAgesInv
<1>6. ASSUME UNCHANGED <<runs, wk>>
      PROVE  RunInv'
  BY <1>6, <1>t, UntouchedRunInv
<1>7. ASSUME NEW t \in TaskIds, LeaseExpires(t)
      PROVE  RunInv'
  BY <1>6, <1>7 DEF LeaseExpires
<1>8. ASSUME NEW p \in Procs,
             \/ Scan(p) \/ TickSelects(p) \/ SchedSkips(p) \/ Restart(p)
             \/ SchedFault(p) \/ SchedEnqueues(p)
      PROVE  RunInv'
  BY <1>6, <1>8 DEF Scan, TickSelects, SchedSkips, SchedFault, Restart, SchedEnqueues
<1>9. CASE UserStep
  BY <1>6, <1>9
     DEF UserStep, ConnectNew, ConnectRead, ConnectSave, RevokeRead, RevokeSave,
         Delete, RequestSync, RotateRead, RotateSave
<1>10. CASE BecomesDue \/ \E t \in Tokens : TokenExpires(t)
  BY <1>6, <1>10 DEF BecomesDue, TokenExpires
<1>11. CASE UNCHANGED vars
  BY <1>6, <1>11 DEF vars
<1> QED
  BY <1>1, <1>2, <1>3, <1>4, <1>5, <1>7, <1>8, <1>9, <1>10, <1>11 DEF Next, SchedStep

\* In every state the rows of sync_runs follow the syncs that own them.
THEOREM RowsFollowSyncs == Spec => []RowFollowsSync
<1>1. Spec => []RunInv
  BY InitRunInv, NextRunInv, PTL DEF Spec
<1>2. RunInv => RowFollowsSync
  BY DEF RunInv
<1> QED  BY <1>1, <1>2, PTL

\* A sync recorded as a success is never turned into a failure: only the
\* handler that owns a row and the reaper write to it, and both find it
\* running.
THEOREM SuccessStaysSuccess == Spec => SuccessIsFinal
<1>1. ASSUME RunInv, [Next]_vars, NEW r \in RunIds, runs[r].st = "success"
      PROVE  runs'[r].st # "failed"
  <2> USE DEF RunInv, TypeOK
  <2>1. ASSUME NEW w \in Workers, FinishRun(w)
        PROVE  runs'[r].st # "failed"
    <3>1. InFlight(w) => wk[w].run # r
      BY <1>1 DEF RowFollowsSync
    <3> QED  BY <1>1, <2>1, <3>1 DEF FinishRun, InFlight
  <2>2. ASSUME NEW w \in Workers, StartRun(w)
        PROVE  runs'[r].st # "failed"
    BY <1>1, <2>2 DEF StartRun
  <2>3. ASSUME NEW p \in Procs, Reap(p)
        PROVE  runs'[r].st # "failed"
    BY <1>1, <2>3 DEF Reap
  <2>4. ASSUME NEW q \in RunIds, RunAges(q)
        PROVE  runs'[r].st # "failed"
    BY <1>1, <2>4 DEF RunAges, Run
  <2>5. ASSUME UNCHANGED runs
        PROVE  runs'[r].st # "failed"
    BY <1>1, <2>5
  <2>6. ASSUME NEW w \in Workers, RunnerStep(w) \/ RunnerFault(w)
        PROVE  runs'[r].st # "failed"
    BY <2>1, <2>2, <2>5, <2>6
       DEF RunnerStep, RunnerFault, Load, CheckRunning, SyncCall, RefreshCall, SaveRefreshed,
           SyncAgain, MarkRow, Settle
  <2>7. ASSUME NEW p \in Procs, SchedStep(p) \/ SchedFault(p) \/ SchedEnqueues(p) \/ Crash(p)
        PROVE  runs'[r].st # "failed"
    BY <2>3, <2>5, <2>7
       DEF SchedStep, SchedFault, Scan, TickSelects, SchedSkips, Restart, SchedEnqueues, Crash
  <2>8. CASE UserStep
    BY <2>5, <2>8
       DEF UserStep, ConnectNew, ConnectRead, ConnectSave, RevokeRead, RevokeSave,
         Delete, RequestSync, RotateRead, RotateSave
  <2>9. CASE \/ \E w \in Workers, t \in TaskIds : Dequeue(w, t)
             \/ \E t \in TaskIds : LeaseExpires(t)
             \/ BecomesDue
             \/ \E t \in Tokens : TokenExpires(t)
             \/ UNCHANGED vars
    BY <2>5, <2>9 DEF Dequeue, LeaseExpires, BecomesDue, TokenExpires, vars
  <2> QED
    BY <1>1, <2>4, <2>6, <2>7, <2>8, <2>9 DEF Next
<1>2. RunInv /\ [Next]_vars =>
        [\A r \in RunIds : runs[r].st = "success" => runs'[r].st # "failed"]_vars
  BY <1>1
<1>3. Spec => []RunInv
  BY InitRunInv, NextRunInv, PTL DEF Spec
<1> QED  BY <1>2, <1>3, PTL DEF Spec, SuccessIsFinal

\* Unless its own query fails, HasRunning lets no handler through while another
\* one is syncing, save syncs whose Start failed and syncs older than the
\* staleness threshold: any other one still has a fresh "running" row.
THEOREM GuardSeesEverySync == Spec => GuardSeesSyncs
<1>1. ASSUME RunInv, [Next]_vars, NEW w \in Workers, faults' = faults,
             wk[w].pc = "check", wk'[w].pc = "start",
             NEW v \in Workers, Syncing(v)
      PROVE  IF InFlight(v) THEN runs[wk[v].run].old ELSE faults > 0
  <2> USE DEF RunInv, TypeOK
  <2>1. ~HasRunning
    <3>1. ASSUME NEW u \in Workers, RunnerStep(u), HasRunning
          PROVE  FALSE
      <4>1. u = w
        BY <1>1, <3>1
           DEF RunnerStep, Load, CheckRunning, StartRun, SyncCall, RefreshCall,
               SaveRefreshed, SyncAgain, MarkRow, FinishRun, Settle, Goto, Conclude, AfterSync,
               AfterStart
      <4>2. CheckRunning(w)
        BY <1>1, <3>1, <4>1
           DEF RunnerStep, Load, StartRun, SyncCall, RefreshCall,
               SaveRefreshed, SyncAgain, MarkRow, FinishRun, Settle
      <4> QED  BY <1>1, <3>1, <4>2 DEF CheckRunning, Conclude, Slot
    <3>2. ASSUME NEW u \in Workers, NEW t \in TaskIds, Dequeue(u, t)
          PROVE  FALSE
      BY <1>1, <3>2 DEF Dequeue, IdleSlot
    <3>3. ASSUME NEW p \in Procs, Crash(p)
          PROVE  FALSE
      BY <1>1, <3>3 DEF Crash, IdleSlot
    <3>4. ASSUME UNCHANGED wk \/ Fault
          PROVE  FALSE
      BY <1>1, <3>4 DEF Fault
    <3>5. ASSUME NEW p \in Procs, SchedStep(p) \/ SchedFault(p) \/ SchedEnqueues(p)
          PROVE  FALSE
      BY <3>4, <3>5
         DEF SchedStep, SchedFault, Reap, Scan, TickSelects, SchedSkips, Restart, SchedEnqueues
    <3>6. CASE UserStep
      BY <3>4, <3>6
         DEF UserStep, ConnectNew, ConnectRead, ConnectSave, RevokeRead, RevokeSave,
             Delete, RequestSync, RotateRead, RotateSave
    <3>7. CASE \/ \E t \in TaskIds : LeaseExpires(t)
               \/ \E r \in RunIds : RunAges(r)
               \/ BecomesDue
               \/ \E t \in Tokens : TokenExpires(t)
               \/ UNCHANGED vars
      BY <3>4, <3>7 DEF LeaseExpires, RunAges, BecomesDue, TokenExpires, vars
    <3>8. ASSUME NEW u \in Workers, RunnerFault(u)
          PROVE  FALSE
      BY <3>4, <3>8 DEF RunnerFault
    <3> QED  BY <1>1, <3>1, <3>2, <3>3, <3>5, <3>6, <3>7, <3>8 DEF Next
  <2>2. HoldsARow(v)
    BY <1>1 DEF Syncing, HoldsARow
  <2>3. CASE ~InFlight(v)
    BY <1>1, <2>2, <2>3 DEF StepMatchesRow
  <2>4. CASE InFlight(v)
    <3>1. wk[v].run \in RunIds /\ runs[wk[v].run] \in Run
      BY <1>1, <2>4 DEF InFlight, Slot
    <3>2. \/ runs[wk[v].run].st = "running"
          \/ runs[wk[v].run].st = "failed" /\ runs[wk[v].run].old
      BY <1>1, <2>4 DEF RowFollowsSync
    <3> QED  BY <2>1, <2>4, <3>1, <3>2 DEF HasRunning, Run
  <2> QED  BY <2>3, <2>4
<1>2. RunInv /\ [Next]_vars =>
        [\A w \in Workers : wk[w].pc = "check" /\ wk'[w].pc = "start" =>
           \/ faults' # faults
           \/ \A v \in Workers : Syncing(v) =>
                IF InFlight(v) THEN runs[wk[v].run].old ELSE faults > 0]_vars
  BY <1>1
<1>3. Spec => []RunInv
  BY InitRunInv, NextRunInv, PTL DEF Spec
<1> QED  BY <1>2, <1>3, PTL DEF Spec, GuardSeesSyncs

-----------------------------------------------------------------------------
(* Credentials, and the recovery of a process.                             *)

\* A handler that calls the provider, or will, has a token: StartRun ends the
\* sync of a wiped connection, and RefreshCall only trades a token for another.
LEMMA NextNoCallWithoutToken ==
  TypeOK /\ NoCallWithoutToken /\ [Next]_vars => NoCallWithoutToken'
<1> SUFFICES ASSUME TypeOK, NoCallWithoutToken, [Next]_vars, NEW v \in Workers,
                    wk'[v].pc \in {"sync", "resync", "rotate", "refresh"}
             PROVE  wk'[v].cred \in Tokens
  BY DEF NoCallWithoutToken
<1> DEFINE Calling == {"sync", "resync", "rotate", "refresh"}
<1>w. wk \in [Workers -> Slot] /\ wk[v] \in Slot
  BY DEF TypeOK
<1>1. ASSUME wk'[v].pc = wk[v].pc, wk'[v].cred = wk[v].cred
      PROVE  wk'[v].cred \in Tokens
  BY <1>1 DEF NoCallWithoutToken
<1>2. ASSUME UNCHANGED wk
      PROVE  wk'[v].cred \in Tokens
  BY <1>1, <1>2
<1>3. ASSUME NEW w \in Workers, NEW t \in TaskIds, Dequeue(w, t)
      PROVE  wk'[v].cred \in Tokens
  <2>1. CASE v = w
    BY <1>3, <1>w, <2>1 DEF Dequeue, IdleSlot
  <2>2. CASE v # w
    BY <1>1, <1>3, <1>w, <2>2 DEF Dequeue
  <2> QED  BY <2>1, <2>2
<1>4. ASSUME NEW w \in Workers, RunnerStep(w)
      PROVE  wk'[v].cred \in Tokens
  <2>1. CASE v # w
    <3>1. wk'[v] = wk[v]
      BY <1>4, <1>w, <2>1
         DEF RunnerStep, Load, CheckRunning, StartRun, SyncCall, RefreshCall, SaveRefreshed,
             SyncAgain, MarkRow, FinishRun, Settle, AfterSync, AfterStart, Conclude, Goto
    <3> QED  BY <1>1, <3>1
  <2>2. CASE v = w
    <3> USE <2>2
    <3>1. CASE Load(w)
      BY <1>w, <3>1 DEF Load, Slot, IdleSlot
    <3>2. CASE CheckRunning(w)
      BY <1>w, <3>2 DEF CheckRunning, Conclude, Goto, Slot
    <3>3. CASE StartRun(w)
      <4>1. wk'[v].cred = wk[v].cred /\ wk'[v].pc = IF wk[v].cred = Wiped THEN "finish" ELSE "sync"
        BY <1>w, <3>3 DEF StartRun, AfterStart, Slot
      <4> QED  BY <1>w, <4>1 DEF Slot, Creds
    <3>4. CASE SyncCall(w)
      <4>1. wk'[v].cred = wk[v].cred
        BY <1>w, <3>4 DEF SyncCall, AfterSync, Conclude, Goto, Slot
      <4> QED  BY <3>4, <4>1 DEF SyncCall, NoCallWithoutToken
    <3>5. CASE RefreshCall(w)
      <4>1. ASSUME NEW t \in Tokens, wk' = [wk EXCEPT ![w].cred = t, ![w].pc = "rotate"]
            PROVE  wk'[v].cred \in Tokens
        BY <1>w, <4>1 DEF Slot
      <4>2. CASE Conclude(w, "expired", "mark")
        BY <1>w, <4>2 DEF Conclude, Slot
      <4> QED  BY <3>5, <4>1, <4>2 DEF RefreshCall
    <3>6. CASE SaveRefreshed(w)
      <4>1. wk'[v].cred = wk[v].cred
        BY <1>w, <3>6 DEF SaveRefreshed, Goto, Slot
      <4> QED  BY <3>6, <4>1 DEF SaveRefreshed, NoCallWithoutToken
    <3>7. CASE SyncAgain(w)
      <4>1. wk'[v].cred = wk[v].cred
        BY <1>w, <3>7 DEF SyncAgain, AfterSync, Conclude, Slot
      <4> QED  BY <3>7, <4>1 DEF SyncAgain, NoCallWithoutToken
    <3>8. CASE MarkRow(w)
      BY <1>w, <3>8 DEF MarkRow, Goto, Slot
    <3>9. CASE FinishRun(w)
      BY <1>w, <3>9 DEF FinishRun, Slot
    <3>10. CASE Settle(w)
      BY <1>w, <3>10 DEF Settle, IdleSlot
    <3> QED
      BY <1>4, <3>1, <3>2, <3>3, <3>4, <3>5, <3>6, <3>7, <3>8, <3>9, <3>10 DEF RunnerStep
  <2> QED  BY <2>1, <2>2
<1>9. ASSUME NEW w \in Workers, RunnerFault(w)
      PROVE  wk'[v].cred \in Tokens
  <2>1. CASE v # w
    <3>1. wk'[v] = wk[v]
      BY <1>9, <1>w, <2>1
         DEF RunnerFault, LoadFails, CheckFails, StartFails, SaveRefreshedFails, MarkFails,
             FinishFails, Conclude, Goto, AfterStart
    <3> QED  BY <1>1, <3>1
  <2>2. CASE v = w
    <3> USE <2>2
    <3>1. CASE StartFails(w)
      <4>1. wk'[v].cred = wk[v].cred /\ wk'[v].pc = IF wk[v].cred = Wiped THEN "finish" ELSE "sync"
        BY <1>w, <3>1 DEF StartFails, AfterStart, Slot
      <4> QED  BY <1>w, <4>1 DEF Slot, Creds
    <3>2. CASE LoadFails(w) \/ SaveRefreshedFails(w)
      BY <1>w, <3>2 DEF LoadFails, SaveRefreshedFails, Conclude, Slot
    <3>3. CASE CheckFails(w) \/ MarkFails(w) \/ FinishFails(w)
      BY <1>w, <3>3 DEF CheckFails, MarkFails, FinishFails, Goto, Slot
    <3> QED  BY <1>9, <3>1, <3>2, <3>3 DEF RunnerFault
  <2> QED  BY <2>1, <2>2
<1>5. ASSUME NEW p \in Procs, Crash(p)
      PROVE  wk'[v].cred \in Tokens
  BY <1>1, <1>5 DEF Crash, IdleSlot
<1>6. ASSUME NEW p \in Procs, SchedStep(p) \/ SchedFault(p) \/ SchedEnqueues(p)
      PROVE  wk'[v].cred \in Tokens
  BY <1>2, <1>6 DEF SchedStep, SchedFault, Reap, Scan, TickSelects, SchedSkips, Restart, SchedEnqueues
<1>7. CASE UserStep
  BY <1>2, <1>7 DEF UserStep, ConnectNew, ConnectRead, ConnectSave, RevokeRead, RevokeSave,
         Delete, RequestSync, RotateRead, RotateSave
<1>8. CASE \/ \E t \in TaskIds : LeaseExpires(t)
           \/ \E r \in RunIds : RunAges(r)
           \/ BecomesDue
           \/ \E t \in Tokens : TokenExpires(t)
           \/ UNCHANGED vars
  BY <1>2, <1>8 DEF LeaseExpires, RunAges, BecomesDue, TokenExpires, vars
<1> QED  BY <1>3, <1>4, <1>5, <1>6, <1>7, <1>8, <1>9 DEF Next

\* No provider call is made with the "{}" that Revoke leaves, by any number of
\* handlers, whatever requests, refreshes and rotations do to the row meanwhile.
THEOREM CallsHaveTokens == Spec => []NoCallWithoutToken
<1>1. Init => NoCallWithoutToken
  BY DEF Init, NoCallWithoutToken, IdleSlot
<1> QED  BY <1>1, TypeCorrect, NextNoCallWithoutToken, PTL DEF Spec

\* The handlers of a process work only after its recovery is over: asynq's server
\* starts then, and a process that goes back to its recovery has died with them.
BusyIsUp == \A w \in Workers : wk[w].pc # "idle" => sched[w[1]] \in {"idle", "due"}

LEMMA NextBusyIsUp == TypeOK /\ BusyIsUp /\ [Next]_vars => BusyIsUp'
<1> SUFFICES ASSUME TypeOK, BusyIsUp, [Next]_vars, NEW v \in Workers, wk'[v].pc # "idle"
             PROVE  sched'[v[1]] \in {"idle", "due"}
  BY DEF BusyIsUp
<1> DEFINE Up == {"idle", "due"}
<1>w. wk \in [Workers -> Slot] /\ sched \in [Procs -> SchedSteps] /\ v[1] \in Procs
  BY DEF TypeOK, Workers
<1>1. ASSUME NEW w \in Workers, NEW t \in TaskIds, Dequeue(w, t)
      PROVE  sched'[v[1]] \in Up
  <2>1. CASE v = w
    BY <1>1, <2>1 DEF Dequeue
  <2>2. CASE v # w
    BY <1>1, <1>w, <2>2 DEF Dequeue, BusyIsUp
  <2> QED  BY <2>1, <2>2
<1>2. ASSUME NEW w \in Workers, RunnerStep(w)
      PROVE  sched'[v[1]] \in Up
  <2>1. sched' = sched
    BY <1>2 DEF RunnerStep, Load, CheckRunning, StartRun, SyncCall, RefreshCall,
                SaveRefreshed, SyncAgain, MarkRow, FinishRun, Settle
  <2>2. wk[w].pc # "idle"
    BY <1>2 DEF RunnerStep, Load, CheckRunning, StartRun, SyncCall, RefreshCall,
                SaveRefreshed, SyncAgain, MarkRow, FinishRun, Settle
  <2>3. v # w => wk'[v] = wk[v]
    BY <1>2, <1>w
       DEF RunnerStep, Load, CheckRunning, StartRun, SyncCall, RefreshCall, SaveRefreshed,
           SyncAgain, MarkRow, FinishRun, Settle, AfterSync, AfterStart, Conclude, Goto
  <2> QED  BY <2>1, <2>2, <2>3 DEF BusyIsUp
<1>9. ASSUME NEW w \in Workers, RunnerFault(w)
      PROVE  sched'[v[1]] \in Up
  <2>1. sched' = sched /\ wk[w].pc # "idle"
    BY <1>9 DEF RunnerFault, LoadFails, CheckFails, StartFails, SaveRefreshedFails, MarkFails,
                FinishFails
  <2>2. v # w => wk'[v] = wk[v]
    BY <1>9, <1>w
       DEF RunnerFault, LoadFails, CheckFails, StartFails, SaveRefreshedFails, MarkFails,
           FinishFails, Conclude, Goto, AfterStart
  <2> QED  BY <2>1, <2>2 DEF BusyIsUp
<1>3. ASSUME NEW p \in Procs, Crash(p)
      PROVE  sched'[v[1]] \in Up
  <2>1. v[1] # p /\ wk'[v] = wk[v]
    BY <1>3 DEF Crash, IdleSlot
  <2> QED  BY <1>3, <1>w, <2>1 DEF Crash, BusyIsUp
<1>4. ASSUME UNCHANGED wk,
             NEW p \in Procs, SchedStep(p) \/ SchedFault(p) \/ SchedEnqueues(p)
      PROVE  sched'[v[1]] \in Up
  <2>1. sched[v[1]] \in Up
    BY <1>4 DEF BusyIsUp
  <2>2. \A q \in Procs : q # p => sched'[q] = sched[q]
    BY <1>4, <1>w DEF SchedStep, SchedFault, SchedEnqueues, Reap, Scan, TickSelects, SchedSkips,
                      Restart, SchedGoto
  <2>3. sched[p] \in Up => sched'[p] \in Up
    BY <1>4, <1>w DEF SchedStep, SchedFault, SchedEnqueues, Reap, Scan, TickSelects, SchedSkips,
                      Restart, SchedGoto
  <2> QED  BY <1>w, <2>1, <2>2, <2>3
<1>5. ASSUME NEW p \in Procs, SchedStep(p) \/ SchedFault(p) \/ SchedEnqueues(p)
      PROVE  sched'[v[1]] \in Up
  <2>1. UNCHANGED wk
    BY <1>5 DEF SchedStep, SchedFault, SchedEnqueues, Reap, Scan, TickSelects, SchedSkips, Restart
  <2> QED  BY <1>4, <1>5, <2>1
<1>6. ASSUME UNCHANGED <<wk, sched>>
      PROVE  sched'[v[1]] \in Up
  BY <1>6 DEF BusyIsUp
<1>7. CASE UserStep
  BY <1>6, <1>7 DEF UserStep, ConnectNew, ConnectRead, ConnectSave, RevokeRead, RevokeSave,
         Delete, RequestSync, RotateRead, RotateSave
<1>8. CASE \/ \E t \in TaskIds : LeaseExpires(t)
           \/ \E r \in RunIds : RunAges(r)
           \/ BecomesDue
           \/ \E t \in Tokens : TokenExpires(t)
           \/ UNCHANGED vars
  BY <1>6, <1>8 DEF LeaseExpires, RunAges, BecomesDue, TokenExpires, vars
<1> QED  BY <1>1, <1>2, <1>3, <1>5, <1>7, <1>8, <1>9 DEF Next

LEMMA FaultKeepsOrLetsGo ==
  ASSUME RunInv, NEW w \in Workers, RunnerFault(w), NEW v \in Workers
  PROVE  wk'[v].run \in {wk[v].run, NoRun}
<1>w. wk \in [Workers -> Slot] /\ wk[w] \in Slot
  BY DEF RunInv, TypeOK
<1>1. CASE LoadFails(w) \/ SaveRefreshedFails(w)
  BY <1>1, <1>w DEF LoadFails, SaveRefreshedFails, Conclude, Slot
<1>2. CASE CheckFails(w) \/ MarkFails(w)
  BY <1>2, <1>w DEF CheckFails, MarkFails, Goto, Slot
<1>3. CASE StartFails(w) \/ FinishFails(w)
  BY <1>3, <1>w DEF StartFails, AfterStart, FinishFails, Slot
<1> QED  BY <1>1, <1>2, <1>3 DEF RunnerFault

OneProcess == \A p, q \in Procs : p = q

\* The reaper is the only one that could fail the row of a sync in flight, and
\* with one process none is in flight when it runs.
LEMMA NextReapOnlyOrphans ==
  OneProcess /\ RunInv /\ RunInv' /\ BusyIsUp /\ ReapOnlyOrphans /\ [Next]_vars
    => ReapOnlyOrphans'
<1> SUFFICES ASSUME OneProcess, RunInv, RunInv', BusyIsUp, ReapOnlyOrphans, [Next]_vars,
                    NEW v \in Workers, InFlight(v)'
             PROVE  runs'[wk'[v].run].st = "running"
  BY DEF ReapOnlyOrphans
<1>w. wk \in [Workers -> Slot] /\ runs \in [RunIds -> Run] /\ wk[v] \in Slot
  BY DEF RunInv, TypeOK
<1>1. ASSUME wk'[v].run = wk[v].run, \A r \in RunIds : runs'[r].st = runs[r].st
      PROVE  runs'[wk'[v].run].st = "running"
  BY <1>1, <1>w DEF ReapOnlyOrphans, InFlight, Slot
<1>2. ASSUME UNCHANGED <<wk, runs>>
      PROVE  runs'[wk'[v].run].st = "running"
  BY <1>1, <1>2
<1>3. ASSUME NEW w \in Workers, NEW t \in TaskIds, Dequeue(w, t)
      PROVE  runs'[wk'[v].run].st = "running"
  <2>1. wk'[v] = wk[v]
    BY <1>3, <1>w DEF Dequeue, IdleSlot, InFlight
  <2> QED  BY <1>1, <1>3, <2>1 DEF Dequeue
<1>4. ASSUME NEW w \in Workers, RunnerStep(w)
      PROVE  runs'[wk'[v].run].st = "running"
  <2>1. CASE StartRun(w)
    <3>1. PICK r \in RunIds :
            /\ \A u \in Workers : ~Holds(u, r)
            /\ runs' = [runs EXCEPT ![r] = [st |-> "running", old |-> FALSE]]
            /\ AfterStart(w, r)
      BY <2>1 DEF StartRun, Reusable
    <3>2. CASE v = w
      BY <1>w, <3>1, <3>2 DEF AfterStart, Slot
    <3>3. CASE v # w
      <4>1. wk'[v] = wk[v] /\ wk[v].run \in RunIds /\ wk[v].run # r
        BY <1>w, <3>1, <3>3 DEF AfterStart, Holds, InFlight, Slot
      <4> QED  BY <1>w, <3>1, <4>1 DEF ReapOnlyOrphans, InFlight
    <3> QED  BY <3>2, <3>3
  <2>2. CASE FinishRun(w)
    <3>1. v # w
      BY <1>w, <2>2 DEF FinishRun, Slot, InFlight
    <3>2. wk'[v] = wk[v]
      BY <1>w, <2>2, <3>1 DEF FinishRun
    <3>3. wk[v].run \in RunIds /\ wk[v].run # wk[w].run
      BY <1>w, <3>1, <3>2 DEF InFlight, Slot, RunInv, RowFollowsSync
    <3> QED  BY <1>w, <2>2, <3>2, <3>3 DEF FinishRun, ReapOnlyOrphans, InFlight
  <2>3. CASE ~StartRun(w) /\ ~FinishRun(w)
    <3>1. UNCHANGED runs
      BY <1>4, <2>3 DEF RunnerStep, Load, CheckRunning, SyncCall, SyncAgain, RefreshCall,
                        SaveRefreshed, MarkRow, Settle
    <3>2. CASE v # w
      <4>1. wk'[v] = wk[v]
        BY <1>4, <1>w, <2>3, <3>2
           DEF RunnerStep, Load, CheckRunning, SyncCall, RefreshCall, SaveRefreshed,
               SyncAgain, MarkRow, Settle, AfterSync, Conclude, Goto
      <4> QED  BY <1>1, <3>1, <4>1
    <3>3. CASE v = w
      <4>1. ASSUME Load(w) \/ Settle(w) PROVE wk'[w].run \in {wk[w].run, NoRun}
        BY <1>w, <3>3, <4>1 DEF Load, Settle, IdleSlot, Slot
      <4>2. ASSUME CheckRunning(w) \/ SaveRefreshed(w) \/ MarkRow(w)
            PROVE  wk'[w].run = wk[w].run
        BY <1>w, <3>3, <4>2 DEF CheckRunning, SaveRefreshed, MarkRow, Conclude, Goto, Slot
      <4>3. ASSUME SyncCall(w) \/ SyncAgain(w)
            PROVE  wk'[w].run = wk[w].run
        <5>1. PICK out : AfterSync(w, out) \/ Goto(w, "refresh")
          BY <4>3 DEF SyncCall, SyncAgain
        <5> QED  BY <1>w, <3>3, <5>1 DEF AfterSync, Conclude, Goto, Slot
      <4>4. ASSUME RefreshCall(w)
            PROVE  wk'[w].run = wk[w].run
        <5>1. ASSUME NEW t \in Tokens, wk' = [wk EXCEPT ![w].cred = t, ![w].pc = "rotate"]
              PROVE  wk'[w].run = wk[w].run
          BY <1>w, <3>3, <5>1 DEF Slot
        <5>2. CASE Conclude(w, "expired", "mark")
          BY <1>w, <3>3, <5>2 DEF Conclude, Slot
        <5> QED  BY <4>4, <5>1, <5>2 DEF RefreshCall
      <4>5. wk'[w].run \in {wk[w].run, NoRun}
        BY <1>4, <2>3, <4>1, <4>2, <4>3, <4>4 DEF RunnerStep
      <4> QED  BY <1>1, <3>1, <3>3, <4>5 DEF InFlight
    <3> QED  BY <3>2, <3>3
  <2> QED  BY <2>1, <2>2, <2>3
<1>11. ASSUME NEW w \in Workers, RunnerFault(w)
       PROVE  runs'[wk'[v].run].st = "running"
  <2>1. UNCHANGED runs
    BY <1>11 DEF RunnerFault
  <2>2. wk'[v].run \in {wk[v].run, NoRun}
    BY <1>11, FaultKeepsOrLetsGo
  <2> QED  BY <1>1, <2>1, <2>2 DEF InFlight
<1>5. ASSUME NEW p \in Procs, Reap(p)
      PROVE  runs'[wk'[v].run].st = "running"
  <2>1. wk[v].pc # "idle"
    BY <1>5 DEF Reap, RunInv, StepMatchesRow, HoldsARow, InFlight
  <2>2. v[1] = p
    BY DEF OneProcess, Workers
  <2> QED  BY <1>5, <2>1, <2>2 DEF Reap, BusyIsUp
<1>6. ASSUME NEW p \in Procs, Crash(p)
      PROVE  runs'[wk'[v].run].st = "running"
  BY <1>1, <1>6 DEF Crash, IdleSlot, InFlight
<1>7. ASSUME NEW r \in RunIds, RunAges(r)
      PROVE  runs'[wk'[v].run].st = "running"
  <2>1. \A q \in RunIds : runs'[q].st = runs[q].st
    BY <1>7, <1>w DEF RunAges, Run
  <2> QED  BY <1>1, <1>7, <2>1 DEF RunAges
<1>8. ASSUME NEW p \in Procs,
             \/ Scan(p) \/ TickSelects(p) \/ SchedSkips(p) \/ Restart(p)
             \/ SchedFault(p) \/ SchedEnqueues(p)
      PROVE  runs'[wk'[v].run].st = "running"
  BY <1>2, <1>8 DEF Scan, TickSelects, SchedSkips, SchedFault, Restart, SchedEnqueues
<1>9. CASE UserStep
  BY <1>2, <1>9 DEF UserStep, ConnectNew, ConnectRead, ConnectSave, RevokeRead, RevokeSave,
         Delete, RequestSync, RotateRead, RotateSave
<1>10. CASE \/ \E t \in TaskIds : LeaseExpires(t)
            \/ BecomesDue
            \/ \E t \in Tokens : TokenExpires(t)
            \/ UNCHANGED vars
  BY <1>2, <1>10 DEF LeaseExpires, BecomesDue, TokenExpires, vars
<1> QED
  BY <1>3, <1>4, <1>5, <1>6, <1>7, <1>8, <1>9, <1>10, <1>11 DEF Next, SchedStep

\* Where one process runs the workers, ReapStaleRuns fails only rows whose handler
\* is gone, however long a sync takes and however often the process dies: the
\* reaper runs before the first task is taken.
THEOREM OnlyOrphansAreReaped == OneProcess => (Spec => []ReapOnlyOrphans)
<1> SUFFICES ASSUME OneProcess PROVE Spec => []ReapOnlyOrphans
  OBVIOUS
<1>1. Init => BusyIsUp /\ ReapOnlyOrphans
  BY DEF Init, BusyIsUp, ReapOnlyOrphans, InFlight, IdleSlot
<1>2. RunInv /\ BusyIsUp /\ [Next]_vars => BusyIsUp'
  BY NextBusyIsUp DEF RunInv
<1>3. RunInv /\ BusyIsUp /\ ReapOnlyOrphans /\ [Next]_vars => ReapOnlyOrphans'
  BY NextReapOnlyOrphans, NextRunInv
<1> QED  BY <1>1, <1>2, <1>3, InitRunInv, NextRunInv, PTL DEF Spec

-----------------------------------------------------------------------------
(* IntegrationSync implements SyncRunLog: each step is a step of the log or  *)
(* leaves it alone.                                                          *)

Recorded == {r \in RunIds : \E w \in Workers : Holds(w, r)}

\* Every step but StartRun, FinishRun and Reap: no status changes, and no
\* handler comes to hold a row.
LEMMA QuietStep ==
  ASSUME \A r \in RunIds : runs'[r].st = runs[r].st,
         \A w \in Workers : wk'[w].run \in {wk[w].run, NoRun}
  PROVE  [Log!LogNext]_(Log!logVars)
<1> DEFINE R == Recorded \ Recorded'
<1>1. Recorded' \subseteq Recorded
  BY NullAssumption DEF Recorded, Holds
<1>2. R \in SUBSET RunIds /\ Recorded' = Recorded \ R
  BY <1>1 DEF Recorded
<1>3. Log!Abandon(R)
  BY <1>2 DEF Log!Abandon, Recorded
<1> QED  BY <1>2, <1>3 DEF Log!LogNext

LEMMA StartBegins ==
  ASSUME RunInv, NEW w \in Workers, StartRun(w)
  PROVE  Log!LogNext
<1> USE DEF RunInv, TypeOK
<1>1. PICK r \in RunIds :
        /\ \A v \in Workers : ~Holds(v, r)
        /\ runs' = [runs EXCEPT ![r] = [st |-> "running", old |-> FALSE]]
        /\ AfterStart(w, r)
  BY DEF StartRun, Reusable
<1>2. wk[w].run = NoRun
  <2>1. ~HoldsARow(w)
    BY DEF StartRun, HoldsARow
  <2> QED  BY <2>1 DEF StepMatchesRow, InFlight
<1>3. wk'[w].run = r /\ \A v \in Workers : v # w => wk'[v] = wk[v]
  BY <1>1 DEF AfterStart, Slot
<1>4. r \notin Recorded /\ Recorded' = Recorded \cup {r}
  BY <1>1, <1>2, <1>3, NullAssumption DEF Recorded, Holds
<1>5. [q \in RunIds |-> runs[q].st]' = [[q \in RunIds |-> runs[q].st] EXCEPT ![r] = "running"]
  BY <1>1
<1>6. \E q \in RunIds : Log!Begin(q)
  BY <1>1, <1>4, <1>5 DEF Log!Begin, Recorded
<1> QED  BY <1>6 DEF Log!LogNext

LEMMA FinishEnds ==
  ASSUME RunInv, NEW w \in Workers, FinishRun(w), InFlight(w)
  PROVE  Log!LogNext
<1> USE DEF RunInv, TypeOK
<1> DEFINE r == wk[w].run
           verdict == IF wk[w].out = "success" THEN "success" ELSE "failed"
<1>2. r \in RunIds /\ runs[r].st # "success" /\ \A v \in Workers : v # w => wk[v].run # r
  BY DEF RowFollowsSync, InFlight, Slot
<1>3. wk'[w].run = NoRun /\ \A v \in Workers : v # w => wk'[v] = wk[v]
  BY DEF FinishRun, Slot
<1>4. r \in Recorded /\ Recorded' = Recorded \ {r}
  BY <1>2, <1>3, NullAssumption DEF Recorded, Holds
<1>5. [q \in RunIds |-> runs[q].st]' = [[q \in RunIds |-> runs[q].st] EXCEPT ![r] = verdict]
  BY <1>2 DEF FinishRun, InFlight, Run
<1>6. \E q \in RunIds, v \in {"success", "failed"} : Log!End(q, v)
  BY <1>2, <1>4, <1>5 DEF Log!End, Recorded
<1> QED  BY <1>6 DEF Log!LogNext

LEMMA ReapGivesUp ==
  ASSUME RunInv, NEW p \in Procs, Reap(p)
  PROVE  Log!LogNext
<1> USE DEF RunInv, TypeOK
<1> DEFINE R == {r \in RunIds : runs[r].st = "running" /\ runs[r].old}
<1>1. runs' = [r \in RunIds |-> IF r \in R THEN [runs[r] EXCEPT !.st = "failed"]
                                          ELSE runs[r]]
  BY DEF Reap
<1>2. [r \in RunIds |-> runs[r].st]' =
        [r \in RunIds |-> IF r \in R THEN "failed" ELSE [q \in RunIds |-> runs[q].st][r]]
  BY <1>1 DEF Run
<1>3. Recorded' = Recorded
  BY DEF Reap, Recorded, Holds
<1>4. \E Q \in SUBSET RunIds : Log!GiveUp(Q)
  <2>1. R \in SUBSET RunIds
    OBVIOUS
  <2> QED  BY <1>2, <1>3, <2>1 DEF Log!GiveUp, Recorded
<1> QED  BY <1>4 DEF Log!LogNext

LEMMA StepImplementsLog ==
  RunInv /\ [Next]_vars => [Log!LogNext]_(Log!logVars)
<1> SUFFICES ASSUME RunInv, [Next]_vars PROVE [Log!LogNext]_(Log!logVars)
  OBVIOUS
<1>w. wk \in [Workers -> Slot] /\ runs \in [RunIds -> Run]
  BY DEF RunInv, TypeOK
<1>1. ASSUME NEW w \in Workers, StartRun(w) \/ (FinishRun(w) /\ InFlight(w))
      PROVE  Log!LogNext
  BY <1>1, StartBegins, FinishEnds
<1>2. ASSUME NEW p \in Procs, Reap(p)
      PROVE  Log!LogNext
  BY <1>2, ReapGivesUp
<1>3. ASSUME UNCHANGED runs, \A w \in Workers : wk'[w].run \in {wk[w].run, NoRun}
      PROVE  [Log!LogNext]_(Log!logVars)
  BY <1>3, QuietStep
<1>4. ASSUME UNCHANGED <<runs, wk>>
      PROVE  [Log!LogNext]_(Log!logVars)
  BY <1>3, <1>4
<1>5. ASSUME NEW w \in Workers, NEW t \in TaskIds, Dequeue(w, t)
      PROVE  [Log!LogNext]_(Log!logVars)
  BY <1>3, <1>5, <1>w DEF Dequeue, IdleSlot
<1>6. ASSUME NEW w \in Workers, RunnerStep(w), ~StartRun(w), ~FinishRun(w)
      PROVE  [Log!LogNext]_(Log!logVars)
  <2> DEFINE LetsGoOrKeeps == \A v \in Workers : wk'[v].run \in {wk[v].run, NoRun}
  <2>1. ASSUME Load(w) PROVE LetsGoOrKeeps
    BY <2>1, <1>w DEF Load, Slot, IdleSlot
  <2>2. ASSUME CheckRunning(w) PROVE LetsGoOrKeeps
    BY <2>2, <1>w DEF CheckRunning, Conclude, Goto, Slot, IdleSlot
  <2>3. ASSUME SyncCall(w) PROVE LetsGoOrKeeps
    BY <2>3, <1>w DEF SyncCall, AfterSync, Conclude, Goto, Slot, IdleSlot
  <2>4. ASSUME SyncAgain(w) PROVE LetsGoOrKeeps
    BY <2>4, <1>w DEF SyncAgain, AfterSync, Conclude, Goto, Slot, IdleSlot
  <2>5. ASSUME RefreshCall(w) PROVE LetsGoOrKeeps
    <3>1. \/ \E t \in Tokens : wk' = [wk EXCEPT ![w].cred = t, ![w].pc = "rotate"]
          \/ Conclude(w, "expired", "mark")
      BY <2>5 DEF RefreshCall
    <3>2. ASSUME NEW t \in Tokens, wk' = [wk EXCEPT ![w].cred = t, ![w].pc = "rotate"]
          PROVE  LetsGoOrKeeps
      BY <3>2, <1>w DEF Slot
    <3>3. CASE Conclude(w, "expired", "mark")
      BY <3>3, <1>w DEF Conclude, Slot
    <3> QED  BY <3>1, <3>2, <3>3
  <2>6. ASSUME SaveRefreshed(w) PROVE LetsGoOrKeeps
    BY <2>6, <1>w DEF SaveRefreshed, Goto, Slot, IdleSlot
  <2>7. ASSUME MarkRow(w) PROVE LetsGoOrKeeps
    BY <2>7, <1>w DEF MarkRow, Goto, Slot, IdleSlot
  <2>8. ASSUME Settle(w) PROVE LetsGoOrKeeps
    BY <2>8, <1>w DEF Settle, Slot, IdleSlot
  <2>9. UNCHANGED runs
    BY <1>6 DEF RunnerStep, Load, CheckRunning, SyncCall, SyncAgain, RefreshCall,
                SaveRefreshed, MarkRow, Settle
  <2> QED
    BY <1>3, <1>6, <2>1, <2>2, <2>3, <2>4, <2>5, <2>6, <2>7, <2>8, <2>9 DEF RunnerStep
<1>7. ASSUME NEW w \in Workers, FinishRun(w), ~InFlight(w)
      PROVE  [Log!LogNext]_(Log!logVars)
  BY <1>3, <1>7, <1>w DEF FinishRun, InFlight
<1>13. ASSUME NEW w \in Workers, RunnerFault(w)
       PROVE  [Log!LogNext]_(Log!logVars)
  <2>1. UNCHANGED runs
    BY <1>13 DEF RunnerFault
  <2> QED  BY <1>3, <1>13, <2>1, FaultKeepsOrLetsGo
<1>8. ASSUME NEW p \in Procs, Crash(p)
      PROVE  [Log!LogNext]_(Log!logVars)
  BY <1>3, <1>8 DEF Crash, IdleSlot
<1>9. ASSUME NEW r \in RunIds, RunAges(r)
      PROVE  [Log!LogNext]_(Log!logVars)
  <2>1. \A q \in RunIds : runs'[q].st = runs[q].st
    BY <1>9, <1>w DEF RunAges, Run
  <2> QED  BY <1>9, <2>1, QuietStep DEF RunAges
<1>10. ASSUME NEW p \in Procs,
              \/ Scan(p) \/ TickSelects(p) \/ SchedSkips(p) \/ Restart(p)
             \/ SchedFault(p) \/ SchedEnqueues(p)
       PROVE  [Log!LogNext]_(Log!logVars)
  BY <1>4, <1>10 DEF Scan, TickSelects, SchedSkips, SchedFault, Restart, SchedEnqueues
<1>11. CASE UserStep
  BY <1>4, <1>11
     DEF UserStep, ConnectNew, ConnectRead, ConnectSave, RevokeRead, RevokeSave,
         Delete, RequestSync, RotateRead, RotateSave
<1>12. CASE \/ \E t \in TaskIds : LeaseExpires(t)
            \/ BecomesDue
            \/ \E t \in Tokens : TokenExpires(t)
            \/ UNCHANGED vars
  BY <1>4, <1>12 DEF LeaseExpires, BecomesDue, TokenExpires, vars
<1> QED
  BY <1>1, <1>2, <1>5, <1>6, <1>7, <1>8, <1>9, <1>10, <1>11, <1>12, <1>13
     DEF Next, SchedStep

\* Every instance, with any number of processes, handlers, rows and crashes,
\* behaves as the abstract log of runs.
THEOREM ImplementsRunLog == Spec => KeepsRunLog
<1>1. Init => Log!LogInit
  <2>1. Init => \A w \in Workers : wk[w].run = NoRun
    BY DEF Init, IdleSlot
  <2>2. Init => \A r \in RunIds : runs[r].st = "none"
    BY DEF Init
  <2> QED  BY <2>1, <2>2, NullAssumption DEF Log!LogInit, Holds
<1>2. Spec => []RunInv
  BY InitRunInv, NextRunInv, PTL DEF Spec
<1> QED
  BY <1>1, <1>2, StepImplementsLog, PTL DEF Spec, KeepsRunLog, Log!LogSpec
=============================================================================
