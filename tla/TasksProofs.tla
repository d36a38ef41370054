------------------------------ MODULE TasksProofs ------------------------------
(***************************************************************************)
(* Proofs about Tasks: for any number of workers, tasks, retries, requests *)
(* and faults, however a task ends is accounted for, the failures of a     *)
(* webhook are counted and its secret kept, an enrolment moves one step    *)
(* per save, and what agents write adds no second row and undoes no edit,  *)
(* each but for the exceptions its statement names.                        *)
(***************************************************************************)
EXTENDS Tasks, TLAPS

\* Where a handler or a request holds a copy of the webhook, and where a handler
\* is sending.
HookPcs == {"create", "post", "again", "delivered", "failed", "bad", "reset", "count", "savehook"}
SendPcs == {"post", "again", "delivered", "failed", "bad"}

\* A worker stands where its kind of work can stand, and has a task exactly if it
\* runs a handler.
JobOK(j) ==
  /\ j.pc = "idle" => j.kind = "none"
  /\ j.pc \in HookPcs \ {"savehook"} => j.kind = "deliver"
  /\ j.pc \in {"advance", "error"} => j.kind = "advance"
  /\ j.pc \in {"find", "write"} => j.kind = "index"
  /\ j.pc \in {"update", "score"} => j.kind = "enrich"
  /\ j.pc \in {"start", "return"} => j.kind \in Registered
  /\ j.pc = "savehook" => j.kind = "request"
  /\ j.pc = "savecompany" => j.kind = "edit"
  /\ IF j.kind \in Registered THEN j.task # 0 ELSE j.task = 0
JobsOK == \A w \in Workers : JobOK(job[w])

\* A task under way is held by one worker, which has not saved before its end.
Holding ==
  \A w \in Workers : job[w].task # 0 =>
    /\ task[job[w].task].st = "active" /\ task[job[w].task].kind = job[w].kind
    /\ job[w].pc # "return" => task[job[w].task].saves <= task[job[w].task].retried
    /\ \A v \in Workers : job[v].task = job[w].task => v = w

\* What was archived is accounted for, and there is one save for each delivery.
TaskOK(t) ==
  /\ task[t].st = "archived" => task[t].dead \/ task[t].unseen
  /\ task[t].saves <= task[t].retried + 1
  /\ task[t].st \in {"none", "queued"} => task[t].saves <= task[t].retried
TasksOK == \A t \in TaskIds : TaskOK(t)

\* A copy of the webhook was live when it was read; whether a request can be made
\* from its URL never changes.
HooksRead ==
  \A w \in Workers : job[w].pc \in HookPcs =>
    hook.st # "none" /\ job[w].hook.st = "live" /\ job[w].hook.valid = hook.valid

\* What DoneMeansTried asks of a task, and how a handler gets there.
Tried(t) ==
  \/ task[t].skipped \/ task[t].unsaved
  \/ \E d \in DeliveryIds :
       /\ delivery[d].task = t
       /\ \/ delivery[d].st = "delivered"
          \/ delivery[d].st = "failed" /\ (delivery[d].attempts = MaxAttempts \/ ~hook.valid)
Tries(j) == j.kind = "deliver" /\ j.pc \in {"reset", "count", "return"}
Sending(j) ==
  /\ j.delivery # 0 /\ delivery[j.delivery].st # "none" /\ delivery[j.delivery].task = j.task
  /\ j.pc = "failed" => j.attempt = MaxAttempts
  /\ j.pc = "again" => j.attempt < MaxAttempts
  /\ j.pc = "bad" => ~j.hook.valid
Trying ==
  /\ \A t \in TaskIds :
       \/ task[t].kind = "deliver" /\ task[t].st = "done"
       \/ \E w \in Workers : Tries(job[w]) /\ job[w].task = t
       => Tried(t)
  /\ \A w \in Workers : job[w].pc \in SendPcs => Sending(job[w])

\* FailuresCounted, and the copies: nobody counted more than failed, and the copy of
\* a worker that is alone is the row.
Counting ==
  /\ FailuresCounted
  /\ hook.st = "none" => hook = NoHook /\ past.off = "nobody"
  /\ \A w \in Workers : job[w].pc \in HookPcs =>
       job[w].hook.failures <= past.failed /\ (job[w].alone => job[w].hook = hook)

\* Its like for the enrolment,
Advancing ==
  /\ enrolment.st = "none" => enrolment.step = 0
  /\ enrolment.st = "completed" /\ "steps" \notin past.blind => enrolment.step = Steps
  /\ "enrolment" \notin past.lost =>
       past.saved = enrolment.step + IF enrolment.st = "completed" THEN 1 ELSE 0
  /\ \A w \in Workers : job[w].pc = "advance" =>
       job[w].enrolment.st = "active" /\ (job[w].alone => job[w].enrolment = enrolment)

\* for the rows of the index, where one handler at most can be about to insert,
Missed(j) == j.pc = "write" /\ ~j.found
Indexing ==
  ~past.raced /\ "index" \notin past.blind =>
    /\ \A k \in Tables : index[k] <= 1
    /\ \A w \in Workers : Missed(job[w]) =>
         /\ index[job[w].table] = 0
         /\ \A v \in Workers : Missed(job[v]) /\ job[v].table = job[w].table => v = w

\* and for the company.
Editing ==
  /\ EnrichKeepsEdits
  /\ \A w \in Workers : job[w].pc \in {"update", "savecompany"} /\ job[w].alone =>
       job[w].company = company


TasksInv == /\ TypeOK /\ JobsOK /\ Holding /\ TasksOK /\ HooksRead
            /\ Trying /\ Counting /\ Advancing /\ Indexing /\ Editing

-----------------------------------------------------------------------------
(* Steps.                                                                  *)

\* Nothing but alone has changed.
SameJob(a, b) == b = a \/ b = [a EXCEPT !.alone = FALSE]
Others(w) == \A v \in Workers : v # w => SameJob(job[v], job'[v])
\* Nobody has come to one of these places.
Stay(pcs) == \A v \in Workers : job'[v].pc \in pcs => SameJob(job[v], job'[v])

LEMMA SameFields ==
  ASSUME NEW a \in Job, NEW b, SameJob(a, b)
  PROVE  /\ b \in Job /\ b.kind = a.kind /\ b.pc = a.pc /\ b.task = a.task
         /\ b.delivery = a.delivery /\ b.attempt = a.attempt /\ b.hook = a.hook
         /\ b.enrolment = a.enrolment /\ b.company = a.company /\ b.wants = a.wants
         /\ b.table = a.table /\ b.found = a.found /\ (b.alone => a.alone)
  BY DEF SameJob, Job

LEMMA NotAlone == ASSUME NEW a \in Job PROVE [a EXCEPT !.alone = FALSE] \in Job
  BY DEF Job

\* w goes on as j.
LEMMA StepMoves ==
  ASSUME TypeOK, NEW w \in Workers, NEW j, Step(w, j)
  PROVE  Others(w) /\ job'[w] = j /\ \A v \in Workers : v # w => job'[v] = job[v]
  BY DEF TypeOK, Step, Others, SameJob

LEMMA WroteMoves ==
  ASSUME TypeOK, NEW w \in Workers, NEW j, NEW K, Wrote(w, j, K)
  PROVE  /\ Others(w) /\ job'[w] = j
         /\ \A v \in Workers : v # w /\ job[v].kind \in K => ~job'[v].alone
  BY DEF TypeOK, Wrote, Others, SameJob, Job

LEMMA JobsTyped ==
  ASSUME TypeOK, NEW w \in Workers, NEW j \in Job, NEW K, Step(w, j) \/ Wrote(w, j, K)
  PROVE  job' \in [Workers -> Job]
<1>1. \A v \in Workers : [job[v] EXCEPT !.alone = FALSE] \in Job
  BY DEF TypeOK, Job
<1> QED  BY <1>1 DEF TypeOK, Step, Wrote

LEMMA OthersStay ==
  ASSUME NEW w \in Workers, Others(w), NEW pcs, job'[w].pc \notin pcs
  PROVE  Stay(pcs)
  BY DEF Others, Stay

LEMMA RequestTyped == ASSUME TypeOK, Request PROVE requests' \in 0 .. MaxRequests
  BY BoundAssumption DEF TypeOK, Request
LEMMA IgnoredTyped == ASSUME TypeOK, NEW e, Ignored(e) PROVE faults' \in 0 .. MaxFaults
  BY BoundAssumption DEF TypeOK, Ignored

\* A worker that has a task holds it.
LEMMA Holds ==
  ASSUME TasksInv, NEW w \in Workers
  PROVE  /\ job[w] \in Job /\ JobOK(job[w])
         /\ job[w].task # 0 => /\ job[w].task \in TaskIds /\ task[job[w].task] \in Task
                               /\ task[job[w].task].st = "active"
<1>1. job[w] \in Job /\ JobOK(job[w])
  BY DEF TasksInv, TypeOK, JobsOK
<1>2. job[w].task # 0 => job[w].task \in TaskIds
  BY <1>1, BoundAssumption DEF Job, TaskIds
<1> QED  BY <1>1, <1>2 DEF TasksInv, TypeOK, Holding

-----------------------------------------------------------------------------
(* What a step leaves alone.                                               *)

\* The tasks.
LEMMA QueueAside ==
  ASSUME TasksInv, NEW w \in Workers, Others(w), JobOK(job'[w]), UNCHANGED task,
         job'[w].task # 0 =>
           /\ job'[w].task = job[w].task /\ job'[w].kind = job[w].kind
           /\ job'[w].pc # "return" => job[w].pc # "return"
  PROVE  JobsOK' /\ Holding' /\ TasksOK'
<1> USE DEF TasksInv
<1>1. \A v \in Workers : v # w =>
        job'[v].task = job[v].task /\ job'[v].kind = job[v].kind /\ job'[v].pc = job[v].pc
  BY SameFields DEF Others, TypeOK
<1>2. JobsOK'
  BY <1>1 DEF JobsOK, JobOK
<1>3. Holding'
  BY <1>1 DEF Holding
<1>4. TasksOK'
  BY DEF TasksOK, TaskOK
<1> QED  BY <1>2, <1>3, <1>4

\* The webhook, and the copies of it.
HookSame ==
  /\ UNCHANGED hook
  /\ past'.streak = past.streak /\ past'.failed = past.failed
  /\ past'.off = past.off /\ past'.rotated = past.rotated
  /\ "hook" \notin past'.lost => "hook" \notin past.lost
HookAside == Stay(HookPcs) /\ HookSame
LEMMA CopiesKept ==
  ASSUME TasksInv, HookSame,
         \A v \in Workers : job'[v].pc \in HookPcs =>
           /\ job[v].pc \in HookPcs /\ job'[v].hook = job[v].hook
           /\ job'[v].alone => job[v].alone
  PROVE  HooksRead' /\ Counting'
<1>1. HooksRead'
  BY DEF HooksRead, TasksInv, HookSame
<1>2. Counting'
  BY DEF Counting, FailuresCounted, TasksInv, HookSame
<1> QED  BY <1>1, <1>2
LEMMA HookKept == ASSUME TasksInv, HookAside PROVE HooksRead' /\ Counting'
  BY CopiesKept, SameFields DEF HookAside, Stay, TasksInv, TypeOK

\* The deliveries.
TryAside ==
  /\ \A v \in Workers : job'[v].pc \in SendPcs \/ Tries(job'[v]) => SameJob(job[v], job'[v])
  /\ UNCHANGED delivery
  /\ hook.st # "none" => hook'.valid = hook.valid
  /\ \A t \in TaskIds : /\ task[t].skipped => task'[t].skipped
                        /\ task[t].unsaved => task'[t].unsaved
                        /\ task'[t].kind = "deliver" /\ task'[t].st = "done"
                             => task[t].kind = "deliver" /\ task[t].st = "done"
LEMMA TriedKept ==
  ASSUME TasksInv, UNCHANGED delivery, hook.st # "none" => hook'.valid = hook.valid,
         NEW t \in TaskIds, Tried(t),
         task[t].skipped => task'[t].skipped, task[t].unsaved => task'[t].unsaved
  PROVE  Tried(t)'
<1>1. ~hook.valid => ~hook'.valid
  BY DEF TasksInv, Counting, NoHook
<1> QED  BY <1>1 DEF Tried
LEMMA TryKept == ASSUME TasksInv, TryAside PROVE Trying'
<1> USE DEF TasksInv
<1>1. ASSUME NEW t \in TaskIds, task'[t].kind = "deliver", task'[t].st = "done"
      PROVE  Tried(t)'
  BY <1>1, TriedKept DEF TryAside, Trying
<1>2. ASSUME NEW v \in Workers, Tries(job'[v]), NEW t \in TaskIds, job'[v].task = t
      PROVE  Tried(t)'
  <2>1. Tries(job[v]) /\ job[v].task = t
    BY <1>2, SameFields DEF TryAside, Tries, TypeOK
  <2> QED  BY <2>1, TriedKept DEF TryAside, Trying
<1>3. ASSUME NEW v \in Workers, job'[v].pc \in SendPcs
      PROVE  Sending(job[v])'
  <2>1. /\ job[v].pc = job'[v].pc /\ job'[v].task = job[v].task /\ job'[v].hook = job[v].hook
        /\ job'[v].delivery = job[v].delivery /\ job'[v].attempt = job[v].attempt
    BY <1>3, SameFields DEF TryAside, TypeOK
  <2> QED  BY <1>3, <2>1 DEF Trying, Sending, TryAside
<1> QED  BY <1>1, <1>2, <1>3 DEF Trying, Tries

\* The enrolment.
EnrolAside ==
  /\ Stay({"advance"}) /\ UNCHANGED enrolment /\ past'.saved = past.saved
  /\ "enrolment" \notin past'.lost => "enrolment" \notin past.lost
  /\ "steps" \notin past'.blind => "steps" \notin past.blind
LEMMA EnrolKept == ASSUME TasksInv, EnrolAside PROVE Advancing'
<1>1. \A v \in Workers : job'[v].pc = "advance" =>
        /\ job[v].pc = "advance" /\ job'[v].enrolment = job[v].enrolment
        /\ job'[v].alone => job[v].alone
  BY SameFields DEF EnrolAside, Stay, TasksInv, TypeOK
<1> QED  BY <1>1 DEF Advancing, TasksInv, EnrolAside

\* The index.
IndexAside ==
  /\ Stay({"write"}) /\ UNCHANGED index /\ past'.raced = past.raced
  /\ "index" \notin past'.blind => "index" \notin past.blind
LEMMA IndexKept == ASSUME TasksInv, IndexAside PROVE Indexing'
<1>1. \A v \in Workers : Missed(job'[v]) => Missed(job[v]) /\ job'[v].table = job[v].table
  BY SameFields DEF IndexAside, Stay, TasksInv, TypeOK, Missed
<1> QED  BY <1>1 DEF Indexing, TasksInv, IndexAside

\* The company.
CompanyAside ==
  /\ Stay({"update", "savecompany"}) /\ UNCHANGED company /\ past'.edited = past.edited
  /\ "company" \notin past'.lost => "company" \notin past.lost
LEMMA CompanyKept == ASSUME TasksInv, CompanyAside PROVE Editing'
<1>1. \A v \in Workers : job'[v].pc \in {"update", "savecompany"} =>
        /\ job[v].pc = job'[v].pc /\ job'[v].company = job[v].company
        /\ job'[v].alone => job[v].alone
  BY SameFields DEF CompanyAside, Stay, TasksInv, TypeOK
<1> QED  BY <1>1 DEF Editing, EnrichKeepsEdits, TasksInv, CompanyAside

-----------------------------------------------------------------------------
(* The queue.                                                              *)

LEMMA IdleTyped == Idle \in Job /\ JobOK(Idle)
  BY BoundAssumption DEF Idle, Job, NoHook, Hook, Enrolment, Company, Tables, JobOK,
     HookPcs, Registered

\* Idle workers hold no copies.
LEMMA IdleAside ==
  ASSUME NEW w \in Workers, Others(w), job'[w] = Idle
  PROVE  /\ Stay(HookPcs) /\ Stay({"advance"}) /\ Stay({"write"})
         /\ Stay({"update", "savecompany"})
         /\ \A v \in Workers : job'[v].pc \in SendPcs \/ Tries(job'[v]) => SameJob(job[v], job'[v])
  BY DEF Others, Stay, Idle, HookPcs, SendPcs, Tries

\* w is done with its task, which becomes r.
LEMMA LetsGo ==
  ASSUME TasksInv, NEW w \in Workers, Step(w, Idle), NEW t \in TaskIds, job[w].task = t,
         NEW r \in Task, task' = [task EXCEPT ![t] = r],
         r.st # "active", r.kind = task[t].kind,
         r.skipped = task[t].skipped, r.unsaved = task[t].unsaved,
         r.st = "archived" => r.dead \/ r.unseen,
         r.saves <= r.retried + 1, r.st = "queued" => r.saves <= r.retried, r.st # "none",
         r.kind = "deliver" /\ r.st = "done" => Tried(t),
         UNCHANGED <<hook, delivery, enrolment, index, company, requests, past>>,
         faults' \in 0 .. MaxFaults
  PROVE  TasksInv'
<1>1. TypeOK
  BY DEF TasksInv
<1>2. /\ Others(w) /\ job'[w] = Idle
      /\ \A v \in Workers : v # w => job'[v] = job[v]
  BY <1>1, StepMoves
<1>3. /\ task'[t] = r /\ \A s \in TaskIds : s # t => task'[s] = task[s]
  BY <1>1 DEF TypeOK
<1>4. TypeOK'
  BY <1>1, IdleTyped, JobsTyped DEF TypeOK
<1>5. JobsOK'
  BY <1>2, IdleTyped DEF TasksInv, JobsOK
<1>6. Holding'
  <2>1. ASSUME NEW v \in Workers, job'[v].task # 0
        PROVE  v # w /\ job[v].task # t /\ job[v].task \in TaskIds
    BY <1>2, <2>1, Holds DEF Idle, TasksInv, Holding, TaskIds
  <2> QED  BY <1>2, <1>3, <2>1 DEF TasksInv, Holding
<1>7. TasksOK'
  BY <1>3 DEF TasksInv, TasksOK, TaskOK
<1>8. HookAside /\ EnrolAside /\ IndexAside /\ CompanyAside
  BY <1>2, IdleAside DEF HookAside, HookSame, EnrolAside, IndexAside, CompanyAside
<1>9. Trying'
  <2>1. \A s \in TaskIds : Tried(s) => Tried(s)'
    BY <1>3 DEF Tried
  <2>2. ASSUME NEW s \in TaskIds, task'[s].kind = "deliver", task'[s].st = "done"
        PROVE  Tried(s)'
    BY <1>3, <2>1, <2>2 DEF TasksInv, Trying
  <2>3. ASSUME NEW v \in Workers, Tries(job'[v]), NEW s \in TaskIds, job'[v].task = s
        PROVE  Tried(s)'
    BY <1>2, <2>1, <2>3 DEF TasksInv, Trying, Tries, Idle
  <2>4. ASSUME NEW v \in Workers, job'[v].pc \in SendPcs PROVE Sending(job[v])'
    BY <1>2, <2>4 DEF TasksInv, Trying, Sending, Idle, SendPcs
  <2> QED  BY <2>2, <2>3, <2>4 DEF Trying
<1> QED
  BY <1>4, <1>5, <1>6, <1>7, <1>8, <1>9, HookKept, EnrolKept, IndexKept, CompanyKept
     DEF TasksInv

\* The handler of a task returned an error: it is queued again or on record.
LEMMA FailedBecomes ==
  ASSUME TypeOK, NEW t \in TaskIds, task[t].saves <= task[t].retried,
         NEW e \in BOOLEAN, task' = Failed(t, e)
  PROVE  \E r \in Task :
           /\ task' = [task EXCEPT ![t] = r]
           /\ r.kind = task[t].kind /\ r.st \in {"queued", "archived"}
           /\ r.skipped = task[t].skipped /\ r.unsaved = task[t].unsaved
           /\ r.st = "archived" => r.dead \/ r.unseen
           /\ r.saves <= r.retried /\ r.saves <= r.retried + 1
<1>1. PICK r : r = task'[t]
  OBVIOUS
<1>2. task[t] \in Task /\ task \in [TaskIds -> Task] /\ task[t].retried \in 0 .. MaxRetry
  BY DEF TypeOK, Task
<1>3. /\ task' = [task EXCEPT ![t] = r]
      /\ r = [task[t] EXCEPT !.st = IF task[t].retried < MaxRetry THEN "queued" ELSE "archived",
                             !.retried = IF task[t].retried < MaxRetry THEN task[t].retried + 1
                                         ELSE task[t].retried,
                             !.dead = IsLastAttempt(t) /\ ~e,
                             !.unseen = IsLastAttempt(t) /\ e]
  BY <1>1, <1>2 DEF Failed
<1>4. CASE task[t].retried < MaxRetry
  <2>1. /\ task[t].retried + 1 \in 0 .. MaxRetry
        /\ task[t].saves <= task[t].retried + 1
    BY <1>2, <1>4, BoundAssumption DEF Task
  <2>2. /\ r.st = "queued" /\ r.retried = task[t].retried + 1 /\ r.kind = task[t].kind
        /\ r.skipped = task[t].skipped /\ r.unsaved = task[t].unsaved
        /\ r.saves = task[t].saves /\ r \in Task
    BY <1>2, <1>3, <1>4, <2>1 DEF Task
  <2>3. r.saves <= r.retried /\ r.saves <= r.retried + 1
    BY <1>2, <2>1, <2>2, BoundAssumption DEF Task
  <2> QED  BY <1>3, <2>2, <2>3
<1>5. CASE ~(task[t].retried < MaxRetry)
  <2>1. IsLastAttempt(t)
    BY <1>2, <1>5, BoundAssumption DEF IsLastAttempt
  <2>2. r \in Task /\ r.kind = task[t].kind /\ r.st = "archived" /\ r.saves <= r.retried
    BY <1>2, <1>3, <1>5, BoundAssumption DEF Task
  <2>3. r.skipped = task[t].skipped /\ r.unsaved = task[t].unsaved /\ (r.dead \/ r.unseen)
    BY <1>2, <1>3, <2>1 DEF Task
  <2>4. r.saves <= r.retried + 1
    BY <2>2, BoundAssumption DEF Task
  <2> QED  BY <1>3, <2>2, <2>3, <2>4
<1> QED  BY <1>4, <1>5

LEMMA HandlerFailsInv ==
  ASSUME TasksInv, NEW w \in Workers, HandlerFails(w) PROVE TasksInv'
<1>1. /\ job[w] \in Job /\ JobOK(job[w]) /\ job[w].pc = "error"
      /\ job[w].task \in TaskIds /\ task[job[w].task] \in Task
  BY Holds DEF HandlerFails, JobOK, Registered
<1>2. PICK t \in TaskIds : t = job[w].task
  BY <1>1
<1>3. PICK e \in BOOLEAN : Ignored(e) /\ task' = Failed(t, e)
  BY <1>2 DEF HandlerFails
<1>4. TypeOK /\ task[t].saves <= task[t].retried
  BY <1>1, <1>2 DEF TasksInv, Holding, TaskIds
<1>5. faults' \in 0 .. MaxFaults
  BY <1>3, <1>4, IgnoredTyped
<1>6. Step(w, Idle) /\ UNCHANGED <<hook, delivery, enrolment, index, company, requests, past>>
  BY DEF HandlerFails
<1>7. PICK r \in Task :
           /\ task' = [task EXCEPT ![t] = r]
           /\ r.kind = task[t].kind /\ r.st \in {"queued", "archived"}
           /\ r.skipped = task[t].skipped /\ r.unsaved = task[t].unsaved
           /\ r.st = "archived" => r.dead \/ r.unseen
           /\ r.saves <= r.retried /\ r.saves <= r.retried + 1
  BY <1>3, <1>4, FailedBecomes
<1> QED  BY <1>2, <1>5, <1>6, <1>7, LetsGo

LEMMA AckInv == ASSUME TasksInv, NEW w \in Workers, Ack(w) PROVE TasksInv'
<1>1. /\ job[w] \in Job /\ JobOK(job[w]) /\ job[w].pc = "return"
      /\ job[w].task \in TaskIds /\ task[job[w].task] \in Task
  BY Holds DEF Ack, JobOK, Registered
<1>2. PICK t \in TaskIds : t = job[w].task
  BY <1>1
<1>3. /\ task[t] \in Task /\ task \in [TaskIds -> Task] /\ task[t].saves <= task[t].retried + 1
      /\ task[t].kind = job[w].kind
  BY <1>1, <1>2 DEF TasksInv, TypeOK, TasksOK, TaskOK, Holding, TaskIds
<1>4. PICK r : r = [task[t] EXCEPT !.st = "done"]
  OBVIOUS
<1>5. task' = [task EXCEPT ![t] = r]
  BY <1>2, <1>3, <1>4 DEF Ack
<1>6. /\ r \in Task /\ r.kind = task[t].kind /\ r.st = "done"
      /\ r.skipped = task[t].skipped /\ r.unsaved = task[t].unsaved
      /\ r.saves <= r.retried + 1
  BY <1>3, <1>4 DEF Task
<1>7. r.kind = "deliver" => Tried(t)
  BY <1>1, <1>2, <1>3, <1>6 DEF TasksInv, Trying, Tries
<1>8. faults' \in 0 .. MaxFaults
  BY DEF Ack, TasksInv, TypeOK
<1> QED  BY <1>2, <1>5, <1>6, <1>7, <1>8, LetsGo DEF Ack

LEMMA CrashInv == ASSUME TasksInv, NEW w \in Workers, Crash(w) PROVE TasksInv'
<1>1. /\ job[w] \in Job /\ JobOK(job[w])
      /\ job[w].task # 0 => job[w].task \in TaskIds
  BY Holds
<1>2. TypeOK /\ faults' \in 0 .. MaxFaults /\ Step(w, Idle)
  BY IgnoredTyped DEF Crash, TasksInv
<1>3. CASE job[w].task = 0
  <2>1. UNCHANGED task
    BY <1>3 DEF Crash
  <2>2. Others(w) /\ job'[w] = Idle
    BY <1>2, StepMoves
  <2>3. TypeOK'
    BY <1>2, <2>1, IdleTyped, JobsTyped DEF TypeOK, Crash
  <2>4. HookAside /\ EnrolAside /\ IndexAside /\ CompanyAside /\ TryAside
    BY <2>1, <2>2, IdleAside
       DEF HookAside, HookSame, EnrolAside, IndexAside, CompanyAside, TryAside, Crash
  <2>5. JobsOK' /\ Holding' /\ TasksOK'
    BY <2>1, <2>2, IdleTyped, QueueAside DEF Idle
  <2> QED
    BY <2>3, <2>4, <2>5, HookKept, EnrolKept, IndexKept, CompanyKept, TryKept DEF TasksInv
<1>4. CASE job[w].task # 0
  <2>1. PICK t \in TaskIds : t = job[w].task
    BY <1>1, <1>4
  <2>2. /\ task[t] \in Task /\ task \in [TaskIds -> Task] /\ task[t].saves <= task[t].retried + 1
        /\ task[t].st = "active" /\ t # 0
    BY <1>1, <2>1 DEF TasksInv, TypeOK, TasksOK, TaskOK, Holding, TaskIds
  <2>3. PICK r : r = [task[t] EXCEPT
                        !.st = IF task[t].retried < MaxRetry THEN "queued" ELSE "archived",
                        !.retried = IF task[t].retried < MaxRetry THEN task[t].retried + 1
                                    ELSE task[t].retried,
                        !.unseen = task[t].retried >= MaxRetry]
    OBVIOUS
  <2>4. task' = [task EXCEPT ![t] = r]
    BY <2>1, <2>2, <2>3 DEF Crash
  <2>5. /\ r \in Task /\ r.kind = task[t].kind /\ r.st \in {"queued", "archived"}
        /\ r.skipped = task[t].skipped /\ r.unsaved = task[t].unsaved
        /\ r.st = "archived" => r.dead \/ r.unseen
        /\ r.saves <= r.retried + 1 /\ (r.st = "queued" => r.saves <= r.retried)
    <3>1. CASE task[t].retried < MaxRetry
      <4>1. /\ task[t].retried + 1 \in 0 .. MaxRetry
            /\ task[t].saves <= task[t].retried + 1
            /\ task[t].retried \in Nat /\ task[t].saves \in Nat
        BY <2>2, <3>1, BoundAssumption DEF Task
      <4>2. /\ r.st = "queued" /\ r.retried = task[t].retried + 1 /\ r.kind = task[t].kind
            /\ r.skipped = task[t].skipped /\ r.unsaved = task[t].unsaved
            /\ r.saves = task[t].saves /\ r \in Task
        <5>1. (task[t].retried >= MaxRetry) = FALSE
          BY <4>1, <3>1, BoundAssumption
        <5>2. r = [task[t] EXCEPT !.st = "queued", !.retried = task[t].retried + 1,
                                  !.unseen = FALSE]
          BY <2>3, <3>1, <5>1
        <5> QED  BY <2>2, <4>1, <5>2 DEF Task
      <4> QED  BY <4>1, <4>2
    <3>2. CASE ~(task[t].retried < MaxRetry)
      <4>1. task[t].retried >= MaxRetry
        BY <2>2, <3>2, BoundAssumption DEF Task
      <4> QED  BY <2>2, <2>3, <3>2, <4>1, BoundAssumption DEF Task
    <3> QED  BY <3>1, <3>2
  <2> QED  BY <1>2, <2>1, <2>4, <2>5, LetsGo DEF Crash
<1> QED  BY <1>3, <1>4

\* A task nobody holds becomes r.
LEMMA Unheld ==
  ASSUME TasksInv, NEW t \in TaskIds, task[t].st # "active",
         NEW r \in Task, task' = [task EXCEPT ![t] = r],
         r.st # "active", r.st # "done", r.saves <= r.retried + 1,
         r.skipped = task[t].skipped, r.unsaved = task[t].unsaved,
         r.st = "archived" => r.dead \/ r.unseen,
         r.st \in {"none", "queued"} => r.saves <= r.retried,
         UNCHANGED <<hook, delivery, enrolment, index, company, job, requests, past>>,
         faults' \in 0 .. MaxFaults
  PROVE  TasksInv'
<1>1. /\ task'[t] = r /\ \A s \in TaskIds : s # t => task'[s] = task[s]
      /\ \A v \in Workers : job'[v] = job[v]
  BY DEF TasksInv, TypeOK
<1>2. TypeOK' /\ JobsOK'
  BY DEF TasksInv, TypeOK, JobsOK
<1>3. Holding' /\ TasksOK'
  <2>1. \A v \in Workers : job[v].task # 0 => job[v].task \in TaskIds /\ job[v].task # t
    BY Holds
  <2> QED  BY <1>1, <2>1 DEF TasksInv, Holding, TasksOK, TaskOK
<1>4. HookAside /\ EnrolAside /\ IndexAside /\ CompanyAside /\ TryAside
  BY <1>1 DEF HookAside, HookSame, EnrolAside, IndexAside, CompanyAside, TryAside, Stay, SameJob
<1> QED
  BY <1>2, <1>3, <1>4, HookKept, EnrolKept, IndexKept, CompanyKept, TryKept DEF TasksInv

LEMMA NoHandlerInv ==
  ASSUME TasksInv, NEW t \in TaskIds, NoHandler(t) PROVE TasksInv'
<1>1. PICK e \in BOOLEAN : Ignored(e) /\ task' = Failed(t, e)
  BY DEF NoHandler
<1>2. TypeOK /\ task[t].st = "queued" /\ task[t].saves <= task[t].retried
  BY DEF TasksInv, TasksOK, TaskOK, NoHandler
<1>3. faults' \in 0 .. MaxFaults
  BY <1>1, <1>2, IgnoredTyped
<1>4. UNCHANGED <<hook, delivery, enrolment, index, company, job, requests, past>>
  BY DEF NoHandler
<1>5. PICK r \in Task :
           /\ task' = [task EXCEPT ![t] = r]
           /\ r.kind = task[t].kind /\ r.st \in {"queued", "archived"}
           /\ r.skipped = task[t].skipped /\ r.unsaved = task[t].unsaved
           /\ r.st = "archived" => r.dead \/ r.unseen
           /\ r.saves <= r.retried /\ r.saves <= r.retried + 1
  BY <1>1, <1>2, FailedBecomes
<1> QED  BY <1>2, <1>3, <1>4, <1>5, Unheld

LEMMA EnqueueInv ==
  ASSUME TasksInv, NEW t \in TaskIds, NEW k \in Kinds, Enqueue(t, k) PROVE TasksInv'
<1>1. /\ task[t] \in Task /\ task \in [TaskIds -> Task] /\ task[t].st = "none"
      /\ task[t].saves <= task[t].retried /\ task[t].saves <= task[t].retried + 1
      /\ faults \in 0 .. MaxFaults
  BY DEF TasksInv, TypeOK, TasksOK, TaskOK, Enqueue, IsNext
<1>2. PICK r : r = [task[t] EXCEPT !.kind = k, !.st = "queued"]
  OBVIOUS
<1>3. /\ r \in Task /\ r.st = "queued" /\ r.saves = task[t].saves /\ r.retried = task[t].retried
      /\ r.skipped = task[t].skipped /\ r.unsaved = task[t].unsaved
  BY <1>1, <1>2, KindAssumption DEF Task
<1>4. task' = [task EXCEPT ![t] = r]
  BY <1>1, <1>2 DEF Enqueue
<1> QED  BY <1>1, <1>3, <1>4, Unheld DEF Enqueue

LEMMA TakeInv ==
  ASSUME TasksInv, NEW w \in Workers, NEW t \in TaskIds, Take(w, t) PROVE TasksInv'
<1>1. /\ task[t] \in Task /\ task \in [TaskIds -> Task] /\ task[t].st = "queued"
      /\ task[t].kind \in Registered /\ task[t].saves <= task[t].retried
      /\ t # 0 /\ t \in 0 .. MaxTasks
  BY BoundAssumption DEF TasksInv, TypeOK, TasksOK, TaskOK, Take, TaskIds
<1>2. PICK j : j = [Idle EXCEPT !.kind = task[t].kind, !.pc = "start", !.task = t]
  OBVIOUS
<1>3. j \in Job
  BY <1>1, <1>2, IdleTyped DEF Job, Idle, Registered, AllKinds
<1>4. j.pc = "start" /\ j.kind = task[t].kind /\ j.task = t
  BY <1>1, <1>2 DEF Idle
<1>5. JobOK(j)
  BY <1>1, <1>4 DEF JobOK, HookPcs
<1>6. TypeOK /\ Step(w, j)
  BY <1>2 DEF Take, TasksInv
<1>7. /\ Others(w) /\ job'[w] = j
      /\ \A v \in Workers : v # w => job'[v] = job[v]
  BY <1>6, StepMoves
<1>8. /\ task'[t] = [task[t] EXCEPT !.st = "active"]
      /\ \A s \in TaskIds : s # t => task'[s] = task[s]
  BY <1>1 DEF Take
<1>9. /\ task'[t] \in Task /\ task'[t].st = "active" /\ task'[t].kind = task[t].kind
      /\ task'[t].saves = task[t].saves /\ task'[t].retried = task[t].retried
      /\ task'[t].skipped = task[t].skipped /\ task'[t].unsaved = task[t].unsaved
  BY <1>1, <1>8 DEF Task
<1>10. TypeOK'
  <2>1. job' \in [Workers -> Job]
    BY <1>3, <1>6, JobsTyped
  <2>2. task' \in [TaskIds -> Task]
    BY <1>1, <1>9 DEF Take
  <2> QED  BY <1>6, <2>1, <2>2 DEF Take, TypeOK
<1>11. JobsOK'
  BY <1>5, <1>7 DEF TasksInv, JobsOK
<1>12. Holding' /\ TasksOK'
  <2>1. \A v \in Workers : job[v].task # 0 => job[v].task \in TaskIds /\ job[v].task # t
    BY <1>1, Holds
  <2>2. Holding'
    <3>1. ASSUME NEW v \in Workers, job'[v].task # 0
          PROVE  /\ task'[job'[v].task].st = "active" /\ task'[job'[v].task].kind = job'[v].kind
                 /\ job'[v].pc # "return" =>
                      task'[job'[v].task].saves <= task'[job'[v].task].retried
      <4>1. CASE v = w
        BY <1>1, <1>4, <1>7, <1>9, <4>1
      <4>2. CASE v # w
        BY <1>7, <1>8, <2>1, <3>1, <4>2 DEF TasksInv, Holding
      <4> QED  BY <4>1, <4>2
    <3>2. ASSUME NEW v \in Workers, job'[v].task # 0, NEW u \in Workers, job'[u].task = job'[v].task
          PROVE  u = v
      BY <1>4, <1>7, <2>1, <3>2 DEF TasksInv, Holding
    <3> QED  BY <3>1, <3>2 DEF Holding
  <2>3. TasksOK'
    BY <1>1, <1>8, <1>9 DEF TasksInv, TasksOK, TaskOK
  <2> QED  BY <2>2, <2>3
<1>13. HookAside /\ EnrolAside /\ IndexAside /\ CompanyAside
  BY <1>4, <1>7, OthersStay DEF HookAside, HookSame, EnrolAside, IndexAside, CompanyAside, Take, HookPcs
<1>14. TryAside
  BY <1>4, <1>7, <1>8, <1>9 DEF TryAside, Take, Others, SendPcs, Tries
<1> QED
  BY <1>10, <1>11, <1>12, <1>13, <1>14, HookKept, EnrolKept, IndexKept, CompanyKept, TryKept
     DEF TasksInv

\* The task w holds becomes r, and w still holds it.
LEMMA HeldChanges ==
  ASSUME TasksInv, NEW w \in Workers, Others(w), JobOK(job'[w]),
         NEW t \in TaskIds, job[w].task = t, job'[w].task = t, job'[w].kind = job[w].kind,
         NEW r \in Task, task' = [task EXCEPT ![t] = r],
         r.st = "active", r.kind = task[t].kind, r.saves <= r.retried + 1,
         job'[w].pc # "return" => r.saves <= r.retried
  PROVE  task' \in [TaskIds -> Task] /\ JobsOK' /\ Holding' /\ TasksOK'
<1>1. \A v \in Workers : v # w =>
        job'[v].task = job[v].task /\ job'[v].kind = job[v].kind /\ job'[v].pc = job[v].pc
  BY SameFields DEF Others, TasksInv, TypeOK
<1>2. /\ task'[t] = r /\ \A s \in TaskIds : s # t => task'[s] = task[s]
      /\ task' \in [TaskIds -> Task] /\ t # 0
  BY DEF TasksInv, TypeOK, TaskIds
<1>3. JobsOK'
  BY <1>1 DEF JobsOK, JobOK, TasksInv
<1>4. Holding'
  <2>1. \A v \in Workers : job[v].task # 0 => job[v].task \in TaskIds
    BY Holds
  <2>2. ASSUME NEW v \in Workers, v # w, job'[v].task # 0
        PROVE  /\ task'[job'[v].task] = task[job[v].task] /\ job[v].task # t
               /\ task'[job'[v].task].st = "active" /\ task'[job'[v].task].kind = job'[v].kind
               /\ job'[v].pc # "return" =>
                    task'[job'[v].task].saves <= task'[job'[v].task].retried
    BY <1>1, <1>2, <2>1, <2>2 DEF TasksInv, Holding
  <2>3. /\ task'[job'[w].task].st = "active" /\ task'[job'[w].task].kind = job'[w].kind
        /\ job'[w].pc # "return" => task'[job'[w].task].saves <= task'[job'[w].task].retried
    BY <1>2 DEF TasksInv, Holding
  <2>4. ASSUME NEW v \in Workers, job'[v].task # 0, NEW u \in Workers, job'[u].task = job'[v].task
        PROVE  u = v
    BY <1>1, <1>2, <2>4 DEF TasksInv, Holding
  <2> QED  BY <2>2, <2>3, <2>4 DEF Holding
<1>5. TasksOK'
  BY <1>2 DEF TasksInv, TasksOK, TaskOK
<1> QED  BY <1>2, <1>3, <1>4, <1>5

\* The row was not there or not read: the handler returns.
LEMMA SkipInv ==
  ASSUME TasksInv, NEW w \in Workers, job[w].pc = "start", Skip(w),
         UNCHANGED <<hook, delivery, enrolment, index, company, requests, past>>,
         faults' \in 0 .. MaxFaults
  PROVE  TasksInv'
<1>1. /\ job[w] \in Job /\ JobOK(job[w]) /\ job[w].kind \in Registered
      /\ job[w].task \in TaskIds /\ task[job[w].task] \in Task /\ TypeOK
  BY Holds DEF JobOK, Registered, TasksInv
<1>2. PICK t \in TaskIds : t = job[w].task
  BY <1>1
<1>3. PICK j : j = [job[w] EXCEPT !.pc = "return"]
  OBVIOUS
<1>4. PICK r : r = [task[t] EXCEPT !.skipped = TRUE]
  OBVIOUS
<1>5. /\ j \in Job /\ j.pc = "return" /\ j.kind = job[w].kind /\ j.task = t /\ JobOK(j)
  BY <1>1, <1>2, <1>3 DEF Job, JobOK, HookPcs, Registered
<1>6. /\ r \in Task /\ r.st = "active" /\ r.kind = task[t].kind /\ r.skipped
      /\ r.saves <= r.retried + 1 /\ r.unsaved = task[t].unsaved
  <2>1. task[t].st = "active" /\ task[t] \in Task /\ task[t].saves <= task[t].retried + 1
    <3>1. t # 0 /\ task[t].saves <= task[t].retried + 1
      BY BoundAssumption DEF TasksInv, TasksOK, TaskOK, TaskIds
    <3> QED  BY <1>1, <1>2, <3>1, Holds
  <2> QED  BY <1>4, <2>1 DEF Task
<1>7. Step(w, j) /\ task' = [task EXCEPT ![t] = r]
  BY <1>1, <1>2, <1>3, <1>4 DEF Skip, Goto, TypeOK
<1>8. Others(w) /\ job'[w] = j /\ \A v \in Workers : v # w => job'[v] = job[v]
  BY <1>1, <1>7, StepMoves
<1>9. task' \in [TaskIds -> Task] /\ JobsOK' /\ Holding' /\ TasksOK'
  BY <1>2, <1>5, <1>6, <1>7, <1>8, HeldChanges
<1>10. TypeOK'
  BY <1>1, <1>5, <1>7, <1>9, JobsTyped DEF TypeOK
<1>11. HookAside /\ EnrolAside /\ IndexAside /\ CompanyAside
  BY <1>5, <1>8, OthersStay DEF HookAside, HookSame, EnrolAside, IndexAside, CompanyAside, HookPcs
<1>12. Trying'
  <2>1. /\ task'[t] = r /\ \A s \in TaskIds : s # t => task'[s] = task[s]
    BY <1>1, <1>7 DEF TypeOK
  <2>2. \A s \in TaskIds : Tried(s) \/ s = t => Tried(s)'
    BY <1>6, <2>1 DEF Tried
  <2>3. ASSUME NEW s \in TaskIds, task'[s].kind = "deliver", task'[s].st = "done" PROVE Tried(s)'
    BY <1>6, <2>1, <2>2, <2>3 DEF TasksInv, Trying
  <2>4. ASSUME NEW v \in Workers, Tries(job'[v]), NEW s \in TaskIds, job'[v].task = s
        PROVE  Tried(s)'
    BY <1>5, <1>8, <2>2, <2>4 DEF TasksInv, Trying
  <2>5. ASSUME NEW v \in Workers, job'[v].pc \in SendPcs PROVE Sending(job[v])'
    BY <1>5, <1>8, <2>5 DEF TasksInv, Trying, Sending, SendPcs
  <2> QED  BY <2>3, <2>4, <2>5 DEF Trying
<1> QED
  BY <1>9, <1>10, <1>11, <1>12, HookKept, EnrolKept, IndexKept, CompanyKept DEF TasksInv

\* w goes on as j, with the task it holds, if it holds one.
LEMMA Moves ==
  ASSUME TasksInv, NEW w \in Workers, NEW j \in Job, NEW K, Step(w, j) \/ Wrote(w, j, K),
         UNCHANGED task, JobOK(j),
         j.task # 0 => /\ j.task = job[w].task /\ j.kind = job[w].kind
                       /\ j.pc # "return" => job[w].pc # "return"
  PROVE  /\ Others(w) /\ job'[w] = j /\ job' \in [Workers -> Job]
         /\ JobsOK' /\ Holding' /\ TasksOK'
<1>1. TypeOK
  BY DEF TasksInv
<1>2. Others(w) /\ job'[w] = j /\ job' \in [Workers -> Job]
  BY <1>1, StepMoves, WroteMoves, JobsTyped
<1> QED  BY <1>2, QueueAside

-----------------------------------------------------------------------------
(* Deliveries.                                                             *)

\* A handler of deliveries is away from the other rows.
LEMMA DeliverAside ==
  ASSUME NEW w \in Workers, Others(w), job'[w].pc \in HookPcs \cup {"return", "idle"},
         UNCHANGED <<enrolment, index, company>>,
         past'.saved = past.saved, past'.blind = past.blind, past'.raced = past.raced,
         past'.edited = past.edited,
         "enrolment" \in past'.lost <=> "enrolment" \in past.lost,
         "company" \in past'.lost <=> "company" \in past.lost
  PROVE  EnrolAside /\ IndexAside /\ CompanyAside
  BY OthersStay DEF EnrolAside, IndexAside, CompanyAside, HookPcs

\* w works with the copy it has.
LEMMA CopyStep ==
  ASSUME TasksInv, NEW w \in Workers, Others(w), HookSame,
         job'[w].pc \in HookPcs =>
           /\ job[w].pc \in HookPcs /\ job'[w].hook = job[w].hook
           /\ job'[w].alone => job[w].alone
  PROVE  HooksRead' /\ Counting'
<1>1. \A v \in Workers : v # w =>
        /\ job'[v].pc = job[v].pc /\ job'[v].hook = job[v].hook
        /\ job'[v].alone => job[v].alone
  BY SameFields DEF Others, TasksInv, TypeOK
<1> QED  BY <1>1, CopiesKept

\* What has been tried stays so, and w sends or has tried.
LEMMA TryStep ==
  ASSUME TasksInv, NEW w \in Workers, Others(w),
         \A s \in TaskIds : s # job[w].task /\ Tried(s) => Tried(s)',
         \A s \in TaskIds : task'[s].kind = "deliver" /\ task'[s].st = "done"
                               => task[s].kind = "deliver" /\ task[s].st = "done",
         Tries(job'[w]) => \A s \in TaskIds : job'[w].task = s => Tried(s)',
         job'[w].pc \in SendPcs => Sending(job[w])',
         \A d \in DeliveryIds : delivery[d].st # "none" =>
                                 delivery'[d].st # "none" /\ delivery'[d].task = delivery[d].task
  PROVE  Trying'
<1>1. \A v \in Workers : v # w =>
        /\ job[v] \in Job
        /\ job'[v].pc = job[v].pc /\ job'[v].task = job[v].task /\ job'[v].hook = job[v].hook
        /\ job'[v].delivery = job[v].delivery /\ job'[v].attempt = job[v].attempt
        /\ job'[v].kind = job[v].kind
  BY SameFields DEF Others, TasksInv, TypeOK
<1>2. ASSUME NEW s \in TaskIds, task'[s].kind = "deliver", task'[s].st = "done" PROVE Tried(s)'
  BY <1>2, Holds, BoundAssumption DEF TasksInv, Trying, TaskIds
<1>3. ASSUME NEW v \in Workers, Tries(job'[v]), NEW s \in TaskIds, job'[v].task = s
      PROVE  Tried(s)'
  <2>1. CASE v # w
    <3>1. Tries(job[v]) /\ job[v].task = s
      BY <1>1, <1>3, <2>1 DEF Tries
    <3>2. job[w].task # s
      BY <2>1, <3>1, BoundAssumption DEF TasksInv, Holding, TaskIds
    <3> QED  BY <3>1, <3>2 DEF TasksInv, Trying
  <2> QED  BY <1>3, <2>1
<1>4. ASSUME NEW v \in Workers, job'[v].pc \in SendPcs PROVE Sending(job[v])'
  <2>1. CASE v # w
    <3>1. Sending(job[v]) /\ job[v].delivery \in DeliveryIds
      BY <1>1, <1>4, <2>1, BoundAssumption DEF TasksInv, Trying, Sending, Job, DeliveryIds
    <3> QED  BY <1>1, <2>1, <3>1 DEF Sending
  <2> QED  BY <1>4, <2>1
<1> QED  BY <1>2, <1>3, <1>4 DEF Trying

LEMMA ReadHookInv == ASSUME TasksInv, NEW w \in Workers, ReadHook(w) PROVE TasksInv'
<1>1. /\ job[w] \in Job /\ JobOK(job[w]) /\ job[w].pc = "start" /\ job[w].kind = "deliver"
      /\ TypeOK
  BY Holds DEF ReadHook, Starts, TasksInv
<1>2. CASE Skip(w)
  BY <1>1, <1>2, SkipInv, IgnoredTyped DEF ReadHook, TypeOK
<1>3. CASE hook.st = "live" /\ UNCHANGED <<task, faults>>
           /\ Step(w, [job[w] EXCEPT !.pc = "create", !.hook = hook, !.alone = TRUE])
  <2>1. PICK j : j = [job[w] EXCEPT !.pc = "create", !.hook = hook, !.alone = TRUE]
    OBVIOUS
  <2>2. /\ j \in Job /\ j.pc = "create" /\ j.kind = "deliver" /\ j.task = job[w].task
        /\ j.hook = hook
    BY <1>1, <2>1 DEF Job, TypeOK
  <2>3. JobOK(j)
    BY <1>1, <2>2 DEF JobOK, HookPcs, Registered
  <2>4. /\ Others(w) /\ job'[w] = j /\ job' \in [Workers -> Job]
        /\ JobsOK' /\ Holding' /\ TasksOK'
    BY <1>1, <1>3, <2>1, <2>2, <2>3, Moves
  <2>5. TypeOK'
    BY <1>1, <1>3, <2>4 DEF ReadHook, TypeOK
  <2>6. EnrolAside /\ IndexAside /\ CompanyAside
    BY <2>2, <2>4, DeliverAside DEF ReadHook, HookPcs
  <2>7. TryAside
    BY <1>3, <2>2, <2>4 DEF TryAside, ReadHook, Others, SendPcs, Tries
  <2>8. \A v \in Workers : v # w =>
          /\ job'[v].pc = job[v].pc /\ job'[v].hook = job[v].hook
          /\ job'[v].alone => job[v].alone
    BY <1>1, <2>4, SameFields DEF Others, TypeOK
  <2>9. hook' = hook /\ past' = past
    BY DEF ReadHook
  <2>10. ASSUME NEW v \in Workers, job'[v].pc \in HookPcs
        PROVE  /\ hook'.st # "none" /\ job'[v].hook.st = "live" /\ job'[v].hook.valid = hook'.valid
               /\ job'[v].hook.failures <= past'.failed
               /\ job'[v].alone => job'[v].hook = hook'
    <3>1. CASE v = w
      BY <1>3, <2>2, <2>4, <2>9, <3>1 DEF TasksInv, Counting, FailuresCounted
    <3>2. CASE v # w
      <4>1. job[v].pc \in HookPcs
        BY <2>8, <2>10, <3>2
      <4>2. /\ hook.st # "none" /\ job[v].hook.st = "live" /\ job[v].hook.valid = hook.valid
            /\ job[v].hook.failures <= past.failed
            /\ job[v].alone => job[v].hook = hook
        BY <4>1 DEF TasksInv, Counting, HooksRead
      <4> QED  BY <2>8, <2>9, <3>2, <4>2
    <3> QED  BY <3>1, <3>2
  <2>11. HooksRead' /\ Counting'
    BY <2>9, <2>10 DEF TasksInv, HooksRead, Counting, FailuresCounted
  <2> QED
    BY <2>4, <2>5, <2>6, <2>7, <2>11, EnrolKept, IndexKept, CompanyKept, TryKept
       DEF TasksInv
<1> QED  BY <1>2, <1>3 DEF ReadHook

LEMMA CreateDeliveryInv ==
  ASSUME TasksInv, NEW w \in Workers, CreateDelivery(w) PROVE TasksInv'
<1>1. /\ job[w] \in Job /\ JobOK(job[w]) /\ job[w].pc = "create" /\ job[w].kind = "deliver"
      /\ TypeOK /\ job[w].task \in TaskIds /\ job[w].task \in 0 .. MaxTasks
  BY Holds DEF CreateDelivery, TasksInv, JobOK, HookPcs, Registered, Job
<1>a. PICK d \in DeliveryIds, e \in BOOLEAN :
        /\ IsNext(delivery, d) /\ Ignored(e)
        /\ delivery' = [delivery EXCEPT ![d] =
              [st |-> IF e THEN "absent" ELSE "pending", task |-> job[w].task, attempts |-> 0]]
        /\ Step(w, [job[w] EXCEPT !.pc = IF job[w].hook.valid THEN "post" ELSE "bad",
                                  !.delivery = d, !.attempt = 1])
  BY DEF CreateDelivery
<1>b. PICK j, r :
        /\ r = [st |-> IF e THEN "absent" ELSE "pending", task |-> job[w].task, attempts |-> 0]
        /\ j = [job[w] EXCEPT !.pc = IF job[w].hook.valid THEN "post" ELSE "bad",
                              !.delivery = d, !.attempt = 1]
  OBVIOUS
<1>2. /\ IsNext(delivery, d) /\ Ignored(e)
      /\ r = [st |-> IF e THEN "absent" ELSE "pending", task |-> job[w].task, attempts |-> 0]
      /\ delivery' = [delivery EXCEPT ![d] = r]
      /\ j = [job[w] EXCEPT !.pc = IF job[w].hook.valid THEN "post" ELSE "bad",
                            !.delivery = d, !.attempt = 1]
      /\ Step(w, j)
  BY <1>a, <1>b
<1>3. d \in 0 .. MaxDeliveries /\ 1 \in 0 .. MaxAttempts /\ 0 \in 0 .. MaxAttempts /\ d # 0
  BY BoundAssumption DEF DeliveryIds
<1>4. /\ j \in Job /\ j.pc \in {"post", "bad"} /\ j.kind = "deliver" /\ j.task = job[w].task
      /\ j.hook = job[w].hook /\ j.alone = job[w].alone /\ j.delivery = d
      /\ j.pc = "bad" => ~j.hook.valid
  BY <1>1, <1>2, <1>3 DEF Job
<1>5. r \in Delivery /\ r.st # "none" /\ r.task = job[w].task /\ r.st \notin {"delivered", "failed"}
  BY <1>1, <1>2, <1>3 DEF Delivery
<1>6. JobOK(j)
  BY <1>1, <1>4 DEF JobOK, HookPcs, Registered
<1>7. UNCHANGED <<task, hook, enrolment, index, company, requests, past>>
  BY DEF CreateDelivery
<1>8. /\ Others(w) /\ job'[w] = j /\ job' \in [Workers -> Job]
      /\ JobsOK' /\ Holding' /\ TasksOK'
  BY <1>1, <1>2, <1>4, <1>6, <1>7, Moves
<1>9. TypeOK'
  BY <1>1, <1>2, <1>5, <1>7, <1>8, IgnoredTyped DEF TypeOK
<1>10. EnrolAside /\ IndexAside /\ CompanyAside
  BY <1>4, <1>7, <1>8, DeliverAside DEF HookPcs
<1>11. HooksRead' /\ Counting'
  BY <1>1, <1>4, <1>7, <1>8, CopyStep DEF HookPcs, HookSame
<1>12. Trying'
  <2>1. /\ delivery'[d] = r /\ delivery[d].st = "none"
        /\ \A c \in DeliveryIds : c # d => delivery'[c] = delivery[c]
    BY <1>1, <1>2 DEF IsNext, TypeOK
  <2>2. \A s \in TaskIds : Tried(s) => Tried(s)'
    BY <1>7, <2>1 DEF Tried
  <2>3. Sending(job[w])'
    BY <1>3, <1>4, <1>5, <1>8, <2>1 DEF Sending
  <2> QED  BY <1>4, <1>5, <1>7, <1>8, <2>1, <2>2, <2>3, TryStep DEF Tries
<1> QED
  BY <1>8, <1>9, <1>10, <1>11, <1>12, EnrolKept, IndexKept, CompanyKept DEF TasksInv

LEMMA PostInv == ASSUME TasksInv, NEW w \in Workers, Post(w) PROVE TasksInv'
<1>1. /\ job[w] \in Job /\ JobOK(job[w]) /\ job[w].pc = "post" /\ job[w].kind = "deliver"
      /\ TypeOK /\ Sending(job[w])
  BY Holds DEF Post, TasksInv, JobOK, HookPcs, Trying, SendPcs
<1>a. PICK pc \in {"delivered", Refused(job[w].attempt)} : Step(w, [job[w] EXCEPT !.pc = pc])
  BY DEF Post, Goto
<1>2. PICK j : j = [job[w] EXCEPT !.pc = pc] /\ Step(w, j)
  BY <1>a
<1>3. /\ job[w].attempt \in 0 .. MaxAttempts
      /\ pc \in {"delivered", "again", "failed"}
      /\ pc = "again" => job[w].attempt < MaxAttempts
      /\ pc = "failed" => job[w].attempt = MaxAttempts
  BY <1>1, <1>2, BoundAssumption DEF Refused, Job
<1>4. /\ j \in Job /\ j.pc = pc /\ j.kind = "deliver" /\ j.task = job[w].task
      /\ j.hook = job[w].hook /\ j.alone = job[w].alone
      /\ j.delivery = job[w].delivery /\ j.attempt = job[w].attempt
  BY <1>1, <1>2, <1>3 DEF Job
<1>5. JobOK(j)
  BY <1>1, <1>3, <1>4 DEF JobOK, HookPcs, Registered
<1>6. UNCHANGED <<task, hook, delivery, enrolment, index, company, requests, faults, past>>
  BY DEF Post
<1>7. /\ Others(w) /\ job'[w] = j /\ job' \in [Workers -> Job]
      /\ JobsOK' /\ Holding' /\ TasksOK'
  BY <1>1, <1>2, <1>4, <1>5, <1>6, Moves
<1>8. TypeOK'
  BY <1>1, <1>6, <1>7 DEF TypeOK
<1>9. EnrolAside /\ IndexAside /\ CompanyAside
  BY <1>3, <1>4, <1>6, <1>7, DeliverAside DEF HookPcs
<1>10. HooksRead' /\ Counting'
  BY <1>1, <1>4, <1>6, <1>7, CopyStep DEF HookPcs, HookSame
<1>11. Trying'
  <2>1. Sending(job[w])'
    BY <1>1, <1>3, <1>4, <1>6, <1>7 DEF Sending
  <2>2. \A s \in TaskIds : Tried(s) => Tried(s)'
    BY <1>6 DEF Tried
  <2> QED  BY <1>3, <1>4, <1>6, <1>7, <2>1, <2>2, TryStep DEF Tries
<1> QED
  BY <1>7, <1>8, <1>9, <1>10, <1>11, EnrolKept, IndexKept, CompanyKept DEF TasksInv

LEMMA SaveDeliveryInv == ASSUME TasksInv, NEW w \in Workers, SaveDelivery(w) PROVE TasksInv'
<1>1. /\ job[w] \in Job /\ JobOK(job[w]) /\ job[w].pc \in SendPcs \ {"post"}
      /\ job[w].kind = "deliver" /\ TypeOK /\ Sending(job[w])
      /\ job[w].task \in TaskIds /\ task[job[w].task] \in Task
      /\ task[job[w].task].st = "active"
  BY Holds DEF SaveDelivery, TasksInv, JobOK, HookPcs, Trying, SendPcs, Registered
<1>2. PICK j : /\ Step(w, j)
               /\ j = CASE job[w].pc = "again" /\ job[w].attempt < MaxAttempts ->
                             [job[w] EXCEPT !.pc = "post", !.attempt = @ + 1]
                        [] job[w].pc = "delivered" -> [job[w] EXCEPT !.pc = "reset"]
                        [] job[w].pc = "failed" -> [job[w] EXCEPT !.pc = "count"]
                        [] OTHER -> [job[w] EXCEPT !.pc = "return"]
  BY DEF SaveDelivery
<1>3. /\ j \in Job /\ j.kind = "deliver" /\ j.task = job[w].task
      /\ j.hook = job[w].hook /\ j.alone = job[w].alone /\ j.delivery = job[w].delivery
      /\ j.pc \in {"post", "reset", "count", "return"}
      /\ j.pc = "post" => job[w].pc = "again"
      /\ j.pc # "post" => job[w].pc # "again"
  <2>1. CASE job[w].pc = "again"
    <3>1. job[w].attempt + 1 \in 0 .. MaxAttempts /\ job[w].attempt < MaxAttempts
      BY <1>1, <2>1, BoundAssumption DEF Sending, Job
    <3> QED  BY <1>1, <1>2, <2>1, <3>1 DEF Job
  <2>2. CASE job[w].pc # "again"
    BY <1>1, <1>2, <2>2 DEF Job
  <2> QED  BY <2>1, <2>2
<1>4. JobOK(j)
  BY <1>1, <1>3 DEF JobOK, HookPcs, Registered
<1>5. UNCHANGED <<hook, enrolment, index, company, requests, past>> /\ faults' \in 0 .. MaxFaults
  BY <1>1, IgnoredTyped DEF SaveDelivery
<1>6. Others(w) /\ job'[w] = j /\ job' \in [Workers -> Job]
  BY <1>1, <1>2, <1>3, StepMoves, JobsTyped
<1>7. PICK d \in DeliveryIds, t \in TaskIds : d = job[w].delivery /\ t = job[w].task
  BY <1>1, BoundAssumption DEF Sending, Job, DeliveryIds
<1>8. EnrolAside /\ IndexAside /\ CompanyAside
  BY <1>3, <1>5, <1>6, DeliverAside DEF HookPcs
<1>9. HooksRead' /\ Counting'
  BY <1>1, <1>3, <1>5, <1>6, CopyStep DEF HookPcs, SendPcs, HookSame
<1>10. CASE UNCHANGED delivery /\ task' = [task EXCEPT ![t].unsaved = TRUE]
  <2>1. PICK r : r = [task[t] EXCEPT !.unsaved = TRUE]
    OBVIOUS
  <2>2. /\ r \in Task /\ r.st = "active" /\ r.kind = task[t].kind /\ r.unsaved
        /\ r.skipped = task[t].skipped /\ r.saves = task[t].saves /\ r.retried = task[t].retried
    BY <1>1, <1>7, <2>1 DEF Task
  <2>3. task' = [task EXCEPT ![t] = r] /\ task \in [TaskIds -> Task]
    BY <1>1, <1>7, <1>10, <2>1 DEF TypeOK
  <2>4. t # 0 /\ task[t].saves <= task[t].retried + 1 /\ task[t].saves <= task[t].retried
    BY <1>1, <1>7, BoundAssumption DEF TasksInv, TasksOK, TaskOK, TaskIds, Holding, SendPcs
  <2>5. task' \in [TaskIds -> Task] /\ JobsOK' /\ Holding' /\ TasksOK'
    <3>1. /\ JobOK(job'[w]) /\ job[w].task = t /\ job'[w].task = t /\ job'[w].kind = job[w].kind
      BY <1>1, <1>3, <1>4, <1>6, <1>7
    <3>2. r.saves <= r.retried + 1 /\ r.saves <= r.retried
      BY <2>2, <2>4
    <3> QED  BY <1>6, <2>2, <2>3, <3>1, <3>2, HeldChanges
  <2>6. TypeOK'
    BY <1>1, <1>5, <1>6, <1>10, <2>5 DEF TypeOK
  <2>7. Trying'
    <3>1. /\ task'[t] = r /\ \A s \in TaskIds : s # t => task'[s] = task[s]
      BY <2>3
    <3>2. \A s \in TaskIds : Tried(s) \/ s = t => Tried(s)'
      BY <1>5, <1>10, <2>2, <3>1 DEF Tried
    <3>3. j.pc \in SendPcs => Sending(job[w])'
      BY <1>1, <1>3, <1>6, <1>10 DEF Sending, SendPcs
    <3> QED  BY <1>3, <1>6, <1>7, <1>10, <2>2, <3>1, <3>2, <3>3, TryStep
  <2> QED
    BY <1>8, <1>9, <2>5, <2>6, <2>7, EnrolKept, IndexKept, CompanyKept DEF TasksInv
<1>11. CASE /\ delivery' = [delivery EXCEPT ![d].st = Outcome[job[w].pc],
                                            ![d].attempts = job[w].attempt]
            /\ UNCHANGED task
  <2>1. PICK r : r = [delivery[d] EXCEPT !.st = Outcome[job[w].pc], !.attempts = job[w].attempt]
    OBVIOUS
  <2>2. /\ Outcome[job[w].pc] \in {"pending", "delivered", "failed"}
        /\ job[w].pc = "delivered" => Outcome[job[w].pc] = "delivered"
        /\ job[w].pc \in {"failed", "bad"} => Outcome[job[w].pc] = "failed"
    BY <1>1 DEF Outcome, SendPcs
  <2>3. delivery \in [DeliveryIds -> Delivery] /\ delivery[d] \in Delivery
        /\ job[w].attempt \in 0 .. MaxAttempts
    BY <1>1 DEF TypeOK, Job
  <2>4. /\ r \in Delivery /\ r.st = Outcome[job[w].pc] /\ r.attempts = job[w].attempt
        /\ r.task = delivery[d].task
    BY <2>1, <2>2, <2>3 DEF Delivery
  <2>5. delivery' = [delivery EXCEPT ![d] = r]
    BY <1>11, <2>1, <2>3
  <2>6. JobsOK' /\ Holding' /\ TasksOK'
    BY <1>1, <1>2, <1>3, <1>4, <1>11, Moves DEF SendPcs
  <2>7. TypeOK'
    BY <1>1, <1>5, <1>6, <1>11, <2>3, <2>4, <2>5 DEF TypeOK
  <2>8. Trying'
    <3>1. delivery'[d] = r /\ \A c \in DeliveryIds : c # d => delivery'[c] = delivery[c]
      BY <2>3, <2>5
    <3>2. d = job[w].delivery /\ delivery[d].task = t /\ r.task = t
      BY <1>1, <1>7, <2>4 DEF Sending
    <3>3. j.pc # "post" => Tried(t)'
      <4>1. CASE job[w].pc = "delivered"
        BY <1>11, <2>2, <2>4, <3>1, <3>2, <4>1 DEF Tried
      <4>2. CASE job[w].pc = "failed"
        BY <1>1, <1>11, <2>2, <2>4, <3>1, <3>2, <4>2 DEF Tried, Sending
      <4>3. CASE job[w].pc = "bad"
        <5>1. ~hook.valid
          BY <1>1, <4>3 DEF Sending, TasksInv, HooksRead, HookPcs
        <5> QED  BY <1>5, <1>11, <2>2, <2>4, <3>1, <3>2, <4>3, <5>1 DEF Tried
      <4> QED  BY <1>1, <1>3, <4>1, <4>2, <4>3 DEF SendPcs
    <3>4. \A s \in TaskIds : s # job[w].task /\ Tried(s) => Tried(s)'
      BY <1>5, <1>7, <1>11, <3>1, <3>2 DEF Tried
    <3>5. j.pc \in SendPcs => Sending(job[w])'
      BY <1>1, <1>3, <1>6, <1>7, <2>2, <2>4, <3>1, <3>2 DEF Sending, SendPcs
    <3>6. \A c \in DeliveryIds : delivery[c].st # "none" =>
                                  delivery'[c].st # "none" /\ delivery'[c].task = delivery[c].task
      BY <2>2, <2>4, <3>1
    <3>7. Tries(job'[w]) => \A s \in TaskIds : job'[w].task = s => Tried(s)'
      BY <1>3, <1>6, <1>7, <3>3 DEF Tries
    <3> QED  BY <1>6, <1>11, <3>4, <3>5, <3>6, <3>7, TryStep
  <2> QED
    BY <1>8, <1>9, <2>6, <2>7, <2>8, EnrolKept, IndexKept, CompanyKept DEF TasksInv
<1> QED  BY <1>7, <1>10, <1>11 DEF SaveDelivery

\* The row has changed, and nobody who holds a copy of it is alone any more; or it
\* is as it was.
LEMMA CopiesStale ==
  ASSUME TasksInv, NEW w \in Workers, Others(w), job'[w].pc \notin HookPcs,
         \/ hook' = hook
         \/ \A v \in Workers : v # w /\ job[v].kind \in HookCopies => ~job'[v].alone,
         hook'.st # "none", hook'.valid = hook.valid, FailuresCounted',
         past.failed \in Nat, past'.failed \in Nat, past.failed <= past'.failed
  PROVE  HooksRead' /\ Counting'
<1>1. ASSUME NEW v \in Workers, job'[v].pc \in HookPcs
      PROVE  /\ job'[v].hook.st = "live" /\ job'[v].hook.valid = hook'.valid
             /\ job'[v].hook.failures <= past'.failed
             /\ job'[v].alone => job'[v].hook = hook'
  <2>1. /\ v # w /\ job[v] \in Job /\ job'[v].pc = job[v].pc /\ job'[v].hook = job[v].hook
        /\ job'[v].alone => job[v].alone
    BY <1>1, SameFields DEF Others, TasksInv, TypeOK
  <2>2. job[v].kind \in HookCopies
    BY <1>1, <2>1, Holds DEF JobOK, HookPcs, HookCopies
  <2>3. /\ job[v].hook.st = "live" /\ job[v].hook.valid = hook.valid
        /\ job[v].hook.failures <= past.failed /\ job[v].hook.failures \in Nat
        /\ job[v].alone => job[v].hook = hook
    BY <1>1, <2>1 DEF TasksInv, HooksRead, Counting, Job, Hook
  <2>4. job'[v].alone => job'[v].hook = hook'
    BY <2>1, <2>2, <2>3
  <2> QED  BY <2>1, <2>3, <2>4
<1> QED  BY <1>1 DEF HooksRead, Counting

\* A handler of deliveries returns.
LEMMA DeliverReturns ==
  ASSUME TasksInv, NEW w \in Workers, job[w].kind = "deliver", job[w].pc \in {"reset", "count"},
         NEW j, j = [job[w] EXCEPT !.pc = "return"],
         UNCHANGED <<task, delivery, enrolment, index, company, requests>>,
         hook.st # "none" => hook'.valid = hook.valid,
         Others(w), job'[w] = j, job' \in [Workers -> Job],
         past'.saved = past.saved, past'.blind = past.blind, past'.raced = past.raced,
         past'.edited = past.edited,
         "enrolment" \in past'.lost <=> "enrolment" \in past.lost,
         "company" \in past'.lost <=> "company" \in past.lost
  PROVE  /\ JobsOK' /\ Holding' /\ TasksOK' /\ Trying' /\ Advancing' /\ Indexing' /\ Editing'
<1>1. /\ job[w] \in Job /\ JobOK(job[w]) /\ job[w].task \in TaskIds
  BY Holds DEF JobOK, Registered
<1>2. /\ j.pc = "return" /\ j.kind = "deliver" /\ j.task = job[w].task
  BY <1>1 DEF Job
<1>3. JobOK(j)
  BY <1>1, <1>2 DEF JobOK, HookPcs, Registered
<1>4. JobsOK' /\ Holding' /\ TasksOK'
  BY <1>2, <1>3, QueueAside
<1>5. EnrolAside /\ IndexAside /\ CompanyAside
  BY <1>2, DeliverAside
<1>6. Trying'
  <2>1. \A s \in TaskIds : Tried(s) => Tried(s)'
    BY TriedKept
  <2>2. Tries(job'[w]) => \A s \in TaskIds : job'[w].task = s => Tried(s)'
    BY <1>1, <1>2, <2>1 DEF TasksInv, Trying, Tries
  <2> QED  BY <1>2, <2>1, <2>2, TryStep DEF SendPcs
<1> QED  BY <1>4, <1>5, <1>6, EnrolKept, IndexKept, CompanyKept

LEMMA ResetCountInv == ASSUME TasksInv, NEW w \in Workers, ResetCount(w) PROVE TasksInv'
<1>1. /\ job[w] \in Job /\ JobOK(job[w]) /\ job[w].pc = "reset" /\ job[w].kind = "deliver"
      /\ TypeOK /\ hook \in Hook /\ past \in Past /\ FailuresCounted /\ hook.st # "none"
  BY Holds DEF ResetCount, TasksInv, JobOK, HookPcs, TypeOK, Counting, HooksRead
<1>2. PICK j : j = [job[w] EXCEPT !.pc = "return"]
  OBVIOUS
<1>3. j \in Job /\ j.pc = "return"
  BY <1>1, <1>2 DEF Job
<1>4. UNCHANGED <<task, delivery, enrolment, index, company, requests>>
  BY DEF ResetCount
<1>5. CASE /\ hook' = [hook EXCEPT !.failures = 0] /\ UNCHANGED faults
           /\ Wrote(w, j, IF hook.failures = 0 THEN {} ELSE HookCopies)
           /\ past' = [past EXCEPT !.streak = 0]
  <2>1. /\ hook' \in Hook /\ hook'.failures = 0 /\ hook'.st = hook.st /\ hook'.valid = hook.valid
        /\ hook'.active = hook.active /\ hook'.secret = hook.secret
        /\ hook.failures = 0 => hook' = hook
    BY <1>1, <1>5 DEF Hook
  <2>2. /\ past' \in Past /\ past'.streak = 0 /\ past'.failed = past.failed
        /\ past'.off = past.off /\ past'.rotated = past.rotated /\ past'.lost = past.lost
        /\ past'.saved = past.saved /\ past'.blind = past.blind /\ past'.raced = past.raced
        /\ past'.edited = past.edited /\ past.failed \in Nat
    BY <1>1, <1>5 DEF Past
  <2>3. FailuresCounted'
    BY <1>1, <2>1, <2>2, BoundAssumption DEF FailuresCounted
  <2>4. /\ Others(w) /\ job'[w] = j /\ job' \in [Workers -> Job]
        /\ hook.failures # 0 =>
             \A v \in Workers : v # w /\ job[v].kind \in HookCopies => ~job'[v].alone
    BY <1>1, <1>3, <1>5, WroteMoves, JobsTyped
  <2>5. HooksRead' /\ Counting'
    BY <1>1, <1>3, <2>1, <2>2, <2>3, <2>4, CopiesStale DEF HookPcs
  <2>6. TypeOK'
    BY <1>1, <1>4, <1>5, <2>1, <2>2, <2>4 DEF TypeOK
  <2> QED
    BY <1>1, <1>2, <1>4, <2>1, <2>2, <2>4, <2>5, <2>6, DeliverReturns DEF TasksInv
<1>6. CASE UNCHANGED hook /\ Step(w, j) /\ faults' \in 0 .. MaxFaults
           /\ (past' = past \/ past' = [past EXCEPT !.lost = @ \cup {"hook"}])
  <2>1. /\ past' \in Past /\ past'.streak = past.streak /\ past'.failed = past.failed
        /\ past'.off = past.off /\ past'.rotated = past.rotated
        /\ past'.saved = past.saved /\ past'.blind = past.blind /\ past'.raced = past.raced
        /\ past'.edited = past.edited /\ past'.lost \in {past.lost, past.lost \cup {"hook"}}
    BY <1>1, <1>6 DEF Past
  <2>2. Others(w) /\ job'[w] = j /\ job' \in [Workers -> Job]
    BY <1>1, <1>3, <1>6, StepMoves, JobsTyped
  <2>3. HooksRead' /\ Counting'
    BY <1>3, <1>6, <2>1, <2>2, CopyStep DEF HookSame, HookPcs
  <2>4. TypeOK'
    BY <1>1, <1>4, <1>6, <2>1, <2>2 DEF TypeOK
  <2> QED
    BY <1>1, <1>2, <1>4, <1>6, <2>1, <2>2, <2>3, <2>4, DeliverReturns DEF TasksInv
<1> QED
  <2>1. \/ /\ hook' = [hook EXCEPT !.failures = 0] /\ UNCHANGED faults
           /\ Wrote(w, j, IF hook.failures = 0 THEN {} ELSE HookCopies)
           /\ past' = [past EXCEPT !.streak = 0]
        \/ UNCHANGED <<hook, past, faults>> /\ Step(w, j)
        \/ UNCHANGED hook /\ Step(w, j) /\ Ignored(TRUE)
           /\ past' = [past EXCEPT !.lost = @ \cup {"hook"}]
    BY <1>2 DEF ResetCount
  <2>2. faults \in 0 .. MaxFaults /\ (Ignored(TRUE) => faults' \in 0 .. MaxFaults)
    BY <1>1, IgnoredTyped DEF TypeOK
  <2> QED  BY <1>5, <1>6, <2>1, <2>2

LEMMA CountFailureInv == ASSUME TasksInv, NEW w \in Workers, CountFailure(w) PROVE TasksInv'
<1>1. /\ job[w] \in Job /\ JobOK(job[w]) /\ job[w].pc = "count" /\ job[w].kind = "deliver"
      /\ TypeOK /\ hook \in Hook /\ past \in Past /\ FailuresCounted /\ hook.st # "none"
  BY Holds DEF CountFailure, TasksInv, JobOK, HookPcs, TypeOK, Counting, HooksRead
<1>2. PICK j : j = [job[w] EXCEPT !.pc = "return"]
  OBVIOUS
<1>3. j \in Job /\ j.pc = "return"
  BY <1>1, <1>2 DEF Job
<1>4. UNCHANGED <<task, delivery, enrolment, index, company, requests>>
  BY DEF CountFailure
<1>5. CASE /\ hook' = Counted(job[w]) /\ UNCHANGED faults /\ Wrote(w, j, HookCopies)
           /\ past' = [past EXCEPT !.streak = @ + 1, !.failed = @ + 1,
                                   !.off = IF hook.active /\ ~hook'.active THEN "worker" ELSE @,
                                   !.lost = LostBy(w, "hook")]
  <2> DEFINE n == job[w].hook.failures + 1
  <2>1. /\ job[w].hook \in Hook /\ n \in Nat /\ n <= past.failed + 1
        /\ job[w].alone => job[w].hook = hook
    BY <1>1 DEF Job, Hook, Past, TasksInv, Counting, HookPcs
  <2>2. /\ hook' \in Hook /\ hook'.failures = n /\ hook'.st = hook.st /\ hook'.valid = hook.valid
        /\ hook'.secret = hook.secret
    BY <1>1, <1>5, <2>1, BoundAssumption DEF Hook, Counted
  <2>3. hook'.active <=> hook.active /\ n < Threshold
    BY <1>1, <1>5, <2>1, BoundAssumption DEF Hook, Counted
  <2>4. LostBy(w, "hook") \in {past.lost, past.lost \cup {"hook"}}
        /\ (~job[w].alone => "hook" \in LostBy(w, "hook"))
    BY DEF LostBy
  <2>5. /\ past' \in Past /\ past'.streak = past.streak + 1 /\ past'.failed = past.failed + 1
        /\ past'.rotated = past.rotated /\ past'.lost = LostBy(w, "hook")
        /\ past'.saved = past.saved /\ past'.blind = past.blind /\ past'.raced = past.raced
        /\ past'.edited = past.edited /\ past.failed \in Nat /\ past'.failed \in Nat
        /\ past.streak \in Nat
    <3>1. PICK o : o = IF hook.active /\ ~hook'.active THEN "worker" ELSE past.off
      OBVIOUS
    <3>2. PICK L : L = LostBy(w, "hook")
      OBVIOUS
    <3>3. /\ o \in {"nobody", "request", "worker"}
          /\ L \in SUBSET {"hook", "enrolment", "company"}
      BY <1>1, <2>4, <3>1, <3>2 DEF Past
    <3>4. past' = [past EXCEPT !.streak = past.streak + 1, !.failed = past.failed + 1,
                               !.off = o, !.lost = L]
      BY <1>5, <3>1, <3>2
    <3>5. /\ past \in Past /\ past.streak \in Nat /\ past.failed \in Nat
          /\ past.streak + 1 \in Nat /\ past.failed + 1 \in Nat
      BY <1>1 DEF Past
    <3>6. past' \in Past
      BY <3>3, <3>4, <3>5 DEF Past
    <3>7. /\ past'.streak = past.streak + 1 /\ past'.failed = past.failed + 1 /\ past'.lost = L
          /\ past'.rotated = past.rotated /\ past'.saved = past.saved
          /\ past'.blind = past.blind /\ past'.raced = past.raced /\ past'.edited = past.edited
      BY <3>4, <3>5 DEF Past
    <3> QED  BY <3>2, <3>5, <3>6, <3>7
  <2>6. past'.off = IF hook.active /\ ~hook'.active THEN "worker" ELSE past.off
    BY <1>1, <1>5 DEF Past
  <2>7. "hook" \notin past'.lost => job[w].hook = hook /\ "hook" \notin past.lost
    BY <2>1, <2>4, <2>5
  <2>8. FailuresCounted'
    <3>1. ASSUME "hook" \notin past'.lost
          PROVE  /\ hook'.failures = past'.streak /\ hook'.secret = past'.rotated
                 /\ hook'.active => hook'.failures < Threshold
                 /\ past'.off = "worker" => ~hook'.active
      BY <1>1, <2>2, <2>3, <2>5, <2>6, <2>7, <3>1 DEF FailuresCounted
    <3>2. hook'.failures <= past'.failed
      BY <2>1, <2>2, <2>5
    <3>3. past'.off = "worker" => past'.failed >= Threshold
      <4>1. CASE hook.active /\ ~hook'.active
        BY <2>1, <2>3, <2>5, <4>1, BoundAssumption
      <4>2. CASE ~(hook.active /\ ~hook'.active)
        BY <1>1, <2>5, <2>6, <4>2, BoundAssumption DEF FailuresCounted
      <4> QED  BY <4>1, <4>2
    <3> QED  BY <3>1, <3>2, <3>3 DEF FailuresCounted
  <2>9. /\ Others(w) /\ job'[w] = j /\ job' \in [Workers -> Job]
        /\ \A v \in Workers : v # w /\ job[v].kind \in HookCopies => ~job'[v].alone
    BY <1>1, <1>3, <1>5, WroteMoves, JobsTyped
  <2>10. HooksRead' /\ Counting'
    BY <1>1, <1>3, <2>2, <2>5, <2>8, <2>9, CopiesStale DEF HookPcs
  <2>11. TypeOK'
    BY <1>1, <1>4, <1>5, <2>2, <2>5, <2>9 DEF TypeOK
  <2>12. /\ "enrolment" \in past'.lost <=> "enrolment" \in past.lost
         /\ "company" \in past'.lost <=> "company" \in past.lost
    BY <2>4, <2>5
  <2> QED
    BY <1>1, <1>2, <1>4, <2>2, <2>5, <2>9, <2>10, <2>11, <2>12, DeliverReturns DEF TasksInv
<1>6. CASE /\ UNCHANGED hook /\ Step(w, j) /\ faults' \in 0 .. MaxFaults
           /\ past' = [past EXCEPT !.failed = @ + 1]
  <2>1. /\ past' \in Past /\ past'.streak = past.streak /\ past'.failed = past.failed + 1
        /\ past'.off = past.off /\ past'.rotated = past.rotated /\ past'.lost = past.lost
        /\ past'.saved = past.saved /\ past'.blind = past.blind /\ past'.raced = past.raced
        /\ past'.edited = past.edited /\ past.failed \in Nat
    BY <1>1, <1>6 DEF Past
  <2>2. Others(w) /\ job'[w] = j /\ job' \in [Workers -> Job]
    BY <1>1, <1>3, <1>6, StepMoves, JobsTyped
  <2>3. FailuresCounted'
    BY <1>1, <1>6, <2>1, BoundAssumption DEF FailuresCounted, Hook
  <2>4. HooksRead' /\ Counting'
    BY <1>1, <1>3, <1>6, <2>1, <2>2, <2>3, CopiesStale DEF HookPcs
  <2>5. TypeOK'
    BY <1>1, <1>4, <1>6, <2>1, <2>2 DEF TypeOK
  <2> QED
    BY <1>1, <1>2, <1>4, <1>6, <2>1, <2>2, <2>4, <2>5, DeliverReturns DEF TasksInv
<1> QED
  <2>1. \/ /\ hook' = Counted(job[w]) /\ UNCHANGED faults /\ Wrote(w, j, HookCopies)
           /\ past' = [past EXCEPT !.streak = @ + 1, !.failed = @ + 1,
                                   !.off = IF hook.active /\ ~hook'.active THEN "worker" ELSE @,
                                   !.lost = LostBy(w, "hook")]
        \/ /\ UNCHANGED hook /\ Step(w, j) /\ Ignored(hook.st = "live")
           /\ past' = [past EXCEPT !.failed = @ + 1]
    BY <1>2 DEF CountFailure
  <2>2. Ignored(hook.st = "live") => faults' \in 0 .. MaxFaults
    BY <1>1, IgnoredTyped
  <2> QED  BY <1>5, <1>6, <2>1, <2>2

-----------------------------------------------------------------------------
(* The requests about a webhook.                                           *)

LEMMA JobsSame ==
  ASSUME TasksInv, UNCHANGED task, \A v \in Workers : SameJob(job[v], job'[v])
  PROVE  JobsOK' /\ Holding' /\ TasksOK'
<1>1. \A v \in Workers :
        job'[v].task = job[v].task /\ job'[v].kind = job[v].kind /\ job'[v].pc = job[v].pc
  BY SameFields DEF TasksInv, TypeOK
<1>2. JobsOK'
  BY <1>1 DEF TasksInv, JobsOK, JobOK
<1>3. Holding'
  BY <1>1 DEF TasksInv, Holding
<1>4. TasksOK'
  BY DEF TasksInv, TasksOK, TaskOK
<1> QED  BY <1>2, <1>3, <1>4

LEMMA CreateHookInv ==
  ASSUME TasksInv, NEW valid \in BOOLEAN, CreateHook(valid) PROVE TasksInv'
<1>1. /\ TypeOK /\ hook = NoHook /\ past.off = "nobody" /\ past \in Past /\ FailuresCounted
      /\ requests' \in 0 .. MaxRequests
  BY RequestTyped DEF TasksInv, Counting, CreateHook, TypeOK
<1>2. UNCHANGED <<task, delivery, enrolment, index, company, job, faults, past>>
  BY DEF CreateHook
<1>3. /\ hook' \in Hook /\ hook'.st = "live" /\ hook'.failures = 0 /\ hook'.secret = 0
  BY DEF CreateHook, NewHook, NoHook, Hook
<1>4. TypeOK'
  BY <1>1, <1>2, <1>3 DEF TypeOK
<1>5. JobsOK' /\ Holding' /\ TasksOK'
  BY <1>2, JobsSame DEF SameJob
<1>6. \A v \in Workers : job[v].pc \notin HookPcs
  BY <1>1 DEF TasksInv, HooksRead, NoHook
<1>7. FailuresCounted'
  BY <1>1, <1>2, <1>3, BoundAssumption DEF FailuresCounted, NoHook, Past
<1>8. HooksRead' /\ Counting'
  BY <1>2, <1>3, <1>6, <1>7 DEF HooksRead, Counting
<1>9. EnrolAside /\ IndexAside /\ CompanyAside /\ TryAside
  BY <1>1, <1>2 DEF EnrolAside, IndexAside, CompanyAside, TryAside, Stay, SameJob, NoHook
<1> QED
  BY <1>4, <1>5, <1>8, <1>9, EnrolKept, IndexKept, CompanyKept, TryKept DEF TasksInv

LEMMA DeleteHookInv == ASSUME TasksInv, DeleteHook PROVE TasksInv'
<1>1. /\ TypeOK /\ hook \in Hook /\ hook.st = "live" /\ past \in Past /\ FailuresCounted
      /\ requests' \in 0 .. MaxRequests
  BY RequestTyped DEF TasksInv, Counting, DeleteHook, TypeOK
<1>2. UNCHANGED <<task, delivery, enrolment, index, company, faults, past>>
  BY DEF DeleteHook
<1>3. /\ hook' \in Hook /\ hook'.st = "deleted" /\ hook'.failures = hook.failures
      /\ hook'.secret = hook.secret /\ hook'.active = hook.active /\ hook'.valid = hook.valid
  BY <1>1 DEF DeleteHook, Hook
<1>4. /\ \A v \in Workers : SameJob(job[v], job'[v])
      /\ \A v \in Workers : job[v].kind \in HookCopies => ~job'[v].alone
  BY <1>1 DEF DeleteHook, SameJob, TypeOK, Job
<1>5. job' \in [Workers -> Job]
  <2>1. \A v \in Workers : [job[v] EXCEPT !.alone = FALSE] \in Job
    BY <1>1, NotAlone DEF TypeOK
  <2> QED  BY <1>1, <2>1 DEF DeleteHook, TypeOK
<1>6. TypeOK'
  BY <1>1, <1>2, <1>3, <1>5 DEF TypeOK
<1>7. JobsOK' /\ Holding' /\ TasksOK'
  BY <1>2, <1>4, JobsSame
<1>8. \A v \in Workers : job'[v].pc = job[v].pc /\ job'[v].hook = job[v].hook
  BY <1>1, <1>4, SameFields DEF TypeOK
<1>9. HooksRead'
  BY <1>3, <1>8 DEF TasksInv, HooksRead
<1>10. FailuresCounted'
  BY <1>1, <1>2, <1>3 DEF FailuresCounted
<1>11. Counting'
  <2>1. ASSUME NEW v \in Workers, job'[v].pc \in HookPcs PROVE ~job'[v].alone
    BY <1>4, <1>8, <2>1, Holds DEF JobOK, HookPcs, HookCopies
  <2> QED  BY <1>2, <1>3, <1>8, <1>10, <2>1 DEF TasksInv, Counting
<1>12. EnrolAside /\ IndexAside /\ CompanyAside /\ TryAside
  BY <1>2, <1>3, <1>4 DEF EnrolAside, IndexAside, CompanyAside, TryAside, Stay
<1> QED
  BY <1>6, <1>7, <1>9, <1>11, <1>12, EnrolKept, IndexKept, CompanyKept, TryKept DEF TasksInv

LEMMA BeginUpdateInv ==
  ASSUME TasksInv, NEW w \in Workers, NEW wants \in {"other", "enable", "disable", "rotate"},
         BeginUpdate(w, wants)
  PROVE  TasksInv'
<1>1. /\ TypeOK /\ hook \in Hook /\ hook.st = "live" /\ FailuresCounted
      /\ requests' \in 0 .. MaxRequests
  BY RequestTyped DEF TasksInv, Counting, BeginUpdate, TypeOK
<1>2. PICK j : j = [Idle EXCEPT !.kind = "request", !.pc = "savehook", !.wants = wants,
                                !.hook = hook]
  OBVIOUS
<1>3. /\ j \in Job /\ j.pc = "savehook" /\ j.kind = "request" /\ j.task = 0 /\ j.hook = hook
  BY <1>1, <1>2, IdleTyped DEF Job, Idle
<1>4. JobOK(j)
  BY <1>3 DEF JobOK, HookPcs, Registered
<1>5. UNCHANGED <<task, hook, delivery, enrolment, index, company, faults, past>> /\ Step(w, j)
  BY <1>2 DEF BeginUpdate
<1>6. /\ Others(w) /\ job'[w] = j /\ job' \in [Workers -> Job]
      /\ JobsOK' /\ Holding' /\ TasksOK'
  BY <1>3, <1>4, <1>5, Moves
<1>7. TypeOK'
  BY <1>1, <1>5, <1>6 DEF TypeOK
<1>8. ASSUME NEW v \in Workers, job'[v].pc \in HookPcs
      PROVE  /\ job'[v].hook.st = "live" /\ job'[v].hook.valid = hook.valid
             /\ job'[v].hook.failures <= past.failed
             /\ job'[v].alone => job'[v].hook = hook
  <2>1. CASE v = w
    BY <1>1, <1>3, <1>6, <2>1 DEF FailuresCounted
  <2>2. CASE v # w
    <3>1. /\ job'[v].pc = job[v].pc /\ job'[v].hook = job[v].hook
          /\ job'[v].alone => job[v].alone
      BY <1>1, <1>6, <2>2, SameFields DEF Others, TypeOK
    <3> QED  BY <1>8, <3>1 DEF TasksInv, HooksRead, Counting
  <2> QED  BY <2>1, <2>2
<1>9. HooksRead' /\ Counting'
  BY <1>1, <1>5, <1>8 DEF TasksInv, HooksRead, Counting, FailuresCounted
<1>10. EnrolAside /\ IndexAside /\ CompanyAside
  BY <1>3, <1>5, <1>6, OthersStay DEF EnrolAside, IndexAside, CompanyAside
<1>11. TryAside
  BY <1>3, <1>5, <1>6 DEF TryAside, Others, SendPcs, Tries
<1> QED
  BY <1>6, <1>7, <1>9, <1>10, <1>11, EnrolKept, IndexKept, CompanyKept, TryKept DEF TasksInv

LEMMA SaveHookInv == ASSUME TasksInv, NEW w \in Workers, SaveHook(w) PROVE TasksInv'
<1>1. /\ job[w] \in Job /\ job[w].hook \in Hook /\ job[w].hook.st = "live" /\ TypeOK
      /\ job[w].hook.valid = hook.valid /\ job[w].hook.failures <= past.failed
      /\ job[w].alone => job[w].hook = hook
      /\ past \in Past /\ FailuresCounted
  BY DEF SaveHook, TasksInv, TypeOK, HooksRead, Counting, HookPcs, Job
<1>2. /\ hook' = Updated(job[w]) /\ Wrote(w, Idle, HookCopies)
      /\ past' = [past EXCEPT
           !.streak = IF job[w].wants = "enable" THEN 0 ELSE @,
           !.off = CASE job[w].wants = "enable" -> "nobody"
                     [] job[w].wants = "disable" -> "request"
                     [] OTHER -> @,
           !.rotated = IF job[w].wants = "rotate" THEN @ + 1 ELSE @,
           !.lost = LostBy(w, "hook")]
      /\ UNCHANGED <<task, delivery, enrolment, index, company, requests, faults>>
  BY DEF SaveHook
<1>3. PICK n \in Nat, a \in BOOLEAN :
        /\ n = IF job[w].wants = "rotate" THEN past.rotated + 1 ELSE job[w].hook.secret
        /\ job[w].wants = "enable" => a = TRUE
        /\ job[w].wants = "disable" => a = FALSE
        /\ job[w].wants \notin {"enable", "disable"} => a = job[w].hook.active
  <2>1. /\ (IF job[w].wants = "rotate" THEN past.rotated + 1 ELSE job[w].hook.secret) \in Nat
        /\ job[w].hook.active \in BOOLEAN
    BY <1>1 DEF Hook, Past
  <2> QED  BY <2>1
<1>4. /\ hook' \in Hook /\ hook'.st = "live" /\ hook'.valid = hook.valid
      /\ hook'.failures = (IF job[w].wants = "enable" THEN 0 ELSE job[w].hook.failures)
      /\ hook'.active = a /\ hook'.secret = n
  <2>1. hook' = [job[w].hook EXCEPT
                   !.active = a, !.secret = n,
                   !.failures = IF job[w].wants = "enable" THEN 0 ELSE job[w].hook.failures]
    <3>1. CASE job[w].wants = "enable"
      BY <1>1, <1>2, <1>3, <3>1 DEF Updated, Hook
    <3>2. CASE job[w].wants = "disable"
      BY <1>1, <1>2, <1>3, <3>2 DEF Updated, Hook
    <3>3. CASE job[w].wants \notin {"enable", "disable"}
      BY <1>1, <1>2, <1>3, <3>3 DEF Updated, Hook
    <3> QED  BY <3>1, <3>2, <3>3
  <2> QED  BY <1>1, <1>3, <2>1 DEF Hook
<1>5. /\ past' \in Past
      /\ past'.streak = (IF job[w].wants = "enable" THEN 0 ELSE past.streak)
      /\ past'.off = (IF job[w].wants = "enable" THEN "nobody"
                      ELSE IF job[w].wants = "disable" THEN "request" ELSE past.off)
      /\ past'.rotated = (IF job[w].wants = "rotate" THEN past.rotated + 1 ELSE past.rotated)
      /\ past'.lost = LostBy(w, "hook") /\ past'.failed = past.failed
      /\ past'.saved = past.saved /\ past'.blind = past.blind /\ past'.raced = past.raced
      /\ past'.edited = past.edited /\ past.failed \in Nat
  <2>1. PICK s, o, r, L :
          /\ s = IF job[w].wants = "enable" THEN 0 ELSE past.streak
          /\ o = IF job[w].wants = "enable" THEN "nobody"
                 ELSE IF job[w].wants = "disable" THEN "request" ELSE past.off
          /\ r = IF job[w].wants = "rotate" THEN past.rotated + 1 ELSE past.rotated
          /\ L = LostBy(w, "hook")
    OBVIOUS
  <2>2. /\ s \in Nat /\ r \in Nat /\ o \in {"nobody", "request", "worker"}
        /\ L \in SUBSET {"hook", "enrolment", "company"}
    BY <1>1, <2>1 DEF Past, LostBy
  <2>3. past' = [past EXCEPT !.streak = s, !.off = o, !.rotated = r, !.lost = L]
    BY <1>1, <1>2, <2>1 DEF Past
  <2>4. past' \in Past /\ past.failed \in Nat
    BY <1>1, <2>2, <2>3 DEF Past
  <2>5. /\ past'.streak = s /\ past'.off = o /\ past'.rotated = r /\ past'.lost = L
        /\ past'.failed = past.failed /\ past'.saved = past.saved /\ past'.blind = past.blind
        /\ past'.raced = past.raced /\ past'.edited = past.edited
    BY <1>1, <2>3 DEF Past
  <2> QED  BY <2>1, <2>4, <2>5
<1>6. LostBy(w, "hook") \in {past.lost, past.lost \cup {"hook"}}
      /\ (~job[w].alone => "hook" \in LostBy(w, "hook"))
  BY DEF LostBy
<1>7. FailuresCounted'
  <2>1. ASSUME "hook" \notin past'.lost
        PROVE  /\ hook'.failures = past'.streak /\ hook'.secret = past'.rotated
               /\ hook'.active => hook'.failures < Threshold
               /\ past'.off = "worker" => ~hook'.active
    <3>1. job[w].hook = hook /\ "hook" \notin past.lost
      BY <1>1, <1>5, <1>6, <2>1
    <3>2. /\ hook.failures = past.streak /\ hook.secret = past.rotated
          /\ hook.active => hook.failures < Threshold
          /\ past.off = "worker" => ~hook.active
      BY <1>1, <3>1 DEF FailuresCounted
    <3>3. hook'.failures = past'.streak /\ hook'.secret = past'.rotated
      BY <1>3, <1>4, <1>5, <3>1, <3>2
    <3>4. CASE job[w].wants = "enable"
      BY <1>4, <1>5, <3>3, <3>4, BoundAssumption
    <3>5. CASE job[w].wants = "disable"
      BY <1>3, <1>4, <3>3, <3>5
    <3>6. CASE job[w].wants \notin {"enable", "disable"}
      BY <1>3, <1>4, <1>5, <3>1, <3>2, <3>3, <3>6
    <3> QED  BY <3>3, <3>4, <3>5, <3>6
  <2>2. hook'.failures <= past'.failed
    BY <1>1, <1>4, <1>5
  <2>3. past'.off = "worker" => past'.failed >= Threshold
    BY <1>1, <1>5 DEF FailuresCounted
  <2> QED  BY <2>1, <2>2, <2>3 DEF FailuresCounted
<1>8. /\ Others(w) /\ job'[w] = Idle /\ job' \in [Workers -> Job]
      /\ \A v \in Workers : v # w /\ job[v].kind \in HookCopies => ~job'[v].alone
  BY <1>1, <1>2, IdleTyped, WroteMoves, JobsTyped
<1>9. HooksRead' /\ Counting'
  BY <1>1, <1>4, <1>5, <1>7, <1>8, CopiesStale DEF HookPcs, Idle
<1>10. TypeOK'
  BY <1>1, <1>2, <1>4, <1>5, <1>8 DEF TypeOK
<1>11. JobsOK' /\ Holding' /\ TasksOK'
  <2>1. Idle.task = 0 /\ JobOK(Idle)
    BY IdleTyped DEF Idle
  <2> QED  BY <1>2, <1>8, <2>1, QueueAside
<1>12. EnrolAside /\ IndexAside /\ CompanyAside
  <2>1. /\ "enrolment" \in past'.lost <=> "enrolment" \in past.lost
        /\ "company" \in past'.lost <=> "company" \in past.lost
    BY <1>5, <1>6
  <2> QED  BY <1>2, <1>5, <1>8, <2>1, DeliverAside DEF Idle
<1>13. TryAside
  BY <1>2, <1>4, <1>8, IdleAside DEF TryAside
<1> QED
  BY <1>9, <1>10, <1>11, <1>12, <1>13, EnrolKept, IndexKept, CompanyKept, TryKept DEF TasksInv

-----------------------------------------------------------------------------
(* The enrolment.                                                          *)

\* The others keep their copies of the enrolment.
LEMMA EnrolCopies ==
  ASSUME TasksInv, NEW w \in Workers, Others(w), NEW v \in Workers, v # w,
         job'[v].pc = "advance"
  PROVE  /\ job'[v].enrolment = job[v].enrolment /\ job[v].enrolment.st = "active"
         /\ job[v].kind = "advance"
         /\ job'[v].alone => job[v].alone /\ job[v].enrolment = enrolment
<1>1. /\ job[v].pc = "advance" /\ job'[v].enrolment = job[v].enrolment
      /\ job'[v].alone => job[v].alone
  BY SameFields DEF Others, TasksInv, TypeOK
<1>2. job[v].kind = "advance"
  BY <1>1, Holds DEF JobOK
<1> QED  BY <1>1, <1>2 DEF TasksInv, Advancing

LEMMA EnrollInv == ASSUME TasksInv, Enroll PROVE TasksInv'
<1>1. /\ TypeOK /\ enrolment.st = "none" /\ enrolment.step = 0 /\ requests' \in 0 .. MaxRequests
  BY RequestTyped DEF TasksInv, Advancing, Enroll
<1>2. /\ UNCHANGED <<task, hook, delivery, index, company, job, faults, past>>
      /\ enrolment' = [st |-> "active", step |-> 0]
  BY DEF Enroll
<1>3. TypeOK'
  BY <1>1, <1>2, BoundAssumption DEF TypeOK, Enrolment
<1>4. JobsOK' /\ Holding' /\ TasksOK'
  BY <1>2, JobsSame DEF SameJob
<1>5. HookAside /\ IndexAside /\ CompanyAside /\ TryAside
  BY <1>2 DEF HookAside, HookSame, IndexAside, CompanyAside, TryAside, Stay, SameJob
<1>6. Advancing'
  BY <1>1, <1>2 DEF TasksInv, Advancing
<1> QED
  BY <1>3, <1>4, <1>5, <1>6, HookKept, IndexKept, CompanyKept, TryKept DEF TasksInv

\* Whoever handles an enrolment, an index or a company is away from the hook.
LEMMA OtherAside ==
  ASSUME NEW w \in Workers, Others(w), job'[w].pc \notin HookPcs, job'[w].kind # "deliver",
         UNCHANGED <<task, hook, delivery>>,
         past'.streak = past.streak, past'.failed = past.failed,
         past'.off = past.off, past'.rotated = past.rotated,
         "hook" \notin past'.lost => "hook" \notin past.lost
  PROVE  HookAside /\ TryAside
<1>1. HookAside
  BY OthersStay DEF HookAside, HookSame
<1>2. TryAside
  BY DEF TryAside, Others, SendPcs, HookPcs, Tries
<1> QED  BY <1>1, <1>2

LEMMA ReadEnrolmentInv == ASSUME TasksInv, NEW w \in Workers, ReadEnrolment(w) PROVE TasksInv'
<1>1. /\ job[w] \in Job /\ JobOK(job[w]) /\ job[w].pc = "start" /\ job[w].kind = "advance"
      /\ TypeOK /\ enrolment \in Enrolment
  BY Holds DEF ReadEnrolment, Starts, TasksInv, TypeOK
<1>2. UNCHANGED <<hook, delivery, enrolment, index, company, requests, past>>
  BY DEF ReadEnrolment
<1>3. CASE Skip(w) /\ UNCHANGED faults
  BY <1>1, <1>2, <1>3, SkipInv DEF TypeOK
<1>4. ASSUME NEW j \in Job, Step(w, j), UNCHANGED task, faults' \in 0 .. MaxFaults,
             j.kind = "advance", j.task = job[w].task, j.pc \in {"error", "advance"},
             j.pc = "advance" => enrolment.st = "active" /\ j.enrolment = enrolment
      PROVE  TasksInv'
  <2>1. JobOK(j)
    BY <1>1, <1>4 DEF JobOK, HookPcs, Registered
  <2>2. /\ Others(w) /\ job'[w] = j /\ job' \in [Workers -> Job]
        /\ JobsOK' /\ Holding' /\ TasksOK'
    BY <1>1, <1>4, <2>1, Moves
  <2>3. TypeOK'
    BY <1>1, <1>2, <1>4, <2>2 DEF TypeOK
  <2>4. HookAside /\ TryAside
    BY <1>2, <1>4, <2>2, OtherAside DEF HookPcs
  <2>5. IndexAside /\ CompanyAside
    BY <1>2, <1>4, <2>2, OthersStay DEF IndexAside, CompanyAside
  <2>6. ASSUME NEW v \in Workers, job'[v].pc = "advance"
        PROVE  job'[v].enrolment.st = "active" /\ (job'[v].alone => job'[v].enrolment = enrolment)
    <3>1. CASE v = w
      BY <1>4, <2>2, <2>6, <3>1
    <3>2. CASE v # w
      BY <2>2, <2>6, <3>2, EnrolCopies
    <3> QED  BY <3>1, <3>2
  <2>7. Advancing'
    BY <1>2, <2>6 DEF TasksInv, Advancing
  <2> QED
    BY <2>2, <2>3, <2>4, <2>5, <2>7, HookKept, IndexKept, CompanyKept, TryKept DEF TasksInv
<1>5. CASE Goto(w, "error") /\ Ignored(enrolment.st # "none") /\ UNCHANGED task
  <2>1. PICK j : j = [job[w] EXCEPT !.pc = "error"]
    OBVIOUS
  <2>2. j \in Job /\ j.kind = "advance" /\ j.task = job[w].task /\ j.pc = "error"
    BY <1>1, <2>1 DEF Job
  <2>3. Step(w, j) /\ faults' \in 0 .. MaxFaults
    BY <1>1, <1>5, <2>1, IgnoredTyped DEF Goto
  <2> QED  BY <1>4, <1>5, <2>2, <2>3
<1>6. CASE /\ enrolment.st = "active" /\ UNCHANGED <<task, faults>>
           /\ Step(w, [job[w] EXCEPT !.pc = "advance", !.enrolment = enrolment, !.alone = TRUE])
  <2>1. PICK j : j = [job[w] EXCEPT !.pc = "advance", !.enrolment = enrolment, !.alone = TRUE]
    OBVIOUS
  <2>2. /\ j \in Job /\ j.kind = "advance" /\ j.task = job[w].task /\ j.pc = "advance"
        /\ j.enrolment = enrolment
    BY <1>1, <2>1 DEF Job
  <2>3. Step(w, j) /\ faults' \in 0 .. MaxFaults
    BY <1>1, <1>6, <2>1 DEF TypeOK
  <2> QED  BY <1>4, <1>6, <2>2, <2>3
<1> QED  BY <1>3, <1>5, <1>6 DEF ReadEnrolment

LEMMA SaveEnrolmentInv == ASSUME TasksInv, NEW w \in Workers, SaveEnrolment(w) PROVE TasksInv'
<1>1. /\ job[w] \in Job /\ JobOK(job[w]) /\ job[w].pc = "advance" /\ job[w].kind = "advance"
      /\ TypeOK /\ job[w].enrolment \in Enrolment /\ job[w].enrolment.st = "active"
      /\ job[w].alone => job[w].enrolment = enrolment
      /\ past \in Past /\ job[w].task \in TaskIds /\ task \in [TaskIds -> Task]
      /\ enrolment \in Enrolment
  BY Holds DEF SaveEnrolment, TasksInv, JobOK, TypeOK, Advancing, Job, Registered
<1>2. UNCHANGED <<hook, delivery, index, company, requests>>
  BY DEF SaveEnrolment
<1>3. PICK j : j = [job[w] EXCEPT !.pc = "return"]
  OBVIOUS
<1>4. /\ j \in Job /\ j.pc = "return" /\ j.kind = "advance" /\ j.task = job[w].task
  BY <1>1, <1>3 DEF Job
<1>5. JobOK(j)
  BY <1>1, <1>4 DEF JobOK, HookPcs, Registered
<1>6. CASE Ignored(TRUE) /\ Step(w, j) /\ UNCHANGED <<enrolment, task, past>>
  <2>1. /\ Others(w) /\ job'[w] = j /\ job' \in [Workers -> Job]
        /\ JobsOK' /\ Holding' /\ TasksOK'
    BY <1>1, <1>4, <1>5, <1>6, Moves
  <2>2. TypeOK'
    BY <1>1, <1>2, <1>6, <2>1, IgnoredTyped DEF TypeOK
  <2>3. HookAside /\ TryAside
    BY <1>2, <1>4, <1>6, <2>1, OtherAside DEF HookPcs
  <2>4. EnrolAside /\ IndexAside /\ CompanyAside
    BY <1>2, <1>4, <1>6, <2>1, OthersStay DEF EnrolAside, IndexAside, CompanyAside
  <2> QED
    BY <2>1, <2>2, <2>3, <2>4, HookKept, EnrolKept, IndexKept, CompanyKept, TryKept DEF TasksInv
<1>7. ASSUME NEW e \in BOOLEAN, Ignored(e),
             enrolment' = Advanced(job[w].enrolment, IF e THEN 0 ELSE Steps),
             past' = [past EXCEPT !.lost = LostBy(w, "enrolment"), !.saved = @ + 1,
                                  !.blind = @ \cup IF e THEN {"steps"} ELSE {}],
             task' = [task EXCEPT ![job[w].task].saves = @ + 1],
             Wrote(w, j, {"advance"})
      PROVE  TasksInv'
  <2>a. PICK t \in TaskIds : t = job[w].task
    BY <1>1
  <2>1. PICK r : t = job[w].task /\ r = [task[t] EXCEPT !.saves = task[t].saves + 1]
    BY <2>a
  <2>2. /\ task[t] \in Task /\ task[t].st = "active" /\ t # 0
        /\ task[t].saves <= task[t].retried /\ task[t].saves + 1 <= task[t].retried + 1
        /\ task[t].saves + 1 \in 0 .. MaxRetry + 1
    <3>1. task[t] \in Task /\ task[t].st = "active" /\ t # 0 /\ task[t].saves <= task[t].retried
      BY <1>1, <2>1, Holds, BoundAssumption DEF TaskIds, TasksInv, Holding
    <3> QED  BY <3>1, BoundAssumption DEF Task
  <2>3. /\ r \in Task /\ r.st = "active" /\ r.kind = task[t].kind
        /\ r.saves = task[t].saves + 1 /\ r.retried = task[t].retried
        /\ r.skipped = task[t].skipped /\ r.unsaved = task[t].unsaved
    BY <2>1, <2>2 DEF Task
  <2>4. task' = [task EXCEPT ![t] = r]
    BY <1>1, <1>7, <2>1
  <2>5. /\ Others(w) /\ job'[w] = j /\ job' \in [Workers -> Job]
        /\ \A v \in Workers : v # w /\ job[v].kind = "advance" => ~job'[v].alone
    BY <1>1, <1>4, <1>7, WroteMoves, JobsTyped
  <2>6. task' \in [TaskIds -> Task] /\ JobsOK' /\ Holding' /\ TasksOK'
    <3>1. r.saves <= r.retried + 1
      BY <2>2, <2>3
    <3>2. /\ JobOK(job'[w]) /\ job[w].task = t /\ job'[w].task = t /\ job'[w].kind = job[w].kind
          /\ job'[w].pc = "return"
      BY <1>1, <1>4, <1>5, <2>1, <2>5
    <3> QED  BY <2>3, <2>4, <2>5, <3>1, <3>2, HeldChanges
  <2>7. enrolment' \in Enrolment
    BY <1>1, <1>7, BoundAssumption DEF Advanced, Enrolment
  <2>8. /\ past' \in Past /\ past'.lost = LostBy(w, "enrolment") /\ past'.saved = past.saved + 1
        /\ past'.blind = past.blind \cup (IF e THEN {"steps"} ELSE {})
        /\ past'.streak = past.streak /\ past'.failed = past.failed /\ past'.off = past.off
        /\ past'.rotated = past.rotated /\ past'.raced = past.raced
        /\ past'.edited = past.edited /\ past.saved \in Nat
    <3>1. PICK L, B : L = LostBy(w, "enrolment") /\ B = past.blind \cup (IF e THEN {"steps"} ELSE {})
      OBVIOUS
    <3>2. /\ L \in SUBSET {"hook", "enrolment", "company"} /\ B \in SUBSET {"steps", "index"}
          /\ past.saved + 1 \in Nat /\ past.saved \in Nat
      BY <1>1, <3>1 DEF LostBy, Past
    <3>3. past' = [past EXCEPT !.lost = L, !.saved = past.saved + 1, !.blind = B]
      BY <1>1, <1>7, <3>1 DEF Past
    <3>4. past' \in Past
      BY <1>1, <3>2, <3>3 DEF Past
    <3>5. /\ past'.lost = L /\ past'.saved = past.saved + 1 /\ past'.blind = B
          /\ past'.streak = past.streak /\ past'.failed = past.failed /\ past'.off = past.off
          /\ past'.rotated = past.rotated /\ past'.raced = past.raced
          /\ past'.edited = past.edited
      BY <1>1, <3>3 DEF Past
    <3> QED  BY <3>1, <3>2, <3>4, <3>5
  <2>9. TypeOK'
    BY <1>1, <1>2, <1>7, <2>5, <2>6, <2>7, <2>8, IgnoredTyped DEF TypeOK
  <2>10. LostBy(w, "enrolment") \in {past.lost, past.lost \cup {"enrolment"}}
         /\ (~job[w].alone => "enrolment" \in LostBy(w, "enrolment"))
    BY DEF LostBy
  <2>11. HookAside
    BY <1>2, <1>4, <2>5, <2>8, <2>10, OthersStay DEF HookAside, HookSame, HookPcs
  <2>12. TryAside
    <3>1. /\ task'[t] = r /\ \A s \in TaskIds : s # t => task'[s] = task[s]
      BY <1>1, <2>4
    <3> QED  BY <1>2, <1>4, <2>3, <2>5, <3>1 DEF TryAside, Others, SendPcs, Tries
  <2>13. IndexAside /\ CompanyAside
    BY <1>2, <1>4, <2>5, <2>8, <2>10, OthersStay DEF IndexAside, CompanyAside
  <2>14. Advancing'
    <3>1. ASSUME NEW v \in Workers, job'[v].pc = "advance"
          PROVE  job'[v].enrolment.st = "active" /\ ~job'[v].alone
      <4>1. v # w
        BY <1>4, <2>5, <3>1
      <4> QED  BY <2>5, <3>1, <4>1, EnrolCopies
    <3>2. enrolment'.st \in {"active", "completed"}
      BY <1>1, <1>7 DEF Advanced, Enrolment
    <3>3. enrolment'.st = "completed" /\ "steps" \notin past'.blind => enrolment'.step = Steps
      <4>1. CASE ~e
        BY <1>1, <1>7, <4>1, BoundAssumption DEF Advanced, Enrolment
      <4>2. CASE e
        BY <2>8, <4>2
      <4> QED  BY <4>1, <4>2
    <3>4. ASSUME "enrolment" \notin past'.lost
          PROVE  past'.saved = enrolment'.step + IF enrolment'.st = "completed" THEN 1 ELSE 0
      <4>1. enrolment = job[w].enrolment /\ "enrolment" \notin past.lost
        BY <1>1, <2>8, <2>10, <3>4
      <4>2. past.saved = enrolment.step /\ enrolment.st = "active" /\ enrolment.step \in Nat
        BY <1>1, <4>1 DEF TasksInv, Advancing, Enrolment
      <4> QED  BY <1>1, <1>7, <2>8, <4>1, <4>2 DEF Advanced, Enrolment
    <3> QED  BY <3>1, <3>2, <3>3, <3>4 DEF Advancing
  <2> QED
    BY <2>6, <2>9, <2>11, <2>12, <2>13, <2>14, HookKept, IndexKept, CompanyKept, TryKept
       DEF TasksInv
<1> QED  BY <1>3, <1>6, <1>7 DEF SaveEnrolment

-----------------------------------------------------------------------------
(* The index.                                                              *)

LEMMA FindIndexedInv == ASSUME TasksInv, NEW w \in Workers, FindIndexed(w) PROVE TasksInv'
<1>1. /\ job[w] \in Job /\ JobOK(job[w]) /\ job[w].pc \in {"start", "find"}
      /\ job[w].kind = "index" /\ TypeOK /\ past \in Past
  BY Holds DEF FindIndexed, Starts, TasksInv, JobOK, TypeOK
<1>2. UNCHANGED <<task, hook, delivery, enrolment, index, company, requests>>
  BY DEF FindIndexed
<1> DEFINE Race == \E v \in Workers : job[v].pc = "write" /\ ~job[v].found
                                     /\ job[v].table = job[w].table
<1>a. PICK e \in BOOLEAN :
        /\ Ignored(e)
        /\ Step(w, [job[w] EXCEPT !.pc = "write", !.found = IsThere(job[w].table) /\ ~e])
        /\ past' = [past EXCEPT !.raced = @ \/ Race,
                                !.blind = @ \cup IF e THEN {"index"} ELSE {}]
  BY DEF FindIndexed
<1>b. PICK f \in BOOLEAN : f = (IsThere(job[w].table) /\ ~e)
  BY DEF IsThere
<1>c. PICK r \in BOOLEAN : r = (past.raced \/ Race)
  <2>1. (past.raced \/ Race) \in BOOLEAN
    BY Zenon
  <2> QED  BY <2>1
<1>d. PICK B : B = past.blind \cup (IF e THEN {"index"} ELSE {})
  OBVIOUS
<1>3. /\ Ignored(e)
      /\ f <=> index[job[w].table] > 0 /\ ~e
      /\ r <=> past.raced \/ Race
      /\ B = past.blind \cup (IF e THEN {"index"} ELSE {})
      /\ Step(w, [job[w] EXCEPT !.pc = "write", !.found = f])
      /\ past' = [past EXCEPT !.raced = r, !.blind = B]
  <2>1. Step(w, [job[w] EXCEPT !.pc = "write", !.found = f])
    BY <1>a, <1>b
  <2>2. past' = [past EXCEPT !.raced = r, !.blind = B]
    BY <1>a, <1>c, <1>d
  <2>3. f <=> index[job[w].table] > 0 /\ ~e
    BY <1>b DEF IsThere
  <2>4. r <=> past.raced \/ Race
    BY <1>c
  <2> HIDE DEF Race
  <2> QED  BY <1>a, <1>d, <2>1, <2>2, <2>3, <2>4
<1>4. B \in SUBSET {"steps", "index"}
  BY <1>1, <1>3 DEF Past
<1>5. PICK j : j = [job[w] EXCEPT !.pc = "write", !.found = f]
  OBVIOUS
<1>6. /\ j \in Job /\ j.pc = "write" /\ j.kind = "index" /\ j.task = job[w].task
      /\ j.table = job[w].table /\ j.found = f /\ job[w].table \in Tables
  BY <1>1, <1>4, <1>5 DEF Job
<1>7. JobOK(j)
  BY <1>1, <1>6 DEF JobOK, HookPcs, Registered
<1>8. /\ Others(w) /\ job'[w] = j /\ job' \in [Workers -> Job]
      /\ JobsOK' /\ Holding' /\ TasksOK'
  BY <1>1, <1>2, <1>3, <1>5, <1>6, <1>7, Moves
<1>9. /\ past' \in Past /\ past'.raced = r /\ past'.blind = B
      /\ past'.streak = past.streak /\ past'.failed = past.failed /\ past'.off = past.off
      /\ past'.rotated = past.rotated /\ past'.lost = past.lost /\ past'.saved = past.saved
      /\ past'.edited = past.edited
  BY <1>1, <1>3, <1>4 DEF Past
<1>10. TypeOK'
  BY <1>1, <1>2, <1>3, <1>8, <1>9, IgnoredTyped DEF TypeOK
<1>11. HookAside /\ TryAside
  BY <1>2, <1>6, <1>8, <1>9, OtherAside DEF HookPcs
<1>12. EnrolAside /\ CompanyAside
  BY <1>2, <1>3, <1>6, <1>8, <1>9, OthersStay DEF EnrolAside, CompanyAside
<1>13. Indexing'
  <2> SUFFICES ASSUME ~r, "index" \notin B
               PROVE  /\ \A k \in Tables : index[k] <= 1
                      /\ \A v \in Workers : Missed(job'[v]) =>
                           /\ index[job'[v].table] = 0
                           /\ \A u \in Workers : Missed(job'[u]) /\ job'[u].table = job'[v].table
                                                 => u = v
    BY <1>2, <1>9 DEF Indexing
  <2>1. ~past.raced /\ "index" \notin past.blind /\ ~e
    BY <1>3
  <2>2. /\ \A k \in Tables : index[k] <= 1
        /\ \A v \in Workers : Missed(job[v]) =>
             /\ index[job[v].table] = 0
             /\ \A u \in Workers : Missed(job[u]) /\ job[u].table = job[v].table => u = v
    BY <2>1 DEF TasksInv, Indexing
  <2>3. \A v \in Workers : Missed(job[v]) => job[v].table # job[w].table
    BY <1>3 DEF Missed
  <2>4. Missed(j) => index[j.table] = 0
    BY <1>1, <1>3, <1>6, <2>1 DEF Missed, TypeOK
  <2>5. \A v \in Workers : v # w =>
          (Missed(job'[v]) <=> Missed(job[v])) /\ job'[v].table = job[v].table
    BY <1>1, <1>8, SameFields DEF Others, TypeOK, Missed
  <2> QED  BY <1>6, <1>8, <2>2, <2>3, <2>4, <2>5
<1> QED
  BY <1>8, <1>10, <1>11, <1>12, <1>13, HookKept, EnrolKept, CompanyKept, TryKept DEF TasksInv

LEMMA WriteIndexedInv == ASSUME TasksInv, NEW w \in Workers, WriteIndexed(w) PROVE TasksInv'
<1>1. /\ job[w] \in Job /\ JobOK(job[w]) /\ job[w].pc = "write" /\ job[w].kind = "index"
      /\ TypeOK /\ job[w].table \in Tables /\ index \in [Tables -> Nat]
  BY Holds DEF WriteIndexed, TasksInv, JobOK, TypeOK, Job
<1>2. UNCHANGED <<task, hook, delivery, enrolment, company, requests, past>>
  BY DEF WriteIndexed
<1>3. PICK j : j = IF job[w].table = "memory" THEN [job[w] EXCEPT !.pc = "find", !.table = "node"]
                   ELSE [job[w] EXCEPT !.pc = "return"]
  OBVIOUS
<1>4. j \in Job /\ j.pc \in {"find", "return"} /\ j.kind = "index" /\ j.task = job[w].task
  BY <1>1, <1>3 DEF Job, Tables
<1>5. JobOK(j)
  BY <1>1, <1>4 DEF JobOK, HookPcs, Registered
<1>6. PICK e \in BOOLEAN :
        /\ Ignored(e)
        /\ index' = [index EXCEPT ![job[w].table] = IF job[w].found \/ e THEN @ ELSE @ + 1]
  BY DEF WriteIndexed
<1>7. Step(w, j)
  BY <1>3 DEF WriteIndexed
<1>8. /\ Others(w) /\ job'[w] = j /\ job' \in [Workers -> Job]
      /\ JobsOK' /\ Holding' /\ TasksOK'
  BY <1>1, <1>2, <1>4, <1>5, <1>7, Moves
<1>9. /\ index' \in [Tables -> Nat]
      /\ \A k \in Tables : k # job[w].table => index'[k] = index[k]
      /\ index'[job[w].table] \in {index[job[w].table], index[job[w].table] + 1}
      /\ job[w].found => index'[job[w].table] = index[job[w].table]
  BY <1>1, <1>6
<1>10. TypeOK'
  BY <1>1, <1>2, <1>6, <1>8, <1>9, IgnoredTyped DEF TypeOK
<1>11. HookAside /\ TryAside
  BY <1>2, <1>4, <1>8, OtherAside DEF HookPcs
<1>12. EnrolAside /\ CompanyAside
  BY <1>2, <1>4, <1>8, OthersStay DEF EnrolAside, CompanyAside
<1>13. Indexing'
  <2> SUFFICES ASSUME ~past.raced, "index" \notin past.blind
               PROVE  /\ \A k \in Tables : index'[k] <= 1
                      /\ \A v \in Workers : Missed(job'[v]) =>
                           /\ index'[job'[v].table] = 0
                           /\ \A u \in Workers : Missed(job'[u]) /\ job'[u].table = job'[v].table
                                                 => u = v
    BY <1>2 DEF Indexing
  <2>1. /\ \A k \in Tables : index[k] <= 1
        /\ \A v \in Workers : Missed(job[v]) =>
             /\ index[job[v].table] = 0
             /\ \A u \in Workers : Missed(job[u]) /\ job[u].table = job[v].table => u = v
    BY DEF TasksInv, Indexing
  <2>2. \A v \in Workers : v # w =>
          /\ Missed(job'[v]) <=> Missed(job[v])
          /\ job'[v].table = job[v].table /\ job[v].table \in Tables
    BY <1>1, <1>8, SameFields DEF Others, TypeOK, Missed, Job
  <2>3. ~Missed(job'[w])
    BY <1>4, <1>8 DEF Missed
  <2>4. CASE job[w].found
    BY <1>1, <1>9, <2>1, <2>2, <2>3, <2>4
  <2>5. CASE ~job[w].found
    <3>1. Missed(job[w]) /\ index[job[w].table] = 0 /\ index'[job[w].table] <= 1
      BY <1>1, <1>9, <2>1, <2>5 DEF Missed
    <3>2. \A v \in Workers : v # w /\ Missed(job[v]) => job[v].table # job[w].table
      BY <2>1, <3>1
    <3> QED  BY <1>9, <2>1, <2>2, <2>3, <3>1, <3>2
  <2> QED  BY <2>4, <2>5
<1> QED
  BY <1>8, <1>10, <1>11, <1>12, <1>13, HookKept, EnrolKept, CompanyKept, TryKept DEF TasksInv

-----------------------------------------------------------------------------
(* The company.                                                            *)

LEMMA CompanyCopy ==
  ASSUME TasksInv, NEW w \in Workers, Others(w), NEW v \in Workers, v # w,
         job'[v].pc \in {"update", "savecompany"}, job'[v].alone
  PROVE  /\ job'[v].company = company /\ job[v].kind \in CompanyCopies
<1>1. /\ job[v].pc = job'[v].pc /\ job'[v].company = job[v].company /\ job[v].alone
  BY SameFields DEF Others, TasksInv, TypeOK
<1>2. job[v].kind \in CompanyCopies
  BY <1>1, Holds DEF JobOK, CompanyCopies
<1> QED  BY <1>1, <1>2 DEF TasksInv, Editing

\* The company has changed, and nobody who holds a copy of it is alone any more; or it
\* is as it was.
LEMMA CompanyStale ==
  ASSUME TasksInv, NEW w \in Workers, Others(w), EnrichKeepsEdits',
         job'[w].pc \in {"update", "savecompany"} => job'[w].company = company',
         \/ company' = company
         \/ \A v \in Workers : v # w /\ job[v].kind \in CompanyCopies => ~job'[v].alone
  PROVE  Editing'
<1>1. ASSUME NEW v \in Workers, job'[v].pc \in {"update", "savecompany"}, job'[v].alone
      PROVE  job'[v].company = company'
  <2>1. CASE v = w
    BY <1>1, <2>1
  <2>2. CASE v # w
    BY <1>1, <2>2, CompanyCopy
  <2> QED  BY <2>1, <2>2
<1> QED  BY <1>1 DEF Editing

\* A step that touches the company and nothing else of the other rows.
LEMMA CompanyOnly ==
  ASSUME TasksInv, NEW w \in Workers, Others(w), JobOK(job'[w]), job' \in [Workers -> Job],
         job'[w].pc \in {"idle", "update", "score", "return", "savecompany"},
         job'[w].kind # "deliver",
         job'[w].task # 0 =>
           /\ job'[w].task = job[w].task /\ job'[w].kind = job[w].kind
           /\ job'[w].pc # "return" => job[w].pc # "return",
         UNCHANGED <<task, hook, delivery, enrolment, index>>, company' \in Company,
         requests' \in 0 .. MaxRequests, faults' \in 0 .. MaxFaults, past' \in Past,
         past'.streak = past.streak, past'.failed = past.failed, past'.off = past.off,
         past'.rotated = past.rotated, past'.saved = past.saved, past'.blind = past.blind,
         past'.raced = past.raced,
         past'.lost = past.lost \/ past'.lost = LostBy(w, "company"),
         Editing'
  PROVE  TasksInv'
<1>1. TypeOK'
  BY DEF TasksInv, TypeOK
<1>2. JobsOK' /\ Holding' /\ TasksOK'
  BY QueueAside
<1>3. \A row \in {"hook", "enrolment"} : row \notin past'.lost => row \notin past.lost
  BY DEF LostBy
<1>4. HookAside /\ TryAside
  BY <1>3, OtherAside DEF HookPcs
<1>5. EnrolAside /\ IndexAside
  BY <1>3, OthersStay DEF EnrolAside, IndexAside
<1> QED  BY <1>1, <1>2, <1>4, <1>5, HookKept, EnrolKept, IndexKept, TryKept DEF TasksInv

LEMMA ReadCompanyInv == ASSUME TasksInv, NEW w \in Workers, ReadCompany(w) PROVE TasksInv'
<1>1. /\ job[w] \in Job /\ JobOK(job[w]) /\ job[w].pc = "start" /\ job[w].kind = "enrich"
      /\ TypeOK /\ company \in Company /\ EnrichKeepsEdits /\ faults \in 0 .. MaxFaults
  BY Holds DEF ReadCompany, Starts, TasksInv, TypeOK, Editing
<1>2. UNCHANGED <<hook, delivery, enrolment, index, company, requests, past>>
  BY DEF ReadCompany
<1>3. CASE Ignored(TRUE) /\ Skip(w)
  BY <1>1, <1>2, <1>3, SkipInv, IgnoredTyped
<1>4. CASE /\ Step(w, [job[w] EXCEPT !.pc = "update", !.company = company, !.alone = TRUE])
           /\ UNCHANGED <<task, faults>>
  <2>1. PICK j : j = [job[w] EXCEPT !.pc = "update", !.company = company, !.alone = TRUE]
    OBVIOUS
  <2>2. /\ j \in Job /\ j.kind = "enrich" /\ j.task = job[w].task /\ j.pc = "update"
        /\ j.company = company
    BY <1>1, <2>1 DEF Job
  <2>3. JobOK(j)
    BY <1>1, <2>2 DEF JobOK, HookPcs, Registered
  <2>4. Others(w) /\ job'[w] = j /\ job' \in [Workers -> Job]
    BY <1>1, <1>4, <2>1, <2>2, StepMoves, JobsTyped
  <2>5. Editing'
    BY <1>1, <1>2, <2>2, <2>4, CompanyStale DEF EnrichKeepsEdits
  <2> QED
    BY <1>1, <1>2, <1>4, <2>2, <2>3, <2>4, <2>5, CompanyOnly DEF TypeOK
<1> QED  BY <1>3, <1>4 DEF ReadCompany

LEMMA UpdateCompanyInv == ASSUME TasksInv, NEW w \in Workers, UpdateCompany(w) PROVE TasksInv'
<1>1. /\ job[w] \in Job /\ JobOK(job[w]) /\ job[w].pc = "update" /\ job[w].kind = "enrich"
      /\ TypeOK /\ company \in Company /\ EnrichKeepsEdits /\ faults \in 0 .. MaxFaults
      /\ job[w].company \in Company /\ past \in Past /\ requests \in 0 .. MaxRequests
      /\ job[w].alone => job[w].company = company
  BY Holds DEF UpdateCompany, TasksInv, TypeOK, Editing, JobOK, Job
<1>2. UNCHANGED <<task, hook, delivery, enrolment, index, requests>>
  BY DEF UpdateCompany
<1>3. ASSUME NEW pc \in {"return", "score"}, NEW j, j = [job[w] EXCEPT !.pc = pc]
      PROVE  /\ j \in Job /\ j.kind = "enrich" /\ j.task = job[w].task /\ j.pc = pc /\ JobOK(j)
  <2>1. j \in Job /\ j.kind = "enrich" /\ j.task = job[w].task /\ j.pc = pc
    BY <1>1, <1>3 DEF Job
  <2> QED  BY <1>1, <2>1 DEF JobOK, HookPcs, Registered
<1>4. CASE Ignored(TRUE) /\ Goto(w, "return") /\ UNCHANGED <<company, past>>
  <2>1. PICK j : j = [job[w] EXCEPT !.pc = "return"]
    OBVIOUS
  <2>2. /\ j \in Job /\ j.kind = "enrich" /\ j.task = job[w].task /\ j.pc = "return" /\ JobOK(j)
    BY <1>3, <2>1
  <2>3. Others(w) /\ job'[w] = j /\ job' \in [Workers -> Job]
    BY <1>1, <1>4, <2>1, <2>2, StepMoves, JobsTyped DEF Goto
  <2>4. Editing'
    BY <1>1, <1>4, <2>2, <2>3, CompanyStale DEF EnrichKeepsEdits
  <2>5. faults' \in 0 .. MaxFaults
    BY <1>1, <1>4, IgnoredTyped
  <2> QED  BY <1>1, <1>2, <1>4, <2>2, <2>3, <2>4, <2>5, CompanyOnly
<1>5. ASSUME company' = Guessed(job[w].company), UNCHANGED faults,
             past' = [past EXCEPT !.lost = LostBy(w, "company")],
             NEW j, j = [job[w] EXCEPT !.pc = IF job[w].company.scored THEN "return" ELSE "score"],
             Wrote(w, j, IF company' = company THEN {} ELSE CompanyCopies)
      PROVE  TasksInv'
  <2>1. PICK pc \in {"return", "score"} : pc = IF job[w].company.scored THEN "return" ELSE "score"
    OBVIOUS
  <2>2. /\ j \in Job /\ j.kind = "enrich" /\ j.task = job[w].task /\ j.pc \in {"return", "score"}
        /\ JobOK(j)
    BY <1>3, <1>5, <2>1
  <2>3. /\ Others(w) /\ job'[w] = j /\ job' \in [Workers -> Job]
        /\ company' # company =>
             \A v \in Workers : v # w /\ job[v].kind \in CompanyCopies => ~job'[v].alone
    BY <1>1, <1>5, <2>2, WroteMoves, JobsTyped
  <2>4. company' \in Company
    BY <1>1, <1>5 DEF Guessed, Company
  <2>5. /\ past' \in Past /\ past'.lost = LostBy(w, "company")
        /\ past'.streak = past.streak /\ past'.failed = past.failed /\ past'.off = past.off
        /\ past'.rotated = past.rotated /\ past'.saved = past.saved /\ past'.blind = past.blind
        /\ past'.raced = past.raced /\ past'.edited = past.edited
    <3>1. LostBy(w, "company") \in SUBSET {"hook", "enrolment", "company"}
      BY <1>1 DEF LostBy, Past
    <3> QED  BY <1>1, <1>5, <3>1 DEF Past
  <2>6. EnrichKeepsEdits'
    <3>1. ASSUME "company" \notin past'.lost, past'.edited PROVE company'.profile = "user"
      <4>1. job[w].company = company /\ company.profile = "user"
        BY <1>1, <2>5, <3>1 DEF LostBy, EnrichKeepsEdits
      <4> QED  BY <1>5, <4>1 DEF Guessed
    <3> QED  BY <3>1 DEF EnrichKeepsEdits
  <2>7. Editing'
    BY <2>2, <2>3, <2>6, CompanyStale
  <2> QED  BY <1>1, <1>2, <1>5, <2>2, <2>3, <2>4, <2>5, <2>7, CompanyOnly
<1> QED  BY <1>4, <1>5 DEF UpdateCompany

LEMMA ScoreCompanyInv == ASSUME TasksInv, NEW w \in Workers, ScoreCompany(w) PROVE TasksInv'
<1>1. /\ job[w] \in Job /\ JobOK(job[w]) /\ job[w].pc = "score" /\ job[w].kind = "enrich"
      /\ TypeOK /\ company \in Company /\ EnrichKeepsEdits /\ faults \in 0 .. MaxFaults
      /\ past \in Past /\ requests \in 0 .. MaxRequests
  BY Holds DEF ScoreCompany, TasksInv, TypeOK, Editing, JobOK
<1>2. UNCHANGED <<task, hook, delivery, enrolment, index, requests, past>>
  BY DEF ScoreCompany
<1>3. PICK j : j = [job[w] EXCEPT !.pc = "return"]
  OBVIOUS
<1>4. /\ j \in Job /\ j.kind = "enrich" /\ j.task = job[w].task /\ j.pc = "return"
  BY <1>1, <1>3 DEF Job
<1>5. JobOK(j)
  BY <1>1, <1>4 DEF JobOK, HookPcs, Registered
<1>6. CASE Ignored(TRUE) /\ Step(w, j) /\ UNCHANGED company
  <2>1. Others(w) /\ job'[w] = j /\ job' \in [Workers -> Job]
    BY <1>1, <1>4, <1>6, StepMoves, JobsTyped
  <2>2. Editing'
    BY <1>1, <1>2, <1>4, <1>6, <2>1, CompanyStale DEF EnrichKeepsEdits
  <2>3. faults' \in 0 .. MaxFaults
    BY <1>1, <1>6, IgnoredTyped
  <2> QED  BY <1>1, <1>2, <1>4, <1>5, <1>6, <2>1, <2>2, <2>3, CompanyOnly
<1>7. CASE /\ company' = [company EXCEPT !.scored = TRUE] /\ UNCHANGED faults
           /\ Wrote(w, j, IF company.scored THEN {} ELSE CompanyCopies)
  <2>1. /\ company' \in Company /\ company'.profile = company.profile
        /\ company.scored => company' = company
    BY <1>1, <1>7 DEF Company
  <2>2. /\ Others(w) /\ job'[w] = j /\ job' \in [Workers -> Job]
        /\ ~company.scored =>
             \A v \in Workers : v # w /\ job[v].kind \in CompanyCopies => ~job'[v].alone
    BY <1>1, <1>4, <1>7, WroteMoves, JobsTyped
  <2>3. Editing'
    BY <1>1, <1>2, <1>4, <2>1, <2>2, CompanyStale DEF EnrichKeepsEdits
  <2> QED  BY <1>1, <1>2, <1>4, <1>5, <1>7, <2>1, <2>2, <2>3, CompanyOnly
<1> QED  BY <1>3, <1>6, <1>7 DEF ScoreCompany, Goto

LEMMA BeginEditInv ==
  ASSUME TasksInv, NEW w \in Workers, NEW wants \in {"other", "enable"}, BeginEdit(w, wants)
  PROVE  TasksInv'
<1>1. /\ TypeOK /\ company \in Company /\ EnrichKeepsEdits /\ faults \in 0 .. MaxFaults
      /\ past \in Past /\ requests' \in 0 .. MaxRequests
  BY RequestTyped DEF BeginEdit, TasksInv, TypeOK, Editing
<1>2. PICK j : j = [Idle EXCEPT !.kind = "edit", !.pc = "savecompany", !.company = company,
                                !.wants = wants]
  OBVIOUS
<1>3. /\ j \in Job /\ j.kind = "edit" /\ j.task = 0 /\ j.pc = "savecompany"
      /\ j.company = company
  BY <1>1, <1>2, IdleTyped DEF Job, Idle
<1>4. JobOK(j)
  BY <1>3 DEF JobOK, HookPcs, Registered
<1>5. UNCHANGED <<task, hook, delivery, enrolment, index, company, faults, past>> /\ Step(w, j)
  BY <1>2 DEF BeginEdit
<1>6. Others(w) /\ job'[w] = j /\ job' \in [Workers -> Job]
  BY <1>1, <1>3, <1>5, StepMoves, JobsTyped
<1>7. Editing'
  BY <1>1, <1>3, <1>5, <1>6, CompanyStale DEF EnrichKeepsEdits
<1> QED  BY <1>1, <1>3, <1>4, <1>5, <1>6, <1>7, CompanyOnly

LEMMA SaveCompanyInv == ASSUME TasksInv, NEW w \in Workers, SaveCompany(w) PROVE TasksInv'
<1>1. /\ job[w] \in Job /\ JobOK(job[w]) /\ job[w].pc = "savecompany"
      /\ TypeOK /\ company \in Company /\ EnrichKeepsEdits /\ faults \in 0 .. MaxFaults
      /\ job[w].company \in Company /\ past \in Past /\ requests \in 0 .. MaxRequests
      /\ job[w].alone => job[w].company = company
  BY Holds DEF SaveCompany, TasksInv, TypeOK, Editing, JobOK, Job
<1>2. UNCHANGED <<task, hook, delivery, enrolment, index, requests, faults>>
  BY DEF SaveCompany
<1>3. /\ company' = Edited(job[w])
      /\ Wrote(w, Idle, IF company' = company THEN {} ELSE CompanyCopies)
  BY DEF SaveCompany
<1>4. /\ Others(w) /\ job'[w] = Idle /\ job' \in [Workers -> Job]
      /\ company' # company =>
           \A v \in Workers : v # w /\ job[v].kind \in CompanyCopies => ~job'[v].alone
  BY <1>1, <1>3, IdleTyped, WroteMoves, JobsTyped
<1>5. /\ company' \in Company
      /\ company'.profile = IF job[w].wants = "enable" THEN "user" ELSE job[w].company.profile
  BY <1>1, <1>3 DEF Edited, Company
<1>6. /\ past' \in Past /\ past'.lost = LostBy(w, "company")
      /\ past'.streak = past.streak /\ past'.failed = past.failed /\ past'.off = past.off
      /\ past'.rotated = past.rotated /\ past'.saved = past.saved /\ past'.blind = past.blind
      /\ past'.raced = past.raced
      /\ past'.edited <=> past.edited \/ job[w].wants = "enable"
  <2>1. PICK L, b : /\ L = LostBy(w, "company") /\ b \in BOOLEAN
                    /\ b = (past.edited \/ job[w].wants = "enable")
    <3>1. (past.edited \/ job[w].wants = "enable") \in BOOLEAN
      BY Zenon
    <3> QED  BY <3>1
  <2>2. L \in SUBSET {"hook", "enrolment", "company"}
    BY <1>1, <2>1 DEF LostBy, Past
  <2>3. past' = [past EXCEPT !.lost = L, !.edited = b]
    BY <2>1 DEF SaveCompany
  <2> QED  BY <1>1, <2>1, <2>2, <2>3 DEF Past
<1>7. EnrichKeepsEdits'
  <2>1. ASSUME "company" \notin past'.lost, past'.edited PROVE company'.profile = "user"
    <3>1. job[w].alone /\ "company" \notin past.lost
      BY <1>6, <2>1 DEF LostBy
    <3> QED  BY <1>1, <1>5, <1>6, <2>1, <3>1 DEF EnrichKeepsEdits
  <2> QED  BY <2>1 DEF EnrichKeepsEdits
<1>8. Idle.pc = "idle" /\ Idle.kind = "none" /\ Idle.task = 0
  BY DEF Idle
<1>9. Editing'
  BY <1>4, <1>7, <1>8, CompanyStale
<1> QED
  BY <1>1, <1>2, <1>4, <1>5, <1>6, <1>8, <1>9, IdleTyped, CompanyOnly

-----------------------------------------------------------------------------
(* Theorems.                                                               *)

LEMMA InitTasksInv == Init => TasksInv
<1> SUFFICES ASSUME Init PROVE TasksInv
  OBVIOUS
<1>1. \A t \in TaskIds : task[t] = NoTask
  BY DEF Init
<1>2. \A w \in Workers : job[w] = Idle
  BY DEF Init
<1>a. \/ hook = NoHook /\ enrolment = [st |-> "none", step |-> 0]
      \/ hook = NewHook(TRUE) /\ enrolment = [st |-> "active", step |-> 0]
  BY Zenon DEF Init
<1>b. /\ hook.failures = 0 /\ hook.secret = 0 /\ (hook.st = "none" => hook = NoHook)
      /\ enrolment.st \in {"none", "active"} /\ enrolment.step = 0
  <2>1. CASE hook = NoHook /\ enrolment = [st |-> "none", step |-> 0]
    BY <2>1 DEF NoHook
  <2>2. CASE hook = NewHook(TRUE) /\ enrolment = [st |-> "active", step |-> 0]
    BY <2>2 DEF NewHook, NoHook
  <2> QED  BY <1>a, <2>1, <2>2
<1>3. TypeOK
  <2>1. NoTask \in Task /\ NoHook \in Hook /\ NewHook(TRUE) \in Hook /\ NoDelivery \in Delivery
    <3>1. /\ 0 \in 0 .. MaxRetry /\ 0 \in 0 .. MaxRetry + 1 /\ 0 \in 0 .. MaxTasks
          /\ 0 \in 0 .. MaxAttempts
      BY BoundAssumption
    <3>2. NoTask \in Task
      BY <3>1 DEF NoTask, Task
    <3>3. NoHook \in Hook /\ NewHook(TRUE) \in Hook
      BY DEF NoHook, NewHook, Hook
    <3>4. NoDelivery \in Delivery
      BY <3>1 DEF NoDelivery, Delivery
    <3> QED  BY <3>2, <3>3, <3>4
  <2>2. enrolment \in Enrolment /\ company \in Company /\ past \in Past
    <3>1. 0 \in 0 .. Steps
      BY BoundAssumption
    <3>2. enrolment \in Enrolment
      <4>1. \A st \in {"none", "active"} : [st |-> st, step |-> 0] \in Enrolment
        BY <3>1 DEF Enrolment
      <4> QED  BY <1>a, <4>1
    <3>3. company \in Company
      BY DEF Init, Company
    <3>4. past \in Past
      BY DEF Init, Past
    <3> QED  BY <3>2, <3>3, <3>4
  <2>3. hook \in Hook
    BY <2>1 DEF Init
  <2>4. requests \in 0 .. MaxRequests /\ faults \in 0 .. MaxFaults
    BY BoundAssumption DEF Init
  <2> QED  BY <2>1, <2>2, <2>3, <2>4, IdleTyped DEF Init, TypeOK
<1>4. JobsOK /\ Holding
  BY <1>2, IdleTyped DEF JobsOK, Holding, Idle
<1>5. TasksOK
  BY <1>1, BoundAssumption DEF TasksOK, TaskOK, NoTask
<1>6. HooksRead /\ Trying
  BY <1>1, <1>2 DEF HooksRead, Trying, Tries, Idle, NoTask, HookPcs, SendPcs
<1>7. Counting
  <2>1. /\ past.streak = 0 /\ past.failed = 0 /\ past.off = "nobody" /\ past.rotated = 0
    BY DEF Init
  <2>3. \A w \in Workers : job[w].pc \notin HookPcs
    BY <1>2 DEF Idle, HookPcs
  <2>4. FailuresCounted
    BY <1>b, <2>1, BoundAssumption DEF FailuresCounted
  <2> QED  BY <1>b, <2>1, <2>3, <2>4 DEF Counting
<1>8. Advancing
  <2>1. past.saved = 0
    BY DEF Init
  <2>2. \A w \in Workers : job[w].pc # "advance"
    BY <1>2 DEF Idle
  <2> QED  BY <1>b, <2>1, <2>2 DEF Advancing
<1>9. Indexing /\ Editing
  BY <1>2 DEF Indexing, Editing, EnrichKeepsEdits, Init, Idle, Missed
<1> QED  BY <1>3, <1>4, <1>5, <1>6, <1>7, <1>8, <1>9 DEF TasksInv

LEMMA NextTasksInv == TasksInv /\ [Next]_vars => TasksInv'
<1> SUFFICES ASSUME TasksInv, [Next]_vars PROVE TasksInv'
  OBVIOUS
<1>1. ASSUME NEW w \in Workers, Works(w) PROVE TasksInv'
  BY <1>1, HandlerFailsInv, AckInv, ReadHookInv, CreateDeliveryInv, PostInv, SaveDeliveryInv,
     ResetCountInv, CountFailureInv, SaveHookInv, ReadEnrolmentInv, SaveEnrolmentInv,
     FindIndexedInv, WriteIndexedInv, ReadCompanyInv, UpdateCompanyInv, ScoreCompanyInv,
     SaveCompanyInv DEF Works
<1>2. ASSUME NEW w \in Workers, Crash(w) \/ \E t \in TaskIds : Take(w, t) PROVE TasksInv'
  BY <1>2, CrashInv, TakeInv
<1>3. ASSUME NEW t \in TaskIds, NoHandler(t) \/ \E k \in Kinds : Enqueue(t, k) PROVE TasksInv'
  BY <1>3, NoHandlerInv, EnqueueInv
<1>4. ASSUME Requests PROVE TasksInv'
  BY <1>4, CreateHookInv, BeginUpdateInv, DeleteHookInv, EnrollInv, BeginEditInv DEF Requests
<1>5. CASE UNCHANGED vars
  <2>1. TypeOK' /\ JobsOK' /\ Holding' /\ TasksOK'
    BY <1>5, JobsSame DEF vars, TasksInv, TypeOK, SameJob
  <2>2. HookAside /\ EnrolAside /\ IndexAside /\ CompanyAside /\ TryAside
    BY <1>5 DEF vars, HookAside, HookSame, EnrolAside, IndexAside, CompanyAside, TryAside, Stay,
         SameJob
  <2> QED
    BY <2>1, <2>2, HookKept, EnrolKept, IndexKept, CompanyKept, TryKept DEF TasksInv
<1> QED  BY <1>1, <1>2, <1>3, <1>4, <1>5 DEF Next

LEMMA TasksInvariant == Spec => []TasksInv
  BY InitTasksInv, NextTasksInv, PTL DEF Spec

\* Every state of every instance is type correct: no task is retried more often than
\* asynq.MaxRetry, no delivery attempted more often than maxAttempts.
THEOREM TypeCorrect == Spec => []TypeOK
<1>1. TasksInv => TypeOK
  BY DEF TasksInv
<1> QED  BY <1>1, TasksInvariant, PTL

\* However a task ends, its end is accounted for: a delivery task that ended well
\* posted until an answer or the last attempt, and one that was given up is on
\* record, but for the exceptions the property names.
THEOREM EndsAreAccountedFor == Spec => []TasksAccounted
<1>1. TasksInv => TasksAccounted
  BY DEF TasksInv, TasksAccounted, DoneMeansTried, DeadLettersRecorded, Trying, Tried,
     TasksOK, TaskOK
<1> QED  BY <1>1, TasksInvariant, PTL

\* The failures of a webhook are counted, it is switched off at the threshold and no
\* earlier, and the secret is the last one given out, as long as nobody saved an old
\* copy of the row.
THEOREM FailuresAreCounted == Spec => []FailuresCounted
<1>1. TasksInv => FailuresCounted
  BY DEF TasksInv, Counting
<1> QED  BY <1>1, TasksInvariant, PTL

\* An enrolment moves on by one step for each save and is completed after the last,
\* as long as handlers do not overlap and the steps could be read; a task saves once
\* for each time it was delivered.
THEOREM SequencesAdvance == Spec => []SequenceInOrder
<1>1. TasksInv => SequenceInOrder
  BY DEF TasksInv, SequenceInOrder, Advancing, TasksOK, TaskOK
<1> QED  BY <1>1, TasksInvariant, PTL

\* Agents that index and enrich add no second row about one entity and undo no edit,
\* unless two looked at once, one could not look, or an old copy was saved.
THEOREM RecordsAreKept == Spec => []AgentsKeepRecords
<1>1. TasksInv => AgentsKeepRecords
  BY DEF TasksInv, AgentsKeepRecords, OneRowPerEntity, Indexing, Editing
<1> QED  BY <1>1, TasksInvariant, PTL
=============================================================================
