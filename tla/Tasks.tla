--------------------------------- MODULE Tasks ---------------------------------
(***************************************************************************)
(* The background tasks other than syncs and events: deliveries to an      *)
(* outgoing webhook, steps of an outreach sequence, e-mails, the index of  *)
(* the AI memory and the enrichment of a company; the queue that repeats   *)
(* them and keeps the dead letters; and the requests that save the rows    *)
(* they work on.                                                           *)
(*                                                                         *)
(* There is one webhook, one enrolment and one company.  A handler reads   *)
(* its row when it starts and works with that copy; the requests of the    *)
(* API read a row, change it and Save the whole of it, which also brings a *)
(* deleted row back.  Statements whose error a handler ignores may fail.   *)
(***************************************************************************)
EXTENDS Naturals, FiniteSets

CONSTANTS
  Kinds,         \* the kinds of tasks that are enqueued
  Workers,       \* handlers of tasks and requests
  MaxTasks,      \* bounds on the tasks, the deliveries,
  MaxDeliveries,
  MaxRequests,   \* the requests,
  MaxFaults,     \* and the crashes and ignored errors
  MaxRetry,      \* asynq.MaxRetry of a task
  MaxAttempts,   \* maxAttempts of a delivery
  Threshold,     \* maxFailuresBeforeDisable
  Steps          \* the steps of the sequence

AllKinds == {"deliver", "advance", "mail", "index", "enrich"}
ASSUME KindAssumption == Kinds \subseteq AllKinds
ASSUME BoundAssumption ==
  /\ IsFiniteSet(Workers)
  /\ MaxTasks \in Nat /\ MaxDeliveries \in Nat /\ MaxRequests \in Nat
  /\ MaxFaults \in Nat /\ MaxRetry \in Nat /\ Steps \in Nat
  /\ MaxAttempts \in Nat \ {0} /\ Threshold \in Nat \ {0}

TaskIds == 1 .. MaxTasks
DeliveryIds == 1 .. MaxDeliveries
Tables == {"memory", "node"}

VARIABLES
  task,      \* asynq's tasks
  hook,      \* the row of the webhook
  delivery,  \* the rows of its deliveries
  enrolment,
  index,     \* rows about the entity in ai_memories and knowledge_nodes
  company,
  job,       \* what each worker is doing
  requests,  \* those begun so far
  faults,    \* faults so far
  past       \* what has happened (history variable)

vars == <<task, hook, delivery, enrolment, index, company, job, requests, faults, past>>

\* retried: asynq's count.  dead: the dead letter was recorded.  unseen: it was
\* archived without a call of the error handler, or the insert failed.
\* skipped: the handler found nothing to do.  saves: its saves of the enrolment.
\* unsaved: a Save of its delivery failed (history, the last five).
Task == [kind : AllKinds \cup {"none"}, st : {"none", "queued", "active", "done", "archived"},
         retried : 0 .. MaxRetry, dead : BOOLEAN, unseen : BOOLEAN,
         skipped : BOOLEAN, unsaved : BOOLEAN, saves : 0 .. MaxRetry + 1]
NoTask == [kind |-> "none", st |-> "none", retried |-> 0, dead |-> FALSE, unseen |-> FALSE,
           skipped |-> FALSE, unsaved |-> FALSE, saves |-> 0]

\* secret: the rotations it stands for.  valid: a request can be made from its URL.
Hook == [st : {"none", "live", "deleted"}, active : BOOLEAN, failures : Nat,
         secret : Nat, valid : BOOLEAN]
NoHook == [st |-> "none", active |-> FALSE, failures |-> 0, secret |-> 0, valid |-> TRUE]
NewHook(valid) == [NoHook EXCEPT !.st = "live", !.active = TRUE, !.valid = valid]

\* "absent": its insert failed.
Delivery == [st : {"none", "absent", "pending", "delivered", "failed"},
             task : 0 .. MaxTasks, attempts : 0 .. MaxAttempts]
NoDelivery == [st |-> "none", task |-> 0, attempts |-> 0]

Enrolment == [st : {"none", "active", "completed"}, step : 0 .. Steps]
Company == [profile : {"empty", "guess", "user"}, scored : BOOLEAN]

\* hook, enrolment, company: the rows as they were read.  alone: that row has
\* not changed since.  found: a row of the table was found.
Job == [kind : AllKinds \cup {"none", "request", "edit"},
        pc : {"idle", "start", "create", "post", "again", "delivered", "failed", "bad",
              "reset", "count", "advance", "find", "write", "update", "score",
              "savehook", "savecompany", "return", "error"},
        task : 0 .. MaxTasks, delivery : 0 .. MaxDeliveries, attempt : 0 .. MaxAttempts,
        hook : Hook, enrolment : Enrolment, company : Company,
        wants : {"none", "other", "enable", "disable", "rotate"},
        table : Tables, found : BOOLEAN, alone : BOOLEAN]
Idle == [kind |-> "none", pc |-> "idle", task |-> 0, delivery |-> 0, attempt |-> 0,
         hook |-> NoHook, enrolment |-> [st |-> "none", step |-> 0],
         company |-> [profile |-> "empty", scored |-> FALSE], wants |-> "none",
         table |-> "memory", found |-> FALSE, alone |-> TRUE]

\* streak: deliveries that failed since the last that did not.  failed: all that
\* did.  off: who switched the webhook off.  rotated: secrets given out.
\* lost: a hook, an enrolment, a company was saved from an old copy.  saved: the
\* saves of the enrolment.  raced: two handlers found no row.  blind: what a handler
\* took for empty could not be read.  edited: somebody filled in the profile.
Past == [streak : Nat, failed : Nat, off : {"nobody", "request", "worker"}, rotated : Nat,
         lost : SUBSET {"hook", "enrolment", "company"}, saved : Nat, raced : BOOLEAN,
         blind : SUBSET {"steps", "index"}, edited : BOOLEAN]

TypeOK ==
  /\ task \in [TaskIds -> Task]
  /\ hook \in Hook
  /\ delivery \in [DeliveryIds -> Delivery]
  /\ enrolment \in Enrolment
  /\ index \in [Tables -> Nat]
  /\ company \in Company
  /\ job \in [Workers -> Job]
  /\ requests \in 0 .. MaxRequests
  /\ faults \in 0 .. MaxFaults
  /\ past \in Past

Init ==
  /\ task = [t \in TaskIds |-> NoTask]
  /\ \/ hook = NoHook /\ enrolment = [st |-> "none", step |-> 0]
     \/ hook = NewHook(TRUE) /\ enrolment = [st |-> "active", step |-> 0]
  /\ delivery = [d \in DeliveryIds |-> NoDelivery]
  /\ index = [k \in Tables |-> 0]
  /\ company = [profile |-> "empty", scored |-> FALSE]
  /\ job = [w \in Workers |-> Idle]
  /\ requests = 0
  /\ faults = 0
  /\ past = [streak |-> 0, failed |-> 0, off |-> "nobody", rotated |-> 0, lost |-> {},
             saved |-> 0, raced |-> FALSE, blind |-> {}, edited |-> FALSE]

IsNext(T, i) == T[i].st = "none" /\ \A j \in DOMAIN T : j < i => T[j].st # "none"
Request == requests < MaxRequests /\ requests' = requests + 1
\* An ignored error, if e.
Ignored(e) == IF e THEN faults < MaxFaults /\ faults' = faults + 1 ELSE UNCHANGED faults
Step(w, j) == job' = [job EXCEPT ![w] = j]
Goto(w, pc) == Step(w, [job[w] EXCEPT !.pc = pc])
\* w goes on as j; the others who have read this kind of row have an old copy.
Wrote(w, j, kinds) ==
  job' = [v \in Workers |-> IF v = w THEN j
                            ELSE IF job[v].kind \in kinds THEN [job[v] EXCEPT !.alone = FALSE]
                            ELSE job[v]]
LostBy(w, row) == past.lost \cup IF job[w].alone THEN {} ELSE {row}

-----------------------------------------------------------------------------
(* The queue.                                                              *)

\* Client.Enqueue.  A test of the webhook and POST /emails/send call it; for the
\* other kinds there are handlers only.
Enqueue(t, k) ==
  /\ IsNext(task, t)
  /\ k = "deliver" => hook.st = "live"
  /\ task' = [task EXCEPT ![t].kind = k, ![t].st = "queued"]
  /\ UNCHANGED <<hook, delivery, enrolment, index, company, job, requests, faults, past>>

\* RegisterHandlers; bootstrap adds no other handler to the mux.
Registered == {"deliver", "advance", "index", "enrich"}
\* Mutant: the error handler counts one attempt too many.
IsLastAttempt_After(t) == task[t].retried > MaxRetry
\* isLastAttempt.
IsLastAttempt(t) == task[t].retried >= MaxRetry

\* Mutant: asynq retries without a limit.
Failed_Forever(t, e) ==
  [task EXCEPT ![t].st = "queued", ![t].retried = @ + 1]
\* A handler returned an error: the dead letter is recorded, then asynq retries
\* the task or archives it.
Failed(t, e) ==
  [task EXCEPT ![t].st = IF task[t].retried < MaxRetry THEN "queued" ELSE "archived",
               ![t].retried = IF @ < MaxRetry THEN @ + 1 ELSE @,
               ![t].dead = IsLastAttempt(t) /\ ~e,
               ![t].unseen = IsLastAttempt(t) /\ e]
HandlerFails(w) ==
  /\ job[w].pc = "error"
  /\ \E e \in BOOLEAN : /\ e => IsLastAttempt(job[w].task)
                        /\ Ignored(e)
                        /\ task' = Failed(job[w].task, e)
  /\ Step(w, Idle)
  /\ UNCHANGED <<hook, delivery, enrolment, index, company, requests, past>>

\* The mux has no handler of this kind: that is an error, too.
NoHandler(t) ==
  /\ task[t].st = "queued" /\ task[t].kind \notin Registered
  /\ \E e \in BOOLEAN : /\ e => IsLastAttempt(t)
                        /\ Ignored(e)
                        /\ task' = Failed(t, e)
  /\ UNCHANGED <<hook, delivery, enrolment, index, company, job, requests, past>>

Take(w, t) ==
  /\ job[w].pc = "idle" /\ task[t].st = "queued" /\ task[t].kind \in Registered
  /\ task' = [task EXCEPT ![t].st = "active"]
  /\ Step(w, [Idle EXCEPT !.kind = task[t].kind, !.pc = "start", !.task = t])
  /\ UNCHANGED <<hook, delivery, enrolment, index, company, requests, faults, past>>

\* The handler returned nil.
Ack(w) ==
  /\ job[w].pc = "return"
  /\ task' = [task EXCEPT ![job[w].task].st = "done"]
  /\ Step(w, Idle)
  /\ UNCHANGED <<hook, delivery, enrolment, index, company, requests, faults, past>>

\* The process dies.  When the lease of its task has expired, asynq retries the
\* task or archives it, and calls no error handler.
Crash(w) ==
  LET t == job[w].task IN
  /\ job[w].pc # "idle" /\ Ignored(TRUE)
  /\ Step(w, Idle)
  /\ \/ t = 0 /\ UNCHANGED task
     \/ /\ t # 0
        /\ task' = [task EXCEPT ![t].st = IF @ = "active" /\ task[t].retried < MaxRetry
                                          THEN "queued" ELSE "archived",
                                ![t].retried = IF @ < MaxRetry THEN @ + 1 ELSE @,
                                ![t].unseen = task[t].retried >= MaxRetry]
  /\ UNCHANGED <<hook, delivery, enrolment, index, company, requests, past>>

Starts(w, k) == job[w].kind = k /\ job[w].pc = "start"
\* There is nothing to do, or the row could not be read: the handler returns nil.
Skip(w) ==
  /\ task' = [task EXCEPT ![job[w].task].skipped = TRUE]
  /\ Goto(w, "return")

-----------------------------------------------------------------------------
(* HandleWebhookDeliver.                                                   *)

HookCopies == {"deliver", "request"}

ReadHook(w) ==
  /\ Starts(w, "deliver")
  /\ \/ hook.st = "live" /\ hook.active /\ UNCHANGED task
        /\ Step(w, [job[w] EXCEPT !.pc = "create", !.hook = hook, !.alone = TRUE])
        /\ UNCHANGED faults
     \/ ~(hook.st = "live" /\ hook.active) /\ Skip(w) /\ UNCHANGED faults
     \/ Ignored(TRUE) /\ Skip(w)
  /\ UNCHANGED <<hook, delivery, enrolment, index, company, requests, past>>

CreateDelivery(w) ==
  /\ job[w].pc = "create"
  /\ \E d \in DeliveryIds, e \in BOOLEAN :
       /\ IsNext(delivery, d) /\ Ignored(e)
       /\ delivery' = [delivery EXCEPT ![d] = [st |-> IF e THEN "absent" ELSE "pending",
                                               task |-> job[w].task, attempts |-> 0]]
       /\ Step(w, [job[w] EXCEPT !.pc = IF job[w].hook.valid THEN "post" ELSE "bad",
                                 !.delivery = d, !.attempt = 1])
  /\ UNCHANGED <<task, hook, enrolment, index, company, requests, past>>

\* Mutant: the last attempt is followed by one more sleep.
Refused_Sleeps(n) == IF n <= MaxAttempts THEN "again" ELSE "failed"
Refused(n) == IF n < MaxAttempts THEN "again" ELSE "failed"
\* client.Do, signed with the secret as it was read: 2xx, or not.
Post(w) ==
  /\ job[w].pc = "post"
  /\ \/ Goto(w, "delivered")
     \/ Goto(w, Refused(job[w].attempt))
  /\ UNCHANGED <<task, hook, delivery, enrolment, index, company, requests, faults, past>>

\* Save(delivery), an upsert, and what follows it.  After the last attempt the
\* loop ends.
Outcome == [again |-> "pending", delivered |-> "delivered", failed |-> "failed", bad |-> "failed"]
SaveDelivery(w) ==
  LET j == job[w] IN
  /\ j.pc \in {"again", "delivered", "failed", "bad"}
  /\ \E e \in BOOLEAN :
       /\ Ignored(e)
       /\ IF e THEN UNCHANGED delivery /\ task' = [task EXCEPT ![j.task].unsaved = TRUE]
               ELSE /\ delivery' = [delivery EXCEPT ![j.delivery].st = Outcome[j.pc],
                                                    ![j.delivery].attempts = j.attempt]
                    /\ UNCHANGED task
  /\ Step(w, CASE j.pc = "again" /\ j.attempt < MaxAttempts ->
                    [j EXCEPT !.pc = "post", !.attempt = @ + 1]
               [] j.pc = "delivered" -> [j EXCEPT !.pc = "reset"]
               [] j.pc = "failed" -> [j EXCEPT !.pc = "count"]
               [] OTHER -> [j EXCEPT !.pc = "return"])
  /\ UNCHANGED <<hook, enrolment, index, company, requests, past>>

\* The UPDATEs of one webhook reach a row that is not deleted.
ResetCount(w) ==
  LET done == [job[w] EXCEPT !.pc = "return"] IN
  /\ job[w].pc = "reset"
  /\ \/ /\ hook.st = "live"
        /\ hook' = [hook EXCEPT !.failures = 0]
        /\ Wrote(w, done, IF hook.failures = 0 THEN {} ELSE HookCopies)
        /\ past' = [past EXCEPT !.streak = 0]
        /\ UNCHANGED faults
     \/ hook.st # "live" /\ Step(w, done) /\ UNCHANGED <<hook, past, faults>>
     \/ Ignored(TRUE) /\ Step(w, done)
        /\ past' = [past EXCEPT !.lost = @ \cup {"hook"}] /\ UNCHANGED hook
  /\ UNCHANGED <<task, delivery, enrolment, index, company, requests>>

\* incrementFailureCount, on the copy.
\* Mutant: the count is compared before it is incremented.
Counted_Late(j) ==
  [hook EXCEPT !.failures = j.hook.failures + 1,
               !.active = @ /\ j.hook.failures < Threshold]
\* Mutant: every attempt counts.
Counted_Attempts(j) ==
  [hook EXCEPT !.failures = j.hook.failures + j.attempt,
               !.active = @ /\ j.hook.failures + j.attempt < Threshold]
Counted(j) ==
  [hook EXCEPT !.failures = j.hook.failures + 1,
               !.active = @ /\ j.hook.failures + 1 < Threshold]
CountFailure(w) ==
  LET done == [job[w] EXCEPT !.pc = "return"] IN
  /\ job[w].pc = "count"
  /\ \/ /\ hook.st = "live"
        /\ hook' = Counted(job[w])
        /\ Wrote(w, done, HookCopies)
        /\ past' = [past EXCEPT !.streak = @ + 1, !.failed = @ + 1,
                                !.off = IF hook.active /\ ~hook'.active THEN "worker" ELSE @,
                                !.lost = LostBy(w, "hook")]
        /\ UNCHANGED faults
     \/ /\ hook.st # "live" \/ faults < MaxFaults
        /\ Ignored(hook.st = "live")
        /\ Step(w, done)
        /\ past' = [past EXCEPT !.failed = @ + 1]
        /\ UNCHANGED hook
  /\ UNCHANGED <<task, delivery, enrolment, index, company, requests>>

-----------------------------------------------------------------------------
(* WebhookHandler.                                                         *)

CreateHook(valid) ==
  /\ hook.st = "none" /\ Request
  /\ hook' = NewHook(valid)
  /\ UNCHANGED <<task, delivery, enrolment, index, company, job, faults, past>>

\* Update and RotateSecret: GetByID,
BeginUpdate(w, wants) ==
  /\ job[w].pc = "idle" /\ hook.st = "live" /\ Request
  /\ Step(w, [Idle EXCEPT !.kind = "request", !.pc = "savehook", !.wants = wants,
                          !.hook = hook])
  /\ UNCHANGED <<task, hook, delivery, enrolment, index, company, faults, past>>

\* and Save.
\* Mutant: switching the webhook on keeps the count.
Updated_Keep(j) ==
  [j.hook EXCEPT !.active = IF j.wants \in {"enable", "disable"} THEN j.wants = "enable" ELSE @,
                 !.secret = IF j.wants = "rotate" THEN past.rotated + 1 ELSE @]
Updated(j) ==
  [j.hook EXCEPT !.active = IF j.wants \in {"enable", "disable"} THEN j.wants = "enable" ELSE @,
                 !.failures = IF j.wants = "enable" THEN 0 ELSE @,
                 !.secret = IF j.wants = "rotate" THEN past.rotated + 1 ELSE @]
SaveHook(w) ==
  /\ job[w].pc = "savehook"
  /\ hook' = Updated(job[w])
  /\ Wrote(w, Idle, HookCopies)
  /\ past' = [past EXCEPT
       !.streak = IF job[w].wants = "enable" THEN 0 ELSE @,
       !.off = CASE job[w].wants = "enable" -> "nobody"
                 [] job[w].wants = "disable" -> "request"
                 [] OTHER -> @,
       !.rotated = IF job[w].wants = "rotate" THEN @ + 1 ELSE @,
       !.lost = LostBy(w, "hook")]
  /\ UNCHANGED <<task, delivery, enrolment, index, company, requests, faults>>

DeleteHook ==
  /\ hook.st = "live" /\ Request
  /\ hook' = [hook EXCEPT !.st = "deleted"]
  /\ job' = [v \in Workers |-> IF job[v].kind \in HookCopies
                               THEN [job[v] EXCEPT !.alone = FALSE] ELSE job[v]]
  /\ UNCHANGED <<task, delivery, enrolment, index, company, faults, past>>

-----------------------------------------------------------------------------
(* HandleSequenceAdvance.                                                  *)

Enroll ==
  /\ enrolment.st = "none" /\ Request
  /\ enrolment' = [st |-> "active", step |-> 0]
  /\ UNCHANGED <<task, hook, delivery, index, company, job, faults, past>>

ReadEnrolment(w) ==
  /\ Starts(w, "advance")
  /\ \/ /\ Goto(w, "error") /\ Ignored(enrolment.st # "none") /\ UNCHANGED task
     \/ enrolment.st = "completed" /\ Skip(w) /\ UNCHANGED faults
     \/ /\ enrolment.st = "active" /\ UNCHANGED <<task, faults>>
        /\ Step(w, [job[w] EXCEPT !.pc = "advance", !.enrolment = enrolment, !.alone = TRUE])
  /\ UNCHANGED <<hook, delivery, enrolment, index, company, requests, past>>

\* Mutant: the last step completes the enrolment.
Advanced_Early(e, steps) ==
  IF e.step + 1 >= steps THEN [e EXCEPT !.st = "completed"] ELSE [e EXCEPT !.step = @ + 1]
Advanced(e, steps) ==
  IF e.step + 1 > steps THEN [e EXCEPT !.st = "completed"] ELSE [e EXCEPT !.step = @ + 1]
\* Steps that cannot be read are taken for none, which completes the enrolment.
SaveEnrolment(w) ==
  LET done == [job[w] EXCEPT !.pc = "return"] IN
  /\ job[w].pc = "advance"
  /\ \/ /\ \E e \in BOOLEAN :
             /\ Ignored(e)
             /\ enrolment' = Advanced(job[w].enrolment, IF e THEN 0 ELSE Steps)
             /\ past' = [past EXCEPT !.lost = LostBy(w, "enrolment"), !.saved = @ + 1,
                                     !.blind = @ \cup IF e THEN {"steps"} ELSE {}]
        /\ task' = [task EXCEPT ![job[w].task].saves = @ + 1]
        /\ Wrote(w, done, {"advance"})
     \/ Ignored(TRUE) /\ Step(w, done) /\ UNCHANGED <<enrolment, task, past>>
  /\ UNCHANGED <<hook, delivery, index, company, requests>>

-----------------------------------------------------------------------------
(* HandleMemoryIndex: the memory, then the node, of an entity that exists.  *)
(* A look-up that fails is taken for "not found".                          *)

\* Mutant: a row that is there is not looked for.
IsThere_Never(k) == FALSE
IsThere(k) == index[k] > 0
FindIndexed(w) ==
  LET j == job[w] IN
  /\ Starts(w, "index") \/ j.pc = "find"
  /\ \E e \in BOOLEAN :
       /\ Ignored(e)
       /\ Step(w, [j EXCEPT !.pc = "write", !.found = IsThere(j.table) /\ ~e])
       /\ past' = [past EXCEPT
            !.raced = @ \/ \E v \in Workers : job[v].pc = "write" /\ ~job[v].found
                                             /\ job[v].table = j.table,
            !.blind = @ \cup IF e THEN {"index"} ELSE {}]
  /\ UNCHANGED <<task, hook, delivery, enrolment, index, company, requests>>

WriteIndexed(w) ==
  LET j == job[w] IN
  /\ j.pc = "write"
  /\ \E e \in BOOLEAN :
       /\ Ignored(e)
       /\ index' = [index EXCEPT ![j.table] = IF j.found \/ e THEN @ ELSE @ + 1]
  /\ Step(w, IF j.table = "memory" THEN [j EXCEPT !.pc = "find", !.table = "node"]
                                   ELSE [j EXCEPT !.pc = "return"])
  /\ UNCHANGED <<task, hook, delivery, enrolment, company, requests, past>>

-----------------------------------------------------------------------------
(* HandleCompanyEnrich, and CompanyHandler.Update.                         *)

CompanyCopies == {"enrich", "edit"}

ReadCompany(w) ==
  /\ Starts(w, "enrich")
  /\ \/ /\ Step(w, [job[w] EXCEPT !.pc = "update", !.company = company, !.alone = TRUE])
        /\ UNCHANGED <<task, faults>>
     \/ Ignored(TRUE) /\ Skip(w)
  /\ UNCHANGED <<hook, delivery, enrolment, index, company, requests, past>>

\* What was empty when it was read is guessed from the domain.
\* Mutant: whatever there is.
Guessed_Always(c) == [company EXCEPT !.profile = "guess"]
Guessed(c) == IF c.profile = "empty" THEN [company EXCEPT !.profile = "guess"] ELSE company
UpdateCompany(w) ==
  LET j == job[w]
      next == [j EXCEPT !.pc = IF j.company.scored THEN "return" ELSE "score"] IN
  /\ j.pc = "update"
  /\ \/ /\ company' = Guessed(j.company)
        /\ Wrote(w, next, IF company' = company THEN {} ELSE CompanyCopies)
        /\ past' = [past EXCEPT !.lost = LostBy(w, "company")]
        /\ UNCHANGED faults
     \/ Ignored(TRUE) /\ Goto(w, "return") /\ UNCHANGED <<company, past>>
  /\ UNCHANGED <<task, hook, delivery, enrolment, index, requests>>

ScoreCompany(w) ==
  /\ job[w].pc = "score"
  /\ \/ /\ company' = [company EXCEPT !.scored = TRUE]
        /\ Wrote(w, [job[w] EXCEPT !.pc = "return"], IF company.scored THEN {} ELSE CompanyCopies)
        /\ UNCHANGED faults
     \/ Ignored(TRUE) /\ Goto(w, "return") /\ UNCHANGED company
  /\ UNCHANGED <<task, hook, delivery, enrolment, index, requests, past>>

\* The row is read; somebody fills in the profile, or changes another field.
BeginEdit(w, wants) ==
  /\ job[w].pc = "idle" /\ Request
  /\ Step(w, [Idle EXCEPT !.kind = "edit", !.pc = "savecompany", !.company = company,
                          !.wants = wants])
  /\ UNCHANGED <<task, hook, delivery, enrolment, index, company, faults, past>>

Edited(j) == IF j.wants = "enable" THEN [j.company EXCEPT !.profile = "user"] ELSE j.company
SaveCompany(w) ==
  /\ job[w].pc = "savecompany"
  /\ company' = Edited(job[w])
  /\ Wrote(w, Idle, IF company' = company THEN {} ELSE CompanyCopies)
  /\ past' = [past EXCEPT !.lost = LostBy(w, "company"),
                          !.edited = @ \/ job[w].wants = "enable"]
  /\ UNCHANGED <<task, hook, delivery, enrolment, index, requests, faults>>

-----------------------------------------------------------------------------
Works(w) ==
  \/ HandlerFails(w) \/ Ack(w)
  \/ ReadHook(w) \/ CreateDelivery(w) \/ Post(w) \/ SaveDelivery(w) \/ ResetCount(w)
  \/ CountFailure(w) \/ SaveHook(w)
  \/ ReadEnrolment(w) \/ SaveEnrolment(w)
  \/ FindIndexed(w) \/ WriteIndexed(w)
  \/ ReadCompany(w) \/ UpdateCompany(w) \/ ScoreCompany(w) \/ SaveCompany(w)
Requests ==
  \/ \E valid \in BOOLEAN : CreateHook(valid)
  \/ \E w \in Workers, wants \in {"other", "enable", "disable", "rotate"} : BeginUpdate(w, wants)
  \/ DeleteHook \/ Enroll
  \/ \E w \in Workers, wants \in {"other", "enable"} : BeginEdit(w, wants)
Next ==
  \/ \E w \in Workers : Works(w) \/ Crash(w) \/ \E t \in TaskIds : Take(w, t)
  \/ \E t \in TaskIds : NoHandler(t) \/ \E k \in Kinds : Enqueue(t, k)
  \/ Requests

Spec == Init /\ [][Next]_vars

-----------------------------------------------------------------------------
(* Properties.                                                             *)

\* A delivery task that ended well posted until an answer or the last attempt,
\* and left a row that says so, unless the Save of that row failed; or it found no
\* active webhook.
DoneMeansTried ==
  \A t \in TaskIds : task[t].kind = "deliver" /\ task[t].st = "done" =>
    \/ task[t].skipped \/ task[t].unsaved
    \/ \E d \in DeliveryIds :
         /\ delivery[d].task = t
         /\ \/ delivery[d].st = "delivered"
            \/ delivery[d].st = "failed" /\ (delivery[d].attempts = MaxAttempts \/ ~hook.valid)

\* A task that was given up is on record, unless its process died on the last
\* attempt or the record could not be inserted.
DeadLettersRecorded ==
  \A t \in TaskIds : task[t].st = "archived" => task[t].dead \/ task[t].unseen

\* However a task ends, its end is accounted for.
TasksAccounted == DoneMeansTried /\ DeadLettersRecorded

\* As long as nobody saved an old copy, the counter is the number of deliveries
\* that failed in a row since the last success or the last time the webhook was
\* switched on, at the threshold the webhook is off, and once off it stays off
\* whatever the deliveries under way come to; and the secret is the last one that
\* was given out.  Lost updates, too, never make the webhook fail more often than
\* it did: the worker switches it off after Threshold failures at the earliest.
FailuresCounted ==
  /\ "hook" \notin past.lost =>
       /\ hook.failures = past.streak
       /\ hook.active => hook.failures < Threshold
       /\ past.off = "worker" => ~hook.active
       /\ hook.secret = past.rotated
  /\ hook.failures <= past.failed
  /\ past.off = "worker" => past.failed >= Threshold

\* An enrolment is completed after its last step, and if no two handlers
\* overlapped, each save of a handler moved it on by one step, as long as the
\* steps could be read; a task saves twice only if it was delivered twice.
SequenceInOrder ==
  /\ \A t \in TaskIds : task[t].saves <= task[t].retried + 1
  /\ enrolment.st = "completed" /\ "steps" \notin past.blind => enrolment.step = Steps
  /\ "enrolment" \notin past.lost =>
       past.saved = enrolment.step + IF enrolment.st = "completed" THEN 1 ELSE 0

\* There are two rows about one entity only if two handlers looked for it
\* before either had created one, or one could not look.
OneRowPerEntity == ~past.raced /\ "index" \notin past.blind => \A k \in Tables : index[k] <= 1

\* A profile somebody filled in stays, unless somebody who had read the company
\* before saved it after.
EnrichKeepsEdits ==
  "company" \notin past.lost /\ past.edited => company.profile = "user"

\* What agents write while people and other agents do adds no second row about one
\* entity and undoes no edit.
AgentsKeepRecords == OneRowPerEntity /\ EnrichKeepsEdits
=============================================================================
