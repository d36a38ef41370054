----------------------------- MODULE RecordSync -----------------------------
(***************************************************************************)
(* The record-level sync of package syncengine: one internal record (a     *)
(* company, contact or sponsor) of one organization, with one active       *)
(* mapping to a Notion data source.                                        *)
(*                                                                         *)
(* A local write publishes an event, PushService handles it; an edit of a  *)
(* page makes Notion call the webhook, PullService handles it.  Both run   *)
(* as asynq tasks on concurrent handlers and keep a ledger, synced_entities*)
(* that says what either side last saw of the other.  Every database       *)
(* statement and every Notion call is a step.                              *)
(*                                                                         *)
(* Content is abstract: every edit by a person writes a value never used   *)
(* before; Empty stands for a cleared property.                            *)
(*                                                                         *)
(* Time is logical.  The record's UpdatedAt is the number of its writes,   *)
(* and "now" is that number when the code reads the clock: only the order  *)
(* of a write and a later LastSyncedAt matters.  last_edited_time is the   *)
(* number of writes of the page.                                           *)
(***************************************************************************)
EXTENDS Naturals, FiniteSets

CONSTANTS
  Workers,      \* concurrent asynq handlers
  TaskIds,      \* event:dispatch tasks that can be queued at one time
  RowIds,       \* ids synced_entities rows may get
  PageIds,      \* pages Notion may create (all three are sets of naturals)
  NoTask, NoRow, NoPage,
  MaxEdits,     \* bound on edits by people, on either side
  MaxRetry,     \* asynq attempts after the first one
  MaxFaults,    \* bound on failing calls, crashed handlers and overlaps
  UserOps,      \* which operations people use
  Faults        \* which faults occur

ASSUME BoundsAssumption ==
  /\ MaxEdits \in Nat /\ MaxRetry \in Nat /\ MaxFaults \in Nat
  /\ TaskIds \subseteq Nat /\ RowIds \subseteq Nat /\ PageIds \subseteq Nat
  /\ UserOps \subseteq {"edit", "remote", "clear", "delete", "disconnect"}
  /\ Faults \subseteq {"provider", "crash", "publish", "ledger"}

ASSUME NullAssumption ==
  NoTask \notin TaskIds /\ NoRow \notin RowIds /\ NoPage \notin PageIds

VARIABLES
  rec,      \* the internal record: st, val, upd (UpdatedAt)
  active,   \* whether the integration's status is "active"
  pages,    \* the Notion pages created for the record
  ledger,   \* synced_entities
  tasks,    \* the asynq queue
  wk,       \* what each handler is doing
  edits,    \* edits so far: the next value
  faults,   \* faults, and overlapping handlers, so far
  lost,     \* an event was dropped for good (history variable)
  stray     \* what happened that the code has no answer to (history variable)

vars == <<rec, active, pages, ledger, tasks, wk, edits, faults, lost, stray>>

Empty == 0
Values == 0 .. MaxEdits

Record == [st : {"none", "alive", "deleted"}, val : Values, upd : Nat]

\* unnoticed: edited, and the webhook has not been called for it yet.
Page == [st : {"none", "live", "archived"}, val : Values, edited : Nat,
         unnoticed : BOOLEAN]
FreePage == [st |-> "none", val |-> Empty, edited |-> 0, unnoticed |-> FALSE]

\* remote = 0 is a LastModifiedRemote of nil; conflict is ConflictState # "".
Row == [ext : PageIds \cup {NoPage}, st : {"none", "synced", "conflict", "error"},
        conflict : BOOLEAN, remote : Nat, synced : Nat]
FreeRow == [ext |-> NoPage, st |-> "none", conflict |-> FALSE,
            remote |-> 0, synced |-> 0]

Task == [st : {"free", "pending", "active"}, op : {"push", "delete", "pull"},
         page : PageIds \cup {NoPage}, left : 0 .. MaxRetry]
FreeTask == [st |-> "free", op |-> "push", page |-> NoPage, left |-> 0]

Steps == {"idle", "begin", "load", "get", "write", "save", "archive",
          "savedel", "conflict", "fail", "find", "fetch", "check", "apply",
          "put", "psave"}

\* isDelete: pushOne's argument; row and copy: the ledger row a handler read,
\* and its copy of it; val and seen: the content, and the page's
\* last_edited_time, it works with.
Slot == [pc : Steps, task : TaskIds \cup {NoTask}, isDelete : BOOLEAN,
         row : RowIds \cup {NoRow}, copy : Row, val : Values, seen : Nat]
IdleSlot == [pc |-> "idle", task |-> NoTask, isDelete |-> FALSE, row |-> NoRow,
             copy |-> FreeRow, val |-> Empty, seen |-> 0]

TypeOK ==
  /\ rec \in Record
  /\ active \in BOOLEAN
  /\ pages \in [PageIds -> Page]
  /\ ledger \in [RowIds -> Row]
  /\ tasks \in [TaskIds -> Task]
  /\ wk \in [Workers -> Slot]
  /\ edits \in 0 .. MaxEdits
  /\ faults \in 0 .. MaxFaults
  /\ lost \in BOOLEAN
  /\ stray \subseteq {"together", "twins", "orphan"}

Rows == {r \in RowIds : ledger[r].st # "none"}
First(S) == CHOOSE r \in S : \A q \in S : r <= q
TaskOf(w) == tasks[wk[w].task]

Init ==
  /\ rec = [st |-> "none", val |-> Empty, upd |-> 0]
  /\ active = TRUE
  /\ pages = [p \in PageIds |-> FreePage]
  /\ ledger = [r \in RowIds |-> FreeRow]
  /\ tasks = [t \in TaskIds |-> FreeTask]
  /\ wk = [w \in Workers |-> IdleSlot]
  /\ edits = 0 /\ faults = 0 /\ lost = FALSE /\ stray = {}

(***************************************************************************)
(* The queue                                                               *)
(***************************************************************************)

\* Bound: people edit, and Notion calls, only while a TaskId is free.  The
\* ids of tasks, like those of pages, are given out in order.
Enqueue(op, page) ==
  \E t \in TaskIds :
    /\ tasks[t].st = "free" /\ \A u \in TaskIds : tasks[u].st = "free" => t <= u
    /\ tasks' = [tasks EXCEPT ![t] = [st |-> "pending", op |-> op, page |-> page,
                                      left |-> MaxRetry]]
    /\ UNCHANGED <<lost, faults>>

\* publish is best-effort: the event of a committed write may be dropped.
PublishFails ==
  /\ "publish" \in Faults /\ faults < MaxFaults
  /\ faults' = faults + 1 /\ lost' = TRUE
  /\ UNCHANGED tasks

Publish(op, page) == Enqueue(op, page) \/ PublishFails

\* Bound: a task is taken up beside one in service as often as faults occur.
Dequeue(w, t) ==
  /\ wk[w].pc = "idle" /\ tasks[t].st = "pending"
  /\ IF \A v \in Workers : wk[v].pc = "idle" THEN UNCHANGED faults
     ELSE faults < MaxFaults /\ faults' = faults + 1
  /\ tasks' = [tasks EXCEPT ![t].st = "active"]
  /\ wk' = [wk EXCEPT ![w] = [IdleSlot EXCEPT
              !.pc = IF tasks[t].op = "pull" THEN "find" ELSE "begin",
              !.isDelete = (tasks[t].op = "delete"), !.task = t]]
  /\ UNCHANGED <<rec, active, pages, ledger, edits, lost>>

\* The handler returned nil: the task is gone.
Done(w) ==
  /\ tasks' = [tasks EXCEPT ![wk[w].task] = FreeTask]
  /\ wk' = [wk EXCEPT ![w] = IdleSlot]

\* Mutant: one attempt too many.
Attempt_OffByOne(task) == [task EXCEPT !.st = "pending", !.left = task.left - 1]

\* A failed attempt is followed by another one, or is the last.
Attempt(task) == IF task.left > 0
                 THEN [task EXCEPT !.st = "pending", !.left = task.left - 1]
                 ELSE FreeTask

\* The handler returned an error or died.
Retry(w) ==
  /\ tasks' = [tasks EXCEPT ![wk[w].task] = Attempt(TaskOf(w))]
  /\ wk' = [wk EXCEPT ![w] = IdleSlot]
  /\ lost' = (lost \/ TaskOf(w).left = 0)

Goto(w, pc) == wk' = [wk EXCEPT ![w].pc = pc] /\ UNCHANGED tasks

\* A Notion call that fails (rate limit, 5xx, network).
CallFails == "provider" \in Faults /\ faults < MaxFaults /\ faults' = faults + 1

(***************************************************************************)
(* PushService.pushOne                                                     *)
(***************************************************************************)

\* Mutant: events wait in the queue until the integration is active.
Begin_WaitsForActive(w) ==
  /\ wk[w].pc = "begin"
  /\ IF ~active
     THEN /\ tasks' = [tasks EXCEPT ![wk[w].task].st = "pending"]
          /\ wk' = [wk EXCEPT ![w] = IdleSlot]
     ELSE /\ wk' = [wk EXCEPT
               ![w].row  = IF Rows = {} THEN NoRow ELSE First(Rows),
               ![w].copy = IF Rows = {} THEN FreeRow ELSE ledger[First(Rows)],
               ![w].pc   = "load"]
          /\ UNCHANGED tasks
  /\ UNCHANGED <<rec, active, pages, ledger, edits, faults, lost>>

\* Mutant: a row in error is not found.
Begin_SkipsErrors(w) ==
  /\ wk[w].pc = "begin"
  /\ LET found == {r \in Rows : ledger[r].st # "error"} IN
     IF ~active
     THEN Done(w) /\ lost' = TRUE
     ELSE /\ wk' = [wk EXCEPT
               ![w].row  = IF found = {} THEN NoRow ELSE First(found),
               ![w].copy = IF found = {} THEN FreeRow ELSE ledger[First(found)],
               ![w].pc   = "load"]
          /\ UNCHANGED <<tasks, lost>>
  /\ UNCHANGED <<rec, active, pages, ledger, edits, faults>>

\* The integration's status, then FindByInternal (the first row by id).
Begin(w) ==
  /\ wk[w].pc = "begin"
  /\ IF ~active
     THEN Done(w) /\ lost' = TRUE
     ELSE /\ wk' = [wk EXCEPT
               ![w].row  = IF Rows = {} THEN NoRow ELSE First(Rows),
               ![w].copy = IF Rows = {} THEN FreeRow ELSE ledger[First(Rows)],
               ![w].pc   = "load"]
          /\ UNCHANGED <<tasks, lost>>
  /\ UNCHANGED <<rec, active, pages, ledger, edits, faults>>

\* Mutant: a record that is gone is pushed with empty fields.
Load_PushesDeleted(w) ==
  /\ wk[w].pc = "load"
  /\ IF ~wk[w].isDelete
     THEN /\ wk' = [wk EXCEPT ![w].val = rec.val,
               ![w].pc = IF wk[w].copy.remote # 0 THEN "get" ELSE "write"]
          /\ UNCHANGED tasks
     ELSE IF wk[w].row = NoRow THEN Done(w) ELSE Goto(w, "archive")
  /\ UNCHANGED <<rec, active, pages, ledger, edits, faults, lost>>

\* A delete archives the page if there is one.  Otherwise the loader reads
\* the record as it is now; one that is gone is handled as a delete from the
\* start.  The page's version is checked once a pull has set
\* LastModifiedRemote.
Load(w) ==
  /\ wk[w].pc = "load"
  /\ IF wk[w].isDelete
     THEN IF wk[w].row = NoRow THEN Done(w) ELSE Goto(w, "archive")
     ELSE /\ wk' = IF rec.st = "alive"
                   THEN [wk EXCEPT ![w].val = rec.val,
                          ![w].pc = IF wk[w].copy.remote # 0 THEN "get" ELSE "write"]
                   ELSE [wk EXCEPT ![w].isDelete = TRUE, ![w].pc = "begin"]
          /\ UNCHANGED tasks
  /\ UNCHANGED <<rec, active, pages, ledger, edits, faults, lost>>

\* UpdatePageProperties, the GET: a page edited after our last read of it is
\* a conflict.
GetVersion(w) ==
  /\ wk[w].pc = "get"
  /\ \/ /\ Goto(w, IF pages[wk[w].copy.ext].edited > wk[w].copy.remote
                   THEN "conflict" ELSE "write")
        /\ UNCHANGED faults
     \/ CallFails /\ Goto(w, "fail")
  /\ UNCHANGED <<rec, active, pages, ledger, edits, lost>>

\* Notion reports our own writes of a page to the webhook, or does not.
Written(p, val) ==
  \E noticed \in BOOLEAN :
    pages' = [pages EXCEPT ![p].st = IF @ = "none" THEN "live" ELSE @,
                           ![p].val = val, ![p].edited = @ + 1,
                           ![p].unnoticed = @ \/ noticed]

\* CreatePage, or the PATCH of UpdatePageProperties.  Notion refuses to edit
\* an archived page.
Write(w) ==
  /\ wk[w].pc = "write"
  /\ \/ /\ \E p \in PageIds :
             /\ IF wk[w].row = NoRow
                THEN /\ pages[p].st = "none"
                     /\ \A q \in PageIds : pages[q].st = "none" => p <= q
                ELSE p = wk[w].copy.ext /\ pages[p].st = "live"
             /\ Written(p, wk[w].val)
             /\ wk' = [wk EXCEPT ![w].copy.ext = p, ![w].pc = "save"]
        /\ UNCHANGED <<tasks, faults>>
     \/ /\ IF wk[w].row # NoRow /\ pages[wk[w].copy.ext].st = "archived"
           THEN UNCHANGED faults ELSE CallFails
        /\ Goto(w, "fail")
        /\ UNCHANGED pages
  /\ UNCHANGED <<rec, active, ledger, edits, lost>>

\* Mutant: the row of an update is inserted as well.
Save_AlwaysCreates(w) ==
  /\ wk[w].pc = "save"
  /\ \E r \in RowIds :
       /\ r \notin Rows
       /\ ledger' = [ledger EXCEPT ![r] =
            [wk[w].copy EXCEPT !.st = "synced", !.conflict = FALSE,
                               !.synced = rec.upd]]
  /\ Done(w)
  /\ UNCHANGED <<rec, active, pages, edits, faults, lost>>

\* The ledger row after a push: a new one, or the copy saved whole.
Save(w) ==
  /\ wk[w].pc = "save"
  /\ \E r \in RowIds :
       /\ IF wk[w].row = NoRow THEN r \notin Rows ELSE r = wk[w].row
       /\ ledger' = [ledger EXCEPT ![r] =
            [wk[w].copy EXCEPT !.st = "synced", !.conflict = FALSE,
                               !.synced = rec.upd]]
  /\ Done(w)
  /\ UNCHANGED <<rec, active, pages, edits, faults, lost>>

Archive(w) ==
  /\ wk[w].pc = "archive"
  /\ \/ /\ pages' = [pages EXCEPT ![wk[w].copy.ext].st = "archived",
                                  ![wk[w].copy.ext].edited = @ + 1]
        /\ Goto(w, "savedel")
        /\ UNCHANGED faults
     \/ CallFails /\ Goto(w, "fail") /\ UNCHANGED pages
  /\ UNCHANGED <<rec, active, ledger, edits, lost>>

\* ConflictState is left as it was.
SaveArchived(w) ==
  /\ wk[w].pc = "savedel"
  /\ ledger' = [ledger EXCEPT ![wk[w].row] =
       [wk[w].copy EXCEPT !.st = "synced", !.synced = rec.upd]]
  /\ Done(w)
  /\ UNCHANGED <<rec, active, pages, edits, faults, lost>>

\* The ledger statements whose error nobody looks at: the row stays as it was.
LedgerFails == "ledger" \in Faults /\ faults < MaxFaults /\ faults' = faults + 1

\* The page is archived, and the task is done.
SaveArchivedFails(w) ==
  /\ wk[w].pc = "savedel" /\ LedgerFails
  /\ Done(w)
  /\ UNCHANGED <<rec, active, pages, ledger, edits, lost>>

\* markConflict of either service; only the pull records the page's version.
MarkConflict(w) ==
  /\ wk[w].pc = "conflict"
  /\ ledger' = [ledger EXCEPT ![wk[w].row] =
       [wk[w].copy EXCEPT !.st = "conflict", !.conflict = TRUE,
          !.remote = IF TaskOf(w).op = "pull" THEN wk[w].seen ELSE @]]
  /\ Done(w)
  /\ UNCHANGED <<rec, active, pages, edits, faults, lost>>

\* Mutant: a failed first push is not reported to asynq.
RecordFailure_Swallowed(w) ==
  /\ wk[w].pc = "fail"
  /\ ledger' = IF wk[w].row = NoRow THEN ledger
               ELSE [ledger EXCEPT ![wk[w].row] = [wk[w].copy EXCEPT !.st = "error"]]
  /\ IF wk[w].row = NoRow THEN Done(w) /\ UNCHANGED lost ELSE Retry(w)
  /\ UNCHANGED <<rec, active, pages, edits, faults>>

\* recordFailure of either service, then the error that makes asynq retry.
RecordFailure(w) ==
  /\ wk[w].pc = "fail"
  /\ ledger' = IF wk[w].row = NoRow THEN ledger
               ELSE [ledger EXCEPT ![wk[w].row] = [wk[w].copy EXCEPT !.st = "error"]]
  /\ Retry(w)
  /\ UNCHANGED <<rec, active, pages, edits, faults>>

RecordFailureFails(w) ==
  /\ wk[w].pc = "fail" /\ wk[w].row # NoRow /\ LedgerFails
  /\ Retry(w)
  /\ UNCHANGED <<rec, active, pages, ledger, edits>>

(***************************************************************************)
(* PullService.PullRecord                                                  *)
(***************************************************************************)

Linked(p) == {r \in Rows : ledger[r].ext = p}

\* FindByExternal, then the integration's status.
Find(w) ==
  /\ wk[w].pc = "find"
  /\ LET found == Linked(TaskOf(w).page) IN
     IF found = {} \/ ~active
     THEN Done(w) /\ lost' = (lost \/ (found # {} /\ ~active))
     ELSE /\ wk' = [wk EXCEPT ![w].row = First(found),
                              ![w].copy = ledger[First(found)], ![w].pc = "fetch"]
          /\ UNCHANGED <<tasks, lost>>
  /\ UNCHANGED <<rec, active, pages, ledger, edits, faults>>

Fetch(w) ==
  /\ wk[w].pc = "fetch"
  /\ \/ /\ \E p \in PageIds :
             /\ p = TaskOf(w).page
             /\ wk' = [wk EXCEPT ![w].val = pages[p].val,
                                 ![w].seen = pages[p].edited, ![w].pc = "check"]
        /\ UNCHANGED <<tasks, faults>>
     \/ CallFails /\ Goto(w, "fail")
  /\ UNCHANGED <<rec, active, pages, ledger, edits, lost>>

\* A record that is gone is left alone; a record written since the last sync
\* is a conflict; a cleared property yields no field, and nothing is applied.
Check(w) ==
  /\ wk[w].pc = "check"
  /\ IF rec.st # "alive" THEN Done(w)
     ELSE IF rec.upd > wk[w].copy.synced THEN Goto(w, "conflict")
     ELSE IF wk[w].val = Empty THEN Done(w)
     ELSE Goto(w, "apply")
  /\ UNCHANGED <<rec, active, pages, ledger, edits, faults, lost>>

\* entityState.apply, the read: the whole row is loaded, if it is there.
Apply(w) ==
  /\ wk[w].pc = "apply"
  /\ Goto(w, IF rec.st = "alive" THEN "put" ELSE "fail")
  /\ UNCHANGED <<rec, active, pages, ledger, edits, faults, lost>>

\* Then gorm's Save of the whole row, which also writes deleted_at: a row
\* deleted in between is inserted again.
Put(w) ==
  /\ wk[w].pc = "put"
  /\ rec' = [st |-> "alive", val |-> wk[w].val, upd |-> rec.upd + 1]
  /\ Goto(w, "psave")
  /\ UNCHANGED <<active, pages, ledger, edits, faults, lost>>

SavePulled(w) ==
  /\ wk[w].pc = "psave"
  /\ ledger' = [ledger EXCEPT ![wk[w].row] =
       [wk[w].copy EXCEPT !.st = "synced", !.conflict = FALSE,
                          !.remote = wk[w].seen, !.synced = rec.upd]]
  /\ Done(w)
  /\ UNCHANGED <<rec, active, pages, edits, faults, lost>>

(***************************************************************************)
(* People, Notion and crashes                                              *)
(***************************************************************************)

FreshValue == edits < MaxEdits /\ edits' = edits + 1

\* CompanyService.Create and Update: the row is saved, the event published.
Edit ==
  /\ rec.st = "none" \/ (rec.st = "alive" /\ "edit" \in UserOps)
  /\ FreshValue
  /\ rec' = [st |-> "alive", val |-> edits + 1, upd |-> rec.upd + 1]
  /\ Publish("push", NoPage)
  /\ UNCHANGED <<active, pages, ledger, wk>>

Delete ==
  /\ "delete" \in UserOps /\ rec.st = "alive"
  /\ rec' = [rec EXCEPT !.st = "deleted"]
  /\ Publish("delete", NoPage)
  /\ UNCHANGED <<active, pages, ledger, wk, edits>>

\* Someone edits a page in Notion, or clears its property.
RemoteEdit(p) ==
  /\ pages[p].st = "live" /\ FreshValue
  /\ \E val \in {edits + 1, Empty} :
       /\ IF val = Empty THEN "clear" \in UserOps ELSE "remote" \in UserOps
       /\ pages' = [pages EXCEPT ![p].val = val, ![p].edited = @ + 1,
                                 ![p].unnoticed = TRUE]
  /\ UNCHANGED <<rec, active, ledger, tasks, wk, faults, lost>>

\* NotionWebhookHandler.Receive publishes NotionChanged for the page.
Webhook(p) ==
  /\ pages[p].unnoticed
  /\ pages' = [pages EXCEPT ![p].unnoticed = FALSE]
  /\ Publish("pull", p)
  /\ UNCHANGED <<rec, active, ledger, wk, edits>>

\* The integration's status leaves "active", or comes back.
Disconnect ==
  /\ "disconnect" \in UserOps
  /\ active' = ~active
  /\ UNCHANGED <<rec, pages, ledger, tasks, wk, edits, faults, lost>>

\* The handler's process dies, or a statement whose error is returned fails:
\* the task is delivered again.
Crash(w) ==
  /\ "crash" \in Faults /\ faults < MaxFaults /\ wk[w].pc # "idle"
  /\ faults' = faults + 1
  /\ Retry(w)
  /\ UNCHANGED <<rec, active, pages, ledger, edits>>

PushStep(w) ==
  \/ Begin(w) \/ Load(w) \/ GetVersion(w) \/ Write(w) \/ Save(w)
  \/ Archive(w) \/ SaveArchived(w)

PullStep(w) ==
  \/ Find(w) \/ Fetch(w) \/ Check(w) \/ Apply(w) \/ Put(w) \/ SavePulled(w)

Handle(w) == PushStep(w) \/ PullStep(w) \/ MarkConflict(w) \/ RecordFailure(w)

Fault(w) == SaveArchivedFails(w) \/ RecordFailureFails(w) \/ Crash(w)

Step ==
  \/ \E w \in Workers : Handle(w) \/ Fault(w) \/ \E t \in TaskIds : Dequeue(w, t)
  \/ \E p \in PageIds : RemoteEdit(p) \/ Webhook(p)
  \/ Edit \/ Delete \/ Disconnect

(***************************************************************************)
(* What happened: two handlers were at work at once; two had both looked   *)
(* for the record's row and found none; one died between the creation of a *)
(* page and the insert of its row.                                         *)
(***************************************************************************)

\* Found no row, and is going to create a page and insert one.
Creating(w) ==
  /\ wk[w].pc \in {"load", "get", "write", "save"}
  /\ wk[w].row = NoRow /\ ~wk[w].isDelete

Inserting(w) == wk[w].pc = "save" /\ wk[w].row = NoRow

Twins == \E v, w \in Workers : v # w /\ Creating(v) /\ Creating(w)
Together == \E v, w \in Workers : v # w /\ wk[v].pc # "idle" /\ wk[w].pc # "idle"
Orphans == \E w \in Workers : /\ Inserting(w) /\ wk'[w].pc = "idle"
                              /\ UNCHANGED ledger

Remember ==
  stray' = stray \cup (IF Together' THEN {"together"} ELSE {})
                 \cup (IF Twins' THEN {"twins"} ELSE {})
                 \cup (IF Orphans THEN {"orphan"} ELSE {})

Next == Step /\ Remember

Spec == Init /\ [][Next]_vars

\* While there is something to do, some handler goes on, some task is handed
\* out and Notion calls the webhook for some page.
FairSpec ==
  /\ Spec
  /\ WF_vars((\E w \in Workers : Handle(w)) /\ Remember)
  /\ SF_vars((\E w \in Workers, t \in TaskIds : Dequeue(w, t)) /\ Remember)
  /\ SF_vars((\E p \in PageIds : Webhook(p)) /\ Remember)

(***************************************************************************)
(* Properties                                                              *)
(***************************************************************************)

\* Nothing is queued, running, or still to be noticed.
Quiet ==
  /\ \A t \in TaskIds : tasks[t].st = "free"
  /\ \A p \in PageIds : ~pages[p].unnoticed

RowsNameDistinctPages ==
  \A q, r \in Rows : q # r => ledger[q].ext # ledger[r].ext

\* A record has one row of the ledger unless two handlers had both looked for
\* it in vain, and one page unless, besides, a handler died before the row of
\* its page was inserted: no crash, retry, delete, conflict or reordering
\* makes a second of either.  Where there are two rows they never name the
\* same page, so that FindByExternal has one answer.
OneRowOnePage ==
  /\ "twins" \notin stray => \A q, r \in Rows : q = r
  /\ stray \cap {"twins", "orphan"} = {} =>
       \A p, q \in PageIds : pages[p].st # "none" /\ pages[q].st # "none" => p = q
  /\ RowsNameDistinctPages

\* Why rows name distinct pages.  A row names a page that exists; a handler's copy of a row
\* names the same page as the row; and a handler that has created a page whose
\* row it has still to insert is the only one that knows of the page.
RowsAreNamed ==
  \A r \in Rows : ledger[r].ext \in PageIds /\ pages[ledger[r].ext].st # "none"

CopiesAreNamed ==
  \A w \in Workers : wk[w].row # NoRow =>
    wk[w].row \in Rows /\ wk[w].copy.ext = ledger[wk[w].row].ext

NewPagesAreUnshared ==
  \A w \in Workers : Inserting(w) =>
    LET page == wk[w].copy.ext IN
    /\ page \in PageIds /\ pages[page].st # "none"
    /\ \A r \in Rows : ledger[r].ext # page
    /\ \A v \in Workers : Inserting(v) /\ v # w => wk[v].copy.ext # page

NameInv == /\ TypeOK /\ RowsAreNamed /\ CopiesAreNamed /\ NewPagesAreUnshared
           /\ RowsNameDistinctPages

\* Why there is one of each: nobody creates a page but a handler that has seen
\* no row and is the only one to have done so, and a page has its row or the
\* handler that is to insert it.
OneInv ==
  /\ NameInv
  /\ \A w \in Workers :
       /\ wk[w].pc \in {"get", "write", "save"} => ~wk[w].isDelete
       /\ wk[w].pc = "archive" => wk[w].row # NoRow
  /\ "twins" \notin stray =>
       /\ ~Twins
       /\ \A q, r \in Rows : q = r
       /\ (\E w \in Workers : Creating(w)) => Rows = {}
  /\ stray \cap {"twins", "orphan"} = {} =>
       \A p \in PageIds : pages[p].st # "none" =>
         \/ \E r \in Rows : ledger[r].ext = p
         \/ \E w \in Workers : Inserting(w) /\ wk[w].copy.ext = p

\* The record and its page hold the same, or are in the conflict queue.
Agree ==
  \E r \in Rows :
    \/ ledger[r].st = "conflict"
    \/ /\ ledger[r].st = "synced"
       /\ pages[ledger[r].ext].st = "live"
       /\ pages[ledger[r].ext].val = rec.val

\* Once everything has been handled and nothing was dropped, a live record
\* that was never deleted and its page agree, or the conflict queue says they
\* do not: synced means "both sides match", whatever was retried, redelivered
\* or reordered.
LiveAgrees ==
  rec.st = "alive" /\ (\A p \in PageIds : pages[p].st # "archived") => Agree

\* Then, too, no page of a deleted record is left that the ledger knows of;
\* without faults (a handler that dies between creating a page and its row)
\* none is left at all.
DeletedIsArchived ==
  rec.st = "deleted" =>
    \A p \in PageIds : faults = 0 \/ Linked(p) # {} => pages[p].st # "live"

\* When the queue has drained, nothing was dropped and no two events were in
\* service at once, the two sides hold the same, the absence of the record
\* included.
SettledAgrees ==
  Quiet /\ ~lost /\ "together" \notin stray => LiveAgrees /\ DeletedIsArchived

\* A pull applies a remote value only to a record not written since the last
\* sync.
PullKeepsLocalEdits ==
  [][\A w \in Workers :
       wk[w].pc = "put" /\ wk'[w].pc = "psave" => rec.upd <= wk[w].copy.synced]_vars

\* Every event is handled in the end: the queue and the handlers drain.
Drains == <>[](Quiet /\ \A w \in Workers : wk[w].pc = "idle")
=============================================================================
