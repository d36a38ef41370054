-------------------------- MODULE RecordSyncProofs --------------------------
(***************************************************************************)
(* Type correctness of RecordSync, and that a record has one ledger row    *)
(* and one page unless handlers overlap or die where nothing in the code   *)
(* guards them, for any number of handlers, tasks, rows, pages, edits and  *)
(* faults; and that with one handler, and the rest as many as there may    *)
(* be, the two sides agree once everything has been handled.               *)
(***************************************************************************)
EXTENDS RecordSync, WellFoundedInduction, TLAPS

\* The first row by id is one of the rows.
LEMMA FirstIn ==
  ASSUME NEW S \in SUBSET Nat, S # {}
  PROVE  First(S) \in S
<1> DEFINE Less == {p \in Nat \X Nat : p[1] < p[2]}
<1>1. IsWellFoundedOn(Less, Nat)
  BY NatLessThanWellFounded DEF OpToRel
<1>2. PICK n \in S : \A m \in S : ~(<<m, n>> \in Less)
  <2> HIDE DEF Less
  <2>1. S \subseteq Nat
    OBVIOUS
  <2>2. \E x \in S : \A y \in S : ~(<<y, x>> \in Less)
    BY ONLY <1>1, <2>1, S # {}, WFMin, Zenon
  <2> QED  BY <2>2
<1>3. ASSUME NEW m \in S PROVE n <= m
  <2>1. m \in Nat /\ n \in Nat
    OBVIOUS
  <2>2. m < n => <<m, n>> \in Less
    BY <2>1
  <2> QED  BY <1>2, <2>1, <2>2
<1> QED  BY <1>3 DEF First

(***************************************************************************)
(* What a handler does to its own slot                                     *)
(***************************************************************************)

LEMMA IdleSlotType == IdleSlot \in Slot /\ FreeTask \in Task /\ FreeRow \in Row
  BY BoundsAssumption, NullAssumption
     DEF IdleSlot, Slot, Steps, FreeRow, Row, FreeTask, Task, Values, Empty

\* Every slot in TaskIds ends up free, or pending with one attempt less.
LEMMA DoneType ==
  ASSUME TypeOK, NEW w \in Workers, Done(w)
  PROVE  tasks' \in [TaskIds -> Task] /\ wk' \in [Workers -> Slot]
  BY IdleSlotType DEF TypeOK, Done

LEMMA RetryType ==
  ASSUME TypeOK, NEW w \in Workers, Retry(w)
  PROVE  /\ tasks' \in [TaskIds -> Task] /\ wk' \in [Workers -> Slot]
         /\ lost' \in BOOLEAN
<1>1. \A t \in TaskIds : Attempt(tasks[t]) \in Task
  <2>1. ASSUME NEW t \in TaskIds, tasks[t].left > 0
        PROVE  tasks[t].left - 1 \in 0 .. MaxRetry
    BY <2>1, BoundsAssumption DEF TypeOK, Task
  <2> QED  BY <2>1, IdleSlotType DEF TypeOK, Task, Attempt
<1>2. tasks' \in [TaskIds -> Task]
  BY <1>1 DEF TypeOK, Retry, TaskOf
<1>3. wk' \in [Workers -> Slot]
  BY IdleSlotType DEF TypeOK, Retry
<1>4. lost' \in BOOLEAN
  BY DEF Retry
<1> QED  BY <1>2, <1>3, <1>4

LEMMA GotoType ==
  ASSUME TypeOK, NEW w \in Workers, NEW pc \in Steps, Goto(w, pc)
  PROVE  tasks' \in [TaskIds -> Task] /\ wk' \in [Workers -> Slot]
  BY DEF TypeOK, Goto, Slot

LEMMA CallFailsType ==
  ASSUME TypeOK, CallFails
  PROVE  faults' \in 0 .. MaxFaults
  BY BoundsAssumption DEF TypeOK, CallFails

LEMMA LedgerFailsType ==
  ASSUME TypeOK, LedgerFails
  PROVE  faults' \in 0 .. MaxFaults /\ faults' # 0
  BY BoundsAssumption DEF TypeOK, LedgerFails

LEMMA PublishType ==
  ASSUME TypeOK, NEW op \in {"push", "delete", "pull"},
         NEW p \in PageIds \cup {NoPage}, Publish(op, p)
  PROVE  tasks' \in [TaskIds -> Task] /\ lost' \in BOOLEAN /\ faults' \in 0 .. MaxFaults
<1>1. [st |-> "pending", op |-> op, page |-> p, left |-> MaxRetry] \in Task
  BY BoundsAssumption DEF Task
<1>2. CASE Enqueue(op, p)
  BY <1>1, <1>2 DEF TypeOK, Enqueue
<1>3. CASE PublishFails
  BY <1>3, BoundsAssumption DEF TypeOK, PublishFails
<1> QED  BY <1>2, <1>3 DEF Publish

\* The ids of the rows are naturals, so a nonempty set of them has a first.
LEMMA FirstRow ==
  ASSUME TypeOK, NEW S \in SUBSET Rows, S # {}
  PROVE  First(S) \in S /\ First(S) \in RowIds /\ ledger[First(S)] \in Row
<1>1. S \in SUBSET Nat /\ S \subseteq RowIds
  BY BoundsAssumption DEF Rows
<1>2. First(S) \in S
  BY <1>1, FirstIn
<1> QED  BY <1>1, <1>2 DEF TypeOK

LEMMA PagesType ==
  ASSUME TypeOK, NEW p \in PageIds, NEW val \in Values, Written(p, val)
  PROVE  pages' \in [PageIds -> Page]
  BY DEF TypeOK, Written, Page

(***************************************************************************)
(* Type correctness                                                        *)
(***************************************************************************)

LEMMA InitType == Init => TypeOK
<1> SUFFICES ASSUME Init PROVE TypeOK
  OBVIOUS
<1>1. 0 \in 0 .. MaxEdits /\ 0 \in 0 .. MaxFaults
  BY BoundsAssumption
<1>2. rec \in Record
  BY <1>1 DEF Init, Record, Values, Empty
<1>3. FreePage \in Page
  BY <1>1 DEF FreePage, Page, Values, Empty
<1>4. pages \in [PageIds -> Page]
  BY <1>3 DEF Init
<1>5. /\ ledger \in [RowIds -> Row] /\ tasks \in [TaskIds -> Task]
      /\ wk \in [Workers -> Slot]
  BY IdleSlotType DEF Init
<1>6. active \in BOOLEAN /\ lost \in BOOLEAN /\ edits = 0 /\ faults = 0
      /\ stray = {}
  BY DEF Init
<1> QED  BY <1>1, <1>2, <1>4, <1>5, <1>6 DEF TypeOK

LEMMA PushType ==
  ASSUME TypeOK, stray' \subseteq {"together", "twins", "orphan"},
         NEW w \in Workers, PushStep(w)
  PROVE  TypeOK'
<1>w. wk[w] \in Slot /\ wk \in [Workers -> Slot]
  BY DEF TypeOK
<1>1. CASE Begin(w)
  <2>1. CASE ~active
    BY <1>1, <2>1, DoneType DEF Begin, TypeOK
  <2>2. CASE active
    <3>1. ASSUME Rows # {} PROVE First(Rows) \in RowIds /\ ledger[First(Rows)] \in Row
      BY <3>1, FirstRow
    <3> DEFINE row == IF Rows = {} THEN NoRow ELSE First(Rows)
               copy == IF Rows = {} THEN FreeRow ELSE ledger[First(Rows)]
    <3>3. row \in RowIds \cup {NoRow} /\ copy \in Row
      BY <3>1, IdleSlotType
    <3>4. wk' = [wk EXCEPT ![w].row = row, ![w].copy = copy, ![w].pc = "load"]
      BY <1>1, <2>2 DEF Begin
    <3>2. wk' \in [Workers -> Slot]
      <4> HIDE DEF row, copy
      <4> QED  BY <1>w, <3>3, <3>4 DEF Slot, Steps
    <3> QED  BY <1>1, <2>2, <3>2 DEF Begin, TypeOK
  <2> QED  BY <2>1, <2>2 DEF TypeOK
<1>2. CASE Load(w)
  <2>1. tasks' \in [TaskIds -> Task] /\ wk' \in [Workers -> Slot]
    <3>1. CASE wk[w].isDelete
      BY <1>2, <3>1, DoneType, GotoType DEF Load, Steps
    <3>2. CASE ~wk[w].isDelete
      BY <1>2, <1>w, <3>2 DEF Load, TypeOK, Record, Slot, Steps
    <3> QED  BY <3>1, <3>2
  <2> QED  BY <1>2, <2>1 DEF Load, TypeOK
<1>3. CASE GetVersion(w)
  <2>1. tasks' \in [TaskIds -> Task] /\ wk' \in [Workers -> Slot]
    BY <1>3, GotoType DEF GetVersion, Steps
  <2>2. faults' \in 0 .. MaxFaults
    BY <1>3, CallFailsType DEF GetVersion, TypeOK
  <2> QED  BY <1>3, <2>1, <2>2 DEF GetVersion, TypeOK
<1>4. CASE Write(w)
  <2>1. CASE \E p \in PageIds :
               /\ Written(p, wk[w].val)
               /\ wk' = [wk EXCEPT ![w].copy.ext = p, ![w].pc = "save"]
               /\ UNCHANGED <<tasks, faults>>
    <3>1. PICK p \in PageIds :
            /\ Written(p, wk[w].val)
            /\ wk' = [wk EXCEPT ![w].copy.ext = p, ![w].pc = "save"]
            /\ UNCHANGED <<tasks, faults>>
      BY <2>1
    <3>2. wk' \in [Workers -> Slot]
      BY <1>w, <3>1 DEF Slot, Row, Steps
    <3>3. pages' \in [PageIds -> Page]
      BY <1>w, <3>1, PagesType DEF Slot
    <3> QED  BY <1>4, <3>1, <3>2, <3>3 DEF Write, TypeOK
  <2>2. CASE (UNCHANGED faults \/ CallFails) /\ Goto(w, "fail") /\ UNCHANGED pages
    <3>1. tasks' \in [TaskIds -> Task] /\ wk' \in [Workers -> Slot]
      BY <2>2, GotoType DEF Steps
    <3>2. faults' \in 0 .. MaxFaults
      BY <2>2, CallFailsType DEF TypeOK
    <3> QED  BY <1>4, <2>2, <3>1, <3>2 DEF Write, TypeOK
  <2> QED  BY <1>4, <2>1, <2>2 DEF Write
<1>5. CASE Save(w)
  <2> DEFINE saved == [wk[w].copy EXCEPT !.st = "synced", !.conflict = FALSE,
                                         !.synced = rec.upd]
  <2>2. saved \in Row
    BY <1>w DEF TypeOK, Slot, Row, Record
  <2>3. PICK r \in RowIds : ledger' = [ledger EXCEPT ![r] = saved]
    BY <1>5 DEF Save
  <2>1. ledger' \in [RowIds -> Row]
    <3> HIDE DEF saved
    <3> QED  BY <2>2, <2>3 DEF TypeOK
  <2> QED  BY <1>5, <2>1, DoneType DEF Save, TypeOK
<1>6. CASE Archive(w)
  <2>1. tasks' \in [TaskIds -> Task] /\ wk' \in [Workers -> Slot]
    BY <1>6, GotoType DEF Archive, Steps
  <2>2. faults' \in 0 .. MaxFaults
    BY <1>6, CallFailsType DEF Archive, TypeOK
  <2>3. pages' \in [PageIds -> Page]
    BY <1>6 DEF Archive, TypeOK, Page
  <2> QED  BY <1>6, <2>1, <2>2, <2>3 DEF Archive, TypeOK
<1>7. CASE SaveArchived(w)
  <2>1. ledger' \in [RowIds -> Row]
    BY <1>7, <1>w DEF SaveArchived, TypeOK, Slot, Row, Record
  <2> QED  BY <1>7, <2>1, DoneType DEF SaveArchived, TypeOK
<1> QED
  BY <1>1, <1>2, <1>3, <1>4, <1>5, <1>6, <1>7 DEF PushStep

LEMMA PullType ==
  ASSUME TypeOK, stray' \subseteq {"together", "twins", "orphan"},
         NEW w \in Workers, PullStep(w)
  PROVE  TypeOK'
<1>w. wk[w] \in Slot /\ wk \in [Workers -> Slot]
  BY DEF TypeOK
<1>1. CASE Find(w)
  <2> DEFINE found == Linked(TaskOf(w).page)
  <2>1. CASE found = {} \/ ~active
    BY <1>1, <2>1, DoneType DEF Find, TypeOK
  <2>2. CASE ~(found = {} \/ ~active)
    <3>1. found \in SUBSET Rows /\ found # {}
      BY <2>2 DEF Linked
    <3>2. First(found) \in RowIds /\ ledger[First(found)] \in Row
      BY <3>1, FirstRow
    <3>3. wk' \in [Workers -> Slot]
      BY <1>1, <1>w, <2>2, <3>2 DEF Find, Slot, Steps
    <3> QED  BY <1>1, <2>2, <3>3 DEF Find, TypeOK
  <2> QED  BY <2>1, <2>2
<1>2. CASE Fetch(w)
  <2>1. CASE (\E p \in PageIds :
               wk' = [wk EXCEPT ![w].val = pages[p].val,
                                ![w].seen = pages[p].edited, ![w].pc = "check"])
             /\ UNCHANGED <<tasks, faults>>
    <3>1. PICK p \in PageIds :
            wk' = [wk EXCEPT ![w].val = pages[p].val,
                             ![w].seen = pages[p].edited, ![w].pc = "check"]
      BY <2>1
    <3>2. pages[p].val \in Values /\ pages[p].edited \in Nat
      BY DEF TypeOK, Page
    <3>3. wk' \in [Workers -> Slot]
      BY <1>w, <3>1, <3>2 DEF Slot, Steps
    <3> QED  BY <1>2, <2>1, <3>3 DEF Fetch, TypeOK
  <2>2. CASE CallFails /\ Goto(w, "fail")
    <3>1. tasks' \in [TaskIds -> Task] /\ wk' \in [Workers -> Slot]
      BY <2>2, GotoType DEF Steps
    <3> QED  BY <1>2, <2>2, <3>1, CallFailsType DEF Fetch, TypeOK
  <2> QED  BY <1>2, <2>1, <2>2 DEF Fetch
<1>3. CASE Check(w)
  <2>1. tasks' \in [TaskIds -> Task] /\ wk' \in [Workers -> Slot]
    BY <1>3, DoneType, GotoType DEF Check, Steps
  <2> QED  BY <1>3, <2>1 DEF Check, TypeOK
<1>4. CASE Apply(w)
  <2>1. tasks' \in [TaskIds -> Task] /\ wk' \in [Workers -> Slot]
    BY <1>4, GotoType DEF Apply, Steps
  <2> QED  BY <1>4, <2>1 DEF Apply, TypeOK
<1>5. CASE Put(w)
  <2>1. tasks' \in [TaskIds -> Task] /\ wk' \in [Workers -> Slot]
    BY <1>5, GotoType DEF Put, Steps
  <2>2. rec' \in Record
    BY <1>5, <1>w DEF Put, TypeOK, Record, Slot
  <2> QED  BY <1>5, <2>1, <2>2 DEF Put, TypeOK
<1>6. CASE SavePulled(w)
  <2>1. ledger' \in [RowIds -> Row]
    BY <1>6, <1>w DEF SavePulled, TypeOK, Slot, Row, Record
  <2> QED  BY <1>6, <2>1, DoneType DEF SavePulled, TypeOK
<1> QED  BY <1>1, <1>2, <1>3, <1>4, <1>5, <1>6 DEF PullStep

\* The steps of a handler that either service takes.
LEMMA SharedType ==
  ASSUME TypeOK, stray' \subseteq {"together", "twins", "orphan"}, NEW w \in Workers,
         MarkConflict(w) \/ RecordFailure(w) \/ Fault(w) \/ \E t \in TaskIds : Dequeue(w, t)
  PROVE  TypeOK'
<1>w. wk[w] \in Slot /\ wk \in [Workers -> Slot]
  BY DEF TypeOK
<1>1. CASE MarkConflict(w)
  <2> DEFINE version == IF TaskOf(w).op = "pull" THEN wk[w].seen ELSE wk[w].copy.remote
             marked == [wk[w].copy EXCEPT !.st = "conflict", !.conflict = TRUE,
                                          !.remote = version]
  <2>1. version \in Nat
    BY <1>w DEF Slot, Row
  <2>2. ledger' = [ledger EXCEPT ![wk[w].row] = marked]
    BY <1>1 DEF MarkConflict
  <2>3. ledger' \in [RowIds -> Row]
    <3> HIDE DEF version
    <3>1. marked \in Row
      BY <1>w, <2>1 DEF Slot, Row
    <3> HIDE DEF marked
    <3> QED  BY <2>2, <3>1 DEF TypeOK
  <2> QED  BY <1>1, <2>3, DoneType DEF MarkConflict, TypeOK
<1>2. CASE RecordFailure(w)
  <2> DEFINE failed == [wk[w].copy EXCEPT !.st = "error"]
  <2>1. failed \in Row
    BY <1>w DEF Slot, Row
  <2>3. ledger' = ledger \/ ledger' = [ledger EXCEPT ![wk[w].row] = failed]
    BY <1>2 DEF RecordFailure
  <2>2. ledger' \in [RowIds -> Row]
    <3> HIDE DEF failed
    <3> QED  BY <2>1, <2>3 DEF TypeOK
  <2> QED  BY <1>2, <2>2, RetryType DEF RecordFailure, TypeOK
<1>3. CASE Crash(w)
  <2>1. faults' \in 0 .. MaxFaults
    BY <1>3, BoundsAssumption DEF Crash, TypeOK
  <2> QED  BY <1>3, <2>1, RetryType DEF Crash, TypeOK
<1>5. CASE SaveArchivedFails(w)
  BY <1>5, LedgerFailsType, DoneType DEF SaveArchivedFails, TypeOK
<1>6. CASE RecordFailureFails(w)
  BY <1>6, LedgerFailsType, RetryType DEF RecordFailureFails, TypeOK
<1>4. CASE \E t \in TaskIds : Dequeue(w, t)
  <2>1. PICK t \in TaskIds : Dequeue(w, t)
    BY <1>4
  <2>2. tasks' \in [TaskIds -> Task]
    <3> DEFINE started == [tasks[t] EXCEPT !.st = "active"]
    <3>1. started \in Task
      BY DEF TypeOK, Task
    <3>2. tasks' = [tasks EXCEPT ![t] = started]
      BY <2>1 DEF Dequeue
    <3> HIDE DEF started
    <3> QED  BY <3>1, <3>2 DEF TypeOK
  <2> DEFINE pc == IF tasks[t].op = "pull" THEN "find" ELSE "begin"
             isDelete == tasks[t].op = "delete"
             slot == [IdleSlot EXCEPT !.pc = pc, !.isDelete = isDelete, !.task = t]
  <2>3. pc \in Steps /\ isDelete \in BOOLEAN
    BY DEF Steps
  <2>4. wk' = [wk EXCEPT ![w] = slot]
    BY <2>1 DEF Dequeue
  <2>5. wk' \in [Workers -> Slot]
    <3> HIDE DEF pc, isDelete
    <3>1. slot \in Slot
      BY <2>3, IdleSlotType DEF Slot
    <3> HIDE DEF slot
    <3> QED  BY <1>w, <2>4, <3>1
  <2>6. faults' \in 0 .. MaxFaults
    <3>1. faults' = faults \/ (faults < MaxFaults /\ faults' = faults + 1)
      BY <2>1, Zenon DEF Dequeue
    <3> HIDE DEF pc, isDelete, slot
    <3> QED  BY <3>1, BoundsAssumption DEF TypeOK
  <2> QED  BY <2>1, <2>2, <2>5, <2>6 DEF Dequeue, TypeOK
<1> QED  BY <1>1, <1>2, <1>3, <1>4, <1>5, <1>6 DEF Fault

\* The steps of people and of Notion.
LEMMA WorldType ==
  ASSUME TypeOK, stray' \subseteq {"together", "twins", "orphan"},
         Edit \/ Delete \/ Disconnect \/ \E p \in PageIds : RemoteEdit(p) \/ Webhook(p)
  PROVE  TypeOK'
<1>v. ASSUME FreshValue
      PROVE  edits' \in 0 .. MaxEdits /\ edits + 1 \in Values
  BY <1>v, BoundsAssumption DEF FreshValue, TypeOK, Values
<1>1. CASE Edit
  <2>1. rec' \in Record
    BY <1>1, <1>v DEF Edit, TypeOK, Record
  <2>2. /\ tasks' \in [TaskIds -> Task] /\ lost' \in BOOLEAN
        /\ faults' \in 0 .. MaxFaults
    BY <1>1, PublishType DEF Edit
  <2> QED  BY <1>1, <1>v, <2>1, <2>2 DEF Edit, TypeOK
<1>2. CASE Delete
  <2>1. rec' \in Record
    BY <1>2 DEF Delete, TypeOK, Record
  <2>2. /\ tasks' \in [TaskIds -> Task] /\ lost' \in BOOLEAN
        /\ faults' \in 0 .. MaxFaults
    BY <1>2, PublishType DEF Delete
  <2> QED  BY <1>2, <2>1, <2>2 DEF Delete, TypeOK
<1>3. CASE Disconnect
  BY <1>3 DEF Disconnect, TypeOK
<1>4. ASSUME NEW p \in PageIds, RemoteEdit(p)
      PROVE  TypeOK'
  <2>1. edits' \in 0 .. MaxEdits /\ edits + 1 \in Values
    BY <1>4, <1>v DEF RemoteEdit
  <2>2. Empty \in Values
    BY BoundsAssumption DEF Empty, Values
  <2>3. PICK val \in {edits + 1, Empty} :
          pages' = [pages EXCEPT ![p].val = val, ![p].edited = @ + 1,
                                 ![p].unnoticed = TRUE]
    BY <1>4 DEF RemoteEdit
  <2>4. pages' \in [PageIds -> Page]
    BY <2>1, <2>2, <2>3 DEF TypeOK, Page
  <2> QED  BY <1>4, <2>1, <2>4 DEF RemoteEdit, TypeOK
<1>5. ASSUME NEW p \in PageIds, Webhook(p)
      PROVE  TypeOK'
  <2>1. pages' \in [PageIds -> Page]
    BY <1>5 DEF Webhook, TypeOK, Page
  <2>2. /\ tasks' \in [TaskIds -> Task] /\ lost' \in BOOLEAN
        /\ faults' \in 0 .. MaxFaults
    BY <1>5, PublishType DEF Webhook
  <2> QED  BY <1>5, <2>1, <2>2 DEF Webhook, TypeOK
<1> QED  BY <1>1, <1>2, <1>3, <1>4, <1>5

\* Handlers, tasks, rows and pages stay records of their kind.
THEOREM TypeCorrect == Spec => []TypeOK
<1>1. TypeOK /\ [Next]_vars => TypeOK'
  <2> SUFFICES ASSUME TypeOK, [Next]_vars PROVE TypeOK'
    OBVIOUS
  <2>1. CASE UNCHANGED vars
    BY <2>1 DEF vars, TypeOK
  <2>2. CASE Next
    <3>1. stray' \subseteq {"together", "twins", "orphan"}
      BY <2>2 DEF Next, Remember, TypeOK
    <3> QED
      BY <2>2, <3>1, PushType, PullType, SharedType, WorldType DEF Next, Step, Handle
  <2> QED  BY <2>1, <2>2
<1> QED  BY <1>1, InitType, PTL DEF Spec

(***************************************************************************)
(* Rows name distinct pages                                                *)
(***************************************************************************)

LEMMA InitNames == Init => NameInv
<1> SUFFICES ASSUME Init PROVE NameInv
  OBVIOUS
<1>1. Rows = {}
  BY DEF Init, Rows, FreeRow
<1>2. \A w \in Workers : wk[w].row = NoRow /\ wk[w].pc = "idle"
  BY DEF Init, IdleSlot
<1>3. TypeOK
  BY InitType
<1> QED
  BY <1>1, <1>2, <1>3 DEF NameInv, RowsAreNamed, CopiesAreNamed, NewPagesAreUnshared,
     Inserting, RowsNameDistinctPages

\* A step that leaves the ledger alone, unmakes no page, and in which no
\* handler takes up a row or a page.
LEMMA KeepsNames ==
  ASSUME NameInv, TypeOK', ledger' = ledger,
         \A p \in PageIds : pages[p].st # "none" => pages'[p].st # "none",
         \A w \in Workers :
           \/ wk'[w].row = NoRow /\ wk'[w].pc # "save"
           \/ /\ wk'[w].row = wk[w].row /\ wk'[w].copy.ext = wk[w].copy.ext
              /\ wk'[w].pc = "save" => wk[w].pc = "save"
  PROVE  NameInv'
<1>1. Rows' = Rows
  BY DEF Rows
<1>2. \A w \in Workers : Inserting(w)' => Inserting(w) /\ wk'[w].copy.ext = wk[w].copy.ext
  BY DEF Inserting
<1>3. RowsAreNamed' /\ RowsNameDistinctPages'
  BY <1>1 DEF NameInv, RowsAreNamed, RowsNameDistinctPages
<1>4. CopiesAreNamed'
  BY <1>1 DEF NameInv, CopiesAreNamed
<1>5. NewPagesAreUnshared'
  <2> SUFFICES ASSUME NEW w \in Workers, Inserting(w)'
               PROVE  /\ wk'[w].copy.ext \in PageIds
                      /\ pages'[wk'[w].copy.ext].st # "none"
                      /\ \A r \in Rows' : ledger'[r].ext # wk'[w].copy.ext
                      /\ \A v \in Workers :
                           Inserting(v)' /\ v # w => wk'[v].copy.ext # wk'[w].copy.ext
    BY DEF NewPagesAreUnshared
  <2> QED  BY <1>1, <1>2 DEF NameInv, NewPagesAreUnshared
<1> QED  BY <1>3, <1>4, <1>5 DEF NameInv

\* A step that saves, in a row, a handler's copy of the row, and leaves the
\* handler with no row.
LEMMA SavingKeepsNames ==
  ASSUME NameInv, TypeOK', pages' = pages, NEW w \in Workers, NEW row \in Row,
         row.st # "none", row.ext = wk[w].copy.ext,
         ledger' = [ledger EXCEPT ![wk[w].row] = row],
         wk' = [wk EXCEPT ![w] = IdleSlot]
  PROVE  NameInv'
<1> DEFINE r == wk[w].row
<1>t. /\ ledger \in [RowIds -> Row] /\ wk \in [Workers -> Slot]
      /\ r \in RowIds \cup {NoRow} /\ NoRow \notin RowIds
  BY NullAssumption DEF NameInv, TypeOK, Slot
<1>1. /\ wk'[w].row = NoRow /\ wk'[w].pc # "save"
      /\ \A v \in Workers : v # w => wk'[v] = wk[v]
  BY <1>t DEF IdleSlot
<1>2. CASE r = NoRow
  <2>1. ledger' = ledger
    BY <1>2, <1>t
  <2> QED  BY <1>1, <2>1, KeepsNames
<1>3. CASE r # NoRow
  <2>1. r \in Rows /\ row.ext = ledger[r].ext
    BY <1>3 DEF NameInv, CopiesAreNamed
  <2>2. Rows' = Rows /\ \A q \in RowIds : ledger'[q].ext = ledger[q].ext
    BY <1>t, <2>1 DEF Rows
  <2>3. Rows \subseteq RowIds
    BY DEF Rows
  <2>4. RowsAreNamed' /\ RowsNameDistinctPages'
    BY <2>2, <2>3 DEF NameInv, RowsAreNamed, RowsNameDistinctPages
  <2>5. CopiesAreNamed'
    BY <1>1, <2>2, <2>3 DEF NameInv, CopiesAreNamed
  <2>6. \A v \in Workers : Inserting(v)' => Inserting(v) /\ v # w
    BY <1>1 DEF Inserting
  <2>7. NewPagesAreUnshared'
    <3> SUFFICES ASSUME NEW u \in Workers, Inserting(u)'
                 PROVE  /\ wk'[u].copy.ext \in PageIds
                        /\ pages'[wk'[u].copy.ext].st # "none"
                        /\ \A q \in Rows' : ledger'[q].ext # wk'[u].copy.ext
                        /\ \A v \in Workers :
                             Inserting(v)' /\ v # u => wk'[v].copy.ext # wk'[u].copy.ext
      BY DEF NewPagesAreUnshared
    <3> QED  BY <1>1, <2>2, <2>3, <2>6 DEF NameInv, NewPagesAreUnshared
  <2> QED  BY <2>4, <2>5, <2>7 DEF NameInv
<1> QED  BY <1>2, <1>3

\* A step that takes up a row as the ledger has it, or none.
LEMMA ReadingKeepsNames ==
  ASSUME NameInv, TypeOK', ledger' = ledger, pages' = pages,
         NEW w \in Workers, NEW row \in RowIds \cup {NoRow}, NEW copy \in Row,
         NEW pc \in Steps, pc # "save",
         row # NoRow => row \in Rows /\ copy = ledger[row],
         wk' = [wk EXCEPT ![w].row = row, ![w].copy = copy, ![w].pc = pc]
  PROVE  NameInv'
<1>1. /\ wk'[w].row = row /\ wk'[w].copy = copy /\ wk'[w].pc = pc
      /\ \A v \in Workers : v # w => wk'[v] = wk[v]
  BY DEF NameInv, TypeOK, Slot
<1>2. Rows' = Rows
  BY DEF Rows
<1>3. RowsAreNamed' /\ RowsNameDistinctPages'
  BY <1>2 DEF NameInv, RowsAreNamed, RowsNameDistinctPages
<1>4. CopiesAreNamed'
  <2> SUFFICES ASSUME NEW u \in Workers, wk'[u].row # NoRow
               PROVE  wk'[u].row \in Rows' /\ wk'[u].copy.ext = ledger'[wk'[u].row].ext
    BY DEF CopiesAreNamed
  <2>1. CASE u = w
    <3>1. wk'[u].row = row /\ wk'[u].copy = copy
      BY <1>1, <2>1
    <3>2. row \in Rows /\ copy = ledger[row]
      BY <3>1
    <3> QED  BY ONLY <1>2, <3>1, <3>2, ledger' = ledger
  <2>2. CASE u # w
    <3>1. wk'[u] = wk[u]
      BY <1>1, <2>2
    <3>2. wk[u].row \in Rows /\ wk[u].copy.ext = ledger[wk[u].row].ext
      BY <3>1 DEF NameInv, CopiesAreNamed
    <3> QED  BY ONLY <1>2, <3>1, <3>2, ledger' = ledger
  <2> QED  BY <2>1, <2>2
<1>5. \A v \in Workers : Inserting(v)' => Inserting(v) /\ v # w
  BY <1>1 DEF Inserting
<1>6. NewPagesAreUnshared'
  <2> SUFFICES ASSUME NEW u \in Workers, Inserting(u)'
               PROVE  /\ wk'[u].copy.ext \in PageIds
                      /\ pages'[wk'[u].copy.ext].st # "none"
                      /\ \A q \in Rows' : ledger'[q].ext # wk'[u].copy.ext
                      /\ \A v \in Workers :
                           Inserting(v)' /\ v # u => wk'[v].copy.ext # wk'[u].copy.ext
    BY DEF NewPagesAreUnshared
  <2> QED  BY <1>1, <1>2, <1>5 DEF NameInv, NewPagesAreUnshared
<1> QED  BY <1>3, <1>4, <1>6 DEF NameInv

\* The steps of Goto, Done and Retry take up nothing.
LEMMA LettingGo ==
  ASSUME TypeOK, NEW w \in Workers,
         Done(w) \/ Retry(w) \/ \E pc \in Steps \ {"save"} : Goto(w, pc)
  PROVE  \A v \in Workers :
           \/ wk'[v].row = NoRow /\ wk'[v].pc # "save"
           \/ /\ wk'[v].row = wk[v].row /\ wk'[v].copy.ext = wk[v].copy.ext
              /\ wk'[v].pc = "save" => wk[v].pc = "save"
<1>1. CASE Done(w) \/ Retry(w)
  BY <1>1 DEF TypeOK, Done, Retry, IdleSlot
<1>2. ASSUME NEW pc \in Steps \ {"save"}, Goto(w, pc)
      PROVE  \A v \in Workers :
               /\ wk'[v].row = wk[v].row /\ wk'[v].copy.ext = wk[v].copy.ext
               /\ wk'[v].pc = "save" => wk[v].pc = "save"
  BY <1>2 DEF TypeOK, Slot, Goto
<1> QED  BY <1>1, <1>2

LEMMA WriteKeepsNames ==
  ASSUME NameInv, TypeOK', NEW w \in Workers, Write(w)
  PROVE  NameInv'
<1>t. /\ wk \in [Workers -> Slot] /\ wk[w] \in Slot /\ pages \in [PageIds -> Page]
      /\ NoRow \notin RowIds /\ NoPage \notin PageIds
  BY NullAssumption DEF NameInv, TypeOK
<1>1. CASE Goto(w, "fail") /\ UNCHANGED pages
  <2>1. \E pc \in Steps \ {"save"} : Goto(w, pc)
    BY <1>1 DEF Steps
  <2> QED  BY <1>1, <2>1, LettingGo, KeepsNames DEF Write, NameInv
<1>2. CASE \E p \in PageIds :
             /\ IF wk[w].row = NoRow THEN pages[p].st = "none"
                ELSE p = wk[w].copy.ext /\ pages[p].st = "live"
             /\ Written(p, wk[w].val)
             /\ wk' = [wk EXCEPT ![w].copy.ext = p, ![w].pc = "save"]
  <2>1. PICK p \in PageIds :
             /\ IF wk[w].row = NoRow THEN pages[p].st = "none"
                ELSE p = wk[w].copy.ext /\ pages[p].st = "live"
             /\ Written(p, wk[w].val)
             /\ wk' = [wk EXCEPT ![w].copy.ext = p, ![w].pc = "save"]
    BY <1>2
  <2>2. /\ wk'[w].row = wk[w].row /\ wk'[w].copy.ext = p
        /\ \A v \in Workers : v # w => wk'[v] = wk[v]
    <3>1. wk[w].copy \in Row
      BY <1>t DEF Slot
    <3> DEFINE copy == [wk[w].copy EXCEPT !.ext = p]
    <3>2. copy.ext = p
      BY <3>1 DEF Row
    <3>3. wk' = [wk EXCEPT ![w].copy = copy, ![w].pc = "save"]
      BY <2>1
    <3> HIDE DEF copy
    <3> QED  BY <1>t, <3>2, <3>3 DEF Slot
  <2>3. pages'[p].st # "none" /\ \A q \in PageIds : q # p => pages'[q].st = pages[q].st
    <3>1. PICK noticed \in BOOLEAN :
            pages' = [pages EXCEPT ![p].st = IF @ = "none" THEN "live" ELSE @,
                                   ![p].val = wk[w].val, ![p].edited = @ + 1,
                                   ![p].unnoticed = @ \/ noticed]
      BY <2>1 DEF Written
    <3>2. \A q \in PageIds : q # p => pages'[q] = pages[q]
      BY <1>t, <3>1
    <3>3. pages'[p].st = IF pages[p].st = "none" THEN "live" ELSE pages[p].st
      BY <1>t, <3>1 DEF Page
    <3> QED  BY <3>2, <3>3
  <2>4. Rows' = Rows /\ ledger' = ledger
    BY <1>2 DEF Write, Rows
  <2>5. RowsAreNamed' /\ RowsNameDistinctPages'
    BY <2>3, <2>4 DEF NameInv, RowsAreNamed, RowsNameDistinctPages
  <2>6. CopiesAreNamed'
    <3> SUFFICES ASSUME NEW u \in Workers, wk'[u].row # NoRow
                 PROVE  wk'[u].row \in Rows' /\ wk'[u].copy.ext = ledger'[wk'[u].row].ext
      BY DEF CopiesAreNamed
    <3>1. CASE u = w
      BY <2>1, <2>2, <2>4, <3>1 DEF NameInv, CopiesAreNamed
    <3>2. CASE u # w
      BY <2>2, <2>4, <3>2 DEF NameInv, CopiesAreNamed
    <3> QED  BY <3>1, <3>2
  <2>7. CASE wk[w].row = NoRow
    <3>1. pages[p].st = "none"
      BY <2>1, <2>7
    <3>2. \A v \in Workers : v # w /\ Inserting(v)' =>
            Inserting(v) /\ wk'[v].copy.ext # p
      BY <2>2, <3>1 DEF NameInv, NewPagesAreUnshared, Inserting
    <3>3. \A r \in Rows : ledger[r].ext # p
      BY <3>1 DEF NameInv, RowsAreNamed
    <3>4. NewPagesAreUnshared'
      <4> SUFFICES ASSUME NEW u \in Workers, Inserting(u)'
                   PROVE  /\ wk'[u].copy.ext \in PageIds
                          /\ pages'[wk'[u].copy.ext].st # "none"
                          /\ \A q \in Rows' : ledger'[q].ext # wk'[u].copy.ext
                          /\ \A v \in Workers :
                               Inserting(v)' /\ v # u => wk'[v].copy.ext # wk'[u].copy.ext
        BY DEF NewPagesAreUnshared
      <4>1. CASE u = w
        BY <2>2, <2>3, <2>4, <3>2, <3>3, <4>1
      <4>2. CASE u # w
        BY <2>2, <2>3, <2>4, <3>2, <4>2 DEF NameInv, NewPagesAreUnshared
      <4> QED  BY <4>1, <4>2
    <3> QED  BY <2>5, <2>6, <3>4 DEF NameInv
  <2>8. CASE wk[w].row # NoRow
    <3>1. \A v \in Workers : Inserting(v)' => Inserting(v) /\ v # w
      BY <2>2, <2>8 DEF Inserting
    <3>2. NewPagesAreUnshared'
      BY <2>2, <2>3, <2>4, <3>1 DEF NameInv, NewPagesAreUnshared
    <3> QED  BY <2>5, <2>6, <3>2 DEF NameInv
  <2> QED  BY <2>7, <2>8
<1> QED  BY <1>1, <1>2 DEF Write

\* The row of a new page is the first to name it.
LEMMA SaveKeepsNames ==
  ASSUME NameInv, TypeOK', NEW w \in Workers, Save(w)
  PROVE  NameInv'
<1>t. /\ wk \in [Workers -> Slot] /\ wk[w] \in Slot /\ ledger \in [RowIds -> Row]
      /\ rec \in Record /\ NoRow \notin RowIds
  BY NullAssumption DEF NameInv, TypeOK
<1> DEFINE row == [wk[w].copy EXCEPT !.st = "synced", !.conflict = FALSE,
                                     !.synced = rec.upd]
<1>1. row \in Row /\ row.st # "none" /\ row.ext = wk[w].copy.ext
  BY <1>t DEF Slot, Row, Record
<1>2. /\ wk' = [wk EXCEPT ![w] = IdleSlot] /\ pages' = pages
  BY DEF Save, Done
<1>3. PICK r \in RowIds :
        /\ IF wk[w].row = NoRow THEN r \notin Rows ELSE r = wk[w].row
        /\ ledger' = [ledger EXCEPT ![r] = row]
  BY DEF Save
<1> HIDE DEF row
<1>4. CASE wk[w].row # NoRow
  <2>1. r = wk[w].row
    BY <1>3, <1>4
  <2> QED  BY <1>1, <1>2, <1>3, <2>1, SavingKeepsNames
<1>5. CASE wk[w].row = NoRow
  <2>1. /\ row.ext \in PageIds /\ pages[row.ext].st # "none"
        /\ \A q \in Rows : ledger[q].ext # row.ext
        /\ \A v \in Workers : Inserting(v) /\ v # w => wk[v].copy.ext # row.ext
    BY <1>1, <1>5 DEF NameInv, NewPagesAreUnshared, Inserting, Save
  <2>2. /\ Rows' = Rows \cup {r} /\ r \notin Rows /\ Rows \subseteq RowIds
        /\ ledger'[r] = row /\ \A q \in Rows : ledger'[q] = ledger[q]
    BY <1>t, <1>1, <1>3, <1>5 DEF Rows
  <2>3. /\ wk'[w].row = NoRow /\ wk'[w].pc # "save"
        /\ \A v \in Workers : v # w => wk'[v] = wk[v]
    BY <1>t, <1>2 DEF IdleSlot
  <2>4. RowsAreNamed' /\ RowsNameDistinctPages'
    BY <1>2, <2>1, <2>2 DEF NameInv, RowsAreNamed, RowsNameDistinctPages
  <2>5. CopiesAreNamed'
    BY <2>2, <2>3 DEF NameInv, CopiesAreNamed
  <2>6. \A v \in Workers : Inserting(v)' => Inserting(v) /\ v # w
    BY <2>3 DEF Inserting
  <2>7. NewPagesAreUnshared'
    BY <1>2, <2>1, <2>2, <2>3, <2>6 DEF NameInv, NewPagesAreUnshared
  <2> QED  BY <2>4, <2>5, <2>7 DEF NameInv
<1> QED  BY <1>4, <1>5

LEMMA PushNames ==
  ASSUME NameInv, TypeOK', NEW w \in Workers, PushStep(w)
  PROVE  NameInv'
<1>t. TypeOK /\ wk \in [Workers -> Slot] /\ wk[w] \in Slot
  BY DEF NameInv, TypeOK
<1>d. ASSUME Done(w), ledger' = ledger, pages' = pages
      PROVE  NameInv'
  BY <1>d, <1>t, LettingGo, KeepsNames
<1>g. ASSUME NEW pc \in Steps \ {"save"}, Goto(w, pc), ledger' = ledger,
             \A p \in PageIds : pages[p].st # "none" => pages'[p].st # "none"
      PROVE  NameInv'
  BY <1>g, <1>t, LettingGo, KeepsNames
<1>1. CASE Begin(w)
  <2>1. CASE ~active
    BY <1>1, <2>1, <1>d DEF Begin
  <2>2. CASE active
    <3> DEFINE row == IF Rows = {} THEN NoRow ELSE First(Rows)
               copy == IF Rows = {} THEN FreeRow ELSE ledger[First(Rows)]
    <3>1. ASSUME Rows # {}
          PROVE  First(Rows) \in Rows /\ First(Rows) \in RowIds /\ ledger[First(Rows)] \in Row
      BY <1>t, <3>1, FirstRow
    <3>2. /\ row \in RowIds \cup {NoRow} /\ copy \in Row
          /\ row # NoRow => row \in Rows /\ copy = ledger[row]
      BY <3>1, IdleSlotType
    <3>3. /\ wk' = [wk EXCEPT ![w].row = row, ![w].copy = copy, ![w].pc = "load"]
          /\ ledger' = ledger /\ pages' = pages
      BY <1>1, <2>2 DEF Begin
    <3>4. "load" \in Steps /\ "load" # "save"
      BY DEF Steps
    <3> HIDE DEF row, copy
    <3> QED  BY <3>2, <3>3, <3>4, ReadingKeepsNames
  <2> QED  BY <2>1, <2>2 DEF NameInv, TypeOK
<1>2. CASE Load(w)
  <2>1. CASE wk[w].isDelete
    BY <1>2, <2>1, <1>d, <1>g DEF Load, Steps
  <2>2. CASE ~wk[w].isDelete
    <3>1. \A v \in Workers :
            /\ wk'[v].row = wk[v].row /\ wk'[v].copy.ext = wk[v].copy.ext
            /\ wk'[v].pc = "save" => wk[v].pc = "save"
      BY <1>2, <1>t, <2>2 DEF Load, Slot
    <3> QED  BY <1>2, <3>1, KeepsNames DEF Load
  <2> QED  BY <2>1, <2>2
<1>3. CASE GetVersion(w)
  BY <1>3, <1>g DEF GetVersion, Steps
<1>4. CASE Write(w)
  BY <1>4, WriteKeepsNames
<1>5. CASE Save(w)
  BY <1>5, SaveKeepsNames
<1>6. CASE Archive(w)
  <2>1. \A p \in PageIds : pages[p].st # "none" => pages'[p].st # "none"
    BY <1>6 DEF Archive, NameInv, TypeOK, Page
  <2> QED  BY <1>6, <2>1, <1>g DEF Archive, Steps
<1>7. CASE SaveArchived(w)
  <2> DEFINE row == [wk[w].copy EXCEPT !.st = "synced", !.synced = rec.upd]
  <2>1. row \in Row /\ row.st # "none" /\ row.ext = wk[w].copy.ext
    BY <1>t DEF Slot, Row, TypeOK, Record
  <2>2. /\ ledger' = [ledger EXCEPT ![wk[w].row] = row]
        /\ wk' = [wk EXCEPT ![w] = IdleSlot] /\ pages' = pages
    BY <1>7 DEF SaveArchived, Done
  <2> HIDE DEF row
  <2> QED  BY <2>1, <2>2, SavingKeepsNames
<1> QED  BY <1>1, <1>2, <1>3, <1>4, <1>5, <1>6, <1>7 DEF PushStep

LEMMA PullNames ==
  ASSUME NameInv, TypeOK', NEW w \in Workers, PullStep(w)
  PROVE  NameInv'
<1>t. TypeOK /\ wk \in [Workers -> Slot] /\ wk[w] \in Slot
  BY DEF NameInv, TypeOK
<1>d. ASSUME Done(w), ledger' = ledger, pages' = pages
      PROVE  NameInv'
  BY <1>d, <1>t, LettingGo, KeepsNames
<1>g. ASSUME NEW pc \in Steps \ {"save"}, Goto(w, pc), ledger' = ledger,
             pages' = pages
      PROVE  NameInv'
  BY <1>g, <1>t, LettingGo, KeepsNames
<1>1. CASE Find(w)
  <2> DEFINE found == Linked(TaskOf(w).page)
  <2>1. CASE found = {} \/ ~active
    BY <1>1, <2>1, <1>d DEF Find
  <2>2. CASE ~(found = {} \/ ~active)
    <3>1. found \in SUBSET Rows /\ found # {}
      BY <2>2 DEF Linked
    <3>2. First(found) \in Rows /\ First(found) \in RowIds /\ ledger[First(found)] \in Row
      BY <1>t, <3>1, FirstRow
    <3>3. /\ wk' = [wk EXCEPT ![w].row = First(found), ![w].copy = ledger[First(found)],
                              ![w].pc = "fetch"]
          /\ ledger' = ledger /\ pages' = pages
      BY <1>1, <2>2 DEF Find
    <3>4. "fetch" \in Steps /\ "fetch" # "save"
      BY DEF Steps
    <3> HIDE DEF found
    <3> QED  BY <3>2, <3>3, <3>4, ReadingKeepsNames
  <2> QED  BY <2>1, <2>2
<1>2. CASE Fetch(w)
  <2>1. CASE Goto(w, "fail")
    BY <1>2, <2>1, <1>g DEF Fetch, Steps
  <2>2. CASE \E p \in PageIds :
               wk' = [wk EXCEPT ![w].val = pages[p].val,
                                ![w].seen = pages[p].edited, ![w].pc = "check"]
    <3>1. \A v \in Workers :
            /\ wk'[v].row = wk[v].row /\ wk'[v].copy.ext = wk[v].copy.ext
            /\ wk'[v].pc = "save" => wk[v].pc = "save"
      BY <1>t, <2>2 DEF Slot
    <3> QED  BY <1>2, <3>1, KeepsNames DEF Fetch
  <2> QED  BY <1>2, <2>1, <2>2 DEF Fetch
<1>3. CASE Check(w)
  BY <1>3, <1>d, <1>g DEF Check, Steps
<1>4. CASE Apply(w)
  BY <1>4, <1>g DEF Apply, Steps
<1>5. CASE Put(w)
  BY <1>5, <1>g DEF Put, Steps
<1>6. CASE SavePulled(w)
  <2> DEFINE row == [wk[w].copy EXCEPT !.st = "synced", !.conflict = FALSE,
                                       !.remote = wk[w].seen, !.synced = rec.upd]
  <2>1. row \in Row /\ row.st # "none" /\ row.ext = wk[w].copy.ext
    BY <1>t DEF Slot, Row, TypeOK, Record
  <2>2. /\ ledger' = [ledger EXCEPT ![wk[w].row] = row]
        /\ wk' = [wk EXCEPT ![w] = IdleSlot] /\ pages' = pages
    BY <1>6 DEF SavePulled, Done
  <2> HIDE DEF row
  <2> QED  BY <2>1, <2>2, SavingKeepsNames
<1> QED  BY <1>1, <1>2, <1>3, <1>4, <1>5, <1>6 DEF PullStep

LEMMA SharedNames ==
  ASSUME NameInv, TypeOK', NEW w \in Workers,
         MarkConflict(w) \/ RecordFailure(w) \/ Fault(w) \/ \E t \in TaskIds : Dequeue(w, t)
  PROVE  NameInv'
<1>t. TypeOK /\ wk \in [Workers -> Slot] /\ wk[w] \in Slot
  BY DEF NameInv, TypeOK
<1>1. CASE MarkConflict(w)
  <2> DEFINE version == IF TaskOf(w).op = "pull" THEN wk[w].seen ELSE wk[w].copy.remote
             row == [wk[w].copy EXCEPT !.st = "conflict", !.conflict = TRUE,
                                       !.remote = version]
  <2>1. version \in Nat
    BY <1>t DEF Slot, Row
  <2>2. /\ ledger' = [ledger EXCEPT ![wk[w].row] = row]
        /\ wk' = [wk EXCEPT ![w] = IdleSlot] /\ pages' = pages
    BY <1>1 DEF MarkConflict, Done
  <2>3. row \in Row /\ row.st # "none" /\ row.ext = wk[w].copy.ext
    <3> HIDE DEF version
    <3> QED  BY <1>t, <2>1 DEF Slot, Row
  <2> HIDE DEF row
  <2> QED  BY <2>2, <2>3, SavingKeepsNames
<1>2. CASE RecordFailure(w)
  <2> DEFINE row == [wk[w].copy EXCEPT !.st = "error"]
  <2>1. row \in Row /\ row.st # "none" /\ row.ext = wk[w].copy.ext
    BY <1>t DEF Slot, Row
  <2>2. /\ wk' = [wk EXCEPT ![w] = IdleSlot] /\ pages' = pages
        /\ ledger' = ledger \/ ledger' = [ledger EXCEPT ![wk[w].row] = row]
    BY <1>2 DEF RecordFailure, Retry
  <2> HIDE DEF row
  <2>3. CASE ledger' = ledger
    BY <1>2, <1>t, <2>2, <2>3, LettingGo, KeepsNames DEF RecordFailure
  <2>4. CASE ledger' = [ledger EXCEPT ![wk[w].row] = row]
    BY <2>1, <2>2, <2>4, SavingKeepsNames
  <2> QED  BY <2>2, <2>3, <2>4
<1>3. CASE Fault(w)
  BY <1>3, <1>t, LettingGo, KeepsNames DEF Fault, Crash, SaveArchivedFails, RecordFailureFails
<1>4. CASE \E t \in TaskIds : Dequeue(w, t)
  <2>1. \A v \in Workers :
          \/ wk'[v].row = NoRow /\ wk'[v].pc # "save"
          \/ wk'[v] = wk[v]
    <3>1. PICK t \in TaskIds : Dequeue(w, t)
      BY <1>4
    <3> DEFINE pc == IF tasks[t].op = "pull" THEN "find" ELSE "begin"
               slot == [IdleSlot EXCEPT !.pc = pc, !.isDelete = (tasks[t].op = "delete"),
                                        !.task = t]
    <3>2. pc # "save" /\ slot.pc = pc /\ slot.row = NoRow
      BY DEF IdleSlot
    <3>3. wk' = [wk EXCEPT ![w] = slot]
      BY <3>1 DEF Dequeue
    <3> HIDE DEF slot, pc
    <3> QED  BY <1>t, <3>2, <3>3
  <2> QED  BY <1>4, <2>1, KeepsNames DEF Dequeue
<1> QED  BY <1>1, <1>2, <1>3, <1>4

LEMMA WorldNames ==
  ASSUME NameInv, TypeOK',
         Edit \/ Delete \/ Disconnect \/ \E p \in PageIds : RemoteEdit(p) \/ Webhook(p)
  PROVE  NameInv'
<1>1. wk' = wk /\ ledger' = ledger
  BY DEF Edit, Delete, Disconnect, RemoteEdit, Webhook
<1>2. \A p \in PageIds : pages[p].st # "none" => pages'[p].st # "none"
  <2>1. CASE Edit \/ Delete \/ Disconnect
    BY <2>1 DEF Edit, Delete, Disconnect
  <2>2. ASSUME NEW p \in PageIds, RemoteEdit(p) \/ Webhook(p), NEW q \in PageIds
        PROVE  pages'[q].st = pages[q].st
    <3>1. pages \in [PageIds -> Page]
      BY DEF NameInv, TypeOK
    <3>2. CASE Webhook(p)
      BY <3>1, <3>2 DEF Webhook, Page
    <3>3. CASE RemoteEdit(p)
      <4>1. PICK val \in {edits + 1, Empty} :
              pages' = [pages EXCEPT ![p].val = val, ![p].edited = @ + 1,
                                     ![p].unnoticed = TRUE]
        BY <3>3 DEF RemoteEdit
      <4> QED  BY <3>1, <4>1 DEF Page
    <3> QED  BY <2>2, <3>2, <3>3
  <2> QED  BY <2>1, <2>2
<1> QED  BY <1>1, <1>2, KeepsNames

LEMMA NamesStay == Spec => []NameInv
<1>1. NameInv /\ [Next]_vars /\ TypeOK' => NameInv'
  <2> SUFFICES ASSUME NameInv, [Next]_vars, TypeOK' PROVE NameInv'
    OBVIOUS
  <2>1. CASE UNCHANGED vars
    <3>1. ledger' = ledger /\ pages' = pages /\ wk' = wk
      BY <2>1 DEF vars
    <3> QED  BY <3>1, KeepsNames
  <2> QED
    BY <2>1, PushNames, PullNames, SharedNames, WorldNames DEF Next, Step, Handle
<1> QED  BY <1>1, InitNames, TypeCorrect, PTL DEF Spec

(***************************************************************************)
(* One row, one page                                                       *)
(***************************************************************************)

Creators == {"load", "get", "write", "save"}
Ends == {"conflict", "fail", "savedel", "find", "fetch", "check", "apply", "put", "psave"}

\* What a step that creates no page and inserts no row may do to a handler.
Calm(v) ==
  \/ wk'[v] = wk[v]
  \/ /\ wk'[v].pc \notin Creators /\ (Inserting(v) => wk'[v].pc = "idle")
     /\ wk'[v].pc = "archive" => wk'[v].row # NoRow
  \/ /\ wk[v].pc = "begin" /\ wk'[v].pc = "load"
     /\ wk'[v].row = NoRow => Rows = {}
  \/ /\ wk[v].pc \in {"load", "get", "write"} /\ ~wk[v].isDelete
     /\ wk'[v].pc \in {"get", "write", "save"} /\ ~wk'[v].isDelete
     /\ wk'[v].row = wk[v].row
     /\ wk'[v].pc = "save" => wk[v].row # NoRow

LEMMA CalmKeepsOne ==
  ASSUME OneInv, NameInv', Remember, Rows' = Rows,
         \A r \in RowIds : ledger'[r].ext = ledger[r].ext,
         \A p \in PageIds : pages'[p].st = "none" <=> pages[p].st = "none",
         \A v \in Workers : Calm(v),
         ledger' = ledger \/ \A v \in Workers : Inserting(v) => wk'[v] = wk[v]
  PROVE  OneInv'
<1>1. stray \subseteq stray' /\ ("twins" \notin stray' => ~Twins')
  BY DEF Remember
<1>2. \A v \in Workers : wk'[v].pc \in {"get", "write", "save"} => ~wk'[v].isDelete
  BY DEF OneInv, Calm, Creators
<1>a. \A v \in Workers : wk'[v].pc = "archive" => wk'[v].row # NoRow
  BY DEF OneInv, Calm
<1>3. \A v \in Workers : Creating(v)' => Creating(v) \/ Rows = {}
  BY DEF Creating, Calm, Creators
<1>4. ASSUME "twins" \notin stray'
      PROVE  /\ ~Twins'
             /\ \A q, r \in Rows' : q = r
             /\ (\E w \in Workers : Creating(w)') => Rows' = {}
  <2>1. "twins" \notin stray
    BY <1>1, <1>4
  <2>2. (\E w \in Workers : Creating(w)) => Rows = {}
    BY <2>1 DEF OneInv
  <2>3. \A q, r \in Rows : q = r
    BY <2>1 DEF OneInv
  <2> QED  BY <1>1, <1>3, <1>4, <2>2, <2>3
<1>5. ASSUME stray' \cap {"twins", "orphan"} = {}, NEW p \in PageIds, pages'[p].st # "none"
      PROVE  \/ \E r \in Rows' : ledger'[r].ext = p
             \/ \E w \in Workers : Inserting(w)' /\ wk'[w].copy.ext = p
  <2>1. /\ stray \cap {"twins", "orphan"} = {} /\ ~Orphans
    BY <1>5 DEF Remember
  <2>2. \/ \E r \in Rows : ledger[r].ext = p
        \/ \E w \in Workers : Inserting(w) /\ wk[w].copy.ext = p
    BY <1>5, <2>1 DEF OneInv
  <2>3. CASE \E r \in Rows : ledger[r].ext = p
    BY <2>3 DEF Rows
  <2>4. ASSUME NEW w \in Workers, Inserting(w), wk[w].copy.ext = p
        PROVE  Inserting(w)' /\ wk'[w].copy.ext = p
    <3>1. wk'[w].pc # "idle" \/ wk'[w] = wk[w]
      BY <2>1, <2>4 DEF Orphans
    <3>2. wk'[w] = wk[w]
      BY <2>4, <3>1 DEF Calm, Inserting
    <3> QED  BY <2>4, <3>2 DEF Inserting
  <2> QED  BY <2>2, <2>3, <2>4
<1> QED  BY <1>2, <1>a, <1>4, <1>5 DEF OneInv

LEMMA InitOne == Init => OneInv
<1> SUFFICES ASSUME Init PROVE OneInv
  OBVIOUS
<1>1. /\ Rows = {} /\ \A p \in PageIds : pages[p].st = "none"
      /\ \A w \in Workers : wk[w].pc = "idle"
  BY DEF Init, Rows, FreeRow, FreePage, IdleSlot
<1> QED  BY <1>1, InitNames DEF OneInv, Twins, Creating

\* A step that saves, in a row, a handler's copy of it.
LEMMA SavedOne ==
  ASSUME OneInv, NameInv', Remember, pages' = pages, NEW w \in Workers, NEW row \in Row,
         row.st # "none", row.ext = wk[w].copy.ext, ~Inserting(w),
         ledger' = [ledger EXCEPT ![wk[w].row] = row],
         wk' = [wk EXCEPT ![w] = IdleSlot]
  PROVE  OneInv'
<1>t. /\ ledger \in [RowIds -> Row] /\ wk \in [Workers -> Slot]
      /\ wk[w].row \in RowIds \cup {NoRow} /\ NoRow \notin RowIds
  BY NullAssumption DEF OneInv, NameInv, TypeOK, Slot
<1>1. wk'[w].pc = "idle" /\ \A v \in Workers : v # w => wk'[v] = wk[v]
  BY <1>t DEF IdleSlot
<1>2. \A v \in Workers : Calm(v)
  BY <1>1 DEF Calm, Creators
<1>3. Rows' = Rows /\ \A r \in RowIds : ledger'[r].ext = ledger[r].ext
  <2>1. CASE wk[w].row = NoRow
    <3>1. ledger' = ledger
      BY <1>t, <2>1
    <3> QED  BY <3>1 DEF Rows
  <2>2. CASE wk[w].row # NoRow
    <3>1. wk[w].row \in Rows /\ row.ext = ledger[wk[w].row].ext
      BY <2>2 DEF OneInv, NameInv, CopiesAreNamed
    <3> QED  BY <1>t, <3>1 DEF Rows
  <2> QED  BY <2>1, <2>2
<1>4. \A v \in Workers : Inserting(v) => wk'[v] = wk[v]
  BY <1>1
<1> QED  BY <1>2, <1>3, <1>4, CalmKeepsOne

\* A step that leaves the ledger and the pages' being alone.
LEMMA QuietOne ==
  ASSUME OneInv, NameInv', Remember, ledger' = ledger,
         \A p \in PageIds : pages'[p].st = "none" <=> pages[p].st = "none",
         \A v \in Workers : Calm(v)
  PROVE  OneInv'
<1>1. Rows' = Rows
  BY DEF Rows
<1> QED  BY <1>1, CalmKeepsOne

LEMMA CalmSlots ==
  ASSUME TypeOK, NEW w \in Workers,
         \/ Done(w) \/ Retry(w)
         \/ wk[w].pc # "save" /\ \E pc \in Ends : Goto(w, pc)
  PROVE  \A v \in Workers : Calm(v)
<1>1. CASE Done(w) \/ Retry(w)
  BY <1>1 DEF TypeOK, Done, Retry, IdleSlot, Calm, Creators
<1>2. ASSUME wk[w].pc # "save", NEW pc \in Ends, Goto(w, pc)
      PROVE  \A v \in Workers : Calm(v)
  BY <1>2 DEF TypeOK, Slot, Goto, Calm, Inserting, Ends, Creators
<1> QED  BY <1>1, <1>2

\* A page is created by the only handler that saw no row.
LEMMA WriteOne ==
  ASSUME OneInv, NameInv', Remember, NEW w \in Workers, Write(w)
  PROVE  OneInv'
<1>t. TypeOK /\ wk \in [Workers -> Slot] /\ wk[w] \in Slot /\ pages \in [PageIds -> Page]
  BY DEF OneInv, NameInv, TypeOK
<1>0. ledger' = ledger /\ wk[w].pc = "write" /\ ~wk[w].isDelete
  BY DEF Write, OneInv
<1>1. CASE Goto(w, "fail") /\ UNCHANGED pages
  <2>1. "fail" \in Ends
    BY DEF Ends
  <2>2. \A v \in Workers : Calm(v)
    BY <1>0, <1>1, <1>t, <2>1, CalmSlots
  <2> QED  BY <1>0, <1>1, <2>2, QuietOne
<1>2. ASSUME NEW p \in PageIds,
             IF wk[w].row = NoRow THEN pages[p].st = "none"
             ELSE p = wk[w].copy.ext /\ pages[p].st = "live",
             Written(p, wk[w].val),
             wk' = [wk EXCEPT ![w].copy.ext = p, ![w].pc = "save"]
      PROVE  OneInv'
  <2>1. /\ wk'[w].pc = "save" /\ wk'[w].row = wk[w].row /\ wk'[w].copy.ext = p
        /\ ~wk'[w].isDelete /\ \A v \in Workers : v # w => wk'[v] = wk[v]
    BY <1>0, <1>2, <1>t DEF Slot, Row
  <2>a. \A v \in Workers : wk'[v].pc = "archive" => wk'[v].row # NoRow
    BY <2>1 DEF OneInv
  <2>2. /\ pages'[p].st # "none"
        /\ \A q \in PageIds : q # p => pages'[q] = pages[q]
    BY <1>2, <1>t DEF Written, Page
  <2>3. Rows' = Rows
    BY <1>0 DEF Rows
  <2>4. CASE wk[w].row # NoRow
    <3>1. \A v \in Workers : Calm(v)
      BY <1>0, <2>1, <2>4 DEF Calm
    <3>2. \A q \in PageIds : pages'[q].st = "none" <=> pages[q].st = "none"
      BY <1>2, <2>2, <2>4
    <3> QED  BY <1>0, <3>1, <3>2, QuietOne
  <2>5. CASE wk[w].row = NoRow
    <3>1. Inserting(w)' /\ Creating(w)
      BY <1>0, <2>1, <2>5 DEF Inserting, Creating
    <3>2. \A v \in Workers : wk'[v].pc \in {"get", "write", "save"} => ~wk'[v].isDelete
      BY <2>1 DEF OneInv
    <3>3. \A v \in Workers : Creating(v)' => Creating(v)
      BY <2>1, <3>1 DEF Creating
    <3>4. ASSUME "twins" \notin stray'
          PROVE  /\ ~Twins'
                 /\ \A q, r \in Rows' : q = r
                 /\ (\E v \in Workers : Creating(v)') => Rows' = {}
      <4>1. "twins" \notin stray /\ ~Twins'
        BY <3>4 DEF Remember
      <4>2. Rows = {}
        BY <3>1, <4>1 DEF OneInv
      <4> QED  BY <2>3, <4>1, <4>2
    <3>5. ASSUME stray' \cap {"twins", "orphan"} = {}, NEW q \in PageIds, pages'[q].st # "none"
          PROVE  \/ \E r \in Rows' : ledger'[r].ext = q
                 \/ \E v \in Workers : Inserting(v)' /\ wk'[v].copy.ext = q
      <4>1. CASE q = p
        BY <2>1, <3>1, <4>1
      <4>2. CASE q # p
        <5>1. stray \cap {"twins", "orphan"} = {} /\ pages[q].st # "none"
          BY <2>2, <3>5, <4>2 DEF Remember
        <5>2. \/ \E r \in Rows : ledger[r].ext = q
              \/ \E v \in Workers : Inserting(v) /\ wk[v].copy.ext = q
          BY <5>1 DEF OneInv
        <5>3. ~Inserting(w)
          BY <1>0 DEF Inserting
        <5>4. \A v \in Workers : Inserting(v) => Inserting(v)' /\ wk'[v] = wk[v]
          BY <2>1, <5>3 DEF Inserting
        <5> QED  BY <1>0, <2>3, <5>2, <5>4
      <4> QED  BY <4>1, <4>2
    <3> QED  BY <2>a, <3>2, <3>4, <3>5 DEF OneInv
  <2> QED  BY <2>4, <2>5
<1> QED
  <2>1. \/ \E p \in PageIds :
             /\ IF wk[w].row = NoRow THEN pages[p].st = "none"
                ELSE p = wk[w].copy.ext /\ pages[p].st = "live"
             /\ Written(p, wk[w].val)
             /\ wk' = [wk EXCEPT ![w].copy.ext = p, ![w].pc = "save"]
        \/ Goto(w, "fail") /\ UNCHANGED pages
    BY Zenon DEF Write
  <2> QED  BY <1>1, <1>2, <2>1

\* A row is inserted by the only handler that saw none.
LEMMA SaveOne ==
  ASSUME OneInv, NameInv', Remember, NEW w \in Workers, Save(w)
  PROVE  OneInv'
<1>t. /\ TypeOK /\ wk \in [Workers -> Slot] /\ wk[w] \in Slot /\ ledger \in [RowIds -> Row]
      /\ NoRow \notin RowIds
  BY NullAssumption DEF OneInv, NameInv, TypeOK
<1> DEFINE row == [wk[w].copy EXCEPT !.st = "synced", !.conflict = FALSE, !.synced = rec.upd]
<1>1. row \in Row /\ row.st # "none" /\ row.ext = wk[w].copy.ext
  BY <1>t DEF Slot, Row, TypeOK, Record
<1>2. PICK r \in RowIds : /\ IF wk[w].row = NoRow THEN r \notin Rows ELSE r = wk[w].row
                          /\ ledger' = [ledger EXCEPT ![r] = row]
  BY DEF Save
<1>3. wk' = [wk EXCEPT ![w] = IdleSlot] /\ pages' = pages /\ wk[w].pc = "save"
  BY DEF Save, Done
<1> HIDE DEF row
<1>4. CASE wk[w].row # NoRow
  <2>1. ~Inserting(w) /\ r = wk[w].row
    BY <1>2, <1>4 DEF Inserting
  <2> QED  BY <1>1, <1>2, <1>3, <2>1, SavedOne
<1>5. CASE wk[w].row = NoRow
  <2>1. Creating(w) /\ Inserting(w)
    BY <1>3, <1>5 DEF OneInv, Creating, Inserting
  <2>2. /\ wk'[w].pc = "idle" /\ \A v \in Workers : v # w => wk'[v] = wk[v]
    BY <1>3, <1>t DEF IdleSlot
  <2>3. /\ Rows' = Rows \cup {r} /\ ledger'[r] = row
        /\ \A q \in RowIds : q # r => ledger'[q] = ledger[q]
    BY <1>1, <1>2, <1>t DEF Rows
  <2>4. r \notin Rows
    BY <1>2, <1>5
  <2>5. \A v \in Workers :
          /\ wk'[v].pc \in {"get", "write", "save"} => ~wk'[v].isDelete
          /\ wk'[v].pc = "archive" => wk'[v].row # NoRow
    BY <2>2 DEF OneInv
  <2>6. ASSUME "twins" \notin stray'
        PROVE  /\ ~Twins'
               /\ \A p, q \in Rows' : p = q
               /\ (\E v \in Workers : Creating(v)') => Rows' = {}
    <3>1. "twins" \notin stray /\ ~Twins'
      BY <2>6 DEF Remember
    <3>2. Rows = {} /\ ~Twins
      BY <2>1, <3>1 DEF OneInv
    <3>3. \A v \in Workers : ~Creating(v)'
      BY <2>1, <2>2, <3>2 DEF Twins, Creating
    <3> QED  BY <2>3, <3>1, <3>2, <3>3
  <2>7. ASSUME stray' \cap {"twins", "orphan"} = {}, NEW p \in PageIds, pages'[p].st # "none"
        PROVE  \/ \E q \in Rows' : ledger'[q].ext = p
               \/ \E v \in Workers : Inserting(v)' /\ wk'[v].copy.ext = p
    <3>1. stray \cap {"twins", "orphan"} = {} /\ pages[p].st # "none"
      BY <1>3, <2>7 DEF Remember
    <3>2. \/ \E q \in Rows : ledger[q].ext = p
          \/ \E v \in Workers : Inserting(v) /\ wk[v].copy.ext = p
      BY <3>1 DEF OneInv
    <3>3. CASE \E q \in Rows : ledger[q].ext = p
      <4>1. \A q \in Rows : q \in RowIds /\ q # r
        BY <2>4 DEF Rows
      <4> QED  BY <2>3, <3>3, <4>1
    <3>4. ASSUME NEW v \in Workers, Inserting(v), wk[v].copy.ext = p
          PROVE  \/ \E q \in Rows' : ledger'[q].ext = p
                 \/ \E u \in Workers : Inserting(u)' /\ wk'[u].copy.ext = p
      <4>1. CASE v = w
        BY <1>1, <2>3, <3>4, <4>1
      <4>2. CASE v # w
        <5>1. wk'[v] = wk[v]
          BY <2>2, <4>2
        <5> QED  BY <3>4, <5>1 DEF Inserting
      <4> QED  BY <4>1, <4>2
    <3> QED  BY <3>2, <3>3, <3>4
  <2> QED  BY <2>5, <2>6, <2>7 DEF OneInv
<1> QED  BY <1>4, <1>5

LEMMA PushOne ==
  ASSUME OneInv, NameInv', Remember, NEW w \in Workers, PushStep(w)
  PROVE  OneInv'
<1>t. TypeOK /\ wk \in [Workers -> Slot] /\ wk[w] \in Slot
  BY DEF OneInv, NameInv, TypeOK
<1>d. ASSUME Done(w), ledger' = ledger, pages' = pages
      PROVE  OneInv'
  BY <1>d, <1>t, CalmSlots, QuietOne
<1>g. ASSUME wk[w].pc # "save", NEW pc \in Ends, Goto(w, pc), ledger' = ledger,
             \A p \in PageIds : pages'[p].st = "none" <=> pages[p].st = "none"
      PROVE  OneInv'
  BY <1>g, <1>t, CalmSlots, QuietOne
<1>1. CASE Begin(w)
  <2>1. CASE ~active
    BY <1>1, <2>1, <1>d DEF Begin
  <2>2. CASE active
    <3> DEFINE row == IF Rows = {} THEN NoRow ELSE First(Rows)
               copy == IF Rows = {} THEN FreeRow ELSE ledger[First(Rows)]
    <3>1. row = NoRow => Rows = {}
      BY <1>t, FirstRow, NullAssumption
    <3>2. /\ wk' = [wk EXCEPT ![w].row = row, ![w].copy = copy, ![w].pc = "load"]
          /\ ledger' = ledger /\ pages' = pages /\ wk[w].pc = "begin"
      BY <1>1, <2>2, Zenon DEF Begin
    <3> HIDE DEF row, copy
    <3>3. \A v \in Workers : Calm(v)
      BY <1>t, <3>1, <3>2 DEF Slot, Calm
    <3> QED  BY <3>2, <3>3, QuietOne
  <2> QED  BY <1>t, <2>1, <2>2 DEF TypeOK
<1>2. CASE Load(w)
  <2>1. CASE wk[w].isDelete
    <3>1. CASE wk[w].row = NoRow
      BY <1>2, <2>1, <3>1, <1>d DEF Load
    <3>2. CASE wk[w].row # NoRow
      <4>1. Goto(w, "archive") /\ ledger' = ledger /\ pages' = pages /\ wk[w].pc = "load"
        BY <1>2, <2>1, <3>2 DEF Load
      <4>2. \A v \in Workers : Calm(v)
        BY <1>t, <3>2, <4>1 DEF Goto, Slot, Calm, Creators, Inserting
      <4> QED  BY <4>1, <4>2, QuietOne
    <3> QED  BY <3>1, <3>2
  <2>2. CASE ~wk[w].isDelete
    <3>1. \A v \in Workers : Calm(v)
      BY <1>2, <1>t, <2>2 DEF Load, Slot, Calm, Creators, Inserting
    <3> QED  BY <1>2, <3>1, QuietOne DEF Load
  <2> QED  BY <2>1, <2>2
<1>3. CASE GetVersion(w)
  <2>1. /\ wk[w].pc = "get" /\ ledger' = ledger /\ pages' = pages /\ ~wk[w].isDelete
        /\ "conflict" \in Ends /\ "fail" \in Ends
    BY <1>3 DEF GetVersion, OneInv, Ends
  <2>2. CASE Goto(w, "write")
    <3>1. \A v \in Workers : Calm(v)
      BY <1>t, <2>1, <2>2 DEF Goto, Slot, Calm
    <3> QED  BY <2>1, <3>1, QuietOne
  <2>3. CASE Goto(w, "conflict") \/ Goto(w, "fail")
    BY <2>1, <2>3, <1>g
  <2> QED  BY <1>3, <2>2, <2>3 DEF GetVersion
<1>4. CASE Write(w)
  BY <1>4, WriteOne
<1>5. CASE Save(w)
  BY <1>5, SaveOne
<1>6. CASE Archive(w)
  <2>1. \A p \in PageIds : pages'[p].st = "none" <=> pages[p].st = "none"
    <3>1. CASE pages' = pages
      BY <3>1
    <3>2. CASE pages' = [pages EXCEPT ![wk[w].copy.ext].st = "archived",
                                      ![wk[w].copy.ext].edited = @ + 1]
      <4>1. wk[w].copy.ext \in PageIds /\ pages[wk[w].copy.ext].st # "none"
        <5>1. wk[w].row # NoRow
          BY <1>6 DEF Archive, OneInv
        <5>2. wk[w].row \in Rows /\ wk[w].copy.ext = ledger[wk[w].row].ext
          BY <5>1 DEF OneInv, NameInv, CopiesAreNamed
        <5> QED  BY <5>2 DEF OneInv, NameInv, RowsAreNamed
      <4>2. pages \in [PageIds -> Page]
        BY <1>t DEF TypeOK
      <4> QED  BY <3>2, <4>1, <4>2 DEF Page
    <3> QED  BY <1>6, <3>1, <3>2 DEF Archive
  <2>2. /\ wk[w].pc # "save" /\ "savedel" \in Ends /\ "fail" \in Ends
    BY <1>6 DEF Archive, Ends
  <2> QED  BY <1>6, <2>1, <2>2, <1>g DEF Archive
<1>7. CASE SaveArchived(w)
  <2> DEFINE row == [wk[w].copy EXCEPT !.st = "synced", !.synced = rec.upd]
  <2>1. row \in Row /\ row.st # "none" /\ row.ext = wk[w].copy.ext
    BY <1>t DEF Slot, Row, TypeOK, Record
  <2>2. /\ ledger' = [ledger EXCEPT ![wk[w].row] = row] /\ ~Inserting(w)
        /\ wk' = [wk EXCEPT ![w] = IdleSlot] /\ pages' = pages
    BY <1>7 DEF SaveArchived, Done, Inserting
  <2> HIDE DEF row
  <2> QED  BY <2>1, <2>2, SavedOne
<1> QED  BY <1>1, <1>2, <1>3, <1>4, <1>5, <1>6, <1>7 DEF PushStep

LEMMA PullOne ==
  ASSUME OneInv, NameInv', Remember, NEW w \in Workers, PullStep(w)
  PROVE  OneInv'
<1>t. TypeOK /\ wk \in [Workers -> Slot] /\ wk[w] \in Slot
  BY DEF OneInv, NameInv, TypeOK
<1>d. ASSUME Done(w), ledger' = ledger, pages' = pages
      PROVE  OneInv'
  BY <1>d, <1>t, CalmSlots, QuietOne
<1>g. ASSUME wk[w].pc # "save", NEW pc \in Ends, Goto(w, pc), ledger' = ledger, pages' = pages
      PROVE  OneInv'
  BY <1>g, <1>t, CalmSlots, QuietOne
<1>1. CASE Find(w)
  <2> DEFINE found == Linked(TaskOf(w).page)
  <2>1. CASE found = {} \/ ~active
    BY <1>1, <2>1, <1>d DEF Find
  <2>2. CASE ~(found = {} \/ ~active)
    <3>1. /\ wk' = [wk EXCEPT ![w].row = First(found), ![w].copy = ledger[First(found)],
                              ![w].pc = "fetch"]
          /\ ledger' = ledger /\ pages' = pages /\ wk[w].pc = "find"
      BY <1>1, <2>2 DEF Find
    <3> HIDE DEF found
    <3>2. \A v \in Workers : Calm(v)
      BY <1>t, <3>1 DEF Slot, Calm, Creators, Inserting
    <3> QED  BY <3>1, <3>2, QuietOne
  <2> QED  BY <2>1, <2>2
<1>2. CASE Fetch(w)
  <2>1. ledger' = ledger /\ pages' = pages /\ wk[w].pc = "fetch"
    BY <1>2 DEF Fetch
  <2>2. CASE Goto(w, "fail")
    BY <2>1, <2>2, <1>g DEF Ends
  <2>3. CASE \E p \in PageIds :
               wk' = [wk EXCEPT ![w].val = pages[p].val,
                                ![w].seen = pages[p].edited, ![w].pc = "check"]
    <3>1. \A v \in Workers : Calm(v)
      BY <1>t, <2>1, <2>3 DEF Slot, Calm, Creators, Inserting
    <3> QED  BY <2>1, <3>1, QuietOne
  <2> QED  BY <1>2, <2>2, <2>3 DEF Fetch
<1>3. CASE Check(w)
  BY <1>3, <1>d, <1>g DEF Check, Ends
<1>4. CASE Apply(w)
  BY <1>4, <1>g DEF Apply, Ends
<1>5. CASE Put(w)
  BY <1>5, <1>g DEF Put, Ends
<1>6. CASE SavePulled(w)
  <2> DEFINE row == [wk[w].copy EXCEPT !.st = "synced", !.conflict = FALSE,
                                       !.remote = wk[w].seen, !.synced = rec.upd]
  <2>1. row \in Row /\ row.st # "none" /\ row.ext = wk[w].copy.ext
    BY <1>t DEF Slot, Row, TypeOK, Record
  <2>2. /\ ledger' = [ledger EXCEPT ![wk[w].row] = row] /\ ~Inserting(w)
        /\ wk' = [wk EXCEPT ![w] = IdleSlot] /\ pages' = pages
    BY <1>6 DEF SavePulled, Done, Inserting
  <2> HIDE DEF row
  <2> QED  BY <2>1, <2>2, SavedOne
<1> QED  BY <1>1, <1>2, <1>3, <1>4, <1>5, <1>6 DEF PullStep

LEMMA SharedOne ==
  ASSUME OneInv, NameInv', Remember, NEW w \in Workers,
         MarkConflict(w) \/ RecordFailure(w) \/ Fault(w) \/ \E t \in TaskIds : Dequeue(w, t)
  PROVE  OneInv'
<1>t. TypeOK /\ wk \in [Workers -> Slot] /\ wk[w] \in Slot
  BY DEF OneInv, NameInv, TypeOK
<1>1. CASE MarkConflict(w)
  <2> DEFINE version == IF TaskOf(w).op = "pull" THEN wk[w].seen ELSE wk[w].copy.remote
             row == [wk[w].copy EXCEPT !.st = "conflict", !.conflict = TRUE,
                                       !.remote = version]
  <2>1. version \in Nat
    BY <1>t DEF Slot, Row
  <2>2. /\ ledger' = [ledger EXCEPT ![wk[w].row] = row] /\ ~Inserting(w)
        /\ wk' = [wk EXCEPT ![w] = IdleSlot] /\ pages' = pages
    BY <1>1 DEF MarkConflict, Done, Inserting
  <2>3. row \in Row /\ row.st # "none" /\ row.ext = wk[w].copy.ext
    <3> HIDE DEF version
    <3> QED  BY <1>t, <2>1 DEF Slot, Row
  <2> HIDE DEF row
  <2> QED  BY <2>2, <2>3, SavedOne
<1>2. CASE RecordFailure(w)
  <2> DEFINE row == [wk[w].copy EXCEPT !.st = "error"]
  <2>1. row \in Row /\ row.st # "none" /\ row.ext = wk[w].copy.ext
    BY <1>t DEF Slot, Row
  <2>2. /\ wk' = [wk EXCEPT ![w] = IdleSlot] /\ pages' = pages /\ ~Inserting(w)
        /\ ledger' = ledger \/ ledger' = [ledger EXCEPT ![wk[w].row] = row]
    BY <1>2 DEF RecordFailure, Retry, Inserting
  <2> HIDE DEF row
  <2>3. CASE ledger' = ledger
    BY <1>2, <1>t, <2>2, <2>3, CalmSlots, QuietOne DEF RecordFailure
  <2>4. CASE ledger' = [ledger EXCEPT ![wk[w].row] = row]
    BY <2>1, <2>2, <2>4, SavedOne
  <2> QED  BY <2>2, <2>3, <2>4
<1>3. CASE Fault(w)
  BY <1>3, <1>t, CalmSlots, QuietOne DEF Fault, Crash, SaveArchivedFails, RecordFailureFails
<1>4. CASE \E t \in TaskIds : Dequeue(w, t)
  <2>1. PICK t \in TaskIds : Dequeue(w, t)
    BY <1>4
  <2> DEFINE pc == IF tasks[t].op = "pull" THEN "find" ELSE "begin"
             slot == [IdleSlot EXCEPT !.pc = pc, !.isDelete = (tasks[t].op = "delete"),
                                      !.task = t]
  <2>2. pc \in {"find", "begin"} /\ slot.pc = pc
    BY DEF IdleSlot
  <2>3. wk' = [wk EXCEPT ![w] = slot] /\ wk[w].pc = "idle"
    BY <2>1 DEF Dequeue
  <2> HIDE DEF slot, pc
  <2>4. \A v \in Workers : Calm(v)
    BY <1>t, <2>2, <2>3 DEF Calm, Creators, Inserting
  <2> QED  BY <2>1, <2>4, QuietOne DEF Dequeue
<1> QED  BY <1>1, <1>2, <1>3, <1>4

LEMMA WorldOne ==
  ASSUME OneInv, NameInv', Remember,
         Edit \/ Delete \/ Disconnect \/ \E p \in PageIds : RemoteEdit(p) \/ Webhook(p)
  PROVE  OneInv'
<1>1. wk' = wk /\ ledger' = ledger
  BY DEF Edit, Delete, Disconnect, RemoteEdit, Webhook
<1>2. \A p \in PageIds : pages'[p].st = pages[p].st
  <2>1. CASE Edit \/ Delete \/ Disconnect
    BY <2>1 DEF Edit, Delete, Disconnect
  <2>2. ASSUME NEW p \in PageIds, RemoteEdit(p) \/ Webhook(p), NEW q \in PageIds
        PROVE  pages'[q].st = pages[q].st
    <3>1. pages \in [PageIds -> Page]
      BY DEF OneInv, NameInv, TypeOK
    <3>2. CASE Webhook(p)
      BY <3>1, <3>2 DEF Webhook, Page
    <3>3. CASE RemoteEdit(p)
      <4>1. PICK val \in {edits + 1, Empty} :
              pages' = [pages EXCEPT ![p].val = val, ![p].edited = @ + 1,
                                     ![p].unnoticed = TRUE]
        BY <3>3 DEF RemoteEdit
      <4> QED  BY <3>1, <4>1 DEF Page
    <3> QED  BY <2>2, <3>2, <3>3
  <2> QED  BY <2>1, <2>2
<1>3. \A v \in Workers : Calm(v)
  BY <1>1 DEF Calm
<1> QED  BY <1>1, <1>2, <1>3, QuietOne

LEMMA OneStays == Spec => []OneInv
<1>1. OneInv /\ [Next]_vars /\ NameInv' => OneInv'
  <2> SUFFICES ASSUME OneInv, [Next]_vars, NameInv' PROVE OneInv'
    OBVIOUS
  <2>1. CASE UNCHANGED vars
    BY <2>1 DEF vars, OneInv, Twins, Creating, Inserting, Rows
  <2>2. CASE Next
    <3>1. Remember
      BY <2>2 DEF Next
    <3> QED
      BY <2>2, <3>1, PushOne, PullOne, SharedOne, WorldOne DEF Next, Step, Handle
  <2> QED  BY <2>1, <2>2
<1>2. OneInv => NameInv
  BY DEF OneInv
<1> QED  BY <1>1, <1>2, InitOne, NamesStay, PTL DEF Spec

\* A record has one row unless two handlers had both looked for it in vain, and
\* one page unless, besides, a handler died between creating the page
\* (push.go:224) and inserting its row (:252); and two rows never name the
\* same page: for any number of handlers, tasks, edits, retries and faults.
THEOREM RecordHasOne == Spec => []OneRowOnePage
<1>1. OneInv => OneRowOnePage
  <2> SUFFICES ASSUME OneInv PROVE OneRowOnePage
    OBVIOUS
  <2>1. RowsNameDistinctPages
    BY DEF OneInv, NameInv
  <2>2. ASSUME "twins" \notin stray, NEW q \in Rows, NEW r \in Rows
        PROVE  q = r
    BY <2>2 DEF OneInv
  <2>3. ASSUME stray \cap {"twins", "orphan"} = {}, NEW p \in PageIds, NEW q \in PageIds,
               pages[p].st # "none", pages[q].st # "none"
        PROVE  p = q
    <3>1. /\ ~Twins /\ \A r, s \in Rows : r = s
          /\ (\E w \in Workers : Creating(w)) => Rows = {}
      BY <2>3 DEF OneInv
    <3>2. \A w \in Workers : Inserting(w) => Creating(w)
      BY DEF OneInv, Inserting, Creating
    <3>3. /\ \/ \E r \in Rows : ledger[r].ext = p
             \/ \E w \in Workers : Inserting(w) /\ wk[w].copy.ext = p
          /\ \/ \E r \in Rows : ledger[r].ext = q
             \/ \E w \in Workers : Inserting(w) /\ wk[w].copy.ext = q
      BY <2>3 DEF OneInv
    <3> QED  BY <3>1, <3>2, <3>3 DEF Twins
  <2> QED  BY <2>1, <2>2, <2>3 DEF OneRowOnePage
<1> QED  BY <1>1, OneStays, PTL

(***************************************************************************)
(* One handler: the two sides agree when all has been handled              *)
(*                                                                         *)
(* SettledInv says, of every state, why they will: an event still waits    *)
(* that will be a push or a pull (Queued), or what the handler is doing    *)
(* ends with the two sides the same (OnCourse); and the same of the pages  *)
(* of a deleted record (DeadInv).                                          *)
(***************************************************************************)

\* A handler that is not idle works on a task it has taken off the queue; the
\* step it is at says of which kind, and when it knows the record's row.
PushOnly == {"begin", "load", "get", "write", "save", "archive", "savedel"}
PullOnly == {"find", "fetch", "check", "apply", "put", "psave"}

KnowsTask(h) ==
  /\ wk[h].pc # "idle" => wk[h].task \in TaskIds /\ TaskOf(h).st = "active"
  /\ wk[h].pc = "idle" => ~wk[h].isDelete
  /\ wk[h].pc \in PushOnly => TaskOf(h).op # "pull"
  /\ wk[h].pc \in PullOnly => TaskOf(h).op = "pull"

KnowsRow(h) ==
  /\ wk[h].pc \in (PullOnly \ {"find"}) \cup {"get", "conflict", "archive", "savedel"} =>
       wk[h].row # NoRow
  /\ wk[h].pc \notin {"idle", "find"} /\ TaskOf(h).op = "pull" =>
       wk[h].row # NoRow /\ wk[h].copy.ext = TaskOf(h).page
  /\ wk[h].pc = "load" /\ wk[h].row = NoRow => wk[h].copy.remote = 0
  /\ wk[h].pc \in {"load", "get", "write", "save"} /\ wk[h].row = NoRow => Rows = {}
  /\ wk[h].pc = "savedel" => pages[wk[h].copy.ext].st = "archived"

\* The record has at most one row.
OneRow == \A q, r \in Rows : q = r

\* Before the record there is nothing.
Blank == rec.st = "none" =>
  /\ Rows = {}
  /\ \A t \in TaskIds : tasks[t].st = "free"
  /\ \A p \in PageIds : pages[p].st = "none" /\ ~pages[p].unnoticed

\* Nothing is ever cleared.
Filled(h) ==
  /\ rec.st = "alive" => rec.val # Empty
  /\ \A p \in PageIds : pages[p].st # "none" => pages[p].val # Empty
  /\ wk[h].pc \in {"get", "write", "save", "apply", "put", "psave"} => wk[h].val # Empty

\* A record without a row that is to be deleted, is.
Buried(h) ==
  Rows = {} /\ (wk[h].isDelete \/ \E t \in TaskIds : tasks[t].st # "free" /\ tasks[t].op = "delete")
    => rec.st = "deleted"

Pending(op) == \E t \in TaskIds : tasks[t].st = "pending" /\ tasks[t].op = op

\* A page the ledger knows of, or is about to, was edited or is to be read.
PullDue(h) ==
  \E p \in PageIds :
    /\ Linked(p) # {} \/ (wk[h].pc = "save" /\ p = wk[h].copy.ext)
    /\ \/ pages[p].unnoticed
       \/ \E t \in TaskIds :
            tasks[t].st = "pending" /\ tasks[t].op = "pull" /\ tasks[t].page = p

Queued(h) == Pending("push") \/ Pending("delete") \/ PullDue(h)

\* What the handler is about to do makes the two sides agree.
OnCourse(h) ==
  /\ wk[h].pc = "idle" => Agree
  /\ wk[h].pc = "find" => Linked(TaskOf(h).page) # {} \/ Agree
  /\ wk[h].pc \in {"get", "write", "save", "psave"} => wk[h].val = rec.val
  /\ wk[h].pc = "save" => pages[wk[h].copy.ext].val = wk[h].val
  /\ wk[h].pc \in {"check", "apply", "put", "psave"} =>
       wk[h].val = pages[TaskOf(h).page].val

NoneArchived == \A p \in PageIds : pages[p].st # "archived"

LiveInv(h) == ~lost /\ rec.st = "alive" /\ NoneArchived => Queued(h) \/ OnCourse(h)

\* No row names a page that is live.
NoneLive == \A r \in Rows : pages[ledger[r].ext].st # "live"

DeadInv(h) ==
  ~lost /\ rec.st = "deleted" =>
    \/ Pending("push") \/ Pending("delete")
    \/ wk[h].pc \in {"begin", "load", "archive", "fail"} /\ TaskOf(h).op # "pull"
    \/ wk[h].pc \notin {"get", "write", "save"} /\ NoneLive

\* Without faults every page has its row, or is about to have it.
OrphanInv(h) ==
  faults = 0 =>
    \A p \in PageIds : pages[p].st # "none" =>
      Linked(p) # {} \/ (Inserting(h) /\ wk[h].copy.ext = p)

SettledInv(h) ==
  /\ NameInv /\ KnowsTask(h) /\ KnowsRow(h) /\ OneRow /\ Blank /\ Filled(h)
  /\ Buried(h) /\ DeadInv(h) /\ OrphanInv(h) /\ LiveInv(h)

LEMMA InitSettled ==
  ASSUME NEW h \in Workers
  PROVE  Init => SettledInv(h)
<1> SUFFICES ASSUME Init PROVE SettledInv(h)
  OBVIOUS
<1>1. Rows = {} /\ NameInv
  BY InitNames DEF Init, Rows, FreeRow
<1>2. /\ wk[h].pc = "idle" /\ ~wk[h].isDelete /\ wk[h].row = NoRow
      /\ rec.st = "none" /\ rec.val = Empty
      /\ \A t \in TaskIds : tasks[t].st = "free"
      /\ \A p \in PageIds : pages[p].st = "none" /\ ~pages[p].unnoticed
  BY DEF Init, IdleSlot, FreeTask, FreePage
<1> QED
  BY <1>1, <1>2 DEF SettledInv, KnowsTask, KnowsRow, OneRow, Blank, Filled, Buried,
     DeadInv, OrphanInv, LiveInv, PushOnly, PullOnly

\* What a step that leaves the ledger alone leaves alone with it.
LEMMA SameRows ==
  ASSUME \A r \in RowIds : ledger'[r].ext = ledger[r].ext, Rows' = Rows
  PROVE  /\ \A p : Linked(p)' = Linked(p)
         /\ OneRow => OneRow'
<1>1. ASSUME NEW p PROVE Linked(p)' = Linked(p)
  BY DEF Linked, Rows
<1>2. OneRow => OneRow'
  BY DEF OneRow
<1> QED  BY <1>1, <1>2

\* A step of the handler that changes nothing but its slot.
Moved(h) ==
  /\ UNCHANGED <<rec, pages, ledger, tasks, lost>>
  /\ wk'[h].task = wk[h].task /\ wk'[h].isDelete = wk[h].isDelete
  /\ wk'[h].row = wk[h].row /\ wk'[h].copy = wk[h].copy
  /\ \/ /\ wk[h].pc = "load" /\ rec.st = "alive" /\ wk'[h].val = rec.val
        /\ \/ wk'[h].pc = "write"
           \/ wk'[h].pc = "get" /\ wk[h].copy.remote # 0
     \/ /\ wk[h].pc = "load" /\ wk[h].row # NoRow /\ wk'[h].val = wk[h].val
        /\ wk'[h].pc = "archive"
     \/ /\ wk[h].pc = "fetch" /\ TaskOf(h).page \in PageIds
        /\ wk'[h].val = pages[TaskOf(h).page].val /\ wk'[h].pc = "check"
     \/ /\ wk[h].pc = "check" /\ wk[h].val # Empty /\ wk'[h].val = wk[h].val
        /\ wk'[h].pc = "apply"
     \/ /\ wk'[h].val = wk[h].val
        /\ \/ wk[h].pc = "get" /\ wk'[h].pc \in {"conflict", "write"}
           \/ wk[h].pc = "check" /\ wk'[h].pc = "conflict"
           \/ wk[h].pc = "apply" /\ wk'[h].pc = "put"
           \/ wk[h].pc \in {"get", "write", "archive", "fetch", "apply"} /\ wk'[h].pc = "fail"

LEMMA MovedSettled ==
  ASSUME NEW h \in Workers, SettledInv(h), NameInv', faults' = faults \/ faults' # 0, Moved(h)
  PROVE  SettledInv(h)'
<1>1. Rows' = Rows /\ \A r \in RowIds : ledger'[r].ext = ledger[r].ext
  BY DEF Moved, Rows
<1>2. (\A p : Linked(p)' = Linked(p)) /\ OneRow' /\ TaskOf(h)' = TaskOf(h)
  BY <1>1, SameRows DEF SettledInv, Moved, TaskOf
<1>3. KnowsTask(h)'
  BY <1>2 DEF SettledInv, KnowsTask, Moved, PushOnly, PullOnly
<1>4. KnowsRow(h)'
  BY <1>1, <1>2 DEF SettledInv, KnowsTask, KnowsRow, Moved, PushOnly, PullOnly
<1>5. Blank' /\ Buried(h)'
  BY <1>1 DEF SettledInv, Blank, Buried, Moved
<1>6. Filled(h)'
  BY DEF SettledInv, Filled, Moved
<1>7. /\ \A op : Pending(op)' = Pending(op)
      /\ NoneLive' = NoneLive /\ NoneArchived' = NoneArchived /\ Agree' = Agree
  BY <1>1 DEF Moved, Pending, NoneLive, NoneArchived, Agree
<1>8. DeadInv(h)'
  BY <1>2, <1>7 DEF SettledInv, DeadInv, Moved, KnowsTask, PushOnly, PullOnly
<1>9. wk[h].pc # "save" /\ wk'[h].pc # "save" /\ (OrphanInv(h) => OrphanInv(h)')
  BY <1>2 DEF Moved, OrphanInv, Inserting
<1>10. Queued(h) => Queued(h)'
  BY <1>2, <1>7, <1>9 DEF Queued, PullDue, Moved
<1>11. OnCourse(h) => OnCourse(h)'
  BY <1>2, <1>7 DEF OnCourse, Moved
<1>12. LiveInv(h)'
  BY <1>7, <1>10, <1>11 DEF SettledInv, LiveInv, Moved
<1> QED  BY <1>2, <1>3, <1>4, <1>5, <1>6, <1>8, <1>9, <1>12 DEF SettledInv

LEMMA GoneTo ==
  ASSUME NEW h \in Workers, TypeOK, NEW pc \in Steps, Goto(h, pc)
  PROVE  /\ wk'[h].pc = pc /\ wk'[h].task = wk[h].task /\ wk'[h].isDelete = wk[h].isDelete
         /\ wk'[h].row = wk[h].row /\ wk'[h].copy = wk[h].copy /\ wk'[h].val = wk[h].val
         /\ wk'[h].seen = wk[h].seen /\ tasks' = tasks
  BY DEF TypeOK, Goto, Slot

LEMMA FailedCall ==
  ASSUME TypeOK, CallFails
  PROVE  faults' # 0
  BY BoundsAssumption DEF TypeOK, CallFails

\* A step after which the handler is idle, and the task it had is gone or is
\* pending again.
Ended(h, task) ==
  /\ wk'[h].pc = "idle" /\ ~wk'[h].isDelete /\ wk'[h].row = NoRow
  /\ wk[h].pc # "idle" /\ tasks' = [tasks EXCEPT ![wk[h].task] = task]
  /\ task.st \in {"free", "pending"}
  /\ task.st = "pending" => task.op = TaskOf(h).op /\ task.page = TaskOf(h).page

\* The tasks of others stay.
LEMMA EndedTasks ==
  ASSUME NEW h \in Workers, TypeOK, KnowsTask(h), NEW task, Ended(h, task)
  PROVE  /\ wk[h].task \in TaskIds /\ TaskOf(h).st = "active"
         /\ tasks'[wk[h].task] = task
         /\ \A t \in TaskIds : t # wk[h].task => tasks'[t] = tasks[t]
         /\ \A op : Pending(op) => Pending(op)'
         /\ \A t \in TaskIds : tasks[t].st = "pending" => tasks'[t] = tasks[t]
<1>1. /\ wk[h].task \in TaskIds /\ TaskOf(h).st = "active"
  BY DEF KnowsTask, Ended
<1>2. /\ tasks'[wk[h].task] = task
      /\ \A t \in TaskIds : t # wk[h].task => tasks'[t] = tasks[t]
  BY <1>1 DEF Ended, TypeOK
<1>3. \A t \in TaskIds : tasks[t].st = "pending" => tasks'[t] = tasks[t]
  BY <1>1, <1>2 DEF TaskOf
<1>4. ASSUME NEW op, Pending(op) PROVE Pending(op)'
  BY <1>3, <1>4 DEF Pending
<1> QED  BY <1>1, <1>2, <1>3, <1>4

\* A page someone waits for is waited for after a step that ends a task and
\* makes no row go.
LEMMA EndedQueued ==
  ASSUME NEW h \in Workers, TypeOK, CopiesAreNamed, KnowsTask(h), NEW task, Ended(h, task),
         pages' = pages, \A p \in PageIds : Linked(p) \subseteq Linked(p)',
         \A p \in PageIds : Inserting(h) /\ p = wk[h].copy.ext => Linked(p)' # {},
         Queued(h)
  PROVE  Queued(h)'
<1>1. CASE Pending("push") \/ Pending("delete")
  BY <1>1, EndedTasks DEF Queued
<1>2. CASE PullDue(h)
  <2>1. PICK p \in PageIds :
          /\ Linked(p) # {} \/ (wk[h].pc = "save" /\ p = wk[h].copy.ext)
          /\ \/ pages[p].unnoticed
             \/ \E t \in TaskIds :
                  tasks[t].st = "pending" /\ tasks[t].op = "pull" /\ tasks[t].page = p
    BY <1>2 DEF PullDue
  <2>2. Linked(p)' # {}
    <3>1. CASE Linked(p) # {}
      BY <3>1
    <3>2. CASE wk[h].pc = "save" /\ p = wk[h].copy.ext
      <4>1. CASE wk[h].row = NoRow
        BY <3>2, <4>1 DEF Inserting
      <4>2. CASE wk[h].row # NoRow
        <5>1. wk[h].row \in Linked(p)
          BY <3>2, <4>2 DEF CopiesAreNamed, Linked
        <5> QED  BY <5>1
      <4> QED  BY <4>1, <4>2
    <3> QED  BY <2>1, <3>1, <3>2
  <2>3. \/ pages'[p].unnoticed
        \/ \E t \in TaskIds :
             tasks'[t].st = "pending" /\ tasks'[t].op = "pull" /\ tasks'[t].page = p
    BY <2>1, EndedTasks
  <2>4. PullDue(h)'
    BY <2>2, <2>3 DEF PullDue
  <2> QED  BY <2>4 DEF Queued
<1> QED  BY <1>1, <1>2 DEF Queued

\* What holds of the record, its row and its pages however a task ends.
LEMMA EndedKeeps ==
  ASSUME NEW h \in Workers, SettledInv(h), NEW task, Ended(h, task), rec' = rec, pages' = pages,
         Rows' = Rows, \A r \in RowIds : ledger'[r].ext = ledger[r].ext,
         faults' # 0 \/ (faults' = faults /\ ~Inserting(h))
  PROVE  /\ KnowsTask(h)' /\ KnowsRow(h)' /\ OneRow' /\ Blank' /\ Filled(h)' /\ Buried(h)'
         /\ OrphanInv(h)'
         /\ NoneLive' = NoneLive /\ NoneArchived' = NoneArchived
         /\ \A p : Linked(p)' = Linked(p)
<1>t. TypeOK /\ KnowsTask(h)
  BY DEF SettledInv, NameInv
<1>1. (\A p : Linked(p)' = Linked(p)) /\ OneRow'
  BY SameRows DEF SettledInv
<1>2. KnowsTask(h)' /\ KnowsRow(h)' /\ Filled(h)'
  BY DEF Ended, SettledInv, KnowsTask, KnowsRow, Filled, PushOnly, PullOnly
<1>3. Blank'
  <2>1. rec.st # "none"
    BY <1>t, EndedTasks DEF SettledInv, Blank, TaskOf
  <2> QED  BY <2>1 DEF Blank
<1>4. Buried(h)'
  <2> SUFFICES ASSUME Rows' = {}, NEW t \in TaskIds, tasks'[t].st # "free", tasks'[t].op = "delete"
               PROVE  rec.st = "deleted"
    BY DEF Buried, Ended
  <2>1. tasks[t].st # "free" /\ tasks[t].op = "delete"
    <3>0. /\ TaskOf(h).st = "active" /\ tasks'[wk[h].task] = task
          /\ \A u \in TaskIds : u # wk[h].task => tasks'[u] = tasks[u]
      BY <1>t, EndedTasks
    <3>1. CASE t = wk[h].task
      BY <3>0, <3>1 DEF Ended, TaskOf
    <3>2. CASE t # wk[h].task
      BY <3>0, <3>2
    <3> QED  BY <3>1, <3>2
  <2> QED  BY <2>1 DEF SettledInv, Buried
<1>5. OrphanInv(h)'
  BY <1>1 DEF SettledInv, OrphanInv, Ended, Inserting
<1>6. Rows \subseteq RowIds
  BY DEF Rows
<1>7. NoneLive' = NoneLive /\ NoneArchived' = NoneArchived
  BY <1>6 DEF NoneLive, NoneArchived
<1> QED  BY <1>1, <1>2, <1>3, <1>4, <1>5, <1>7

\* A task that is to be tried again, or was dropped for good.
LEMMA RetrySettled ==
  ASSUME NEW h \in Workers, SettledInv(h), NameInv', wk[h].pc # "idle", Retry(h),
         rec' = rec, pages' = pages, Rows' = Rows,
         \A r \in RowIds : ledger'[r].ext = ledger[r].ext,
         ledger' = ledger \/ wk[h].pc = "fail",
         faults' # 0 \/ (faults' = faults /\ ~Inserting(h))
  PROVE  SettledInv(h)'
<1>t. /\ TypeOK /\ KnowsTask(h) /\ CopiesAreNamed /\ wk \in [Workers -> Slot]
      /\ tasks \in [TaskIds -> Task]
  BY DEF SettledInv, NameInv, TypeOK
<1> DEFINE task == Attempt(TaskOf(h))
<1>0. wk[h].task \in TaskIds /\ TaskOf(h) \in Task
  BY <1>t DEF KnowsTask, TaskOf
<1>1. /\ task.st \in {"free", "pending"}
      /\ task.st = "pending" => task.op = TaskOf(h).op /\ task.page = TaskOf(h).page
      /\ task.st = "free" => TaskOf(h).left = 0
  BY <1>0, BoundsAssumption DEF Attempt, FreeTask, Task
<1>2. Ended(h, task)
  BY <1>t, <1>1 DEF Ended, Retry, IdleSlot
<1>3. lost' \/ (~lost /\ task.st = "pending")
  BY <1>1 DEF Retry
<1> HIDE DEF task
<1>4. /\ KnowsTask(h)' /\ KnowsRow(h)' /\ OneRow' /\ Blank' /\ Filled(h)' /\ Buried(h)'
      /\ OrphanInv(h)'
      /\ NoneLive' = NoneLive /\ NoneArchived' = NoneArchived
      /\ \A p : Linked(p)' = Linked(p)
  BY <1>2, EndedKeeps
<1>5. tasks'[wk[h].task] = task /\ \A op : Pending(op) => Pending(op)'
  BY <1>2, <1>t, EndedTasks
<1>6. CASE lost'
  BY <1>4, <1>6 DEF SettledInv, DeadInv, LiveInv
<1>7. CASE ~lost /\ task.st = "pending" /\ TaskOf(h).op # "pull"
  <2>1. Pending("push")' \/ Pending("delete")'
    BY <1>0, <1>1, <1>5, <1>7 DEF Pending, Task
  <2> QED  BY <1>4, <2>1 DEF SettledInv, DeadInv, LiveInv, Queued
<1>8. CASE ~lost /\ task.st = "pending" /\ TaskOf(h).op = "pull"
  <2>1. DeadInv(h)'
    BY <1>2, <1>4, <1>5, <1>8 DEF SettledInv, DeadInv, Ended
  <2>2. LiveInv(h)'
    <3> SUFFICES ASSUME rec.st = "alive", NoneArchived
                 PROVE  Queued(h)' \/ OnCourse(h)'
      BY <1>4 DEF LiveInv
    <3>1. CASE Queued(h)
      <4>1. ~Inserting(h)
        BY <1>8 DEF Inserting, SettledInv, KnowsTask, PushOnly
      <4> QED  BY <1>2, <1>4, <1>t, <3>1, <4>1, EndedQueued
    <3>2. CASE OnCourse(h)
      <4>1. CASE Linked(TaskOf(h).page) # {}
        <5>1. PICK r \in Rows : ledger[r].ext = TaskOf(h).page
          BY <4>1 DEF Linked
        <5>2. TaskOf(h).page \in PageIds
          BY <5>1 DEF SettledInv, NameInv, RowsAreNamed
        <5>3. tasks'[wk[h].task].st = "pending" /\ tasks'[wk[h].task].op = "pull"
              /\ tasks'[wk[h].task].page = TaskOf(h).page
          BY <1>1, <1>5, <1>8
        <5>4. PullDue(h)'
          BY <1>0, <1>4, <4>1, <5>2, <5>3 DEF PullDue
        <5> QED  BY <5>4 DEF Queued
      <4>2. CASE Linked(TaskOf(h).page) = {}
        <5>1. wk[h].pc = "find"
          <6>1. wk[h].row = NoRow \/ wk[h].copy.ext # TaskOf(h).page
            BY <4>2 DEF SettledInv, NameInv, CopiesAreNamed, Linked
          <6> QED  BY <1>8, <6>1 DEF SettledInv, KnowsRow
        <5>2. Agree /\ ledger' = ledger
          BY <3>2, <4>2, <5>1 DEF OnCourse
        <5>3. Agree'
          BY <5>2 DEF Agree
        <5> QED  BY <1>2, <5>3 DEF OnCourse, Ended
      <4> QED  BY <4>1, <4>2
    <3> QED  BY <1>8, <3>1, <3>2 DEF SettledInv, LiveInv
  <2> QED  BY <1>4, <2>1, <2>2 DEF SettledInv
<1> QED  BY <1>3, <1>6, <1>7, <1>8

\* A task that is done leaves the two sides in agreement.
LEMMA DoneSettled ==
  ASSUME NEW h \in Workers, SettledInv(h), NameInv', wk[h].pc # "idle", Done(h),
         rec' = rec, pages' = pages, Rows' = Rows, faults' = faults \/ faults' # 0,
         ~Inserting(h),
         \A r \in RowIds : ledger'[r].ext = ledger[r].ext, ~lost' => ~lost,
         ~lost' /\ rec.st = "deleted" /\ TaskOf(h).op # "pull"
           /\ wk[h].pc \in {"begin", "load", "archive", "fail"} => NoneLive,
         ~lost' /\ rec.st = "alive" /\ NoneArchived /\ OnCourse(h) => Agree'
  PROVE  SettledInv(h)'
<1>t. /\ TypeOK /\ KnowsTask(h) /\ CopiesAreNamed /\ wk \in [Workers -> Slot]
  BY DEF SettledInv, NameInv, TypeOK
<1>2. Ended(h, FreeTask)
  BY <1>t DEF Ended, Done, IdleSlot, FreeTask
<1>4. /\ KnowsTask(h)' /\ KnowsRow(h)' /\ OneRow' /\ Blank' /\ Filled(h)' /\ Buried(h)'
      /\ OrphanInv(h)'
      /\ NoneLive' = NoneLive /\ NoneArchived' = NoneArchived
      /\ \A p : Linked(p)' = Linked(p)
  BY <1>2, EndedKeeps
<1>5. \A op : Pending(op) => Pending(op)'
  BY <1>2, <1>t, EndedTasks
<1>6. wk'[h].pc = "idle"
  BY <1>2 DEF Ended
<1>7. DeadInv(h)'
  BY <1>4, <1>5, <1>6 DEF SettledInv, DeadInv
<1>8. Queued(h) => Queued(h)'
  BY <1>2, <1>4, <1>t, EndedQueued
<1>9. Agree' => OnCourse(h)'
  BY <1>6 DEF OnCourse
<1>10. LiveInv(h)'
  BY <1>4, <1>8, <1>9 DEF SettledInv, LiveInv
<1> QED  BY <1>4, <1>7, <1>10 DEF SettledInv

(***************************************************************************)
(* The queue, and what people and Notion do                                *)
(***************************************************************************)

\* An event is queued or dropped for good; the other tasks stay.
LEMMA Published ==
  ASSUME NEW h \in Workers, TypeOK, KnowsTask(h), wk' = wk,
         NEW op \in {"push", "delete", "pull"}, NEW page \in PageIds \cup {NoPage},
         Publish(op, page)
  PROVE  /\ wk[h].pc # "idle" => TaskOf(h)' = TaskOf(h)
         /\ \A o : Pending(o) => Pending(o)'
         /\ \A t \in TaskIds : tasks[t].st = "pending" => tasks'[t] = tasks[t]
         /\ \A t \in TaskIds : tasks'[t].st # "free" /\ tasks'[t].op = "delete" =>
              \/ tasks[t].st # "free" /\ tasks[t].op = "delete"
              \/ op = "delete"
         /\ lost => lost'
         /\ lost' \/ \E t \in TaskIds : tasks'[t].st = "pending" /\ tasks'[t].op = op
                                        /\ tasks'[t].page = page
         /\ faults' = faults \/ faults' # 0
<1>1. CASE Enqueue(op, page)
  <2> DEFINE new == [st |-> "pending", op |-> op, page |-> page, left |-> MaxRetry]
  <2>1. PICK u \in TaskIds : tasks[u].st = "free" /\ tasks' = [tasks EXCEPT ![u] = new]
    BY <1>1 DEF Enqueue
  <2>2. new.st = "pending" /\ new.op = op /\ new.page = page
    OBVIOUS
  <2> HIDE DEF new
  <2>3. tasks'[u] = new /\ \A t \in TaskIds : t # u => tasks'[t] = tasks[t]
    BY <2>1 DEF TypeOK
  <2>4. wk[h].pc # "idle" => TaskOf(h)' = TaskOf(h)
    BY <2>1, <2>3 DEF KnowsTask, TaskOf
  <2>5. \A t \in TaskIds : tasks[t].st = "pending" => tasks'[t] = tasks[t]
    BY <2>1, <2>3
  <2>6. ASSUME NEW o, Pending(o) PROVE Pending(o)'
    BY <2>5, <2>6 DEF Pending
  <2>7. \A t \in TaskIds : tasks'[t].st # "free" /\ tasks'[t].op = "delete" =>
              \/ tasks[t].st # "free" /\ tasks[t].op = "delete"
              \/ op = "delete"
    BY <2>2, <2>3
  <2>8. lost' = lost /\ faults' = faults
    BY <1>1 DEF Enqueue
  <2> QED  BY <2>2, <2>3, <2>4, <2>5, <2>6, <2>7, <2>8
<1>2. CASE PublishFails
  <2>1. tasks' = tasks /\ lost' /\ faults' # 0
    BY <1>2, BoundsAssumption DEF PublishFails, TypeOK
  <2>2. ASSUME NEW o, Pending(o) PROVE Pending(o)'
    BY <2>1, <2>2 DEF Pending
  <2>3. TaskOf(h)' = TaskOf(h)
    BY <2>1 DEF TaskOf
  <2> QED  BY <2>1, <2>2, <2>3
<1> QED  BY <1>1, <1>2 DEF Publish

\* A page someone waits for is waited for after a step of people or Notion.
LEMMA StillQueued ==
  ASSUME NEW h \in Workers, wk' = wk, ledger' = ledger, Queued(h),
         \A p \in PageIds : pages[p].unnoticed =>
           \/ pages'[p].unnoticed
           \/ \E t \in TaskIds :
                tasks'[t].st = "pending" /\ tasks'[t].op = "pull" /\ tasks'[t].page = p,
         \A t \in TaskIds : tasks[t].st = "pending" => tasks'[t] = tasks[t]
  PROVE  Queued(h)'
<1>1. ASSUME NEW o, Pending(o) PROVE Pending(o)'
  BY <1>1 DEF Pending
<1>2. CASE Pending("push") \/ Pending("delete")
  BY <1>1, <1>2 DEF Queued
<1>3. CASE PullDue(h)
  <2>1. PICK p \in PageIds :
          /\ Linked(p) # {} \/ (wk[h].pc = "save" /\ p = wk[h].copy.ext)
          /\ \/ pages[p].unnoticed
             \/ \E t \in TaskIds :
                  tasks[t].st = "pending" /\ tasks[t].op = "pull" /\ tasks[t].page = p
    BY <1>3 DEF PullDue
  <2>2. Linked(p)' = Linked(p)
    BY DEF Linked, Rows
  <2>3. PullDue(h)'
    BY <2>1, <2>2 DEF PullDue
  <2> QED  BY <2>3 DEF Queued
<1> QED  BY <1>2, <1>3 DEF Queued

LEMMA EditSettled ==
  ASSUME NEW h \in Workers, SettledInv(h), NameInv', Edit
  PROVE  SettledInv(h)'
<1>t. TypeOK /\ KnowsTask(h) /\ edits \in Nat
  BY BoundsAssumption DEF SettledInv, NameInv, TypeOK
<1>0. /\ rec.st \in {"none", "alive"} /\ rec'.st = "alive" /\ rec'.val # Empty
      /\ wk' = wk /\ ledger' = ledger /\ pages' = pages /\ Publish("push", NoPage)
  BY <1>t DEF Edit, Empty
<1>1. /\ wk[h].pc # "idle" => TaskOf(h)' = TaskOf(h)
      /\ \A t \in TaskIds : tasks'[t].st # "free" /\ tasks'[t].op = "delete" =>
              tasks[t].st # "free" /\ tasks[t].op = "delete"
      /\ lost' \/ \E t \in TaskIds : tasks'[t].st = "pending" /\ tasks'[t].op = "push"
      /\ faults' = faults \/ faults' # 0
  BY <1>0, <1>t, Published
<1>2. Rows' = Rows /\ (\A p : Linked(p)' = Linked(p)) /\ OneRow'
  BY <1>0, SameRows DEF SettledInv, Rows
<1>3. KnowsTask(h)' /\ KnowsRow(h)'
  BY <1>0, <1>1, <1>2 DEF SettledInv, KnowsTask, KnowsRow, PushOnly, PullOnly
<1>4. Blank' /\ Filled(h)'
  BY <1>0 DEF SettledInv, Blank, Filled
<1>5. Buried(h)'
  <2>1. rec.st = "none" => ~wk[h].isDelete /\ \A t \in TaskIds : tasks[t].st = "free"
    BY DEF SettledInv, KnowsTask, Blank, TaskOf
  <2>2. rec.st # "deleted"
    BY <1>0
  <2> QED  BY <1>0, <1>1, <1>2, <2>1, <2>2 DEF SettledInv, Buried
<1>6. OrphanInv(h)'
  BY <1>0, <1>1, <1>2 DEF SettledInv, OrphanInv, Inserting
<1>7. DeadInv(h)' /\ LiveInv(h)'
  BY <1>0, <1>1 DEF DeadInv, LiveInv, Queued, Pending
<1> QED  BY <1>2, <1>3, <1>4, <1>5, <1>6, <1>7 DEF SettledInv

LEMMA DeleteSettled ==
  ASSUME NEW h \in Workers, SettledInv(h), NameInv', Delete
  PROVE  SettledInv(h)'
<1>t. TypeOK /\ KnowsTask(h) /\ rec \in Record
  BY DEF SettledInv, NameInv, TypeOK
<1>0. /\ rec'.st = "deleted"
      /\ wk' = wk /\ ledger' = ledger /\ pages' = pages /\ Publish("delete", NoPage)
  BY <1>t DEF Delete, Record
<1>1. /\ wk[h].pc # "idle" => TaskOf(h)' = TaskOf(h)
      /\ lost' \/ \E t \in TaskIds : tasks'[t].st = "pending" /\ tasks'[t].op = "delete"
      /\ faults' = faults \/ faults' # 0
  BY <1>0, <1>t, Published
<1>2. Rows' = Rows /\ (\A p : Linked(p)' = Linked(p)) /\ OneRow'
  BY <1>0, SameRows DEF SettledInv, Rows
<1>3. KnowsTask(h)' /\ KnowsRow(h)'
  BY <1>0, <1>1, <1>2 DEF SettledInv, KnowsTask, KnowsRow, PushOnly, PullOnly
<1>4. Blank' /\ Filled(h)' /\ Buried(h)'
  BY <1>0 DEF SettledInv, Blank, Filled, Buried
<1>6. OrphanInv(h)'
  BY <1>0, <1>1, <1>2 DEF SettledInv, OrphanInv, Inserting
<1>7. DeadInv(h)' /\ LiveInv(h)'
  BY <1>0, <1>1 DEF DeadInv, LiveInv, Queued, Pending
<1> QED  BY <1>2, <1>3, <1>4, <1>6, <1>7 DEF SettledInv

LEMMA WebhookSettled ==
  ASSUME NEW h \in Workers, SettledInv(h), NameInv', NEW q \in PageIds, Webhook(q)
  PROVE  SettledInv(h)'
<1>t. TypeOK /\ KnowsTask(h) /\ pages \in [PageIds -> Page]
  BY DEF SettledInv, NameInv, TypeOK
<1>0. /\ rec' = rec /\ wk' = wk /\ ledger' = ledger /\ Publish("pull", q)
      /\ \A p \in PageIds : pages'[p].st = pages[p].st /\ pages'[p].val = pages[p].val
      /\ \A p \in PageIds : p # q => pages'[p] = pages[p]
      /\ pages[q].unnoticed
  BY <1>t DEF Webhook, Page
<1>1. /\ wk[h].pc # "idle" => TaskOf(h)' = TaskOf(h)
      /\ \A o : Pending(o) => Pending(o)'
      /\ \A t \in TaskIds : tasks[t].st = "pending" => tasks'[t] = tasks[t]
      /\ \A t \in TaskIds : tasks'[t].st # "free" /\ tasks'[t].op = "delete" =>
              tasks[t].st # "free" /\ tasks[t].op = "delete"
      /\ lost => lost'
      /\ lost' \/ \E t \in TaskIds : tasks'[t].st = "pending" /\ tasks'[t].op = "pull"
                                     /\ tasks'[t].page = q
      /\ faults' = faults \/ faults' # 0
  BY <1>0, <1>t, Published
<1>2. Rows' = Rows /\ (\A p : Linked(p)' = Linked(p)) /\ OneRow'
  BY <1>0, SameRows DEF SettledInv, Rows
<1>a. \A r \in Rows : ledger[r].ext \in PageIds
  BY DEF SettledInv, NameInv, RowsAreNamed
<1>b. NoneLive' = NoneLive /\ NoneArchived' = NoneArchived /\ Agree' = Agree
  BY <1>0, <1>2, <1>a DEF NoneLive, NoneArchived, Agree
<1>3. KnowsTask(h)' /\ KnowsRow(h)'
  <2>1. wk[h].pc = "savedel" => wk[h].copy.ext \in PageIds
    BY DEF SettledInv, KnowsRow, NameInv, CopiesAreNamed, RowsAreNamed
  <2> QED
    BY <1>0, <1>1, <1>2, <2>1 DEF SettledInv, KnowsTask, KnowsRow, PushOnly, PullOnly
<1>4. Blank'
  <2>1. rec.st # "none"
    BY <1>0 DEF SettledInv, Blank, Webhook
  <2> QED  BY <1>0, <2>1 DEF Blank
<1>5. Filled(h)' /\ Buried(h)' /\ OrphanInv(h)'
  BY <1>0, <1>1, <1>2 DEF SettledInv, Filled, Buried, OrphanInv, Inserting
<1>6. DeadInv(h)'
  BY <1>0, <1>1, <1>b DEF SettledInv, DeadInv, KnowsTask
<1>7. LiveInv(h)'
  <2> SUFFICES ASSUME ~lost', rec.st = "alive", NoneArchived
               PROVE  Queued(h)' \/ OnCourse(h)'
    BY <1>0, <1>b DEF LiveInv
  <2>1. CASE Queued(h)
    <3>1. \A p \in PageIds : pages[p].unnoticed =>
           \/ pages'[p].unnoticed
           \/ \E t \in TaskIds :
                tasks'[t].st = "pending" /\ tasks'[t].op = "pull" /\ tasks'[t].page = p
      BY <1>0, <1>1
    <3> QED  BY <1>0, <1>1, <2>1, <3>1, StillQueued
  <2>2. CASE OnCourse(h)
    <3>1. wk[h].pc = "save" => wk[h].copy.ext \in PageIds
      BY DEF SettledInv, NameInv, CopiesAreNamed, RowsAreNamed, NewPagesAreUnshared, Inserting
    <3>2. wk[h].pc \in {"check", "apply", "put", "psave"} => TaskOf(h).page \in PageIds
      BY DEF SettledInv, NameInv, CopiesAreNamed, RowsAreNamed, KnowsRow, KnowsTask, PullOnly
    <3> QED  BY <1>0, <1>1, <1>2, <1>b, <2>2, <3>1, <3>2 DEF OnCourse
  <2> QED  BY <1>1, <2>1, <2>2 DEF SettledInv, LiveInv
<1> QED  BY <1>2, <1>3, <1>4, <1>5, <1>6, <1>7 DEF SettledInv

LEMMA RemoteEditSettled ==
  ASSUME NEW h \in Workers, SettledInv(h), NameInv', "clear" \notin UserOps,
         NEW q \in PageIds, RemoteEdit(q)
  PROVE  SettledInv(h)'
<1>t. TypeOK /\ KnowsTask(h) /\ pages \in [PageIds -> Page] /\ edits \in Nat
  BY BoundsAssumption DEF SettledInv, NameInv, TypeOK
<1>v. PICK val \in {edits + 1, Empty} :
        /\ IF val = Empty THEN "clear" \in UserOps ELSE "remote" \in UserOps
        /\ pages' = [pages EXCEPT ![q].val = val, ![q].edited = @ + 1, ![q].unnoticed = TRUE]
  BY DEF RemoteEdit
<1>0. /\ rec' = rec /\ wk' = wk /\ ledger' = ledger /\ tasks' = tasks
      /\ lost' = lost /\ faults' = faults
      /\ \A p \in PageIds : pages'[p].st = pages[p].st
      /\ \A p \in PageIds : p # q => pages'[p] = pages[p]
      /\ pages'[q].unnoticed /\ pages'[q].val = val /\ val # Empty
  BY <1>t, <1>v DEF RemoteEdit, Page
<1>1. \A o : Pending(o)' = Pending(o)
  BY <1>0 DEF Pending
<1>2. /\ Rows' = Rows /\ (\A p : Linked(p)' = Linked(p)) /\ OneRow'
      /\ TaskOf(h)' = TaskOf(h)
  BY <1>0, SameRows DEF SettledInv, Rows, TaskOf
<1>a. \A r \in Rows : ledger[r].ext \in PageIds
  BY DEF SettledInv, NameInv, RowsAreNamed
<1>b. NoneLive' = NoneLive /\ NoneArchived' = NoneArchived
  BY <1>0, <1>2, <1>a DEF NoneLive, NoneArchived
<1>3. KnowsTask(h)' /\ KnowsRow(h)'
  <2>1. wk[h].pc = "savedel" => wk[h].copy.ext \in PageIds
    BY DEF SettledInv, KnowsRow, NameInv, CopiesAreNamed, RowsAreNamed
  <2> QED
    BY <1>0, <1>2, <2>1 DEF SettledInv, KnowsTask, KnowsRow, PushOnly, PullOnly
<1>4. Blank'
  <2>1. rec.st # "none"
    BY DEF SettledInv, Blank, RemoteEdit
  <2> QED  BY <1>0, <2>1 DEF Blank
<1>5. Filled(h)' /\ Buried(h)' /\ OrphanInv(h)'
  BY <1>0, <1>2 DEF SettledInv, Filled, Buried, OrphanInv, Inserting
<1>6. DeadInv(h)'
  BY <1>0, <1>1, <1>2, <1>b DEF SettledInv, DeadInv
<1>7. LiveInv(h)'
  <2> SUFFICES ASSUME ~lost, rec.st = "alive", NoneArchived
               PROVE  Queued(h)' \/ OnCourse(h)'
    BY <1>0, <1>b DEF LiveInv
  <2>1. CASE Queued(h)
    BY <1>0, <2>1, StillQueued
  <2>2. CASE Linked(q) # {} \/ (wk[h].pc = "save" /\ q = wk[h].copy.ext)
    BY <1>0, <1>2, <2>2 DEF Queued, PullDue
  <2>3. CASE OnCourse(h) /\ ~(Linked(q) # {} \/ (wk[h].pc = "save" /\ q = wk[h].copy.ext))
    <3>1. \A r \in Rows : ledger[r].ext # q
      BY <2>3 DEF Linked
    <3>2. wk[h].pc = "save" => wk[h].copy.ext \in PageIds
      BY DEF SettledInv, NameInv, CopiesAreNamed, RowsAreNamed, NewPagesAreUnshared, Inserting
    <3>3. wk[h].pc \in {"check", "apply", "put", "psave"} =>
            TaskOf(h).page \in PageIds /\ TaskOf(h).page # q
      BY <3>1 DEF SettledInv, NameInv, CopiesAreNamed, RowsAreNamed, KnowsRow, KnowsTask, PullOnly
    <3>4. Agree => Agree'
      BY <1>0, <1>2, <1>a, <3>1 DEF Agree
    <3> QED  BY <1>0, <1>2, <2>3, <3>2, <3>3, <3>4 DEF OnCourse
  <2> QED  BY <2>1, <2>2, <2>3 DEF SettledInv, LiveInv
<1> QED  BY <1>2, <1>3, <1>4, <1>5, <1>6, <1>7 DEF SettledInv

\* Neither a stutter nor Disconnect touches what SettledInv is about.
LEMMA UnmovedSettled ==
  ASSUME NEW h \in Workers, SettledInv(h), NameInv',
         UNCHANGED <<rec, pages, ledger, tasks, wk, faults, lost>>
  PROVE  SettledInv(h)'
<1>1. Rows' = Rows /\ TaskOf(h)' = TaskOf(h) /\ \A p : Linked(p)' = Linked(p)
  BY DEF Rows, TaskOf, Linked
<1>2. KnowsTask(h)' /\ KnowsRow(h)' /\ OneRow' /\ Blank' /\ Filled(h)' /\ Buried(h)'
  BY <1>1 DEF SettledInv, KnowsTask, KnowsRow, OneRow, Blank, Filled, Buried
<1>3. Agree' = Agree /\ NoneLive' = NoneLive /\ NoneArchived' = NoneArchived
      /\ \A o : Pending(o)' = Pending(o)
  BY <1>1 DEF Agree, NoneLive, NoneArchived, Pending
<1>4. PullDue(h)' = PullDue(h)
  BY <1>1 DEF PullDue
<1>5. DeadInv(h)' /\ OrphanInv(h)' /\ LiveInv(h)'
  BY <1>1, <1>3, <1>4 DEF SettledInv, DeadInv, OrphanInv, Inserting, LiveInv, Queued, OnCourse
<1> QED  BY <1>2, <1>5 DEF SettledInv

(***************************************************************************)
(* The handler                                                             *)
(***************************************************************************)

LEMMA DequeueSettled ==
  ASSUME NEW h \in Workers, SettledInv(h), NameInv', NEW u \in TaskIds, Dequeue(h, u)
  PROVE  SettledInv(h)'
<1>t. /\ TypeOK /\ tasks \in [TaskIds -> Task] /\ wk \in [Workers -> Slot]
  BY DEF SettledInv, NameInv, TypeOK
<1> DEFINE pc == IF tasks[u].op = "pull" THEN "find" ELSE "begin"
           isDelete == tasks[u].op = "delete"
           slot == [IdleSlot EXCEPT !.pc = pc, !.isDelete = isDelete, !.task = u]
<1>a. /\ slot.pc = pc /\ slot.isDelete = isDelete /\ slot.task = u /\ slot.row = NoRow
  BY DEF IdleSlot
<1>b. wk' = [wk EXCEPT ![h] = slot]
  BY DEF Dequeue
<1>c. wk'[h] = slot
  <2> HIDE DEF slot
  <2> QED  BY <1>t, <1>b
<1>e. PICK task : task = [tasks[u] EXCEPT !.st = "active"]
  OBVIOUS
<1>d. task.st = "active" /\ task.op = tasks[u].op /\ task.page = tasks[u].page
  BY <1>t, <1>e DEF Task
<1>f. faults' = faults \/ faults' # 0
  BY BoundsAssumption DEF Dequeue, SettledInv, NameInv, TypeOK
<1>0. /\ rec' = rec /\ pages' = pages /\ ledger' = ledger /\ lost' = lost
      /\ wk[h].pc = "idle" /\ tasks[u].st = "pending"
      /\ wk'[h].pc = pc /\ (wk'[h].isDelete <=> isDelete) /\ wk'[h].task = u /\ wk'[h].row = NoRow
      /\ tasks'[u] = task /\ \A t \in TaskIds : t # u => tasks'[t] = tasks[t]
  BY <1>t, <1>a, <1>c, <1>e DEF Dequeue
<1>1. TaskOf(h)' = task
  BY <1>0 DEF TaskOf
<1>2. Rows' = Rows /\ (\A p : Linked(p)' = Linked(p)) /\ OneRow'
  BY <1>0, SameRows DEF SettledInv, Rows
<1>3. KnowsTask(h)' /\ KnowsRow(h)'
  BY <1>0, <1>1, <1>d DEF KnowsTask, KnowsRow, PushOnly, PullOnly
<1>4. Blank' /\ Filled(h)' /\ OrphanInv(h)'
  BY <1>0, <1>2, <1>f DEF SettledInv, Blank, Filled, OrphanInv, Inserting
<1>5. Buried(h)'
  <2>1. ASSUME NEW t \in TaskIds, tasks'[t].st # "free", tasks'[t].op = "delete"
        PROVE  tasks[t].st # "free" /\ tasks[t].op = "delete"
    BY <1>0, <1>d, <2>1
  <2>2. wk'[h].isDelete => tasks[u].st # "free" /\ tasks[u].op = "delete"
    BY <1>0
  <2> QED  BY <1>0, <1>2, <2>1, <2>2 DEF SettledInv, Buried
<1>6. /\ NoneLive' = NoneLive /\ NoneArchived' = NoneArchived /\ Agree' = Agree
      /\ Pending("push") => Pending("push")' \/ tasks[u].op = "push"
      /\ Pending("delete") => Pending("delete")' \/ tasks[u].op = "delete"
  BY <1>0, <1>2 DEF NoneLive, NoneArchived, Agree, Pending
<1>7. DeadInv(h)'
  BY <1>0, <1>1, <1>6, <1>d DEF SettledInv, DeadInv
<1>8. LiveInv(h)'
  <2> SUFFICES ASSUME ~lost, rec.st = "alive", NoneArchived
               PROVE  Queued(h)' \/ OnCourse(h)'
    BY <1>0, <1>6 DEF LiveInv
  <2>1. CASE tasks[u].op # "pull"
    BY <1>0, <2>1 DEF OnCourse
  <2>2. CASE tasks[u].op = "pull" /\ Queued(h)
    <3>1. CASE Pending("push") \/ Pending("delete")
      BY <1>6, <2>2, <3>1 DEF Queued
    <3>2. CASE PullDue(h)
      <4>1. PICK p \in PageIds :
              /\ Linked(p) # {}
              /\ \/ pages[p].unnoticed
                 \/ \E t \in TaskIds :
                      tasks[t].st = "pending" /\ tasks[t].op = "pull" /\ tasks[t].page = p
        BY <1>0, <3>2 DEF PullDue
      <4>2. CASE tasks[u].page = p
        BY <1>0, <1>1, <1>2, <1>d, <2>2, <4>1, <4>2 DEF OnCourse
      <4>3. CASE tasks[u].page # p
        <5>1. \/ pages'[p].unnoticed
              \/ \E t \in TaskIds :
                   tasks'[t].st = "pending" /\ tasks'[t].op = "pull" /\ tasks'[t].page = p
          BY <1>0, <4>1, <4>3
        <5> QED  BY <1>2, <4>1, <5>1 DEF Queued, PullDue
      <4> QED  BY <4>2, <4>3
    <3> QED  BY <2>2, <3>1, <3>2 DEF Queued
  <2>3. CASE tasks[u].op = "pull" /\ OnCourse(h)
    BY <1>0, <1>6, <2>3 DEF OnCourse
  <2> QED  BY <2>1, <2>2, <2>3 DEF SettledInv, LiveInv
<1> QED  BY <1>2, <1>3, <1>4, <1>5, <1>7, <1>8 DEF SettledInv

\* What a push reads of the ledger when it starts.
LEMMA BeginReads ==
  ASSUME TypeOK, NEW w \in Workers, Begin(w), active
  PROVE  /\ UNCHANGED <<rec, pages, ledger, tasks, faults, lost>> /\ wk[w].pc = "begin"
         /\ wk'[w].pc = "load" /\ wk'[w].task = wk[w].task
         /\ wk'[w].isDelete = wk[w].isDelete
         /\ wk'[w].row = NoRow => Rows = {} /\ wk'[w].copy.remote = 0
<1> DEFINE row == IF Rows = {} THEN NoRow ELSE First(Rows)
           copy == IF Rows = {} THEN FreeRow ELSE ledger[First(Rows)]
<1>1. /\ UNCHANGED <<rec, pages, ledger, tasks, faults, lost>> /\ wk[w].pc = "begin"
      /\ wk' = [wk EXCEPT ![w].row = row, ![w].copy = copy, ![w].pc = "load"]
  BY Zenon DEF Begin
<1>2. row = NoRow => Rows = {} /\ copy.remote = 0
  BY FirstRow, NullAssumption DEF FreeRow
<1> HIDE DEF row, copy
<1>3. /\ wk'[w].pc = "load" /\ wk'[w].row = row /\ wk'[w].copy = copy
      /\ wk'[w].task = wk[w].task /\ wk'[w].isDelete = wk[w].isDelete
  BY <1>1 DEF TypeOK, Slot
<1> QED  BY <1>1, <1>2, <1>3

LEMMA BeginSettled ==
  ASSUME NEW h \in Workers, SettledInv(h), NameInv', Begin(h)
  PROVE  SettledInv(h)'
<1>t. /\ TypeOK /\ wk \in [Workers -> Slot] /\ wk[h] \in Slot
  BY DEF SettledInv, NameInv, TypeOK
<1>1. CASE ~active
  <2>1. ~Inserting(h) /\ Rows' = Rows
    BY <1>1 DEF Begin, Inserting, Rows
  <2> QED  BY <1>1, <2>1, DoneSettled DEF Begin
<1>2. CASE active
  <2>0. /\ rec' = rec /\ pages' = pages /\ ledger' = ledger /\ faults' = faults /\ lost' = lost
        /\ tasks' = tasks /\ wk[h].pc = "begin" /\ wk'[h].pc = "load"
        /\ wk'[h].task = wk[h].task /\ wk'[h].isDelete = wk[h].isDelete
        /\ wk'[h].row = NoRow => Rows = {} /\ wk'[h].copy.remote = 0
    BY <1>2, <1>t, BeginReads
  <2>2. /\ Rows' = Rows /\ (\A p : Linked(p)' = Linked(p)) /\ OneRow'
        /\ TaskOf(h)' = TaskOf(h)
    BY <2>0, SameRows DEF SettledInv, Rows, TaskOf
  <2>3. KnowsTask(h)' /\ KnowsRow(h)'
    BY <2>0, <2>2 DEF SettledInv, KnowsTask, KnowsRow, PushOnly, PullOnly
  <2>4. Blank' /\ Filled(h)' /\ OrphanInv(h)' /\ Buried(h)'
    BY <2>0, <2>2 DEF SettledInv, Blank, Filled, OrphanInv, Inserting, Buried
  <2>6. /\ NoneLive' = NoneLive /\ \A o : Pending(o)' = Pending(o)
    BY <2>0, <2>2 DEF NoneLive, Pending
  <2>7. DeadInv(h)'
    BY <2>0, <2>2, <2>6 DEF SettledInv, DeadInv, KnowsTask, PushOnly
  <2>8. LiveInv(h)'
    BY <2>0 DEF LiveInv, OnCourse
  <2> QED  BY <2>2, <2>3, <2>4, <2>7, <2>8 DEF SettledInv
<1> QED  BY <1>1, <1>2 DEF SettledInv, NameInv, TypeOK

LEMMA LoadSettled ==
  ASSUME NEW h \in Workers, SettledInv(h), NameInv', Load(h)
  PROVE  SettledInv(h)'
<1>t. /\ TypeOK /\ wk \in [Workers -> Slot] /\ wk[h] \in Slot
  BY DEF SettledInv, NameInv, TypeOK
<1>0. /\ wk[h].pc = "load"
      /\ UNCHANGED <<rec, pages, ledger, faults, lost>>
  BY DEF Load
<1>1. CASE wk[h].isDelete /\ wk[h].row = NoRow
  <2>1. Rows = {} /\ ~Inserting(h) /\ Rows' = Rows /\ Done(h)
    BY <1>0, <1>1 DEF Load, Inserting, SettledInv, KnowsRow, Rows
  <2>2. NoneLive /\ rec.st = "deleted"
    BY <1>1, <2>1 DEF NoneLive, SettledInv, Buried
  <2> QED  BY <1>0, <2>1, <2>2, DoneSettled
<1>2. CASE wk[h].isDelete /\ wk[h].row # NoRow
  <2>1. Goto(h, "archive") /\ "archive" \in Steps
    BY <1>2 DEF Load, Steps
  <2>2. Moved(h)
    BY <1>0, <1>2, <2>1, <1>t, GoneTo DEF Moved
  <2> QED  BY <1>0, <2>2, MovedSettled
<1>3. CASE ~wk[h].isDelete /\ rec.st = "alive"
  <2> DEFINE pc == IF wk[h].copy.remote # 0 THEN "get" ELSE "write"
  <2>1. wk' = [wk EXCEPT ![h].val = rec.val, ![h].pc = pc] /\ tasks' = tasks
    BY <1>3 DEF Load
  <2>2. /\ wk'[h].val = rec.val /\ wk'[h].pc = pc /\ wk'[h].task = wk[h].task
        /\ wk'[h].isDelete = wk[h].isDelete /\ wk'[h].row = wk[h].row
        /\ wk'[h].copy = wk[h].copy
    <3> HIDE DEF pc
    <3> QED  BY <1>t, <2>1 DEF Slot
  <2>3. Moved(h)
    BY <1>0, <1>3, <2>1, <2>2 DEF Moved
  <2> QED  BY <1>0, <2>3, MovedSettled
<1>4. CASE ~wk[h].isDelete /\ rec.st # "alive"
  <2>1. wk' = [wk EXCEPT ![h].isDelete = TRUE, ![h].pc = "begin"] /\ tasks' = tasks
    BY <1>4 DEF Load
  <2>2. /\ wk'[h].isDelete /\ wk'[h].pc = "begin" /\ wk'[h].task = wk[h].task
    BY <1>t, <2>1 DEF Slot
  <2>3. rec.st = "deleted"
    BY <1>0, <1>4, <1>t DEF SettledInv, Blank, KnowsTask, TaskOf, TypeOK, Record
  <2>4. /\ Rows' = Rows /\ (\A p : Linked(p)' = Linked(p)) /\ OneRow'
        /\ TaskOf(h)' = TaskOf(h)
    BY <1>0, <2>1, <2>2, SameRows DEF SettledInv, Rows, TaskOf
  <2>5. KnowsTask(h)' /\ KnowsRow(h)'
    BY <1>0, <2>2, <2>4 DEF SettledInv, KnowsTask, KnowsRow, PushOnly, PullOnly
  <2>6. Blank' /\ Filled(h)' /\ OrphanInv(h)' /\ Buried(h)'
    BY <1>0, <2>2, <2>3, <2>4 DEF SettledInv, Blank, Filled, OrphanInv, Inserting, Buried
  <2>7. DeadInv(h)' /\ LiveInv(h)'
    BY <1>0, <2>2, <2>3, <2>4 DEF SettledInv, DeadInv, LiveInv, KnowsTask, PushOnly
  <2> QED  BY <2>4, <2>5, <2>6, <2>7 DEF SettledInv
<1> QED  BY <1>1, <1>2, <1>3, <1>4

\* The row a handler knows, and the page the row names.
LEMMA KnownRow ==
  ASSUME NEW h \in Workers, SettledInv(h), wk[h].row # NoRow
  PROVE  /\ wk[h].row \in Rows /\ wk[h].row \in RowIds /\ wk[h].copy.ext = ledger[wk[h].row].ext
         /\ wk[h].copy.ext \in PageIds /\ pages[wk[h].copy.ext].st # "none"
         /\ wk[h].row \in Linked(wk[h].copy.ext)
         /\ \A r \in Rows : r = wk[h].row
<1>1. /\ wk[h].row \in Rows /\ wk[h].copy.ext = ledger[wk[h].row].ext
      /\ wk[h].copy.ext \in PageIds /\ pages[wk[h].copy.ext].st # "none"
  BY DEF SettledInv, NameInv, CopiesAreNamed, RowsAreNamed
<1>2. wk[h].row \in RowIds /\ wk[h].row \in Linked(wk[h].copy.ext)
  BY <1>1 DEF Rows, Linked
<1> QED  BY <1>1, <1>2 DEF SettledInv, OneRow

\* A handler saves its copy of the row it knows.
LEMMA SavedRow ==
  ASSUME NEW h \in Workers, SettledInv(h), wk[h].row # NoRow,
         NEW row, row.st # "none", row.ext = wk[h].copy.ext,
         ledger' = [ledger EXCEPT ![wk[h].row] = row]
  PROVE  /\ Rows' = Rows /\ ledger'[wk[h].row] = row
         /\ \A r \in RowIds : ledger'[r].ext = ledger[r].ext
<1>1. ledger \in [RowIds -> Row]
  BY DEF SettledInv, NameInv, TypeOK
<1>2. ledger'[wk[h].row] = row /\ \A r \in RowIds : r # wk[h].row => ledger'[r] = ledger[r]
  BY <1>1, KnownRow
<1>3. \A r \in RowIds : ledger'[r].ext = ledger[r].ext
  BY <1>2, KnownRow
<1>4. \A r \in RowIds : ledger'[r].st # "none" <=> ledger[r].st # "none"
  BY <1>2, KnownRow DEF Rows
<1> QED  BY <1>2, <1>3, <1>4 DEF Rows

LEMMA GetVersionSettled ==
  ASSUME NEW h \in Workers, SettledInv(h), NameInv', GetVersion(h)
  PROVE  SettledInv(h)'
<1>t. TypeOK
  BY DEF SettledInv, NameInv
<1>0. /\ wk[h].pc = "get" /\ UNCHANGED <<rec, pages, ledger, lost>>
      /\ {"conflict", "write", "fail"} \subseteq Steps
  BY DEF GetVersion, Steps
<1>1. CASE Goto(h, "fail") /\ CallFails
  BY <1>0, <1>1, <1>t, GoneTo, FailedCall, MovedSettled DEF Moved
<1>2. CASE UNCHANGED faults /\ (Goto(h, "conflict") \/ Goto(h, "write"))
  BY <1>0, <1>2, <1>t, GoneTo, MovedSettled DEF Moved
<1> QED  BY <1>1, <1>2 DEF GetVersion

LEMMA WriteSettled ==
  ASSUME NEW h \in Workers, SettledInv(h), NameInv', Write(h)
  PROVE  SettledInv(h)'
<1>t. TypeOK /\ KnowsTask(h) /\ pages \in [PageIds -> Page] /\ wk \in [Workers -> Slot]
      /\ wk[h] \in Slot
  BY DEF SettledInv, NameInv, TypeOK
<1>0. wk[h].pc = "write" /\ UNCHANGED <<rec, ledger, lost>> /\ "fail" \in Steps
  BY DEF Write, Steps
<1>1. CASE Goto(h, "fail") /\ UNCHANGED pages /\ (UNCHANGED faults \/ CallFails)
  BY <1>0, <1>1, <1>t, GoneTo, FailedCall, MovedSettled DEF Moved
<1>2. CASE \E p \in PageIds :
             /\ IF wk[h].row = NoRow THEN pages[p].st = "none"
                ELSE p = wk[h].copy.ext /\ pages[p].st = "live"
             /\ Written(p, wk[h].val)
             /\ wk' = [wk EXCEPT ![h].copy.ext = p, ![h].pc = "save"]
             /\ UNCHANGED <<tasks, faults>>
  <2>1. PICK p \in PageIds :
             /\ IF wk[h].row = NoRow THEN pages[p].st = "none"
                ELSE p = wk[h].copy.ext /\ pages[p].st = "live"
             /\ Written(p, wk[h].val)
             /\ wk' = [wk EXCEPT ![h].copy.ext = p, ![h].pc = "save"]
             /\ UNCHANGED <<tasks, faults>>
    BY <1>2
  <2>2. /\ wk'[h].pc = "save" /\ wk'[h].row = wk[h].row /\ wk'[h].copy.ext = p
        /\ wk'[h].val = wk[h].val /\ wk'[h].task = wk[h].task
        /\ wk'[h].isDelete = wk[h].isDelete
    BY <1>t, <2>1 DEF Slot, Row
  <2>3. /\ pages'[p].st = "live" /\ pages'[p].val = wk[h].val
        /\ pages[p].unnoticed => pages'[p].unnoticed
        /\ \A q \in PageIds : q # p => pages'[q] = pages[q]
        /\ pages[p].st # "archived"
    BY <1>t, <2>1 DEF Written, Page
  <2>4. /\ Rows' = Rows /\ (\A q : Linked(q)' = Linked(q)) /\ OneRow'
        /\ TaskOf(h)' = TaskOf(h) /\ \A o : Pending(o)' = Pending(o)
    BY <1>0, <2>1, <2>2, SameRows DEF SettledInv, Rows, TaskOf, Pending
  <2>5. KnowsTask(h)' /\ KnowsRow(h)'
    BY <1>0, <2>2, <2>4 DEF SettledInv, KnowsTask, KnowsRow, PushOnly, PullOnly
  <2>6. Blank' /\ Buried(h)'
    <3>1. rec.st # "none"
      BY <1>0 DEF SettledInv, Blank, KnowsTask, TaskOf
    <3> QED  BY <1>0, <2>1, <2>2, <2>4, <3>1 DEF SettledInv, Blank, Buried
  <2>7. Filled(h)'
    BY <1>0, <2>2, <2>3 DEF SettledInv, Filled
  <2>8. OrphanInv(h)'
    <3> SUFFICES ASSUME faults = 0, NEW q \in PageIds, pages'[q].st # "none"
                 PROVE  Linked(q) # {} \/ (wk'[h].row = NoRow /\ p = q)
      BY <2>1, <2>2, <2>4 DEF OrphanInv, Inserting
    <3>1. CASE q = p
      BY <2>1, <2>2, <3>1, KnownRow
    <3>2. CASE q # p
      BY <1>0, <2>3, <3>2 DEF SettledInv, OrphanInv, Inserting
    <3> QED  BY <3>1, <3>2
  <2>9. DeadInv(h)'
    BY <1>0, <2>4 DEF SettledInv, DeadInv
  <2>10. LiveInv(h)'
    <3> SUFFICES ASSUME ~lost, rec.st = "alive", NoneArchived'
                 PROVE  Queued(h)' \/ OnCourse(h)'
      BY <1>0 DEF LiveInv
    <3>1. NoneArchived
      BY <2>3 DEF NoneArchived
    <3>2. CASE PullDue(h)
      <4>1. PICK q \in PageIds :
              /\ Linked(q) # {}
              /\ \/ pages[q].unnoticed
                 \/ \E t \in TaskIds :
                      tasks[t].st = "pending" /\ tasks[t].op = "pull" /\ tasks[t].page = q
        BY <1>0, <3>2 DEF PullDue
      <4>2. pages[q].unnoticed => pages'[q].unnoticed
        BY <2>3
      <4> QED  BY <2>1, <2>4, <4>1, <4>2 DEF Queued, PullDue
    <3>3. CASE Pending("push") \/ Pending("delete")
      BY <2>4, <3>3 DEF Queued
    <3>4. CASE OnCourse(h)
      BY <1>0, <2>2, <2>3, <3>4 DEF OnCourse
    <3> QED  BY <3>1, <3>2, <3>3, <3>4 DEF SettledInv, LiveInv, Queued
  <2> QED  BY <2>4, <2>5, <2>6, <2>7, <2>8, <2>9, <2>10 DEF SettledInv
<1> QED  BY <1>1, <1>2 DEF Write

LEMMA SaveSettled ==
  ASSUME NEW h \in Workers, SettledInv(h), NameInv', Save(h)
  PROVE  SettledInv(h)'
<1>t. /\ TypeOK /\ KnowsTask(h) /\ CopiesAreNamed /\ wk \in [Workers -> Slot]
      /\ wk[h] \in Slot /\ ledger \in [RowIds -> Row]
  BY DEF SettledInv, NameInv, TypeOK
<1> DEFINE row == [wk[h].copy EXCEPT !.st = "synced", !.conflict = FALSE, !.synced = rec.upd]
<1>0. /\ wk[h].pc = "save" /\ UNCHANGED <<rec, pages, faults, lost>> /\ Done(h)
  BY DEF Save
<1>1. row.st = "synced" /\ row.ext = wk[h].copy.ext
  BY <1>t DEF Slot, Row
<1>2. PICK r \in RowIds :
        /\ IF wk[h].row = NoRow THEN r \notin Rows ELSE r = wk[h].row
        /\ ledger' = [ledger EXCEPT ![r] = row]
  BY DEF Save
<1> HIDE DEF row
<1>a. wk[h].copy.ext \in PageIds /\ pages[wk[h].copy.ext].st # "none"
  BY <1>0, KnownRow DEF SettledInv, NameInv, NewPagesAreUnshared, Inserting
<1>b. NoneArchived => pages[wk[h].copy.ext].st = "live"
  BY <1>t, <1>a DEF NoneArchived, TypeOK, Page
<1>c. ASSUME r \in Rows', ledger'[r] = row, rec.st = "alive", NoneArchived, OnCourse(h)
      PROVE  Agree'
  BY <1>0, <1>1, <1>b, <1>c DEF Agree, OnCourse
<1>3. CASE wk[h].row # NoRow
  <2>1. /\ Rows' = Rows /\ ledger'[wk[h].row] = row
        /\ \A q \in RowIds : ledger'[q].ext = ledger[q].ext
    BY <1>1, <1>2, <1>3, SavedRow
  <2>2. r \in Rows' /\ ledger'[r] = row
    BY <1>2, <1>3, <2>1, KnownRow
  <2>3. ~Inserting(h)
    BY <1>3 DEF Inserting
  <2> QED  BY <1>0, <1>c, <2>1, <2>2, <2>3, DoneSettled
<1>4. CASE wk[h].row = NoRow
  <2>1. Rows = {} /\ Inserting(h)
    BY <1>0, <1>4 DEF SettledInv, KnowsRow, Inserting
  <2>2. ledger'[r] = row /\ \A q \in RowIds : q # r => ledger'[q] = ledger[q]
    BY <1>t, <1>2
  <2>3. Rows' = {r}
    BY <1>1, <2>1, <2>2 DEF Rows
  <2>4. \A p : Linked(p) = {} /\ (r \in Linked(p)' <=> p = wk[h].copy.ext)
    BY <1>1, <2>1, <2>2, <2>3 DEF Linked
  <2>5. Ended(h, FreeTask)
    BY <1>0, <1>t DEF Ended, Done, IdleSlot, FreeTask
  <2>6. wk'[h].pc = "idle" /\ ~wk'[h].isDelete /\ rec.st # "none"
    BY <1>0, <2>5 DEF Ended, SettledInv, Blank, KnowsTask, TaskOf
  <2>7. KnowsTask(h)' /\ KnowsRow(h)' /\ OneRow' /\ Blank' /\ Filled(h)' /\ Buried(h)'
    BY <1>0, <2>3, <2>6 DEF SettledInv, KnowsTask, KnowsRow, OneRow, Blank, Filled, Buried,
       PushOnly, PullOnly
  <2>8. OrphanInv(h)'
    <3> SUFFICES ASSUME faults = 0, NEW p \in PageIds, pages[p].st # "none"
                 PROVE  Linked(p)' # {}
      BY <1>0 DEF OrphanInv
    <3>1. p = wk[h].copy.ext
      BY <2>4 DEF SettledInv, OrphanInv
    <3> QED  BY <2>4, <3>1
  <2>9. \A o : Pending(o) => Pending(o)'
    BY <1>t, <2>5, EndedTasks
  <2>10. DeadInv(h)'
    BY <1>0, <2>9 DEF SettledInv, DeadInv
  <2>11. Queued(h) => Queued(h)'
    BY <1>0, <1>t, <2>4, <2>5, EndedQueued
  <2>12. NoneArchived' = NoneArchived /\ (Agree' => OnCourse(h)')
    BY <1>0, <2>6 DEF NoneArchived, OnCourse
  <2>13. LiveInv(h)'
    BY <1>0, <1>c, <2>2, <2>3, <2>11, <2>12 DEF SettledInv, LiveInv
  <2> QED  BY <2>7, <2>8, <2>10, <2>13 DEF SettledInv
<1> QED  BY <1>3, <1>4

LEMMA ArchiveSettled ==
  ASSUME NEW h \in Workers, SettledInv(h), NameInv', Archive(h)
  PROVE  SettledInv(h)'
<1>t. TypeOK /\ KnowsTask(h) /\ pages \in [PageIds -> Page]
  BY DEF SettledInv, NameInv, TypeOK
<1>0. /\ wk[h].pc = "archive" /\ UNCHANGED <<rec, ledger, lost>>
      /\ {"fail", "savedel"} \subseteq Steps
  BY DEF Archive, Steps
<1>1. CASE Goto(h, "fail") /\ UNCHANGED pages /\ CallFails
  BY <1>0, <1>1, <1>t, GoneTo, FailedCall, MovedSettled DEF Moved
<1>2. CASE /\ pages' = [pages EXCEPT ![wk[h].copy.ext].st = "archived",
                                     ![wk[h].copy.ext].edited = @ + 1]
           /\ Goto(h, "savedel")
           /\ UNCHANGED faults
  <2> DEFINE p == wk[h].copy.ext
  <2>1. wk[h].row # NoRow
    BY <1>0 DEF SettledInv, KnowsRow
  <2>2. /\ p \in PageIds /\ pages[p].st # "none"
        /\ \A r \in Rows : ledger[r].ext = p
    BY <2>1, KnownRow
  <2>3. /\ wk'[h].pc = "savedel" /\ wk'[h].task = wk[h].task
        /\ wk'[h].isDelete = wk[h].isDelete /\ wk'[h].row = wk[h].row
        /\ wk'[h].copy = wk[h].copy /\ tasks' = tasks
    BY <1>0, <1>2, <1>t, GoneTo
  <2>4. /\ pages'[p].st = "archived" /\ pages'[p].val = pages[p].val
        /\ \A q \in PageIds : q # p => pages'[q] = pages[q]
    BY <1>t, <1>2, <2>2 DEF Page
  <2>5. /\ Rows' = Rows /\ (\A q : Linked(q)' = Linked(q)) /\ OneRow'
        /\ TaskOf(h)' = TaskOf(h)
    BY <1>0, <2>3, SameRows DEF SettledInv, Rows, TaskOf
  <2>6. KnowsTask(h)' /\ KnowsRow(h)'
    BY <1>0, <2>1, <2>3, <2>4, <2>5 DEF SettledInv, KnowsTask, KnowsRow, PushOnly, PullOnly
  <2>7. Blank' /\ Buried(h)'
    <3>1. rec.st # "none"
      BY <1>0 DEF SettledInv, Blank, KnowsTask, TaskOf
    <3> QED  BY <1>0, <2>3, <2>5, <3>1 DEF SettledInv, Blank, Buried
  <2>8. Filled(h)'
    BY <1>0, <2>2, <2>3, <2>4 DEF SettledInv, Filled
  <2>9. OrphanInv(h)'
    BY <1>0, <1>2, <2>2, <2>4, <2>5 DEF SettledInv, OrphanInv, Inserting
  <2>10. NoneLive'
    BY <1>0, <2>2, <2>4, <2>5 DEF NoneLive
  <2>11. DeadInv(h)'
    BY <2>3, <2>10 DEF DeadInv
  <2>12. ~NoneArchived'
    BY <2>2, <2>4 DEF NoneArchived
  <2> QED  BY <2>5, <2>6, <2>7, <2>8, <2>9, <2>11, <2>12 DEF SettledInv, LiveInv
<1> QED  BY <1>1, <1>2 DEF Archive

LEMMA SaveArchivedSettled ==
  ASSUME NEW h \in Workers, SettledInv(h), NameInv', SaveArchived(h)
  PROVE  SettledInv(h)'
<1>t. wk[h] \in Slot
  BY DEF SettledInv, NameInv, TypeOK
<1> DEFINE row == [wk[h].copy EXCEPT !.st = "synced", !.synced = rec.upd]
<1>0. /\ wk[h].pc = "savedel" /\ UNCHANGED <<rec, pages, faults, lost>> /\ Done(h)
      /\ ledger' = [ledger EXCEPT ![wk[h].row] = row]
  BY DEF SaveArchived
<1>1. row.st # "none" /\ row.ext = wk[h].copy.ext
  BY <1>t DEF Slot, Row
<1> HIDE DEF row
<1>2. wk[h].row # NoRow /\ pages[wk[h].copy.ext].st = "archived" /\ ~Inserting(h)
  BY <1>0 DEF SettledInv, KnowsRow, Inserting
<1>3. ~NoneArchived
  BY <1>2, KnownRow DEF NoneArchived
<1>4. Rows' = Rows /\ \A r \in RowIds : ledger'[r].ext = ledger[r].ext
  BY <1>0, <1>1, <1>2, SavedRow
<1> QED  BY <1>0, <1>2, <1>3, <1>4, DoneSettled

\* The page is archived all the same.
LEMMA SaveArchivedFailsSettled ==
  ASSUME NEW h \in Workers, SettledInv(h), NameInv', SaveArchivedFails(h)
  PROVE  SettledInv(h)'
<1>0. /\ wk[h].pc = "savedel" /\ UNCHANGED <<rec, pages, ledger, lost>> /\ Done(h)
      /\ faults' # 0
  BY LedgerFailsType DEF SaveArchivedFails, SettledInv, NameInv
<1>1. wk[h].row # NoRow /\ pages[wk[h].copy.ext].st = "archived" /\ ~Inserting(h)
  BY <1>0 DEF SettledInv, KnowsRow, Inserting
<1>2. ~NoneArchived
  BY <1>1, KnownRow DEF NoneArchived
<1>3. Rows' = Rows
  BY <1>0 DEF Rows
<1> QED  BY <1>0, <1>1, <1>2, <1>3, DoneSettled

LEMMA MarkConflictSettled ==
  ASSUME NEW h \in Workers, SettledInv(h), NameInv', MarkConflict(h)
  PROVE  SettledInv(h)'
<1>t. wk[h] \in Slot
  BY DEF SettledInv, NameInv, TypeOK
<1> DEFINE version == IF TaskOf(h).op = "pull" THEN wk[h].seen ELSE wk[h].copy.remote
           row == [wk[h].copy EXCEPT !.st = "conflict", !.conflict = TRUE, !.remote = version]
<1>0. /\ wk[h].pc = "conflict" /\ UNCHANGED <<rec, pages, faults, lost>> /\ Done(h)
      /\ ledger' = [ledger EXCEPT ![wk[h].row] = row]
  BY DEF MarkConflict
<1>1. row.st = "conflict" /\ row.ext = wk[h].copy.ext
  <2> HIDE DEF version
  <2> QED  BY <1>t DEF Slot, Row
<1> HIDE DEF row
<1>2. wk[h].row # NoRow /\ ~Inserting(h)
  BY <1>0 DEF SettledInv, KnowsRow, Inserting
<1>4. /\ Rows' = Rows /\ ledger'[wk[h].row] = row
      /\ \A r \in RowIds : ledger'[r].ext = ledger[r].ext
  BY <1>0, <1>1, <1>2, SavedRow
<1>5. Agree'
  BY <1>1, <1>2, <1>4, KnownRow DEF Agree
<1> QED  BY <1>0, <1>2, <1>4, <1>5, DoneSettled

LEMMA RecordFailureSettled ==
  ASSUME NEW h \in Workers, SettledInv(h), NameInv', RecordFailure(h)
  PROVE  SettledInv(h)'
<1>t. wk[h] \in Slot
  BY DEF SettledInv, NameInv, TypeOK
<1> DEFINE row == [wk[h].copy EXCEPT !.st = "error"]
<1>0. /\ wk[h].pc = "fail" /\ UNCHANGED <<rec, pages, faults>> /\ Retry(h)
      /\ ledger' = IF wk[h].row = NoRow THEN ledger ELSE [ledger EXCEPT ![wk[h].row] = row]
  BY DEF RecordFailure
<1>1. row.st # "none" /\ row.ext = wk[h].copy.ext
  BY <1>t DEF Slot, Row
<1> HIDE DEF row
<1>2. Rows' = Rows /\ \A r \in RowIds : ledger'[r].ext = ledger[r].ext
  <2>1. CASE wk[h].row = NoRow
    BY <1>0, <2>1 DEF Rows
  <2>2. CASE wk[h].row # NoRow
    BY <1>0, <1>1, <2>2, SavedRow
  <2> QED  BY <2>1, <2>2
<1>3. ~Inserting(h)
  BY <1>0 DEF Inserting
<1> QED  BY <1>0, <1>2, <1>3, RetrySettled

LEMMA RecordFailureFailsSettled ==
  ASSUME NEW h \in Workers, SettledInv(h), NameInv', RecordFailureFails(h)
  PROVE  SettledInv(h)'
<1>1. /\ wk[h].pc = "fail" /\ UNCHANGED <<rec, pages, ledger>> /\ Retry(h)
      /\ faults' # 0
  BY LedgerFailsType DEF RecordFailureFails, SettledInv, NameInv
<1>2. Rows' = Rows
  BY <1>1 DEF Rows
<1> QED  BY <1>1, <1>2, RetrySettled

LEMMA CrashSettled ==
  ASSUME NEW h \in Workers, SettledInv(h), NameInv', Crash(h)
  PROVE  SettledInv(h)'
<1>1. /\ wk[h].pc # "idle" /\ UNCHANGED <<rec, pages, ledger>> /\ Retry(h)
      /\ faults' = faults + 1 /\ faults \in Nat
  BY BoundsAssumption DEF Crash, SettledInv, NameInv, TypeOK
<1>2. Rows' = Rows /\ faults' # 0
  BY <1>1 DEF Rows
<1> QED  BY <1>1, <1>2, RetrySettled

LEMMA FindSettled ==
  ASSUME NEW h \in Workers, SettledInv(h), NameInv', Find(h)
  PROVE  SettledInv(h)'
<1>t. TypeOK /\ wk \in [Workers -> Slot] /\ wk[h] \in Slot
  BY DEF SettledInv, NameInv, TypeOK
<1> DEFINE found == Linked(TaskOf(h).page)
<1>0. /\ wk[h].pc = "find" /\ UNCHANGED <<rec, pages, ledger, faults>>
      /\ TaskOf(h).op = "pull"
  BY DEF Find, SettledInv, KnowsTask, PullOnly
<1>1. CASE found = {} \/ ~active
  <2>1. Done(h) /\ lost' = (lost \/ (found # {} /\ ~active))
    BY <1>1 DEF Find
  <2>2. Rows' = Rows /\ ~Inserting(h)
    BY <1>0 DEF Rows, Inserting
  <2>3. ASSUME ~lost', OnCourse(h)
        PROVE  Agree'
    <3>1. Linked(TaskOf(h).page) = {}
      BY <1>1, <2>1, <2>3
    <3>2. Agree
      BY <1>0, <2>3, <3>1 DEF OnCourse
    <3> QED  BY <1>0, <2>2, <3>2 DEF Agree
  <2>4. ~lost' => ~lost
    BY <2>1
  <2> QED  BY <1>0, <2>1, <2>2, <2>3, <2>4, DoneSettled
<1>2. CASE ~(found = {} \/ ~active)
  <2> DEFINE row == First(found)
  <2>1. found \in SUBSET Rows /\ found # {}
    BY <1>2 DEF Linked
  <2>2. row \in found /\ row \in RowIds /\ ledger[row] \in Row
    BY <1>t, <2>1, FirstRow
  <2>3. /\ wk' = [wk EXCEPT ![h].row = row, ![h].copy = ledger[row], ![h].pc = "fetch"]
        /\ tasks' = tasks /\ lost' = lost
    BY <1>2 DEF Find
  <2>4. row # NoRow /\ ledger[row].ext = TaskOf(h).page
    BY <2>2, NullAssumption DEF Linked
  <2> HIDE DEF row
  <2>5. /\ wk'[h].pc = "fetch" /\ wk'[h].row = row /\ wk'[h].copy = ledger[row]
        /\ wk'[h].task = wk[h].task /\ wk'[h].isDelete = wk[h].isDelete
    BY <1>t, <2>3 DEF Slot
  <2>6. /\ Rows' = Rows /\ (\A p : Linked(p)' = Linked(p)) /\ OneRow'
        /\ TaskOf(h)' = TaskOf(h)
    BY <1>0, <2>3, <2>5, SameRows DEF SettledInv, Rows, TaskOf
  <2>7. KnowsTask(h)' /\ KnowsRow(h)'
    BY <1>0, <2>4, <2>5, <2>6 DEF SettledInv, KnowsTask, KnowsRow, PushOnly, PullOnly
  <2>8. Blank' /\ Filled(h)' /\ OrphanInv(h)' /\ Buried(h)'
    BY <1>0, <2>3, <2>5, <2>6 DEF SettledInv, Blank, Filled, OrphanInv, Inserting, Buried
  <2>9. /\ NoneLive' = NoneLive /\ \A o : Pending(o)' = Pending(o)
    BY <1>0, <2>3, <2>6 DEF NoneLive, Pending
  <2>10. DeadInv(h)'
    BY <1>0, <2>3, <2>5, <2>6, <2>9 DEF SettledInv, DeadInv
  <2>11. LiveInv(h)'
    BY <2>5 DEF LiveInv, OnCourse
  <2> QED  BY <2>6, <2>7, <2>8, <2>10, <2>11 DEF SettledInv
<1> QED  BY <1>1, <1>2

\* The page a pull has found the row of.
LEMMA PulledPage ==
  ASSUME NEW h \in Workers, SettledInv(h), wk[h].pc \in PullOnly \ {"find"}
  PROVE  /\ TaskOf(h).op = "pull" /\ wk[h].row # NoRow
         /\ TaskOf(h).page = wk[h].copy.ext /\ TaskOf(h).page \in PageIds
         /\ pages[TaskOf(h).page].st # "none"
<1>1. /\ TaskOf(h).op = "pull" /\ wk[h].row # NoRow /\ TaskOf(h).page = wk[h].copy.ext
  BY DEF SettledInv, KnowsTask, KnowsRow, PullOnly
<1> QED  BY <1>1, KnownRow

\* What a pull reads of the page.
LEMMA FetchReads ==
  ASSUME TypeOK, NEW w \in Workers, Fetch(w)
  PROVE  /\ UNCHANGED <<rec, pages, ledger, lost>> /\ wk[w].pc = "fetch"
         /\ \/ Goto(w, "fail") /\ CallFails
            \/ /\ wk'[w].pc = "check" /\ TaskOf(w).page \in PageIds
               /\ wk'[w].val = pages[TaskOf(w).page].val
               /\ wk'[w].task = wk[w].task /\ wk'[w].isDelete = wk[w].isDelete
               /\ wk'[w].row = wk[w].row /\ wk'[w].copy = wk[w].copy
               /\ UNCHANGED <<tasks, faults>>
<1> DEFINE Read(p) == wk' = [wk EXCEPT ![w].val = pages[p].val,
                                       ![w].seen = pages[p].edited, ![w].pc = "check"]
<1>1. /\ UNCHANGED <<rec, pages, ledger, lost>> /\ wk[w].pc = "fetch"
      /\ \/ CallFails /\ Goto(w, "fail")
         \/ /\ \E p \in PageIds : p = TaskOf(w).page /\ Read(p)
            /\ UNCHANGED <<tasks, faults>>
  BY Zenon DEF Fetch
<1>2. ASSUME NEW p \in PageIds, Read(p)
      PROVE  /\ wk'[w].pc = "check" /\ wk'[w].val = pages[p].val
             /\ wk'[w].task = wk[w].task /\ wk'[w].isDelete = wk[w].isDelete
             /\ wk'[w].row = wk[w].row /\ wk'[w].copy = wk[w].copy
  BY <1>2 DEF TypeOK, Slot
<1> HIDE DEF Read
<1> QED  BY <1>1, <1>2

LEMMA FetchSettled ==
  ASSUME NEW h \in Workers, SettledInv(h), NameInv', Fetch(h)
  PROVE  SettledInv(h)'
<1>t. TypeOK /\ "fail" \in Steps
  BY DEF SettledInv, NameInv, Steps
<1>0. UNCHANGED <<rec, pages, ledger, lost>> /\ wk[h].pc = "fetch"
  BY <1>t, FetchReads
<1>1. CASE Goto(h, "fail") /\ CallFails
  BY <1>0, <1>1, <1>t, GoneTo, FailedCall, MovedSettled DEF Moved
<1>2. CASE ~(Goto(h, "fail") /\ CallFails)
  <2>1. Moved(h) /\ UNCHANGED faults
    BY <1>0, <1>2, <1>t, FetchReads DEF Moved
  <2> QED  BY <2>1, MovedSettled
<1> QED  BY <1>1, <1>2

LEMMA CheckSettled ==
  ASSUME NEW h \in Workers, SettledInv(h), NameInv', Check(h)
  PROVE  SettledInv(h)'
<1>t. TypeOK
  BY DEF SettledInv, NameInv
<1>0. /\ wk[h].pc = "check" /\ UNCHANGED <<rec, pages, ledger, faults, lost>>
      /\ {"conflict", "apply"} \subseteq Steps
  BY DEF Check, Steps
<1>1. CASE Goto(h, "conflict") \/ (wk[h].val # Empty /\ Goto(h, "apply"))
  BY <1>0, <1>1, <1>t, GoneTo, MovedSettled DEF Moved
<1>2. CASE Done(h) /\ (rec.st # "alive" \/ wk[h].val = Empty)
  <2>1. /\ TaskOf(h).op = "pull" /\ TaskOf(h).page \in PageIds
        /\ pages[TaskOf(h).page].st # "none"
    BY <1>0, PulledPage DEF PullOnly
  <2>2. OnCourse(h) => wk[h].val # Empty
    BY <1>0, <2>1 DEF OnCourse, SettledInv, Filled
  <2>3. Rows' = Rows /\ ~Inserting(h)
    BY <1>0 DEF Rows, Inserting
  <2> QED  BY <1>0, <1>2, <2>1, <2>2, <2>3, DoneSettled
<1> QED  BY <1>1, <1>2 DEF Check

LEMMA ApplySettled ==
  ASSUME NEW h \in Workers, SettledInv(h), NameInv', Apply(h)
  PROVE  SettledInv(h)'
<1>t. TypeOK
  BY DEF SettledInv, NameInv
<1>0. /\ wk[h].pc = "apply" /\ UNCHANGED <<rec, pages, ledger, faults, lost>>
      /\ {"put", "fail"} \subseteq Steps
      /\ Goto(h, "put") \/ Goto(h, "fail")
  BY DEF Apply, Steps
<1> QED  BY <1>0, <1>t, GoneTo, MovedSettled DEF Moved

LEMMA PutSettled ==
  ASSUME NEW h \in Workers, SettledInv(h), NameInv', Put(h)
  PROVE  SettledInv(h)'
<1>t. TypeOK /\ rec \in Record
  BY DEF SettledInv, NameInv, TypeOK
<1>0. /\ wk[h].pc = "put" /\ UNCHANGED <<pages, ledger, faults, lost>>
      /\ rec'.st = "alive" /\ rec'.val = wk[h].val /\ Goto(h, "psave") /\ "psave" \in Steps
  BY DEF Put, Steps
<1>1. /\ wk'[h].pc = "psave" /\ wk'[h].task = wk[h].task
      /\ wk'[h].isDelete = wk[h].isDelete /\ wk'[h].row = wk[h].row
      /\ wk'[h].copy = wk[h].copy /\ wk'[h].val = wk[h].val /\ tasks' = tasks
  BY <1>0, <1>t, GoneTo
<1>2. /\ Rows' = Rows /\ (\A p : Linked(p)' = Linked(p)) /\ OneRow'
      /\ TaskOf(h)' = TaskOf(h)
  BY <1>0, <1>1, SameRows DEF SettledInv, Rows, TaskOf
<1>3. /\ TaskOf(h).op = "pull" /\ wk[h].row # NoRow
      /\ TaskOf(h).page = wk[h].copy.ext /\ TaskOf(h).page \in PageIds
      /\ pages[TaskOf(h).page].st # "none"
  BY <1>0, PulledPage DEF PullOnly
<1>4. KnowsTask(h)' /\ KnowsRow(h)'
  BY <1>0, <1>1, <1>2 DEF SettledInv, KnowsTask, KnowsRow, PushOnly, PullOnly
<1>5. Blank' /\ Filled(h)' /\ OrphanInv(h)' /\ DeadInv(h)'
  BY <1>0, <1>1, <1>2 DEF SettledInv, Blank, Filled, OrphanInv, Inserting, DeadInv
<1>6. Buried(h)'
  BY <1>2, <1>3, KnownRow DEF Buried
<1>7. /\ NoneLive' = NoneLive /\ NoneArchived' = NoneArchived
      /\ \A o : Pending(o)' = Pending(o)
  BY <1>0, <1>1, <1>2 DEF NoneLive, NoneArchived, Pending
<1>8. rec.st # "none"
  BY <1>0 DEF SettledInv, Blank, KnowsTask, TaskOf
<1>9. Queued(h) => Queued(h)'
  BY <1>0, <1>1, <1>2, <1>7 DEF Queued, PullDue
<1>10. LiveInv(h)'
  <2> SUFFICES ASSUME ~lost, NoneArchived
               PROVE  Queued(h)' \/ OnCourse(h)'
    BY <1>0, <1>7 DEF LiveInv
  <2>1. CASE rec.st = "alive"
    <3>1. OnCourse(h) => OnCourse(h)'
      BY <1>0, <1>1, <1>2 DEF OnCourse
    <3> QED  BY <1>9, <2>1, <3>1 DEF SettledInv, LiveInv
  <2>2. CASE rec.st = "deleted"
    <3>1. ~NoneLive
      <4>1. pages[ledger[wk[h].row].ext].st \notin {"none", "archived"}
        BY <1>3, KnownRow DEF NoneArchived
      <4>2. pages[ledger[wk[h].row].ext] \in Page
        BY <1>3, <1>t, KnownRow DEF TypeOK
      <4>3. pages[ledger[wk[h].row].ext].st = "live"
        BY <4>1, <4>2 DEF Page
      <4> QED  BY <1>3, <4>3, KnownRow DEF NoneLive
    <3>2. Pending("push") \/ Pending("delete")
      BY <1>0, <2>2, <3>1 DEF SettledInv, DeadInv
    <3> QED  BY <1>7, <3>2 DEF Queued
  <2> QED  BY <1>8, <1>t, <2>1, <2>2 DEF Record
<1> QED  BY <1>2, <1>4, <1>5, <1>6, <1>10 DEF SettledInv

LEMMA SavePulledSettled ==
  ASSUME NEW h \in Workers, SettledInv(h), NameInv', SavePulled(h)
  PROVE  SettledInv(h)'
<1>t. wk[h] \in Slot /\ pages \in [PageIds -> Page]
  BY DEF SettledInv, NameInv, TypeOK
<1> DEFINE row == [wk[h].copy EXCEPT !.st = "synced", !.conflict = FALSE,
                                     !.remote = wk[h].seen, !.synced = rec.upd]
<1>0. /\ wk[h].pc = "psave" /\ UNCHANGED <<rec, pages, faults, lost>> /\ Done(h)
      /\ ledger' = [ledger EXCEPT ![wk[h].row] = row]
  BY DEF SavePulled
<1>1. row.st = "synced" /\ row.ext = wk[h].copy.ext
  BY <1>t DEF Slot, Row
<1> HIDE DEF row
<1>2. /\ TaskOf(h).op = "pull" /\ wk[h].row # NoRow
      /\ TaskOf(h).page = wk[h].copy.ext /\ TaskOf(h).page \in PageIds
      /\ pages[TaskOf(h).page].st # "none" /\ ~Inserting(h)
  BY <1>0, PulledPage DEF PullOnly, Inserting
<1>4. /\ Rows' = Rows /\ ledger'[wk[h].row] = row
      /\ \A r \in RowIds : ledger'[r].ext = ledger[r].ext
  BY <1>0, <1>1, <1>2, SavedRow
<1>5. ASSUME NoneArchived, OnCourse(h)
      PROVE  Agree'
  <2>1. pages[wk[h].copy.ext].st = "live"
    BY <1>t, <1>2, <1>5 DEF NoneArchived, Page
  <2>2. pages[wk[h].copy.ext].val = rec.val
    BY <1>0, <1>2, <1>5 DEF OnCourse
  <2> QED  BY <1>0, <1>1, <1>2, <1>4, <2>1, <2>2, KnownRow DEF Agree
<1> QED  BY <1>0, <1>2, <1>4, <1>5, DoneSettled

\* With one handler the two sides of a record agree once everything has been
\* handled and nothing was dropped: for any tasks, rows, pages, edits, retries
\* and faults.  (Clearing a property in Notion is left out: a pull takes an
\* empty property for no field at all.)
THEOREM OneHandlerSettles ==
  ASSUME NEW h, Workers = {h}, "clear" \notin UserOps
  PROVE  Spec => []SettledAgrees
<1> USE DEF SettledInv
<1>h. h \in Workers
  OBVIOUS
<1>1. Init => SettledInv(h)
  BY <1>h, InitSettled
<1>2. SettledInv(h) /\ [Next]_vars /\ NameInv' => SettledInv(h)'
  <2> HIDE DEF SettledInv
  <2> SUFFICES ASSUME SettledInv(h), [Next]_vars, NameInv'
               PROVE  SettledInv(h)'
    OBVIOUS
  <2>1. CASE UNCHANGED vars
    BY <1>h, <2>1, UnmovedSettled DEF vars
  <2>2. CASE Edit \/ Delete \/ Disconnect
    BY <1>h, <2>2, EditSettled, DeleteSettled, UnmovedSettled DEF Disconnect
  <2>3. CASE \E p \in PageIds : RemoteEdit(p) \/ Webhook(p)
    BY <1>h, <2>3, RemoteEditSettled, WebhookSettled
  <2>4. CASE PushStep(h)
    BY <1>h, <2>4, BeginSettled, LoadSettled, GetVersionSettled, WriteSettled, SaveSettled,
       ArchiveSettled, SaveArchivedSettled DEF PushStep
  <2>5. CASE PullStep(h)
    BY <1>h, <2>5, FindSettled, FetchSettled, CheckSettled, ApplySettled, PutSettled,
       SavePulledSettled DEF PullStep
  <2>6. CASE MarkConflict(h) \/ RecordFailure(h) \/ \E t \in TaskIds : Dequeue(h, t)
    BY <1>h, <2>6, MarkConflictSettled, RecordFailureSettled, DequeueSettled
  <2>7. CASE Fault(h)
    BY <1>h, <2>7, SaveArchivedFailsSettled, RecordFailureFailsSettled, CrashSettled DEF Fault
  <2> QED
    BY <2>1, <2>2, <2>3, <2>4, <2>5, <2>6, <2>7 DEF Next, Step, Handle
<1>3. SettledInv(h) => SettledAgrees
  <2> HIDE DEF SettledInv
  <2> SUFFICES ASSUME SettledInv(h), Quiet, ~lost
               PROVE  LiveAgrees /\ DeletedIsArchived
    BY DEF SettledAgrees
  <2>1. wk[h].pc = "idle"
    BY DEF SettledInv, KnowsTask, TaskOf, Quiet
  <2>2. ~Queued(h) /\ ~Pending("push") /\ ~Pending("delete")
    BY DEF Quiet, Queued, PullDue, Pending
  <2>3. LiveAgrees
    BY <2>1, <2>2 DEF LiveAgrees, SettledInv, LiveInv, OnCourse, NoneArchived
  <2>4. DeletedIsArchived
    <3> SUFFICES ASSUME rec.st = "deleted", NEW p \in PageIds, faults = 0 \/ Linked(p) # {},
                        pages[p].st = "live"
                 PROVE  FALSE
      BY DEF DeletedIsArchived
    <3>1. NoneLive
      BY <2>1, <2>2 DEF SettledInv, DeadInv
    <3>2. Linked(p) # {}
      BY <2>1 DEF SettledInv, OrphanInv, Inserting
    <3>3. PICK r \in Rows : ledger[r].ext = p
      BY <3>2 DEF Linked
    <3> QED  BY <3>1, <3>3 DEF NoneLive
  <2> QED  BY <2>3, <2>4
<1>4. Spec => []NameInv
  BY NamesStay
<1> QED  BY <1>1, <1>2, <1>3, <1>4, PTL DEF Spec
=============================================================================
