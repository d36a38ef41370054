----------------------------- MODULE ContactsProofs -----------------------------
(***************************************************************************)
(* Proofs about Contacts: for any number of companies, rows, workers,      *)
(* events, requests and faults, an event that was acknowledged becomes a   *)
(* contact, and one only, a merge moves all that hangs on the companies it *)
(* deletes and deletes no group altogether, and it leaves no duplicates if *)
(* nobody else writes companies, each but for the exceptions its statement *)
(* names.  The last sections take what is proved of the other parts in     *)
(* AccountsProofs and GatewayProofs to the specification in which          *)
(* MCRequests puts them beside Contacts, and add what concerns Access.     *)
(***************************************************************************)
EXTENDS MCRequests, TLAPS, WellFoundedInduction

\* A worker stands where its kind of work can stand.  Who runs an event's task has
\* its key, who saves a row read it live, and who saves a company read it before it
\* was merged.
JobOK(j) ==
  /\ IF j.kind = "zapier" THEN j.event \in Events /\ j.key = EventRecord[j.event].key
                          ELSE j.event = None
  /\ j.pc = "idle" => j.kind = "none"
  /\ j.pc \in {"enrich", "find", "create", "findrow", "createrow"} =>
       j.kind \in {"zapier", "provider", "maker", "import", "sponsor"}
  /\ j.pc = "saverow" => j.row \in RowIds /\ j.oldRow.st = "live"
  /\ j.kind = "zapier" =>
       /\ j.pc \in {"findrow", "find", "create", "createrow", "saverow"}
       /\ j.pc = "saverow" => j.oldRow.kind = "contact" /\ j.oldRow.key = j.key
  /\ j.pc = "savecompany" => j.company \in CompanyIds /\ j.old.st = "live" /\ j.old.into = 0
JobsOK == \A w \in Workers : JobOK(job[w])

\* What a row is, and whose, never changes: a copy says the same of it.
CopyOK(j) ==
  j.pc = "saverow" =>
    /\ row[j.row].st # "none" /\ j.oldRow.kind = row[j.row].kind
    /\ j.oldRow.key = row[j.row].key /\ j.oldRow.ingested = row[j.row].ingested
CopiesOK == \A w \in Workers : CopyOK(job[w])

\* What EventKept promises of an event that was acknowledged holds as soon as it has
\* a key, which acknowledges the next request.
Arrived(e) == \E r \in RowIds : /\ row[r].st # "none" /\ row[r].kind = "contact"
                                /\ row[r].key = EventRecord[e].key
OnItsWay(e) ==
  \/ event[e].refused \/ event[e].req = "publish" \/ event[e].tasks > 0
  \/ \E w \in Workers : Handles(w, e)
  \/ Arrived(e)
Keeping == \A e \in Events : event[e].key \/ event[e].acked => OnItsWay(e)

\* There is one contact with an address that was created by a job which overlapped
\* no other, and none while such a job is going to create it.
Alone(r, key) == /\ row[r].st = "live" /\ row[r].kind = "contact" /\ row[r].key = key
                 /\ row[r].ingested /\ ~row[r].raced
Looks(w, key) == LooksFor(w, key) /\ ~job[w].raced
Looking ==
  \A key \in Keys :
    /\ \A r, s \in RowIds : Alone(r, key) /\ Alone(s, key) => r = s
    /\ \A w \in Workers : Looks(w, key) => \A r \in RowIds : ~Alone(r, key)

\* A live company was not merged.  A merge goes into companies that it does not
\* delete, and that nobody else does as long as merges do not cross.
LiveOnes == \A c \in CompanyIds : company[c].st = "live" => company[c].into = 0
Apart(w) == \A t, u \in job[w].todo : u.dup # t.primary
Merges(w) == job[w].pc = "merging"
Merging ==
  /\ LiveOnes
  /\ \A w \in Workers : Merges(w) => Apart(w)
  /\ ~crossed =>
       /\ \A v, w \in Workers : Merges(v) /\ Merges(w) => v = w
       /\ \A w \in Workers : Merges(w) => \A t \in job[w].todo : ~Merged(t.primary)

\* Of two companies in one group, a merge that nobody disturbed is going to delete one.
Twins(c, d) == c # d /\ c \in Live(company) /\ d \in Live(company) /\ DedupeKey(c) = DedupeKey(d)
Cleaning ==
  \A w \in Workers : Merges(w) /\ job[w].alone =>
    \A c, d \in CompanyIds : Twins(c, d) => \E t \in job[w].todo : t.dup \in {c, d}

ContactsInv == /\ TypeOK /\ JobsOK /\ CopiesOK /\ Keeping /\ Looking
               /\ Merging /\ NoOrphans /\ GroupSurvives /\ Cleaning

-----------------------------------------------------------------------------
(* Types.                                                                  *)

LEMMA Typed == NoCompany \in Company /\ NoRow \in Row /\ Idle \in Job
<1>1. NoCompany \in Company
  BY BoundAssumption DEF NoCompany, Company
<1>2. NoRow \in Row
  BY BoundAssumption DEF NoRow, Row, Kinds
<1> QED  BY <1>1, <1>2, BoundAssumption DEF Idle, Job

LEMMA RequestTyped == ASSUME TypeOK, Request PROVE requests' \in 0 .. MaxRequests
  BY BoundAssumption DEF TypeOK, Request

-----------------------------------------------------------------------------
(* Steps of workers.                                                       *)

\* Nothing of a job has changed but what others write into it: it was disturbed, or
\* overlapped.
Like(a, b) ==
  /\ b.kind = a.kind /\ b.pc = a.pc /\ b.event = a.event /\ b.key = a.key
  /\ b.company = a.company /\ b.row = a.row /\ b.old = a.old /\ b.oldRow = a.oldRow
  /\ b.makers = a.makers /\ b.todo = a.todo
  /\ b.alone => a.alone
  /\ a.raced => b.raced
Others(W) == \A v \in Workers \ W : Like(job[v], job'[v])

LEMMA LikeItself == \A a : Like(a, a)
  BY DEF Like

LEMMA DisturbedJob ==
  ASSUME NEW a \in Job, NEW b, b = [a EXCEPT !.alone = FALSE]
  PROVE  b \in Job /\ Like(a, b) /\ ~b.alone
<1>1. /\ b.kind = a.kind /\ b.pc = a.pc /\ b.event = a.event /\ b.key = a.key
      /\ b.company = a.company /\ b.row = a.row /\ b.old = a.old /\ b.oldRow = a.oldRow
      /\ b.makers = a.makers /\ b.todo = a.todo
  BY DEF Job
<1>2. b.alone = FALSE /\ b.raced = a.raced
  BY DEF Job
<1>3. b \in Job
  BY DEF Job
<1> QED  BY <1>1, <1>2, <1>3 DEF Like

LEMMA RacedJob ==
  ASSUME NEW a \in Job, NEW b, b = [a EXCEPT !.raced = TRUE]
  PROVE  b \in Job /\ Like(a, b) /\ b.raced
<1>1. /\ b.kind = a.kind /\ b.pc = a.pc /\ b.event = a.event /\ b.key = a.key
      /\ b.company = a.company /\ b.row = a.row /\ b.old = a.old /\ b.oldRow = a.oldRow
      /\ b.makers = a.makers /\ b.todo = a.todo
  BY DEF Job
<1>2. b.raced = TRUE /\ b.alone = a.alone
  BY DEF Job
<1>3. b \in Job
  BY DEF Job
<1> QED  BY <1>1, <1>2, <1>3 DEF Like

LEMMA StepMoves ==
  ASSUME TypeOK, NEW w \in Workers, NEW j \in Job, Step(w, j)
  PROVE  /\ job' \in [Workers -> Job] /\ job'[w] = j
         /\ \A v \in Workers : v # w => job'[v] = job[v]
         /\ Others({w})
<1>1. /\ job' \in [Workers -> Job] /\ job'[w] = j
      /\ \A v \in Workers : v # w => job'[v] = job[v]
  BY DEF TypeOK, Step
<1> QED  BY <1>1, LikeItself DEF Others

LEMMA DisturbMoves ==
  ASSUME TypeOK, NEW w \in Workers, NEW j \in Job, job' = [Disturbed(w) EXCEPT ![w] = j]
  PROVE  /\ job' \in [Workers -> Job] /\ job'[w] = j /\ Others({w})
         /\ \A v \in Workers : v # w => ~job'[v].alone
<1>1. ASSUME NEW v \in Workers
      PROVE  /\ [job[v] EXCEPT !.alone = FALSE] \in Job
             /\ Like(job[v], [job[v] EXCEPT !.alone = FALSE])
             /\ ~[job[v] EXCEPT !.alone = FALSE].alone
  BY DisturbedJob DEF TypeOK
<1>2. job' = [v \in Workers |-> IF v = w THEN j ELSE [job[v] EXCEPT !.alone = FALSE]]
  BY DEF Disturbed
<1> QED  BY <1>1, <1>2 DEF Others

LEMMA RaceMoves ==
  ASSUME TypeOK, NEW w \in Workers, NEW key, NEW j \in Job, job' = [Raced(w, key) EXCEPT ![w] = j]
  PROVE  /\ job' \in [Workers -> Job] /\ job'[w] = j /\ Others({w})
         /\ \A v \in Workers : v # w /\ LooksFor(v, key) => job'[v].raced
<1>1. ASSUME NEW v \in Workers
      PROVE  /\ [job[v] EXCEPT !.raced = TRUE] \in Job
             /\ Like(job[v], [job[v] EXCEPT !.raced = TRUE])
             /\ [job[v] EXCEPT !.raced = TRUE].raced
  BY RacedJob DEF TypeOK
<1>2. job' = [v \in Workers |-> IF v = w THEN j
                ELSE IF v # w /\ LooksFor(v, key) THEN [job[v] EXCEPT !.raced = TRUE] ELSE job[v]]
  BY DEF Raced
<1>3. \A v \in Workers : job[v] \in Job
  BY DEF TypeOK
<1> QED  BY <1>1, <1>2, <1>3, LikeItself DEF Others

\* A request writes the companies.
LEMMA AllDisturbed ==
  ASSUME TypeOK, job' = [v \in Workers |-> [job[v] EXCEPT !.alone = FALSE]]
  PROVE  /\ job' \in [Workers -> Job] /\ Others({})
         /\ \A v \in Workers : ~job'[v].alone
<1>1. ASSUME NEW v \in Workers
      PROVE  /\ [job[v] EXCEPT !.alone = FALSE] \in Job
             /\ Like(job[v], [job[v] EXCEPT !.alone = FALSE])
             /\ ~[job[v] EXCEPT !.alone = FALSE].alone
  BY DisturbedJob DEF TypeOK
<1> QED  BY <1>1 DEF Others

-----------------------------------------------------------------------------
(* What a step leaves alone.                                               *)

LEMMA JobsKept ==
  ASSUME JobsOK, NEW W \in SUBSET Workers, Others(W), \A w \in W : JobOK(job'[w])
  PROVE  JobsOK'
<1>1. \A v \in Workers \ W : JobOK(job'[v])
  BY DEF JobsOK, Others, Like, JobOK
<1> QED  BY <1>1 DEF JobsOK

\* A row keeps what it is.
RowsStay ==
  \A r \in RowIds : row[r].st # "none" =>
    /\ row'[r].st # "none" /\ row'[r].kind = row[r].kind
    /\ row'[r].key = row[r].key /\ row'[r].ingested = row[r].ingested

LEMMA CopiesKept ==
  ASSUME JobsOK, CopiesOK, NEW W \in SUBSET Workers, Others(W), RowsStay,
         \A w \in W : CopyOK(job[w])'
  PROVE  CopiesOK'
<1>1. ASSUME NEW v \in Workers \ W PROVE CopyOK(job[v])'
  <2>1. Like(job[v], job'[v]) /\ JobOK(job[v]) /\ CopyOK(job[v])
    BY DEF Others, JobsOK, CopiesOK
  <2> QED  BY <2>1 DEF Like, JobOK, CopyOK, RowsStay
<1> QED  BY <1>1 DEF CopiesOK

\* An event has arrived for good.
LEMMA ArrivedStays == ASSUME RowsStay, NEW e, Arrived(e) PROVE Arrived(e)'
  BY DEF Arrived, RowsStay

LEMMA KeepingKept ==
  ASSUME Keeping, NEW W \in SUBSET Workers, Others(W), RowsStay, UNCHANGED event,
         \A w \in W, e \in Events : Handles(w, e) => Handles(w, e)' \/ Arrived(e)'
  PROVE  Keeping'
<1>1. ASSUME NEW e \in Events, NEW w \in Workers, Handles(w, e)
      PROVE  Handles(w, e)' \/ Arrived(e)'
  <2>1. CASE w \in W
    BY <1>1, <2>1
  <2>2. CASE w \notin W
    BY <1>1, <2>2 DEF Handles, Others, Like
  <2> QED  BY <2>1, <2>2
<1>2. ASSUME NEW e \in Events, OnItsWay(e) PROVE OnItsWay(e)'
  BY <1>1, <1>2, ArrivedStays DEF OnItsWay
<1> QED  BY <1>2 DEF Keeping

LEMMA LookingKept ==
  ASSUME Looking, NEW W \in SUBSET Workers, Others(W),
         \A r \in RowIds, key \in Keys : Alone(r, key)' => Alone(r, key),
         \A w \in W, key \in Keys :
           Looks(w, key)' => Looks(w, key) \/ \A r \in RowIds : ~Alone(r, key)
  PROVE  Looking'
<1>1. ASSUME NEW v \in Workers \ W, NEW key \in Keys, Looks(v, key)' PROVE Looks(v, key)
  BY <1>1 DEF Others, Like, Looks, LooksFor
<1> QED  BY <1>1 DEF Looking

LEMMA MergingKept ==
  ASSUME TypeOK, Merging, NEW W \in SUBSET Workers, Others(W), LiveOnes', UNCHANGED crossed,
         \A c \in CompanyIds : Merged(c)' => Merged(c),
         \A w \in W : Merges(w)' => Merges(w) /\ job'[w].todo \subseteq job[w].todo
  PROVE  Merging'
<1>1. ASSUME NEW v \in Workers, Merges(v)'
      PROVE  Merges(v) /\ job'[v].todo \subseteq job[v].todo
  <2>1. CASE v \in W
    BY <1>1, <2>1
  <2>2. CASE v \notin W
    BY <1>1, <2>2 DEF Others, Like, Merges
  <2> QED  BY <2>1, <2>2
<1>2. \A v \in Workers : Merges(v)' => Apart(v)'
  BY <1>1 DEF Merging, Apart
<1>3. ASSUME NEW v \in Workers, NEW t \in job[v].todo PROVE t.primary \in CompanyIds
  BY DEF TypeOK, Job
<1>4. ASSUME ~crossed'
      PROVE  /\ \A v, w \in Workers : Merges(v)' /\ Merges(w)' => v = w
             /\ \A w \in Workers : Merges(w)' => \A t \in job'[w].todo : ~Merged(t.primary)'
  <2>1. \A w \in Workers : Merges(w) => \A t \in job[w].todo : ~Merged(t.primary)
    BY <1>4 DEF Merging
  <2>2. \A w \in Workers : Merges(w)' => \A t \in job'[w].todo : ~Merged(t.primary)'
    BY <1>1, <1>3, <2>1
  <2> QED  BY <1>1, <1>4, <2>2 DEF Merging
<1> QED  BY <1>2, <1>4 DEF Merging

LEMMA GroupsKept ==
  ASSUME GroupSurvives, UNCHANGED crossed,
         \A c \in CompanyIds : Merged(c)' => Merged(c) /\ company'[c].into = company[c].into
  PROVE  GroupSurvives'
<1>1. ASSUME NEW S \in SUBSET {c \in CompanyIds : Merged(c)'}, S # {}, ~crossed
      PROVE  \E c \in S : company'[c].into \notin S
  <2>1. S \in SUBSET {c \in CompanyIds : Merged(c)}
    OBVIOUS
  <2>2. PICK c \in S : company[c].into \notin S
    BY <1>1, <2>1 DEF GroupSurvives
  <2> QED  BY <2>2
<1> QED  BY <1>1 DEF GroupSurvives

LEMMA CleaningKept ==
  ASSUME Cleaning, NEW W \in SUBSET Workers, Others(W),
         \A v \in Workers : Merges(v)' /\ job'[v].alone =>
           /\ UNCHANGED company
           /\ v \in W => Merges(v) /\ job[v].alone /\ job'[v].todo = job[v].todo
  PROVE  Cleaning'
<1>1. ASSUME NEW v \in Workers, Merges(v)', job'[v].alone
      PROVE  Merges(v) /\ job[v].alone /\ job'[v].todo = job[v].todo
  BY <1>1 DEF Others, Like, Merges
<1>2. ASSUME NEW v \in Workers, Merges(v)', job'[v].alone, NEW c \in CompanyIds,
             NEW d \in CompanyIds, Twins(c, d)'
      PROVE  \E t \in job'[v].todo : t.dup \in {c, d}
  <2>1. UNCHANGED company
    BY <1>2
  <2>2. Twins(c, d)
    BY <1>2, <2>1 DEF Twins, Live, DedupeKey
  <2> QED  BY <1>1, <1>2, <2>2 DEF Cleaning
<1> QED  BY <1>2 DEF Cleaning

\* A row that is live after a step was so before, with the company it has, or it was
\* written late if that was merged.
LEMMA OrphansKept ==
  ASSUME NoOrphans, TypeOK, row' \in [RowIds -> Row], UNCHANGED crossed,
         \A c \in CompanyIds : Merged(c)' => Merged(c),
         \A r \in RowIds : row'[r].st = "live" =>
           \/ /\ row[r].st = "live" /\ row'[r].company = row[r].company
              /\ row'[r].late = row[r].late
           \/ Merged(row[r].company)' => row'[r].late
  PROVE  NoOrphans'
<1>1. ASSUME NEW r \in RowIds, row'[r].st = "live", Merged(row[r].company)', ~crossed
      PROVE  row'[r].late
  <2>1. CASE /\ row[r].st = "live" /\ row'[r].company = row[r].company
             /\ row'[r].late = row[r].late
    <3>1. row[r].company # 0 /\ row[r].company \in 0 .. MaxCompanies
      BY <1>1, <2>1 DEF Merged, TypeOK, Row
    <3>2. row[r].company \in CompanyIds
      BY <3>1, BoundAssumption DEF CompanyIds
    <3>3. Merged(row[r].company)
      BY <1>1, <2>1, <3>2 DEF Merged
    <3>4. r \in Live(row)
      BY <2>1 DEF Live, TypeOK
    <3> QED  BY <1>1, <2>1, <3>3, <3>4 DEF NoOrphans
  <2> QED  BY <1>1, <2>1
<1> QED  BY <1>1 DEF NoOrphans, Live

\* Who is not merging, and writes no company.
LEMMA CompaniesAside ==
  ASSUME ContactsInv, NEW W \in SUBSET Workers, Others(W), UNCHANGED <<company, crossed>>,
         \A w \in W : ~Merges(w)'
  PROVE  Merging' /\ GroupSurvives' /\ Cleaning'
<1>1. \A c \in CompanyIds : Merged(c)' => Merged(c)
  BY DEF Merged
<1>2. LiveOnes'
  BY DEF ContactsInv, Merging, LiveOnes
<1>3. Merging'
  BY <1>1, <1>2, MergingKept DEF ContactsInv
<1>4. GroupSurvives'
  BY <1>1, GroupsKept DEF ContactsInv
<1>5. Cleaning'
  BY CleaningKept DEF ContactsInv
<1> QED  BY <1>3, <1>4, <1>5

\* w reads, and goes on as j.
LEMMA Reads ==
  ASSUME ContactsInv, NEW w \in Workers, NEW j \in Job, Step(w, j), JobOK(j),
         j.pc # "merging", CopyOK(j), UNCHANGED <<company, row, event, crossed>>,
         requests' \in 0 .. MaxRequests, faults' \in 0 .. MaxFaults,
         job[w].event \in Events => j.event = job[w].event \/ Arrived(job[w].event),
         \A key \in Keys :
           Looks(w, key)' => Looks(w, key) \/ \A r \in RowIds : ~Alone(r, key)
  PROVE  ContactsInv'
<1>1. /\ job' \in [Workers -> Job] /\ job'[w] = j /\ Others({w})
  BY StepMoves DEF ContactsInv
<1>2. TypeOK'
  BY <1>1 DEF ContactsInv, TypeOK
<1>3. RowsStay
  BY DEF RowsStay
<1>4. JobsOK'
  BY <1>1, JobsKept DEF ContactsInv
<1>5. CopyOK(job[w])'
  BY <1>1 DEF CopyOK
<1>6. CopiesOK'
  BY <1>1, <1>3, <1>5, CopiesKept DEF ContactsInv
<1>7. Keeping'
  <2>1. \A e \in Events : Handles(w, e) => Handles(w, e)' \/ Arrived(e)'
    BY <1>1 DEF Handles, Arrived
  <2> QED  BY <1>1, <1>3, <2>1, KeepingKept DEF ContactsInv
<1>8. Looking'
  BY <1>1, LookingKept DEF ContactsInv, Alone
<1>9. NoOrphans'
  BY DEF ContactsInv, NoOrphans, Live, Merged
<1>10. Merging' /\ GroupSurvives' /\ Cleaning'
  BY <1>1, CompaniesAside DEF Merges
<1> QED  BY <1>2, <1>4, <1>6, <1>7, <1>8, <1>9, <1>10 DEF ContactsInv

-----------------------------------------------------------------------------
(* Events.                                                                 *)

LEMMA EventsOnly ==
  ASSUME ContactsInv, UNCHANGED <<company, row, job, crossed>>, event' \in [Events -> Event],
         requests' \in 0 .. MaxRequests, faults' \in 0 .. MaxFaults, Keeping'
  PROVE  ContactsInv'
<1>1. TypeOK'
  BY DEF ContactsInv, TypeOK
<1>2. JobsOK' /\ CopiesOK'
  BY DEF ContactsInv, JobsOK, CopiesOK, CopyOK
<1>3. Looking'
  BY DEF ContactsInv, Looking, Alone, Looks, LooksFor
<1>4. NoOrphans'
  BY DEF ContactsInv, NoOrphans, Live, Merged
<1>5. Others({})
  BY LikeItself DEF Others
<1>6. Merging' /\ GroupSurvives' /\ Cleaning'
  BY <1>5, CompaniesAside
<1> QED  BY <1>1, <1>2, <1>3, <1>4, <1>6 DEF ContactsInv

\* An event becomes v, which does not forget that it is on its way.
LEMMA EventMoves ==
  ASSUME ContactsInv, NEW e \in Events, NEW v \in Event, event' = [event EXCEPT ![e] = v],
         UNCHANGED <<company, row, job, crossed>>,
         requests' \in 0 .. MaxRequests, faults' \in 0 .. MaxFaults,
         \/ v.refused \/ v.req = "publish" \/ v.tasks > 0
         \/ /\ v.key \/ v.acked => event[e].key \/ event[e].acked
            /\ v.refused = event[e].refused /\ v.tasks = event[e].tasks
            /\ v.req = event[e].req
  PROVE  ContactsInv'
<1>1. /\ event' \in [Events -> Event] /\ event'[e] = v
      /\ \A d \in Events : d # e => event'[d] = event[d]
  BY DEF ContactsInv, TypeOK
<1>2. \A d \in Events : d # e => (OnItsWay(d) => OnItsWay(d)')
  BY <1>1 DEF OnItsWay, Handles, Arrived
<1>3. event'[e].key \/ event'[e].acked => OnItsWay(e)'
  <2>1. CASE v.refused \/ v.req = "publish" \/ v.tasks > 0
    BY <1>1, <2>1 DEF OnItsWay
  <2>2. CASE /\ v.key \/ v.acked => event[e].key \/ event[e].acked
             /\ v.refused = event[e].refused /\ v.tasks = event[e].tasks
             /\ v.req = event[e].req
    BY <1>1, <2>2 DEF ContactsInv, Keeping, OnItsWay, Handles, Arrived
  <2> QED  BY <2>1, <2>2
<1>4. Keeping'
  BY <1>1, <1>2, <1>3 DEF ContactsInv, Keeping
<1> QED  BY <1>1, <1>4, EventsOnly

LEMMA DeliverInv == ASSUME ContactsInv, NEW e \in Events, Deliver(e) PROVE ContactsInv'
<1>1. /\ event[e] \in Event /\ event \in [Events -> Event] /\ TypeOK
      /\ requests' \in 0 .. MaxRequests /\ faults' \in 0 .. MaxFaults
  BY BoundAssumption DEF ContactsInv, TypeOK, Deliver
<1>2. PICK v \in Event : v.req = "publish" /\ event' = [event EXCEPT ![e] = v]
  <2>1. CASE event' = [event EXCEPT ![e].req = "publish", ![e].key = TRUE]
    <3>1. PICK v : v = [event[e] EXCEPT !.req = "publish", !.key = TRUE]
      OBVIOUS
    <3>2. v \in Event /\ v.req = "publish"
      BY <1>1, <3>1 DEF Event
    <3> QED  BY <1>1, <2>1, <3>1, <3>2
  <2>2. CASE event' = [event EXCEPT ![e].req = "publish"]
    <3>1. PICK v : v = [event[e] EXCEPT !.req = "publish"]
      OBVIOUS
    <3>2. v \in Event /\ v.req = "publish"
      BY <1>1, <3>1 DEF Event
    <3> QED  BY <1>1, <2>2, <3>1, <3>2
  <2> QED  BY <2>1, <2>2 DEF Deliver
<1> QED  BY <1>1, <1>2, EventMoves DEF Deliver

LEMMA DeliverAgainInv == ASSUME ContactsInv, NEW e \in Events, DeliverAgain(e) PROVE ContactsInv'
<1>1. /\ event[e] \in Event /\ event \in [Events -> Event] /\ event[e].key
      /\ requests' \in 0 .. MaxRequests /\ faults' \in 0 .. MaxFaults
  BY DEF ContactsInv, TypeOK, DeliverAgain
<1>2. PICK v : v = [event[e] EXCEPT !.acked = TRUE]
  OBVIOUS
<1>3. v \in Event
  BY <1>1, <1>2 DEF Event
<1>4. /\ v.tasks = event[e].tasks /\ v.req = event[e].req
  BY <1>1, <1>2 DEF Event
<1>5. v.refused = event[e].refused
  BY <1>1, <1>2 DEF Event
<1>6. event' = [event EXCEPT ![e] = v]
  BY <1>1, <1>2 DEF DeliverAgain
<1> QED  BY <1>1, <1>3, <1>4, <1>5, <1>6, EventMoves DEF DeliverAgain

LEMMA KeyExpiresInv == ASSUME ContactsInv, NEW e \in Events, KeyExpires(e) PROVE ContactsInv'
<1>1. /\ event[e] \in Event /\ event \in [Events -> Event] /\ event[e].key
      /\ requests' \in 0 .. MaxRequests /\ faults' \in 0 .. MaxFaults
  BY RequestTyped DEF ContactsInv, TypeOK, KeyExpires
<1>2. PICK v : v = [event[e] EXCEPT !.key = FALSE]
  OBVIOUS
<1>3. v \in Event
  BY <1>1, <1>2 DEF Event
<1>4. /\ v.tasks = event[e].tasks /\ v.req = event[e].req
  BY <1>1, <1>2 DEF Event
<1>5. v.refused = event[e].refused
  BY <1>1, <1>2 DEF Event
<1>6. event' = [event EXCEPT ![e] = v]
  BY <1>1, <1>2 DEF KeyExpires
<1> QED  BY <1>1, <1>3, <1>4, <1>5, <1>6, EventMoves DEF KeyExpires

LEMMA PublishInv == ASSUME ContactsInv, NEW e \in Events, Publish(e) PROVE ContactsInv'
<1>1. /\ event[e] \in Event /\ event \in [Events -> Event]
      /\ event[e].tasks \in Nat /\ event[e].tasks + 1 \in 0 .. MaxTasks
      /\ requests' \in 0 .. MaxRequests /\ faults' \in 0 .. MaxFaults
  BY BoundAssumption DEF ContactsInv, TypeOK, Publish, Event
<1>2. PICK v : v = [event[e] EXCEPT !.req = "none", !.acked = TRUE, !.tasks = event[e].tasks + 1]
  OBVIOUS
<1>3. v \in Event
  BY <1>1, <1>2 DEF Event
<1>4. v.tasks > 0
  BY <1>1, <1>2 DEF Event
<1>5. event' = [event EXCEPT ![e] = v]
  BY <1>1, <1>2 DEF Publish
<1> QED  BY <1>1, <1>3, <1>4, <1>5, EventMoves DEF Publish

LEMMA PublishFailsInv == ASSUME ContactsInv, NEW e \in Events, PublishFails(e) PROVE ContactsInv'
<1>1. /\ event[e] \in Event /\ event \in [Events -> Event]
      /\ requests' \in 0 .. MaxRequests /\ faults' \in 0 .. MaxFaults
  BY BoundAssumption DEF ContactsInv, TypeOK, PublishFails
<1>2. PICK v : v = [event[e] EXCEPT !.req = "none", !.refused = TRUE]
  OBVIOUS
<1>3. v \in Event
  BY <1>1, <1>2 DEF Event
<1>4. v.refused
  BY <1>1, <1>2 DEF Event
<1>5. event' = [event EXCEPT ![e] = v]
  BY <1>1, <1>2 DEF PublishFails
<1> QED  BY <1>1, <1>3, <1>4, <1>5, EventMoves DEF PublishFails

\* A task is taken: from then on its worker handles the event.
LEMMA StartZapierInv ==
  ASSUME ContactsInv, NEW w \in Workers, NEW e \in Events, StartZapier(w, e)
  PROVE  ContactsInv'
<1> DEFINE j == [Idle EXCEPT !.kind = "zapier", !.pc = "findrow", !.event = e,
                   !.key = EventRecord[e].key, !.name = EventRecord[e].name]
<1>1. /\ event[e] \in Event /\ event \in [Events -> Event] /\ TypeOK
      /\ event[e].tasks - 1 \in 0 .. MaxTasks
      /\ requests' \in 0 .. MaxRequests /\ faults' \in 0 .. MaxFaults
      /\ JobOK(job[w]) /\ job[w].pc = "idle"
  BY BoundAssumption DEF ContactsInv, TypeOK, StartZapier, Event, JobsOK
<1>2. /\ j \in Job /\ j.kind = "zapier" /\ j.pc = "findrow" /\ j.event = e
      /\ j.key = EventRecord[e].key /\ ~j.raced
  <2>1. EventRecord[e].key \in Keys /\ EventRecord[e].name \in Names \cup {None}
    BY InputAssumption DEF Keys
  <2>2. j \in Job
    BY Typed, <2>1 DEF Job, Idle
  <2> QED  BY <2>2 DEF Idle
<1>3. job' \in [Workers -> Job] /\ job'[w] = j /\ Others({w})
  <2> HIDE DEF j
  <2>1. j \in Job /\ Step(w, j)
    BY <1>2 DEF StartZapier, j
  <2> QED  BY <1>1, <2>1, StepMoves
<1> HIDE DEF j
<1>4. PICK v : v = [event[e] EXCEPT !.tasks = event[e].tasks - 1]
  OBVIOUS
<1>5. v \in Event /\ event' = [event EXCEPT ![e] = v]
  BY <1>1, <1>4 DEF Event, StartZapier
<1>6. \A d \in Events : d # e => event'[d] = event[d]
  BY <1>1, <1>5
<1>7. JobOK(j)
  BY <1>2 DEF JobOK
<1>8. TypeOK'
  <2>1. event' \in [Events -> Event]
    BY <1>1, <1>5
  <2> QED  BY <1>1, <1>3, <2>1 DEF StartZapier, TypeOK
<1>9. JobsOK'
  BY <1>3, <1>7, JobsKept DEF ContactsInv
<1>10. RowsStay /\ UNCHANGED <<company, row, crossed>>
  BY DEF RowsStay, StartZapier
<1>11. CopiesOK'
  <2>1. CopyOK(job[w])'
    BY <1>2, <1>3 DEF CopyOK
  <2> QED  BY <1>3, <1>10, <2>1, CopiesKept DEF ContactsInv
<1>12. Keeping'
  <2>1. OnItsWay(e)'
    BY <1>2, <1>3 DEF OnItsWay, Handles
  <2>2. ASSUME NEW d \in Events, d # e, OnItsWay(d) PROVE OnItsWay(d)'
    <3>1. ~Handles(w, d)
      BY <1>1, InputAssumption DEF JobOK, Handles
    <3>2. \A x \in Workers : Handles(x, d) => Handles(x, d)'
      BY <1>3, <3>1 DEF Handles, Others, Like
    <3> QED  BY <1>6, <1>10, <2>2, <3>2 DEF OnItsWay, Arrived
  <2> QED  BY <1>6, <2>1, <2>2 DEF ContactsInv, Keeping
<1>13. Looking'
  <2>1. \A key \in Keys : ~Looks(w, key)'
    BY <1>2, <1>3 DEF Looks, LooksFor
  <2> QED  BY <1>3, <1>10, <2>1, LookingKept DEF ContactsInv, Alone
<1>14. NoOrphans'
  BY <1>10 DEF ContactsInv, NoOrphans, Live, Merged
<1>15. Merging' /\ GroupSurvives' /\ Cleaning'
  BY <1>2, <1>3, <1>10, CompaniesAside DEF Merges
<1> QED  BY <1>8, <1>9, <1>11, <1>12, <1>13, <1>14, <1>15 DEF ContactsInv

-----------------------------------------------------------------------------
(* What workers start, and what they read.                                 *)

LEMMA JobAt ==
  ASSUME ContactsInv, NEW w \in Workers
  PROVE  /\ TypeOK /\ job[w] \in Job /\ JobOK(job[w]) /\ CopyOK(job[w])
         /\ requests \in 0 .. MaxRequests /\ faults \in 0 .. MaxFaults
         /\ job[w].kind # "zapier" => job[w].event \notin Events
  BY InputAssumption DEF ContactsInv, TypeOK, JobsOK, CopiesOK, JobOK

LEMMA IdleOK == JobOK(Idle) /\ CopyOK(Idle) /\ Idle.pc = "idle" /\ Idle.event = None
  BY DEF Idle, JobOK, CopyOK

LEMMA StartSyncInv ==
  ASSUME ContactsInv, NEW w \in Workers, NEW i \in Inputs, StartSync(w, i)
  PROVE  ContactsInv'
<1>1. /\ TypeOK /\ JobOK(job[w]) /\ job[w].pc = "idle" /\ job[w].kind = "none"
      /\ job[w].event \notin Events
      /\ requests' \in 0 .. MaxRequests /\ faults' \in 0 .. MaxFaults
  BY JobAt, RequestTyped DEF StartSync, JobOK
<1>2. /\ i.kind \in {"provider", "maker"} /\ i.key \in Keys \cup {None}
      /\ i.name \in Names \cup {None} /\ i.dom \in Domains \cup {None}
  BY InputAssumption DEF StartSync
<1>3. PICK pc : /\ pc \in {"enrich", "findrow", "find"}
                /\ Step(w, [Idle EXCEPT !.kind = i.kind, !.key = i.key, !.name = i.name,
                                        !.dom = i.dom, !.pc = pc])
  BY <1>2 DEF StartSync
<1>4. PICK j : j = [Idle EXCEPT !.kind = i.kind, !.key = i.key, !.name = i.name,
                                !.dom = i.dom, !.pc = pc]
  OBVIOUS
<1>5. j \in Job /\ j.kind = i.kind /\ j.pc = pc /\ j.event = None
  BY <1>2, <1>3, <1>4, Typed DEF Job, Idle
<1>6. JobOK(j) /\ CopyOK(j)
  BY <1>2, <1>3, <1>5 DEF JobOK, CopyOK
<1>7. Step(w, j)
  BY <1>3, <1>4
<1>8. \A key \in Keys : ~Looks(w, key)'
  BY <1>1, <1>2, <1>3, <1>5, <1>7, StepMoves DEF Looks, LooksFor
<1> QED  BY <1>1, <1>3, <1>5, <1>6, <1>7, <1>8, Reads DEF StartSync

LEMMA StartImportInv ==
  ASSUME ContactsInv, NEW w \in Workers, NEW i \in Inputs, StartImport(w, i)
  PROVE  ContactsInv'
<1>1. /\ TypeOK /\ JobOK(job[w]) /\ job[w].pc = "idle" /\ job[w].kind = "none"
      /\ job[w].event \notin Events
      /\ requests' \in 0 .. MaxRequests /\ faults' \in 0 .. MaxFaults
  BY JobAt, RequestTyped DEF StartImport, JobOK
<1>2. /\ i.kind \in {"import", "sponsor"} /\ i.key \in Keys \cup {None}
      /\ i.name \in Names \cup {None}
  BY InputAssumption DEF StartImport
<1>3. PICK pc : /\ pc \in {"createrow", "find"}
                /\ Step(w, [Idle EXCEPT !.kind = i.kind, !.key = i.key, !.name = i.name,
                                        !.pc = pc])
  BY <1>2 DEF StartImport
<1>4. PICK j : j = [Idle EXCEPT !.kind = i.kind, !.key = i.key, !.name = i.name, !.pc = pc]
  OBVIOUS
<1>5. j \in Job /\ j.kind = i.kind /\ j.pc = pc /\ j.event = None
  BY <1>2, <1>3, <1>4, Typed DEF Job, Idle
<1>6. JobOK(j) /\ CopyOK(j)
  BY <1>2, <1>3, <1>5 DEF JobOK, CopyOK
<1>7. Step(w, j)
  BY <1>3, <1>4
<1>8. \A key \in Keys : ~Looks(w, key)'
  BY <1>1, <1>2, <1>3, <1>5, <1>7, StepMoves DEF Looks, LooksFor
<1> QED  BY <1>1, <1>3, <1>5, <1>6, <1>7, <1>8, Reads DEF StartImport

\* A job that is to merge.
LEMMA MergeJob ==
  ASSUME NEW j, j = [Idle EXCEPT !.kind = "merge", !.pc = "merge"]
  PROVE  j \in Job /\ j.kind = "merge" /\ j.pc = "merge" /\ j.event = None /\ JobOK(j) /\ CopyOK(j)
<1>1. j \in Job /\ j.kind = "merge" /\ j.pc = "merge" /\ j.event = None
  BY Typed DEF Job, Idle
<1> QED  BY <1>1 DEF JobOK, CopyOK

LEMMA StartMergeInv == ASSUME ContactsInv, NEW w \in Workers, StartMerge(w) PROVE ContactsInv'
<1>1. /\ TypeOK /\ JobOK(job[w]) /\ job[w].pc = "idle" /\ job[w].kind = "none"
      /\ job[w].event \notin Events
      /\ requests' \in 0 .. MaxRequests /\ faults' \in 0 .. MaxFaults
  BY JobAt, RequestTyped DEF StartMerge, JobOK
<1>2. PICK j : j = [Idle EXCEPT !.kind = "merge", !.pc = "merge"]
  OBVIOUS
<1>3. j \in Job /\ j.kind = "merge" /\ j.pc = "merge" /\ JobOK(j) /\ CopyOK(j)
  BY <1>2, MergeJob
<1>4. Step(w, j)
  BY <1>2 DEF StartMerge
<1>5. \A key \in Keys : ~Looks(w, key)'
  BY <1>1, <1>3, <1>4, StepMoves DEF Looks, LooksFor
<1> QED  BY <1>1, <1>3, <1>4, <1>5, Reads DEF StartMerge

LEMMA MergeDoneInv == ASSUME ContactsInv, NEW w \in Workers, MergeDone(w) PROVE ContactsInv'
<1>1. /\ TypeOK /\ JobOK(job[w]) /\ job[w].pc = "merging" /\ job[w].kind # "zapier"
      /\ job[w].event \notin Events
      /\ requests' \in 0 .. MaxRequests /\ faults' \in 0 .. MaxFaults
  BY JobAt DEF MergeDone, JobOK
<1>2. Step(w, Idle) /\ Idle \in Job
  BY Typed DEF MergeDone, Finish
<1>3. \A key \in Keys : ~Looks(w, key)'
  BY <1>1, <1>2, IdleOK, StepMoves DEF Looks, LooksFor
<1> QED  BY <1>1, <1>2, <1>3, IdleOK, Reads DEF MergeDone

\* A company was found, or none: the job goes on, of what it was.
LEMMA AfterCompanyOK ==
  ASSUME NEW j \in Job, JobOK(j), j.pc \in {"find", "create"}, NEW c \in 0 .. MaxCompanies,
         NEW k, k = AfterCompany(j, c)
  PROVE  /\ k \in Job /\ JobOK(k) /\ CopyOK(k) /\ k.pc \in {"findrow", "createrow"}
         /\ k.kind = j.kind /\ k.event = j.event /\ k.key = j.key /\ k.raced = j.raced
         /\ k.kind = "provider" => k.pc = "findrow"
<1>1. PICK pc : /\ pc \in {"findrow", "createrow"}
                /\ j.kind = "provider" => pc = "findrow"
                /\ k = [j EXCEPT !.company = c, !.pc = pc]
  BY DEF AfterCompany
<1>2. k \in Job /\ k.pc = pc /\ k.kind = j.kind /\ k.event = j.event /\ k.key = j.key
  BY <1>1 DEF Job
<1>3. k.raced = j.raced
  BY <1>1 DEF Job
<1>4. JobOK(k)
  BY <1>1, <1>2 DEF JobOK
<1> QED  BY <1>1, <1>2, <1>3, <1>4 DEF CopyOK

LEMMA FindCompanyInv == ASSUME ContactsInv, NEW w \in Workers, FindCompany(w) PROVE ContactsInv'
<1>1. /\ TypeOK /\ job[w] \in Job /\ JobOK(job[w]) /\ job[w].pc = "find"
      /\ requests' \in 0 .. MaxRequests /\ faults' \in 0 .. MaxFaults
      /\ job[w].kind # "zapier" => job[w].event \notin Events
  BY JobAt DEF FindCompany
<1>2. UNCHANGED <<company, row, event, crossed>>
  BY DEF FindCompany
<1>3. ASSUME NEW c \in 0 .. MaxCompanies, Step(w, AfterCompany(job[w], c)) PROVE ContactsInv'
  <2>1. PICK k : k = AfterCompany(job[w], c)
    OBVIOUS
  <2>2. /\ k \in Job /\ JobOK(k) /\ CopyOK(k) /\ k.pc \in {"findrow", "createrow"}
        /\ k.kind = job[w].kind /\ k.event = job[w].event /\ k.key = job[w].key
        /\ k.raced = job[w].raced /\ (k.kind = "provider" => k.pc = "findrow")
    BY <1>1, <2>1, AfterCompanyOK
  <2>3. Step(w, k)
    BY <1>3, <2>1
  <2>4. job'[w] = k
    BY <1>1, <2>2, <2>3, StepMoves
  <2>5. \A key \in Keys : Looks(w, key)' => Looks(w, key)
    BY <1>1, <2>2, <2>4 DEF Looks, LooksFor
  <2> QED  BY <1>1, <1>2, <2>2, <2>3, <2>5, Reads
<1>4. CASE Step(w, Idle) /\ job[w].kind = "maker"
  <2>1. \A key \in Keys : ~Looks(w, key)'
    BY <1>1, <1>4, Typed, IdleOK, StepMoves DEF Looks, LooksFor
  <2> QED  BY <1>1, <1>2, <1>4, <2>1, Typed, IdleOK, Reads
<1>5. CASE Step(w, [job[w] EXCEPT !.pc = "create"])
  <2>1. PICK k : k = [job[w] EXCEPT !.pc = "create"]
    OBVIOUS
  <2>2. /\ k \in Job /\ k.pc = "create" /\ k.kind = job[w].kind /\ k.event = job[w].event
        /\ k.key = job[w].key
    BY <1>1, <2>1 DEF Job
  <2>3. k.raced = job[w].raced
    BY <1>1, <2>1 DEF Job
  <2>4. JobOK(k) /\ CopyOK(k)
    BY <1>1, <2>2 DEF JobOK, CopyOK
  <2>5. Step(w, k)
    BY <1>5, <2>1
  <2>6. job'[w] = k
    BY <1>1, <2>2, <2>5, StepMoves
  <2>7. \A key \in Keys : Looks(w, key)' => Looks(w, key)
    BY <1>1, <2>2, <2>3, <2>6 DEF Looks, LooksFor
  <2> QED  BY <1>1, <1>2, <2>2, <2>4, <2>5, <2>7, Reads
<1>6. /\ Live(company) \subseteq 0 .. MaxCompanies
      /\ 0 \in 0 .. MaxCompanies
  BY <1>1, BoundAssumption DEF Live, TypeOK, CompanyIds
<1>7. \/ \E c \in 0 .. MaxCompanies : Step(w, AfterCompany(job[w], c))
      \/ Step(w, Idle) /\ job[w].kind = "maker"
      \/ Step(w, [job[w] EXCEPT !.pc = "create"])
  <2>1. CASE \E c \in Live(company) : Step(w, AfterCompany(job[w], c))
    BY <1>6, <2>1
  <2>2. CASE Step(w, CASE job[w].kind = "maker"  -> Idle
                       [] job[w].kind = "import" -> AfterCompany(job[w], 0)
                       [] OTHER                  -> [job[w] EXCEPT !.pc = "create"])
    <3>1. CASE job[w].kind = "maker"
      BY <2>2, <3>1
    <3>2. CASE job[w].kind = "import"
      BY <1>6, <2>2, <3>2
    <3>3. CASE job[w].kind \notin {"maker", "import"}
      BY <2>2, <3>3
    <3> QED  BY <3>1, <3>2, <3>3
  <2> QED  BY <2>1, <2>2 DEF FindCompany
<1> QED  BY <1>3, <1>4, <1>5, <1>7

\* Nobody has its address: it is going to be created.
LEMMA FindRowInv == ASSUME ContactsInv, NEW w \in Workers, FindRow(w) PROVE ContactsInv'
<1>1. /\ TypeOK /\ job[w] \in Job /\ JobOK(job[w]) /\ job[w].pc = "findrow"
      /\ requests' \in 0 .. MaxRequests /\ faults' \in 0 .. MaxFaults
      /\ job[w].kind # "zapier" => job[w].event \notin Events
      /\ job[w].kind \in {"zapier", "provider", "maker", "import", "sponsor"}
  BY JobAt DEF FindRow, JobOK
<1>2. UNCHANGED <<company, row, event, crossed>>
  BY DEF FindRow
<1>3. ASSUME NEW r \in Matches(job[w])
      PROVE  /\ r \in RowIds /\ row[r] \in Row /\ row[r].st = "live" /\ row[r].key = job[w].key
             /\ job[w].kind = "zapier" =>
                  row[r].kind = "contact" /\ Arrived(job[w].event)
  <2>1. /\ r \in RowIds /\ row[r].st = "live" /\ row[r].kind = RowKind(job[w])
        /\ row[r].key = job[w].key /\ row[r] \in Row
    BY <1>1 DEF Matches, Live, TypeOK
  <2>2. ASSUME job[w].kind = "zapier" PROVE row[r].kind = "contact" /\ Arrived(job[w].event)
    <3>1. row[r].kind = "contact" /\ row[r].key = EventRecord[job[w].event].key
      BY <1>1, <2>1, <2>2 DEF RowKind, JobOK
    <3> QED  BY <2>1, <3>1 DEF Arrived
  <2> QED  BY <2>1, <2>2
<1>4. ASSUME NEW r \in Matches(job[w]), Step(w, AfterRows(job[w])) PROVE ContactsInv'
  <2>1. PICK k : k = AfterRows(job[w])
    OBVIOUS
  <2>2. k \in Job /\ k.pc \in {"idle", "merge"} /\ JobOK(k) /\ CopyOK(k)
    BY <2>1, Typed, IdleOK, MergeJob DEF AfterRows
  <2>3. Step(w, k)
    BY <1>4, <2>1
  <2>4. job'[w] = k
    BY <1>1, <2>2, <2>3, StepMoves
  <2>5. \A key \in Keys : ~Looks(w, key)'
    BY <2>2, <2>4 DEF Looks, LooksFor
  <2> QED  BY <1>1, <1>2, <1>3, <2>2, <2>3, <2>5, Reads
<1>5. ASSUME NEW r \in Matches(job[w]), job[w].kind = "zapier",
             Step(w, [job[w] EXCEPT !.pc = "saverow", !.row = r, !.oldRow = row[r]])
      PROVE  ContactsInv'
  <2>1. PICK k : k = [job[w] EXCEPT !.pc = "saverow", !.row = r, !.oldRow = row[r]]
    OBVIOUS
  <2>2. r \in 0 .. MaxRows /\ r \in RowIds /\ row[r] \in Row
    BY <1>3, BoundAssumption DEF RowIds
  <2>3. /\ k \in Job /\ k.pc = "saverow" /\ k.kind = job[w].kind /\ k.event = job[w].event
        /\ k.key = job[w].key /\ k.row = r /\ k.oldRow = row[r]
    BY <1>1, <2>1, <2>2 DEF Job
  <2>4. k.raced = job[w].raced
    BY <1>1, <2>1, <2>2 DEF Job
  <2>5. JobOK(k) /\ CopyOK(k)
    BY <1>1, <1>3, <1>5, <2>2, <2>3 DEF JobOK, CopyOK
  <2>6. Step(w, k)
    BY <1>5, <2>1
  <2>7. job'[w] = k
    BY <1>1, <2>3, <2>6, StepMoves
  <2>8. \A key \in Keys : ~Looks(w, key)'
    BY <1>5, <2>3, <2>7 DEF Looks, LooksFor
  <2> QED  BY <1>1, <1>2, <2>3, <2>5, <2>6, <2>8, Reads
<1>6. ASSUME Matches(job[w]) = {}, NEW pc \in {"find", "createrow"},
             Step(w, [job[w] EXCEPT !.pc = pc])
      PROVE  ContactsInv'
  <2>1. PICK k : k = [job[w] EXCEPT !.pc = pc]
    OBVIOUS
  <2>2. /\ k \in Job /\ k.pc = pc /\ k.kind = job[w].kind /\ k.event = job[w].event
        /\ k.key = job[w].key
    BY <1>1, <2>1 DEF Job
  <2>3. JobOK(k) /\ CopyOK(k)
    BY <1>1, <2>2 DEF JobOK, CopyOK
  <2>4. Step(w, k)
    BY <1>6, <2>1
  <2>5. job'[w] = k
    BY <1>1, <2>2, <2>4, StepMoves
  <2>6. ASSUME NEW key \in Keys, Looks(w, key)', NEW r \in RowIds PROVE ~Alone(r, key)
    <3>1. /\ key = job[w].key /\ key # None /\ job[w].kind \in {"zapier", "provider"}
      BY <2>2, <2>5, <2>6 DEF Looks, LooksFor
    <3>2. ~(r \in Live(row) /\ row[r].kind = "contact" /\ row[r].key = key)
      BY <1>6, <3>1 DEF Matches, RowKind
    <3> QED  BY <1>1, <3>2 DEF Alone, Live, TypeOK
  <2> QED  BY <1>1, <1>2, <2>2, <2>3, <2>4, <2>6, Reads
<1>7. \/ \E r \in Matches(job[w]) : Step(w, AfterRows(job[w]))
      \/ \E r \in Matches(job[w]) :
           /\ job[w].kind = "zapier"
           /\ Step(w, [job[w] EXCEPT !.pc = "saverow", !.row = r, !.oldRow = row[r]])
      \/ /\ Matches(job[w]) = {}
         /\ \E pc \in {"find", "createrow"} : Step(w, [job[w] EXCEPT !.pc = pc])
  BY DEF FindRow
<1> QED  BY <1>4, <1>5, <1>6, <1>7

LEMMA ReadCompanyInv ==
  ASSUME ContactsInv, NEW w \in Workers, NEW c \in CompanyIds, ReadCompany(w, c)
  PROVE  ContactsInv'
<1>1. /\ TypeOK /\ job[w] \in Job /\ JobOK(job[w]) /\ job[w].pc = "idle"
      /\ job[w].event \notin Events
      /\ requests' \in 0 .. MaxRequests /\ faults' \in 0 .. MaxFaults
      /\ company[c] \in Company /\ company[c].st = "live" /\ company[c].into = 0
      /\ c \in 0 .. MaxCompanies
  BY JobAt, RequestTyped, BoundAssumption
     DEF ReadCompany, JobOK, ContactsInv, TypeOK, Merging, LiveOnes, CompanyIds
<1>2. PICK M \in SUBSET RowIds :
        Step(w, [Idle EXCEPT !.kind = "company", !.pc = "savecompany", !.company = c,
                             !.old = company[c], !.makers = M])
  BY <1>1 DEF ReadCompany, Live, TypeOK
<1>3. PICK j : j = [Idle EXCEPT !.kind = "company", !.pc = "savecompany", !.company = c,
                                !.old = company[c], !.makers = M]
  OBVIOUS
<1>4. /\ j \in Job /\ j.kind = "company" /\ j.pc = "savecompany" /\ j.company = c
      /\ j.old = company[c] /\ j.event = None
  <2>1. /\ j.kind = "company" /\ j.pc = "savecompany" /\ j.company = c
        /\ j.old = company[c] /\ j.event = None
    BY <1>3 DEF Idle
  <2>2. PICK old \in Company : old = company[c]
    BY <1>1
  <2>3. PICK k : k = [Idle EXCEPT !.kind = "company", !.pc = "savecompany", !.company = c,
                                  !.old = old]
    OBVIOUS
  <2>4. k \in Job
    <3>1. c \in 0 .. MaxCompanies
      BY <1>1
    <3> QED  BY <2>3, <3>1, Typed DEF Job
  <2>5. j = [k EXCEPT !.makers = M]
    BY <1>3, <2>2, <2>3 DEF Idle
  <2>6. j \in Job
    BY <2>4, <2>5 DEF Job
  <2> QED  BY <2>1, <2>6
<1>5. JobOK(j) /\ CopyOK(j)
  BY <1>1, <1>4 DEF JobOK, CopyOK
<1>6. Step(w, j)
  BY <1>2, <1>3
<1>7. \A key \in Keys : ~Looks(w, key)'
  BY <1>1, <1>4, <1>6, StepMoves DEF Looks, LooksFor
<1> QED  BY <1>1, <1>4, <1>5, <1>6, <1>7, Reads DEF ReadCompany

LEMMA ReadRowInv ==
  ASSUME ContactsInv, NEW w \in Workers, NEW r \in RowIds, ReadRow(w, r)
  PROVE  ContactsInv'
<1>1. /\ TypeOK /\ job[w] \in Job /\ JobOK(job[w]) /\ job[w].pc = "idle"
      /\ job[w].event \notin Events
      /\ requests' \in 0 .. MaxRequests /\ faults' \in 0 .. MaxFaults
      /\ row[r] \in Row /\ row[r].st = "live" /\ r \in 0 .. MaxRows
  BY JobAt, RequestTyped, BoundAssumption DEF ReadRow, JobOK, ContactsInv, TypeOK, RowIds
<1>2. PICK c \in 0 .. MaxCompanies :
        Step(w, [Idle EXCEPT !.kind = "row", !.pc = "saverow", !.row = r, !.oldRow = row[r],
                             !.company = c])
  <2>1. row[r].company \in 0 .. MaxCompanies /\ 0 \in 0 .. MaxCompanies
    BY <1>1, BoundAssumption DEF Row
  <2>2. CASE row[r].company \in Live(company)
    BY <2>1, <2>2 DEF ReadRow
  <2>3. CASE row[r].company \notin Live(company)
    BY <2>1, <2>3 DEF ReadRow
  <2> QED  BY <2>2, <2>3
<1>3. PICK j : j = [Idle EXCEPT !.kind = "row", !.pc = "saverow", !.row = r,
                                !.oldRow = row[r], !.company = c]
  OBVIOUS
<1>4. /\ j \in Job /\ j.kind = "row" /\ j.pc = "saverow" /\ j.row = r
      /\ j.oldRow = row[r] /\ j.event = None
  BY <1>1, <1>3, Typed DEF Job, Idle
<1>5. JobOK(j) /\ CopyOK(j)
  BY <1>1, <1>4 DEF JobOK, CopyOK
<1>6. Step(w, j)
  BY <1>2, <1>3
<1>7. \A key \in Keys : ~Looks(w, key)'
  BY <1>1, <1>4, <1>6, StepMoves DEF Looks, LooksFor
<1> QED  BY <1>1, <1>4, <1>5, <1>6, <1>7, Reads DEF ReadRow

\* A statement fails: the task of an event is queued again.
LEMMA FailInv == ASSUME ContactsInv, NEW w \in Workers, Fail(w) PROVE ContactsInv'
<1>1. /\ TypeOK /\ job[w] \in Job /\ JobOK(job[w])
      /\ requests' \in 0 .. MaxRequests /\ faults' \in 0 .. MaxFaults
      /\ job[w].kind # "zapier" => job[w].event \notin Events
  BY JobAt, BoundAssumption DEF Fail
<1>2. UNCHANGED <<company, row, crossed>> /\ Step(w, Idle) /\ Idle \in Job
  BY Typed DEF Fail, Finish
<1>3. job' \in [Workers -> Job] /\ job'[w] = Idle /\ Others({w})
  BY <1>1, <1>2, StepMoves
<1>4. \A key \in Keys : ~Looks(w, key)'
  BY <1>3, IdleOK DEF Looks, LooksFor
<1>5. CASE job[w].event \notin Events
  <2>1. UNCHANGED event
    BY <1>1, <1>5 DEF Fail, Job
  <2> QED  BY <1>1, <1>2, <1>4, <1>5, <2>1, IdleOK, Reads
<1>6. CASE job[w].event \in Events
  <2>1. PICK e \in Events : e = job[w].event
    BY <1>6
  <2>2. /\ event[e] \in Event /\ event \in [Events -> Event] /\ e # None
        /\ event[e].tasks < MaxTasks
        /\ event' = [event EXCEPT ![e].tasks = event[e].tasks + 1]
    BY <1>1, <2>1, InputAssumption DEF Fail, TypeOK
  <2>3. event[e].tasks \in Nat /\ event[e].tasks + 1 \in 0 .. MaxTasks
    BY <2>2, BoundAssumption DEF Event
  <2>4. PICK v : v = [event[e] EXCEPT !.tasks = event[e].tasks + 1]
    OBVIOUS
  <2>5. v \in Event /\ v.tasks > 0
    BY <2>2, <2>3, <2>4 DEF Event
  <2>6. /\ event' \in [Events -> Event] /\ event'[e] = v
        /\ \A d \in Events : d # e => event'[d] = event[d]
    BY <2>2, <2>4, <2>5
  <2>7. TypeOK'
    BY <1>1, <1>2, <1>3, <2>6 DEF TypeOK
  <2>8. JobsOK'
    BY <1>3, IdleOK, JobsKept DEF ContactsInv
  <2>9. RowsStay
    BY <1>2 DEF RowsStay
  <2>10. CopiesOK'
    <3>1. CopyOK(job[w])'
      BY <1>3, IdleOK DEF CopyOK
    <3> QED  BY <1>3, <2>9, <3>1, CopiesKept DEF ContactsInv
  <2>11. Keeping'
    <3>1. OnItsWay(e)'
      BY <2>5, <2>6 DEF OnItsWay
    <3>2. ASSUME NEW d \in Events, d # e, OnItsWay(d) PROVE OnItsWay(d)'
      <4>1. \A x \in Workers : Handles(x, d) => Handles(x, d)'
        BY <1>3, <2>1, <3>2 DEF Handles, Others, Like
      <4> QED  BY <1>2, <2>6, <3>2, <4>1 DEF OnItsWay, Arrived
    <3> QED  BY <2>6, <3>1, <3>2 DEF ContactsInv, Keeping
  <2>12. Looking'
    BY <1>2, <1>3, <1>4, LookingKept DEF ContactsInv, Alone
  <2>13. NoOrphans'
    BY <1>2 DEF ContactsInv, NoOrphans, Live, Merged
  <2>14. Merging' /\ GroupSurvives' /\ Cleaning'
    BY <1>2, <1>3, IdleOK, CompaniesAside DEF Merges
  <2> QED  BY <2>7, <2>8, <2>10, <2>11, <2>12, <2>13, <2>14 DEF ContactsInv
<1> QED  BY <1>5, <1>6

-----------------------------------------------------------------------------
(* Rows.                                                                   *)

LEMMA RowsChange ==
  ASSUME ContactsInv, NEW W \in SUBSET Workers, Others(W), job' \in [Workers -> Job],
         \A w \in W : JobOK(job'[w]) /\ CopyOK(job[w])' /\ ~Merges(w)',
         \A w \in W, e \in Events : Handles(w, e) => Handles(w, e)' \/ Arrived(e)',
         row' \in [RowIds -> Row], RowsStay, UNCHANGED <<company, event, crossed>>,
         requests' \in 0 .. MaxRequests, faults' \in 0 .. MaxFaults,
         \A r \in RowIds : row'[r].st = "live" =>
           \/ /\ row[r].st = "live" /\ row'[r].company = row[r].company
              /\ row'[r].late = row[r].late
           \/ Merged(row[r].company)' => row'[r].late,
         Looking'
  PROVE  ContactsInv'
<1>1. TypeOK'
  BY DEF ContactsInv, TypeOK
<1>2. JobsOK' /\ CopiesOK'
  BY JobsKept, CopiesKept DEF ContactsInv
<1>3. Keeping'
  BY KeepingKept DEF ContactsInv
<1>4. NoOrphans'
  <2>1. \A c \in CompanyIds : Merged(c)' => Merged(c)
    BY DEF Merged
  <2> QED  BY <2>1, OrphansKept DEF ContactsInv
<1>5. Merging' /\ GroupSurvives' /\ Cleaning'
  BY CompaniesAside
<1> QED  BY <1>1, <1>2, <1>3, <1>4, <1>5 DEF ContactsInv

\* A row r is inserted, by a job that ends as k or by a request.
LEMMA Inserted ==
  ASSUME TypeOK, NEW r \in RowIds, IsNext(row, r), NEW v \in Row, row' = [row EXCEPT ![r] = v]
  PROVE  /\ row[r].st = "none" /\ row' \in [RowIds -> Row] /\ row'[r] = v /\ RowsStay
         /\ \A s \in RowIds : s # r => row'[s] = row[s]
         /\ \A s \in RowIds, key \in Keys : s # r => (Alone(s, key)' <=> Alone(s, key))
<1>1. row[r].st = "none" /\ row' \in [RowIds -> Row] /\ row'[r] = v
  BY DEF IsNext, TypeOK
<1>2. \A s \in RowIds : s # r => row'[s] = row[s]
  BY DEF TypeOK
<1>3. RowsStay
  BY <1>1, <1>2 DEF RowsStay
<1>4. \A s \in RowIds, key \in Keys : s # r => (Alone(s, key)' <=> Alone(s, key))
  BY <1>2 DEF Alone
<1> QED  BY <1>1, <1>2, <1>3, <1>4

LEMMA RowKindTyped == \A j : RowKind(j) \in Kinds
  BY DEF RowKind, Kinds

\* A row that was not ingested.
LEMMA InsertedBy ==
  ASSUME ContactsInv, NEW W \in SUBSET Workers, Others(W), job' \in [Workers -> Job],
         \A w \in W : job'[w] = Idle /\ job[w].kind # "zapier",
         NEW r \in RowIds, IsNext(row, r), NEW v \in Row, row' = [row EXCEPT ![r] = v],
         ~v.ingested, Merged(v.company) => v.late,
         UNCHANGED <<company, event, crossed>>,
         requests' \in 0 .. MaxRequests, faults' \in 0 .. MaxFaults
  PROVE  ContactsInv'
<1>1. /\ row[r].st = "none" /\ row' \in [RowIds -> Row] /\ row'[r] = v /\ RowsStay
      /\ \A s \in RowIds : s # r => row'[s] = row[s]
      /\ \A s \in RowIds, key \in Keys : s # r => (Alone(s, key)' <=> Alone(s, key))
  BY Inserted DEF ContactsInv
<1>2. \A s \in RowIds, key \in Keys : Alone(s, key)' => Alone(s, key)
  BY <1>1 DEF Alone
<1>3. \A w \in W : JobOK(job'[w]) /\ CopyOK(job[w])' /\ ~Merges(w)' /\ ~Merges(w)'
  BY IdleOK DEF Idle, CopyOK, Merges
<1>4. \A w \in W, key \in Keys : ~Looks(w, key)'
  BY DEF Idle, Looks, LooksFor
<1>5. Looking'
  BY <1>2, <1>4, LookingKept DEF ContactsInv
<1>6. \A w \in W, e \in Events : ~Handles(w, e)
  BY JobAt DEF Handles
<1>7. \A s \in RowIds : row'[s].st = "live" =>
           \/ /\ row[s].st = "live" /\ row'[s].company = row[s].company
              /\ row'[s].late = row[s].late
           \/ Merged(row[s].company)' => row'[s].late
  BY <1>1 DEF Merged
<1> QED  BY <1>1, <1>3, <1>5, <1>6, <1>7, RowsChange

LEMMA ImportRowInv == ASSUME ContactsInv, NEW w \in Workers, ImportRow(w) PROVE ContactsInv'
<1>1. /\ TypeOK /\ job[w] \in Job /\ JobOK(job[w]) /\ job[w].kind \in {"import", "sponsor"}
      /\ requests' \in 0 .. MaxRequests /\ faults' \in 0 .. MaxFaults
  BY JobAt DEF ImportRow
<1>2. PICK r \in RowIds :
        /\ IsNext(row, r)
        /\ row' = [row EXCEPT ![r] = [NoRow EXCEPT !.st = "live", !.kind = RowKind(job[w]),
                                        !.key = job[w].key, !.company = job[w].company,
                                        !.late = Merged(job[w].company)]]
        /\ job' = [Raced(w, job[w].key) EXCEPT ![w] = Idle]
  BY DEF ImportRow
<1>3. PICK v : v = [NoRow EXCEPT !.st = "live", !.kind = RowKind(job[w]), !.key = job[w].key,
                                 !.company = job[w].company, !.late = Merged(job[w].company)]
  OBVIOUS
<1>4. v.company = job[w].company /\ v.ingested = FALSE
  BY <1>3 DEF NoRow
<1>5. v.late = Merged(job[w].company)
  BY <1>3 DEF NoRow
<1>6. v \in Row
  <2>1. Merged(job[w].company) \in BOOLEAN
    BY DEF Merged
  <2>2. PICK b \in BOOLEAN : b = Merged(job[w].company)
    BY <2>1
  <2>3. v = [NoRow EXCEPT !.st = "live", !.kind = RowKind(job[w]), !.key = job[w].key,
                          !.company = job[w].company, !.late = b]
    BY <1>3, <2>2
  <2>4. job[w].key \in Keys \cup {None} /\ job[w].company \in 0 .. MaxCompanies
    BY <1>1 DEF Job
  <2> QED  BY <2>3, <2>4, Typed, RowKindTyped DEF Row
<1>7. row' = [row EXCEPT ![r] = v]
  BY <1>2, <1>3
<1>8. job' \in [Workers -> Job] /\ job'[w] = Idle /\ Others({w})
  BY <1>1, <1>2, Typed, RaceMoves
<1>9. Merged(v.company) => v.late
  BY <1>4, <1>5
<1> QED  BY <1>1, <1>2, <1>4, <1>6, <1>7, <1>8, <1>9, InsertedBy DEF ImportRow

\* A request: a contact or a sponsor.
LEMMA NewRowInv ==
  ASSUME ContactsInv, NEW kind \in Kinds, NEW key \in Keys \cup {None},
         NEW c \in {0} \cup Live(company), NewRow(kind, key, c)
  PROVE  ContactsInv'
<1>1. TypeOK /\ requests' \in 0 .. MaxRequests /\ faults' \in 0 .. MaxFaults
  BY RequestTyped DEF ContactsInv, NewRow, TypeOK
<1>2. PICK r \in RowIds :
        /\ IsNext(row, r)
        /\ row' = [row EXCEPT ![r] = [NoRow EXCEPT !.st = "live", !.kind = kind, !.key = key,
                                                   !.company = c]]
  BY DEF NewRow
<1>3. PICK v : v = [NoRow EXCEPT !.st = "live", !.kind = kind, !.key = key, !.company = c]
  OBVIOUS
<1>4. c \in 0 .. MaxCompanies /\ ~Merged(c)
  BY <1>1, BoundAssumption DEF Live, TypeOK, CompanyIds, Merged, ContactsInv, Merging, LiveOnes
<1>5. v \in Row /\ v.company = c
  BY <1>3, <1>4, Typed DEF Row
<1>6. v.ingested = FALSE
  BY <1>3 DEF NoRow
<1>7. row' = [row EXCEPT ![r] = v]
  BY <1>2, <1>3
<1>8. job' \in [Workers -> Job] /\ Others({})
  BY <1>1, LikeItself DEF NewRow, TypeOK, Others
<1> QED  BY <1>1, <1>2, <1>4, <1>5, <1>6, <1>7, <1>8, InsertedBy DEF NewRow

LEMMA CreateRowInv == ASSUME ContactsInv, NEW w \in Workers, CreateRow(w) PROVE ContactsInv'
<1>1. /\ TypeOK /\ job[w] \in Job /\ JobOK(job[w]) /\ job[w].pc = "createrow"
      /\ job[w].kind \in {"zapier", "provider", "maker"}
      /\ job[w].kind # "zapier" => job[w].event \notin Events
      /\ requests' \in 0 .. MaxRequests /\ faults' \in 0 .. MaxFaults
      /\ UNCHANGED <<company, event, crossed>>
  BY JobAt DEF CreateRow, JobOK
<1>2. PICK r \in RowIds :
        /\ IsNext(row, r)
        /\ row' = [row EXCEPT ![r] =
             [st |-> "live", kind |-> RowKind(job[w]), key |-> job[w].key,
              company |-> job[w].company, ingested |-> TRUE, raced |-> job[w].raced,
              late |-> Merged(job[w].company)]]
        /\ job' = [Raced(w, job[w].key) EXCEPT ![w] = AfterRows(job[w])]
  BY DEF CreateRow
<1>3. PICK v : v = [st |-> "live", kind |-> RowKind(job[w]), key |-> job[w].key,
                    company |-> job[w].company, ingested |-> TRUE, raced |-> job[w].raced,
                    late |-> Merged(job[w].company)]
  OBVIOUS
<1>4. /\ v.st = "live" /\ v.kind = RowKind(job[w]) /\ v.key = job[w].key
      /\ v.company = job[w].company
  BY <1>3
<1>5. v.raced = job[w].raced /\ v.late = Merged(job[w].company)
  BY <1>3
<1>6. v \in Row
  <2>1. Merged(job[w].company) \in BOOLEAN /\ job[w].raced \in BOOLEAN
    BY <1>1 DEF Merged, Job
  <2>2. job[w].key \in Keys \cup {None} /\ job[w].company \in 0 .. MaxCompanies
    BY <1>1 DEF Job
  <2> QED  BY <1>3, <2>1, <2>2, RowKindTyped DEF Row
<1>7. row' = [row EXCEPT ![r] = v]
  BY <1>2, <1>3
<1>8. PICK k : k = AfterRows(job[w])
  OBVIOUS
<1>9. k \in Job /\ k.pc \in {"idle", "merge"} /\ JobOK(k)
  BY <1>8, Typed, IdleOK, MergeJob DEF AfterRows
<1>10. /\ job' \in [Workers -> Job] /\ job'[w] = k /\ Others({w})
       /\ \A x \in Workers : x # w /\ LooksFor(x, job[w].key) => job'[x].raced
  BY <1>1, <1>2, <1>8, <1>9, RaceMoves
<1>11. /\ row[r].st = "none" /\ row' \in [RowIds -> Row] /\ row'[r] = v /\ RowsStay
       /\ \A s \in RowIds : s # r => row'[s] = row[s]
       /\ \A s \in RowIds, key \in Keys : s # r => (Alone(s, key)' <=> Alone(s, key))
  BY <1>1, <1>2, <1>6, <1>7, Inserted
<1>12. JobOK(job'[w]) /\ CopyOK(job[w])' /\ ~Merges(w)'
  BY <1>9, <1>10 DEF CopyOK, Merges
<1>13. \A e \in Events : Handles(w, e) => Arrived(e)'
  BY <1>1, <1>4, <1>11 DEF Handles, Arrived, JobOK, RowKind
<1>14. \A s \in RowIds : row'[s].st = "live" =>
           \/ /\ row[s].st = "live" /\ row'[s].company = row[s].company
              /\ row'[s].late = row[s].late
           \/ Merged(row[s].company)' => row'[s].late
  <2>1. Merged(row[r].company)' => row'[r].late
    BY <1>1, <1>4, <1>5, <1>11 DEF Merged
  <2> QED  BY <1>11, <2>1
<1>15. Looking'
  <2>1. ASSUME NEW key \in Keys, Alone(r, key)'
        PROVE  /\ key = job[w].key /\ Looks(w, key)
               /\ \A s \in RowIds : ~Alone(s, key)
    <3>1. key = job[w].key /\ ~job[w].raced /\ RowKind(job[w]) = "contact"
      BY <1>4, <1>5, <1>11, <2>1 DEF Alone
    <3>2. job[w].kind \in {"zapier", "provider"}
      BY <1>1, <3>1 DEF RowKind
    <3>3. Looks(w, key)
      BY <1>1, <3>1, <3>2, NormAssumption DEF Looks, LooksFor
    <3> QED  BY <3>1, <3>3 DEF ContactsInv, Looking
  <2>2. ASSUME NEW key \in Keys, NEW x \in Workers, Looks(x, key)'
        PROVE  x # w /\ Looks(x, key)
    BY <1>9, <1>10, <2>2 DEF Looks, LooksFor, Others, Like
  <2>3. ASSUME NEW key \in Keys, NEW s \in RowIds, NEW u \in RowIds, Alone(s, key)', Alone(u, key)'
        PROVE  s = u
    BY <1>11, <2>1, <2>3 DEF ContactsInv, Looking
  <2>4. ASSUME NEW key \in Keys, NEW x \in Workers, Looks(x, key)', NEW s \in RowIds
        PROVE  ~Alone(s, key)'
    <3>1. CASE s = r
      BY <1>10, <2>1, <2>2, <2>4, <3>1 DEF Looks
    <3>2. CASE s # r
      BY <1>11, <2>2, <2>4, <3>2 DEF ContactsInv, Looking
    <3> QED  BY <3>1, <3>2
  <2> QED  BY <2>3, <2>4 DEF Looking
<1> QED
  BY <1>1, <1>10, <1>11, <1>12, <1>13, <1>14, <1>15, RowsChange

\* A copy is saved: the row is live again if it was deleted, and has raced then.
LEMMA SaveRowInv == ASSUME ContactsInv, NEW w \in Workers, SaveRow(w) PROVE ContactsInv'
<1>1. /\ TypeOK /\ job[w] \in Job /\ JobOK(job[w]) /\ CopyOK(job[w]) /\ job[w].pc = "saverow"
      /\ job[w].kind # "zapier" => job[w].event \notin Events
      /\ requests' \in 0 .. MaxRequests /\ faults' \in 0 .. MaxFaults
      /\ UNCHANGED <<company, event, crossed>>
  BY JobAt DEF SaveRow
<1>2. PICK r \in RowIds : r = job[w].row
  BY <1>1 DEF JobOK
<1>3. PICK c : /\ c \in 0 .. MaxCompanies
               /\ row' = [row EXCEPT ![r] = Saved(job[w], c)]
  <2>1. /\ job[w].oldRow.company \in 0 .. MaxCompanies /\ job[w].company \in 0 .. MaxCompanies
        /\ {0} \cup Live(company) \subseteq 0 .. MaxCompanies
    BY <1>1, BoundAssumption DEF Job, Row, Live, TypeOK, CompanyIds
  <2>2. PICK c \in CASE job[w].kind = "zapier" -> {job[w].oldRow.company}
                     [] job[w].company # 0 -> {job[w].company}
                     [] OTHER -> {0} \cup Live(company) :
               row' = [row EXCEPT ![r] = Saved(job[w], c)]
    BY <1>2 DEF SaveRow
  <2>3. c \in 0 .. MaxCompanies
    <3>1. CASE job[w].kind = "zapier"
      BY <2>1, <2>2, <3>1
    <3>2. CASE job[w].kind # "zapier" /\ job[w].company # 0
      BY <2>1, <2>2, <3>2
    <3>3. CASE job[w].kind # "zapier" /\ job[w].company = 0
      BY <2>1, <2>2, <3>3
    <3> QED  BY <3>1, <3>2, <3>3
  <2> QED  BY <2>2, <2>3
<1>4. PICK v : v = Saved(job[w], c)
  OBVIOUS
<1>5. row[r] \in Row /\ job[w].oldRow \in Row /\ row \in [RowIds -> Row]
  BY <1>1 DEF TypeOK, Job
<1>6. /\ v.st = job[w].oldRow.st /\ v.kind = job[w].oldRow.kind /\ v.key = job[w].oldRow.key
      /\ v.company = c
  BY <1>4, <1>5 DEF Saved, Row
<1>7. v.ingested = job[w].oldRow.ingested /\ v.late = Merged(c)
  BY <1>4, <1>5 DEF Saved, Row
<1>8. v.raced <=> row[r].raced \/ row[r].st = "deleted"
  BY <1>2, <1>4, <1>5 DEF Saved, Row
<1>9. v \in Row
  <2>1. Merged(c) \in BOOLEAN /\ (row[r].raced \/ row[r].st = "deleted") \in BOOLEAN
    BY DEF Merged
  <2>2. PICK a \in BOOLEAN, b \in BOOLEAN :
          a = Merged(c) /\ b = (row[r].raced \/ row[r].st = "deleted")
    BY <2>1
  <2>3. v = [job[w].oldRow EXCEPT !.company = c, !.late = a, !.raced = b]
    BY <1>2, <1>4, <2>2 DEF Saved
  <2> QED  BY <1>3, <1>5, <2>3 DEF Row
<1>10. /\ row' \in [RowIds -> Row] /\ row'[r] = v
       /\ \A s \in RowIds : s # r => row'[s] = row[s]
  BY <1>3, <1>4, <1>5, <1>9
<1>11. /\ v.st = "live" /\ row[r].st # "none" /\ v.kind = row[r].kind /\ v.key = row[r].key
       /\ v.ingested = row[r].ingested
  BY <1>1, <1>2, <1>6, <1>7 DEF JobOK, CopyOK
<1>12. RowsStay
  BY <1>10, <1>11 DEF RowsStay
<1>13. job' \in [Workers -> Job] /\ job'[w] = Idle /\ Others({w})
  BY <1>1, Typed, StepMoves DEF SaveRow, Finish
<1>14. JobOK(job'[w]) /\ CopyOK(job[w])' /\ ~Merges(w)'
  BY <1>13, IdleOK DEF CopyOK, Merges
<1>15. \A e \in Events : Handles(w, e) => Arrived(e)'
  BY <1>1, <1>2, <1>10, <1>11 DEF Handles, Arrived, JobOK, CopyOK
<1>16. Looking'
  <2>1. \A s \in RowIds, key \in Keys : Alone(s, key)' => Alone(s, key)
    <3>1. ASSUME NEW key \in Keys, Alone(r, key)' PROVE Alone(r, key)
      <4>1. row[r].st = "live"
        BY <1>5, <1>8, <1>10, <1>11, <3>1 DEF Alone, Row
      <4> QED  BY <1>8, <1>10, <1>11, <3>1, <4>1 DEF Alone
    <3> QED  BY <1>10, <3>1 DEF Alone
  <2>2. \A key \in Keys : ~Looks(w, key)'
    BY <1>13 DEF Idle, Looks, LooksFor
  <2> QED  BY <1>13, <2>1, <2>2, LookingKept DEF ContactsInv
<1>17. \A s \in RowIds : row'[s].st = "live" =>
           \/ /\ row[s].st = "live" /\ row'[s].company = row[s].company
              /\ row'[s].late = row[s].late
           \/ Merged(row[s].company)' => row'[s].late
  <2>1. Merged(row[r].company)' => row'[r].late
    BY <1>1, <1>6, <1>7, <1>10 DEF Merged
  <2> QED  BY <1>10, <2>1
<1> QED
  BY <1>1, <1>10, <1>12, <1>13, <1>14, <1>15, <1>16, <1>17, RowsChange

LEMMA DeleteRowInv == ASSUME ContactsInv, NEW r \in RowIds, DeleteRow(r) PROVE ContactsInv'
<1>1. /\ TypeOK /\ requests' \in 0 .. MaxRequests /\ faults' \in 0 .. MaxFaults
      /\ row[r] \in Row /\ row \in [RowIds -> Row]
  BY RequestTyped DEF ContactsInv, TypeOK, DeleteRow
<1>2. PICK v : v = [row[r] EXCEPT !.st = "deleted"]
  OBVIOUS
<1>3. /\ v \in Row /\ v.st = "deleted" /\ v.kind = row[r].kind /\ v.key = row[r].key
  BY <1>1, <1>2 DEF Row
<1>4. v.ingested = row[r].ingested
  BY <1>1, <1>2 DEF Row
<1>5. /\ row' \in [RowIds -> Row] /\ row'[r] = v
      /\ \A s \in RowIds : s # r => row'[s] = row[s]
  BY <1>1, <1>2, <1>3 DEF DeleteRow
<1>6. RowsStay
  BY <1>3, <1>4, <1>5 DEF RowsStay
<1>7. job' \in [Workers -> Job] /\ Others({}) /\ UNCHANGED <<company, event, crossed>>
  BY <1>1, LikeItself DEF DeleteRow, TypeOK, Others
<1>8. Looking'
  <2>1. \A s \in RowIds, key \in Keys : Alone(s, key)' => Alone(s, key)
    BY <1>3, <1>5 DEF Alone
  <2> QED  BY <1>7, <2>1, LookingKept DEF ContactsInv
<1>9. \A s \in RowIds : row'[s].st = "live" =>
           /\ row[s].st = "live" /\ row'[s].company = row[s].company
           /\ row'[s].late = row[s].late
  BY <1>3, <1>5
<1> QED  BY <1>1, <1>5, <1>6, <1>7, <1>8, <1>9, RowsChange

-----------------------------------------------------------------------------
(* Companies.                                                              *)

\* A company is written by somebody who does not merge: whoever merges knows.
LEMMA CompaniesChange ==
  ASSUME ContactsInv, NEW W \in SUBSET Workers, Others(W), job' \in [Workers -> Job],
         \A v \in Workers \ W : ~job'[v].alone,
         \A w \in W : JobOK(job'[w]) /\ CopyOK(job[w])' /\ ~Merges(w)',
         \A w \in W, e \in Events : Handles(w, e) => Handles(w, e)',
         \A w \in W, key \in Keys : Looks(w, key)' => Looks(w, key),
         company' \in [CompanyIds -> Company], LiveOnes',
         \A c \in CompanyIds : Merged(c)' => Merged(c) /\ company'[c].into = company[c].into,
         row' \in [RowIds -> Row], RowsStay, UNCHANGED <<event, crossed>>,
         \A r \in RowIds, key \in Keys : Alone(r, key)' => Alone(r, key),
         requests' \in 0 .. MaxRequests, faults' \in 0 .. MaxFaults,
         \A r \in RowIds : row'[r].st = "live" =>
           \/ /\ row[r].st = "live" /\ row'[r].company = row[r].company
              /\ row'[r].late = row[r].late
           \/ Merged(row[r].company)' => row'[r].late
  PROVE  ContactsInv'
<1>1. TypeOK'
  BY DEF ContactsInv, TypeOK
<1>2. JobsOK' /\ CopiesOK'
  BY JobsKept, CopiesKept DEF ContactsInv
<1>3. Keeping'
  BY KeepingKept DEF ContactsInv
<1>4. Looking'
  BY LookingKept DEF ContactsInv
<1>5. NoOrphans'
  BY OrphansKept DEF ContactsInv
<1>6. Merging'
  BY MergingKept DEF ContactsInv
<1>7. GroupSurvives'
  BY GroupsKept DEF ContactsInv
<1>8. Cleaning'
  <2>1. \A v \in Workers : ~(Merges(v)' /\ job'[v].alone)
    OBVIOUS
  <2> QED  BY <2>1, CleaningKept DEF ContactsInv
<1> QED  BY <1>1, <1>2, <1>3, <1>4, <1>5, <1>6, <1>7, <1>8 DEF ContactsInv

\* One company becomes v.
LEMMA CompanyBecomes ==
  ASSUME ContactsInv, NEW c \in CompanyIds, NEW v \in Company,
         company' = [company EXCEPT ![c] = v], v.st = "live" => v.into = 0,
         v.into = 0 \/ v.into = company[c].into
  PROVE  /\ company' \in [CompanyIds -> Company] /\ LiveOnes'
         /\ \A d \in CompanyIds : Merged(d)' => Merged(d) /\ company'[d].into = company[d].into
<1>1. /\ company' \in [CompanyIds -> Company] /\ company'[c] = v
      /\ \A d \in CompanyIds : d # c => company'[d] = company[d]
  BY DEF ContactsInv, TypeOK
<1>2. LiveOnes'
  BY <1>1 DEF ContactsInv, Merging, LiveOnes
<1> QED  BY <1>1, <1>2 DEF Merged

\* The rows stay as they are.
LEMMA RowsSame ==
  ASSUME ContactsInv, UNCHANGED row
  PROVE  /\ row' \in [RowIds -> Row] /\ RowsStay
         /\ \A r \in RowIds, key \in Keys : Alone(r, key)' => Alone(r, key)
         /\ \A r \in RowIds : row'[r].st = "live" =>
              /\ row[r].st = "live" /\ row'[r].company = row[r].company
              /\ row'[r].late = row[r].late
  BY DEF ContactsInv, TypeOK, RowsStay, Alone

LEMMA InsertInv ==
  ASSUME ContactsInv, NEW c \in CompanyIds, NEW n \in Names, NEW d \in Domains \cup {None},
         NEW T \in SUBSET Tags, Insert(c, n, d, T)
  PROVE  ContactsInv'
<1>1. /\ TypeOK /\ requests' \in 0 .. MaxRequests /\ faults' \in 0 .. MaxFaults
      /\ UNCHANGED <<row, event, crossed>>
  BY RequestTyped DEF ContactsInv, TypeOK, Insert
<1>2. PICK v : v = [NoCompany EXCEPT !.st = "live", !.name = n, !.dom = d, !.tags = T]
  OBVIOUS
<1>3. v \in Company /\ v.into = 0
  <2>1. v.into = 0
    BY <1>2 DEF NoCompany
  <2> QED  BY <1>2, <2>1, Typed DEF Company
<1>4. company' = [company EXCEPT ![c] = v]
  BY <1>2 DEF Insert
<1>5. job' \in [Workers -> Job] /\ Others({}) /\ \A w \in Workers : ~job'[w].alone
  BY <1>1, AllDisturbed DEF Insert
<1>6. /\ company' \in [CompanyIds -> Company] /\ LiveOnes'
      /\ \A b \in CompanyIds : Merged(b)' => Merged(b) /\ company'[b].into = company[b].into
  BY <1>3, <1>4, CompanyBecomes
<1> QED  BY <1>1, <1>5, <1>6, RowsSame, CompaniesChange

LEMMA DeleteCompanyInv ==
  ASSUME ContactsInv, NEW c \in CompanyIds, DeleteCompany(c) PROVE ContactsInv'
<1>1. /\ TypeOK /\ requests' \in 0 .. MaxRequests /\ faults' \in 0 .. MaxFaults
      /\ UNCHANGED <<row, event, crossed>> /\ company[c] \in Company
      /\ company \in [CompanyIds -> Company]
  BY RequestTyped DEF ContactsInv, TypeOK, DeleteCompany
<1>2. PICK v : v = [company[c] EXCEPT !.st = "deleted"]
  OBVIOUS
<1>3. v \in Company /\ v.into = company[c].into /\ v.st = "deleted"
  BY <1>1, <1>2 DEF Company
<1>4. company' = [company EXCEPT ![c] = v]
  BY <1>1, <1>2 DEF DeleteCompany
<1>5. job' \in [Workers -> Job] /\ Others({}) /\ \A w \in Workers : ~job'[w].alone
  BY <1>1, AllDisturbed DEF DeleteCompany
<1>6. /\ company' \in [CompanyIds -> Company] /\ LiveOnes'
      /\ \A b \in CompanyIds : Merged(b)' => Merged(b) /\ company'[b].into = company[b].into
  BY <1>3, <1>4, CompanyBecomes
<1> QED  BY <1>1, <1>5, <1>6, RowsSame, CompaniesChange

LEMMA CreateCompanyInv ==
  ASSUME ContactsInv, NEW w \in Workers, CreateCompany(w) PROVE ContactsInv'
<1>1. /\ TypeOK /\ job[w] \in Job /\ JobOK(job[w]) /\ job[w].pc = "create"
      /\ requests' \in 0 .. MaxRequests /\ faults' \in 0 .. MaxFaults
      /\ UNCHANGED <<row, event, crossed>>
  BY JobAt DEF CreateCompany
<1>2. PICK c \in CompanyIds :
        /\ company' = [company EXCEPT ![c] = Created(job[w])]
        /\ job' = [Disturbed(w) EXCEPT ![w] = AfterCompany(job[w], c)]
  BY DEF CreateCompany
<1>3. PICK v : v = Created(job[w])
  OBVIOUS
<1>4. v \in Company /\ v.into = 0
  <2>1. PICK d \in Domains \cup {None} : d = IF job[w].dom = None THEN None ELSE Norm[job[w].dom]
    BY <1>1, NormAssumption DEF Job
  <2>2. v = [NoCompany EXCEPT !.st = "live", !.name = job[w].name, !.dom = d]
    BY <1>3, <2>1 DEF Created
  <2>3. job[w].name \in Names \cup {None}
    BY <1>1 DEF Job
  <2>4. v.into = 0
    BY <2>2 DEF NoCompany
  <2> QED  BY <2>2, <2>3, <2>4, Typed DEF Company
<1>5. PICK k : k = AfterCompany(job[w], c)
  OBVIOUS
<1>6. c \in 0 .. MaxCompanies
  BY BoundAssumption DEF CompanyIds
<1>7. /\ k \in Job /\ JobOK(k) /\ k.pc \in {"findrow", "createrow"}
      /\ k.kind = job[w].kind /\ k.event = job[w].event /\ k.key = job[w].key
      /\ k.raced = job[w].raced /\ (k.kind = "provider" => k.pc = "findrow")
  BY <1>1, <1>5, <1>6, AfterCompanyOK
<1>8. /\ job' \in [Workers -> Job] /\ job'[w] = k /\ Others({w})
      /\ \A x \in Workers : x # w => ~job'[x].alone
  BY <1>1, <1>2, <1>5, <1>7, DisturbMoves
<1>9. /\ company' \in [CompanyIds -> Company] /\ LiveOnes'
      /\ \A b \in CompanyIds : Merged(b)' => Merged(b) /\ company'[b].into = company[b].into
  BY <1>2, <1>3, <1>4, CompanyBecomes
<1>10. JobOK(job'[w]) /\ CopyOK(job[w])' /\ ~Merges(w)'
  BY <1>7, <1>8 DEF CopyOK, Merges
<1>11. \A e \in Events : Handles(w, e) => Handles(w, e)'
  BY <1>7, <1>8 DEF Handles
<1>12. \A key \in Keys : Looks(w, key)' => Looks(w, key)
  BY <1>1, <1>7, <1>8 DEF Looks, LooksFor
<1> QED  BY <1>1, <1>8, <1>9, <1>10, <1>11, <1>12, RowsSame, CompaniesChange

LEMMA EnrichInv == ASSUME ContactsInv, NEW w \in Workers, Enrich(w) PROVE ContactsInv'
<1>1. /\ TypeOK /\ job[w] \in Job /\ JobOK(job[w]) /\ job[w].pc = "enrich"
      /\ requests' \in 0 .. MaxRequests /\ faults' \in 0 .. MaxFaults
      /\ UNCHANGED <<row, event, crossed>>
  BY JobAt DEF Enrich
<1>2. PICK k : k = [job[w] EXCEPT !.pc = "find"]
  OBVIOUS
<1>3. /\ k \in Job /\ k.pc = "find" /\ k.kind = job[w].kind /\ k.event = job[w].event
      /\ k.key = job[w].key
  BY <1>1, <1>2 DEF Job
<1>4. JobOK(k) /\ CopyOK(k) /\ k.kind # "zapier"
  BY <1>1, <1>3 DEF JobOK, CopyOK
<1>5. ASSUME job'[w] = k PROVE \A key \in Keys : ~Looks(w, key)'
  BY <1>3, <1>4, <1>5 DEF Looks, LooksFor
<1>6. CASE Step(w, [job[w] EXCEPT !.pc = "find"]) /\ UNCHANGED company
  <2>1. Step(w, k)
    BY <1>2, <1>6
  <2>2. job'[w] = k
    BY <1>1, <1>3, <2>1, StepMoves
  <2> QED  BY <1>1, <1>3, <1>4, <1>5, <1>6, <2>1, <2>2, Reads
<1>7. ASSUME NEW c \in Live(company), company' = [company EXCEPT ![c].rich = TRUE],
             job' = [Disturbed(w) EXCEPT ![w].pc = "find"]
      PROVE  ContactsInv'
  <2>1. c \in CompanyIds /\ company[c] \in Company /\ company \in [CompanyIds -> Company]
        /\ company[c].st = "live"
    BY <1>1 DEF Live, TypeOK
  <2>2. PICK v : v = [company[c] EXCEPT !.rich = TRUE]
    OBVIOUS
  <2>3. v \in Company /\ v.into = company[c].into /\ v.into = 0
    BY <2>1, <2>2 DEF Company, ContactsInv, Merging, LiveOnes
  <2>4. company' = [company EXCEPT ![c] = v]
    BY <1>7, <2>1, <2>2
  <2>5. job' = [Disturbed(w) EXCEPT ![w] = k]
    BY <1>2, <1>7 DEF Disturbed
  <2>6. /\ job' \in [Workers -> Job] /\ job'[w] = k /\ Others({w})
        /\ \A x \in Workers : x # w => ~job'[x].alone
    BY <1>1, <1>3, <2>5, DisturbMoves
  <2>7. /\ company' \in [CompanyIds -> Company] /\ LiveOnes'
        /\ \A b \in CompanyIds : Merged(b)' => Merged(b) /\ company'[b].into = company[b].into
    BY <2>1, <2>3, <2>4, CompanyBecomes
  <2>8. JobOK(job'[w]) /\ CopyOK(job[w])' /\ ~Merges(w)'
    BY <1>3, <1>4, <2>6 DEF CopyOK, Merges
  <2>9. \A e \in Events : Handles(w, e) => Handles(w, e)'
    BY <1>3, <2>6 DEF Handles
  <2>10. \A key \in Keys : ~Looks(w, key)'
    BY <1>5, <2>6
  <2> QED  BY <1>1, <2>6, <2>7, <2>8, <2>9, <2>10, RowsSame, CompaniesChange
<1> QED  BY <1>6, <1>7 DEF Enrich

\* The row is saved with the decision makers read with it: it is live, and was not
\* merged when it was read.
LEMMA SaveCompanyInv ==
  ASSUME ContactsInv, NEW w \in Workers, SaveCompany(w) PROVE ContactsInv'
<1>1. /\ TypeOK /\ job[w] \in Job /\ JobOK(job[w]) /\ job[w].pc = "savecompany"
      /\ job[w].kind # "zapier" /\ job[w].event \notin Events
      /\ requests' \in 0 .. MaxRequests /\ faults' \in 0 .. MaxFaults
      /\ UNCHANGED <<event, crossed>>
      /\ job[w].old.st = "live" /\ job[w].old.into = 0 /\ job[w].old \in Company
  BY JobAt DEF SaveCompany, JobOK, Job
<1>2. PICK c \in CompanyIds : c = job[w].company
  BY <1>1 DEF JobOK
<1>3. PICK d \in Domains \cup {None}, T \in SUBSET Tags, rich \in BOOLEAN :
        company' = [company EXCEPT ![c] =
                      [job[w].old EXCEPT !.dom = d, !.tags = T, !.rich = rich]]
  BY <1>2 DEF SaveCompany
<1>4. PICK v : v = [job[w].old EXCEPT !.dom = d, !.tags = T, !.rich = rich]
  OBVIOUS
<1>5. v \in Company /\ v.into = 0
  BY <1>1, <1>4 DEF Company
<1>6. /\ company' \in [CompanyIds -> Company] /\ LiveOnes'
      /\ \A b \in CompanyIds : Merged(b)' => Merged(b) /\ company'[b].into = company[b].into
      /\ company'[c] = v
  BY <1>3, <1>4, <1>5, CompanyBecomes DEF ContactsInv, TypeOK
<1>7. /\ job' \in [Workers -> Job] /\ job'[w] = Idle /\ Others({w})
      /\ \A x \in Workers : x # w => ~job'[x].alone
  BY <1>1, Typed, DisturbMoves DEF SaveCompany
<1>8. JobOK(job'[w]) /\ CopyOK(job[w])' /\ ~Merges(w)'
  BY <1>7, IdleOK DEF CopyOK, Merges
<1>9. \A e \in Events : ~Handles(w, e)
  BY <1>1 DEF Handles
<1>10. \A key \in Keys : ~Looks(w, key)'
  BY <1>7 DEF Idle, Looks, LooksFor
<1>11. ASSUME NEW r \in RowIds
       PROVE  /\ row'[r] \in Row /\ row'[r].st = row[r].st /\ row'[r].kind = row[r].kind
              /\ row'[r].key = row[r].key /\ row'[r].ingested = row[r].ingested
              /\ row'[r].raced = row[r].raced
              /\ \/ row'[r].company = row[r].company /\ row'[r].late = row[r].late
                 \/ row'[r].company = c
  <2>1. row[r] \in Row /\ c \in 0 .. MaxCompanies
    BY <1>1, BoundAssumption DEF TypeOK, CompanyIds
  <2>2. CASE row'[r] = row[r]
    BY <2>1, <2>2
  <2>3. CASE row'[r] = [row[r] EXCEPT !.company = c, !.late = FALSE]
    <3>1. row'[r] \in Row /\ row'[r].st = row[r].st /\ row'[r].kind = row[r].kind
          /\ row'[r].key = row[r].key /\ row'[r].company = c
      BY <2>1, <2>3 DEF Row
    <3>2. row'[r].ingested = row[r].ingested /\ row'[r].raced = row[r].raced
      BY <2>1, <2>3 DEF Row
    <3> QED  BY <3>1, <3>2
  <2> QED  BY <1>2, <2>2, <2>3 DEF SaveCompany
<1>12. row' \in [RowIds -> Row]
  <2>1. DOMAIN row' = RowIds /\ row' = [r \in RowIds |-> row'[r]]
    BY DEF SaveCompany
  <2> QED  BY <1>11, <2>1
<1>13. RowsStay /\ \A r \in RowIds, key \in Keys : Alone(r, key)' => Alone(r, key)
  BY <1>11 DEF RowsStay, Alone
<1>14. \A r \in RowIds : row'[r].st = "live" =>
           \/ /\ row[r].st = "live" /\ row'[r].company = row[r].company
              /\ row'[r].late = row[r].late
           \/ Merged(row[r].company)' => row'[r].late
  <2>1. ~Merged(c)'
    BY <1>5, <1>6 DEF Merged
  <2> QED  BY <1>11, <2>1 DEF Merged
<1> QED
  BY <1>1, <1>6, <1>7, <1>8, <1>9, <1>10, <1>12, <1>13, <1>14, CompaniesChange

-----------------------------------------------------------------------------
(* Merges.                                                                 *)

LEMMA LeastExists ==
  ASSUME NEW S \in SUBSET Nat, S # {} PROVE \E p \in S : \A d \in S : p <= d
<1>1. PICK p \in S : \A d \in S : ~(<<d, p>> \in OpToRel(<, Nat))
  BY NatLessThanWellFounded, WFMin
<1>2. \A d \in S : ~(d < p)
  BY <1>1 DEF OpToRel
<1> QED  BY <1>2

LEMMA ScoreTyped == ASSUME NEW c PROVE Score(c) \in {0, 1, 2}
  BY DEF Score

\* Of any companies one is the primary, and one only.
LEMMA PrimaryExists ==
  ASSUME NEW G \in SUBSET CompanyIds, G # {} PROVE \E p \in G : IsPrimary(p, G)
<1> DEFINE Best == {c \in G : \A d \in G : Score(c) >= Score(d)}
<1>1. Best # {}
  <2>1. CASE \E c \in G : Score(c) = 2
    BY <2>1, ScoreTyped
  <2>2. CASE ~(\E c \in G : Score(c) = 2) /\ \E c \in G : Score(c) = 1
    BY <2>2, ScoreTyped
  <2>3. CASE ~(\E c \in G : Score(c) = 2) /\ ~(\E c \in G : Score(c) = 1)
    BY <2>3, ScoreTyped
  <2> QED  BY <2>1, <2>2, <2>3
<1>2. Best \in SUBSET Nat
  <2>1. CompanyIds \in SUBSET Nat
    BY BoundAssumption DEF CompanyIds
  <2>2. Best \in SUBSET G
    OBVIOUS
  <2> QED  BY <2>1, <2>2
<1>3. PICK p \in Best : \A d \in Best : p <= d
  BY <1>1, <1>2, LeastExists
<1>4. ASSUME NEW d \in G PROVE Score(p) > Score(d) \/ (Score(p) = Score(d) /\ p <= d)
  <2>1. Score(p) >= Score(d) /\ Score(p) \in {0, 1, 2} /\ Score(d) \in {0, 1, 2}
    BY ScoreTyped
  <2>2. CASE Score(p) = Score(d)
    <3>1. d \in Best
      BY <2>2
    <3> QED  BY <1>3, <2>2, <3>1
  <2> QED  BY <2>1, <2>2
<1> QED  BY <1>4 DEF IsPrimary

LEMMA PrimaryIsOne ==
  ASSUME NEW G \in SUBSET CompanyIds, NEW p \in G, NEW q \in G, IsPrimary(p, G), IsPrimary(q, G)
  PROVE  p = q
<1>1. /\ Score(p) \in {0, 1, 2} /\ Score(q) \in {0, 1, 2} /\ p \in Int /\ q \in Int
  BY ScoreTyped, BoundAssumption DEF CompanyIds
<1>2. /\ Score(p) > Score(q) \/ (Score(p) = Score(q) /\ p <= q)
      /\ Score(q) > Score(p) \/ (Score(q) = Score(p) /\ q <= p)
  BY DEF IsPrimary
<1> QED  BY <1>1, <1>2

LEMMA ReadCompaniesInv ==
  ASSUME ContactsInv, NEW w \in Workers, ReadCompanies(w) PROVE ContactsInv'
<1>1. /\ TypeOK /\ job[w] \in Job /\ JobOK(job[w]) /\ job[w].pc = "merge"
      /\ job[w].kind # "zapier"
      /\ requests' \in 0 .. MaxRequests /\ faults' \in 0 .. MaxFaults
      /\ UNCHANGED <<company, row, event>>
  BY JobAt DEF ReadCompanies, JobOK
<1> DEFINE Pairs == {u \in Live(company) \X Live(company) :
                       u[1] # u[2] /\ u[2] \in Group(u[1]) /\ IsPrimary(u[2], Group(u[1]))}
           Todo == {[dup |-> t[1], primary |-> t[2],
                     tags |-> company[t[1]].tags \cup company[t[2]].tags] : t \in Pairs}
<1>2. \A t \in Todo : /\ t.dup \in Live(company) /\ t.primary \in Live(company)
                      /\ t.dup # t.primary /\ t.primary \in Group(t.dup)
                      /\ IsPrimary(t.primary, Group(t.dup))
  OBVIOUS
<1>3. \A a, p \in Live(company) :
        a # p /\ p \in Group(a) /\ IsPrimary(p, Group(a)) =>
          \E t \in Todo : t.dup = a /\ t.primary = p
  <2>1. ASSUME NEW a \in Live(company), NEW p \in Live(company),
               a # p, p \in Group(a), IsPrimary(p, Group(a))
        PROVE  \E t \in Todo : t.dup = a /\ t.primary = p
    <3>1. PICK t : t = <<a, p>>
      OBVIOUS
    <3>2. t[1] = a /\ t[2] = p /\ t \in Pairs
      BY <2>1, <3>1
    <3>3. PICK x : x = [dup |-> t[1], primary |-> t[2],
                        tags |-> company[t[1]].tags \cup company[t[2]].tags]
      OBVIOUS
    <3>4. x \in Todo /\ x.dup = a /\ x.primary = p
      BY <3>2, <3>3
    <3> QED  BY <3>4
  <2> QED  BY <2>1
<1>4. Live(company) \subseteq CompanyIds /\ \A c \in Live(company) : company[c] \in Company
  BY <1>1 DEF Live, TypeOK
<1>5. Todo \in SUBSET [dup : CompanyIds, primary : CompanyIds, tags : SUBSET Tags]
  <2>1. \A c \in Live(company) : company[c].tags \in SUBSET Tags
    BY <1>4 DEF Company
  <2> QED  BY <1>4, <2>1
<1>6. PICK todo : todo = Todo
  OBVIOUS
<1>7. PICK k : k = [job[w] EXCEPT !.pc = "merging", !.alone = TRUE, !.todo = todo]
  OBVIOUS
<1>8. Step(w, k)
  BY <1>6, <1>7 DEF ReadCompanies
<1>9. crossed' = (crossed \/ \E v \in Workers : job[v].pc = "merging")
  BY DEF ReadCompanies
<1> HIDE DEF Pairs, Todo
<1>10. k \in Job /\ k.pc = "merging" /\ k.kind = job[w].kind /\ k.event = job[w].event
       /\ k.todo = todo
  BY <1>1, <1>5, <1>6, <1>7 DEF Job
<1>11. JobOK(k) /\ CopyOK(k)
  BY <1>1, <1>10 DEF JobOK, CopyOK
<1>12. /\ job' \in [Workers -> Job] /\ job'[w] = k /\ Others({w})
       /\ \A v \in Workers : v # w => job'[v] = job[v]
  BY <1>1, <1>8, <1>10, StepMoves
<1>13. TypeOK'
  BY <1>1, <1>9, <1>12 DEF TypeOK
<1>14. JobsOK' /\ RowsStay
  BY <1>1, <1>11, <1>12, JobsKept DEF ContactsInv, RowsStay
<1>15. CopiesOK'
  <2>1. CopyOK(job[w])'
    BY <1>10, <1>12 DEF CopyOK
  <2> QED  BY <1>12, <1>14, <2>1, CopiesKept DEF ContactsInv
<1>16. Keeping'
  <2>1. \A e \in Events : Handles(w, e) => Handles(w, e)'
    BY <1>10, <1>12 DEF Handles
  <2> QED  BY <1>1, <1>12, <1>14, <2>1, KeepingKept DEF ContactsInv
<1>17. Looking'
  <2>1. \A key \in Keys : ~Looks(w, key)'
    BY <1>10, <1>12 DEF Looks, LooksFor
  <2> QED  BY <1>1, <1>12, <2>1, LookingKept DEF ContactsInv, Alone
<1>18. NoOrphans' /\ GroupSurvives'
  BY <1>1, <1>9 DEF ContactsInv, NoOrphans, GroupSurvives, Live, Merged
<1>20. Merging'
  <2>1. LiveOnes'
    BY <1>1 DEF ContactsInv, Merging, LiveOnes
  <2>2. Apart(w)'
    <3>1. ASSUME NEW t \in Todo, NEW u \in Todo, u.dup = t.primary PROVE FALSE
      <4>1. /\ Group(u.dup) = Group(t.dup) /\ t.primary \in Group(t.dup)
            /\ u.primary \in Group(t.dup) /\ IsPrimary(t.primary, Group(t.dup))
            /\ IsPrimary(u.primary, Group(t.dup)) /\ u.primary # t.primary
        BY <1>2, <3>1 DEF Group
      <4>2. Group(t.dup) \in SUBSET CompanyIds
        BY <1>4 DEF Group
      <4> QED  BY <4>1, <4>2, PrimaryIsOne
    <3> QED  BY <1>6, <1>10, <1>12, <3>1 DEF Apart
  <2>3. \A v \in Workers : Merges(v)' => Apart(v)'
    BY <1>12, <2>2 DEF ContactsInv, Merging, Apart, Merges
  <2>4. ASSUME ~crossed' PROVE \A v \in Workers : Merges(v)' => v = w
    BY <1>9, <1>12, <2>4 DEF Merges
  <2>5. \A t \in job'[w].todo : ~Merged(t.primary)'
    BY <1>1, <1>2, <1>6, <1>10, <1>12 DEF Live, Merged, ContactsInv, Merging, LiveOnes, TypeOK
  <2> QED  BY <2>1, <2>3, <2>4, <2>5 DEF Merging
<1>21. Cleaning'
  <2>1. \A c, d \in CompanyIds : Twins(c, d)' <=> Twins(c, d)
    BY <1>1 DEF Twins, Live, DedupeKey
  <2>2. ASSUME NEW c \in CompanyIds, NEW d \in CompanyIds, Twins(c, d)
        PROVE  \E t \in todo : t.dup \in {c, d}
    <3>1. /\ c \in Live(company) /\ d \in Live(company) /\ c \in Group(c) /\ d \in Group(c)
          /\ Group(d) = Group(c) /\ Group(c) \in SUBSET CompanyIds /\ c # d
      BY <1>4, <2>2 DEF Twins, Group
    <3>2. PICK p \in Group(c) : IsPrimary(p, Group(c))
      BY <3>1, PrimaryExists
    <3>3. p \in Live(company)
      BY <3>2 DEF Group
    <3>4. CASE p # c
      BY <1>3, <1>6, <3>1, <3>2, <3>3, <3>4
    <3>5. CASE p # d
      BY <1>3, <1>6, <3>1, <3>2, <3>3, <3>5
    <3> QED  BY <3>1, <3>4, <3>5
  <2>3. ASSUME NEW v \in Workers, Merges(v)', job'[v].alone, NEW c \in CompanyIds,
               NEW d \in CompanyIds, Twins(c, d)
        PROVE  \E t \in job'[v].todo : t.dup \in {c, d}
    <3>1. CASE v = w
      BY <1>10, <1>12, <2>2, <2>3, <3>1
    <3>2. CASE v # w
      BY <1>12, <2>3, <3>2 DEF ContactsInv, Cleaning, Merges
    <3> QED  BY <3>1, <3>2
  <2> QED  BY <2>1, <2>3 DEF Cleaning
<1> QED
  BY <1>13, <1>14, <1>15, <1>16, <1>17, <1>18, <1>20, <1>21 DEF ContactsInv

\* A duplicate is merged: its rows move, and it leads to a company that stays.
LEMMA MergeIntoInv == ASSUME ContactsInv, NEW w \in Workers, MergeInto(w) PROVE ContactsInv'
<1>1. /\ TypeOK /\ job[w] \in Job /\ JobOK(job[w]) /\ job[w].pc = "merging"
      /\ job[w].kind # "zapier"
      /\ requests' \in 0 .. MaxRequests /\ faults' \in 0 .. MaxFaults
      /\ UNCHANGED <<event, crossed>>
  BY JobAt DEF MergeInto, JobOK
<1>2. PICK t \in job[w].todo :
       /\ row' = [r \in RowIds |->
            IF row[r].st = "live" /\ row[r].company = t.dup
              THEN [row[r] EXCEPT !.company = t.primary, !.late = FALSE] ELSE row[r]]
       /\ company' = [c \in CompanyIds |->
            CASE c = t.primary /\ company[c].st = "live" -> [company[c] EXCEPT !.tags = t.tags]
              [] c = t.dup /\ company[c].st = "live" ->
                   [company[c] EXCEPT !.st = "deleted", !.into = t.primary]
              [] OTHER -> company[c]]
       /\ job' = [Disturbed(w) EXCEPT ![w].todo = job[w].todo \ {t}]
  BY DEF MergeInto
<1>3. /\ t.dup \in CompanyIds /\ t.primary \in CompanyIds /\ t.tags \in SUBSET Tags
      /\ t.dup # t.primary
      /\ \A u \in job[w].todo : u.primary \in CompanyIds /\ u.primary # t.dup
  <2>1. Apart(w)
    BY <1>1 DEF ContactsInv, Merging, Merges
  <2> QED  BY <1>1, <1>2, <2>1 DEF Job, Apart
<1>4. PICK k : k = [job[w] EXCEPT !.todo = job[w].todo \ {t}]
  OBVIOUS
<1>5. /\ k \in Job /\ k.pc = "merging" /\ k.kind = job[w].kind /\ k.event = job[w].event
      /\ k.todo = job[w].todo \ {t}
  BY <1>1, <1>4 DEF Job
<1>6. k.alone = job[w].alone
  BY <1>1, <1>4 DEF Job
<1>7. JobOK(k)
  BY <1>1, <1>5 DEF JobOK
<1>8. job' = [Disturbed(w) EXCEPT ![w] = k]
  BY <1>2, <1>4 DEF Disturbed
<1>9. /\ job' \in [Workers -> Job] /\ job'[w] = k /\ Others({w})
      /\ \A v \in Workers : v # w => ~job'[v].alone
  BY <1>1, <1>5, <1>8, DisturbMoves
\* The companies,
<1>10. \A c \in CompanyIds : company[c] \in Company
  BY <1>1 DEF TypeOK
<1>11. ASSUME NEW c \in CompanyIds, c # t.dup \/ company[c].st # "live"
       PROVE  /\ company'[c] \in Company /\ company'[c].st = company[c].st
              /\ company'[c].into = company[c].into /\ company'[c].name = company[c].name
              /\ company'[c].dom = company[c].dom
  <2>1. CASE c = t.primary /\ company[c].st = "live"
    <3>1. company'[c] = [company[c] EXCEPT !.tags = t.tags]
      BY <1>2, <1>3, <2>1
    <3> QED  BY <1>3, <1>10, <3>1 DEF Company
  <2>2. CASE ~(c = t.primary /\ company[c].st = "live")
    <3>1. company'[c] = company[c]
      BY <1>2, <1>11, <2>2
    <3> QED  BY <1>10, <3>1
  <2> QED  BY <2>1, <2>2
<1>12. ASSUME company[t.dup].st = "live"
       PROVE  /\ company'[t.dup] \in Company /\ company'[t.dup].st = "deleted"
              /\ company'[t.dup].into = t.primary
  <2>1. company'[t.dup] = [company[t.dup] EXCEPT !.st = "deleted", !.into = t.primary]
    BY <1>2, <1>3, <1>12
  <2>2. t.primary \in 0 .. MaxCompanies
    BY <1>3, BoundAssumption DEF CompanyIds
  <2> QED  BY <1>3, <1>10, <2>1, <2>2 DEF Company
<1>13. company' \in [CompanyIds -> Company]
  <2> DEFINE New(c) == CASE c = t.primary /\ company[c].st = "live" -> [company[c] EXCEPT !.tags = t.tags]
                         [] c = t.dup /\ company[c].st = "live" ->
                              [company[c] EXCEPT !.st = "deleted", !.into = t.primary]
                         [] OTHER -> company[c]
  <2>1. company' = [c \in CompanyIds |-> New(c)]
    BY <1>2
  <2> HIDE DEF New
  <2>2. \A c \in CompanyIds : company'[c] \in Company
    BY <1>11, <1>12
  <2> QED  BY <2>1, <2>2
<1>14. LiveOnes'
  BY <1>11, <1>12 DEF ContactsInv, Merging, LiveOnes
<1>15. \A c \in CompanyIds : Merged(c)' => Merged(c) \/ c = t.dup
  BY <1>11 DEF Merged
\* the rows,
<1>16. ASSUME NEW r \in RowIds
       PROVE  /\ row'[r] \in Row /\ row'[r].st = row[r].st /\ row'[r].kind = row[r].kind
              /\ row'[r].key = row[r].key /\ row'[r].ingested = row[r].ingested
              /\ row'[r].raced = row[r].raced
              /\ IF row[r].st = "live" /\ row[r].company = t.dup
                   THEN row'[r].company = t.primary
                   ELSE row'[r].company = row[r].company /\ row'[r].late = row[r].late
  <2>1. row[r] \in Row /\ t.primary \in 0 .. MaxCompanies
    BY <1>1, <1>3, BoundAssumption DEF TypeOK, CompanyIds
  <2>2. CASE row[r].st = "live" /\ row[r].company = t.dup
    <3>1. row'[r] = [row[r] EXCEPT !.company = t.primary, !.late = FALSE]
      BY <1>2, <2>2
    <3>2. row'[r] \in Row /\ row'[r].st = row[r].st /\ row'[r].kind = row[r].kind
          /\ row'[r].key = row[r].key /\ row'[r].company = t.primary
      BY <2>1, <3>1 DEF Row
    <3>3. row'[r].ingested = row[r].ingested /\ row'[r].raced = row[r].raced
      BY <2>1, <3>1 DEF Row
    <3> QED  BY <2>2, <3>2, <3>3
  <2>3. CASE ~(row[r].st = "live" /\ row[r].company = t.dup)
    <3>1. row'[r] = row[r]
      BY <1>2, <2>3
    <3> QED  BY <2>1, <2>3, <3>1
  <2> QED  BY <2>2, <2>3
<1>17. row' \in [RowIds -> Row]
  <2>1. DOMAIN row' = RowIds /\ row' = [r \in RowIds |-> row'[r]]
    BY <1>2
  <2> QED  BY <1>16, <2>1
<1>18. RowsStay /\ \A r \in RowIds, key \in Keys : Alone(r, key)' => Alone(r, key)
  BY <1>16 DEF RowsStay, Alone
\* and what the invariant says of them.
<1>19. TypeOK'
  BY <1>1, <1>9, <1>13, <1>17 DEF TypeOK
<1>20. JobsOK'
  BY <1>7, <1>9, JobsKept DEF ContactsInv
<1>21. CopiesOK'
  <2>1. CopyOK(job[w])'
    BY <1>5, <1>9 DEF CopyOK
  <2> QED  BY <1>9, <1>18, <2>1, CopiesKept DEF ContactsInv
<1>22. Keeping'
  <2>1. \A e \in Events : Handles(w, e) => Handles(w, e)'
    BY <1>5, <1>9 DEF Handles
  <2> QED  BY <1>1, <1>9, <1>18, <2>1, KeepingKept DEF ContactsInv
<1>23. Looking'
  <2>1. \A key \in Keys : ~Looks(w, key)'
    BY <1>5, <1>9 DEF Looks, LooksFor
  <2> QED  BY <1>9, <1>18, <2>1, LookingKept DEF ContactsInv
<1>24. ASSUME ~crossed, NEW u \in job[w].todo PROVE ~Merged(u.primary)'
  <2>1. ~Merged(u.primary)
    BY <1>1, <1>24 DEF ContactsInv, Merging, Merges
  <2> QED  BY <1>3, <1>15, <2>1
<1>25. Merging'
  <2>1. ASSUME NEW v \in Workers, Merges(v)'
        PROVE  Merges(v) /\ job'[v].todo \subseteq job[v].todo
    <3>1. CASE v = w
      BY <1>1, <1>5, <1>9, <3>1 DEF Merges
    <3>2. CASE v # w
      BY <1>9, <2>1, <3>2 DEF Merges, Others, Like
    <3> QED  BY <3>1, <3>2
  <2>2. \A v \in Workers : Merges(v)' => Apart(v)'
    BY <2>1 DEF ContactsInv, Merging, Apart
  <2>3. ASSUME ~crossed'
        PROVE  /\ \A v, x \in Workers : Merges(v)' /\ Merges(x)' => v = x
               /\ \A v \in Workers : Merges(v)' => v = w
    <3>1. Merges(w)'
      BY <1>5, <1>9 DEF Merges
    <3> QED  BY <1>1, <2>1, <2>3, <3>1 DEF ContactsInv, Merging
  <2>4. ASSUME ~crossed' PROVE \A u \in job'[w].todo : ~Merged(u.primary)'
    BY <1>1, <1>5, <1>9, <1>24, <2>4
  <2> QED  BY <1>14, <2>2, <2>3, <2>4 DEF Merging
<1>26. NoOrphans'
  <2>1. ASSUME ~crossed', NEW r \in RowIds, row'[r].st = "live", Merged(row[r].company)'
        PROVE  row'[r].late
    <3>1. row[r].st = "live" /\ row[r].company \in 0 .. MaxCompanies
      BY <1>1, <1>16, <2>1 DEF TypeOK, Row
    <3>2. row[r].company # t.dup
      <4>1. ASSUME row[r].company = t.dup PROVE FALSE
        <5>1. row'[r].company = t.primary
          BY <1>16, <3>1, <4>1
        <5>2. company'[t.primary].into # 0
          BY <2>1, <5>1 DEF Merged
        <5>3. ~Merged(t.primary)'
          BY <1>1, <1>2, <1>24, <2>1
        <5> QED  BY <1>3, <5>2, <5>3, BoundAssumption DEF Merged, CompanyIds
      <4> QED  BY <4>1
    <3>3. row'[r].company = row[r].company /\ row'[r].late = row[r].late
      BY <1>16, <3>2
    <3>4. row[r].company # 0 /\ company'[row[r].company].into # 0
      BY <2>1, <3>3 DEF Merged
    <3>5. row[r].company \in CompanyIds
      BY <3>1, <3>4, BoundAssumption DEF CompanyIds
    <3>6. Merged(row[r].company)
      BY <1>11, <3>2, <3>4, <3>5 DEF Merged
    <3>7. r \in Live(row)
      BY <1>1, <3>1 DEF Live, TypeOK
    <3> QED  BY <1>1, <2>1, <3>3, <3>6, <3>7 DEF ContactsInv, NoOrphans
  <2> QED  BY <1>17, <2>1 DEF NoOrphans, Live
<1>27. GroupSurvives'
  <2>1. ASSUME ~crossed, NEW S \in SUBSET {c \in CompanyIds : Merged(c)'}, S # {}
        PROVE  \E c \in S : company'[c].into \notin S
    <3>1. CASE t.dup \in S /\ company[t.dup].st = "live"
      <4>1. t.primary \notin S
        BY <1>2, <1>24, <2>1
      <4> QED  BY <1>12, <3>1, <4>1
    <3>2. CASE ~(t.dup \in S /\ company[t.dup].st = "live")
      <4>1. \A c \in S : c \in CompanyIds /\ company'[c].into = company[c].into
        BY <1>11, <3>2
      <4>2. S \in SUBSET {c \in CompanyIds : Merged(c)}
        BY <4>1 DEF Merged
      <4>3. PICK c \in S : company[c].into \notin S
        BY <2>1, <4>2 DEF ContactsInv, GroupSurvives
      <4> QED  BY <4>1, <4>3
    <3> QED  BY <3>1, <3>2
  <2> QED  BY <1>1, <2>1 DEF GroupSurvives
<1>28. Cleaning'
  <2>1. ASSUME NEW c \in CompanyIds, NEW d \in CompanyIds, Twins(c, d)'
        PROVE  Twins(c, d) /\ c # t.dup /\ d # t.dup
    <3>1. /\ company'[c].st = "live" /\ company'[d].st = "live" /\ c # d
          /\ DedupeKey(c)' = DedupeKey(d)'
      BY <1>13, <2>1 DEF Twins, Live
    <3>2. ASSUME NEW b \in CompanyIds, company'[b].st = "live"
          PROVE  /\ b # t.dup /\ b \in Live(company) /\ DedupeKey(b)' = DedupeKey(b)
      <4>1. b # t.dup
        BY <1>11, <1>12, <3>2
      <4>2. /\ company'[b].st = company[b].st /\ company'[b].name = company[b].name
            /\ company'[b].dom = company[b].dom
        BY <1>11, <4>1
      <4> QED  BY <1>1, <3>2, <4>1, <4>2 DEF Live, TypeOK, DedupeKey
    <3> QED  BY <3>1, <3>2 DEF Twins
  <2>2. ASSUME NEW v \in Workers, Merges(v)', job'[v].alone, NEW c \in CompanyIds,
               NEW d \in CompanyIds, Twins(c, d)'
        PROVE  \E u \in job'[v].todo : u.dup \in {c, d}
    <3>1. v = w /\ job[w].alone
      BY <1>6, <1>9, <2>2
    <3>2. PICK u \in job[w].todo : u.dup \in {c, d}
      BY <1>1, <2>1, <2>2, <3>1 DEF ContactsInv, Cleaning, Merges
    <3>3. u # t
      BY <2>1, <2>2, <3>2
    <3> QED  BY <1>5, <1>9, <3>1, <3>2, <3>3
  <2> QED  BY <2>2 DEF Cleaning
<1> QED
  BY <1>19, <1>20, <1>21, <1>22, <1>23, <1>25, <1>26, <1>27, <1>28 DEF ContactsInv
-----------------------------------------------------------------------------
(* The specification.                                                      *)

LEMMA InitContactsInv == ASSUME Init PROVE ContactsInv
<1>1. /\ company \in [CompanyIds -> Company] /\ \A c \in CompanyIds : company[c].into = 0
  BY GivenAssumption DEF Init
<1>2. /\ \A r \in RowIds : row[r] = NoRow
      /\ \A e \in Events : event[e] = NoEvent
      /\ \A w \in Workers : job[w] = Idle
      /\ ~crossed
  BY DEF Init
<1>3. \A c : ~Merged(c) \/ c \notin CompanyIds
  BY <1>1 DEF Merged
<1>4. TypeOK
  <2>1. NoEvent \in Event
    BY BoundAssumption DEF NoEvent, Event
  <2>2. row \in [RowIds -> Row] /\ event \in [Events -> Event] /\ job \in [Workers -> Job]
    BY <2>1, Typed DEF Init
  <2>3. crossed \in BOOLEAN
    BY <1>2, Zenon DEF Init
  <2>4. requests \in 0 .. MaxRequests /\ faults \in 0 .. MaxFaults
    BY BoundAssumption DEF Init
  <2> QED  BY <1>1, <2>2, <2>3, <2>4 DEF TypeOK
<1>5. JobsOK /\ CopiesOK
  BY <1>2, IdleOK DEF JobsOK, CopiesOK
<1>6. Keeping
  BY <1>2 DEF Keeping, NoEvent
<1>7. Looking
  BY <1>2 DEF Looking, Alone, Looks, LooksFor, NoRow, Idle
<1>8. \A w \in Workers : ~Merges(w)
  BY <1>2 DEF Merges, Idle
<1>9. Merging /\ Cleaning
  BY <1>1, <1>8 DEF Merging, LiveOnes, Cleaning
<1>10. NoOrphans
  BY <1>2 DEF NoOrphans, Live, NoRow, Init
<1>11. GroupSurvives
  BY <1>3 DEF GroupSurvives
<1> QED  BY <1>4, <1>5, <1>6, <1>7, <1>9, <1>10, <1>11 DEF ContactsInv

LEMMA StutterInv == ASSUME ContactsInv, UNCHANGED vars PROVE ContactsInv'
<1>1. requests' \in 0 .. MaxRequests /\ faults' \in 0 .. MaxFaults /\ event' \in [Events -> Event]
  BY DEF ContactsInv, TypeOK, vars
<1>2. Keeping'
  BY DEF ContactsInv, Keeping, OnItsWay, Handles, Arrived, vars
<1> QED  BY <1>1, <1>2, EventsOnly DEF vars

LEMMA EventStepInv ==
  ASSUME ContactsInv, NEW e \in Events,
         Deliver(e) \/ DeliverAgain(e) \/ KeyExpires(e) \/ Publish(e) \/ PublishFails(e)
  PROVE  ContactsInv'
<1>1. CASE Deliver(e)
  BY <1>1, DeliverInv
<1>2. CASE DeliverAgain(e)
  BY <1>2, DeliverAgainInv
<1>3. CASE KeyExpires(e)
  BY <1>3, KeyExpiresInv
<1>4. CASE Publish(e)
  BY <1>4, PublishInv
<1>5. CASE PublishFails(e)
  BY <1>5, PublishFailsInv
<1> QED  BY <1>1, <1>2, <1>3, <1>4, <1>5

LEMMA WorkerStepInv ==
  ASSUME ContactsInv, NEW w \in Workers,
         \/ \E e \in Events : StartZapier(w, e)
         \/ \E i \in Inputs : StartSync(w, i) \/ StartImport(w, i)
         \/ StartMerge(w) \/ FindCompany(w) \/ CreateCompany(w) \/ Enrich(w)
         \/ FindRow(w) \/ CreateRow(w) \/ ImportRow(w) \/ SaveRow(w)
         \/ ReadCompanies(w) \/ MergeInto(w) \/ MergeDone(w)
         \/ \E c \in CompanyIds : ReadCompany(w, c)
         \/ \E r \in RowIds : ReadRow(w, r)
         \/ SaveCompany(w) \/ Fail(w)
  PROVE  ContactsInv'
<1>1. CASE \E e \in Events : StartZapier(w, e)
  BY <1>1, StartZapierInv
<1>2. CASE \E i \in Inputs : StartSync(w, i) \/ StartImport(w, i)
  BY <1>2, StartSyncInv, StartImportInv
<1>3. CASE StartMerge(w)
  BY <1>3, StartMergeInv
<1>4. CASE FindCompany(w)
  BY <1>4, FindCompanyInv
<1>5. CASE CreateCompany(w)
  BY <1>5, CreateCompanyInv
<1>6. CASE Enrich(w)
  BY <1>6, EnrichInv
<1>7. CASE FindRow(w)
  BY <1>7, FindRowInv
<1>8. CASE CreateRow(w)
  BY <1>8, CreateRowInv
<1>9. CASE ImportRow(w)
  BY <1>9, ImportRowInv
<1>10. CASE SaveRow(w)
  BY <1>10, SaveRowInv
<1>11. CASE ReadCompanies(w)
  BY <1>11, ReadCompaniesInv
<1>12. CASE MergeInto(w)
  BY <1>12, MergeIntoInv
<1>13. CASE MergeDone(w)
  BY <1>13, MergeDoneInv
<1>14. CASE \E c \in CompanyIds : ReadCompany(w, c)
  BY <1>14, ReadCompanyInv
<1>15. CASE \E r \in RowIds : ReadRow(w, r)
  BY <1>15, ReadRowInv
<1>16. CASE SaveCompany(w)
  BY <1>16, SaveCompanyInv
<1>17. CASE Fail(w)
  BY <1>17, FailInv
<1> QED
  BY <1>1, <1>2, <1>3, <1>4, <1>5, <1>6, <1>7, <1>8, <1>9, <1>10, <1>11, <1>12, <1>13,
     <1>14, <1>15, <1>16, <1>17

LEMMA NextContactsInv == ASSUME ContactsInv, [Next]_vars PROVE ContactsInv'
<1>1. CASE \E e \in Events : \/ Deliver(e) \/ DeliverAgain(e) \/ KeyExpires(e)
                             \/ Publish(e) \/ PublishFails(e)
  BY <1>1, EventStepInv
<1>2. CASE \E w \in Workers :
             \/ \E e \in Events : StartZapier(w, e)
             \/ \E i \in Inputs : StartSync(w, i) \/ StartImport(w, i)
             \/ StartMerge(w) \/ FindCompany(w) \/ CreateCompany(w) \/ Enrich(w)
             \/ FindRow(w) \/ CreateRow(w) \/ ImportRow(w) \/ SaveRow(w)
             \/ ReadCompanies(w) \/ MergeInto(w) \/ MergeDone(w)
             \/ \E c \in CompanyIds : ReadCompany(w, c)
             \/ \E r \in RowIds : ReadRow(w, r)
             \/ SaveCompany(w) \/ Fail(w)
  BY <1>2, WorkerStepInv
<1>3. CASE \E c \in CompanyIds, n \in Names, d \in Domains \cup {None} :
             NewCompany(c, n, d) \/ ImportCompany(c, n, d)
  <2>1. PICK c \in CompanyIds, n \in Names, d \in Domains \cup {None}, T \in SUBSET Tags :
          Insert(c, n, d, T)
    BY <1>3 DEF NewCompany, ImportCompany
  <2> QED  BY <2>1, InsertInv
<1>4. CASE \E c \in {0} \cup Live(company) :
             NewRow("sponsor", None, c) \/ \E m \in Emails : NewRow("contact", m, c)
  <2>1. PICK c \in {0} \cup Live(company) :
          NewRow("sponsor", None, c) \/ \E m \in Emails : NewRow("contact", m, c)
    BY <1>4
  <2>2. "sponsor" \in Kinds /\ "contact" \in Kinds /\ Emails \subseteq Keys
    BY DEF Kinds, Keys
  <2> QED  BY <2>1, <2>2, NewRowInv
<1>5. CASE \E c \in CompanyIds : DeleteCompany(c)
  BY <1>5, DeleteCompanyInv
<1>6. CASE \E r \in RowIds : DeleteRow(r)
  BY <1>6, DeleteRowInv
<1>7. CASE UNCHANGED vars
  BY <1>7, StutterInv
<1> QED  BY <1>1, <1>2, <1>3, <1>4, <1>5, <1>6, <1>7 DEF Next

LEMMA ContactsInvariant == Spec => []ContactsInv
<1>1. Init => ContactsInv
  BY InitContactsInv
<1>2. ContactsInv /\ [Next]_vars => ContactsInv'
  BY NextContactsInv
<1> QED  BY <1>1, <1>2, PTL DEF Spec

\* The variables keep their types.
THEOREM TypeCorrect == Spec => []TypeOK
<1>1. ContactsInv => TypeOK
  BY DEF ContactsInv
<1> QED  BY <1>1, ContactsInvariant, PTL

\* An event that Zapier was told has been accepted becomes a contact, and one contact
\* only: whatever requests are repeated, processes die and tasks are retried, the event
\* is on its way or its contact was created, unless a request with its content was
\* refused; and of two live contacts with one address one was created by a job that
\* overlapped another, or saved after it had been deleted.
THEOREM IngestedOnceTheorem == Spec => []IngestedOnce
<1>1. ContactsInv => EventKept
  BY DEF ContactsInv, Keeping, OnItsWay, Arrived, EventKept
<1>2. ASSUME ContactsInv, NEW r \in Live(row), NEW s \in Live(row),
             r # s, row[r].kind = "contact", row[s].kind = "contact",
             row[r].key = row[s].key, row[r].key # None, row[r].ingested, row[s].ingested,
             ~row[r].raced, ~row[s].raced
      PROVE  FALSE
  <2>1. r \in RowIds /\ s \in RowIds /\ row[r].st = "live" /\ row[s].st = "live"
    BY <1>2 DEF Live, ContactsInv, TypeOK
  <2>2. row[r].key \in Keys
    BY <1>2, <2>1 DEF ContactsInv, TypeOK, Row
  <2>3. Alone(r, row[r].key) /\ Alone(s, row[r].key)
    BY <1>2, <2>1 DEF Alone
  <2> QED  BY <1>2, <2>1, <2>2, <2>3 DEF ContactsInv, Looking
<1>3. ContactsInv => OneContactPerEmail
  BY <1>2 DEF OneContactPerEmail
<1>4. ContactsInv => IngestedOnce
  BY <1>1, <1>3 DEF IngestedOnce
<1> QED  BY <1>4, ContactsInvariant, PTL

\* As long as merges do not cross, a merge moves every row of the companies it
\* deletes, so that none but a row written later by somebody who had read the company
\* before names one of them, and each deleted company leads to one that stays.
THEOREM MergesKeep == Spec => []MergeKeeps
<1>1. ContactsInv => MergeKeeps
  BY DEF ContactsInv, MergeKeeps
<1> QED  BY <1>1, ContactsInvariant, PTL

\* A merge that ends while nobody else has written a company since it read them leaves
\* no two live companies with one domain, or name, in normal form.
THEOREM MergesLeaveNone == Spec => MergeLeavesNone
<1>1. ASSUME ContactsInv PROVE MergeEndsClean
  <2>1. ASSUME NEW w \in Workers, job[w].pc = "merging", job[w].todo = {}, job[w].alone,
               NEW c \in Live(company), NEW d \in Group(c)
        PROVE  d = c
    <3>1. c \in CompanyIds /\ d \in CompanyIds /\ d \in Live(company)
          /\ DedupeKey(d) = DedupeKey(c)
      BY <1>1, <2>1 DEF Group, Live, ContactsInv, TypeOK
    <3>2. ~Twins(c, d)
      BY <1>1, <2>1, <3>1 DEF ContactsInv, Cleaning, Merges
    <3> QED  BY <2>1, <3>1, <3>2 DEF Twins
  <2>2. \A c \in Live(company) : c \in Group(c)
    BY DEF Group
  <2> QED  BY <2>1, <2>2 DEF MergeEndsClean
<1>2. ContactsInv /\ [Next]_vars => [MergeEndsClean]_vars
  BY <1>1
<1> QED  BY <1>2, ContactsInvariant, PTL DEF Spec, MergeLeavesNone

-----------------------------------------------------------------------------
(* The parts of MCRequests: what is proved of Accounts, Gateway and          *)
(* Connections for any sizes holds of them there, side by side with the      *)
(* others.                                                                   *)

AP == INSTANCE AccountsProofs WITH
  Codes <- {"c1"}, MaxFailed <- 2, MaxSessions <- 3, MaxTokens <- 2,
  user <- s1, session <- s2, token <- s3, tickets <- s4, expired <- s5, job <- s6, past <- s7,
  Companies <- {"x", "y", "z"}, People <- {"a", "b", "c"}, TitleOf <- TitleOfDef,
  TargetRoles <- <<"Founder", "Co-Founder", "Head of Partnerships", "Partnership Manager">>,
  Exact <- ExactDef, Overlap <- OverlapDef, Limit <- 2, MaxReveals <- 2, MaxRuns <- 2,
  order <- s1, batch <- s2, pc <- s3, people <- s4, records <- s5, reveals <- s6, runs <- s7,
  enriched <- s8, clean <- s9,
  Apps <- {"gmail"}, MaxTools <- 3, MaxCalls <- 2,
  tools <- s1, actions <- s2, step <- s3, credential <- s4, sync <- s5, found <- s6, left <- s7,
  called <- s8,
  MaxEdits <- 1,
  entity <- s1, entry <- s2, local <- s3, remote <- s4, last <- s5, written <- s6, edits <- s7
\* Gateway, and Connections in each of its sizes.
GP == INSTANCE GatewayProofs WITH
  Keys <- {"k"}, Clients <- {"ws"}, Limit <- 1, Burst <- 1, BufferSize <- 1, BroadcastSize <- 1,
  MaxRequests <- 2,
  counter <- s1, record <- s2, lock <- s3, req <- s4, broadcast <- s5, client <- s6, leaving <- s7,
  past <- s8,
  Orgs <- {1, 2}, Procs <- Workers, RowIds <- {1, 2}, MaxFlows <- 2, MaxTokens <- 0, MaxKeys <- 1,
  env <- s1, target <- s2, rotated <- s3, flow <- s4, row <- s5, op <- s6, given <- s7,
  mixed <- s8, refused <- s9
UP == INSTANCE GatewayProofs WITH
  Keys <- {"k"}, Clients <- {"ws"}, Limit <- 1, Burst <- 1, BufferSize <- 1, BroadcastSize <- 1,
  MaxRequests <- 2,
  counter <- s1, record <- s2, lock <- s3, req <- s4, broadcast <- s5, client <- s6, leaving <- s7,
  past <- s8,
  Orgs <- {1}, Procs <- Workers, RowIds <- {1, 2}, MaxFlows <- 2, MaxTokens <- 2, MaxKeys <- 1,
  env <- s1, target <- s2, rotated <- s3, flow <- s4, row <- s5, op <- s6, given <- s7,
  mixed <- s8, refused <- s9
RP == INSTANCE GatewayProofs WITH
  Keys <- {"k"}, Clients <- {"ws"}, Limit <- 1, Burst <- 1, BufferSize <- 1, BroadcastSize <- 1,
  MaxRequests <- 2,
  counter <- s1, record <- s2, lock <- s3, req <- s4, broadcast <- s5, client <- s6, leaving <- s7,
  past <- s8,
  Orgs <- {1}, Procs <- Workers, RowIds <- {1, 2}, MaxFlows <- 1, MaxTokens <- 2, MaxKeys <- 2,
  env <- s1, target <- s2, rotated <- s3, flow <- s4, row <- s5, op <- s6, given <- s7,
  mixed <- s8, refused <- s9

\* The instances of one module say the same.
LEMMA AccountsInit == Accounts!Init => AP!Init
  BY DEF
    Accounts!SessionIds, AP!SessionIds, Accounts!TokenIds, AP!TokenIds, Accounts!NoSession,
    AP!NoSession, Accounts!NoToken, AP!NoToken, Accounts!NewUser, AP!NewUser, Accounts!Idle,
    AP!Idle, Accounts!Init, AP!Init
LEMMA AccountsNext == Accounts!Next => AP!Next
  BY DEF
    Accounts!SessionIds, AP!SessionIds, Accounts!TokenIds, AP!TokenIds, Accounts!NoSession,
    AP!NoSession, Accounts!NoToken, AP!NoToken, Accounts!NewUser, AP!NewUser, Accounts!Idle,
    AP!Idle, Accounts!IsNext, AP!IsNext, Accounts!Live, AP!Live, Accounts!Begin, AP!Begin,
    Accounts!Request, AP!Request, Accounts!Ignored, AP!Ignored, Accounts!Step, AP!Step,
    Accounts!Goto, AP!Goto, Accounts!Others, AP!Others, Accounts!Locked, AP!Locked,
    Accounts!Failed, AP!Failed, Accounts!Applied, AP!Applied, Accounts!AfterSave, AP!AfterSave,
    Accounts!SaveUser, AP!SaveUser, Accounts!CodeNotSaved, AP!CodeNotSaved, Accounts!LockExpires,
    AP!LockExpires, Accounts!Login, AP!Login, Accounts!VerifyMFALogin, AP!VerifyMFALogin,
    Accounts!TicketExpires, AP!TicketExpires, Accounts!CreateSession, AP!CreateSession,
    Accounts!Refreshes, AP!Refreshes, Accounts!Refresh, AP!Refresh, Accounts!IsRevoked,
    AP!IsRevoked, Accounts!FindSession, AP!FindSession, Accounts!RevokeOld, AP!RevokeOld,
    Accounts!Blacklisted, AP!Blacklisted, Accounts!Blacklist, AP!Blacklist, Accounts!Logout,
    AP!Logout, Accounts!LogoutRevokes, AP!LogoutRevokes, Accounts!RevokedAll, AP!RevokedAll,
    Accounts!RevokeAll, AP!RevokeAll, Accounts!SignOut, AP!SignOut, Accounts!Issues, AP!Issues,
    Accounts!BeginIssue, AP!BeginIssue, Accounts!Invalidated, AP!Invalidated, Accounts!Invalidate,
    AP!Invalidate, Accounts!Issue, AP!Issue, Accounts!Redeems, AP!Redeems, Accounts!Redeem,
    AP!Redeem, Accounts!ReadUser, AP!ReadUser, Accounts!Used, AP!Used, Accounts!MarkUsed,
    AP!MarkUsed, Accounts!Edit, AP!Edit, Accounts!Crash, AP!Crash, Accounts!Next, AP!Next
LEMMA AccountsSays ==
  /\ AP!AccountKeepsChanges => Accounts!AccountKeepsChanges
  /\ AP!CredentialsEnd => Accounts!CredentialsEnd
  BY DEF
    Accounts!NoLostChange, AP!NoLostChange, Accounts!NeverLockedTooEarly, AP!NeverLockedTooEarly,
    Accounts!SessionsOfToday, AP!SessionsOfToday, Accounts!ReplacedOnce, AP!ReplacedOnce,
    Accounts!TokenOnce, AP!TokenOnce, Accounts!AccountKeepsChanges, AP!AccountKeepsChanges,
    Accounts!CredentialsEnd, AP!CredentialsEnd, Accounts!Live, AP!Live, Accounts!SessionIds,
    AP!SessionIds, Accounts!TokenIds, AP!TokenIds, Accounts!Redeems, AP!Redeems,
    Accounts!Refreshes, AP!Refreshes
LEMMA GatewayInit == Gateway!Init => GP!Init
  BY DEF
    Gateway!Windows, GP!Windows, Gateway!NoReq, GP!NoReq, Gateway!NoKey, GP!NoKey,
    Gateway!NewClient, GP!NewClient, Gateway!Init, GP!Init
LEMMA GatewayNext == Gateway!Next => GP!Next
  BY DEF
    Gateway!NoKey, GP!NoKey, Gateway!Windows, GP!Windows, Gateway!Ceiling, GP!Ceiling,
    Gateway!gateVars, GP!gateVars, Gateway!hubVars, GP!hubVars, Gateway!Outcomes, GP!Outcomes,
    Gateway!NoReq, GP!NoReq, Gateway!ExpireOf, GP!ExpireOf, Gateway!NewClient, GP!NewClient,
    Gateway!Goto, GP!Goto, Gateway!Fault, GP!Fault, Gateway!MayFail, GP!MayFail, Gateway!Arrive,
    GP!Arrive, Gateway!NextOf, GP!NextOf, Gateway!Allowed, GP!Allowed, Gateway!IsFirst,
    GP!IsFirst, Gateway!Decide, GP!Decide, Gateway!Hit, GP!Hit, Gateway!FailOpen, GP!FailOpen,
    Gateway!Expire, GP!Expire, Gateway!WindowEnds, GP!WindowEnds, Gateway!Lookup, GP!Lookup,
    Gateway!Refused, GP!Refused, Gateway!Acquire, GP!Acquire, Gateway!Run, GP!Run, Gateway!Seen,
    GP!Seen, Gateway!Store, GP!Store, Gateway!Unlock, GP!Unlock, Gateway!Running, GP!Running,
    Gateway!LockExpires, GP!LockExpires, Gateway!RecordExpires, GP!RecordExpires, Gateway!Audit,
    GP!Audit, Gateway!Set, GP!Set, Gateway!Connect, GP!Connect, Gateway!Register, GP!Register,
    Gateway!IsFull, GP!IsFull, Gateway!Slow, GP!Slow, Gateway!Left, GP!Left, Gateway!Deliver,
    GP!Deliver, Gateway!Removed, GP!Removed, Gateway!Unregister, GP!Unregister, Gateway!Write,
    GP!Write, Gateway!HandlerEnds, GP!HandlerEnds, Gateway!Crash, GP!Crash, Gateway!Next, GP!Next
LEMMA GatewaySays ==
  /\ GP!LimitsHold => Gateway!LimitsHold
  /\ GP!HearOrLeave => Gateway!HearOrLeave
  BY DEF
    Gateway!WindowsHold, GP!WindowsHold, Gateway!OneRunAtATime, GP!OneRunAtATime,
    Gateway!NoSilentGap, GP!NoSilentGap, Gateway!LeavesOnce, GP!LeavesOnce, Gateway!LimitsHold,
    GP!LimitsHold, Gateway!HearOrLeave, GP!HearOrLeave, Gateway!Windows, GP!Windows,
    Gateway!Ceiling, GP!Ceiling, Gateway!Running, GP!Running, Gateway!NoKey, GP!NoKey,
    Gateway!ExpireOf, GP!ExpireOf
LEMMA FlowsInit == Flows!Init => GP!C!Init
  BY DEF
    Flows!Nil, GP!C!Nil, Flows!Flows, GP!C!Flows, Flows!NoRow, GP!C!NoRow, Flows!NoOp, GP!C!NoOp,
    Flows!Init, GP!C!Init
LEMMA FlowsNext == Flows!Next => GP!C!Next
  BY DEF
    Flows!keyVars, GP!C!keyVars, Flows!Nil, GP!C!Nil, Flows!Flows, GP!C!Flows, Flows!Tokens,
    GP!C!Tokens, Flows!NoRow, GP!C!NoRow, Flows!NoOp, GP!C!NoOp, Flows!Goto, GP!C!Goto,
    Flows!Fault, GP!C!Fault, Flows!KeysOf, GP!C!KeysOf, Flows!Verifies, GP!C!Verifies,
    Flows!Encrypt, GP!C!Encrypt, Flows!Decrypts, GP!C!Decrypts, Flows!NeedsRotation,
    GP!C!NeedsRotation, Flows!Deployed, GP!C!Deployed, Flows!NewKey, GP!C!NewKey, Flows!DropOld,
    GP!C!DropOld, Flows!Deploy, GP!C!Deploy, Flows!Crash, GP!C!Crash, Flows!RowsOf, GP!C!RowsOf,
    Flows!First, GP!C!First, Flows!Seen, GP!C!Seen, Flows!SaveRow, GP!C!SaveRow, Flows!NextFlow,
    GP!C!NextFlow, Flows!Start, GP!C!Start, Flows!StateExpires, GP!C!StateExpires, Flows!Taken,
    GP!C!Taken, Flows!Callback, GP!C!Callback, Flows!Exchange, GP!C!Exchange, Flows!Paste,
    GP!C!Paste, Flows!Validate, GP!C!Validate, Flows!Find, GP!C!Find, Flows!Connected,
    GP!C!Connected, Flows!Save, GP!C!Save, Flows!AnswerTo, GP!C!AnswerTo, Flows!Enqueue,
    GP!C!Enqueue, Flows!Redirect, GP!C!Redirect, Flows!Shown, GP!C!Shown, Flows!Show, GP!C!Show,
    Flows!HasToken, GP!C!HasToken, Flows!FindToken, GP!C!FindToken, Flows!SaveToken,
    GP!C!SaveToken, Flows!Rotate, GP!C!Rotate, Flows!RotateRow, GP!C!RotateRow, Flows!RotateEnds,
    GP!C!RotateEnds, Flows!Next, GP!C!Next, Flows!history, GP!C!history
LEMMA FlowsSays ==
  /\ GP!C!StateOnce => Flows!StateOnce
  /\ GP!C!TokensOfTheirStarter => Flows!TokensOfTheirStarter
  /\ GP!C!ToldTheTruth => Flows!ToldTheTruth
  BY DEF
    Flows!StateOnce, GP!C!StateOnce, Flows!TokensOfTheirStarter, GP!C!TokensOfTheirStarter,
    Flows!ToldTheTruth, GP!C!ToldTheTruth, Flows!Flows, GP!C!Flows, Flows!Nil, GP!C!Nil
LEMMA UrlsInit == Urls!Init => UP!C!Init
  BY DEF
    Urls!Nil, UP!C!Nil, Urls!Flows, UP!C!Flows, Urls!NoRow, UP!C!NoRow, Urls!NoOp, UP!C!NoOp,
    Urls!Init, UP!C!Init
LEMMA UrlsNext == Urls!Next => UP!C!Next
  BY DEF
    Urls!keyVars, UP!C!keyVars, Urls!Nil, UP!C!Nil, Urls!Flows, UP!C!Flows, Urls!Tokens,
    UP!C!Tokens, Urls!NoRow, UP!C!NoRow, Urls!NoOp, UP!C!NoOp, Urls!Goto, UP!C!Goto, Urls!Fault,
    UP!C!Fault, Urls!KeysOf, UP!C!KeysOf, Urls!Verifies, UP!C!Verifies, Urls!Encrypt,
    UP!C!Encrypt, Urls!Decrypts, UP!C!Decrypts, Urls!NeedsRotation, UP!C!NeedsRotation,
    Urls!Deployed, UP!C!Deployed, Urls!NewKey, UP!C!NewKey, Urls!DropOld, UP!C!DropOld,
    Urls!Deploy, UP!C!Deploy, Urls!Crash, UP!C!Crash, Urls!RowsOf, UP!C!RowsOf, Urls!First,
    UP!C!First, Urls!Seen, UP!C!Seen, Urls!SaveRow, UP!C!SaveRow, Urls!NextFlow, UP!C!NextFlow,
    Urls!Start, UP!C!Start, Urls!StateExpires, UP!C!StateExpires, Urls!Taken, UP!C!Taken,
    Urls!Callback, UP!C!Callback, Urls!Exchange, UP!C!Exchange, Urls!Paste, UP!C!Paste,
    Urls!Validate, UP!C!Validate, Urls!Find, UP!C!Find, Urls!Connected, UP!C!Connected, Urls!Save,
    UP!C!Save, Urls!AnswerTo, UP!C!AnswerTo, Urls!Enqueue, UP!C!Enqueue, Urls!Redirect,
    UP!C!Redirect, Urls!Shown, UP!C!Shown, Urls!Show, UP!C!Show, Urls!HasToken, UP!C!HasToken,
    Urls!FindToken, UP!C!FindToken, Urls!SaveToken, UP!C!SaveToken, Urls!Rotate, UP!C!Rotate,
    Urls!RotateRow, UP!C!RotateRow, Urls!RotateEnds, UP!C!RotateEnds, Urls!Next, UP!C!Next,
    Urls!history, UP!C!history
LEMMA UrlsSays ==
  /\ UP!C!TokenStays => Urls!TokenStays
  BY DEF
    Urls!TokenStays, UP!C!TokenStays, Urls!RowsOf, UP!C!RowsOf
LEMMA RotationsInit == Rotations!Init => RP!C!Init
  BY DEF
    Rotations!Nil, RP!C!Nil, Rotations!Flows, RP!C!Flows, Rotations!NoRow, RP!C!NoRow,
    Rotations!NoOp, RP!C!NoOp, Rotations!Init, RP!C!Init
LEMMA RotationsNext == Rotations!Next => RP!C!Next
  BY DEF
    Rotations!keyVars, RP!C!keyVars, Rotations!Nil, RP!C!Nil, Rotations!Flows, RP!C!Flows,
    Rotations!Tokens, RP!C!Tokens, Rotations!NoRow, RP!C!NoRow, Rotations!NoOp, RP!C!NoOp,
    Rotations!Goto, RP!C!Goto, Rotations!Fault, RP!C!Fault, Rotations!KeysOf, RP!C!KeysOf,
    Rotations!Verifies, RP!C!Verifies, Rotations!Encrypt, RP!C!Encrypt, Rotations!Decrypts,
    RP!C!Decrypts, Rotations!NeedsRotation, RP!C!NeedsRotation, Rotations!Deployed, RP!C!Deployed,
    Rotations!NewKey, RP!C!NewKey, Rotations!DropOld, RP!C!DropOld, Rotations!Deploy, RP!C!Deploy,
    Rotations!Crash, RP!C!Crash, Rotations!RowsOf, RP!C!RowsOf, Rotations!First, RP!C!First,
    Rotations!Seen, RP!C!Seen, Rotations!SaveRow, RP!C!SaveRow, Rotations!NextFlow, RP!C!NextFlow,
    Rotations!Start, RP!C!Start, Rotations!StateExpires, RP!C!StateExpires, Rotations!Taken,
    RP!C!Taken, Rotations!Callback, RP!C!Callback, Rotations!Exchange, RP!C!Exchange,
    Rotations!Paste, RP!C!Paste, Rotations!Validate, RP!C!Validate, Rotations!Find, RP!C!Find,
    Rotations!Connected, RP!C!Connected, Rotations!Save, RP!C!Save, Rotations!AnswerTo,
    RP!C!AnswerTo, Rotations!Enqueue, RP!C!Enqueue, Rotations!Redirect, RP!C!Redirect,
    Rotations!Shown, RP!C!Shown, Rotations!Show, RP!C!Show, Rotations!HasToken, RP!C!HasToken,
    Rotations!FindToken, RP!C!FindToken, Rotations!SaveToken, RP!C!SaveToken, Rotations!Rotate,
    RP!C!Rotate, Rotations!RotateRow, RP!C!RotateRow, Rotations!RotateEnds, RP!C!RotateEnds,
    Rotations!Next, RP!C!Next, Rotations!history, RP!C!history
LEMMA RotationsSays ==
  /\ RP!C!TokenStays => Rotations!TokenStays
  /\ RP!C!RotatedIsReadable => Rotations!RotatedIsReadable
  /\ RP!C!SessionsSurvive => Rotations!SessionsSurvive
  BY DEF
    Rotations!TokenStays, RP!C!TokenStays, Rotations!RotatedIsReadable, RP!C!RotatedIsReadable,
    Rotations!SessionsSurvive, RP!C!SessionsSurvive, Rotations!RowsOf, RP!C!RowsOf,
    Rotations!Decrypts, RP!C!Decrypts, Rotations!KeysOf, RP!C!KeysOf, Rotations!Nil, RP!C!Nil
LEMMA EnrichmentInit == Enrichment!Init => AP!E!Init
  BY Zenon DEF
    Enrichment!SetToSeqs, AP!E!SetToSeqs, Enrichment!Cardinality, AP!E!Cardinality,
    Enrichment!Init, AP!E!Init
LEMMA EnrichmentNext == Enrichment!Next => AP!E!Next
  BY Zenon DEF
    Enrichment!Nobody, AP!E!Nobody, Enrichment!Record, AP!E!Record, Enrichment!BatchSize,
    AP!E!BatchSize, Enrichment!Oldest, AP!E!Oldest, Enrichment!Begin, AP!E!Begin,
    Enrichment!Answers, AP!E!Answers, Enrichment!Touched, AP!E!Touched, Enrichment!Enrich,
    AP!E!Enrich, Enrichment!Stop, AP!E!Stop, Enrichment!NextCompany, AP!E!NextCompany,
    Enrichment!Search, AP!E!Search, Enrichment!Role, AP!E!Role, Enrichment!Assigned,
    AP!E!Assigned, Enrichment!Fits, AP!E!Fits, Enrichment!Free, AP!E!Free, Enrichment!Best,
    AP!E!Best, Enrichment!Match, AP!E!Match, Enrichment!Spent, AP!E!Spent, Enrichment!Reveal,
    AP!E!Reveal, Enrichment!Done, AP!E!Done, Enrichment!Next, AP!E!Next, Enrichment!ToSet,
    AP!E!ToSet, Enrichment!RemoveAt, AP!E!RemoveAt, Enrichment!Min, AP!E!Min,
    Enrichment!SetToSeqs, AP!E!SetToSeqs, Enrichment!Cardinality, AP!E!Cardinality
LEMMA EnrichmentSays ==
  /\ AP!E!OnePersonPerRole => Enrichment!OnePersonPerRole
  /\ AP!E!NoneLeftOut => Enrichment!NoneLeftOut
  /\ AP!E!CreditsBounded => Enrichment!CreditsBounded
  /\ AP!E!CoverageOverRuns => Enrichment!CoverageOverRuns
  /\ AP!E!TypeOK => Enrichment!TypeOK
  BY Zenon DEF
    Enrichment!Nobody, AP!E!Nobody, Enrichment!Record, AP!E!Record,
    Enrichment!OnePersonPerRole, AP!E!OnePersonPerRole, Enrichment!NoneLeftOut,
    AP!E!NoneLeftOut, Enrichment!CreditsBounded, AP!E!CreditsBounded,
    Enrichment!CoverageOverRuns, AP!E!CoverageOverRuns, Enrichment!TypeOK, AP!E!TypeOK,
    Enrichment!ToSet, AP!E!ToSet, Enrichment!IsInjective, AP!E!IsInjective,
    Enrichment!Cardinality, AP!E!Cardinality
LEMMA ZapierInit == Zapier!Init => AP!Z!Init
  BY DEF
    Zapier!Tool, AP!Z!Tool, Zapier!MetaTool, AP!Z!MetaTool, Zapier!Listing, AP!Z!Listing,
    Zapier!Acting, AP!Z!Acting, Zapier!AnyTool, AP!Z!AnyTool, Zapier!Slugs, AP!Z!Slugs,
    Zapier!Init, AP!Z!Init
LEMMA ZapierNext == Zapier!Next => AP!Z!Next
  BY Zenon DEF
    Zapier!Tool, AP!Z!Tool, Zapier!MetaTool, AP!Z!MetaTool, Zapier!Listing, AP!Z!Listing,
    Zapier!Acting, AP!Z!Acting, Zapier!AnyTool, AP!Z!AnyTool, Zapier!Slugs, AP!Z!Slugs,
    Zapier!Answers, AP!Z!Answers, Zapier!Connect, AP!Z!Connect, Zapier!groupToolsByApp,
    AP!Z!groupToolsByApp, Zapier!Report, AP!Z!Report, Zapier!ListTools, AP!Z!ListTools,
    Zapier!Agentic, AP!Z!Agentic, Zapier!isSafeReadOnlyTool, AP!Z!isSafeReadOnlyTool,
    Zapier!Spent, AP!Z!Spent, Zapier!Call, AP!Z!Call, Zapier!Finish, AP!Z!Finish, Zapier!Next,
    AP!Z!Next, Zapier!ToSet, AP!Z!ToSet
LEMMA ZapierSays ==
  /\ AP!Z!ReadsOnly => Zapier!ReadsOnly
  /\ AP!Z!AsksAll => Zapier!AsksAll
  /\ AP!Z!AppsAreReal => Zapier!AppsAreReal
  /\ AP!Z!TypeOK => Zapier!TypeOK
  BY DEF
    Zapier!Tool, AP!Z!Tool, Zapier!MetaTool, AP!Z!MetaTool, Zapier!Listing, AP!Z!Listing,
    Zapier!Acting, AP!Z!Acting, Zapier!AnyTool, AP!Z!AnyTool, Zapier!Slugs, AP!Z!Slugs,
    Zapier!ReadsOnly, AP!Z!ReadsOnly, Zapier!AsksAll, AP!Z!AsksAll, Zapier!AppsAreReal,
    AP!Z!AppsAreReal, Zapier!TypeOK, AP!Z!TypeOK, Zapier!ToSet, AP!Z!ToSet
LEMMA MappingInit == Mapping!Init => AP!M!Init
  BY DEF
    Mapping!V, AP!M!V, Mapping!Nil, AP!M!Nil, Mapping!NoFields, AP!M!NoFields,
    Mapping!CompanyToRecord, AP!M!CompanyToRecord, Mapping!ContactToRecord,
    AP!M!ContactToRecord, Mapping!SponsorToRecord, AP!M!SponsorToRecord, Mapping!ToRecord,
    AP!M!ToRecord, Mapping!Entities, AP!M!Entities, Mapping!FieldsOf, AP!M!FieldsOf,
    Mapping!KindOf, AP!M!KindOf, Mapping!ApplyToCompany, AP!M!ApplyToCompany,
    Mapping!ApplyToContact, AP!M!ApplyToContact, Mapping!ApplyToSponsor, AP!M!ApplyToSponsor,
    Mapping!ApplyTo, AP!M!ApplyTo, Mapping!Required, AP!M!Required, Mapping!Unsized,
    AP!M!Unsized, Mapping!Empty, AP!M!Empty, Mapping!Texts, AP!M!Texts, Mapping!Lists,
    AP!M!Lists, Mapping!Types, AP!M!Types, Mapping!ValuesOf, AP!M!ValuesOf, Mapping!Blank,
    AP!M!Blank, Mapping!Entry, AP!M!Entry, Mapping!Says, AP!M!Says, Mapping!Init, AP!M!Init
LEMMA MappingNext == Mapping!Next => AP!M!Next
  BY Zenon DEF
    Mapping!V, AP!M!V, Mapping!Nil, AP!M!Nil, Mapping!NoFields, AP!M!NoFields,
    Mapping!CompanyToRecord, AP!M!CompanyToRecord, Mapping!ContactToRecord,
    AP!M!ContactToRecord, Mapping!SponsorToRecord, AP!M!SponsorToRecord, Mapping!ToRecord,
    AP!M!ToRecord, Mapping!Entities, AP!M!Entities, Mapping!FieldsOf, AP!M!FieldsOf,
    Mapping!KindOf, AP!M!KindOf, Mapping!ApplyToCompany, AP!M!ApplyToCompany,
    Mapping!ApplyToContact, AP!M!ApplyToContact, Mapping!ApplyToSponsor, AP!M!ApplyToSponsor,
    Mapping!ApplyTo, AP!M!ApplyTo, Mapping!Required, AP!M!Required, Mapping!Unsized,
    AP!M!Unsized, Mapping!Empty, AP!M!Empty, Mapping!Texts, AP!M!Texts, Mapping!Lists,
    AP!M!Lists, Mapping!Types, AP!M!Types, Mapping!toTime, AP!M!toTime,
    Mapping!serializeNotionProperty, AP!M!serializeNotionProperty,
    Mapping!deserializeNotionProperty, AP!M!deserializeNotionProperty, Mapping!Goes, AP!M!Goes,
    Mapping!ValuesOf, AP!M!ValuesOf, Mapping!Written, AP!M!Written, Mapping!Blank, AP!M!Blank,
    Mapping!Entry, AP!M!Entry, Mapping!Says, AP!M!Says, Mapping!EditHere, AP!M!EditHere,
    Mapping!EditThere, AP!M!EditThere, Mapping!Push, AP!M!Push, Mapping!Assigned,
    AP!M!Assigned, Mapping!Pull, AP!M!Pull, Mapping!Next, AP!M!Next
LEMMA MappingSays == AP!M!EchoStep /\ AP!M!SurvivesStep => Mapping!EchoStep /\ Mapping!SurvivesStep
  BY DEF
    Mapping!V, AP!M!V, Mapping!Nil, AP!M!Nil, Mapping!NoFields, AP!M!NoFields,
    Mapping!CompanyToRecord, AP!M!CompanyToRecord, Mapping!ContactToRecord,
    AP!M!ContactToRecord, Mapping!SponsorToRecord, AP!M!SponsorToRecord, Mapping!ToRecord,
    AP!M!ToRecord, Mapping!KindOf, AP!M!KindOf, Mapping!Empty, AP!M!Empty, Mapping!Texts,
    AP!M!Texts, Mapping!Lists, AP!M!Lists, Mapping!Faithful, AP!M!Faithful, Mapping!HourLost,
    AP!M!HourLost, Mapping!Kept, AP!M!Kept, Mapping!EchoStep, AP!M!EchoStep,
    Mapping!SurvivesStep, AP!M!SurvivesStep
LEMMA PartSizes ==
  /\ AP!Sizes /\ GP!Sizes /\ GP!ConnSizes /\ UP!ConnSizes /\ RP!ConnSizes
  /\ AP!EnrichSizes /\ AP!ZapierSizes
<1>1. MaxRequests \in Nat /\ MaxFaults \in Nat
  BY BoundAssumption
<1>2. "no key" \notin {"k"}
  OBVIOUS
<1>3. AP!Sizes /\ GP!Sizes
  BY <1>1, <1>2 DEF AP!Sizes, GP!Sizes, GP!NoKey
<1>4. GP!ConnSizes /\ UP!ConnSizes /\ RP!ConnSizes
  BY <1>1 DEF GP!ConnSizes, UP!ConnSizes, RP!ConnSizes, GP!C!Nil, UP!C!Nil, RP!C!Nil
<1>5. \A a, b, c : AP!IsFiniteSet({a, b, c})
  <2>1. TAKE a, b, c
  <2>2. {a, b, c} = (({} \cup {a}) \cup {b}) \cup {c}
    OBVIOUS
  <2>3. AP!IsFiniteSet({})
    BY AP!FS_EmptySet
  <2>4. AP!IsFiniteSet({} \cup {a})
    BY <2>3, AP!FS_AddElement, Zenon
  <2>5. AP!IsFiniteSet(({} \cup {a}) \cup {b})
    BY <2>4, AP!FS_AddElement, Zenon
  <2>6. AP!IsFiniteSet((({} \cup {a}) \cup {b}) \cup {c})
    BY <2>5, AP!FS_AddElement, Zenon
  <2> QED  BY <2>2, <2>6, Zenon
<1>6. \A a, b, c, d : Len(<<a, b, c, d>>) \in Nat
  OBVIOUS
<1>7. /\ "nobody" \notin {"a", "b", "c"} /\ 2 \in Nat /\ 3 \in Nat
      /\ {"gmail"} \cap {"list_enabled", "enable_zapier", "execute_zapier"} = {}
  OBVIOUS
<1>8. AP!EnrichSizes /\ AP!ZapierSizes
  BY <1>5, <1>6, <1>7, Zenon DEF AP!EnrichSizes, AP!ZapierSizes, AP!E!Nobody
<1> QED  BY <1>3, <1>4, <1>8

PartsInv ==
  /\ part = "accounts" => AP!AccountsInv
  /\ part = "gateway" => GP!GatewayInv
  /\ part = "flows" => GP!ConnInv
  /\ part = "urls" => UP!ConnInv
  /\ part = "rotations" => RP!ConnInv
  /\ part = "enrichment" => AP!EnrichInv
  /\ part = "zapier" => AP!ZapierInv
  /\ part = "mapping" => AP!MappingInv

LEMMA InitPartsInv == PartsInit => PartsInv
<1> SUFFICES ASSUME PartsInit PROVE PartsInv
  OBVIOUS
<1>1. ASSUME part = "accounts" PROVE AP!AccountsInv
  <2>1. Accounts!Init
    BY <1>1 DEF PartsInit
  <2> QED  BY <2>1, AccountsInit, PartSizes, AP!InitInv
<1>2. ASSUME part = "gateway" PROVE GP!GatewayInv
  <2>1. Gateway!Init
    BY <1>2 DEF PartsInit
  <2> QED  BY <2>1, GatewayInit, PartSizes, GP!InitInv
<1>3. ASSUME part = "flows" PROVE GP!ConnInv
  <2>1. Flows!Init
    BY <1>3 DEF PartsInit
  <2> QED  BY <2>1, FlowsInit, PartSizes, GP!InitConnInv
<1>4. ASSUME part = "urls" PROVE UP!ConnInv
  <2>1. Urls!Init
    BY <1>4 DEF PartsInit
  <2> QED  BY <2>1, UrlsInit, PartSizes, UP!InitConnInv
<1>5. ASSUME part = "rotations" PROVE RP!ConnInv
  <2>1. Rotations!Init
    BY <1>5 DEF PartsInit
  <2> QED  BY <2>1, RotationsInit, PartSizes, RP!InitConnInv
<1>6. ASSUME part = "enrichment" PROVE AP!EnrichInv
  <2>1. Enrichment!Init
    BY <1>6, Zenon DEF PartsInit
  <2> QED  BY <2>1, EnrichmentInit, PartSizes, AP!InitEnrich, Zenon
<1>7. ASSUME part = "zapier" PROVE AP!ZapierInv
  <2>1. Zapier!Init
    BY <1>7, Zenon DEF PartsInit
  <2> QED  BY <2>1, ZapierInit, PartSizes, AP!InitZapier, Zenon
<1>8. ASSUME part = "mapping" PROVE AP!MappingInv
  <2>1. Mapping!Init /\ 1 \in Nat
    BY <1>8 DEF PartsInit
  <2> QED  BY <2>1, MappingInit, AP!InitMapping, Zenon
<1> QED  BY <1>1, <1>2, <1>3, <1>4, <1>5, <1>6, <1>7, <1>8 DEF PartsInv

LEMMA NextPartsInv == PartsInv /\ [PartsNext]_PartVars => PartsInv'
<1> SUFFICES ASSUME PartsInv, [PartsNext]_PartVars PROVE PartsInv'
  OBVIOUS
<1>1. part' = part
  BY DEF PartsNext, PartVars
<1>2. ASSUME part = "accounts" PROVE AP!AccountsInv'
  <2>1. [Accounts!Next]_(AP!vars)
    BY <1>2 DEF PartsNext, PartVars, AP!vars, shared
  <2>2. [AP!Next]_(AP!vars)
    BY <2>1, AccountsNext
  <2> QED  BY <1>2, <2>2, PartSizes, AP!NextInv DEF PartsInv
<1>3. ASSUME part = "gateway" PROVE GP!GatewayInv'
  <2>1. [Gateway!Next]_(GP!vars)
    BY <1>3 DEF PartsNext, PartVars, GP!vars, shared
  <2>2. [GP!Next]_(GP!vars)
    BY <2>1, GatewayNext
  <2> QED  BY <1>3, <2>2, PartSizes, GP!NextInv DEF PartsInv
<1>4. ASSUME part = "flows" PROVE GP!ConnInv'
  <2>1. [Flows!Next]_(GP!C!vars)
    BY <1>4 DEF PartsNext, PartVars, GP!C!vars, GP!C!keyVars, GP!C!history, shared
  <2>2. [GP!C!Next]_(GP!C!vars)
    BY <2>1, FlowsNext
  <2> QED  BY <1>4, <2>2, PartSizes, GP!NextConnInv DEF PartsInv
<1>5. ASSUME part = "urls" PROVE UP!ConnInv'
  <2>1. [Urls!Next]_(UP!C!vars)
    BY <1>5 DEF PartsNext, PartVars, UP!C!vars, UP!C!keyVars, UP!C!history, shared
  <2>2. [UP!C!Next]_(UP!C!vars)
    BY <2>1, UrlsNext
  <2> QED  BY <1>5, <2>2, PartSizes, UP!NextConnInv DEF PartsInv
<1>6. ASSUME part = "rotations" PROVE RP!ConnInv'
  <2>1. [Rotations!Next]_(RP!C!vars)
    BY <1>6 DEF PartsNext, PartVars, RP!C!vars, RP!C!keyVars, RP!C!history, shared
  <2>2. [RP!C!Next]_(RP!C!vars)
    BY <2>1, RotationsNext
  <2> QED  BY <1>6, <2>2, PartSizes, RP!NextConnInv DEF PartsInv
<1>7. ASSUME part = "enrichment" PROVE AP!EnrichInv'
  <2>1. [Enrichment!Next]_(AP!E!vars)
    BY <1>7, Zenon DEF PartsNext, PartVars, AP!E!vars, shared
  <2>2. [AP!E!Next]_(AP!E!vars)
    BY <2>1, EnrichmentNext, Zenon
  <2>3. AP!EnrichInv
    BY <1>7 DEF PartsInv
  <2> QED  BY <2>2, <2>3, PartSizes, AP!NextEnrich, Zenon
<1>8. ASSUME part = "zapier" PROVE AP!ZapierInv'
  <2>1. [Zapier!Next]_(AP!Z!vars)
    BY <1>8, Zenon DEF PartsNext, PartVars, AP!Z!vars, shared
  <2>2. [AP!Z!Next]_(AP!Z!vars)
    BY <2>1, ZapierNext, Zenon
  <2>3. AP!ZapierInv
    BY <1>8 DEF PartsInv
  <2> QED  BY <2>2, <2>3, PartSizes, AP!NextZapier, Zenon
<1>9. ASSUME part = "mapping" PROVE AP!MappingInv'
  <2>1. [Mapping!Next]_(AP!M!vars)
    BY <1>9 DEF PartsNext, PartVars, AP!M!vars, shared
  <2>2. [AP!M!Next]_(AP!M!vars)
    BY <2>1, MappingNext, Zenon
  <2>3. AP!MappingInv /\ 1 \in Nat
    BY <1>9 DEF PartsInv
  <2> QED  BY <2>2, <2>3, AP!NextMapping, Zenon
<1> QED  BY <1>1, <1>2, <1>3, <1>4, <1>5, <1>6, <1>7, <1>8, <1>9 DEF PartsInv

LEMMA PartsInvariant == PartsSpec => []PartsInv
<1> QED  BY InitPartsInv, NextPartsInv, PTL DEF PartsSpec

\* Beside the other parts: the row of the user has every change that was made but for
\* saves of old copies, and is locked for failures that happened, for any number of
\* handlers, crashes and ignored errors.
THEOREM PartsKeepChanges == PartsSpec => []AccountKeepsChanges
<1>1. ASSUME PartsInv PROVE AccountKeepsChanges
  BY <1>1, AP!InvSays, AccountsSays DEF PartsInv, AccountKeepsChanges
<1> QED  BY <1>1, PartsInvariant, PTL

\* Beside the other parts: sessions end with the password they go back to, and a
\* session and a token are used once, but for the overlaps CredentialsDoEnd names.
THEOREM PartsEndCredentials == PartsSpec => []CredentialsEnd
<1>1. ASSUME PartsInv PROVE CredentialsEnd
  BY <1>1, AP!InvSays, AccountsSays DEF PartsInv, CredentialsEnd
<1> QED  BY <1>1, PartsInvariant, PTL

\* Beside the other parts: the limiter lets no more requests pass than its limits, and
\* a key has one run at a time while its lock lasts, for any number of handlers.
THEOREM PartsHoldLimits == PartsSpec => []LimitsHold
<1>1. ASSUME PartsInv PROVE LimitsHold
  BY <1>1, GP!InvSays, GatewaySays DEF PartsInv, LimitsHold
<1> QED  BY <1>1, PartsInvariant, PTL

\* Beside the other parts: a client that missed an event leaves the hub, once, and no
\* other loses an open connection.
THEOREM PartsHearOrLeave == PartsSpec => []HearOrLeave
<1>1. ASSUME PartsInv PROVE HearOrLeave
  BY <1>1, GP!InvSays, GatewaySays DEF PartsInv, HearOrLeave
<1> QED  BY <1>1, PartsInvariant, PTL

\* Beside the other parts: a connection is made once per code, for the organization that
\* asked, and the answer is true, for any number of processes and faults.
THEOREM PartsConnectAsAsked == PartsSpec => []ConnectedAsAsked
<1>1. ASSUME PartsInv PROVE ConnectedAsAsked
  BY <1>1, GP!ConnSays, FlowsSays, PartSizes DEF PartsInv, ConnectedAsAsked
<1> QED  BY <1>1, PartsInvariant, PTL

\* Beside the other parts: a webhook URL that was shown, what was encrypted and who signed
\* in outlast reconnections and changes of keys, for any number of processes and faults.
THEOREM PartsKeepFaith == PartsSpec => []KeysKeepFaith
<1>1. ASSUME PartsInv PROVE KeysKeepFaith
  BY <1>1, UP!ConnSays, RP!ConnSays, UrlsSays, RotationsSays, PartSizes DEF PartsInv, KeysKeepFaith
<1> QED  BY <1>1, PartsInvariant, PTL

\* Beside the other parts: nobody is the contact for two roles, a role is vacant only if
\* everybody who fits it has another, no company costs more than its credits, and runs
\* reach every company that Apollo knows, one batch at a time.
THEOREM PartsFillRoles == PartsSpec => []RolesAreFilled
<1>1. ASSUME PartsInv PROVE RolesAreFilled
  <2>1. SUFFICES ASSUME part = "enrichment"
                 PROVE  /\ Enrichment!OnePersonPerRole /\ Enrichment!NoneLeftOut
                        /\ Enrichment!CreditsBounded /\ Enrichment!CoverageOverRuns
    BY Zenon DEF RolesAreFilled
  <2>2. AP!EnrichInv
    BY <1>1, <2>1 DEF PartsInv
  <2> QED  BY <2>2, PartSizes, AP!EnrichSays, EnrichmentSays, Zenon
<1> QED  BY <1>1, PartsInvariant, PTL

\* Beside the other parts: a sync of Zapier calls nothing that changes anything unless a
\* name misleads it, no meta-tool, no more than its share and all it can within it, and
\* reports apps the server has actions or tools of.
THEOREM PartsOnlyRead == PartsSpec => []SyncOnlyReads
<1>1. ASSUME PartsInv PROVE SyncOnlyReads
  <2>1. SUFFICES ASSUME part = "zapier"
                 PROVE  Zapier!ReadsOnly /\ Zapier!AsksAll /\ Zapier!AppsAreReal
    BY Zenon DEF SyncOnlyReads
  <2>2. AP!ZapierInv
    BY <1>1, <2>1 DEF PartsInv
  <2>3. AP!Z!ReadsOnly /\ AP!Z!AsksAll /\ AP!Z!AppsAreReal
    BY <2>2, AP!ZapierSaysWhat, Zenon
  <2> QED  BY <2>3, ZapierSays, Zenon
<1> QED  BY <1>1, PartsInvariant, PTL

\* Beside the other parts: the pull after a push gives back what was pushed, but for the hour
\* of a text mapped to a date, and the push after a pull writes what was in Notion, for the
\* fields and types that hold each other's values, but for the hour and the end of a date and
\* the third decimal of a number.
THEOREM PartsGiveBack == PartsSpec => FieldsComeBack
<1>1. ASSUME PartsInv, [PartsNext]_PartVars
      PROVE  [part = "mapping" => Mapping!EchoStep /\ Mapping!SurvivesStep]_PartVars
  <2>1. SUFFICES ASSUME part = "mapping" PROVE Mapping!EchoStep /\ Mapping!SurvivesStep
    OBVIOUS
  <2>2. [Mapping!Next]_(AP!M!vars)
    BY <1>1, <2>1 DEF PartsNext, PartVars, AP!M!vars, shared
  <2>3. [AP!M!Next]_(AP!M!vars) /\ AP!MappingInv /\ 1 \in Nat
    BY <1>1, <2>1, <2>2, MappingNext DEF PartsInv
  <2>4. AP!M!EchoStep /\ AP!M!SurvivesStep
    BY <2>3, AP!NextMapping, Zenon
  <2> QED  BY <2>4, MappingSays, Zenon
<1> QED  BY <1>1, PartsInvariant, PTL DEF PartsSpec, FieldsComeBack

-----------------------------------------------------------------------------
(* The requests of Access: the router looks for the first of a list of     *)
(* routes, which is long, and joined from shorter ones.                    *)

\* Of finite length, whatever it holds.
IsList(s) == \E S : s \in Seq(S)

\* Lists written out.
LEMMA ListOf ==
  /\ \A a : IsList(<<a>>)
  /\ \A a, b : IsList(<<a, b>>)
  /\ \A a, b, c : IsList(<<a, b, c>>)
  /\ \A a, b, c, d : IsList(<<a, b, c, d>>)
  /\ \A a, b, c, d, e : IsList(<<a, b, c, d, e>>)
  /\ \A a, b, c, d, e, f : IsList(<<a, b, c, d, e, f>>)
  /\ \A a, b, c, d, e, f, g, h : IsList(<<a, b, c, d, e, f, g, h>>)
<1>1. \A a : <<a>> \in Seq({a})
  OBVIOUS
<1>2. \A a, b : <<a, b>> \in Seq({a, b})
  OBVIOUS
<1>3. \A a, b, c : <<a, b, c>> \in Seq({a, b, c})
  OBVIOUS
<1>4. \A a, b, c, d : <<a, b, c, d>> \in Seq({a, b, c, d})
  OBVIOUS
<1>5. \A a, b, c, d, e : <<a, b, c, d, e>> \in Seq({a, b, c, d, e})
  OBVIOUS
<1>6. \A a, b, c, d, e, f : <<a, b, c, d, e, f>> \in Seq({a, b, c, d, e, f})
  OBVIOUS
<1>7. \A a, b, c, d, e, f, g, h : <<a, b, c, d, e, f, g, h>> \in Seq({a, b, c, d, e, f, g, h})
  OBVIOUS
<1> QED  BY <1>1, <1>2, <1>3, <1>4, <1>5, <1>6, <1>7, Zenon DEF IsList

LEMMA ListJoin == ASSUME NEW s, NEW t, IsList(s), IsList(t) PROVE IsList(s \o t)
<1>1. PICK S : s \in Seq(S)
  BY DEF IsList
<1>2. PICK T : t \in Seq(T)
  BY DEF IsList
<1>3. s \in Seq(S \cup T) /\ t \in Seq(S \cup T)
  BY <1>1, <1>2
<1>4. s \o t \in Seq(S \cup T)
  BY <1>3
<1> QED  BY <1>4 DEF IsList

LEMMA ListMap == ASSUME NEW a, NEW S, IsList(S) PROVE IsList(Access!Posts(a, S)) /\ IsList(Access!Gets(a, S))
<1>1. PICK T : S \in Seq(T)
  BY DEF IsList
<1>2. Len(S) \in Nat /\ DOMAIN S = 1 .. Len(S)
  BY <1>1
<1> DEFINE X == {Access!R("POST", <<a, S[i]>>) : i \in DOMAIN S} \cup {Access!R("GET", <<a, S[i]>>) : i \in DOMAIN S}
<1>3. Access!Posts(a, S) \in [1 .. Len(S) -> X] /\ Access!Gets(a, S) \in [1 .. Len(S) -> X]
  BY <1>2, Zenon DEF Access!Posts, Access!Gets
<1> HIDE DEF X
<1>4. Access!Posts(a, S) \in Seq(X) /\ Access!Gets(a, S) \in Seq(X)
  BY <1>2, <1>3
<1> QED  BY <1>4, Zenon DEF IsList

LEMMA ListCut == ASSUME NEW s, IsList(s), NEW m \in 1 .. Len(s), NEW n \in 1 .. Len(s) PROVE IsList(SubSeq(s, m, n))
<1>1. PICK S : s \in Seq(S)
  BY DEF IsList
<1>2. SubSeq(s, m, n) \in Seq(S)
  BY <1>1
<1> QED  BY <1>2 DEF IsList

LEMMA List14 ==
  ASSUME NEW a, NEW b, NEW c, NEW d, NEW e, NEW f, NEW g, NEW h, NEW i, NEW j, NEW k, NEW l, NEW m, NEW n
  PROVE  IsList(<<a, b, c, d, e, f, g, h, i, j, k, l, m, n>>)
<1>1. <<a, b, c, d, e, f, g, h, i, j, k, l, m, n>> \in Seq({a, b, c, d, e, f, g, h, i, j, k, l, m, n})
  OBVIOUS
<1> QED  BY <1>1, Zenon DEF IsList

\* The routes of a record, and the groups of routes.
LEMMA ListCrud == ASSUME NEW r, NEW S, IsList(S) PROVE IsList(Access!Crud(r)) /\ IsList(Access!Literals(r, S))
<1>1. IsList(Access!Crud(r))
  BY ListOf, Zenon DEF Access!Crud
<1>2. Len(Access!Crud(r)) = 5
  BY DEF Access!Crud
<1>3. IsList(SubSeq(Access!Crud(r), 1, 1)) /\ IsList(SubSeq(Access!Crud(r), 2, 5))
  <2>1. 1 \in 1 .. Len(Access!Crud(r)) /\ 2 \in 1 .. Len(Access!Crud(r)) /\ 5 \in 1 .. Len(Access!Crud(r))
    BY <1>2
  <2> QED  BY <1>1, <2>1, ListCut, Zenon
<1>4. IsList(SubSeq(Access!Crud(r), 1, 1) \o S)
  BY <1>3, ListJoin, Zenon
<1> QED  BY <1>1, <1>3, <1>4, ListJoin, Zenon DEF Access!Literals

LEMMA ListFrom == ASSUME NEW n \in Nat, NEW X, NEW s \in [1 .. n -> X] PROVE IsList(s)
<1>1. s \in Seq(X)
  OBVIOUS
<1> QED  BY <1>1 DEF IsList

LEMMA ListFun ==
  /\ \A m, S : IsList([i \in 1 .. 4 |-> Access!R("POST", <<m, "*", S[i]>>)])
  /\ \A m, S : IsList([i \in 1 .. 6 |-> Access!R("POST", <<S[((i + 1) \div 2)], m,
                                                       IF i % 2 = 1 THEN "update" ELSE "delete">>)])
<1>1. ASSUME NEW m, NEW S PROVE IsList([i \in 1 .. 4 |-> Access!R("POST", <<m, "*", S[i]>>)])
  <2> DEFINE X == {Access!R("POST", <<m, "*", S[i]>>) : i \in 1 .. 4}
             s == [i \in 1 .. 4 |-> Access!R("POST", <<m, "*", S[i]>>)]
  <2>1. s \in [1 .. 4 -> X]
    BY Zenon
  <2> HIDE DEF s, X
  <2>2. 4 \in Nat /\ 6 \in Nat
    OBVIOUS
  <2> QED  BY <2>1, <2>2, ListFrom, Zenon DEF s
<1>2. ASSUME NEW m, NEW S
      PROVE  IsList([i \in 1 .. 6 |-> Access!R("POST", <<S[((i + 1) \div 2)], m,
                                                       IF i % 2 = 1 THEN "update" ELSE "delete">>)])
  <2> DEFINE X == {Access!R("POST", <<S[((i + 1) \div 2)], m, IF i % 2 = 1 THEN "update" ELSE "delete">>) : i \in 1 .. 6}
             s == [i \in 1 .. 6 |-> Access!R("POST", <<S[((i + 1) \div 2)], m, IF i % 2 = 1 THEN "update" ELSE "delete">>)]
  <2>1. s \in [1 .. 6 -> X]
    BY Zenon
  <2> HIDE DEF s, X
  <2>2. 4 \in Nat /\ 6 \in Nat
    OBVIOUS
  <2> QED  BY <2>1, <2>2, ListFrom, Zenon DEF s
<1> QED  BY <1>1, <1>2, Zenon

LEMMA ListSignIn == IsList(Access!SignIn)
  BY ListOf, ListMap, ListJoin, Zenon DEF Access!SignIn

LEMMA ListCalledBack == IsList(Access!CalledBack)
  BY ListOf, Zenon DEF Access!CalledBack

LEMMA ListSelf == IsList(Access!Self)
  BY ListOf, List14, ListMap, ListJoin, Zenon DEF Access!Self

LEMMA ListRecords == IsList(Access!Records)
  BY ListOf, ListCrud, ListJoin, Zenon DEF Access!Records

LEMMA ListAssistant == IsList(Access!Assistant)
  BY ListOf, ListMap, ListJoin, Zenon DEF Access!Assistant

LEMMA ListConnected == IsList(Access!Connected)
<1>1. IsList([i \in 1 .. 4 |-> Access!R("POST", <<"integrations", "*",
                 <<"revoke", "sync", "connect", "webhook-token">>[i]>>)])
  BY ListFun, Zenon
<1> QED  BY <1>1, ListOf, ListCrud, ListMap, ListJoin, Zenon DEF Access!Connected

LEMMA ListOffice == IsList(Access!Office)
<1>1. IsList([i \in 1 .. 6 |-> Access!R("POST", << <<"sponsors", "companies", "contacts">>[((i + 1) \div 2)], "batch",
                                      IF i % 2 = 1 THEN "update" ELSE "delete" >>)])
  BY ListFun, Zenon
<1> QED  BY <1>1, ListOf, ListMap, ListJoin, Zenon DEF Access!Office

\* So is the list of all routes.
LEMMA ListRegistered == Len(Access!Registered) \in Nat
<1>1. IsList(Access!Registered)
  BY ListSignIn, ListCalledBack, ListSelf, ListRecords, ListConnected, ListAssistant, ListOffice, ListJoin, Zenon
  DEF Access!Registered
<1>2. \A s : IsList(s) => Len(s) \in Nat
  BY DEF IsList
<1> QED  BY <1>1, <1>2, Zenon

\* What the router takes is a place of that list.
LEMMA LeastRoute == ASSUME NEW S \in SUBSET Nat, S # {} PROVE Access!Min(S) \in S
  BY AP!LeastIsIn, Zenon DEF Access!Min, AP!E!Min

\* Access stays in its types.
LEMMA InitAccess == Access!Init => Access!TypeOK
<1> SUFFICES ASSUME Access!Init PROVE Access!TypeOK
  OBVIOUS
<1>1. s1 \subseteq Access!ToSet(Access!Roles)
  BY DEF Access!Init, Access!Roles, Access!ToSet
<1>2. s2 \in 0 .. 2 /\ s3 = Access!Idle
  BY DEF Access!Init
<1> QED  BY <1>1, <1>2, ListRegistered DEF Access!TypeOK, Access!Idle

LEMMA DispatchedIs == ASSUME NEW m, NEW q PROVE Access!Dispatched(m, q) \in 0 .. Len(Access!Registered)
<1> DEFINE I == {i \in 1 .. Len(Access!Registered) :
                   Access!Registered[i][1] = m /\ Access!PathFits(Access!Registered[i][2], q)}
<1>1. Access!Dispatched(m, q) = IF I # {} THEN Access!Min(I) ELSE 0
  BY DEF Access!Dispatched, Access!SelectInSeq
<1>2. I \in SUBSET Nat /\ I \subseteq 1 .. Len(Access!Registered)
  BY ListRegistered
<1> HIDE DEF I
<1>3. I # {} => Access!Min(I) \in I
  BY <1>2, LeastRoute
<1>4. Len(Access!Registered) \in Nat
  BY ListRegistered
<1>5. CASE I # {}
  <2>1. Access!Dispatched(m, q) \in 1 .. Len(Access!Registered)
    BY <1>1, <1>2, <1>3, <1>5, Zenon
  <2>2. \A n \in Nat : \A i \in 1 .. n : i \in 0 .. n
    OBVIOUS
  <2> QED  BY <1>4, <2>1, <2>2, Zenon
<1>6. CASE I = {}
  BY <1>1, <1>4, <1>6
<1> QED  BY <1>5, <1>6

LEMMA NextAccess == Access!TypeOK /\ [Access!Next]_(Access!vars) => Access!TypeOK'
<1> SUFFICES ASSUME Access!TypeOK, [Access!Next]_(Access!vars) PROVE Access!TypeOK'
  OBVIOUS
<1> USE DEF Access!TypeOK
<1>1. CASE UNCHANGED Access!vars
  BY <1>1 DEF Access!vars
<1>2. ASSUME NEW r \in Access!ToSet(Access!Roles), Access!SetRoles(r) PROVE Access!TypeOK'
  BY <1>2 DEF Access!SetRoles
<1>3. ASSUME NEW c \in Access!Calls, NEW t \in BOOLEAN, NEW f \in BOOLEAN, Access!Arrive(c, t, f)
      PROVE  Access!TypeOK'
  <2>1. PICK i \in 0 .. Len(Access!Registered) :
          /\ i = Access!Dispatched(c[1], c[2])
          /\ s3' = [pc |-> CASE i = 0 -> "404" [] i # 0 /\ Access!Guarded(i) -> "auth" [] OTHER -> "handler",
                     call |-> c, token |-> t, foreign |-> f, route |-> i, entry |-> <<>>]
    BY <1>3, DispatchedIs DEF Access!Arrive
  <2>2. (CASE i = 0 -> "404" [] i # 0 /\ Access!Guarded(i) -> "auth" [] OTHER -> "handler")
          \in {"404", "auth", "handler"}
    OBVIOUS
  <2> QED  BY <1>3, <2>1, <2>2 DEF Access!Arrive
<1>4. ASSUME NEW p \in {"auth", "origin", "guard", "roles", "handler", "401", "403"}, Access!Goto(p)
      PROVE  Access!TypeOK'
  BY <1>4 DEF Access!Goto
<1>5. CASE Access!Authenticate \/ Access!ValidateOrigin \/ Access!Require
  BY <1>4, <1>5 DEF Access!Authenticate, Access!ValidateOrigin, Access!Require
<1>6. CASE Access!Guard
  <2>1. \/ s3' = [s3 EXCEPT !.pc = "unclassified"]
        \/ \E e \in Access!lookupPermission(s3.call[1], s3.call[2]) :
             s3' = [s3 EXCEPT !.pc = IF e[3] = Access!authOnly THEN "handler" ELSE "roles", !.entry = e]
    BY <1>6, Zenon DEF Access!Guard
  <2>2. Access!lookupPermission(s3.call[1], s3.call[2]) \subseteq Access!routePermissions
    BY Zenon DEF Access!lookupPermission
  <2>3. UNCHANGED <<s1, s2>>
    BY <1>6, Zenon DEF Access!Guard
  <2>4. ASSUME s3' = [s3 EXCEPT !.pc = "unclassified"] PROVE Access!TypeOK'
    BY <2>3, <2>4
  <2>5. ASSUME NEW e \in Access!lookupPermission(s3.call[1], s3.call[2]),
               s3' = [s3 EXCEPT !.pc = IF e[3] = Access!authOnly THEN "handler" ELSE "roles", !.entry = e]
        PROVE  Access!TypeOK'
    <3>1. e \in Access!routePermissions
      BY <2>2, <2>5
    <3>2. CASE e[3] = Access!authOnly
      <4>1. s3' = [s3 EXCEPT !.pc = "handler", !.entry = e]
        BY <2>5, <3>2, Zenon
      <4> QED  BY <2>3, <3>1, <4>1
    <3>3. CASE e[3] # Access!authOnly
      <4>1. s3' = [s3 EXCEPT !.pc = "roles", !.entry = e]
        BY <2>5, <3>3, Zenon
      <4> QED  BY <2>3, <3>1, <4>1
    <3> QED  BY <3>2, <3>3
  <2> QED  BY <2>1, <2>4, <2>5, Zenon
<1>7. CASE Access!Answer
  BY <1>7, ListRegistered DEF Access!Answer, Access!Idle
<1> QED  BY <1>1, <1>2, <1>3, <1>5, <1>6, <1>7 DEF Access!Next

\* Each role may do what the role before it may, and an admin everything.
LEMMA RolesGrow ==
  /\ Access!Guest \subseteq Access!Viewer /\ Access!Viewer \subseteq Access!Member
  /\ Access!Member \subseteq Access!Manager
<1>1. Access!Guest \subseteq Access!Viewer
  BY DEF Access!Guest, Access!Viewer, Access!Read, Access!Core
<1>2. Access!Viewer \subseteq Access!Member
  BY DEF Access!Viewer, Access!Member, Access!Read, Access!Write, Access!Core
<1>3. Access!Member \subseteq Access!Manager
  BY DEF Access!Manager
<1> QED  BY <1>1, <1>2, <1>3

LEMMA RolesInTurn ==
  /\ DOMAIN Access!Roles = 1 .. 5
  /\ Access!PermsOf(Access!Roles[1]) = Access!Guest /\ Access!PermsOf(Access!Roles[2]) = Access!Viewer
  /\ Access!PermsOf(Access!Roles[3]) = Access!Member /\ Access!PermsOf(Access!Roles[4]) = Access!Manager
  /\ Access!PermsOf(Access!Roles[5]) = Access!PermAll
<1>1. /\ DOMAIN Access!Roles = 1 .. 5 /\ Access!Roles[1] = "Guest" /\ Access!Roles[2] = "Viewer"
      /\ Access!Roles[3] = "Member" /\ Access!Roles[4] = "Manager" /\ Access!Roles[5] = "Admin"
  BY DEF Access!Roles
<1>2. /\ Access!PermsOf("Guest") = Access!Guest /\ Access!PermsOf("Viewer") = Access!Viewer
      /\ Access!PermsOf("Member") = Access!Member /\ Access!PermsOf("Manager") = Access!Manager
      /\ Access!PermsOf("Admin") = Access!PermAll
  BY DEF Access!PermsOf
<1> QED  BY <1>1, <1>2

LEMMA PromotionAdds ==
  ASSUME NEW perm, NEW i \in DOMAIN Access!Roles, NEW j \in DOMAIN Access!Roles, i < j,
         Access!satisfiesAll({Access!Roles[i]}, perm)
  PROVE  Access!satisfiesAll({Access!Roles[j]}, perm)
<1> DEFINE P(k) == Access!PermsOf(Access!Roles[k])
<1>1. \A k \in DOMAIN Access!Roles : Access!satisfiesAll({Access!Roles[k]}, perm)
                                       <=> Access!PermAll \subseteq P(k) \/ perm \in P(k)
  BY Zenon DEF Access!satisfiesAll
<1>2. j = 5 \/ P(i) \subseteq P(j)
  <2>1. i \in 1 .. 5 /\ j \in 1 .. 5
    BY RolesInTurn
  <2>2. \/ j = 5 \/ <<i, j>> \in {<<1, 2>>, <<1, 3>>, <<1, 4>>, <<2, 3>>, <<2, 4>>, <<3, 4>>}
    BY <2>1
  <2>3. P(1) \subseteq P(2) /\ P(2) \subseteq P(3) /\ P(3) \subseteq P(4)
    BY RolesInTurn, RolesGrow, Zenon
  <2> HIDE DEF P
  <2> QED  BY <2>2, <2>3
<1>3. P(5) = Access!PermAll
  BY RolesInTurn
<1> HIDE DEF P
<1> QED  BY <1>1, <1>2, <1>3

\* Beside the other parts: with the roles of any moment, a permission that a role has is
\* one that every role above it has, whatever the permission: a promotion takes none away.
THEOREM PartsPromote == PartsSpec => [](part = "access" => Access!PromotionsOnlyAdd)
<1>1. Access!PromotionsOnlyAdd
  BY PromotionAdds, Zenon DEF Access!PromotionsOnlyAdd
<1> QED  BY <1>1, PTL

-----------------------------------------------------------------------------
(* The types of all parts.                                                 *)

\* The instances of one module have the same types.
LEMMA AccountsTypes == AP!TypeOK => Accounts!TypeOK
  BY Zenon DEF
    Accounts!SessionIds, AP!SessionIds, Accounts!TokenIds, AP!TokenIds, Accounts!User,
    AP!User, Accounts!Session, AP!Session, Accounts!Token, AP!Token, Accounts!Changes,
    AP!Changes, Accounts!Job, AP!Job, Accounts!Past, AP!Past, Accounts!TypeOK, AP!TypeOK
LEMMA GatewayTypes == GP!TypeOK => Gateway!TypeOK
  BY Zenon DEF
    Gateway!NoKey, GP!NoKey, Gateway!Windows, GP!Windows, Gateway!Outcomes, GP!Outcomes,
    Gateway!Pcs, GP!Pcs, Gateway!Req, GP!Req, Gateway!Client, GP!Client, Gateway!Past,
    GP!Past, Gateway!TypeOK, GP!TypeOK
LEMMA FlowsTypes == GP!C!TypeOK => Flows!TypeOK
  BY Zenon DEF
    Flows!Nil, GP!C!Nil, Flows!Flows, GP!C!Flows, Flows!AllKeys, GP!C!AllKeys, Flows!Tokens,
    GP!C!Tokens, Flows!Env, GP!C!Env, Flows!Sealed, GP!C!Sealed, Flows!Row, GP!C!Row,
    Flows!Flow, GP!C!Flow, Flows!Pcs, GP!C!Pcs, Flows!Op, GP!C!Op, Flows!TypeOK, GP!C!TypeOK
LEMMA UrlsTypes == UP!C!TypeOK => Urls!TypeOK
  BY Zenon DEF
    Urls!Nil, UP!C!Nil, Urls!Flows, UP!C!Flows, Urls!AllKeys, UP!C!AllKeys, Urls!Tokens,
    UP!C!Tokens, Urls!Env, UP!C!Env, Urls!Sealed, UP!C!Sealed, Urls!Row, UP!C!Row, Urls!Flow,
    UP!C!Flow, Urls!Pcs, UP!C!Pcs, Urls!Op, UP!C!Op, Urls!TypeOK, UP!C!TypeOK
LEMMA RotationsTypes == RP!C!TypeOK => Rotations!TypeOK
  BY Zenon DEF
    Rotations!Nil, RP!C!Nil, Rotations!Flows, RP!C!Flows, Rotations!AllKeys, RP!C!AllKeys,
    Rotations!Tokens, RP!C!Tokens, Rotations!Env, RP!C!Env, Rotations!Sealed, RP!C!Sealed,
    Rotations!Row, RP!C!Row, Rotations!Flow, RP!C!Flow, Rotations!Pcs, RP!C!Pcs,
    Rotations!Op, RP!C!Op, Rotations!TypeOK, RP!C!TypeOK
LEMMA MappingTypes == AP!M!TypeOK => Mapping!TypeOK
  BY Zenon DEF
    Mapping!NoFields, AP!M!NoFields, Mapping!CompanyToRecord, AP!M!CompanyToRecord,
    Mapping!ContactToRecord, AP!M!ContactToRecord, Mapping!SponsorToRecord,
    AP!M!SponsorToRecord, Mapping!ToRecord, AP!M!ToRecord, Mapping!Entities, AP!M!Entities,
    Mapping!FieldsOf, AP!M!FieldsOf, Mapping!Empty, AP!M!Empty, Mapping!Texts, AP!M!Texts,
    Mapping!Lists, AP!M!Lists, Mapping!Types, AP!M!Types, Mapping!Blank, AP!M!Blank,
    Mapping!Entry, AP!M!Entry, Mapping!Says, AP!M!Says, Mapping!TypeOK, AP!M!TypeOK

\* The requests and faults of a part are within the bounds of all: a part counts its
\* own, or none.
PartsTypeInv ==
  /\ TypeOK
  /\ PartsInv
  /\ part = "contacts" => ContactsInv
  /\ part = "access" => Access!TypeOK

LEMMA InitPartsTypes == PartsInit => PartsTypeInv
<1> SUFFICES ASSUME PartsInit PROVE PartsTypeInv
  OBVIOUS
<1>1. ContactsInv
  BY InitContactsInv DEF PartsInit
<1>2. TypeOK
  BY <1>1 DEF ContactsInv
<1>3. part = "access" => Access!TypeOK
  BY InitAccess DEF PartsInit
<1> QED  BY <1>1, <1>2, <1>3, InitPartsInv, Zenon DEF PartsTypeInv

LEMMA NextPartsTypes ==
  ASSUME 2 <= MaxRequests
  PROVE  PartsTypeInv /\ [PartsNext]_PartVars => PartsTypeInv'
<1> SUFFICES ASSUME PartsTypeInv, [PartsNext]_PartVars PROVE PartsTypeInv'
  OBVIOUS
<1>1. part' = part /\ PartsInv' /\ TypeOK
  BY NextPartsInv, Zenon DEF PartsTypeInv, PartsNext, PartVars
<1>2. CASE UNCHANGED PartVars
  <2>1. UNCHANGED vars /\ UNCHANGED Access!vars
    BY <1>2 DEF PartVars, vars, contactsVars, shared, Access!vars
  <2>2. part = "contacts" => ContactsInv'
    BY <2>1, StutterInv DEF PartsTypeInv
  <2>3. part = "access" => Access!TypeOK'
    BY <2>1, NextAccess DEF PartsTypeInv
  <2>4. TypeOK'
    BY <1>1, <2>1 DEF vars, TypeOK
  <2> QED  BY <1>1, <2>2, <2>3, <2>4, Zenon DEF PartsTypeInv
<1>3. ASSUME PartsNext, part = "contacts" PROVE PartsTypeInv'
  <2>1. Next /\ ContactsInv
    BY <1>3 DEF PartsNext, PartsTypeInv
  <2>2. ContactsInv'
    BY <2>1, NextContactsInv
  <2>3. TypeOK'
    BY <2>2 DEF ContactsInv
  <2>4. part' # "access"
    BY <1>1, <1>3
  <2> QED  BY <1>1, <2>2, <2>3, <2>4, Zenon DEF PartsTypeInv
<1>4. ASSUME PartsNext, part # "contacts" PROVE PartsTypeInv'
  <2>1. UNCHANGED contactsVars /\ part' # "contacts"
    BY <1>1, <1>4, Zenon DEF PartsNext
  <2>2. part = "access" => Access!TypeOK'
    <3>1. part = "access" => Access!Next /\ Access!TypeOK
      BY <1>4 DEF PartsNext, PartsTypeInv
    <3> QED  BY <3>1, NextAccess, Zenon
  <2>3. requests' \in 0 .. MaxRequests /\ faults' \in 0 .. MaxFaults
    <3>1. requests \in 0 .. MaxRequests /\ faults \in 0 .. MaxFaults
      BY <1>1 DEF TypeOK
    <3>2. CASE part = "accounts"
      <4>1. AP!TypeOK'
        BY <1>1, <3>2 DEF PartsInv, AP!AccountsInv
      <4> QED  BY <4>1 DEF AP!TypeOK
    <3>3. CASE part = "gateway"
      <4>1. GP!TypeOK'
        BY <1>1, <3>3 DEF PartsInv, GP!GatewayInv
      <4>2. requests' \in 0 .. 2 /\ faults' \in 0 .. MaxFaults
        BY <4>1 DEF GP!TypeOK
      <4> QED  BY <4>2, BoundAssumption
    <3>4. CASE part \in Connecting
      <4>1. GP!C!TypeOK' \/ UP!C!TypeOK' \/ RP!C!TypeOK'
        BY <1>1, <3>4 DEF PartsInv, GP!ConnInv, UP!ConnInv, RP!ConnInv, Connecting
      <4>2. faults' \in 0 .. MaxFaults
        BY <4>1 DEF GP!C!TypeOK, UP!C!TypeOK, RP!C!TypeOK
      <4>3. requests' = requests
        BY <1>4, <3>4 DEF PartsNext, Connecting
      <4> QED  BY <3>1, <4>2, <4>3
    <3>5. CASE part \in {"access", "mapping", "enrichment", "zapier"}
      <4>1. requests' = requests /\ faults' = faults
        BY <1>4, <3>5 DEF PartsNext, Connecting
      <4> QED  BY <3>1, <4>1
    <3>6. part \in {"accounts", "gateway", "access", "mapping", "enrichment", "zapier"} \cup Connecting
      BY <1>4 DEF PartsNext, Connecting
    <3> QED  BY <3>2, <3>3, <3>4, <3>5, <3>6
  <2>4. TypeOK'
    BY <1>1, <2>1, <2>3 DEF TypeOK, contactsVars
  <2> QED  BY <1>1, <2>1, <2>2, <2>4, Zenon DEF PartsTypeInv
<1> QED  BY <1>2, <1>3, <1>4, Zenon

\* Beside the other parts, each part stays in its types, and Access gives every request
\* a place of the router's list.  Gateway's runs begin two requests, which the bound on
\* those of Contacts has to allow.
THEOREM PartsTyped == ASSUME 2 <= MaxRequests PROVE PartsSpec => []PartsTypeOK
<1>1. ASSUME PartsTypeInv PROVE PartsTypeOK
  <2>1. TypeOK /\ (part = "access" => Access!TypeOK)
    BY <1>1 DEF PartsTypeInv
  <2>2. part = "accounts" => Accounts!TypeOK
    BY <1>1, AccountsTypes DEF PartsTypeInv, PartsInv, AP!AccountsInv
  <2>3. part = "gateway" => Gateway!TypeOK
    BY <1>1, GatewayTypes DEF PartsTypeInv, PartsInv, GP!GatewayInv
  <2>4. part = "flows" => Flows!TypeOK
    BY <1>1, FlowsTypes DEF PartsTypeInv, PartsInv, GP!ConnInv
  <2>5. part = "urls" => Urls!TypeOK
    BY <1>1, UrlsTypes DEF PartsTypeInv, PartsInv, UP!ConnInv
  <2>6. part = "rotations" => Rotations!TypeOK
    BY <1>1, RotationsTypes DEF PartsTypeInv, PartsInv, RP!ConnInv
  <2>7. part = "mapping" => Mapping!TypeOK
    BY <1>1, MappingTypes DEF PartsTypeInv, PartsInv, AP!MappingInv
  <2>8. part = "enrichment" => Enrichment!TypeOK
    BY <1>1, EnrichmentSays DEF PartsTypeInv, PartsInv, AP!EnrichInv
  <2>9. part = "zapier" => Zapier!TypeOK
    BY <1>1, ZapierSays DEF PartsTypeInv, PartsInv, AP!ZapierInv
  <2> QED  BY <2>1, <2>2, <2>3, <2>4, <2>5, <2>6, <2>7, <2>8, <2>9, Zenon DEF PartsTypeOK
<1> QED  BY <1>1, InitPartsTypes, NextPartsTypes, PTL DEF PartsSpec
=============================================================================
