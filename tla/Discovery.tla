------------------------------ MODULE Discovery ------------------------------
(***************************************************************************)
(* Incremental discovery of a Notion workspace: NotionClient.Sync walks    *)
(* /v1/search newest-edited first and stops at the watermark of the last   *)
(* sync; the sync runner ingests what was found and stores the new         *)
(* watermark in Integration.Config.                                        *)
(*                                                                         *)
(* People go on editing while a search is paged through.  More than one    *)
(* handler may be at it: IntegrationSync shows when the runner's guard     *)
(* lets that happen.                                                       *)
(*                                                                         *)
(* Time is last_edited_time, which is rounded to the minute: several edits *)
(* can bear one time.  0 is "no watermark", and an item that Notion does   *)
(* not show.  What a sync ingests of an item, an activity or contacts, is  *)
(* abstract: the edit it was found at.                                     *)
(***************************************************************************)
EXTENDS Naturals, FiniteSets

CONSTANTS
  Items,      \* pages and databases of the workspace
  Databases,  \* whose schema and rows are read by further requests
  Handlers,   \* handlers of integration:sync tasks of the connection
  PageSize,   \* results of one search request
  MaxPages,   \* maxSearchPages
  MaxTime,    \* bound on the clock
  Connects,   \* whether the connection is renewed while it is in use
  MaxFaults   \* bound on failing requests and statements, and crashes

ASSUME SizeAssumption ==
  /\ IsFiniteSet(Items) /\ Databases \subseteq Items
  /\ PageSize \in Nat \ {0} /\ MaxPages \in Nat \ {0}
  /\ MaxTime \in Nat \ {0} /\ MaxFaults \in Nat /\ Connects \in BOOLEAN

VARIABLES
  edited,     \* last_edited_time of each item, as Notion shows it
  clock,
  watermark,  \* Integration.Config's state
  copies,     \* of it, read by a Connect that has yet to save the row
  sync,       \* what each handler is doing
  ingested,   \* items whose edit, the one Notion shows, was ingested
  excused,    \* items the search does not promise to find (see Missed)
  faults,     \* faults so far
  overlapped  \* two of them were at it at one time (history variable)

vars == <<edited, clock, watermark, copies, sync, ingested, excused, faults,
          overlapped>>

Times == 1 .. MaxTime
Found == Items \X Times

\* from: the watermark the search stops at.  newest: the next watermark.
\* cursor, seen: the time of the last result, and the results with that time.
\* todo: what is left to ingest.
Sync == [pc : {"idle", "search", "harvest", "ingest"}, from : 0 .. MaxTime,
         newest : 0 .. MaxTime, page : 0 .. MaxPages, seen : SUBSET Items,
         cursor : 0 .. MaxTime, todo : SUBSET Found]
Idle == [pc |-> "idle", from |-> 0, newest |-> 0, page |-> 0, seen |-> {},
         cursor |-> 0, todo |-> {}]

TypeOK ==
  /\ edited \in [Items -> 0 .. MaxTime]
  /\ clock \in Times
  /\ watermark \in 0 .. MaxTime
  /\ copies \subseteq 0 .. MaxTime
  /\ sync \in [Handlers -> Sync]
  /\ ingested \subseteq Items
  /\ excused \subseteq Items
  /\ faults \in 0 .. MaxFaults
  /\ overlapped \in BOOLEAN

Init ==
  /\ edited = [i \in Items |-> 0]
  /\ clock = 1
  /\ watermark = 0
  /\ copies = {}
  /\ sync = [h \in Handlers |-> Idle]
  /\ ingested = {}
  /\ excused = {}
  /\ faults = 0
  /\ overlapped = FALSE

Busy(h) == sync[h].pc # "idle"
Visible == {i \in Items : edited[i] # 0}

-----------------------------------------------------------------------------
(* Notion.                                                                 *)

\* An item appears among the results with time t.  If a search has got as far
\* as t, or the next will stop before it, it is missed for the time being.
Ahead(q, t) == q.pc = "search" /\ q.from < t /\ t < q.cursor
Missed(t) == \/ \E w \in copies \cup {watermark} : t <= w
             \/ \E h \in Handlers : t <= sync[h].newest /\ ~Ahead(sync[h], t)

Appears(i, t) ==
  /\ edited' = [edited EXCEPT ![i] = t]
  /\ excused' = IF Missed(t) THEN excused \cup {i} ELSE excused \ {i}
  /\ ingested' = ingested \ {i}
  /\ UNCHANGED <<clock, watermark, copies, sync, faults, overlapped>>

\* A second edit within a minute cannot be told from the first.
Edit(i) == edited[i] < clock /\ Appears(i, clock)

\* The connection is given access to an item that was edited before.
Share(i) == edited[i] = 0 /\ \E t \in Times : t < clock /\ Appears(i, t)

\* The item is archived, or access is withdrawn.
Hide(i) ==
  /\ i \in Visible
  /\ edited' = [edited EXCEPT ![i] = 0]
  /\ ingested' = ingested \ {i}
  /\ excused' = excused \ {i}
  /\ UNCHANGED <<clock, watermark, copies, sync, faults, overlapped>>

Tick ==
  /\ clock < MaxTime
  /\ clock' = clock + 1
  /\ UNCHANGED <<edited, watermark, copies, sync, ingested, excused, faults,
                 overlapped>>

-----------------------------------------------------------------------------
(* NotionClient.Sync.                                                      *)

Begin(h) ==
  /\ ~Busy(h)
  /\ sync' = [sync EXCEPT ![h] = [Idle EXCEPT !.pc = "search", !.from = watermark,
                                    !.newest = watermark, !.cursor = MaxTime]]
  /\ overlapped' = (overlapped \/ copies # {} \/ \E g \in Handlers : Busy(g))
  /\ UNCHANGED <<edited, clock, watermark, copies, ingested, excused, faults>>

After(q, i) == edited[i] < q.cursor \/ (edited[i] = q.cursor /\ i \notin q.seen)
\* Mutant: archived items are among the results.
Rest_Archived(q) == {i \in Items : After(q, i)}
\* The results after the cursor, newest first; which of two with one time is
\* first is Notion's choice.
Rest(q) == {i \in Visible : After(q, i)}
IsResults(R, rest) ==
  /\ \A i \in R, j \in rest \ R : edited[i] >= edited[j]
  /\ Cardinality(R) <= PageSize
  /\ R # rest => Cardinality(R) = PageSize
\* Mutant: what is edited in the minute of the watermark is new.
Beyond_Inclusive(q, i) == q.from = 0 \/ edited[i] >= q.from
Beyond(q, i) == q.from = 0 \/ edited[i] > q.from
Searched(q) == [q EXCEPT !.pc = "harvest", !.from = 0, !.page = 0, !.seen = {},
                         !.cursor = 0]
GivenUp(q, left) == {i \in left : Beyond(q, i)}

\* R is what one request returned: the first result at or below the watermark
\* is the end, and so is the last page.
Fresh(q, R) == {i \in R : Beyond(q, i)}
Done(q, R) == Fresh(q, R) # R \/ R = Rest(q)
Ends(q, R) == Done(q, R) \/ q.page + 1 = MaxPages
\* The first result of all is the next watermark.
Read(q, R, first, last) ==
  [q EXCEPT !.page = q.page + 1,
            !.newest = IF q.page = 0 THEN edited[first] ELSE q.newest,
            !.seen = {i \in R : edited[i] = edited[last]} \cup
                       IF edited[last] = q.cursor THEN q.seen ELSE {},
            !.cursor = edited[last],
            !.todo = q.todo \cup {<<i, edited[i]>> : i \in Fresh(q, R)}]

\* One request of discoverAll.  What is left after MaxPages is not found.
SearchPage(h) ==
  LET q == sync[h] IN
  /\ q.pc = "search"
  /\ \E R \in SUBSET Rest(q) : \E first, last \in R :
       LET next == Read(q, R, first, last) IN
       /\ IsResults(R, Rest(q))
       /\ \A i \in R : edited[last] <= edited[i] /\ edited[i] <= edited[first]
       /\ sync' = [sync EXCEPT ![h] = IF Ends(q, R) THEN Searched(next) ELSE next]
       /\ excused' = IF Ends(q, R) /\ ~Done(q, R)
                       THEN excused \cup GivenUp(q, Rest(q) \ R) ELSE excused
  /\ UNCHANGED <<edited, clock, watermark, copies, ingested, faults,
                 overlapped>>

SearchEmpty(h) ==
  /\ sync[h].pc = "search" /\ Rest(sync[h]) = {}
  /\ sync' = [sync EXCEPT ![h] = Searched(sync[h])]
  /\ UNCHANGED <<edited, clock, watermark, copies, ingested, excused, faults,
                 overlapped>>

\* The error is returned if there are no results yet; else the sync goes on
\* with what there is, and the new watermark.
SearchFails(h) ==
  LET q == sync[h] IN
  /\ q.pc = "search"
  /\ faults < MaxFaults
  /\ faults' = faults + 1
  /\ IF q.todo = {}
       THEN /\ sync' = [sync EXCEPT ![h] = Idle]
            /\ UNCHANGED excused
       ELSE /\ sync' = [sync EXCEPT ![h] = Searched(q)]
            /\ excused' = excused \cup GivenUp(q, Rest(q))
  /\ UNCHANGED <<edited, clock, watermark, copies, ingested, overlapped>>

\* The schema and rows of each database found.  A failing request is a
\* warning: what was not read is not ingested.
Harvest(h) ==
  LET q == sync[h] IN
  /\ q.pc = "harvest"
  /\ \E failed \in SUBSET {f \in q.todo : f[1] \in Databases} :
       /\ faults + Cardinality(failed) <= MaxFaults
       /\ faults' = faults + Cardinality(failed)
       /\ sync' = [sync EXCEPT ![h].pc = "ingest", ![h].todo = q.todo \ failed]
       /\ excused' = excused \cup {i \in Items : <<i, edited[i]>> \in failed}
  /\ UNCHANGED <<edited, clock, watermark, copies, ingested, overlapped>>

-----------------------------------------------------------------------------
(* integrationSyncRunner.run.                                              *)

Ingest(h) ==
  /\ sync[h].pc = "ingest"
  /\ \E f \in sync[h].todo :
       /\ ingested' = IF edited[f[1]] = f[2] THEN ingested \cup {f[1]} ELSE ingested
       /\ sync' = [sync EXCEPT ![h].todo = sync[h].todo \ {f}]
  /\ UNCHANGED <<edited, clock, watermark, copies, excused, faults, overlapped>>

\* Mutant: the watermark is stored although the sync failed.
Fail_SavesWatermark(h) ==
  /\ sync[h].pc # "idle"
  /\ faults < MaxFaults
  /\ faults' = faults + 1
  /\ watermark' = sync[h].newest
  /\ sync' = [sync EXCEPT ![h] = Idle]
  /\ UNCHANGED <<edited, clock, copies, ingested, excused, overlapped>>

\* A row cannot be written, or the process dies: the watermark stays.
Fail(h) ==
  /\ sync[h].pc # "idle"
  /\ faults < MaxFaults
  /\ faults' = faults + 1
  /\ sync' = [sync EXCEPT ![h] = Idle]
  /\ UNCHANGED <<edited, clock, watermark, copies, ingested, excused,
                 overlapped>>

\* Mutant: the time of the sync becomes the watermark.
SaveWatermark_Now(h) ==
  /\ sync[h].pc = "ingest" /\ sync[h].todo = {}
  /\ watermark' = clock
  /\ sync' = [sync EXCEPT ![h] = Idle]
  /\ UNCHANGED <<edited, clock, copies, ingested, excused, faults, overlapped>>

SaveWatermark(h) ==
  /\ sync[h].pc = "ingest" /\ sync[h].todo = {}
  /\ watermark' = sync[h].newest
  /\ sync' = [sync EXCEPT ![h] = Idle]
  /\ UNCHANGED <<edited, clock, copies, ingested, excused, faults, overlapped>>

-----------------------------------------------------------------------------
(* IntegrationService.Connect and RotateCredentials read the row and save  *)
(* the whole of it: an older watermark may come back.                      *)

ReadRow ==
  /\ Connects /\ copies = {} /\ copies' = {watermark}
  /\ overlapped' = (overlapped \/ \E g \in Handlers : Busy(g))
  /\ UNCHANGED <<edited, clock, watermark, sync, ingested, excused, faults>>

SaveRow ==
  /\ copies # {} /\ copies' = {}
  /\ watermark' \in copies
  /\ UNCHANGED <<edited, clock, sync, ingested, excused, faults, overlapped>>

-----------------------------------------------------------------------------
Handle(h) ==
  \/ Begin(h) \/ SearchPage(h) \/ SearchEmpty(h) \/ Harvest(h)
  \/ Ingest(h) \/ SaveWatermark(h)

Next ==
  \/ \E i \in Items : Edit(i) \/ Share(i) \/ Hide(i)
  \/ Tick \/ ReadRow \/ SaveRow
  \/ \E h \in Handlers : Handle(h) \/ SearchFails(h) \/ Fail(h)

Spec == Init /\ [][Next]_vars

\* The periodic resync starts a sync again and again, and a handler goes on.
FairSpec == Spec /\ \A h \in Handlers : WF_vars(Handle(h))

-----------------------------------------------------------------------------
(* Properties.                                                             *)

\* What Notion shows at or below the stored watermark has been ingested: the
\* watermark never passes an edit, although people edit, share and archive
\* while a search is paged through, syncs overlap, an older row is saved, and
\* any of them may fail half way.  Excused are only items whose edit was
\* stamped with a time a search had already reached, what a search cut short
\* left out, and databases whose rows could not be read.
Shown == Visible \ excused
IngestedUpTo(w) == \A i \in Shown : edited[i] <= w => i \in ingested
NothingSkipped == IngestedUpTo(watermark)

\* The inductive invariant of NothingSkipped.  What a search will stop at has
\* been passed by nothing, and what it will store as the watermark will be
\* passed by nothing once it has ingested what it found and is yet to find.
Begun(q) == q.newest = q.from /\ q.cursor = MaxTime /\ q.seen = {}
ToFind(q, i) == q.pc = "search" /\ q.from < edited[i] /\ After(q, i)
SyncCovers(q) ==
  /\ q.from <= q.newest /\ IngestedUpTo(q.from)
  /\ q.pc = "search" => q.page < MaxPages /\ (q.page = 0 => Begun(q))
  /\ \A i \in Shown : edited[i] <= q.newest =>
       i \in ingested \/ <<i, edited[i]>> \in q.todo \/ ToFind(q, i)

WatermarkInv ==
  /\ TypeOK
  /\ \A w \in copies \cup {watermark} : IngestedUpTo(w)
  /\ \A h \in Handlers : SyncCovers(sync[h])

\* Syncs that do not overlap or fail surface an edit once, although the
\* newest item of a sync is the first result of the next one too.
Calm == faults = 0 /\ ~overlapped
Current(f) == edited[f[1]] = f[2]
EachEditOnce ==
  [][\A h \in Handlers : sync[h].pc = "ingest" /\ sync'[h].pc = "ingest" =>
       \A f \in sync[h].todo \ sync'[h].todo :
         Calm /\ Current(f) => f[1] \notin ingested]_vars

\* The inductive invariant of EachEditOnce.  In calm one handler at most is
\* busy, and no other copy of the watermark is held; what was ingested is not
\* beyond the watermark, nor is the handler going to ingest it.
Alone ==
  /\ \A w \in copies : w = watermark
  /\ \A g, h \in Handlers : Busy(g) /\ Busy(h) => g = h
  /\ copies # {} => \A h \in Handlers : ~Busy(h)

SyncBounds(q) ==
  /\ \A f \in q.todo : f[2] <= q.newest
  /\ q.pc = "search" =>
       /\ q.page > 0 => q.from < q.newest /\ q.cursor <= q.newest
       /\ \A f \in q.todo : q.from < f[2]
       /\ \A i \in ingested : edited[i] <= q.from
  /\ q.pc \in {"harvest", "ingest"} =>
       \A i \in ingested : edited[i] <= q.newest /\ <<i, edited[i]>> \notin q.todo

OnceInv ==
  /\ WatermarkInv
  /\ ingested \subseteq Visible
  /\ Calm => /\ Alone
             /\ \A h \in Handlers : SyncBounds(sync[h])
             /\ (\A h \in Handlers : ~Busy(h)) => \A i \in ingested : edited[i] <= watermark

\* Every edit that is not excused is ingested in the end, although requests,
\* statements and processes fail: the watermark of a sync that failed is not
\* stored, so that the next one finds again what it had found.
Due(i) == i \in Visible \ (excused \cup ingested)
EditsArrive == \A i \in Items : Due(i) ~> ~Due(i)
=============================================================================
