--------------------------- MODULE DiscoveryProofs ---------------------------
(***************************************************************************)
(* Discovery: the watermark never passes an edit, and syncs that do not    *)
(* overlap or fail surface an edit once, for any number of items, handlers *)
(* and faults, and any page size and page limit.                           *)
(***************************************************************************)
EXTENDS Discovery, FiniteSetTheorems, TLAPS

(***************************************************************************)
(* Types                                                                   *)
(***************************************************************************)

LEMMA Bounds == 0 \in 0 .. MaxTime /\ 0 \in 0 .. MaxPages /\ MaxTime \in 0 .. MaxTime
  BY SizeAssumption

LEMMA IdleType == Idle \in Sync
  BY Bounds DEF Idle, Sync

\* Handler h goes on as q, and the others stay.
LEMMA HandlerMoves ==
  ASSUME TypeOK, NEW h \in Handlers, NEW q \in Sync, sync' = [sync EXCEPT ![h] = q]
  PROVE  /\ sync' \in [Handlers -> Sync]
         /\ sync'[h] = q
         /\ \A g \in Handlers : g # h => sync'[g] = sync[g]
  BY DEF TypeOK

LEMMA TimesType ==
  ASSUME TypeOK, NEW i \in Items
  PROVE  edited[i] \in Nat /\ edited[i] <= MaxTime /\ (edited[i] # 0 => edited[i] \in Times)
  BY SizeAssumption DEF TypeOK, Times

LEMMA SearchedType ==
  ASSUME NEW q \in Sync
  PROVE  Searched(q) \in Sync
  BY Bounds DEF Searched, Sync

\* What is left to ingest is finite: times are bounded.
LEMMA TodoFinite ==
  ASSUME NEW q \in Sync, NEW S \in SUBSET q.todo
  PROVE  IsFiniteSet(S) /\ Cardinality(S) \in Nat
<1>1. IsFiniteSet(Times)
  BY SizeAssumption, FS_Interval DEF Times
<1>2. IsFiniteSet(Found)
  BY <1>1, SizeAssumption, FS_Product DEF Found
<1>3. S \subseteq Found
  BY DEF Sync
<1>4. IsFiniteSet(S)
  BY <1>2, <1>3, FS_Subset
<1> QED  BY <1>4, FS_CardinalityType

(***************************************************************************)
(* The watermark: steps of a handler                                       *)
(***************************************************************************)

\* What was passed by nothing still is when more is ingested or excused.
LEMMA UpToKept ==
  ASSUME NEW w, IngestedUpTo(w), UNCHANGED edited,
         excused \subseteq excused', ingested \subseteq ingested'
  PROVE  IngestedUpTo(w)'
  BY DEF IngestedUpTo, Shown, Visible

LEMMA OthersCover ==
  ASSUME NEW g \in Handlers, SyncCovers(sync[g]), sync'[g] = sync[g], UNCHANGED edited,
         excused \subseteq excused', ingested \subseteq ingested'
  PROVE  SyncCovers(sync[g])'
  BY DEF SyncCovers, IngestedUpTo, Shown, Visible, Begun, ToFind, After

\* A handler goes on as q, and the row of the connection is left alone.
HandlerStep(h, q) ==
  /\ sync' = [sync EXCEPT ![h] = q]
  /\ UNCHANGED <<edited, clock, watermark, copies>>
  /\ excused \subseteq excused' /\ excused' \subseteq Items
  /\ ingested \subseteq ingested' /\ ingested' \subseteq Items
  /\ faults' \in 0 .. MaxFaults /\ overlapped' \in BOOLEAN

LEMMA HandlerStepInv ==
  ASSUME WatermarkInv, NEW h \in Handlers, NEW q \in Sync, HandlerStep(h, q),
         SyncCovers(q)'
  PROVE  WatermarkInv'
<1> USE DEF WatermarkInv, HandlerStep
<1>1. TypeOK'
  BY HandlerMoves DEF TypeOK
<1>2. \A w \in copies' \cup {watermark'} : IngestedUpTo(w)'
  BY UpToKept
<1>3. ASSUME NEW g \in Handlers PROVE SyncCovers(sync[g])'
  <2>1. CASE g = h
    BY <2>1, HandlerMoves DEF SyncCovers, IngestedUpTo, Begun, ToFind, After
  <2>2. CASE g # h
    BY <2>2, HandlerMoves, OthersCover
  <2> QED  BY <2>1, <2>2
<1> QED  BY <1>1, <1>2, <1>3

LEMMA IdleCovers ==
  ASSUME edited' \in [Items -> 0 .. MaxTime]
  PROVE  SyncCovers(Idle)'
  BY SizeAssumption DEF SyncCovers, Idle, IngestedUpTo, Shown, Visible

LEMMA BeginInv ==
  ASSUME WatermarkInv, NEW h \in Handlers, Begin(h)
  PROVE  WatermarkInv'
<1> USE DEF WatermarkInv
<1>1. PICK q : q = [Idle EXCEPT !.pc = "search", !.from = watermark,
                                !.newest = watermark, !.cursor = MaxTime]
  OBVIOUS
<1>2. q \in Sync
  BY <1>1, IdleType, Bounds DEF TypeOK, Sync
<1>3. HandlerStep(h, q)
  BY <1>1 DEF Begin, HandlerStep, TypeOK
<1>4. SyncCovers(q)'
  <2>1. IngestedUpTo(watermark) /\ UNCHANGED <<edited, excused, ingested>>
    BY DEF Begin
  <2>2. watermark <= watermark
    BY SizeAssumption DEF TypeOK
  <2>3. 0 < MaxPages
    BY SizeAssumption
  <2> QED  BY <1>1, <2>1, <2>2, <2>3
           DEF SyncCovers, IngestedUpTo, Shown, Visible, Begun, Idle
<1> QED  BY <1>2, <1>3, <1>4, HandlerStepInv

\* One request of the search: whatever page of results comes back, and
\* whether or not it is the last.
LEMMA SearchPageInv ==
  ASSUME WatermarkInv, NEW h \in Handlers, SearchPage(h)
  PROVE  WatermarkInv'
<1> DEFINE q    == sync[h]
           rest == Rest(q)
<1> USE DEF WatermarkInv
<1>0. PICK R \in SUBSET rest : \E first, last \in R :
        /\ IsResults(R, rest)
        /\ \A i \in R : edited[last] <= edited[i] /\ edited[i] <= edited[first]
        /\ sync' = [sync EXCEPT ![h] = IF Ends(q, R) THEN Searched(Read(q, R, first, last))
                                      ELSE Read(q, R, first, last)]
        /\ excused' = IF Ends(q, R) /\ ~Done(q, R) THEN excused \cup GivenUp(q, rest \ R)
                       ELSE excused
  BY DEF SearchPage
<1>1. PICK first \in R, last \in R :
        /\ IsResults(R, rest)
        /\ \A i \in R : edited[last] <= edited[i] /\ edited[i] <= edited[first]
        /\ sync' = [sync EXCEPT ![h] = IF Ends(q, R) THEN Searched(Read(q, R, first, last))
                                      ELSE Read(q, R, first, last)]
        /\ excused' = IF Ends(q, R) /\ ~Done(q, R) THEN excused \cup GivenUp(q, rest \ R)
                       ELSE excused
  BY <1>0
<1> DEFINE fresh == Fresh(q, R)
           done  == Done(q, R)
           ends  == Ends(q, R)
           after == Read(q, R, first, last)
<1>2. /\ q.pc = "search" /\ q \in Sync /\ SyncCovers(q)
      /\ q.page < MaxPages /\ (q.page = 0 => Begun(q))
      /\ UNCHANGED <<edited, clock, watermark, copies, ingested, faults, overlapped>>
  BY DEF SearchPage, TypeOK, SyncCovers
<1>3. rest \subseteq Items /\ \A i \in rest : edited[i] # 0
  BY DEF Rest, Visible
<1>4. PICK p : p = IF ends THEN Searched(after) ELSE after
  OBVIOUS
<1>5. p \in Sync
  <2>1. q.page + 1 \in 0 .. MaxPages
    BY <1>2, SizeAssumption DEF Sync
  <2>2. edited[first] \in 0 .. MaxTime /\ edited[last] \in 0 .. MaxTime
    BY <1>3 DEF TypeOK
  <2>3. {<<i, edited[i]>> : i \in fresh} \subseteq Found
    BY <1>3, TimesType DEF Found, Fresh
  <2>4. after \in Sync
    BY <1>2, <1>3, <2>1, <2>2, <2>3 DEF Sync, Read
  <2> QED  BY <1>4, <2>4, SearchedType
<1>6. HandlerStep(h, p)
  <2>1. excused \subseteq excused' /\ excused' \subseteq Items
    BY <1>1, <1>3 DEF GivenUp, TypeOK
  <2>2. sync' = [sync EXCEPT ![h] = p]
    BY <1>1, <1>4
  <2> HIDE DEF q, rest
  <2> QED  BY <1>2, <2>1, <2>2 DEF HandlerStep, TypeOK
<1>7. \A i \in Items : edited[i] \in Nat /\ edited[i] <= MaxTime
  BY TimesType
<1>8. /\ q.from \in Nat /\ q.newest \in Nat /\ q.cursor \in Nat
      /\ q.from <= q.newest /\ IngestedUpTo(q.from)
  BY <1>2 DEF Sync, SyncCovers
\* What is not among the results at all was covered before.
<1>9. ASSUME NEW i \in Shown, i \notin rest, edited[i] <= q.newest
      PROVE  i \in ingested \/ <<i, edited[i]>> \in q.todo
  BY <1>2, <1>9 DEF SyncCovers, ToFind, Rest, Shown
<1>10. q.page = 0 => \A i \in Visible : i \in rest
  BY <1>2, <1>7, SizeAssumption DEF Begun, Rest, After, Visible
<1>11. q.page # 0 => p.newest = q.newest
  BY <1>4, <1>2 DEF Searched, Sync, Read
<1>12. \A i \in fresh : <<i, edited[i]>> \in p.todo
  BY <1>4, <1>2 DEF Searched, Sync, Read
<1>13. q.todo \subseteq p.todo
  BY <1>4, <1>2 DEF Searched, Sync, Read
<1>14. \A i \in R \ fresh : i \in Shown => i \in ingested
  BY <1>3, <1>7, <1>8 DEF Fresh, Beyond, IngestedUpTo
<1>15. CASE ends
  <2>1. p.pc = "harvest" /\ p.from = 0
    BY <1>15, <1>4, <1>2 DEF Searched, Sync, Read
  <2>2. ASSUME NEW i \in Shown', edited[i] <= p.newest
        PROVE  i \in ingested \/ <<i, edited[i]>> \in p.todo
    <3>1. i \in Shown /\ i \in Visible /\ i \in Items
      BY <1>6, <1>2 DEF Shown, Visible, HandlerStep
    <3>2. CASE i \in R
      BY <3>1, <3>2, <1>12, <1>14
    <3>3. CASE i \in rest \ R
      <4>1. CASE done
        <5>1. PICK x \in R : ~Beyond(q, x)
          BY <3>3, <4>1 DEF Done, Fresh
        <5>2. edited[i] <= edited[x]
          BY <1>1, <3>3 DEF IsResults
        <5>3. edited[i] <= q.from
          BY <5>1, <5>2, <1>3, <1>7, <1>8, <3>1 DEF Beyond
        <5> QED  BY <5>3, <3>1, <1>8 DEF IngestedUpTo
      <4>2. CASE ~done
        <5>1. i \notin GivenUp(q, rest \ R)
          BY <1>1, <1>15, <4>2 DEF Shown
        <5>2. edited[i] <= q.from
          BY <5>1, <3>3, <3>1, <1>7, <1>8 DEF GivenUp, Beyond
        <5> QED  BY <5>2, <3>1, <1>8 DEF IngestedUpTo
      <4> QED  BY <4>1, <4>2
    <3>4. CASE i \notin rest
      BY <3>1, <3>4, <2>2, <1>9, <1>10, <1>11, <1>13
    <3> QED  BY <3>2, <3>3, <3>4
  <2>3. IngestedUpTo(0)'
    BY <1>2, <1>7 DEF IngestedUpTo, Shown, Visible
  <2>4. 0 <= p.newest
    BY <1>5 DEF Sync
  <2>5. SyncCovers(p)'
    BY <2>1, <2>2, <2>3, <2>4, <1>2 DEF SyncCovers
  <2> QED  BY <1>5, <1>6, <2>5, HandlerStepInv
<1>16. CASE ~ends
  <2>1. /\ p.pc = "search" /\ p.from = q.from /\ p.page = q.page + 1
        /\ p.cursor = edited[last]
        /\ p.seen = {i \in R : edited[i] = edited[last]} \cup
                      IF edited[last] = q.cursor THEN q.seen ELSE {}
        /\ p.newest = IF q.page = 0 THEN edited[first] ELSE q.newest
    BY <1>16, <1>4, <1>2 DEF Sync, Read
  <2>2. fresh = R /\ excused' = excused
    BY <1>16, <1>1 DEF Ends, Done, Fresh
  <2>3. Shown' = Shown
    BY <2>2, <1>2 DEF Shown, Visible
  <2>4. ASSUME NEW i \in Shown, edited[i] <= p.newest
        PROVE  \/ i \in ingested \/ <<i, edited[i]>> \in p.todo
               \/ p.from < edited[i] /\ After(p, i)
    <3>1. i \in Visible /\ i \in Items
      BY DEF Shown, Visible
    <3>2. CASE i \in R
      BY <3>2, <2>2, <1>12
    <3>3. CASE i \in rest \ R
      <4>1. edited[i] <= edited[last]
        BY <1>1, <3>3 DEF IsResults
      <4>2. After(p, i)
        BY <4>1, <2>1, <3>1, <3>3, <1>3, <1>7 DEF After, Rest
      <4>3. edited[i] <= q.from => i \in ingested
        BY <1>8 DEF IngestedUpTo
      <4> QED  BY <4>2, <4>3, <2>1, <3>1, <1>7, <1>8
    <3>4. CASE i \notin rest
      BY <3>1, <3>4, <2>4, <1>9, <1>10, <1>11, <1>13
    <3> QED  BY <3>2, <3>3, <3>4
  <2>5. p.from <= p.newest
    <3>1. Beyond(q, first) /\ first \in Items
      BY <2>2, <1>3 DEF Fresh
    <3>2. edited[first] \in Nat
      BY <3>1, <1>7
    <3> QED  BY <3>1, <3>2, <2>1, <1>8 DEF Beyond
  <2>6. p.page < MaxPages /\ p.page # 0
    BY <1>16, <2>1, <1>2, SizeAssumption DEF Sync, Ends
  <2>7. IngestedUpTo(p.from)'
    BY <2>1, <2>3, <1>2, <1>8 DEF IngestedUpTo
  <2>8. SyncCovers(p)'
    BY <2>1, <2>3, <2>4, <2>5, <2>6, <2>7, <1>2 DEF SyncCovers, ToFind, After
  <2> QED  BY <1>5, <1>6, <2>8, HandlerStepInv
<1> QED  BY <1>15, <1>16

LEMMA SearchEmptyInv ==
  ASSUME WatermarkInv, NEW h \in Handlers, SearchEmpty(h)
  PROVE  WatermarkInv'
<1> USE DEF WatermarkInv
<1>1. PICK p : p = Searched(sync[h])
  OBVIOUS
<1>2. sync[h] \in Sync /\ SyncCovers(sync[h])
  BY DEF TypeOK
<1>3. p \in Sync
  BY <1>1, <1>2, SearchedType
<1>4. HandlerStep(h, p)
  BY <1>1 DEF SearchEmpty, HandlerStep, TypeOK
<1>5. p.pc = "harvest" /\ p.from = 0 /\ p.newest = sync[h].newest /\ p.todo = sync[h].todo
  BY <1>1, <1>2 DEF Searched, Sync
<1>6. ASSUME NEW i \in Shown, edited[i] <= sync[h].newest
      PROVE  i \in ingested \/ <<i, edited[i]>> \in sync[h].todo
  BY <1>2, <1>6 DEF SearchEmpty, SyncCovers, ToFind, Rest, Shown
<1>7. IngestedUpTo(0)' /\ 0 <= p.newest
  BY <1>3, TimesType DEF SearchEmpty, IngestedUpTo, Shown, Visible, Sync
<1>8. SyncCovers(p)'
  BY <1>5, <1>6, <1>7 DEF SearchEmpty, SyncCovers, Shown, Visible
<1> QED  BY <1>3, <1>4, <1>8, HandlerStepInv

LEMMA FaultCounts ==
  ASSUME TypeOK, faults < MaxFaults, faults' = faults + 1
  PROVE  faults' \in 0 .. MaxFaults
  BY SizeAssumption DEF TypeOK

\* A handler that gives up forgets what it was doing.
LEMMA IdleInv ==
  ASSUME WatermarkInv, NEW h \in Handlers, HandlerStep(h, Idle)
  PROVE  WatermarkInv'
<1>1. edited' \in [Items -> 0 .. MaxTime]
  BY DEF HandlerStep, WatermarkInv, TypeOK
<1> QED  BY <1>1, IdleType, IdleCovers, HandlerStepInv

LEMMA SearchFailsInv ==
  ASSUME WatermarkInv, NEW h \in Handlers, SearchFails(h)
  PROVE  WatermarkInv'
<1> USE DEF WatermarkInv
<1>1. faults' \in 0 .. MaxFaults
  BY FaultCounts DEF SearchFails
<1>2. CASE sync[h].todo = {}
  BY <1>1, <1>2, IdleInv DEF SearchFails, HandlerStep, TypeOK
<1>3. CASE sync[h].todo # {}
  <2>1. PICK p : p = Searched(sync[h])
    OBVIOUS
  <2>2. sync[h] \in Sync /\ SyncCovers(sync[h]) /\ sync[h].pc = "search"
    BY DEF TypeOK, SearchFails
  <2>3. p \in Sync
    BY <2>1, <2>2, SearchedType
  <2>4. /\ sync' = [sync EXCEPT ![h] = p]
        /\ excused' = excused \cup GivenUp(sync[h], Rest(sync[h]))
        /\ UNCHANGED <<edited, clock, watermark, copies, ingested, overlapped>>
    BY <1>3, <2>1 DEF SearchFails
  <2>5. HandlerStep(h, p)
    BY <1>1, <2>4 DEF HandlerStep, TypeOK, GivenUp, Rest, Visible
  <2>6. p.pc = "harvest" /\ p.from = 0 /\ p.newest = sync[h].newest /\ p.todo = sync[h].todo
    BY <2>1, <2>2 DEF Searched, Sync
  <2>7. ASSUME NEW i \in Shown', edited[i] <= sync[h].newest
        PROVE  i \in ingested \/ <<i, edited[i]>> \in sync[h].todo
    <3>1. i \in Shown /\ i \in Visible
      BY <2>4 DEF Shown, Visible
    <3>2. ToFind(sync[h], i) => i \in GivenUp(sync[h], Rest(sync[h]))
      BY <3>1 DEF ToFind, GivenUp, Rest, Beyond
    <3>3. i \notin GivenUp(sync[h], Rest(sync[h]))
      BY <2>4 DEF Shown
    <3> QED  BY <2>2, <2>7, <3>1, <3>2, <3>3 DEF SyncCovers
  <2>8. IngestedUpTo(0)' /\ 0 <= p.newest
    BY <2>3, <2>4, TimesType DEF IngestedUpTo, Shown, Visible, Sync
  <2>9. SyncCovers(p)'
    BY <2>4, <2>6, <2>7, <2>8 DEF SyncCovers
  <2> QED  BY <2>3, <2>5, <2>9, HandlerStepInv
<1> QED  BY <1>2, <1>3

LEMMA HarvestInv ==
  ASSUME WatermarkInv, NEW h \in Handlers, Harvest(h)
  PROVE  WatermarkInv'
<1> USE DEF WatermarkInv
<1>1. PICK failed \in SUBSET {f \in sync[h].todo : f[1] \in Databases} :
        /\ faults + Cardinality(failed) <= MaxFaults
        /\ faults' = faults + Cardinality(failed)
        /\ sync' = [sync EXCEPT ![h].pc = "ingest", ![h].todo = sync[h].todo \ failed]
        /\ excused' = excused \cup {i \in Items : <<i, edited[i]>> \in failed}
  BY DEF Harvest
<1>2. /\ sync[h] \in Sync /\ SyncCovers(sync[h]) /\ sync[h].pc = "harvest"
      /\ UNCHANGED <<edited, clock, watermark, copies, ingested, overlapped>>
  BY DEF TypeOK, Harvest
<1>3. PICK p : p = [sync[h] EXCEPT !.pc = "ingest", !.todo = sync[h].todo \ failed]
  OBVIOUS
<1>4. p \in Sync
  BY <1>2, <1>3 DEF Sync
<1>5. faults' \in 0 .. MaxFaults
  <2>1. Cardinality(failed) \in Nat
    BY <1>2, TodoFinite
  <2> QED  BY <2>1, <1>1, SizeAssumption DEF TypeOK
<1>6. HandlerStep(h, p)
  <2>1. sync' = [sync EXCEPT ![h] = p]
    BY <1>1, <1>3 DEF TypeOK
  <2> QED  BY <2>1, <1>1, <1>2, <1>5 DEF HandlerStep, TypeOK
<1>7. /\ p.pc = "ingest" /\ p.from = sync[h].from /\ p.newest = sync[h].newest
      /\ p.todo = sync[h].todo \ failed
  BY <1>2, <1>3 DEF Sync
<1>8. ASSUME NEW i \in Shown', edited[i] <= sync[h].newest
      PROVE  i \in ingested \/ <<i, edited[i]>> \in p.todo
  <2>1. i \in Shown /\ <<i, edited[i]>> \notin failed
    BY <1>1, <1>2 DEF Shown, Visible
  <2> QED  BY <2>1, <1>2, <1>7, <1>8 DEF SyncCovers, ToFind
<1>9. IngestedUpTo(p.from)'
  BY <1>1, <1>2, <1>7 DEF SyncCovers, IngestedUpTo, Shown, Visible
<1>10. SyncCovers(p)'
  BY <1>2, <1>7, <1>8, <1>9 DEF SyncCovers
<1> QED  BY <1>4, <1>6, <1>10, HandlerStepInv

LEMMA IngestInv ==
  ASSUME WatermarkInv, NEW h \in Handlers, Ingest(h)
  PROVE  WatermarkInv'
<1> USE DEF WatermarkInv
<1>1. PICK f \in sync[h].todo :
        /\ ingested' = IF edited[f[1]] = f[2] THEN ingested \cup {f[1]} ELSE ingested
        /\ sync' = [sync EXCEPT ![h].todo = sync[h].todo \ {f}]
  BY DEF Ingest
<1>2. /\ sync[h] \in Sync /\ SyncCovers(sync[h]) /\ sync[h].pc = "ingest"
      /\ UNCHANGED <<edited, clock, watermark, copies, excused, faults, overlapped>>
  BY DEF TypeOK, Ingest
<1>3. PICK p : p = [sync[h] EXCEPT !.todo = sync[h].todo \ {f}]
  OBVIOUS
<1>4. p \in Sync
  BY <1>2, <1>3 DEF Sync
<1>5. f \in Items \X Times
  BY <1>2 DEF Sync, Found
<1>6. HandlerStep(h, p)
  <2>1. sync' = [sync EXCEPT ![h] = p]
    BY <1>1, <1>3 DEF TypeOK
  <2> QED  BY <2>1, <1>1, <1>2, <1>5 DEF HandlerStep, TypeOK
<1>7. /\ p.pc = "ingest" /\ p.from = sync[h].from /\ p.newest = sync[h].newest
      /\ p.todo = sync[h].todo \ {f}
  BY <1>2, <1>3 DEF Sync
<1>8. ASSUME NEW i \in Shown, edited[i] <= sync[h].newest
      PROVE  i \in ingested' \/ <<i, edited[i]>> \in p.todo
  <2>1. <<i, edited[i]>> = f => i \in ingested'
    BY <1>1
  <2> QED  BY <2>1, <1>1, <1>2, <1>7, <1>8 DEF SyncCovers, ToFind
<1>9. IngestedUpTo(p.from)'
  BY <1>1, <1>2, <1>7 DEF SyncCovers, IngestedUpTo, Shown, Visible
<1>10. SyncCovers(p)'
  BY <1>2, <1>7, <1>8, <1>9 DEF SyncCovers, Shown, Visible
<1> QED  BY <1>4, <1>6, <1>10, HandlerStepInv

LEMMA FailInv ==
  ASSUME WatermarkInv, NEW h \in Handlers, Fail(h)
  PROVE  WatermarkInv'
  BY FaultCounts, IdleInv DEF Fail, HandlerStep, WatermarkInv, TypeOK

LEMMA SaveWatermarkInv ==
  ASSUME WatermarkInv, NEW h \in Handlers, SaveWatermark(h)
  PROVE  WatermarkInv'
<1> USE DEF WatermarkInv
<1>1. /\ sync[h] \in Sync /\ SyncCovers(sync[h]) /\ sync[h].pc = "ingest" /\ sync[h].todo = {}
      /\ sync' = [sync EXCEPT ![h] = Idle] /\ watermark' = sync[h].newest
      /\ UNCHANGED <<edited, clock, copies, ingested, excused, faults, overlapped>>
  BY DEF SaveWatermark, TypeOK
<1>2. IngestedUpTo(sync[h].newest)
  BY <1>1 DEF SyncCovers, IngestedUpTo, ToFind
<1>3. \A w \in copies' \cup {watermark'} : IngestedUpTo(w)'
  BY <1>1, <1>2 DEF IngestedUpTo, Shown, Visible
<1>4. TypeOK'
  BY <1>1, IdleType, HandlerMoves DEF TypeOK, Sync
<1>5. ASSUME NEW g \in Handlers PROVE SyncCovers(sync[g])'
  <2>1. CASE g = h
    <3>1. SyncCovers(Idle)'
      BY <1>4, IdleCovers DEF TypeOK
    <3> QED  BY <2>1, <3>1, <1>1, IdleType, HandlerMoves
             DEF SyncCovers, IngestedUpTo, Begun, ToFind, After
  <2>2. CASE g # h
    BY <2>2, <1>1, IdleType, HandlerMoves, OthersCover
  <2> QED  BY <2>1, <2>2
<1> QED  BY <1>3, <1>4, <1>5

(***************************************************************************)
(* The watermark: the other steps                                          *)
(***************************************************************************)

\* What appears unexcused is beyond all that was passed, and ahead of every
\* search that will pass it.
LEMMA AppearsInv ==
  ASSUME WatermarkInv, NEW i \in Items, NEW t \in Times, Appears(i, t)
  PROVE  WatermarkInv'
<1> USE DEF WatermarkInv
<1>1. /\ edited' = [edited EXCEPT ![i] = t]
      /\ excused' = IF Missed(t) THEN excused \cup {i} ELSE excused \ {i}
      /\ ingested' = ingested \ {i}
      /\ UNCHANGED <<clock, watermark, copies, sync, faults, overlapped>>
  BY DEF Appears
<1>2. t \in Nat /\ t # 0 /\ t \in 0 .. MaxTime
  BY SizeAssumption DEF Times
<1>3. TypeOK'
  BY <1>1, <1>2 DEF TypeOK
<1>4. i \in Shown' => ~Missed(t)
  BY <1>1 DEF Shown
<1>5. ASSUME NEW j \in Shown', j # i
      PROVE  /\ j \in Shown /\ j \in Items /\ edited'[j] = edited[j]
             /\ (j \in ingested <=> j \in ingested')
  BY <1>1, <1>5 DEF Shown, Visible, TypeOK
<1>6. edited'[i] = t
  BY <1>1 DEF TypeOK
<1>7. ASSUME NEW w \in copies' \cup {watermark'} PROVE IngestedUpTo(w)'
  <2>1. IngestedUpTo(w)
    BY <1>1
  <2>2. ASSUME NEW j \in Shown', edited'[j] <= w PROVE j \in ingested'
    <3>1. j # i
      BY <2>2, <1>1, <1>4, <1>6 DEF Missed
    <3> QED  BY <3>1, <2>1, <2>2, <1>5 DEF IngestedUpTo
  <2> QED  BY <2>2 DEF IngestedUpTo
<1>8. ASSUME NEW h \in Handlers PROVE SyncCovers(sync[h])'
  <2>1. PICK q : q = sync[h]
    OBVIOUS
  <2>2. q \in Sync /\ SyncCovers(q) /\ sync'[h] = q
    BY <2>1, <1>1 DEF TypeOK
  <2>3. q.from \in Nat /\ q.newest \in Nat /\ q.from <= q.newest
    BY <2>2 DEF Sync, SyncCovers
  <2>4. i \in Shown' /\ t <= q.newest => Ahead(q, t)
    BY <2>1, <1>4 DEF Missed
  <2>5. i \in Shown' => ~(t <= q.from)
    BY <2>3, <2>4, <1>2 DEF Ahead
  <2>6. IngestedUpTo(q.from)'
    BY <2>2, <2>5, <1>5, <1>6 DEF SyncCovers, IngestedUpTo
  <2>7. ASSUME NEW j \in Shown', edited'[j] <= q.newest
        PROVE  j \in ingested' \/ <<j, edited'[j]>> \in q.todo \/ ToFind(q, j)'
    <3>1. CASE j = i
      BY <3>1, <2>4, <2>7, <1>6 DEF Ahead, ToFind, After
    <3>2. CASE j # i
      BY <3>2, <2>2, <2>7, <1>5 DEF SyncCovers, ToFind, After
    <3> QED  BY <3>1, <3>2
  <2>8. SyncCovers(q)'
    BY <2>2, <2>3, <2>6, <2>7 DEF SyncCovers, Begun
  <2> QED  BY <2>2, <2>8 DEF SyncCovers, IngestedUpTo, Begun, ToFind, After
<1> QED  BY <1>3, <1>7, <1>8

LEMMA EditInv ==
  ASSUME WatermarkInv, NEW i \in Items, Edit(i) \/ Share(i)
  PROVE  WatermarkInv'
<1>1. CASE Edit(i)
  BY <1>1, AppearsInv DEF Edit, WatermarkInv, TypeOK
<1>2. CASE Share(i)
  BY <1>2, AppearsInv DEF Share
<1> QED  BY <1>1, <1>2

LEMMA HideInv ==
  ASSUME WatermarkInv, NEW i \in Items, Hide(i)
  PROVE  WatermarkInv'
<1> USE DEF WatermarkInv
<1>1. /\ edited' = [edited EXCEPT ![i] = 0]
      /\ excused' = excused \ {i} /\ ingested' = ingested \ {i}
      /\ UNCHANGED <<clock, watermark, copies, sync, faults, overlapped>>
  BY DEF Hide
<1>2. TypeOK'
  BY <1>1, Bounds DEF TypeOK
<1>3. ASSUME NEW j \in Shown'
      PROVE  /\ j \in Shown /\ edited'[j] = edited[j]
             /\ (j \in ingested <=> j \in ingested')
  BY <1>1 DEF Shown, Visible, TypeOK
<1>4. \A w \in copies' \cup {watermark'} : IngestedUpTo(w)'
  BY <1>1, <1>3 DEF IngestedUpTo
<1>5. ASSUME NEW h \in Handlers PROVE SyncCovers(sync[h])'
  BY <1>1, <1>3 DEF SyncCovers, IngestedUpTo, Begun, ToFind, After
<1> QED  BY <1>2, <1>4, <1>5

LEMMA TickInv ==
  ASSUME WatermarkInv, Tick
  PROVE  WatermarkInv'
<1> USE DEF WatermarkInv
<1>1. TypeOK'
  BY SizeAssumption DEF Tick, TypeOK, Times
<1>2. \A w \in copies' \cup {watermark'} : IngestedUpTo(w)'
  BY UpToKept DEF Tick
<1>3. \A h \in Handlers : SyncCovers(sync[h])'
  BY OthersCover DEF Tick
<1> QED  BY <1>1, <1>2, <1>3

LEMMA RowInv ==
  ASSUME WatermarkInv, ReadRow \/ SaveRow
  PROVE  WatermarkInv'
<1> USE DEF WatermarkInv
<1>1. /\ copies' \cup {watermark'} \subseteq copies \cup {watermark}
      /\ overlapped' \in BOOLEAN
      /\ UNCHANGED <<edited, clock, sync, ingested, excused, faults>>
  BY DEF ReadRow, SaveRow, TypeOK
<1>2. TypeOK'
  BY <1>1 DEF TypeOK
<1>3. \A w \in copies' \cup {watermark'} : IngestedUpTo(w)'
  BY <1>1, UpToKept
<1>4. \A h \in Handlers : SyncCovers(sync[h])'
  BY <1>1, OthersCover
<1> QED  BY <1>2, <1>3, <1>4

LEMMA InitInv == Init => WatermarkInv
<1> SUFFICES ASSUME Init PROVE WatermarkInv
  OBVIOUS
<1>1. TypeOK
  <2>1. 1 \in Times /\ 0 \in 0 .. MaxFaults
    BY SizeAssumption DEF Times
  <2> QED  BY <2>1, IdleType, Bounds DEF Init, TypeOK
<1>2. Shown = {}
  BY DEF Init, Shown, Visible
<1>3. \A h \in Handlers : SyncCovers(sync[h])
  BY <1>2 DEF Init, SyncCovers, IngestedUpTo, Idle
<1> QED  BY <1>1, <1>2, <1>3 DEF WatermarkInv, IngestedUpTo

LEMMA NextInv == WatermarkInv /\ [Next]_vars => WatermarkInv'
<1> SUFFICES ASSUME WatermarkInv, [Next]_vars PROVE WatermarkInv'
  OBVIOUS
<1>1. CASE \E i \in Items : Edit(i) \/ Share(i) \/ Hide(i)
  BY <1>1, EditInv, HideInv
<1>2. CASE Tick \/ ReadRow \/ SaveRow
  BY <1>2, TickInv, RowInv
<1>3. CASE \E h \in Handlers : Handle(h) \/ SearchFails(h) \/ Fail(h)
  BY <1>3, BeginInv, SearchPageInv, SearchEmptyInv, HarvestInv, IngestInv,
     SaveWatermarkInv, SearchFailsInv, FailInv DEF Handle
<1>4. CASE UNCHANGED vars
  <2>1. UNCHANGED <<edited, clock, watermark, copies, sync, ingested, excused, faults,
                    overlapped>>
    BY <1>4 DEF vars
  <2> QED  BY <2>1 DEF WatermarkInv, TypeOK, IngestedUpTo, Shown, Visible, SyncCovers,
                       Begun, ToFind, After
<1> QED  BY <1>1, <1>2, <1>3, <1>4 DEF Next

THEOREM WatermarkHolds == Spec => []WatermarkInv
  BY InitInv, NextInv, PTL DEF Spec

\* Every state of every instance is type correct.
THEOREM TypeCorrect == Spec => []TypeOK
<1>1. WatermarkInv => TypeOK
  BY DEF WatermarkInv
<1> QED  BY <1>1, WatermarkHolds, PTL

\* For any number of items, handlers and faults, and any page size and page
\* limit, the watermark passes no edit that discoverAll does not give up.
THEOREM WatermarkPassesNothing == Spec => []NothingSkipped
<1>1. WatermarkInv => NothingSkipped
  BY DEF WatermarkInv, NothingSkipped
<1> QED  BY <1>1, WatermarkHolds, PTL

(***************************************************************************)
(* Each edit once: steps of a handler                                      *)
(***************************************************************************)

\* What was ingested stays within a sync's bounds when less counts as ingested.
LEMMA BoundsKept ==
  ASSUME NEW q, SyncBounds(q), \A j \in ingested' : j \in ingested /\ edited'[j] = edited[j]
  PROVE  SyncBounds(q)'
  BY DEF SyncBounds

LEMMA IdleBounds == SyncBounds(Idle)'
  BY DEF SyncBounds, Idle

\* In calm a handler that is busy is the only one, and goes on as q.
LEMMA OnceHandlerStep ==
  ASSUME OnceInv, WatermarkInv', NEW h \in Handlers, Busy(h), NEW q \in Sync,
         sync' = [sync EXCEPT ![h] = q], q.pc # "idle",
         UNCHANGED <<edited, watermark, copies>>, ingested' \subseteq Visible,
         Calm' => Calm /\ SyncBounds(q)'
  PROVE  OnceInv'
<1> USE DEF OnceInv
<1>1. /\ sync'[h] = q /\ Busy(h)'
      /\ \A g \in Handlers : g # h => sync'[g] = sync[g]
  BY HandlerMoves DEF WatermarkInv, Busy
<1>2. (ingested \subseteq Visible)'
  BY DEF Visible
<1>3. ASSUME Calm'
      PROVE  Alone' /\ \A g \in Handlers : SyncBounds(sync[g])'
  <2>1. Calm /\ Alone
    BY <1>3
  <2>2. Alone'
    BY <2>1, <1>1 DEF Alone, Busy
  <2>3. ASSUME NEW g \in Handlers, g # h PROVE SyncBounds(sync[g])'
    <3>1. sync[g].pc = "idle" /\ SyncBounds(sync[g])
      BY <2>1, <2>3 DEF Alone, Busy
    <3> QED  BY <3>1, <1>1, <2>3 DEF SyncBounds
  <2>4. SyncBounds(sync[h])'
    BY <1>1, <1>3 DEF SyncBounds
  <2> QED  BY <2>2, <2>3, <2>4
<1> QED  BY <1>1, <1>2, <1>3

LEMMA BeginOnce ==
  ASSUME OnceInv, WatermarkInv', NEW h \in Handlers, Begin(h)
  PROVE  OnceInv'
<1> USE DEF OnceInv
<1>1. PICK q : q = [Idle EXCEPT !.pc = "search", !.from = watermark,
                                !.newest = watermark, !.cursor = MaxTime]
  OBVIOUS
<1>2. q \in Sync
  BY <1>1, IdleType, Bounds DEF WatermarkInv, TypeOK, Sync
<1>3. /\ sync' = [sync EXCEPT ![h] = q]
      /\ UNCHANGED <<edited, watermark, copies, ingested, faults>>
      /\ overlapped' = (overlapped \/ copies # {} \/ \E g \in Handlers : Busy(g))
  BY <1>1 DEF Begin
<1>4. sync'[h] = q /\ \A g \in Handlers : g # h => sync'[g] = sync[g]
  BY <1>2, <1>3, HandlerMoves DEF WatermarkInv
<1>5. (ingested \subseteq Visible)' /\ Busy(h)'
  <2>1. q.pc = "search"
    BY <1>1 DEF Idle
  <2> QED  BY <2>1, <1>3, <1>4 DEF Visible, Busy
<1>6. ASSUME Calm'
      PROVE  Alone' /\ \A g \in Handlers : SyncBounds(sync[g])'
  <2>1. Calm /\ copies = {} /\ \A g \in Handlers : ~Busy(g)
    BY <1>3, <1>6 DEF Calm, WatermarkInv, TypeOK
  <2>2. Alone'
    BY <2>1, <1>3, <1>4 DEF Alone, Busy
  <2>3. ASSUME NEW g \in Handlers, g # h PROVE SyncBounds(sync[g])'
    BY <2>1, <2>3, <1>3, <1>4 DEF SyncBounds, Busy
  <2>4. \A i \in ingested : edited[i] <= watermark
    BY <2>1
  <2>5. /\ q.pc = "search" /\ q.page = 0 /\ q.todo = {} /\ q.from = watermark
    BY <1>1 DEF Idle
  <2>6. ~(0 > 0)
    OBVIOUS
  <2>7. SyncBounds(q)'
    BY <2>4, <2>5, <2>6, <1>3 DEF SyncBounds
  <2>8. SyncBounds(sync[h])'
    BY <2>7, <1>4 DEF SyncBounds
  <2> QED  BY <2>2, <2>3, <2>8
<1> QED  BY <1>5, <1>6

\* What a page of results adds lies between the watermark of the sync and the
\* newest item; what was ingested lies at or below the watermark.
LEMMA SearchPageOnce ==
  ASSUME OnceInv, WatermarkInv', NEW h \in Handlers, SearchPage(h)
  PROVE  OnceInv'
<1> DEFINE q    == sync[h]
           rest == Rest(q)
<1> USE DEF OnceInv
<1>1. PICK R \in SUBSET rest : \E first, last \in R :
        /\ IsResults(R, rest)
        /\ \A i \in R : edited[last] <= edited[i] /\ edited[i] <= edited[first]
        /\ sync' = [sync EXCEPT ![h] = IF Ends(q, R) THEN Searched(Read(q, R, first, last))
                                      ELSE Read(q, R, first, last)]
  BY DEF SearchPage
<1>2. PICK first \in R, last \in R :
        /\ IsResults(R, rest)
        /\ \A i \in R : edited[last] <= edited[i] /\ edited[i] <= edited[first]
        /\ sync' = [sync EXCEPT ![h] = IF Ends(q, R) THEN Searched(Read(q, R, first, last))
                                      ELSE Read(q, R, first, last)]
  BY <1>1
<1>3. PICK p : p = IF Ends(q, R) THEN Searched(Read(q, R, first, last))
                   ELSE Read(q, R, first, last)
  OBVIOUS
<1>4. /\ q.pc = "search" /\ q \in Sync /\ (q.page = 0 => Begun(q)) /\ Busy(h)
      /\ UNCHANGED <<edited, watermark, copies, ingested, faults, overlapped>>
  BY DEF SearchPage, WatermarkInv, TypeOK, SyncCovers, Busy
<1>5. q.from \in Nat /\ q.newest \in Nat /\ q.cursor \in Nat /\ q.page \in Nat
  BY <1>4 DEF Sync
<1>6. \A i \in Items : edited[i] \in Nat /\ edited[i] <= MaxTime
  BY TimesType DEF WatermarkInv
<1>7. R \subseteq Items /\ \A i \in R : edited[i] # 0 /\ edited[i] <= q.cursor
  BY <1>5, <1>6 DEF Rest, Visible, After
<1>8. /\ p.todo = q.todo \cup {<<i, edited[i]>> : i \in Fresh(q, R)}
      /\ p.newest = IF q.page = 0 THEN edited[first] ELSE q.newest
      /\ ~Ends(q, R) => /\ p.pc = "search" /\ p.from = q.from
                        /\ p.page = q.page + 1 /\ p.cursor = edited[last]
      /\ Ends(q, R) => p.pc = "harvest"
      /\ p.pc # "idle"
  BY <1>3, <1>4 DEF Searched, Sync, Read
<1>9. sync'[h] = p /\ p \in Sync /\ sync' = [sync EXCEPT ![h] = p]
  <2>1. sync' = [sync EXCEPT ![h] = p]
    BY <1>2, <1>3
  <2> HIDE DEF q, rest
  <2>2. sync'[h] = p
    BY <2>1 DEF WatermarkInv, TypeOK
  <2>3. sync'[h] \in Sync
    BY DEF WatermarkInv, TypeOK
  <2> QED  BY <2>1, <2>2, <2>3
<1>10. ASSUME Calm PROVE SyncBounds(p)'
  <2>1. SyncBounds(q)
    BY <1>10
  <2>2. \A f \in q.todo : q.from < f[2] /\ f[2] <= q.newest /\ f[2] \in Nat
    <3>1. q.todo \subseteq Items \X Times
      BY <1>4 DEF Sync, Found
    <3> QED  BY <3>1, <2>1, <1>4, SizeAssumption DEF SyncBounds, Times
  <2>3. \A i \in ingested : edited[i] <= q.from /\ i \in Items
    BY <2>1, <1>4 DEF SyncBounds, WatermarkInv, TypeOK
  <2>4. q.page = 0 => q.todo = {} /\ q.newest = q.from
    BY <2>2, <1>4, <1>5 DEF Begun
  <2>5. q.page # 0 => q.from < q.newest /\ q.cursor <= q.newest
    BY <2>1, <1>4, <1>5 DEF SyncBounds
  <2>6. \A i \in Fresh(q, R) : i \in R /\ q.from < edited[i]
    BY <1>5, <1>6, <1>7 DEF Fresh, Beyond
  <2>7. \A i \in R : edited[i] <= p.newest
    BY <2>5, <1>2, <1>5, <1>6, <1>7, <1>8
  <2>8. ASSUME NEW f \in p.todo PROVE q.from < f[2] /\ f[2] <= p.newest
    <3>1. CASE f \in q.todo
      BY <3>1, <2>2, <2>4, <1>8
    <3>2. CASE f \notin q.todo
      <4>1. PICK i \in Fresh(q, R) : f = <<i, edited[i]>>
        BY <3>2, <1>8
      <4> QED  BY <4>1, <2>6, <2>7
    <3> QED  BY <3>1, <3>2
  <2>9. ASSUME NEW i \in ingested PROVE <<i, edited[i]>> \notin p.todo
    <3>1. ~(q.from < edited[i])
      BY <2>3, <1>5, <1>6
    <3> QED  BY <3>1, <2>8
  <2>10. CASE ~Ends(q, R)
    <3>1. Fresh(q, R) = R
      BY <2>10 DEF Ends, Done
    <3>2. q.from < p.newest
      BY <3>1, <2>5, <2>6, <1>8
    <3>3. p.cursor <= p.newest
      BY <2>7, <2>10, <1>8
    <3> QED  BY <3>2, <3>3, <2>3, <2>8, <2>10, <1>4, <1>8 DEF SyncBounds
  <2>11. CASE Ends(q, R)
    <3>1. ASSUME NEW i \in ingested PROVE edited[i] <= p.newest
      <4>1. CASE q.page = 0
        <5>1. i \in rest
          BY <4>1, <1>4, <1>6, <2>3, SizeAssumption DEF Begun, Rest, After
        <5>2. edited[i] <= edited[first]
          BY <5>1, <1>2 DEF IsResults
        <5> QED  BY <5>2, <4>1, <1>8
      <4>2. CASE q.page # 0
        BY <4>2, <2>3, <2>5, <1>5, <1>6, <1>8
      <4> QED  BY <4>1, <4>2
    <3> QED  BY <3>1, <2>8, <2>9, <2>11, <1>4, <1>8 DEF SyncBounds
  <2> QED  BY <2>10, <2>11
<1>11. ingested' \subseteq Visible /\ (Calm' => Calm)
  BY <1>4 DEF Calm
<1> QED  BY <1>4, <1>8, <1>9, <1>10, <1>11, OnceHandlerStep

LEMMA SearchEmptyOnce ==
  ASSUME OnceInv, WatermarkInv', NEW h \in Handlers, SearchEmpty(h)
  PROVE  OnceInv'
<1> USE DEF OnceInv
<1>1. PICK p : p = Searched(sync[h])
  OBVIOUS
<1>2. /\ sync[h] \in Sync /\ SyncCovers(sync[h]) /\ sync[h].pc = "search" /\ Busy(h)
      /\ sync' = [sync EXCEPT ![h] = p]
      /\ UNCHANGED <<edited, watermark, copies, ingested, faults, overlapped>>
  BY <1>1 DEF SearchEmpty, WatermarkInv, TypeOK, Busy
<1>3. p \in Sync
  BY <1>1, <1>2, SearchedType
<1>4. p.pc = "harvest" /\ p.newest = sync[h].newest /\ p.todo = sync[h].todo
  BY <1>1, <1>2 DEF Searched, Sync
<1>5. ASSUME Calm PROVE SyncBounds(p)'
  <2>1. SyncBounds(sync[h])
    BY <1>5
  <2>2. sync[h].from <= sync[h].newest /\ sync[h].from \in Nat /\ sync[h].newest \in Nat
    BY <1>2 DEF Sync, SyncCovers
  <2>3. ASSUME NEW i \in ingested
        PROVE  edited[i] <= sync[h].newest /\ <<i, edited[i]>> \notin sync[h].todo
    <3>1. edited[i] <= sync[h].from /\ edited[i] \in Nat
      BY <2>1, <1>2, TimesType DEF SyncBounds, WatermarkInv, TypeOK
    <3>2. \A f \in sync[h].todo : sync[h].from < f[2]
      BY <2>1, <1>2 DEF SyncBounds
    <3> QED  BY <3>1, <3>2, <2>2
  <2> QED  BY <2>1, <2>3, <1>2, <1>4 DEF SyncBounds
<1>6. ingested' \subseteq Visible /\ (Calm' => Calm)
  BY <1>2 DEF Calm
<1> QED  BY <1>2, <1>3, <1>4, <1>5, <1>6, OnceHandlerStep

LEMMA HarvestOnce ==
  ASSUME OnceInv, WatermarkInv', NEW h \in Handlers, Harvest(h)
  PROVE  OnceInv'
<1> USE DEF OnceInv
<1>1. PICK failed \in SUBSET {f \in sync[h].todo : f[1] \in Databases} :
        /\ faults' = faults + Cardinality(failed)
        /\ sync' = [sync EXCEPT ![h].pc = "ingest", ![h].todo = sync[h].todo \ failed]
  BY DEF Harvest
<1>2. /\ sync[h] \in Sync /\ sync[h].pc = "harvest" /\ Busy(h)
      /\ UNCHANGED <<edited, watermark, copies, ingested, overlapped>>
  BY DEF Harvest, WatermarkInv, TypeOK, Busy
<1>3. PICK p : p = [sync[h] EXCEPT !.pc = "ingest", !.todo = sync[h].todo \ failed]
  OBVIOUS
<1>4. p \in Sync /\ sync' = [sync EXCEPT ![h] = p]
  BY <1>1, <1>2, <1>3 DEF Sync, WatermarkInv, TypeOK
<1>5. p.pc = "ingest" /\ p.newest = sync[h].newest /\ p.todo = sync[h].todo \ failed
  BY <1>2, <1>3 DEF Sync
<1>6. Calm' => Calm
  <2>1. Cardinality(failed) \in Nat /\ faults \in Nat
    BY <1>2, TodoFinite DEF WatermarkInv, TypeOK
  <2> QED  BY <2>1, <1>1, <1>2 DEF Calm
<1>7. Calm => SyncBounds(p)'
  BY <1>2, <1>5 DEF SyncBounds
<1> QED  BY <1>2, <1>4, <1>5, <1>6, <1>7, OnceHandlerStep

LEMMA IngestOnce ==
  ASSUME OnceInv, WatermarkInv', NEW h \in Handlers, Ingest(h)
  PROVE  OnceInv'
<1> USE DEF OnceInv
<1>1. PICK f \in sync[h].todo :
        /\ ingested' = IF edited[f[1]] = f[2] THEN ingested \cup {f[1]} ELSE ingested
        /\ sync' = [sync EXCEPT ![h].todo = sync[h].todo \ {f}]
  BY DEF Ingest
<1>2. /\ sync[h] \in Sync /\ sync[h].pc = "ingest" /\ Busy(h)
      /\ UNCHANGED <<edited, watermark, copies, faults, overlapped>>
  BY DEF Ingest, WatermarkInv, TypeOK, Busy
<1>3. PICK p : p = [sync[h] EXCEPT !.todo = sync[h].todo \ {f}]
  OBVIOUS
<1>4. p \in Sync /\ sync' = [sync EXCEPT ![h] = p]
  BY <1>1, <1>2, <1>3 DEF Sync, WatermarkInv, TypeOK
<1>5. p.pc = "ingest" /\ p.newest = sync[h].newest /\ p.todo = sync[h].todo \ {f}
  BY <1>2, <1>3 DEF Sync
<1>6. f \in Items \X Times /\ f[2] # 0 /\ f = <<f[1], f[2]>>
  BY <1>2, SizeAssumption DEF Sync, Found, Times
<1>7. ingested' \subseteq Visible
  BY <1>1, <1>6 DEF Visible
<1>8. ASSUME Calm PROVE SyncBounds(p)'
  <2>1. SyncBounds(sync[h])
    BY <1>8
  <2>2. ASSUME NEW i \in ingested'
        PROVE  edited[i] <= sync[h].newest /\ <<i, edited[i]>> \notin p.todo
    <3>1. CASE i \in ingested
      BY <3>1, <2>1, <1>2, <1>5 DEF SyncBounds
    <3>2. CASE i \notin ingested
      <4>1. i = f[1] /\ edited[i] = f[2]
        BY <3>2, <1>1
      <4> QED  BY <4>1, <2>1, <1>5, <1>6 DEF SyncBounds
    <3> QED  BY <3>1, <3>2
  <2> QED  BY <2>1, <2>2, <1>2, <1>5 DEF SyncBounds
<1> QED  BY <1>2, <1>4, <1>5, <1>7, <1>8, OnceHandlerStep DEF Calm

LEMMA SaveWatermarkOnce ==
  ASSUME OnceInv, WatermarkInv', NEW h \in Handlers, SaveWatermark(h)
  PROVE  OnceInv'
<1> USE DEF OnceInv
<1>1. /\ sync[h].pc = "ingest" /\ Busy(h) /\ watermark' = sync[h].newest
      /\ sync' = [sync EXCEPT ![h] = Idle]
      /\ UNCHANGED <<edited, copies, ingested, faults, overlapped>>
  BY DEF SaveWatermark, Busy
<1>2. sync'[h] = Idle /\ \A g \in Handlers : g # h => sync'[g] = sync[g]
  BY <1>1, IdleType, HandlerMoves DEF WatermarkInv
<1>3. (ingested \subseteq Visible)'
  BY <1>1 DEF Visible
<1>4. ASSUME Calm'
      PROVE  /\ Alone' /\ \A g \in Handlers : SyncBounds(sync[g])'
             /\ \A i \in ingested' : edited'[i] <= watermark'
  <2>1. Calm /\ Alone /\ SyncBounds(sync[h])
    BY <1>1, <1>4 DEF Calm
  <2>2. copies = {}
    BY <2>1, <1>1 DEF Alone
  <2>3. Alone'
    BY <2>1, <2>2, <1>1, <1>2 DEF Alone, Busy, Idle
  <2>4. ASSUME NEW g \in Handlers PROVE SyncBounds(sync[g])'
    <3>1. CASE g = h
      BY <3>1, <1>2 DEF SyncBounds, Idle
    <3>2. CASE g # h
      BY <3>2, <2>1, <1>1, <1>2 DEF SyncBounds
    <3> QED  BY <3>1, <3>2
  <2>5. \A i \in ingested' : edited'[i] <= watermark'
    BY <2>1, <1>1 DEF SyncBounds
  <2> QED  BY <2>3, <2>4, <2>5
<1> QED  BY <1>3, <1>4

(***************************************************************************)
(* Each edit once: the other steps                                         *)
(***************************************************************************)

\* Nobody moves, and less counts as ingested.
LEMMA OnceKept ==
  ASSUME OnceInv, WatermarkInv', UNCHANGED sync, (ingested \subseteq Visible)',
         \A j \in ingested' : j \in ingested /\ edited'[j] = edited[j],
         Calm' => Calm /\ watermark' = watermark /\ Alone'
  PROVE  OnceInv'
<1> USE DEF OnceInv
<1>1. ASSUME Calm' PROVE \A h \in Handlers : SyncBounds(sync[h])'
  <2>1. ASSUME NEW h \in Handlers PROVE SyncBounds(sync[h])'
    BY <1>1 DEF SyncBounds
  <2> QED  BY <2>1
<1> QED  BY <1>1 DEF Busy

LEMMA ItemsOnce ==
  ASSUME OnceInv, WatermarkInv', NEW i \in Items, Edit(i) \/ Share(i) \/ Hide(i)
  PROVE  OnceInv'
<1> USE DEF OnceInv
<1>1. \E t \in 0 .. MaxTime :
        /\ edited' = [edited EXCEPT ![i] = t] /\ ingested' = ingested \ {i}
        /\ UNCHANGED <<watermark, copies, sync, faults, overlapped>>
  <2>1. CASE Edit(i)
    BY <2>1, SizeAssumption DEF Edit, Appears, WatermarkInv, TypeOK, Times
  <2>2. CASE Share(i)
    <3>1. PICK t \in Times : Appears(i, t)
      BY <2>2 DEF Share
    <3>2. t \in 0 .. MaxTime
      BY SizeAssumption DEF Times
    <3> QED  BY <3>1, <3>2 DEF Appears
  <2>3. CASE Hide(i)
    BY <2>3, Bounds DEF Hide
  <2> QED  BY <2>1, <2>2, <2>3
<1>2. \A j \in ingested' : j \in ingested /\ edited'[j] = edited[j] /\ j \in Visible'
  BY <1>1 DEF Visible, WatermarkInv, TypeOK
<1>3. Calm' => Calm /\ watermark' = watermark /\ Alone'
  BY <1>1 DEF Calm, Alone, Busy
<1> QED  BY <1>1, <1>2, <1>3, OnceKept

LEMMA RowOnce ==
  ASSUME OnceInv, WatermarkInv', Tick \/ ReadRow \/ SaveRow \/ UNCHANGED vars
  PROVE  OnceInv'
<1> USE DEF OnceInv
<1>1. UNCHANGED <<edited, sync, ingested, faults>>
  BY DEF Tick, ReadRow, SaveRow, vars
<1>2. (ingested \subseteq Visible)'
  BY <1>1 DEF Visible
<1>3. ASSUME Calm' PROVE Calm /\ watermark' = watermark /\ Alone'
  <2>1. CASE Tick \/ UNCHANGED vars
    BY <2>1, <1>3 DEF Tick, vars, Calm, Alone, Busy
  <2>2. CASE ReadRow
    <3>1. Calm /\ \A g \in Handlers : ~Busy(g)
      BY <2>2, <1>3 DEF ReadRow, Calm, WatermarkInv, TypeOK
    <3> QED  BY <3>1, <2>2, <1>1 DEF ReadRow, Alone, Busy
  <2>3. CASE SaveRow
    <3>1. Calm /\ Alone
      BY <2>3, <1>3 DEF SaveRow, Calm
    <3> QED  BY <3>1, <2>3 DEF SaveRow, Alone, Busy
  <2> QED  BY <2>1, <2>2, <2>3
<1> QED  BY <1>1, <1>2, <1>3, OnceKept

\* A step that fails ends the calm.
LEMMA FaultOnce ==
  ASSUME OnceInv, WatermarkInv', NEW h \in Handlers, SearchFails(h) \/ Fail(h)
  PROVE  OnceInv'
<1>1. faults' # 0 /\ UNCHANGED <<edited, ingested>>
  BY DEF SearchFails, Fail, OnceInv, WatermarkInv, TypeOK
<1> QED  BY <1>1 DEF OnceInv, Calm, Visible

LEMMA InitOnce == Init => OnceInv
<1> SUFFICES ASSUME Init PROVE OnceInv
  OBVIOUS
<1>1. Alone /\ \A h \in Handlers : SyncBounds(sync[h])
  BY DEF Init, Alone, Busy, Idle, SyncBounds
<1> QED  BY <1>1, InitInv DEF OnceInv, Init

LEMMA NextOnce == OnceInv /\ [Next]_vars => OnceInv'
<1> SUFFICES ASSUME OnceInv, [Next]_vars PROVE OnceInv'
  OBVIOUS
<1>1. WatermarkInv'
  BY NextInv DEF OnceInv
<1>2. CASE \E i \in Items : Edit(i) \/ Share(i) \/ Hide(i)
  BY <1>1, <1>2, ItemsOnce
<1>3. CASE Tick \/ ReadRow \/ SaveRow \/ UNCHANGED vars
  BY <1>1, <1>3, RowOnce
<1>4. CASE \E h \in Handlers : Handle(h) \/ SearchFails(h) \/ Fail(h)
  BY <1>1, <1>4, BeginOnce, SearchPageOnce, SearchEmptyOnce, HarvestOnce, IngestOnce,
     SaveWatermarkOnce, FaultOnce DEF Handle
<1> QED  BY <1>2, <1>3, <1>4 DEF Next

\* For any number of items and handlers, and any page size and page limit,
\* syncs that do not overlap or fail surface an edit once.
THEOREM EditsSurfaceOnce == Spec => EachEditOnce
<1> DEFINE Once == \A h \in Handlers : sync[h].pc = "ingest" /\ sync'[h].pc = "ingest" =>
                     \A f \in sync[h].todo \ sync'[h].todo :
                       Calm /\ Current(f) => f[1] \notin ingested
<1>1. OnceInv => Once
  <2> SUFFICES ASSUME OnceInv, NEW h \in Handlers, sync[h].pc = "ingest",
                      NEW f \in sync[h].todo, Calm, Current(f)
               PROVE  f[1] \notin ingested
    OBVIOUS
  <2>1. f = <<f[1], f[2]>>
    BY DEF OnceInv, WatermarkInv, TypeOK, Sync, Found
  <2> QED  BY <2>1 DEF OnceInv, SyncBounds, Current
<1>2. OnceInv => [Once]_vars
  BY <1>1
<1> HIDE DEF Once
<1>3. Spec => []OnceInv
  BY InitOnce, NextOnce, PTL DEF Spec
<1>4. Spec => [][Once]_vars
  BY <1>2, <1>3, PTL
<1> QED  BY <1>4 DEF Once, EachEditOnce
=============================================================================
