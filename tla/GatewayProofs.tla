----------------------------- MODULE GatewayProofs -----------------------------
(***************************************************************************)
(* Proofs about Gateway: for any limits, buffers, keys, handlers and       *)
(* clients, the limiter lets no more requests pass than its limits, a key  *)
(* has one run at a time while its lock lasts, and a client that missed an *)
(* event leaves the hub, once.                                             *)
(*                                                                         *)
(* And about Connections, the instance C, for any organizations, processes,*)
(* rows and keys: a code is exchanged once and for whoever asked, and what *)
(* an organization was shown or has stored stays usable.                   *)
(***************************************************************************)
EXTENDS Gateway, TLAPS, WellFoundedInduction

\* The limits, the buffers and the bounds are numbers, and NoKey is no key.
Sizes ==
  /\ Limit \in Nat /\ Burst \in Nat /\ BufferSize \in Nat /\ BroadcastSize \in Nat
  /\ MaxRequests \in Nat /\ MaxFaults \in Nat /\ NoKey \notin Keys

\* Whoever found a window new gives the counter its end.
Ends(w, x) == req[w].pc = ExpireOf[x]
\* Only one handler did, and until it is through the window does not end: it has been
\* counted and has not passed, unless nobody may.
Counting ==
  \A x \in Windows :
    /\ past.passed[x] <= counter[x].n /\ past.passed[x] <= Ceiling[x]
    /\ \A v, w \in Workers : Ends(v, x) /\ Ends(w, x) => v = w
    /\ \A w \in Workers : Ends(w, x) =>
         /\ ~counter[x].ttl /\ past.passed[x] < counter[x].n
         /\ past.passed[x] < Ceiling[x] \/ Ceiling[x] = 0
    /\ counter[x].n > 0 /\ ~counter[x].ttl => faults > 0 \/ \E w \in Workers : Ends(w, x)
    /\ counter[x].ttl => counter[x].n > 0

\* Who locks has a key.  Who runs for a key that no run lost the lock of holds it, alone.
Locking ==
  /\ \A w \in Workers : req[w].pc \in {"lock", "store", "unlock"} => req[w].key \in Keys
  /\ \A k \in Keys \ past.unlocked :
       /\ Running(k) # {} => lock[k]
       /\ \A v, w \in Running(k) : v = w

\* Nobody asks the hub to let go of a client before it has been there, its channel is
\* closed when it goes, and only a client that missed an event can go while its
\* connection is open.
Serving ==
  \A c \in Clients :
    /\ client[c].st \in {"new", "joining"} => leaving[c] = 0 /\ ~client[c].missed
    /\ client[c].closed = IF client[c].st = "out" THEN 1 ELSE 0
    /\ client[c].st = "in" /\ client[c].missed => leaving[c] > 0
    /\ client[c].open /\ (leaving[c] > 0 \/ client[c].st = "out") => client[c].missed

GatewayInv == TypeOK /\ Counting /\ Locking /\ Serving

-----------------------------------------------------------------------------
(* The tables, and the moves of a handler.                                 *)

LEMMA Tables ==
  ASSUME Sizes, NEW x \in Windows
  PROVE  /\ Ceiling[x] \in Nat /\ ExpireOf[x] \in Pcs /\ x \in Pcs
         /\ ExpireOf[x] \notin {"idle", "lookup", "lock", "run", "store", "unlock", "audit"}
         /\ ExpireOf[x] \notin Windows
         /\ \A y \in Windows : ExpireOf[x] = ExpireOf[y] => x = y
<1>1. CASE x = "sustained"
  BY <1>1 DEF Sizes, Ceiling, ExpireOf, Windows, Pcs
<1>2. CASE x = "burst"
  BY <1>2 DEF Sizes, Ceiling, ExpireOf, Windows, Pcs
<1> QED  BY <1>1, <1>2 DEF Windows

\* The request of w becomes r.
LEMMA ReqMoves ==
  ASSUME TypeOK, NEW w \in Workers, NEW r \in Req, req' = [req EXCEPT ![w] = r]
  PROVE  /\ req' \in [Workers -> Req] /\ req'[w] = r
         /\ \A v \in Workers : v # w => req'[v] = req[v]
  BY DEF TypeOK

\* It goes on to pc.
LEMMA GotoMoves ==
  ASSUME TypeOK, NEW w \in Workers, NEW pc \in Pcs, Goto(w, pc)
  PROVE  /\ req' \in [Workers -> Req] /\ req'[w].pc = pc /\ req'[w].key = req[w].key
         /\ \A v \in Workers : v # w => req'[v] = req[v]
<1>1. req[w] \in Req
  BY DEF TypeOK
<1>2. PICK r : r = [req[w] EXCEPT !.pc = pc]
  OBVIOUS
<1>3. r \in Req /\ r.pc = pc /\ r.key = req[w].key
  BY <1>1, <1>2 DEF Req
<1>4. req' = [req EXCEPT ![w] = r]
  BY <1>2 DEF Goto
<1> QED  BY <1>3, <1>4, ReqMoves

LEMMA NoReqTyped == NoReq \in Req /\ NoReq.pc = "idle" /\ NoReq.key = NoKey
  BY DEF NoReq, Req, Pcs, Outcomes

LEMMA FaultTyped ==
  ASSUME Sizes, TypeOK, NEW e \in BOOLEAN, MayFail(e)
  PROVE  faults' \in 0 .. MaxFaults /\ faults' >= faults
  BY DEF Sizes, TypeOK, MayFail, Fault

-----------------------------------------------------------------------------
(* What a step leaves alone.                                               *)

\* Nobody begins or ends to give a window its end.
LEMMA CountingKept ==
  ASSUME Counting, UNCHANGED counter, past'.passed = past.passed,
         faults \in Nat, faults' \in Nat, faults' >= faults,
         \A w \in Workers, x \in Windows : Ends(w, x)' <=> Ends(w, x)
  PROVE  Counting'
<1>1. faults > 0 => faults' > 0
  OBVIOUS
<1> QED  BY <1>1 DEF Counting

\* Whoever runs did so before, and its key keeps the lock.
LEMMA LockingKept ==
  ASSUME Locking, \A w \in Workers : req'[w].pc \in {"lock", "store", "unlock"} => req'[w].key \in Keys,
         past.unlocked \subseteq past'.unlocked,
         \A k \in Keys \ past'.unlocked : /\ Running(k)' \subseteq Running(k)
                                          /\ Running(k)' # {} /\ lock[k] => lock'[k]
  PROVE  Locking'
  BY DEF Locking

LEMMA ServingKept == ASSUME Serving, UNCHANGED <<client, leaving>> PROVE Serving'
  BY DEF Serving

\* A handler that neither locks nor counts goes on.
LEMMA GoesOn ==
  ASSUME Sizes, GatewayInv, NEW w \in Workers, NEW r \in Req, req' = [req EXCEPT ![w] = r],
         UNCHANGED <<counter, lock, past, client, leaving>>,
         record' \in [Keys -> Outcomes \cup {"none"}], broadcast' \in 0 .. BroadcastSize,
         requests' \in 0 .. MaxRequests, faults' \in 0 .. MaxFaults, faults' >= faults,
         \A x \in Windows : ~Ends(w, x) /\ r.pc # ExpireOf[x],
         r.pc \in {"lock", "store", "unlock"} => r.key \in Keys,
         r.pc \in {"run", "store", "unlock"} =>
           r.key \notin Keys \/ (r.key = req[w].key /\ req[w].pc \in {"run", "store", "unlock"})
  PROVE  GatewayInv'
<1>1. /\ req' \in [Workers -> Req] /\ req'[w] = r
      /\ \A v \in Workers : v # w => req'[v] = req[v]
  BY ReqMoves DEF GatewayInv
<1>2. TypeOK'
  BY <1>1 DEF GatewayInv, TypeOK
<1>3. Counting'
  <2>1. \A v \in Workers, x \in Windows : Ends(v, x)' <=> Ends(v, x)
    BY <1>1 DEF Ends
  <2>2. faults \in Nat /\ faults' \in Nat
    BY DEF Sizes, GatewayInv, TypeOK
  <2> QED  BY <2>1, <2>2, CountingKept DEF GatewayInv
<1>4. Locking'
  <2>1. \A v \in Workers : req'[v].pc \in {"lock", "store", "unlock"} => req'[v].key \in Keys
    BY <1>1 DEF GatewayInv, Locking
  <2>2. \A k \in Keys : Running(k)' \subseteq Running(k)
    BY <1>1 DEF Running
  <2> QED  BY <2>1, <2>2, LockingKept DEF GatewayInv
<1> QED  BY <1>2, <1>3, <1>4, ServingKept DEF GatewayInv

-----------------------------------------------------------------------------
(* The limiter.                                                            *)

LEMMA ArriveInv ==
  ASSUME Sizes, GatewayInv, NEW w \in Workers, NEW k \in Keys \cup {NoKey}, Arrive(w, k)
  PROVE  GatewayInv'
<1>1. PICK r : r = [NoReq EXCEPT !.pc = "sustained", !.key = k]
  OBVIOUS
<1>2. r \in Req /\ r.pc = "sustained"
  BY <1>1 DEF NoReq, Req, Pcs, Outcomes
<1>3. req[w].pc = "idle" /\ req' = [req EXCEPT ![w] = r]
  BY <1>1 DEF Arrive
<1>4. /\ requests' \in 0 .. MaxRequests /\ faults' \in 0 .. MaxFaults /\ faults' >= faults
      /\ record' \in [Keys -> Outcomes \cup {"none"}] /\ broadcast' \in 0 .. BroadcastSize
      /\ UNCHANGED <<counter, lock, past, client, leaving>>
  BY DEF Sizes, GatewayInv, TypeOK, Arrive, hubVars
<1>5. \A x \in Windows : ~Ends(w, x) /\ r.pc # ExpireOf[x]
  BY <1>2, <1>3, Tables DEF Ends, Windows
<1> QED  BY <1>2, <1>3, <1>4, <1>5, GoesOn

\* A request that is counted, as the first or not, and one that its end was given.
LEMMA PassedTyped ==
  ASSUME TypeOK, NEW x \in Windows, NEW n \in Nat, past' = [past EXCEPT !.passed[x] = n]
  PROVE  /\ past' \in Past /\ past'.unlocked = past.unlocked /\ past'.passed[x] = n
         /\ \A y \in Windows : y # x => past'.passed[y] = past.passed[y]
<1>1. past \in Past
  BY DEF TypeOK
<1> QED  BY <1>1 DEF Past

LEMMA NextTyped == ASSUME NEW x \in Windows PROVE NextOf(x) \in {"burst", "lookup"}
  BY DEF NextOf

LEMMA DecideMoves ==
  ASSUME Sizes, TypeOK, NEW w \in Workers, NEW x \in Windows, NEW n \in Nat, Decide(w, x, n)
  PROVE  /\ req' \in [Workers -> Req] /\ req'[w].pc \in {"idle", "burst", "lookup"}
         /\ \A v \in Workers : v # w => req'[v] = req[v]
         /\ past' \in Past /\ past'.unlocked = past.unlocked
         /\ \A y \in Windows : y # x => past'.passed[y] = past.passed[y]
         /\ \/ past'.passed[x] = past.passed[x]
            \/ n <= Ceiling[x] /\ past'.passed[x] = past.passed[x] + 1
<1>1. past.passed[x] \in Nat /\ past \in Past
  BY DEF TypeOK, Past
<1>2. CASE Allowed(n, x)
  <2>1. Goto(w, NextOf(x)) /\ past' = [past EXCEPT !.passed[x] = past.passed[x] + 1]
    BY <1>2 DEF Decide
  <2>2. NextOf(x) \in Pcs
    BY NextTyped DEF Pcs
  <2>3. /\ req' \in [Workers -> Req] /\ req'[w].pc \in {"burst", "lookup"}
        /\ \A v \in Workers : v # w => req'[v] = req[v]
    BY <2>1, <2>2, NextTyped, GotoMoves
  <2>4. past.passed[x] + 1 \in Nat
    BY <1>1
  <2>5. /\ past' \in Past /\ past'.unlocked = past.unlocked
        /\ past'.passed[x] = past.passed[x] + 1
        /\ \A y \in Windows : y # x => past'.passed[y] = past.passed[y]
    BY <2>1, <2>4, PassedTyped
  <2> QED  BY <1>2, <2>3, <2>5 DEF Allowed
<1>3. CASE ~Allowed(n, x)
  <2>1. req' = [req EXCEPT ![w] = NoReq] /\ UNCHANGED past
    BY <1>3 DEF Decide
  <2> QED  BY <1>1, <2>1, ReqMoves, NoReqTyped
<1> QED  BY <1>2, <1>3

\* Who counts holds no lock.
LEMMA LockingAside ==
  ASSUME GatewayInv, NEW w \in Workers, \A v \in Workers : v # w => req'[v] = req[v],
         req'[w].pc \notin {"lock", "run", "store", "unlock"}, UNCHANGED lock,
         past'.unlocked = past.unlocked
  PROVE  Locking'
<1>1. \A v \in Workers : req'[v].pc \in {"lock", "store", "unlock"} => req'[v].key \in Keys
  BY DEF GatewayInv, Locking
<1>2. \A k \in Keys : Running(k)' \subseteq Running(k)
  BY DEF Running
<1> QED  BY <1>1, <1>2, LockingKept DEF GatewayInv

LEMMA HitInv ==
  ASSUME Sizes, GatewayInv, NEW w \in Workers, NEW x \in Windows, Hit(w, x) PROVE GatewayInv'
<1>1. /\ TypeOK /\ req[w].pc = x /\ counter[x] \in [n : Nat, ttl : BOOLEAN]
      /\ counter \in [Windows -> [n : Nat, ttl : BOOLEAN]]
      /\ past \in Past /\ faults \in Nat
      /\ UNCHANGED <<record, lock, broadcast, client, leaving, requests>>
  BY DEF Sizes, GatewayInv, TypeOK, Hit, hubVars
<1>2. faults' = faults
  BY DEF Hit
<1>3. PICK n \in Nat : n = counter[x].n + 1
  BY <1>1
<1>4. /\ counter' = [counter EXCEPT ![x].n = n]
      /\ IF IsFirst(n) THEN Goto(w, ExpireOf[x]) /\ UNCHANGED past ELSE Decide(w, x, n)
  BY <1>3 DEF Hit
<1>5. /\ counter' \in [Windows -> [n : Nat, ttl : BOOLEAN]] /\ counter'[x].n = n
      /\ \A y \in Windows : y # x => counter'[y] = counter[y]
  BY <1>1, <1>4
<1>6. counter'[x].ttl = counter[x].ttl
  BY <1>1, <1>4
<1>7. \A y \in Windows : ~Ends(w, y)
  BY <1>1, Tables DEF Ends
<1>8. CASE IsFirst(n)
  <2>1. /\ req' \in [Workers -> Req] /\ req'[w].pc = ExpireOf[x]
        /\ \A v \in Workers : v # w => req'[v] = req[v]
    BY <1>1, <1>4, <1>8, Tables, GotoMoves
  <2>2. UNCHANGED past /\ counter[x].n = 0
    BY <1>1, <1>3, <1>4, <1>8 DEF IsFirst
  <2>3. TypeOK'
    BY <1>1, <1>2, <1>5, <2>1, <2>2 DEF TypeOK
  <2>4. Ends(w, x)' /\ \A y \in Windows : y # x => ~Ends(w, y)'
    BY <2>1, Tables DEF Ends
  <2>5. \A v \in Workers, y \in Windows : v # w => (Ends(v, y)' <=> Ends(v, y))
    BY <2>1 DEF Ends
  <2>6. /\ past.passed[x] = 0 /\ n = 1 /\ Ceiling[x] \in Nat
        /\ \A v \in Workers : ~Ends(v, x)
    BY <1>1, <1>3, <2>2, Tables DEF GatewayInv, Counting, Past
  <2>8. Counting'
    <3>1. ASSUME NEW y \in Windows, y # x
          PROVE  /\ past'.passed[y] <= counter'[y].n /\ past'.passed[y] <= Ceiling[y]
                 /\ \A v, u \in Workers : Ends(v, y)' /\ Ends(u, y)' => v = u
                 /\ \A v \in Workers : Ends(v, y)' =>
                      /\ ~counter'[y].ttl /\ past'.passed[y] < counter'[y].n
                      /\ past'.passed[y] < Ceiling[y] \/ Ceiling[y] = 0
                 /\ counter'[y].n > 0 /\ ~counter'[y].ttl =>
                      faults' > 0 \/ \E v \in Workers : Ends(v, y)'
                 /\ counter'[y].ttl => counter'[y].n > 0
      BY <1>2, <1>5, <1>7, <2>2, <2>4, <2>5, <3>1 DEF GatewayInv, Counting
    <3>2. /\ past'.passed[x] <= counter'[x].n /\ past'.passed[x] <= Ceiling[x]
          /\ \A v, u \in Workers : Ends(v, x)' /\ Ends(u, x)' => v = u
      BY <1>5, <2>2, <2>4, <2>5, <2>6
    <3>3. ~counter'[x].ttl
      BY <1>1, <1>6, <2>2 DEF GatewayInv, Counting
    <3> QED
      BY <1>5, <2>2, <2>4, <2>5, <2>6, <3>1, <3>2, <3>3 DEF Counting
  <2>9. Locking'
    BY <1>1, <2>1, <2>2, Tables, LockingAside
  <2> QED  BY <1>1, <2>3, <2>8, <2>9, ServingKept DEF GatewayInv
<1>9. CASE ~IsFirst(n)
  <2>1. /\ req' \in [Workers -> Req] /\ req'[w].pc \in {"idle", "burst", "lookup"}
        /\ \A v \in Workers : v # w => req'[v] = req[v]
        /\ past' \in Past /\ past'.unlocked = past.unlocked
        /\ \A y \in Windows : y # x => past'.passed[y] = past.passed[y]
        /\ \/ past'.passed[x] = past.passed[x]
           \/ n <= Ceiling[x] /\ past'.passed[x] = past.passed[x] + 1
    BY <1>1, <1>4, <1>9, DecideMoves
  <2>2. TypeOK'
    BY <1>1, <1>2, <1>5, <2>1 DEF TypeOK
  <2>3. \A v \in Workers, y \in Windows : Ends(v, y)' <=> Ends(v, y)
    BY <1>7, <2>1, Tables DEF Ends, Windows
  <2>4. Counting'
    <3>1. ASSUME NEW y \in Windows, y # x
          PROVE  /\ past'.passed[y] <= counter'[y].n /\ past'.passed[y] <= Ceiling[y]
                 /\ \A v, u \in Workers : Ends(v, y)' /\ Ends(u, y)' => v = u
                 /\ \A v \in Workers : Ends(v, y)' =>
                      /\ ~counter'[y].ttl /\ past'.passed[y] < counter'[y].n
                      /\ past'.passed[y] < Ceiling[y] \/ Ceiling[y] = 0
                 /\ counter'[y].n > 0 /\ ~counter'[y].ttl =>
                      faults' > 0 \/ \E v \in Workers : Ends(v, y)'
                 /\ counter'[y].ttl => counter'[y].n > 0
      BY <1>2, <1>5, <2>1, <2>3, <3>1 DEF GatewayInv, Counting
    <3>2. /\ past.passed[x] \in Nat /\ Ceiling[x] \in Nat /\ counter[x].n \in Nat
          /\ n > 1 /\ counter[x].n = n - 1 /\ counter[x].n > 0
      BY <1>1, <1>3, <1>9, Tables DEF Past, IsFirst
    <3>3. past'.passed[x] <= counter'[x].n /\ past'.passed[x] <= Ceiling[x]
      BY <1>5, <2>1, <3>2 DEF GatewayInv, Counting
    <3>4. /\ \A v, u \in Workers : Ends(v, x)' /\ Ends(u, x)' => v = u
          /\ counter'[x].ttl => counter'[x].n > 0
          /\ counter'[x].n > 0 /\ ~counter'[x].ttl =>
               faults' > 0 \/ \E v \in Workers : Ends(v, x)'
      BY <1>2, <1>5, <1>6, <2>3, <3>2 DEF GatewayInv, Counting
    <3>5. ASSUME NEW v \in Workers, Ends(v, x)'
          PROVE  /\ ~counter'[x].ttl /\ past'.passed[x] < counter'[x].n
                 /\ past'.passed[x] < Ceiling[x] \/ Ceiling[x] = 0
      <4>1. /\ ~counter[x].ttl /\ past.passed[x] < counter[x].n
            /\ past.passed[x] < Ceiling[x] \/ Ceiling[x] = 0
        BY <2>3, <3>5 DEF GatewayInv, Counting
      <4> QED  BY <1>5, <1>6, <2>1, <3>2, <4>1
    <3> QED  BY <3>1, <3>3, <3>4, <3>5 DEF Counting
  <2>5. Locking'
    BY <1>1, <2>1, LockingAside
  <2> QED  BY <1>1, <2>2, <2>4, <2>5, ServingKept DEF GatewayInv
<1> QED  BY <1>8, <1>9

LEMMA FailOpenInv ==
  ASSUME Sizes, GatewayInv, NEW w \in Workers, NEW x \in Windows, FailOpen(w, x) PROVE GatewayInv'
<1>1. PICK r : r = [req[w] EXCEPT !.pc = "lookup"]
  OBVIOUS
<1>2. r \in Req /\ r.pc = "lookup"
  BY <1>1 DEF GatewayInv, TypeOK, Req, Pcs
<1>3. req[w].pc = x /\ req' = [req EXCEPT ![w] = r]
  BY <1>1 DEF FailOpen, Goto
<1>4. /\ requests' \in 0 .. MaxRequests /\ faults' \in 0 .. MaxFaults /\ faults' >= faults
      /\ record' \in [Keys -> Outcomes \cup {"none"}] /\ broadcast' \in 0 .. BroadcastSize
      /\ UNCHANGED <<counter, lock, past, client, leaving>>
  BY DEF Sizes, GatewayInv, TypeOK, FailOpen, Fault, hubVars
<1>5. \A y \in Windows : ~Ends(w, y) /\ r.pc # ExpireOf[y]
  BY <1>2, <1>3, Tables DEF Ends
<1> QED  BY <1>2, <1>3, <1>4, <1>5, GoesOn

\* Whoever gives a window its end passes if anybody may.
LEMMA ExpireInv ==
  ASSUME Sizes, GatewayInv, NEW w \in Workers, NEW x \in Windows, Expire(w, x) PROVE GatewayInv'
<1>1. /\ TypeOK /\ req[w].pc = ExpireOf[x] /\ counter[x] \in [n : Nat, ttl : BOOLEAN]
      /\ counter \in [Windows -> [n : Nat, ttl : BOOLEAN]]
      /\ past \in Past /\ faults \in Nat
      /\ UNCHANGED <<record, lock, broadcast, client, leaving, requests>>
  BY DEF Sizes, GatewayInv, TypeOK, Expire, hubVars
<1>2. PICK e \in BOOLEAN :
        MayFail(e) /\ counter' = [counter EXCEPT ![x].ttl = counter[x].ttl \/ ~e]
  BY DEF Expire
<1>3. /\ req' \in [Workers -> Req] /\ req'[w].pc \in {"idle", "burst", "lookup"}
      /\ \A v \in Workers : v # w => req'[v] = req[v]
      /\ past' \in Past /\ past'.unlocked = past.unlocked
      /\ \A y \in Windows : y # x => past'.passed[y] = past.passed[y]
      /\ \/ past'.passed[x] = past.passed[x]
         \/ 1 <= Ceiling[x] /\ past'.passed[x] = past.passed[x] + 1
  BY <1>1, DecideMoves DEF Expire
<1>4. PICK b \in BOOLEAN : b = (counter[x].ttl \/ ~e)
  OBVIOUS
<1>5. counter' = [counter EXCEPT ![x].ttl = b]
  BY <1>2, <1>4
<1>6. /\ counter' \in [Windows -> [n : Nat, ttl : BOOLEAN]] /\ counter'[x].n = counter[x].n
      /\ \A y \in Windows : y # x => counter'[y] = counter[y]
  BY <1>1, <1>5
<1>7. faults' \in 0 .. MaxFaults /\ faults' \in Nat /\ faults' >= faults /\ (e => faults' > 0)
  BY <1>1, <1>2, FaultTyped DEF Sizes, MayFail, Fault
<1>8. counter'[x].ttl \/ faults' > 0
  BY <1>1, <1>4, <1>5, <1>7
<1>9. TypeOK'
  BY <1>1, <1>3, <1>6, <1>7 DEF TypeOK
<1>10. Ends(w, x) /\ \A y \in Windows : ~Ends(w, y)'
  BY <1>1, <1>3, Tables DEF Ends, Windows
<1>11. \A v \in Workers, y \in Windows : v # w => (Ends(v, y)' <=> Ends(v, y))
  BY <1>3 DEF Ends
<1>12. \A y \in Windows : y # x => ~Ends(w, y)
  BY <1>1, Tables DEF Ends
<1>13. \A v \in Workers : ~Ends(v, x)'
  BY <1>10, <1>11 DEF GatewayInv, Counting
<1>14. Counting'
  <2>1. ASSUME NEW y \in Windows, y # x
        PROVE  /\ past'.passed[y] <= counter'[y].n /\ past'.passed[y] <= Ceiling[y]
               /\ \A v, u \in Workers : Ends(v, y)' /\ Ends(u, y)' => v = u
               /\ \A v \in Workers : Ends(v, y)' =>
                    /\ ~counter'[y].ttl /\ past'.passed[y] < counter'[y].n
                    /\ past'.passed[y] < Ceiling[y] \/ Ceiling[y] = 0
               /\ counter'[y].n > 0 /\ ~counter'[y].ttl =>
                    faults' > 0 \/ \E v \in Workers : Ends(v, y)'
               /\ counter'[y].ttl => counter'[y].n > 0
    <3>1. \A v \in Workers : Ends(v, y)' <=> Ends(v, y)
      BY <1>10, <1>11, <1>12, <2>1
    <3>2. faults > 0 => faults' > 0
      BY <1>1, <1>7
    <3> QED  BY <1>3, <1>6, <2>1, <3>1, <3>2 DEF GatewayInv, Counting
  <2>2. past'.passed[x] <= counter'[x].n /\ past'.passed[x] <= Ceiling[x]
    <3>1. past.passed[x] \in Nat /\ Ceiling[x] \in Nat /\ counter[x].n \in Nat
      BY <1>1, Tables DEF Past
    <3> QED  BY <1>3, <1>6, <1>10, <3>1 DEF GatewayInv, Counting
  <2>3. counter'[x].n > 0
    BY <1>1, <1>6, <1>10 DEF GatewayInv, Counting, Past
  <2> QED  BY <1>8, <1>13, <2>1, <2>2, <2>3 DEF Counting
<1>15. Locking'
  BY <1>1, <1>3, LockingAside
<1> QED  BY <1>1, <1>9, <1>14, <1>15, ServingKept DEF GatewayInv

\* A window that ends has nobody who is giving it its end.
LEMMA WindowEndsInv ==
  ASSUME Sizes, GatewayInv, NEW x \in Windows, WindowEnds(x) PROVE GatewayInv'
<1>1. /\ TypeOK /\ counter[x].ttl
      /\ counter' = [counter EXCEPT ![x] = [n |-> 0, ttl |-> FALSE]]
      /\ counter \in [Windows -> [n : Nat, ttl : BOOLEAN]] /\ past \in Past
      /\ UNCHANGED <<record, lock, req, broadcast, client, leaving, requests, faults>>
  BY DEF GatewayInv, TypeOK, WindowEnds, hubVars
<1>2. /\ counter' \in [Windows -> [n : Nat, ttl : BOOLEAN]] /\ counter'[x].n = 0
      /\ \A y \in Windows : y # x => counter'[y] = counter[y]
  BY <1>1
<1>3. /\ past' \in Past /\ past'.unlocked = past.unlocked /\ past'.passed[x] = 0
      /\ \A y \in Windows : y # x => past'.passed[y] = past.passed[y]
  BY <1>1, PassedTyped DEF WindowEnds
<1>4. TypeOK'
  BY <1>1, <1>2, <1>3 DEF TypeOK
<1>5. \A v \in Workers, y \in Windows : Ends(v, y)' <=> Ends(v, y)
  BY <1>1 DEF Ends
<1>6. \A v \in Workers : ~Ends(v, x)
  BY <1>1 DEF GatewayInv, Counting
<1>7. Counting'
  <2>1. Ceiling[x] \in Nat
    BY Tables
  <2> QED  BY <1>1, <1>2, <1>3, <1>5, <1>6, <2>1 DEF GatewayInv, Counting
<1>8. Locking'
  BY <1>1, <1>3 DEF GatewayInv, Locking, Running
<1> QED  BY <1>1, <1>4, <1>7, <1>8, ServingKept DEF GatewayInv

-----------------------------------------------------------------------------
(* The idempotency keys.                                                   *)

LEMMA ReqAt ==
  ASSUME Sizes, GatewayInv, NEW w \in Workers
  PROVE  /\ TypeOK /\ req[w] \in Req
         /\ req[w].pc \in {"lock", "store", "unlock"} => req[w].key \in Keys
         /\ req[w].pc \in {"lookup", "lock", "run", "store", "unlock", "audit"} =>
              \A x \in Windows : ~Ends(w, x)
  BY Tables DEF Sizes, GatewayInv, TypeOK, Locking, Ends

LEMMA LookupInv == ASSUME Sizes, GatewayInv, NEW w \in Workers, Lookup(w) PROVE GatewayInv'
<1>1. /\ TypeOK /\ req[w] \in Req /\ req[w].pc = "lookup"
      /\ UNCHANGED <<counter, record, lock, broadcast, client, leaving, requests, past>>
  BY ReqAt DEF Lookup, hubVars
<1>2. \E e \in BOOLEAN : MayFail(e)
  BY DEF Lookup, MayFail
<1>3. /\ requests' \in 0 .. MaxRequests /\ faults' \in 0 .. MaxFaults /\ faults' >= faults
      /\ record' \in [Keys -> Outcomes \cup {"none"}] /\ broadcast' \in 0 .. BroadcastSize
  BY <1>1, <1>2, FaultTyped DEF TypeOK
<1>4. \E pc \in {"audit", "run", "lock"}, o \in Outcomes :
        /\ req' = [req EXCEPT ![w].pc = pc, ![w].outcome = o]
        /\ pc = "run" => req[w].key = NoKey
        /\ pc = "lock" => req[w].key \in Keys
  <2>1. CASE req' = [req EXCEPT ![w].pc = "audit", ![w].outcome = "refused"]
    BY <2>1 DEF Outcomes
  <2>2. ASSUME NEW pc \in {"run", "lock"}, Goto(w, pc)
        PROVE  req' = [req EXCEPT ![w].pc = pc, ![w].outcome = req[w].outcome]
    <3>1. [req[w] EXCEPT !.pc = pc] = [req[w] EXCEPT !.pc = pc, !.outcome = req[w].outcome]
      BY <1>1 DEF Req
    <3> QED  BY <2>2, <3>1 DEF Goto
  <2>3. req[w].outcome \in Outcomes /\ req[w].key \in Keys \cup {NoKey}
    BY <1>1 DEF Req
  <2>4. CASE req[w].key = NoKey /\ Goto(w, "run")
    BY <2>2, <2>3, <2>4
  <2>5. CASE req[w].key # NoKey /\ Goto(w, "lock")
    BY <2>2, <2>3, <2>5
  <2>6. CASE /\ req[w].key # NoKey /\ record[req[w].key] # "none"
             /\ req' = [req EXCEPT ![w].pc = "audit", ![w].outcome = record[req[w].key]]
    <3>1. record[req[w].key] \in Outcomes
      BY <1>1, <2>3, <2>6 DEF TypeOK
    <3> QED  BY <2>6, <3>1
  <2> QED  BY <2>1, <2>4, <2>5, <2>6 DEF Lookup
<1>5. PICK pc \in {"audit", "run", "lock"}, o \in Outcomes :
        /\ req' = [req EXCEPT ![w].pc = pc, ![w].outcome = o]
        /\ pc = "run" => req[w].key = NoKey
        /\ pc = "lock" => req[w].key \in Keys
  BY <1>4
<1>6. PICK r : r = [req[w] EXCEPT !.pc = pc, !.outcome = o]
  OBVIOUS
<1>7. r \in Req /\ r.pc = pc /\ r.key = req[w].key
  <2>1. pc \in Pcs
    BY DEF Pcs
  <2> QED  BY <1>1, <1>6, <2>1 DEF Req
<1>8. req' = [req EXCEPT ![w] = r]
  BY <1>5, <1>6
<1>9. \A x \in Windows : ~Ends(w, x) /\ r.pc # ExpireOf[x]
  BY <1>1, <1>7, ReqAt, Tables
<1> QED  BY <1>1, <1>3, <1>5, <1>7, <1>8, <1>9, GoesOn DEF Sizes

\* The lock is taken by one, if none has it.
LEMMA AcquireInv == ASSUME Sizes, GatewayInv, NEW w \in Workers, Acquire(w) PROVE GatewayInv'
<1>1. /\ TypeOK /\ req[w] \in Req /\ req[w].pc = "lock" /\ req[w].key \in Keys
      /\ UNCHANGED <<counter, record, broadcast, client, leaving, requests>>
      /\ \A x \in Windows : ~Ends(w, x)
  BY ReqAt DEF Acquire, hubVars
<1>2. PICK k \in Keys : k = req[w].key
  BY <1>1
<1>3. \E e \in BOOLEAN : MayFail(e)
  BY DEF Acquire, MayFail
<1>4. /\ faults' \in 0 .. MaxFaults /\ faults' >= faults /\ faults \in Nat /\ faults' \in Nat
  BY <1>1, <1>3, FaultTyped DEF Sizes, TypeOK
<1>5. PICK pc \in {"run", "audit"} :
        /\ req' \in [Workers -> Req] /\ req'[w].pc = pc /\ req'[w].key = k
        /\ \A v \in Workers : v # w => req'[v] = req[v]
        /\ \/ pc = "audit" /\ UNCHANGED <<lock, past>>
           \/ /\ pc = "run" /\ ~lock[k] /\ lock' = [lock EXCEPT ![k] = TRUE] /\ UNCHANGED past
           \/ /\ pc = "run" /\ UNCHANGED lock
              /\ past' = [past EXCEPT !.unlocked = past.unlocked \cup {k}]
  <2>1. CASE Goto(w, "run") /\ \/ /\ ~lock[k] /\ lock' = [lock EXCEPT ![k] = TRUE]
                                  /\ UNCHANGED past
                               \/ /\ UNCHANGED lock
                                  /\ past' = [past EXCEPT !.unlocked = past.unlocked \cup {k}]
    <3>1. "run" \in Pcs
      BY DEF Pcs
    <3> QED  BY <1>1, <1>2, <2>1, <3>1, GotoMoves
  <2>2. CASE req' = Refused(w) /\ UNCHANGED <<lock, past>>
    <3>1. PICK r : r = [req[w] EXCEPT !.pc = "audit", !.outcome = "refused"]
      OBVIOUS
    <3>2. "audit" \in Pcs /\ "refused" \in Outcomes
      BY DEF Pcs, Outcomes
    <3>3. r \in Req /\ r.pc = "audit" /\ r.key = k
      BY <1>1, <1>2, <3>1, <3>2 DEF Req
    <3>4. req' = [req EXCEPT ![w] = r]
      BY <2>2, <3>1 DEF Refused
    <3> QED  BY <1>1, <2>2, <3>3, <3>4, ReqMoves
  <2> QED  BY <1>2, <2>1, <2>2 DEF Acquire
<1>6. past \in Past /\ past' \in Past /\ past.unlocked \subseteq past'.unlocked
      /\ past'.passed = past.passed
  <2>1. past \in Past
    BY <1>1 DEF TypeOK
  <2> QED  BY <1>5, <2>1 DEF Past
<1>7. lock' \in [Keys -> BOOLEAN]
  BY <1>1, <1>5 DEF TypeOK
<1>8. TypeOK'
  BY <1>1, <1>4, <1>5, <1>6, <1>7 DEF TypeOK
<1>9. Counting'
  <2>1. \A v \in Workers, x \in Windows : Ends(v, x)' <=> Ends(v, x)
    BY <1>1, <1>5, Tables DEF Ends
  <2> QED  BY <1>1, <1>4, <1>6, <2>1, CountingKept DEF GatewayInv
<1>10. Locking'
  <2>1. \A v \in Workers : req'[v].pc \in {"lock", "store", "unlock"} => req'[v].key \in Keys
    BY <1>1, <1>5 DEF GatewayInv, Locking
  <2>2. \A l \in Keys : Running(l)' \subseteq Running(l) \cup (IF l = k THEN {w} ELSE {})
    BY <1>5 DEF Running
  <2>3. ASSUME NEW l \in Keys \ past'.unlocked, l # k
        PROVE  /\ Running(l)' # {} => lock'[l]
               /\ \A u, v \in Running(l)' : u = v
    <3>1. Running(l)' \subseteq Running(l) /\ lock'[l] = lock[l] /\ l \notin past.unlocked
      BY <1>1, <1>5, <1>6, <2>2, <2>3 DEF TypeOK
    <3> QED  BY <3>1 DEF GatewayInv, Locking
  <2>4. ASSUME k \notin past'.unlocked
        PROVE  /\ Running(k)' # {} => lock'[k]
               /\ \A u, v \in Running(k)' : u = v
    <3>1. k \notin past.unlocked
      BY <1>6, <2>4
    <3>2. CASE pc = "audit" /\ UNCHANGED <<lock, past>>
      <4>1. Running(k)' \subseteq Running(k)
        BY <1>5, <3>2 DEF Running
      <4> QED  BY <3>1, <3>2, <4>1 DEF GatewayInv, Locking
    <3>3. CASE ~lock[k] /\ lock' = [lock EXCEPT ![k] = TRUE]
      <4>1. Running(k) = {} /\ lock'[k]
        BY <1>1, <3>1, <3>3 DEF GatewayInv, Locking, TypeOK
      <4> QED  BY <2>2, <4>1
    <3>4. CASE past' = [past EXCEPT !.unlocked = past.unlocked \cup {k}]
      BY <1>6, <2>4, <3>4 DEF Past
    <3> QED  BY <1>5, <3>2, <3>3, <3>4
  <2> QED  BY <2>1, <2>3, <2>4 DEF Locking
<1> QED  BY <1>1, <1>8, <1>9, <1>10, ServingKept DEF GatewayInv

LEMMA RunInv == ASSUME Sizes, GatewayInv, NEW w \in Workers, Run(w) PROVE GatewayInv'
<1>1. /\ TypeOK /\ req[w] \in Req /\ req[w].pc = "run" /\ req[w].key \in Keys \cup {NoKey}
      /\ UNCHANGED <<counter, record, lock, broadcast, client, leaving, requests, faults, past>>
      /\ \A x \in Windows : ~Ends(w, x)
  BY ReqAt DEF Run, hubVars, Req
<1>2. PICK o \in Outcomes, pc \in Pcs :
        /\ req' = [req EXCEPT ![w].outcome = o, ![w].pc = pc]
        /\ pc = IF req[w].key = NoKey THEN "audit" ELSE "store"
  BY DEF Run, Pcs
<1>3. PICK r : r = [req[w] EXCEPT !.outcome = o, !.pc = pc]
  OBVIOUS
<1>4. r \in Req /\ r.pc = pc /\ r.key = req[w].key
  BY <1>1, <1>3 DEF Req
<1>5. req' = [req EXCEPT ![w] = r]
  BY <1>2, <1>3
<1>6. \A x \in Windows : r.pc # ExpireOf[x]
  BY <1>2, <1>4, Tables
<1>7. /\ requests' \in 0 .. MaxRequests /\ faults' \in 0 .. MaxFaults /\ faults' >= faults
      /\ record' \in [Keys -> Outcomes \cup {"none"}] /\ broadcast' \in 0 .. BroadcastSize
  BY <1>1 DEF TypeOK, Sizes
<1> QED  BY <1>1, <1>2, <1>4, <1>5, <1>6, <1>7, GoesOn

LEMMA StoreInv == ASSUME Sizes, GatewayInv, NEW w \in Workers, Store(w) PROVE GatewayInv'
<1>1. /\ TypeOK /\ req[w] \in Req /\ req[w].pc = "store" /\ req[w].key \in Keys
      /\ UNCHANGED <<counter, lock, broadcast, client, leaving, requests, past>>
      /\ \A x \in Windows : ~Ends(w, x)
  BY ReqAt DEF Store, hubVars
<1>2. PICK e \in BOOLEAN :
       /\ MayFail(e)
       /\ record' = IF e \/ Seen(req[w].outcome) = "failed" THEN record
                    ELSE [record EXCEPT ![req[w].key] = req[w].outcome]
  BY DEF Store
<1>3. record' \in [Keys -> Outcomes \cup {"none"}]
  <2>1. req[w].outcome \in Outcomes
    BY <1>1 DEF Req
  <2> QED  BY <1>1, <1>2, <2>1 DEF TypeOK
<1>4. /\ requests' \in 0 .. MaxRequests /\ faults' \in 0 .. MaxFaults /\ faults' >= faults
      /\ broadcast' \in 0 .. BroadcastSize
  BY <1>1, <1>2, FaultTyped DEF TypeOK
<1>5. PICK r : r = [req[w] EXCEPT !.pc = "unlock"]
  OBVIOUS
<1>6. r \in Req /\ r.pc = "unlock" /\ r.key = req[w].key
  BY <1>1, <1>5 DEF Req, Pcs
<1>7. req' = [req EXCEPT ![w] = r]
  BY <1>5 DEF Store, Goto
<1>8. \A x \in Windows : r.pc # ExpireOf[x]
  BY <1>6, Tables
<1> QED  BY <1>1, <1>3, <1>4, <1>6, <1>7, <1>8, GoesOn

\* Whoever unlocks a key was the only one that ran for it.
LEMMA UnlockInv == ASSUME Sizes, GatewayInv, NEW w \in Workers, Unlock(w) PROVE GatewayInv'
<1>1. /\ TypeOK /\ req[w] \in Req /\ req[w].pc = "unlock" /\ req[w].key \in Keys
      /\ UNCHANGED <<counter, record, broadcast, client, leaving, requests, past>>
      /\ \A x \in Windows : ~Ends(w, x)
  BY ReqAt DEF Unlock, hubVars
<1>2. PICK k \in Keys : k = req[w].key
  BY <1>1
<1>3. PICK e \in BOOLEAN, b \in BOOLEAN :
        MayFail(e) /\ b = (lock[k] /\ e) /\ lock' = [lock EXCEPT ![k] = b]
  <2>1. PICK e \in BOOLEAN : MayFail(e) /\ lock' = [lock EXCEPT ![k] = lock[k] /\ e]
    BY <1>2 DEF Unlock
  <2>2. PICK b \in BOOLEAN : b = (lock[k] /\ e)
    OBVIOUS
  <2> QED  BY <2>1, <2>2
<1>4. /\ faults' \in 0 .. MaxFaults /\ faults' >= faults /\ faults \in Nat /\ faults' \in Nat
  BY <1>1, <1>3, FaultTyped DEF Sizes, TypeOK
<1>5. /\ req' \in [Workers -> Req] /\ req'[w].pc = "audit" /\ req'[w].key = k
      /\ \A v \in Workers : v # w => req'[v] = req[v]
  <2>1. "audit" \in Pcs
    BY DEF Pcs
  <2> QED  BY <1>1, <1>2, <2>1, GotoMoves DEF Unlock
<1>6. TypeOK'
  BY <1>1, <1>3, <1>4, <1>5 DEF TypeOK
<1>7. Counting'
  <2>1. \A v \in Workers, x \in Windows : Ends(v, x)' <=> Ends(v, x)
    BY <1>1, <1>5, Tables DEF Ends
  <2> QED  BY <1>1, <1>4, <2>1, CountingKept DEF GatewayInv
<1>8. Locking'
  <2>1. \A v \in Workers : req'[v].pc \in {"lock", "store", "unlock"} => req'[v].key \in Keys
    BY <1>5 DEF GatewayInv, Locking
  <2>2. \A l \in Keys : Running(l)' \subseteq Running(l) \ {w}
    BY <1>5 DEF Running
  <2>3. w \in Running(k)
    BY <1>1, <1>2 DEF Running
  <2>4. ASSUME NEW l \in Keys \ past.unlocked PROVE Running(l)' # {} /\ lock[l] => lock'[l]
    <3>1. CASE l = k
      BY <2>2, <2>3, <2>4, <3>1 DEF GatewayInv, Locking
    <3>2. CASE l # k
      BY <1>1, <1>3, <3>2 DEF TypeOK
    <3> QED  BY <3>1, <3>2
  <2> QED  BY <1>1, <2>1, <2>2, <2>4, LockingKept DEF GatewayInv
<1> QED  BY <1>1, <1>6, <1>7, <1>8, ServingKept DEF GatewayInv

LEMMA LockExpiresInv == ASSUME Sizes, GatewayInv, NEW k \in Keys, LockExpires(k) PROVE GatewayInv'
<1>1. /\ TypeOK /\ past \in Past /\ lock' = [lock EXCEPT ![k] = FALSE]
      /\ past' = [past EXCEPT !.unlocked = IF Running(k) = {} THEN past.unlocked
                                           ELSE past.unlocked \cup {k}]
      /\ UNCHANGED <<counter, record, req, broadcast, client, leaving, requests, faults>>
  BY DEF GatewayInv, TypeOK, LockExpires, hubVars
<1>2. /\ past' \in Past /\ past.unlocked \subseteq past'.unlocked /\ past'.passed = past.passed
      /\ k \in past'.unlocked \/ Running(k) = {}
  BY <1>1 DEF Past
<1>3. lock' \in [Keys -> BOOLEAN] /\ \A l \in Keys : l # k => lock'[l] = lock[l]
  BY <1>1 DEF TypeOK
<1>4. TypeOK'
  BY <1>1, <1>2, <1>3 DEF TypeOK
<1>5. Counting'
  <2>1. faults \in Nat
    BY <1>1 DEF TypeOK, Sizes
  <2> QED  BY <1>1, <1>2, <2>1, CountingKept DEF GatewayInv, Ends
<1>6. Locking'
  <2>1. \A v \in Workers : req'[v].pc \in {"lock", "store", "unlock"} => req'[v].key \in Keys
    BY <1>1 DEF GatewayInv, Locking
  <2>2. \A l \in Keys : Running(l)' = Running(l)
    BY <1>1 DEF Running
  <2>3. \A l \in Keys \ past'.unlocked : Running(l)' # {} /\ lock[l] => lock'[l]
    BY <1>2, <1>3, <2>2
  <2> QED  BY <1>2, <2>1, <2>2, <2>3, LockingKept DEF GatewayInv
<1> QED  BY <1>1, <1>4, <1>5, <1>6, ServingKept DEF GatewayInv

\* What only the answers, the events that wait and the clients are written by.
LEMMA RequestsAside ==
  ASSUME Sizes, GatewayInv, UNCHANGED <<counter, lock, req, requests, faults, past>>,
         record' \in [Keys -> Outcomes \cup {"none"}], broadcast' \in 0 .. BroadcastSize,
         client' \in [Clients -> Client], leaving' \in [Clients -> Nat], Serving'
  PROVE  GatewayInv'
<1>1. TypeOK'
  BY DEF GatewayInv, TypeOK
<1>2. Counting' /\ Locking'
  BY DEF GatewayInv, Counting, Locking, Ends, Running
<1> QED  BY <1>1, <1>2 DEF GatewayInv

LEMMA RecordExpiresInv ==
  ASSUME Sizes, GatewayInv, NEW k \in Keys, RecordExpires(k) PROVE GatewayInv'
<1>1. /\ record' = [record EXCEPT ![k] = "none"] /\ UNCHANGED <<client, leaving, broadcast>>
      /\ UNCHANGED <<counter, lock, req, requests, faults, past>>
  BY DEF RecordExpires, hubVars
<1>2. /\ record' \in [Keys -> Outcomes \cup {"none"}] /\ broadcast' \in 0 .. BroadcastSize
      /\ client' \in [Clients -> Client] /\ leaving' \in [Clients -> Nat]
  BY <1>1 DEF GatewayInv, TypeOK
<1>3. Serving'
  BY <1>1, ServingKept DEF GatewayInv
<1> QED  BY <1>1, <1>2, <1>3, RequestsAside

LEMMA AuditInv == ASSUME Sizes, GatewayInv, NEW w \in Workers, Audit(w) PROVE GatewayInv'
<1>1. /\ TypeOK /\ req[w].pc = "audit" /\ req' = [req EXCEPT ![w] = NoReq]
      /\ broadcast \in Nat /\ broadcast < BroadcastSize
      /\ broadcast' = IF Seen(req[w].outcome) = "ok" THEN broadcast + 1 ELSE broadcast
      /\ UNCHANGED <<counter, record, lock, client, leaving, requests, faults, past>>
      /\ \A x \in Windows : ~Ends(w, x)
  BY ReqAt DEF Audit, TypeOK, Sizes
<1>2. broadcast' \in 0 .. BroadcastSize
  BY <1>1 DEF Sizes
<1>3. /\ requests' \in 0 .. MaxRequests /\ faults' \in 0 .. MaxFaults /\ faults' >= faults
      /\ record' \in [Keys -> Outcomes \cup {"none"}]
  BY <1>1 DEF TypeOK, Sizes
<1>4. \A x \in Windows : NoReq.pc # ExpireOf[x]
  BY NoReqTyped, Tables
<1> QED  BY <1>1, <1>2, <1>3, <1>4, NoReqTyped, GoesOn

-----------------------------------------------------------------------------
(* The hub.                                                                *)

\* What Serving says of one client.
Served(s, n) ==
  /\ s.st \in {"new", "joining"} => n = 0 /\ ~s.missed
  /\ s.closed = IF s.st = "out" THEN 1 ELSE 0
  /\ s.st = "in" /\ s.missed => n > 0
  /\ s.open /\ (n > 0 \/ s.st = "out") => s.missed

LEMMA ServingIs == Serving <=> \A c \in Clients : Served(client[c], leaving[c])
  BY DEF Serving, Served

\* A client becomes s, with n goroutines that let go of it.
LEMMA ClientMoves ==
  ASSUME Sizes, GatewayInv, NEW c \in Clients, NEW s \in Client, NEW n \in Nat,
         client' = [client EXCEPT ![c] = s], leaving' = [leaving EXCEPT ![c] = n], Served(s, n),
         UNCHANGED <<gateVars, broadcast, requests, faults, past>>
  PROVE  GatewayInv'
<1>1. /\ client' \in [Clients -> Client] /\ leaving' \in [Clients -> Nat]
      /\ client'[c] = s /\ leaving'[c] = n
      /\ \A d \in Clients : d # c => client'[d] = client[d] /\ leaving'[d] = leaving[d]
  BY DEF GatewayInv, TypeOK
<1>2. \A d \in Clients : Served(client'[d], leaving'[d])
  BY <1>1, ServingIs DEF GatewayInv
<1>3. Serving'
  BY <1>2 DEF Serving, Served
<1>4. record' \in [Keys -> Outcomes \cup {"none"}] /\ broadcast' \in 0 .. BroadcastSize
  BY DEF GatewayInv, TypeOK, gateVars
<1> QED  BY <1>1, <1>3, <1>4, RequestsAside DEF gateVars

LEMMA ClientAt ==
  ASSUME GatewayInv, NEW c \in Clients
  PROVE  /\ client[c] \in Client /\ leaving[c] \in Nat /\ Served(client[c], leaving[c])
         /\ leaving = [leaving EXCEPT ![c] = leaving[c]]
  BY ServingIs DEF GatewayInv, TypeOK

LEMMA ConnectInv == ASSUME Sizes, GatewayInv, NEW c \in Clients, Connect(c) PROVE GatewayInv'
<1>1. PICK s : s = [client[c] EXCEPT !.st = "joining", !.open = TRUE]
  OBVIOUS
<1>2. client[c].st = "new" /\ client[c] \in Client
  BY ClientAt DEF Connect
<1>3. s \in Client /\ s.st = "joining" /\ s.closed = client[c].closed
  BY <1>1, <1>2 DEF Client
<1>4. s.missed = client[c].missed
  BY <1>1, <1>2 DEF Client
<1>5. Served(s, leaving[c])
  BY <1>2, <1>3, <1>4, ClientAt DEF Served
<1> QED  BY <1>1, <1>3, <1>5, ClientAt, ClientMoves DEF Connect, Set

LEMMA RegisterInv == ASSUME Sizes, GatewayInv, NEW c \in Clients, Register(c) PROVE GatewayInv'
<1>1. PICK s : s = [client[c] EXCEPT !.st = "in"]
  OBVIOUS
<1>2. client[c].st = "joining" /\ client[c] \in Client
  BY ClientAt DEF Register
<1>3. s \in Client /\ s.st = "in" /\ s.closed = client[c].closed
  BY <1>1, <1>2 DEF Client
<1>4. s.missed = client[c].missed /\ s.open = client[c].open
  BY <1>1, <1>2 DEF Client
<1>5. Served(s, leaving[c])
  BY <1>2, <1>3, <1>4, ClientAt DEF Served
<1> QED  BY <1>1, <1>3, <1>5, ClientAt, ClientMoves DEF Register, Set

LEMMA WriteInv == ASSUME Sizes, GatewayInv, NEW c \in Clients, Write(c) PROVE GatewayInv'
<1>1. PICK s : s = [client[c] EXCEPT !.buffer = client[c].buffer - 1]
  OBVIOUS
<1>2. client[c].buffer > 0 /\ client[c] \in Client
  BY ClientAt DEF Write
<1>3. client[c].buffer - 1 \in 0 .. BufferSize
  BY <1>2 DEF Client, Sizes
<1>4. s \in Client /\ s.st = client[c].st /\ s.closed = client[c].closed
  BY <1>1, <1>2, <1>3 DEF Client
<1>5. s.missed = client[c].missed /\ s.open = client[c].open
  BY <1>1, <1>2 DEF Client
<1>6. Served(s, leaving[c])
  BY <1>4, <1>5, ClientAt DEF Served
<1> QED  BY <1>1, <1>4, <1>6, ClientAt, ClientMoves DEF Write, Set

LEMMA HandlerEndsInv ==
  ASSUME Sizes, GatewayInv, NEW c \in Clients, HandlerEnds(c) PROVE GatewayInv'
<1>1. PICK s : s = [client[c] EXCEPT !.open = FALSE]
  OBVIOUS
<1>2. client[c].st \in {"in", "out"} /\ client[c] \in Client
  BY ClientAt DEF HandlerEnds
<1>3. s \in Client /\ s.st = client[c].st /\ s.closed = client[c].closed
  BY <1>1, <1>2 DEF Client
<1>4. s.missed = client[c].missed /\ ~s.open
  BY <1>1, <1>2 DEF Client
<1>5. PICK n \in Nat : n = leaving[c] + 1
  BY ClientAt
<1>6. Served(s, n)
  BY <1>2, <1>3, <1>4, <1>5, ClientAt DEF Served
<1> QED  BY <1>1, <1>3, <1>5, <1>6, ClientMoves DEF HandlerEnds, Set

\* The channel is closed by the first goroutine that asks.
LEMMA UnregisterInv ==
  ASSUME Sizes, GatewayInv, NEW c \in Clients, Unregister(c) PROVE GatewayInv'
<1>1. PICK n \in Nat : n = leaving[c] - 1
  BY ClientAt DEF Unregister
<1>2. /\ leaving[c] > 0 /\ leaving' = [leaving EXCEPT ![c] = n]
      /\ client' = [client EXCEPT ![c] = Removed(c)]
      /\ client[c] \in Client /\ Served(client[c], leaving[c])
  BY <1>1, ClientAt DEF Unregister, Set
<1>3. PICK s : s = Removed(c)
  OBVIOUS
<1>4. CASE client[c].st = "in"
  <2>1. client[c].closed + 1 = 1
    BY <1>2, <1>4 DEF Served
  <2>2. s = [client[c] EXCEPT !.st = "out", !.closed = 1]
    BY <1>3, <1>4, <2>1 DEF Removed
  <2>3. s \in Client /\ s.st = "out" /\ s.closed = 1
    BY <1>2, <2>2 DEF Client
  <2>4. s.missed = client[c].missed /\ s.open = client[c].open
    BY <1>2, <2>2 DEF Client
  <2>5. Served(s, n)
    BY <1>1, <1>2, <1>4, <2>3, <2>4 DEF Served
  <2> QED  BY <1>1, <1>2, <1>3, <2>3, <2>5, ClientMoves DEF Unregister
<1>5. CASE client[c].st # "in"
  <2>1. s = client[c]
    BY <1>3, <1>5 DEF Removed
  <2>2. Served(s, n)
    BY <1>1, <1>2, <1>5, <2>1 DEF Served, Client
  <2> QED  BY <1>1, <1>2, <1>3, <2>1, <2>2, ClientMoves DEF Unregister
<1> QED  BY <1>4, <1>5

\* A client whose channel is full misses the event, and a goroutine lets go of it.
LEMMA DeliverInv == ASSUME Sizes, GatewayInv, Deliver PROVE GatewayInv'
<1>1. /\ TypeOK /\ broadcast \in Nat /\ broadcast > 0 /\ broadcast' = broadcast - 1
      /\ UNCHANGED <<counter, record, lock, req, requests, faults, past>>
  BY DEF Sizes, GatewayInv, TypeOK, Deliver, gateVars
<1>2. ASSUME NEW c \in Clients
      PROVE  /\ client'[c] \in Client /\ leaving'[c] \in Nat
             /\ Served(client'[c], leaving'[c])
  <2>1. /\ client[c] \in Client /\ leaving[c] \in Nat /\ Served(client[c], leaving[c])
    BY ClientAt
  <2>2. CASE client[c].st # "in"
    <3>1. c \notin Slow
      BY <2>2 DEF Slow
    <3>2. client'[c] = client[c] /\ leaving'[c] = leaving[c]
      BY <2>2, <3>1 DEF Deliver, Left
    <3> QED  BY <2>1, <3>2
  <2>3. CASE client[c].st = "in" /\ c \in Slow
    <3>1. IsFull(c) /\ leaving'[c] = leaving[c] + 1
      BY <2>3 DEF Slow, Deliver, Left
    <3>2. client'[c] = [client[c] EXCEPT !.missed = client[c].missed \/ IsFull(c)]
      BY <2>3 DEF Deliver
    <3>3. client'[c] = [client[c] EXCEPT !.missed = TRUE]
      BY <3>1, <3>2
    <3>4. client'[c] \in Client /\ client'[c].st = "in" /\ client'[c].closed = client[c].closed
      BY <2>1, <2>3, <3>3 DEF Client
    <3>5. client'[c].missed
      BY <2>1, <3>3 DEF Client
    <3> QED  BY <2>1, <2>3, <3>1, <3>4, <3>5 DEF Served
  <2>4. CASE client[c].st = "in" /\ c \notin Slow
    <3>1. client[c].buffer + 1 \in 0 .. BufferSize
      BY <2>1, <2>4 DEF Slow, IsFull, Client, Sizes
    <3>2. /\ client'[c] = [client[c] EXCEPT !.buffer = client[c].buffer + 1]
          /\ leaving'[c] = leaving[c]
      BY <2>4 DEF Deliver, Left
    <3>3. client'[c] \in Client /\ client'[c].st = "in" /\ client'[c].closed = client[c].closed
      BY <2>1, <2>4, <3>1, <3>2 DEF Client
    <3>4. client'[c].missed = client[c].missed /\ client'[c].open = client[c].open
      BY <2>1, <3>2 DEF Client
    <3> QED  BY <2>1, <2>4, <3>2, <3>3, <3>4 DEF Served
  <2> QED  BY <2>2, <2>3, <2>4
<1>3. client' \in [Clients -> Client]
  <2> DEFINE New(c) == CASE client[c].st # "in" -> client[c]
                         [] client[c].st = "in" /\ c \in Slow ->
                              [client[c] EXCEPT !.missed = @ \/ IsFull(c)]
                         [] OTHER -> [client[c] EXCEPT !.buffer = @ + 1]
  <2>1. client' = [c \in Clients |-> New(c)]
    BY DEF Deliver
  <2> HIDE DEF New
  <2> QED  BY <1>2, <2>1
<1>4. leaving' \in [Clients -> Nat]
  <2>1. leaving' = [c \in Clients |-> IF c \in Slow THEN leaving[c] + 1 ELSE leaving[c]]
    BY DEF Deliver, Left
  <2> QED  BY <1>2, <2>1
<1>5. broadcast' \in 0 .. BroadcastSize
  BY <1>1 DEF TypeOK, Sizes
<1>6. Serving'
  BY <1>2 DEF Serving, Served
<1>7. record' \in [Keys -> Outcomes \cup {"none"}]
  BY <1>1 DEF TypeOK
<1> QED  BY <1>1, <1>3, <1>4, <1>5, <1>6, <1>7, RequestsAside

LEMMA CrashInv == ASSUME Sizes, GatewayInv, Crash PROVE GatewayInv'
<1>1. /\ TypeOK /\ faults' \in 0 .. MaxFaults /\ faults' > 0
      /\ req' = [w \in Workers |-> NoReq] /\ broadcast' = 0
      /\ client' = [c \in Clients |-> NewClient] /\ leaving' = [c \in Clients |-> 0]
      /\ UNCHANGED <<counter, record, lock, requests, past>>
  BY DEF Sizes, GatewayInv, TypeOK, Crash, Fault
<1>2. NewClient \in Client /\ Served(NewClient, 0)
  BY DEF Sizes, NewClient, Client, Served
<1>3. TypeOK'
  <2>1. req' \in [Workers -> Req] /\ client' \in [Clients -> Client] /\ leaving' \in [Clients -> Nat]
    BY <1>1, <1>2, NoReqTyped
  <2>2. broadcast' \in 0 .. BroadcastSize
    BY <1>1 DEF Sizes
  <2> QED  BY <1>1, <2>1, <2>2 DEF TypeOK
<1>4. \A w \in Workers : req'[w] = NoReq
  BY <1>1
<1>5. Counting'
  <2>1. \A w \in Workers, x \in Windows : ~Ends(w, x)'
    BY <1>4, NoReqTyped, Tables DEF Ends
  <2> QED  BY <1>1, <2>1 DEF GatewayInv, Counting
<1>6. Locking'
  <2>1. \A k \in Keys : Running(k)' = {}
    BY <1>4, NoReqTyped DEF Running
  <2> QED  BY <1>4, <2>1, NoReqTyped DEF Locking
<1>7. Serving'
  BY <1>1, <1>2 DEF Serving, Served
<1> QED  BY <1>3, <1>5, <1>6, <1>7 DEF GatewayInv

-----------------------------------------------------------------------------
(* The specification.                                                      *)

LEMMA InitInv == ASSUME Sizes, Init PROVE GatewayInv
<1>1. NewClient \in Client /\ Served(NewClient, 0)
  BY DEF Sizes, NewClient, Client, Served
<1>2. past \in Past /\ past.passed = [x \in Windows |-> 0]
  BY DEF Init, Past
<1>3. \A w \in Workers : req[w] = NoReq
  BY DEF Init
<1>4. TypeOK
  <2>1. /\ counter \in [Windows -> [n : Nat, ttl : BOOLEAN]]
        /\ record \in [Keys -> Outcomes \cup {"none"}] /\ lock \in [Keys -> BOOLEAN]
    BY DEF Init
  <2>2. req \in [Workers -> Req] /\ client \in [Clients -> Client] /\ leaving \in [Clients -> Nat]
    BY <1>1, NoReqTyped DEF Init
  <2>3. broadcast \in 0 .. BroadcastSize /\ requests \in 0 .. MaxRequests /\ faults \in 0 .. MaxFaults
    BY DEF Init, Sizes
  <2> QED  BY <1>2, <2>1, <2>2, <2>3 DEF TypeOK
<1>5. Counting
  <2>1. \A w \in Workers, x \in Windows : ~Ends(w, x)
    BY <1>3, NoReqTyped, Tables DEF Ends
  <2>2. \A x \in Windows : counter[x].n = 0 /\ ~counter[x].ttl
    BY DEF Init
  <2> QED  BY <1>2, <2>1, <2>2, Tables DEF Counting
<1>6. Locking
  <2>1. \A k \in Keys : Running(k) = {}
    BY <1>3, NoReqTyped DEF Running
  <2> QED  BY <1>3, <2>1, NoReqTyped DEF Locking
<1>7. Serving
  BY <1>1 DEF Init, Serving, Served
<1> QED  BY <1>4, <1>5, <1>6, <1>7 DEF GatewayInv

LEMMA NextInv == ASSUME Sizes, GatewayInv, [Next]_vars PROVE GatewayInv'
<1>1. CASE \E w \in Workers :
             \/ \E k \in Keys \cup {NoKey} : Arrive(w, k)
             \/ \E x \in Windows : Hit(w, x) \/ FailOpen(w, x) \/ Expire(w, x)
             \/ Lookup(w) \/ Acquire(w) \/ Run(w) \/ Store(w) \/ Unlock(w) \/ Audit(w)
  <2>1. PICK w \in Workers :
             \/ \E k \in Keys \cup {NoKey} : Arrive(w, k)
             \/ \E x \in Windows : Hit(w, x) \/ FailOpen(w, x) \/ Expire(w, x)
             \/ Lookup(w) \/ Acquire(w) \/ Run(w) \/ Store(w) \/ Unlock(w) \/ Audit(w)
    BY <1>1
  <2>2. CASE \E k \in Keys \cup {NoKey} : Arrive(w, k)
    BY <2>2, ArriveInv
  <2>3. CASE \E x \in Windows : Hit(w, x) \/ FailOpen(w, x) \/ Expire(w, x)
    BY <2>3, HitInv, FailOpenInv, ExpireInv
  <2>4. CASE Lookup(w) \/ Acquire(w) \/ Run(w)
    BY <2>4, LookupInv, AcquireInv, RunInv
  <2>5. CASE Store(w) \/ Unlock(w) \/ Audit(w)
    BY <2>5, StoreInv, UnlockInv, AuditInv
  <2> QED  BY <2>1, <2>2, <2>3, <2>4, <2>5
<1>2. CASE \E x \in Windows : WindowEnds(x)
  BY <1>2, WindowEndsInv
<1>3. CASE \E k \in Keys : LockExpires(k) \/ RecordExpires(k)
  BY <1>3, LockExpiresInv, RecordExpiresInv
<1>4. CASE \E c \in Clients : Connect(c) \/ Register(c) \/ Unregister(c) \/ Write(c) \/ HandlerEnds(c)
  BY <1>4, ConnectInv, RegisterInv, UnregisterInv, WriteInv, HandlerEndsInv
<1>5. CASE Deliver
  BY <1>5, DeliverInv
<1>6. CASE Crash
  BY <1>6, CrashInv
<1>7. CASE UNCHANGED vars
  <2>1. /\ record' \in [Keys -> Outcomes \cup {"none"}] /\ broadcast' \in 0 .. BroadcastSize
        /\ client' \in [Clients -> Client] /\ leaving' \in [Clients -> Nat]
    BY <1>7 DEF GatewayInv, TypeOK, vars
  <2>2. Serving'
    BY <1>7, ServingKept DEF GatewayInv, vars
  <2> QED  BY <1>7, <2>1, <2>2, RequestsAside DEF vars
<1> QED  BY <1>1, <1>2, <1>3, <1>4, <1>5, <1>6, <1>7 DEF Next

LEMMA GatewayInvariant == ASSUME Sizes PROVE Spec => []GatewayInv
<1>1. Init => GatewayInv
  BY InitInv
<1>2. GatewayInv /\ [Next]_vars => GatewayInv'
  BY NextInv
<1> QED  BY <1>1, <1>2, PTL DEF Spec

LEMMA InvSays == GatewayInv => LimitsHold /\ HearOrLeave
<1> SUFFICES ASSUME GatewayInv PROVE LimitsHold /\ HearOrLeave
  OBVIOUS
<1>1. WindowsHold
  BY DEF GatewayInv, Counting, Ends, WindowsHold
<1>2. OneRunAtATime
  BY DEF GatewayInv, Locking, OneRunAtATime
<1>3. NoSilentGap /\ LeavesOnce
  BY DEF GatewayInv, Serving, NoSilentGap, LeavesOnce
<1> QED  BY <1>1, <1>2, <1>3 DEF LimitsHold, HearOrLeave

\* However many handlers count at once, a window lets no more of the requests it counted
\* pass than its limit, and its counter ends if no fault kept it from that; and a handler
\* runs for a key alone, unless a lock ended before its run or could not be had.
THEOREM LimitsAreKept == ASSUME Sizes PROVE Spec => []LimitsHold
  BY InvSays, GatewayInvariant, PTL

\* A client that missed an event is about to leave the hub, its channel is closed once
\* however many goroutines ask for it, and no other client loses an open connection.
THEOREM ClientsHearOrLeave == ASSUME Sizes PROVE Spec => []HearOrLeave
  BY InvSays, GatewayInvariant, PTL

-----------------------------------------------------------------------------
(* Connections: the flows, the rows and the keys of one provider.          *)

CONSTANTS Orgs, Procs, RowIds, MaxFlows, MaxTokens, MaxKeys
VARIABLES env, target, rotated, flow, row, op, given, mixed, refused
C == INSTANCE Connections

\* The bounds are numbers, rows too, and Nil is neither a row nor an organization.
ConnSizes ==
  /\ MaxFlows \in Nat /\ MaxTokens \in Nat /\ MaxKeys \in Nat \ {0} /\ MaxFaults \in Nat
  /\ RowIds \subseteq Nat \ {0} /\ C!Nil \notin Orgs

\* A flow that was begun is some organization's, and until its state has been taken
\* from Redis nobody has used it.
FlowOK(f) ==
  /\ f.state # "new" => f.org \in Orgs
  /\ f.state # "gone" => f.exchanged = 0 /\ ~f.saved
  /\ f.exchanged <= 1
\* A request that connects has the flow to itself, and its outcome is that of the flow.
OpOK(o) ==
  /\ o.pc \in {"idle", "token", "rotate"} => o.flow = C!Nil
  /\ o.pc \notin {"idle", "token", "rotate"} => o.flow \in C!Flows /\ flow[o.flow].state = "gone"
  /\ o.pc \in {"exchange", "validate", "find", "save"} => o.org = flow[o.flow].org
  /\ o.pc \in {"exchange", "validate", "find", "save", "error"} => ~flow[o.flow].saved
  /\ o.pc \in {"enqueue", "connected"} => flow[o.flow].saved
  /\ o.pc = "exchange" => flow[o.flow].exchanged = 0
  /\ o.pc \in {"exchange", "validate", "find", "save", "token", "rotate"} => o.org \in Orgs
FlowsOK ==
  /\ \A f \in C!Flows : FlowOK(flow[f])
  /\ \A p \in Procs : OpOK(op[p])
  /\ \A p, q \in Procs : op[p].flow = op[q].flow /\ op[p].flow # C!Nil => p = q

\* Credentials, also those in copies of a row, are of the organization that asked.  A
\* copy is of a row of the organization that the request is for.
CredOK(x) == x.cred # C!Nil => flow[x.cred].state # "new" /\ x.org = flow[x.cred].org
Working(o) == IF o.pc \in {"save", "token"} THEN {o.id} \ {C!Nil}
              ELSE IF o.pc = "rotate" THEN o.todo ELSE {}
CopyOK(o) ==
  /\ \A r \in Working(o) : row[r].org = o.org /\ o.seen[r].org = o.org /\ CredOK(o.seen[r])
  /\ o.pc = "token" => o.id \in RowIds /\ o.seen[o.id].secret = C!Nil
CopiesOK == (\A r \in RowIds : CredOK(row[r])) /\ \A p \in Procs : CopyOK(op[p])

\* A rotation that will count began when all processes had the key, which they keep:
\* the rows that it has still to look at apart, all can be read with it.
Readable(c) == C!Decrypts([cur |-> target.cur, prev |-> {}], c)
RotationOK(o, e) ==
  o.pc = "rotate" /\ e = target =>
    /\ C!Deployed
    /\ o.org \notin mixed => \A r \in C!RowsOf(o.org) :
         Readable(row[r].enc) \/ (r \in o.todo /\ row[r].enc = o.seen[r].enc)
KeysOK ==
  /\ rotated # {} => \A p \in Procs : env[p].cur = target.cur
  /\ C!RotatedIsReadable
  /\ \A p \in Procs : RotationOK(op[p], env[p])

\* No process knows the first key any more only if the operator has dropped it.
SignedIn ==
  /\ \A p \in Procs : 1 \in C!KeysOf(target) => 1 \in C!KeysOf(env[p])
  /\ refused # {} => Procs # {} /\ 1 \notin C!KeysOf(target)

ConnInv == C!TypeOK /\ FlowsOK /\ CopiesOK /\ C!TokenStays /\ KeysOK /\ SignedIn

-----------------------------------------------------------------------------
(* Types, and what stays when a part of the state does.                    *)

LEMMA ConnTyped ==
  ASSUME ConnSizes
  PROVE  /\ C!NoRow \in C!Row /\ C!NoOp \in C!Op /\ C!NoRow.cred = C!Nil /\ C!NoRow.org = C!Nil
         /\ C!NoOp.pc = "idle" /\ C!NoOp.flow = C!Nil /\ C!NoRow.secret = C!Nil
         /\ \A e \in C!Env : C!Encrypt(e) \in C!Sealed
<1>1. 1 \in C!AllKeys /\ 0 \in 0 .. MaxFlows
  BY DEF ConnSizes, C!AllKeys
<1>2. C!NoRow \in C!Row
  BY <1>1 DEF C!NoRow, C!Row, C!Sealed, C!Nil
<1>3. C!NoOp \in C!Op
  BY <1>1, <1>2 DEF C!NoOp, C!Op, C!Pcs, C!Nil
<1>4. \A e \in C!Env : C!Encrypt(e) \in C!Sealed
  BY DEF C!Env, C!Encrypt, C!Sealed
<1> QED  BY <1>2, <1>3, <1>4 DEF C!NoRow, C!NoOp, C!Nil

LEMMA OpsMove ==
  ASSUME C!TypeOK, NEW p \in Procs, NEW new \in C!Op, op' = [op EXCEPT ![p] = new]
  PROVE  /\ op' \in [Procs -> C!Op] /\ op'[p] = new
         /\ \A q \in Procs \ {p} : op'[q] = op[q]
  BY DEF C!TypeOK

LEMMA OpAt ==
  ASSUME C!TypeOK, NEW p \in Procs
  PROVE  /\ op[p] \in C!Op /\ op[p].pc \in C!Pcs /\ op[p].flow \in 0 .. MaxFlows
         /\ op[p].org \in Orgs \cup {C!Nil} /\ op[p].id \in RowIds \cup {C!Nil}
         /\ op[p].seen \in [RowIds -> C!Row] /\ op[p].todo \in SUBSET RowIds
         /\ env[p] \in C!Env /\ target \in C!Env
<1>1. op[p] \in C!Op /\ env[p] \in C!Env /\ target \in C!Env
  BY DEF C!TypeOK
<1> QED  BY <1>1 DEF C!Op

LEMMA FaultTypes == ASSUME ConnSizes, C!TypeOK, C!Fault PROVE faults' \in 0 .. MaxFaults
  BY DEF ConnSizes, C!TypeOK, C!Fault

LEMMA NoOpOK ==
  ASSUME ConnSizes
  PROVE  OpOK(C!NoOp) /\ CopyOK(C!NoOp) /\ \A e : RotationOK(C!NoOp, e)
  BY ConnTyped DEF OpOK, CopyOK, RotationOK, Working

\* Requests only: the flows stay, and one request moves on, or ends.
LEMMA FlowsKept ==
  ASSUME C!TypeOK, FlowsOK, UNCHANGED flow, NEW p \in Procs, NEW new \in C!Op,
         op' = [op EXCEPT ![p] = new], OpOK(new), new.flow \in {C!Nil, op[p].flow}
  PROVE  FlowsOK'
<1>1. op'[p] = new /\ \A q \in Procs \ {p} : op'[q] = op[q]
  BY OpsMove
<1>2. \A q \in Procs : OpOK(op[q])
  BY DEF FlowsOK
<1>3. OpOK(new)'
  BY DEF OpOK
<1>4. \A q \in Procs : OpOK(op[q])'
  BY <1>1, <1>2, <1>3 DEF OpOK
<1>5. \A f \in C!Flows : FlowOK(flow[f])'
  BY DEF FlowsOK, FlowOK
<1>6. \A x, y \in Procs : op[x].flow = op[y].flow /\ op[x].flow # C!Nil => x = y
  BY DEF FlowsOK
<1>7. \A x, y \in Procs : op'[x].flow = op'[y].flow /\ op'[x].flow # C!Nil => x = y
  BY <1>1, <1>6
<1> QED  BY <1>4, <1>5, <1>7 DEF FlowsOK

\* A flow that somebody has begun is of the same organization ever after.
FlowsStay == \A f \in C!Flows : flow[f].state # "new" => flow'[f].state # "new"
   /\ flow'[f].org = flow[f].org

LEMMA CredStays ==
  ASSUME FlowsStay, NEW x \in C!Row, CredOK(x)
  PROVE  x.cred # C!Nil => flow'[x.cred].state # "new" /\ x.org = flow'[x.cred].org
  BY DEF FlowsStay, CredOK, C!Row, C!Flows, C!Nil

LEMMA CopiesKept ==
  ASSUME ConnSizes, C!TypeOK, FlowsOK, CopiesOK, FlowsStay,
         \A p \in Procs : op'[p] = op[p] \/ CopyOK(op[p])',
         \A r \in RowIds : /\ row[r].org # C!Nil => row'[r].org = row[r].org
                           /\ CredOK(row[r])'
  PROVE  CopiesOK'
<1>2. ASSUME NEW q \in Procs, op'[q] = op[q] PROVE CopyOK(op[q])'
  <2>1. CopyOK(op[q]) /\ OpOK(op[q])
    BY DEF CopiesOK, FlowsOK
  <2>2. PICK o \in C!Op : o = op[q] /\ o = op'[q]
    BY <1>2, OpAt
  <2>3. Working(o) \subseteq RowIds /\ (Working(o) # {} => o.org \in Orgs /\ o.org # C!Nil)
    BY <2>1, <2>2 DEF Working, C!Op, OpOK, ConnSizes
  <2>4. ASSUME NEW r \in Working(o)
        PROVE  row'[r].org = o.org /\ o.seen[r].org = o.org /\ CredOK(o.seen[r])'
    <3>1. r \in RowIds /\ row[r].org = o.org /\ o.seen[r].org = o.org /\ CredOK(o.seen[r])
      BY <2>1, <2>2, <2>3, <2>4 DEF CopyOK
    <3>2. o.seen[r] \in C!Row
      BY <3>1 DEF C!Op
    <3>3. CredOK(o.seen[r])'
      BY <3>1, <3>2, CredStays DEF CredOK
    <3> QED  BY <2>3, <2>4, <3>1, <3>3
  <2>5. CopyOK(o)'
    BY <2>1, <2>2, <2>4 DEF CopyOK, Working
  <2> QED  BY <2>2, <2>5
<1> QED  BY <1>2 DEF CopiesOK

\* Nobody writes a row, the keys stay.
LEMMA KeysKept ==
  ASSUME C!TypeOK, KeysOK, UNCHANGED <<C!keyVars, row, mixed>>,
         \A p \in Procs : op'[p] = op[p] \/ RotationOK(op'[p], env[p])
  PROVE  KeysOK'
<1>2. UNCHANGED <<env, target, rotated, row, mixed>>
  BY DEF C!keyVars
<1>3. C!RotatedIsReadable'
  BY <1>2 DEF KeysOK, C!RotatedIsReadable, C!RowsOf
<1>4. \A q \in Procs : RotationOK(op'[q], env[q])
  BY DEF KeysOK
<1>5. ASSUME NEW q \in Procs PROVE RotationOK(op[q], env[q])'
  <2>1. PICK o, e : o = op'[q] /\ e = env[q] /\ e = env'[q]
    BY <1>2
  <2>2. C!Deployed => C!Deployed'
    BY <1>2 DEF C!Deployed
  <2>3. C!RowsOf(o.org)' = C!RowsOf(o.org) /\ \A c : Readable(c) => Readable(c)'
    BY <1>2 DEF C!RowsOf, Readable, C!Decrypts
  <2>4. RotationOK(o, e)
    BY <1>4, <2>1
  <2>5. RotationOK(o, e)'
    BY <1>2, <2>2, <2>3, <2>4 DEF RotationOK
  <2> QED  BY <2>1, <2>5
<1> QED  BY <1>2, <1>3, <1>5 DEF KeysOK

LEMMA TokensKept == ASSUME C!TokenStays, UNCHANGED <<row, given, mixed>> PROVE C!TokenStays'
  BY DEF C!TokenStays, C!RowsOf
LEMMA SignedInKept == ASSUME SignedIn, UNCHANGED <<env, target, refused>> PROVE SignedIn'
  BY DEF SignedIn, C!KeysOf

\* One request moves on, nothing else happens.
LEMMA RequestMoves ==
  ASSUME ConnSizes, ConnInv, NEW p \in Procs, NEW new \in C!Op, op' = [op EXCEPT ![p] = new],
         UNCHANGED <<C!keyVars, flow, row, C!history>>, faults' \in 0 .. MaxFaults,
         OpOK(new), CopyOK(new), RotationOK(new, env[p]), new.flow \in {C!Nil, op[p].flow}
  PROVE  ConnInv'
<1>1. UNCHANGED <<env, target, rotated, flow, row, given, mixed, refused>>
  BY DEF C!keyVars, C!history
<1>9. op'[p] = new /\ \A q \in Procs \ {p} : op'[q] = op[q]
  BY OpsMove DEF ConnInv
<1>2. C!TypeOK'
  BY <1>1, OpsMove DEF ConnInv, C!TypeOK
<1>3. FlowsOK'
  BY <1>1, FlowsKept DEF ConnInv
<1>4. FlowsStay
  BY <1>1 DEF FlowsStay
<1>5. \A r \in RowIds : CredOK(row[r])'
  BY <1>1 DEF ConnInv, CopiesOK, CredOK
<1>6. CopyOK(new)'
  BY <1>1 DEF CopyOK, Working, CredOK
<1>7. CopiesOK'
  <2>1. CopyOK(op[p])'
    BY <1>6, <1>9 DEF CopyOK, Working, CredOK
  <2> QED  BY <1>1, <1>4, <1>5, <1>9, <2>1, CopiesKept DEF ConnInv
<1>8. KeysOK'
  BY <1>1, <1>9, KeysKept DEF ConnInv
<1> QED  BY <1>1, <1>2, <1>3, <1>7, <1>8, TokensKept, SignedInKept DEF ConnInv

-----------------------------------------------------------------------------
(* Requests that only move on.                                             *)

LEMMA ConnCrashInv == ASSUME ConnSizes, ConnInv, NEW p \in Procs, C!Crash(p) PROVE ConnInv'
<1>1. faults' \in 0 .. MaxFaults
  BY FaultTypes DEF ConnInv, C!Crash
<1> QED  BY <1>1, RequestMoves, NoOpOK, ConnTyped DEF C!Crash

LEMMA RedirectInv == ASSUME ConnSizes, ConnInv, NEW p \in Procs, C!Redirect(p) PROVE ConnInv'
<1>1. faults' \in 0 .. MaxFaults
  BY DEF ConnInv, C!TypeOK, C!Redirect
<1> QED  BY <1>1, RequestMoves, NoOpOK, ConnTyped DEF C!Redirect

\* A request that looks at no row keeps its flow and goes to another step.
LEMMA GoesTo ==
  ASSUME ConnSizes, ConnInv, NEW p \in Procs, NEW pc \in C!Pcs, C!Goto(p, pc),
         UNCHANGED <<C!keyVars, flow, row, C!history>>, faults' \in 0 .. MaxFaults,
         OpOK([op[p] EXCEPT !.pc = pc]), pc \notin {"save", "token", "rotate"}
  PROVE  ConnInv'
<1>1. PICK new : new = [op[p] EXCEPT !.pc = pc]
  OBVIOUS
<1>2. new \in C!Op /\ new.pc = pc /\ new.flow = op[p].flow
  BY <1>1, OpAt DEF ConnInv, C!Op
<1>3. op' = [op EXCEPT ![p] = new]
  BY <1>1 DEF C!Goto
<1>4. OpOK(new) /\ CopyOK(new) /\ RotationOK(new, env[p])
  BY <1>1, <1>2 DEF CopyOK, Working, RotationOK
<1> QED  BY <1>2, <1>3, <1>4, RequestMoves

LEMMA ValidateInv == ASSUME ConnSizes, ConnInv, NEW p \in Procs, C!Validate(p) PROVE ConnInv'
<1>1. PICK pc \in {"find", "error"} : C!Goto(p, pc)
  BY DEF C!Validate
<1>2. OpOK(op[p]) /\ op[p] \in C!Op
  BY OpAt DEF ConnInv, FlowsOK
<1>3. OpOK([op[p] EXCEPT !.pc = pc])
  BY <1>1, <1>2 DEF C!Validate, OpOK, C!Op
<1>4. pc \in C!Pcs /\ faults' \in 0 .. MaxFaults
  BY DEF C!Pcs, ConnInv, C!TypeOK, C!Validate
<1> QED  BY <1>1, <1>3, <1>4, GoesTo DEF C!Validate

LEMMA EnqueueConnInv == ASSUME ConnSizes, ConnInv, NEW p \in Procs, C!Enqueue(p) PROVE ConnInv'
<1>1. C!Goto(p, "connected")
  BY DEF C!Enqueue, C!AnswerTo
<1>2. OpOK(op[p]) /\ op[p] \in C!Op
  BY OpAt DEF ConnInv, FlowsOK
<1>3. OpOK([op[p] EXCEPT !.pc = "connected"])
  BY <1>2 DEF C!Enqueue, OpOK, C!Op
<1>4. faults' = faults \/ C!Fault
  BY DEF C!Enqueue
<1>5. "connected" \in C!Pcs /\ faults' \in 0 .. MaxFaults
  BY <1>4, FaultTypes DEF C!Pcs, ConnInv, C!TypeOK
<1> QED  BY <1>1, <1>3, <1>5, GoesTo DEF C!Enqueue

LEMMA LeastExists ==
  ASSUME NEW S \in SUBSET Nat, S # {} PROVE \E r \in S : \A q \in S : r <= q
<1>1. PICK r \in S : \A q \in S : ~(<<q, r>> \in OpToRel(<, Nat))
  BY NatLessThanWellFounded, WFMin
<1>2. \A q \in S : ~(q < r)
  BY <1>1 DEF OpToRel
<1> QED  BY <1>2

LEMMA FirstIs ==
  ASSUME ConnSizes, C!TypeOK, NEW o \in Orgs, C!First(o) # C!Nil
  PROVE  C!First(o) \in RowIds /\ row[C!First(o)].org = o
<1>1. C!RowsOf(o) # {} /\ C!RowsOf(o) \in SUBSET Nat
  BY DEF C!First, C!RowsOf, ConnSizes
<1>2. \E r \in C!RowsOf(o) : \A q \in C!RowsOf(o) : r <= q
  BY <1>1, LeastExists
<1>4. C!First(o) \in C!RowsOf(o)
  BY <1>1, <1>2 DEF C!First
<1> QED  BY <1>4 DEF C!RowsOf

\* Who has read a row holds it as it is.
LEMMA FreshCopies ==
  ASSUME ConnSizes, ConnInv, NEW R \in SUBSET RowIds, NEW o, \A r \in R : row[r].org = o
  PROVE  /\ C!Seen(R) \in [RowIds -> C!Row]
         /\ \A r \in R : C!Seen(R)[r] = row[r] /\ C!Seen(R)[r].org = o /\ CredOK(C!Seen(R)[r])
<1>1. row \in [RowIds -> C!Row] /\ C!NoRow \in C!Row
  BY ConnTyped DEF ConnInv, C!TypeOK
<1>2. \A r \in RowIds : CredOK(row[r])
  BY DEF ConnInv, CopiesOK
<1>3. C!Seen(R) \in [RowIds -> C!Row] /\ \A r \in R : C!Seen(R)[r] = row[r]
  BY <1>1 DEF C!Seen
<1> QED  BY <1>2, <1>3

LEMMA FindInv == ASSUME ConnSizes, ConnInv, NEW p \in Procs, C!Find(p) PROVE ConnInv'
<1>1. OpOK(op[p]) /\ op[p] \in C!Op /\ op[p].org \in Orgs /\ op[p].pc = "find"
  BY OpAt DEF ConnInv, FlowsOK, C!Find, OpOK
<1>2. CASE C!Fault /\ C!Goto(p, "error")
  <2>1. OpOK([op[p] EXCEPT !.pc = "error"])
    BY <1>1 DEF OpOK, C!Op
  <2>2. "error" \in C!Pcs /\ faults' \in 0 .. MaxFaults
    BY <1>2, FaultTypes DEF C!Pcs, ConnInv
  <2> QED  BY <1>2, <2>1, <2>2, GoesTo DEF C!Find
<1>3. ASSUME NEW r, r = C!First(op[p].org), UNCHANGED faults,
             op' = [op EXCEPT ![p].pc = "save", ![p].seen = C!Seen({r}), ![p].id = r]
      PROVE  ConnInv'
  <2>1. PICK new : new = [op[p] EXCEPT !.pc = "save", !.seen = C!Seen({r}), !.id = r]
    OBVIOUS
  <2>2. op' = [op EXCEPT ![p] = new]
    BY <1>3, <2>1
  <2>3. r # C!Nil => r \in RowIds /\ row[r].org = op[p].org
    BY <1>1, <1>3, FirstIs DEF ConnInv
  <2>4. C!Seen({r}) \in [RowIds -> C!Row]
    BY ConnTyped DEF C!Seen, ConnInv, C!TypeOK
  <2>5. /\ new \in C!Op /\ new.pc = "save" /\ new.seen = C!Seen({r}) /\ new.id = r
        /\ new.flow = op[p].flow /\ new.org = op[p].org
    BY <1>1, <2>1, <2>3, <2>4 DEF C!Op, C!Pcs
  <2>6. OpOK(new) /\ RotationOK(new, env[p])
    BY <1>1, <2>5 DEF OpOK, RotationOK
  <2>7. r # C!Nil => C!Seen({r})[r].org = op[p].org /\ CredOK(C!Seen({r})[r])
    BY <2>3, FreshCopies
  <2>8. CopyOK(new)
    BY <2>3, <2>5, <2>7 DEF CopyOK, Working
  <2>9. faults' \in 0 .. MaxFaults
    BY <1>3 DEF ConnInv, C!TypeOK
  <2> QED  BY <2>2, <2>5, <2>6, <2>8, <2>9, RequestMoves DEF C!Find
<1> QED  BY <1>2, <1>3 DEF C!Find

-----------------------------------------------------------------------------
(* Flows.                                                                  *)

\* A flow moves on, and the request that has it with it: what a flow promises is asked
\* of these two.
LEMMA FlowsMove ==
  ASSUME ConnSizes, ConnInv, NEW p \in Procs, NEW new \in C!Op, op' = [op EXCEPT ![p] = new],
         NEW f \in C!Flows, NEW x \in C!Flow, flow' = [flow EXCEPT ![f] = x],
         FlowOK(x), x.state # "new", flow[f].state # "new" => x.org = flow[f].org,
         flow[f].state = "gone" => op[p].flow = f,
         OpOK(new)', new.flow \in {C!Nil, f}
  PROVE  FlowsStay /\ FlowsOK'
<1>2. flow' \in [C!Flows -> C!Flow] /\ flow'[f] = x /\ \A g \in C!Flows \ {f} : flow'[g] = flow[g]
  BY DEF ConnInv, C!TypeOK
<1>3. op'[p] = new /\ \A q \in Procs \ {p} : op'[q] = op[q]
  BY OpsMove DEF ConnInv
<1>4. FlowsStay
  BY <1>2 DEF FlowsStay
<1>5. ASSUME NEW q \in Procs \ {p} PROVE OpOK(op[q])' /\ op[q].flow # f
  <2>1. PICK o \in C!Op : o = op[q] /\ o = op'[q]
    BY <1>3, OpAt DEF ConnInv
  <2>2. OpOK(o) /\ (op[p].flow = o.flow /\ o.flow # C!Nil => FALSE)
    BY <1>5, <2>1 DEF ConnInv, FlowsOK
  <2>3. f # C!Nil /\ C!Nil \notin C!Flows
    BY DEF C!Flows, C!Nil
  <2>4. o.flow # f
    BY <2>2, <2>3 DEF OpOK
  <2>5. OpOK(o)'
    BY <1>2, <2>2, <2>4 DEF OpOK
  <2> QED  BY <2>1, <2>4, <2>5
<1>6. FlowsOK'
  <2>1. \A g \in C!Flows : FlowOK(flow[g])'
    BY <1>2 DEF ConnInv, FlowsOK, FlowOK
  <2>2. \A q \in Procs : OpOK(op[q])'
    BY <1>3, <1>5
  <2>3. \A a, b \in Procs : op[a].flow = op[b].flow /\ op[a].flow # C!Nil => a = b
    BY DEF ConnInv, FlowsOK
  <2>4. \A a, b \in Procs : op'[a].flow = op'[b].flow /\ op'[a].flow # C!Nil => a = b
    BY <1>3, <1>5, <2>3
  <2> QED  BY <2>1, <2>2, <2>4 DEF FlowsOK
<1> QED  BY <1>4, <1>6

\* The same where no row is written and no key changes.
LEMMA FlowMoves ==
  ASSUME ConnSizes, ConnInv, NEW p \in Procs, NEW new \in C!Op, op' = [op EXCEPT ![p] = new],
         NEW f \in C!Flows, NEW x \in C!Flow, flow' = [flow EXCEPT ![f] = x],
         FlowOK(x), x.state # "new", flow[f].state # "new" => x.org = flow[f].org,
         flow[f].state = "gone" => op[p].flow = f,
         UNCHANGED <<C!keyVars, row, given, mixed>>,
         OpOK(new)', Working(new) = {}, new.pc # "rotate", new.pc # "token",
         new.flow \in {C!Nil, f},
         C!TypeOK', SignedIn'
  PROVE  ConnInv'
<1>1. UNCHANGED <<env, target, rotated, row, given, mixed>>
  BY DEF C!keyVars
<1>3. op'[p] = new /\ \A q \in Procs \ {p} : op'[q] = op[q]
  BY OpsMove DEF ConnInv
<1>4. FlowsStay
  BY FlowsMove
<1>6. FlowsOK'
  BY FlowsMove
<1>7. CopiesOK'
  <2>1. \A r \in RowIds : CredOK(row[r]) /\ row[r] \in C!Row
    BY DEF ConnInv, CopiesOK, C!TypeOK
  <2>2. ASSUME NEW r \in RowIds PROVE CredOK(row[r])'
    <3>1. PICK y \in C!Row : y = row[r] /\ y = row'[r]
      BY <1>1, <2>1
    <3>2. CredOK(y)'
      BY <1>4, <2>1, <3>1, CredStays DEF CredOK
    <3> QED  BY <3>1, <3>2
  <2>3. CopyOK(op[p])'
    BY <1>3 DEF CopyOK, Working
  <2> QED  BY <1>1, <1>3, <1>4, <2>2, <2>3, CopiesKept DEF ConnInv
<1>8. KeysOK'
  <2>1. RotationOK(new, env[p])
    BY DEF RotationOK
  <2> QED  BY <1>1, <1>3, <2>1, KeysKept DEF ConnInv
<1> QED  BY <1>1, <1>6, <1>7, <1>8, TokensKept DEF ConnInv

\* A request begins to connect: a flow comes with it.
LEMMA BegunInv ==
  ASSUME ConnSizes, ConnInv, NEW p \in Procs, NEW f \in C!Flows, NEW x \in C!Flow,
         NEW pc \in {"exchange", "validate"},
         op' = [op EXCEPT ![p] = [C!NoOp EXCEPT !.pc = pc, !.flow = f, !.org = x.org]],
         flow' = [flow EXCEPT ![f] = x], FlowOK(x), x.state = "gone",
         flow[f].state # "new" => x.org = flow[f].org, flow[f].state # "gone",
         x.exchanged = 0 /\ x.saved = FALSE,
         UNCHANGED <<C!keyVars, row, C!history, faults>>
  PROVE  ConnInv'
<1>1. x.org \in Orgs
  BY DEF FlowOK
<1>2. PICK new : new = [C!NoOp EXCEPT !.pc = pc, !.flow = f, !.org = x.org]
  OBVIOUS
<1>10. C!NoOp \in C!Op /\ pc \in C!Pcs /\ f \in 0 .. MaxFlows
  BY ConnTyped DEF C!Pcs, C!Flows
<1>11. new \in C!Op /\ new.pc = pc /\ new.flow = f /\ new.org = x.org
  BY <1>1, <1>2, <1>10 DEF C!Op
<1>3. op' = [op EXCEPT ![p] = new]
  BY <1>2
<1>4. flow' \in [C!Flows -> C!Flow] /\ flow'[f] = x
  BY DEF ConnInv, C!TypeOK
<1>5. OpOK(new)'
  BY <1>1, <1>4, <1>11 DEF OpOK
<1>6. Working(new) = {} /\ new.pc # "rotate" /\ new.pc # "token"
  BY <1>11 DEF Working
<1>7. C!TypeOK'
  BY <1>3, <1>4, <1>11, OpsMove DEF ConnInv, C!TypeOK, C!keyVars, C!history
<1>8. SignedIn'
  BY SignedInKept DEF ConnInv, C!keyVars, C!history
<1>9. UNCHANGED <<given, mixed>> /\ faults' \in 0 .. MaxFaults
  BY DEF C!history, ConnInv, C!TypeOK
<1> QED  BY <1>3, <1>5, <1>6, <1>7, <1>8, <1>9, <1>11, FlowMoves

LEMMA CallbackInv ==
  ASSUME ConnSizes, ConnInv, NEW p \in Procs, NEW f \in C!Flows, C!Callback(p, f) PROVE ConnInv'
<1>1. PICK x : x = [flow[f] EXCEPT !.state = C!Taken(@)]
  OBVIOUS
<1>2. flow[f] \in C!Flow /\ FlowOK(flow[f]) /\ flow[f].state = "minted"
  BY DEF ConnInv, C!TypeOK, FlowsOK, C!Callback
<1>3. /\ x \in C!Flow /\ x.state = "gone" /\ x.org = flow[f].org
      /\ x.exchanged = flow[f].exchanged
  BY <1>1, <1>2 DEF C!Flow, C!Taken
<1>4. x.saved \in BOOLEAN /\ (x.saved <=> flow[f].saved)
  BY <1>1, <1>2 DEF C!Flow, C!Taken
<1>5. flow' = [flow EXCEPT ![f] = x]
  BY <1>1 DEF C!Callback
<1>6. FlowOK(x) /\ x.exchanged = 0 /\ x.saved = FALSE
  BY <1>2, <1>3, <1>4 DEF FlowOK
<1> QED  BY <1>2, <1>3, <1>5, <1>6, BegunInv DEF C!Callback

LEMMA PasteInv ==
  ASSUME ConnSizes, ConnInv, NEW p \in Procs, NEW f \in C!Flows, NEW o \in Orgs, C!Paste(p, f, o)
  PROVE  ConnInv'
<1>1. PICK x : x = [flow[f] EXCEPT !.org = o, !.state = "gone"]
  OBVIOUS
<1>2. flow[f] \in C!Flow /\ FlowOK(flow[f]) /\ flow[f].state = "new"
  BY DEF ConnInv, C!TypeOK, FlowsOK, C!Paste, C!NextFlow
<1>3. x \in C!Flow /\ x.state = "gone" /\ x.org = o /\ x.exchanged = flow[f].exchanged
  BY <1>1, <1>2 DEF C!Flow
<1>4. x.saved \in BOOLEAN /\ (x.saved <=> flow[f].saved)
  BY <1>1, <1>2 DEF C!Flow
<1>5. flow' = [flow EXCEPT ![f] = x]
  BY <1>1 DEF C!Paste
<1>6. FlowOK(x) /\ x.exchanged = 0 /\ x.saved = FALSE
  BY <1>2, <1>3, <1>4 DEF FlowOK
<1> QED  BY <1>2, <1>3, <1>5, <1>6, BegunInv DEF C!Paste

LEMMA ExchangeInv == ASSUME ConnSizes, ConnInv, NEW p \in Procs, C!Exchange(p) PROVE ConnInv'
<1>1. PICK f : f = op[p].flow
  OBVIOUS
<1>2. /\ op[p].pc = "exchange" /\ op[p] \in C!Op /\ f \in C!Flows /\ flow[f].state = "gone"
      /\ op[p].org = flow[f].org /\ ~flow[f].saved /\ flow[f].exchanged = 0
      /\ op[p].org \in Orgs /\ flow[f] \in C!Flow
  BY <1>1, OpAt DEF ConnInv, FlowsOK, OpOK, C!Exchange, C!TypeOK
<1>3. PICK x : x = [flow[f] EXCEPT !.exchanged = @ + 1]
  OBVIOUS
<1>4. /\ x \in C!Flow /\ x.state = "gone" /\ x.org = flow[f].org /\ x.exchanged = 1
  BY <1>2, <1>3 DEF C!Flow
<1>5. x.saved <=> flow[f].saved
  BY <1>2, <1>3 DEF C!Flow
<1>6. flow' = [flow EXCEPT ![f] = x]
  BY <1>1, <1>3 DEF C!Exchange
<1>7. PICK pc \in {"validate", "error"} : C!Goto(p, pc)
  BY DEF C!Exchange
<1>8. PICK new : new = [op[p] EXCEPT !.pc = pc]
  OBVIOUS
<1>9. new \in C!Op /\ new.pc = pc /\ new.flow = f /\ new.org = op[p].org
     /\ op' = [op EXCEPT ![p] = new]
  BY <1>1, <1>2, <1>7, <1>8 DEF C!Op, C!Pcs, C!Goto
<1>10. flow' \in [C!Flows -> C!Flow] /\ flow'[f] = x
  BY <1>2, <1>4, <1>6 DEF ConnInv, C!TypeOK
<1>11. OpOK(new)'
  BY <1>2, <1>4, <1>5, <1>9, <1>10 DEF OpOK
<1>12. Working(new) = {} /\ new.pc # "rotate" /\ new.pc # "token"
  BY <1>9 DEF Working
<1>13. FlowOK(x)
  BY <1>2, <1>4 DEF FlowOK
<1>14. C!TypeOK'
  BY <1>9, <1>10, OpsMove DEF ConnInv, C!TypeOK, C!keyVars, C!history, C!Exchange
<1>15. SignedIn'
  BY SignedInKept DEF ConnInv, C!keyVars, C!history, C!Exchange
<1>16. UNCHANGED <<C!keyVars, row, given, mixed>> /\ faults' \in 0 .. MaxFaults
  BY DEF C!Exchange, C!history, ConnInv, C!TypeOK
<1> QED  BY <1>1, <1>2, <1>4, <1>6, <1>9, <1>11, <1>12, <1>13, <1>14, <1>15, <1>16, FlowMoves

\* A flow moves on before any request has it.
LEMMA FlowAlone ==
  ASSUME ConnSizes, ConnInv, NEW f \in C!Flows, NEW x \in C!Flow, flow' = [flow EXCEPT ![f] = x],
         FlowOK(x), x.state # "new", flow[f].state # "new" => x.org = flow[f].org,
         flow[f].state # "gone",
         UNCHANGED <<C!keyVars, row, op, given, mixed>>, C!TypeOK', SignedIn'
  PROVE  ConnInv'
<1>1. UNCHANGED <<env, target, rotated, row, op, given, mixed>>
  BY DEF C!keyVars
<1>2. flow' \in [C!Flows -> C!Flow] /\ flow'[f] = x /\ \A g \in C!Flows \ {f} : flow'[g] = flow[g]
  BY DEF ConnInv, C!TypeOK
<1>3. FlowsStay
  BY <1>2 DEF FlowsStay
<1>4. ASSUME NEW q \in Procs PROVE OpOK(op[q])'
  <2>1. PICK o \in C!Op : o = op[q] /\ o = op'[q]
    BY <1>1, OpAt DEF ConnInv
  <2>2. OpOK(o)
    BY <2>1 DEF ConnInv, FlowsOK
  <2>3. OpOK(o)'
    BY <1>2, <2>2 DEF OpOK
  <2> QED  BY <2>1, <2>3
<1>5. FlowsOK'
  <2>1. \A g \in C!Flows : FlowOK(flow[g])'
    BY <1>2 DEF ConnInv, FlowsOK, FlowOK
  <2>2. \A a, b \in Procs : op'[a].flow = op'[b].flow /\ op'[a].flow # C!Nil => a = b
    BY <1>1 DEF ConnInv, FlowsOK
  <2> QED  BY <1>4, <2>1, <2>2 DEF FlowsOK
<1>6. CopiesOK'
  <2>1. ASSUME NEW r \in RowIds PROVE CredOK(row[r])'
    <3>1. PICK y \in C!Row : y = row[r] /\ y = row'[r]
      BY <1>1 DEF ConnInv, C!TypeOK
    <3>2. CredOK(y)
      BY <3>1 DEF ConnInv, CopiesOK
    <3>3. CredOK(y)'
      BY <1>3, <3>2, CredStays DEF CredOK
    <3> QED  BY <3>1, <3>3
  <2> QED  BY <1>1, <1>3, <2>1, CopiesKept DEF ConnInv
<1>7. KeysOK'
  BY <1>1, KeysKept DEF ConnInv
<1> QED  BY <1>1, <1>5, <1>6, <1>7, TokensKept DEF ConnInv

LEMMA StateExpiresInv ==
  ASSUME ConnSizes, ConnInv, NEW f \in C!Flows, C!StateExpires(f) PROVE ConnInv'
<1>1. PICK x : x = [flow[f] EXCEPT !.state = "gone"]
  OBVIOUS
<1>2. flow[f] \in C!Flow /\ FlowOK(flow[f]) /\ flow[f].state = "minted"
  BY DEF ConnInv, C!TypeOK, FlowsOK, C!StateExpires
<1>3. x \in C!Flow /\ x.state = "gone" /\ x.org = flow[f].org /\ x.exchanged = flow[f].exchanged
  BY <1>1, <1>2 DEF C!Flow
<1>4. flow' = [flow EXCEPT ![f] = x]
  BY <1>1 DEF C!StateExpires
<1>5. FlowOK(x)
  BY <1>2, <1>3 DEF FlowOK
<1>6. C!TypeOK' /\ SignedIn'
  <2>1. UNCHANGED <<env, target, rotated, row, op, given, mixed, refused, faults>>
    BY DEF C!StateExpires, C!keyVars, C!history
  <2>2. flow' \in [C!Flows -> C!Flow]
    BY <1>3, <1>4 DEF ConnInv, C!TypeOK
  <2> QED  BY <2>1, <2>2, SignedInKept DEF ConnInv, C!TypeOK
<1> QED  BY <1>2, <1>3, <1>4, <1>5, <1>6, FlowAlone DEF C!StateExpires, C!history

LEMMA StartInv ==
  ASSUME ConnSizes, ConnInv, NEW p \in Procs, NEW f \in C!Flows, NEW o \in Orgs, C!Start(p, f, o)
  PROVE  ConnInv'
<1>1. flow[f] \in C!Flow /\ FlowOK(flow[f]) /\ flow[f].state = "new"
  BY DEF ConnInv, C!TypeOK, FlowsOK, C!Start, C!NextFlow
<1>2. UNCHANGED <<env, target, rotated, row, op, given, mixed>>
  BY DEF C!Start, C!keyVars
<1>3. CASE ~C!Verifies(env[p], 1) /\ refused' = refused \cup {o} /\ UNCHANGED <<flow, faults>>
  <2>1. 1 \notin C!KeysOf(target)
    BY <1>3 DEF ConnInv, SignedIn, C!Verifies
  <2>2. SignedIn'
    BY <1>2, <2>1 DEF ConnInv, SignedIn, C!KeysOf
  <2>3. C!TypeOK'
    BY <1>2, <1>3 DEF ConnInv, C!TypeOK
  <2>4. FlowsOK'
    BY <1>2, <1>3 DEF ConnInv, FlowsOK, FlowOK, OpOK
  <2>5. CopiesOK'
    BY <1>2, <1>3 DEF ConnInv, CopiesOK, CopyOK, CredOK, Working
  <2>6. KeysOK'
    BY <1>2, KeysKept DEF ConnInv, C!keyVars
  <2> QED  BY <1>2, <2>2, <2>3, <2>4, <2>5, <2>6, TokensKept DEF ConnInv
<1>4. ASSUME NEW st \in {"minted", "gone"}, flow' = [flow EXCEPT ![f].org = o, ![f].state = st],
             faults' \in 0 .. MaxFaults, UNCHANGED refused
      PROVE  ConnInv'
  <2>1. PICK x : x = [flow[f] EXCEPT !.org = o, !.state = st]
    OBVIOUS
  <2>2. x \in C!Flow /\ x.state = st /\ x.org = o /\ x.exchanged = flow[f].exchanged
    BY <1>1, <2>1 DEF C!Flow
  <2>3. x.saved <=> flow[f].saved
    BY <1>1, <2>1 DEF C!Flow
  <2>4. FlowOK(x)
    BY <1>1, <2>2, <2>3 DEF FlowOK
  <2>5. flow' = [flow EXCEPT ![f] = x]
    BY <1>4, <2>1
  <2>6. flow' \in [C!Flows -> C!Flow]
    BY <2>2, <2>5 DEF ConnInv, C!TypeOK
  <2>7. C!TypeOK' /\ SignedIn'
    BY <1>2, <1>4, <2>6, SignedInKept DEF ConnInv, C!TypeOK
  <2> QED  BY <1>1, <1>2, <2>2, <2>4, <2>5, <2>7, FlowAlone DEF C!keyVars
<1>5. C!Fault => faults' \in 0 .. MaxFaults
  BY FaultTypes DEF ConnInv
<1>6. faults \in 0 .. MaxFaults
  BY DEF ConnInv, C!TypeOK
<1>7. \/ ~C!Verifies(env[p], 1) /\ refused' = refused \cup {o} /\ UNCHANGED <<flow, faults>>
      \/ /\ UNCHANGED <<refused, faults>>
         /\ flow' = [flow EXCEPT ![f].org = o, ![f].state = "minted"]
      \/ C!Fault /\ UNCHANGED refused /\ flow' = [flow EXCEPT ![f].org = o, ![f].state = "gone"]
  BY DEF C!Start
<1> QED  BY <1>3, <1>4, <1>5, <1>6, <1>7

-----------------------------------------------------------------------------
(* Rows.                                                                   *)

\* One row is written, by a request that moves on.  Its organization keeps it, its
\* secret and its encryption stay, or that is among mixed, or it is sealed anew.
LEMMA RowSaves ==
  ASSUME ConnSizes, ConnInv, NEW p \in Procs, NEW new \in C!Op, op' = [op EXCEPT ![p] = new],
         NEW r \in RowIds, NEW x \in C!Row, row' = [row EXCEPT ![r] = x],
         x.org \in Orgs, row[r].org \in {C!Nil, x.org},
         mixed' \in SUBSET Orgs, mixed \subseteq mixed',
         \/ x.org \in mixed' \/ x.enc = C!Encrypt(env[p])
         \/ row[r].org = x.org /\ x.enc = row[r].enc,
         \/ x.org \in mixed' \/ row[r].org = C!Nil
         \/ row[r].secret = C!Nil \/ x.secret = row[r].secret,
         given' \in [Orgs -> SUBSET C!Tokens],
         \A o \in Orgs : \/ given'[o] = given[o]
                         \/ o = x.org /\ given'[o] = given[o] \cup {x.secret},
         UNCHANGED <<C!keyVars, refused>>, faults' \in 0 .. MaxFaults,
         flow' \in [C!Flows -> C!Flow], FlowsStay, FlowsOK',
         CredOK(x)', CopyOK(new)', RotationOK(new, env[p])'
  PROVE  ConnInv'
<1>1. UNCHANGED <<env, target, rotated, refused>>
  BY DEF C!keyVars
<1>2. op'[p] = new /\ \A q \in Procs \ {p} : op'[q] = op[q]
  BY OpsMove DEF ConnInv
<1>3. row' \in [RowIds -> C!Row] /\ row'[r] = x /\ \A s \in RowIds \ {r} : row'[s] = row[s]
  BY DEF ConnInv, C!TypeOK
<1>4. C!TypeOK'
  BY <1>1, <1>3, OpsMove DEF ConnInv, C!TypeOK
<1>5. SignedIn'
  BY <1>1, SignedInKept DEF ConnInv
<1>6. CopiesOK'
  <2>1. ASSUME NEW s \in RowIds \ {r} PROVE CredOK(row[s])'
    <3>1. PICK y \in C!Row : y = row[s] /\ y = row'[s]
      BY <1>3 DEF ConnInv, C!TypeOK
    <3>2. CredOK(y)
      BY <3>1 DEF ConnInv, CopiesOK
    <3>3. CredOK(y)'
      BY <3>2, CredStays DEF CredOK
    <3> QED  BY <3>1, <3>3
  <2>2. CredOK(row[r])'
    BY <1>3 DEF CredOK
  <2>3. \A s \in RowIds : row[s].org # C!Nil => row'[s].org = row[s].org
    BY <1>3
  <2>4. CopyOK(op[p])'
    BY <1>2 DEF CopyOK, Working, CredOK
  <2> QED  BY <1>2, <2>1, <2>2, <2>3, <2>4, CopiesKept DEF ConnInv
<1>7. C!TokenStays'
  <2>1. ASSUME NEW o \in Orgs \ mixed', NEW t \in given'[o]
        PROVE  \E s \in RowIds : row'[s].org = o /\ row'[s].secret = t
    <3>1. CASE o = x.org /\ t = x.secret
      BY <1>3, <3>1
    <3>2. CASE t \in given[o]
      <4>1. PICK s \in RowIds : row[s].org = o /\ row[s].secret = t
        BY <2>1, <3>2 DEF ConnInv, C!TokenStays, C!RowsOf
      <4>2. o # C!Nil /\ t # C!Nil
        BY <2>1, <3>2 DEF ConnInv, C!TypeOK, C!Tokens, C!Nil, ConnSizes
      <4>3. CASE s = r
        BY <1>3, <2>1, <4>1, <4>2, <4>3
      <4> QED  BY <1>3, <4>1, <4>3
    <3> QED  BY <2>1, <3>1, <3>2
  <2> QED  BY <2>1 DEF C!TokenStays, C!RowsOf
<1>8. /\ env[p] \in C!Env /\ C!Encrypt(env[p]).tag = env[p].cur /\ env[p].cur # C!Nil
      /\ (env[p].cur = target.cur => Readable(C!Encrypt(env[p])))
  <2>1. env[p] \in C!Env
    BY DEF ConnInv, C!TypeOK
  <2>2. env[p].cur # C!Nil
    BY <2>1 DEF C!Env, C!AllKeys, C!Nil
  <2> QED  BY <2>1, <2>2 DEF C!Encrypt, Readable, C!Decrypts, C!KeysOf
<1>9. \A c : Readable(c) => Readable(c)'
  BY <1>1 DEF Readable, C!Decrypts, C!KeysOf
<1>10. ASSUME NEW o \in rotated \ mixed', NEW s \in RowIds, row'[s].org = o
       PROVE  Readable(row'[s].enc)
  <2>1. /\ o \notin mixed /\ env[p].cur = target.cur
        /\ \A y \in RowIds : row[y].org = o => Readable(row[y].enc)
    BY <1>10 DEF ConnInv, KeysOK, C!RotatedIsReadable, Readable, C!RowsOf
  <2>2. CASE s # r
    BY <1>3, <1>10, <2>1, <2>2
  <2>3. CASE s = r
    BY <1>3, <1>8, <1>10, <2>1, <2>3
  <2> QED  BY <2>2, <2>3
<1>11. C!RotatedIsReadable'
  <2>1. \A o \in rotated \ mixed' : \A s \in RowIds :
          row'[s].org = o => C!Decrypts([cur |-> target.cur, prev |-> {}], row'[s].enc)
    BY <1>10 DEF Readable
  <2> QED  BY <1>1, <2>1 DEF C!RotatedIsReadable, C!RowsOf
<1>12. ASSUME NEW q \in Procs \ {p} PROVE RotationOK(op[q], env[q])'
  <2>1. PICK o, e : o = op'[q] /\ o = op[q] /\ e = env[q] /\ e = env'[q]
    BY <1>1, <1>2
  <2>2. RotationOK(o, e)
    BY <2>1 DEF ConnInv, KeysOK
  <2>3. ASSUME o.pc = "rotate", e = target
        PROVE  /\ C!Deployed'
               /\ o.org \notin mixed' => \A s \in RowIds : row'[s].org = o.org =>
                    Readable(row'[s].enc) \/ (s \in o.todo /\ row'[s].enc = o.seen[s].enc)
    <3>1. /\ C!Deployed
          /\ o.org \notin mixed => \A s \in RowIds : row[s].org = o.org =>
               Readable(row[s].enc) \/ (s \in o.todo /\ row[s].enc = o.seen[s].enc)
      BY <2>2, <2>3 DEF RotationOK, C!RowsOf
    <3>2. C!Deployed' /\ env[p].cur = target.cur
      BY <1>1, <3>1 DEF C!Deployed
    <3>3. ASSUME o.org \notin mixed', NEW s \in RowIds, row'[s].org = o.org
          PROVE  Readable(row'[s].enc) \/ (s \in o.todo /\ row'[s].enc = o.seen[s].enc)
      <4>1. CASE s # r
        BY <1>3, <3>1, <3>3, <4>1
      <4>2. CASE s = r
        BY <1>3, <1>8, <3>1, <3>2, <3>3, <4>2
      <4> QED  BY <4>1, <4>2
    <3> QED  BY <3>2, <3>3
  <2>4. RotationOK(o, e)'
    BY <1>1, <1>9, <2>3 DEF RotationOK, C!RowsOf
  <2> QED  BY <2>1, <2>4
<1>13. RotationOK(op[p], env[p])'
  <2>1. PICK e : e = env[p] /\ e = env'[p]
    BY <1>1
  <2> QED  BY <1>2, <2>1
<1>14. KeysOK'
  BY <1>1, <1>11, <1>12, <1>13 DEF ConnInv, KeysOK
<1> QED  BY <1>4, <1>5, <1>6, <1>7, <1>14 DEF ConnInv

LEMMA SaveInv == ASSUME ConnSizes, ConnInv, NEW p \in Procs, C!Save(p) PROVE ConnInv'
<1>1. PICK o \in C!Op : o = op[p]
  BY OpAt DEF ConnInv
<1>2. PICK f : f = o.flow
  OBVIOUS
<1>3. /\ o.pc = "save" /\ f \in C!Flows /\ flow[f].state = "gone" /\ o.org = flow[f].org
      /\ o.org \in Orgs /\ ~flow[f].saved /\ flow[f] \in C!Flow /\ FlowOK(flow[f])
      /\ o.id \in RowIds \cup {C!Nil}
  BY <1>1, <1>2, OpAt DEF ConnInv, FlowsOK, OpOK, C!TypeOK, C!Save
<1>4. UNCHANGED <<env, target, rotated, given, refused>>
  BY DEF C!Save, C!keyVars
<1>5. env[p] \in C!Env /\ C!Encrypt(env[p]) \in C!Sealed /\ faults \in 0 .. MaxFaults
     /\ C!NoRow \in C!Row
      /\ C!NoRow.secret = C!Nil
  BY ConnTyped DEF ConnInv, C!TypeOK
<1>6. CASE /\ C!Fault /\ op' = [op EXCEPT ![p] = [C!NoOp EXCEPT !.pc = "error", !.flow = o.flow]]
           /\ UNCHANGED <<row, mixed, flow>>
  <2>1. PICK new : new = [C!NoOp EXCEPT !.pc = "error", !.flow = o.flow]
    OBVIOUS
  <2>2. new \in C!Op /\ new.pc = "error" /\ new.flow = f /\ op' = [op EXCEPT ![p] = new]
    BY <1>1, <1>2, <1>6, <2>1, ConnTyped DEF C!Op, C!Pcs
  <2>3. OpOK(new) /\ CopyOK(new) /\ RotationOK(new, env[p])
    BY <1>3, <2>2 DEF OpOK, CopyOK, Working, RotationOK
  <2>4. faults' \in 0 .. MaxFaults
    BY <1>6, FaultTypes DEF ConnInv
  <2>5. UNCHANGED <<C!keyVars, flow, row, C!history>>
    BY <1>4, <1>6 DEF C!keyVars, C!history
  <2> QED  BY <1>1, <1>2, <2>2, <2>3, <2>4, <2>5, RequestMoves
<1>7. ASSUME UNCHANGED faults, flow' = [flow EXCEPT ![o.flow].saved = TRUE],
             op' = [op EXCEPT ![p] = [C!NoOp EXCEPT !.pc = "enqueue", !.flow = o.flow]],
             NEW r \in RowIds, NEW y \in C!Row, row' = [row EXCEPT ![r] = C!Connected(p, y)],
             y.org = o.org, row[r].org \in {C!Nil, o.org},
             mixed' \in SUBSET Orgs, mixed \subseteq mixed',
             o.org \in mixed' \/ row[r].org = C!Nil \/ y = row[r]
      PROVE  ConnInv'
  <2>1. PICK new : new = [C!NoOp EXCEPT !.pc = "enqueue", !.flow = o.flow]
    OBVIOUS
  <2>2. new \in C!Op /\ new.pc = "enqueue" /\ new.flow = f /\ op' = [op EXCEPT ![p] = new]
    BY <1>1, <1>2, <1>7, <2>1, ConnTyped DEF C!Op, C!Pcs
  <2>3. PICK x : x = [y EXCEPT !.cred = f, !.enc = C!Encrypt(env[p])]
    OBVIOUS
  <2>4. f \in 0 .. MaxFlows
    BY <1>3 DEF C!Flows
  <2>5. /\ x \in C!Row /\ x.cred = f /\ x.enc = C!Encrypt(env[p]) /\ x.org = o.org
        /\ x.secret = y.secret
    BY <1>5, <1>7, <2>3, <2>4 DEF C!Row
  <2>6. row' = [row EXCEPT ![r] = x]
    BY <1>1, <1>2, <1>7, <2>3 DEF C!Connected
  <2>7. PICK g : g = [flow[f] EXCEPT !.saved = TRUE]
    OBVIOUS
  <2>8. /\ g \in C!Flow /\ g.state = "gone" /\ g.org = flow[f].org
       /\ g.exchanged = flow[f].exchanged
        /\ g.saved = TRUE /\ flow' = [flow EXCEPT ![f] = g]
    BY <1>2, <1>3, <1>7, <2>7 DEF C!Flow
  <2>9. flow' \in [C!Flows -> C!Flow] /\ flow'[f] = g
    BY <1>3, <2>8 DEF ConnInv, C!TypeOK
  <2>10. FlowOK(g)
    BY <1>3, <2>8 DEF FlowOK
  <2>11. OpOK(new)' /\ CopyOK(new)' /\ RotationOK(new, env[p])'
    BY <1>3, <2>2, <2>8, <2>9 DEF OpOK, CopyOK, Working, RotationOK
  <2>12. FlowsStay /\ FlowsOK'
    BY <1>1, <1>2, <1>3, <2>2, <2>8, <2>10, <2>11, FlowsMove
  <2>13. CredOK(x)'
    BY <1>3, <2>5, <2>8, <2>9 DEF CredOK
  <2>14. given' \in [Orgs -> SUBSET C!Tokens]
    BY <1>4 DEF ConnInv, C!TypeOK
  <2>15. UNCHANGED <<C!keyVars, refused>> /\ faults' \in 0 .. MaxFaults
    BY <1>4, <1>5, <1>7 DEF C!keyVars
  <2>16. x.org \in mixed' \/ row[r].org = C!Nil \/ row[r].secret = C!Nil \/ x.secret = row[r].secret
    BY <1>7, <2>5
  <2> QED
    BY <1>3, <1>4, <1>7, <2>2, <2>5, <2>6, <2>9, <2>11, <2>12, <2>13, <2>14, <2>15, <2>16, RowSaves
<1>8. CASE /\ o.id # C!Nil /\ C!SaveRow(o.id, o.seen[o.id], C!Connected(p, o.seen[o.id]))
           /\ flow' = [flow EXCEPT ![o.flow].saved = TRUE]
           /\ op' = [op EXCEPT ![p] = [C!NoOp EXCEPT !.pc = "enqueue", !.flow = o.flow]]
           /\ UNCHANGED faults
  <2>1. o.id \in RowIds /\ o.seen[o.id] \in C!Row
    BY <1>3, <1>8 DEF C!Op
  <2>2. row[o.id].org = o.org /\ o.seen[o.id].org = o.org
    BY <1>1, <1>3, <1>8 DEF ConnInv, CopiesOK, CopyOK, Working
  <2>3. C!Connected(p, o.seen[o.id]).org = o.org
    BY <2>1, <2>2 DEF C!Connected, C!Row
  <2>4. /\ mixed \subseteq mixed' /\ mixed' \in SUBSET Orgs
        /\ o.org \in mixed' \/ o.seen[o.id] = row[o.id]
    BY <1>3, <1>8, <2>3 DEF C!SaveRow, ConnInv, C!TypeOK
  <2>5. row' = [row EXCEPT ![o.id] = C!Connected(p, o.seen[o.id])]
    BY <1>8 DEF C!SaveRow
  <2> QED  BY <1>7, <1>8, <2>1, <2>2, <2>4, <2>5
<1>9. CASE /\ \E r \in C!RowsOf(C!Nil) :
                row' = [row EXCEPT ![r] = C!Connected(p, [C!NoRow EXCEPT !.org = o.org])]
           /\ mixed' = IF C!RowsOf(o.org) # {} THEN mixed \cup {o.org} ELSE mixed
           /\ flow' = [flow EXCEPT ![o.flow].saved = TRUE]
           /\ op' = [op EXCEPT ![p] = [C!NoOp EXCEPT !.pc = "enqueue", !.flow = o.flow]]
           /\ UNCHANGED faults
  <2>1. PICK r \in RowIds :
          row[r].org = C!Nil /\ row' = [row EXCEPT ![r] = C!Connected(p,
             [C!NoRow EXCEPT !.org = o.org])]
    BY <1>9 DEF C!RowsOf
  <2>2. PICK y : y = [C!NoRow EXCEPT !.org = o.org]
    OBVIOUS
  <2>3. y \in C!Row /\ y.org = o.org /\ row' = [row EXCEPT ![r] = C!Connected(p, y)]
    BY <1>3, <1>5, <2>1, <2>2 DEF C!Row
  <2>4. mixed \subseteq mixed' /\ mixed' \in SUBSET Orgs
    BY <1>3, <1>9 DEF ConnInv, C!TypeOK
  <2> QED  BY <1>7, <1>9, <2>1, <2>3, <2>4
<1> QED  BY <1>1, <1>6, <1>8, <1>9 DEF C!Save

-----------------------------------------------------------------------------
(* The URL for webhooks.                                                   *)

LEMMA FindTokenInv ==
  ASSUME ConnSizes, ConnInv, NEW p \in Procs, NEW o \in Orgs, C!FindToken(p, o) PROVE ConnInv'
<1>1. PICK r : r = C!First(o)
  OBVIOUS
<1>2. r \in RowIds /\ row[r].org = o /\ row[r] \in C!Row
  BY <1>1, FirstIs DEF ConnInv, C!TypeOK, C!FindToken
<1>3. UNCHANGED <<env, target, rotated, flow, row, mixed, refused, faults>>
  BY DEF C!FindToken, C!keyVars
<1>4. CASE C!HasToken(row[r]) /\ C!Show(o, row[r].secret) /\ UNCHANGED op
  <2>1. row[r].secret \in C!Tokens
    BY <1>2, <1>4 DEF C!HasToken, C!Row
  <2>2. given' = [given EXCEPT ![o] = @ \cup {row[r].secret}]
    BY <1>4 DEF C!Show
  <2>3. C!TypeOK'
    BY <1>3, <1>4, <2>1, <2>2 DEF ConnInv, C!TypeOK
  <2>4. ASSUME NEW i \in Orgs \ mixed, NEW t \in given'[i]
        PROVE  \E s \in RowIds : row[s].org = i /\ row[s].secret = t
    <3>1. t \in given[i] \/ (i = o /\ t = row[r].secret)
      BY <2>2, <2>4 DEF ConnInv, C!TypeOK
    <3> QED  BY <1>2, <2>4, <3>1 DEF ConnInv, C!TokenStays, C!RowsOf
  <2>5. C!TokenStays'
    BY <1>3, <2>4 DEF C!TokenStays, C!RowsOf
  <2>6. FlowsOK'
    BY <1>3, <1>4 DEF ConnInv, FlowsOK, FlowOK, OpOK
  <2>7. CopiesOK'
    BY <1>3, <1>4 DEF ConnInv, CopiesOK, CopyOK, CredOK, Working
  <2>8. KeysOK' /\ SignedIn'
    BY <1>3, <1>4, KeysKept, SignedInKept DEF ConnInv, C!keyVars
  <2> QED  BY <2>3, <2>5, <2>6, <2>7, <2>8 DEF ConnInv
<1>5. CASE /\ ~C!HasToken(row[r]) /\ UNCHANGED given
           /\ op' = [op EXCEPT ![p] =
                [C!NoOp EXCEPT !.pc = "token", !.org = o, !.id = r, !.seen = C!Seen({r})]]
  <2>1. PICK new : new = [C!NoOp EXCEPT !.pc = "token", !.org = o, !.id = r, !.seen = C!Seen({r})]
    OBVIOUS
  <2>2. /\ C!Seen({r}) \in [RowIds -> C!Row] /\ C!Seen({r})[r] = row[r] /\ CredOK(C!Seen({r})[r])
    BY <1>2, FreshCopies
  <2>3. /\ new \in C!Op /\ new.pc = "token" /\ new.org = o /\ new.id = r /\ new.seen = C!Seen({r})
        /\ new.flow = C!Nil /\ op' = [op EXCEPT ![p] = new]
    BY <1>2, <1>5, <2>1, <2>2, ConnTyped DEF C!Op, C!Pcs
  <2>4. OpOK(new) /\ RotationOK(new, env[p])
    BY <2>3 DEF OpOK, RotationOK
  <2>5. CopyOK(new)
    BY <1>2, <1>5, <2>2, <2>3 DEF CopyOK, Working, C!HasToken
  <2>6. UNCHANGED <<C!keyVars, flow, row, C!history>> /\ faults' \in 0 .. MaxFaults
    BY <1>3, <1>5 DEF C!keyVars, C!history, ConnInv, C!TypeOK
  <2> QED  BY <2>3, <2>4, <2>5, <2>6, RequestMoves
<1> QED  BY <1>1, <1>4, <1>5 DEF C!FindToken

LEMMA SaveTokenInv == ASSUME ConnSizes, ConnInv, NEW p \in Procs, C!SaveToken(p) PROVE ConnInv'
<1>1. PICK o \in C!Op : o = op[p]
  BY OpAt DEF ConnInv
<1>2. /\ o.pc = "token" /\ o.org \in Orgs /\ o.id \in RowIds /\ o.seen[o.id].secret = C!Nil
      /\ row[o.id].org = o.org /\ o.seen[o.id].org = o.org /\ CredOK(o.seen[o.id])
  BY <1>1 DEF ConnInv, FlowsOK, OpOK, CopiesOK, CopyOK, Working, C!SaveToken, ConnSizes, C!Nil
<1>3. UNCHANGED <<env, target, rotated, flow, refused>> /\ op' = [op EXCEPT ![p] = C!NoOp]
  BY DEF C!SaveToken, C!keyVars
<1>4. CASE C!Fault /\ UNCHANGED <<row, given, mixed>>
  <2>1. UNCHANGED <<C!keyVars, flow, row, C!history>> /\ faults' \in 0 .. MaxFaults
    BY <1>3, <1>4, FaultTypes DEF C!keyVars, C!history, ConnInv
  <2> QED  BY <1>3, <2>1, RequestMoves, NoOpOK, ConnTyped
<1>5. ASSUME NEW t \in C!Tokens, C!Show(o.org, t), UNCHANGED faults,
             C!SaveRow(o.id, o.seen[o.id], [o.seen[o.id] EXCEPT !.secret = t])
      PROVE  ConnInv'
  <2>1. PICK x : x = [o.seen[o.id] EXCEPT !.secret = t]
    OBVIOUS
  <2>2. o.seen[o.id] \in C!Row
    BY <1>2 DEF C!Op
  <2>3. /\ x \in C!Row /\ x.org = o.org /\ x.enc = o.seen[o.id].enc /\ x.secret = t
        /\ x.cred = o.seen[o.id].cred
    BY <1>2, <2>1, <2>2 DEF C!Row
  <2>4. /\ row' = [row EXCEPT ![o.id] = x]
        /\ mixed' = IF row[o.id] # o.seen[o.id] THEN mixed \cup {o.org} ELSE mixed
    BY <1>5, <2>1, <2>3 DEF C!SaveRow
  <2>5. mixed' \in SUBSET Orgs /\ mixed \subseteq mixed'
    BY <1>2, <2>4 DEF ConnInv, C!TypeOK
  <2>6. x.org \in mixed' \/ row[o.id] = o.seen[o.id]
    BY <2>3, <2>4
  <2>7. given' = [given EXCEPT ![o.org] = @ \cup {t}]
    BY <1>5 DEF C!Show
  <2>8. /\ given' \in [Orgs -> SUBSET C!Tokens]
        /\ \A i \in Orgs : \/ given'[i] = given[i]
                           \/ i = x.org /\ given'[i] = given[i] \cup {x.secret}
    BY <1>2, <2>3, <2>7 DEF ConnInv, C!TypeOK
  <2>9. flow' \in [C!Flows -> C!Flow] /\ FlowsStay /\ faults' \in 0 .. MaxFaults
    BY <1>3, <1>5 DEF ConnInv, C!TypeOK, FlowsStay
  <2>10. FlowsOK'
    BY <1>3, FlowsKept, NoOpOK, ConnTyped DEF ConnInv
  <2>11. CredOK(x)'
    BY <1>2, <1>3, <2>3 DEF CredOK
  <2>12. CopyOK(C!NoOp)' /\ RotationOK(C!NoOp, env[p])'
    BY ConnTyped DEF CopyOK, Working, RotationOK
  <2>13. UNCHANGED <<C!keyVars, refused>>
    BY <1>3 DEF C!keyVars
  <2>14. /\ row[o.id].org \in {C!Nil, x.org} /\ x.org \in Orgs
         /\ x.org \in mixed' \/ (row[o.id].org = x.org /\ x.enc = row[o.id].enc)
         /\ x.org \in mixed' \/ row[o.id].secret = C!Nil
    BY <1>2, <2>3, <2>6
  <2> QED
    BY <1>2, <1>3, <2>3, <2>4, <2>5, <2>8, <2>9, <2>10, <2>11, <2>12, <2>13, <2>14, ConnTyped,
       RowSaves
<1> QED  BY <1>1, <1>4, <1>5 DEF C!SaveToken

-----------------------------------------------------------------------------
(* The rotation.                                                           *)

LEMMA RotateInv ==
  ASSUME ConnSizes, ConnInv, NEW p \in Procs, NEW o \in Orgs, C!Rotate(p, o) PROVE ConnInv'
<1>1. PICK new : new = [C!NoOp EXCEPT !.pc = "rotate", !.org = o,
                                    !.seen = C!Seen(C!RowsOf(o)), !.todo = C!RowsOf(o)]
  OBVIOUS
<1>2. /\ C!Seen(C!RowsOf(o)) \in [RowIds -> C!Row]
      /\ \A r \in C!RowsOf(o) : C!Seen(C!RowsOf(o))[r] = row[r] /\ row[r].org = o
         /\ CredOK(C!Seen(C!RowsOf(o))[r])
  BY FreshCopies DEF C!RowsOf
<1>3. C!RowsOf(o) \in SUBSET RowIds
  BY DEF C!RowsOf
<1>4. /\ new \in C!Op /\ new.pc = "rotate" /\ new.org = o /\ new.seen = C!Seen(C!RowsOf(o))
      /\ new.todo = C!RowsOf(o) /\ new.flow = C!Nil
  BY <1>1, <1>2, <1>3, ConnTyped DEF C!Op, C!Pcs
<1>5. OpOK(new) /\ CopyOK(new)
  BY <1>2, <1>4 DEF OpOK, CopyOK, Working
<1>6. RotationOK(new, env[p])
  BY <1>2, <1>4 DEF RotationOK, C!Rotate
<1>7. op' = [op EXCEPT ![p] = new] /\ UNCHANGED <<C!keyVars, flow, row, C!history>>
     /\ faults' \in 0 .. MaxFaults
  BY <1>1 DEF C!Rotate, ConnInv, C!TypeOK
<1> QED  BY <1>4, <1>5, <1>6, <1>7, RequestMoves

LEMMA RotateRowInv ==
  ASSUME ConnSizes, ConnInv, NEW p \in Procs, NEW r \in RowIds, C!RotateRow(p, r) PROVE ConnInv'
<1>1. PICK o \in C!Op : o = op[p]
  BY OpAt DEF ConnInv
<1>2. PICK y : y = o.seen[r]
  OBVIOUS
<1>3. /\ o.pc = "rotate" /\ o.org \in Orgs /\ r \in o.todo /\ y \in C!Row
      /\ row[r].org = o.org /\ y.org = o.org /\ CredOK(y) /\ o.flow = C!Nil
  BY <1>1, <1>2 DEF ConnInv, FlowsOK, OpOK, CopiesOK, CopyOK, Working, C!RotateRow, C!Op
<1>4. PICK new : new = [o EXCEPT !.todo = @ \ {r}, !.seen[r] = C!NoRow]
  OBVIOUS
<1>5. /\ new \in C!Op /\ new.pc = "rotate" /\ new.org = o.org /\ new.flow = C!Nil
      /\ new.todo = o.todo \ {r}
  BY <1>3, <1>4, ConnTyped DEF C!Op
<1>6. \A s \in RowIds \ {r} : new.seen[s] = o.seen[s]
  BY <1>4 DEF C!Op
<1>7. CopyOK(o) /\ RotationOK(o, env[p]) /\ env[p] \in C!Env /\ target \in C!Env
  BY <1>1 DEF ConnInv, CopiesOK, KeysOK, C!TypeOK
<1>8. OpOK(new)
  BY <1>3, <1>5 DEF OpOK
<1>9. CopyOK(new)
  BY <1>3, <1>5, <1>6, <1>7 DEF CopyOK, Working, C!Op
<1>10. UNCHANGED <<env, target, rotated, flow, given, refused>> /\ faults \in 0 .. MaxFaults
  BY DEF C!RotateRow, C!keyVars, ConnInv, C!TypeOK
<1>11. CASE op' = [op EXCEPT ![p] = C!NoOp] /\ UNCHANGED <<row, mixed>>
     /\ (C!Fault \/ UNCHANGED faults)
  <2>1. UNCHANGED <<C!keyVars, flow, row, C!history>> /\ faults' \in 0 .. MaxFaults
    BY <1>10, <1>11, FaultTypes DEF C!keyVars, C!history, ConnInv
  <2> QED  BY <1>11, <2>1, RequestMoves, NoOpOK, ConnTyped
<1>12. CASE /\ ~C!NeedsRotation(env[p], y.enc)
            /\ op' = [op EXCEPT ![p] = new] /\ UNCHANGED <<row, mixed, faults>>
  <2>1. y.enc.tag = env[p].cur /\ env[p].cur # C!Nil
    BY <1>7, <1>12 DEF C!NeedsRotation, C!Env, C!AllKeys, C!Nil
  <2>2. env[p] = target => Readable(y.enc)
    BY <2>1 DEF Readable, C!Decrypts, C!KeysOf
  <2>3. RotationOK(new, env[p])
    BY <1>2, <1>3, <1>5, <1>6, <1>7, <2>2 DEF RotationOK, C!RowsOf
  <2>4. UNCHANGED <<C!keyVars, flow, row, C!history>> /\ faults' \in 0 .. MaxFaults
    BY <1>10, <1>12 DEF C!keyVars, C!history
  <2> QED  BY <1>5, <1>8, <1>9, <1>12, <2>3, <2>4, RequestMoves
<1>13. CASE /\ C!SaveRow(r, y, [y EXCEPT !.enc = C!Encrypt(env[p])])
            /\ op' = [op EXCEPT ![p] = new] /\ UNCHANGED faults
  <2>1. PICK x : x = [y EXCEPT !.enc = C!Encrypt(env[p])]
    OBVIOUS
  <2>2. C!Encrypt(env[p]) \in C!Sealed
    BY <1>7, ConnTyped
  <2>3. /\ x \in C!Row /\ x.org = o.org /\ x.enc = C!Encrypt(env[p]) /\ x.secret = y.secret
        /\ x.cred = y.cred
    BY <1>3, <2>1, <2>2 DEF C!Row
  <2>4. /\ row' = [row EXCEPT ![r] = x]
        /\ mixed' = IF row[r] # y THEN mixed \cup {o.org} ELSE mixed
    BY <1>13, <2>1, <2>3 DEF C!SaveRow
  <2>5. mixed' \in SUBSET Orgs /\ mixed \subseteq mixed' /\ (x.org \in mixed' \/ row[r] = y)
    BY <1>3, <2>3, <2>4 DEF ConnInv, C!TypeOK
  <2>6. flow' \in [C!Flows -> C!Flow] /\ FlowsStay /\ given' \in [Orgs -> SUBSET C!Tokens]
    BY <1>10 DEF ConnInv, C!TypeOK, FlowsStay
  <2>7. FlowsOK'
    BY <1>5, <1>8, <1>10, <1>13, FlowsKept DEF ConnInv
  <2>8. CredOK(x)'
    BY <1>3, <1>10, <2>3 DEF CredOK
  <2>9. CopyOK(new)'
    <3>1. row' \in [RowIds -> C!Row] /\ \A s \in RowIds \ {r} : row'[s] = row[s]
      BY <1>3, <2>3, <2>4 DEF ConnInv, C!TypeOK
    <3> QED  BY <1>5, <1>9, <1>10, <3>1 DEF CopyOK, Working, CredOK, C!Op
  <2>10. RotationOK(new, env[p])'
    <3>1. PICK e : e = env[p] /\ e = env'[p]
      BY <1>10
    <3>2. row' \in [RowIds -> C!Row] /\ row'[r] = x /\ \A s \in RowIds \ {r} : row'[s] = row[s]
      BY <1>3, <2>3, <2>4 DEF ConnInv, C!TypeOK
    <3>3. e = target => Readable(x.enc)
      <4>1. e.cur # C!Nil
        BY <1>7, <3>1 DEF C!Env, C!AllKeys, C!Nil
      <4> QED  BY <2>3, <3>1, <4>1 DEF Readable, C!Decrypts, C!KeysOf, C!Encrypt
    <3>4. ASSUME e = target
          PROVE  /\ C!Deployed'
                 /\ o.org \notin mixed' => \A s \in RowIds : row'[s].org = o.org =>
                      Readable(row'[s].enc) \/ (s \in new.todo /\ row'[s].enc = new.seen[s].enc)
      <4>1. /\ C!Deployed
            /\ o.org \notin mixed => \A s \in RowIds : row[s].org = o.org =>
                 Readable(row[s].enc) \/ (s \in o.todo /\ row[s].enc = o.seen[s].enc)
        BY <1>3, <1>7, <3>1, <3>4 DEF RotationOK, C!RowsOf
      <4>2. C!Deployed'
        BY <1>10, <4>1 DEF C!Deployed
      <4>3. ASSUME o.org \notin mixed', NEW s \in RowIds, row'[s].org = o.org
            PROVE  Readable(row'[s].enc) \/ (s \in new.todo /\ row'[s].enc = new.seen[s].enc)
        <5>1. CASE s = r
          BY <3>2, <3>3, <3>4, <5>1
        <5>2. CASE s # r
          BY <1>5, <1>6, <2>5, <3>2, <4>1, <4>3, <5>2
        <5> QED  BY <5>1, <5>2
      <4> QED  BY <4>2, <4>3
    <3>5. \A c : Readable(c) => Readable(c)'
      BY <1>10 DEF Readable, C!Decrypts, C!KeysOf
    <3>6. RotationOK(new, e)'
      BY <1>5, <1>10, <3>4, <3>5 DEF RotationOK, C!RowsOf
    <3> QED  BY <3>1, <3>6
  <2>11. UNCHANGED <<C!keyVars, refused>> /\ faults' \in 0 .. MaxFaults
    BY <1>10, <1>13 DEF C!keyVars
  <2> QED
    BY <1>3, <1>5, <1>10, <1>13, <2>3, <2>4, <2>5, <2>6, <2>7, <2>8, <2>9, <2>10, <2>11, RowSaves
<1>14. op' = [op EXCEPT ![p].todo = @ \ {r}, ![p].seen[r] = C!NoRow] => op' = [op EXCEPT ![p] = new]
  BY <1>1, <1>4
<1> QED  BY <1>1, <1>2, <1>11, <1>12, <1>13, <1>14 DEF C!RotateRow

LEMMA RotateEndsInv == ASSUME ConnSizes, ConnInv, NEW p \in Procs, C!RotateEnds(p) PROVE ConnInv'
<1>1. PICK o \in C!Op : o = op[p]
  BY OpAt DEF ConnInv
<1>2. o.pc = "rotate" /\ o.todo = {} /\ o.org \in Orgs /\ RotationOK(o, env[p])
  BY <1>1 DEF C!RotateEnds, ConnInv, FlowsOK, OpOK, KeysOK
<1>3. UNCHANGED <<env, target, flow, row, given, mixed, refused, faults>>
     /\ op' = [op EXCEPT ![p] = C!NoOp]
  BY DEF C!RotateEnds, C!history
<1>4. \/ UNCHANGED rotated
      \/ env[p] = target /\ rotated' = rotated \cup {o.org}
  BY <1>1 DEF C!RotateEnds
<1>5. op'[p] = C!NoOp /\ \A q \in Procs \ {p} : op'[q] = op[q]
  BY <1>3, OpsMove, ConnTyped DEF ConnInv
<1>6. C!TypeOK'
  BY <1>2, <1>3, <1>4, OpsMove, ConnTyped DEF ConnInv, C!TypeOK
<1>7. FlowsOK'
  BY <1>3, FlowsKept, NoOpOK, ConnTyped DEF ConnInv
<1>8. CopiesOK'
  <2>1. \A s \in RowIds : CredOK(row[s])'
    BY <1>3 DEF ConnInv, CopiesOK, CredOK
  <2>2. CopyOK(op[p])'
    BY <1>5, ConnTyped DEF CopyOK, Working
  <2>3. FlowsStay
    BY <1>3 DEF FlowsStay
  <2> QED  BY <1>3, <1>5, <2>1, <2>2, <2>3, CopiesKept DEF ConnInv
<1>9. env[p] = target => C!Deployed /\ (o.org \notin mixed => \A s \in C!RowsOf(o.org) :
     Readable(row[s].enc))
  BY <1>2 DEF RotationOK
<1>10. rotated' # {} => \A q \in Procs : env'[q].cur = target'.cur
  BY <1>3, <1>4, <1>9 DEF ConnInv, KeysOK, C!Deployed
<1>11. C!RotatedIsReadable'
  <2>1. \A i \in rotated' \ mixed : \A s \in C!RowsOf(i) : Readable(row[s].enc)
    BY <1>4, <1>9 DEF ConnInv, KeysOK, C!RotatedIsReadable, Readable
  <2> QED  BY <1>3, <2>1 DEF C!RotatedIsReadable, C!RowsOf, Readable
<1>12. ASSUME NEW q \in Procs PROVE RotationOK(op[q], env[q])'
  <2>1. PICK i, e : i = op'[q] /\ e = env[q] /\ e = env'[q]
    BY <1>3
  <2>2. RotationOK(i, e)
    BY <1>5, <2>1, NoOpOK DEF ConnInv, KeysOK
  <2>3. RotationOK(i, e)'
    BY <1>3, <2>2 DEF RotationOK, C!RowsOf, Readable, C!Decrypts, C!KeysOf, C!Deployed
  <2> QED  BY <2>1, <2>3
<1>13. KeysOK'
  BY <1>10, <1>11, <1>12 DEF KeysOK
<1> QED  BY <1>3, <1>6, <1>7, <1>8, <1>13, TokensKept, SignedInKept DEF ConnInv

-----------------------------------------------------------------------------
(* Configurations.                                                         *)

LEMMA KeysChange ==
  ASSUME ConnSizes, ConnInv, UNCHANGED <<flow, row, op, C!history, faults>>,
         UNCHANGED env, target' \in C!Env, rotated' \in SUBSET Orgs,
         \A p \in Procs : env[p] = target, target' # target,
         rotated' # {} => target'.cur = target.cur /\ rotated' = rotated,
         1 \in C!KeysOf(target') => 1 \in C!KeysOf(target)
  PROVE  ConnInv'
<1>1. UNCHANGED <<env, flow, row, op, given, mixed, refused, faults>>
  BY DEF C!history
<1>2. C!TypeOK'
  BY <1>1 DEF ConnInv, C!TypeOK
<1>3. FlowsOK'
  BY <1>1 DEF ConnInv, FlowsOK, FlowOK, OpOK
<1>4. CopiesOK'
  BY <1>1 DEF ConnInv, CopiesOK, CopyOK, CredOK, Working
<1>5. C!RotatedIsReadable'
  BY <1>1 DEF ConnInv, KeysOK, C!RotatedIsReadable, C!RowsOf, C!Decrypts, C!KeysOf
<1>6. \A q \in Procs : RotationOK(op[q], env[q])'
  BY <1>1 DEF RotationOK
<1>7. rotated' # {} => \A q \in Procs : env'[q].cur = target'.cur
  BY <1>1
<1>8. KeysOK'
  BY <1>5, <1>6, <1>7 DEF KeysOK
<1>9. SignedIn'
  BY <1>1 DEF ConnInv, SignedIn, C!KeysOf
<1> QED  BY <1>1, <1>2, <1>3, <1>4, <1>8, <1>9, TokensKept DEF ConnInv

LEMMA NewKeyInv == ASSUME ConnSizes, ConnInv, C!NewKey PROVE ConnInv'
<1>1. target \in C!Env /\ target.cur < MaxKeys /\ C!Deployed
  BY DEF C!NewKey, ConnInv, C!TypeOK
<1>2. target.cur \in Nat /\ target.cur # 0 /\ target.cur + 1 \in C!AllKeys
     /\ C!KeysOf(target) \in SUBSET C!AllKeys
  BY <1>1 DEF C!Env, C!AllKeys, ConnSizes, C!KeysOf
<1>3. target' = [cur |-> target.cur + 1, prev |-> C!KeysOf(target)]
  BY DEF C!NewKey
<1>4. target' \in C!Env /\ target'.cur = target.cur + 1 /\ target'.prev = C!KeysOf(target)
  BY <1>2, <1>3 DEF C!Env
<1>5. target' # target
  BY <1>2, <1>4
<1>6. 1 \in C!KeysOf(target') => 1 \in C!KeysOf(target)
  BY <1>2, <1>4 DEF C!KeysOf
<1> QED  BY <1>1, <1>4, <1>5, <1>6, KeysChange DEF C!NewKey, C!Deployed

LEMMA DropOldInv == ASSUME ConnSizes, ConnInv, C!DropOld PROVE ConnInv'
<1>1. target \in C!Env /\ target.prev # {} /\ C!Deployed /\ rotated \in SUBSET Orgs
  BY DEF C!DropOld, ConnInv, C!TypeOK
<1>2. target' \in C!Env /\ target'.cur = target.cur /\ target'.prev = {}
  BY <1>1 DEF C!DropOld, C!Env
<1> QED  BY <1>1, <1>2, KeysChange DEF C!DropOld, C!Deployed, C!KeysOf

LEMMA DeployInv == ASSUME ConnSizes, ConnInv, NEW p \in Procs, C!Deploy(p) PROVE ConnInv'
<1>1. UNCHANGED <<target, rotated, flow, row, given, mixed, refused, faults>> /\ ~C!Deployed
  BY DEF C!Deploy, C!history, C!Deployed
<1>2. op' = [op EXCEPT ![p] = C!NoOp] /\ op'[p] = C!NoOp /\ \A q \in Procs \ {p} : op'[q] = op[q]
  BY OpsMove, ConnTyped DEF ConnInv, C!Deploy
<1>3. /\ env' \in [Procs -> C!Env] /\ env'[p] = target
      /\ \A q \in Procs \ {p} : env'[q] = env[q]
  BY DEF C!Deploy, ConnInv, C!TypeOK
<1>4. C!TypeOK'
  BY <1>1, <1>2, <1>3, OpsMove, ConnTyped DEF ConnInv, C!TypeOK
<1>5. FlowsOK'
  BY <1>1, <1>2, FlowsKept, NoOpOK, ConnTyped DEF ConnInv
<1>6. CopiesOK'
  <2>1. \A s \in RowIds : CredOK(row[s])'
    BY <1>1 DEF ConnInv, CopiesOK, CredOK
  <2>2. CopyOK(op[p])'
    BY <1>2, ConnTyped DEF CopyOK, Working
  <2>3. FlowsStay
    BY <1>1 DEF FlowsStay
  <2> QED  BY <1>1, <1>2, <2>1, <2>2, <2>3, CopiesKept DEF ConnInv
<1>7. C!RotatedIsReadable'
  BY <1>1 DEF ConnInv, KeysOK, C!RotatedIsReadable, C!RowsOf, C!Decrypts, C!KeysOf
<1>8. ASSUME NEW q \in Procs PROVE RotationOK(op[q], env[q])'
  <2>1. CASE q = p
    BY <1>2, <2>1, ConnTyped DEF RotationOK
  <2>2. CASE q # p
    <3>1. PICK i, e : i = op'[q] /\ i = op[q] /\ e = env[q] /\ e = env'[q]
      BY <1>2, <1>3, <2>2
    <3>2. RotationOK(i, e)
      BY <3>1 DEF ConnInv, KeysOK
    <3>3. RotationOK(i, e)'
      BY <1>1, <3>2 DEF RotationOK
    <3> QED  BY <3>1, <3>3
  <2> QED  BY <2>1, <2>2
<1>9. rotated' # {} => \A q \in Procs : env'[q].cur = target'.cur
  BY <1>1, <1>3 DEF ConnInv, KeysOK
<1>10. KeysOK'
  BY <1>7, <1>8, <1>9 DEF KeysOK
<1>11. SignedIn'
  BY <1>1, <1>3 DEF ConnInv, SignedIn, C!KeysOf
<1> QED  BY <1>1, <1>4, <1>5, <1>6, <1>10, <1>11, TokensKept DEF ConnInv

-----------------------------------------------------------------------------
(* The invariant.                                                          *)

LEMMA InitConnInv == ASSUME ConnSizes, C!Init PROVE ConnInv
<1>1. /\ \A p \in Procs : env[p] = target /\ op[p] = C!NoOp
      /\ target = [cur |-> 1, prev |-> {}] /\ rotated = {}
      /\ \A f \in C!Flows : flow[f] = [org |-> C!Nil, state |-> "new", exchanged |-> 0,
         saved |-> FALSE]
      /\ \A o \in Orgs : given[o] = {}
      /\ mixed = {} /\ refused = {} /\ faults = 0
  BY DEF C!Init
<1>2. 1 \in C!AllKeys /\ target \in C!Env
  BY <1>1 DEF C!Env, C!AllKeys, ConnSizes
<1>3. ASSUME NEW r \in RowIds
      PROVE  row[r] \in C!Row /\ row[r].cred = C!Nil
  <2>1. PICK old \in {{}} \cup {{o} : o \in Orgs} :
          row = [s \in RowIds |->
                   IF s = 1 /\ old # {}
                     THEN [C!NoRow EXCEPT !.org = CHOOSE o \in old : TRUE, !.enc.tag = C!Nil]
                     ELSE C!NoRow]
    BY DEF C!Init
  <2>2. CASE r = 1 /\ old # {}
    <3>1. PICK o \in Orgs : old = {o}
      BY <2>1, <2>2
    <3>2. (CHOOSE i \in old : TRUE) = o
      BY <3>1
    <3>3. row[r] = [C!NoRow EXCEPT !.org = o, !.enc.tag = C!Nil]
      BY <2>1, <2>2, <3>2
    <3>4. C!NoRow.enc \in C!Sealed /\ 0 \in 0 .. MaxFlows
      BY <1>2 DEF C!NoRow, C!Sealed, C!Env, C!AllKeys, ConnSizes
    <3>5. PICK e : e = [C!NoRow.enc EXCEPT !.tag = C!Nil]
      OBVIOUS
    <3>6. e \in C!Sealed
      BY <3>4, <3>5 DEF C!Sealed
    <3>7. row[r] = [C!NoRow EXCEPT !.org = o, !.enc = e]
      BY <3>3, <3>5
    <3> QED  BY <3>6, <3>7, ConnTyped DEF C!Row
  <2>3. CASE ~(r = 1 /\ old # {})
    BY <2>1, <2>3, ConnTyped
  <2> QED  BY <2>2, <2>3
<1>4. C!TypeOK
  <2>1. env \in [Procs -> C!Env] /\ op \in [Procs -> C!Op]
    BY <1>1, <1>2, ConnTyped DEF C!Init
  <2>2. flow \in [C!Flows -> C!Flow]
    <3>1. [org |-> C!Nil, state |-> "new", exchanged |-> 0, saved |-> FALSE] \in C!Flow
      BY DEF C!Flow
    <3> QED  BY <3>1 DEF C!Init
  <2>3. row \in [RowIds -> C!Row]
    BY <1>3 DEF C!Init
  <2>4. given \in [Orgs -> SUBSET C!Tokens]
    BY DEF C!Init
  <2>5. faults \in 0 .. MaxFaults
    BY <1>1 DEF ConnSizes
  <2> QED  BY <1>1, <1>2, <2>1, <2>2, <2>3, <2>4, <2>5 DEF C!TypeOK
<1>5. FlowsOK
  BY <1>1, NoOpOK, ConnTyped DEF FlowsOK, FlowOK
<1>6. CopiesOK
  BY <1>1, <1>3, NoOpOK DEF CopiesOK, CredOK
<1>7. C!TokenStays
  BY <1>1 DEF C!TokenStays
<1>8. KeysOK
  BY <1>1, NoOpOK DEF KeysOK, C!RotatedIsReadable
<1>9. SignedIn
  BY <1>1 DEF SignedIn
<1> QED  BY <1>4, <1>5, <1>6, <1>7, <1>8, <1>9 DEF ConnInv

LEMMA NextConnInv == ASSUME ConnSizes, ConnInv, [C!Next]_(C!vars) PROVE ConnInv'
<1>1. CASE C!NewKey
  BY <1>1, NewKeyInv
<1>2. CASE C!DropOld
  BY <1>2, DropOldInv
<1>3. ASSUME NEW f \in C!Flows, C!StateExpires(f) PROVE ConnInv'
  BY <1>3, StateExpiresInv
<1>4. ASSUME NEW p \in Procs, C!Deploy(p) \/ C!Crash(p) PROVE ConnInv'
  BY <1>4, DeployInv, ConnCrashInv
<1>5. ASSUME NEW p \in Procs, NEW f \in C!Flows,
             C!Callback(p, f) \/ \E o \in Orgs : C!Start(p, f, o) \/ C!Paste(p, f, o)
      PROVE  ConnInv'
  BY <1>5, CallbackInv, StartInv, PasteInv
<1>6. ASSUME NEW p \in Procs, C!Exchange(p) \/ C!Validate(p) \/ C!Find(p) PROVE ConnInv'
  BY <1>6, ExchangeInv, ValidateInv, FindInv
<1>7. ASSUME NEW p \in Procs, C!Save(p) \/ C!Enqueue(p) \/ C!Redirect(p) PROVE ConnInv'
  BY <1>7, SaveInv, EnqueueConnInv, RedirectInv
<1>8. ASSUME NEW p \in Procs, NEW o \in Orgs, C!FindToken(p, o) \/ C!Rotate(p, o) PROVE ConnInv'
  BY <1>8, FindTokenInv, RotateInv
<1>9. ASSUME NEW p \in Procs, C!SaveToken(p) \/ C!RotateEnds(p) \/ \E r \in RowIds :
     C!RotateRow(p, r)
      PROVE  ConnInv'
  BY <1>9, SaveTokenInv, RotateEndsInv, RotateRowInv
<1>10. CASE UNCHANGED C!vars
  <2>1. UNCHANGED <<env, target, rotated, flow, row, op, given, mixed, refused, faults>>
    BY <1>10 DEF C!vars, C!keyVars, C!history
  <2>2. C!TypeOK' /\ FlowsOK' /\ CopiesOK'
    BY <2>1 DEF ConnInv, C!TypeOK, FlowsOK, FlowOK, OpOK, CopiesOK, CopyOK, CredOK, Working
  <2> QED  BY <2>1, <2>2, TokensKept, KeysKept, SignedInKept DEF ConnInv, C!keyVars
<1> QED  BY <1>1, <1>2, <1>3, <1>4, <1>5, <1>6, <1>7, <1>8, <1>9, <1>10 DEF C!Next

LEMMA ConnSays ==
  ASSUME ConnSizes, ConnInv
  PROVE  /\ C!StateOnce /\ C!TokensOfTheirStarter /\ C!ToldTheTruth
         /\ C!TokenStays /\ C!RotatedIsReadable /\ C!SessionsSurvive
<1>1. C!StateOnce
  BY DEF ConnInv, FlowsOK, FlowOK, C!StateOnce
<1>2. C!TokensOfTheirStarter
  BY DEF ConnInv, CopiesOK, CredOK, C!TokensOfTheirStarter
<1>3. C!ToldTheTruth
  BY DEF ConnInv, FlowsOK, OpOK, C!ToldTheTruth
<1>4. C!SessionsSurvive
  BY DEF ConnInv, SignedIn, C!SessionsSurvive
<1> QED  BY <1>1, <1>2, <1>3, <1>4 DEF ConnInv, KeysOK

LEMMA ConnInvariant == ASSUME ConnSizes PROVE C!Spec => []ConnInv
<1>1. C!Init => ConnInv
  BY InitConnInv
<1>2. ConnInv /\ [C!Next]_(C!vars) => ConnInv'
  BY NextConnInv
<1> QED  BY <1>1, <1>2, PTL DEF C!Spec

\* However often the browser comes back and whichever processes answer, a code is
\* exchanged once, the credentials an organization has are those one of its own users
\* asked for, and who is told that the connection stands, or failed, is told the truth.
THEOREM ConnectionsAreAsked ==
  ASSUME ConnSizes PROVE C!Spec => [](C!StateOnce /\ C!TokensOfTheirStarter /\ C!ToldTheTruth)
  BY ConnInvariant, ConnSays, PTL

\* For any number of processes, keys and rows: a webhook URL that was shown stays valid,
\* and everything of an organization that was rotated can be read with the current key,
\* unless a stale row was saved; nobody is sent to sign in again before the key is dropped.
THEOREM KeysAreKept ==
  ASSUME ConnSizes PROVE C!Spec => [](C!TokenStays /\ C!RotatedIsReadable /\ C!SessionsSurvive)
  BY ConnInvariant, ConnSays, PTL
================================================================================
