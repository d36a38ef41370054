------------------------------- MODULE Gateway --------------------------------
(***************************************************************************)
(* What a request that changes something passes on its way through the     *)
(* API: the rate limiter (fixed windows, INCR and EXPIRE in Redis), the    *)
(* idempotency keys (a stored answer and a lock, in Redis too), the        *)
(* handler, and the audit middleware, which tells the other members of the *)
(* organization through the hub; and the hub with its WebSocket and SSE    *)
(* clients, one goroutine that serves three channels.                      *)
(*                                                                         *)
(* Requests are served at once by any number of handlers, and a process    *)
(* that dies takes the hub with it and leaves Redis as it is.              *)
(***************************************************************************)
EXTENDS Naturals

CONSTANTS
  Workers,        \* handlers of requests
  Keys,           \* values of Idempotency-Key
  Clients,        \* connections to /ws and to /events
  Limit, Burst,   \* of the limiter
  BufferSize,     \* of a client's channel, and of the hub's
  BroadcastSize,
  MaxRequests,    \* bounds on the requests
  MaxFaults       \* and the errors of Redis and crashes

NoKey == "no key"
Windows == {"sustained", "burst"}
Ceiling == [sustained |-> Limit, burst |-> Burst]

VARIABLES
  counter,    \* of the limiter, for one user
  record,     \* answers stored for a key
  lock,       \* whether a key is locked
  req,        \* the request of each worker
  broadcast,  \* how many events wait in the channel of the hub
  client,     \* clients of the hub
  leaving,    \* goroutines that wait to unregister each client
  requests,   \* those begun
  faults,     \* faults so far
  past        \* what has happened (history variable)

gateVars == <<counter, record, lock, req>>
hubVars == <<broadcast, client, leaving>>
vars == <<counter, record, lock, req, broadcast, client, leaving, requests, faults, past>>

\* Of a handler: an answer, an error of the client, an error of the server.
Outcomes == {"ok", "refused", "failed"}
Pcs == {"idle", "sustained", "burst", "expire sustained", "expire burst", "lookup", "lock", "run",
        "store", "unlock", "audit"}
Req == [pc : Pcs, key : Keys \cup {NoKey}, outcome : Outcomes]
NoReq == [pc |-> "idle", key |-> NoKey, outcome |-> "ok"]
ExpireOf == [sustained |-> "expire sustained", burst |-> "expire burst"]
\* A client.  open: its connection is.  buffer: what its channel holds.  closed:
\* how often that was closed.  missed: it was full for an event (history, both).
Client == [st : {"new", "joining", "in", "out"}, open : BOOLEAN, buffer : 0 .. BufferSize,
           closed : Nat, missed : BOOLEAN]
NewClient == [st |-> "new", open |-> FALSE, buffer |-> 0, closed |-> 0, missed |-> FALSE]

\* passed: requests that each window let pass.  unlocked: keys of which a request
\* ran without the lock.
Past == [passed : [Windows -> Nat], unlocked : SUBSET Keys]

TypeOK ==
  /\ counter \in [Windows -> [n : Nat, ttl : BOOLEAN]]
  /\ record \in [Keys -> Outcomes \cup {"none"}]
  /\ lock \in [Keys -> BOOLEAN]
  /\ req \in [Workers -> Req]
  /\ broadcast \in 0 .. BroadcastSize
  /\ client \in [Clients -> Client]
  /\ leaving \in [Clients -> Nat]
  /\ requests \in 0 .. MaxRequests
  /\ faults \in 0 .. MaxFaults
  /\ past \in Past

Init ==
  /\ counter = [x \in Windows |-> [n |-> 0, ttl |-> FALSE]]
  /\ record = [k \in Keys |-> "none"]
  /\ lock = [k \in Keys |-> FALSE]
  /\ req = [w \in Workers |-> NoReq]
  /\ broadcast = 0
  /\ client = [c \in Clients |-> NewClient]
  /\ leaving = [c \in Clients |-> 0]
  /\ requests = 0
  /\ faults = 0
  /\ past = [passed |-> [x \in Windows |-> 0], unlocked |-> {}]

Goto(w, pc) == req' = [req EXCEPT ![w].pc = pc]
Fault == faults < MaxFaults /\ faults' = faults + 1
MayFail(e) == IF e THEN Fault ELSE UNCHANGED faults

-----------------------------------------------------------------------------
(* RedisRateLimiter.                                                       *)

Arrive(w, k) ==
  /\ req[w].pc = "idle" /\ requests < MaxRequests
  /\ requests' = requests + 1
  /\ req' = [req EXCEPT ![w] = [NoReq EXCEPT !.pc = "sustained", !.key = k]]
  /\ UNCHANGED <<counter, record, lock, hubVars, faults, past>>

\* Past one window comes the other, then the rest of the chain.
NextOf(x) == IF x = "sustained" /\ Burst > 0 THEN "burst" ELSE "lookup"
\* Mutant: one too many.
Allowed_OneMore(n, x) == n <= Ceiling[x] + 1
Allowed(n, x) == n <= Ceiling[x]
\* hit: the first of a window gives the counter its end in a second command.
\* Mutant: the count is compared with 0.
IsFirst_Zero(n) == n = 0
IsFirst(n) == n = 1
Decide(w, x, n) ==
  /\ IF Allowed(n, x) THEN Goto(w, NextOf(x)) /\ past' = [past EXCEPT !.passed[x] = @ + 1]
                      ELSE req' = [req EXCEPT ![w] = NoReq] /\ UNCHANGED past
Hit(w, x) ==
  /\ req[w].pc = x
  /\ LET n == counter[x].n + 1 IN
       /\ counter' = [counter EXCEPT ![x].n = n]
       /\ IF IsFirst(n) THEN Goto(w, ExpireOf[x]) /\ UNCHANGED past ELSE Decide(w, x, n)
  /\ UNCHANGED <<record, lock, hubVars, requests, faults>>
\* An error of Redis lets the request pass.
FailOpen(w, x) ==
  /\ req[w].pc = x /\ Fault
  /\ Goto(w, "lookup")
  /\ UNCHANGED <<counter, record, lock, hubVars, requests, past>>
Expire(w, x) ==
  /\ req[w].pc = ExpireOf[x]
  /\ \E e \in BOOLEAN : MayFail(e) /\ counter' = [counter EXCEPT ![x].ttl = @ \/ ~e]
  /\ Decide(w, x, 1)
  /\ UNCHANGED <<record, lock, hubVars, requests>>
\* A window is over.
WindowEnds(x) ==
  /\ counter[x].ttl
  /\ counter' = [counter EXCEPT ![x] = [n |-> 0, ttl |-> FALSE]]
  /\ past' = [past EXCEPT !.passed[x] = 0]
  /\ UNCHANGED <<record, lock, req, hubVars, requests, faults>>

-----------------------------------------------------------------------------
(* Idempotency.                                                            *)

\* A request that RouteGuard denies ends, one without a key runs, and one whose
\* key has a record is answered with that, unless it cannot be read.
Lookup(w) ==
  LET k == req[w].key IN
  /\ req[w].pc = "lookup"
  /\ \/ req' = [req EXCEPT ![w].pc = "audit", ![w].outcome = "refused"] /\ UNCHANGED faults
     \/ k = NoKey /\ Goto(w, "run") /\ UNCHANGED faults
     \/ /\ k # NoKey
        /\ \/ MayFail(record[k] # "none") /\ Goto(w, "lock")
           \/ /\ record[k] # "none" /\ UNCHANGED faults
              /\ req' = [req EXCEPT ![w].pc = "audit", ![w].outcome = record[k]]
  /\ UNCHANGED <<counter, record, lock, hubVars, requests, past>>

\* A key that is taken answers 409; after an error the handler runs without it.
\* Mutant: the lock is let go of by the request that did not get it.
Refused_Unlocks(w) == [req EXCEPT ![w].pc = "unlock", ![w].outcome = "refused"]
Refused(w) == [req EXCEPT ![w].pc = "audit", ![w].outcome = "refused"]
Acquire(w) ==
  LET k == req[w].key IN
  /\ req[w].pc = "lock"
  /\ \/ /\ ~lock[k] /\ lock' = [lock EXCEPT ![k] = TRUE]
        /\ Goto(w, "run") /\ UNCHANGED <<faults, past>>
     \/ lock[k] /\ req' = Refused(w) /\ UNCHANGED <<lock, faults, past>>
     \/ /\ Fault /\ Goto(w, "run") /\ UNCHANGED lock
        /\ past' = [past EXCEPT !.unlocked = @ \cup {k}]
  /\ UNCHANGED <<counter, record, hubVars, requests>>

Run(w) ==
  /\ req[w].pc = "run"
  /\ \E o \in Outcomes : req' = [req EXCEPT ![w].outcome = o,
                               ![w].pc = IF req[w].key = NoKey THEN "audit" ELSE "store"]
  /\ UNCHANGED <<counter, record, lock, hubVars, requests, faults, past>>

\* What c.Response().StatusCode() tells: handlers return their errors, and the
\* application's error handler, which sets the status, has not run yet.
Seen(outcome) == "ok"
Store(w) ==
  /\ req[w].pc = "store"
  /\ \E e \in BOOLEAN :
       /\ MayFail(e)
       /\ record' = IF e \/ Seen(req[w].outcome) = "failed" THEN record
                    ELSE [record EXCEPT ![req[w].key] = req[w].outcome]
  /\ Goto(w, "unlock")
  /\ UNCHANGED <<counter, lock, hubVars, requests, past>>
Unlock(w) ==
  /\ req[w].pc = "unlock"
  /\ \E e \in BOOLEAN : MayFail(e) /\ lock' = [lock EXCEPT ![req[w].key] = @ /\ e]
  /\ Goto(w, "audit")
  /\ UNCHANGED <<counter, record, hubVars, requests, past>>

Running(k) == {w \in Workers : req[w].key = k /\ req[w].pc \in {"run", "store", "unlock"}}
\* A lock lasts thirty seconds, a record ten minutes.
LockExpires(k) ==
  /\ lock[k]
  /\ lock' = [lock EXCEPT ![k] = FALSE]
  /\ past' = [past EXCEPT !.unlocked = IF Running(k) = {} THEN @ ELSE @ \cup {k}]
  /\ UNCHANGED <<counter, record, req, hubVars, requests, faults>>
RecordExpires(k) ==
  /\ record[k] # "none"
  /\ record' = [record EXCEPT ![k] = "none"]
  /\ UNCHANGED <<counter, lock, req, hubVars, requests, faults, past>>

\* AuditLog: what looks like a success is told to the organization.
Audit(w) ==
  /\ req[w].pc = "audit" /\ broadcast < BroadcastSize
  /\ broadcast' = IF Seen(req[w].outcome) = "ok" THEN broadcast + 1 ELSE broadcast
  /\ req' = [req EXCEPT ![w] = NoReq]
  /\ UNCHANGED <<counter, record, lock, client, leaving, requests, faults, past>>

-----------------------------------------------------------------------------
(* Hub.                                                                    *)

Set(c, new) == client' = [client EXCEPT ![c] = new]
\* WebSocketHandler, SSEHandler: a client waits for the hub to take it,
Connect(c) ==
  /\ client[c].st = "new"
  /\ Set(c, [client[c] EXCEPT !.st = "joining", !.open = TRUE])
  /\ UNCHANGED <<gateVars, broadcast, leaving, requests, faults, past>>
\* and Run does.
Register(c) ==
  /\ client[c].st = "joining"
  /\ Set(c, [client[c] EXCEPT !.st = "in"])
  /\ UNCHANGED <<gateVars, broadcast, leaving, requests, faults, past>>

\* One event to every client; for one whose channel is full, a goroutine is started.
IsFull(c) == client[c].buffer = BufferSize
\* Mutant: it is full one too early.
Slow_Early == {c \in Clients : client[c].st = "in" /\ client[c].buffer >= BufferSize - 1}
Slow == {c \in Clients : client[c].st = "in" /\ IsFull(c)}
\* Mutant: the event is dropped, and the client stays.
Left_Nobody == leaving
Left == [c \in Clients |-> IF c \in Slow THEN leaving[c] + 1 ELSE leaving[c]]
Deliver ==
  /\ broadcast > 0
  /\ broadcast' = broadcast - 1
  /\ leaving' = Left
  /\ client' = [c \in Clients |->
       CASE client[c].st # "in" -> client[c]
         [] client[c].st = "in" /\ c \in Slow -> [client[c] EXCEPT !.missed = @ \/ IsFull(c)]
         [] OTHER -> [client[c] EXCEPT !.buffer = @ + 1]]
  /\ UNCHANGED <<gateVars, requests, faults, past>>

\* Mutant: the channel is closed every time.
Removed_Again(c) == [client[c] EXCEPT !.st = "out", !.closed = @ + 1]
Removed(c) == IF client[c].st = "in" THEN [client[c] EXCEPT !.st = "out", !.closed = @ + 1]
              ELSE client[c]
Unregister(c) ==
  /\ leaving[c] > 0
  /\ leaving' = [leaving EXCEPT ![c] = @ - 1]
  /\ Set(c, Removed(c))
  /\ UNCHANGED <<gateVars, broadcast, requests, faults, past>>

\* A message goes out,
Write(c) ==
  /\ client[c].open /\ client[c].buffer > 0
  /\ Set(c, [client[c] EXCEPT !.buffer = @ - 1])
  /\ UNCHANGED <<gateVars, broadcast, leaving, requests, faults, past>>
\* the peer goes, or a stream finds its channel closed, and the handler ends.
\* A socket whose channel is closed stays open.
HandlerEnds(c) ==
  /\ client[c].open /\ client[c].st \in {"in", "out"}
  /\ Set(c, [client[c] EXCEPT !.open = FALSE])
  /\ leaving' = [leaving EXCEPT ![c] = @ + 1]
  /\ UNCHANGED <<gateVars, broadcast, requests, faults, past>>

\* The process dies.
Crash ==
  /\ Fault
  /\ req' = [w \in Workers |-> NoReq]
  /\ broadcast' = 0
  /\ client' = [c \in Clients |-> NewClient]
  /\ leaving' = [c \in Clients |-> 0]
  /\ UNCHANGED <<counter, record, lock, requests, past>>

Next ==
  \/ \E w \in Workers :
       \/ \E k \in Keys \cup {NoKey} : Arrive(w, k)
       \/ \E x \in Windows : Hit(w, x) \/ FailOpen(w, x) \/ Expire(w, x)
       \/ Lookup(w) \/ Acquire(w) \/ Run(w) \/ Store(w) \/ Unlock(w) \/ Audit(w)
  \/ \E x \in Windows : WindowEnds(x)
  \/ \E k \in Keys : LockExpires(k) \/ RecordExpires(k)
  \/ \E c \in Clients : Connect(c) \/ Register(c) \/ Unregister(c) \/ Write(c) \/ HandlerEnds(c)
  \/ Deliver \/ Crash

Spec == Init /\ [][Next]_vars

-----------------------------------------------------------------------------
(* Properties.                                                             *)

\* Of the requests that Redis counted, a window lets no more pass than its limit,
\* however many handlers count at once, and a counter that has no end is about
\* to get one, unless a fault kept it from that.
WindowsHold ==
  /\ \A x \in Windows : past.passed[x] <= Ceiling[x]
  /\ \A x \in Windows : counter[x].n > 0 /\ ~counter[x].ttl =>
       faults > 0 \/ \E w \in Workers : req[w].pc = ExpireOf[x]

\* A handler never runs twice at once for one key, unless its lock ended before
\* it did or was not to be had: whoever comes second leaves the lock alone.
OneRunAtATime ==
  \A k \in Keys \ past.unlocked : \A v, w \in Running(k) : v = w

\* A client that missed an event is about to leave the hub: no event comes to it
\* as if nothing had been lost, for longer than that takes.
NoSilentGap ==
  \A c \in Clients : client[c].st = "in" /\ client[c].missed => leaving[c] > 0

\* A channel is closed once, however many goroutines ask for it, and the hub lets
\* go of an open connection only if it missed an event.
LeavesOnce ==
  \A c \in Clients :
    /\ client[c].closed <= 1
    /\ client[c].st = "out" /\ client[c].open => client[c].missed

\* Handlers that count and lock at once let no more pass than one would.
LimitsHold == WindowsHold /\ OneRunAtATime
\* A client that missed an event leaves, once, and no other does.
HearOrLeave == NoSilentGap /\ LeavesOnce

\* "Server errors aren't cached": a record is never that of a run that failed.
ServerErrorsNotStored == \A k \in Keys : record[k] # "failed"
===============================================================================
