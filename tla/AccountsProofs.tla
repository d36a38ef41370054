----------------------------- MODULE AccountsProofs -----------------------------
(***************************************************************************)
(* Proofs about Accounts: for any number of handlers, sessions, tokens,    *)
(* requests and faults, the row of the user keeps every change unless an   *)
(* old copy is saved, it is locked only after enough logins have failed, a *)
(* session ends with the password it goes back to, and a session and a     *)
(* token are used once, each but for the overlaps its statement names.     *)
(*                                                                         *)
(* Then, each with constants and variables of its own, about three         *)
(* components of one process: Enrichment, ZapierGateway and FieldMapping.  *)
(***************************************************************************)
EXTENDS Accounts, SequencesExt, TLAPS, FiniteSetTheorems, SequenceTheorems, WellFoundedInduction

\* The bounds are numbers.
Sizes ==
  /\ MaxFailed \in Nat \ {0} /\ MaxSessions \in Nat \ {0} /\ MaxTokens \in Nat
  /\ MaxRequests \in Nat /\ MaxFaults \in Nat

\* A request stands where its kind can stand.
JobOK(j) ==
  /\ j.pc \in {"find", "revoke", "black"} => j.session # 0 /\ j.change = "none"
  /\ j.pc = "session" => \/ j.session # 0 /\ j.change = "none"
                         \/ j.session = 0 /\ j.change = "success"
  /\ j.pc = "logout" => j.session # 0
  /\ j.pc \in {"save", "readuser", "mark"} => j.session = 0
  /\ j.pc \in {"readuser", "mark"} => j.token # 0
JobsOK == \A w \in Workers : JobOK(job[w])

\* A copy of the row that nobody changed since is the row, no copy has counted more
\* failures than there were, and a session that is being made goes back to the
\* password of now, or is late.
Busy(j) == j.pc \notin {"idle", "revokeall"}
Counts(u) == u.failed <= past.wrong /\ (u.lock # 0 => past.wrong >= MaxFailed)
CopyOK(j) ==
  /\ Counts(j.user)
  /\ ~past.lost /\ Busy(j) => (j.alone => j.user = user) /\ (j.pw = past.row.pw \/ j.late)
Revoking == \E w \in Workers : job[w].pc = "revokeall"
Rowed ==
  /\ NoLostChange /\ NeverLockedTooEarly /\ SessionsOfToday
  /\ \A w \in Workers : CopyOK(job[w])

\* Of a session that two refreshes did not overlap on.  What is missing of its
\* revocation when it has been replaced, or is about to be, was lost in a fault; so,
\* with one fault, a second refresh finds it revoked.
Missing(s) == (IF session[s].st = "revoked" THEN 0 ELSE 1) + (IF session[s].black THEN 0 ELSE 1)
Replaces(w, s) ==
  /\ job[w].pc = "find" /\ session[s].kids = 1 => session[s].st = "revoked"
  /\ job[w].pc # "find" => session[s].kids = 0
  /\ job[w].pc \in {"black", "session"} /\ session[s].st # "revoked" => faults > 0
  /\ job[w].pc = "session" => Missing(s) <= faults
Replacing(s) ==
  /\ session[s].kids <= 1
  /\ \A v, w \in Workers : Refreshes(v, s) /\ Refreshes(w, s) => v = w
  /\ session[s].kids = 1 => Missing(s) <= faults
  /\ \A w \in Workers : Refreshes(w, s) => Replaces(w, s)
Replaced ==
  /\ \A w \in Workers, s \in SessionIds : Refreshes(w, s) => session[s].st # "none"
  /\ MaxFaults <= 1 => \A s \in SessionIds : session[s].raced \/ Replacing(s)

\* Of a token that two requests did not redeem at once.
Redeeming(t) ==
  /\ token[t].uses <= 1
  /\ token[t].st \in {"none", "live"} => token[t].uses = 0
  /\ \A v, w \in Workers : Redeems(v, t) /\ Redeems(w, t) => v = w
  /\ \A w \in Workers : Redeems(w, t) => token[t].uses = 0
Redeemed ==
  /\ \A w \in Workers, t \in TokenIds : Redeems(w, t) => token[t].st # "none"
  /\ \A t \in TokenIds : token[t].raced \/ Redeeming(t)

\* Who issues a token and overlaps nobody is alone, and finds none to be redeemed once
\* the older ones are deleted.
Issued ==
  /\ \A t, u \in TokenIds : /\ token[t].st = "live" /\ token[u].st = "live"
                            /\ token[t].kind = token[u].kind
                            /\ ~token[t].raced /\ ~token[u].raced
                            => t = u
  /\ \A w \in Workers, k \in {"verify", "reset"} : Issues(w, k) /\ ~job[w].raced =>
       /\ \A v \in Workers : Issues(v, k) => v = w
       /\ job[w].pc = "issue" => \A t \in TokenIds : token[t].st = "live" => token[t].kind # k

AccountsInv == TypeOK /\ JobsOK /\ Rowed /\ Replaced /\ Redeemed /\ Issued

-----------------------------------------------------------------------------
(* Types.                                                                  *)

LEMMA Typed ==
  ASSUME Sizes
  PROVE  /\ NewUser \in User /\ Idle \in Job /\ NoSession \in Session /\ NoToken \in Token
         /\ SessionIds \subseteq Nat \ {0} /\ TokenIds \subseteq Nat \ {0}
<1>1. NewUser \in User
  BY DEF NewUser, User
<1>2. Idle \in Job
  BY <1>1 DEF Sizes, Idle, Job, Changes
<1>3. NoSession \in Session
  BY DEF NoSession, Session
<1>4. NoToken \in Token
  BY DEF NoToken, Token
<1>5. SessionIds \subseteq Nat \ {0} /\ TokenIds \subseteq Nat \ {0}
  BY DEF Sizes, SessionIds, TokenIds
<1> QED  BY <1>1, <1>2, <1>3, <1>4, <1>5

LEMMA IdleOK ==
  /\ JobOK(Idle) /\ Idle.pc = "idle" /\ Idle.session = 0 /\ Idle.token = 0 /\ ~Idle.raced
  /\ Idle.user = NewUser /\ Idle.alone
  BY DEF Idle, JobOK

LEMMA NewCounts == ASSUME Sizes, TypeOK PROVE Counts(NewUser)
<1>1. NewUser.failed = 0 /\ NewUser.lock = 0
  BY DEF NewUser
<1>2. past.wrong \in Nat
  BY DEF TypeOK, Past
<1> QED  BY <1>1, <1>2 DEF Counts

\* What w works on.
LEMMA JobAt ==
  ASSUME Sizes, AccountsInv, NEW w \in Workers
  PROVE  /\ TypeOK /\ job[w] \in Job /\ JobOK(job[w]) /\ CopyOK(job[w])
         /\ job \in [Workers -> Job] /\ user \in User /\ past \in Past /\ faults \in Nat
         /\ job[w].session # 0 => job[w].session \in SessionIds
         /\ job[w].token # 0 => job[w].token \in TokenIds
<1>1. /\ TypeOK /\ job[w] \in Job /\ JobOK(job[w]) /\ CopyOK(job[w])
      /\ job \in [Workers -> Job] /\ user \in User /\ past \in Past
  BY DEF AccountsInv, TypeOK, JobsOK, Rowed
<1>2. faults \in Nat
  BY DEF AccountsInv, TypeOK, Sizes
<1>3. job[w].session \in 0 .. MaxSessions /\ job[w].token \in 0 .. MaxTokens
  BY <1>1 DEF Job
<1>4. job[w].session # 0 => job[w].session \in SessionIds
  BY <1>3 DEF Sizes, SessionIds
<1>5. job[w].token # 0 => job[w].token \in TokenIds
  BY <1>3 DEF Sizes, TokenIds
<1> QED  BY <1>1, <1>2, <1>4, <1>5

LEMMA FaultTyped ==
  ASSUME Sizes, TypeOK, NEW e, Ignored(e)
  PROVE  faults' \in 0 .. MaxFaults /\ faults' >= faults /\ (e => faults' = faults + 1)
  BY DEF Sizes, TypeOK, Ignored

-----------------------------------------------------------------------------
(* Steps of requests.                                                      *)

\* Nothing of a request has changed but what others write into it: its copy is old, it
\* is late, or it was overlapped.
Like(a, b) ==
  /\ b.pc = a.pc /\ b.change = a.change /\ b.user = a.user /\ b.code = a.code /\ b.pw = a.pw
  /\ b.session = a.session /\ b.token = a.token /\ b.kind = a.kind
  /\ a.late => b.late
  /\ b.alone => a.alone
  /\ a.raced => b.raced
Moved(w) == \A v \in Workers : v # w => Like(job[v], job'[v])

LEMMA StepMoves ==
  ASSUME TypeOK, NEW w \in Workers, NEW j \in Job, Step(w, j)
  PROVE  /\ job' \in [Workers -> Job] /\ job'[w] = j /\ Moved(w)
         /\ \A v \in Workers : v # w => job'[v] = job[v]
<1>1. /\ job' \in [Workers -> Job] /\ job'[w] = j
      /\ \A v \in Workers : v # w => job'[v] = job[v]
  BY DEF TypeOK, Step
<1> QED  BY <1>1 DEF Moved, Like

LEMMA OthersMove ==
  ASSUME TypeOK, NEW w \in Workers, NEW j \in Job, NEW d \in BOOLEAN, NEW l \in BOOLEAN,
         Others(w, j, d, l)
  PROVE  /\ job' \in [Workers -> Job] /\ job'[w] = j /\ Moved(w)
         /\ \A v \in Workers : v # w /\ job[v].pc # "idle" =>
              (d => ~job'[v].alone) /\ (l => job'[v].late)
<1>1. ASSUME NEW v \in Workers, v # w
      PROVE  /\ job'[v] \in Job /\ Like(job[v], job'[v])
             /\ job[v].pc # "idle" => (d => ~job'[v].alone) /\ (l => job'[v].late)
  <2>1. job[v] \in Job
    BY DEF TypeOK
  <2>2. CASE job[v].pc = "idle"
    <3>1. job'[v] = job[v]
      BY <1>1, <2>2 DEF Others
    <3> QED  BY <2>1, <2>2, <3>1 DEF Like
  <2>3. CASE job[v].pc # "idle"
    <3>1. PICK a \in BOOLEAN : a = (job[v].alone /\ ~d)
      OBVIOUS
    <3>2. PICK b \in BOOLEAN : b = (job[v].late \/ l)
      OBVIOUS
    <3>3. job'[v] = [job[v] EXCEPT !.alone = job[v].alone /\ ~d, !.late = job[v].late \/ l]
      BY <1>1, <2>3 DEF Others
    <3>4. job'[v] = [job[v] EXCEPT !.alone = a, !.late = b]
      BY <3>1, <3>2, <3>3
    <3>5. job'[v] \in Job
      BY <2>1, <3>4 DEF Job
    <3>6. /\ job'[v].pc = job[v].pc /\ job'[v].change = job[v].change /\ job'[v].user = job[v].user
          /\ job'[v].code = job[v].code /\ job'[v].pw = job[v].pw
          /\ job'[v].session = job[v].session /\ job'[v].token = job[v].token
          /\ job'[v].kind = job[v].kind
      BY <2>1, <3>4 DEF Job
    <3>7. job'[v].alone = a /\ job'[v].late = b /\ job'[v].raced = job[v].raced
      BY <2>1, <3>4 DEF Job
    <3> QED  BY <3>1, <3>2, <3>5, <3>6, <3>7 DEF Like
  <2> QED  BY <2>2, <2>3
<1>2. job'[w] = j
  BY DEF Others
<1>3. job' \in [Workers -> Job]
  <2> DEFINE New(v) == CASE v = w -> j
                         [] v # w /\ job[v].pc = "idle" -> job[v]
                         [] OTHER -> [job[v] EXCEPT !.alone = @ /\ ~d, !.late = @ \/ l]
  <2>1. job' = [v \in Workers |-> New(v)]
    BY DEF Others
  <2> HIDE DEF New
  <2> QED  BY <1>1, <1>2, <2>1
<1> QED  BY <1>1, <1>2, <1>3 DEF Moved

\* A request begins with the row as it is.
LEMMA Begins ==
  ASSUME Sizes, AccountsInv, NEW w \in Workers,
         NEW pc \in {"session", "save", "invalidate", "readuser", "find", "logout"},
         NEW change \in Changes, NEW j, j = Begin(w, pc, change)
  PROVE  /\ j \in Job /\ j.pc = pc /\ j.change = change /\ j.session = 0 /\ j.token = 0
         /\ j.user = user /\ j.pw = user.pw /\ j.alone /\ ~j.raced /\ ~j.late
         /\ j.code = "none"
<1>1. user \in User /\ user.pw \in Nat /\ Idle \in Job
  BY Typed DEF AccountsInv, TypeOK, User
<1>2. j = [Idle EXCEPT !.pc = pc, !.change = change, !.user = user, !.pw = user.pw]
  BY DEF Begin
<1>3. j \in Job
  BY <1>1, <1>2 DEF Job
<1>4. /\ j.pc = pc /\ j.change = change /\ j.session = 0 /\ j.token = 0 /\ j.code = "none"
      /\ j.user = user /\ j.pw = user.pw
  BY <1>2 DEF Idle
<1>5. j.alone = TRUE /\ j.raced = FALSE /\ j.late = FALSE
  BY <1>2 DEF Idle
<1> QED  BY <1>3, <1>4, <1>5

\* The row counts its failures, and its password is that of now, or a change was lost.
LEMMA RowCounts ==
  ASSUME AccountsInv
  PROVE  Counts(user) /\ (~past.lost => user.pw = past.row.pw)
  BY DEF AccountsInv, Rowed, NeverLockedTooEarly, NoLostChange, Counts

-----------------------------------------------------------------------------
(* What a step leaves alone.                                               *)

LEMMA JobsKept ==
  ASSUME JobsOK, NEW w \in Workers, Moved(w), JobOK(job'[w]) PROVE JobsOK'
<1>1. \A v \in Workers : v # w => JobOK(job'[v])
  BY DEF JobsOK, Moved, Like, JobOK
<1> QED  BY <1>1 DEF JobsOK

\* No change of the row; a session is live only if it was, or goes back to the password
\* of now, or is late; and whoever was about to end the sessions has ended them, or
\* failed.
LEMMA RowKept ==
  ASSUME TypeOK, Rowed, NEW w \in Workers, Moved(w), CopyOK(job[w])',
         session' \in [SessionIds -> Session], UNCHANGED user, past'.row = past.row,
         past'.lost = past.lost, past'.wrong = past.wrong, past.unsigned => past'.unsigned,
         \A s \in SessionIds : session'[s].st = "live" =>
           \/ /\ session[s].st = "live" /\ session'[s].pw = session[s].pw
              /\ session'[s].late = session[s].late
           \/ session'[s].pw = past.row.pw \/ session'[s].late \/ past.lost,
         job[w].pc = "revokeall" =>
           \/ past'.unsigned \/ \A s \in SessionIds : session'[s].st # "live"
           \/ job'[w].pc = "revokeall"
  PROVE  Rowed'
<1>1. NoLostChange' /\ NeverLockedTooEarly'
  BY DEF Rowed, NoLostChange, NeverLockedTooEarly
<1>2. ASSUME NEW v \in Workers, v # w PROVE CopyOK(job[v])'
  <2>1. CopyOK(job[v]) /\ Like(job[v], job'[v])
    BY <1>2 DEF Rowed, Moved
  <2> QED  BY <2>1 DEF CopyOK, Like, Busy, Counts
<1>3. \A v \in Workers : v # w /\ job[v].pc = "revokeall" => job'[v].pc = "revokeall"
  BY DEF Moved, Like
<1>4. \A s : s \in Live(session)' <=> s \in SessionIds /\ session'[s].st = "live"
  BY DEF Live
<1>5. \A s : s \in Live(session) <=> s \in SessionIds /\ session[s].st = "live"
  BY DEF Live, TypeOK
<1>6. SessionsOfToday'
  BY <1>3, <1>4, <1>5 DEF Rowed, SessionsOfToday
<1> QED  BY <1>1, <1>2, <1>6 DEF Rowed

\* No session was replaced, and whoever refreshes one goes on as it should.
LEMMA ReplacedStep ==
  ASSUME Sizes, TypeOK, Replaced, NEW w \in Workers, Moved(w), faults' \in Nat, faults' >= faults,
         \A s \in SessionIds :
           /\ session'[s].kids = session[s].kids /\ session'[s].raced = session[s].raced
           /\ session[s].st # "none" => session'[s].st # "none"
           /\ session[s].st = "revoked" => session'[s].st = "revoked"
           /\ session[s].black => session'[s].black,
         \A s \in SessionIds : Refreshes(w, s)' =>
           Refreshes(w, s) /\ (MaxFaults <= 1 /\ Replacing(s) => Replaces(w, s)')
  PROVE  Replaced'
<1>1. ASSUME NEW v \in Workers, NEW s \in SessionIds, Refreshes(v, s)'
      PROVE  Refreshes(v, s) /\ (v # w => job'[v].pc = job[v].pc)
  BY <1>1 DEF Moved, Like, Refreshes
<1>2. faults \in Nat
  BY DEF TypeOK, Sizes
<1>3. ASSUME NEW s \in SessionIds PROVE Missing(s)' <= Missing(s) /\ Missing(s) \in Nat /\ Missing(s)' \in Nat
  BY DEF Missing
<1>4. ASSUME NEW s \in SessionIds, MaxFaults <= 1, Replacing(s) PROVE Replacing(s)'
  <2>1. Missing(s) <= faults => Missing(s)' <= faults'
    BY <1>2, <1>3
  <2>2. faults > 0 => faults' > 0
    BY <1>2
  <2>3. ASSUME NEW v \in Workers, Refreshes(v, s)', v # w PROVE Replaces(v, s)'
    <3>1. Replaces(v, s) /\ job'[v].pc = job[v].pc
      BY <1>1, <1>4, <2>3 DEF Replacing
    <3> QED  BY <2>1, <2>2, <3>1 DEF Replaces
  <2>4. \A v \in Workers : Refreshes(v, s)' => Replaces(v, s)'
    BY <1>4, <2>3
  <2>5. \A u, v \in Workers : Refreshes(u, s)' /\ Refreshes(v, s)' => u = v
    BY <1>1, <1>4 DEF Replacing
  <2>6. session'[s].kids <= 1 /\ (session'[s].kids = 1 => Missing(s)' <= faults')
    BY <1>4, <2>1 DEF Replacing
  <2> QED  BY <2>4, <2>5, <2>6 DEF Replacing
<1> QED  BY <1>1, <1>4 DEF Replaced

\* No session was replaced, and whoever refreshes one did so before.
LEMMA ReplacedKept ==
  ASSUME Sizes, TypeOK, Replaced, NEW w \in Workers, Moved(w), faults' \in Nat, faults' >= faults,
         \A s \in SessionIds :
           /\ session'[s].kids = session[s].kids /\ session'[s].raced = session[s].raced
           /\ session[s].st # "none" => session'[s].st # "none"
           /\ session[s].st = "revoked" => session'[s].st = "revoked"
           /\ session[s].black => session'[s].black,
         \A s \in SessionIds : Refreshes(w, s)' => Refreshes(w, s) /\ job'[w].pc = job[w].pc
  PROVE  Replaced'
<1>1. ASSUME NEW s \in SessionIds, Refreshes(w, s)', Replacing(s) PROVE Replaces(w, s)'
  <2>1. Replaces(w, s) /\ job'[w].pc = job[w].pc
    BY <1>1 DEF Replacing
  <2>2. faults \in Nat
    BY DEF TypeOK, Sizes
  <2>3. Missing(s)' <= Missing(s) /\ Missing(s) \in Nat /\ Missing(s)' \in Nat
    BY DEF Missing
  <2>4. (Missing(s) <= faults => Missing(s)' <= faults') /\ (faults > 0 => faults' > 0)
    BY <2>2, <2>3
  <2> QED  BY <2>1, <2>4 DEF Replaces
<1> QED  BY <1>1, ReplacedStep

\* No token was redeemed, and whoever redeems one did so before.
LEMMA RedeemedKept ==
  ASSUME Redeemed, NEW w \in Workers, Moved(w),
         \A t \in TokenIds :
           /\ token'[t].uses = token[t].uses /\ token'[t].raced = token[t].raced
           /\ token[t].st # "none" => token'[t].st # "none"
           /\ token'[t].st \in {"none", "live"} => token'[t].st = token[t].st,
         \A t \in TokenIds : Redeems(w, t)' => Redeems(w, t)
  PROVE  Redeemed'
<1>1. ASSUME NEW v \in Workers, NEW t \in TokenIds, Redeems(v, t)' PROVE Redeems(v, t)
  BY <1>1 DEF Moved, Like, Redeems
<1> QED  BY <1>1 DEF Redeemed, Redeeming

\* No token was issued, and whoever issues one did so before.
LEMMA IssuedKept ==
  ASSUME Issued, NEW w \in Workers, Moved(w),
         \A t \in TokenIds : token'[t].st = "live" =>
           /\ token[t].st = "live" /\ token'[t].kind = token[t].kind
           /\ token[t].raced => token'[t].raced,
         \A k \in {"verify", "reset"} : Issues(w, k)' =>
           /\ Issues(w, k) /\ job'[w].pc = job[w].pc /\ (job[w].raced => job'[w].raced)
  PROVE  Issued'
<1>1. ASSUME NEW v \in Workers, NEW k \in {"verify", "reset"}, Issues(v, k)'
      PROVE  Issues(v, k) /\ job'[v].pc = job[v].pc /\ (job[v].raced => job'[v].raced)
  BY <1>1 DEF Moved, Like, Issues
<1>2. \A t, u \in TokenIds : /\ token'[t].st = "live" /\ token'[u].st = "live"
                             /\ token'[t].kind = token'[u].kind
                             /\ ~token'[t].raced /\ ~token'[u].raced
                             => t = u
  BY DEF Issued
<1>3. ASSUME NEW v \in Workers, NEW k \in {"verify", "reset"}, Issues(v, k)', ~job'[v].raced
      PROVE  /\ \A x \in Workers : Issues(x, k)' => x = v
             /\ job'[v].pc = "issue" =>
                  \A t \in TokenIds : token'[t].st = "live" => token'[t].kind # k
  BY <1>1, <1>3 DEF Issued
<1> QED  BY <1>2, <1>3 DEF Issued

\* The copy that a request has just read, and the one it goes on with.
LEMMA FreshCopy ==
  ASSUME AccountsInv, NEW w \in Workers, UNCHANGED user, past'.row = past.row,
         past'.lost = past.lost, past'.wrong = past.wrong, job'[w].user = user,
         job'[w].pw \in {user.pw, past.row.pw} \/ job'[w].late
  PROVE  CopyOK(job[w])'
<1>1. Counts(user)'
  BY RowCounts DEF Counts
<1>2. Counts(job[w].user)'
  BY <1>1 DEF Counts
<1> QED  BY RowCounts, <1>2 DEF CopyOK

LEMMA CopyGoesOn ==
  ASSUME AccountsInv, NEW w \in Workers, UNCHANGED user, past'.row = past.row,
         past'.lost = past.lost, past'.wrong = past.wrong, job'[w].user = job[w].user,
         Busy(job[w]), job'[w].alone => job[w].alone,
         \/ job'[w].pw = job[w].pw /\ (job[w].late => job'[w].late)
         \/ job'[w].pw = past.row.pw \/ job'[w].late
  PROVE  CopyOK(job[w])'
<1>1. CopyOK(job[w])
  BY DEF AccountsInv, Rowed
<1> QED  BY <1>1 DEF CopyOK, Counts

\* A request that is over has no copy.
LEMMA NoCopy ==
  ASSUME Sizes, TypeOK', NEW w \in Workers, job'[w] = Idle
  PROVE  CopyOK(job[w])'
<1>1. NewUser.failed = 0 /\ NewUser.lock = 0
  BY DEF NewUser
<1>2. past'.wrong \in Nat
  BY DEF TypeOK, Past
<1>3. Counts(NewUser)'
  BY <1>1, <1>2 DEF Counts, NewUser
<1>4. Counts(job[w].user)' /\ ~Busy(job[w])'
  BY <1>3, IdleOK DEF Counts, Busy
<1> QED  BY <1>4 DEF CopyOK

\* A step that changes nothing but what its request knows.
LEMMA OnlyJobs ==
  ASSUME Sizes, AccountsInv, NEW w \in Workers, TypeOK', Moved(w), JobOK(job'[w]),
         CopyOK(job[w])', UNCHANGED <<user, session, token>>, faults' >= faults,
         past'.row = past.row, past'.lost = past.lost, past'.wrong = past.wrong,
         past.unsigned => past'.unsigned,
         job[w].pc = "revokeall" => past'.unsigned \/ job'[w].pc = "revokeall",
         \A s \in SessionIds : Refreshes(w, s)' => Refreshes(w, s) /\ job'[w].pc = job[w].pc,
         \A t \in TokenIds : Redeems(w, t)' => Redeems(w, t),
         \A k \in {"verify", "reset"} : Issues(w, k)' =>
           Issues(w, k) /\ job'[w].pc = job[w].pc /\ (job[w].raced => job'[w].raced)
  PROVE  AccountsInv'
<1>1. TypeOK /\ JobsOK /\ Rowed /\ Replaced /\ Redeemed /\ Issued
  BY DEF AccountsInv
<1>2. JobsOK'
  BY <1>1, JobsKept
<1>3. session' \in [SessionIds -> Session] /\ faults' \in Nat
  BY DEF TypeOK, Sizes
<1>4. Rowed'
  BY <1>1, <1>3, RowKept
<1>5. Replaced'
  BY <1>1, <1>3, ReplacedKept
<1>6. Redeemed'
  BY <1>1, RedeemedKept
<1>7. Issued'
  BY <1>1, IssuedKept
<1> QED  BY <1>2, <1>4, <1>5, <1>6, <1>7 DEF AccountsInv

\* A step of the clock.
LEMMA OnlyTime ==
  ASSUME AccountsInv, UNCHANGED <<user, session, token, job, requests, faults, past>>,
         tickets' \subseteq Nat, expired' \in Nat
  PROVE  AccountsInv'
<1>1. TypeOK'
  BY DEF AccountsInv, TypeOK
<1>2. JobsOK'
  BY DEF AccountsInv, JobsOK
<1>3. Rowed'
  BY DEF AccountsInv, Rowed, NoLostChange, NeverLockedTooEarly, SessionsOfToday, Live, CopyOK, Counts
<1>4. Replaced'
  BY DEF AccountsInv, Replaced, Replacing, Replaces, Missing, Refreshes
<1>5. Redeemed'
  BY DEF AccountsInv, Redeemed, Redeeming, Redeems
<1>6. Issued'
  BY DEF AccountsInv, Issued, Issues
<1> QED  BY <1>1, <1>2, <1>3, <1>4, <1>5, <1>6 DEF AccountsInv

\* A request begins with the row as it is, to log in, to be counted or to edit the row.
LEMMA Fresh ==
  ASSUME Sizes, AccountsInv, NEW w \in Workers, NEW j \in Job, Request(w), Step(w, j),
         j.pc \in {"session", "save"}, j.session = 0, j.user = user,
         j.pw = user.pw \/ j.late, j.pc = "session" => j.change = "success",
         UNCHANGED <<user, session, token, tickets, expired, faults, past>>
  PROVE  AccountsInv'
<1>1. /\ job' \in [Workers -> Job] /\ job'[w] = j /\ Moved(w)
  BY StepMoves DEF AccountsInv
<1>2. TypeOK'
  BY <1>1 DEF AccountsInv, TypeOK, Request, Sizes
<1>3. JobOK(j) /\ job[w].pc = "idle"
  BY DEF JobOK, Request
<1>4. CopyOK(job[w])'
  BY <1>1, FreshCopy
<1>5. \A s \in SessionIds : ~Refreshes(w, s)'
  BY <1>1, Typed DEF Refreshes
<1>6. faults' >= faults
  BY DEF AccountsInv, TypeOK
<1>7. ~(j.pc \in {"readuser", "mark", "invalidate", "issue"})
  OBVIOUS
<1> QED  BY <1>1, <1>2, <1>3, <1>4, <1>5, <1>6, <1>7, OnlyJobs DEF Redeems, Issues

-----------------------------------------------------------------------------
(* Logging in, edits and crashes.                                          *)

LEMMA LoginInv ==
  ASSUME Sizes, AccountsInv, NEW w \in Workers, NEW right \in BOOLEAN, Login(w, right)
  PROVE  AccountsInv'
<1>1. Request(w) /\ UNCHANGED <<user, session, token, expired, faults, past>>
  BY DEF Login
<1>2. "save" \in {"session", "save"} /\ "session" \in {"session", "save"}
  OBVIOUS
<1>3. "failed" \in Changes /\ "success" \in Changes
  BY DEF Changes
<1>4. CASE ~right
  <2>1. PICK j : j = Begin(w, "save", "failed")
    OBVIOUS
  <2>2. Step(w, j) /\ UNCHANGED tickets
    BY <1>4, <2>1 DEF Login
  <2> QED  BY <1>1, <1>3, <2>1, <2>2, Begins, Fresh
<1>5. CASE right /\ user.mfa = "on"
  <2>1. tickets' = tickets \cup {user.pw} /\ UNCHANGED job
    BY <1>5 DEF Login
  <2>2. TypeOK /\ user.pw \in Nat /\ requests' \in 0 .. MaxRequests
    BY <1>1 DEF AccountsInv, TypeOK, User, Request, Sizes
  <2>3. TypeOK'
    BY <1>1, <2>1, <2>2 DEF TypeOK
  <2>4. Moved(w) /\ job'[w] = job[w]
    BY <2>1 DEF Moved, Like
  <2>5. CopyOK(job[w])'
    BY <1>1, <2>1, JobAt DEF CopyOK, Counts
  <2>6. faults' >= faults
    BY <1>1 DEF AccountsInv, TypeOK
  <2>7. JobOK(job'[w]) /\ job[w].pc = "idle"
    BY <1>1, <2>1, JobAt DEF Request
  <2>8. /\ \A s \in SessionIds : ~Refreshes(w, s)'
        /\ \A t \in TokenIds : ~Redeems(w, t)'
        /\ \A k \in {"verify", "reset"} : ~Issues(w, k)'
    BY <2>1, <2>7 DEF Refreshes, Redeems, Issues
  <2> QED  BY <1>1, <2>3, <2>4, <2>5, <2>6, <2>7, <2>8, OnlyJobs
<1>6. CASE right /\ user.mfa # "on"
  <2>1. PICK j : j = Begin(w, "session", "success")
    OBVIOUS
  <2>2. Step(w, j) /\ UNCHANGED tickets
    BY <1>6, <2>1 DEF Login
  <2> QED  BY <1>1, <1>3, <2>1, <2>2, Begins, Fresh
<1> QED  BY <1>4, <1>5, <1>6

\* Whoever has the ticket of a login before the password changed is late.
LEMMA VerifyMFALoginInv ==
  ASSUME Sizes, AccountsInv, NEW w \in Workers, NEW pw \in tickets,
         NEW code \in Codes \cup {"totp", "wrong"}, VerifyMFALogin(w, pw, code)
  PROVE  AccountsInv'
<1>1. Request(w) /\ UNCHANGED <<user, session, token, tickets, expired, faults, past>>
  BY DEF VerifyMFALogin
<1>2. /\ "failed" \in Changes /\ "success" \in Changes /\ "code" \in Changes
      /\ "save" \in {"session", "save", "invalidate", "readuser", "find", "logout"}
      /\ "session" \in {"session", "save", "invalidate", "readuser", "find", "logout"}
  BY DEF Changes
<1>3. PICK pc \in {"session", "save"}, change \in {"success", "code", "failed"} :
        /\ pc = "session" => change = "success"
        /\ Begin(w, pc, change) = CASE code = "totp" -> Begin(w, "session", "success")
                                    [] code \in user.codes -> Begin(w, "save", "code")
                                    [] OTHER -> Begin(w, "save", "failed")
        /\ Step(w, [Begin(w, pc, change)
                    EXCEPT !.pw = pw, !.late = pw # user.pw,
                           !.code = IF code \in user.codes THEN code ELSE "none"])
  <2>1. CASE code = "totp" /\ code \notin user.codes
    BY <2>1 DEF VerifyMFALogin
  <2>2. CASE code # "totp" /\ code \in user.codes
    BY <2>2 DEF VerifyMFALogin
  <2>3. CASE code # "totp" /\ code \notin user.codes
    BY <2>3 DEF VerifyMFALogin
  <2>4. CASE code = "totp" /\ code \in user.codes
    <3>1. \/ (CASE code = "totp" -> Begin(w, "session", "success")
                [] code \in user.codes -> Begin(w, "save", "code")
                [] OTHER -> Begin(w, "save", "failed")) = Begin(w, "session", "success")
          \/ (CASE code = "totp" -> Begin(w, "session", "success")
                [] code \in user.codes -> Begin(w, "save", "code")
                [] OTHER -> Begin(w, "save", "failed")) = Begin(w, "save", "code")
      BY <2>4
    <3> QED  BY <3>1 DEF VerifyMFALogin
  <2> QED  BY <2>1, <2>2, <2>3, <2>4
<1>4. PICK b : b = Begin(w, pc, change)
  OBVIOUS
<1>5. /\ b \in Job /\ b.pc = pc /\ b.change = change /\ b.session = 0 /\ b.user = user
  BY <1>2, <1>4, Begins
<1>6. PICK late \in BOOLEAN : late = (pw # user.pw)
  OBVIOUS
<1>7. PICK c \in Codes \cup {"none"} : c = IF code \in user.codes THEN code ELSE "none"
  <2>1. user.codes \subseteq Codes
    BY DEF AccountsInv, TypeOK, User
  <2> QED  BY <2>1
<1>8. pw \in Nat
  BY DEF AccountsInv, TypeOK
<1>9. PICK j : j = [b EXCEPT !.pw = pw, !.late = late, !.code = c]
  OBVIOUS
<1>10. j \in Job
  BY <1>5, <1>8, <1>9 DEF Job
<1>11. /\ j.pc = pc /\ j.change = change /\ j.session = 0 /\ j.user = user
       /\ j.pw = pw /\ j.late = late
  BY <1>5, <1>9 DEF Job
<1>12. Step(w, j)
  BY <1>3, <1>4, <1>6, <1>7, <1>9
<1> QED  BY <1>1, <1>3, <1>6, <1>10, <1>11, <1>12, Fresh

LEMMA EditInv ==
  ASSUME Sizes, AccountsInv, NEW w \in Workers,
         NEW change \in {"change", "profile", "enroll", "confirm", "mfaoff"}, Edit(w, change)
  PROVE  AccountsInv'
<1>1. PICK j : j = Begin(w, "save", change)
  OBVIOUS
<1>2. change \in Changes
  BY DEF Changes
<1>3. j \in Job /\ j.pc = "save" /\ j.session = 0 /\ j.user = user /\ j.pw = user.pw
  BY <1>1, <1>2, Begins
<1> QED  BY <1>1, <1>3, Fresh DEF Edit

LEMMA ReadUserInv ==
  ASSUME Sizes, AccountsInv, NEW w \in Workers, ReadUser(w)
  PROVE  AccountsInv'
<1> DEFINE r == job[w]
<1>1. /\ r.pc = "readuser" /\ TypeOK /\ r \in Job /\ JobOK(r) /\ CopyOK(r) /\ user \in User
      /\ UNCHANGED <<user, session, token, tickets, expired, requests, faults, past>>
  BY JobAt DEF ReadUser
<1>2. PICK j : j = [r EXCEPT !.pc = "mark", !.user = user, !.alone = TRUE]
  OBVIOUS
<1>3. j \in Job
  BY <1>1, <1>2 DEF Job
<1>4. /\ j.pc = "mark" /\ j.user = user /\ j.session = r.session /\ j.token = r.token
      /\ j.pw = r.pw /\ j.late = r.late
  BY <1>1, <1>2 DEF Job
<1>5. Step(w, j)
  BY <1>2 DEF ReadUser
<1>6. job' \in [Workers -> Job] /\ job'[w] = j /\ Moved(w)
  BY <1>1, <1>3, <1>5, StepMoves
<1>7. TypeOK' /\ faults' >= faults
  BY <1>1, <1>6 DEF TypeOK
<1>8. JobOK(j)
  BY <1>1, <1>4 DEF JobOK
<1>9. CopyOK(job[w])'
  <2>1. Counts(job[w].user)'
    BY <1>1, <1>4, <1>6, RowCounts DEF Counts
  <2> QED  BY <1>1, <1>4, <1>6, <2>1 DEF CopyOK, Busy
<1>10. \A s \in SessionIds : ~Refreshes(w, s)'
  BY <1>4, <1>6 DEF Refreshes
<1>11. \A t \in TokenIds : Redeems(w, t)' => Redeems(w, t)
  BY <1>1, <1>4, <1>6 DEF Redeems
<1>12. \A k \in {"verify", "reset"} : ~Issues(w, k)'
  BY <1>4, <1>6 DEF Issues
<1> QED  BY <1>1, <1>6, <1>7, <1>8, <1>9, <1>10, <1>11, <1>12, OnlyJobs

\* A request that ends.
LEMMA EndsOK ==
  ASSUME Sizes, NEW w \in Workers, job'[w] = Idle
  PROVE  /\ JobOK(job'[w]) /\ job'[w].pc = "idle"
         /\ \A s \in SessionIds : ~Refreshes(w, s)'
         /\ \A t \in TokenIds : ~Redeems(w, t)'
         /\ \A k \in {"verify", "reset"} : ~Issues(w, k)'
  BY IdleOK DEF Refreshes, Redeems, Issues

LEMMA CrashInv ==
  ASSUME Sizes, AccountsInv, NEW w \in Workers, Crash(w)
  PROVE  AccountsInv'
<1>1. /\ Step(w, Idle) /\ Ignored(TRUE) /\ TypeOK /\ past \in Past
      /\ UNCHANGED <<user, session, token, tickets, expired, requests>>
      /\ past' = [past EXCEPT !.unsigned = @ \/ job[w].pc = "revokeall"]
  BY JobAt DEF Crash
<1>2. job' \in [Workers -> Job] /\ job'[w] = Idle /\ Moved(w)
  BY <1>1, Typed, StepMoves
<1>3. faults' \in 0 .. MaxFaults /\ faults' >= faults
  BY <1>1, FaultTyped
<1>4. PICK b \in BOOLEAN : b = (past.unsigned \/ job[w].pc = "revokeall")
  OBVIOUS
<1>5. past' = [past EXCEPT !.unsigned = b]
  BY <1>1, <1>4
<1>6. /\ past' \in Past /\ past'.row = past.row /\ past'.lost = past.lost
      /\ past'.wrong = past.wrong /\ past'.unsigned = b
  BY <1>1, <1>5 DEF Past
<1>7. TypeOK'
  BY <1>1, <1>2, <1>3, <1>6 DEF TypeOK
<1>8. CopyOK(job[w])'
  BY <1>2, <1>7, NoCopy
<1> QED  BY <1>1, <1>2, <1>3, <1>4, <1>6, <1>7, <1>8, EndsOK, OnlyJobs

LEMMA TimeInv ==
  ASSUME Sizes, AccountsInv, \/ UNCHANGED vars \/ LockExpires \/ \E pw \in tickets : TicketExpires(pw)
  PROVE  AccountsInv'
<1>1. tickets \subseteq Nat /\ expired \in Nat
  BY DEF AccountsInv, TypeOK
<1>2. CASE UNCHANGED vars
  BY <1>1, <1>2, OnlyTime DEF vars
<1>3. CASE LockExpires
  BY <1>1, <1>3, OnlyTime DEF LockExpires
<1>4. CASE \E pw \in tickets : TicketExpires(pw)
  BY <1>1, <1>4, OnlyTime DEF TicketExpires
<1> QED  BY <1>2, <1>3, <1>4

-----------------------------------------------------------------------------
(* Saving the row.                                                         *)

\* A row with another counter, another lock and another password.
LEMMA Recorded ==
  ASSUME NEW u \in User, NEW p \in Nat, NEW f \in Nat, NEW l \in Nat
  PROVE  LET a == [pw |-> p, failed |-> f, lock |-> l, verified |-> u.verified, mfa |-> u.mfa,
                   codes |-> u.codes]
         IN  a \in User /\ a.pw = p /\ a.failed = f /\ a.lock = l
<1>1. u.verified \in BOOLEAN /\ u.mfa \in {"off", "pending", "on"} /\ u.codes \in SUBSET Codes
  BY DEF User
<1> QED  BY <1>1 DEF User

\* Only resets and changes touch the password, only a failure counts, and a lock is set
\* by the last of MaxFailed.
LEMMA AppliedIs ==
  ASSUME Sizes, NEW j \in Job, NEW u \in User, past \in Past, NEW a, a = Applied(j, u)
  PROVE  /\ a \in User
         /\ j.change \notin {"reset", "change"} => a.pw = u.pw
         /\ j.change # "failed" => a.failed <= u.failed /\ a.lock \in {0, u.lock}
         /\ j.change = "failed" =>
              /\ a.failed = u.failed + 1
              /\ a.lock = u.lock \/ u.failed + 1 >= MaxFailed
<1>1. /\ past.row.pw \in Nat /\ past.locks \in Nat /\ u.failed \in Nat /\ u.lock \in Nat
      /\ u.pw \in Nat /\ u.codes \subseteq Codes
  BY DEF Past, User
<1>2. CASE j.change = "failed"
  <2>1. a = Failed(u)
    BY <1>2 DEF Applied
  <2>2. PICK l \in Nat : l = IF u.failed + 1 >= MaxFailed THEN past.locks + 1 ELSE u.lock
    BY <1>1
  <2>3. a = [pw |-> u.pw, failed |-> u.failed + 1, lock |-> l, verified |-> u.verified,
           mfa |-> u.mfa, codes |-> u.codes]
    BY <2>1, <2>2 DEF Failed, User
  <2>4. a \in User /\ a.pw = u.pw /\ a.failed = u.failed + 1 /\ a.lock = l
    BY <1>1, <2>3, Recorded
  <2> QED  BY <1>2, <2>2, <2>4
<1>3. CASE j.change = "success"
  <2>1. a = [pw |-> u.pw, failed |-> 0, lock |-> 0, verified |-> u.verified,
           mfa |-> u.mfa, codes |-> u.codes]
    BY <1>3 DEF Applied, User
  <2>2. a \in User /\ a.failed = 0 /\ a.lock = 0 /\ a.pw = u.pw
    BY <1>1, <2>1, Recorded
  <2> QED  BY <1>1, <1>3, <2>2
<1>4. CASE j.change = "code"
  <2>1. PICK c \in SUBSET Codes : c = u.codes \ {j.code}
    BY <1>1
  <2>2. a = [u EXCEPT !.codes = c]
    BY <1>4, <2>1 DEF Applied
  <2>3. a \in User /\ a.failed = u.failed /\ a.lock = u.lock /\ a.pw = u.pw
    BY <2>2 DEF User
  <2> QED  BY <1>1, <1>4, <2>3
<1>5. CASE j.change = "reset"
  <2>1. a = [pw |-> past.row.pw + 1, failed |-> 0, lock |-> 0, verified |-> u.verified,
           mfa |-> u.mfa, codes |-> u.codes]
    BY <1>5 DEF Applied, User
  <2>2. a \in User /\ a.failed = 0 /\ a.lock = 0
    BY <1>1, <2>1, Recorded
  <2> QED  BY <1>1, <1>5, <2>2
<1>6. CASE j.change = "change"
  <2>1. a = [u EXCEPT !.pw = past.row.pw + 1]
    BY <1>6 DEF Applied
  <2>2. a \in User /\ a.failed = u.failed /\ a.lock = u.lock
    BY <1>1, <2>1 DEF User
  <2> QED  BY <1>1, <1>6, <2>2
<1>7. CASE j.change = "verify"
  <2>1. a = [u EXCEPT !.verified = TRUE]
    BY <1>7 DEF Applied
  <2>2. a \in User /\ a.failed = u.failed /\ a.lock = u.lock /\ a.pw = u.pw
    BY <2>1 DEF User
  <2> QED  BY <1>1, <1>7, <2>2
<1>8. CASE j.change \in {"enroll", "confirm", "mfaoff"}
  <2>1. PICK m \in {"off", "pending", "on"}, c \in SUBSET Codes : a = [u EXCEPT !.mfa = m, !.codes = c]
    <3>1. CASE j.change = "enroll"
      <4>1. a = [u EXCEPT !.mfa = "pending", !.codes = Codes]
        BY <3>1 DEF Applied
      <4> QED  BY <4>1
    <3>2. CASE j.change = "confirm"
      <4>1. a = [u EXCEPT !.mfa = "on"]
        BY <3>2 DEF Applied
      <4>2. a = [u EXCEPT !.mfa = "on", !.codes = u.codes]
        BY <4>1 DEF User
      <4> QED  BY <1>1, <4>2
    <3>3. CASE j.change = "mfaoff"
      <4>1. a = [u EXCEPT !.mfa = "off", !.codes = {}]
        BY <3>3 DEF Applied
      <4> QED  BY <4>1
    <3> QED  BY <1>8, <3>1, <3>2, <3>3
  <2>2. a \in User /\ a.failed = u.failed /\ a.lock = u.lock /\ a.pw = u.pw
    BY <2>1 DEF User
  <2> QED  BY <1>1, <1>8, <2>2
<1>9. CASE j.change \in {"none", "profile"}
  <2>1. a = u
    BY <1>9 DEF Applied
  <2> QED  BY <1>1, <1>9, <2>1
<1>10. j.change \in Changes
  BY DEF Job
<1> QED  BY <1>2, <1>3, <1>4, <1>5, <1>6, <1>7, <1>8, <1>9, <1>10 DEF Changes

\* A save counts what its copy had counted, and one failure at most.
LEMMA SavedCounts ==
  ASSUME Sizes, NEW j \in Job, NEW u \in User, past \in Past, Counts(u), NEW a, a = Applied(j, u),
         past'.wrong = IF j.change = "failed" THEN past.wrong + 1 ELSE past.wrong
  PROVE  Counts(a)'
<1>1. past.wrong \in Nat /\ u.failed \in Nat /\ MaxFailed \in Nat
  BY DEF Past, User, Sizes
<1>2. a.failed \in Nat
  BY AppliedIs DEF User
<1>3. CASE j.change = "failed"
  <2>1. a.failed = u.failed + 1 /\ (a.lock = u.lock \/ u.failed + 1 >= MaxFailed)
    BY <1>3, AppliedIs
  <2>2. past'.wrong = past.wrong + 1
    BY <1>3
  <2> QED  BY <1>1, <2>1, <2>2 DEF Counts
<1>4. CASE j.change # "failed"
  <2>1. a.failed <= u.failed /\ a.lock \in {0, u.lock} /\ past'.wrong = past.wrong
    BY <1>4, AppliedIs
  <2> QED  BY <1>1, <1>2, <2>1 DEF Counts
<1> QED  BY <1>3, <1>4

\* What a request goes on with once its copy is saved, as u.
LEMMA AfterSaveIs ==
  ASSUME Sizes, AccountsInv, NEW w \in Workers, job[w].pc = "save", user' \in User,
         NEW n, n = AfterSave(job[w])
  PROVE  /\ n \in Job /\ JobOK(n)
         /\ \/ job[w].change = "code" /\ n.pc = "session" /\ n.session = 0 /\ n.user = user'
               /\ n.pw = job[w].pw /\ n.late = job[w].late
            \/ job[w].change \in {"reset", "change"} /\ n.pc = "revokeall" /\ n.user = job[w].user
            \/ job[w].change \notin {"reset", "change"} /\ n = Idle
<1> DEFINE j == job[w]
<1>1. j \in Job /\ JobOK(j)
  BY JobAt
<1>2. CASE j.change = "code"
  <2>1. PICK u \in User : u = user'
    OBVIOUS
  <2>2. n = [j EXCEPT !.pc = "session", !.change = "success", !.user = u]
    BY <1>2, <2>1 DEF AfterSave
  <2>3. n \in Job
    BY <1>1, <2>2 DEF Job, Changes
  <2>4. /\ n.pc = "session" /\ n.change = "success" /\ n.session = j.session /\ n.user = u
        /\ n.pw = j.pw /\ n.late = j.late
    BY <1>1, <2>2 DEF Job
  <2>5. n.session = 0
    BY <1>1, <2>4 DEF JobOK
  <2> QED  BY <1>2, <2>1, <2>3, <2>4, <2>5 DEF JobOK
<1>3. CASE j.change \in {"reset", "change"}
  <2>1. n = [j EXCEPT !.pc = "revokeall"]
    BY <1>3 DEF AfterSave
  <2>2. n \in Job /\ n.pc = "revokeall" /\ n.user = j.user
    BY <1>1, <2>1 DEF Job
  <2> QED  BY <1>3, <2>2 DEF JobOK
<1>4. CASE j.change \notin {"code", "reset", "change"}
  <2>1. n = Idle
    BY <1>4 DEF AfterSave
  <2> QED  BY <1>4, <2>1, Typed, IdleOK
<1> QED  BY <1>2, <1>3, <1>4

LEMMA SaveUserInv ==
  ASSUME Sizes, AccountsInv, NEW w \in Workers, SaveUser(w)
  PROVE  AccountsInv'
<1> DEFINE r == job[w]
<1>1. /\ r.pc = "save" /\ TypeOK /\ r \in Job /\ JobOK(r) /\ CopyOK(r) /\ user \in User
      /\ past \in Past /\ r.user \in User
      /\ UNCHANGED <<session, token, tickets, expired, requests, faults>>
  BY JobAt DEF SaveUser, Job
<1>2. PICK a : a = Applied(r, r.user)
  OBVIOUS
<1>3. PICK b : b = Applied(r, past.row)
  OBVIOUS
<1>4. past.row \in User /\ past.lost \in BOOLEAN /\ past.wrong \in Nat /\ past.locks \in Nat
  BY <1>1 DEF Past
<1>5. a \in User /\ user' = a
  BY <1>1, <1>2, AppliedIs DEF SaveUser
<1>6. /\ b \in User
      /\ r.change \notin {"reset", "change"} => b.pw = past.row.pw
  BY <1>1, <1>3, <1>4, AppliedIs
<1>7. PICK lost \in BOOLEAN : lost = (past.lost \/ ~r.alone)
  OBVIOUS
<1>8. PICK wrong \in Nat : wrong = IF r.change = "failed" THEN past.wrong + 1 ELSE past.wrong
  BY <1>4
<1>9. PICK locks \in Nat : locks = IF a.lock > past.locks THEN past.locks + 1 ELSE past.locks
  BY <1>4
<1>10. past' = [past EXCEPT !.row = b, !.lost = lost, !.wrong = wrong, !.locks = locks]
  BY <1>3, <1>5, <1>7, <1>8, <1>9 DEF SaveUser
<1>11. past' \in Past
  BY <1>1, <1>6, <1>10 DEF Past
<1>12. /\ past'.row = b /\ past'.lost = lost /\ past'.wrong = wrong
       /\ past'.unsigned = past.unsigned
  BY <1>1, <1>10 DEF Past
<1>13. PICK n : n = AfterSave(r)
  OBVIOUS
<1>14. /\ n \in Job /\ JobOK(n)
       /\ \/ r.change = "code" /\ n.pc = "session" /\ n.session = 0 /\ n.user = a
             /\ n.pw = r.pw /\ n.late = r.late
          \/ r.change \in {"reset", "change"} /\ n.pc = "revokeall" /\ n.user = r.user
          \/ r.change \notin {"reset", "change"} /\ n = Idle
  BY <1>1, <1>5, <1>13, AfterSaveIs
<1>15. PICK d \in BOOLEAN : d = (user' # user)
  OBVIOUS
<1>16. PICK l \in BOOLEAN : l <=> r.change \in {"reset", "change"}
  <2>1. CASE r.change \in {"reset", "change"}
    BY <2>1
  <2>2. CASE r.change \notin {"reset", "change"}
    BY <2>2
  <2> QED  BY <2>1, <2>2
<1>17. Others(w, n, d, l)
  <2>1. (r.change \in {"reset", "change"}) \in BOOLEAN
    OBVIOUS
  <2>2. l = (r.change \in {"reset", "change"})
    BY <1>16, <2>1
  <2> QED  BY <1>13, <1>15, <2>2 DEF SaveUser
<1>18. /\ job' \in [Workers -> Job] /\ job'[w] = n /\ Moved(w)
       /\ \A v \in Workers : v # w /\ job[v].pc # "idle" =>
            (d => ~job'[v].alone) /\ (l => job'[v].late)
  BY <1>1, <1>14, <1>17, OthersMove
<1>19. TypeOK'
  BY <1>1, <1>5, <1>11, <1>18 DEF TypeOK
<1>20. JobsOK'
  BY <1>14, <1>18, JobsKept DEF AccountsInv
<1>21. Counts(a)'
  BY <1>1, <1>2, <1>8, <1>12, SavedCounts DEF CopyOK
<1>22. \A u \in User : Counts(u) => Counts(u)'
  <2>1. wrong >= past.wrong /\ MaxFailed \in Nat
    BY <1>4, <1>8 DEF Sizes
  <2> QED  BY <1>4, <1>12, <2>1 DEF Counts, User
<1>23. Rowed'
  <2>1. NoLostChange'
    <3>1. SUFFICES ASSUME ~lost PROVE user' = b
      BY <1>12 DEF NoLostChange
    <3>2. r.user = past.row
      BY <1>1, <1>7, <3>1 DEF CopyOK, Busy, AccountsInv, Rowed, NoLostChange
    <3> QED  BY <1>2, <1>3, <1>5, <3>2
  <2>2. NeverLockedTooEarly'
    BY <1>5, <1>21 DEF Counts, NeverLockedTooEarly
  <2>3. SessionsOfToday'
    <3>1. CASE r.change \in {"reset", "change"}
      <4>1. job'[w].pc = "revokeall"
        BY <1>14, <1>18, <3>1
      <4> QED  BY <4>1 DEF SessionsOfToday
    <3>2. CASE r.change \notin {"reset", "change"}
      <4>1. past'.row.pw = past.row.pw
        BY <1>6, <1>12, <3>2
      <4>2. \A v \in Workers : job[v].pc = "revokeall" => job'[v].pc = "revokeall"
        BY <1>1, <1>18 DEF Moved, Like
      <4>3. past.lost => past'.lost
        BY <1>7, <1>12
      <4> QED  BY <1>1, <1>12, <4>1, <4>2, <4>3 DEF AccountsInv, Rowed, SessionsOfToday, Live
    <3> QED  BY <3>1, <3>2
  <2>4. ASSUME NEW v \in Workers, v # w PROVE CopyOK(job[v])'
    <3>1. CopyOK(job[v]) /\ Like(job[v], job'[v]) /\ job[v].user \in User
      BY <1>1, <1>18, <2>4 DEF AccountsInv, Rowed, Moved, TypeOK, Job
    <3>2. Counts(job[v].user)'
      BY <1>22, <3>1 DEF CopyOK, Like, Counts
    <3>3. ASSUME ~past'.lost, Busy(job'[v])
          PROVE  (job'[v].alone => job'[v].user = user') /\ (job'[v].pw = b.pw \/ job'[v].late)
      <4>1. ~past.lost /\ Busy(job[v]) /\ job[v].pc # "idle"
        BY <1>7, <1>12, <3>1, <3>3 DEF Busy, Like
      <4>2. (job[v].alone => job[v].user = user) /\ (job[v].pw = past.row.pw \/ job[v].late)
        BY <3>1, <4>1 DEF CopyOK
      <4>3. job'[v].alone => job'[v].user = user'
        BY <1>15, <1>18, <2>4, <3>1, <4>1, <4>2 DEF Like
      <4>4. job'[v].pw = b.pw \/ job'[v].late
        BY <1>6, <1>16, <1>18, <2>4, <3>1, <4>1, <4>2 DEF Like
      <4> QED  BY <4>3, <4>4
    <3> QED  BY <1>12, <3>2, <3>3 DEF CopyOK, Busy
  <2>5. CopyOK(job[w])'
    <3>1. CASE /\ r.change = "code" /\ n.pc = "session" /\ n.session = 0 /\ n.user = a
               /\ n.pw = r.pw /\ n.late = r.late
      <4>1. Counts(job[w].user)'
        BY <1>18, <1>21, <3>1 DEF Counts
      <4>2. ~past'.lost => n.pw = b.pw \/ n.late
        BY <1>1, <1>6, <1>7, <1>12, <3>1 DEF CopyOK, Busy
      <4> QED  BY <1>5, <1>12, <1>18, <3>1, <4>1, <4>2 DEF CopyOK
    <3>2. CASE n.pc = "revokeall" /\ n.user = r.user
      <4>1. Counts(job[w].user)' /\ ~Busy(job[w])'
        BY <1>1, <1>18, <1>22, <3>2 DEF Counts, CopyOK, Busy
      <4> QED  BY <4>1 DEF CopyOK
    <3>3. CASE n = Idle
      BY <1>18, <1>19, <3>3, NoCopy
    <3> QED  BY <1>14, <3>1, <3>2, <3>3
  <2> QED  BY <2>1, <2>2, <2>3, <2>4, <2>5 DEF Rowed
<1>24. /\ \A s \in SessionIds : ~Refreshes(w, s)'
       /\ \A t \in TokenIds : ~Redeems(w, t)'
       /\ \A k \in {"verify", "reset"} : ~Issues(w, k)'
  <2>1. n.pc \in {"idle", "revokeall"} \/ (n.pc = "session" /\ n.session = 0)
    BY <1>14, IdleOK
  <2> QED  BY <1>18, <2>1, Typed DEF Refreshes, Redeems, Issues
<1>25. Replaced'
  <2>1. faults' \in Nat /\ faults' >= faults
    BY <1>1 DEF TypeOK, Sizes
  <2> QED  BY <1>1, <1>18, <1>24, <2>1, ReplacedKept DEF AccountsInv
<1>26. Redeemed'
  BY <1>1, <1>18, <1>24, RedeemedKept DEF AccountsInv
<1>27. Issued'
  BY <1>1, <1>18, <1>24, IssuedKept DEF AccountsInv
<1> QED  BY <1>19, <1>20, <1>23, <1>25, <1>26, <1>27 DEF AccountsInv

LEMMA CodeNotSavedInv ==
  ASSUME Sizes, AccountsInv, NEW w \in Workers, CodeNotSaved(w)
  PROVE  AccountsInv'
<1> DEFINE r == job[w]
<1>1. /\ r.pc = "save" /\ r.change = "code" /\ Ignored(TRUE)
      /\ TypeOK /\ r \in Job /\ JobOK(r) /\ CopyOK(r) /\ user \in User
      /\ past \in Past /\ r.user \in User
      /\ UNCHANGED <<user, session, token, tickets, expired, requests>>
  BY JobAt DEF CodeNotSaved, Job
<1>2. PICK a : a = Applied(r, r.user)
  OBVIOUS
<1>3. PICK b : b = Applied(r, past.row)
  OBVIOUS
<1>4. past.row \in User /\ past.wrong \in Nat
  BY <1>1 DEF Past
<1>5. a \in User /\ b \in User
  BY <1>1, <1>2, <1>3, <1>4, AppliedIs
<1>6. past' = [past EXCEPT !.row = b, !.lost = TRUE]
  BY <1>3 DEF CodeNotSaved
<1>7. past' \in Past
  BY <1>1, <1>5, <1>6 DEF Past
<1>8. past'.lost = TRUE /\ past'.wrong = past.wrong
  BY <1>1, <1>6 DEF Past
<1>9. PICK n : n = [r EXCEPT !.pc = "session", !.change = "success", !.user = a]
  OBVIOUS
<1>10. n \in Job
  BY <1>1, <1>5, <1>9 DEF Job, Changes
<1>11. n.pc = "session" /\ n.change = "success" /\ n.user = a /\ n.session = r.session
  BY <1>1, <1>9 DEF Job
<1>12. Step(w, n)
  BY <1>2, <1>9 DEF CodeNotSaved
<1>13. /\ job' \in [Workers -> Job] /\ job'[w] = n /\ Moved(w)
       /\ \A v \in Workers : v # w => job'[v] = job[v]
  BY <1>1, <1>10, <1>12, StepMoves
<1>14. faults' \in 0 .. MaxFaults /\ faults' >= faults /\ faults' \in Nat
  <2>1. faults' \in 0 .. MaxFaults /\ faults' >= faults
    BY <1>1, FaultTyped
  <2> QED  BY <2>1 DEF Sizes
<1>15. TypeOK'
  BY <1>1, <1>7, <1>13, <1>14 DEF TypeOK
<1>16. n.session = 0 /\ JobOK(n)
  BY <1>1, <1>11 DEF JobOK
<1>17. JobsOK'
  BY <1>13, <1>16, JobsKept DEF AccountsInv
<1>18. Rowed'
  <2>1. NoLostChange' /\ NeverLockedTooEarly' /\ SessionsOfToday'
    BY <1>1, <1>8 DEF AccountsInv, Rowed, NoLostChange, NeverLockedTooEarly, SessionsOfToday
  <2>2. Counts(a)'
    BY <1>1, <1>2, <1>8, SavedCounts DEF CopyOK
  <2>3. CopyOK(job[w])'
    <3>1. Counts(job[w].user)'
      BY <1>11, <1>13, <2>2 DEF Counts
    <3> QED  BY <1>8, <3>1 DEF CopyOK
  <2>4. ASSUME NEW v \in Workers, v # w PROVE CopyOK(job[v])'
    <3>1. Counts(job[v].user) /\ job'[v] = job[v]
      BY <1>13, <2>4 DEF AccountsInv, Rowed, CopyOK
    <3>2. Counts(job[v].user)'
      BY <1>8, <3>1 DEF Counts
    <3> QED  BY <1>8, <3>2 DEF CopyOK
  <2> QED  BY <2>1, <2>3, <2>4 DEF Rowed
<1>19. /\ \A s \in SessionIds : ~Refreshes(w, s)'
       /\ \A t \in TokenIds : ~Redeems(w, t)'
       /\ \A k \in {"verify", "reset"} : ~Issues(w, k)'
  BY <1>11, <1>13, <1>16, Typed DEF Refreshes, Redeems, Issues
<1>20. Replaced'
  BY <1>1, <1>13, <1>14, <1>19, ReplacedKept DEF AccountsInv
<1>21. Redeemed'
  BY <1>1, <1>13, <1>19, RedeemedKept DEF AccountsInv
<1>22. Issued'
  BY <1>1, <1>13, <1>19, IssuedKept DEF AccountsInv
<1> QED  BY <1>15, <1>17, <1>18, <1>20, <1>21, <1>22 DEF AccountsInv

-----------------------------------------------------------------------------
(* Creating and replacing sessions.                                        *)

\* w creates s.
Created(w, s) ==
  /\ IsNext(session, s)
  /\ session' = [session EXCEPT
       ![s] = [NoSession EXCEPT !.st = "live", !.pw = job[w].pw, !.late = job[w].late],
       ![IF job[w].session = 0 THEN s ELSE job[w].session].kids =
         IF job[w].session = 0 THEN 0 ELSE @ + 1]

\* The new session goes back to the password of its request; the one it replaces, if any,
\* has one more kid; no other changes.
LEMMA SessionCreated ==
  ASSUME Sizes, AccountsInv, NEW w \in Workers, job[w].pc = "session",
         NEW s \in SessionIds, Created(w, s)
  PROVE  /\ session' \in [SessionIds -> Session]
         /\ session[s].st = "none" /\ s # job[w].session
         /\ session'[s].st = "live" /\ session'[s].pw = job[w].pw
         /\ session'[s].late = job[w].late /\ session'[s].kids = 0
         /\ \A x \in SessionIds : x # s =>
              /\ session'[x].st = session[x].st /\ session'[x].black = session[x].black
              /\ session'[x].pw = session[x].pw /\ session'[x].late = session[x].late
              /\ session'[x].raced = session[x].raced
              /\ session'[x].kids = IF x = job[w].session THEN session[x].kids + 1
                                    ELSE session[x].kids
<1> DEFINE j == job[w]
<1>1. /\ j \in Job /\ session \in [SessionIds -> Session] /\ session[s].st = "none"
      /\ j.session # 0 => j.session \in SessionIds
      /\ \A x \in SessionIds : x # 0
  BY JobAt, Typed DEF AccountsInv, TypeOK, IsNext, Created
<1>2. j.pw \in Nat /\ j.late \in BOOLEAN
  BY <1>1 DEF Job
<1>3. s # j.session
  <2>1. j.session # 0 => Refreshes(w, j.session) /\ j.session \in SessionIds
    BY <1>1 DEF Refreshes
  <2>2. j.session # 0 => session[j.session].st # "none"
    BY <2>1 DEF AccountsInv, Replaced
  <2> QED  BY <1>1, <2>2
<1>4. PICK new : new = [NoSession EXCEPT !.st = "live", !.pw = j.pw, !.late = j.late]
  OBVIOUS
<1>5. NoSession \in Session /\ NoSession.kids = 0
  BY Typed DEF NoSession
<1>6. /\ new \in Session /\ new.st = "live" /\ new.pw = j.pw /\ new.late = j.late
      /\ new.kids = 0
  BY <1>2, <1>4, <1>5 DEF Session
<1>7. CASE j.session = 0
  <2>1. PICK kid : kid = [new EXCEPT !.kids = 0]
    OBVIOUS
  <2>2. /\ kid \in Session /\ kid.st = "live" /\ kid.pw = j.pw /\ kid.late = j.late
        /\ kid.kids = 0
    BY <1>6, <2>1 DEF Session
  <2>3. session' = [session EXCEPT ![s] = new, ![s].kids = 0]
    BY <1>4, <1>7 DEF Created
  <2>4. session' \in [SessionIds -> Session] /\ session'[s] = kid
        /\ \A x \in SessionIds : x # s => session'[x] = session[x]
    BY <1>1, <1>6, <2>1, <2>2, <2>3
  <2> QED  BY <1>1, <1>3, <1>7, <2>2, <2>4
<1>8. CASE j.session # 0
  <2>1. PICK o \in SessionIds : o = j.session /\ o # s
    BY <1>1, <1>3, <1>8
  <2>2. session' = [session EXCEPT ![s] = new, ![o].kids = session[o].kids + 1]
    BY <1>1, <1>4, <1>8, <2>1 DEF Created
  <2>3. session[o] \in Session /\ session[o].kids + 1 \in Nat
    BY <1>1 DEF Session
  <2>4. PICK old : old = [session[o] EXCEPT !.kids = session[o].kids + 1]
    OBVIOUS
  <2>5. /\ old \in Session /\ old.st = session[o].st /\ old.black = session[o].black
        /\ old.pw = session[o].pw /\ old.late = session[o].late /\ old.raced = session[o].raced
        /\ old.kids = session[o].kids + 1
    BY <2>3, <2>4 DEF Session
  <2>6. session' \in [SessionIds -> Session] /\ session'[s] = new /\ session'[o] = old
        /\ \A x \in SessionIds : x # s /\ x # o => session'[x] = session[x]
    BY <1>1, <1>6, <2>1, <2>2, <2>4, <2>5
  <2> QED  BY <1>1, <1>3, <1>6, <2>1, <2>5, <2>6
<1> QED  BY <1>7, <1>8

LEMMA CreateSessionInv ==
  ASSUME Sizes, AccountsInv, NEW w \in Workers, CreateSession(w)
  PROVE  AccountsInv'
<1> DEFINE r == job[w]
<1>1. /\ r.pc = "session" /\ TypeOK /\ r \in Job /\ JobOK(r) /\ CopyOK(r)
      /\ session \in [SessionIds -> Session] /\ faults \in Nat
      /\ UNCHANGED <<user, token, tickets, expired, requests, past>>
  BY JobAt DEF CreateSession, TypeOK
<1>2. PICK n : n = IF r.change = "success" THEN [r EXCEPT !.pc = "save"] ELSE Idle
  OBVIOUS
<1>3. /\ n \in Job /\ JobOK(n)
      /\ \/ /\ n.pc = "save" /\ n.session = 0 /\ n.user = r.user
            /\ n.pw = r.pw /\ n.late = r.late /\ n.alone = r.alone
         \/ n = Idle
  <2>1. CASE r.change = "success"
    <3>1. n = [r EXCEPT !.pc = "save"]
      BY <1>2, <2>1
    <3>2. n \in Job
      BY <1>1, <3>1 DEF Job
    <3>3. /\ n.pc = "save" /\ n.session = r.session /\ n.user = r.user
          /\ n.pw = r.pw /\ n.late = r.late /\ n.alone = r.alone
      BY <1>1, <3>1 DEF Job
    <3>4. r.session = 0
      BY <1>1, <2>1 DEF JobOK
    <3> QED  BY <3>2, <3>3, <3>4 DEF JobOK
  <2>2. CASE r.change # "success"
    BY <1>2, <2>2, Typed, IdleOK
  <2> QED  BY <2>1, <2>2
<1>4. Step(w, n)
  BY <1>2 DEF CreateSession
<1>5. job' \in [Workers -> Job] /\ job'[w] = n /\ Moved(w)
  BY <1>1, <1>3, <1>4, StepMoves
<1>6. /\ \A s \in SessionIds : ~Refreshes(w, s)'
      /\ \A t \in TokenIds : ~Redeems(w, t)'
      /\ \A k \in {"verify", "reset"} : ~Issues(w, k)'
  <2>1. n.pc \in {"idle", "save"}
    BY <1>3, IdleOK
  <2> QED  BY <1>5, <2>1 DEF Refreshes, Redeems, Issues
<1>7. TypeOK' => CopyOK(job[w])'
  <2>1. CASE n = Idle
    BY <1>5, <2>1, NoCopy
  <2>2. CASE n # Idle
    <3>1. Busy(r)
      BY <1>1 DEF Busy
    <3> QED  BY <1>1, <1>3, <1>5, <2>2, <3>1, CopyGoesOn
  <2> QED  BY <2>1, <2>2
<1>8. CASE UNCHANGED session
  <2>1. faults' \in 0 .. MaxFaults /\ faults' >= faults
    <3>1. UNCHANGED faults \/ Ignored(TRUE)
      BY DEF CreateSession, Ignored
    <3>2. CASE UNCHANGED faults
      BY <1>1, <3>2 DEF TypeOK
    <3> QED  BY <1>1, <3>1, <3>2, FaultTyped
  <2>2. TypeOK'
    BY <1>1, <1>5, <1>8, <2>1 DEF TypeOK
  <2> QED  BY <1>1, <1>3, <1>5, <1>6, <1>7, <1>8, <2>1, <2>2, OnlyJobs
<1>9. CASE session' # session
  <2>1. UNCHANGED faults
    BY <1>9 DEF CreateSession
  <2>2. PICK s \in SessionIds : Created(w, s)
    BY <1>9 DEF CreateSession, Created
  <2>3. /\ session' \in [SessionIds -> Session]
        /\ session[s].st = "none" /\ s # r.session
        /\ session'[s].st = "live" /\ session'[s].pw = r.pw
        /\ session'[s].late = r.late /\ session'[s].kids = 0
        /\ \A x \in SessionIds : x # s =>
             /\ session'[x].st = session[x].st /\ session'[x].black = session[x].black
             /\ session'[x].pw = session[x].pw /\ session'[x].late = session[x].late
             /\ session'[x].raced = session[x].raced
             /\ session'[x].kids = IF x = r.session THEN session[x].kids + 1 ELSE session[x].kids
    BY <1>1, <2>2, SessionCreated
  <2>4. TypeOK'
    BY <1>1, <1>5, <2>1, <2>3 DEF TypeOK
  <2>5. JobsOK'
    BY <1>3, <1>5, JobsKept DEF AccountsInv
  <2>6. Rowed'
    <3>1. \A x \in SessionIds : session'[x].st = "live" =>
            \/ /\ session[x].st = "live" /\ session'[x].pw = session[x].pw
               /\ session'[x].late = session[x].late
            \/ session'[x].pw = past.row.pw \/ session'[x].late \/ past.lost
      BY <1>1, <2>3 DEF CopyOK, Busy
    <3> QED  BY <1>1, <1>5, <1>7, <2>3, <2>4, <3>1, RowKept DEF AccountsInv
  <2>7. Replaced'
    <3>1. ASSUME NEW v \in Workers, NEW x \in SessionIds, Refreshes(v, x)'
          PROVE  v # w /\ Refreshes(v, x) /\ job'[v].pc = job[v].pc /\ x # s
      <4>1. v # w /\ Refreshes(v, x) /\ job'[v].pc = job[v].pc
        BY <1>5, <1>6, <3>1 DEF Moved, Like, Refreshes
      <4> QED  BY <2>3, <4>1 DEF AccountsInv, Replaced
    <3>2. ASSUME MaxFaults <= 1, NEW x \in SessionIds, ~session'[x].raced
          PROVE  Replacing(x)'
      <4>1. CASE x = s
        BY <2>3, <3>1, <4>1 DEF Replacing, Replaces
      <4>2. CASE x # s
        <5>1. Replacing(x)
          BY <2>3, <3>2, <4>2 DEF AccountsInv, Replaced
        <5>2. Missing(x)' = Missing(x)
          BY <2>3, <4>2 DEF Missing
        <5>3. CASE x = r.session
          <6>1. Refreshes(w, x)
            BY <1>1, <5>3 DEF Refreshes
          <6>2. session[x].kids = 0 /\ Missing(x) <= faults
            BY <1>1, <5>1, <6>1 DEF Replacing, Replaces
          <6>3. session'[x].kids = 1
            BY <2>3, <4>2, <5>3, <6>2
          <6>4. \A v \in Workers : ~Refreshes(v, x)'
            BY <3>1, <5>1, <6>1 DEF Replacing, Replaces
          <6> QED  BY <2>1, <5>2, <6>2, <6>3, <6>4 DEF Replacing, Replaces
        <5>4. CASE x # r.session
          <6>1. session'[x].kids = session[x].kids /\ session'[x].st = session[x].st
            BY <2>3, <4>2, <5>4
          <6> QED  BY <2>1, <3>1, <5>1, <5>2, <6>1 DEF Replacing, Replaces
        <5> QED  BY <5>3, <5>4
      <4> QED  BY <4>1, <4>2
    <3>3. ASSUME NEW v \in Workers, NEW x \in SessionIds, Refreshes(v, x)'
          PROVE  session'[x].st # "none"
      BY <2>3, <3>1, <3>3 DEF AccountsInv, Replaced
    <3> QED  BY <3>2, <3>3 DEF Replaced
  <2>8. Redeemed'
    BY <1>1, <1>5, <1>6, RedeemedKept DEF AccountsInv
  <2>9. Issued'
    BY <1>1, <1>5, <1>6, IssuedKept DEF AccountsInv
  <2> QED  BY <2>4, <2>5, <2>6, <2>7, <2>8, <2>9 DEF AccountsInv
<1> QED  BY <1>8, <1>9

-----------------------------------------------------------------------------
(* Ending sessions.                                                        *)

\* A step that does nothing to sessions but end them and put their keys.
LEMMA OnlyEnds ==
  ASSUME Sizes, AccountsInv, NEW w \in Workers, TypeOK', Moved(w), JobOK(job'[w]),
         CopyOK(job[w])', UNCHANGED <<user, token>>, faults' >= faults,
         past'.row = past.row, past'.lost = past.lost, past'.wrong = past.wrong,
         past.unsigned => past'.unsigned,
         \A s \in SessionIds :
           /\ session'[s].pw = session[s].pw /\ session'[s].late = session[s].late
           /\ session'[s].kids = session[s].kids /\ session'[s].raced = session[s].raced
           /\ session'[s].st \in {session[s].st, "revoked"}
           /\ session[s].black => session'[s].black,
         job[w].pc = "revokeall" =>
           \/ past'.unsigned \/ \A s \in SessionIds : session'[s].st # "live"
           \/ job'[w].pc = "revokeall",
         \A s \in SessionIds : Refreshes(w, s)' =>
           Refreshes(w, s) /\ (MaxFaults <= 1 /\ Replacing(s) => Replaces(w, s)'),
         \A t \in TokenIds : ~Redeems(w, t)',
         \A k \in {"verify", "reset"} : ~Issues(w, k)'
  PROVE  AccountsInv'
<1>1. TypeOK /\ JobsOK /\ Rowed /\ Replaced /\ Redeemed /\ Issued
  BY DEF AccountsInv
<1>2. JobsOK'
  BY <1>1, JobsKept
<1>3. session' \in [SessionIds -> Session] /\ faults' \in Nat
  BY DEF TypeOK, Sizes
<1>4. \A s \in SessionIds :
        /\ session'[s].st = "live" => session[s].st = "live"
        /\ session[s].st # "none" => session'[s].st # "none"
        /\ session[s].st = "revoked" => session'[s].st = "revoked"
  OBVIOUS
<1>5. Rowed'
  BY <1>1, <1>3, <1>4, RowKept
<1>6. Replaced'
  BY <1>1, <1>3, <1>4, ReplacedStep
<1>7. Redeemed'
  BY <1>1, RedeemedKept
<1>8. Issued'
  BY <1>1, IssuedKept
<1> QED  BY <1>2, <1>5, <1>6, <1>7, <1>8 DEF AccountsInv

\* A session with its key, and a session that is revoked.
LEMMA WithKey ==
  ASSUME session \in [SessionIds -> Session], NEW s \in SessionIds,
         session' = Blacklisted(s)
  PROVE  /\ session' \in [SessionIds -> Session] /\ session'[s].black
         /\ \A x \in SessionIds :
              /\ session'[x].pw = session[x].pw /\ session'[x].late = session[x].late
              /\ session'[x].kids = session[x].kids /\ session'[x].raced = session[x].raced
              /\ session'[x].st = session[x].st
              /\ session[x].black => session'[x].black
<1>1. PICK n : n = [session[s] EXCEPT !.black = TRUE]
  OBVIOUS
<1>2. session[s] \in Session
  OBVIOUS
<1>3. /\ n \in Session /\ n.pw = session[s].pw /\ n.late = session[s].late
      /\ n.kids = session[s].kids /\ n.raced = session[s].raced /\ n.st = session[s].st
  BY <1>1, <1>2 DEF Session
<1>4. n.black = TRUE
  BY <1>1, <1>2 DEF Session
<1>5. session' = [session EXCEPT ![s] = n]
  BY <1>1 DEF Blacklisted
<1> QED  BY <1>3, <1>4, <1>5

LEMMA WithoutRow ==
  ASSUME session \in [SessionIds -> Session], NEW s \in SessionIds, NEW e \in BOOLEAN,
         session' = [session EXCEPT ![s].st = IF e THEN @ ELSE "revoked"]
  PROVE  /\ session' \in [SessionIds -> Session] /\ (~e => session'[s].st = "revoked")
         /\ \A x \in SessionIds :
              /\ session'[x].pw = session[x].pw /\ session'[x].late = session[x].late
              /\ session'[x].kids = session[x].kids /\ session'[x].raced = session[x].raced
              /\ session'[x].st \in {session[x].st, "revoked"}
              /\ session[x].black => session'[x].black
<1>1. session[s] \in Session /\ session[s].st \in {"none", "live", "revoked"}
  BY DEF Session
<1>2. PICK st \in {"none", "live", "revoked"} : st = IF e THEN session[s].st ELSE "revoked"
  BY <1>1
<1>3. PICK n : n = [session[s] EXCEPT !.st = st]
  OBVIOUS
<1>4. /\ n \in Session /\ n.pw = session[s].pw /\ n.kids = session[s].kids /\ n.st = st
  BY <1>1, <1>3 DEF Session
<1>5. n.late = session[s].late /\ n.raced = session[s].raced /\ n.black = session[s].black
  BY <1>1, <1>3 DEF Session
<1>6. session' = [session EXCEPT ![s] = n]
  BY <1>2, <1>3
<1> QED  BY <1>2, <1>4, <1>5, <1>6

LEMMA FindSessionInv ==
  ASSUME Sizes, AccountsInv, NEW w \in Workers, FindSession(w)
  PROVE  AccountsInv'
<1> DEFINE r == job[w]
           o == job[w].session
<1>1. /\ r.pc = "find" /\ TypeOK /\ r \in Job /\ JobOK(r) /\ CopyOK(r)
      /\ session \in [SessionIds -> Session] /\ past \in Past
      /\ UNCHANGED <<user, session, token, tickets, expired, requests, faults, past>>
  BY JobAt DEF FindSession, TypeOK
<1>2. o \in SessionIds /\ o # 0 /\ r.change = "none"
  BY <1>1, JobAt DEF JobOK
<1>3. session[o].pw \in Nat /\ session[o].late \in BOOLEAN /\ session[o].kids \in Nat
  BY <1>1, <1>2 DEF Session
<1>4. faults' >= faults
  BY <1>1 DEF TypeOK
<1>5. CASE IsRevoked(o)
  <2>1. Step(w, Idle)
    BY <1>5 DEF FindSession
  <2>2. job' \in [Workers -> Job] /\ job'[w] = Idle /\ Moved(w)
    BY <1>1, <2>1, Typed, StepMoves
  <2>3. TypeOK'
    BY <1>1, <2>2 DEF TypeOK
  <2>4. CopyOK(job[w])'
    BY <2>2, <2>3, NoCopy
  <2> QED  BY <1>1, <1>4, <2>2, <2>3, <2>4, EndsOK, OnlyJobs
<1>6. CASE ~IsRevoked(o)
  <2>1. PICK late \in BOOLEAN : late = (session[o].late \/ past.row.pw # session[o].pw)
    OBVIOUS
  <2>2. PICK n : n = [r EXCEPT !.pc = "revoke", !.pw = session[o].pw, !.late = late]
    OBVIOUS
  <2>3. n \in Job
    BY <1>1, <1>3, <2>2 DEF Job
  <2>4. /\ n.pc = "revoke" /\ n.pw = session[o].pw /\ n.session = o /\ n.change = r.change
        /\ n.user = r.user
    BY <1>1, <2>2 DEF Job
  <2>5. n.late = late /\ n.alone = r.alone
    BY <1>1, <2>2 DEF Job
  <2>6. Step(w, n)
    BY <1>6, <2>1, <2>2 DEF FindSession
  <2>7. job' \in [Workers -> Job] /\ job'[w] = n /\ Moved(w)
    BY <1>1, <2>3, <2>6, StepMoves
  <2>8. TypeOK'
    BY <1>1, <2>7 DEF TypeOK
  <2>9. JobOK(n)
    BY <1>2, <2>4 DEF JobOK
  <2>10. CopyOK(job[w])'
    <3>1. Busy(r)
      BY <1>1 DEF Busy
    <3>2. n.pw = past.row.pw \/ n.late
      BY <2>1, <2>4, <2>5
    <3> QED  BY <1>1, <2>4, <2>5, <2>7, <3>1, <3>2, CopyGoesOn
  <2>11. /\ \A t \in TokenIds : ~Redeems(w, t)'
         /\ \A k \in {"verify", "reset"} : ~Issues(w, k)'
    BY <2>4, <2>7 DEF Redeems, Issues
  <2>12. ASSUME NEW s \in SessionIds, Refreshes(w, s)'
         PROVE  Refreshes(w, s) /\ (Replacing(s) => Replaces(w, s)')
    <3>1. s = o /\ Refreshes(w, s)
      BY <1>1, <2>4, <2>7, <2>12 DEF Refreshes
    <3>2. Replacing(s) => session[s].kids = 0
      BY <1>1, <1>3, <1>6, <3>1 DEF Replacing, Replaces, IsRevoked
    <3> QED  BY <1>1, <2>4, <2>7, <3>1, <3>2 DEF Replaces
  <2> QED  BY <1>1, <1>4, <2>4, <2>7, <2>8, <2>9, <2>10, <2>11, <2>12, OnlyEnds
<1> QED  BY <1>5, <1>6

\* The next step of a refresh.
LEMMA RefreshGoesOn ==
  ASSUME Sizes, AccountsInv, NEW w \in Workers, NEW pc \in {"black", "session"},
         job[w].pc \in {"revoke", "black"}, Goto(w, pc), UNCHANGED <<user, past>>
  PROVE  /\ job' \in [Workers -> Job] /\ Moved(w) /\ JobOK(job'[w]) /\ CopyOK(job[w])'
         /\ job[w].session \in SessionIds /\ job'[w].pc = pc
         /\ \A s \in SessionIds : Refreshes(w, s)' => Refreshes(w, s) /\ s = job[w].session
         /\ \A t \in TokenIds : ~Redeems(w, t)'
         /\ \A k \in {"verify", "reset"} : ~Issues(w, k)'
<1> DEFINE r == job[w]
<1>1. /\ TypeOK /\ r \in Job /\ JobOK(r) /\ CopyOK(r) /\ r.session # 0 /\ r.change = "none"
      /\ r.session \in SessionIds
  BY JobAt DEF JobOK
<1>2. PICK n : n = [r EXCEPT !.pc = pc]
  OBVIOUS
<1>3. n \in Job
  BY <1>1, <1>2 DEF Job
<1>4. /\ n.pc = pc /\ n.session = r.session /\ n.change = r.change
      /\ n.user = r.user /\ n.pw = r.pw
  BY <1>1, <1>2 DEF Job
<1>5. n.late = r.late /\ n.alone = r.alone
  BY <1>1, <1>2 DEF Job
<1>6. Step(w, n)
  BY <1>2 DEF Goto
<1>7. job' \in [Workers -> Job] /\ job'[w] = n /\ Moved(w)
  BY <1>1, <1>3, <1>6, StepMoves
<1>8. JobOK(n)
  BY <1>1, <1>4 DEF JobOK
<1>9. CopyOK(job[w])'
  <2>1. Busy(r)
    BY DEF Busy
  <2> QED  BY <1>4, <1>5, <1>7, <2>1, CopyGoesOn
<1>10. \A s \in SessionIds : Refreshes(w, s)' => Refreshes(w, s) /\ s = r.session
  BY <1>4, <1>7 DEF Refreshes
<1>11. /\ \A t \in TokenIds : ~Redeems(w, t)'
       /\ \A k \in {"verify", "reset"} : ~Issues(w, k)'
  BY <1>4, <1>7 DEF Redeems, Issues
<1> QED  BY <1>1, <1>4, <1>7, <1>8, <1>9, <1>10, <1>11

LEMMA RevokeOldInv ==
  ASSUME Sizes, AccountsInv, NEW w \in Workers, RevokeOld(w)
  PROVE  AccountsInv'
<1> DEFINE o == job[w].session
<1>1. /\ job[w].pc = "revoke" /\ TypeOK /\ session \in [SessionIds -> Session] /\ faults \in Nat
      /\ UNCHANGED <<user, token, tickets, expired, requests, past>> /\ Goto(w, "black")
  BY JobAt DEF RevokeOld, TypeOK
<1>2. PICK e \in BOOLEAN : /\ Ignored(e)
                           /\ session' = [session EXCEPT ![o].st = IF e THEN @ ELSE "revoked"]
  BY DEF RevokeOld
<1>3. /\ job' \in [Workers -> Job] /\ Moved(w) /\ JobOK(job'[w]) /\ CopyOK(job[w])'
      /\ o \in SessionIds /\ job'[w].pc = "black"
      /\ \A s \in SessionIds : Refreshes(w, s)' => Refreshes(w, s) /\ s = o
      /\ \A t \in TokenIds : ~Redeems(w, t)'
      /\ \A k \in {"verify", "reset"} : ~Issues(w, k)'
  BY <1>1, RefreshGoesOn
<1>4. /\ session' \in [SessionIds -> Session] /\ (~e => session'[o].st = "revoked")
      /\ \A x \in SessionIds :
           /\ session'[x].pw = session[x].pw /\ session'[x].late = session[x].late
           /\ session'[x].kids = session[x].kids /\ session'[x].raced = session[x].raced
           /\ session'[x].st \in {session[x].st, "revoked"}
           /\ session[x].black => session'[x].black
  BY <1>1, <1>2, <1>3, WithoutRow
<1>5. /\ faults' \in 0 .. MaxFaults /\ faults' >= faults /\ (e => faults' > 0)
  <2>1. faults' \in 0 .. MaxFaults /\ faults' >= faults /\ (e => faults' = faults + 1)
    BY <1>1, <1>2, FaultTyped
  <2> QED  BY <1>1, <2>1
<1>6. TypeOK'
  BY <1>1, <1>3, <1>4, <1>5 DEF TypeOK
<1>7. ASSUME NEW s \in SessionIds, Refreshes(w, s)', Replacing(s) PROVE Replaces(w, s)'
  <2>1. s = o /\ session[s].kids = 0
    BY <1>1, <1>3, <1>7 DEF Replacing, Replaces
  <2>2. session'[s].kids = 0
    BY <1>4, <2>1
  <2>3. session'[s].st # "revoked" => faults' > 0
    BY <1>4, <1>5, <2>1
  <2> QED  BY <1>3, <2>2, <2>3 DEF Replaces
<1> QED  BY <1>1, <1>3, <1>4, <1>5, <1>6, <1>7, OnlyEnds

LEMMA BlacklistInv ==
  ASSUME Sizes, AccountsInv, NEW w \in Workers, Blacklist(w)
  PROVE  AccountsInv'
<1> DEFINE o == job[w].session
<1>1. /\ job[w].pc = "black" /\ TypeOK /\ session \in [SessionIds -> Session] /\ faults \in Nat
      /\ UNCHANGED <<user, token, tickets, expired, requests, past>> /\ Goto(w, "session")
  BY JobAt DEF Blacklist, TypeOK
<1>2. PICK e \in BOOLEAN : /\ Ignored(e)
                           /\ session' = IF e THEN session ELSE Blacklisted(o)
  BY DEF Blacklist
<1>3. /\ job' \in [Workers -> Job] /\ Moved(w) /\ JobOK(job'[w]) /\ CopyOK(job[w])'
      /\ o \in SessionIds /\ job'[w].pc = "session"
      /\ \A s \in SessionIds : Refreshes(w, s)' => Refreshes(w, s) /\ s = o
      /\ \A t \in TokenIds : ~Redeems(w, t)'
      /\ \A k \in {"verify", "reset"} : ~Issues(w, k)'
  BY <1>1, RefreshGoesOn
<1>4. /\ session' \in [SessionIds -> Session] /\ (~e => session'[o].black)
      /\ \A x \in SessionIds :
           /\ session'[x].pw = session[x].pw /\ session'[x].late = session[x].late
           /\ session'[x].kids = session[x].kids /\ session'[x].raced = session[x].raced
           /\ session'[x].st = session[x].st
           /\ session[x].black => session'[x].black
  <2>1. CASE e
    BY <1>1, <1>2, <2>1
  <2>2. CASE ~e
    BY <1>1, <1>2, <1>3, <2>2, WithKey
  <2> QED  BY <2>1, <2>2
<1>5. /\ faults' \in 0 .. MaxFaults /\ faults' >= faults /\ (e => faults' = faults + 1)
  BY <1>1, <1>2, FaultTyped
<1>6. TypeOK' /\ faults' \in Nat
  BY <1>1, <1>3, <1>4, <1>5 DEF TypeOK, Sizes
<1>7. ASSUME NEW s \in SessionIds, Refreshes(w, s)', Replacing(s) PROVE Replaces(w, s)'
  <2>1. s = o /\ session[s].kids = 0 /\ (session[s].st # "revoked" => faults > 0)
    BY <1>1, <1>3, <1>7 DEF Replacing, Replaces
  <2>2. session'[s].kids = 0 /\ session'[s].st = session[s].st
    BY <1>4, <2>1
  <2>3. Missing(s)' <= faults'
    <3>1. CASE session[s].st = "revoked"
      BY <1>1, <1>4, <1>5, <1>6, <2>1, <2>2, <3>1 DEF Missing
    <3>2. CASE session[s].st # "revoked"
      BY <1>1, <1>4, <1>5, <1>6, <2>1, <2>2, <3>2 DEF Missing
    <3> QED  BY <3>1, <3>2
  <2>4. session'[s].st # "revoked" => faults' > 0
    BY <1>1, <1>5, <1>6, <2>1, <2>2
  <2> QED  BY <1>3, <2>2, <2>3, <2>4 DEF Replaces
<1>8. \A x \in SessionIds : session'[x].st \in {session[x].st, "revoked"}
  BY <1>4
<1> QED  BY <1>1, <1>3, <1>4, <1>5, <1>6, <1>7, <1>8, OnlyEnds

LEMMA LogoutInv ==
  ASSUME Sizes, AccountsInv, NEW w \in Workers, NEW s \in SessionIds, Logout(w, s)
  PROVE  AccountsInv'
<1>1. /\ Request(w) /\ TypeOK /\ session \in [SessionIds -> Session]
      /\ UNCHANGED <<user, token, tickets, expired, past>> /\ user \in User
  BY DEF Logout, AccountsInv, TypeOK
<1>2. PICK e \in BOOLEAN : Ignored(e) /\ session' = IF e THEN session ELSE Blacklisted(s)
  BY DEF Logout
<1>3. PICK b : b = Begin(w, "logout", "none")
  OBVIOUS
<1>4. "none" \in Changes /\ "logout" \in {"session", "save", "invalidate", "readuser", "find", "logout"}
  BY DEF Changes
<1>5. b \in Job /\ b.pc = "logout" /\ b.user = user /\ b.pw = user.pw
  BY <1>3, <1>4, Begins
<1>6. s \in 0 .. MaxSessions /\ s # 0
  BY DEF SessionIds, Sizes
<1>7. PICK n : n = [b EXCEPT !.session = s]
  OBVIOUS
<1>8. n \in Job /\ n.pc = "logout" /\ n.user = user /\ n.pw = user.pw /\ n.session = s
  BY <1>5, <1>6, <1>7 DEF Job
<1>9. Step(w, n)
  BY <1>3, <1>7 DEF Logout
<1>10. job' \in [Workers -> Job] /\ job'[w] = n /\ Moved(w)
  BY <1>1, <1>8, <1>9, StepMoves
<1>11. /\ session' \in [SessionIds -> Session]
       /\ \A x \in SessionIds :
            /\ session'[x].pw = session[x].pw /\ session'[x].late = session[x].late
            /\ session'[x].kids = session[x].kids /\ session'[x].raced = session[x].raced
            /\ session'[x].st = session[x].st
            /\ session[x].black => session'[x].black
  <2>1. CASE e
    BY <1>1, <1>2, <2>1
  <2>2. CASE ~e
    BY <1>1, <1>2, <2>2, WithKey
  <2> QED  BY <2>1, <2>2
<1>12. faults' \in 0 .. MaxFaults /\ faults' >= faults
  BY <1>1, <1>2, FaultTyped
<1>13. TypeOK'
  BY <1>1, <1>10, <1>11, <1>12 DEF TypeOK, Request, Sizes
<1>14. JobOK(n) /\ job[w].pc = "idle"
  BY <1>1, <1>6, <1>8 DEF JobOK, Request
<1>15. CopyOK(job[w])'
  BY <1>1, <1>8, <1>10, FreshCopy
<1>16. /\ \A x \in SessionIds : ~Refreshes(w, x)'
       /\ \A t \in TokenIds : ~Redeems(w, t)'
       /\ \A k \in {"verify", "reset"} : ~Issues(w, k)'
  BY <1>8, <1>10 DEF Refreshes, Redeems, Issues
<1>17. \A x \in SessionIds : session'[x].st \in {session[x].st, "revoked"}
  BY <1>11
<1> QED  BY <1>1, <1>10, <1>11, <1>12, <1>13, <1>14, <1>15, <1>16, <1>17, OnlyEnds

LEMMA LogoutRevokesInv ==
  ASSUME Sizes, AccountsInv, NEW w \in Workers, LogoutRevokes(w)
  PROVE  AccountsInv'
<1>1. /\ job[w].pc = "logout" /\ TypeOK /\ session \in [SessionIds -> Session]
      /\ session' = [session EXCEPT ![job[w].session].st = "revoked"] /\ Step(w, Idle)
      /\ UNCHANGED <<user, token, tickets, expired, requests, faults, past>>
  BY DEF LogoutRevokes, AccountsInv, TypeOK
<1>2. PICK o \in SessionIds : o = job[w].session
  BY <1>1, JobAt DEF JobOK
<1>3. session' = [session EXCEPT ![o].st = IF FALSE THEN @ ELSE "revoked"]
  BY <1>1, <1>2
<1>4. /\ session' \in [SessionIds -> Session]
      /\ \A x \in SessionIds :
           /\ session'[x].pw = session[x].pw /\ session'[x].late = session[x].late
           /\ session'[x].kids = session[x].kids /\ session'[x].raced = session[x].raced
           /\ session'[x].st \in {session[x].st, "revoked"}
           /\ session[x].black => session'[x].black
  BY <1>1, <1>3, WithoutRow
<1>5. job' \in [Workers -> Job] /\ job'[w] = Idle /\ Moved(w)
  BY <1>1, Typed, StepMoves
<1>6. TypeOK' /\ faults' >= faults
  BY <1>1, <1>4, <1>5 DEF TypeOK
<1>7. CopyOK(job[w])'
  BY <1>5, <1>6, NoCopy
<1> QED  BY <1>1, <1>4, <1>5, <1>6, <1>7, EndsOK, OnlyEnds

\* Sessions that are revoked together.
LEMMA AllRevoked ==
  ASSUME session \in [SessionIds -> Session]
  PROVE  /\ RevokedAll \in [SessionIds -> Session]
         /\ \A x \in SessionIds :
              /\ RevokedAll[x].pw = session[x].pw /\ RevokedAll[x].late = session[x].late
              /\ RevokedAll[x].kids = session[x].kids /\ RevokedAll[x].raced = session[x].raced
              /\ RevokedAll[x].st \in {session[x].st, "revoked"} /\ RevokedAll[x].st # "live"
              /\ RevokedAll[x].black = session[x].black
<1> DEFINE New(x) == IF x \in Live(session) THEN [session[x] EXCEPT !.st = "revoked"] ELSE session[x]
<1>1. ASSUME NEW x \in SessionIds
      PROVE  /\ New(x) \in Session
             /\ New(x).pw = session[x].pw /\ New(x).late = session[x].late
             /\ New(x).kids = session[x].kids /\ New(x).raced = session[x].raced
             /\ New(x).st \in {session[x].st, "revoked"} /\ New(x).st # "live"
             /\ New(x).black = session[x].black
  <2>1. session[x] \in Session
    OBVIOUS
  <2>2. CASE x \in Live(session)
    <3>1. PICK n : n = [session[x] EXCEPT !.st = "revoked"]
      OBVIOUS
    <3>2. /\ n \in Session /\ n.pw = session[x].pw /\ n.kids = session[x].kids
          /\ n.st = "revoked"
      BY <2>1, <3>1 DEF Session
    <3>3. n.late = session[x].late /\ n.raced = session[x].raced /\ n.black = session[x].black
      BY <2>1, <3>1 DEF Session
    <3>4. New(x) = n
      BY <2>2, <3>1
    <3> HIDE DEF New
    <3> QED  BY <3>2, <3>3, <3>4
  <2>3. CASE x \notin Live(session)
    <3>1. New(x) = session[x] /\ session[x].st # "live"
      BY <2>3 DEF Live
    <3> HIDE DEF New
    <3> QED  BY <2>1, <3>1
  <2> QED  BY <2>2, <2>3
<1>2. RevokedAll = [x \in SessionIds |-> New(x)]
  BY DEF RevokedAll
<1> HIDE DEF New
<1> QED  BY <1>1, <1>2

LEMMA RevokeAllInv ==
  ASSUME Sizes, AccountsInv, NEW w \in Workers, RevokeAll(w)
  PROVE  AccountsInv'
<1>1. /\ job[w].pc = "revokeall" /\ TypeOK /\ session \in [SessionIds -> Session] /\ past \in Past
      /\ UNCHANGED <<user, token, tickets, expired, requests>> /\ Idle \in Job
  BY Typed DEF RevokeAll, AccountsInv, TypeOK
<1>2. CASE session' = RevokedAll /\ UNCHANGED <<faults, past>> /\ Others(w, Idle, FALSE, TRUE)
  <2>1. job' \in [Workers -> Job] /\ job'[w] = Idle /\ Moved(w)
    BY <1>1, <1>2, OthersMove
  <2>2. /\ session' \in [SessionIds -> Session]
        /\ \A x \in SessionIds :
             /\ session'[x].pw = session[x].pw /\ session'[x].late = session[x].late
             /\ session'[x].kids = session[x].kids /\ session'[x].raced = session[x].raced
             /\ session'[x].st \in {session[x].st, "revoked"} /\ session'[x].st # "live"
             /\ session'[x].black = session[x].black
    BY <1>1, <1>2, AllRevoked
  <2>3. TypeOK' /\ faults' >= faults
    BY <1>1, <1>2, <2>1, <2>2 DEF TypeOK
  <2>4. CopyOK(job[w])'
    BY <2>1, <2>3, NoCopy
  <2> QED  BY <1>1, <1>2, <2>1, <2>2, <2>3, <2>4, EndsOK, OnlyEnds
<1>3. CASE /\ Ignored(TRUE) /\ UNCHANGED session /\ Step(w, Idle)
           /\ past' = [past EXCEPT !.unsigned = TRUE]
  <2>1. job' \in [Workers -> Job] /\ job'[w] = Idle /\ Moved(w)
    BY <1>1, <1>3, StepMoves
  <2>2. faults' \in 0 .. MaxFaults /\ faults' >= faults
    BY <1>1, <1>3, FaultTyped
  <2>3. /\ past' \in Past /\ past'.row = past.row /\ past'.lost = past.lost
        /\ past'.wrong = past.wrong /\ past'.unsigned = TRUE
    BY <1>1, <1>3 DEF Past
  <2>4. TypeOK'
    BY <1>1, <1>3, <2>1, <2>2, <2>3 DEF TypeOK
  <2>5. CopyOK(job[w])'
    BY <2>1, <2>4, NoCopy
  <2> QED  BY <1>1, <1>3, <2>1, <2>2, <2>3, <2>4, <2>5, EndsOK, OnlyJobs
<1> QED  BY <1>2, <1>3 DEF RevokeAll

LEMMA SignOutInv ==
  ASSUME Sizes, AccountsInv, NEW w \in Workers, NEW S \in SUBSET SessionIds, SignOut(w, S)
  PROVE  AccountsInv'
<1>1. /\ Request(w) /\ TypeOK /\ session \in [SessionIds -> Session]
      /\ UNCHANGED <<user, token, tickets, expired, job, faults, past>>
      /\ session' = [s \in SessionIds |-> IF s \in S THEN RevokedAll[s] ELSE session[s]]
  BY DEF SignOut, AccountsInv, TypeOK
<1>2. /\ session' \in [SessionIds -> Session]
      /\ \A x \in SessionIds :
           /\ session'[x].pw = session[x].pw /\ session'[x].late = session[x].late
           /\ session'[x].kids = session[x].kids /\ session'[x].raced = session[x].raced
           /\ session'[x].st \in {session[x].st, "revoked"}
           /\ session'[x].black = session[x].black
  BY <1>1, AllRevoked
<1>3. TypeOK' /\ faults' >= faults
  BY <1>1, <1>2 DEF TypeOK, Request, Sizes
<1>4. Moved(w) /\ job'[w] = job[w]
  BY <1>1 DEF Moved, Like
<1>5. CopyOK(job[w])' /\ JobOK(job'[w]) /\ job[w].pc = "idle"
  BY <1>1, JobAt DEF CopyOK, Counts, Request
<1>6. /\ \A s \in SessionIds : ~Refreshes(w, s)'
      /\ \A t \in TokenIds : ~Redeems(w, t)'
      /\ \A k \in {"verify", "reset"} : ~Issues(w, k)'
  BY <1>1, <1>5 DEF Refreshes, Redeems, Issues
<1> QED  BY <1>1, <1>2, <1>3, <1>4, <1>5, <1>6, OnlyEnds

\* The first of two refreshes has revoked the session in the table, unless that failed;
\* then it has put its key, and no fault is left for the second one to pass it.
LEMMA RefreshInv ==
  ASSUME Sizes, AccountsInv, NEW w \in Workers, NEW s \in SessionIds, Refresh(w, s)
  PROVE  AccountsInv'
<1>1. /\ Request(w) /\ TypeOK /\ session \in [SessionIds -> Session] /\ session[s].st # "none"
      /\ UNCHANGED <<user, token, tickets, expired, past>> /\ user \in User /\ faults \in Nat
      /\ Ignored(session[s].black)
  BY DEF Refresh, AccountsInv, TypeOK, Sizes
<1>2. session[s] \in Session /\ session[s].black \in BOOLEAN /\ session[s].kids \in Nat
  BY <1>1 DEF Session
<1>3. PICK b : b = Begin(w, "find", "none")
  OBVIOUS
<1>4. "none" \in Changes /\ "find" \in {"session", "save", "invalidate", "readuser", "find", "logout"}
  BY DEF Changes
<1>5. b \in Job /\ b.pc = "find" /\ b.change = "none" /\ b.user = user /\ b.pw = user.pw
  BY <1>3, <1>4, Begins
<1>6. s \in 0 .. MaxSessions /\ s # 0
  BY DEF SessionIds, Sizes
<1>7. PICK n : n = [b EXCEPT !.session = s]
  OBVIOUS
<1>8. /\ n \in Job /\ n.pc = "find" /\ n.change = "none" /\ n.user = user /\ n.pw = user.pw
      /\ n.session = s
  BY <1>5, <1>6, <1>7 DEF Job
<1>9. Step(w, n)
  BY <1>3, <1>7 DEF Refresh
<1>10. job' \in [Workers -> Job] /\ job'[w] = n /\ Moved(w)
  BY <1>1, <1>8, <1>9, StepMoves
<1>11. PICK raced \in BOOLEAN :
         raced = (session[s].raced \/ \E v \in Workers : Refreshes(v, s))
  OBVIOUS
<1>12. PICK o : o = [session[s] EXCEPT !.raced = raced]
  OBVIOUS
<1>13. /\ o \in Session /\ o.pw = session[s].pw /\ o.kids = session[s].kids /\ o.st = session[s].st
  BY <1>2, <1>12 DEF Session
<1>14. o.late = session[s].late /\ o.raced = raced /\ o.black = session[s].black
  BY <1>2, <1>12 DEF Session
<1>15. session' = [session EXCEPT ![s] = o]
  BY <1>11, <1>12 DEF Refresh
<1>16. /\ session' \in [SessionIds -> Session] /\ session'[s].raced = raced
       /\ \A x \in SessionIds :
            /\ session'[x].pw = session[x].pw /\ session'[x].late = session[x].late
            /\ session'[x].kids = session[x].kids /\ session'[x].st = session[x].st
            /\ session'[x].black = session[x].black
            /\ x # s => session'[x].raced = session[x].raced
  BY <1>1, <1>13, <1>14, <1>15
<1>17. /\ faults' \in 0 .. MaxFaults /\ faults' >= faults
       /\ session[s].black => faults' = faults + 1
  BY <1>1, <1>2, FaultTyped
<1>18. TypeOK' /\ faults' \in Nat
  BY <1>1, <1>10, <1>16, <1>17 DEF TypeOK, Request, Sizes
<1>19. JobOK(n) /\ job[w].pc = "idle"
  BY <1>1, <1>6, <1>8 DEF JobOK, Request
<1>20. CopyOK(job[w])'
  BY <1>1, <1>8, <1>10, FreshCopy
<1>21. JobsOK'
  BY <1>10, <1>19, JobsKept DEF AccountsInv
<1>22. Rowed'
  BY <1>1, <1>10, <1>16, <1>19, <1>20, RowKept DEF AccountsInv
<1>23. Replaced'
  <2>1. ASSUME NEW v \in Workers, NEW x \in SessionIds, Refreshes(v, x)'
        PROVE  \/ v = w /\ x = s
               \/ v # w /\ Refreshes(v, x) /\ job'[v].pc = job[v].pc
    BY <1>8, <1>10, <2>1 DEF Moved, Like, Refreshes
  <2>2. ASSUME NEW v \in Workers, NEW x \in SessionIds, Refreshes(v, x)'
        PROVE  session'[x].st # "none"
    BY <1>1, <1>16, <2>1, <2>2 DEF AccountsInv, Replaced
  <2>3. ASSUME MaxFaults <= 1, NEW x \in SessionIds, ~session'[x].raced
        PROVE  Replacing(x)'
    <3>1. Missing(x)' = Missing(x) /\ Missing(x) \in Nat
      BY <1>16 DEF Missing
    <3>2. Missing(x) <= faults => Missing(x)' <= faults'
      BY <1>1, <1>17, <1>18, <3>1
    <3>3. faults > 0 => faults' > 0
      BY <1>1, <1>17, <1>18
    <3>4. CASE x # s
      <4>1. Replacing(x) /\ session'[x].kids = session[x].kids /\ session'[x].st = session[x].st
        BY <1>16, <2>3, <3>4 DEF AccountsInv, Replaced
      <4> QED  BY <2>1, <3>2, <3>3, <3>4, <4>1 DEF Replacing, Replaces
    <3>5. CASE x = s
      <4>1. Replacing(s) /\ \A v \in Workers : ~Refreshes(v, s)
        BY <1>11, <1>16, <2>3, <3>5 DEF AccountsInv, Replaced
      <4>2. \A v \in Workers : Refreshes(v, s)' => v = w
        BY <2>1, <4>1
      <4>3. session[s].kids = 1 => session[s].st = "revoked"
        <5>1. SUFFICES ASSUME session[s].kids = 1, session[s].st # "revoked" PROVE FALSE
          OBVIOUS
        <5>2. Missing(s) <= faults
          BY <4>1, <5>1 DEF Replacing
        <5>3. faults' <= 1
          BY <1>17, <2>3 DEF Sizes
        <5>4. CASE session[s].black
          BY <1>1, <1>17, <1>18, <5>1, <5>2, <5>3, <5>4 DEF Missing
        <5>5. CASE ~session[s].black
          BY <1>1, <1>17, <1>18, <5>1, <5>2, <5>3, <5>5 DEF Missing
        <5> QED  BY <5>4, <5>5
      <4>4. Replaces(w, s)'
        BY <1>8, <1>10, <1>16, <4>3 DEF Replaces
      <4>5. session'[s].kids <= 1 /\ (session'[s].kids = 1 => Missing(s)' <= faults')
        BY <1>16, <3>2, <3>5, <4>1 DEF Replacing
      <4> QED  BY <3>5, <4>2, <4>4, <4>5 DEF Replacing
    <3> QED  BY <3>4, <3>5
  <2> QED  BY <2>2, <2>3 DEF Replaced
<1>24. /\ \A t \in TokenIds : ~Redeems(w, t)'
       /\ \A k \in {"verify", "reset"} : ~Issues(w, k)'
  BY <1>8, <1>10 DEF Redeems, Issues
<1>25. Redeemed'
  BY <1>1, <1>10, <1>24, RedeemedKept DEF AccountsInv
<1>26. Issued'
  BY <1>1, <1>10, <1>24, IssuedKept DEF AccountsInv
<1> QED  BY <1>18, <1>21, <1>22, <1>23, <1>25, <1>26 DEF AccountsInv

-----------------------------------------------------------------------------
(* Tokens sent by e-mail.                                                  *)

\* A step that changes tokens only.
LEMMA OnlyTokens ==
  ASSUME Sizes, AccountsInv, NEW w \in Workers, TypeOK', Moved(w), JobOK(job'[w]),
         CopyOK(job[w])', UNCHANGED <<user, session, past>>, faults' >= faults,
         job[w].pc # "revokeall",
         \A s \in SessionIds : ~Refreshes(w, s)',
         Redeemed', Issued'
  PROVE  AccountsInv'
<1>1. TypeOK /\ JobsOK /\ Rowed /\ Replaced
  BY DEF AccountsInv
<1>2. JobsOK'
  BY <1>1, JobsKept
<1>3. session' \in [SessionIds -> Session] /\ faults' \in Nat
  BY DEF TypeOK, Sizes
<1>4. Rowed'
  BY <1>1, <1>3, RowKept
<1>5. Replaced'
  BY <1>1, <1>3, ReplacedKept
<1> QED  BY <1>2, <1>4, <1>5 DEF AccountsInv

\* Who begins to issue a token while others issue one of the kind overlaps them all.
LEMMA BeginIssueInv ==
  ASSUME Sizes, AccountsInv, NEW w \in Workers, NEW k \in {"verify", "reset"}, BeginIssue(w, k)
  PROVE  AccountsInv'
<1>1. /\ Request(w) /\ TypeOK /\ job \in [Workers -> Job]
      /\ UNCHANGED <<user, session, token, tickets, expired, faults, past>> /\ user \in User
  BY DEF BeginIssue, AccountsInv, TypeOK
<1>2. PICK b : b = Begin(w, "invalidate", "none")
  OBVIOUS
<1>3. /\ "none" \in Changes
      /\ "invalidate" \in {"session", "save", "invalidate", "readuser", "find", "logout"}
  BY DEF Changes
<1>4. /\ b \in Job /\ b.pc = "invalidate" /\ b.user = user /\ b.pw = user.pw /\ b.session = 0
      /\ b.change = "none"
  BY <1>2, <1>3, Begins
<1>5. PICK raced \in BOOLEAN : raced = \E x \in Workers : Issues(x, k)
  OBVIOUS
<1>6. PICK n : n = [b EXCEPT !.kind = k, !.raced = raced]
  OBVIOUS
<1>7. /\ n \in Job /\ n.pc = "invalidate" /\ n.user = user /\ n.pw = user.pw /\ n.session = 0
      /\ n.kind = k
  BY <1>4, <1>6 DEF Job
<1>8. n.raced = raced
  BY <1>4, <1>6 DEF Job
<1> DEFINE New(v) == IF v = w THEN n ELSE [job[v] EXCEPT !.raced = @ \/ Issues(v, k)]
<1>9. job' = [v \in Workers |-> New(v)]
  BY <1>2, <1>5, <1>6 DEF BeginIssue
<1>10. ASSUME NEW v \in Workers, v # w
       PROVE  /\ New(v) \in Job /\ Like(job[v], New(v))
              /\ New(v).raced <=> job[v].raced \/ Issues(v, k)
  <2>1. job[v] \in Job /\ job[v].raced \in BOOLEAN
    BY <1>1 DEF Job
  <2>2. PICK r \in BOOLEAN : r = (job[v].raced \/ Issues(v, k))
    OBVIOUS
  <2>3. PICK j : j = [job[v] EXCEPT !.raced = r]
    OBVIOUS
  <2>4. New(v) = j
    BY <1>10, <2>2, <2>3
  <2>5. j \in Job
    BY <2>1, <2>3 DEF Job
  <2>6. /\ j.pc = job[v].pc /\ j.change = job[v].change /\ j.user = job[v].user
        /\ j.code = job[v].code /\ j.pw = job[v].pw /\ j.session = job[v].session
        /\ j.token = job[v].token /\ j.kind = job[v].kind
    BY <2>1, <2>3 DEF Job
  <2>7. j.alone = job[v].alone /\ j.late = job[v].late /\ j.raced = r
    BY <2>1, <2>3 DEF Job
  <2> HIDE DEF New
  <2> QED  BY <2>2, <2>4, <2>5, <2>6, <2>7 DEF Like
<1>11. New(w) = n
  OBVIOUS
<1> HIDE DEF New
<1>12. /\ job' \in [Workers -> Job] /\ job'[w] = n /\ Moved(w)
       /\ \A v \in Workers : v # w => (job'[v].raced <=> job[v].raced \/ Issues(v, k))
  BY <1>7, <1>9, <1>10, <1>11 DEF Moved
<1>13. TypeOK' /\ faults' >= faults
  BY <1>1, <1>12 DEF TypeOK, Request, Sizes
<1>14. JobOK(n) /\ job[w].pc = "idle"
  BY <1>1, <1>7 DEF JobOK, Request
<1>15. CopyOK(job[w])'
  BY <1>1, <1>7, <1>12, FreshCopy
<1>16. /\ \A s \in SessionIds : ~Refreshes(w, s)'
       /\ \A t \in TokenIds : ~Redeems(w, t)'
  BY <1>7, <1>12 DEF Refreshes, Redeems
<1>17. Redeemed'
  BY <1>1, <1>12, <1>16, RedeemedKept DEF AccountsInv
<1>18. Issued'
  <2>1. ASSUME NEW v \in Workers, v # w, NEW m \in {"verify", "reset"}
        PROVE  /\ Issues(v, m)' <=> Issues(v, m)
               /\ job'[v].pc = job[v].pc
    BY <1>12, <2>1 DEF Moved, Like, Issues
  <2>2. \A m \in {"verify", "reset"} : Issues(w, m)' <=> m = k
    BY <1>7, <1>12 DEF Issues
  <2>3. ASSUME NEW v \in Workers, NEW m \in {"verify", "reset"}, Issues(v, m)', ~job'[v].raced
        PROVE  /\ \A x \in Workers : Issues(x, m)' => x = v
               /\ job'[v].pc = "issue" =>
                    \A t \in TokenIds : token'[t].st = "live" => token'[t].kind # m
    <3>1. CASE v = w
      <4>1. m = k /\ \A x \in Workers : ~Issues(x, k)
        BY <1>5, <1>8, <1>12, <2>2, <2>3, <3>1
      <4> QED  BY <1>7, <1>12, <2>1, <3>1, <4>1
    <3>2. CASE v # w
      <4>1. Issues(v, m) /\ ~job[v].raced /\ ~Issues(v, k)
        BY <1>12, <2>1, <2>3, <3>2
      <4>2. m # k
        BY <4>1
      <4>3. \A x \in Workers : Issues(x, m)' => x = v
        BY <2>1, <2>2, <4>1, <4>2 DEF AccountsInv, Issued
      <4> QED  BY <1>1, <2>1, <3>2, <4>1, <4>3 DEF AccountsInv, Issued
    <3> QED  BY <3>1, <3>2
  <2>4. \A t, u \in TokenIds : /\ token'[t].st = "live" /\ token'[u].st = "live"
                               /\ token'[t].kind = token'[u].kind
                               /\ ~token'[t].raced /\ ~token'[u].raced
                               => t = u
    BY <1>1 DEF AccountsInv, Issued
  <2> QED  BY <2>3, <2>4 DEF Issued
<1> QED  BY <1>1, <1>7, <1>12, <1>13, <1>14, <1>15, <1>16, <1>17, <1>18, OnlyTokens

LEMMA InvalidateInv ==
  ASSUME Sizes, AccountsInv, NEW w \in Workers, Invalidate(w)
  PROVE  AccountsInv'
<1> DEFINE r == job[w]
<1>1. /\ r.pc = "invalidate" /\ TypeOK /\ r \in Job /\ JobOK(r)
      /\ token \in [TokenIds -> Token]
      /\ UNCHANGED <<user, session, tickets, expired, requests, past>>
  BY JobAt DEF Invalidate, TypeOK
<1>2. PICK e \in BOOLEAN :
        /\ Ignored(e)
        /\ token' = [t \in TokenIds |-> IF ~e /\ t \in Invalidated(r.kind)
                                        THEN [token[t] EXCEPT !.st = "deleted"] ELSE token[t]]
        /\ Step(w, [r EXCEPT !.pc = "issue", !.raced = @ \/ e])
  BY DEF Invalidate
<1>3. r.kind \in {"verify", "reset"} /\ r.raced \in BOOLEAN
  BY <1>1 DEF Job
<1>4. PICK raced \in BOOLEAN : raced = (r.raced \/ e)
  OBVIOUS
<1>5. PICK n : n = [r EXCEPT !.pc = "issue", !.raced = raced]
  OBVIOUS
<1>6. /\ n \in Job /\ n.pc = "issue" /\ n.user = r.user /\ n.pw = r.pw /\ n.kind = r.kind
      /\ n.session = r.session
  BY <1>1, <1>5 DEF Job
<1>7. n.raced = raced /\ n.late = r.late /\ n.alone = r.alone
  BY <1>1, <1>5 DEF Job
<1>8. Step(w, n)
  BY <1>2, <1>4, <1>5
<1>9. job' \in [Workers -> Job] /\ job'[w] = n /\ Moved(w)
  BY <1>1, <1>6, <1>8, StepMoves
<1> DEFINE New(t) == IF ~e /\ t \in Invalidated(r.kind)
                     THEN [token[t] EXCEPT !.st = "deleted"] ELSE token[t]
<1>10. ASSUME NEW t \in TokenIds
       PROVE  /\ New(t) \in Token /\ New(t).kind = token[t].kind
              /\ New(t).uses = token[t].uses /\ New(t).raced = token[t].raced
              /\ New(t).st = token[t].st \/ (token[t].st = "live" /\ New(t).st = "deleted")
              /\ ~e => ~(New(t).st = "live" /\ New(t).kind = r.kind)
  <2>1. token[t] \in Token
    BY <1>1
  <2>2. CASE ~e /\ t \in Invalidated(r.kind)
    <3>1. PICK x : x = [token[t] EXCEPT !.st = "deleted"]
      OBVIOUS
    <3>2. x \in Token /\ x.kind = token[t].kind /\ x.uses = token[t].uses /\ x.st = "deleted"
      BY <2>1, <3>1 DEF Token
    <3>3. x.raced = token[t].raced
      BY <2>1, <3>1 DEF Token
    <3>4. New(t) = x
      BY <2>2, <3>1
    <3>5. token[t].st = "live"
      BY <2>2 DEF Invalidated, Live
    <3> HIDE DEF New
    <3> QED  BY <3>2, <3>3, <3>4, <3>5
  <2>3. CASE ~(~e /\ t \in Invalidated(r.kind))
    <3>1. New(t) = token[t]
      BY <2>3
    <3>2. ~e => ~(token[t].st = "live" /\ token[t].kind = r.kind)
      BY <1>1, <2>3 DEF Invalidated, Live
    <3> HIDE DEF New
    <3> QED  BY <2>1, <3>1, <3>2
  <2> QED  BY <2>2, <2>3
<1>11. token' = [t \in TokenIds |-> New(t)]
  BY <1>2
<1> HIDE DEF New
<1>12. /\ token' \in [TokenIds -> Token]
       /\ \A t \in TokenIds :
            /\ token'[t].kind = token[t].kind
            /\ token'[t].uses = token[t].uses /\ token'[t].raced = token[t].raced
            /\ token'[t].st = token[t].st \/ (token[t].st = "live" /\ token'[t].st = "deleted")
            /\ ~e => ~(token'[t].st = "live" /\ token'[t].kind = r.kind)
  BY <1>10, <1>11
<1>13. faults' \in 0 .. MaxFaults /\ faults' >= faults
  BY <1>1, <1>2, FaultTyped
<1>14. TypeOK'
  BY <1>1, <1>9, <1>12, <1>13 DEF TypeOK
<1>15. JobOK(n)
  BY <1>6 DEF JobOK
<1>16. CopyOK(job[w])'
  <2>1. Busy(r)
    BY <1>1 DEF Busy
  <2> QED  BY <1>1, <1>6, <1>7, <1>9, <2>1, CopyGoesOn
<1>17. /\ \A s \in SessionIds : ~Refreshes(w, s)'
       /\ \A t \in TokenIds : ~Redeems(w, t)'
  BY <1>6, <1>9 DEF Refreshes, Redeems
<1>18. Redeemed'
  BY <1>9, <1>12, <1>17, RedeemedKept DEF AccountsInv
<1>19. Issued'
  <2>1. ASSUME NEW v \in Workers, NEW m \in {"verify", "reset"}, Issues(v, m)', ~job'[v].raced
        PROVE  Issues(v, m) /\ ~job[v].raced /\ (v # w => job'[v].pc = job[v].pc)
    BY <1>1, <1>4, <1>6, <1>7, <1>9, <2>1 DEF Moved, Like, Issues
  <2>2. ASSUME NEW v \in Workers, NEW m \in {"verify", "reset"}, Issues(v, m)'
        PROVE  Issues(v, m)
    BY <1>1, <1>6, <1>9, <2>2 DEF Moved, Like, Issues
  <2>3. ASSUME NEW v \in Workers, NEW m \in {"verify", "reset"}, Issues(v, m)', ~job'[v].raced
        PROVE  /\ \A x \in Workers : Issues(x, m)' => x = v
               /\ job'[v].pc = "issue" =>
                    \A t \in TokenIds : token'[t].st = "live" => token'[t].kind # m
    <3>1. \A x \in Workers : Issues(x, m)' => x = v
      BY <2>1, <2>2, <2>3 DEF AccountsInv, Issued
    <3>2. CASE v = w
      <4>1. m = r.kind /\ ~e
        BY <1>4, <1>6, <1>7, <1>9, <2>3, <3>2 DEF Issues
      <4> QED  BY <1>12, <3>1, <4>1
    <3>3. CASE v # w
      <4>1. job[v].pc = "issue" => \A t \in TokenIds : token[t].st = "live" => token[t].kind # m
        BY <2>1, <2>3 DEF AccountsInv, Issued
      <4> QED  BY <1>12, <2>1, <2>3, <3>1, <3>3, <4>1
    <3> QED  BY <3>2, <3>3
  <2>4. \A t, u \in TokenIds : /\ token'[t].st = "live" /\ token'[u].st = "live"
                               /\ token'[t].kind = token'[u].kind
                               /\ ~token'[t].raced /\ ~token'[u].raced
                               => t = u
    BY <1>12 DEF AccountsInv, Issued
  <2> QED  BY <2>3, <2>4 DEF Issued
<1> QED  BY <1>1, <1>9, <1>13, <1>14, <1>15, <1>16, <1>17, <1>18, <1>19, OnlyTokens

LEMMA IssueInv ==
  ASSUME Sizes, AccountsInv, NEW w \in Workers, Issue(w)
  PROVE  AccountsInv'
<1> DEFINE r == job[w]
<1>1. /\ r.pc = "issue" /\ TypeOK /\ r \in Job /\ token \in [TokenIds -> Token]
      /\ UNCHANGED <<user, session, tickets, expired, requests, faults, past>> /\ Step(w, Idle)
  BY JobAt DEF Issue, TypeOK
<1>2. r.kind \in {"verify", "reset"} /\ r.raced \in BOOLEAN
  BY <1>1 DEF Job
<1>3. PICK n : n = [NoToken EXCEPT !.st = "live", !.kind = r.kind, !.raced = r.raced]
  OBVIOUS
<1>4. PICK t \in TokenIds : IsNext(token, t) /\ token' = [token EXCEPT ![t] = n]
  BY <1>3 DEF Issue
<1>5. NoToken \in Token /\ NoToken.uses = 0
  BY Typed DEF NoToken
<1>6. n \in Token /\ n.st = "live" /\ n.kind = r.kind /\ n.uses = 0
  BY <1>2, <1>3, <1>5 DEF Token
<1>7. n.raced = r.raced
  BY <1>2, <1>3, <1>5 DEF Token
<1>8. /\ token' \in [TokenIds -> Token] /\ token'[t] = n /\ token[t].st = "none"
      /\ \A x \in TokenIds : x # t => token'[x] = token[x]
  BY <1>1, <1>4, <1>6 DEF IsNext
<1>9. job' \in [Workers -> Job] /\ job'[w] = Idle /\ Moved(w)
  BY <1>1, Typed, StepMoves
<1>10. TypeOK' /\ faults' >= faults
  BY <1>1, <1>8, <1>9 DEF TypeOK
<1>11. CopyOK(job[w])'
  BY <1>9, <1>10, NoCopy
<1>12. ASSUME NEW v \in Workers, v # w
       PROVE  /\ \A x \in TokenIds : Redeems(v, x)' <=> Redeems(v, x)
              /\ \A m \in {"verify", "reset"} : Issues(v, m)' <=> Issues(v, m)
              /\ job'[v].pc = job[v].pc /\ (job[v].raced => job'[v].raced)
  BY <1>9, <1>12 DEF Moved, Like, Redeems, Issues
<1>13. /\ \A s \in SessionIds : ~Refreshes(w, s)'
       /\ \A x \in TokenIds : ~Redeems(w, x)'
       /\ \A m \in {"verify", "reset"} : ~Issues(w, m)'
  BY <1>9, EndsOK
<1>14. Redeemed'
  <2>1. ASSUME NEW v \in Workers, NEW x \in TokenIds, Redeems(v, x)'
        PROVE  Redeems(v, x) /\ x # t /\ token'[x] = token[x]
    BY <1>8, <1>12, <1>13, <2>1 DEF AccountsInv, Redeemed
  <2>2. ASSUME NEW x \in TokenIds, ~token'[x].raced PROVE Redeeming(x)'
    <3>1. CASE x = t
      BY <1>6, <1>8, <2>1, <3>1 DEF Redeeming
    <3>2. CASE x # t
      BY <1>8, <2>1, <2>2, <3>2 DEF AccountsInv, Redeemed, Redeeming
    <3> QED  BY <3>1, <3>2
  <2> QED  BY <2>1, <2>2 DEF AccountsInv, Redeemed
<1>15. Issued'
  <2>1. Issues(w, r.kind)
    BY <1>1 DEF Issues
  <2>2. ~r.raced => \A x \in TokenIds : token[x].st = "live" => token[x].kind # r.kind
    BY <1>1, <1>2, <2>1 DEF AccountsInv, Issued
  <2>3. \A x, u \in TokenIds : /\ token'[x].st = "live" /\ token'[u].st = "live"
                               /\ token'[x].kind = token'[u].kind
                               /\ ~token'[x].raced /\ ~token'[u].raced
                               => x = u
    BY <1>6, <1>7, <1>8, <2>2 DEF AccountsInv, Issued
  <2>4. ASSUME NEW v \in Workers, NEW m \in {"verify", "reset"}, Issues(v, m)', ~job'[v].raced
        PROVE  /\ \A x \in Workers : Issues(x, m)' => x = v
               /\ job'[v].pc = "issue" =>
                    \A x \in TokenIds : token'[x].st = "live" => token'[x].kind # m
    <3>1. v # w /\ Issues(v, m) /\ ~job[v].raced /\ job'[v].pc = job[v].pc
      BY <1>12, <1>13, <2>4
    <3>2. m # r.kind
      BY <2>1, <3>1 DEF AccountsInv, Issued
    <3>3. \A x \in Workers : Issues(x, m)' => x = v
      BY <1>12, <1>13, <3>1 DEF AccountsInv, Issued
    <3> QED  BY <1>6, <1>8, <3>1, <3>2, <3>3 DEF AccountsInv, Issued
  <2> QED  BY <2>3, <2>4 DEF Issued
<1> QED  BY <1>1, <1>9, <1>10, <1>11, <1>13, <1>14, <1>15, EndsOK, OnlyTokens

LEMMA RedeemInv ==
  ASSUME Sizes, AccountsInv, NEW w \in Workers, NEW t \in TokenIds, Redeem(w, t)
  PROVE  AccountsInv'
<1>1. /\ Request(w) /\ TypeOK /\ token \in [TokenIds -> Token] /\ token[t].st = "live"
      /\ UNCHANGED <<user, session, tickets, expired, faults, past>> /\ user \in User
  BY DEF Redeem, AccountsInv, TypeOK
<1>2. token[t] \in Token /\ token[t].kind \in {"verify", "reset"}
  BY <1>1 DEF Token
<1>3. PICK b : b = Begin(w, "readuser", token[t].kind)
  OBVIOUS
<1>4. /\ token[t].kind \in Changes
      /\ "readuser" \in {"session", "save", "invalidate", "readuser", "find", "logout"}
  BY <1>2 DEF Changes
<1>5. b \in Job /\ b.pc = "readuser" /\ b.user = user /\ b.pw = user.pw /\ b.session = 0
  BY <1>3, <1>4, Begins
<1>6. t \in 0 .. MaxTokens /\ t # 0
  BY DEF TokenIds, Sizes
<1>7. PICK n : n = [b EXCEPT !.token = t]
  OBVIOUS
<1>8. /\ n \in Job /\ n.pc = "readuser" /\ n.user = user /\ n.pw = user.pw /\ n.session = 0
      /\ n.token = t
  BY <1>5, <1>6, <1>7 DEF Job
<1>9. Step(w, n)
  BY <1>3, <1>7 DEF Redeem
<1>10. job' \in [Workers -> Job] /\ job'[w] = n /\ Moved(w)
  BY <1>1, <1>8, <1>9, StepMoves
<1>11. PICK raced \in BOOLEAN : raced = (token[t].raced \/ \E v \in Workers : Redeems(v, t))
  OBVIOUS
<1>12. PICK o : o = [token[t] EXCEPT !.raced = raced]
  OBVIOUS
<1>13. o \in Token /\ o.st = token[t].st /\ o.kind = token[t].kind /\ o.uses = token[t].uses
  BY <1>2, <1>12 DEF Token
<1>14. o.raced = raced
  BY <1>2, <1>12 DEF Token
<1>15. token' = [token EXCEPT ![t] = o]
  BY <1>11, <1>12 DEF Redeem
<1>16. /\ token' \in [TokenIds -> Token] /\ token'[t].raced = raced
       /\ \A x \in TokenIds :
            /\ token'[x].st = token[x].st /\ token'[x].kind = token[x].kind
            /\ token'[x].uses = token[x].uses
            /\ x # t => token'[x].raced = token[x].raced
  BY <1>1, <1>13, <1>14, <1>15
<1>17. TypeOK' /\ faults' >= faults
  BY <1>1, <1>10, <1>16 DEF TypeOK, Request, Sizes
<1>18. JobOK(n) /\ job[w].pc = "idle"
  BY <1>1, <1>6, <1>8 DEF JobOK, Request
<1>19. CopyOK(job[w])'
  BY <1>1, <1>8, <1>10, FreshCopy
<1>20. /\ \A s \in SessionIds : ~Refreshes(w, s)'
       /\ \A m \in {"verify", "reset"} : ~Issues(w, m)'
  BY <1>8, <1>10 DEF Refreshes, Issues
<1>21. Redeemed'
  <2>1. ASSUME NEW v \in Workers, NEW x \in TokenIds, Redeems(v, x)'
        PROVE  \/ v = w /\ x = t
               \/ v # w /\ Redeems(v, x)
    BY <1>8, <1>10, <2>1 DEF Moved, Like, Redeems
  <2>2. ASSUME NEW x \in TokenIds, ~token'[x].raced PROVE Redeeming(x)'
    <3>1. CASE x = t
      <4>1. ~token[t].raced /\ \A v \in Workers : ~Redeems(v, t)
        BY <1>11, <1>16, <2>2, <3>1
      <4>2. Redeeming(t) /\ token[t].uses = 0
        BY <1>1, <4>1 DEF AccountsInv, Redeemed, Redeeming
      <4> QED  BY <1>16, <2>1, <3>1, <4>1, <4>2 DEF Redeeming
    <3>2. CASE x # t
      <4>1. Redeeming(x)
        BY <1>16, <2>2, <3>2 DEF AccountsInv, Redeemed
      <4> QED  BY <1>16, <2>1, <3>2, <4>1 DEF Redeeming
    <3> QED  BY <3>1, <3>2
  <2>3. ASSUME NEW v \in Workers, NEW x \in TokenIds, Redeems(v, x)'
        PROVE  token'[x].st # "none"
    BY <1>1, <1>16, <2>1, <2>3 DEF AccountsInv, Redeemed
  <2> QED  BY <2>2, <2>3 DEF Redeemed
<1>22. Issued'
  <2>1. token[t].raced => token'[t].raced
    BY <1>11, <1>16
  <2>2. \A x \in TokenIds : token'[x].st = "live" =>
          /\ token[x].st = "live" /\ token'[x].kind = token[x].kind
          /\ token[x].raced => token'[x].raced
    BY <1>16, <2>1
  <2> QED  BY <1>10, <1>20, <2>2, IssuedKept DEF AccountsInv
<1> QED  BY <1>1, <1>10, <1>17, <1>18, <1>19, <1>20, <1>21, <1>22, OnlyTokens

LEMMA MarkUsedInv ==
  ASSUME Sizes, AccountsInv, NEW w \in Workers, MarkUsed(w)
  PROVE  AccountsInv'
<1> DEFINE r == job[w]
<1>1. /\ r.pc = "mark" /\ TypeOK /\ r \in Job /\ JobOK(r) /\ token \in [TokenIds -> Token]
      /\ token' = Used(r.token) /\ Goto(w, "save")
      /\ UNCHANGED <<user, session, tickets, expired, requests, faults, past>>
  BY JobAt DEF MarkUsed, TypeOK
<1>2. PICK t \in TokenIds : t = r.token
  BY <1>1, JobAt DEF JobOK
<1>3. token[t] \in Token /\ token[t].uses \in Nat /\ token[t].st \in {"none", "live", "used", "deleted"}
  BY <1>1 DEF Token
<1>4. PICK st \in {"used", "deleted"} : st = IF token[t].st = "deleted" THEN token[t].st ELSE "used"
  OBVIOUS
<1>5. PICK o : o = [token[t] EXCEPT !.uses = token[t].uses + 1, !.st = st]
  OBVIOUS
<1>6. o \in Token /\ o.st = st /\ o.kind = token[t].kind /\ o.uses = token[t].uses + 1
  <2>1. PICK u \in Nat : u = token[t].uses + 1
    BY <1>3
  <2>2. st \in {"none", "live", "used", "deleted"}
    OBVIOUS
  <2>3. o = [token[t] EXCEPT !.uses = u, !.st = st]
    BY <1>5, <2>1
  <2>4. o.st = st /\ o.uses = u /\ o.kind = token[t].kind
    BY <1>3, <2>3 DEF Token
  <2>5. o \in Token
    BY <1>3, <2>2, <2>3 DEF Token
  <2> QED  BY <2>1, <2>4, <2>5
<1>7. o.raced = token[t].raced
  BY <1>3, <1>5 DEF Token
<1>8. token' \in [TokenIds -> Token] /\ token'[t] = o
      /\ \A x \in TokenIds : x # t => token'[x] = token[x]
  <2>1. token' = [token EXCEPT ![t].uses = @ + 1, ![t].st = IF @ = "deleted" THEN @ ELSE "used"]
    BY <1>1, <1>2 DEF Used
  <2>2. token'[t] = o /\ \A x \in TokenIds : x # t => token'[x] = token[x]
    BY <1>1, <1>3, <1>4, <1>5, <2>1 DEF Token
  <2>3. token' = [x \in TokenIds |-> token'[x]]
    BY <1>1, <2>1
  <2> QED  BY <1>1, <1>6, <2>2, <2>3
<1>9. PICK n : n = [r EXCEPT !.pc = "save"]
  OBVIOUS
<1>10. /\ n \in Job /\ n.pc = "save" /\ n.user = r.user /\ n.pw = r.pw
       /\ n.session = r.session
  BY <1>1, <1>9 DEF Job
<1>11. n.late = r.late /\ n.alone = r.alone
  BY <1>1, <1>9 DEF Job
<1>12. Step(w, n)
  BY <1>1, <1>9 DEF Goto
<1>13. job' \in [Workers -> Job] /\ job'[w] = n /\ Moved(w)
  BY <1>1, <1>10, <1>12, StepMoves
<1>14. TypeOK' /\ faults' >= faults
  BY <1>1, <1>8, <1>13 DEF TypeOK
<1>15. JobOK(n)
  BY <1>1, <1>10 DEF JobOK
<1>16. CopyOK(job[w])'
  <2>1. Busy(r)
    BY <1>1 DEF Busy
  <2> QED  BY <1>1, <1>10, <1>11, <1>13, <2>1, CopyGoesOn
<1>17. /\ \A s \in SessionIds : ~Refreshes(w, s)'
       /\ \A x \in TokenIds : ~Redeems(w, x)'
       /\ \A m \in {"verify", "reset"} : ~Issues(w, m)'
  BY <1>10, <1>13 DEF Refreshes, Redeems, Issues
<1>18. Redeemed'
  <2>1. ASSUME NEW v \in Workers, NEW x \in TokenIds, Redeems(v, x)'
        PROVE  v # w /\ Redeems(v, x)
    BY <1>13, <1>17, <2>1 DEF Moved, Like, Redeems
  <2>2. Redeems(w, t)
    BY <1>1, <1>2 DEF Redeems
  <2>3. ASSUME NEW x \in TokenIds, ~token'[x].raced PROVE Redeeming(x)'
    <3>1. CASE x = t
      <4>1. Redeeming(t)
        BY <1>7, <1>8, <2>3, <3>1 DEF AccountsInv, Redeemed
      <4>2. token'[t].uses = 1 /\ token'[t].st \in {"used", "deleted"}
        BY <1>6, <1>8, <2>2, <4>1 DEF Redeeming
      <4>3. \A v \in Workers : ~Redeems(v, t)'
        BY <2>1, <2>2, <4>1 DEF Redeeming
      <4> QED  BY <3>1, <4>2, <4>3 DEF Redeeming
    <3>2. CASE x # t
      <4>1. Redeeming(x) /\ token'[x] = token[x]
        BY <1>8, <2>3, <3>2 DEF AccountsInv, Redeemed
      <4> QED  BY <2>1, <3>2, <4>1 DEF Redeeming
    <3> QED  BY <3>1, <3>2
  <2>4. ASSUME NEW v \in Workers, NEW x \in TokenIds, Redeems(v, x)'
        PROVE  token'[x].st # "none"
    BY <1>6, <1>8, <2>1, <2>4 DEF AccountsInv, Redeemed
  <2> QED  BY <2>3, <2>4 DEF Redeemed
<1>19. Issued'
  <2>1. \A x \in TokenIds : token'[x].st = "live" =>
          /\ token[x].st = "live" /\ token'[x].kind = token[x].kind
          /\ token[x].raced => token'[x].raced
    BY <1>6, <1>8
  <2> QED  BY <1>13, <1>17, <2>1, IssuedKept DEF AccountsInv
<1> QED  BY <1>1, <1>13, <1>14, <1>15, <1>16, <1>17, <1>18, <1>19, OnlyTokens

-----------------------------------------------------------------------------
(* The theorems.                                                           *)

LEMMA InitInv == ASSUME Sizes, Init PROVE AccountsInv
<1>1. NewUser \in User /\ Idle \in Job /\ NoSession \in Session /\ NoToken \in Token
  BY Typed
<1>2. user \in User /\ user.failed = 0 /\ user.lock = 0 /\ user.pw = 0
  <2>1. CASE user = NewUser
    BY <1>1, <2>1 DEF NewUser
  <2>2. CASE user = [NewUser EXCEPT !.verified = TRUE, !.mfa = "on", !.codes = Codes]
    <3>1. user.failed = 0 /\ user.lock = 0 /\ user.pw = 0
      BY <2>2 DEF NewUser
    <3>2. user \in User
      BY <1>1, <2>2 DEF User
    <3> QED  BY <3>1, <3>2
  <2> QED  BY <2>1, <2>2 DEF Init
<1>3. PICK first : first = [NoSession EXCEPT !.st = "live"]
  OBVIOUS
<1>4. /\ first \in Session /\ first.st = "live" /\ first.pw = 0 /\ first.kids = 0
      /\ NoSession.st = "none" /\ NoSession.kids = 0
  BY <1>1, <1>3 DEF NoSession, Session
<1>5. /\ session \in [SessionIds -> Session]
      /\ \A s \in SessionIds :
           session[s].kids = 0 /\ (session[s].st = "live" => session[s].pw = 0)
  BY <1>1, <1>3, <1>4 DEF Init
<1>6. token \in [TokenIds -> Token] /\ \A t \in TokenIds : token[t].st = "none" /\ token[t].uses = 0
  BY <1>1 DEF Init, NoToken
<1>7. past \in Past /\ past.row = user /\ past.lost = FALSE /\ past.wrong = 0
  BY <1>2 DEF Init, Past
<1>8. TypeOK
  BY <1>1, <1>2, <1>5, <1>6, <1>7 DEF Init, TypeOK, Sizes
<1>9. \A w \in Workers : job[w] = Idle
  BY DEF Init
<1>10. JobsOK
  BY <1>9, IdleOK DEF JobsOK
<1>11. Rowed
  <2>1. NoLostChange /\ NeverLockedTooEarly
    BY <1>2, <1>7 DEF NoLostChange, NeverLockedTooEarly
  <2>2. SessionsOfToday
    BY <1>2, <1>5, <1>7 DEF SessionsOfToday, Live
  <2>3. Counts(NewUser)
    BY <1>8, NewCounts
  <2>4. \A w \in Workers : CopyOK(job[w])
    BY <1>9, <2>3, IdleOK DEF CopyOK, Busy
  <2> QED  BY <2>1, <2>2, <2>4 DEF Rowed
<1>12. /\ \A w \in Workers, s \in SessionIds : ~Refreshes(w, s)
       /\ \A w \in Workers, t \in TokenIds : ~Redeems(w, t)
       /\ \A w \in Workers, k \in {"verify", "reset"} : ~Issues(w, k)
  BY <1>9, IdleOK DEF Refreshes, Redeems, Issues
<1>13. Replaced
  BY <1>5, <1>12 DEF Replaced, Replacing
<1>14. Redeemed
  BY <1>6, <1>12 DEF Redeemed, Redeeming
<1>15. Issued
  BY <1>6, <1>12 DEF Issued
<1> QED  BY <1>8, <1>10, <1>11, <1>13, <1>14, <1>15 DEF AccountsInv

LEMMA NextInv == ASSUME Sizes, AccountsInv, [Next]_vars PROVE AccountsInv'
<1>1. ASSUME NEW w \in Workers, NEW right \in BOOLEAN, Login(w, right) PROVE AccountsInv'
  BY <1>1, LoginInv
<1>2. ASSUME NEW w \in Workers, NEW pw \in tickets, NEW code \in Codes \cup {"totp", "wrong"},
             VerifyMFALogin(w, pw, code)
      PROVE  AccountsInv'
  BY <1>2, VerifyMFALoginInv
<1>3. ASSUME NEW w \in Workers, SaveUser(w) \/ CodeNotSaved(w) \/ CreateSession(w)
      PROVE  AccountsInv'
  BY <1>3, SaveUserInv, CodeNotSavedInv, CreateSessionInv
<1>4. ASSUME NEW w \in Workers, NEW s \in SessionIds,
             Refresh(w, s) \/ Logout(w, s) \/ SignOut(w, {s})
      PROVE  AccountsInv'
  <2>1. {s} \in SUBSET SessionIds
    OBVIOUS
  <2> QED  BY <1>4, <2>1, RefreshInv, LogoutInv, SignOutInv
<1>5. ASSUME NEW w \in Workers, SignOut(w, SessionIds) PROVE AccountsInv'
  BY <1>5, SignOutInv
<1>6. ASSUME NEW w \in Workers,
             FindSession(w) \/ RevokeOld(w) \/ Blacklist(w) \/ LogoutRevokes(w) \/ RevokeAll(w)
      PROVE  AccountsInv'
  BY <1>6, FindSessionInv, RevokeOldInv, BlacklistInv, LogoutRevokesInv, RevokeAllInv
<1>7. ASSUME NEW w \in Workers, NEW k \in {"verify", "reset"}, BeginIssue(w, k)
      PROVE  AccountsInv'
  BY <1>7, BeginIssueInv
<1>8. ASSUME NEW w \in Workers, NEW t \in TokenIds, Redeem(w, t) PROVE AccountsInv'
  BY <1>8, RedeemInv
<1>9. ASSUME NEW w \in Workers, Invalidate(w) \/ Issue(w) \/ ReadUser(w) \/ MarkUsed(w)
      PROVE  AccountsInv'
  BY <1>9, InvalidateInv, IssueInv, ReadUserInv, MarkUsedInv
<1>10. ASSUME NEW w \in Workers,
              NEW change \in {"change", "profile", "enroll", "confirm", "mfaoff"}, Edit(w, change)
       PROVE  AccountsInv'
  BY <1>10, EditInv
<1>11. ASSUME NEW w \in Workers, Crash(w) PROVE AccountsInv'
  BY <1>11, CrashInv
<1> QED  BY <1>1, <1>2, <1>3, <1>4, <1>5, <1>6, <1>7, <1>8, <1>9, <1>10, <1>11, TimeInv DEF Next

LEMMA AlwaysInv == ASSUME Sizes PROVE Spec => []AccountsInv
<1>1. Init => AccountsInv
  BY InitInv
<1>2. AccountsInv /\ [Next]_vars => AccountsInv'
  BY NextInv
<1> QED  BY <1>1, <1>2, PTL DEF Spec

LEMMA InvSays == AccountsInv => AccountKeepsChanges /\ CredentialsEnd
<1> SUFFICES ASSUME AccountsInv PROVE AccountKeepsChanges /\ CredentialsEnd
  OBVIOUS
<1>1. AccountKeepsChanges /\ SessionsOfToday
  BY DEF AccountsInv, Rowed, AccountKeepsChanges
<1>2. ReplacedOnce
  BY DEF AccountsInv, Replaced, Replacing, ReplacedOnce
<1>3. \A t : t \in Live(token) => t \in TokenIds /\ token[t].st = "live"
  BY DEF AccountsInv, TypeOK, Live
<1>4. TokenOnce
  BY <1>3 DEF AccountsInv, Redeemed, Redeeming, Issued, TokenOnce
<1> QED  BY <1>1, <1>2, <1>4 DEF CredentialsEnd

\* The row of the user has every change that was made, unless a request saved the row
\* from a copy that another had changed since it was read (GORM's Save writes every
\* column); and even then it is locked only after MAX_FAILED_LOGINS logins have failed.
THEOREM RowsKeepChanges == ASSUME Sizes PROVE Spec => []AccountKeepsChanges
  BY InvSays, AlwaysInv, PTL

\* After ResetPassword or ChangePassword no live session goes back to an older password
\* but those of requests that overlapped the change; a session is replaced once by
\* RefreshToken unless two refreshes overlapped, with one fault at most; a token of
\* ForgotPassword or of a verification is redeemed once, and a new one leaves no other,
\* unless two requests were at it.
THEOREM CredentialsDoEnd == ASSUME Sizes PROVE Spec => []CredentialsEnd
  BY InvSays, AlwaysInv, PTL

-----------------------------------------------------------------------------
(* Enrichment: the batches, the roles and the credits.                     *)

CONSTANTS Companies, TargetRoles, People, TitleOf, Exact, Overlap, Limit, MaxReveals, MaxRuns
VARIABLES order, batch, pc, people, records, reveals, runs, enriched, clean
E == INSTANCE Enrichment

\* The limits are numbers, the checklist is a list, and Nobody is nobody.
EnrichSizes ==
  /\ IsFiniteSet(Companies) /\ IsFiniteSet(People) /\ Len(TargetRoles) \in Nat /\ E!Nobody \notin People
  /\ Limit \in Nat /\ MaxReveals \in Nat /\ MaxRuns \in Nat

\* Whoever is searched for is at the head of the batch, and starts without records.
InTurn ==
  /\ pc = "idle" => batch = <<>>
  /\ pc \in {"search", "match", "reveal"} => batch # <<>>
  /\ pc \in {"idle", "enrich", "search"} => records = <<>> /\ reveals = 0
\* What is paid for is what was counted, or is about to be; who was found and is not
\* paid for came when the credits were spent.
Paid == {i \in DOMAIN records : records[i].paid}
Credited ==
  /\ Cardinality(Paid) = reveals + (IF pc = "reveal" THEN 1 ELSE 0)
  /\ Cardinality(Paid) <= MaxReveals
  /\ \A i \in DOMAIN records : records[i].person # E!Nobody /\ i \notin Paid => reveals >= MaxReveals
\* As long as all are known, what is left of a batch is what is next in the order, and
\* as many as were taken out of batches have gone to its end.
Rest == IF pc \in {"search", "match", "reveal"} THEN Tail(batch) ELSE batch
Taken == runs * E!BatchSize - Len(Rest)
InOrder ==
  clean =>
    /\ Len(Rest) <= Len(order) /\ \A i \in DOMAIN Rest : Rest[i] = order[i]
    /\ \A i \in DOMAIN order : i + Taken > Len(order) => order[i] \in enriched
EnrichInv ==
  /\ E!TypeOK /\ InTurn /\ E!OnePersonPerRole /\ E!NoneLeftOut
  /\ Credited /\ E!CreditsBounded /\ InOrder

\* The instance counts as everybody does.
LEMMA CountsAlike == \A S : E!Cardinality(S) = Cardinality(S)
  BY Zenon DEF E!Cardinality, Cardinality

\* A set of naturals that is not empty has a least element.
LEMMA LeastIsIn ==
  ASSUME NEW S \in SUBSET Nat, S # {}
  PROVE  E!Min(S) \in S /\ \A i \in S : E!Min(S) <= i
<1> DEFINE Less == {p \in Nat \X Nat : p[1] < p[2]}
<1>1. IsWellFoundedOn(Less, Nat)
  BY NatLessThanWellFounded DEF OpToRel
<1>2. PICK n \in S : \A i \in S : ~(<<i, n>> \in Less)
  <2> HIDE DEF Less
  <2>1. \E x \in S : \A y \in S : ~(<<y, x>> \in Less)
    BY ONLY <1>1, S \subseteq Nat, S # {}, WFMin, Zenon
  <2> QED  BY <2>1
<1>3. ASSUME NEW i \in S PROVE n <= i
  <2>1. i \in Nat /\ n \in Nat /\ (i < n => <<i, n>> \in Less)
    OBVIOUS
  <2> QED  BY <1>2, <2>1
<1> QED  BY <1>3, Zenon DEF E!Min

\* Who is chosen is among those found, fits, and has no role yet; nobody is chosen
\* only if nobody is left who fits.
LEMMA BestIsFree ==
  ASSUME E!TypeOK, EnrichSizes
  PROVE  \/ /\ E!Best \in People /\ E!Best # E!Nobody /\ E!Best \notin E!Assigned
         \/ /\ E!Best = E!Nobody
            /\ \A p \in E!ToSet(people) : <<E!Role, TitleOf[p]>> \in Exact \cup Overlap => p \in E!Assigned
<1>1. people \in Seq(People) /\ DOMAIN people \subseteq Nat /\ \A i \in DOMAIN people : people[i] \in People
  BY DEF E!TypeOK
<1>2. ASSUME NEW R, E!Free(R) # {}
      PROVE  LET p == people[E!Min(E!Free(R))] IN p \in People /\ p # E!Nobody /\ p \notin E!Assigned
  <2>1. E!Free(R) \in SUBSET Nat
    BY <1>1 DEF E!Free
  <2>2. E!Min(E!Free(R)) \in E!Free(R)
    BY <1>2, <2>1, LeastIsIn
  <2> QED  BY <1>1, <2>2 DEF E!Free, EnrichSizes
<1>3. CASE E!Free(Exact) # {}
  BY <1>2, <1>3 DEF E!Best
<1>4. CASE E!Free(Exact) = {} /\ E!Free(Overlap) # {}
  BY <1>2, <1>4 DEF E!Best
<1>5. CASE E!Free(Exact) = {} /\ E!Free(Overlap) = {}
  BY <1>5, Zenon DEF E!Best, E!Free, E!Fits, E!ToSet
<1> QED  BY <1>3, <1>4, <1>5

\* At first all are in their order, each once, and nothing is known of any.
LEMMA InitEnrich == ASSUME EnrichSizes PROVE E!Init => EnrichInv
<1> SUFFICES ASSUME E!Init PROVE EnrichInv
  OBVIOUS
<1> DEFINE n == Cardinality(Companies)
<1>1. n \in Nat /\ order \in [1 .. n -> Companies] /\ \A i, j \in 1 .. n : i # j => order[i] # order[j]
  BY FS_CardinalityType, CountsAlike DEF E!Init, E!SetToSeqs, EnrichSizes
<1>2. order \in Seq(Companies) /\ Len(order) = n /\ DOMAIN order = 1 .. n /\ E!IsInjective(order)
  BY <1>1 DEF E!IsInjective
<1>3. ASSUME NEW c \in Companies PROVE c \in E!ToSet(order)
  <2> SUFFICES ASSUME c \notin E!ToSet(order) PROVE FALSE
    OBVIOUS
  <2>1. order \in [1 .. n -> Companies \ {c}]
    BY <1>1, <1>2 DEF E!ToSet
  <2>2. IsFiniteSet(Companies \ {c}) /\ Cardinality(Companies \ {c}) = n - 1
    BY <1>3, FS_RemoveElement DEF EnrichSizes
  <2>3. IsFiniteSet(1 .. n) /\ Cardinality(1 .. n) = n
    BY <1>1, FS_Interval
  <2>4. Cardinality(Companies \ {c}) < Cardinality(1 .. n)
    BY <1>1, <2>2, <2>3
  <2>5. \E x, y \in 1 .. n : x # y /\ order[x] = order[y]
    BY <2>1, <2>2, <2>3, <2>4, FS_PigeonHole
  <2> QED  BY <1>1, <2>5
<1>4. E!ToSet(order) = Companies
  BY <1>1, <1>2, <1>3 DEF E!ToSet
<1>5. batch = <<>> /\ pc = "idle" /\ people = <<>> /\ records = <<>> /\ reveals = 0
      /\ runs = 0 /\ enriched = {} /\ clean = TRUE
  BY DEF E!Init
<1>6. E!TypeOK
  BY <1>2, <1>4, <1>5 DEF E!TypeOK, EnrichSizes
<1>7. Paid = {} /\ Cardinality(Paid) = 0 /\ DOMAIN records = {}
  BY <1>5, FS_EmptySet DEF Paid
<1>8. InTurn /\ E!OnePersonPerRole /\ E!NoneLeftOut
  BY <1>5, <1>7 DEF InTurn, E!OnePersonPerRole, E!NoneLeftOut
<1>9. Credited /\ E!CreditsBounded
  <2>1. E!Cardinality(Paid) = 0
    BY <1>7, CountsAlike
  <2>2. Credited
    BY <1>5, <1>7 DEF Credited, EnrichSizes
  <2>3. E!CreditsBounded
    BY <1>7, <2>1 DEF E!CreditsBounded, Paid, EnrichSizes
  <2> QED  BY <2>2, <2>3
<1>10. InOrder
  <2>1. Rest = <<>> /\ Len(Rest) = 0 /\ DOMAIN Rest = {}
    BY <1>5 DEF Rest
  <2>2. Taken = 0
    BY <1>1, <1>2, <1>5, <2>1 DEF Taken, E!BatchSize, EnrichSizes
  <2> QED  BY <1>1, <1>2, <2>1, <2>2 DEF InOrder
<1> QED  BY <1>6, <1>8, <1>9, <1>10 DEF EnrichInv

\* Whoever is touched goes to the end; the others keep their order.
LEMMA TouchedMoves ==
  ASSUME E!TypeOK, NEW c \in Companies
  PROVE  \E i \in DOMAIN order :
           /\ order[i] = c /\ E!Touched(c) \in Seq(Companies) /\ Len(E!Touched(c)) = Len(order)
           /\ \A j \in 1 .. Len(order) : E!Touched(c)[j] =
                IF j < i THEN order[j] ELSE IF j < Len(order) THEN order[j + 1] ELSE c
<1> DEFINE n == Len(order)
<1>1. order \in Seq(Companies) /\ n \in Nat /\ DOMAIN order = 1 .. n
  BY DEF E!TypeOK
<1>2. \E j \in DOMAIN order : order[j] = c
  BY DEF E!TypeOK, E!ToSet
<1>3. PICK i \in DOMAIN order : i = (CHOOSE j \in DOMAIN order : order[j] = c) /\ order[i] = c
  BY <1>2
<1> DEFINE before == SubSeq(order, 1, i - 1)
           after == SubSeq(order, i + 1, n)
<1>4. before \in Seq(Companies) /\ Len(before) = i - 1 /\ \A j \in 1 .. i - 1 : before[j] = order[j]
  BY <1>1, <1>3
<1>5. after \in Seq(Companies) /\ Len(after) = n - i /\ \A j \in 1 .. n - i : after[j] = order[i + j]
  BY <1>1, <1>3
<1> HIDE DEF before, after
<1>6. before \o after \in Seq(Companies) /\ Len(before \o after) = n - 1
      /\ \A j \in 1 .. n - 1 : (before \o after)[j] = IF j < i THEN order[j] ELSE order[j + 1]
  <2>1. before \o after \in Seq(Companies) /\ Len(before \o after) = (i - 1) + (n - i)
        /\ \A j \in 1 .. (i - 1) + (n - i) : (before \o after)[j] =
             IF j <= i - 1 THEN before[j] ELSE after[j - (i - 1)]
    <3>1. /\ before \o after \in Seq(Companies) /\ Len(before \o after) = Len(before) + Len(after)
          /\ \A j \in 1 .. Len(before) + Len(after) : (before \o after)[j] =
               IF j <= Len(before) THEN before[j] ELSE after[j - Len(before)]
      BY <1>4, <1>5, ConcatProperties
    <3> QED  BY <1>4, <1>5, <3>1
  <2>2. n - 1 = (i - 1) + (n - i) /\ i \in Nat
    BY <1>1, <1>3
  <2>3. ASSUME NEW j \in 1 .. n - 1
        PROVE  (before \o after)[j] = IF j < i THEN order[j] ELSE order[j + 1]
    <3>1. CASE j < i
      BY <1>1, <1>4, <2>1, <2>2, <3>1
    <3>2. CASE ~(j < i)
      <4>1. j - (i - 1) \in 1 .. n - i /\ i + (j - (i - 1)) = j + 1 /\ ~(j <= i - 1)
        BY <1>1, <2>2, <3>2
      <4> QED  BY <1>5, <2>1, <2>2, <3>2, <4>1
    <3> QED  BY <3>1, <3>2
  <2> QED  BY <2>1, <2>2, <2>3
<1>7. E!Touched(c) = Append(before \o after, c)
  BY <1>3 DEF E!Touched, E!RemoveAt, before, after
<1>8. Append(before \o after, c) \in Seq(Companies) /\ Len(Append(before \o after, c)) = n
      /\ \A j \in 1 .. n : Append(before \o after, c)[j] =
           IF j < i THEN order[j] ELSE IF j < n THEN order[j + 1] ELSE c
  <2>1. Append(before \o after, c) \in Seq(Companies) /\ Len(Append(before \o after, c)) = n
        /\ Append(before \o after, c)[n] = c
        /\ \A j \in 1 .. n - 1 : Append(before \o after, c)[j] = (before \o after)[j]
    <3>1. n - 1 + 1 = n
      BY <1>1
    <3> QED  BY <1>6, <3>1, AppendProperties
  <2>2. ASSUME NEW j \in 1 .. n
        PROVE  Append(before \o after, c)[j] = IF j < i THEN order[j] ELSE IF j < n THEN order[j + 1] ELSE c
    <3>1. CASE j = n
      <4>1. ~(j < i) /\ ~(j < n)
        BY <1>1, <1>3, <3>1
      <4> QED  BY <2>1, <3>1, <4>1
    <3>2. CASE j # n
      <4>1. \A a \in Nat : \A b \in 1 .. a : b # a => b \in 1 .. a - 1 /\ b < a
        OBVIOUS
      <4>2. j \in 1 .. n - 1 /\ j < n
        BY <1>1, <2>2, <3>2, <4>1
      <4> QED  BY <1>6, <2>1, <4>2
    <3> QED  BY <3>1, <3>2
  <2> QED  BY <2>1, <2>2
<1> QED  BY <1>3, <1>7, <1>8

\* They stay those they were, each once.
LEMMA TouchedKeeps ==
  ASSUME E!TypeOK, NEW c \in Companies
  PROVE  E!IsInjective(E!Touched(c)) /\ E!ToSet(E!Touched(c)) = Companies
<1> DEFINE n == Len(order)
           o == E!Touched(c)
<1>1. order \in Seq(Companies) /\ n \in Nat /\ DOMAIN order = 1 .. n /\ E!ToSet(order) = Companies
      /\ \A j, k \in 1 .. n : order[j] = order[k] => j = k
  BY DEF E!TypeOK, E!IsInjective
<1>2. PICK i \in 1 .. n :
        /\ order[i] = c /\ o \in Seq(Companies) /\ Len(o) = n
        /\ \A j \in 1 .. n : o[j] = IF j < i THEN order[j] ELSE IF j < n THEN order[j + 1] ELSE c
  BY <1>1, TouchedMoves
<1> HIDE DEF o
<1>3. DOMAIN o = 1 .. n
  BY <1>1, <1>2
<1>4. ASSUME NEW j \in 1 .. n, NEW k \in 1 .. n, o[j] = o[k] PROVE j = k
  BY <1>1, <1>2, <1>4
<1>5. ASSUME NEW d \in Companies PROVE d \in E!ToSet(o)
  <2>1. PICK j \in 1 .. n : order[j] = d
    BY <1>1, <1>5 DEF E!ToSet
  <2>2. CASE j < i
    BY <1>1, <1>2, <1>3, <2>1, <2>2 DEF E!ToSet
  <2>3. CASE j = i
    BY <1>1, <1>2, <1>3, <2>1, <2>3 DEF E!ToSet
  <2>4. CASE j > i
    <3>1. j - 1 \in 1 .. n /\ o[j - 1] = order[j]
      BY <1>1, <1>2, <2>4
    <3> QED  BY <1>3, <2>1, <3>1 DEF E!ToSet
  <2> QED  BY <1>1, <2>2, <2>3, <2>4
<1>6. E!ToSet(o) \subseteq Companies
  BY <1>2, <1>3 DEF E!ToSet
<1>7. E!IsInjective(o)
  BY <1>3, <1>4 DEF E!IsInjective
<1> QED  BY <1>5, <1>6, <1>7 DEF o

\* What a step that touches no record keeps, and what an empty checklist has.
LEMMA RecordsKept ==
  ASSUME EnrichInv, UNCHANGED <<people, records, reveals>>, (pc = "reveal") <=> (pc' = "reveal")
  PROVE  (E!OnePersonPerRole /\ E!NoneLeftOut /\ Credited /\ E!CreditsBounded)'
  BY DEF EnrichInv, E!OnePersonPerRole, E!NoneLeftOut, Credited, E!CreditsBounded, Paid, E!ToSet
LEMMA RecordsEmpty ==
  ASSUME EnrichSizes, records' = <<>>, reveals' = 0, pc' # "reveal"
  PROVE  (E!OnePersonPerRole /\ E!NoneLeftOut /\ Credited /\ E!CreditsBounded)'
<1>1. DOMAIN records' = {} /\ Paid' = {} /\ Cardinality(Paid') = 0 /\ E!Cardinality(Paid') = 0
  BY FS_EmptySet, CountsAlike DEF Paid
<1>2. E!OnePersonPerRole' /\ E!NoneLeftOut'
  BY <1>1 DEF E!OnePersonPerRole, E!NoneLeftOut
<1>3. Credited'
  BY <1>1 DEF Credited, EnrichSizes
<1>4. E!CreditsBounded'
  BY <1>1 DEF E!CreditsBounded, Paid, EnrichSizes
<1> QED  BY <1>2, <1>3, <1>4
LEMMA OrderKept ==
  ASSUME EnrichInv, UNCHANGED <<order, runs, enriched, clean>>, Rest' = Rest
  PROVE  InOrder'
  BY DEF EnrichInv, InOrder, Taken, E!BatchSize

LEMMA Sizes0 ==
  ASSUME EnrichSizes, E!TypeOK
  PROVE  E!BatchSize \in Nat /\ E!BatchSize <= Len(order) /\ Len(order) \in Nat /\ DOMAIN order = 1 .. Len(order)
  BY DEF EnrichSizes, E!TypeOK, E!BatchSize
LEMMA OneMore == \A a, b \in Nat : a * b \in Nat /\ (a + 1) * b = a * b + b
  OBVIOUS

\* A run begins with the head of the order.
LEMMA BeginEnrich == ASSUME EnrichSizes, EnrichInv, E!Begin PROVE EnrichInv'
<1> DEFINE b == E!BatchSize
<1>1. b \in Nat /\ b <= Len(order) /\ Len(order) \in Nat /\ DOMAIN order = 1 .. Len(order)
  BY Sizes0 DEF EnrichInv
<1>2. /\ pc = "idle" /\ pc' = "enrich" /\ batch' = SubSeq(order, 1, b) /\ runs' = runs + 1 /\ runs < MaxRuns
      /\ UNCHANGED <<order, people, records, reveals, enriched, clean>>
  BY DEF E!Begin, E!Oldest
<1> HIDE DEF b
<1>3. order \in Seq(Companies)
  BY DEF EnrichInv, E!TypeOK
<1>4. batch' \in Seq(Companies) /\ Len(batch') = b /\ \A i \in 1 .. b : batch'[i] = order[i]
  BY <1>1, <1>2, <1>3
<1>5. E!TypeOK'
  BY <1>2, <1>4 DEF EnrichInv, E!TypeOK, EnrichSizes, E!IsInjective, E!ToSet
<1>6. InTurn'
  BY <1>2 DEF EnrichInv, InTurn
<1>7. (E!OnePersonPerRole /\ E!NoneLeftOut /\ Credited /\ E!CreditsBounded)'
  BY <1>2, RecordsKept
<1>8. InOrder'
  <2>1. Rest = <<>> /\ Len(Rest) = 0 /\ Rest' = batch' /\ Len(Rest') = b /\ DOMAIN batch' = 1 .. b
    BY <1>2, <1>4 DEF Rest, EnrichInv, InTurn
  <2>2. E!BatchSize = b /\ E!BatchSize' = b
    BY <1>2 DEF b, E!BatchSize
  <2>3. runs \in Nat
    BY DEF EnrichInv, E!TypeOK
  <2>4. Taken = runs * b /\ Taken' = (runs + 1) * b - b
    BY <1>1, <1>2, <2>1, <2>2, <2>3, OneMore DEF Taken
  <2>5. Taken' = Taken
    BY <1>1, <2>3, <2>4, OneMore
  <2> QED  BY <1>1, <1>2, <1>4, <2>1, <2>5 DEF EnrichInv, InOrder
<1> QED  BY <1>5, <1>6, <1>7, <1>8 DEF EnrichInv

\* The company at the head of the batch is enriched, and then it is the last in the
\* order; or it is not, and then not all were known.
LEMMA EnrichEnrich == ASSUME EnrichSizes, EnrichInv, E!Enrich PROVE EnrichInv'
<1> DEFINE c == Head(batch)
<1>1. /\ pc = "enrich" /\ pc' = "search" /\ batch # <<>>
      /\ UNCHANGED <<batch, people, records, reveals, runs>>
  BY DEF E!Enrich
<1>2. \/ order' = E!Touched(c) /\ enriched' = enriched \cup {c} /\ clean' = clean
      \/ clean' = FALSE /\ UNCHANGED <<order, enriched>>
  BY DEF E!Enrich
<1>3. batch \in Seq(Companies) /\ Len(batch) \in Nat /\ Len(batch) > 0 /\ c \in Companies /\ c = batch[1]
      /\ Tail(batch) \in Seq(Companies) /\ Len(Tail(batch)) = Len(batch) - 1
      /\ \A i \in 1 .. Len(batch) - 1 : Tail(batch)[i] = batch[i + 1]
  BY <1>1 DEF EnrichInv, E!TypeOK
<1>4. E!TypeOK /\ runs \in Nat /\ E!BatchSize \in Nat /\ Len(order) \in Nat /\ DOMAIN order = 1 .. Len(order)
  BY Sizes0 DEF EnrichInv, E!TypeOK
<1> HIDE DEF c
<1>5. PICK i \in 1 .. Len(order) :
        /\ order[i] = c /\ E!Touched(c) \in Seq(Companies) /\ Len(E!Touched(c)) = Len(order)
        /\ \A j \in 1 .. Len(order) : E!Touched(c)[j] =
             IF j < i THEN order[j] ELSE IF j < Len(order) THEN order[j + 1] ELSE c
  BY <1>3, <1>4, TouchedMoves
<1>6. order' \in Seq(Companies) /\ Len(order') = Len(order) /\ E!IsInjective(order') /\ E!ToSet(order') = Companies
  <2>1. order \in Seq(Companies) /\ E!IsInjective(order) /\ E!ToSet(order) = Companies
    BY <1>4 DEF E!TypeOK
  <2> QED  BY <1>2, <1>3, <1>4, <1>5, <2>1, TouchedKeeps
<1>7. E!TypeOK'
  BY <1>1, <1>2, <1>3, <1>6, <1>4 DEF E!TypeOK
<1>8. InTurn'
  BY <1>1 DEF EnrichInv, InTurn
<1>9. (E!OnePersonPerRole /\ E!NoneLeftOut /\ Credited /\ E!CreditsBounded)'
  BY <1>1, RecordsKept
<1>10. ASSUME clean' = TRUE PROVE InOrder'
  <2>1. order' = E!Touched(c) /\ enriched' = enriched \cup {c} /\ clean = TRUE
    BY <1>2, <1>10
  <2>2. Rest = batch /\ Rest' = Tail(batch) /\ DOMAIN batch = 1 .. Len(batch)
        /\ DOMAIN Tail(batch) = 1 .. Len(batch) - 1
    BY <1>1, <1>3 DEF Rest
  <2>3. E!BatchSize' = E!BatchSize
    BY <1>6 DEF E!BatchSize
  <2>4. Taken' = Taken + 1 /\ Taken \in Int
    BY <1>1, <1>3, <1>4, <2>2, <2>3, OneMore DEF Taken
  <2>5. /\ Len(batch) <= Len(order) /\ \A j \in 1 .. Len(batch) : batch[j] = order[j]
        /\ \A j \in 1 .. Len(order) : j + Taken > Len(order) => order[j] \in enriched
    BY <1>4, <2>1, <2>2 DEF EnrichInv, InOrder
  <2>6. i = 1
    BY <1>3, <1>4, <1>5, <2>5 DEF E!TypeOK, E!IsInjective
  <2>7. \A j \in 1 .. Len(order) : order'[j] = IF j < Len(order) THEN order[j + 1] ELSE c
    BY <1>5, <2>1, <2>6
  <2>8. \A j \in 1 .. Len(batch) - 1 : Tail(batch)[j] = order'[j]
    BY <1>3, <1>4, <2>5, <2>7
  <2>9. ASSUME NEW j \in 1 .. Len(order), j + Taken' > Len(order) PROVE order'[j] \in enriched'
    <3>1. CASE j < Len(order)
      <4>1. j + 1 \in 1 .. Len(order) /\ j + 1 + Taken > Len(order)
        BY <1>4, <2>4, <2>9, <3>1
      <4>2. order'[j] = order[j + 1] /\ order[j + 1] \in enriched
        BY <2>5, <2>7, <3>1, <4>1
      <4> QED  BY <2>1, <4>2
    <3>2. CASE j = Len(order)
      BY <2>1, <2>7, <3>2
    <3>3. j < Len(order) \/ j = Len(order)
      <4>1. j \in Nat /\ j <= Len(order) /\ Len(order) \in Nat
        BY <1>4, <2>9
      <4> QED  BY <4>1
    <3> QED  BY <3>1, <3>2, <3>3
  <2>10. DOMAIN order' = 1 .. Len(order) /\ Len(order') = Len(order)
    BY <1>6
  <2>11. Len(Rest') <= Len(order') /\ \A j \in DOMAIN Rest' : Rest'[j] = order'[j]
    BY <1>3, <1>4, <2>2, <2>5, <2>8, <2>10
  <2>12. \A j \in DOMAIN order' : j + Taken' > Len(order') => order'[j] \in enriched'
    BY <2>9, <2>10
  <2> QED  BY <2>11, <2>12 DEF InOrder
<1>11. InOrder'
  BY <1>10, <1>7 DEF InOrder, E!TypeOK
<1> QED  BY <1>7, <1>8, <1>9, <1>11 DEF EnrichInv

\* A run that stops leaves nothing in its batch.
LEMMA StopEnrich == ASSUME EnrichSizes, EnrichInv, E!Stop PROVE EnrichInv'
<1>1. /\ pc = "enrich" /\ batch = <<>> /\ pc' = "idle"
      /\ UNCHANGED <<order, batch, people, records, reveals, runs, enriched, clean>>
  BY DEF E!Stop
<1>2. E!TypeOK' /\ InTurn'
  BY <1>1 DEF EnrichInv, E!TypeOK, InTurn, E!IsInjective, E!ToSet
<1>3. Rest' = Rest
  BY <1>1 DEF Rest
<1> QED  BY <1>1, <1>2, <1>3, RecordsKept, OrderKept DEF EnrichInv

\* The next company starts with an empty checklist.
LEMMA NextCompanyEnrich ==
  ASSUME EnrichSizes, EnrichInv, E!NextCompany, pc \in {"search", "match"},
         UNCHANGED <<order, runs, enriched, clean>>
  PROVE  EnrichInv'
<1>1. batch # <<>> /\ batch \in Seq(Companies)
  BY DEF EnrichInv, InTurn, E!TypeOK
<1>2. batch' = Tail(batch) /\ pc' = "enrich" /\ people' = <<>> /\ records' = <<>> /\ reveals' = 0
  BY DEF E!NextCompany
<1>3. E!TypeOK'
  <2>1. batch' \in Seq(Companies)
    BY <1>1, <1>2
  <2>2. records' \in Seq(E!Record) /\ Len(records') <= Len(TargetRoles) /\ people' \in Seq(People)
    BY <1>2 DEF EnrichSizes
  <2> QED  BY <1>2, <2>1, <2>2 DEF EnrichInv, E!TypeOK, E!IsInjective, E!ToSet
<1>4. InTurn'
  BY <1>2 DEF InTurn
<1>5. Rest' = Rest
  BY <1>2 DEF Rest
<1> QED  BY <1>2, <1>3, <1>4, <1>5, RecordsEmpty, OrderKept DEF EnrichInv
LEMMA SearchEnrich == ASSUME EnrichSizes, EnrichInv, E!Search PROVE EnrichInv'
<1>1. pc = "search" /\ UNCHANGED <<order, runs, enriched, clean>>
  BY DEF E!Search
<1>2. CASE E!NextCompany
  BY <1>1, <1>2, NextCompanyEnrich
<1>3. CASE ~E!NextCompany
  <2>1. PICK S \in SUBSET People : people' \in E!SetToSeqs(S)
    BY <1>3 DEF E!Search
  <2>2. pc' = "match" /\ UNCHANGED <<batch, records, reveals>>
    BY <1>3 DEF E!Search
  <2>3. records = <<>> /\ reveals = 0 /\ records' = <<>> /\ reveals' = 0 /\ batch # <<>>
    BY <1>1, <2>2 DEF EnrichInv, InTurn
  <2>4. people' \in Seq(People)
    <3>1. \E n \in Nat : people' \in [1 .. n -> S]
      <4>1. people' \in [1 .. Cardinality(S) -> S]
        BY <2>1, CountsAlike DEF E!SetToSeqs
      <4>2. IsFiniteSet(S)
        BY FS_Subset DEF EnrichSizes
      <4> QED  BY <4>1, <4>2, FS_CardinalityType
    <3> QED  BY <3>1
  <2>5. E!TypeOK'
    BY <1>1, <2>2, <2>4 DEF EnrichInv, E!TypeOK, E!IsInjective, E!ToSet
  <2>6. InTurn'
    BY <2>2, <2>3 DEF InTurn
  <2>7. Rest' = Rest
    BY <1>1, <2>2 DEF Rest
  <2> QED  BY <1>1, <2>2, <2>3, <2>5, <2>6, <2>7, RecordsEmpty, OrderKept DEF EnrichInv
<1> QED  BY <1>2, <1>3
LEMMA DoneEnrich == ASSUME EnrichSizes, EnrichInv, E!Done PROVE EnrichInv'
  BY NextCompanyEnrich DEF E!Done

\* A call that reveals is counted, answered or not.
LEMMA RevealEnrich == ASSUME EnrichSizes, EnrichInv, E!Reveal PROVE EnrichInv'
<1>1. /\ pc = "reveal" /\ pc' = "match" /\ reveals' = reveals + 1
      /\ UNCHANGED <<order, batch, people, records, runs, enriched, clean>>
  BY DEF E!Reveal, E!Spent
<1>2. reveals \in Nat
  BY DEF EnrichInv, E!TypeOK
<1>3. E!TypeOK' /\ InTurn'
  BY <1>1, <1>2 DEF EnrichInv, E!TypeOK, InTurn, E!IsInjective, E!ToSet
<1>4. (E!OnePersonPerRole /\ E!NoneLeftOut /\ E!CreditsBounded)'
  BY <1>1 DEF EnrichInv, E!OnePersonPerRole, E!NoneLeftOut, E!CreditsBounded, E!ToSet
<1>5. Credited'
  <2>1. Paid' = Paid
    BY <1>1 DEF Paid
  <2>2. Cardinality(Paid) = reveals + 1 /\ Cardinality(Paid) <= MaxReveals
        /\ \A i \in DOMAIN records : records[i].person # E!Nobody /\ i \notin Paid => reveals >= MaxReveals
    BY <1>1 DEF EnrichInv, Credited
  <2>3. Cardinality(Paid) = reveals' + 0
    BY <1>1, <1>2, <2>2
  <2> QED  BY <1>1, <1>2, <2>1, <2>2, <2>3 DEF Credited, EnrichSizes
<1>6. Rest' = Rest
  BY <1>1 DEF Rest
<1> QED  BY <1>1, <1>3, <1>4, <1>5, <1>6, OrderKept DEF EnrichInv

\* The next role gets whoever fits and is free, for a credit while there is one.
LEMMA MatchEnrich == ASSUME EnrichSizes, EnrichInv, E!Match PROVE EnrichInv'
<1> DEFINE p == E!Best
           pays == p # E!Nobody /\ reveals < MaxReveals
           r == [person |-> p, paid |-> pays]
           n == Len(records)
<1>1. /\ pc = "match" /\ n < Len(TargetRoles)
      /\ records' = Append(records, r) /\ pc' = (IF pays THEN "reveal" ELSE "match")
      /\ UNCHANGED <<order, batch, people, reveals, runs, enriched, clean>>
  BY DEF E!Match
<1>2. /\ records \in Seq(E!Record) /\ n \in Nat /\ DOMAIN records = 1 .. n
      /\ Len(TargetRoles) \in Nat /\ reveals \in Nat /\ MaxReveals \in Nat
  BY DEF EnrichInv, E!TypeOK, EnrichSizes
<1>3. \/ /\ p \in People /\ p # E!Nobody /\ p \notin E!Assigned
      \/ /\ p = E!Nobody
         /\ \A q \in E!ToSet(people) : <<E!Role, TitleOf[q]>> \in Exact \cup Overlap => q \in E!Assigned
  BY BestIsFree DEF EnrichInv
<1>4. r.person = p /\ (r.paid <=> pays)
  OBVIOUS
<1> HIDE DEF p, r
<1>5. r \in E!Record
  BY <1>3 DEF E!Record, r
<1>6. /\ records' \in Seq(E!Record) /\ Len(records') = n + 1 /\ DOMAIN records' = 1 .. n + 1
      /\ records'[n + 1] = r /\ \A i \in 1 .. n : records'[i] = records[i]
  BY <1>1, <1>2, <1>5
<1>7. E!TypeOK'
  BY <1>1, <1>2, <1>6 DEF EnrichInv, E!TypeOK, E!IsInjective, E!ToSet
<1>8. InTurn'
  BY <1>1 DEF EnrichInv, InTurn
<1>9. E!OnePersonPerRole'
  <2>1. ASSUME NEW i \in 1 .. n, records[i].person = p PROVE p = E!Nobody
    BY <1>2, <1>3, <2>1 DEF E!Assigned
  <2> SUFFICES ASSUME NEW i \in 1 .. n + 1, NEW j \in 1 .. n + 1,
                      records'[i].person = records'[j].person, records'[i].person # E!Nobody
               PROVE  i = j
    BY <1>6 DEF E!OnePersonPerRole
  <2>2. CASE i \in 1 .. n /\ j \in 1 .. n
    BY <1>2, <1>6, <2>2 DEF EnrichInv, E!OnePersonPerRole
  <2>3. CASE i \in 1 .. n /\ j = n + 1
    BY <1>4, <1>6, <2>1, <2>3
  <2>4. CASE i = n + 1 /\ j \in 1 .. n
    BY <1>4, <1>6, <2>1, <2>4
  <2> QED  BY <1>2, <2>2, <2>3, <2>4
<1>10. E!NoneLeftOut'
  <2>1. ASSUME NEW i \in 1 .. n + 1, records'[i].person = E!Nobody, NEW q \in E!ToSet(people)',
               <<TargetRoles[i], TitleOf[q]>> \in Exact \cup Overlap
        PROVE  \E j \in 1 .. (i - 1) : records'[j].person = q
    <3>0. q \in E!ToSet(people)
      BY <1>1, <2>1 DEF E!ToSet
    <3>1. CASE i \in 1 .. n
      <4>1. PICK j \in 1 .. (i - 1) : records[j].person = q
        BY <1>2, <1>6, <2>1, <3>0, <3>1 DEF EnrichInv, E!NoneLeftOut
      <4>2. j \in 1 .. n
        BY <1>2, <3>1, <4>1
      <4> QED  BY <1>6, <4>1, <4>2
    <3>2. CASE i = n + 1
      <4>1. p = E!Nobody /\ E!Role = TargetRoles[i]
        BY <1>4, <1>6, <2>1, <3>2 DEF E!Role
      <4>2. q \in E!Assigned
        BY <1>3, <2>1, <3>0, <4>1
      <4>3. PICK j \in 1 .. n : records[j].person = q
        BY <1>2, <4>2 DEF E!Assigned
      <4>4. j \in 1 .. (i - 1)
        BY <1>2, <3>2, <4>3
      <4> QED  BY <1>6, <4>3, <4>4
    <3> QED  BY <1>2, <2>1, <3>1, <3>2
  <2> QED  BY <1>6, <2>1 DEF E!NoneLeftOut
<1>11. Paid \subseteq 1 .. n /\ IsFiniteSet(Paid) /\ Cardinality(Paid) \in Nat
       /\ Cardinality(Paid) = reveals /\ reveals <= MaxReveals
       /\ \A i \in 1 .. n : records[i].person # E!Nobody /\ i \notin Paid => reveals >= MaxReveals
  <2>1. Paid \subseteq 1 .. n /\ IsFiniteSet(1 .. n)
    BY <1>2, FS_Interval DEF Paid
  <2>2. IsFiniteSet(Paid) /\ Cardinality(Paid) \in Nat
    BY <2>1, FS_Subset, FS_CardinalityType
  <2>3. Cardinality(Paid) = reveals + 0 /\ Cardinality(Paid) <= MaxReveals
        /\ \A i \in 1 .. n : records[i].person # E!Nobody /\ i \notin Paid => reveals >= MaxReveals
    BY <1>1, <1>2 DEF EnrichInv, Credited
  <2> QED  BY <1>2, <2>1, <2>2, <2>3
<1>12. Paid' = IF pays THEN Paid \cup {n + 1} ELSE Paid
  BY <1>2, <1>4, <1>6 DEF Paid
<1>13. Cardinality(Paid') = IF pays THEN reveals + 1 ELSE reveals
  <2>1. n + 1 \notin Paid
    BY <1>2, <1>11
  <2> QED  BY <1>11, <1>12, <2>1, FS_AddElement
<1>14. Credited'
  <2>1. Cardinality(Paid') = reveals' + (IF pc' = "reveal" THEN 1 ELSE 0)
    BY <1>1, <1>2, <1>13
  <2>2. Cardinality(Paid') <= MaxReveals
    BY <1>2, <1>11, <1>13
  <2>3. ASSUME NEW i \in 1 .. n + 1, records'[i].person # E!Nobody, i \notin Paid' PROVE reveals' >= MaxReveals
    <3>1. CASE i \in 1 .. n
      BY <1>1, <1>6, <1>11, <1>12, <2>3, <3>1
    <3>2. CASE i = n + 1
      BY <1>1, <1>2, <1>4, <1>6, <1>12, <2>3, <3>2
    <3> QED  BY <1>2, <2>3, <3>1, <3>2
  <2> QED  BY <1>6, <2>1, <2>2, <2>3 DEF Credited
<1>15. E!CreditsBounded'
  <2>1. E!Cardinality(Paid') <= MaxReveals
    BY <1>14, CountsAlike DEF Credited
  <2>2. \A i \in Paid : \A j \in 1 .. i : records[j].person # E!Nobody => j \in Paid
    BY DEF EnrichInv, E!CreditsBounded, Paid
  <2>3. ASSUME NEW i \in Paid', NEW j \in 1 .. i, records'[j].person # E!Nobody PROVE j \in Paid'
    <3>1. CASE i \in Paid
      <4>1. i \in 1 .. n /\ j \in 1 .. n
        BY <1>2, <1>11, <2>3, <3>1
      <4> QED  BY <1>6, <1>12, <2>2, <2>3, <3>1, <4>1
    <3>2. CASE pays /\ i = n + 1 /\ j \in 1 .. n
      BY <1>2, <1>6, <1>11, <1>12, <2>3, <3>2
    <3>3. CASE pays /\ i = n + 1 /\ j = n + 1
      BY <1>12, <3>3
    <3>4. i \in Paid \/ (pays /\ i = n + 1)
      BY <1>12, <2>3
    <3>5. i = n + 1 => j \in 1 .. n \/ j = n + 1
      BY <1>2, <2>3
    <3> QED  BY <3>1, <3>2, <3>3, <3>4, <3>5
  <2> QED  BY <2>1, <2>3 DEF E!CreditsBounded, Paid
<1>16. Rest' = Rest
  BY <1>1 DEF Rest
<1> QED  BY <1>1, <1>7, <1>8, <1>9, <1>10, <1>14, <1>15, <1>16, OrderKept DEF EnrichInv

LEMMA NextEnrich == ASSUME EnrichSizes, EnrichInv, [E!Next]_(E!vars) PROVE EnrichInv'
<1>1. CASE UNCHANGED E!vars
  <2>1. UNCHANGED <<order, batch, pc, people, records, reveals, runs, enriched, clean>>
    BY <1>1 DEF E!vars
  <2>2. E!TypeOK' /\ InTurn'
    BY <2>1 DEF EnrichInv, E!TypeOK, InTurn, E!IsInjective, E!ToSet
  <2>3. Rest' = Rest
    BY <2>1 DEF Rest
  <2> QED  BY <2>1, <2>2, <2>3, RecordsKept, OrderKept DEF EnrichInv
<1> QED  BY <1>1, BeginEnrich, EnrichEnrich, StopEnrich, SearchEnrich, MatchEnrich, RevealEnrich,
             DoneEnrich DEF E!Next

LEMMA EnrichInvariant == ASSUME EnrichSizes PROVE E!Spec => []EnrichInv
<1>1. E!Init => EnrichInv
  BY InitEnrich
<1>2. EnrichInv /\ [E!Next]_(E!vars) => EnrichInv'
  BY NextEnrich
<1> QED  BY <1>1, <1>2, PTL DEF E!Spec

LEMMA EnrichSays ==
  ASSUME EnrichSizes, EnrichInv
  PROVE  E!OnePersonPerRole /\ E!NoneLeftOut /\ E!CreditsBounded /\ E!CoverageOverRuns
<1>1. ASSUME clean, pc = "idle", runs * Limit >= Len(order) PROVE enriched = Companies
  <2> DEFINE n == Len(order)
  <2>1. runs \in Nat /\ n \in Nat /\ Limit \in Nat /\ E!BatchSize \in Nat /\ DOMAIN order = 1 .. n
    BY Sizes0 DEF EnrichInv, E!TypeOK, EnrichSizes
  <2>2. Taken = runs * E!BatchSize
    <3>1. Rest = <<>> /\ Len(Rest) = 0
      BY <1>1 DEF Rest, EnrichInv, InTurn
    <3> QED  BY <2>1, <3>1, OneMore DEF Taken
  <2>3. Taken >= n
    <3>1. CASE Limit < n
      BY <1>1, <2>2, <3>1 DEF E!BatchSize
    <3>2. CASE ~(Limit < n) /\ runs = 0
      BY <1>1, <2>1, <2>2, <3>2
    <3>3. CASE ~(Limit < n) /\ runs # 0
      <4>1. Taken = runs * n
        BY <2>2, <3>3 DEF E!BatchSize
      <4>2. runs - 1 \in Nat /\ runs = (runs - 1) + 1
        BY <2>1, <3>3
      <4>3. runs * n = (runs - 1) * n + n /\ (runs - 1) * n \in Nat
        BY <2>1, <4>2, OneMore
      <4> QED  BY <2>1, <4>1, <4>3
    <3> QED  BY <3>1, <3>2, <3>3
  <2>4. Taken \in Nat
    BY <2>1, <2>2, OneMore
  <2>5. \A i \in 1 .. n : order[i] \in enriched
    BY <1>1, <2>1, <2>3, <2>4 DEF EnrichInv, InOrder
  <2> QED  BY <2>1, <2>5 DEF EnrichInv, E!TypeOK, E!ToSet
<1> QED  BY <1>1 DEF EnrichInv, E!CoverageOverRuns

\* For any companies, people, roles and limits: nobody is the contact for two roles of a
\* company, a role is vacant only if everybody who fits it has another, no company costs
\* more than maxEmailRevealsPerCompany credits, which go to the first roles of the list, and if
\* Apollo knows every company, runs whose batches add up to all of them have reached all.
THEOREM RolesGetFilled ==
  ASSUME EnrichSizes
  PROVE  E!Spec => [](E!OnePersonPerRole /\ E!NoneLeftOut /\ E!CreditsBounded /\ E!CoverageOverRuns)
  BY EnrichInvariant, EnrichSays, PTL

-----------------------------------------------------------------------------
(* ZapierGateway: what a sync asks of a server, and reports.               *)

CONSTANTS Apps, MaxTools, MaxCalls
VARIABLES tools, actions, step, credential, sync, found, left, called
Z == INSTANCE ZapierGateway WITH pc <- step

\* The bounds are numbers, and no app of the user's is called like a meta-tool.
ZapierSizes ==
  /\ MaxTools \in Nat /\ MaxCalls \in Nat
  /\ Apps \cap {"list_enabled", "enable_zapier", "execute_zapier"} = {}

\* The tools that were called are the server's, and safe; of a sync, a safe tool that has
\* not been called is still to be looked at, or the calls are used up.
IsSafe(t) == t.reads /\ ~t.writes /\ ~t.required
WasCalled(t) == \E i \in DOMAIN called : called[i].tool = t
AskedInv ==
  /\ Len(called) <= MaxCalls
  /\ Z!ToSet(left) \subseteq Z!ToSet(tools)
  /\ \A i \in DOMAIN called :
       called[i].tool \in Z!ToSet(tools) \cap Z!Tool /\ IsSafe(called[i].tool)
  /\ \A t \in Z!ToSet(tools) \cap Z!Tool : IsSafe(t) => t \in Z!ToSet(left) \/ WasCalled(t)
  /\ step = "done" /\ sync => left = <<>> \/ Len(called) = MaxCalls

\* The actions are asked for where there is a tool that lists them, and before any call.
AgenticInv ==
  /\ step = "agentic" => Z!Listing \in Z!ToSet(tools)
  /\ step \in {"connect", "list", "agentic"} => called = <<>>

ZapierInv == Z!TypeOK /\ AgenticInv /\ AskedInv /\ Z!AppsAreReal

LEMMA InitZapier == ASSUME ZapierSizes PROVE Z!Init => ZapierInv
<1> SUFFICES ASSUME Z!Init PROVE ZapierInv
  OBVIOUS
<1>1. Z!TypeOK
  BY DEF Z!Init, Z!TypeOK
<1>2. AskedInv
  BY DEF Z!Init, AskedInv, ZapierSizes, Z!ToSet
<1>3. Z!AppsAreReal /\ AgenticInv
  BY DEF Z!Init, Z!AppsAreReal, AgenticInv
<1> QED  BY <1>1, <1>2, <1>3 DEF ZapierInv

LEMMA ZapierSaysWhat == ZapierInv => Z!ReadsOnly /\ Z!AsksAll /\ Z!AppsAreReal
<1> SUFFICES ASSUME ZapierInv PROVE Z!ReadsOnly /\ Z!AsksAll
  BY DEF ZapierInv
<1>1. Z!ReadsOnly
  BY DEF ZapierInv, AskedInv, Z!ReadsOnly, IsSafe
<1>2. Z!AsksAll
  <2> SUFFICES ASSUME step = "done", sync, Len(called) < MaxCalls,
                      NEW t \in Z!ToSet(tools) \cap Z!Tool, IsSafe(t)
               PROVE  WasCalled(t)
    BY DEF Z!AsksAll, IsSafe, WasCalled
  <2>1. left = <<>>
    BY DEF ZapierInv, AskedInv, Z!TypeOK
  <2>2. t \notin Z!ToSet(left)
    BY <2>1 DEF Z!ToSet
  <2> QED  BY <2>2 DEF ZapierInv, AskedInv
<1> QED  BY <1>1, <1>2

\* What a meta-tool looks like.
LEMMA MetaTools ==
  /\ Z!Listing.app = "list_enabled" /\ Z!Listing \notin Z!Acting
  /\ \A t \in Z!Acting : t.app \in {"enable_zapier", "execute_zapier"} /\ ~t.reads
  BY DEF Z!Listing, Z!Acting, Z!MetaTool

\* The apps of tools are those of the user's tools, and of the meta-tools that act.
ToolApps(ts) == {t.app : t \in Z!ToSet(ts) \cap Z!Tool}
ActingApps(ts) == {t.app : t \in Z!ToSet(ts) \cap Z!Acting}
LEMMA GroupsAreApps ==
  ASSUME ZapierSizes, NEW ts \in Seq(Z!AnyTool)
  PROVE  /\ Z!groupToolsByApp(ts) = ToolApps(ts) \cup ActingApps(ts)
         /\ Z!groupToolsByApp(ts) \subseteq Z!Slugs
<1>1. Z!ToSet(ts) \subseteq Z!AnyTool
  BY DEF Z!ToSet
<1>2. Z!Listing \notin Z!Tool /\ Z!Listing \notin Z!Acting
  BY MetaTools DEF Z!Tool, ZapierSizes
<1>3. Z!ToSet(ts) \ {Z!Listing} = (Z!ToSet(ts) \cap Z!Tool) \cup (Z!ToSet(ts) \cap Z!Acting)
  BY <1>1, <1>2 DEF Z!AnyTool
<1>4. Z!groupToolsByApp(ts) = ToolApps(ts) \cup ActingApps(ts)
  BY <1>3 DEF Z!groupToolsByApp, ToolApps, ActingApps
<1>5. ToolApps(ts) \subseteq Apps
  BY DEF ToolApps, Z!Tool
<1>6. ActingApps(ts) \subseteq {"enable_zapier", "execute_zapier"}
  BY MetaTools DEF ActingApps
<1> QED  BY <1>4, <1>5, <1>6 DEF Z!Slugs

\* What is reported is there: the actions of an agentic server, or the apps of its tools.
LEMMA ReportIsReal ==
  ASSUME NEW apps, Z!Report(apps), apps \subseteq Z!Slugs, actions' = actions,
         \/ apps = actions /\ actions # {} /\ Z!Listing \in Z!ToSet(tools')
         \/ apps = ToolApps(tools') \cup ActingApps(tools'),
         apps = {} => ToolApps(tools') = {}
  PROVE  Z!AppsAreReal' /\ found' \subseteq Z!Slugs /\ step' = IF sync THEN "notes" ELSE "done"
  BY DEF Z!Report, Z!AppsAreReal, ToolApps, ActingApps

LEMMA ListZapier == ASSUME ZapierSizes, ZapierInv, Z!ListTools PROVE ZapierInv'
<1>1. step = "list" /\ called = <<>> /\ UNCHANGED <<actions, credential, sync, called>>
  BY DEF Z!ListTools, ZapierInv, AgenticInv
<1>2. CASE step' = "failed" /\ UNCHANGED <<tools, found, left>>
  <2>1. Z!TypeOK' /\ AskedInv' /\ Z!AppsAreReal' /\ AgenticInv'
    BY <1>1, <1>2 DEF ZapierInv, AgenticInv, AskedInv, WasCalled, Z!TypeOK, Z!AppsAreReal
  <2> QED  BY <2>1 DEF ZapierInv
<1>3. ASSUME NEW n \in 0 .. MaxTools, NEW ts \in [1 .. n -> Z!AnyTool],
             tools' = ts, left' = ts,
             IF Z!Listing \in Z!ToSet(ts) THEN step' = "agentic" /\ UNCHANGED found
                                          ELSE Z!Report(Z!groupToolsByApp(ts))
      PROVE  ZapierInv'
  <2>1. ts \in Seq(Z!AnyTool)
    BY <1>3
  <2>2. Z!TypeOK' /\ Z!AppsAreReal' /\ AgenticInv' /\ (step' = "done" => ~sync')
    <3>1. CASE step' = "agentic" /\ UNCHANGED found
      <4>1. Z!Listing \in Z!ToSet(ts) \/ step' \in {"notes", "done"}
        BY <1>3 DEF Z!Report
      <4> QED  BY <1>1, <1>3, <2>1, <3>1, <4>1 DEF ZapierInv, AgenticInv, Z!TypeOK, Z!AppsAreReal
    <3>2. CASE Z!Report(Z!groupToolsByApp(ts))
      <4>1. Z!AppsAreReal' /\ found' \subseteq Z!Slugs /\ step' = IF sync THEN "notes" ELSE "done"
        BY <1>1, <1>3, <2>1, <3>2, GroupsAreApps, ReportIsReal
      <4> QED  BY <1>1, <1>3, <2>1, <4>1 DEF ZapierInv, AgenticInv, Z!TypeOK
    <3> QED  BY <1>3, <3>1, <3>2
  <2>3. AskedInv'
    BY <1>1, <1>3, <2>2 DEF ZapierInv, AskedInv, ZapierSizes
  <2> QED  BY <2>2, <2>3 DEF ZapierInv
<1> QED  BY <1>2, <1>3 DEF Z!ListTools

LEMMA AgenticZapier == ASSUME ZapierSizes, ZapierInv, Z!Agentic PROVE ZapierInv'
<1>1. step = "agentic" /\ UNCHANGED <<tools, actions, credential, sync, left, called>>
  BY DEF Z!Agentic
<1>2. PICK ok \in Z!Answers :
        Z!Report(IF ok /\ actions # {} THEN actions ELSE Z!groupToolsByApp(tools))
  BY DEF Z!Agentic
<1>3. actions \subseteq Z!Slugs /\ tools \in Seq(Z!AnyTool)
  BY DEF ZapierInv, Z!TypeOK, Z!Slugs
<1>4. Z!Listing \in Z!ToSet(tools)
  BY <1>1 DEF ZapierInv, AgenticInv
<1>5. Z!AppsAreReal' /\ found' \subseteq Z!Slugs /\ step' = IF sync THEN "notes" ELSE "done"
  <2>1. CASE ok /\ actions # {}
    BY <1>1, <1>2, <1>3, <1>4, <2>1, ReportIsReal
  <2>2. CASE ~(ok /\ actions # {})
    BY <1>1, <1>2, <1>3, <2>2, GroupsAreApps, ReportIsReal
  <2> QED  BY <2>1, <2>2
<1>6. Z!TypeOK' /\ AskedInv'
  BY <1>1, <1>5 DEF ZapierInv, AskedInv, WasCalled, Z!TypeOK
<1> QED  BY <1>1, <1>5, <1>6 DEF ZapierInv, AgenticInv

\* A tool that is called is safe and the server's, and there is a call left.
LEMMA CallZapier == ASSUME ZapierSizes, ZapierInv, Z!Call PROVE ZapierInv'
<1> DEFINE t == Head(left)
<1>1. step = "notes" /\ left # <<>> /\ Len(called) < MaxCalls /\ left' = Tail(left)
      /\ UNCHANGED <<tools, actions, step, credential, sync, found>>
  BY DEF Z!Call, Z!Spent
<1>2. left \in Seq(Z!AnyTool) /\ t \in Z!AnyTool /\ left' \in Seq(Z!AnyTool)
      /\ called \in Seq([tool : Z!AnyTool, ok : BOOLEAN])
  BY <1>1 DEF ZapierInv, Z!TypeOK
<1>3. Z!AppsAreReal' /\ AgenticInv'
  BY <1>1 DEF ZapierInv, Z!AppsAreReal, AgenticInv
<1>4. Z!ToSet(left) = Z!ToSet(left') \cup {t}
  <2>1. \A i \in DOMAIN left : left[i] \in Z!ToSet(left') \cup {t}
    <3> SUFFICES ASSUME NEW i \in DOMAIN left, i # 1 PROVE left[i] \in Z!ToSet(left')
      BY <1>1, <1>2
    <3>1. i - 1 \in DOMAIN left' /\ left[i] = left'[i - 1]
      BY <1>1, <1>2
    <3> QED  BY <3>1 DEF Z!ToSet
  <2>2. \A i \in DOMAIN left' : left'[i] \in Z!ToSet(left)
    <3> TAKE i \in DOMAIN left'
    <3>1. i + 1 \in DOMAIN left /\ left'[i] = left[i + 1]
      BY <1>1, <1>2
    <3> QED  BY <3>1 DEF Z!ToSet
  <2>3. t \in Z!ToSet(left)
    <3>1. 1 \in DOMAIN left /\ t = left[1]
      BY <1>1, <1>2
    <3> QED  BY <3>1 DEF Z!ToSet
  <2> QED  BY <2>1, <2>2, <2>3 DEF Z!ToSet
<1>5. CASE ~Z!isSafeReadOnlyTool(t) /\ UNCHANGED called
  <2>1. t \in Z!Tool => ~IsSafe(t)
    BY <1>5, MetaTools DEF Z!isSafeReadOnlyTool, IsSafe, Z!Tool, ZapierSizes
  <2>2. Z!TypeOK'
    BY <1>1, <1>2, <1>5 DEF ZapierInv, Z!TypeOK
  <2> HIDE DEF t
  <2>3. AskedInv'
    BY <1>1, <1>4, <1>5, <2>1 DEF ZapierInv, AskedInv, WasCalled
  <2> QED  BY <1>3, <2>2, <2>3 DEF ZapierInv
<1>6. ASSUME Z!isSafeReadOnlyTool(t), NEW ok \in BOOLEAN, called' = Append(called, [tool |-> t, ok |-> ok])
      PROVE  ZapierInv'
  <2> DEFINE c == [tool |-> t, ok |-> ok]
  <2>1. c.tool = t /\ c \in [tool : Z!AnyTool, ok : BOOLEAN]
    BY <1>2
  <2>2. t \in Z!ToSet(tools) \cap Z!Tool /\ IsSafe(t)
    BY <1>2, <1>4, <1>6, MetaTools
       DEF Z!isSafeReadOnlyTool, IsSafe, Z!AnyTool, ZapierInv, AskedInv
  <2> HIDE DEF c, t
  <2>3. /\ called' \in Seq([tool : Z!AnyTool, ok : BOOLEAN]) /\ Len(called') = Len(called) + 1
        /\ DOMAIN called' = 1 .. Len(called) + 1 /\ called'[Len(called) + 1] = c
        /\ DOMAIN called = 1 .. Len(called) /\ Len(called) \in Nat
        /\ \A i \in 1 .. Len(called) : called'[i] = called[i]
    BY <1>2, <1>6, <2>1 DEF c
  <2>4. Z!TypeOK'
    BY <1>1, <1>2, <2>3 DEF ZapierInv, Z!TypeOK
  <2>5. \A i \in DOMAIN called' :
          called'[i].tool \in Z!ToSet(tools') \cap Z!Tool /\ IsSafe(called'[i].tool)
    <3> TAKE i \in DOMAIN called'
    <3>1. CASE i = Len(called) + 1
      BY <1>1, <2>1, <2>2, <2>3, <3>1
    <3>2. CASE i \in DOMAIN called
      BY <1>1, <2>3, <3>2 DEF ZapierInv, AskedInv
    <3> QED  BY <2>3, <3>1, <3>2
  <2>6. /\ \E i \in DOMAIN called' : called'[i].tool = t
        /\ \A u : WasCalled(u) => \E i \in DOMAIN called' : called'[i].tool = u
    <3>1. Len(called) + 1 \in DOMAIN called' /\ called'[Len(called) + 1].tool = t
      BY <2>1, <2>3
    <3>2. \E i \in DOMAIN called' : called'[i].tool = t
      BY <3>1
    <3>3. ASSUME NEW u, NEW i \in DOMAIN called, called[i].tool = u
          PROVE  i \in DOMAIN called' /\ called'[i].tool = u
      BY <2>3, <3>3
    <3> QED  BY <3>2, <3>3 DEF WasCalled
  <2>7. Len(called') <= MaxCalls
    BY <1>1, <2>3 DEF ZapierSizes
  <2>8. Z!ToSet(left') \subseteq Z!ToSet(tools')
    BY <1>1, <1>4 DEF ZapierInv, AskedInv
  <2>9. \A u \in Z!ToSet(tools') \cap Z!Tool :
          IsSafe(u) => u \in Z!ToSet(left') \/ \E i \in DOMAIN called' : called'[i].tool = u
    <3>1. tools' = tools /\ Z!ToSet(tools') = Z!ToSet(tools)
      BY <1>1
    <3>2. \A u \in Z!ToSet(tools) \cap Z!Tool : IsSafe(u) => u \in Z!ToSet(left) \/ WasCalled(u)
      BY DEF ZapierInv, AskedInv
    <3> QED  BY <1>4, <2>6, <3>1, <3>2
  <2>10. AskedInv'
    <3>1. step' # "done"
      BY <1>1
    <3> QED  BY <2>5, <2>7, <2>8, <2>9, <3>1 DEF AskedInv, WasCalled
  <2> QED  BY <1>3, <2>4, <2>10 DEF ZapierInv
<1> QED  BY <1>5, <1>6 DEF Z!Call, Z!Answers

LEMMA NextZapier == ASSUME ZapierSizes, ZapierInv, [Z!Next]_(Z!vars) PROVE ZapierInv'
<1>1. CASE UNCHANGED Z!vars \/ Z!Connect \/ Z!Finish
  <2>1. UNCHANGED <<tools, actions, credential, sync, found, left, called>>
    BY <1>1 DEF Z!vars, Z!Connect, Z!Finish
  <2>2. /\ step' \in {"connect", "list", "agentic", "notes", "done", "failed"}
        /\ step' \in {"notes", "done"} => step \in {"notes", "done"}
        /\ step' \in {"connect", "list"} => step \in {"connect", "list"}
        /\ step' = "agentic" => step = "agentic"
        /\ step' = "done" /\ step # "done" => left = <<>> \/ Len(called) >= MaxCalls
    BY <1>1 DEF Z!vars, Z!Connect, Z!Finish, Z!Spent, ZapierInv, Z!TypeOK
  <2>3. Len(called) \in Nat
    BY DEF ZapierInv, Z!TypeOK
  <2>4. AskedInv'
    BY <2>1, <2>2, <2>3 DEF ZapierInv, AskedInv, WasCalled, ZapierSizes
  <2> QED  BY <2>1, <2>2, <2>4 DEF ZapierInv, AgenticInv, Z!TypeOK, Z!AppsAreReal
<1> QED  BY <1>1, ListZapier, AgenticZapier, CallZapier DEF Z!Next

LEMMA ZapierInvariant == ASSUME ZapierSizes PROVE Z!Spec => []ZapierInv
<1>1. Z!Init => ZapierInv
  BY InitZapier
<1>2. ZapierInv /\ [Z!Next]_(Z!vars) => ZapierInv'
  BY NextZapier
<1> QED  BY <1>1, <1>2, PTL DEF Z!Spec

\* For any server, in either of its modes and whichever calls fail: a sync calls tools of the
\* user's apps only, as many as it may, and all that are safe to call if they are no more
\* than that; none of them changes anything if no tool that does has a name which says that
\* it reads; and the apps reported are those of actions or tools the server has, the
\* meta-tools that act among them.
THEOREM SyncsOnlyRead ==
  ASSUME ZapierSizes
  PROVE  Z!Spec => [](Z!ReadsOnly /\ Z!AsksAll /\ Z!AppsAreReal)
  BY ZapierSaysWhat, ZapierInvariant, PTL

-----------------------------------------------------------------------------
(* FieldMapping: what pushes and pulls do to a value.                      *)

CONSTANT MaxEdits
VARIABLES entity, entry, local, remote, last, written, edits
M == INSTANCE FieldMapping

\* What a field of a kind can hold, and its property: what a user writes there, or what
\* the field was pushed as.
Mapped == entity \in M!Entities /\ entry \in M!Entry /\ entry.field \in M!FieldsOf(entity)
Kind == M!KindOf(entity, entry.field)
Holds(k) ==
  CASE k = "string" -> {M!Nil} \cup {M!V("string", v) : v \in {"none", "a", "b", "day", "hour", "big"}}
    [] k = "date" -> {M!Nil, M!V("string", "time")}
    [] k = "strings" -> {M!V("strings", v) : v \in {"none", "a"}}
    [] k = "float" -> {M!Nil} \cup {M!V("float", v) : v \in {"1", "1.5"}}
    [] k = "int" -> {M!Nil, M!V("int", "1")}
    [] k = "time" -> {M!V("time", "time")}
Shows(t, k) == M!Written(t) \cup {M!serializeNotionProperty(t, x) : x \in Holds(k) \ {M!Nil}}
\* After a push the property says what the field holds.
Pushed == last = "push" => local # M!Nil /\ remote = M!serializeNotionProperty(entry.type, local)
\* What somebody has written is there, or what a push can say of it, and once it was pulled
\* the field says that.
Arrived ==
  written # M!Empty /\ M!Faithful =>
    /\ written \in M!Written(entry.type) /\ remote \in {written, M!Kept(entry.type, written)}
    /\ last \in {"pull", "push"} =>
         /\ local # M!Nil
         /\ M!serializeNotionProperty(entry.type, local) = M!Kept(entry.type, written)
MappingInv ==
  /\ M!TypeOK /\ local \in Holds(Kind) /\ remote \in Shows(entry.type, Kind)
  /\ Pushed /\ Arrived

\* A type is of one class, and it is by the class that a value is turned into a property
\* and back.
LEMMA Disjoint ==
  ASSUME NEW t
  PROVE  /\ t \in M!Texts => t \notin M!Lists /\ t # "date" /\ t # "number" /\ t # "checkbox"
         /\ t \in M!Lists => t \notin M!Texts /\ t # "date" /\ t # "number" /\ t # "checkbox"
         /\ "date" \notin M!Texts \cup M!Lists /\ "number" \notin M!Texts \cup M!Lists
         /\ "checkbox" \notin M!Texts \cup M!Lists
  BY DEF M!Texts, M!Lists

LEMMA Classes ==
  ASSUME NEW t \in M!Types
  PROVE  t \in M!Texts \/ t \in M!Lists \/ t = "date" \/ t = "number" \/ t = "checkbox"
  BY DEF M!Types

LEMMA OfText ==
  ASSUME NEW t \in M!Texts
  PROVE  /\ \A x : M!serializeNotionProperty(t, x) = IF x.k = "string" /\ x.v = "none" THEN M!Empty ELSE x.v
         /\ \A p : M!deserializeNotionProperty(t, p) = IF p = M!Empty THEN M!Nil ELSE M!V("string", p)
         /\ M!Written(t) = {M!Empty, "a", "b", "day", "hour", "big"} /\ M!Blank(t) = M!Empty
<1>1. \A x : M!serializeNotionProperty(t, x) = IF x.k = "string" /\ x.v = "none" THEN M!Empty ELSE x.v
  BY Disjoint, Zenon DEF M!serializeNotionProperty
<1>2. \A p : p = M!Empty => M!deserializeNotionProperty(t, p) = M!Nil
  BY Disjoint, Zenon DEF M!deserializeNotionProperty
<1>3. \A p : p # M!Empty => M!deserializeNotionProperty(t, p) = M!V("string", p)
  BY Disjoint, Zenon DEF M!deserializeNotionProperty
<1>4. M!Written(t) = {M!Empty, "a", "b", "day", "hour", "big"}
  BY Disjoint, Zenon DEF M!Written
<1>5. M!Blank(t) = M!Empty
  BY Disjoint, Zenon DEF M!Blank
<1> QED  BY <1>1, <1>2, <1>3, <1>4, <1>5, Zenon

LEMMA OfList ==
  ASSUME NEW t \in M!Lists
  PROVE  /\ \A x : M!serializeNotionProperty(t, x) = IF x.k = "strings" THEN x.v ELSE "none"
         /\ \A p : M!deserializeNotionProperty(t, p) = IF p = M!Empty THEN M!Nil ELSE M!V("strings", p)
         /\ M!Written(t) = {"none", "a", "b"} /\ M!Blank(t) = "none"
<1>1. \A x : M!serializeNotionProperty(t, x) = IF x.k = "strings" THEN x.v ELSE "none"
  BY Disjoint, Zenon DEF M!serializeNotionProperty
<1>2. \A p : p = M!Empty => M!deserializeNotionProperty(t, p) = M!Nil
  BY Disjoint, Zenon DEF M!deserializeNotionProperty
<1>3. \A p : p # M!Empty => M!deserializeNotionProperty(t, p) = M!V("strings", p)
  BY Disjoint, Zenon DEF M!deserializeNotionProperty
<1>4. M!Written(t) = {"none", "a", "b"}
  BY Disjoint, Zenon DEF M!Written
<1>5. M!Blank(t) = "none"
  BY Disjoint, Zenon DEF M!Blank
<1> QED  BY <1>1, <1>2, <1>3, <1>4, <1>5, Zenon

LEMMA OfDate ==
  /\ \A x : M!serializeNotionProperty("date", x) = M!toTime(x)
  /\ \A p : M!deserializeNotionProperty("date", p) =
              IF p = M!Empty THEN M!Nil ELSE M!V("string", IF p = "range" THEN "day" ELSE p)
  /\ M!Written("date") = {M!Empty, "day", "hour", "range"} /\ M!Blank("date") = M!Empty
<1>1. \A x : M!serializeNotionProperty("date", x) = M!toTime(x)
  BY Disjoint, Zenon DEF M!serializeNotionProperty
<1>2. \A p : p = M!Empty => M!deserializeNotionProperty("date", p) = M!Nil
  BY Disjoint, Zenon DEF M!deserializeNotionProperty
<1>3. \A p : p # M!Empty =>
        M!deserializeNotionProperty("date", p) = M!V("string", IF p = "range" THEN "day" ELSE p)
  BY Disjoint, Zenon DEF M!deserializeNotionProperty
<1>4. M!Written("date") = {M!Empty, "day", "hour", "range"}
  BY Disjoint, Zenon DEF M!Written
<1>5. M!Blank("date") = M!Empty
  BY Disjoint, Zenon DEF M!Blank
<1> QED  BY <1>1, <1>2, <1>3, <1>4, <1>5, Zenon

LEMMA OfNumber ==
  /\ \A x : M!serializeNotionProperty("number", x) = IF x.k \in {"float", "int"} THEN x.v ELSE M!Empty
  /\ \A p : M!deserializeNotionProperty("number", p) = IF p = M!Empty THEN M!Nil ELSE M!V("float", p)
  /\ M!Written("number") = {M!Empty, "1", "1.5", "1.504", "big"} /\ M!Blank("number") = M!Empty
<1>1. \A x : M!serializeNotionProperty("number", x) = IF x.k \in {"float", "int"} THEN x.v ELSE M!Empty
  BY Disjoint, Zenon DEF M!serializeNotionProperty
<1>2. \A p : p = M!Empty => M!deserializeNotionProperty("number", p) = M!Nil
  BY Disjoint, Zenon DEF M!deserializeNotionProperty
<1>3. \A p : p # M!Empty => M!deserializeNotionProperty("number", p) = M!V("float", p)
  BY Disjoint, Zenon DEF M!deserializeNotionProperty
<1>4. M!Written("number") = {M!Empty, "1", "1.5", "1.504", "big"}
  BY Disjoint, Zenon DEF M!Written
<1>5. M!Blank("number") = M!Empty
  BY Disjoint, Zenon DEF M!Blank
<1> QED  BY <1>1, <1>2, <1>3, <1>4, <1>5, Zenon

LEMMA OfCheckbox ==
  /\ \A x : M!serializeNotionProperty("checkbox", x) = "false"
  /\ \A p : M!deserializeNotionProperty("checkbox", p) = IF p = M!Empty THEN M!Nil ELSE M!V("bool", p)
  /\ M!Written("checkbox") = {"true", "false"} /\ M!Blank("checkbox") = "false"
<1>1. \A x : M!serializeNotionProperty("checkbox", x) = "false"
  BY Disjoint, Zenon DEF M!serializeNotionProperty
<1>2. \A p : p = M!Empty => M!deserializeNotionProperty("checkbox", p) = M!Nil
  BY Disjoint, Zenon DEF M!deserializeNotionProperty
<1>3. \A p : p # M!Empty => M!deserializeNotionProperty("checkbox", p) = M!V("bool", p)
  BY Disjoint, Zenon DEF M!deserializeNotionProperty
<1>4. M!Written("checkbox") = {"true", "false"}
  BY Disjoint, Zenon DEF M!Written
<1>5. M!Blank("checkbox") = "false"
  BY Disjoint, Zenon DEF M!Blank
<1> QED  BY <1>1, <1>2, <1>3, <1>4, <1>5, Zenon

\* The values, taken apart.
LEMMA ValueParts ==
  /\ \A k, v : M!V(k, v).k = k /\ M!V(k, v).v = v
  /\ \A k, v : k # "nil" => M!V(k, v) # M!Nil
<1>1. \A k, v : M!V(k, v).k = k /\ M!V(k, v).v = v
  BY DEF M!V
<1>2. M!Nil.k = "nil"
  BY DEF M!Nil, M!V
<1>3. \A k, v : k # "nil" => M!V(k, v) # M!Nil
  BY <1>1, <1>2, Zenon
<1> QED  BY <1>1, <1>3, Zenon

LEMMA KindOfField ==
  ASSUME Mapped
  PROVE  /\ Kind \in {"string", "date", "strings", "float", "int", "time"}
         /\ entry.field \in M!ToRecord[entity][Kind]
<1>1. entity \in M!Entities /\ entry.field \in M!FieldsOf(entity)
  BY DEF Mapped
<1>2. DOMAIN M!NoFields = {"string", "date", "strings", "float", "int", "time"}
  BY DEF M!NoFields
<1>3. \E k \in DOMAIN M!NoFields : entry.field \in M!ToRecord[entity][k]
  BY <1>1 DEF M!FieldsOf
<1> QED  BY <1>2, <1>3 DEF Kind, M!KindOf

\* What is in a field that holds anything.
LEMMA HoldsIs ==
  /\ Holds("string") = {M!Nil} \cup {M!V("string", v) : v \in {"none", "a", "b", "day", "hour", "big"}}
  /\ Holds("date") = {M!Nil, M!V("string", "time")}
  /\ Holds("strings") = {M!V("strings", v) : v \in {"none", "a"}}
  /\ Holds("float") = {M!Nil} \cup {M!V("float", v) : v \in {"1", "1.5"}}
  /\ Holds("int") = {M!Nil, M!V("int", "1")}
  /\ Holds("time") = {M!V("time", "time")}
  BY DEF Holds

LEMMA HoldsSays ==
  ASSUME NEW x, x # M!Nil
  PROVE  /\ x \in Holds("string") => \E v \in {"none", "a", "b", "day", "hour", "big"} : x = M!V("string", v)
         /\ x \in Holds("date") => x = M!V("string", "time")
         /\ x \in Holds("strings") => \E v \in {"none", "a"} : x = M!V("strings", v)
         /\ x \in Holds("float") => \E v \in {"1", "1.5"} : x = M!V("float", v)
         /\ x \in Holds("int") => x = M!V("int", "1")
         /\ x \in Holds("time") => x = M!V("time", "time")
<1>1. x \in Holds("string") => \E v \in {"none", "a", "b", "day", "hour", "big"} : x = M!V("string", v)
  BY HoldsIs
<1>2. x \in Holds("strings") => \E v \in {"none", "a"} : x = M!V("strings", v)
  BY HoldsIs
<1>3. x \in Holds("float") => \E v \in {"1", "1.5"} : x = M!V("float", v)
  BY HoldsIs
<1>4. /\ x \in Holds("date") => x = M!V("string", "time")
      /\ x \in Holds("int") => x = M!V("int", "1")
      /\ x \in Holds("time") => x = M!V("time", "time")
  BY HoldsIs
<1> QED  BY <1>1, <1>2, <1>3, <1>4

\* What the database keeps of an assignment.
LEMMA AssignedIs ==
  ASSUME NEW f, NEW x
  PROVE  /\ M!Assigned("string", f, x) =
              IF x.k = "string" /\ (f \in M!Required => x.v # "none")
                THEN IF x.v = "big" /\ f \notin M!Unsized THEN {} ELSE {x}
                ELSE {local}
         /\ M!Assigned("date", f, x) =
              IF x.k = "string"
                THEN IF x.v \in {"day", "time", "hour"} THEN {M!V("string", "time")} ELSE {}
                ELSE {local}
         /\ M!Assigned("strings", f, x) = {local} /\ M!Assigned("time", f, x) = {local}
         /\ M!Assigned("float", f, x) =
              IF x.k = "float"
                THEN IF x.v = "big" THEN {} ELSE {M!V("float", IF x.v = "1.504" THEN "1.5" ELSE x.v)}
                ELSE {local}
         /\ M!Assigned("int", f, x) =
              IF x.k = "float" THEN IF x.v = "big" THEN {} ELSE {M!V("int", "1")} ELSE {local}
  BY DEF M!Assigned

\* A text, a date or a number that is faithful is assigned.
LEMMA FaithfulApplies ==
  ASSUME Mapped, M!Faithful
  PROVE  \E k \in DOMAIN M!NoFields : entry.field \in M!ApplyTo[entity][k]
<1>1. Kind \in {"string", "date", "float"} /\ entry.field # "company_name"
  <2>1. "company_name" \notin M!ToRecord["company"]["date"] /\ "company_name" \notin M!ToRecord["company"]["float"]
        /\ "company_name" \notin M!ToRecord["contact"]["date"] /\ "company_name" \notin M!ToRecord["contact"]["float"]
        /\ "company_name" \notin M!ToRecord["sponsor"]["date"] /\ "company_name" \notin M!ToRecord["sponsor"]["float"]
    BY DEF M!ToRecord, M!CompanyToRecord, M!ContactToRecord, M!SponsorToRecord, M!NoFields
  <2>2. entity \in M!Entities
    BY DEF Mapped
  <2>3. M!Entities = {"company", "contact", "sponsor"}
    BY DEF M!Entities, M!ToRecord
  <2> QED  BY <2>1, <2>2, <2>3, KindOfField DEF M!Faithful, Kind
<1>2. entity = "company" \/ entity = "contact" \/ entity = "sponsor"
  <2>1. entity \in M!Entities
    BY DEF Mapped
  <2>2. M!Entities = {"company", "contact", "sponsor"}
    BY DEF M!Entities, M!ToRecord
  <2> QED  BY <2>1, <2>2
<1>3. Kind \in DOMAIN M!NoFields
  BY <1>1 DEF M!NoFields
<1>4. \A k \in {"string", "date", "float"} :
        /\ M!ApplyTo["company"][k] = M!ToRecord["company"][k]
        /\ M!ApplyTo["contact"][k] = M!ToRecord["contact"][k]
        /\ M!ToRecord["sponsor"][k] \subseteq M!ApplyTo["sponsor"][k] \cup {"company_name"}
  <2>1. \A k \in {"string", "date", "float"} : M!ApplyTo["company"][k] = M!ToRecord["company"][k]
    BY DEF M!ApplyTo, M!ToRecord, M!ApplyToCompany, M!CompanyToRecord, M!NoFields
  <2>2. \A k \in {"string", "date", "float"} : M!ApplyTo["contact"][k] = M!ToRecord["contact"][k]
    BY DEF M!ApplyTo, M!ToRecord, M!ApplyToContact, M!ContactToRecord, M!NoFields
  <2>3. \A k \in {"string", "date", "float"} :
          M!ToRecord["sponsor"][k] \subseteq M!ApplyTo["sponsor"][k] \cup {"company_name"}
    BY DEF M!ApplyTo, M!ToRecord, M!ApplyToSponsor, M!SponsorToRecord, M!NoFields
  <2> QED  BY <2>1, <2>2, <2>3
<1>5. entry.field \in M!ApplyTo[entity][Kind]
  BY <1>1, <1>2, <1>4, KindOfField
<1> QED  BY <1>3, <1>5

\* What a field of a kind is after what was pushed comes back: what it was, or nothing is
\* assigned, or it is the day of an hour.
LEMMA Echoes ==
  ASSUME NEW k \in {"string", "date", "strings", "float", "int", "time"}, NEW t \in M!Types, NEW f,
         local \in Holds(k), local # M!Nil,
         NEW y, y = M!deserializeNotionProperty(t, M!serializeNotionProperty(t, local)), y # M!Nil
  PROVE  \/ M!Assigned(k, f, y) \subseteq {local}
         \/ /\ t = "date" /\ local = M!V("string", "hour")
            /\ M!Assigned(k, f, y) \subseteq {M!V("string", "day")}
<1> DEFINE p == M!serializeNotionProperty(t, local)
<1> HIDE DEF p
<1>1. CASE k = "string"
  <2>1. PICK v \in {"none", "a", "b", "day", "hour", "big"} : local = M!V("string", v)
    BY <1>1, HoldsSays
  <2>2. \/ y = local \/ y.k # "string"
        \/ t = "date" /\ local = M!V("string", "hour") /\ y = M!V("string", "day")
    <3>1. CASE t \in M!Texts
      BY <2>1, <3>1, OfText, ValueParts
    <3>2. CASE t \in M!Lists
      BY <2>1, <3>2, OfList, ValueParts
    <3>3. CASE t = "date"
      BY <2>1, <3>3, OfDate, ValueParts DEF M!toTime
    <3>4. CASE t = "number"
      BY <2>1, <3>4, OfNumber, ValueParts
    <3>5. CASE t = "checkbox"
      BY <2>1, <3>5, OfCheckbox, ValueParts
    <3> QED  BY <3>1, <3>2, <3>3, <3>4, <3>5, Classes
  <2>3. M!Assigned("string", f, y) \subseteq {y} \/ y.k # "string" \/ M!Assigned("string", f, y) = {local}
    BY AssignedIs
  <2>4. y.k # "string" => M!Assigned("string", f, y) = {local}
    BY AssignedIs
  <2> QED  BY <1>1, <2>2, <2>3, <2>4, Zenon
<1>2. CASE k = "date"
  <2>1. local = M!V("string", "time")
    BY <1>2, HoldsSays
  <2>2. y.k # "string" \/ y.v \in {"day", "time", "hour"}
    <3>1. CASE t \in M!Texts
      BY <2>1, <3>1, OfText, ValueParts
    <3>2. CASE t \in M!Lists
      BY <2>1, <3>2, OfList, ValueParts
    <3>3. CASE t = "date"
      BY <2>1, <3>3, OfDate, ValueParts DEF M!toTime
    <3>4. CASE t = "number"
      BY <2>1, <3>4, OfNumber, ValueParts
    <3>5. CASE t = "checkbox"
      BY <2>1, <3>5, OfCheckbox, ValueParts
    <3> QED  BY <3>1, <3>2, <3>3, <3>4, <3>5, Classes
  <2> QED  BY <1>2, <2>1, <2>2, AssignedIs
<1>3. CASE k = "float"
  <2>1. PICK v \in {"1", "1.5"} : local = M!V("float", v)
    BY <1>3, HoldsSays
  <2>2. y = local \/ y.k # "float"
    <3>1. CASE t \in M!Texts
      BY <2>1, <3>1, OfText, ValueParts
    <3>2. CASE t \in M!Lists
      BY <2>1, <3>2, OfList, ValueParts
    <3>3. CASE t = "date"
      BY <2>1, <3>3, OfDate, ValueParts
    <3>4. CASE t = "number"
      BY <2>1, <3>4, OfNumber, ValueParts
    <3>5. CASE t = "checkbox"
      BY <2>1, <3>5, OfCheckbox, ValueParts
    <3> QED  BY <3>1, <3>2, <3>3, <3>4, <3>5, Classes
  <2>3. M!V("float", IF local.v = "1.504" THEN "1.5" ELSE local.v) = local /\ local.v # "big"
    BY <2>1, ValueParts
  <2> QED  BY <1>3, <2>2, <2>3, AssignedIs
<1>4. CASE k = "int"
  BY <1>4, HoldsSays, AssignedIs
<1>5. CASE k = "strings" \/ k = "time"
  BY <1>5, AssignedIs
<1> QED  BY <1>1, <1>2, <1>3, <1>4, <1>5

\* What a property can say.
LEMMA ShowsSays ==
  ASSUME NEW k \in {"string", "date", "strings", "float", "int", "time"}, NEW t \in M!Types, NEW p \in Shows(t, k)
  PROVE  /\ p \in {M!Blank(t), "range", "1.504", "true", "false"} \cup M!Says
         /\ k = "string" /\ t \in M!Texts /\ p # M!Empty => p \in {"a", "b", "day", "hour", "big"}
         /\ k = "string" /\ t = "date" /\ p # M!Empty => p \in {"day", "hour", "range"}
         /\ k = "float" /\ t = "number" /\ p # M!Empty => p \in {"1", "1.5", "1.504", "big"}
<1> USE DEF M!Says
<1>1. CASE p \in M!Written(t)
  <2>1. CASE t \in M!Texts
    BY <1>1, <2>1, OfText, Disjoint
  <2>2. CASE t \in M!Lists
    BY <1>1, <2>2, OfList, Disjoint
  <2>3. CASE t = "date"
    BY <1>1, <2>3, OfDate, Disjoint
  <2>4. CASE t = "number"
    BY <1>1, <2>4, OfNumber, Disjoint
  <2>5. CASE t = "checkbox"
    BY <1>1, <2>5, OfCheckbox, Disjoint
  <2> QED  BY <2>1, <2>2, <2>3, <2>4, <2>5, Classes
<1>2. CASE \E x \in Holds(k) \ {M!Nil} : p = M!serializeNotionProperty(t, x)
  <2>1. PICK x \in Holds(k) : x # M!Nil /\ p = M!serializeNotionProperty(t, x)
    BY <1>2
  <2>2. /\ k = "string" => x.k = "string" /\ x.v \in {"none", "a", "b", "day", "hour", "big"}
        /\ k = "date" => x.k = "string" /\ x.v = "time"
        /\ k = "strings" => x.k = "strings" /\ x.v \in {"none", "a"}
        /\ k = "float" => x.k = "float" /\ x.v \in {"1", "1.5"}
        /\ k = "int" => x.k = "int" /\ x.v = "1"
        /\ k = "time" => x.k = "time" /\ x.v = "time"
    BY <2>1, HoldsSays, ValueParts
  <2>3. CASE t \in M!Texts
    BY <2>1, <2>2, <2>3, OfText, Disjoint
  <2>4. CASE t \in M!Lists
    BY <2>1, <2>2, <2>4, OfList, Disjoint
  <2>5. CASE t = "date"
    BY <2>1, <2>2, <2>5, OfDate, Disjoint DEF M!toTime
  <2>6. CASE t = "number"
    BY <2>1, <2>2, <2>6, OfNumber, Disjoint
  <2>7. CASE t = "checkbox"
    BY <2>1, <2>2, <2>7, OfCheckbox, Disjoint
  <2> QED  BY <2>3, <2>4, <2>5, <2>6, <2>7, Classes
<1> QED  BY <1>1, <1>2 DEF Shows

\* What a pull assigns is what such a field can hold.
LEMMA AssignsHold ==
  ASSUME NEW k \in {"string", "date", "strings", "float", "int", "time"}, NEW t \in M!Types, NEW f,
         local \in Holds(k), NEW p \in Shows(t, k), p # M!Empty,
         NEW y, y = M!deserializeNotionProperty(t, p)
  PROVE  M!Assigned(k, f, y) \subseteq Holds(k)
<1>1. CASE k = "string"
  <2>1. y.k = "string" => y \in Holds("string")
    <3>1. CASE t \in M!Texts
      <4>1. p \in {"a", "b", "day", "hour", "big"} /\ y = M!V("string", p)
        BY <1>1, <3>1, ShowsSays, OfText
      <4> QED  BY <4>1, HoldsIs
    <3>2. CASE t = "date"
      <4>1. p \in {"day", "hour", "range"} /\ y = M!V("string", IF p = "range" THEN "day" ELSE p)
        BY <1>1, <3>2, ShowsSays, OfDate
      <4> QED  BY <4>1, HoldsIs
    <3>3. CASE t \in M!Lists
      BY <3>3, OfList, ValueParts
    <3>4. CASE t = "number"
      BY <3>4, OfNumber, ValueParts
    <3>5. CASE t = "checkbox"
      BY <3>5, OfCheckbox, ValueParts
    <3> QED  BY <3>1, <3>2, <3>3, <3>4, <3>5, Classes
  <2> QED  BY <1>1, <2>1, AssignedIs
<1>2. CASE k = "float"
  <2>1. y.k = "float" => y.v \in {"1", "1.5", "1.504", "big"}
    <3>1. CASE t = "number"
      <4>1. p \in {"1", "1.5", "1.504", "big"} /\ y = M!V("float", p)
        BY <1>2, <3>1, ShowsSays, OfNumber
      <4> QED  BY <4>1, ValueParts
    <3>2. CASE t \in M!Texts
      BY <3>2, OfText, ValueParts
    <3>3. CASE t \in M!Lists
      BY <3>3, OfList, ValueParts
    <3>4. CASE t = "date"
      BY <3>4, OfDate, ValueParts
    <3>5. CASE t = "checkbox"
      BY <3>5, OfCheckbox, ValueParts
    <3> QED  BY <3>1, <3>2, <3>3, <3>4, <3>5, Classes
  <2>2. y.k = "float" /\ y.v # "big" =>
          M!V("float", IF y.v = "1.504" THEN "1.5" ELSE y.v) \in Holds("float")
    BY <2>1, HoldsIs
  <2> QED  BY <1>2, <2>2, AssignedIs
<1>3. CASE k = "date"
  BY <1>3, AssignedIs, HoldsIs
<1>4. CASE k = "int"
  BY <1>4, AssignedIs, HoldsIs
<1>5. CASE k = "strings" \/ k = "time"
  BY <1>5, AssignedIs
<1> QED  BY <1>1, <1>2, <1>3, <1>4, <1>5

\* What a push can say of what was written is something a user may write, of which a push
\* can say as much.
LEMMA KeptIs ==
  ASSUME NEW t, NEW p \in M!Written(t), p # M!Empty
  PROVE  /\ t = "date" => M!Kept(t, p) = "day"
         /\ t = "number" => M!Kept(t, p) = IF p = "1.504" THEN "1.5" ELSE p
         /\ t # "date" /\ t # "number" => M!Kept(t, p) = p
         /\ M!Kept(t, p) \in M!Written(t) /\ M!Kept(t, p) # M!Empty
         /\ M!Kept(t, M!Kept(t, p)) = M!Kept(t, p)
<1>1. CASE t = "date"
  <2>1. p \in {"day", "hour", "range"}
    BY <1>1, OfDate
  <2>2. M!Kept(t, p) = "day" /\ M!Kept(t, "day") = "day" /\ "day" # M!Empty
    BY <1>1, <2>1 DEF M!Kept, M!Empty
  <2> QED  BY <1>1, <2>2, OfDate
<1>2. CASE t = "number"
  <2>1. p \in {"1", "1.5", "1.504", "big"}
    BY <1>2, OfNumber
  <2>2. \A q \in {"1", "1.5", "1.504", "big"} : M!Kept(t, q) = IF q = "1.504" THEN "1.5" ELSE q
    BY <1>2 DEF M!Kept
  <2>3. "1.5" # M!Empty
    BY DEF M!Empty
  <2> QED  BY <1>2, <2>1, <2>2, <2>3, OfNumber
<1>3. CASE t # "date" /\ t # "number"
  BY <1>3 DEF M!Kept
<1> QED  BY <1>1, <1>2, <1>3

\* What is written into a faithful property is refused, or a push says as much of it as it
\* can after the pull.
LEMMA Arrives ==
  ASSUME Mapped, M!Faithful, NEW p \in M!Written(entry.type), p # M!Empty,
         NEW y, y = M!deserializeNotionProperty(entry.type, p)
  PROVE  \/ M!Assigned(Kind, entry.field, y) = {}
         \/ \E x : /\ M!Assigned(Kind, entry.field, y) = {x} /\ x # M!Nil
                   /\ M!serializeNotionProperty(entry.type, x) = M!Kept(entry.type, p)
<1> DEFINE t == entry.type
<1>1. CASE Kind = "string" /\ t \in M!Texts
  <2>1. p \in {"a", "b", "day", "hour", "big"} /\ y = M!V("string", p)
    BY <1>1, OfText
  <2>2. M!Assigned(Kind, entry.field, y) \in {{}, {y}}
    BY <1>1, <2>1, AssignedIs, ValueParts
  <2>3. M!Kept(t, p) = p
    BY <1>1, KeptIs, Disjoint
  <2> QED  BY <1>1, <2>1, <2>2, <2>3, OfText, ValueParts
<1>2. CASE Kind = "string" /\ t = "date"
  <2>1. p \in {"day", "hour", "range"} /\ y = M!V("string", IF p = "range" THEN "day" ELSE p)
    BY <1>2, OfDate
  <2>2. M!Assigned(Kind, entry.field, y) = {y}
    BY <1>2, <2>1, AssignedIs, ValueParts
  <2>3. M!toTime(y) = "day"
    BY <2>1, ValueParts DEF M!toTime
  <2> QED  BY <1>2, <2>1, <2>2, <2>3, OfDate, KeptIs, ValueParts
<1>3. CASE Kind = "date" /\ t = "date"
  <2>1. p \in {"day", "hour", "range"} /\ y = M!V("string", IF p = "range" THEN "day" ELSE p)
    BY <1>3, OfDate
  <2>2. M!Assigned(Kind, entry.field, y) = {M!V("string", "time")}
    BY <1>3, <2>1, AssignedIs, ValueParts
  <2>3. M!toTime(M!V("string", "time")) = "day"
    BY ValueParts DEF M!toTime
  <2> QED  BY <1>3, <2>1, <2>2, <2>3, OfDate, KeptIs, ValueParts
<1>4. CASE Kind = "float" /\ t = "number"
  <2>1. p \in {"1", "1.5", "1.504", "big"} /\ y = M!V("float", p)
    BY <1>4, OfNumber
  <2>2. \/ M!Assigned(Kind, entry.field, y) = {}
        \/ M!Assigned(Kind, entry.field, y) = {M!V("float", M!Kept(t, p))}
    BY <1>4, <2>1, KeptIs, AssignedIs, ValueParts
  <2> QED  BY <1>4, <2>1, <2>2, OfNumber, ValueParts
<1> QED  BY <1>1, <1>2, <1>3, <1>4 DEF M!Faithful, Kind

\* What is mapped does not change, and any field and property it can be are typed.
LEMMA TypesOf ==
  ASSUME Mapped
  PROVE  entry.type \in M!Types
<1>1. entry \in M!Entry
  BY DEF Mapped
<1> QED  BY <1>1 DEF M!Entry

LEMMA HoldsTyped ==
  ASSUME NEW k \in {"string", "date", "strings", "float", "int", "time"}, NEW x \in Holds(k)
  PROVE  x \in [k : {"nil", "string", "strings", "float", "int", "time"},
                v : M!Says]
<1>1. CASE x = M!Nil
  BY <1>1 DEF M!Nil, M!V, M!Says
<1>2. CASE x # M!Nil
  <2>1. \E j \in {"string", "strings", "float", "int", "time"} :
          \E v \in M!Says : x = M!V(j, v)
    BY <1>2, HoldsSays DEF M!Says
  <2> QED  BY <2>1 DEF M!V
<1> QED  BY <1>1, <1>2

LEMMA ValuesHold == ASSUME Mapped PROVE M!ValuesOf(entity, entry.field) \subseteq Holds(Kind)
<1>1. CASE Kind = "string"
  BY <1>1, HoldsIs DEF M!ValuesOf, Kind
<1>2. CASE Kind = "date"
  BY <1>2, HoldsIs DEF M!ValuesOf, Kind
<1>3. CASE Kind = "strings"
  BY <1>3, HoldsIs DEF M!ValuesOf, Kind
<1>4. CASE Kind = "float"
  BY <1>4, HoldsIs DEF M!ValuesOf, Kind
<1>5. CASE Kind = "int"
  BY <1>5, HoldsIs DEF M!ValuesOf, Kind
<1>6. CASE Kind = "time"
  BY <1>6, HoldsIs DEF M!ValuesOf, Kind
<1> QED  BY <1>1, <1>2, <1>3, <1>4, <1>5, <1>6, KindOfField

\* Any field starts with what it can hold, and its property blank.
LEMMA InitMapping == ASSUME MaxEdits \in Nat, M!Init PROVE MappingInv
<1>1. entity \in M!Entities /\ entry \in {e \in M!Entry : e.field \in M!FieldsOf(entity)}
      /\ local \in M!ValuesOf(entity, entry.field) /\ remote = M!Blank(entry.type)
      /\ last = "edit" /\ written = M!Empty /\ edits = 0
  BY Zenon DEF M!Init
<1>2. Mapped
  BY <1>1, Zenon DEF Mapped
<1>3. local \in Holds(Kind) /\ entry.type \in M!Types
  BY <1>1, <1>2, ValuesHold, TypesOf
<1>4. local \in [k : {"nil", "string", "strings", "float", "int", "time"},
                v : M!Says]
  BY <1>2, <1>3, KindOfField, HoldsTyped
<1>5. remote \in {M!Blank(entry.type), "range", "1.504", "true", "false"} \cup M!Says
      /\ last \in {"edit", "push", "pull", "refused"} /\ edits \in 0 .. MaxEdits
  BY <1>1
<1>6. M!TypeOK
  BY <1>2, <1>4, <1>5, Zenon DEF Mapped, M!TypeOK
<1>7. remote \in M!Written(entry.type)
  BY <1>1, <1>3, OfText, OfList, OfDate, OfNumber, OfCheckbox, Classes
<1>8. Pushed /\ Arrived
  BY <1>1 DEF Pushed, Arrived
<1> QED  BY <1>3, <1>6, <1>7, <1>8 DEF MappingInv, Shows

\* What a step leaves of the invariant to be shown: the rest is about what is mapped, which
\* does not change.
LEMMA KeptMapping ==
  ASSUME MappingInv, UNCHANGED <<entity, entry>>,
         local' \in Holds(Kind), remote' \in Shows(entry.type, Kind),
         last' \in {"edit", "push", "pull", "refused"}, edits' \in 0 .. MaxEdits, Pushed', Arrived'
  PROVE  MappingInv'
<1>1. Mapped
  BY Zenon DEF MappingInv, M!TypeOK, Mapped
<1>2. Kind' = Kind /\ (M!Blank(entry.type))' = M!Blank(entry.type)
  BY DEF Kind, M!KindOf, M!Blank
<1>3. local' \in [k : {"nil", "string", "strings", "float", "int", "time"},
                 v : M!Says]
  BY <1>1, KindOfField, HoldsTyped
<1>4. remote' \in {M!Blank(entry.type), "range", "1.504", "true", "false"} \cup M!Says
  BY <1>1, KindOfField, TypesOf, ShowsSays
<1>5. Mapped'
  BY <1>1 DEF Mapped
<1>6. M!TypeOK'
  BY <1>2, <1>3, <1>4, <1>5, Zenon DEF Mapped, M!TypeOK
<1>7. local' \in Holds(Kind') /\ remote' \in Shows(entry.type', Kind')
  BY <1>2
<1> QED  BY <1>6, <1>7, Zenon DEF MappingInv

\* An edit on either side.
LEMMA EditsMapping ==
  ASSUME MaxEdits \in Nat, MappingInv,
         \/ \E x \in M!ValuesOf(entity, entry.field) : M!EditHere(x)
         \/ \E p \in M!Written(entry.type) : M!EditThere(p)
  PROVE  MappingInv'
<1>1. Mapped /\ edits \in 0 .. MaxEdits
  BY Zenon DEF MappingInv, M!TypeOK, Mapped
<1>2. local \in Holds(Kind) /\ remote \in Shows(entry.type, Kind)
  BY DEF MappingInv
<1>3. ASSUME NEW x \in M!ValuesOf(entity, entry.field), M!EditHere(x) PROVE MappingInv'
  <2>1. UNCHANGED <<entity, entry, remote>> /\ local' = x /\ last' = "edit" /\ written' = M!Empty
        /\ edits' = edits + 1 /\ edits < MaxEdits
    BY <1>3 DEF M!EditHere
  <2>2. local' \in Holds(Kind)
    BY <1>1, <1>3, <2>1, ValuesHold
  <2>3. edits' \in 0 .. MaxEdits
    BY <1>1, <2>1
  <2>4. Pushed' /\ Arrived'
    BY <2>1 DEF Pushed, Arrived, M!Empty
  <2> QED  BY <1>2, <2>1, <2>2, <2>3, <2>4, KeptMapping
<1>4. ASSUME NEW p \in M!Written(entry.type), M!EditThere(p) PROVE MappingInv'
  <2>1. UNCHANGED <<entity, entry, local>> /\ remote' = p /\ last' = "edit" /\ written' = p
        /\ edits' = edits + 1 /\ edits < MaxEdits
    BY <1>4 DEF M!EditThere
  <2>2. remote' \in Shows(entry.type, Kind)
    BY <1>4, <2>1 DEF Shows
  <2>3. edits' \in 0 .. MaxEdits
    BY <1>1, <2>1
  <2>4. (M!Written(entry.type))' = M!Written(entry.type)
    BY <2>1 DEF M!Written, M!Empty
  <2>5. Pushed' /\ Arrived'
    BY <1>4, <2>1, <2>4 DEF Pushed, Arrived
  <2> QED  BY <1>2, <2>1, <2>2, <2>3, <2>5, KeptMapping
<1> QED  BY <1>3, <1>4

\* A push writes what the field holds; if that came from there, it is what was there.
LEMMA PushMapping == ASSUME MappingInv, M!Push PROVE MappingInv' /\ M!EchoStep /\ M!SurvivesStep
<1>1. Mapped /\ edits \in 0 .. MaxEdits
  BY Zenon DEF MappingInv, M!TypeOK, Mapped
<1>2. local \in Holds(Kind) /\ local # M!Nil /\ Pushed /\ Arrived
  BY DEF MappingInv, M!Push
<1>3. UNCHANGED <<entity, entry, local, edits>> /\ last' = "push"
      /\ remote' = M!serializeNotionProperty(entry.type, local)
      /\ written' = (IF last \in {"edit", "refused"} THEN M!Empty ELSE written)
  BY DEF M!Push
<1>4. /\ M!serializeNotionProperty(entry.type, local)' = M!serializeNotionProperty(entry.type, local)
      /\ (M!Kept(entry.type, written))' = M!Kept(entry.type, written')
      /\ (M!Written(entry.type))' = M!Written(entry.type) /\ M!Faithful' = M!Faithful
  BY <1>3, Zenon DEF M!serializeNotionProperty, M!toTime, M!Kept, M!Written, M!Faithful, M!KindOf
<1>5. remote' \in Shows(entry.type, Kind)
  BY <1>2, <1>3 DEF Shows
<1>6. last \in {"edit", "push", "pull", "refused"}
  BY Zenon DEF MappingInv, M!TypeOK
<1>7. written' # M!Empty /\ M!Faithful =>
        /\ written' = written /\ last \in {"pull", "push"} /\ written \in M!Written(entry.type)
        /\ M!serializeNotionProperty(entry.type, local) = M!Kept(entry.type, written)
  BY <1>2, <1>3, <1>6 DEF Arrived
<1>8. Pushed' /\ Arrived'
  BY <1>2, <1>3, <1>4, <1>7 DEF Pushed, Arrived
<1>9. MappingInv'
  BY <1>1, <1>2, <1>3, <1>5, <1>8, KeptMapping
<1>10. M!EchoStep
  BY <1>3 DEF M!EchoStep
<1>11. M!SurvivesStep
  BY <1>2, <1>3 DEF M!SurvivesStep, Arrived
<1> QED  BY <1>9, <1>10, <1>11

\* A pull assigns what the property says; after a push, what the field held.
LEMMA PullMapping == ASSUME MappingInv, M!Pull PROVE MappingInv' /\ M!EchoStep /\ M!SurvivesStep
<1> DEFINE y == M!deserializeNotionProperty(entry.type, remote)
           applied == \E k \in DOMAIN M!NoFields : entry.field \in M!ApplyTo[entity][k]
           kept == IF y # M!Nil /\ applied THEN M!Assigned(Kind, entry.field, y) ELSE {local}
<1>1. Mapped /\ edits \in 0 .. MaxEdits
  BY Zenon DEF MappingInv, M!TypeOK, Mapped
<1>2. local \in Holds(Kind) /\ remote \in Shows(entry.type, Kind) /\ Pushed /\ Arrived
  BY DEF MappingInv
<1>3. UNCHANGED <<entity, entry, remote, written, edits>>
      /\ local' = (IF kept = {} THEN local ELSE CHOOSE v \in kept : TRUE)
      /\ last' = IF kept = {} THEN "refused" ELSE "pull"
  BY Zenon DEF M!Pull, Kind
<1>4. entry.type \in M!Types /\ Kind \in {"string", "date", "strings", "float", "int", "time"}
  BY <1>1, TypesOf, KindOfField
<1> HIDE DEF y, applied, kept
<1>5. y # M!Nil => remote # M!Empty
  BY <1>4, OfText, OfList, OfDate, OfNumber, OfCheckbox, Classes DEF y
<1>6. kept \subseteq Holds(Kind)
  BY <1>2, <1>4, <1>5, AssignsHold DEF kept, y
<1>7. local' \in Holds(Kind) /\ last' \in {"edit", "push", "pull", "refused"}
  BY <1>2, <1>3, <1>6
<1>8. written # M!Empty /\ M!Faithful =>
        \/ kept = {}
        \/ \E x : /\ kept = {x} /\ x # M!Nil
                  /\ M!serializeNotionProperty(entry.type, x) = M!Kept(entry.type, written)
  <2>1. SUFFICES ASSUME written # M!Empty, M!Faithful
                 PROVE  \/ kept = {}
                        \/ \E x : /\ kept = {x} /\ x # M!Nil
                                  /\ M!serializeNotionProperty(entry.type, x) = M!Kept(entry.type, written)
    OBVIOUS
  <2>2. remote \in {written, M!Kept(entry.type, written)} /\ written \in M!Written(entry.type) /\ applied
    BY <1>1, <1>2, <2>1, FaithfulApplies DEF Arrived, applied
  <2>3. /\ remote \in M!Written(entry.type) /\ remote # M!Empty
        /\ M!Kept(entry.type, remote) = M!Kept(entry.type, written)
    BY <2>1, <2>2, KeptIs
  <2>4. \/ M!Assigned(Kind, entry.field, y) = {}
        \/ \E x : /\ M!Assigned(Kind, entry.field, y) = {x} /\ x # M!Nil
                  /\ M!serializeNotionProperty(entry.type, x) = M!Kept(entry.type, written)
    BY <1>1, <2>1, <2>3, Arrives DEF y
  <2>5. y # M!Nil
    <3>1. entry.type \in M!Texts \/ entry.type = "date" \/ entry.type = "number"
      BY <2>1 DEF M!Faithful
    <3> QED  BY <2>1, <2>3, <3>1, OfText, OfDate, OfNumber, ValueParts DEF y
  <2> QED  BY <2>2, <2>4, <2>5 DEF kept
<1>9. /\ \A x : (M!serializeNotionProperty(entry.type, x))' = M!serializeNotionProperty(entry.type, x')
      /\ (M!Kept(entry.type, written))' = M!Kept(entry.type, written)
      /\ (M!Written(entry.type))' = M!Written(entry.type) /\ M!Faithful' = M!Faithful
  BY <1>3, Zenon DEF M!serializeNotionProperty, M!toTime, M!Kept, M!Written, M!Faithful, M!KindOf
<1>10. Arrived'
  <2>1. SUFFICES ASSUME written # M!Empty, M!Faithful
                 PROVE  /\ written \in M!Written(entry.type)
                        /\ remote \in {written, M!Kept(entry.type, written)}
                        /\ last' \in {"pull", "push"} =>
                             /\ local' # M!Nil
                             /\ M!serializeNotionProperty(entry.type, local') = M!Kept(entry.type, written)
    BY <1>3, <1>9 DEF Arrived
  <2>2. written \in M!Written(entry.type) /\ remote \in {written, M!Kept(entry.type, written)}
    BY <1>2, <2>1 DEF Arrived
  <2>3. CASE kept = {}
    BY <1>3, <2>2, <2>3
  <2>4. ASSUME NEW x, kept = {x}, x # M!Nil,
               M!serializeNotionProperty(entry.type, x) = M!Kept(entry.type, written)
        PROVE  local' # M!Nil /\ M!serializeNotionProperty(entry.type, local') = M!Kept(entry.type, written)
    <3>1. local' = x
      BY <1>3, <2>4
    <3> QED  BY <2>4, <3>1
  <2> QED  BY <1>8, <2>1, <2>2, <2>3, <2>4
<1>11. Pushed'
  BY <1>3 DEF Pushed
<1>12. MappingInv'
  BY <1>1, <1>2, <1>3, <1>7, <1>10, <1>11, KeptMapping
<1>13. M!EchoStep
  <2>1. SUFFICES ASSUME last = "push", last' = "pull" PROVE local' = local \/ M!HourLost
    BY DEF M!EchoStep
  <2>2. local # M!Nil /\ y = M!deserializeNotionProperty(entry.type, M!serializeNotionProperty(entry.type, local))
    BY <1>2, <2>1 DEF Pushed, y
  <2>3. \/ kept \subseteq {local}
        \/ /\ entry.type = "date" /\ local = M!V("string", "hour")
           /\ kept \subseteq {M!V("string", "day")} \cup {local}
    BY <1>2, <1>4, <2>2, Echoes DEF kept
  <2>4. kept # {}
    BY <1>3, <2>1
  <2>5. local' \in kept
    BY <1>3, <2>4
  <2> QED  BY <2>3, <2>5 DEF M!HourLost
<1>14. M!SurvivesStep
  BY <1>3 DEF M!SurvivesStep
<1> QED  BY <1>12, <1>13, <1>14

LEMMA NextMapping ==
  ASSUME MaxEdits \in Nat, MappingInv, [M!Next]_(M!vars) PROVE MappingInv' /\ M!EchoStep /\ M!SurvivesStep
<1>1. CASE UNCHANGED M!vars
  <2>1. UNCHANGED <<entity, entry, local, remote, last, written, edits>>
    BY <1>1 DEF M!vars
  <2>2. /\ last \in {"edit", "push", "pull", "refused"} /\ edits \in 0 .. MaxEdits
        /\ local \in Holds(Kind) /\ remote \in Shows(entry.type, Kind) /\ Pushed /\ Arrived
    BY Zenon DEF MappingInv, M!TypeOK
  <2>3. M!serializeNotionProperty(entry.type, local)' = M!serializeNotionProperty(entry.type, local)
        /\ (M!Kept(entry.type, written))' = M!Kept(entry.type, written)
        /\ (M!Written(entry.type))' = M!Written(entry.type) /\ M!Faithful' = M!Faithful
    BY <2>1, Zenon DEF M!serializeNotionProperty, M!toTime, M!Kept, M!Written, M!Faithful, M!KindOf
  <2>4. Pushed' /\ Arrived'
    BY <2>1, <2>2, <2>3 DEF Pushed, Arrived
  <2>5. MappingInv'
    BY <2>1, <2>2, <2>4, KeptMapping
  <2> QED  BY <2>1, <2>5 DEF M!EchoStep, M!SurvivesStep
<1>2. CASE \/ \E x \in M!ValuesOf(entity, entry.field) : M!EditHere(x)
           \/ \E p \in M!Written(entry.type) : M!EditThere(p)
  <2>1. last' = "edit"
    BY <1>2 DEF M!EditHere, M!EditThere
  <2> QED  BY <1>2, <2>1, EditsMapping DEF M!EchoStep, M!SurvivesStep
<1> QED  BY <1>1, <1>2, PushMapping, PullMapping DEF M!Next

LEMMA MappingInvariant == ASSUME MaxEdits \in Nat PROVE M!Spec => []MappingInv
<1>1. M!Init => MappingInv
  BY InitMapping
<1>2. MappingInv /\ [M!Next]_(M!vars) => MappingInv'
  BY NextMapping
<1> QED  BY <1>1, <1>2, PTL DEF M!Spec

\* However many edits there are, whatever field is mapped to whatever type of property: the
\* pull that follows a push gives back what was pushed, but for the hour of a text mapped to a
\* date; and the push that follows a pull writes what somebody had written in Notion, for the
\* fields and types that hold each other's values, but for the hour and the end of a date and
\* the third decimal of a number, which it erases.
THEOREM FieldsAreFaithful ==
  ASSUME MaxEdits \in Nat PROVE M!Spec => [][M!EchoStep /\ M!SurvivesStep]_(M!vars)
<1>1. MappingInv /\ [M!Next]_(M!vars) => [M!EchoStep /\ M!SurvivesStep]_(M!vars)
  BY NextMapping
<1> QED  BY <1>1, MappingInvariant, PTL DEF M!Spec
================================================================================
