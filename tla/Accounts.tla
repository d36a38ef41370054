------------------------------- MODULE Accounts -------------------------------
(***************************************************************************)
(* One user's account: logging in with a password and a second factor, the *)
(* lockout counter, sessions and their refresh tokens, the tokens sent by  *)
(* e-mail, and the profile.                                                *)
(*                                                                         *)
(* Every request reads the row of the user, changes some of its fields and *)
(* Saves the whole row; sessions and tokens have tables of their own, with *)
(* an UPDATE for each change, and a token that was refreshed or logged out *)
(* also has a key in Redis (black).  Registration, invitations and the     *)
(* deletion of accounts are in Team.                                       *)
(***************************************************************************)
EXTENDS Naturals, FiniteSets

CONSTANTS
  Codes,        \* the backup codes of an enrolment
  Workers,      \* handlers of requests
  MaxFailed,    \* MAX_FAILED_LOGINS
  MaxSessions,  \* bounds on the sessions, the tokens sent by e-mail,
  MaxTokens,
  MaxRequests,  \* the requests,
  MaxFaults     \* and the crashes and ignored errors

SessionIds == 1 .. MaxSessions
TokenIds == 1 .. MaxTokens

VARIABLES
  user,      \* the row of the user
  session,   \* rows of refresh tokens
  token,     \* of verification and password reset tokens
  tickets,   \* passwords that logins waiting for the second factor have given
  expired,   \* the locks that are over
  job,       \* what each worker is doing
  requests,  \* those begun so far
  faults,    \* faults so far
  past       \* what has happened (history variable)

vars == <<user, session, token, tickets, expired, job, requests, faults, past>>

\* A password is the number of changes before it, a lock that of the locks.
User == [pw : Nat, failed : Nat, lock : Nat, verified : BOOLEAN,
         mfa : {"off", "pending", "on"}, codes : SUBSET Codes]
\* pw: the password it goes back to.  kids: the sessions that replaced it.
\* raced: two refreshes of it overlapped.  late: somebody changed the password
\* or signed the user out while it was being made (history, the last four).
Session == [st : {"none", "live", "revoked"}, black : BOOLEAN, pw : Nat, kids : Nat,
            raced : BOOLEAN, late : BOOLEAN]
NoSession == [st |-> "none", black |-> FALSE, pw |-> 0, kids |-> 0, raced |-> FALSE,
              late |-> FALSE]
\* uses: how often it was redeemed.  raced: two requests redeemed it, or issued
\* tokens, at once, or the older ones were not deleted (history, both).
Token == [st : {"none", "live", "used", "deleted"}, kind : {"verify", "reset"},
          uses : Nat, raced : BOOLEAN]
NoToken == [st |-> "none", kind |-> "verify", uses |-> 0, raced |-> FALSE]

Changes == {"none", "failed", "success", "code", "reset", "change", "verify", "profile",
            "mfaoff", "enroll", "confirm"}
\* user: the row as it was read.  alone: it has not changed since.  late: the
\* password was changed or the user signed out since.  raced: as in Token.
Job == [pc : {"idle", "session", "save", "revokeall", "invalidate", "issue", "readuser",
              "mark", "find", "revoke", "black", "logout"},
        change : Changes, user : User, code : Codes \cup {"none"}, pw : Nat,
        session : 0 .. MaxSessions, token : 0 .. MaxTokens,
        kind : {"verify", "reset"}, alone : BOOLEAN, late : BOOLEAN, raced : BOOLEAN]

NewUser == [pw |-> 0, failed |-> 0, lock |-> 0, verified |-> FALSE, mfa |-> "off", codes |-> {}]
Idle == [pc |-> "idle", change |-> "none", user |-> NewUser, code |-> "none", pw |-> 0,
         session |-> 0, token |-> 0, kind |-> "verify", alone |-> TRUE, late |-> FALSE,
         raced |-> FALSE]

\* row: the user if every Save wrote only what it changes.  lost: a Save wrote
\* an old copy.  wrong: failed logins.  locks: those set.  unsigned: sessions
\* were left when a password changed.
Past == [row : User, lost : BOOLEAN, wrong : Nat, locks : Nat, unsigned : BOOLEAN]

TypeOK ==
  /\ user \in User
  /\ session \in [SessionIds -> Session]
  /\ token \in [TokenIds -> Token]
  /\ tickets \subseteq Nat
  /\ expired \in Nat
  /\ job \in [Workers -> Job]
  /\ requests \in 0 .. MaxRequests
  /\ faults \in 0 .. MaxFaults
  /\ past \in Past

Init ==
  /\ user \in {NewUser, [NewUser EXCEPT !.verified = TRUE, !.mfa = "on", !.codes = Codes]}
  /\ session = [s \in SessionIds |-> IF s = 1 THEN [NoSession EXCEPT !.st = "live"] ELSE NoSession]
  /\ token = [t \in TokenIds |-> NoToken]
  /\ tickets = {}
  /\ expired = 0
  /\ job = [w \in Workers |-> Idle]
  /\ requests = 0
  /\ faults = 0
  /\ past = [row |-> user, lost |-> FALSE, wrong |-> 0, locks |-> 0, unsigned |-> FALSE]

IsNext(T, i) == T[i].st = "none" /\ \A j \in DOMAIN T : j < i => T[j].st # "none"
Live(T) == {i \in DOMAIN T : T[i].st = "live"}
\* Each request begins on an idle worker, with the row as it is then.
Begin(w, pc, change) ==
  [Idle EXCEPT !.pc = pc, !.change = change, !.user = user, !.pw = user.pw]
Request(w) == job[w].pc = "idle" /\ requests < MaxRequests /\ requests' = requests + 1
Ignored(e) == IF e THEN faults < MaxFaults /\ faults' = faults + 1 ELSE UNCHANGED faults
Step(w, j) == job' = [job EXCEPT ![w] = j]
Goto(w, pc) == Step(w, [job[w] EXCEPT !.pc = pc])
\* The others now have an old copy, if d; their sessions will be late, if l.
Others(w, j, d, l) ==
  job' = [v \in Workers |-> CASE v = w -> j
                              [] v # w /\ job[v].pc = "idle" -> job[v]
                              [] OTHER -> [job[v] EXCEPT !.alone = @ /\ ~d, !.late = @ \/ l]]
Locked(u) == u.lock > expired

-----------------------------------------------------------------------------
(* Changes of the user's row.                                              *)

\* recordFailedLogin.
\* Mutant: the counter counts down.
Failed_Down(u) == [u EXCEPT !.failed = @ - 1]
\* Mutant: every failure counts twice.
Failed_Twice(u) ==
  [u EXCEPT !.failed = @ + 2, !.lock = IF u.failed + 2 >= MaxFailed THEN past.locks + 1 ELSE @]
Failed(u) ==
  [u EXCEPT !.failed = @ + 1, !.lock = IF u.failed + 1 >= MaxFailed THEN past.locks + 1 ELSE @]

\* completeLogin, consumeBackupCode, ResetPassword, ChangePassword, VerifyEmail,
\* EnrollMFA, ConfirmMFA, DisableMFA; ProfileHandler.Update has fields of its own.
Applied(j, u) ==
  CASE j.change = "failed"  -> Failed(u)
    [] j.change = "success" -> [u EXCEPT !.failed = 0, !.lock = 0]
    [] j.change = "code"    -> [u EXCEPT !.codes = @ \ {j.code}]
    [] j.change = "reset"   -> [u EXCEPT !.pw = past.row.pw + 1, !.failed = 0, !.lock = 0]
    [] j.change = "change"  -> [u EXCEPT !.pw = past.row.pw + 1]
    [] j.change = "verify"  -> [u EXCEPT !.verified = TRUE]
    [] j.change = "enroll"  -> [u EXCEPT !.mfa = "pending", !.codes = Codes]
    [] j.change = "confirm" -> [u EXCEPT !.mfa = "on"]
    [] j.change = "mfaoff"  -> [u EXCEPT !.mfa = "off", !.codes = {}]
    [] OTHER -> u

\* A code is followed by a session, a new password by the end of all sessions.
\* Mutant: the login goes on with the row as it was before the code was used.
AfterSave_OldRow(j) ==
  CASE j.change = "code" -> [j EXCEPT !.pc = "session", !.change = "success"]
    [] j.change \in {"reset", "change"} -> [j EXCEPT !.pc = "revokeall"]
    [] OTHER -> Idle
\* Mutant: a change of the password leaves the sessions.
AfterSave_Keep(j) ==
  CASE j.change = "code" -> [j EXCEPT !.pc = "session", !.change = "success", !.user = user']
    [] j.change = "reset" -> [j EXCEPT !.pc = "revokeall"]
    [] OTHER -> Idle
AfterSave(j) ==
  CASE j.change = "code" -> [j EXCEPT !.pc = "session", !.change = "success", !.user = user']
    [] j.change \in {"reset", "change"} -> [j EXCEPT !.pc = "revokeall"]
    [] OTHER -> Idle

SaveUser(w) ==
  LET j == job[w] IN
  /\ j.pc = "save"
  /\ user' = Applied(j, j.user)
  /\ past' = [past EXCEPT !.row = Applied(j, @), !.lost = @ \/ ~j.alone,
                          !.wrong = IF j.change = "failed" THEN @ + 1 ELSE @,
                          !.locks = IF user'.lock > @ THEN @ + 1 ELSE @]
  /\ Others(w, AfterSave(j), user' # user, j.change \in {"reset", "change"})
  /\ UNCHANGED <<session, token, tickets, expired, requests, faults>>

\* The error of saving the used code is logged: the login goes on with it.
CodeNotSaved(w) ==
  LET j == job[w] IN
  /\ j.pc = "save" /\ j.change = "code" /\ Ignored(TRUE)
  /\ Step(w, [j EXCEPT !.pc = "session", !.change = "success", !.user = Applied(j, @)])
  /\ past' = [past EXCEPT !.row = Applied(j, @), !.lost = TRUE]
  /\ UNCHANGED <<user, session, token, tickets, expired, requests>>

LockExpires ==
  /\ expired < past.locks
  /\ expired' = expired + 1
  /\ UNCHANGED <<user, session, token, tickets, job, requests, faults, past>>

-----------------------------------------------------------------------------
(* AuthHandler: logging in.                                                *)

\* A wrong password is counted; a right one leads to a session, or to the second
\* factor.
Login(w, right) ==
  /\ Request(w) /\ ~Locked(user)
  /\ CASE ~right -> Step(w, Begin(w, "save", "failed")) /\ UNCHANGED tickets
       [] right /\ user.mfa = "on" -> tickets' = tickets \cup {user.pw} /\ UNCHANGED job
       [] OTHER -> Step(w, Begin(w, "session", "success")) /\ UNCHANGED tickets
  /\ UNCHANGED <<user, session, token, expired, faults, past>>

\* VerifyMFALogin, with the ticket of a login.
VerifyMFALogin(w, pw, code) ==
  /\ Request(w) /\ user.mfa = "on" /\ ~Locked(user) /\ pw \in tickets
  /\ Step(w, [(CASE code = "totp" -> Begin(w, "session", "success")
                 [] code \in user.codes -> Begin(w, "save", "code")
                 [] OTHER -> Begin(w, "save", "failed"))
              EXCEPT !.pw = pw, !.late = pw # user.pw,
                     !.code = IF code \in user.codes THEN code ELSE "none"])
  /\ UNCHANGED <<user, session, token, tickets, expired, faults, past>>

TicketExpires(pw) ==
  /\ pw \in tickets
  /\ tickets' = tickets \ {pw}
  /\ UNCHANGED <<user, session, token, expired, job, requests, faults, past>>

\* generateTokens.  The error of the INSERT is logged: tokens of the same second
\* are equal, and their hashes are unique; or it fails.
CreateSession(w) ==
  LET j == job[w] IN
  /\ j.pc = "session"
  /\ \/ /\ \E s \in SessionIds :
             /\ IsNext(session, s)
             /\ session' = [session EXCEPT
                  ![s] = [NoSession EXCEPT !.st = "live", !.pw = j.pw, !.late = j.late],
                  ![IF j.session = 0 THEN s ELSE j.session].kids = IF j.session = 0 THEN 0 ELSE @ + 1]
        /\ UNCHANGED faults
     \/ UNCHANGED <<session, faults>>
     \/ Ignored(TRUE) /\ UNCHANGED session
  /\ Step(w, IF j.change = "success" THEN [j EXCEPT !.pc = "save"] ELSE Idle)
  /\ UNCHANGED <<user, token, tickets, expired, requests, past>>

-----------------------------------------------------------------------------
(* RefreshToken, Logout, RevokeSession, LogoutAllSessions.                 *)

\* w refreshes s, and has not replaced it yet.
Refreshes(w, s) == job[w].session = s /\ job[w].pc \in {"find", "revoke", "black", "session"}

\* The key in Redis is looked up (an error counts as "not there"),
Refresh(w, s) ==
  /\ Request(w) /\ session[s].st # "none" /\ Ignored(session[s].black)
  /\ Step(w, [Begin(w, "find", "none") EXCEPT !.session = s])
  /\ session' = [session EXCEPT ![s].raced = @ \/ \E v \in Workers : Refreshes(v, s)]
  /\ UNCHANGED <<user, token, tickets, expired, past>>

\* then the row; from here on its password is the one the new session has.
\* Mutant: only the key in Redis is looked at.
IsRevoked_Redis(s) == FALSE
IsRevoked(s) == session[s].st = "revoked"
FindSession(w) ==
  LET s == job[w].session IN
  /\ job[w].pc = "find"
  /\ Step(w, IF IsRevoked(s) THEN Idle
             ELSE [job[w] EXCEPT !.pc = "revoke", !.pw = session[s].pw,
                                 !.late = session[s].late \/ past.row.pw # session[s].pw])
  /\ UNCHANGED <<user, session, token, tickets, expired, requests, faults, past>>

\* The old one is revoked, in the table
RevokeOld(w) ==
  /\ job[w].pc = "revoke"
  /\ \E e \in BOOLEAN : /\ Ignored(e)
                        /\ session' = [session EXCEPT ![job[w].session].st =
                                         IF e THEN @ ELSE "revoked"]
  /\ Goto(w, "black")
  /\ UNCHANGED <<user, token, tickets, expired, requests, past>>

\* and in Redis.
\* Mutant: only in the table.
Blacklisted_Not(s) == session
Blacklisted(s) == [session EXCEPT ![s].black = TRUE]
Blacklist(w) ==
  /\ job[w].pc = "black"
  /\ \E e \in BOOLEAN : /\ Ignored(e)
                        /\ session' = IF e THEN session ELSE Blacklisted(job[w].session)
  /\ Goto(w, "session")
  /\ UNCHANGED <<user, token, tickets, expired, requests, past>>

\* Logout puts the key, then revokes the row.
Logout(w, s) ==
  /\ Request(w) /\ session[s].st # "none"
  /\ \E e \in BOOLEAN : Ignored(e) /\ session' = IF e THEN session ELSE Blacklisted(s)
  /\ Step(w, [Begin(w, "logout", "none") EXCEPT !.session = s])
  /\ UNCHANGED <<user, token, tickets, expired, past>>
LogoutRevokes(w) ==
  /\ job[w].pc = "logout"
  /\ session' = [session EXCEPT ![job[w].session].st = "revoked"]
  /\ Step(w, Idle)
  /\ UNCHANGED <<user, token, tickets, expired, requests, faults, past>>

RevokedAll == [s \in SessionIds |-> IF s \in Live(session) THEN [session[s] EXCEPT !.st = "revoked"]
                                    ELSE session[s]]
\* The last step of ResetPassword and ChangePassword; its error is ignored.
RevokeAll(w) ==
  /\ job[w].pc = "revokeall"
  /\ \/ session' = RevokedAll /\ UNCHANGED <<faults, past>>
        /\ Others(w, Idle, FALSE, TRUE)
     \/ Ignored(TRUE) /\ UNCHANGED session /\ Step(w, Idle)
        /\ past' = [past EXCEPT !.unsigned = TRUE]
  /\ UNCHANGED <<user, token, tickets, expired, requests>>

SignOut(w, S) ==
  /\ Request(w)
  /\ session' = [s \in SessionIds |-> IF s \in S THEN RevokedAll[s] ELSE session[s]]
  /\ UNCHANGED <<user, token, tickets, expired, job, faults, past>>

-----------------------------------------------------------------------------
(* Tokens sent by e-mail.                                                  *)

Issues(w, k) == job[w].pc \in {"invalidate", "issue"} /\ job[w].kind = k

\* ForgotPassword, ResendVerification: the tokens not used are deleted,
BeginIssue(w, k) ==
  /\ Request(w)
  /\ k = "verify" => ~user.verified
  /\ job' = [v \in Workers |->
               IF v = w THEN [Begin(w, "invalidate", "none") EXCEPT
                                !.kind = k, !.raced = \E x \in Workers : Issues(x, k)]
               ELSE [job[v] EXCEPT !.raced = @ \/ Issues(v, k)]]
  /\ UNCHANGED <<user, session, token, tickets, expired, faults, past>>
\* Mutant: those of the other kind.
Invalidated_Other(k) == {t \in Live(token) : token[t].kind # k}
Invalidated(k) == {t \in Live(token) : token[t].kind = k}
Invalidate(w) ==
  /\ job[w].pc = "invalidate"
  /\ \E e \in BOOLEAN :
       /\ Ignored(e)
       /\ token' = [t \in TokenIds |-> IF ~e /\ t \in Invalidated(job[w].kind)
                                       THEN [token[t] EXCEPT !.st = "deleted"] ELSE token[t]]
       /\ Step(w, [job[w] EXCEPT !.pc = "issue", !.raced = @ \/ e])
  /\ UNCHANGED <<user, session, tickets, expired, requests, past>>
\* and a new one is created.
Issue(w) ==
  /\ job[w].pc = "issue"
  /\ \E t \in TokenIds :
       /\ IsNext(token, t)
       /\ token' = [token EXCEPT ![t] = [NoToken EXCEPT !.st = "live", !.kind = job[w].kind,
                                                        !.raced = job[w].raced]]
  /\ Step(w, Idle)
  /\ UNCHANGED <<user, session, tickets, expired, requests, faults, past>>

\* VerifyEmail, ResetPassword: the token is read,
Redeems(w, t) == job[w].token = t /\ job[w].pc \in {"readuser", "mark"}
Redeem(w, t) ==
  /\ Request(w) /\ token[t].st = "live"
  /\ Step(w, [Begin(w, "readuser", token[t].kind) EXCEPT !.token = t])
  /\ token' = [token EXCEPT ![t].raced = @ \/ \E v \in Workers : Redeems(v, t)]
  /\ UNCHANGED <<user, session, tickets, expired, faults, past>>
\* then the user,
ReadUser(w) ==
  /\ job[w].pc = "readuser"
  /\ Step(w, [job[w] EXCEPT !.pc = "mark", !.user = user, !.alone = TRUE])
  /\ UNCHANGED <<user, session, token, tickets, expired, requests, faults, past>>
\* and the token is marked, if it is still there.
\* Mutant: it is not marked.
Used_Not(t) == [token EXCEPT ![t].uses = @ + 1]
Used(t) == [token EXCEPT ![t].uses = @ + 1, ![t].st = IF @ = "deleted" THEN @ ELSE "used"]
MarkUsed(w) ==
  /\ job[w].pc = "mark"
  /\ token' = Used(job[w].token)
  /\ Goto(w, "save")
  /\ UNCHANGED <<user, session, tickets, expired, requests, faults, past>>

-----------------------------------------------------------------------------
\* ChangePassword, EnrollMFA, ConfirmMFA, DisableMFA, ProfileHandler.Update.
Edit(w, change) ==
  /\ Request(w)
  /\ change = "confirm" => user.mfa # "off"
  /\ Step(w, Begin(w, "save", change))
  /\ UNCHANGED <<user, session, token, tickets, expired, faults, past>>

\* The process dies, or a statement fails and ends the request.
Crash(w) ==
  /\ job[w].pc # "idle" /\ Ignored(TRUE)
  /\ Step(w, Idle)
  /\ past' = [past EXCEPT !.unsigned = @ \/ job[w].pc = "revokeall"]
  /\ UNCHANGED <<user, session, token, tickets, expired, requests>>

Next ==
  \/ \E w \in Workers :
       \/ \E right \in BOOLEAN : Login(w, right)
       \/ \E pw \in tickets, code \in Codes \cup {"totp", "wrong"} : VerifyMFALogin(w, pw, code)
       \/ SaveUser(w) \/ CodeNotSaved(w) \/ CreateSession(w)
       \/ \E s \in SessionIds : Refresh(w, s) \/ Logout(w, s) \/ SignOut(w, {s})
       \/ SignOut(w, SessionIds)
       \/ FindSession(w) \/ RevokeOld(w) \/ Blacklist(w) \/ LogoutRevokes(w) \/ RevokeAll(w)
       \/ \E k \in {"verify", "reset"} : BeginIssue(w, k)
       \/ \E t \in TokenIds : Redeem(w, t)
       \/ Invalidate(w) \/ Issue(w) \/ ReadUser(w) \/ MarkUsed(w)
       \/ \E change \in {"change", "profile", "enroll", "confirm", "mfaoff"} : Edit(w, change)
       \/ Crash(w)
  \/ \E pw \in tickets : TicketExpires(pw)
  \/ LockExpires

Spec == Init /\ [][Next]_vars

-----------------------------------------------------------------------------
(* Properties.                                                             *)

\* As long as no request saved the row from an old copy, the row has every
\* change that was made: the password, the verified address, the second factor,
\* the codes left, and the failures in a row since the last login.
NoLostChange == ~past.lost => user = past.row

\* Lost updates never lock an account before MaxFailed logins have failed.
NeverLockedTooEarly ==
  /\ user.failed <= past.wrong
  /\ user.lock # 0 => past.wrong >= MaxFailed

\* After ResetPassword or ChangePassword no live session goes back to an older
\* password, whatever logins, refreshes and sign-outs were under way, except one
\* whose request (or that of a session it replaced) overlapped the change, or
\* used the ticket of a login before it; unless the end of the sessions is still
\* to come, or failed.
SessionsOfToday ==
  past.lost \/ past.unsigned \/ (\E w \in Workers : job[w].pc = "revokeall")
    \/ \A s \in Live(session) : session[s].pw = past.row.pw \/ session[s].late

\* A session is replaced once, unless two refreshes of it overlapped: the table
\* and the key in Redis each make up for an error of the other.
ReplacedOnce ==
  MaxFaults <= 1 => \A s \in SessionIds : session[s].kids <= 1 \/ session[s].raced

\* A token sent by e-mail is redeemed once, unless two requests were at it, and
\* a new one leaves no other to be redeemed, unless two were issued at once.
TokenOnce ==
  /\ \A t \in TokenIds : token[t].uses <= 1 \/ token[t].raced
  /\ \A t, u \in Live(token) :
       t # u /\ token[t].kind = token[u].kind => token[t].raced \/ token[u].raced

\* The account has every change that was made, and is locked for failures that happened.
AccountKeepsChanges == NoLostChange /\ NeverLockedTooEarly
\* What proves who somebody is ends with the password it came with, or with its use:
\* a session, its refresh token, a token sent by e-mail.
CredentialsEnd == SessionsOfToday /\ ReplacedOnce /\ TokenOnce
=============================================================================
