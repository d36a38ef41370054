-------------------------------- MODULE Team --------------------------------
(***************************************************************************)
(* The membership of one organization: users, the roles they hold          *)
(* (user_roles) and the invitations sent.  Package handler (team.go), and  *)
(* AuthService, InvitationService and OrganizationService.                 *)
(*                                                                         *)
(* The API serves requests concurrently and keeps no lock and, but where   *)
(* Transfer and CreateAccount say so, no transaction: every database       *)
(* statement of a request is a step, and what a request learnt may be      *)
(* stale at its next step.                                                 *)
(*                                                                         *)
(* Passwords, tokens and routes are abstract: a request whose password or  *)
(* token is wrong changes nothing and is left out.                         *)
(***************************************************************************)
EXTENDS Naturals, FiniteSets

CONSTANTS
  Users,        \* accounts that can exist; an account is never reused
  Founder,      \* the user who registered the organization
  Emails,
  FounderEmail,
  InviteIds,    \* invitations that can be sent
  Requests,     \* requests the API can serve at one time
  NoUser, NoEmail, NoInvite,
  RoleSets,     \* what a client may ask a member's roles to become
  UserOps,      \* which operations are used
  Overlapping,  \* which of them are served beside another
  MaxRequests,  \* bound on requests served in all
  MaxFaults     \* bound on failing statements and aborted requests

\* Manager and Guest are left out: the code below only asks who is an Owner
\* and who may manage the team.
Roles == {"Owner", "Admin", "Member"}

\* What a client may write as a role: nothing checks that there is one.
RoleNames == Roles \cup {"Other"}

ASSUME InputAssumption ==
  /\ RoleSets \subseteq SUBSET RoleNames
  /\ UserOps \subseteq {"roles", "remove", "transfer", "invite", "accept",
                        "revoke", "join", "leave"}
  /\ Overlapping \subseteq UserOps
  /\ MaxRequests \in Nat /\ MaxFaults \in Nat

ASSUME NameAssumption ==
  /\ Founder \in Users /\ FounderEmail \in Emails
  /\ NoUser \notin Users /\ NoEmail \notin Emails /\ NoInvite \notin InviteIds

VARIABLES
  users,      \* the users table; a removed user's row stays, soft-deleted
  userRoles,  \* the user_roles table
  invites,    \* the invitations table
  org,        \* the organization: "live" or (soft-)"deleted"
  reqs,       \* the requests being served
  served,     \* requests so far
  faults,     \* faults so far
  overlapped, \* two requests were served at one time (history variable)
  blind,      \* a failed lookup has counted as nothing found (history variable)
  emptied     \* the members whom an update took their roles and gave none, as
              \* it named none that exists, failed or died (history variable)

vars == <<users, userRoles, invites, org, reqs, served, faults, overlapped, blind, emptied>>

User == [st : {"none", "live", "removed"}, email : Emails \cup {NoEmail}]
NobodyYet == [st |-> "none", email |-> NoEmail]

Invitation == [sent : BOOLEAN, email : Emails \cup {NoEmail}, role : Roles,
               accepted : BOOLEAN, revoked : BOOLEAN, expired : BOOLEAN]
Unsent == [sent |-> FALSE, email |-> NoEmail, role |-> "Member",
           accepted |-> FALSE, revoked |-> FALSE, expired |-> FALSE]

Steps == {"idle", "member", "count", "asker", "clear", "insert", "remove",
          "holds", "target", "transfer", "size", "leave", "close",
          "known", "pending", "send", "redeem", "create", "mark"}

\* roles: what an update asks for, then what is left to insert; the role an
\* invitation or a new account gets.  last: the leaving owner was alone.
Request == [pc : Steps, op : (UserOps \ {"revoke"}) \cup {"none"},
            actor : Users \cup {NoUser}, target : Users \cup {NoUser},
            roles : SUBSET RoleNames, email : Emails \cup {NoEmail},
            inv : InviteIds \cup {NoInvite}, last : BOOLEAN]
NoRequest == [pc |-> "idle", op |-> "none", actor |-> NoUser,
              target |-> NoUser, roles |-> {}, email |-> NoEmail,
              inv |-> NoInvite, last |-> FALSE]

TypeOK ==
  /\ users \in [Users -> User]
  /\ userRoles \subseteq Users \X Roles
  /\ invites \in [InviteIds -> Invitation]
  /\ org \in {"live", "deleted"}
  /\ reqs \in [Requests -> Request]
  /\ served \in 0 .. MaxRequests
  /\ faults \in 0 .. MaxFaults
  /\ overlapped \in BOOLEAN
  /\ blind \in BOOLEAN /\ (blind => faults > 0)
  /\ emptied \subseteq Users
  /\ \A u \in Users : users[u].st = "none" <=> users[u].email = NoEmail

\* AuthService.Register, in one transaction: the organization, its first
\* user, the system roles, the Owner role for the user.
Init ==
  /\ users = [u \in Users |-> IF u = Founder
                                THEN [st |-> "live", email |-> FounderEmail]
                                ELSE NobodyYet]
  /\ userRoles = {<<Founder, "Owner">>}
  /\ invites = [i \in InviteIds |-> Unsent]
  /\ org = "live"
  /\ reqs = [r \in Requests |-> NoRequest]
  /\ served = 0
  /\ faults = 0
  /\ overlapped = FALSE
  /\ blind = FALSE
  /\ emptied = {}

-----------------------------------------------------------------------------
(* What the queries return.                                                *)

Live(u) == users[u].st = "live"
HasRole(u, role) == <<u, role>> \in userRoles

\* Mutant: the member asked about is counted too.
CountOtherOwners_Everyone(u) ==
  Cardinality({v \in Users : HasRole(v, "Owner")})
\* Reads user_roles alone: a removed user's rows count.
CountOtherOwners(u) == Cardinality({v \in Users \ {u} : HasRole(v, "Owner")})

CountByOrg == Cardinality({u \in Users : Live(u)})
EmailKnown(e) == \E u \in Users : Live(u) /\ users[u].email = e
Pending(i) == /\ invites[i].sent /\ ~invites[i].accepted
              /\ ~invites[i].revoked /\ ~invites[i].expired

\* PermTeamManage, from user_roles alone.
MayManage(u) == HasRole(u, "Owner") \/ HasRole(u, "Admin")

-----------------------------------------------------------------------------
(* Requests arrive.  An access token outlives its user: an actor is anyone *)
(* who has had an account.                                                 *)

Serving(r) == reqs[r].pc # "idle"
\* A statement that changes nothing but what its request knows.
OnlyReads ==
  UNCHANGED <<users, userRoles, invites, org, served, faults, overlapped, blind, emptied>>

Goto(r, pc) == reqs' = [reqs EXCEPT ![r].pc = pc]
Finish(r) == reqs' = [reqs EXCEPT ![r] = NoRequest]

\* Bounds: a request that needs a new row arrives while an id is left.
SomeUserLeft == \E u \in Users : users[u].st = "none"
SomeInviteLeft == \E i \in InviteIds : ~invites[i].sent

\* A request for op is let in.
LetIn(op) ==
  /\ op \in UserOps /\ served < MaxRequests
  /\ \A q \in Requests : Serving(q) => {op, reqs[q].op} \subseteq Overlapping
  /\ served' = served + 1
  /\ overlapped' = (overlapped \/ \E q \in Requests : Serving(q))

Arrive(r, req) ==
  /\ ~Serving(r)
  /\ LetIn(req.op)
  /\ reqs' = [reqs EXCEPT ![r] = req]
  /\ UNCHANGED <<users, userRoles, invites, org, faults, blind, emptied>>

AskRoles(r) ==
  \E a, t \in Users, roles \in RoleSets :
    /\ MayManage(a) /\ users[t].st # "none"
    /\ Arrive(r, [NoRequest EXCEPT !.pc = "member", !.op = "roles",
                    !.actor = a, !.target = t, !.roles = roles])

\* Removing oneself is refused.
AskRemoval(r) ==
  \E a, t \in Users :
    /\ MayManage(a) /\ users[t].st # "none" /\ a # t
    /\ Arrive(r, [NoRequest EXCEPT !.pc = "member", !.op = "remove",
                    !.actor = a, !.target = t])

AskTransfer(r) ==
  \E a, t \in Users :
    /\ MayManage(a) /\ users[t].st # "none" /\ a # t
    /\ Arrive(r, [NoRequest EXCEPT !.pc = "holds", !.op = "transfer",
                    !.actor = a, !.target = t])

AskInvite(r) ==
  \E a \in Users, e \in Emails, role \in Roles :
    /\ MayManage(a) /\ SomeInviteLeft
    /\ Arrive(r, [NoRequest EXCEPT !.op = "invite", !.actor = a, !.email = e,
                    !.roles = {role},
                    !.pc = IF role = "Owner" THEN "asker" ELSE "known"])

AskAccept(r) ==
  \E i \in InviteIds :
    /\ invites[i].sent /\ SomeUserLeft
    /\ Arrive(r, [NoRequest EXCEPT !.pc = "redeem", !.op = "accept", !.inv = i])

\* The joiner knows the organization's password.
AskJoin(r) ==
  \E e \in Emails :
    /\ SomeUserLeft
    /\ Arrive(r, [NoRequest EXCEPT !.pc = "known", !.op = "join", !.email = e,
                    !.roles = {"Member"}])

\* DeleteAccount: the user is read, and proves to know the password.
AskLeave(r) ==
  \E u \in Users :
    /\ Live(u)
    /\ Arrive(r, [NoRequest EXCEPT !.pc = "holds", !.op = "leave", !.actor = u])

-----------------------------------------------------------------------------
(* UpdateMemberRole and RemoveMember.                                      *)

\* The target is read with its roles; what is next depends on whether the
\* request takes Owner from an owner, gives it to another, or neither.
ReadMember(r) ==
  LET q == reqs[r]
      owner == HasRole(q.target, "Owner")
      takes == owner /\ "Owner" \notin q.roles
      gives == ~owner /\ "Owner" \in q.roles
  IN
  /\ q.pc = "member"
  /\ \/ /\ ~Live(q.target)
        /\ Finish(r)
     \/ /\ Live(q.target)
        /\ Goto(r, IF takes THEN "count" ELSE IF gives THEN "asker"
                   ELSE IF q.op = "roles" THEN "clear" ELSE "remove")
  /\ OnlyReads

CountOwners(r) ==
  LET q == reqs[r] IN
  /\ q.pc = "count"
  /\ IF CountOtherOwners(q.target) = 0
       THEN Finish(r)
       ELSE Goto(r, IF q.op = "roles" THEN "clear" ELSE "remove")
  /\ OnlyReads

RequesterIsOwner(r) ==
  LET q == reqs[r] IN
  /\ q.pc = "asker"
  /\ IF Live(q.actor) /\ HasRole(q.actor, "Owner")
       THEN Goto(r, IF q.op = "roles" THEN "clear" ELSE "known")
       ELSE Finish(r)
  /\ OnlyReads

\* The result of the DELETE, and of each INSERT, is not looked at.  The list
\* of roles may be empty.
DeleteRoles(r) ==
  LET q == reqs[r] IN
  /\ q.pc = "clear"
  /\ \/ /\ userRoles' = {ur \in userRoles : ur[1] # q.target}
        /\ emptied' = IF q.roles \cap Roles = {} THEN emptied \cup {q.target}
                      ELSE emptied
        /\ UNCHANGED faults
     \/ /\ faults < MaxFaults
        /\ faults' = faults + 1
        /\ UNCHANGED <<userRoles, emptied>>
  /\ IF q.roles = {} THEN Finish(r) ELSE Goto(r, "insert")
  /\ UNCHANGED <<users, invites, org, served, overlapped, blind>>

\* The roles come in the order the client wrote them.  A name the organization
\* has no role for is skipped, and so is one whose lookup or INSERT fails.
InsertRole(r) ==
  LET q == reqs[r] IN
  /\ q.pc = "insert"
  /\ \E role \in q.roles :
       /\ \/ /\ role \in Roles
             /\ userRoles' = userRoles \cup {<<q.target, role>>}
             /\ emptied' = emptied \ {q.target}
             /\ UNCHANGED faults
          \/ /\ role \notin Roles
             /\ UNCHANGED <<userRoles, emptied, faults>>
          \/ /\ faults < MaxFaults
             /\ faults' = faults + 1
             /\ emptied' = emptied \cup {q.target}
             /\ UNCHANGED userRoles
       /\ IF q.roles = {role}
            THEN Finish(r)
            ELSE reqs' = [reqs EXCEPT ![r].roles = q.roles \ {role}]
  /\ UNCHANGED <<users, invites, org, served, overlapped, blind>>

\* The user_roles rows of the removed user stay.
RemoveUser(r) ==
  LET q == reqs[r] IN
  /\ q.pc = "remove"
  /\ users' = [users EXCEPT ![q.target].st = "removed"]
  /\ Finish(r)
  /\ UNCHANGED <<userRoles, invites, org, served, faults, overlapped, blind, emptied>>

-----------------------------------------------------------------------------
(* TransferOwnership and DeleteAccount.                                    *)

HoldsOwner(r) ==
  LET q == reqs[r]
      owner == HasRole(q.actor, "Owner")
  IN
  /\ q.pc = "holds"
  /\ \/ /\ q.op = "transfer"
        /\ IF owner THEN Goto(r, "target") ELSE Finish(r)
     \/ /\ q.op = "leave"
        /\ Goto(r, IF owner THEN "size" ELSE "leave")
  /\ OnlyReads

\* The organization is read too, to verify its password.
FindTarget(r) ==
  /\ reqs[r].pc = "target"
  /\ IF org = "live" /\ Live(reqs[r].target)
       THEN Goto(r, "transfer")
       ELSE Finish(r)
  /\ OnlyReads

\* Mutant: the outgoing owner is not made an Admin.
Transfer_NoAdmin(r) ==
  LET q == reqs[r] IN
  /\ q.pc = "transfer"
  /\ userRoles' = (userRoles \cup {<<q.target, "Owner">>}) \ {<<q.actor, "Owner">>}
  /\ emptied' = emptied \ {q.target}
  /\ Finish(r)
  /\ UNCHANGED <<users, invites, org, served, faults, overlapped, blind>>

\* One transaction.
Transfer(r) ==
  LET q == reqs[r] IN
  /\ q.pc = "transfer"
  /\ userRoles' = (userRoles \cup {<<q.target, "Owner">>, <<q.actor, "Admin">>})
                    \ {<<q.actor, "Owner">>}
  /\ emptied' = emptied \ {q.actor, q.target}
  /\ Finish(r)
  /\ UNCHANGED <<users, invites, org, served, faults, overlapped, blind>>

CountMembers(r) ==
  /\ reqs[r].pc = "size"
  /\ IF CountByOrg > 1
       THEN Finish(r)
       ELSE reqs' = [reqs EXCEPT ![r].pc = "leave", ![r].last = TRUE]
  /\ OnlyReads

DeleteUser(r) ==
  LET q == reqs[r] IN
  /\ q.pc = "leave"
  /\ users' = [users EXCEPT ![q.actor].st = "removed"]
  /\ IF q.last THEN Goto(r, "close") ELSE Finish(r)
  /\ UNCHANGED <<userRoles, invites, org, served, faults, overlapped, blind, emptied>>

\* A failure to delete the organization is logged only.
DeleteOrg(r) ==
  /\ reqs[r].pc = "close"
  /\ \/ /\ org' = "deleted"
        /\ UNCHANGED faults
     \/ /\ faults < MaxFaults
        /\ faults' = faults + 1
        /\ UNCHANGED org
  /\ Finish(r)
  /\ UNCHANGED <<users, userRoles, invites, served, overlapped, blind, emptied>>

-----------------------------------------------------------------------------
(* Invitations and new accounts.                                           *)

\* The email must be nobody's.  JoinOrganization then looks the
\* organization up; Accept does not.
KnownEmail(r) ==
  LET q == reqs[r] IN
  /\ q.pc = "known"
  /\ IF EmailKnown(q.email) \/ (q.op = "join" /\ org # "live")
       THEN Finish(r)
       ELSE Goto(r, IF q.op = "invite" THEN "pending" ELSE "create")
  /\ OnlyReads

\* An email whose lookup fails counts as nobody's.
KnownEmailFails(r) ==
  LET q == reqs[r] IN
  /\ q.pc = "known"
  /\ faults < MaxFaults
  /\ faults' = faults + 1
  /\ blind' = TRUE
  /\ IF q.op = "join" /\ org # "live"
       THEN Finish(r)
       ELSE Goto(r, IF q.op = "invite" THEN "pending" ELSE "create")
  /\ UNCHANGED <<users, userRoles, invites, org, served, overlapped, emptied>>

FindActive(r) ==
  LET q == reqs[r] IN
  /\ q.pc = "pending"
  /\ IF \E i \in InviteIds : Pending(i) /\ invites[i].email = q.email
       THEN Finish(r)
       ELSE Goto(r, "send")
  /\ OnlyReads

\* So does an invitation whose lookup fails: it counts as never sent.
FindActiveFails(r) ==
  /\ reqs[r].pc = "pending"
  /\ faults < MaxFaults
  /\ faults' = faults + 1
  /\ blind' = TRUE
  /\ Goto(r, "send")
  /\ UNCHANGED <<users, userRoles, invites, org, served, overlapped, emptied>>

SendInvitation(r) ==
  LET q == reqs[r] IN
  /\ q.pc = "send"
  /\ \E i \in InviteIds, role \in q.roles :
       /\ ~invites[i].sent
       /\ invites' = [invites EXCEPT ![i] =
            [Unsent EXCEPT !.sent = TRUE, !.email = q.email, !.role = role]]
  /\ Finish(r)
  /\ UNCHANGED <<users, userRoles, org, served, faults, overlapped, blind, emptied>>

\* Mutant: an accepted invitation can be revoked.
RevokeInvitation_Always(i) ==
  /\ LetIn("revoke")
  /\ \E a \in Users : MayManage(a)
  /\ invites[i].sent /\ ~invites[i].revoked
  /\ invites' = [invites EXCEPT ![i].revoked = TRUE]
  /\ UNCHANGED <<users, userRoles, org, reqs, faults, blind, emptied>>

\* One conditional UPDATE: no step can come in between.
RevokeInvitation(i) ==
  /\ LetIn("revoke")
  /\ \E a \in Users : MayManage(a)
  /\ invites[i].sent /\ ~invites[i].accepted /\ ~invites[i].revoked
  /\ invites' = [invites EXCEPT ![i].revoked = TRUE]
  /\ UNCHANGED <<users, userRoles, org, reqs, faults, blind, emptied>>

InvitationExpires(i) ==
  /\ Pending(i)
  /\ invites' = [invites EXCEPT ![i].expired = TRUE]
  /\ UNCHANGED <<users, userRoles, org, reqs, served, faults, overlapped, blind, emptied>>

\* Mutant: the token alone decides, the email is not looked up.
FindPendingByToken_SkipsEmail(r) ==
  LET q == reqs[r] IN
  /\ q.pc = "redeem"
  /\ IF Pending(q.inv)
       THEN reqs' = [reqs EXCEPT ![r].pc = "create",
                       ![r].email = invites[q.inv].email,
                       ![r].roles = {invites[q.inv].role}]
       ELSE Finish(r)
  /\ OnlyReads

\* Mutant: the account does not get the invitation's email.
FindPendingByToken_NoEmail(r) ==
  LET q == reqs[r] IN
  /\ q.pc = "redeem"
  /\ IF Pending(q.inv)
       THEN reqs' = [reqs EXCEPT ![r].pc = "known",
                       ![r].roles = {invites[q.inv].role}]
       ELSE Finish(r)
  /\ OnlyReads

FindPendingByToken(r) ==
  LET q == reqs[r] IN
  /\ q.pc = "redeem"
  /\ IF Pending(q.inv)
       THEN reqs' = [reqs EXCEPT ![r].pc = "known",
                       ![r].email = invites[q.inv].email,
                       ![r].roles = {invites[q.inv].role}]
       ELSE Finish(r)
  /\ OnlyReads

\* One transaction: the user and its role.
CreateAccount(r) ==
  LET q == reqs[r] IN
  /\ q.pc = "create"
  /\ \E u \in Users :
       /\ users[u].st = "none"
       /\ users' = [users EXCEPT ![u] = [st |-> "live", email |-> q.email]]
       /\ userRoles' = userRoles \cup ({u} \X q.roles)
  /\ IF q.op = "accept" THEN Goto(r, "mark") ELSE Finish(r)
  /\ UNCHANGED <<invites, org, served, faults, overlapped, blind, emptied>>

\* Not conditional: the invitation may have been revoked since.  A failure
\* is logged only.
MarkAccepted(r) ==
  /\ reqs[r].pc = "mark"
  /\ \/ /\ invites' = [invites EXCEPT ![reqs[r].inv].accepted = TRUE]
        /\ UNCHANGED faults
     \/ /\ faults < MaxFaults
        /\ faults' = faults + 1
        /\ UNCHANGED invites
  /\ Finish(r)
  /\ UNCHANGED <<users, userRoles, org, served, overlapped, blind, emptied>>

\* A statement fails where the code returns the error, or the process dies.
Abort(r) ==
  /\ Serving(r)
  /\ faults < MaxFaults
  /\ faults' = faults + 1
  /\ emptied' = IF reqs[r].pc = "insert" THEN emptied \cup {reqs[r].target}
                ELSE emptied
  /\ Finish(r)
  /\ UNCHANGED <<users, userRoles, invites, org, served, overlapped, blind>>

-----------------------------------------------------------------------------
Serve(r) ==
  \/ AskRoles(r) \/ AskRemoval(r) \/ AskTransfer(r) \/ AskInvite(r)
  \/ AskAccept(r) \/ AskJoin(r) \/ AskLeave(r)
  \/ ReadMember(r) \/ CountOwners(r) \/ RequesterIsOwner(r)
  \/ DeleteRoles(r) \/ InsertRole(r) \/ RemoveUser(r)
  \/ HoldsOwner(r) \/ FindTarget(r) \/ Transfer(r)
  \/ CountMembers(r) \/ DeleteUser(r) \/ DeleteOrg(r)
  \/ KnownEmail(r) \/ FindActive(r) \/ SendInvitation(r)
  \/ KnownEmailFails(r) \/ FindActiveFails(r)
  \/ FindPendingByToken(r) \/ CreateAccount(r) \/ MarkAccepted(r)
  \/ Abort(r)

Next ==
  \/ \E r \in Requests : Serve(r)
  \/ \E i \in InviteIds : RevokeInvitation(i) \/ InvitationExpires(i)

Spec == Init /\ [][Next]_vars

-----------------------------------------------------------------------------
(* Properties.                                                             *)

\* Requests were served one at a time, and none is under way; and no statement
\* of theirs failed either.
InTurn == ~overlapped /\ \A r \in Requests : ~Serving(r)
Quiet == InTurn /\ faults = 0

\* Whatever the order of role changes, removals, transfers, invitations and
\* deletions, a live organization keeps an Owner row in user_roles as long as
\* requests do not overlap: each of the ways an owner can cease to be one
\* (UpdateMemberRole, RemoveMember, TransferOwnership, DeleteAccount) has a
\* check of its own.
OwnerRowStays ==
  Quiet /\ org = "live" => \E u \in Users : HasRole(u, "Owner")

\* A member without a role is locked out of everything.  UpdateMemberRole
\* deletes before it inserts, and TransferOwnership takes Owner away: whatever
\* requests are interleaved, and whichever of their statements fail, a member
\* has no role only between the two statements of an update, or after one that
\* named no role of the organization, or that failed or died half way; and is
\* not left so once an update or a transfer gave the member a role again.
Stranded(u) == Live(u) /\ \A role \in Roles : ~HasRole(u, role)
NobodyStranded ==
  (\A r \in Requests : ~Serving(r)) => \A u \in Users : Stranded(u) => u \in emptied

\* The inductive invariant of NobodyStranded.  A request is at a step of its
\* operation and knows what that step needs; a member without a role is one
\* that an update emptied, or the target of one that has a role left to insert.
StepsOf ==
  [none |-> {"idle"},
   roles |-> {"member", "count", "asker", "clear", "insert"},
   remove |-> {"member", "count", "remove"},
   transfer |-> {"holds", "target", "transfer"},
   leave |-> {"holds", "size", "leave", "close"},
   invite |-> {"asker", "known", "pending", "send"},
   accept |-> {"redeem", "known", "create", "mark"},
   join |-> {"known", "create"}]

\* A new account gets a role that exists.
Grants(q) == q.roles # {} /\ q.roles \subseteq Roles

Known(u) == u \in Users /\ users[u].st # "none"

RequestOK(q) ==
  /\ q.pc \in StepsOf[q.op]
  /\ q.op = "roles" => q.target \in Users
  /\ q.op = "roles" /\ q.pc = "insert" => q.roles # {}
  /\ q.op = "remove" => Known(q.target) /\ q.roles = {}
  /\ q.op = "transfer" => q.actor \in Users /\ q.target \in Users
  /\ q.op = "leave" => Known(q.actor)
  /\ q.op \in {"invite", "join"} => q.email \in Emails /\ Grants(q)
  /\ q.op = "accept" => q.inv \in InviteIds /\ invites[q.inv].sent
  /\ q.op = "accept" /\ q.pc # "redeem" => q.email \in Emails /\ Grants(q)

RequestsOK == \A r \in Requests : RequestOK(reqs[r])

InvitesOK == \A i \in InviteIds : invites[i].sent => invites[i].email \in Emails

Fills(q, u) == q.pc = "insert" /\ q.target = u /\ q.roles \cap Roles # {}

StrandedIsServed ==
  \A u \in Users : Stranded(u) =>
    u \in emptied \/ \E r \in Requests : Fills(reqs[r], u)

TeamInv == TypeOK /\ RequestsOK /\ InvitesOK /\ StrandedIsServed

\* No two live accounts have one email, through joining, inviting, accepting,
\* leaving and coming back, requests that die and writes that fail among them.
\* users.email has no unique index: only the checks of JoinOrganization and
\* Accept stand for it, and let the email pass when their lookup fails.
OneAccountPerEmail ==
  InTurn /\ ~blind =>
    \A u, v \in Users :
      u # v /\ Live(u) /\ Live(v) => users[u].email # users[v].email

\* An invitation that has been answered stays answered one way: it is not
\* both accepted and revoked, and of the invitations sent to one email at
\* most one can still be accepted, whichever requests die or fail to mark theirs.
InvitationsSettle ==
  InTurn /\ ~blind =>
    /\ \A i \in InviteIds : ~(invites[i].accepted /\ invites[i].revoked)
    /\ \A i, j \in InviteIds :
         i # j /\ Pending(i) /\ Pending(j) => invites[i].email # invites[j].email

\* The comment on OwnerPermissions: the last Owner can't be removed or
\* demoted.  An organization that is in use has a live owner, even if
\* requests never overlap.
LastOwnerStays ==
  Quiet /\ org = "live" => \E u \in Users : Live(u) /\ HasRole(u, "Owner")
=============================================================================
