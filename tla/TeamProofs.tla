----------------------------- MODULE TeamProofs -----------------------------
(***************************************************************************)
(* Team: type correctness, that a member without a role is one an update   *)
(* emptied, and what requests that do not overlap keep, for any number of  *)
(* users, requests, invitations and faults.                                *)
(***************************************************************************)
EXTENDS Team, FiniteSetTheorems, TLAPS

USE DEF OnlyReads

\* Accounts stay accounts, and sent invitations stay sent.
Grows ==
  /\ \A u \in Users : users[u].st # "none" => users'[u].st # "none"
  /\ \A i \in InviteIds : invites[i].sent => invites'[i].sent

\* The request of slot r becomes q, and the others stay.
LEMMA RequestsMove ==
  ASSUME TypeOK, RequestsOK, Grows, NEW r \in Requests,
         NEW q \in Request, RequestOK(q), reqs' = [reqs EXCEPT ![r] = q]
  PROVE  reqs' \in [Requests -> Request] /\ RequestsOK'
<1>1. reqs' \in [Requests -> Request]
  BY DEF TypeOK
<1>2. ASSUME NEW s \in Requests PROVE RequestOK(reqs[s])'
  <2>1. CASE s = r
    <3>1. reqs'[s] = q
      BY <2>1 DEF TypeOK
    <3> QED  BY <3>1 DEF RequestOK, Known, Grows
  <2>2. CASE s # r
    <3>1. reqs'[s] = reqs[s] /\ RequestOK(reqs[s])
      BY <2>2 DEF TypeOK, RequestsOK
    <3> QED  BY <3>1 DEF RequestOK, Known, Grows
  <2> QED  BY <2>1, <2>2
<1> QED  BY <1>1, <1>2 DEF RequestsOK

LEMMA NoRequestOK == NoRequest \in Request /\ RequestOK(NoRequest)
  BY DEF NoRequest, Request, Steps, RequestOK, StepsOf, RoleNames

\* What serves the members without a role stays, unless an update moves on.
LEMMA StrandedKept ==
  ASSUME TypeOK, StrandedIsServed, NEW r \in Requests,
         NEW q, reqs' = [reqs EXCEPT ![r] = q],
         UNCHANGED <<users, userRoles, emptied>>, reqs[r].pc # "insert"
  PROVE  StrandedIsServed'
<1> SUFFICES ASSUME NEW u \in Users, Stranded(u)', u \notin emptied'
             PROVE  \E s \in Requests : Fills(reqs'[s], u)
  BY DEF StrandedIsServed, Fills
<1>1. Stranded(u)
  BY DEF Stranded, Live, HasRole
<1>2. PICK s \in Requests : Fills(reqs[s], u)
  BY <1>1 DEF StrandedIsServed
<1>3. reqs'[s] = reqs[s]
  BY <1>2 DEF TypeOK, Fills
<1> QED  BY <1>2, <1>3

(***************************************************************************)
(* Arrivals                                                                *)
(***************************************************************************)

LEMMA LetInType ==
  ASSUME TypeOK, NEW op, LetIn(op)
  PROVE  served' \in 0 .. MaxRequests /\ overlapped' \in BOOLEAN
  BY InputAssumption DEF TypeOK, LetIn

LEMMA ArriveInv ==
  ASSUME TeamInv, NEW r \in Requests, NEW q \in Request, RequestOK(q), Arrive(r, q)
  PROVE  TeamInv'
<1> USE DEF TeamInv
<1>1. Grows
  BY DEF Arrive, Grows
<1>2. reqs' \in [Requests -> Request] /\ RequestsOK'
  BY <1>1, RequestsMove DEF Arrive
<1>3. served' \in 0 .. MaxRequests /\ overlapped' \in BOOLEAN
  BY LetInType DEF Arrive
<1>4. TypeOK'
  BY <1>2, <1>3 DEF TypeOK, Arrive, User, Invitation
<1>5. InvitesOK'
  BY DEF InvitesOK, Arrive
<1>6. StrandedIsServed'
  BY StrandedKept DEF Arrive, Serving
<1> QED  BY <1>2, <1>4, <1>5, <1>6

LEMMA AskInv ==
  ASSUME TeamInv, NEW r \in Requests,
         \/ AskRoles(r) \/ AskRemoval(r) \/ AskTransfer(r) \/ AskInvite(r)
         \/ AskAccept(r) \/ AskJoin(r) \/ AskLeave(r)
  PROVE  TeamInv'
<1> USE DEF NoRequest
<1>1. CASE AskRoles(r)
  <2>1. PICK a, t \in Users, roles \in RoleSets :
          Arrive(r, [NoRequest EXCEPT !.pc = "member", !.op = "roles",
                       !.actor = a, !.target = t, !.roles = roles])
    BY <1>1 DEF AskRoles
  <2> DEFINE q == [NoRequest EXCEPT !.pc = "member", !.op = "roles",
                     !.actor = a, !.target = t, !.roles = roles]
  <2>2. q \in Request /\ RequestOK(q)
    BY <2>1, InputAssumption DEF Request, Steps, RequestOK, StepsOf, Arrive, LetIn,
         RoleNames
  <2> QED  BY <2>1, <2>2, ArriveInv
<1>2. CASE AskRemoval(r)
  <2>1. PICK a, t \in Users :
          /\ users[t].st # "none"
          /\ Arrive(r, [NoRequest EXCEPT !.pc = "member", !.op = "remove",
                          !.actor = a, !.target = t])
    BY <1>2 DEF AskRemoval
  <2> DEFINE q == [NoRequest EXCEPT !.pc = "member", !.op = "remove",
                     !.actor = a, !.target = t]
  <2>2. q \in Request /\ RequestOK(q)
    BY <2>1 DEF Request, Steps, RequestOK, StepsOf, Arrive, LetIn, Known
  <2> QED  BY <2>1, <2>2, ArriveInv
<1>3. CASE AskTransfer(r)
  <2>1. PICK a, t \in Users :
          Arrive(r, [NoRequest EXCEPT !.pc = "holds", !.op = "transfer",
                       !.actor = a, !.target = t])
    BY <1>3 DEF AskTransfer
  <2> DEFINE q == [NoRequest EXCEPT !.pc = "holds", !.op = "transfer",
                     !.actor = a, !.target = t]
  <2>2. q \in Request /\ RequestOK(q)
    BY <2>1 DEF Request, Steps, RequestOK, StepsOf, Arrive, LetIn
  <2> QED  BY <2>1, <2>2, ArriveInv
<1>4. CASE AskInvite(r)
  <2>1. PICK a \in Users, e \in Emails, role \in Roles :
          Arrive(r, [NoRequest EXCEPT !.op = "invite", !.actor = a, !.email = e,
                       !.roles = {role},
                       !.pc = IF role = "Owner" THEN "asker" ELSE "known"])
    BY <1>4 DEF AskInvite
  <2> DEFINE q == [NoRequest EXCEPT !.op = "invite", !.actor = a, !.email = e,
                     !.roles = {role},
                     !.pc = IF role = "Owner" THEN "asker" ELSE "known"]
  <2>2. q \in Request /\ RequestOK(q)
    BY <2>1 DEF Request, Steps, RequestOK, StepsOf, Arrive, LetIn, RoleNames, Grants
  <2> QED  BY <2>1, <2>2, ArriveInv
<1>5. CASE AskAccept(r)
  <2>1. PICK i \in InviteIds :
          /\ invites[i].sent
          /\ Arrive(r, [NoRequest EXCEPT !.pc = "redeem", !.op = "accept", !.inv = i])
    BY <1>5 DEF AskAccept
  <2> DEFINE q == [NoRequest EXCEPT !.pc = "redeem", !.op = "accept", !.inv = i]
  <2>2. q \in Request /\ RequestOK(q)
    BY <2>1 DEF Request, Steps, RequestOK, StepsOf, Arrive, LetIn
  <2> QED  BY <2>1, <2>2, ArriveInv
<1>6. CASE AskJoin(r)
  <2>1. PICK e \in Emails :
          Arrive(r, [NoRequest EXCEPT !.pc = "known", !.op = "join", !.email = e,
                       !.roles = {"Member"}])
    BY <1>6 DEF AskJoin
  <2> DEFINE q == [NoRequest EXCEPT !.pc = "known", !.op = "join", !.email = e,
                     !.roles = {"Member"}]
  <2>2. q \in Request /\ RequestOK(q)
    BY <2>1 DEF Request, Steps, RequestOK, StepsOf, Arrive, LetIn, Roles,
         RoleNames, Grants
  <2> QED  BY <2>1, <2>2, ArriveInv
<1>7. CASE AskLeave(r)
  <2>1. PICK u \in Users :
          /\ Live(u)
          /\ Arrive(r, [NoRequest EXCEPT !.pc = "holds", !.op = "leave", !.actor = u])
    BY <1>7 DEF AskLeave
  <2> DEFINE q == [NoRequest EXCEPT !.pc = "holds", !.op = "leave", !.actor = u]
  <2>2. q \in Request /\ RequestOK(q)
    BY <2>1 DEF Request, Steps, RequestOK, StepsOf, Arrive, LetIn, Known, Live
  <2> QED  BY <2>1, <2>2, ArriveInv
<1> QED  BY <1>1, <1>2, <1>3, <1>4, <1>5, <1>6, <1>7

(***************************************************************************)
(* Steps that only read                                                    *)
(***************************************************************************)

LEMMA ReadingInv ==
  ASSUME TeamInv, NEW r \in Requests, NEW q \in Request, RequestOK(q),
         reqs' = [reqs EXCEPT ![r] = q], reqs[r].pc # "insert",
         UNCHANGED <<users, userRoles, invites, org, served, faults, overlapped, blind, emptied>>
  PROVE  TeamInv'
<1> USE DEF TeamInv
<1>1. Grows
  BY DEF Grows
<1>2. reqs' \in [Requests -> Request] /\ RequestsOK'
  BY <1>1, RequestsMove
<1>3. TypeOK'
  BY <1>2 DEF TypeOK, User, Invitation
<1>4. InvitesOK'
  BY DEF InvitesOK
<1>5. StrandedIsServed'
  BY StrandedKept
<1> QED  BY <1>2, <1>3, <1>4, <1>5

\* A request of known form moves to another step of its operation.
LEMMA GotoInv ==
  ASSUME TeamInv, NEW r \in Requests, NEW pc, Goto(r, pc), reqs[r].pc # "insert",
         [reqs[r] EXCEPT !.pc = pc] \in Request, RequestOK([reqs[r] EXCEPT !.pc = pc]),
         UNCHANGED <<users, userRoles, invites, org, served, faults, overlapped, blind, emptied>>
  PROVE  TeamInv'
<1>1. reqs' = [reqs EXCEPT ![r] = [reqs[r] EXCEPT !.pc = pc]]
  BY DEF Goto, TeamInv, TypeOK
<1> QED  BY <1>1, ReadingInv

LEMMA FinishInv ==
  ASSUME TeamInv, NEW r \in Requests, Finish(r), reqs[r].pc # "insert",
         UNCHANGED <<users, userRoles, invites, org, served, faults, overlapped, blind, emptied>>
  PROVE  TeamInv'
  BY ReadingInv, NoRequestOK DEF Finish

Ops == {"none", "roles", "remove", "transfer", "leave", "invite", "accept", "join"}

\* The request in slot r, as the steps below use it.
LEMMA Serves ==
  ASSUME TeamInv, NEW r \in Requests
  PROVE  reqs[r] \in Request /\ RequestOK(reqs[r]) /\ reqs[r].op \in Ops
<1>1. reqs[r] \in Request /\ RequestOK(reqs[r])
  BY DEF TeamInv, TypeOK, RequestsOK
<1> QED  BY <1>1, InputAssumption DEF Ops, Request

LEMMA ReadMemberInv ==
  ASSUME TeamInv, NEW r \in Requests, ReadMember(r) PROVE TeamInv'
<1>1. reqs[r] \in Request /\ RequestOK(reqs[r]) /\ reqs[r].op \in Ops /\ reqs[r].pc = "member"
  BY Serves DEF ReadMember
<1>2. CASE Finish(r)
  BY <1>1, <1>2, FinishInv DEF ReadMember
<1>3. CASE ~Finish(r)
  <2>1. PICK pc \in {"count", "asker", "clear", "remove"} :
          /\ Goto(r, pc)
          /\ reqs[r].op = "remove" => pc \in {"count", "remove"}
          /\ reqs[r].op = "roles" => pc \in {"count", "asker", "clear"}
    <3>1. reqs[r].op \in {"roles", "remove"}
      BY <1>1 DEF RequestOK, StepsOf, Ops, Request
    <3>2. reqs[r].op = "remove" => "Owner" \notin reqs[r].roles
      BY <1>1 DEF RequestOK
    <3> QED  BY <1>3, <3>1, <3>2 DEF ReadMember
  <2>2. /\ [reqs[r] EXCEPT !.pc = pc] \in Request
        /\ RequestOK([reqs[r] EXCEPT !.pc = pc])
    BY <1>1, <2>1 DEF RequestOK, StepsOf, Ops, Request, Steps, Known, Grants
  <2> QED  BY <1>1, <2>1, <2>2, GotoInv DEF ReadMember
<1> QED  BY <1>2, <1>3

LEMMA CountOwnersInv ==
  ASSUME TeamInv, NEW r \in Requests, CountOwners(r) PROVE TeamInv'
<1>1. reqs[r] \in Request /\ RequestOK(reqs[r]) /\ reqs[r].op \in Ops /\ reqs[r].pc = "count"
  BY Serves DEF CountOwners
<1>2. CASE Finish(r)
  BY <1>1, <1>2, FinishInv DEF CountOwners
<1>3. CASE ~Finish(r)
  <2>1. PICK pc \in {"clear", "remove"} :
          Goto(r, pc) /\ (pc = "clear" <=> reqs[r].op = "roles")
    BY <1>3 DEF CountOwners
  <2>2. /\ [reqs[r] EXCEPT !.pc = pc] \in Request
        /\ RequestOK([reqs[r] EXCEPT !.pc = pc])
    BY <1>1, <2>1 DEF RequestOK, StepsOf, Ops, Request, Steps, Known, Grants
  <2> QED  BY <1>1, <2>1, <2>2, GotoInv DEF CountOwners
<1> QED  BY <1>2, <1>3

LEMMA RequesterInv ==
  ASSUME TeamInv, NEW r \in Requests, RequesterIsOwner(r) PROVE TeamInv'
<1>1. reqs[r] \in Request /\ RequestOK(reqs[r]) /\ reqs[r].op \in Ops /\ reqs[r].pc = "asker"
  BY Serves DEF RequesterIsOwner
<1>2. CASE Finish(r)
  BY <1>1, <1>2, FinishInv DEF RequesterIsOwner
<1>3. CASE ~Finish(r)
  <2>1. PICK pc \in {"clear", "known"} :
          Goto(r, pc) /\ (pc = "clear" <=> reqs[r].op = "roles")
    BY <1>3 DEF RequesterIsOwner
  <2>2. /\ [reqs[r] EXCEPT !.pc = pc] \in Request
        /\ RequestOK([reqs[r] EXCEPT !.pc = pc])
    BY <1>1, <2>1 DEF RequestOK, StepsOf, Ops, Request, Steps, Known, Grants
  <2> QED  BY <1>1, <2>1, <2>2, GotoInv DEF RequesterIsOwner
<1> QED  BY <1>2, <1>3

LEMMA HoldsOwnerInv ==
  ASSUME TeamInv, NEW r \in Requests, HoldsOwner(r) PROVE TeamInv'
<1>1. reqs[r] \in Request /\ RequestOK(reqs[r]) /\ reqs[r].op \in Ops /\ reqs[r].pc = "holds"
  BY Serves DEF HoldsOwner
<1>2. CASE Finish(r)
  BY <1>1, <1>2, FinishInv DEF HoldsOwner
<1>3. CASE ~Finish(r)
  <2>1. PICK pc \in {"target", "size", "leave"} :
          Goto(r, pc) /\ (reqs[r].op = IF pc = "target" THEN "transfer" ELSE "leave")
    BY <1>3 DEF HoldsOwner
  <2>2. /\ [reqs[r] EXCEPT !.pc = pc] \in Request
        /\ RequestOK([reqs[r] EXCEPT !.pc = pc])
    BY <1>1, <2>1 DEF RequestOK, StepsOf, Ops, Request, Steps, Known, Grants
  <2> QED  BY <1>1, <2>1, <2>2, GotoInv DEF HoldsOwner
<1> QED  BY <1>2, <1>3

LEMMA FindTargetInv ==
  ASSUME TeamInv, NEW r \in Requests, FindTarget(r) PROVE TeamInv'
<1>1. reqs[r] \in Request /\ RequestOK(reqs[r]) /\ reqs[r].op \in Ops /\ reqs[r].pc = "target"
  BY Serves DEF FindTarget
<1>2. CASE Finish(r)
  BY <1>1, <1>2, FinishInv DEF FindTarget
<1>3. CASE Goto(r, "transfer")
  <2>1. /\ [reqs[r] EXCEPT !.pc = "transfer"] \in Request
        /\ RequestOK([reqs[r] EXCEPT !.pc = "transfer"])
    BY <1>1 DEF RequestOK, StepsOf, Ops, Request, Steps
  <2> QED  BY <1>1, <1>3, <2>1, GotoInv DEF FindTarget
<1> QED  BY <1>2, <1>3 DEF FindTarget

LEMMA CountMembersInv ==
  ASSUME TeamInv, NEW r \in Requests, CountMembers(r) PROVE TeamInv'
<1>1. reqs[r] \in Request /\ RequestOK(reqs[r]) /\ reqs[r].op \in Ops /\ reqs[r].pc = "size"
  BY Serves DEF CountMembers
<1>2. CASE Finish(r)
  BY <1>1, <1>2, FinishInv DEF CountMembers
<1>3. CASE ~Finish(r)
  <2> DEFINE q == [reqs[r] EXCEPT !.pc = "leave", !.last = TRUE]
  <2>1. reqs' = [reqs EXCEPT ![r] = q]
    BY <1>3 DEF CountMembers, TeamInv, TypeOK
  <2>2. q \in Request
    BY <1>1 DEF Request, Steps
  <2>3. reqs[r].op = "leave" /\ Known(reqs[r].actor)
    BY <1>1 DEF RequestOK, StepsOf, Ops
  <2>4. q.pc = "leave" /\ q.op = "leave" /\ q.actor = reqs[r].actor
    BY <1>1, <2>3 DEF Request
  <2>5. RequestOK(q)
    BY <2>3, <2>4 DEF RequestOK, StepsOf
  <2> QED  BY <1>1, <2>1, <2>2, <2>5, ReadingInv DEF CountMembers
<1> QED  BY <1>2, <1>3

LEMMA KnownEmailInv ==
  ASSUME TeamInv, NEW r \in Requests, KnownEmail(r) PROVE TeamInv'
<1>1. reqs[r] \in Request /\ RequestOK(reqs[r]) /\ reqs[r].op \in Ops /\ reqs[r].pc = "known"
  BY Serves DEF KnownEmail
<1>2. CASE Finish(r)
  BY <1>1, <1>2, FinishInv DEF KnownEmail
<1>3. CASE ~Finish(r)
  <2>1. PICK pc \in {"pending", "create"} :
          Goto(r, pc) /\ (pc = "pending" <=> reqs[r].op = "invite")
    BY <1>3 DEF KnownEmail
  <2>2. /\ [reqs[r] EXCEPT !.pc = pc] \in Request
        /\ RequestOK([reqs[r] EXCEPT !.pc = pc])
    BY <1>1, <2>1 DEF RequestOK, StepsOf, Ops, Request, Steps, Grants
  <2> QED  BY <1>1, <2>1, <2>2, GotoInv DEF KnownEmail
<1> QED  BY <1>2, <1>3

LEMMA FindActiveInv ==
  ASSUME TeamInv, NEW r \in Requests, FindActive(r) PROVE TeamInv'
<1>1. reqs[r] \in Request /\ RequestOK(reqs[r]) /\ reqs[r].op \in Ops /\ reqs[r].pc = "pending"
  BY Serves DEF FindActive
<1>2. CASE Finish(r)
  BY <1>1, <1>2, FinishInv DEF FindActive
<1>3. CASE Goto(r, "send")
  <2>1. /\ [reqs[r] EXCEPT !.pc = "send"] \in Request
        /\ RequestOK([reqs[r] EXCEPT !.pc = "send"])
    BY <1>1 DEF RequestOK, StepsOf, Ops, Request, Steps, Grants
  <2> QED  BY <1>1, <1>3, <2>1, GotoInv DEF FindActive
<1> QED  BY <1>2, <1>3 DEF FindActive

LEMMA FindPendingInv ==
  ASSUME TeamInv, NEW r \in Requests, FindPendingByToken(r) PROVE TeamInv'
<1>1. reqs[r] \in Request /\ RequestOK(reqs[r]) /\ reqs[r].op \in Ops /\ reqs[r].pc = "redeem"
  BY Serves DEF FindPendingByToken
<1>2. CASE Finish(r)
  BY <1>1, <1>2, FinishInv DEF FindPendingByToken
<1>3. CASE ~Finish(r)
  <2> DEFINE i == reqs[r].inv
             q == [reqs[r] EXCEPT !.pc = "known", !.email = invites[i].email,
                                  !.roles = {invites[i].role}]
  <2>1. reqs' = [reqs EXCEPT ![r] = q]
    BY <1>3 DEF FindPendingByToken, TeamInv, TypeOK
  <2>2. reqs[r].op = "accept" /\ i \in InviteIds /\ invites[i].sent
    BY <1>1 DEF RequestOK, StepsOf, Ops
  <2>3. invites[i].email \in Emails /\ invites[i].role \in Roles
    BY <2>2 DEF TeamInv, TypeOK, InvitesOK, Invitation
  <2>4. q \in Request
    BY <1>1, <2>3 DEF Request, Steps, RoleNames
  <2>5. /\ q.pc = "known" /\ q.op = "accept" /\ q.inv = i
        /\ q.email \in Emails /\ Grants(q)
    BY <1>1, <2>2, <2>3 DEF Request, Grants
  <2>6. RequestOK(q)
    BY <2>2, <2>5 DEF RequestOK, StepsOf
  <2> QED  BY <1>1, <2>1, <2>4, <2>6, ReadingInv DEF FindPendingByToken
<1> QED  BY <1>2, <1>3

\* A failed lookup lets the request go on as if it had found nothing.
LEMMA LookupFailsInv ==
  ASSUME TeamInv, NEW r \in Requests, KnownEmailFails(r) \/ FindActiveFails(r)
  PROVE  TeamInv'
<1> USE DEF TeamInv
<1>1. /\ reqs[r] \in Request /\ RequestOK(reqs[r]) /\ reqs[r].op \in Ops
      /\ reqs[r].pc \in {"known", "pending"}
  BY Serves DEF KnownEmailFails, FindActiveFails
<1>2. PICK q \in Request : RequestOK(q) /\ reqs' = [reqs EXCEPT ![r] = q]
  <2>1. CASE Finish(r)
    BY <2>1, NoRequestOK DEF Finish
  <2>2. CASE ~Finish(r)
    <3>1. PICK pc \in {"pending", "create", "send"} :
            /\ Goto(r, pc)
            /\ pc \in {"pending", "send"} <=> reqs[r].op = "invite"
      BY <1>1, <2>2 DEF KnownEmailFails, FindActiveFails, RequestOK, StepsOf, Ops
    <3>2. reqs' = [reqs EXCEPT ![r] = [reqs[r] EXCEPT !.pc = pc]]
      BY <3>1 DEF Goto, TypeOK
    <3>3. /\ [reqs[r] EXCEPT !.pc = pc] \in Request
          /\ RequestOK([reqs[r] EXCEPT !.pc = pc])
      BY <1>1, <3>1 DEF RequestOK, StepsOf, Ops, Request, Steps, Grants
    <3> QED  BY <3>2, <3>3
  <2> QED  BY <2>1, <2>2
<1>3. /\ UNCHANGED <<users, userRoles, invites, org, served, overlapped, emptied>>
      /\ faults < MaxFaults /\ faults' = faults + 1 /\ blind' = TRUE
  BY DEF KnownEmailFails, FindActiveFails
<1>4. reqs' \in [Requests -> Request] /\ RequestsOK'
  BY <1>2, <1>3, RequestsMove DEF Grows
<1>5. TypeOK' /\ InvitesOK'
  BY <1>3, <1>4, InputAssumption DEF TypeOK, InvitesOK, User, Invitation
<1>6. StrandedIsServed'
  BY <1>1, <1>2, <1>3, StrandedKept
<1> QED  BY <1>4, <1>5, <1>6

(***************************************************************************)
(* Steps that write                                                        *)
(***************************************************************************)

\* A member who had no role before a step either is served by an update; if
\* the step is not one of that update, it still is.
LEMMA OthersServe ==
  ASSUME TypeOK, StrandedIsServed, NEW r \in Requests,
         NEW q, reqs' = [reqs EXCEPT ![r] = q],
         NEW u \in Users, Stranded(u), u \notin emptied, ~Fills(reqs[r], u)
  PROVE  \E s \in Requests : Fills(reqs'[s], u)
<1>1. PICK s \in Requests : Fills(reqs[s], u)
  BY DEF StrandedIsServed
<1>2. reqs'[s] = reqs[s]
  BY <1>1 DEF TypeOK
<1> QED  BY <1>1, <1>2

LEMMA DeleteRolesInv ==
  ASSUME TeamInv, NEW r \in Requests, DeleteRoles(r) PROVE TeamInv'
<1> USE DEF TeamInv
<1>1. reqs[r] \in Request /\ RequestOK(reqs[r]) /\ reqs[r].op \in Ops /\ reqs[r].pc = "clear"
  BY Serves DEF DeleteRoles
<1>2. PICK q \in Request : /\ RequestOK(q) /\ reqs' = [reqs EXCEPT ![r] = q]
                           /\ reqs[r].roles # {} => /\ q.pc = "insert"
                                                    /\ q.target = reqs[r].target
                                                    /\ q.roles = reqs[r].roles
  <2>1. CASE reqs[r].roles = {}
    BY <2>1, NoRequestOK DEF DeleteRoles, Finish
  <2>2. CASE reqs[r].roles # {}
    <3> DEFINE d == [reqs[r] EXCEPT !.pc = "insert"]
    <3>1. reqs' = [reqs EXCEPT ![r] = d]
      BY <2>2 DEF DeleteRoles, Goto, TypeOK
    <3>2. reqs[r].op = "roles" /\ reqs[r].target \in Users
      BY <1>1 DEF RequestOK, StepsOf, Ops
    <3>3. /\ d \in Request /\ d.pc = "insert" /\ d.op = "roles"
          /\ d.target = reqs[r].target /\ d.roles = reqs[r].roles
      BY <1>1, <3>2 DEF Request, Steps
    <3>4. RequestOK(d)
      BY <2>2, <3>2, <3>3 DEF RequestOK, StepsOf
    <3> QED  BY <3>1, <3>3, <3>4
  <2> QED  BY <2>1, <2>2
<1>3. Grows
  BY DEF DeleteRoles, Grows
<1>4. reqs' \in [Requests -> Request] /\ RequestsOK'
  BY <1>2, <1>3, RequestsMove
<1>5. reqs[r].target \in Users
  BY <1>1 DEF RequestOK, StepsOf, Ops
<1>6. TypeOK' /\ InvitesOK'
  <2>1. faults' \in 0 .. MaxFaults /\ (blind => faults' > 0)
    BY InputAssumption DEF DeleteRoles, TypeOK
  <2>2. userRoles' \subseteq Users \X Roles /\ emptied' \subseteq Users
    BY <1>5 DEF DeleteRoles, TypeOK
  <2> QED  BY <1>4, <2>1, <2>2 DEF DeleteRoles, TypeOK, InvitesOK, User, Invitation
<1>7. CASE UNCHANGED <<userRoles, emptied>>
  <2>1. StrandedIsServed'
    BY <1>1, <1>2, <1>7, StrandedKept DEF DeleteRoles
  <2> QED  BY <1>4, <1>6, <2>1
<1>8. CASE /\ userRoles' = {ur \in userRoles : ur[1] # reqs[r].target}
           /\ emptied' = IF reqs[r].roles \cap Roles = {} THEN emptied \cup {reqs[r].target}
                         ELSE emptied
  <2>1. ASSUME NEW u \in Users, Stranded(u)', u \notin emptied'
        PROVE  \E s \in Requests : Fills(reqs'[s], u)
    <3>1. u \notin emptied
      BY <1>8, <2>1
    <3>2. CASE u = reqs[r].target
      <4>1. reqs[r].roles \cap Roles # {}
        BY <1>8, <2>1, <3>2
      <4>2. reqs'[r] = q /\ reqs[r].roles # {}
        BY <1>2, <4>1 DEF TypeOK
      <4>3. Fills(reqs'[r], u)
        BY <1>2, <3>2, <4>1, <4>2 DEF Fills
      <4> QED  BY <4>3
    <3>3. CASE u # reqs[r].target
      <4>1. Stranded(u)
        BY <1>8, <2>1, <3>3 DEF Stranded, Live, HasRole, DeleteRoles
      <4>2. ~Fills(reqs[r], u)
        BY <1>1 DEF Fills
      <4> QED  BY <1>2, <2>1, <3>1, <4>1, <4>2, OthersServe
    <3> QED  BY <3>2, <3>3
  <2> QED  BY <1>4, <1>6, <2>1 DEF StrandedIsServed, Fills
<1> QED  BY <1>7, <1>8 DEF DeleteRoles

LEMMA InsertRoleInv ==
  ASSUME TeamInv, NEW r \in Requests, InsertRole(r) PROVE TeamInv'
<1> USE DEF TeamInv
<1>1. reqs[r] \in Request /\ RequestOK(reqs[r]) /\ reqs[r].op \in Ops /\ reqs[r].pc = "insert"
  BY Serves DEF InsertRole
<1>2. reqs[r].op = "roles" /\ reqs[r].target \in Users
  BY <1>1 DEF RequestOK, StepsOf, Ops
<1> DEFINE t == reqs[r].target
<1>3. PICK role \in reqs[r].roles :
        /\ \/ /\ role \in Roles /\ userRoles' = userRoles \cup {<<t, role>>}
              /\ emptied' = emptied \ {t} /\ faults' = faults
           \/ /\ role \notin Roles /\ UNCHANGED <<userRoles, emptied, faults>>
           \/ /\ faults < MaxFaults /\ faults' = faults + 1
              /\ emptied' = emptied \cup {t} /\ userRoles' = userRoles
        /\ IF reqs[r].roles = {role}
             THEN Finish(r)
             ELSE reqs' = [reqs EXCEPT ![r].roles = reqs[r].roles \ {role}]
  BY DEF InsertRole
<1>4. PICK q \in Request :
        /\ RequestOK(q) /\ reqs' = [reqs EXCEPT ![r] = q]
        /\ reqs[r].roles # {role} => /\ q.pc = "insert" /\ q.target = t
                                     /\ q.roles = reqs[r].roles \ {role}
  <2>1. CASE reqs[r].roles = {role}
    BY <1>3, <2>1, NoRequestOK DEF Finish
  <2>2. CASE reqs[r].roles # {role}
    <3> DEFINE d == [reqs[r] EXCEPT !.roles = reqs[r].roles \ {role}]
    <3>1. reqs' = [reqs EXCEPT ![r] = d]
      BY <1>3, <2>2 DEF TypeOK
    <3>2. d \in Request
      BY <1>1 DEF Request
    <3>3. d.pc = "insert" /\ d.op = "roles" /\ d.target = t /\ d.roles = reqs[r].roles \ {role}
      BY <1>1, <1>2 DEF Request
    <3>4. RequestOK(d)
      BY <1>2, <1>3, <2>2, <3>3 DEF RequestOK, StepsOf
    <3> QED  BY <3>1, <3>2, <3>3, <3>4
  <2> QED  BY <2>1, <2>2
<1>5. Grows
  BY DEF InsertRole, Grows
<1>6. reqs' \in [Requests -> Request] /\ RequestsOK'
  BY <1>4, <1>5, RequestsMove
<1>7. TypeOK' /\ InvitesOK'
  <2>1. /\ faults' \in 0 .. MaxFaults /\ (blind => faults' > 0)
        /\ userRoles' \subseteq Users \X Roles /\ emptied' \subseteq Users
    BY <1>2, <1>3, InputAssumption DEF TypeOK
  <2> QED  BY <1>6, <2>1 DEF InsertRole, TypeOK, InvitesOK, User, Invitation
<1>8. ASSUME NEW u \in Users, Stranded(u)', u \notin emptied'
      PROVE  \E s \in Requests : Fills(reqs'[s], u)
  <2>1. Stranded(u)
    BY <1>3, <1>8 DEF Stranded, Live, HasRole, InsertRole
  <2>2. CASE u = t
    <3>1. role \notin Roles /\ UNCHANGED emptied
      <4>1. userRoles' # userRoles \cup {<<t, role>>} \/ role \notin Roles
        BY <1>8, <2>2 DEF Stranded, HasRole
      <4>2. emptied' # emptied \cup {t}
        BY <1>8, <2>2
      <4> QED  BY <1>3, <4>1, <4>2
    <3>2. PICK s \in Requests : Fills(reqs[s], u)
      BY <1>8, <2>1, <3>1 DEF StrandedIsServed
    <3>3. CASE s = r
      <4>1. reqs[r].roles # {role} /\ (reqs[r].roles \ {role}) \cap Roles # {}
        BY <3>1, <3>2, <3>3 DEF Fills
      <4>2. reqs'[r] = q
        BY <1>4 DEF TypeOK
      <4> QED  BY <1>4, <2>2, <4>1, <4>2 DEF Fills
    <3>4. CASE s # r
      <4>1. reqs'[s] = reqs[s]
        BY <1>4, <3>4 DEF TypeOK
      <4> QED  BY <3>2, <4>1
    <3> QED  BY <3>3, <3>4
  <2>3. CASE u # t
    <3>1. u \notin emptied
      BY <1>3, <1>8, <2>3
    <3>2. ~Fills(reqs[r], u)
      BY <2>3 DEF Fills
    <3> QED  BY <1>4, <2>1, <3>1, <3>2, OthersServe
  <2> QED  BY <2>2, <2>3
<1> QED  BY <1>6, <1>7, <1>8 DEF StrandedIsServed, Fills

LEMMA RemoveUserInv ==
  ASSUME TeamInv, NEW r \in Requests, RemoveUser(r) PROVE TeamInv'
<1> USE DEF TeamInv
<1>1. reqs[r] \in Request /\ RequestOK(reqs[r]) /\ reqs[r].op \in Ops /\ reqs[r].pc = "remove"
  BY Serves DEF RemoveUser
<1>2. Known(reqs[r].target)
  BY <1>1 DEF RequestOK, StepsOf, Ops
<1>3. users' = [users EXCEPT ![reqs[r].target].st = "removed"] /\ UNCHANGED <<userRoles, emptied>>
  BY DEF RemoveUser
<1>4. Grows
  BY <1>2, <1>3 DEF RemoveUser, Grows, Known, TypeOK, User
<1>5. reqs' \in [Requests -> Request] /\ RequestsOK'
  BY <1>4, RequestsMove, NoRequestOK DEF RemoveUser, Finish
<1>6. TypeOK' /\ InvitesOK'
  BY <1>2, <1>3, <1>5 DEF RemoveUser, TypeOK, InvitesOK, User, Invitation, Known
<1>7. ASSUME NEW u \in Users, Stranded(u)', u \notin emptied'
      PROVE  \E s \in Requests : Fills(reqs'[s], u)
  <2>1. Stranded(u)
    BY <1>3, <1>7 DEF Stranded, Live, HasRole, TypeOK, User
  <2> QED  BY <1>1, <1>3, <1>7, <2>1, OthersServe DEF RemoveUser, Finish, Fills
<1> QED  BY <1>5, <1>6, <1>7 DEF StrandedIsServed, Fills

LEMMA TransferInv ==
  ASSUME TeamInv, NEW r \in Requests, Transfer(r) PROVE TeamInv'
<1> USE DEF TeamInv
<1>1. reqs[r] \in Request /\ RequestOK(reqs[r]) /\ reqs[r].op \in Ops /\ reqs[r].pc = "transfer"
  BY Serves DEF Transfer
<1>2. reqs[r].actor \in Users /\ reqs[r].target \in Users
  BY <1>1 DEF RequestOK, StepsOf, Ops
<1>3. Grows
  BY DEF Transfer, Grows
<1>4. reqs' \in [Requests -> Request] /\ RequestsOK'
  BY <1>3, RequestsMove, NoRequestOK DEF Transfer, Finish
<1>5. TypeOK' /\ InvitesOK'
  <2>1. userRoles' \subseteq Users \X Roles /\ emptied' \subseteq Users
    BY <1>2 DEF Transfer, TypeOK, Roles
  <2> QED  BY <1>4, <2>1 DEF Transfer, TypeOK, InvitesOK, User, Invitation
<1>6. ASSUME NEW u \in Users, Stranded(u)', u \notin emptied'
      PROVE  \E s \in Requests : Fills(reqs'[s], u)
  <2>1. u # reqs[r].actor
    BY <1>6 DEF Transfer, Stranded, HasRole, Roles
  <2>2. Stranded(u)
    BY <1>6, <2>1 DEF Transfer, Stranded, Live, HasRole
  <2>3. u # reqs[r].target
    <3>1. CASE reqs[r].target = reqs[r].actor
      BY <2>1, <3>1
    <3>2. CASE reqs[r].target # reqs[r].actor
      BY <1>6, <3>2 DEF Transfer, Stranded, HasRole, Roles
    <3> QED  BY <3>1, <3>2
  <2>4. u \notin emptied
    BY <1>6, <2>1, <2>3 DEF Transfer
  <2>5. ~Fills(reqs[r], u)
    BY <1>1 DEF Fills
  <2>6. reqs' = [reqs EXCEPT ![r] = NoRequest]
    BY DEF Transfer, Finish
  <2> QED  BY <1>6, <2>2, <2>4, <2>5, <2>6, OthersServe
<1> QED  BY <1>4, <1>5, <1>6 DEF StrandedIsServed, Fills

LEMMA DeleteUserInv ==
  ASSUME TeamInv, NEW r \in Requests, DeleteUser(r) PROVE TeamInv'
<1> USE DEF TeamInv
<1>1. reqs[r] \in Request /\ RequestOK(reqs[r]) /\ reqs[r].op \in Ops /\ reqs[r].pc = "leave"
  BY Serves DEF DeleteUser
<1>2. reqs[r].op = "leave" /\ Known(reqs[r].actor)
  BY <1>1 DEF RequestOK, StepsOf, Ops
<1>3. users' = [users EXCEPT ![reqs[r].actor].st = "removed"] /\ UNCHANGED <<userRoles, emptied>>
  BY DEF DeleteUser
<1>4. Grows
  BY <1>2, <1>3 DEF DeleteUser, Grows, Known, TypeOK, User
<1>5. PICK q \in Request : RequestOK(q) /\ reqs' = [reqs EXCEPT ![r] = q]
  <2>1. CASE Finish(r)
    BY <2>1, NoRequestOK DEF Finish
  <2>2. CASE ~Finish(r)
    <3> DEFINE d == [reqs[r] EXCEPT !.pc = "close"]
    <3>1. reqs' = [reqs EXCEPT ![r] = d]
      BY <2>2 DEF TypeOK, DeleteUser, Goto
    <3>2. d \in Request /\ d.pc = "close" /\ d.op = "leave" /\ d.actor = reqs[r].actor
      BY <1>1, <1>2 DEF Request, Steps
    <3>3. RequestOK(d)
      BY <1>2, <3>2 DEF RequestOK, StepsOf
    <3> QED  BY <3>1, <3>2, <3>3
  <2> QED  BY <2>1, <2>2
<1>6. reqs' \in [Requests -> Request] /\ RequestsOK'
  BY <1>4, <1>5, RequestsMove
<1>7. TypeOK' /\ InvitesOK'
  BY <1>2, <1>3, <1>6 DEF DeleteUser, TypeOK, InvitesOK, User, Invitation, Known
<1>8. ASSUME NEW u \in Users, Stranded(u)', u \notin emptied'
      PROVE  \E s \in Requests : Fills(reqs'[s], u)
  <2>1. Stranded(u)
    BY <1>3, <1>8 DEF Stranded, Live, HasRole, TypeOK, User
  <2>2. u \notin emptied /\ ~Fills(reqs[r], u)
    BY <1>1, <1>3, <1>8 DEF Fills
  <2> QED  BY <1>5, <2>1, <2>2, OthersServe
<1> QED  BY <1>6, <1>7, <1>8 DEF StrandedIsServed, Fills

LEMMA DeleteOrgInv ==
  ASSUME TeamInv, NEW r \in Requests, DeleteOrg(r) PROVE TeamInv'
<1> USE DEF TeamInv
<1>1. Grows
  BY DEF DeleteOrg, Grows
<1>2. reqs' \in [Requests -> Request] /\ RequestsOK'
  BY <1>1, RequestsMove, NoRequestOK DEF DeleteOrg, Finish
<1>3. TypeOK' /\ InvitesOK'
  <2>1. faults' \in 0 .. MaxFaults /\ (blind => faults' > 0)
    BY InputAssumption DEF DeleteOrg, TypeOK
  <2> QED  BY <1>2, <2>1 DEF DeleteOrg, TypeOK, InvitesOK, User, Invitation
<1>4. StrandedIsServed'
  BY StrandedKept DEF DeleteOrg, Finish
<1> QED  BY <1>2, <1>3, <1>4

LEMMA SendInvitationInv ==
  ASSUME TeamInv, NEW r \in Requests, SendInvitation(r) PROVE TeamInv'
<1> USE DEF TeamInv
<1>1. reqs[r] \in Request /\ RequestOK(reqs[r]) /\ reqs[r].op \in Ops /\ reqs[r].pc = "send"
  BY Serves DEF SendInvitation
<1>2. reqs[r].op = "invite" /\ reqs[r].email \in Emails /\ reqs[r].roles \subseteq Roles
  BY <1>1 DEF RequestOK, StepsOf, Ops, Request, Grants
<1>3. PICK i \in InviteIds, role \in reqs[r].roles :
        invites' = [invites EXCEPT ![i] =
          [Unsent EXCEPT !.sent = TRUE, !.email = reqs[r].email, !.role = role]]
  BY DEF SendInvitation
<1>4. [Unsent EXCEPT !.sent = TRUE, !.email = reqs[r].email, !.role = role] \in Invitation
  BY <1>2 DEF Unsent, Invitation
<1>5. invites' \in [InviteIds -> Invitation]
  BY <1>3, <1>4 DEF TypeOK
<1>6. Grows
  BY <1>3 DEF SendInvitation, Grows, TypeOK, Unsent
<1>7. reqs' \in [Requests -> Request] /\ RequestsOK'
  BY <1>6, RequestsMove, NoRequestOK DEF SendInvitation, Finish
<1>8. TypeOK'
  BY <1>5, <1>7 DEF SendInvitation, TypeOK, User
<1>9. InvitesOK'
  BY <1>2, <1>3 DEF InvitesOK, TypeOK, Unsent
<1>10. StrandedIsServed'
  BY <1>1, StrandedKept DEF SendInvitation, Finish
<1> QED  BY <1>7, <1>8, <1>9, <1>10

LEMMA CreateAccountInv ==
  ASSUME TeamInv, NEW r \in Requests, CreateAccount(r) PROVE TeamInv'
<1> USE DEF TeamInv
<1>1. reqs[r] \in Request /\ RequestOK(reqs[r]) /\ reqs[r].op \in Ops /\ reqs[r].pc = "create"
  BY Serves DEF CreateAccount
<1>2. /\ reqs[r].op \in {"accept", "join"}
      /\ reqs[r].email \in Emails /\ reqs[r].roles # {} /\ reqs[r].roles \subseteq Roles
  BY <1>1 DEF RequestOK, StepsOf, Ops, Request, Grants
<1>3. PICK u \in Users :
        /\ users[u].st = "none"
        /\ users' = [users EXCEPT ![u] = [st |-> "live", email |-> reqs[r].email]]
        /\ userRoles' = userRoles \cup ({u} \X reqs[r].roles)
  BY DEF CreateAccount
<1>4. /\ users' \in [Users -> User] /\ userRoles' \subseteq Users \X Roles
      /\ \A v \in Users : users'[v].st = "none" <=> users'[v].email = NoEmail
  BY <1>2, <1>3, NameAssumption DEF TypeOK, User
<1>5. Grows
  BY <1>3 DEF CreateAccount, Grows, TypeOK
<1>6. PICK q \in Request : RequestOK(q) /\ reqs' = [reqs EXCEPT ![r] = q]
  <2>1. CASE Finish(r)
    BY <2>1, NoRequestOK DEF Finish
  <2>2. CASE ~Finish(r)
    <3> DEFINE d == [reqs[r] EXCEPT !.pc = "mark"]
    <3>1. reqs' = [reqs EXCEPT ![r] = d] /\ reqs[r].op = "accept"
      BY <2>2 DEF TypeOK, CreateAccount, Goto
    <3>2. /\ d \in Request /\ d.pc = "mark" /\ d.op = "accept" /\ d.inv = reqs[r].inv
          /\ d.email \in Emails /\ Grants(d)
      BY <1>1, <1>2, <3>1 DEF Request, Steps, Grants
    <3>3. RequestOK(d)
      BY <1>1, <3>1, <3>2 DEF RequestOK, StepsOf
    <3> QED  BY <3>1, <3>2, <3>3
  <2> QED  BY <2>1, <2>2
<1>7. reqs' \in [Requests -> Request] /\ RequestsOK'
  BY <1>5, <1>6, RequestsMove
<1>8. TypeOK' /\ InvitesOK'
  BY <1>4, <1>7 DEF CreateAccount, TypeOK, InvitesOK, Invitation
<1>9. ASSUME NEW v \in Users, Stranded(v)', v \notin emptied'
      PROVE  \E s \in Requests : Fills(reqs'[s], v)
  <2>1. v # u
    BY <1>2, <1>3, <1>9 DEF Stranded, HasRole
  <2>2. Stranded(v)
    BY <1>3, <1>9, <2>1 DEF Stranded, Live, HasRole, TypeOK
  <2>3. v \notin emptied
    BY <1>9 DEF CreateAccount
  <2>4. ~Fills(reqs[r], v)
    BY <1>1 DEF Fills
  <2> QED  BY <1>6, <2>2, <2>3, <2>4, OthersServe
<1> QED  BY <1>7, <1>8, <1>9 DEF StrandedIsServed, Fills

LEMMA MarkAcceptedInv ==
  ASSUME TeamInv, NEW r \in Requests, MarkAccepted(r) PROVE TeamInv'
<1> USE DEF TeamInv
<1>1. Grows /\ invites' \in [InviteIds -> Invitation] /\ InvitesOK'
  <2>1. CASE invites' = invites
    BY <2>1 DEF MarkAccepted, Grows, TypeOK, InvitesOK
  <2>2. CASE invites' = [invites EXCEPT ![reqs[r].inv].accepted = TRUE]
    <3>1. invites' \in [InviteIds -> Invitation]
      BY <2>2 DEF TypeOK, Invitation
    <3>2. \A i \in InviteIds :
            invites'[i].sent = invites[i].sent /\ invites'[i].email = invites[i].email
      BY <2>2 DEF TypeOK, Invitation
    <3> QED  BY <3>1, <3>2 DEF MarkAccepted, Grows, InvitesOK
  <2> QED  BY <2>1, <2>2 DEF MarkAccepted
<1>2. reqs' \in [Requests -> Request] /\ RequestsOK'
  BY <1>1, RequestsMove, NoRequestOK DEF MarkAccepted, Finish
<1>3. TypeOK'
  <2>1. faults' \in 0 .. MaxFaults /\ (blind => faults' > 0)
    BY InputAssumption DEF MarkAccepted, TypeOK
  <2> QED  BY <1>1, <1>2, <2>1 DEF MarkAccepted, TypeOK, User
<1>4. StrandedIsServed'
  BY StrandedKept DEF MarkAccepted, Finish
<1> QED  BY <1>1, <1>2, <1>3, <1>4

LEMMA AbortInv ==
  ASSUME TeamInv, NEW r \in Requests, Abort(r) PROVE TeamInv'
<1> USE DEF TeamInv
<1>1. Grows
  BY DEF Abort, Grows
<1>2. reqs' \in [Requests -> Request] /\ RequestsOK'
  BY <1>1, RequestsMove, NoRequestOK DEF Abort, Finish
<1>3. reqs[r].pc = "insert" => reqs[r].target \in Users
  BY Serves DEF RequestOK, StepsOf, Ops
<1>4. /\ faults' \in 0 .. MaxFaults /\ (blind => faults' > 0)
      /\ emptied' \subseteq Users
  BY <1>3, InputAssumption DEF Abort, TypeOK
<1>5. TypeOK' /\ InvitesOK'
  BY <1>2, <1>4 DEF Abort, TypeOK, InvitesOK, User, Invitation
<1>6. ASSUME NEW u \in Users, Stranded(u)', u \notin emptied'
      PROVE  \E s \in Requests : Fills(reqs'[s], u)
  <2>1. Stranded(u)
    BY <1>6 DEF Abort, Stranded, Live, HasRole
  <2>2. u \notin emptied /\ ~Fills(reqs[r], u)
    BY <1>6 DEF Abort, Fills
  <2> QED  BY <1>6, <2>1, <2>2, OthersServe DEF Abort, Finish
<1> QED  BY <1>2, <1>5, <1>6 DEF StrandedIsServed, Fills

\* Revoking and expiring change one flag of one invitation.
LEMMA InviteInv ==
  ASSUME TeamInv, NEW i \in InviteIds, RevokeInvitation(i) \/ InvitationExpires(i)
  PROVE  TeamInv'
<1> USE DEF TeamInv
<1>1. /\ UNCHANGED <<users, userRoles, org, reqs, faults, blind, emptied>>
      /\ invites' \in [InviteIds -> Invitation] /\ InvitesOK' /\ Grows
  <2>1. UNCHANGED <<users, userRoles, org, reqs, faults, blind, emptied>>
    BY DEF RevokeInvitation, InvitationExpires
  <2>2. \/ invites' = [invites EXCEPT ![i].revoked = TRUE]
        \/ invites' = [invites EXCEPT ![i].expired = TRUE]
    BY DEF RevokeInvitation, InvitationExpires
  <2>3. invites' \in [InviteIds -> Invitation]
    <3>1. /\ [invites[i] EXCEPT !.revoked = TRUE] \in Invitation
          /\ [invites[i] EXCEPT !.expired = TRUE] \in Invitation
      BY DEF TypeOK, Invitation
    <3> QED  BY <2>2, <3>1 DEF TypeOK
  <2>4. \A j \in InviteIds :
          invites'[j].sent = invites[j].sent /\ invites'[j].email = invites[j].email
    BY <2>2 DEF TypeOK, Invitation
  <2> QED  BY <2>1, <2>3, <2>4 DEF Grows, InvitesOK
<1>2. served' \in 0 .. MaxRequests /\ overlapped' \in BOOLEAN
  BY LetInType DEF RevokeInvitation, InvitationExpires, TypeOK
<1>3. TypeOK'
  BY <1>1, <1>2 DEF TypeOK, User
<1>4. RequestsOK'
  BY <1>1 DEF RequestsOK, RequestOK, Known, Grows, Grants
<1>5. StrandedIsServed'
  BY <1>1 DEF StrandedIsServed, Stranded, Live, HasRole, Fills
<1> QED  BY <1>1, <1>3, <1>4, <1>5

(***************************************************************************)
(* The invariant, and what follows from it                                 *)
(***************************************************************************)

LEMMA InitInv == Init => TeamInv
<1> SUFFICES ASSUME Init PROVE TeamInv
  OBVIOUS
<1>1. Unsent \in Invitation
  BY DEF Unsent, Invitation, Roles
<1>2. TypeOK
  <2>1. /\ users \in [Users -> User]
        /\ \A u \in Users : users[u].st = "none" <=> users[u].email = NoEmail
    BY NameAssumption DEF Init, User, NobodyYet
  <2>2. userRoles \subseteq Users \X Roles
    BY NameAssumption DEF Init, Roles
  <2>3. reqs \in [Requests -> Request] /\ invites \in [InviteIds -> Invitation]
    BY <1>1, NoRequestOK DEF Init
  <2>4. 0 \in 0 .. MaxRequests /\ 0 \in 0 .. MaxFaults
    BY InputAssumption
  <2> QED  BY <2>1, <2>2, <2>3, <2>4 DEF Init, TypeOK
<1>3. RequestsOK
  BY NoRequestOK DEF Init, RequestsOK
<1>4. InvitesOK
  BY DEF Init, InvitesOK, Unsent
<1>5. StrandedIsServed
  BY NameAssumption DEF Init, StrandedIsServed, Stranded, Live, HasRole, NobodyYet, Roles
<1> QED  BY <1>2, <1>3, <1>4, <1>5 DEF TeamInv

LEMMA NextInv == TeamInv /\ [Next]_vars => TeamInv'
<1> SUFFICES ASSUME TeamInv, [Next]_vars PROVE TeamInv'
  OBVIOUS
<1>1. ASSUME NEW r \in Requests, Serve(r) PROVE TeamInv'
  BY <1>1, AskInv, ReadMemberInv, CountOwnersInv, RequesterInv, DeleteRolesInv,
     InsertRoleInv, RemoveUserInv, HoldsOwnerInv, FindTargetInv, TransferInv,
     CountMembersInv, DeleteUserInv, DeleteOrgInv, KnownEmailInv, FindActiveInv,
     SendInvitationInv, FindPendingInv, CreateAccountInv, MarkAcceptedInv, AbortInv,
     LookupFailsInv
     DEF Serve
<1>2. ASSUME NEW i \in InviteIds, RevokeInvitation(i) \/ InvitationExpires(i)
      PROVE  TeamInv'
  BY <1>2, InviteInv
<1>3. CASE UNCHANGED vars
  BY <1>3 DEF vars, TeamInv, TypeOK, User, Invitation, RequestsOK, RequestOK, Known,
       InvitesOK, StrandedIsServed, Stranded, Live, HasRole, Fills, Grants
<1> QED  BY <1>1, <1>2, <1>3 DEF Next

\* Type correctness: among others, nobody but a user the database has no row
\* of is without an email.
THEOREM TypeCorrect == Spec => []TypeOK
<1>1. TeamInv => TypeOK
  BY DEF TeamInv
<1> QED  BY <1>1, InitInv, NextInv, PTL DEF Spec

\* Whatever requests are interleaved and whichever of their statements fail, a
\* member without a role is one whose roles an update took and who has been given
\* none since: the update named none that exists, or failed or died between its
\* DELETE and its INSERTs.  From the invariant TeamInv: until then the update is
\* about to insert one.
THEOREM MembersKeepRoles == Spec => []NobodyStranded
<1>1. TeamInv => NobodyStranded
  <2> SUFFICES ASSUME TeamInv, \A r \in Requests : ~Serving(r),
                      NEW u \in Users, Stranded(u), u \notin emptied
               PROVE  FALSE
    BY DEF NobodyStranded
  <2>1. PICK r \in Requests : Fills(reqs[r], u)
    BY DEF TeamInv, StrandedIsServed
  <2> QED  BY <2>1 DEF Serving, Fills
<1> QED  BY <1>1, InitInv, NextInv, PTL DEF Spec

(***************************************************************************)
(* One request at a time                                                   *)
(***************************************************************************)

\* As long as requests do not overlap and no failed lookup has counted as nothing
\* found, what a request has learnt is still true when it acts on it; owners last
\* as long as no statement fails at all.  OwnerRowStays, OneAccountPerEmail and
\* InvitationsSettle say this of the states between requests; SeqInv of all.
Sequential == ~overlapped /\ ~blind
Alone == \A r, s \in Requests : Serving(r) /\ Serving(s) => r = s

SomeOwner == \E u \in Users : HasRole(u, "Owner")
OwnerLasts ==
  faults = 0 =>
    SomeOwner \/ \E r \in Requests : reqs[r].pc = "insert" /\ "Owner" \in reqs[r].roles
EmailsDiffer ==
  \A u, v \in Users : u # v /\ Live(u) /\ Live(v) => users[u].email # users[v].email
AnswersDiffer ==
  /\ \A i \in InviteIds : ~(invites[i].accepted /\ invites[i].revoked)
  /\ \A i, j \in InviteIds :
       i # j /\ Pending(i) /\ Pending(j) => invites[i].email # invites[j].email

Informed(q) ==
  /\ q.op = "transfer" => q.actor # q.target
  /\ q.pc = "asker" /\ q.op = "roles" => "Owner" \in q.roles
  /\ q.pc = "clear" /\ faults = 0 =>
       "Owner" \in q.roles \/ \E v \in Users \ {q.target} : HasRole(v, "Owner")
  /\ q.pc = "create" => ~EmailKnown(q.email)
  /\ q.pc = "send" => \A i \in InviteIds : Pending(i) => invites[i].email # q.email
  /\ q.op = "accept" /\ q.pc # "redeem" => ~invites[q.inv].revoked

SeqInv ==
  Sequential => /\ Alone /\ OwnerLasts /\ EmailsDiffer /\ AnswersDiffer
                /\ \A r \in Requests : Informed(reqs[r])

\* A step of the request in slot r, which is the only one.
LEMMA SeqStep ==
  ASSUME TeamInv, TeamInv', SeqInv, Sequential, NEW r \in Requests, Serving(r),
         NEW q, reqs' = [reqs EXCEPT ![r] = q], Informed(reqs[r])',
         OwnerLasts', EmailsDiffer', AnswersDiffer'
  PROVE  SeqInv'
<1>1. \A s \in Requests : s # r => reqs'[s] = reqs[s] /\ reqs[s].pc = "idle"
  BY DEF SeqInv, Alone, Serving, TeamInv, TypeOK
<1>2. Alone'
  BY <1>1 DEF Alone, Serving
<1>3. ASSUME NEW s \in Requests PROVE Informed(reqs[s])'
  <2>1. CASE s = r
    BY <2>1
  <2>2. CASE s # r
    <3>1. reqs[s].op = "none"
      BY <1>1, <2>2, Serves DEF RequestOK, StepsOf, Ops
    <3> QED  BY <1>1, <2>2, <3>1 DEF Informed
  <2> QED  BY <2>1, <2>2
<1> QED  BY <1>2, <1>3 DEF SeqInv

\* What a step leaves alone keeps its part of the invariant.
LEMMA UsersKept == ASSUME SeqInv, Sequential, UNCHANGED users PROVE EmailsDiffer'
  BY DEF SeqInv, EmailsDiffer, Live

LEMMA InvitesKept == ASSUME SeqInv, Sequential, UNCHANGED invites PROVE AnswersDiffer'
  BY DEF SeqInv, AnswersDiffer, Pending

LEMMA OwnerKept ==
  ASSUME TypeOK, SeqInv, Sequential, NEW r \in Requests, reqs[r].pc # "insert",
         NEW q, reqs' = [reqs EXCEPT ![r] = q], UNCHANGED userRoles,
         faults' \in {faults, faults + 1}
  PROVE  OwnerLasts'
<1> SUFFICES ASSUME faults' = 0
             PROVE  SomeOwner' \/ \E s \in Requests : reqs'[s].pc = "insert" /\ "Owner" \in reqs'[s].roles
  BY DEF OwnerLasts
<1>1. faults = 0
  BY DEF TypeOK
<1>2. CASE SomeOwner
  BY <1>2 DEF SomeOwner, HasRole
<1>3. CASE ~SomeOwner
  <2>1. PICK s \in Requests : reqs[s].pc = "insert" /\ "Owner" \in reqs[s].roles
    BY <1>1, <1>3 DEF SeqInv, OwnerLasts
  <2>2. reqs'[s] = reqs[s]
    BY <2>1 DEF TypeOK
  <2> QED  BY <2>1, <2>2
<1> QED  BY <1>2, <1>3

\* Only updates are at "insert": while another request is served, an owner is there.
LEMMA OwnerIsThere ==
  ASSUME SeqInv, Sequential, faults = 0, NEW r \in Requests, Serving(r),
         reqs[r].pc # "insert"
  PROVE  SomeOwner
BY DEF SeqInv, OwnerLasts, Alone, Serving

LEMMA SeqRead ==
  ASSUME TeamInv, TeamInv', SeqInv, Sequential, NEW r \in Requests, Serving(r),
         reqs[r].pc # "insert", NEW q, reqs' = [reqs EXCEPT ![r] = q],
         UNCHANGED <<users, userRoles, invites>>, faults' \in {faults, faults + 1},
         Informed(reqs[r])'
  PROVE  SeqInv'
<1>1. OwnerLasts'
  BY OwnerKept DEF TeamInv
<1> QED  BY <1>1, SeqStep, UsersKept, InvitesKept

LEMMA DoneInformed ==
  ASSUME TypeOK, NEW r \in Requests, Finish(r) PROVE Informed(reqs[r])'
  BY DEF Finish, TypeOK, NoRequest, Informed

LEMMA SeqFinish ==
  ASSUME TeamInv, TeamInv', SeqInv, Sequential, NEW r \in Requests, Serving(r),
         reqs[r].pc # "insert", Finish(r), UNCHANGED <<users, userRoles, invites>>,
         faults' \in {faults, faults + 1}
  PROVE  SeqInv'
  BY DoneInformed, SeqRead DEF Finish, TeamInv

\* A request that goes to the step pc and changes nothing else.
LEMMA SeqGoto ==
  ASSUME TeamInv, TeamInv', SeqInv, Sequential, NEW r \in Requests, Serving(r),
         reqs[r].pc # "insert", NEW pc, Goto(r, pc),
         UNCHANGED <<users, userRoles, invites, faults>>,
         pc = "asker" /\ reqs[r].op = "roles" => "Owner" \in reqs[r].roles,
         pc = "clear" /\ faults = 0 => \/ "Owner" \in reqs[r].roles
                                       \/ \E v \in Users \ {reqs[r].target} : HasRole(v, "Owner"),
         pc = "create" => ~EmailKnown(reqs[r].email),
         pc = "send" => \A i \in InviteIds : Pending(i) => invites[i].email # reqs[r].email,
         reqs[r].pc # "redeem"
  PROVE  SeqInv'
<1>1. reqs[r] \in Request /\ reqs \in [Requests -> Request]
  BY DEF TeamInv, TypeOK
<1>2. reqs' = [reqs EXCEPT ![r] = [reqs[r] EXCEPT !.pc = pc]]
  BY <1>1 DEF Goto
<1>3. /\ reqs'[r].pc = pc /\ reqs'[r].op = reqs[r].op /\ reqs'[r].inv = reqs[r].inv
      /\ reqs'[r].actor = reqs[r].actor /\ reqs'[r].target = reqs[r].target
      /\ reqs'[r].roles = reqs[r].roles /\ reqs'[r].email = reqs[r].email
  BY <1>1, <1>2 DEF Request
<1>4. Informed(reqs[r])
  BY DEF SeqInv
<1>5. Informed(reqs[r])'
  BY <1>3, <1>4 DEF Informed, HasRole, EmailKnown, Live, Pending
<1> QED  BY <1>2, <1>5, SeqRead

LEMMA ReadMemberSeq ==
  ASSUME TeamInv, TeamInv', SeqInv, Sequential, NEW r \in Requests, ReadMember(r)
  PROVE  SeqInv'
<1>1. Serving(r) /\ reqs[r].pc = "member" /\ UNCHANGED <<users, userRoles, invites, faults>>
  BY DEF ReadMember, Serving
<1>2. CASE Finish(r)
  BY <1>1, <1>2, SeqFinish
<1>3. CASE ~Finish(r)
  <2> DEFINE owner == HasRole(reqs[r].target, "Owner")
  <2>1. PICK pc \in {"count", "asker", "clear", "remove"} :
          /\ Goto(r, pc)
          /\ pc = "asker" => "Owner" \in reqs[r].roles
          /\ pc = "clear" => (owner => "Owner" \in reqs[r].roles)
    BY <1>3 DEF ReadMember
  <2>2. faults = 0 => SomeOwner
    BY <1>1, OwnerIsThere
  <2>3. pc = "clear" /\ faults = 0 => \/ "Owner" \in reqs[r].roles
                                      \/ \E v \in Users \ {reqs[r].target} : HasRole(v, "Owner")
    BY <2>1, <2>2 DEF SomeOwner
  <2> QED  BY <1>1, <2>1, <2>3, SeqGoto
<1> QED  BY <1>2, <1>3

LEMMA CountOwnersSeq ==
  ASSUME TeamInv, TeamInv', SeqInv, Sequential, NEW r \in Requests, CountOwners(r)
  PROVE  SeqInv'
<1>1. Serving(r) /\ reqs[r].pc = "count" /\ UNCHANGED <<users, userRoles, invites, faults>>
  BY DEF CountOwners, Serving
<1>2. CASE Finish(r)
  BY <1>1, <1>2, SeqFinish
<1>3. CASE ~Finish(r)
  <2>1. PICK pc \in {"clear", "remove"} : Goto(r, pc) /\ CountOtherOwners(reqs[r].target) # 0
    BY <1>3 DEF CountOwners
  <2>2. {v \in Users \ {reqs[r].target} : HasRole(v, "Owner")} # {}
    BY <2>1, FS_EmptySet DEF CountOtherOwners
  <2>3. \E v \in Users \ {reqs[r].target} : HasRole(v, "Owner")
    BY <2>2
  <2> QED  BY <1>1, <2>1, <2>3, SeqGoto
<1> QED  BY <1>2, <1>3

LEMMA RequesterSeq ==
  ASSUME TeamInv, TeamInv', SeqInv, Sequential, NEW r \in Requests, RequesterIsOwner(r)
  PROVE  SeqInv'
<1>1. Serving(r) /\ reqs[r].pc = "asker" /\ UNCHANGED <<users, userRoles, invites, faults>>
  BY DEF RequesterIsOwner, Serving
<1>2. CASE Finish(r)
  BY <1>1, <1>2, SeqFinish
<1>3. CASE ~Finish(r)
  <2>1. PICK pc \in {"clear", "known"} :
          Goto(r, pc) /\ (pc = "clear" => reqs[r].op = "roles")
    BY <1>3 DEF RequesterIsOwner
  <2>2. Informed(reqs[r])
    BY DEF SeqInv
  <2>3. pc = "clear" => "Owner" \in reqs[r].roles
    BY <1>1, <2>1, <2>2 DEF Informed
  <2> QED  BY <1>1, <2>1, <2>3, SeqGoto
<1> QED  BY <1>2, <1>3

\* The owner of another account stays, or the update gives Owner back.
LEMMA DeleteRolesSeq ==
  ASSUME TeamInv, TeamInv', SeqInv, Sequential, NEW r \in Requests, DeleteRoles(r)
  PROVE  SeqInv'
<1>1. Serving(r) /\ reqs[r].pc = "clear" /\ UNCHANGED <<users, invites>>
  BY DEF DeleteRoles, Serving
<1>2. /\ reqs[r] \in Request /\ reqs \in [Requests -> Request] /\ reqs[r].op = "roles"
      /\ Informed(reqs[r])
  BY <1>1, Serves DEF TeamInv, TypeOK, RequestOK, StepsOf, Ops, SeqInv
<1>3. CASE Finish(r)
  <2>1. OwnerLasts'
    <3>1. SUFFICES ASSUME faults' = 0 PROVE SomeOwner'
      BY DEF OwnerLasts
    <3>2. faults = 0 /\ userRoles' = {ur \in userRoles : ur[1] # reqs[r].target}
      BY <3>1 DEF DeleteRoles, TeamInv, TypeOK
    <3>3. "Owner" \notin reqs[r].roles
      <4>1. reqs'[r].pc = "idle"
        BY <1>2, <1>3 DEF Finish, NoRequest
      <4>2. reqs[r].roles # {} => reqs'[r].pc = "insert"
        BY <1>2 DEF DeleteRoles, Goto, Request
      <4> QED  BY <4>1, <4>2
    <3> QED  BY <1>1, <1>2, <3>2, <3>3 DEF Informed, SomeOwner, HasRole
  <2>2. Informed(reqs[r])'
    BY <1>3, DoneInformed DEF TeamInv
  <2> QED  BY <1>1, <1>3, <2>1, <2>2, SeqStep, UsersKept, InvitesKept DEF Finish
<1>4. CASE ~Finish(r)
  <2>1. /\ reqs' = [reqs EXCEPT ![r] = [reqs[r] EXCEPT !.pc = "insert"]]
        /\ reqs'[r].pc = "insert" /\ reqs'[r].roles = reqs[r].roles
        /\ reqs'[r].op = "roles"
    BY <1>2, <1>4 DEF DeleteRoles, Goto, Request
  <2>2. OwnerLasts'
    <3>1. SUFFICES ASSUME faults' = 0
                   PROVE  SomeOwner' \/ "Owner" \in reqs[r].roles
      BY <2>1 DEF OwnerLasts
    <3>2. faults = 0 /\ userRoles' = {ur \in userRoles : ur[1] # reqs[r].target}
      BY <3>1 DEF DeleteRoles, TeamInv, TypeOK
    <3> QED  BY <1>1, <1>2, <3>2 DEF Informed, SomeOwner, HasRole
  <2>3. Informed(reqs[r])'
    BY <2>1 DEF Informed
  <2> QED  BY <1>1, <2>1, <2>2, <2>3, SeqStep, UsersKept, InvitesKept
<1> QED  BY <1>3, <1>4

LEMMA InsertRoleSeq ==
  ASSUME TeamInv, TeamInv', SeqInv, Sequential, NEW r \in Requests, InsertRole(r)
  PROVE  SeqInv'
<1>1. Serving(r) /\ reqs[r].pc = "insert" /\ UNCHANGED <<users, invites>>
  BY DEF InsertRole, Serving
<1>2. reqs[r] \in Request /\ reqs \in [Requests -> Request] /\ reqs[r].op = "roles"
      /\ reqs[r].target \in Users
  BY <1>1, Serves DEF TeamInv, TypeOK, RequestOK, StepsOf, Ops
<1>3. PICK role \in reqs[r].roles :
        /\ faults' = 0 =>
             /\ faults = 0
             /\ \/ userRoles' = userRoles \cup {<<reqs[r].target, role>>}
                \/ userRoles' = userRoles /\ role # "Owner"
        /\ IF reqs[r].roles = {role}
             THEN Finish(r)
             ELSE reqs' = [reqs EXCEPT ![r].roles = reqs[r].roles \ {role}]
  BY DEF InsertRole, TeamInv, TypeOK, Roles
<1>4. ASSUME faults' = 0
      PROVE  SomeOwner' \/ "Owner" \in reqs[r].roles \ {role}
  <2>1. CASE SomeOwner
    BY <1>3, <1>4, <2>1 DEF SomeOwner, HasRole
  <2>2. CASE ~SomeOwner
    <3>1. "Owner" \in reqs[r].roles
      BY <1>1, <1>3, <1>4, <2>2 DEF SeqInv, OwnerLasts, Alone, Serving
    <3>2. CASE role = "Owner"
      BY <1>2, <1>3, <1>4, <3>2 DEF SomeOwner, HasRole
    <3>3. CASE role # "Owner"
      BY <3>1, <3>3
    <3> QED  BY <3>2, <3>3
  <2> QED  BY <2>1, <2>2
<1>5. CASE reqs[r].roles = {role}
  <2>1. OwnerLasts'
    BY <1>4, <1>5 DEF OwnerLasts
  <2>2. Finish(r) /\ Informed(reqs[r])'
    BY <1>3, <1>5, DoneInformed DEF TeamInv
  <2> QED  BY <1>1, <2>1, <2>2, SeqStep, UsersKept, InvitesKept DEF Finish
<1>6. CASE reqs[r].roles # {role}
  <2>1. reqs' = [reqs EXCEPT ![r] = [reqs[r] EXCEPT !.roles = reqs[r].roles \ {role}]]
    BY <1>2, <1>3, <1>6
  <2>2. /\ reqs'[r].pc = "insert" /\ reqs'[r].op = "roles"
        /\ reqs'[r].roles = reqs[r].roles \ {role}
    BY <1>1, <1>2, <2>1 DEF Request
  <2>3. OwnerLasts'
    BY <1>4, <2>2 DEF OwnerLasts
  <2>4. Informed(reqs[r])'
    BY <2>2 DEF Informed
  <2> QED  BY <1>1, <2>1, <2>3, <2>4, SeqStep, UsersKept, InvitesKept
<1> QED  BY <1>5, <1>6

\* Removing a user from users makes no two accounts alike.
LEMMA RemovalSeq ==
  ASSUME TeamInv, TeamInv', SeqInv, Sequential, NEW r \in Requests, Serving(r),
         reqs[r].pc # "insert", NEW q, reqs' = [reqs EXCEPT ![r] = q],
         NEW u, users' = [users EXCEPT ![u].st = "removed"],
         UNCHANGED <<userRoles, invites, faults>>, Informed(reqs[r])'
  PROVE  SeqInv'
<1>1. EmailsDiffer'
  <2>1. \A v \in Users : Live(v)' => Live(v) /\ users'[v].email = users[v].email
    BY DEF Live, TeamInv, TypeOK, User
  <2> QED  BY <2>1 DEF SeqInv, EmailsDiffer
<1>2. OwnerLasts'
  BY OwnerKept DEF TeamInv
<1> QED  BY <1>1, <1>2, SeqStep, InvitesKept

LEMMA RemoveUserSeq ==
  ASSUME TeamInv, TeamInv', SeqInv, Sequential, NEW r \in Requests, RemoveUser(r)
  PROVE  SeqInv'
BY RemovalSeq, DoneInformed DEF RemoveUser, Finish, Serving, TeamInv

LEMMA DeleteUserSeq ==
  ASSUME TeamInv, TeamInv', SeqInv, Sequential, NEW r \in Requests, DeleteUser(r)
  PROVE  SeqInv'
<1>1. /\ Serving(r) /\ reqs[r].pc = "leave" /\ UNCHANGED <<userRoles, invites, faults>>
      /\ users' = [users EXCEPT ![reqs[r].actor].st = "removed"]
  BY DEF DeleteUser, Serving
<1>2. CASE Finish(r)
  BY <1>1, <1>2, RemovalSeq, DoneInformed DEF Finish, TeamInv
<1>3. CASE ~Finish(r)
  <2>1. Goto(r, "close")
    BY <1>3 DEF DeleteUser
  <2>2. reqs[r] \in Request /\ reqs \in [Requests -> Request] /\ reqs[r].op = "leave"
    BY <1>1, Serves DEF TeamInv, TypeOK, RequestOK, StepsOf, Ops
  <2>3. reqs' = [reqs EXCEPT ![r] = [reqs[r] EXCEPT !.pc = "close"]]
    BY <2>1, <2>2 DEF Goto
  <2>4. reqs'[r].pc = "close" /\ reqs'[r].op = "leave"
    BY <2>2, <2>3 DEF Request
  <2>5. Informed(reqs[r])'
    BY <2>4 DEF Informed
  <2> QED  BY <1>1, <2>3, <2>5, RemovalSeq
<1> QED  BY <1>2, <1>3

LEMMA HoldsOwnerSeq ==
  ASSUME TeamInv, TeamInv', SeqInv, Sequential, NEW r \in Requests, HoldsOwner(r)
  PROVE  SeqInv'
<1>1. Serving(r) /\ reqs[r].pc = "holds" /\ UNCHANGED <<users, userRoles, invites, faults>>
  BY DEF HoldsOwner, Serving
<1>2. CASE Finish(r)
  BY <1>1, <1>2, SeqFinish
<1>3. CASE ~Finish(r)
  <2>1. PICK pc \in {"target", "size", "leave"} : Goto(r, pc)
    BY <1>3 DEF HoldsOwner
  <2> QED  BY <1>1, <2>1, SeqGoto
<1> QED  BY <1>2, <1>3

LEMMA FindTargetSeq ==
  ASSUME TeamInv, TeamInv', SeqInv, Sequential, NEW r \in Requests, FindTarget(r)
  PROVE  SeqInv'
<1>1. Serving(r) /\ reqs[r].pc = "target" /\ UNCHANGED <<users, userRoles, invites, faults>>
  BY DEF FindTarget, Serving
<1>2. CASE Finish(r)
  BY <1>1, <1>2, SeqFinish
<1>3. CASE Goto(r, "transfer")
  BY <1>1, <1>3, SeqGoto
<1> QED  BY <1>2, <1>3 DEF FindTarget

\* The target, who is another, is the owner now.
LEMMA TransferSeq ==
  ASSUME TeamInv, TeamInv', SeqInv, Sequential, NEW r \in Requests, Transfer(r)
  PROVE  SeqInv'
<1>1. Serving(r) /\ reqs[r].pc = "transfer" /\ Finish(r) /\ UNCHANGED <<users, invites>>
  BY DEF Transfer, Serving
<1>2. reqs[r].op = "transfer" /\ reqs[r].target \in Users /\ Informed(reqs[r])
  BY <1>1, Serves DEF SeqInv, RequestOK, StepsOf, Ops
<1>3. OwnerLasts'
  BY <1>2 DEF Transfer, Informed, OwnerLasts, SomeOwner, HasRole
<1>4. Informed(reqs[r])'
  BY <1>1, DoneInformed DEF TeamInv
<1> QED  BY <1>1, <1>3, <1>4, SeqStep, UsersKept, InvitesKept DEF Finish

LEMMA CountMembersSeq ==
  ASSUME TeamInv, TeamInv', SeqInv, Sequential, NEW r \in Requests, CountMembers(r)
  PROVE  SeqInv'
<1>1. Serving(r) /\ reqs[r].pc = "size" /\ UNCHANGED <<users, userRoles, invites, faults>>
  BY DEF CountMembers, Serving
<1>2. CASE Finish(r)
  BY <1>1, <1>2, SeqFinish
<1>3. CASE ~Finish(r)
  <2> DEFINE q == [reqs[r] EXCEPT !.pc = "leave", !.last = TRUE]
  <2>1. reqs[r] \in Request /\ reqs \in [Requests -> Request] /\ reqs[r].op = "leave"
    BY <1>1, Serves DEF TeamInv, TypeOK, RequestOK, StepsOf, Ops
  <2>2. reqs' = [reqs EXCEPT ![r] = q]
    BY <1>3, <2>1 DEF CountMembers
  <2>3. reqs'[r].pc = "leave" /\ reqs'[r].op = "leave"
    BY <2>1, <2>2 DEF Request
  <2>4. Informed(reqs[r])'
    BY <2>3 DEF Informed
  <2> QED  BY <1>1, <2>2, <2>4, SeqRead
<1> QED  BY <1>2, <1>3

LEMMA DeleteOrgSeq ==
  ASSUME TeamInv, TeamInv', SeqInv, Sequential, NEW r \in Requests, DeleteOrg(r)
  PROVE  SeqInv'
BY SeqFinish DEF DeleteOrg, Serving

\* A request that ends early has changed nothing more; that no owner is left is
\* only said of requests none of which failed.
LEMMA AbortSeq ==
  ASSUME TeamInv, TeamInv', SeqInv, Sequential, NEW r \in Requests, Abort(r)
  PROVE  SeqInv'
<1>1. Serving(r) /\ Finish(r) /\ UNCHANGED <<users, invites>>
  BY DEF Abort
<1>2. OwnerLasts'
  BY DEF Abort, OwnerLasts, TeamInv, TypeOK
<1>3. Informed(reqs[r])'
  BY <1>1, DoneInformed DEF TeamInv
<1> QED  BY <1>1, <1>2, <1>3, SeqStep, UsersKept, InvitesKept DEF Finish

LEMMA KnownEmailSeq ==
  ASSUME TeamInv, TeamInv', SeqInv, Sequential, NEW r \in Requests, KnownEmail(r)
  PROVE  SeqInv'
<1>1. Serving(r) /\ reqs[r].pc = "known" /\ UNCHANGED <<users, userRoles, invites, faults>>
  BY DEF KnownEmail, Serving
<1>2. CASE Finish(r)
  BY <1>1, <1>2, SeqFinish
<1>3. CASE ~Finish(r)
  <2>1. PICK pc \in {"pending", "create"} : Goto(r, pc) /\ ~EmailKnown(reqs[r].email)
    BY <1>3 DEF KnownEmail
  <2> QED  BY <1>1, <2>1, SeqGoto
<1> QED  BY <1>2, <1>3

LEMMA FindActiveSeq ==
  ASSUME TeamInv, TeamInv', SeqInv, Sequential, NEW r \in Requests, FindActive(r)
  PROVE  SeqInv'
<1>1. Serving(r) /\ reqs[r].pc = "pending" /\ UNCHANGED <<users, userRoles, invites, faults>>
  BY DEF FindActive, Serving
<1>2. CASE Finish(r)
  BY <1>1, <1>2, SeqFinish
<1>3. CASE ~Finish(r)
  <2>1. Goto(r, "send") /\ \A i \in InviteIds : Pending(i) => invites[i].email # reqs[r].email
    BY <1>3 DEF FindActive
  <2> QED  BY <1>1, <2>1, SeqGoto
<1> QED  BY <1>2, <1>3

\* The new invitation is the only one to its email that can be accepted.
LEMMA SendInvitationSeq ==
  ASSUME TeamInv, TeamInv', SeqInv, Sequential, NEW r \in Requests, SendInvitation(r)
  PROVE  SeqInv'
<1>1. Serving(r) /\ reqs[r].pc = "send" /\ Finish(r) /\ UNCHANGED <<users, userRoles, faults>>
  BY DEF SendInvitation, Serving
<1>2. PICK i \in InviteIds, role \in reqs[r].roles :
        invites' = [invites EXCEPT ![i] =
          [Unsent EXCEPT !.sent = TRUE, !.email = reqs[r].email, !.role = role]]
  BY DEF SendInvitation
<1>3. /\ \A j \in InviteIds : j # i => invites'[j] = invites[j]
      /\ invites'[i].email = reqs[r].email
      /\ invites'[i].accepted = FALSE /\ invites'[i].revoked = FALSE
  BY <1>2 DEF TeamInv, TypeOK, Unsent
<1>4. \A j \in InviteIds : Pending(j) => invites[j].email # reqs[r].email
  BY <1>1 DEF SeqInv, Informed
<1>5. AnswersDiffer'
  <2>1. \A j \in InviteIds : ~(invites'[j].accepted /\ invites'[j].revoked)
    BY <1>3 DEF SeqInv, AnswersDiffer
  <2>2. \A j \in InviteIds : j # i /\ Pending(j)' => Pending(j)
    BY <1>3 DEF Pending
  <2> QED  BY <1>3, <1>4, <2>1, <2>2 DEF SeqInv, AnswersDiffer
<1>6. OwnerLasts' /\ Informed(reqs[r])'
  BY <1>1, OwnerKept, DoneInformed DEF Finish, TeamInv
<1> QED  BY <1>1, <1>5, <1>6, SeqStep, UsersKept DEF Finish

LEMMA FindPendingSeq ==
  ASSUME TeamInv, TeamInv', SeqInv, Sequential, NEW r \in Requests, FindPendingByToken(r)
  PROVE  SeqInv'
<1>1. Serving(r) /\ reqs[r].pc = "redeem" /\ UNCHANGED <<users, userRoles, invites, faults>>
  BY DEF FindPendingByToken, Serving
<1>2. CASE Finish(r)
  BY <1>1, <1>2, SeqFinish
<1>3. CASE ~Finish(r)
  <2> DEFINE i == reqs[r].inv
             q == [reqs[r] EXCEPT !.pc = "known", !.email = invites[i].email,
                                  !.roles = {invites[i].role}]
  <2>1. reqs[r] \in Request /\ reqs \in [Requests -> Request] /\ reqs[r].op = "accept"
    BY <1>1, Serves DEF TeamInv, TypeOK, RequestOK, StepsOf, Ops
  <2>2. reqs' = [reqs EXCEPT ![r] = q] /\ ~invites[i].revoked
    BY <1>3, <2>1 DEF FindPendingByToken, Pending
  <2>3. reqs'[r].pc = "known" /\ reqs'[r].op = "accept" /\ reqs'[r].inv = i
    BY <2>1, <2>2 DEF Request
  <2>4. Informed(reqs[r])'
    BY <1>1, <2>2, <2>3 DEF Informed
  <2> QED  BY <1>1, <2>2, <2>4, SeqRead
<1> QED  BY <1>2, <1>3

\* Nobody else has the email of the new account.
LEMMA CreateAccountSeq ==
  ASSUME TeamInv, TeamInv', SeqInv, Sequential, NEW r \in Requests, CreateAccount(r)
  PROVE  SeqInv'
<1>1. Serving(r) /\ reqs[r].pc = "create" /\ UNCHANGED invites /\ Informed(reqs[r])
  BY DEF CreateAccount, Serving, SeqInv
<1>2. PICK u \in Users :
        /\ users[u].st = "none"
        /\ users' = [users EXCEPT ![u] = [st |-> "live", email |-> reqs[r].email]]
        /\ userRoles' = userRoles \cup ({u} \X reqs[r].roles)
  BY DEF CreateAccount
<1>3. EmailsDiffer'
  <2>1. \A v \in Users : v # u => users'[v] = users[v]
    BY <1>2 DEF TeamInv, TypeOK
  <2>2. users'[u].email = reqs[r].email
    BY <1>2 DEF TeamInv, TypeOK
  <2>3. \A v \in Users : v # u /\ Live(v) => users[v].email # reqs[r].email
    BY <1>1 DEF Informed, EmailKnown
  <2> QED  BY <2>1, <2>2, <2>3 DEF SeqInv, EmailsDiffer, Live
<1>4. OwnerLasts'
  <2>1. faults' = faults /\ (faults = 0 => SomeOwner)
    BY <1>1, OwnerIsThere DEF CreateAccount
  <2> QED  BY <1>2, <2>1 DEF OwnerLasts, SomeOwner, HasRole
<1>5. CASE Finish(r)
  <2>1. Informed(reqs[r])'
    BY <1>5, DoneInformed DEF TeamInv
  <2> QED  BY <1>1, <1>3, <1>4, <1>5, <2>1, SeqStep, InvitesKept DEF Finish
<1>6. CASE ~Finish(r)
  <2>1. Goto(r, "mark") /\ reqs[r].op = "accept"
    BY <1>6 DEF CreateAccount
  <2>2. reqs[r] \in Request /\ reqs \in [Requests -> Request]
    BY DEF TeamInv, TypeOK
  <2>3. reqs' = [reqs EXCEPT ![r] = [reqs[r] EXCEPT !.pc = "mark"]]
    BY <2>1, <2>2 DEF Goto
  <2>4. reqs'[r].pc = "mark" /\ reqs'[r].op = "accept" /\ reqs'[r].inv = reqs[r].inv
    BY <2>1, <2>2, <2>3 DEF Request
  <2>5. Informed(reqs[r])'
    BY <1>1, <2>1, <2>4 DEF Informed
  <2> QED  BY <1>1, <1>3, <1>4, <2>3, <2>5, SeqStep, InvitesKept
<1> QED  BY <1>5, <1>6

LEMMA MarkAcceptedSeq ==
  ASSUME TeamInv, TeamInv', SeqInv, Sequential, NEW r \in Requests, MarkAccepted(r)
  PROVE  SeqInv'
<1>1. /\ Serving(r) /\ reqs[r].pc = "mark" /\ Finish(r) /\ UNCHANGED <<users, userRoles>>
      /\ faults' \in {faults, faults + 1}
  BY DEF MarkAccepted, Serving
<1>2. CASE UNCHANGED invites
  BY <1>1, <1>2, SeqFinish
<1>3. CASE invites' = [invites EXCEPT ![reqs[r].inv].accepted = TRUE]
  <2>1. reqs[r].op = "accept" /\ reqs[r].inv \in InviteIds
    BY <1>1, Serves DEF RequestOK, StepsOf, Ops
  <2>2. ~invites[reqs[r].inv].revoked
    BY <1>1, <2>1 DEF SeqInv, Informed
  <2>3. \A i \in InviteIds :
          /\ invites'[i].revoked = invites[i].revoked
          /\ invites'[i].email = invites[i].email
          /\ i # reqs[r].inv => invites'[i] = invites[i]
    BY <1>3 DEF TeamInv, TypeOK, Invitation
  <2>4. \A i \in InviteIds : Pending(i)' => Pending(i)
    BY <1>3, <2>1, <2>3 DEF Pending, TeamInv, TypeOK, Invitation
  <2>5. AnswersDiffer'
    BY <2>2, <2>3, <2>4 DEF SeqInv, AnswersDiffer
  <2>6. OwnerLasts' /\ Informed(reqs[r])'
    BY <1>1, OwnerKept, DoneInformed DEF Finish, TeamInv
  <2> QED  BY <1>1, <2>5, <2>6, SeqStep, UsersKept DEF Finish
<1> QED  BY <1>2, <1>3 DEF MarkAccepted

\* A request that is let in while none is served.
LEMMA ArriveSeq ==
  ASSUME TeamInv, TeamInv', SeqInv, Sequential, Sequential', NEW r \in Requests,
         NEW q \in Request, Arrive(r, q),
         q.pc \in {"member", "holds", "asker", "known", "redeem"},
         q.op = "transfer" => q.actor # q.target,
         q.pc = "asker" => q.op # "roles",
         q.op = "accept" => q.pc = "redeem"
  PROVE  SeqInv'
<1>1. \A s \in Requests : ~Serving(s)
  BY DEF Arrive, LetIn, Sequential
<1>2. reqs' = [reqs EXCEPT ![r] = q] /\ UNCHANGED <<users, userRoles, invites, faults>>
  BY DEF Arrive
<1>3. /\ reqs'[r] = q
      /\ \A s \in Requests : s # r => reqs'[s] = reqs[s]
  BY <1>2 DEF TeamInv, TypeOK
<1>4. Alone'
  BY <1>1, <1>3 DEF Alone, Serving
<1>5. OwnerLasts'
  BY <1>1, <1>2, OwnerKept DEF Serving, TeamInv
<1>6. ASSUME NEW s \in Requests PROVE Informed(reqs[s])'
  <2>1. CASE s = r
    BY <1>3, <2>1 DEF Informed
  <2>2. CASE s # r
    <3>1. reqs[s].pc = "idle"
      BY <1>1 DEF Serving
    <3>2. reqs[s].op = "none"
      BY <3>1, Serves DEF RequestOK, StepsOf, Ops
    <3> QED  BY <1>3, <2>2, <3>1, <3>2 DEF Informed
  <2> QED  BY <2>1, <2>2
<1> QED  BY <1>2, <1>4, <1>5, <1>6, UsersKept, InvitesKept DEF SeqInv

LEMMA AskSeq ==
  ASSUME TeamInv, TeamInv', SeqInv, Sequential, Sequential', NEW r \in Requests,
         \/ AskRoles(r) \/ AskRemoval(r) \/ AskTransfer(r) \/ AskInvite(r)
         \/ AskAccept(r) \/ AskJoin(r) \/ AskLeave(r)
  PROVE  SeqInv'
<1>1. ASSUME NEW q, Arrive(r, q) PROVE q = reqs'[r] /\ q \in Request
  BY <1>1 DEF Arrive, TeamInv, TypeOK
<1>2. CASE AskRoles(r)
  <2>1. PICK a, t \in Users, roles \in RoleSets :
          Arrive(r, [NoRequest EXCEPT !.pc = "member", !.op = "roles",
                       !.actor = a, !.target = t, !.roles = roles])
    BY <1>2 DEF AskRoles
  <2> DEFINE q == [NoRequest EXCEPT !.pc = "member", !.op = "roles",
                     !.actor = a, !.target = t, !.roles = roles]
  <2>2. q.pc = "member" /\ q.op = "roles"
    BY DEF NoRequest
  <2> QED  BY <1>1, <2>1, <2>2, ArriveSeq
<1>3. CASE AskRemoval(r)
  <2>1. PICK a, t \in Users :
          Arrive(r, [NoRequest EXCEPT !.pc = "member", !.op = "remove",
                       !.actor = a, !.target = t])
    BY <1>3 DEF AskRemoval
  <2> DEFINE q == [NoRequest EXCEPT !.pc = "member", !.op = "remove",
                     !.actor = a, !.target = t]
  <2>2. q.pc = "member" /\ q.op = "remove"
    BY DEF NoRequest
  <2> QED  BY <1>1, <2>1, <2>2, ArriveSeq
<1>4. CASE AskTransfer(r)
  <2>1. PICK a, t \in Users :
          a # t /\ Arrive(r, [NoRequest EXCEPT !.pc = "holds", !.op = "transfer",
                                !.actor = a, !.target = t])
    BY <1>4 DEF AskTransfer
  <2> DEFINE q == [NoRequest EXCEPT !.pc = "holds", !.op = "transfer",
                     !.actor = a, !.target = t]
  <2>2. q.pc = "holds" /\ q.op = "transfer" /\ q.actor # q.target
    BY <2>1 DEF NoRequest
  <2> QED  BY <1>1, <2>1, <2>2, ArriveSeq
<1>5. CASE AskInvite(r)
  <2>1. PICK a \in Users, e \in Emails, role \in Roles :
          Arrive(r, [NoRequest EXCEPT !.op = "invite", !.actor = a, !.email = e,
                       !.roles = {role},
                       !.pc = IF role = "Owner" THEN "asker" ELSE "known"])
    BY <1>5 DEF AskInvite
  <2> DEFINE q == [NoRequest EXCEPT !.op = "invite", !.actor = a, !.email = e,
                     !.roles = {role},
                     !.pc = IF role = "Owner" THEN "asker" ELSE "known"]
  <2>2. q.pc \in {"asker", "known"} /\ q.op = "invite"
    BY DEF NoRequest
  <2> QED  BY <1>1, <2>1, <2>2, ArriveSeq
<1>6. CASE AskAccept(r)
  <2>1. PICK i \in InviteIds :
          Arrive(r, [NoRequest EXCEPT !.pc = "redeem", !.op = "accept", !.inv = i])
    BY <1>6 DEF AskAccept
  <2> DEFINE q == [NoRequest EXCEPT !.pc = "redeem", !.op = "accept", !.inv = i]
  <2>2. q.pc = "redeem" /\ q.op = "accept"
    BY DEF NoRequest
  <2> QED  BY <1>1, <2>1, <2>2, ArriveSeq
<1>7. CASE AskJoin(r)
  <2>1. PICK e \in Emails :
          Arrive(r, [NoRequest EXCEPT !.pc = "known", !.op = "join", !.email = e,
                       !.roles = {"Member"}])
    BY <1>7 DEF AskJoin
  <2> DEFINE q == [NoRequest EXCEPT !.pc = "known", !.op = "join", !.email = e,
                     !.roles = {"Member"}]
  <2>2. q.pc = "known" /\ q.op = "join"
    BY DEF NoRequest
  <2> QED  BY <1>1, <2>1, <2>2, ArriveSeq
<1>8. CASE AskLeave(r)
  <2>1. PICK u \in Users :
          Arrive(r, [NoRequest EXCEPT !.pc = "holds", !.op = "leave", !.actor = u])
    BY <1>8 DEF AskLeave
  <2> DEFINE q == [NoRequest EXCEPT !.pc = "holds", !.op = "leave", !.actor = u]
  <2>2. q.pc = "holds" /\ q.op = "leave"
    BY DEF NoRequest
  <2> QED  BY <1>1, <2>1, <2>2, ArriveSeq
<1> QED  BY <1>2, <1>3, <1>4, <1>5, <1>6, <1>7, <1>8

\* Nobody revokes an invitation while a request is served; that one expires only
\* makes it one less that can be accepted.
LEMMA InviteSeq ==
  ASSUME TeamInv, TeamInv', SeqInv, Sequential, Sequential', NEW i \in InviteIds,
         RevokeInvitation(i) \/ InvitationExpires(i)
  PROVE  SeqInv'
<1>1. UNCHANGED <<users, userRoles, reqs, faults>>
  BY DEF RevokeInvitation, InvitationExpires
<1>2. Alone' /\ OwnerLasts' /\ EmailsDiffer'
  BY <1>1, UsersKept DEF SeqInv, Alone, Serving, OwnerLasts, SomeOwner, HasRole
<1>3. CASE RevokeInvitation(i)
  <2>1. invites' = [invites EXCEPT ![i].revoked = TRUE] /\ ~invites[i].accepted
    BY <1>3 DEF RevokeInvitation
  <2>2. \A j \in InviteIds :
          /\ invites'[j].accepted = invites[j].accepted
          /\ invites'[j].email = invites[j].email
          /\ j # i => invites'[j] = invites[j]
          /\ Pending(j)' => Pending(j)
    BY <2>1 DEF TeamInv, TypeOK, Invitation, Pending
  <2>3. AnswersDiffer'
    BY <2>1, <2>2 DEF SeqInv, AnswersDiffer
  <2>4. \A s \in Requests : reqs[s].pc = "idle"
    BY <1>3 DEF RevokeInvitation, LetIn, Sequential, Serving
  <2>5. \A s \in Requests : reqs[s].op = "none"
    BY <2>4, Serves DEF RequestOK, StepsOf, Ops
  <2>6. \A s \in Requests : Informed(reqs[s])'
    BY <1>1, <2>4, <2>5 DEF Informed
  <2> QED  BY <1>2, <2>3, <2>6 DEF SeqInv
<1>4. CASE InvitationExpires(i)
  <2>1. invites' = [invites EXCEPT ![i].expired = TRUE]
    BY <1>4 DEF InvitationExpires
  <2>2. \A j \in InviteIds :
          /\ invites'[j].accepted = invites[j].accepted
          /\ invites'[j].revoked = invites[j].revoked
          /\ invites'[j].email = invites[j].email
          /\ Pending(j)' => Pending(j)
    BY <2>1 DEF TeamInv, TypeOK, Invitation, Pending
  <2>3. AnswersDiffer'
    BY <2>2 DEF SeqInv, AnswersDiffer
  <2>4. ASSUME NEW s \in Requests PROVE Informed(reqs[s])'
    <3>1. Informed(reqs[s]) /\ RequestOK(reqs[s])
      BY Serves DEF SeqInv
    <3>2. reqs[s].op = "accept" => reqs[s].inv \in InviteIds
      BY <3>1 DEF RequestOK
    <3> QED  BY <1>1, <2>2, <3>1, <3>2 DEF Informed, HasRole, EmailKnown, Live
  <2> QED  BY <1>2, <2>3, <2>4 DEF SeqInv
<1> QED  BY <1>3, <1>4

LEMMA InitSeqInv == Init => SeqInv
<1> SUFFICES ASSUME Init PROVE SeqInv
  OBVIOUS
<1>1. \A r \in Requests : reqs[r] = NoRequest
  BY DEF Init
<1>2. Alone /\ \A r \in Requests : Informed(reqs[r])
  BY <1>1 DEF Alone, Serving, Informed, NoRequest
<1>3. OwnerLasts
  BY NameAssumption DEF Init, OwnerLasts, SomeOwner, HasRole
<1>4. EmailsDiffer
  BY DEF Init, EmailsDiffer, Live, NobodyYet
<1>5. AnswersDiffer
  BY DEF Init, AnswersDiffer, Pending, Unsent
<1> QED  BY <1>2, <1>3, <1>4, <1>5 DEF SeqInv

LEMMA NextSeqInv == TeamInv /\ SeqInv /\ [Next]_vars => SeqInv'
<1> SUFFICES ASSUME TeamInv, SeqInv, [Next]_vars, Sequential' PROVE SeqInv'
  BY DEF SeqInv
<1>1. TeamInv'
  BY NextInv
<1>2. ASSUME NEW r \in Requests, Serve(r) PROVE SeqInv'
  <2>1. Sequential /\ ~KnownEmailFails(r) /\ ~FindActiveFails(r)
    <3>1. overlapped' = overlapped \/ LetIn(reqs'[r].op)
      BY <1>2 DEF Serve, AskRoles, AskRemoval, AskTransfer, AskInvite, AskAccept, AskJoin,
           AskLeave, Arrive, ReadMember, CountOwners, RequesterIsOwner, DeleteRoles,
           InsertRole, RemoveUser, HoldsOwner, FindTarget, Transfer, CountMembers,
           DeleteUser, DeleteOrg, KnownEmail, FindActive, SendInvitation,
           FindPendingByToken, CreateAccount, MarkAccepted, Abort, TeamInv, TypeOK,
           KnownEmailFails, FindActiveFails
    <3>2. blind' = blind \/ blind' = TRUE
      BY <1>2 DEF Serve, AskRoles, AskRemoval, AskTransfer, AskInvite, AskAccept, AskJoin,
           AskLeave, Arrive, ReadMember, CountOwners, RequesterIsOwner, DeleteRoles,
           InsertRole, RemoveUser, HoldsOwner, FindTarget, Transfer, CountMembers,
           DeleteUser, DeleteOrg, KnownEmail, FindActive, SendInvitation,
           FindPendingByToken, CreateAccount, MarkAccepted, Abort,
           KnownEmailFails, FindActiveFails
    <3>3. ~overlapped
      BY <3>1 DEF Sequential, LetIn
    <3>4. ~blind /\ blind' # TRUE
      <4>1. ~blind'
        BY DEF Sequential
      <4>2. blind' # TRUE
        BY <4>1, Zenon
      <4>3. blind' = blind
        BY <3>2, <4>2
      <4> QED  BY <4>1, <4>2, <4>3
    <3> QED  BY <3>3, <3>4 DEF Sequential, KnownEmailFails, FindActiveFails
  <2> QED
    BY <1>1, <1>2, <2>1, AskSeq, ReadMemberSeq, CountOwnersSeq, RequesterSeq,
       DeleteRolesSeq, InsertRoleSeq, RemoveUserSeq, HoldsOwnerSeq, FindTargetSeq,
       TransferSeq, CountMembersSeq, DeleteUserSeq, DeleteOrgSeq, KnownEmailSeq,
       FindActiveSeq, SendInvitationSeq, FindPendingSeq, CreateAccountSeq, MarkAcceptedSeq,
       AbortSeq
       DEF Serve
<1>3. ASSUME NEW i \in InviteIds, RevokeInvitation(i) \/ InvitationExpires(i)
      PROVE  SeqInv'
  <2>1. Sequential
    <3>1. blind' = blind
      BY <1>3 DEF RevokeInvitation, InvitationExpires
    <3>2. ASSUME overlapped PROVE overlapped'
      <4>1. CASE RevokeInvitation(i)
        BY <3>2, <4>1, Zenon DEF RevokeInvitation, LetIn
      <4>2. CASE InvitationExpires(i)
        BY <3>2, <4>2, Zenon DEF InvitationExpires
      <4> QED  BY <1>3, <4>1, <4>2
    <3> QED  BY <3>1, <3>2 DEF Sequential
  <2> QED  BY <1>1, <1>3, <2>1, InviteSeq
<1>4. CASE UNCHANGED vars
  BY <1>4 DEF vars, SeqInv, Sequential, Alone, Serving, OwnerLasts, SomeOwner, HasRole,
       EmailsDiffer, Live, AnswersDiffer, Pending, Informed, EmailKnown
<1> QED  BY <1>2, <1>3, <1>4 DEF Next

LEMMA SeqInvariant == Spec => [](TeamInv /\ SeqInv)
<1>1. Init => TeamInv /\ SeqInv
  BY InitInv, InitSeqInv
<1>2. TeamInv /\ SeqInv /\ [Next]_vars => (TeamInv /\ SeqInv)'
  BY NextInv, NextSeqInv
<1> QED  BY <1>1, <1>2, PTL DEF Spec

\* Role changes, removals, transfers, invitations and deletions that do not overlap
\* leave an Owner row, for any number of members and requests: UpdateMemberRole
\* clears the roles of an owner only if it gives Owner back or another has it, and
\* TransferOwnership gives Owner to another before it takes it.
THEOREM OwnersLast == Spec => []OwnerRowStays
<1>1. TeamInv /\ SeqInv => OwnerRowStays
  BY DEF SeqInv, Sequential, OwnerRowStays, Quiet, InTurn, OwnerLasts, SomeOwner, Serving,
       TeamInv, TypeOK
<1> QED  BY <1>1, SeqInvariant, PTL

\* Joining, inviting, accepting, leaving and coming back make no second live
\* account with one e-mail, as long as requests do not overlap and the lookup of
\* the e-mail does not fail; that other statements fail, or a request dies, is no
\* exception.
THEOREM AccountsDiffer == Spec => []OneAccountPerEmail
<1>1. SeqInv => OneAccountPerEmail
  BY DEF SeqInv, Sequential, OneAccountPerEmail, InTurn, EmailsDiffer
<1> QED  BY <1>1, SeqInvariant, PTL

\* No invitation ends both accepted and revoked, and one at most to an e-mail can be
\* accepted, as long as requests do not overlap and no lookup that fails counts as
\* nothing found.
THEOREM InvitationsEndOneWay == Spec => []InvitationsSettle
<1>1. SeqInv => InvitationsSettle
  BY DEF SeqInv, Sequential, InvitationsSettle, InTurn, AnswersDiffer
<1> QED  BY <1>1, SeqInvariant, PTL
=============================================================================
