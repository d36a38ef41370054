-------------------------------- MODULE Access --------------------------------
(***************************************************************************)
(* A request passes the chain of middleware while the roles of its user    *)
(* change.  Two programs read its path: the router takes the first         *)
(* registered route that matches, and the guard the entry of its own table *)
(* that matches with the fewest parameters.  Nothing but agreement of the  *)
(* two tables (Routes) makes them mean the same endpoint.                  *)
(***************************************************************************)
EXTENDS Routes

CONSTANT MaxGrants  \* bound on the changes of roles

VARIABLES
  roles,   \* the roles of the user
  grants,  \* how often they have changed
  req      \* the request being handled

vars == <<roles, grants, req>>

NoCall == <<"GET", <<>> >>
Idle == [pc |-> "idle", call |-> NoCall, token |-> FALSE, foreign |-> FALSE, route |-> 0, entry |-> <<>>]

TypeOK ==
  /\ roles \subseteq ToSet(Roles)
  /\ grants \in 0 .. MaxGrants
  /\ req \in [pc : {"idle", "auth", "origin", "guard", "roles", "handler", "401", "403", "404", "unclassified"},
              call : Calls \cup {NoCall}, token : BOOLEAN, foreign : BOOLEAN,
              route : 0 .. Len(Registered), entry : routePermissions \cup {<<>>}]

Init == roles = {"Guest"} /\ grants = 0 /\ req = Idle

Goto(pc) == req' = [req EXCEPT !.pc = pc] /\ UNCHANGED <<roles, grants>>

\* TeamHandler.UpdateMemberRole replaces the roles of a member.
SetRoles(r) ==
  /\ grants < MaxGrants
  /\ roles' = {r} /\ grants' = grants + 1
  /\ UNCHANGED req

\* A request comes, with a valid token or without one, and from a page of another
\* origin (foreign) or not.
Arrive(c, token, foreign) ==
  /\ req.pc = "idle"
  /\ LET i == Dispatched(c[1], c[2]) IN
       req' = [pc |-> CASE i = 0 -> "404" [] i # 0 /\ Guarded(i) -> "auth" [] OTHER -> "handler",
               call |-> c, token |-> token, foreign |-> foreign, route |-> i, entry |-> <<>>]
  /\ UNCHANGED <<roles, grants>>
\* AuthMiddleware.authenticate; TenantMiddleware takes the organization from the token.
Authenticate == req.pc = "auth" /\ Goto(IF req.token THEN "origin" ELSE "401")
\* ValidateOrigin: it is looked at where something may change.
Changing == {"POST", "PUT", "PATCH", "DELETE"}
ValidateOrigin ==
  req.pc = "origin" /\ Goto(IF req.foreign /\ req.call[1] \in Changing THEN "403" ELSE "guard")
\* RouteGuard.Handle.
Guard ==
  /\ req.pc = "guard"
  /\ LET found == lookupPermission(req.call[1], req.call[2]) IN
       \/ found = {} /\ req' = [req EXCEPT !.pc = "unclassified"]
       \/ \E e \in found :
            req' = [req EXCEPT !.pc = IF e[3] = authOnly THEN "handler" ELSE "roles", !.entry = e]
  /\ UNCHANGED <<roles, grants>>
\* RBACMiddleware.Require, with the roles of now.
satisfiesAll(S, perm) == \E r \in S : PermAll \subseteq PermsOf(r) \/ perm \in PermsOf(r)
Require == req.pc = "roles" /\ Goto(IF satisfiesAll(roles, req.entry[3]) THEN "handler" ELSE "403")
Answer == req.pc \notin {"idle", "auth", "origin", "guard", "roles"} /\ req' = Idle /\ UNCHANGED <<roles, grants>>

Next ==
  \/ \E r \in ToSet(Roles) : SetRoles(r)
  \/ \E c \in Calls, token, foreign \in BOOLEAN : Arrive(c, token, foreign)
  \/ Authenticate \/ ValidateOrigin \/ Guard \/ Require \/ Answer

Spec == Init /\ [][Next]_vars

-----------------------------------------------------------------------------
(* Properties.                                                             *)

\* The entry that the guard reads is that of the route whose handler runs, for
\* every path, those that fit several patterns included, and in whatever order
\* the entries of the table come.
GuardReadsTheRoute ==
  req.entry # <<>> => <<req.entry[1], req.entry[2]>> = Registered[req.route]

\* No registered route is refused to everybody, and one of the public routes
\* answers whoever has no token: what a browser or another service calls.
RoutesAreReachable ==
  /\ req.pc \notin {"404", "unclassified"}
  /\ req.pc = "401" => Registered[req.route] \notin publicAPIRoutes

\* A role may do what the roles below it may: a promotion takes nothing away.
PromotionsOnlyAdd ==
  req.pc = "roles" =>
    \A i, j \in DOMAIN Roles :
      i < j /\ satisfiesAll({Roles[i]}, req.entry[3]) => satisfiesAll({Roles[j]}, req.entry[3])
===============================================================================
