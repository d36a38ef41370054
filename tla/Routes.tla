-------------------------------- MODULE Routes ---------------------------------
(***************************************************************************)
(* The tables that decide who may call what: the routes of the API in the  *)
(* order in which router.Setup registers them, RouteGuard's table of the   *)
(* permission that each needs, the permissions of the five roles, and how  *)
(* the router and the guard match a path.  A path is the tuple of its      *)
(* parts after /api/v1, "*" a parameter.                                   *)
(***************************************************************************)
EXTENDS Naturals, Sequences, SequencesExt, FiniteSets

-----------------------------------------------------------------------------
(* router.Setup.                                                           *)

R(m, p) == <<m, p>>
Crud(r) == << R("GET", <<r>>), R("POST", <<r>>), R("GET", <<r, "*">>), R("PATCH", <<r, "*">>),
              R("DELETE", <<r, "*">>) >>
Posts(a, S) == [i \in DOMAIN S |-> R("POST", <<a, S[i]>>)]
Gets(a, S) == [i \in DOMAIN S |-> R("GET", <<a, S[i]>>)]

\* Registered before the protected group, and so without its middleware,
SignIn ==
  Posts("auth", <<"register", "join", "login", "refresh">>) \o Posts("invitations", <<"accept">>)
    \o << R("GET", <<"auth", "organizations", "lookup">>) >>
    \o Posts("auth", <<"verify-email", "resend-verification", "forgot-password", "reset-password">>)
    \o << R("POST", <<"auth", "mfa", "verify-login">>) >>
CalledBack ==
  << R("GET", <<"integrations", "oauth", "callback">>),
     R("GET", <<"integrations", "*", "oauth", "start">>),
     R("POST", <<"integrations", "notion", "webhook">>), R("POST", <<"webhooks", "zapier", "*">>) >>
\* and after it.
Self ==
  Posts("auth", <<"logout">>) \o Gets("auth", <<"me", "sessions">>)
    \o << R("POST", <<"auth", "mfa", "enroll">>), R("POST", <<"auth", "mfa", "confirm">>),
          R("POST", <<"auth", "mfa", "disable">>), R("DELETE", <<"auth", "sessions", "*">>),
          R("POST", <<"auth", "sessions", "revoke-all">>),
          R("GET", <<"organizations", "current">>), R("PATCH", <<"organizations", "current">>),
          R("POST", <<"organizations", "current", "transfer-ownership">>),
          R("PATCH", <<"profile">>), R("POST", <<"profile", "password">>),
          R("POST", <<"profile", "delete">>), R("GET", <<"onboarding", "state">>),
          R("PATCH", <<"onboarding", "state">>), R("POST", <<"onboarding", "complete">>) >>
Records ==
  Crud("companies") \o Crud("campaigns") \o Crud("sponsors")
    \o << R("PATCH", <<"sponsors", "*", "stage">>) >> \o Crud("contacts")
    \o << R("GET", <<"activities">>), R("POST", <<"activities">>) >>
    \o Crud("sequences") \o << R("POST", <<"sequences", "*", "enroll">>) >>
\* The literal path of a resource before its parameter: proposals/generate, ...
\* Mutant: the parameter first.
Literals_Last(r, S) == Crud(r) \o S
Literals(r, S) == SubSeq(Crud(r), 1, 1) \o S \o SubSeq(Crud(r), 2, 5)
Connected ==
  Literals("proposals", Posts("proposals", <<"generate">>))
    \o Literals("integrations", Gets("integrations", <<"dashboard">>)
         \o << R("GET", <<"integrations", "sync", "conflicts">>),
               R("GET", <<"integrations", "sync", "activity">>),
               R("GET", <<"integrations", "zapier", "apps">>) >>)
    \o [i \in 1 .. 4 |-> R("POST", <<"integrations", "*",
                                     <<"revoke", "sync", "connect", "webhook-token">>[i]>>)]
    \o << R("PATCH", <<"integrations", "notion", "pages", "*">>),
          R("POST", <<"integrations", "rotate-credentials">>), R("POST", <<"companies", "dedupe">>) >>
    \o Crud("automations") \o << R("PATCH", <<"automations", "*", "toggle">>) >>
    \o Crud("webhooks") \o << R("POST", <<"webhooks", "*", "rotate-secret">>),
                              R("POST", <<"webhooks", "*", "test">>),
                              R("GET", <<"webhooks", "*", "deliveries">>) >>
    \o Literals("communications", Gets("communications", <<"stats">>))
    \o Gets("analytics", <<"dashboard", "pipeline", "activity", "timeseries", "funnel", "velocity">>)
    \o << R("GET", <<"analytics", "export", "sponsors">>), R("GET", <<"analytics", "export", "campaigns">>) >>
Assistant ==
  Posts("ai", <<"query", "outcomes", "feedback", "preferences">>)
    \o Gets("ai", <<"agents", "outcomes", "preferences">>)
    \o << R("POST", <<"onboarding", "discovery", "run">>), R("POST", <<"onboarding", "discovery", "select">>),
          R("POST", <<"onboarding", "goals", "recommend">>), R("POST", <<"onboarding", "goals", "plan">>),
          R("POST", <<"onboarding", "goals", "approve">>), R("GET", <<"knowledge", "nodes", "*", "neighbors">>) >>
    \o Gets("knowledge", <<"search", "memories">>) \o Posts("knowledge", <<"memories", "nodes", "edges">>)
Office ==
  Posts("files", <<"upload">>) \o << R("DELETE", <<"files">>), R("GET", <<"search">>) >>
    \o Posts("import", <<"companies", "contacts", "sponsors">>)
    \o [i \in 1 .. 6 |-> R("POST", << <<"sponsors", "companies", "contacts">>[((i + 1) \div 2)], "batch",
                                      IF i % 2 = 1 THEN "update" ELSE "delete" >>)]
    \o Gets("team", <<"members", "roles", "invitations">>) \o Posts("team", <<"members">>)
    \o << R("PATCH", <<"team", "members", "*", "roles">>), R("DELETE", <<"team", "members", "*">>),
          R("DELETE", <<"team", "invitations", "*">>) >>
    \o Posts("emails", <<"send", "send-direct", "send-template">>)
    \o << R("GET", <<"events">>), R("GET", <<"notifications">>), R("GET", <<"notifications", "count">>),
          R("POST", <<"notifications", "read-all">>), R("PATCH", <<"notifications", "*", "read">>),
          R("DELETE", <<"notifications", "*">>), R("GET", <<"notifications", "preferences">>),
          R("PUT", <<"notifications", "preferences">>) >>

\* Mutant: the calls that come without a token are registered last.
Registered_Last == SignIn \o Self \o Records \o Connected \o Assistant \o Office \o CalledBack
Registered == SignIn \o CalledBack \o Self \o Records \o Connected \o Assistant \o Office
\* The group's middleware runs for what is registered after it.
Guarded(i) == \E j \in 1 .. i : Registered[j] = Self[1]
-----------------------------------------------------------------------------
(* routePermissions: sets of <<method, path, permission>>.                 *)

authOnly == <<"any", "any">>
Each(m, a, S, perm) == {<<m, <<a, s>>, perm>> : s \in S}
CrudPermissions(r, area) ==
  {<<"GET", <<r>>, <<area, "read">> >>, <<"POST", <<r>>, <<area, "write">> >>,
   <<"GET", <<r, "*">>, <<area, "read">> >>, <<"PATCH", <<r, "*">>, <<area, "write">> >>,
   <<"DELETE", <<r, "*">>, <<area, "delete">> >>}
SelfPermissions ==
  {<<"POST", <<"auth", "logout">>, authOnly>>, <<"GET", <<"auth", "me">>, authOnly>>,
   <<"GET", <<"auth", "sessions">>, authOnly>>, <<"DELETE", <<"auth", "sessions", "*">>, authOnly>>,
   <<"POST", <<"auth", "sessions", "revoke-all">>, authOnly>>,
   <<"GET", <<"organizations", "current">>, <<"settings", "read">> >>,
   <<"PATCH", <<"organizations", "current">>, <<"settings", "write">> >>,
   <<"POST", <<"organizations", "current", "transfer-ownership">>, <<"settings", "write">> >>,
   <<"PATCH", <<"profile">>, authOnly>>}
    \cup {<<"POST", <<"auth", "mfa", s>>, authOnly>> : s \in {"enroll", "confirm", "disable"}}
    \cup Each("POST", "profile", {"password", "delete"}, authOnly)
    \cup Each("GET", "onboarding", {"state"}, authOnly)
    \cup Each("PATCH", "onboarding", {"state"}, authOnly)
    \cup Each("POST", "onboarding", {"complete"}, authOnly)
\* Mutant: a route was added to the router and not here.
RecordPermissions_NoStage ==
  UNION {CrudPermissions(r, r) : r \in {"companies", "campaigns", "sponsors", "contacts"}}
    \cup CrudPermissions("sequences", "outreach")
RecordPermissions ==
  UNION {CrudPermissions(r, r) : r \in {"companies", "campaigns", "sponsors", "contacts"}}
    \cup {<<"POST", <<r, "batch", "update">>, <<r, "write">> >> : r \in {"companies", "sponsors", "contacts"}}
    \cup {<<"POST", <<r, "batch", "delete">>, <<r, "delete">> >> : r \in {"companies", "sponsors", "contacts"}}
    \cup {<<"POST", <<"companies", "dedupe">>, <<"companies", "write">> >>,
          <<"PATCH", <<"sponsors", "*", "stage">>, <<"sponsors", "write">> >>,
          <<"GET", <<"activities">>, <<"activities", "read">> >>,
          <<"POST", <<"activities">>, <<"activities", "write">> >>,
          <<"POST", <<"sequences", "*", "enroll">>, <<"outreach", "write">> >>}
    \cup CrudPermissions("sequences", "outreach") \cup CrudPermissions("proposals", "proposals")
    \cup Each("POST", "proposals", {"generate"}, <<"proposals", "generate">>)
ConnectedPermissions ==
  UNION {CrudPermissions(r, r) : r \in {"integrations", "automations", "webhooks", "communications"}}
    \cup Each("GET", "integrations", {"dashboard"}, <<"integrations", "read">>)
    \cup {<<"GET", <<"integrations", "sync", s>>, <<"integrations", "read">> >> : s \in {"conflicts", "activity"}}
    \cup {<<"POST", <<"integrations", "*", s>>, <<"integrations", "write">> >> :
            s \in {"revoke", "sync", "connect", "webhook-token"}}
    \cup {<<"GET", <<"integrations", "zapier", "apps">>, <<"integrations", "read">> >>,
          <<"PATCH", <<"integrations", "notion", "pages", "*">>, <<"integrations", "write">> >>,
          <<"POST", <<"integrations", "rotate-credentials">>, <<"integrations", "write">> >>,
          <<"PATCH", <<"automations", "*", "toggle">>, <<"automations", "write">> >>,
          <<"POST", <<"webhooks", "*", "rotate-secret">>, <<"webhooks", "write">> >>,
          <<"POST", <<"webhooks", "*", "test">>, <<"webhooks", "write">> >>,
          <<"GET", <<"webhooks", "*", "deliveries">>, <<"webhooks", "read">> >>,
          <<"GET", <<"communications", "stats">>, <<"communications", "read">> >>}
    \cup Each("GET", "analytics", {"dashboard", "pipeline", "activity", "timeseries", "funnel", "velocity"},
              <<"analytics", "read">>)
    \cup {<<"GET", <<"analytics", "export", s>>, <<"analytics", "read">> >> : s \in {"sponsors", "campaigns"}}
AssistantPermissions ==
  Each("POST", "ai", {"query", "outcomes", "feedback", "preferences"}, <<"ai", "query">>)
    \cup Each("GET", "ai", {"agents", "outcomes", "preferences"}, <<"ai", "query">>)
    \cup {<<"POST", <<"onboarding", "discovery", s>>, <<"ai", "query">> >> : s \in {"run", "select"}}
    \cup {<<"POST", <<"onboarding", "goals", s>>, <<"ai", "query">> >> : s \in {"recommend", "plan", "approve"}}
    \cup Each("GET", "knowledge", {"search", "memories"}, <<"knowledge", "read">>)
    \cup Each("POST", "knowledge", {"memories", "nodes", "edges"}, <<"knowledge", "write">>)
    \cup {<<"GET", <<"knowledge", "nodes", "*", "neighbors">>, <<"knowledge", "read">> >>}
OfficePermissions ==
  {<<"POST", <<"files", "upload">>, <<"files", "upload">> >>, <<"DELETE", <<"files">>, <<"files", "delete">> >>,
   <<"GET", <<"search">>, authOnly>>, <<"GET", <<"events">>, authOnly>>,
   <<"GET", <<"notifications">>, authOnly>>, <<"DELETE", <<"notifications", "*">>, authOnly>>,
   <<"PATCH", <<"notifications", "*", "read">>, authOnly>>,
   <<"PATCH", <<"team", "members", "*", "roles">>, <<"team", "manage">> >>}
    \cup Each("POST", "import", {"companies", "contacts", "sponsors"}, <<"imports", "write">>)
    \cup Each("GET", "team", {"members", "roles", "invitations"}, <<"team", "read">>)
    \cup Each("POST", "team", {"members"}, <<"team", "manage">>)
    \cup {<<"DELETE", <<"team", s, "*">>, <<"team", "manage">> >> : s \in {"members", "invitations"}}
    \cup Each("POST", "emails", {"send", "send-direct", "send-template"}, <<"emails", "send">>)
    \cup Each("GET", "notifications", {"count", "preferences"}, authOnly)
    \cup Each("POST", "notifications", {"read-all"}, authOnly)
    \cup Each("PUT", "notifications", {"preferences"}, authOnly)
routePermissions == SelfPermissions \cup RecordPermissions \cup ConnectedPermissions
                      \cup AssistantPermissions \cup OfficePermissions

-----------------------------------------------------------------------------
(* The permissions of the roles.                                           *)

Read(S) == S \X {"read"}
Write(S) == S \X {"read", "write"}
Whole(S) == S \X {"read", "write", "delete"}
Core == {"campaigns", "sponsors", "companies", "contacts"}
Guest == Read(Core \cup {"notifications"})
Viewer == Read(Core \cup {"proposals", "analytics", "settings", "activities", "communications", "knowledge",
                          "notifications", "files"})
\* Mutant: files that a viewer sees are left out.
Member_NoFiles == Write(Core) \cup {<<"ai", "query">>}
Member ==
  Write(Core \cup {"proposals", "outreach", "activities", "communications", "knowledge", "notifications"})
    \cup Read({"automations", "integrations", "webhooks", "analytics", "settings", "team", "files"})
    \cup {<<"proposals", "generate">>, <<"ai", "query">>, <<"files", "upload">>, <<"imports", "write">>,
          <<"emails", "send">>}
Manager ==
  Member \cup Whole(Core \cup {"proposals", "outreach"}) \cup {<<"automations", "write">>, <<"team", "manage">>}
PermAll == {<<"*", "*">>}
Roles == <<"Guest", "Viewer", "Member", "Manager", "Admin">>
PermsOf(r) == CASE r = "Guest" -> Guest [] r = "Viewer" -> Viewer [] r = "Member" -> Member
                [] r = "Manager" -> Manager [] OTHER -> PermAll

\* publicAPIRoutes.  What is in neither table is logged when the API starts.
publicAPIRoutes ==
  {R("POST", <<"auth", s>>) : s \in {"register", "join", "login", "refresh", "verify-email",
       "resend-verification", "forgot-password", "reset-password"}}
    \cup {R("GET", <<"auth", "organizations", "lookup">>), R("POST", <<"auth", "mfa", "verify-login">>),
          R("POST", <<"invitations", "accept">>), R("GET", <<"integrations", "oauth", "callback">>),
          R("GET", <<"integrations", "*", "oauth", "start">>), R("POST", <<"integrations", "notion", "webhook">>)}
verifyRouteGuardCoverage ==
  {r \in ToSet(Registered) \ publicAPIRoutes : \A e \in routePermissions : <<e[1], e[2]>> # r}

-----------------------------------------------------------------------------
(* Matching.                                                               *)

PathFits(p, q) == Len(p) = Len(q) /\ \A i \in DOMAIN p : p[i] = "*" \/ p[i] = q[i]
Params(p) == Cardinality({i \in DOMAIN p : p[i] = "*"})

\* The router: the first that matches, or 0.
Dispatched(m, q) ==
  SelectInSeq(Registered, LAMBDA r : r[1] = m /\ PathFits(r[2], q))
\* lookupPermission: entries of equal length keep the random order of a Go map.
\* Mutant: without the sort.
lookupPermission_Any(m, q) == {e \in routePermissions : e[1] = m /\ PathFits(e[2], q)}
lookupPermission(m, q) ==
  LET found == {e \in routePermissions : e[1] = m /\ PathFits(e[2], q)}
  IN {e \in found : \A f \in found : Params(e[2]) <= Params(f[2])}

\* Paths to call: a parameter is an id, or what another route has there.
Words(p, i) == IF p[i] # "*" THEN {p[i]}
               ELSE {"id"} \cup ({r[2][i] : r \in {q \in ToSet(Registered) :
                                     Len(q[2]) >= i /\ q[2][1] = p[1]}} \ {"*"})
PathsOf(p) == {q \in [DOMAIN p -> UNION {Words(p, i) : i \in DOMAIN p}] :
                 \A i \in DOMAIN p : q[i] \in Words(p, i)}
Methods == {"GET", "POST", "PUT", "PATCH", "DELETE"}
Calls == UNION {{<<r[1], q>> : q \in PathsOf(r[2])} : r \in ToSet(Registered)}
=================================================================================
