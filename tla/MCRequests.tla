----------------------------- MODULE MCRequests ------------------------------
(***************************************************************************)
(* Components that share no state, side by side: a behaviour belongs to    *)
(* one of them, and part says to which.  Contacts has its own variables;   *)
(* the others take turns with the nine of shared, in the order in which    *)
(* their modules declare theirs, and what nobody needs is None.            *)
(*                                                                         *)
(* Connections comes in three sizes: two organizations under one key, one  *)
(* organization with a webhook URL, and one while keys change.             *)
(***************************************************************************)
EXTENDS Contacts, Routes, TLC

VARIABLES part, s1, s2, s3, s4, s5, s6, s7, s8, s9

\* Two spellings of one name.
NormDef == ("acme" :> "acme") @@ ("acme inc" :> "acme") @@ ("acme.com" :> "acme.com")
ZapierDef == [e \in {"e1"} |-> [key |-> "ann", name |-> "acme"]]
InputsDef == {[kind |-> "provider", key |-> "ann", name |-> None, dom |-> None],
              [kind |-> "maker", key |-> "ceo", name |-> "acme", dom |-> "acme.com"],
              [kind |-> "sponsor", key |-> None, name |-> "acme", dom |-> None],
              [kind |-> "import", key |-> "ann", name |-> "acme inc", dom |-> None]}
Two == << [NoCompany EXCEPT !.st = "live", !.name = "acme inc"],
          [NoCompany EXCEPT !.st = "live", !.name = "acme", !.rich = TRUE] >>

GivenDef == {Two, [c \in CompanyIds |-> NoCompany]}

Accounts == INSTANCE Accounts WITH
  Codes <- {"c1"}, MaxFailed <- 2, MaxSessions <- 3, MaxTokens <- 2,
  user <- s1, session <- s2, token <- s3, tickets <- s4, expired <- s5, job <- s6, past <- s7
Access == INSTANCE Access WITH
  MaxGrants <- 2,
  roles <- s1, grants <- s2, req <- s3
Gateway == INSTANCE Gateway WITH
  Keys <- {"k"}, Clients <- {"ws"}, Limit <- 1, Burst <- 1, BufferSize <- 1, BroadcastSize <- 1,
  MaxRequests <- 2,
  counter <- s1, record <- s2, lock <- s3, req <- s4, broadcast <- s5, client <- s6, leaving <- s7,
  past <- s8
Flows == INSTANCE Connections WITH
  Orgs <- {1, 2}, Procs <- Workers, RowIds <- {1, 2}, MaxFlows <- 2, MaxTokens <- 0, MaxKeys <- 1,
  env <- s1, target <- s2, rotated <- s3, flow <- s4, row <- s5, op <- s6, given <- s7,
  mixed <- s8, refused <- s9
Urls == INSTANCE Connections WITH
  Orgs <- {1}, Procs <- Workers, RowIds <- {1, 2}, MaxFlows <- 2, MaxTokens <- 2, MaxKeys <- 1,
  env <- s1, target <- s2, rotated <- s3, flow <- s4, row <- s5, op <- s6, given <- s7,
  mixed <- s8, refused <- s9
Rotations == INSTANCE Connections WITH
  Orgs <- {1}, Procs <- Workers, RowIds <- {1, 2}, MaxFlows <- 1, MaxTokens <- 2, MaxKeys <- 2,
  env <- s1, target <- s2, rotated <- s3, flow <- s4, row <- s5, op <- s6, given <- s7,
  mixed <- s8, refused <- s9
Mapping == INSTANCE FieldMapping WITH
  MaxEdits <- 1,
  entity <- s1, entry <- s2, local <- s3, remote <- s4, last <- s5, written <- s6, edits <- s7

\* Three people, and four of the suggested roles.
TitleOfDef == ("a" :> "Co-Founder") @@ ("b" :> "VP Partnerships") @@ ("c" :> "Partnership Manager")
ExactDef == {<<"Founder", "Co-Founder">>, <<"Co-Founder", "Co-Founder">>, <<"Partnership Manager", "Partnership Manager">>}
OverlapDef == ExactDef \cup {<<"Head of Partnerships", "VP Partnerships">>, <<"Partnership Manager", "VP Partnerships">>}
Enrichment == INSTANCE Enrichment WITH
  Companies <- {"x", "y", "z"}, People <- {"a", "b", "c"}, TitleOf <- TitleOfDef,
  TargetRoles <- <<"Founder", "Co-Founder", "Head of Partnerships", "Partnership Manager">>,
  Exact <- ExactDef, Overlap <- OverlapDef, Limit <- 2, MaxReveals <- 2, MaxRuns <- 2,
  order <- s1, batch <- s2, pc <- s3, people <- s4, records <- s5, reveals <- s6, runs <- s7,
  enriched <- s8, clean <- s9
Zapier == INSTANCE ZapierGateway WITH
  Apps <- {"gmail"}, MaxTools <- 3, MaxCalls <- 2,
  tools <- s1, actions <- s2, pc <- s3, credential <- s4, sync <- s5, found <- s6, left <- s7,
  called <- s8

Symmetry == Permutations(Workers)

contactsVars == <<company, row, event, job, crossed>>
shared == <<s1, s2, s3, s4, s5, s6, s7, s8, s9>>
PartVars == <<part, contactsVars, requests, faults, shared>>

Connecting == {"flows", "urls", "rotations"}
Parts == {"contacts", "accounts", "access", "gateway", "mapping", "enrichment", "zapier"} \cup Connecting

PartsInit ==
  /\ Init
  /\ part \in IF company[1] = NoCompany THEN Parts ELSE {"contacts"}
  /\ CASE part = "contacts" -> s1 = None
       [] part = "accounts" -> Accounts!Init
       [] part = "access" -> Access!Init
       [] part = "gateway" -> Gateway!Init
       [] part = "flows" -> Flows!Init
       [] part = "urls" -> Urls!Init
       [] part = "rotations" -> Rotations!Init
       [] part = "mapping" -> Mapping!Init
       [] part = "enrichment" -> Enrichment!Init
       [] part = "zapier" -> Zapier!Init
  /\ IF part = "contacts" THEN s2 = None /\ s3 = None ELSE TRUE
  /\ IF part \in {"contacts", "access"}
       THEN s4 = None /\ s5 = None /\ s6 = None /\ s7 = None ELSE TRUE
  /\ IF part \in {"contacts", "accounts", "access", "mapping"} THEN s8 = None ELSE TRUE
  /\ IF part \in Connecting \cup {"enrichment"} THEN TRUE ELSE s9 = None

PartsNext ==
  /\ UNCHANGED part
  /\ \/ part = "contacts" /\ Next
     \/ part = "accounts" /\ Accounts!Next
     \/ part = "access" /\ Access!Next
     \/ part = "gateway" /\ Gateway!Next
     \/ part = "flows" /\ Flows!Next
     \/ part = "urls" /\ Urls!Next
     \/ part = "rotations" /\ Rotations!Next
     \/ part = "mapping" /\ Mapping!Next
     \/ part = "enrichment" /\ Enrichment!Next
     \/ part = "zapier" /\ Zapier!Next
  /\ IF part = "contacts" THEN UNCHANGED shared ELSE UNCHANGED contactsVars
  /\ IF part \in {"access", "mapping", "enrichment", "zapier"} \cup Connecting THEN UNCHANGED requests ELSE TRUE
  /\ IF part \in {"access", "mapping", "enrichment", "zapier"} THEN UNCHANGED faults ELSE TRUE
  /\ IF part = "access" THEN UNCHANGED <<s4, s5, s6, s7>> ELSE TRUE
  /\ IF part \in {"accounts", "access", "mapping"} THEN UNCHANGED s8 ELSE TRUE
  /\ IF part \in Connecting \cup {"contacts", "enrichment"} THEN TRUE ELSE UNCHANGED s9

PartsSpec == PartsInit /\ [][PartsNext]_PartVars

-----------------------------------------------------------------------------
(* The properties of the parts, by their names there; those of Contacts are its own.                      *)

\* The types of each.
PartsTypeOK ==
  /\ TypeOK
  /\ part = "accounts" => Accounts!TypeOK
  /\ part = "access" => Access!TypeOK
  /\ part = "gateway" => Gateway!TypeOK
  /\ part = "flows" => Flows!TypeOK
  /\ part = "urls" => Urls!TypeOK
  /\ part = "rotations" => Rotations!TypeOK
  /\ part = "mapping" => Mapping!TypeOK
  /\ part = "enrichment" => Enrichment!TypeOK
  /\ part = "zapier" => Zapier!TypeOK
\* The account has every change that was made, and is locked for failures that happened.
AccountKeepsChanges ==
  part = "accounts" => Accounts!AccountKeepsChanges
\* What proves who somebody is ends with the password it came with, or with its use:
\* a session, its refresh token, a token sent by e-mail.
CredentialsEnd ==
  part = "accounts" => Accounts!CredentialsEnd
\* The guard reads the entry of the route that runs, no route is refused to everybody,
\* and a promotion takes no permission away.
RoutesAreGuarded ==
  part = "access" =>
    Access!GuardReadsTheRoute /\ Access!RoutesAreReachable /\ Access!PromotionsOnlyAdd
\* Handlers that count and lock at once let no more pass than one would.
LimitsHold == part = "gateway" => Gateway!LimitsHold
\* A client that missed an event leaves, once, and no other does.
HearOrLeave == part = "gateway" => Gateway!HearOrLeave
\* A connection is made once per code, for the organization that asked, and the answer is true.
ConnectedAsAsked ==
  part = "flows" => Flows!StateOnce /\ Flows!TokensOfTheirStarter /\ Flows!ToldTheTruth
\* A webhook URL that was shown, what was encrypted and who signed in outlast reconnections
\* and changes of keys.
KeysKeepFaith ==
  /\ part = "urls" => Urls!TokenStays
  /\ part = "rotations" => Rotations!TokenStays /\ Rotations!RotatedIsReadable /\ Rotations!SessionsSurvive
\* The pull after a push changes nothing but the hour of a text mapped to a date, the push
\* after a pull undoes nothing but the hour and the end of a date and a number's third decimal.
FieldsComeBack == [][part = "mapping" => Mapping!EchoStep /\ Mapping!SurvivesStep]_PartVars
\* Each role has the person who fits it, at the price agreed, and every company has its turn.
RolesAreFilled ==
  part = "enrichment" => /\ Enrichment!OnePersonPerRole /\ Enrichment!NoneLeftOut
                         /\ Enrichment!CreditsBounded /\ Enrichment!CoverageOverRuns
\* A sync of Zapier changes nothing unless a name misleads it, asks all it can, and reports
\* the apps that are there.
SyncOnlyReads == part = "zapier" => Zapier!ReadsOnly /\ Zapier!AsksAll /\ Zapier!AppsAreReal
=============================================================================
