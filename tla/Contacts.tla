------------------------------- MODULE Contacts -------------------------------
(***************************************************************************)
(* Companies and the rows that name one (contacts, decision makers,        *)
(* sponsors), and who writes them at once: Zapier events, the contacts and *)
(* decision makers of a provider's sync, CSV imports, the CRM handlers and *)
(* the merge of duplicate companies.                                       *)
(*                                                                         *)
(* No table has a unique index on a name, a domain or an address: every    *)
(* writer looks for a row, and creates one in another statement.  Deletes  *)
(* are soft, and a Save writes the whole row as it was read, deleted_at    *)
(* included.                                                               *)
(*                                                                         *)
(* A company is known by its name and domain as written, of which only the *)
(* normal form matters (Norm).  Of its other fields there are the tags and *)
(* whether it is the more complete record (rich).                          *)
(***************************************************************************)
EXTENDS Naturals, FiniteSets

CONSTANTS
  Names,        \* names and domains as they are written, lower case
  Domains,
  Norm,         \* normalize.CompanyName and normalize.Domain
  Emails,       \* of contacts
  Titles,       \* of decision makers
  None,         \* no name, domain or key
  Tags,
  Events,       \* contents of Zapier's requests
  EventRecord,  \* [key, name] of each
  Given,        \* tables of companies to begin with
  Inputs,       \* [kind, key, name, dom] of what is synced and imported
  Edits,        \* what the CRM edits by read and save: "company", kinds of rows
  Workers,      \* handlers of tasks and requests
  MaxCompanies, \* bounds on the rows of each table
  MaxRows,
  MaxRequests,  \* bound on the syncs, imports, merges, CRM requests, expiries
  MaxTasks,     \* bound on the tasks of one event
  MaxFaults     \* bound on failing statements, and crashes

Keys == Emails \cup Titles
Kinds == {"contact", "maker", "sponsor"}
Text == Names \cup Domains
ASSUME NormAssumption ==
  /\ None \notin Text \cup Keys /\ Names \cap Domains = {}
  /\ Norm \in [Text -> Text]
  /\ \A d \in Domains : Norm[d] \in Domains
ASSUME InputAssumption ==
  /\ None \notin Events
  /\ EventRecord \in [Events -> [key : Emails, name : Names \cup {None}]]
  /\ Inputs \subseteq [kind : {"provider", "maker", "import", "sponsor"},
                       key : Keys \cup {None}, name : Names \cup {None},
                       dom : Domains \cup {None}]
ASSUME BoundAssumption ==
  /\ MaxCompanies \in Nat \ {0} /\ MaxRows \in Nat \ {0}
  /\ MaxRequests \in Nat /\ MaxTasks \in Nat \ {0} /\ MaxFaults \in Nat /\ IsFiniteSet(Workers)

CompanyIds == 1 .. MaxCompanies
RowIds == 1 .. MaxRows

\* into: the company it was merged into, 0 otherwise (history).
Company == [st : {"none", "live", "deleted"}, name : Names \cup {None},
            dom : Domains \cup {None}, tags : SUBSET Tags, rich : BOOLEAN,
            into : 0 .. MaxCompanies]
NoCompany == [st |-> "none", name |-> None, dom |-> None, tags |-> {},
              rich |-> FALSE, into |-> 0]
ASSUME GivenAssumption ==
  Given \subseteq {t \in [CompanyIds -> Company] : \A c \in CompanyIds :
                    /\ t[c].into = 0
                    /\ t[c].st = "none" => \A d \in c .. MaxCompanies : t[d].st = "none"}

VARIABLES
  company,  \* the companies, in the order of their creation
  row,      \* contacts, decision makers and sponsors
  event,    \* the Redis key, request and tasks of each Zapier event
  job,      \* what each worker is doing
  crossed,  \* two merges were at it at one time (history variable)
  requests, \* those begun so far
  faults    \* faults so far

vars == <<company, row, event, job, crossed, requests, faults>>

\* raced: another row with its address was created after it was looked for, or
\* it was deleted and saved again.
\* late: its company had been merged when it was written (history, both).
Row == [st : {"none", "live", "deleted"}, kind : Kinds, key : Keys \cup {None},
        company : 0 .. MaxCompanies, ingested : BOOLEAN, raced : BOOLEAN,
        late : BOOLEAN]
Event == [key : BOOLEAN, req : {"none", "publish"}, tasks : 0 .. MaxTasks,
          acked : BOOLEAN, refused : BOOLEAN]

NoRow == [st |-> "none", kind |-> "contact", key |-> None, company |-> 0,
          ingested |-> FALSE, raced |-> FALSE, late |-> FALSE]
NoEvent == [key |-> FALSE, req |-> "none", tasks |-> 0, acked |-> FALSE,
            refused |-> FALSE]

\* company, row: the ones found.  old, oldRow: as they were read.  makers: the
\* decision makers loaded with a company.  todo: the duplicates to merge, with
\* the primary of each and the tags it will get.  alone: nobody else wrote a
\* company since the merge read them.
Job == [kind : {"none", "zapier", "provider", "maker", "import", "sponsor",
                "merge", "company", "row"},
        pc : {"idle", "enrich", "find", "create", "findrow", "createrow",
              "saverow", "merge", "merging", "savecompany"},
        event : Events \cup {None}, name : Names \cup {None},
        dom : Domains \cup {None}, key : Keys \cup {None},
        company : 0 .. MaxCompanies, row : 0 .. MaxRows, old : Company,
        oldRow : Row, makers : SUBSET RowIds,
        todo : SUBSET [dup : CompanyIds, primary : CompanyIds, tags : SUBSET Tags],
        raced : BOOLEAN, alone : BOOLEAN]
Idle == [kind |-> "none", pc |-> "idle", event |-> None, name |-> None,
         dom |-> None, key |-> None, company |-> 0, row |-> 0,
         old |-> NoCompany, oldRow |-> NoRow, makers |-> {}, todo |-> {},
         raced |-> FALSE, alone |-> FALSE]

TypeOK ==
  /\ company \in [CompanyIds -> Company]
  /\ row \in [RowIds -> Row]
  /\ event \in [Events -> Event]
  /\ job \in [Workers -> Job]
  /\ crossed \in BOOLEAN
  /\ requests \in 0 .. MaxRequests
  /\ faults \in 0 .. MaxFaults

Init ==
  /\ company \in Given
  /\ row = [r \in RowIds |-> NoRow]
  /\ event = [e \in Events |-> NoEvent]
  /\ job = [w \in Workers |-> Idle]
  /\ crossed = FALSE
  /\ requests = 0
  /\ faults = 0

Live(T) == {i \in DOMAIN T : T[i].st = "live"}
Merged(c) == c # 0 /\ company[c].into # 0
IsNext(T, i) == T[i].st = "none" /\ \A j \in DOMAIN T : j < i => T[j].st # "none"

Request == requests < MaxRequests /\ requests' = requests + 1
Step(w, j) == job' = [job EXCEPT ![w] = j]
Finish(w) == Step(w, Idle)
\* Somebody else than w wrote the companies.
Disturbed(w) == [v \in Workers |-> IF v = w THEN job[v]
                                   ELSE [job[v] EXCEPT !.alone = FALSE]]
\* v has looked for a contact with this address, and is going to create it.
LooksFor(v, key) ==
  /\ job[v].key = key /\ key # None
  /\ \/ job[v].kind = "zapier" /\ job[v].pc \in {"find", "create", "createrow"}
     \/ job[v].kind = "provider" /\ job[v].pc = "createrow"
-----------------------------------------------------------------------------
(* ZapierWebhookHandler.Receive.                                           *)

\* SETNX.  If Redis cannot be asked, the event is published without the key.
Deliver(e) ==
  /\ event[e].req = "none"
  /\ \/ /\ ~event[e].key
        /\ event' = [event EXCEPT ![e].req = "publish", ![e].key = TRUE]
        /\ UNCHANGED faults
     \/ /\ faults < MaxFaults /\ faults' = faults + 1
        /\ event' = [event EXCEPT ![e].req = "publish"]
  /\ UNCHANGED <<company, row, job, crossed, requests>>

\* The content was seen: 200.
DeliverAgain(e) ==
  /\ event[e].key
  /\ event' = [event EXCEPT ![e].acked = TRUE]
  /\ UNCHANGED <<company, row, job, crossed, requests, faults>>

KeyExpires(e) ==
  /\ event[e].key /\ event[e].req = "none"
  /\ event' = [event EXCEPT ![e].key = FALSE]
  /\ Request
  /\ UNCHANGED <<company, row, job, crossed, faults>>

Publish(e) ==
  /\ event[e].req = "publish" /\ event[e].tasks < MaxTasks
  /\ event' = [event EXCEPT ![e].req = "none", ![e].acked = TRUE,
                            ![e].tasks = event[e].tasks + 1]
  /\ UNCHANGED <<company, row, job, crossed, requests, faults>>

\* Mutant: the request is answered with 200 although nothing was queued.
PublishFails_Ack(e) ==
  /\ event[e].req = "publish" /\ faults < MaxFaults
  /\ faults' = faults + 1
  /\ event' = [event EXCEPT ![e].req = "none", ![e].acked = TRUE]
  /\ UNCHANGED <<company, row, job, crossed, requests>>

\* 503, or the process dies: no answer, and the key stays.
PublishFails(e) ==
  /\ event[e].req = "publish" /\ faults < MaxFaults
  /\ faults' = faults + 1
  /\ event' = [event EXCEPT ![e].req = "none", ![e].refused = TRUE]
  /\ UNCHANGED <<company, row, job, crossed, requests>>

-----------------------------------------------------------------------------
(* A worker takes a task, or a request.                                    *)

StartZapier(w, e) ==
  /\ job[w].pc = "idle" /\ event[e].tasks > 0
  /\ event' = [event EXCEPT ![e].tasks = event[e].tasks - 1]
  /\ Step(w, [Idle EXCEPT !.kind = "zapier", !.pc = "findrow", !.event = e,
                !.key = EventRecord[e].key, !.name = EventRecord[e].name])
  /\ UNCHANGED <<company, row, crossed, requests, faults>>

\* One record of a provider's contacts, or of the roles Apollo found.
StartSync(w, i) ==
  /\ job[w].pc = "idle" /\ i.kind \in {"provider", "maker"}
  /\ Step(w, [Idle EXCEPT !.kind = i.kind, !.key = i.key, !.name = i.name, !.dom = i.dom,
                !.pc = CASE i.kind = "maker" -> "enrich" [] i.name = None -> "findrow"
                         [] OTHER -> "find"])
  /\ Request
  /\ UNCHANGED <<company, row, event, crossed, faults>>

\* One row of a CSV file.
StartImport(w, i) ==
  /\ job[w].pc = "idle" /\ i.kind \in {"import", "sponsor"}
  /\ i.kind = "sponsor" => i.name # None
  /\ Step(w, [Idle EXCEPT !.kind = i.kind, !.key = i.key, !.name = i.name,
                !.pc = IF i.name = None THEN "createrow" ELSE "find"])
  /\ Request
  /\ UNCHANGED <<company, row, event, crossed, faults>>

StartMerge(w) ==
  /\ job[w].pc = "idle"
  /\ Step(w, [Idle EXCEPT !.kind = "merge", !.pc = "merge"])
  /\ Request
  /\ UNCHANGED <<company, row, event, crossed, faults>>

-----------------------------------------------------------------------------
(* Find or create the company.                                             *)

\* What the row, or the rest of the job, is after its company has been found.
AfterCompany(j, c) ==
  [j EXCEPT !.company = c,
            !.pc = IF j.kind \in {"provider", "maker"} THEN "findrow" ELSE "createrow"]

\* An import compares names as written, the others with the normal form of
\* what they look for; the domain comes first, where there is one.
IsSought(j, c) ==
  IF j.kind \in {"import", "sponsor"} THEN company[c].name = j.name
  ELSE IF j.dom # None THEN company[c].dom = Norm[j.dom]
  ELSE company[c].name = Norm[j.name]

FindCompany(w) ==
  LET j == job[w]
      found == {c \in Live(company) : IsSought(j, c)} IN
  /\ j.pc = "find"
  /\ \/ \E c \in found : Step(w, AfterCompany(j, c))
     \/ /\ found = {}
        /\ Step(w, CASE j.kind = "maker"  -> Idle
                     [] j.kind = "import" -> AfterCompany(j, 0)
                     [] OTHER             -> [j EXCEPT !.pc = "create"])
  /\ UNCHANGED <<company, row, event, crossed, requests, faults>>

\* The name is stored as it was written, the domain in its normal form.
Created(j) ==
  [NoCompany EXCEPT !.st = "live", !.name = j.name,
                    !.dom = IF j.dom = None THEN None ELSE Norm[j.dom]]

CreateCompany(w) ==
  LET j == job[w] IN
  /\ j.pc = "create"
  /\ \E c \in CompanyIds :
       /\ IsNext(company, c)
       /\ company' = [company EXCEPT ![c] = Created(j)]
       /\ job' = [Disturbed(w) EXCEPT ![w] = AfterCompany(j, c)]
  /\ UNCHANGED <<row, event, crossed, requests, faults>>

\* runApolloCompanyEnrichment: the company's enrichment_data, if Apollo has any.
Enrich(w) ==
  LET j == job[w] IN
  /\ j.pc = "enrich"
  /\ \/ /\ j.dom # None
        /\ \E c \in Live(company) :
             /\ company[c].dom = j.dom
             /\ company' = [company EXCEPT ![c].rich = TRUE]
             /\ job' = [Disturbed(w) EXCEPT ![w].pc = "find"]
     \/ Step(w, [j EXCEPT !.pc = "find"]) /\ UNCHANGED company
  /\ UNCHANGED <<row, event, crossed, requests, faults>>

-----------------------------------------------------------------------------
(* Find or create the row.                                                 *)

RowKind(j) == CASE j.kind = "maker" -> "maker" [] j.kind = "sponsor" -> "sponsor"
                [] OTHER -> "contact"
\* Contacts by their address, decision makers by company and title.
Matches(j) ==
  {r \in Live(row) : /\ row[r].kind = RowKind(j) /\ row[r].key = j.key /\ j.key # None
                     /\ j.kind = "maker" => row[r].company = j.company}
\* After its rows a sync merges the duplicates.
AfterRows(j) ==
  IF j.kind \in {"provider", "maker"} THEN [Idle EXCEPT !.kind = "merge", !.pc = "merge"]
  ELSE Idle

\* Mutant: a contact is not looked for if it comes from a provider.
FindRow_Zapier(w) ==
  LET j == job[w] IN
  /\ j.pc = "findrow"
  /\ \/ \E r \in Matches(j) : Step(w, IF j.kind = "zapier"
                                        THEN [j EXCEPT !.pc = "saverow", !.row = r, !.oldRow = row[r]]
                                        ELSE [j EXCEPT !.pc = "createrow"])
     \/ Matches(j) = {} /\ Step(w, [j EXCEPT !.pc =
          IF j.kind = "zapier" /\ j.name # None THEN "find" ELSE "createrow"])
  /\ UNCHANGED <<company, row, event, crossed, requests, faults>>

\* Of a contact that exists a provider changes nothing, and Zapier saves the
\* row it read if the phone or the title differ.
FindRow(w) ==
  LET j == job[w] IN
  /\ j.pc = "findrow"
  /\ \/ \E r \in Matches(j) :
          \/ Step(w, AfterRows(j))
          \/ j.kind = "zapier" /\ Step(w, [j EXCEPT !.pc = "saverow", !.row = r, !.oldRow = row[r]])
     \/ /\ Matches(j) = {}
        /\ Step(w, [j EXCEPT !.pc = IF j.kind = "zapier" /\ j.name # None THEN "find"
                                    ELSE "createrow"])
  /\ UNCHANGED <<company, row, event, crossed, requests, faults>>

Raced(w, key) ==
  [v \in Workers |-> IF v # w /\ LooksFor(v, key) THEN [job[v] EXCEPT !.raced = TRUE]
                      ELSE job[v]]

\* Mutant: the row names the company after the one found.
CreateRow_Next(w) ==
  LET j == job[w] IN
  /\ j.pc = "createrow"
  /\ \E r \in RowIds :
       /\ IsNext(row, r)
       /\ row' = [row EXCEPT ![r] = [NoRow EXCEPT !.st = "live", !.company = j.company + 1]]
       /\ job' = [Raced(w, j.key) EXCEPT ![w] = AfterRows(j)]
  /\ UNCHANGED <<company, event, crossed, requests, faults>>

CreateRow(w) ==
  LET j == job[w] IN
  /\ j.pc = "createrow" /\ j.kind \notin {"import", "sponsor"}
  /\ \E r \in RowIds :
       /\ IsNext(row, r)
       /\ row' = [row EXCEPT ![r] =
                    [st |-> "live", kind |-> RowKind(j), key |-> j.key, company |-> j.company,
                     ingested |-> TRUE, raced |-> j.raced, late |-> Merged(j.company)]]
       /\ job' = [Raced(w, j.key) EXCEPT ![w] = AfterRows(j)]
  /\ UNCHANGED <<company, event, crossed, requests, faults>>

\* An import does not look for the contact or the sponsor.
ImportRow(w) ==
  LET j == job[w] IN
  /\ j.pc = "createrow" /\ j.kind \in {"import", "sponsor"}
  /\ \E r \in RowIds :
       /\ IsNext(row, r)
       /\ row' = [row EXCEPT ![r] =
                    [NoRow EXCEPT !.st = "live", !.kind = RowKind(j), !.key = j.key,
                                  !.company = j.company, !.late = Merged(j.company)]]
       /\ job' = [Raced(w, j.key) EXCEPT ![w] = Idle]
  /\ UNCHANGED <<company, event, crossed, requests, faults>>

-----------------------------------------------------------------------------
(* dedupe.MergeDuplicateCompanies.                                         *)

DedupeKey(c) == IF company[c].dom # None THEN Norm[company[c].dom] ELSE Norm[company[c].name]
Group(c) == {d \in Live(company) : DedupeKey(d) = DedupeKey(c)}
Score(c) == (IF company[c].dom # None THEN 1 ELSE 0) + (IF company[c].rich THEN 1 ELSE 0)
\* Mutant: every one that is as complete as the others is kept.
IsPrimary_Ties(p, G) == \A d \in G : Score(p) >= Score(d)
\* The first of the most complete.
IsPrimary(p, G) == \A d \in G : Score(p) > Score(d) \/ (Score(p) = Score(d) /\ p <= d)

\* Mutant: companies are grouped by their names as written.
ReadCompanies_RawName(w) ==
  LET G(c) == {d \in Live(company) : company[d].name = company[c].name} IN
  /\ job[w].pc = "merge"
  /\ Step(w, [job[w] EXCEPT !.pc = "merging", !.alone = TRUE, !.todo =
       {[dup |-> t[1], primary |-> t[2], tags |-> company[t[1]].tags \cup company[t[2]].tags] :
          t \in {u \in Live(company) \X Live(company) :
                   u[1] # u[2] /\ u[2] \in G(u[1]) /\ IsPrimary(u[2], G(u[1]))}}])
  /\ crossed' = (crossed \/ \E v \in Workers : job[v].pc = "merging")
  /\ UNCHANGED <<company, row, event, requests, faults>>

\* The whole table is read once: the tags each primary will get with each
\* duplicate are those the two have now.
ReadCompanies(w) ==
  /\ job[w].pc = "merge"
  /\ Step(w, [job[w] EXCEPT !.pc = "merging", !.alone = TRUE, !.todo =
       {[dup |-> t[1], primary |-> t[2], tags |-> company[t[1]].tags \cup company[t[2]].tags] :
          t \in {u \in Live(company) \X Live(company) :
                   u[1] # u[2] /\ u[2] \in Group(u[1]) /\ IsPrimary(u[2], Group(u[1]))}}])
  /\ crossed' = (crossed \/ \E v \in Workers : job[v].pc = "merging")
  /\ UNCHANGED <<company, row, event, requests, faults>>

\* Groups are merged in any order, the duplicates of one in the order of
\* their creation.
IsDue(t, todo) == t \in todo /\ \A u \in todo : u.primary = t.primary => t.dup <= u.dup

\* Mutant: the sponsors stay behind.
MergeInto_NotSponsors(w) ==
  /\ job[w].pc = "merging"
  /\ \E t \in job[w].todo :
       /\ IsDue(t, job[w].todo)
       /\ row' = [r \in RowIds |-> IF row[r].st = "live" /\ row[r].company = t.dup /\ row[r].kind # "sponsor"
                                     THEN [row[r] EXCEPT !.company = t.primary] ELSE row[r]]
       /\ company' = [c \in CompanyIds |->
            CASE c = t.primary /\ company[c].st = "live" -> [company[c] EXCEPT !.tags = t.tags]
              [] c = t.dup /\ company[c].st = "live" -> [company[c] EXCEPT !.st = "deleted", !.into = t.primary]
              [] OTHER -> company[c]]
       /\ job' = [Disturbed(w) EXCEPT ![w].todo = job[w].todo \ {t}]
  /\ UNCHANGED <<event, crossed, requests, faults>>

\* mergeCompanyInto, a transaction: the live rows of the duplicate move to the
\* primary, whose tags are set if it is live, and the duplicate is deleted.  (A
\* primary without a domain is given the duplicate's, but is in its group by name
\* then, like a duplicate without a domain.)
MergeInto(w) ==
  /\ job[w].pc = "merging"
  /\ \E t \in job[w].todo :
       /\ IsDue(t, job[w].todo)
       /\ row' = [r \in RowIds |->
            IF row[r].st = "live" /\ row[r].company = t.dup
              THEN [row[r] EXCEPT !.company = t.primary, !.late = FALSE] ELSE row[r]]
       /\ company' = [c \in CompanyIds |->
            CASE c = t.primary /\ company[c].st = "live" -> [company[c] EXCEPT !.tags = t.tags]
              [] c = t.dup /\ company[c].st = "live" ->
                   [company[c] EXCEPT !.st = "deleted", !.into = t.primary]
              [] OTHER -> company[c]]
       /\ job' = [Disturbed(w) EXCEPT ![w].todo = job[w].todo \ {t}]
  /\ UNCHANGED <<event, crossed, requests, faults>>

MergeDone(w) ==
  /\ job[w].pc = "merging" /\ job[w].todo = {}
  /\ Finish(w)
  /\ UNCHANGED <<company, row, event, crossed, requests, faults>>

-----------------------------------------------------------------------------
(* The CRM handlers.                                                       *)

Insert(c, n, d, T) ==
  /\ IsNext(company, c)
  /\ company' = [company EXCEPT ![c] = [NoCompany EXCEPT !.st = "live", !.name = n, !.dom = d,
                                                       !.tags = T]]
  /\ job' = [w \in Workers |-> [job[w] EXCEPT !.alone = FALSE]]
  /\ Request
  /\ UNCHANGED <<row, event, crossed, faults>>

NewCompany(c, n, d) == \E T \in SUBSET Tags : Insert(c, n, d, T)
\* A CSV file has no column for the tags.
ImportCompany(c, n, d) == Insert(c, n, d, {})

NewRow(kind, key, c) ==
  /\ \E r \in RowIds :
       /\ IsNext(row, r)
       /\ row' = [row EXCEPT ![r] = [NoRow EXCEPT !.st = "live", !.kind = kind, !.key = key,
                                                 !.company = c]]
  /\ Request
  /\ UNCHANGED <<company, event, job, crossed, faults>>

DeleteCompany(c) ==
  /\ company[c].st = "live"
  /\ company' = [company EXCEPT ![c].st = "deleted"]
  /\ job' = [w \in Workers |-> [job[w] EXCEPT !.alone = FALSE]]
  /\ Request
  /\ UNCHANGED <<row, event, crossed, faults>>

DeleteRow(r) ==
  /\ row[r].st = "live"
  /\ row' = [row EXCEPT ![r].st = "deleted"]
  /\ Request
  /\ UNCHANGED <<company, event, job, crossed, faults>>

\* CompanyHandler.Update: the row is read with its decision makers,
ReadCompany(w, c) ==
  /\ "company" \in Edits /\ job[w].pc = "idle" /\ company[c].st = "live"
  /\ Step(w, [Idle EXCEPT !.kind = "company", !.pc = "savecompany", !.company = c, !.old = company[c],
                !.makers = {r \in Live(row) : row[r].kind = "maker" /\ row[r].company = c}])
  /\ Request
  /\ UNCHANGED <<company, row, event, crossed, faults>>

\* and saved with them: it is live again if it had been deleted meanwhile.
SaveCompany(w) ==
  LET j == job[w] IN
  /\ j.pc = "savecompany"
  /\ \E d \in Domains \cup {None}, T \in SUBSET Tags, rich \in BOOLEAN :
       company' = [company EXCEPT ![j.company] =
                     [j.old EXCEPT !.dom = d, !.tags = T, !.rich = rich]]
  /\ row' = [r \in RowIds |-> IF r \in j.makers THEN [row[r] EXCEPT !.company = j.company, !.late = FALSE]
                              ELSE row[r]]
  /\ job' = [Disturbed(w) EXCEPT ![w] = Idle]
  /\ UNCHANGED <<event, crossed, requests, faults>>

\* ContactHandler.Update and SponsorHandler.Update read the row with its company,
ReadRow(w, r) ==
  /\ row[r].kind \in Edits /\ job[w].pc = "idle" /\ row[r].st = "live"
  /\ Step(w, [Idle EXCEPT !.kind = "row", !.pc = "saverow", !.row = r, !.oldRow = row[r],
                !.company = IF row[r].company \in Live(company) THEN row[r].company ELSE 0])
  /\ Request
  /\ UNCHANGED <<company, row, event, crossed, faults>>

\* and the company so loaded wins over the one asked for.
Saved(j, c) ==
  [j.oldRow EXCEPT !.company = c, !.late = Merged(c),
                   !.raced = row[j.row].raced \/ row[j.row].st = "deleted"]
SaveRow(w) ==
  LET j == job[w] IN
  /\ j.pc = "saverow"
  /\ \E c \in CASE j.kind = "zapier" -> {j.oldRow.company}
                [] j.company # 0 -> {j.company}
                [] OTHER -> {0} \cup Live(company) :
       row' = [row EXCEPT ![j.row] = Saved(j, c)]
  /\ Finish(w)
  /\ UNCHANGED <<company, event, crossed, requests, faults>>

-----------------------------------------------------------------------------
\* A statement fails or the process dies.  asynq retries the task of an event
\* (MaxFaults is less than its retries); a sync starts anew in another job.
Fail(w) ==
  LET e == job[w].event IN
  /\ job[w].pc # "idle" /\ faults < MaxFaults
  /\ faults' = faults + 1
  /\ Finish(w)
  /\ \/ e = None /\ UNCHANGED event
     \/ /\ e # None /\ event[e].tasks < MaxTasks
        /\ event' = [event EXCEPT ![e].tasks = event[e].tasks + 1]
  /\ UNCHANGED <<company, row, crossed, requests>>

Next ==
  \/ \E e \in Events : \/ Deliver(e) \/ DeliverAgain(e) \/ KeyExpires(e)
                       \/ Publish(e) \/ PublishFails(e)
  \/ \E w \in Workers :
       \/ \E e \in Events : StartZapier(w, e)
       \/ \E i \in Inputs : StartSync(w, i) \/ StartImport(w, i)
       \/ StartMerge(w) \/ FindCompany(w) \/ CreateCompany(w) \/ Enrich(w)
       \/ FindRow(w) \/ CreateRow(w) \/ ImportRow(w) \/ SaveRow(w)
       \/ ReadCompanies(w) \/ MergeInto(w) \/ MergeDone(w)
       \/ \E c \in CompanyIds : ReadCompany(w, c)
       \/ \E r \in RowIds : ReadRow(w, r)
       \/ SaveCompany(w) \/ Fail(w)
  \/ \E c \in CompanyIds, n \in Names, d \in Domains \cup {None} :
       NewCompany(c, n, d) \/ ImportCompany(c, n, d)
  \/ \E c \in {0} \cup Live(company) :
       NewRow("sponsor", None, c) \/ \E m \in Emails : NewRow("contact", m, c)
  \/ \E c \in CompanyIds : DeleteCompany(c)
  \/ \E r \in RowIds : DeleteRow(r)

Spec == Init /\ [][Next]_vars

-----------------------------------------------------------------------------
(* Properties.                                                             *)

\* An event that Zapier was told has been accepted is on its way, or has
\* become a contact, although requests are repeated, processes die and tasks
\* are retried.  The exception is the code's: if an earlier request with the
\* same content was refused, its key makes the repeated request succeed.
Handles(w, e) == job[w].event = e
EventKept ==
  \A e \in Events : event[e].acked =>
    \/ event[e].refused \/ event[e].req = "publish" \/ event[e].tasks > 0
    \/ \E w \in Workers : Handles(w, e)
    \/ \E r \in RowIds : /\ row[r].st # "none" /\ row[r].kind = "contact"
                         /\ row[r].key = EventRecord[e].key

\* A live row names a company that was merged away only if it was written after
\* the merge by somebody who had read the company before, as long as merges
\* do not cross.
NoOrphans ==
  ~crossed => \A r \in Live(row) : Merged(row[r].company) => row[r].late

\* A merged company leads to one that was not merged: merges that do not cross
\* never delete every company of a group.
GroupSurvives ==
  ~crossed => \A S \in SUBSET {c \in CompanyIds : Merged(c)} :
                S # {} => \E c \in S : company[c].into \notin S

\* Two live contacts that were ingested with one address were created by jobs
\* that overlapped, or one had been deleted and came back with a Save.
OneContactPerEmail ==
  \A r, s \in Live(row) :
    /\ r # s /\ row[r].kind = "contact" /\ row[s].kind = "contact"
    /\ row[r].key = row[s].key /\ row[r].key # None
    /\ row[r].ingested /\ row[s].ingested
    => row[r].raced \/ row[s].raced

\* An event that was acknowledged becomes a contact, and one only.
IngestedOnce == EventKept /\ OneContactPerEmail

\* A merge moves all that hangs on the companies it deletes, and leaves one of them.
MergeKeeps == NoOrphans /\ GroupSurvives

\* A merge during which nobody else wrote a company leaves no duplicates.
MergeEndsClean ==
  \A w \in Workers :
    job[w].pc = "merging" /\ job[w].todo = {} /\ job[w].alone /\ job'[w].pc = "idle"
      => \A c \in Live(company) : Group(c) = {c}
MergeLeavesNone == [][MergeEndsClean]_vars
=============================================================================
