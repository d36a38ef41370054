------------------------------ MODULE Enrichment ------------------------------
(***************************************************************************)
(* Apollo: after each of its syncs a batch of companies, those changed     *)
(* longest ago first, is enriched one by one, and the people of each are   *)
(* searched for somebody in every role of a checklist.  A search costs     *)
(* nothing, revealing an e-mail costs a credit.                            *)
(*                                                                         *)
(* One sync at a time.  Apollo may not know a company, and may fail at any *)
(* call; the code goes on with the next one.  What the records become is   *)
(* in Contacts.                                                            *)
(***************************************************************************)
EXTENDS Naturals, FiniteSets, Sequences, SequencesExt

CONSTANTS
  Companies,   \* those with a domain
  TargetRoles, \* the checklist, in its order
  People,      \* persons the search may find
  TitleOf,     \* the title of each
  Exact,       \* <<role, title>>: one contains the other
  Overlap,     \* <<role, title>>: a word of the role, of four letters or more, is in the title
  Limit,       \* companies of one run
  MaxReveals,  \* maxEmailRevealsPerCompany
  MaxRuns      \* bound on the runs

VARIABLES
  order,     \* the companies, those changed longest ago first
  batch,     \* those of this run that are left
  pc,        \* idle, enrich, search, match, reveal
  people,    \* what the search found
  records,   \* one for each role so far
  reveals,   \* credits spent on this company
  runs,      \* runs so far
  enriched,  \* companies enriched so far (history variable)
  clean      \* every company was known, and no call failed (history variable)

vars == <<order, batch, pc, people, records, reveals, runs, enriched, clean>>

Nobody == "nobody"
Record == [person : People \cup {Nobody}, paid : BOOLEAN]

TypeOK ==
  /\ order \in Seq(Companies) /\ IsInjective(order) /\ ToSet(order) = Companies
  /\ batch \in Seq(Companies)
  /\ pc \in {"idle", "enrich", "search", "match", "reveal"}
  /\ people \in Seq(People)
  /\ records \in Seq(Record) /\ Len(records) <= Len(TargetRoles)
  /\ reveals \in Nat /\ runs \in 0 .. MaxRuns
  /\ enriched \subseteq Companies /\ clean \in BOOLEAN

Init ==
  /\ order \in SetToSeqs(Companies)
  /\ batch = <<>> /\ pc = "idle" /\ people = <<>> /\ records = <<>> /\ reveals = 0
  /\ runs = 0 /\ enriched = {} /\ clean = TRUE

\* ORDER BY updated_at ASC LIMIT 10.
\* Mutant: those changed last come first.
BatchSize == IF Limit < Len(order) THEN Limit ELSE Len(order)
Oldest_Newest == SubSeq(Reverse(order), 1, BatchSize)
Oldest == SubSeq(order, 1, BatchSize)
Begin ==
  /\ pc = "idle" /\ runs < MaxRuns
  /\ batch' = Oldest /\ pc' = "enrich" /\ runs' = runs + 1
  /\ UNCHANGED <<order, people, records, reveals, enriched, clean>>
\* doJSON: an answer, or an error, which ends nothing.
Answers == BOOLEAN
\* UPDATE: the company is the one changed last.
Touched(c) ==
  LET i == CHOOSE j \in DOMAIN order : order[j] = c
  IN Append(RemoveAt(order, i), c)
\* EnrichOrganization: what it finds is saved, and that changes the company.
Enrich ==
  /\ pc = "enrich" /\ batch # <<>>
  /\ \E ok \in Answers, known \in BOOLEAN :
       IF ok /\ known THEN /\ order' = Touched(Head(batch))
                          /\ enriched' = enriched \cup {Head(batch)} /\ UNCHANGED clean
       ELSE clean' = FALSE /\ UNCHANGED <<order, enriched>>
  /\ pc' = "search"
  /\ UNCHANGED <<batch, people, records, reveals, runs>>
Stop ==
  /\ pc = "enrich" /\ batch = <<>> /\ pc' = "idle"
  /\ UNCHANGED <<order, batch, people, records, reveals, runs, enriched, clean>>
NextCompany ==
  /\ batch' = Tail(batch) /\ pc' = "enrich"
  /\ people' = <<>> /\ records' = <<>> /\ reveals' = 0
\* DiscoverRoleContacts: the search, in any order Apollo likes.
Search ==
  /\ pc = "search"
  /\ \E ok \in Answers :
       IF ok THEN /\ \E S \in SUBSET People : people' \in SetToSeqs(S)
                  /\ pc' = "match" /\ UNCHANGED <<batch, records, reveals>>
       ELSE NextCompany
  /\ UNCHANGED <<order, runs, enriched, clean>>

\* findBestRoleMatch: the first whose title matches, or else the first of whose title
\* a word does.
Role == TargetRoles[Len(records) + 1]
Assigned == {records[i].person : i \in DOMAIN records}
Fits(R, p) == <<Role, TitleOf[p]>> \in R
\* Mutant: the second pass forgets who is taken.
Free_Exact(R) == {i \in DOMAIN people : Fits(R, people[i]) /\ (R = Exact => people[i] \notin Assigned)}
Free(R) == {i \in DOMAIN people : Fits(R, people[i]) /\ people[i] \notin Assigned}
\* Mutant: there is no second pass.
Best_Exact == IF Free(Exact) # {} THEN people[Min(Free(Exact))] ELSE Nobody
Best == IF Free(Exact) # {} THEN people[Min(Free(Exact))]
        ELSE IF Free(Overlap) # {} THEN people[Min(Free(Overlap))] ELSE Nobody
Match ==
  /\ pc = "match" /\ Len(records) < Len(TargetRoles)
  /\ LET p == Best
         pays == p # Nobody /\ reveals < MaxReveals
     IN /\ records' = Append(records, [person |-> p, paid |-> pays])
        /\ pc' = IF pays THEN "reveal" ELSE "match"
  /\ UNCHANGED <<order, batch, people, reveals, runs, enriched, clean>>
\* revealEmail: a call that fails may have cost a credit too.
\* Mutant: only what succeeds is counted.
Spent_Success(ok) == IF ok THEN 1 ELSE 0
Spent(ok) == 1
Reveal ==
  /\ pc = "reveal"
  /\ \E ok \in Answers : reveals' = reveals + Spent(ok)
  /\ pc' = "match"
  /\ UNCHANGED <<order, batch, people, records, runs, enriched, clean>>
Done ==
  /\ pc = "match" /\ Len(records) = Len(TargetRoles)
  /\ NextCompany
  /\ UNCHANGED <<order, runs, enriched, clean>>

Next == Begin \/ Enrich \/ Stop \/ Search \/ Match \/ Reveal \/ Done

Spec == Init /\ [][Next]_vars

-----------------------------------------------------------------------------
(* Properties.                                                             *)

\* Nobody is the contact for two roles.
OnePersonPerRole ==
  \A i, j \in DOMAIN records :
    records[i].person = records[j].person /\ records[i].person # Nobody => i = j

\* A role is reported as not available only if everybody whose title fits it, by
\* either measure, stands in for an earlier role.
NoneLeftOut ==
  \A i \in DOMAIN records : records[i].person = Nobody =>
    \A p \in ToSet(people) :
      <<TargetRoles[i], TitleOf[p]>> \in Exact \cup Overlap => \E j \in 1 .. (i - 1) : records[j].person = p

\* One company costs no more than its credits, calls that failed included, and
\* they go to the first of the checklist that were found.
CreditsBounded ==
  LET paid == {i \in DOMAIN records : records[i].paid} IN
  /\ Cardinality(paid) <= MaxReveals
  /\ \A i \in paid : \A j \in 1 .. i : records[j].person # Nobody => j \in paid

\* If Apollo knows every company, and answers, successive runs reach them all, at
\* one batch each.
CoverageOverRuns ==
  clean /\ pc = "idle" /\ runs * Limit >= Len(order) => enriched = Companies
===============================================================================
