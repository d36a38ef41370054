----------------------------- MODULE FieldMapping -----------------------------
(***************************************************************************)
(* One field of a record and the property of its Notion page it is mapped  *)
(* to.  A push turns the Go value into a property, a pull turns the        *)
(* property into a Go value of another type perhaps, and an assignment     *)
(* whose type assertion fails is skipped.  A user maps any field to any    *)
(* property, in either direction or both.                                  *)
(*                                                                         *)
(* RecordSync says when pushes and pulls happen; here is what they do to a *)
(* value.  Entries of a mapping do not touch each other, so one is enough. *)
(***************************************************************************)
EXTENDS Naturals

CONSTANT MaxEdits  \* bound on the edits, here and in Notion

VARIABLES
  entity, entry,   \* what is mapped, and to what
  local, remote,   \* the field and the property
  last,            \* the last step (history variable)
  written,         \* what a user has last written in Notion, if nothing since (history variable)
  edits            \* edits so far

vars == <<entity, entry, local, remote, last, written, edits>>

\* A value: its type in Go and what it says.  "day" stands for a date, "time" for what the
\* database gives back for it, "hour" for an hour of it, "range" for a range that starts with
\* it; "1.5" for what is not an integer, "1.504" for what has more than two decimals and
\* is rounded to that; "none" for no characters and for an empty list; "big" for what is too
\* long for a column of so many characters, or too great for one of numbers.
V(k, v) == [k |-> k, v |-> v]
Nil == V("nil", "none")

-----------------------------------------------------------------------------
(* mapping/extract.go: the fields by the types they have in a record, and  *)
(* by the types they are assigned from.  "date": a string, in a column of  *)
(* dates, which is read back as a time.                                    *)

NoFields == [string |-> {}, date |-> {}, strings |-> {}, float |-> {}, int |-> {}, time |-> {}]
CompanyToRecord ==
  [NoFields EXCEPT !.string = {"name", "status", "domain", "website", "description", "employee_count",
                               "annual_revenue", "headquarters", "linkedin_url", "phone"},
                   !.strings = {"tags"}, !.int = {"score"}]
ContactToRecord ==
  [NoFields EXCEPT !.string = {"first_name", "last_name", "status", "email", "phone", "title", "department",
                               "linkedin_url", "notes"},
                   !.strings = {"tags"}, !.time = {"last_contacted_at"}]
SponsorToRecord ==
  [NoFields EXCEPT !.string = {"stage", "tier", "lost_reason", "notes", "company_name"},
                   !.date = {"expected_close", "actual_close"},
                   !.float = {"deal_value"}, !.int = {"probability"}, !.time = {"stage_entered_at"}]
ToRecord == [company |-> CompanyToRecord, contact |-> ContactToRecord, sponsor |-> SponsorToRecord]
Entities == DOMAIN ToRecord
FieldsOf(e) == UNION {ToRecord[e][k] : k \in DOMAIN NoFields}
KindOf(e, f) == CHOOSE k \in DOMAIN NoFields : f \in ToRecord[e][k]

ApplyToCompany == [CompanyToRecord EXCEPT !.strings = {}, !.int = {}]
\* Mutant: one field is forgotten.
ApplyToContact_NoTitle == [ContactToRecord EXCEPT !.string = @ \ {"title"}, !.strings = {}, !.time = {}]
ApplyToContact == [ContactToRecord EXCEPT !.strings = {}, !.time = {}]
ApplyToSponsor == [SponsorToRecord EXCEPT !.string = @ \ {"company_name"}, !.time = {}]
ApplyTo == [company |-> ApplyToCompany, contact |-> ApplyToContact, sponsor |-> ApplyToSponsor]
\* Those that are never set to the empty string.
Required == {"name", "status", "first_name", "last_name", "stage"}
\* Those whose columns hold a text of any length.
Unsized == {"website", "description", "linkedin_url", "notes", "lost_reason"}

-----------------------------------------------------------------------------
(* mapping/notion.go: a property is what it says, or Empty.                *)

Empty == "empty"
Texts == {"title", "rich_text", "select", "status", "url", "email", "phone_number"}
Lists == {"multi_select", "relation", "people"}
Types == Texts \cup Lists \cup {"date", "number", "checkbox"}

toTime(x) == CASE x.k = "time" \/ x.v \in {"day", "time", "hour"} -> "day" [] OTHER -> Empty
\* A value of another type than the property asks for is written as an empty one.
serializeNotionProperty(t, x) ==
  CASE t \in Texts -> IF x.k = "string" /\ x.v = "none" THEN Empty ELSE x.v
    [] t \in Lists -> IF x.k = "strings" THEN x.v ELSE "none"
    [] t = "date" -> toTime(x)
    [] t = "number" -> IF x.k \in {"float", "int"} THEN x.v ELSE Empty
    [] t = "checkbox" -> "false"
\* An empty property says nothing, but for a list.  Of a range, the start is read.
\* Mutant: an empty date is an empty text.
deserializeNotionProperty_Empty(t, p) ==
  CASE t \in Texts -> IF p = Empty THEN Nil ELSE V("string", p)
    [] t \in Lists -> V("strings", p)
    [] t = "date" -> IF p = Empty THEN V("string", "none") ELSE V("string", IF p = "range" THEN "day" ELSE p)
    [] t = "number" -> IF p = Empty THEN Nil ELSE V("float", p)
    [] t = "checkbox" -> V("bool", p)
deserializeNotionProperty(t, p) ==
  IF p = Empty THEN Nil
  ELSE CASE t \in Texts -> V("string", p)
         [] t = "date" -> V("string", IF p = "range" THEN "day" ELSE p)
         [] t \in Lists -> V("strings", p)
         [] t = "number" -> V("float", p)
         [] t = "checkbox" -> V("bool", p)
\* A direction that is not set means both.
Goes(d) == entry.dir \in {"unset", "both", d}

-----------------------------------------------------------------------------

ValuesOf(e, f) ==
  LET k == KindOf(e, f) IN
  CASE k = "string" -> {V("string", v) : v \in {"a", "day", "hour"} \cup (IF f \in Required THEN {} ELSE {"none"})
                                               \cup (IF f \in Unsized THEN {"big"} ELSE {})}
                         \cup (IF f \in Required THEN {} ELSE {Nil})
    [] k = "date" -> {Nil, V("string", "time")}
    [] k = "strings" -> {V("strings", "none"), V("strings", "a")}
    [] k = "float" -> {Nil, V("float", "1"), V("float", "1.5")}
    [] k = "int" -> {Nil, V("int", "1")}
    [] k = "time" -> {V("time", "time")}
Written(t) ==
  CASE t \in Texts -> {Empty, "a", "b", "day", "hour", "big"}
    [] t \in Lists -> {"none", "a", "b"}
    [] t = "date" -> {Empty, "day", "hour", "range"}
    [] t = "number" -> {Empty, "1", "1.5", "1.504", "big"}
    [] t = "checkbox" -> {"true", "false"}
Blank(t) == IF t \in Lists THEN "none" ELSE IF t = "checkbox" THEN "false" ELSE Empty

Entry == [field : UNION {FieldsOf(e) : e \in Entities}, type : Types,
          dir : {"unset", "both", "to_external", "from_external"}]

Says == {"none", "a", "b", "day", "time", "hour", "big", "1", "1.5"}
TypeOK ==
  /\ entity \in Entities /\ entry \in Entry /\ entry.field \in FieldsOf(entity)
  /\ local \in [k : {"nil", "string", "strings", "float", "int", "time"}, v : Says]
  /\ remote \in {Blank(entry.type), "range", "1.504", "true", "false"} \cup Says
  /\ last \in {"edit", "push", "pull", "refused"}
  /\ edits \in 0 .. MaxEdits

Init ==
  /\ entity \in Entities
  /\ entry \in {e \in Entry : e.field \in FieldsOf(entity)}
  /\ local \in ValuesOf(entity, entry.field)
  /\ remote = Blank(entry.type)
  /\ last = "edit" /\ written = Empty /\ edits = 0

EditHere(x) ==
  /\ edits < MaxEdits /\ x # local
  /\ local' = x /\ edits' = edits + 1 /\ last' = "edit" /\ written' = Empty
  /\ UNCHANGED <<entity, entry, remote>>
EditThere(p) ==
  /\ edits < MaxEdits /\ p # remote
  /\ remote' = p /\ edits' = edits + 1 /\ last' = "edit" /\ written' = p
  /\ UNCHANGED <<entity, entry, local>>
\* NotionAdapter.ToExternal: a field that is nil is not in the record, and one that
\* was erased is erased on this side only.  (Whether an edit in Notion has been
\* pulled before a push is RecordSync's matter; one that the database refused has not.)
Push ==
  /\ Goes("to_external") /\ local # Nil
  /\ remote' = serializeNotionProperty(entry.type, local)
  /\ last' = "push"
  /\ written' = IF last \in {"edit", "refused"} THEN Empty ELSE written
  /\ UNCHANGED <<entity, entry, local, edits>>
\* What the database keeps of an assignment, and gives back: of a time the day, of a number
\* two decimals.  What a column cannot hold it refuses.
Assigned(k, f, x) ==
  CASE k = "string" /\ x.k = "string" /\ (f \in Required => x.v # "none") ->
         IF x.v = "big" /\ f \notin Unsized THEN {} ELSE {x}
    [] k = "date" /\ x.k = "string" -> IF x.v \in {"day", "time", "hour"} THEN {V("string", "time")} ELSE {}
    [] k = "float" /\ x.k = "float" ->
         IF x.v = "big" THEN {} ELSE {V("float", IF x.v = "1.504" THEN "1.5" ELSE x.v)}
    [] k = "int" /\ x.k = "float" -> IF x.v = "big" THEN {} ELSE {V("int", "1")}
    [] OTHER -> {local}
\* NotionAdapter.FromExternal and the assignment.
Pull ==
  /\ LET x == deserializeNotionProperty(entry.type, remote)
         applied == \E k \in DOMAIN NoFields : entry.field \in ApplyTo[entity][k]
         kept == IF x # Nil /\ applied
                   THEN Assigned(KindOf(entity, entry.field), entry.field, x) ELSE {local}
     IN /\ Goes("from_external")
        /\ local' = IF kept = {} THEN local ELSE CHOOSE v \in kept : TRUE
        /\ last' = IF kept = {} THEN "refused" ELSE "pull"
  /\ UNCHANGED <<entity, entry, remote, written, edits>>

Next ==
  \/ \E x \in ValuesOf(entity, entry.field) : EditHere(x)
  \/ \E p \in Written(entry.type) : EditThere(p)
  \/ Push \/ Pull

Spec == Init /\ [][Next]_vars

-----------------------------------------------------------------------------
(* Properties.                                                             *)

\* What is lost by a field of text that is mapped to a date: the hour.
HourLost == entry.type = "date" /\ local = V("string", "hour") /\ local' = V("string", "day")
EchoStep == last = "push" /\ last' = "pull" => local' = local \/ HourLost
\* The pull that the webhook of a push starts gives back what was pushed, whatever
\* field is mapped to whatever type: the echo is no change, or the two sides would
\* send each other changes for ever.  A text with an hour in it that is mapped to a date comes
\* back as the day, which is a change, but comes back as it is from then on.
EchoIsSilent == [][EchoStep]_vars

\* The fields and types that hold each other's values.
Faithful ==
  LET k == KindOf(entity, entry.field) IN
  \/ k = "string" /\ entry.field # "company_name" /\ entry.type \in Texts \cup {"date"}
  \/ k = "date" /\ entry.type = "date"
  \/ k = "float" /\ entry.type = "number"
\* What a push can say of what was written: the day alone, two decimals.
Kept(t, p) ==
  CASE t = "date" /\ p \in {"hour", "range"} -> "day"
    [] t = "number" /\ p = "1.504" -> "1.5"
    [] OTHER -> p
SurvivesStep ==
  last = "pull" /\ last' = "push" /\ Faithful /\ written # Empty => remote' = Kept(entry.type, written)
\* What somebody has written in Notion is not undone by the pushes that follow the
\* pull, if it was pulled: it arrived.  Not so if it was erased, which a pull takes for no
\* news; and of a date, its hour and the end of its range are erased by the next push, of a
\* number its third decimal, but no more than that, however often it comes and goes.
EditSurvives == [][SurvivesStep]_vars
===============================================================================
