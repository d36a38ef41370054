---------------------------- MODULE ZapierGateway -----------------------------
(***************************************************************************)
(* What one sync, or one look at the connected apps, asks of a user's      *)
(* Zapier MCP server.  In classic mode every action is a tool; in agentic  *)
(* mode there are a few meta-tools, one of which lists the actions.  Any   *)
(* call may fail, and the server may mix the two.                          *)
(***************************************************************************)
EXTENDS Naturals, Sequences, SequencesExt

CONSTANTS
  Apps,      \* slugs
  MaxTools,  \* bound on the tools of a server
  MaxCalls   \* read-only tools one sync calls

VARIABLES
  tools,    \* what tools/list answers
  actions,  \* what the meta-tool answers
  pc,       \* idle, connect, list, agentic, notes, done
  credential, \* what the connection holds
  sync,     \* whether it is a sync, or DiscoverApps
  found,    \* the apps reported
  left,     \* the tools safeReadOnlySync has not looked at
  called    \* the tools called for notes, and whether they answered

vars == <<tools, actions, pc, credential, sync, found, left, called>>

\* Of a name, only what the client looks for: the app (its first two words), a verb of
\* reading at the start of a word, a verb of writing anywhere.  required: the tool needs
\* arguments.  changes: what it really does, which no name has to tell.
Tool == [app : Apps, reads : BOOLEAN, writes : BOOLEAN, required : BOOLEAN, changes : BOOLEAN]
\* The meta-tools: the two that list actions, which the code knows by name, and those that
\* enable an action, execute one that reads, execute one that writes, which it does not.
MetaTool(slug, reads, writes) ==
  [app |-> slug, reads |-> reads, writes |-> writes, required |-> ~reads, changes |-> ~reads]
Listing == MetaTool("list_enabled", TRUE, FALSE)
Acting == {MetaTool("enable_zapier", FALSE, FALSE), MetaTool("execute_zapier", FALSE, FALSE),
           MetaTool("execute_zapier", FALSE, TRUE)}
AnyTool == Tool \cup {Listing} \cup Acting
Slugs == Apps \cup {"list_enabled", "enable_zapier", "execute_zapier"}

TypeOK ==
  /\ tools \in Seq(AnyTool) /\ actions \subseteq Apps
  /\ pc \in {"connect", "list", "agentic", "notes", "done", "failed"}
  /\ credential \in {"token", "access_token", "url", "http", "none"} /\ sync \in BOOLEAN
  /\ found \subseteq Slugs
  /\ left \in Seq(AnyTool)
  /\ called \in Seq([tool : AnyTool, ok : BOOLEAN])

Init ==
  /\ tools = <<>> /\ actions \in SUBSET Apps /\ pc = "connect"
  /\ credential \in {"token", "access_token", "url", "http", "none"} /\ sync \in BOOLEAN
  /\ found = {} /\ left = <<>> /\ called = <<>>

\* rpc: an answer, as JSON or as a stream of events, or an error.
Answers == BOOLEAN
\* zapierEndpoint: a token, or a legacy URL, which has to be https.
Connect ==
  /\ pc = "connect"
  /\ pc' = IF credential \in {"token", "access_token", "url"} THEN "list" ELSE "failed"
  /\ UNCHANGED <<tools, actions, credential, sync, found, left, called>>

\* groupToolsByApp: every tool but the two that list is of an app.
\* Mutant: no exception is made.
groupToolsByApp_Meta(ts) == {t.app : t \in ToSet(ts)}
groupToolsByApp(ts) == {t.app : t \in ToSet(ts) \ {Listing}}
Report(apps) ==
  /\ found' = apps
  /\ pc' = IF sync THEN "notes" ELSE "done"
ListTools ==
  /\ pc = "list"
  /\ \E ok \in Answers :
       IF ok THEN \E n \in 0 .. MaxTools : \E ts \in [1 .. n -> AnyTool] :
                    /\ tools' = ts /\ left' = ts
                    /\ IF Listing \in ToSet(ts) THEN pc' = "agentic" /\ UNCHANGED found
                                             ELSE Report(groupToolsByApp(ts))
       ELSE pc' = "failed" /\ UNCHANGED <<tools, found, left>>
  /\ UNCHANGED <<actions, credential, sync, called>>
\* discoverAgentic: no answer, or no action in it, and the tools are grouped after all.
Agentic ==
  /\ pc = "agentic"
  /\ \E ok \in Answers : Report(IF ok /\ actions # {} THEN actions ELSE groupToolsByApp(tools))
  /\ UNCHANGED <<tools, actions, credential, sync, left, called>>

\* isSafeReadOnlyTool.
\* Mutant: a reading verb is enough.
isSafeReadOnlyTool_Reads(t) == t # Listing /\ t.reads /\ ~t.required
isSafeReadOnlyTool(t) == t # Listing /\ ~t.writes /\ t.reads /\ ~t.required
\* Mutant: only calls that were answered count.
Spent_Answered(cs) == Len(SelectSeq(cs, LAMBDA c : c.ok))
Spent(cs) == Len(cs)
Call ==
  /\ pc = "notes" /\ left # <<>> /\ Spent(called) < MaxCalls
  /\ left' = Tail(left)
  /\ \/ /\ isSafeReadOnlyTool(Head(left))
        /\ \E ok \in Answers : called' = Append(called, [tool |-> Head(left), ok |-> ok])
     \/ ~isSafeReadOnlyTool(Head(left)) /\ UNCHANGED called
  /\ UNCHANGED <<tools, actions, pc, credential, sync, found>>
Finish ==
  /\ pc = "notes" /\ (left = <<>> \/ Spent(called) >= MaxCalls)
  /\ pc' = "done"
  /\ UNCHANGED <<tools, actions, credential, sync, found, left, called>>

Next == Connect \/ ListTools \/ Agentic \/ Call \/ Finish

Spec == Init /\ [][Next]_vars

-----------------------------------------------------------------------------
(* Properties.                                                             *)

\* A sync asks no more than its share, calls that fail included, and only tools of the
\* server that are not its meta-tools.  It changes nothing in the user's apps, if no tool
\* that changes something has a name which says that it only reads.
ReadsOnly ==
  /\ Len(called) <= MaxCalls
  /\ \A i \in DOMAIN called : called[i].tool \in ToSet(tools) \cap Tool
  /\ (\A t \in ToSet(tools) : t.changes => t.writes \/ ~t.reads)
       => \A i \in DOMAIN called : ~called[i].tool.changes

\* A sync that ends with calls to spare has asked every tool which it could.
AsksAll ==
  pc = "done" /\ sync /\ Len(called) < MaxCalls =>
    \A t \in ToSet(tools) \cap Tool :
      t.reads /\ ~t.writes /\ ~t.required => \E i \in DOMAIN called : called[i].tool = t

\* The apps reported are those of the actions of an agentic server, or else those of all its
\* tools, and there are some if a tool is of one.  What goes beyond the user's apps are the
\* meta-tools that act, and only where the actions were not to be had.
AppsAreReal ==
  pc \in {"notes", "done"} =>
    LET toolApps == {t.app : t \in ToSet(tools) \cap Tool}
        acting == {t.app : t \in ToSet(tools) \cap Acting} IN
    /\ \/ found = actions /\ actions # {} /\ Listing \in ToSet(tools)
       \/ found = toolApps \cup acting
    /\ found = {} => toolApps = {}
===============================================================================
