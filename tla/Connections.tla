----------------------------- MODULE Connections ------------------------------
(***************************************************************************)
(* How a provider gets connected, and under which keys its credentials and *)
(* the sessions of users are kept: the OAuth flow through the browser (a   *)
(* state in Redis, the callback, the exchange of the code), Connect, which *)
(* the form for pasted credentials uses too, the URL for inbound webhooks, *)
(* and the rotation of keys (a new configuration, process by process, and  *)
(* then the request that re-encrypts what is stored).                      *)
(*                                                                         *)
(* One provider.  Every API process handles one request at a time, each    *)
(* statement, Redis command and provider call is a step.  Keys are numbers *)
(* in the order in which they are introduced.                              *)
(***************************************************************************)
EXTENDS Naturals

CONSTANTS
  Orgs, Procs,   \* organizations, API processes
  RowIds,        \* rows of integrations, in the order of their primary keys
  MaxFlows,      \* bounds on the connections begun,
  MaxTokens,     \* on the webhook tokens,
  MaxKeys,       \* on the keys,
  MaxFaults      \* and on errors of Redis, database and queue, and crashes

VARIABLES
  env,      \* what each process was started with: a key and the retired ones
  target,   \* the configuration being rolled out
  rotated,  \* organizations re-encrypted since the key of target came in (history)
  flow,     \* connections begun
  row,      \* the integrations table
  op,       \* the request of each process
  given,    \* webhook tokens each organization has been shown (history variable)
  mixed,    \* organizations of which a row read before a change was saved after it (history)
  refused,  \* organizations whose users were sent to sign in again (history)
  faults    \* faults so far

keyVars == <<env, target, rotated>>
history == <<given, mixed, refused>>
vars == <<keyVars, flow, row, op, history, faults>>

Nil == 0
Flows == 1 .. MaxFlows
AllKeys == 1 .. MaxKeys
Tokens == 1 .. MaxTokens

Env == [cur : AllKeys, prev : SUBSET AllKeys]
\* Ciphertext: under key, and tagged with its id, or with none if it is older
\* than rotation ("legacy").
Sealed == [tag : AllKeys \cup {Nil}, key : AllKeys]
\* org Nil: no row.  cred: the flow the credentials come from (Nil: an older
\* one).  secret: the webhook token.
Row == [org : Orgs \cup {Nil}, cred : 0 .. MaxFlows, enc : Sealed, secret : Tokens \cup {Nil}]
NoRow == [org |-> Nil, cred |-> Nil, enc |-> [tag |-> 1, key |-> 1], secret |-> Nil]
\* state: the entry in Redis.  exchanged: how often its code was sent to the
\* provider, saved: whether its credentials reached the table (history, both).
Flow == [org : Orgs \cup {Nil}, state : {"new", "minted", "gone"}, exchanged : 0 .. 2, saved : BOOLEAN]
Pcs == {"idle", "exchange", "validate", "find", "save", "enqueue", "error", "connected", "token", "rotate"}
\* seen: the rows the request works on, as it has read them.  id: which one, or Nil.
Op == [pc : Pcs, flow : 0 .. MaxFlows, org : Orgs \cup {Nil}, id : RowIds \cup {Nil},
       seen : [RowIds -> Row], todo : SUBSET RowIds]
NoOp == [pc |-> "idle", flow |-> Nil, org |-> Nil, id |-> Nil,
         seen |-> [r \in RowIds |-> NoRow], todo |-> {}]

TypeOK ==
  /\ env \in [Procs -> Env] /\ target \in Env /\ rotated \subseteq Orgs
  /\ flow \in [Flows -> Flow]
  /\ row \in [RowIds -> Row]
  /\ op \in [Procs -> Op]
  /\ given \in [Orgs -> SUBSET Tokens]
  /\ mixed \subseteq Orgs /\ refused \subseteq Orgs
  /\ faults \in 0 .. MaxFaults

\* An organization may have a connection from before keys were tagged.
Init ==
  /\ target = [cur |-> 1, prev |-> {}]
  /\ env = [p \in Procs |-> target]
  /\ rotated = {}
  /\ flow = [f \in Flows |-> [org |-> Nil, state |-> "new", exchanged |-> 0, saved |-> FALSE]]
  /\ \E old \in {{}} \cup {{o} : o \in Orgs} :
       row = [r \in RowIds |-> IF r = 1 /\ old # {} THEN [NoRow EXCEPT !.org = CHOOSE o \in old : TRUE, !.enc.tag = Nil]
                                                    ELSE NoRow]
  /\ op = [p \in Procs |-> NoOp]
  /\ given = [o \in Orgs |-> {}] /\ mixed = {} /\ refused = {} /\ faults = 0

Goto(p, pc) == op' = [op EXCEPT ![p].pc = pc]
Fault == faults < MaxFaults /\ faults' = faults + 1

-----------------------------------------------------------------------------
(* Keys: security/crypto.go and security/jwtkeys.go.                       *)

\* NewCredentialCipher, NewJWTKeyring.  Ciphertext without a tag is read with the
\* current key, whichever that is.
KeysOf(e) == {e.cur} \cup e.prev
\* JWTKeyring.Key, for tokens that name their key.
\* Mutant: only the current key is known.
Verifies_Current(e, kid) == kid = e.cur
Verifies(e, kid) == kid \in KeysOf(e)
Encrypt(e) == [tag |-> e.cur, key |-> e.cur]
Decrypts(e, c) == IF c.tag = Nil THEN c.key = e.cur ELSE c.tag \in KeysOf(e)
\* Mutant: what has no tag is left.
NeedsRotation_Tagged(e, c) == c.tag # Nil /\ c.tag # e.cur
NeedsRotation(e, c) == c.tag # e.cur

\* The operator sets a new key, keeping the ones before, and restarts one process
\* after the other; what they were doing is gone.
Deployed == \A p \in Procs : env[p] = target
NewKey ==
  /\ Deployed /\ target.cur < MaxKeys
  /\ target' = [cur |-> target.cur + 1, prev |-> KeysOf(target)]
  /\ rotated' = {}
  /\ UNCHANGED <<env, flow, row, op, history, faults>>
\* Old keys are dropped when everything has been re-encrypted.
DropOld ==
  /\ Deployed /\ rotated = Orgs /\ target.prev # {}
  /\ target' = [target EXCEPT !.prev = {}]
  /\ UNCHANGED <<env, rotated, flow, row, op, history, faults>>
Deploy(p) ==
  /\ env[p] # target
  /\ env' = [env EXCEPT ![p] = target]
  /\ op' = [op EXCEPT ![p] = NoOp]
  /\ UNCHANGED <<target, rotated, flow, row, history, faults>>
Crash(p) ==
  /\ op[p].pc # "idle" /\ Fault
  /\ op' = [op EXCEPT ![p] = NoOp]
  /\ UNCHANGED <<keyVars, flow, row, history>>

-----------------------------------------------------------------------------
(* The rows.                                                               *)

\* GetByProvider takes the first row of the organization: nothing keeps it from
\* having two.
\* Mutant: the organization is not asked for.
RowsOf_Anyone(o) == {r \in RowIds : row[r].org # Nil}
RowsOf(o) == {r \in RowIds : row[r].org = o}
First(o) == IF RowsOf(o) = {} THEN Nil ELSE CHOOSE r \in RowsOf(o) : \A q \in RowsOf(o) : r <= q
Seen(R) == [r \in RowIds |-> IF r \in R THEN row[r] ELSE NoRow]
\* Update saves every column of the row as it was read, with the change made to it.
SaveRow(r, seen, new) ==
  /\ row' = [row EXCEPT ![r] = new]
  /\ mixed' = IF row[r] # seen THEN mixed \cup {new.org} ELSE mixed

-----------------------------------------------------------------------------
(* OAuthHandler.Start and Callback.                                        *)

NextFlow == {f \in Flows : flow[f].state = "new" /\ \A g \in 1 .. (f - 1) : flow[g].state # "new"}
\* A user, whose session was signed with the first key, is sent to the provider.
Start(p, f, o) ==
  /\ op[p].pc = "idle" /\ f \in NextFlow
  /\ \/ /\ Verifies(env[p], 1)
        /\ \/ flow' = [flow EXCEPT ![f].org = o, ![f].state = "minted"] /\ UNCHANGED faults
           \/ flow' = [flow EXCEPT ![f].org = o, ![f].state = "gone"] /\ Fault
        /\ UNCHANGED refused
     \/ ~Verifies(env[p], 1) /\ refused' = refused \cup {o} /\ UNCHANGED <<flow, faults>>
  /\ UNCHANGED <<keyVars, row, op, given, mixed>>
StateExpires(f) ==
  /\ flow[f].state = "minted"
  /\ flow' = [flow EXCEPT ![f].state = "gone"]
  /\ UNCHANGED <<keyVars, row, op, history, faults>>
\* The browser comes back, as often as the user reloads the page; GetDel finds the
\* state once.
\* Mutant: it is left in Redis.
Taken_Left(s) == s
Taken(s) == "gone"
Callback(p, f) ==
  /\ op[p].pc = "idle" /\ flow[f].state = "minted"
  /\ flow' = [flow EXCEPT ![f].state = Taken(@)]
  /\ op' = [op EXCEPT ![p] = [NoOp EXCEPT !.pc = "exchange", !.flow = f, !.org = flow[f].org]]
  /\ UNCHANGED <<keyVars, row, history, faults>>
\* OAuthProvider.Exchange: an answer without an access token is an error too.
Exchange(p) ==
  /\ op[p].pc = "exchange" /\ flow[op[p].flow].exchanged < 2
  /\ flow' = [flow EXCEPT ![op[p].flow].exchanged = @ + 1]
  /\ \E pc \in {"validate", "error"} : Goto(p, pc)
  /\ UNCHANGED <<keyVars, row, history, faults>>
\* IntegrationHandler.Connect: credentials a user has typed in.
Paste(p, f, o) ==
  /\ op[p].pc = "idle" /\ f \in NextFlow
  /\ flow' = [flow EXCEPT ![f].org = o, ![f].state = "gone"]
  /\ op' = [op EXCEPT ![p] = [NoOp EXCEPT !.pc = "validate", !.flow = f, !.org = o]]
  /\ UNCHANGED <<keyVars, row, history, faults>>

-----------------------------------------------------------------------------
(* IntegrationService.Connect.                                             *)

Validate(p) ==
  /\ op[p].pc = "validate"
  /\ \E pc \in {"find", "error"} : Goto(p, pc)
  /\ UNCHANGED <<keyVars, flow, row, history, faults>>
Find(p) ==
  /\ op[p].pc = "find"
  /\ LET r == First(op[p].org) IN
     \/ op' = [op EXCEPT ![p].pc = "save", ![p].seen = Seen({r}), ![p].id = r] /\ UNCHANGED faults
     \/ Fault /\ Goto(p, "error")
  /\ UNCHANGED <<keyVars, flow, row, history>>
Connected(p, r) == [r EXCEPT !.cred = op[p].flow, !.enc = Encrypt(env[p])]
Save(p) ==
  /\ op[p].pc = "save"
  /\ LET o == op[p] IN
     \/ /\ \/ o.id # Nil /\ SaveRow(o.id, o.seen[o.id], Connected(p, o.seen[o.id]))
           \/ /\ o.id = Nil
              /\ \E r \in RowsOf(Nil) : row' = [row EXCEPT ![r] = Connected(p, [NoRow EXCEPT !.org = o.org])]
              /\ mixed' = IF RowsOf(o.org) # {} THEN mixed \cup {o.org} ELSE mixed
        /\ flow' = [flow EXCEPT ![o.flow].saved = TRUE]
        /\ op' = [op EXCEPT ![p] = [NoOp EXCEPT !.pc = "enqueue", !.flow = o.flow]] /\ UNCHANGED faults
     \/ /\ Fault /\ op' = [op EXCEPT ![p] = [NoOp EXCEPT !.pc = "error", !.flow = o.flow]]
        /\ UNCHANGED <<row, mixed, flow>>
  /\ UNCHANGED <<keyVars, given, refused>>
\* The first sync is queued; if that fails it is logged, and the connection stands.
\* Mutant: the failure is reported.
AnswerTo_Error(queued) == IF queued THEN "connected" ELSE "error"
AnswerTo(queued) == "connected"
Enqueue(p) ==
  /\ op[p].pc = "enqueue"
  /\ \E queued \in BOOLEAN :
       /\ IF queued THEN UNCHANGED faults ELSE Fault
       /\ Goto(p, AnswerTo(queued))
  /\ UNCHANGED <<keyVars, flow, row, history>>
\* The user is told.
Redirect(p) ==
  /\ op[p].pc \in {"error", "connected"}
  /\ op' = [op EXCEPT ![p] = NoOp]
  /\ UNCHANGED <<keyVars, flow, row, history, faults>>

-----------------------------------------------------------------------------
(* EnsureInboundWebhookToken.                                              *)

Shown == UNION {given[o] : o \in Orgs}
Show(o, t) == given' = [given EXCEPT ![o] = @ \cup {t}]
\* Mutant: a token there is is replaced.
HasToken_Never(r) == FALSE
HasToken(r) == r.secret # Nil
FindToken(p, o) ==
  /\ op[p].pc = "idle" /\ First(o) # Nil
  /\ LET r == row[First(o)] IN
       \/ HasToken(r) /\ r.secret \notin given[o] /\ Show(o, r.secret) /\ UNCHANGED op
       \/ /\ ~HasToken(r) /\ Shown # Tokens
          /\ op' = [op EXCEPT ![p] = [NoOp EXCEPT !.pc = "token", !.org = o, !.id = First(o), !.seen = Seen({First(o)})]]
          /\ UNCHANGED given
  /\ UNCHANGED <<keyVars, flow, row, mixed, refused, faults>>
SaveToken(p) ==
  /\ op[p].pc = "token"
  /\ LET o == op[p] IN
     \/ \E t \in Tokens \ Shown :
          /\ \A u \in Tokens : u < t => u \in Shown
          /\ SaveRow(o.id, o.seen[o.id], [o.seen[o.id] EXCEPT !.secret = t])
          /\ Show(o.org, t) /\ UNCHANGED faults
     \/ Fault /\ UNCHANGED <<row, given, mixed>>
  /\ op' = [op EXCEPT ![p] = NoOp]
  /\ UNCHANGED <<keyVars, flow, refused>>

-----------------------------------------------------------------------------
(* RotateCredentials: the rows are listed, and those under another key     *)
(* saved again, one by one; the first error ends it.                       *)

Rotate(p, o) ==
  /\ op[p].pc = "idle" /\ Deployed /\ o \notin rotated
  /\ op' = [op EXCEPT ![p] = [NoOp EXCEPT !.pc = "rotate", !.org = o, !.seen = Seen(RowsOf(o)), !.todo = RowsOf(o)]]
  /\ UNCHANGED <<keyVars, flow, row, history, faults>>
RotateRow(p, r) ==
  /\ op[p].pc = "rotate" /\ r \in op[p].todo
  /\ LET seen == op[p].seen[r]
         next == op' = [op EXCEPT ![p].todo = @ \ {r}, ![p].seen[r] = NoRow]
         stop == op' = [op EXCEPT ![p] = NoOp]
     IN \/ ~NeedsRotation(env[p], seen.enc) /\ next /\ UNCHANGED <<row, mixed, faults>>
        \/ /\ NeedsRotation(env[p], seen.enc)
           /\ \/ /\ Decrypts(env[p], seen.enc)
                 /\ \/ SaveRow(r, seen, [seen EXCEPT !.enc = Encrypt(env[p])]) /\ next /\ UNCHANGED faults
                    \/ Fault /\ stop /\ UNCHANGED <<row, mixed>>
              \/ ~Decrypts(env[p], seen.enc) /\ stop /\ UNCHANGED <<row, mixed, faults>>
  /\ UNCHANGED <<keyVars, flow, given, refused>>
RotateEnds(p) ==
  /\ op[p].pc = "rotate" /\ op[p].todo = {}
  /\ rotated' = IF env[p] = target THEN rotated \cup {op[p].org} ELSE rotated
  /\ op' = [op EXCEPT ![p] = NoOp]
  /\ UNCHANGED <<env, target, flow, row, history, faults>>

Next ==
  \/ NewKey \/ DropOld
  \/ \E f \in Flows : StateExpires(f)
  \/ \E p \in Procs :
       \/ Deploy(p) \/ Crash(p)
       \/ \E f \in Flows : Callback(p, f) \/ \E o \in Orgs : Start(p, f, o) \/ Paste(p, f, o)
       \/ Exchange(p) \/ Validate(p) \/ Find(p) \/ Save(p) \/ Enqueue(p) \/ Redirect(p)
       \/ \E o \in Orgs : FindToken(p, o) \/ Rotate(p, o)
       \/ SaveToken(p) \/ RotateEnds(p) \/ \E r \in RowIds : RotateRow(p, r)

Spec == Init /\ [][Next]_vars

-----------------------------------------------------------------------------
(* Properties.                                                             *)

\* A code is exchanged once, however often the browser comes back with it and
\* whichever processes answer.
StateOnce == \A f \in Flows : flow[f].exchanged <= 1

\* The credentials of an organization are those one of its own users has asked for.
TokensOfTheirStarter ==
  \A r \in RowIds : row[r].cred # Nil => row[r].org = flow[row[r].cred].org

\* Who is told that the connection failed has none from this attempt, and who is
\* told that it stands has one: a queue that fails does not change the answer.
ToldTheTruth ==
  \A p \in Procs :
    /\ op[p].pc = "error" => ~flow[op[p].flow].saved
    /\ op[p].pc = "connected" => flow[op[p].flow].saved

\* The webhook URL an organization has been shown stays the one that works,
\* through reconnections and rotations, unless a request has saved a row that
\* another one had changed since it was read.
TokenStays ==
  \A o \in Orgs \ mixed : \A t \in given[o] : \E r \in RowsOf(o) : row[r].secret = t

\* After a rotation that reported no error the retired keys are needed no more:
\* everything of the organization can be read with the current one alone, what
\* was connected meanwhile included, unless a stale row was saved.
RotatedIsReadable ==
  \A o \in rotated \ mixed : \A r \in RowsOf(o) :
    Decrypts([cur |-> target.cur, prev |-> {}], row[r].enc)

\* A user who signed in before the key changed is not sent to sign in again, by
\* any process, until the old key is dropped.
SessionsSurvive == refused # {} => \E p \in Procs : 1 \notin KeysOf(env[p]) \/ 1 \notin KeysOf(target)
===============================================================================
