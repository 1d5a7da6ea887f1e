------------------------------ MODULE Requests ------------------------------
(***************************************************************************)
(* chat.controller.ts, agents/agent.controller.ts and                      *)
(* history/conversations.controller.ts: which session a request meets,     *)
(* which wallet and which conversation it leaves there, and into whose     *)
(* conversation the messages of its turn are then written.                 *)
(*                                                                         *)
(* A message is the request it came with or whose turn made it.  A flush   *)
(* is one step here; its two writes are in TurnPersistence.  The session   *)
(* map loses a session (Forget) when its TTL has passed, or all of them.   *)
(***************************************************************************)
EXTENDS Integers, Sequences, FiniteSets

CONSTANTS
  Requests,        \* POST /chat and POST /agents/:agentId
  Sessions,        \* session ids
  Wallets,         \* wallet contexts
  Conversations,   \* conversation ids
  MaxReplies,      \* messages a turn may add: a bound
  OneAtATime,      \* the client sends no POST while another one's turn runs
  LoadsFreshOnly   \* it names a conversation_id only without a live session

ASSUME BoundsAssumption == MaxReplies \in Nat
ASSUME SwitchesAssumption == {OneAtATime, LoadsFreshOnly} \subseteq BOOLEAN

None == "none"
Undefined == -1

ASSUME NoneAssumption == None \notin Conversations

VARIABLES
  held,          \* the ids in SessionService.sessions
  wallet,        \* Session.wallet_context; None: never created
  conversation,  \* Session.conversationId
  messages,      \* Session.messages
  lastPersisted, \* Session.lastPersistedIndex
  owner,         \* walletAddress of a conversation; None: never created
  deleted,       \* conversations deleted since
  log,           \* the message rows of a conversation, in order
  pc,            \* of a request
  at,            \* its session
  kind,          \* "new", "continue" or "keep"
  target,        \* the conversation it waits for, then the one it began with
  sender,        \* walletAddr: the wallet it names, or else the one its session has
  replies        \* messages its turn has added

session == <<held, wallet, conversation, messages, lastPersisted>>
database == <<owner, deleted, log>>
request == <<pc, at, kind, target, sender, replies>>
requestVars == <<session, database, request>>

(* Type invariant.                                                         *)
RequestsTypeOK ==
  /\ held \subseteq Sessions
  /\ wallet \in [Sessions -> Wallets \cup {None}]
  /\ conversation \in [Sessions -> Conversations \cup {None}]
  /\ messages \in [Sessions -> Seq(Requests)]
  /\ lastPersisted \in [Sessions -> Int]
  /\ \A s \in Sessions : lastPersisted[s] \in Undefined .. Len(messages[s])
  /\ owner \in [Conversations -> Wallets \cup {None}]
  /\ deleted \subseteq Conversations
  /\ log \in [Conversations -> Seq(Requests)]
  /\ pc \in [Requests -> {"new", "refused", "waiting", "running", "saved", "unsaved"}]
  /\ at \in [Requests -> Sessions \cup {None}]
  /\ kind \in [Requests -> {"new", "continue", "keep", None}]
  /\ target \in [Requests -> Conversations \cup {None}]
  /\ sender \in [Requests -> Wallets \cup {None}]
  /\ replies \in [Requests -> 0 .. MaxReplies]

RequestsInit ==
  /\ held = {}
  /\ wallet = [s \in Sessions |-> None]
  /\ conversation = [s \in Sessions |-> None]
  /\ messages = [s \in Sessions |-> <<>>]
  /\ lastPersisted = [s \in Sessions |-> Undefined]
  /\ owner = [c \in Conversations |-> None]
  /\ deleted = {}
  /\ log = [c \in Conversations |-> <<>>]
  /\ pc = [r \in Requests |-> "new"]
  /\ at = [r \in Requests |-> None]
  /\ kind = [r \in Requests |-> None]
  /\ target = [r \in Requests |-> None]
  /\ sender = [r \in Requests |-> None]
  /\ replies = [r \in Requests |-> 0]

-----------------------------------------------------------------------------
(* POST.                                                                   *)

(* A body that chatRequestSchema lets pass; of the messages only whether   *)
(* there is one of the user, and whether there is any.                     *)
ChatRequest ==
  [session_id : Sessions \cup {None}, wallet_context : Wallets \cup {None},
   conversation_id : Conversations \cup {None}, messages : {"none", "other", "user"}]

Active(r) == pc[r] \in {"waiting", "running"}
Goto(r, place) == pc' = [pc EXCEPT ![r] = place]

Arrive(r) ==
  /\ pc[r] = "new"
  /\ OneAtATime => ~ \E q \in Requests : Active(q)

(* Refused by the guard or by the schema.                                  *)
Refuse(r) ==
  /\ Arrive(r)
  /\ Goto(r, "refused")
  /\ UNCHANGED <<session, database, at, kind, target, sender, replies>>

(* A session takes the wallet_context of every request that brings one.    *)
Refreshed(old, sent) == IF sent = None THEN old ELSE sent

(* An id that is in the map is met, whatever wallet it had ...             *)
Meet(s, req) ==
  /\ req.session_id = s /\ s \in held
  /\ wallet' = [wallet EXCEPT ![s] = Refreshed(@, req.wallet_context)]
  /\ UNCHANGED held

(* ... and for any other a session of a new id is made, if there is a      *)
(* wallet_context.                                                         *)
Create(s, req) ==
  /\ req.session_id \notin held /\ req.wallet_context # None
  /\ wallet[s] = None
  /\ wallet' = [wallet EXCEPT ![s] = req.wallet_context]
  /\ held' = held \cup {s}

(* What both handlers do up to their first await; `what` is how the        *)
(* request finds its conversation.                                         *)
Accept(r, req, s, what) ==
  /\ Meet(s, req) \/ Create(s, req)
  /\ messages' = IF req.messages = "none" THEN messages
                 ELSE [messages EXCEPT ![s] = Append(@, r)]
  /\ at' = [at EXCEPT ![r] = s]
  /\ kind' = [kind EXCEPT ![r] = what]
  /\ sender' = [sender EXCEPT ![r] = Refreshed(wallet[s], req.wallet_context)]

(* prepareTurnWatermark: only a session never seeded takes the value.      *)
Seed(s, n) ==
  lastPersisted' = [lastPersisted EXCEPT ![s] = IF @ = Undefined THEN n ELSE @]

Begin(r) ==
  /\ Goto(r, "running")
  /\ target' = [target EXCEPT ![r] = conversation'[at'[r]]]

(* The turn begins at once, in whatever conversation the session has.      *)
Keep(r, req, s) ==
  /\ Accept(r, req, s, "keep")
  /\ Seed(s, Len(messages'[s]))
  /\ UNCHANGED conversation
  /\ Begin(r)
  /\ UNCHANGED <<database, replies>>

(* POST /agents/:agentId never looks at conversation_id.                   *)
PostAgent(r, req, s) == Keep(r, req, s)

(* POST /chat without messages re-delivers what is pending (a matter of    *)
(* StreamLifecycle) when there is a session_id, held or not.               *)
IsReconnect(req) == req.session_id # None /\ req.messages = "none"

(* POST /chat with a conversation_id, with a message of the user, and with *)
(* neither.                                                                *)
PostContinue(r, req, s) ==
  /\ ~ IsReconnect(req) /\ req.conversation_id # None
  /\ LoadsFreshOnly => req.session_id \notin held
  /\ Accept(r, req, s, "continue")
  /\ Goto(r, "waiting")
  /\ target' = [target EXCEPT ![r] = req.conversation_id]
  /\ UNCHANGED <<conversation, lastPersisted, database, replies>>

PostNew(r, req, s) ==
  /\ req.conversation_id = None /\ req.messages = "user"
  /\ Accept(r, req, s, "new")
  /\ Goto(r, "waiting")
  /\ UNCHANGED <<conversation, lastPersisted, database, target, replies>>

PostOther(r, req, s) ==
  /\ ~ IsReconnect(req) /\ req.conversation_id = None /\ req.messages # "user"
  /\ Keep(r, req, s)

(* 400 missing_wallet_context.                                             *)
PostRefused(r, req) ==
  /\ req.session_id \notin held /\ req.wallet_context = None
  /\ Refuse(r)

-----------------------------------------------------------------------------
(* What a POST awaits before its turn begins.                              *)

(* getConversation: where: { id, walletAddress }.                          *)
Found(c, w) == owner[c] = w /\ c \notin deleted

Loaded(r) ==
  /\ pc[r] = "waiting" /\ kind[r] = "continue" /\ Found(target[r], sender[r])
  /\ messages' = [messages EXCEPT ![at[r]] = log[target[r]] \o @]
  /\ conversation' = [conversation EXCEPT ![at[r]] = target[r]]
  /\ Seed(at[r], Len(log[target[r]]))
  /\ UNCHANGED <<held, wallet, at>>
  /\ Begin(r)
  /\ UNCHANGED <<database, kind, sender, replies>>

\* Mutant: a session that has a conversation goes on in it.
FirstOnly(old, c) == IF old = None THEN c ELSE old
TakesNew(old, c) == c

(* createConversation, for the walletAddr of before the await.             *)
ConversationCreated(r, c) ==
  /\ pc[r] = "waiting" /\ kind[r] = "new" /\ owner[c] = None
  /\ owner' = [owner EXCEPT ![c] = sender[r]]
  /\ conversation' = [conversation EXCEPT ![at[r]] = TakesNew(@, c)]
  /\ Seed(at[r], 0)
  /\ UNCHANGED <<held, wallet, messages, at>>
  /\ Begin(r)
  /\ UNCHANGED <<deleted, log, kind, sender, replies>>

(* 404 conversation_not_found, or an error of the database: the message    *)
(* and the wallet stay in the session.                                     *)
PostFails(r) ==
  /\ pc[r] = "waiting"
  /\ Goto(r, "unsaved")
  /\ target' = [target EXCEPT ![r] = None]
  /\ UNCHANGED <<session, database, at, kind, sender, replies>>

-----------------------------------------------------------------------------
(* The turn.                                                               *)

\* Mutant: from the first message of the session on.
EverythingOf(s, msgs) == msgs
Unflushed(s, msgs) == SubSeq(msgs, lastPersisted[s] + 1, Len(msgs))

\* Mutant: it counts one message too many.
PastTheEnd(msgs) == Len(msgs) + 1
NewWatermark(msgs) == Len(msgs)

(* persistTurnSoFar: no conversation, or a deleted one, takes no rows.     *)
Flush(s) ==
  LET c == conversation[s]
  IN  /\ c # None /\ c \notin deleted
      /\ log' = [log EXCEPT ![c] = @ \o Unflushed(s, messages'[s])]
      /\ lastPersisted' = [lastPersisted EXCEPT ![s] = NewWatermark(messages'[s])]

NoFlush == UNCHANGED <<log, lastPersisted>>

(* A reply or a result is committed, and flushed if the database will.     *)
Reply(r) ==
  /\ pc[r] = "running" /\ replies[r] < MaxReplies
  /\ replies' = [replies EXCEPT ![r] = @ + 1]
  /\ messages' = [messages EXCEPT ![at[r]] = Append(@, r)]
  /\ Flush(at[r]) \/ NoFlush
  /\ UNCHANGED <<held, wallet, conversation, owner, deleted, pc, at, kind, target,
                 sender>>

(* The turn ends with its last flush, or cut off without one.              *)
End(r) ==
  /\ pc[r] = "running"
  /\ UNCHANGED messages
  /\ Flush(at[r]) \/ NoFlush
  /\ Goto(r, IF lastPersisted'[at[r]] = Len(messages[at[r]]) THEN "saved" ELSE "unsaved")
  /\ UNCHANGED <<held, wallet, conversation, owner, deleted, at, kind, target, sender,
                 replies>>

-----------------------------------------------------------------------------
(* The rest of the API, and time.                                          *)

(* DELETE /conversations/:id: the rows go with it.                         *)
Delete(c, w) ==
  /\ Found(c, w)
  /\ deleted' = deleted \cup {c}
  /\ log' = [log EXCEPT ![c] = <<>>]
  /\ UNCHANGED <<session, owner, request>>

(* GET /conversations/:id?wallet_address=w, for a conversation found.      *)
Shown(c, w) == IF Found(c, w) THEN {log[c][n] : n \in 1 .. Len(log[c])} ELSE {}

(* A lookup finds the session expired.  A turn goes on with the object.    *)
Forget(s) ==
  /\ s \in held
  /\ held' = held \ {s}
  /\ UNCHANGED <<wallet, conversation, messages, lastPersisted, database, request>>

Restart ==
  /\ held' = {}
  /\ pc' = [r \in Requests |-> IF Active(r) THEN "unsaved" ELSE pc[r]]
  /\ UNCHANGED <<wallet, conversation, messages, lastPersisted, database, at, kind,
                 target, sender, replies>>

Post(r) ==
  /\ Arrive(r)
  /\ \E req \in ChatRequest :
       \/ PostRefused(r, req)
       \/ \E s \in Sessions : \/ PostAgent(r, req, s)
                             \/ PostContinue(r, req, s)
                             \/ PostNew(r, req, s)
                             \/ PostOther(r, req, s)

Step(r) ==
  \/ Refuse(r)
  \/ Post(r)
  \/ Loaded(r)
  \/ \E c \in Conversations : ConversationCreated(r, c)
  \/ PostFails(r)
  \/ Reply(r)
  \/ End(r)

RequestsNext ==
  \/ \E r \in Requests : Step(r)
  \/ \E c \in Conversations, w \in Wallets : Delete(c, w)
  \/ \E s \in Sessions : Forget(s)
  \/ Restart

RequestsSpec == RequestsInit /\ [][RequestsNext]_requestVars

-----------------------------------------------------------------------------
(* Properties.                                                             *)

(* The wallet a turn is run for, and its tool calls stamped with, is the   *)
(* one its request was accepted with, and its conversation that wallet's.  *)
(* A request that keeps the session's conversation may keep another's.     *)
TurnIsItsWallets ==
  \A r \in Requests : pc[r] = "running" =>
    /\ wallet[at[r]] = sender[r]
    /\ kind[r] # "keep" => owner[conversation[at[r]]] = sender[r]

(* What a wallet reads in its conversations was said in turns of its own,  *)
(* but for turns that kept the session's conversation or ended unsaved: of *)
(* those a later turn may write the rest.                                  *)
RowsAreTheOwners ==
  \A c \in Conversations, w \in Wallets : \A r \in Shown(c, w) :
    sender[r] = w \/ kind[r] = "keep" \/ pc[r] = "unsaved"

=============================================================================
