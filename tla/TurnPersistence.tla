-------------------------- MODULE TurnPersistence ---------------------------
(***************************************************************************)
(* How a session's transcript reaches the conversation log: the POST       *)
(* handlers of chat.controller.ts and agents/agent.controller.ts, the      *)
(* watermark of chat.service.ts (prepareTurnWatermark, persistTurnSoFar)   *)
(* and the two writes of ConversationService.appendMessages.               *)
(*                                                                         *)
(* A message is a number, in the order the messages came into being, so a  *)
(* faithful transcript is an increasing sequence.  One session at a time;  *)
(* every await is a point where another turn of the session may run.       *)
(***************************************************************************)
EXTENDS Integers, Sequences, FiniteSets

CONSTANTS
  Turns,          \* POST requests
  MaxMessages,    \* messages ever made: a bound
  RoundTrip,      \* the least time of a database round trip, in ms
  OneAtATime,     \* the client sends no POST while a turn of the session runs
  LoadsFreshOnly  \* it names a conversation_id only without a live session

ASSUME BoundsAssumption == MaxMessages \in Nat /\ RoundTrip \in Nat
ASSUME SwitchesAssumption == {OneAtATime, LoadsFreshOnly} \subseteq BOOLEAN

Undefined == -1
NoConversation == 0

VARIABLES
  session,       \* is there a live session
  messages,      \* Session.messages
  lastPersisted, \* Session.lastPersistedIndex
  conversation,  \* Session.conversationId
  created,       \* conversations are numbered 1 .. created
  log,           \* the message rows, in insertion order
  pc,            \* of each turn
  flush,         \* the slice a turn is writing, its conversation and base time
  ending,        \* the turns whose flush is their last
  sent,          \* messages made so far
  now,           \* Date.now()
  floor,         \* history: the watermark the session was seeded with
  halfWritten    \* history: messages whose insert was not followed by its update

vars == <<session, messages, lastPersisted, conversation, created, log, pc, flush,
          ending, sent, now, floor, halfWritten>>

Messages == 1 .. MaxMessages
Conversations == 1 .. created
Rows == [conv : Nat, msg : Messages, at : Nat]
Flushes == [conv : Nat, msgs : Seq(Messages), base : Nat]
NoFlush == [conv |-> NoConversation, msgs |-> <<>>, base |-> 0]

TypeOK ==
  /\ session \in BOOLEAN
  /\ messages \in Seq(Messages)
  /\ lastPersisted \in {Undefined} \cup (0 .. Len(messages))
  /\ conversation \in Nat
  /\ created \in Nat
  /\ log \in Seq(Rows)
  /\ pc \in [Turns -> {"new", "loading", "creating", "running", "inserting",
                       "touching", "done"}]
  /\ flush \in [Turns -> Flushes]
  /\ ending \subseteq Turns
  /\ sent \in 0 .. MaxMessages
  /\ now \in Nat
  /\ floor \in Nat
  /\ halfWritten \subseteq Messages

Init ==
  /\ session = FALSE
  /\ messages = <<>>
  /\ lastPersisted = Undefined
  /\ conversation = NoConversation
  /\ created = 0
  /\ log = <<>>
  /\ pc = [t \in Turns |-> "new"]
  /\ flush = [t \in Turns |-> NoFlush]
  /\ ending = {}
  /\ sent = 0
  /\ now = 0
  /\ floor = 0
  /\ halfWritten = {}

-----------------------------------------------------------------------------
(* POST.                                                                   *)

Active(t) == pc[t] \notin {"new", "done"}
Goto(t, place) == pc' = [pc EXCEPT ![t] = place]

(* Resolve or create the session and push the user's message.              *)
Accept(t) ==
  /\ pc[t] = "new"
  /\ OneAtATime => ~ \E u \in Turns : Active(u)
  /\ sent < MaxMessages
  /\ sent' = sent + 1
  /\ session' = TRUE
  /\ messages' = Append(messages, sent + 1)

(* prepareTurnWatermark: only a session never seeded takes the value.      *)
Seed(n) ==
  IF lastPersisted = Undefined
  THEN lastPersisted' = n /\ floor' = n
  ELSE UNCHANGED <<lastPersisted, floor>>

(* POST /chat that continues a conversation: its rows are awaited.         *)
PostContinue(t, c) ==
  /\ LoadsFreshOnly => ~session
  /\ Accept(t)
  /\ Goto(t, "loading")
  /\ flush' = [flush EXCEPT ![t].conv = c]
  /\ UNCHANGED <<lastPersisted, conversation, created, log, ending, now, floor,
                 halfWritten>>

(* POST /chat with no conversation_id: a new conversation row is awaited.  *)
PostNew(t) ==
  /\ Accept(t)
  /\ Goto(t, "creating")
  /\ UNCHANGED <<lastPersisted, conversation, created, log, flush, ending, now,
                 floor, halfWritten>>

(* POST /agents/:id touches no conversation and starts the turn at once.   *)
PostAgent(t) ==
  /\ Accept(t)
  /\ Goto(t, "running")
  /\ Seed(Len(messages'))
  /\ UNCHANGED <<conversation, created, log, flush, ending, now, halfWritten>>

RowsOf(c) == {r \in 1 .. Len(log) : log[r].conv = c}
Tied(c) == {r \in RowsOf(c) : \E q \in RowsOf(c) \ {r} : log[q].at = log[r].at}

(* The rows of a conversation ordered by createdAt, the ties by `tie`.     *)
Reload(c, tie) ==
  LET Before(q, r) == \/ log[q].at < log[r].at
                      \/ log[q].at = log[r].at /\ q # r /\ tie[q] < tie[r]
      Place(r) == 1 + Cardinality({q \in RowsOf(c) : Before(q, r)})
  IN  [i \in 1 .. Cardinality(RowsOf(c)) |->
         log[CHOOSE r \in RowsOf(c) : Place(r) = i].msg]

(* What the database may return: it orders ties as it likes.               *)
Reloads(c) ==
  {Reload(c, tie) : tie \in {f \in [Tied(c) -> 1 .. Cardinality(Tied(c))] :
                               \A q, r \in Tied(c) : f[q] = f[r] => q = r}}

\* Mutant: the rows are put after the new messages.
PushAfter(prior, msgs) == msgs \o prior
Prepend(prior, msgs) == prior \o msgs

Loaded(t, prior) ==
  /\ pc[t] = "loading"
  /\ messages' = Prepend(prior, messages)
  /\ conversation' = flush[t].conv
  /\ Seed(Len(prior))
  /\ flush' = [flush EXCEPT ![t] = NoFlush]
  /\ Goto(t, "running")
  /\ UNCHANGED <<session, created, log, ending, sent, now, halfWritten>>

ConversationCreated(t) ==
  /\ pc[t] = "creating"
  /\ created' = created + 1
  /\ conversation' = created + 1
  /\ Seed(0)
  /\ Goto(t, "running")
  /\ UNCHANGED <<session, messages, log, flush, ending, sent, now, halfWritten>>

(* 404 or a database error: no turn runs, the message stays in the session.*)
PostFails(t) ==
  /\ pc[t] \in {"loading", "creating"}
  /\ flush' = [flush EXCEPT ![t] = NoFlush]
  /\ Goto(t, "done")
  /\ UNCHANGED <<session, messages, lastPersisted, conversation, created, log, ending,
                 sent, now, floor, halfWritten>>

-----------------------------------------------------------------------------
(* The turn: push a message and flush, until it ends.                      *)

Times == {log[n].at : n \in 1 .. Len(log)}
(* Every createdAt from now on that can tie with a row, and one that can't.*)
Bases == now .. (CHOOSE m \in {now} \cup {x + 1 : x \in Times} :
                   \A x \in {now} \cup {y + 1 : y \in Times} : m >= x)

Resume(t, last) == Goto(t, IF last THEN "done" ELSE "running")

(* persistTurnSoFar up to its first await, on the session's messages.      *)
StartFlush(t, last) ==
  IF conversation = NoConversation \/ lastPersisted >= Len(messages')
  THEN /\ Resume(t, last)
       /\ UNCHANGED <<flush, ending, now>>
  ELSE /\ Goto(t, "inserting")
       /\ \E base \in Bases :
            /\ flush' = [flush EXCEPT ![t] =
                 [conv |-> conversation, base |-> base,
                  msgs |-> SubSeq(messages', lastPersisted + 1, Len(messages'))]]
            /\ now' = base
       /\ ending' = IF last THEN ending \cup {t} ELSE ending

(* An assistant message or a tool result is committed and flushed.         *)
Commit(t) ==
  /\ pc[t] = "running"
  /\ sent < MaxMessages
  /\ sent' = sent + 1
  /\ messages' = Append(messages, sent + 1)
  /\ StartFlush(t, FALSE)
  /\ UNCHANGED <<session, lastPersisted, conversation, created, log, floor,
                 halfWritten>>

(* `done` comes after a last flush.                                        *)
Finish(t) ==
  /\ pc[t] = "running"
  /\ UNCHANGED messages
  /\ StartFlush(t, TRUE)
  /\ UNCHANGED <<session, lastPersisted, conversation, created, log, sent, floor,
                 halfWritten>>

(* The turn ends unflushed: an error exit, or its client cut it off.       *)
Stop(t) ==
  /\ pc[t] = "running"
  /\ Goto(t, "done")
  /\ UNCHANGED <<session, messages, lastPersisted, conversation, created, log, flush,
                 ending, sent, now, floor, halfWritten>>

-----------------------------------------------------------------------------
(* appendMessages.                                                         *)

\* Mutant: every row of a slice gets the same time.
SameTime(base, n) == base
CreatedAt(base, n) == base + n - 1

(* createManyMessages: one INSERT, all the rows or none.                   *)
InsertRows(t) ==
  /\ pc[t] = "inserting"
  /\ log' = log \o [n \in 1 .. Len(flush[t].msgs) |->
                      [conv |-> flush[t].conv, msg |-> flush[t].msgs[n],
                       at |-> CreatedAt(flush[t].base, n)]]
  /\ now' = IF flush[t].base + RoundTrip > now THEN flush[t].base + RoundTrip ELSE now
  /\ Goto(t, "touching")
  /\ UNCHANGED <<session, messages, lastPersisted, conversation, created, flush,
                 ending, sent, floor, halfWritten>>

FlushEnds(t) ==
  /\ Resume(t, t \in ending)
  /\ ending' = ending \ {t}
  /\ flush' = [flush EXCEPT ![t] = NoFlush]
  /\ UNCHANGED <<session, messages, conversation, created, log, sent, now, floor>>

\* Mutant: the watermark is left where it was.
OldWatermark == lastPersisted
NewWatermark == Len(messages)

(* updateConversation returns: the watermark moves to where messages is by *)
(* now, not to where the slice ended.                                      *)
FlushSucceeds(t) ==
  /\ pc[t] = "touching"
  /\ lastPersisted' = NewWatermark
  /\ FlushEnds(t)
  /\ UNCHANGED halfWritten

\* Mutant: the watermark moves in a `finally`.
AdvanceAnyway == lastPersisted' = Len(messages)
KeepWatermark == UNCHANGED lastPersisted

(* Either write fails: logged and swallowed.                               *)
InsertFails(t) ==
  /\ pc[t] = "inserting"
  /\ KeepWatermark
  /\ FlushEnds(t)
  /\ UNCHANGED halfWritten

TouchFails(t) ==
  /\ pc[t] = "touching"
  /\ KeepWatermark
  /\ halfWritten' = halfWritten \cup {flush[t].msgs[n] : n \in 1 .. Len(flush[t].msgs)}
  /\ FlushEnds(t)

(* Restart, or eviction of an idle session: what is not in the log is gone.*)
LoseSession ==
  /\ session
  /\ session' = FALSE
  /\ messages' = <<>>
  /\ lastPersisted' = Undefined
  /\ conversation' = NoConversation
  /\ pc' = [t \in Turns |-> IF Active(t) THEN "done" ELSE pc[t]]
  /\ flush' = [t \in Turns |-> NoFlush]
  /\ ending' = {}
  /\ floor' = 0
  /\ UNCHANGED <<created, log, sent, now, halfWritten>>

TurnStep(t) ==
  \/ \E c \in Conversations : PostContinue(t, c)
  \/ PostNew(t)
  \/ PostAgent(t)
  \/ pc[t] = "loading" /\ \E prior \in Reloads(flush[t].conv) : Loaded(t, prior)
  \/ ConversationCreated(t)
  \/ PostFails(t)
  \/ Commit(t)
  \/ Finish(t)
  \/ Stop(t)
  \/ InsertRows(t)
  \/ InsertFails(t)
  \/ FlushSucceeds(t)
  \/ TouchFails(t)

Next == LoseSession \/ \E t \in Turns : TurnStep(t)

Spec == Init /\ [][Next]_vars

-----------------------------------------------------------------------------
(* Properties.                                                             *)

(* A message below the watermark is in the log, so a crash in the middle   *)
(* of a turn costs at most what was never flushed.  Messages that were in  *)
(* the session before the watermark was seeded are not the log's concern.  *)
NothingLost ==
  \A n \in floor + 1 .. lastPersisted :
    \E r \in 1 .. Len(log) : log[r].msg = messages[n]

(* No message is written twice, over flushes, turns, failures of the       *)
(* insert, restarts and reloads of the conversation, unless the update     *)
(* after its insert failed.                                                *)
ExactlyOnce ==
  \A r, q \in 1 .. Len(log) :
    log[r].msg = log[q].msg /\ log[r].msg \notin halfWritten => r = q

(* Ordered by createdAt a conversation reads in the order it happened: a   *)
(* tool result never comes before the assistant message that called it.    *)
ReloadInOrder ==
  \A r, q \in 1 .. Len(log) :
    /\ log[r].conv = log[q].conv
    /\ {log[r].msg, log[q].msg} \cap halfWritten = {}
    /\ log[r].msg < log[q].msg
    => log[r].at < log[q].at

(* What the model is shown is the conversation in order, nothing repeated. *)
TranscriptInOrder ==
  \A m, n \in 1 .. Len(messages) :
    m < n /\ {messages[m], messages[n]} \cap halfWritten = {}
    => messages[m] < messages[n]

=============================================================================
