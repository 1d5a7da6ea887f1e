-------------------------- MODULE StreamLifecycle ---------------------------
(***************************************************************************)
(* The SSE streams of one session (chat.service.ts: sseResponse,           *)
(* executeMobileTool, emitDelayHint, buildReconnectResponse) and the       *)
(* client's requests about the calls it is asked to run: POST /chat/       *)
(* respond, POST /chat/progress and the empty POST /chat of a reconnect.   *)
(*                                                                         *)
(* Each POST with messages opens a stream that runs one turn.  The stream  *)
(* pulls the turn's generator as fast as it goes; a client that drops the  *)
(* connection makes it queue a generator.return, which the generator obeys *)
(* at its next yield.  The session's fields are shared by all its turns.   *)
(* A settled promise resumes its turn in the same tick of the event loop,  *)
(* so answer and resumption are one step.  Expiry of the session is in     *)
(* SessionStore, the steps of a turn in AgentTurn.                         *)
(***************************************************************************)
EXTENDS Integers, FiniteSets

CONSTANTS
  Turns,   \* POST requests with messages; also their streams
  Calls,   \* tool_call_ids the models of these turns will use
  Timeout, \* MOBILE_RESULT_TIMEOUT_MS, in ticks
  NoTurn   \* no stream

ASSUME TimeoutAssumption == Timeout \in Nat
ASSUME NoTurnAssumption == NoTurn \notin Turns

Undefined == -1

VARIABLES
  pc,         \* of each turn: "new", "running", "suspended" (awaiting the
              \* wallet), "ending" (its closing frame to come) or "over"
  dropped,    \* streams whose client is gone (a generator.return is queued)
  state,      \* session.state
  writer,     \* session.enqueueExternal: the stream it writes to, or NoTurn
  pending,    \* the calls in session.pending and session.pendingPayloads
  left,       \* left[c]: ticks until the timer of a pending call fires
  since,      \* age of session.awaitingMobileSince, or Undefined
  owner,      \* owner[c]: the turn that asked for c, or NoTurn
  hint,       \* hint[c]: "none", "speaking" or "over" (delayHintsSent has c)
  voice,      \* voice[c]: the stream the hint of c captured
  streamed,   \* history: calls delivered by the stream of their turn
  replayed,   \* history: calls delivered by a reconnect
  flagged,    \* history: calls delivered with interrupted_at
  accepted,   \* history: calls whose answer got a 204
  transcript, \* history: calls whose answer was pushed to session.messages
  spoken,     \* history: <<c, t>> when hint text about c reached stream t
  overlapped  \* history: some POST came while the session was not at rest

serverVars == <<pc, dropped, state, writer, pending, left, since, owner, hint, voice>>
historyVars == <<streamed, replayed, flagged, accepted, transcript, spoken, overlapped>>
vars == <<serverVars, historyVars>>

TypeOK ==
  /\ pc \in [Turns -> {"new", "running", "suspended", "ending", "over"}]
  /\ dropped \subseteq Turns
  /\ state \in {"streaming", "awaiting_mobile", "idle"}
  /\ writer \in Turns \cup {NoTurn}
  /\ pending \subseteq Calls
  /\ left \in [Calls -> 0 .. Timeout]
  /\ since \in {Undefined} \cup (0 .. Timeout + 1)
  /\ owner \in [Calls -> Turns \cup {NoTurn}]
  /\ hint \in [Calls -> {"none", "speaking", "over"}]
  /\ voice \in [Calls -> Turns \cup {NoTurn}]
  /\ streamed \subseteq Calls /\ replayed \subseteq Calls /\ flagged \subseteq replayed
  /\ accepted \subseteq Calls /\ transcript \subseteq Calls
  /\ spoken \subseteq Calls \X Turns
  /\ overlapped \in BOOLEAN

Init ==
  /\ pc = [t \in Turns |-> "new"]
  /\ dropped = {}
  /\ state = "idle"
  /\ writer = NoTurn
  /\ pending = {}
  /\ left = [c \in Calls |-> Timeout]
  /\ since = Undefined
  /\ owner = [c \in Calls |-> NoTurn]
  /\ hint = [c \in Calls |-> "none"]
  /\ voice = [c \in Calls |-> NoTurn]
  /\ streamed = {} /\ replayed = {} /\ flagged = {}
  /\ accepted = {} /\ transcript = {}
  /\ spoken = {}
  /\ overlapped = FALSE

-----------------------------------------------------------------------------
(* Streams.                                                                *)

Active(t) == pc[t] \in {"running", "suspended", "ending"}
IsOpen(t) == t \in Turns /\ Active(t) /\ t \notin dropped
AtRest == pending = {} /\ \A t \in Turns : ~Active(t)

ClearWriter == writer' = NoTurn

(* POST /chat with messages, or POST /agents/:id: the stream is started    *)
(* and its turn runs up to its first frame.                                *)
Post(t) ==
  /\ pc[t] = "new"
  /\ pc' = [pc EXCEPT ![t] = "running"]
  /\ state' = "streaming"
  /\ writer' = t
  /\ overlapped' = (overlapped \/ ~AtRest)
  /\ UNCHANGED <<dropped, pending, left, since, owner, hint, voice, streamed, replayed,
                 flagged, accepted, transcript, spoken>>

\* Mutant: the generator stops wherever it is.
StopAtOnce(t) == [pc EXCEPT ![t] = "over"]
StopAtNextYield(t) == pc

(* The client's connection goes away: the stream is cancelled.             *)
Drop(t) ==
  /\ IsOpen(t)
  /\ dropped' = dropped \cup {t}
  /\ ClearWriter
  /\ pc' = StopAtNextYield(t)
  /\ UNCHANGED <<state, pending, left, since, owner, hint, voice, historyVars>>

(* The queued return: the turn is over and the stream's finally has run.   *)
Cut(t) ==
  /\ pc[t] = "running"
  /\ t \in dropped
  /\ pc' = [pc EXCEPT ![t] = "over"]
  /\ ClearWriter
  /\ UNCHANGED <<dropped, state, pending, left, since, owner, hint, voice, historyVars>>

(* The turn is done, or ends with an error of its own.  Core's failures    *)
(* leave the state as it is.                                               *)
Finish(t) ==
  /\ pc[t] = "running"
  /\ pc' = [pc EXCEPT ![t] = "ending"]
  /\ state' \in {"idle", state}
  /\ UNCHANGED <<dropped, writer, pending, left, since, owner, hint, voice, historyVars>>

(* The closing frame, sent or dropped, and the stream's finally.           *)
Close(t) ==
  /\ pc[t] = "ending"
  /\ pc' = [pc EXCEPT ![t] = "over"]
  /\ ClearWriter
  /\ UNCHANGED <<dropped, state, pending, left, since, owner, hint, voice, historyVars>>

-----------------------------------------------------------------------------
(* A call to the wallet.                                                   *)

(* executeMobileTool: register, stamp, yield tool_pending.  A cut turn     *)
(* leaves the call registered and nothing delivered.                       *)
Ask(t, c) ==
  /\ pc[t] = "running"
  /\ owner[c] = NoTurn
  /\ owner' = [owner EXCEPT ![c] = t]
  /\ pending' = pending \cup {c}
  /\ state' = "awaiting_mobile"
  /\ since' = IF since = Undefined THEN 0 ELSE since
  /\ IF t \in dropped
     THEN pc' = [pc EXCEPT ![t] = "over"] /\ ClearWriter /\ UNCHANGED streamed
     ELSE /\ pc' = [pc EXCEPT ![t] = "suspended"]
          /\ streamed' = streamed \cup {c}
          /\ UNCHANGED writer
  /\ UNCHANGED <<dropped, left, hint, voice, replayed, flagged, accepted, transcript,
                 spoken, overlapped>>

Awaits(t, c) == pc[t] = "suspended" /\ owner[c] = t
Awaited(c) == \E t \in Turns : Awaits(t, c)

Unregister(c) ==
  /\ pending' = pending \ {c}
  /\ left' = [left EXCEPT ![c] = Timeout]

\* Mutant: the session stays in awaiting_mobile.
StayAwaiting == state
(* The state when an entry has gone and no turn takes over.                *)
IdleIfNoneLeft ==
  IF pending' = {} /\ state = "awaiting_mobile" THEN "idle" ELSE state

Delivered == streamed \cup replayed

\* Mutant: the stamp outlives the answer.
KeepStamp == UNCHANGED since
ClearStamp == since' = Undefined

(* POST /chat/respond.  A replay or a late answer gets a 409 and changes   *)
(* nothing.  The awaiting turn pushes the result and goes on.              *)
Respond(c) ==
  /\ c \in Delivered
  /\ c \in pending
  /\ Unregister(c)
  /\ accepted' = accepted \cup {c}
  /\ IF Awaited(c)
     THEN /\ pc' = [t \in Turns |-> IF Awaits(t, c) THEN "running" ELSE pc[t]]
          /\ transcript' = transcript \cup {c}
          /\ ClearStamp
          /\ state' = "streaming"
     ELSE state' = IdleIfNoneLeft /\ UNCHANGED <<pc, transcript, since>>
  /\ UNCHANGED <<dropped, writer, owner, hint, voice, streamed, replayed, flagged, spoken,
                 overlapped>>

\* Mutant: the entry is dropped and the promise not rejected.
NotRejected(c) == pc
LosersEnd(c) == [t \in Turns |-> IF Awaits(t, c) THEN "ending" ELSE pc[t]]

Due(c) == c \in pending /\ left[c] = 0

(* The timer: the awaiting turn goes idle and ends with an error frame.    *)
(* awaitingMobileSince is left as it is.                                   *)
Expire(c) ==
  /\ Due(c)
  /\ Unregister(c)
  /\ state' = IF Awaited(c) THEN "idle" ELSE IdleIfNoneLeft
  /\ pc' = LosersEnd(c)
  /\ UNCHANGED <<dropped, writer, since, owner, hint, voice, historyVars>>

-----------------------------------------------------------------------------
(* Reconnect.                                                              *)

InterruptedAt == since > Timeout

(* POST /chat with no messages: the pending calls are delivered again, all *)
(* of them flagged or none, and the reply ends.                            *)
Reconnect ==
  /\ state = "awaiting_mobile"
  /\ replayed' = replayed \cup pending
  /\ flagged' = IF InterruptedAt THEN flagged \cup pending ELSE flagged
  /\ UNCHANGED <<serverVars, streamed, accepted, transcript, spoken, overlapped>>

-----------------------------------------------------------------------------
(* Delay hints.                                                            *)

CapturedVoice(c) == voice[c]

Speak(c) ==
  spoken' = IF IsOpen(CapturedVoice(c)) THEN spoken \cup {<<c, CapturedVoice(c)>>}
                                        ELSE spoken

hintUnchanged == <<pc, dropped, state, writer, pending, left, since, owner, streamed,
                   replayed, flagged, accepted, transcript, overlapped>>

(* POST /chat/progress: one hint per call, into the stream open now.       *)
Progress(c) ==
  /\ c \in Delivered
  /\ c \in pending
  /\ hint[c] = "none"
  /\ hint' = [hint EXCEPT ![c] = IF writer = NoTurn THEN "over" ELSE "speaking"]
  /\ voice' = [voice EXCEPT ![c] = writer]
  /\ spoken' = IF writer = NoTurn THEN spoken ELSE spoken \cup {<<c, writer>>}
  /\ UNCHANGED hintUnchanged

(* A chunk of the hint's model, while the call is still pending.           *)
HintChunk(c) ==
  /\ hint[c] = "speaking"
  /\ c \in pending
  /\ Speak(c)
  /\ UNCHANGED <<hint, voice, hintUnchanged>>

HintEnds(c) ==
  /\ hint[c] = "speaking"
  /\ hint' = [hint EXCEPT ![c] = "over"]
  /\ UNCHANGED <<voice, spoken, hintUnchanged>>

(* The hint's model fails: a fixed line is sent, pending or not.           *)
HintFails(c) ==
  /\ hint[c] = "speaking"
  /\ Speak(c)
  /\ hint' = [hint EXCEPT ![c] = "over"]
  /\ UNCHANGED <<voice, hintUnchanged>>

-----------------------------------------------------------------------------
(* Time.  A timer that is due runs before time goes on.                    *)
Tick ==
  /\ ~ \E c \in Calls : Due(c)
  /\ left' = [c \in Calls |-> IF c \in pending THEN left[c] - 1 ELSE left[c]]
  /\ since' = IF since = Undefined \/ since > Timeout THEN since ELSE since + 1
  /\ UNCHANGED <<pc, dropped, state, writer, pending, owner, hint, voice, historyVars>>

TurnStep(t) == Cut(t) \/ Finish(t) \/ Close(t) \/ \E c \in Calls : Ask(t, c)

ClientStep ==
  \/ \E t \in Turns : Post(t) \/ Drop(t)
  \/ \E c \in Calls : Respond(c) \/ Progress(c)
  \/ Reconnect

HintStep(c) == HintChunk(c) \/ HintEnds(c) \/ HintFails(c)

Next ==
  \/ ClientStep
  \/ \E t \in Turns : TurnStep(t)
  \/ \E c \in Calls : Expire(c) \/ HintStep(c)
  \/ Tick

Spec == Init /\ [][Next]_vars

(* Time passes, timers fire and the turns run on (TurnEnds of AgentTurn);  *)
(* nothing is assumed of the client.                                       *)
FairSpec ==
  /\ Spec
  /\ WF_vars(Tick)
  /\ \A c \in Calls : WF_vars(Expire(c))
  /\ \A t \in Turns : WF_vars(TurnStep(t))

-----------------------------------------------------------------------------
(* Properties.                                                             *)

(* For a client that starts a turn only when the session is at rest, the   *)
(* state tells a reconnect the truth: it replays whenever something is     *)
(* pending, also what a cut turn left behind, and only then.               *)
ReplayComplete ==
  ~overlapped => (state = "awaiting_mobile" <=> pending # {})

(* enqueueExternal never writes to a stream that is gone, and when turns   *)
(* do not overlap it writes to the one that is open, whichever streams     *)
(* were dropped or closed before.                                          *)
WriterIsCurrent ==
  /\ writer # NoTurn => IsOpen(writer)
  /\ ~overlapped => \A t \in Turns : IsOpen(t) => writer = t

(* An answer that is accepted for a call which came over its turn's own    *)
(* stream reaches the transcript, also when the stream was dropped since,  *)
(* and whatever other turns do.                                            *)
StreamedIsHeard == accepted \cap streamed \subseteq transcript

(* Hint text about a call is only put in the stream of the turn that asked *)
(* for it, however late the hint's model is.                               *)
HintInOwnStream ==
  ~overlapped => \A h \in spoken : owner[h[1]] = h[2]

(* The session comes to rest again and again: every turn ends and every    *)
(* call is settled, though the client may never come back.                 *)
RestsAgain == []<>AtRest

(* A reconnect marks a call that the wallet may still answer as            *)
(* interrupted only if an earlier call of the session was lost: it timed   *)
(* out, or was answered when its turn had been cut off.  The stamp of such *)
(* a call is never cleared; that of a call that was heard always is.       *)
LiveFlagNeedsLostCall ==
  \A c \in flagged : c \in pending /\ left[c] > 0 =>
    \E d \in Calls \ {c} :
      owner[d] # NoTurn /\ d \notin pending /\ d \notin transcript

=============================================================================
