---------------------------- MODULE SessionStore ----------------------------
(***************************************************************************)
(* session/session.service.ts: the in-memory session map and the one-shot  *)
(* rendezvous between an agent turn (awaitMobileResult) and the wallet     *)
(* (POST /chat/respond -> resolveMobileResult).                            *)
(*                                                                         *)
(* JavaScript runs to completion: a handler or a timer callback is one     *)
(* step, and the `.finally(cleanup)` microtasks it leaves behind run, one  *)
(* step each, before the next handler or timer (Quiescent).  Time is kept  *)
(* relative: `age` counts since last_active, `left` down to the deadline.  *)
(***************************************************************************)
EXTENDS Integers, FiniteSets

CONSTANTS
  Sessions,    \* session ids (randomUUID: an id is never used twice)
  Calls,       \* tool_call_id values, chosen by the model provider
  Rounds,      \* how many times one (session, call) may be awaited: a bound
  Timeout,     \* MOBILE_RESULT_TIMEOUT_MS, in clock ticks
  TTL,         \* SESSION_TTL_MS, in clock ticks
  Lateness     \* how late the event loop may run a due timer, in ticks

ASSUME BoundsAssumption ==
  /\ Rounds \in Nat
  /\ Timeout \in Nat
  /\ TTL \in Nat
  /\ Lateness \in Nat

(* The two constants of the code leave room for a late timer: 5 < 15 min.  *)
ASSUME TimeoutBeforeTTL == Timeout + Lateness =< TTL

(* One Deferred per registration; <<s, c, n>> is the n-th await of call c. *)
Deferreds == Sessions \X Calls \X (1 .. Rounds)
SessionOf(d) == d[1]
Key(d) == <<d[1], d[2]>>

VARIABLES
  phase,     \* phase[s]: "absent", "stored" (in the Map) or "evicted"
  state,     \* Session.state
  age,       \* ticks since Session.last_active, capped just above TTL
  pending,   \* the Deferreds held by the sessions' `pending` maps
  payloads,  \* the <<session, call>> keys of the `pendingPayloads` maps
  status,    \* of each Deferred's promise
  armed,     \* Deferreds whose setTimeout is still set
  left,      \* ticks to the deadline of an armed timer, else Timeout
  finals     \* Deferreds whose .finally callback is queued

vars == <<phase, state, age, pending, payloads, status, armed, left, finals>>

Settled == {"resolved", "rejected"}

TypeOK ==
  /\ phase \in [Sessions -> {"absent", "stored", "evicted"}]
  /\ state \in [Sessions -> {"streaming", "awaiting_mobile", "idle"}]
  /\ age \in [Sessions -> 0 .. TTL + 1]
  /\ pending \subseteq Deferreds
  /\ payloads \subseteq Sessions \X Calls
  /\ status \in [Deferreds -> {"unused", "waiting"} \cup Settled]
  /\ armed \subseteq Deferreds
  /\ left \in [Deferreds -> (-Lateness) .. Timeout]
  /\ finals \subseteq Deferreds

Init ==
  /\ phase = [s \in Sessions |-> "absent"]
  /\ state = [s \in Sessions |-> "idle"]
  /\ age = [s \in Sessions |-> 0]
  /\ pending = {}
  /\ payloads = {}
  /\ status = [d \in Deferreds |-> "unused"]
  /\ armed = {}
  /\ left = [d \in Deferreds |-> Timeout]
  /\ finals = {}

-----------------------------------------------------------------------------
(* Helpers.                                                                *)

Quiescent == finals = {}
Stored(s) == phase[s] = "stored"
Expired(s) == age[s] > TTL
\* Mutant: last_active is never refreshed.
NoTouch(s) == UNCHANGED age
Touch(s) == age' = [age EXCEPT ![s] = 0]
HasPending(s) == \E d \in pending : SessionOf(d) = s

(* resolve/reject of a promise: only the first one counts, and the promise *)
(* then queues the .finally of its await.                                  *)
Settle(D, outcome) ==
  /\ status' = [d \in Deferreds |->
                  IF d \in D /\ status[d] = "waiting" THEN outcome ELSE status[d]]
  /\ finals' = finals \cup {d \in D : status[d] = "waiting"}

(* The common tail of cleanup and resolveMobileResult: drop the entry of   *)
(* one call id, whichever Deferred it holds, and go idle when none is left.*)
DropEntry(s, c) ==
  /\ pending' = {d \in pending : Key(d) # <<s, c>>}
  /\ payloads' = payloads \ {<<s, c>>}
  /\ state' = [state EXCEPT ![s] =
                 IF @ = "awaiting_mobile" /\ ~ \E d \in pending' : SessionOf(d) = s
                 THEN "idle" ELSE @]

\* Mutant: the maps are cleared without rejecting what they hold.
EvictUnsettled(S) ==
  /\ pending' = {d \in pending : SessionOf(d) \notin S}
  /\ payloads' = {k \in payloads : k[1] \notin S}
  /\ phase' = [s \in Sessions |-> IF s \in S THEN "evicted" ELSE phase[s]]
  /\ UNCHANGED <<state, age, status, armed, left, finals>>

(* evict, for a set of sessions: every pending Deferred is rejected.       *)
Evict(S) ==
  /\ Settle({d \in pending : SessionOf(d) \in S}, "rejected")
  /\ pending' = {d \in pending : SessionOf(d) \notin S}
  /\ payloads' = {k \in payloads : k[1] \notin S}
  /\ phase' = [s \in Sessions |-> IF s \in S THEN "evicted" ELSE phase[s]]
  /\ UNCHANGED <<state, age, armed, left>>

-----------------------------------------------------------------------------
(* Operations of SessionService, each a synchronous call.                  *)

Create(s) ==
  /\ Quiescent
  /\ phase[s] = "absent"
  /\ phase' = [phase EXCEPT ![s] = "stored"]
  /\ state' = [state EXCEPT ![s] = "idle"]
  /\ Touch(s)
  /\ UNCHANGED <<pending, payloads, status, armed, left, finals>>

(* What get, awaitMobileResult and resolveMobileResult do first: an expired *)
(* session is evicted and the caller told it is gone.                      *)
LazyEvict(s) ==
  /\ Quiescent
  /\ Stored(s)
  /\ Expired(s)
  /\ Evict({s})

Get(s) ==
  /\ Quiescent
  /\ Stored(s)
  /\ ~Expired(s)
  /\ Touch(s)
  /\ UNCHANGED <<phase, state, pending, payloads, status, armed, left, finals>>

(* The Deferred a registration makes: the lowest of its call not used yet. *)
Fresh(d) ==
  /\ status[d] = "unused"
  /\ \A n \in 1 .. Rounds : n < d[3] => status[<<d[1], d[2], n>>] # "unused"

\* Mutant: no duplicate check.
AnyCall(d) == TRUE
NotYetPending(d) == \A e \in pending : Key(e) # Key(d)

AwaitMobileResult(d) ==
  /\ Quiescent
  /\ Fresh(d)
  /\ Stored(SessionOf(d))
  /\ ~Expired(SessionOf(d))
  /\ NotYetPending(d)
  /\ pending' = pending \cup {d}
  /\ payloads' = payloads \cup {Key(d)}
  /\ state' = [state EXCEPT ![SessionOf(d)] = "awaiting_mobile"]
  /\ Touch(SessionOf(d))
  /\ status' = [status EXCEPT ![d] = "waiting"]
  /\ armed' = armed \cup {d}
  /\ UNCHANGED <<phase, left, finals>>

(* The wallet's answer; with no entry for the call it throws (a replay).   *)
ResolveMobileResult(s, c) ==
  /\ Quiescent
  /\ Stored(s)
  /\ ~Expired(s)
  /\ \E d \in pending :
       /\ Key(d) = <<s, c>>
       /\ Settle({d}, "resolved")
  /\ DropEntry(s, c)
  /\ Touch(s)
  /\ UNCHANGED <<phase, armed, left>>

(* cleanup(sessionId), delete(sessionId) and sweep().                      *)
CleanupSession(s) ==
  /\ Quiescent
  /\ Stored(s)
  /\ Settle({d \in pending : SessionOf(d) = s}, "rejected")
  /\ pending' = {d \in pending : SessionOf(d) # s}
  /\ payloads' = {k \in payloads : k[1] # s}
  /\ state' = [state EXCEPT ![s] = "idle"]
  /\ Touch(s)
  /\ UNCHANGED <<phase, armed, left>>

Delete(s) ==
  /\ Quiescent
  /\ Stored(s)
  /\ Evict({s})

Sweep ==
  /\ Quiescent
  /\ Evict({s \in Sessions : Stored(s) /\ Expired(s)})

-----------------------------------------------------------------------------
(* Callbacks of one registration.                                          *)

(* setTimeout's callback; a due timer may run up to Lateness ticks late.   *)
TimerFires(d) ==
  /\ Quiescent
  /\ d \in armed
  /\ left[d] =< 0
  /\ armed' = armed \ {d}
  /\ IF \E e \in pending : Key(e) = Key(d)
     THEN /\ DropEntry(d[1], d[2])
          /\ Settle({d}, "rejected")
     ELSE UNCHANGED <<pending, payloads, state, status, finals>>
  /\ left' = [left EXCEPT ![d] = Timeout]
  /\ UNCHANGED <<phase, age>>

(* `.finally(cleanup)`: clears the timer and drops the call's entry again. *)
RunFinally(d) ==
  /\ d \in finals
  /\ finals' = finals \ {d}
  /\ armed' = armed \ {d}
  /\ left' = [left EXCEPT ![d] = Timeout]
  /\ DropEntry(d[1], d[2])
  /\ UNCHANGED <<phase, age, status>>

-----------------------------------------------------------------------------
(* The environment: the turns that share the session object, and time.     *)

(* ChatService writes `session.state` itself, evicted session or not.      *)
TurnSetsState(s, new) ==
  /\ Quiescent
  /\ phase[s] # "absent"
  /\ state' = [state EXCEPT ![s] = new]
  /\ UNCHANGED <<phase, age, pending, payloads, status, armed, left, finals>>

Tick ==
  /\ Quiescent
  /\ \A d \in armed : left[d] > -Lateness
  /\ age' = [s \in Sessions |->
               IF Stored(s) /\ age[s] =< TTL THEN age[s] + 1 ELSE age[s]]
  /\ left' = [d \in Deferreds |-> IF d \in armed THEN left[d] - 1 ELSE left[d]]
  /\ UNCHANGED <<phase, state, pending, payloads, status, armed, finals>>

SessionStep(s) ==
  \/ Create(s)
  \/ LazyEvict(s)
  \/ Get(s)
  \/ \E c \in Calls : ResolveMobileResult(s, c)
  \/ CleanupSession(s)
  \/ Delete(s)
  \/ \E new \in {"streaming", "idle"} : TurnSetsState(s, new)

CallStep(d) ==
  \/ AwaitMobileResult(d)
  \/ TimerFires(d)
  \/ RunFinally(d)

Next ==
  \/ \E s \in Sessions : SessionStep(s)
  \/ \E d \in Deferreds : CallStep(d)
  \/ Sweep
  \/ Tick

Spec == Init /\ [][Next]_vars

(* The event loop runs every queued microtask and every due timer, and     *)
(* time passes; nothing says the wallet answers or that anyone calls in.   *)
Fairness ==
  /\ WF_vars(Tick)
  /\ \A d \in Deferreds : WF_vars(TimerFires(d)) /\ WF_vars(RunFinally(d))

FairSpec == Spec /\ Fairness

-----------------------------------------------------------------------------
(* Properties.                                                             *)

WaitingIsPending == \A d \in Deferreds : status[d] = "waiting" <=> d \in pending
OneEntryPerCall == \A d, e \in pending : Key(d) = Key(e) => d = e
PayloadsMatch == payloads = {Key(d) : d \in pending}
TimersCover == pending \subseteq armed /\ armed \subseteq pending \cup finals

(* A call someone waits for is exactly a call the store can still answer:  *)
(* one entry per call id, its payload kept for a reconnect, its timer set. *)
(* A promise dropped from the map unsettled, a payload outliving its call, *)
(* or a timer outliving its promise by more than a microtask, breaks it.   *)
AnswerableIffWaiting ==
  /\ WaitingIsPending
  /\ OneEntryPerCall
  /\ PayloadsMatch
  /\ TimersCover

(* TTL eviction never cuts off a call the wallet still has time to answer: *)
(* the mobile timeout always fires first, whatever else touches the        *)
(* session.  Evicted sessions hold nothing.                                *)
ExpiryCutsNoCall ==
  \A d \in pending : Stored(SessionOf(d)) /\ ~Expired(SessionOf(d))

(* A session that says it awaits the mobile does wait for some call, so a  *)
(* reconnect in that state always has something to re-deliver.             *)
AwaitingHasPending ==
  Quiescent =>
    \A s \in Sessions : state[s] = "awaiting_mobile" => HasPending(s)

(* Single use: seen from the awaiting turns, the store is the rendezvous   *)
(* of Rendezvous.tla: a promise is answered at most once, only while it is *)
(* the one open await of its call, and no call is open twice.              *)
Abstract == INSTANCE Rendezvous
              WITH outcome <- status, KeyOf <- [d \in Deferreds |-> Key(d)]
ImplementsRendezvous == Abstract!Spec

(* Every awaited call is settled, answer or not: the turn never hangs.     *)
AwaitsSettle ==
  \A d \in Deferreds : status[d] = "waiting" ~> status[d] \in Settled

=============================================================================
