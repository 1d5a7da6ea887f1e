------------------------- MODULE SessionStoreProofs -------------------------
(***************************************************************************)
(* Proofs about SessionStore for every set of sessions and calls and every *)
(* timeout, TTL and timer lateness with Timeout + Lateness =< TTL.         *)
(***************************************************************************)
EXTENDS SessionStore, TLAPS

(* The inductive invariant.  Two facts make the properties inductive: no   *)
(* entry shares its key with a .finally still queued (registration waits   *)
(* for the microtasks to drain), and the age of a session plus the time    *)
(* left of any of its calls never exceeds the timeout.                     *)
FinalsAreSettled ==
  \A d \in finals : status[d] \in Settled /\ \A e \in pending : Key(e) # Key(d)
DeadlineBoundsAge ==
  \A d \in pending : Stored(SessionOf(d)) /\ age[SessionOf(d)] + left[d] =< Timeout
AwaitingJustified ==
  \A s \in Sessions : state[s] = "awaiting_mobile" =>
    HasPending(s) \/ \E d \in finals : SessionOf(d) = s

IInv ==
  /\ TypeOK
  /\ AnswerableIffWaiting
  /\ FinalsAreSettled
  /\ DeadlineBoundsAge
  /\ AwaitingJustified

LEMMA DeferredParts ==
  ASSUME NEW d \in Deferreds
  PROVE  /\ d[1] \in Sessions /\ d[2] \in Calls
         /\ SessionOf(d) \in Sessions
         /\ Key(d) \in Sessions \X Calls
         /\ Key(d)[1] = SessionOf(d)
  BY DEF Deferreds, SessionOf, Key

(* The initial state satisfies the invariant.                              *)
LEMMA InitIInv == Init => IInv
  BY BoundsAssumption DEF Init, IInv, TypeOK, AnswerableIffWaiting,
     WaitingIsPending, OneEntryPerCall, PayloadsMatch, TimersCover,
     FinalsAreSettled, DeadlineBoundsAge, AwaitingJustified, Settled

(* Every state component keeps its type, and `left` stays within a late    *)
(* timer of the deadline.                                                  *)
LEMMA TypeStep == TypeOK /\ [Next]_vars => TypeOK'
<1> SUFFICES ASSUME TypeOK, [Next]_vars PROVE TypeOK'
  OBVIOUS
<1> USE BoundsAssumption DEF TypeOK, Settled
<1>1. CASE UNCHANGED vars
  BY <1>1 DEF vars
<1>2. ASSUME NEW s \in Sessions, SessionStep(s) PROVE TypeOK'
  <2>1. CASE Create(s)
    BY <2>1 DEF Create, Touch
  <2>2. CASE LazyEvict(s)
    BY <2>2 DEF LazyEvict, Evict, Settle
  <2>3. CASE Get(s)
    BY <2>3 DEF Get, Touch
  <2>4. ASSUME NEW c \in Calls, ResolveMobileResult(s, c) PROVE TypeOK'
    BY <2>4 DEF ResolveMobileResult, Settle, DropEntry, Touch
  <2>5. CASE CleanupSession(s)
    BY <2>5 DEF CleanupSession, Settle, Touch
  <2>6. CASE Delete(s)
    BY <2>6 DEF Delete, Evict, Settle
  <2>7. ASSUME NEW new \in {"streaming", "idle"}, TurnSetsState(s, new) PROVE TypeOK'
    BY <2>7 DEF TurnSetsState
  <2>8. QED
    BY <1>2, <2>1, <2>2, <2>3, <2>4, <2>5, <2>6, <2>7 DEF SessionStep
<1>3. ASSUME NEW d \in Deferreds, CallStep(d) PROVE TypeOK'
  <2>1. CASE AwaitMobileResult(d)
    BY <2>1, DeferredParts DEF AwaitMobileResult, Touch
  <2>2. CASE TimerFires(d)
    BY <2>2, DeferredParts DEF TimerFires, DropEntry, Settle
  <2>3. CASE RunFinally(d)
    BY <2>3, DeferredParts DEF RunFinally, DropEntry
  <2>4. QED
    BY <1>3, <2>1, <2>2, <2>3 DEF CallStep
<1>4. CASE Sweep
  BY <1>4 DEF Sweep, Evict, Settle
<1>5. CASE Tick
  BY <1>5 DEF Tick, Stored
<1>6. QED
  BY <1>1, <1>2, <1>3, <1>4, <1>5 DEF Next

(* Settling a set of Deferreds keeps the bookkeeping of promises exact      *)
(* when the entries removed are exactly those settled, and leaves the other *)
(* entries as they were.                                                    *)
LEMMA RemoveStep ==
  ASSUME IInv, NEW D \in SUBSET pending, TypeOK',
         status' = [d \in Deferreds |-> IF d \in D THEN status'[d] ELSE status[d]],
         \A d \in D : status'[d] \in Settled,
         pending' = pending \ D,
         payloads' = {Key(d) : d \in pending'},
         finals' = finals \cup D,
         pending' \subseteq armed', armed' \subseteq armed
  PROVE  AnswerableIffWaiting' /\ FinalsAreSettled'
<1> USE DEF IInv, TypeOK, AnswerableIffWaiting, WaitingIsPending
<1>1. WaitingIsPending'
  BY DEF Settled
<1>2. OneEntryPerCall'
  BY DEF OneEntryPerCall
<1>3. PayloadsMatch'
  BY DEF PayloadsMatch
<1>4. TimersCover'
  BY DEF TimersCover
<1>5. FinalsAreSettled'
  BY DEF FinalsAreSettled, OneEntryPerCall, Settled
<1>6. QED
  BY <1>1, <1>2, <1>3, <1>4, <1>5

(* Evicting a set of sessions.                                             *)
LEMMA EvictStep ==
  ASSUME IInv, TypeOK', NEW S \in SUBSET Sessions, Evict(S)
  PROVE  IInv'
<1> DEFINE D == {d \in pending : SessionOf(d) \in S}
<1> USE DEF IInv, TypeOK, AnswerableIffWaiting, WaitingIsPending
<1>1. /\ \A d \in D : status[d] = "waiting" /\ status'[d] = "rejected"
      /\ status' = [d \in Deferreds |-> IF d \in D THEN status'[d] ELSE status[d]]
      /\ finals' = finals \cup D
  BY DEF Evict, Settle
<1>2. pending' = pending \ D
  BY DEF Evict
<1>3. payloads' = {Key(d) : d \in pending'}
  BY <1>2, DeferredParts DEF Evict, PayloadsMatch
<1>4. AnswerableIffWaiting' /\ FinalsAreSettled'
  BY <1>1, <1>2, <1>3, RemoveStep DEF Evict, TimersCover, Settled
<1>5. DeadlineBoundsAge'
  BY <1>2, DeferredParts DEF Evict, DeadlineBoundsAge, Stored
<1>6. AwaitingJustified'
  BY <1>1, <1>2, DeferredParts DEF Evict, AwaitingJustified, HasPending
<1>7. QED
  BY <1>4, <1>5, <1>6

(* The invariant is preserved by every operation of the session map.       *)
LEMMA SessionInvStep ==
  ASSUME IInv, TypeOK', NEW s \in Sessions, SessionStep(s)
  PROVE  IInv'
<1> USE DEF IInv, TypeOK
<1>1. CASE Create(s)
  <2>1. AnswerableIffWaiting' /\ FinalsAreSettled'
    BY <1>1 DEF Create, AnswerableIffWaiting, WaitingIsPending, OneEntryPerCall,
       PayloadsMatch, TimersCover, FinalsAreSettled
  <2>2. DeadlineBoundsAge'
    BY <1>1, DeferredParts DEF Create, Touch, DeadlineBoundsAge, Stored
  <2>3. AwaitingJustified'
    BY <1>1 DEF Create, AwaitingJustified, HasPending
  <2>4. QED
    BY <2>1, <2>2, <2>3
<1>2. CASE LazyEvict(s)
  BY <1>2, EvictStep DEF LazyEvict
<1>3. CASE Get(s)
  <2>1. AnswerableIffWaiting' /\ FinalsAreSettled'
    BY <1>3 DEF Get, AnswerableIffWaiting, WaitingIsPending, OneEntryPerCall,
       PayloadsMatch, TimersCover, FinalsAreSettled
  <2>2. DeadlineBoundsAge'
    BY <1>3, DeferredParts, BoundsAssumption DEF Get, Touch, DeadlineBoundsAge, Stored
  <2>3. AwaitingJustified'
    BY <1>3 DEF Get, AwaitingJustified, HasPending
  <2>4. QED
    BY <2>1, <2>2, <2>3
<1>4. ASSUME NEW c \in Calls, ResolveMobileResult(s, c) PROVE IInv'
  <2>1. PICK d \in pending : Key(d) = <<s, c>> /\ Settle({d}, "resolved")
    BY <1>4 DEF ResolveMobileResult
  <2>2. /\ status'[d] = "resolved"
        /\ status' = [e \in Deferreds |-> IF e \in {d} THEN status'[e] ELSE status[e]]
        /\ finals' = finals \cup {d}
    BY <2>1 DEF Settle, AnswerableIffWaiting, WaitingIsPending
  <2>3. pending' = pending \ {d}
    BY <1>4, <2>1 DEF ResolveMobileResult, DropEntry, AnswerableIffWaiting, OneEntryPerCall
  <2>4. payloads' = {Key(e) : e \in pending'}
    BY <1>4, <2>1, <2>3 DEF ResolveMobileResult, DropEntry, AnswerableIffWaiting,
       OneEntryPerCall, PayloadsMatch
  <2>a. pending' \subseteq armed' /\ armed' \subseteq armed
    BY <1>4, <2>1, <2>3 DEF ResolveMobileResult, AnswerableIffWaiting, TimersCover
  <2>5. AnswerableIffWaiting' /\ FinalsAreSettled'
    BY <2>2, <2>3, <2>4, <2>a, {d} \in SUBSET pending, RemoveStep DEF Settled
  <2>6. DeadlineBoundsAge'
    BY <1>4, <2>3, DeferredParts, BoundsAssumption
       DEF ResolveMobileResult, Touch, DeadlineBoundsAge, Stored
  <2>7. AwaitingJustified'
    BY <1>4, <2>2, <2>3, DeferredParts
       DEF ResolveMobileResult, DropEntry, AwaitingJustified, HasPending
  <2>8. QED
    BY <2>5, <2>6, <2>7
<1>5. CASE CleanupSession(s)
  <2> DEFINE D == {d \in pending : SessionOf(d) = s}
  <2>1. /\ \A d \in D : status[d] = "waiting" /\ status'[d] = "rejected"
        /\ status' = [d \in Deferreds |-> IF d \in D THEN status'[d] ELSE status[d]]
        /\ finals' = finals \cup D
    BY <1>5 DEF CleanupSession, Settle, AnswerableIffWaiting, WaitingIsPending
  <2>2. pending' = pending \ D
    BY <1>5 DEF CleanupSession
  <2>3. payloads' = {Key(d) : d \in pending'}
    BY <1>5, <2>2, DeferredParts DEF CleanupSession, AnswerableIffWaiting, PayloadsMatch
  <2>4. AnswerableIffWaiting' /\ FinalsAreSettled'
    BY <1>5, <2>1, <2>2, <2>3, RemoveStep DEF CleanupSession, TimersCover,
       AnswerableIffWaiting, Settled
  <2>5. DeadlineBoundsAge'
    BY <1>5, <2>2, DeferredParts DEF CleanupSession, Touch, DeadlineBoundsAge, Stored
  <2>6. AwaitingJustified'
    BY <1>5, <2>1, <2>2, DeferredParts DEF CleanupSession, AwaitingJustified, HasPending
  <2>7. QED
    BY <2>4, <2>5, <2>6
<1>6. CASE Delete(s)
  BY <1>6, EvictStep DEF Delete
<1>7. ASSUME NEW new \in {"streaming", "idle"}, TurnSetsState(s, new) PROVE IInv'
  BY <1>7 DEF TurnSetsState, AnswerableIffWaiting, WaitingIsPending, OneEntryPerCall,
     PayloadsMatch, TimersCover, FinalsAreSettled, DeadlineBoundsAge, Stored,
     AwaitingJustified, HasPending
<1>8. QED
  BY <1>1, <1>2, <1>3, <1>4, <1>5, <1>6, <1>7 DEF SessionStep

(* The invariant is preserved by registrations and their callbacks.        *)
LEMMA CallInvStep ==
  ASSUME IInv, TypeOK', NEW d \in Deferreds, CallStep(d)
  PROVE  IInv'
<1> USE DEF IInv, TypeOK
<1>1. CASE AwaitMobileResult(d)
  <2>1. WaitingIsPending' /\ OneEntryPerCall' /\ PayloadsMatch' /\ TimersCover'
    BY <1>1 DEF AwaitMobileResult, NotYetPending, AnswerableIffWaiting, WaitingIsPending,
       OneEntryPerCall, PayloadsMatch, TimersCover
  <2>2. FinalsAreSettled'
    BY <1>1 DEF AwaitMobileResult, FinalsAreSettled, Quiescent
  <2>3. DeadlineBoundsAge'
    BY <1>1, DeferredParts, BoundsAssumption
       DEF AwaitMobileResult, Touch, DeadlineBoundsAge, Stored
  <2>4. AwaitingJustified'
    BY <1>1, DeferredParts DEF AwaitMobileResult, AwaitingJustified, HasPending
  <2>5. QED
    BY <2>1, <2>2, <2>3, <2>4 DEF AnswerableIffWaiting
<1>2. CASE TimerFires(d)
  <2>1. d \in pending /\ status[d] = "waiting"
    BY <1>2 DEF TimerFires, Quiescent, AnswerableIffWaiting, TimersCover, WaitingIsPending
  <2>2. DropEntry(d[1], d[2]) /\ Settle({d}, "rejected") /\ armed' = armed \ {d}
    BY <1>2, <2>1 DEF TimerFires
  <2>3. /\ status'[d] = "rejected"
        /\ status' = [e \in Deferreds |-> IF e \in {d} THEN status'[e] ELSE status[e]]
        /\ finals' = finals \cup {d}
    BY <2>1, <2>2 DEF Settle
  <2>4. pending' = pending \ {d}
    BY <2>1, <2>2 DEF DropEntry, AnswerableIffWaiting, OneEntryPerCall, Key
  <2>5. payloads' = {Key(e) : e \in pending'}
    BY <2>1, <2>2, <2>4 DEF DropEntry, AnswerableIffWaiting, OneEntryPerCall,
       PayloadsMatch, Key
  <2>6. AnswerableIffWaiting' /\ FinalsAreSettled'
    BY <2>1, <2>2, <2>3, <2>4, <2>5, RemoveStep DEF TimersCover,
       AnswerableIffWaiting, Settled
  <2>7. DeadlineBoundsAge'
    BY <1>2, <2>4, DeferredParts, BoundsAssumption DEF TimerFires, DeadlineBoundsAge, Stored
  <2>8. AwaitingJustified'
    BY <2>2, <2>3, <2>4, DeferredParts
       DEF DropEntry, AwaitingJustified, HasPending, SessionOf
  <2>9. QED
    BY <2>6, <2>7, <2>8
<1>3. CASE RunFinally(d)
  <2>1. \A e \in pending : Key(e) # Key(d)
    BY <1>3 DEF RunFinally, FinalsAreSettled
  <2>2. pending' = pending /\ payloads' = payloads
    BY <1>3, <2>1 DEF RunFinally, DropEntry, Key, AnswerableIffWaiting, PayloadsMatch
  <2>3. d \notin pending
    BY <2>1
  <2>4. AnswerableIffWaiting' /\ FinalsAreSettled'
    BY <1>3, <2>2, <2>3 DEF RunFinally, AnswerableIffWaiting, WaitingIsPending,
       OneEntryPerCall, PayloadsMatch, TimersCover, FinalsAreSettled
  <2>5. DeadlineBoundsAge'
    BY <1>3, <2>2, <2>3, DeferredParts DEF RunFinally, DeadlineBoundsAge, Stored
  <2>6. AwaitingJustified'
    <3>1. finals' = finals \ {d} /\ DropEntry(d[1], d[2])
      BY <1>3, <2>2 DEF RunFinally
    <3>2. QED
      BY <2>2, <3>1, DeferredParts DEF DropEntry, AwaitingJustified, HasPending, SessionOf
  <2>7. QED
    BY <2>4, <2>5, <2>6
<1>4. QED
  BY <1>1, <1>2, <1>3 DEF CallStep

(* Time passes: age and left move together.                                *)
LEMMA TickInvStep ==
  ASSUME IInv, TypeOK', Tick
  PROVE  IInv'
<1> USE DEF IInv, TypeOK
<1>1. AnswerableIffWaiting' /\ FinalsAreSettled'
  BY DEF Tick, AnswerableIffWaiting, WaitingIsPending, OneEntryPerCall,
     PayloadsMatch, TimersCover, FinalsAreSettled
<1>2. DeadlineBoundsAge'
  BY DeferredParts, BoundsAssumption DEF Tick, DeadlineBoundsAge, Stored,
     AnswerableIffWaiting, TimersCover
<1>3. AwaitingJustified'
  BY DEF Tick, AwaitingJustified, HasPending
<1>4. QED
  BY <1>1, <1>2, <1>3

(* The invariant holds in every reachable state.                           *)
THEOREM InvariantHolds == Spec => []IInv
<1>1. IInv /\ [Next]_vars => IInv'
  <2> SUFFICES ASSUME IInv, [Next]_vars PROVE IInv'
    OBVIOUS
  <2>1. TypeOK'
    BY TypeStep DEF IInv
  <2>2. CASE UNCHANGED vars
    BY <2>2 DEF vars, IInv, TypeOK, AnswerableIffWaiting, WaitingIsPending,
       OneEntryPerCall, PayloadsMatch, TimersCover, FinalsAreSettled,
       DeadlineBoundsAge, Stored, AwaitingJustified, HasPending
  <2>3. CASE Sweep
    BY <2>1, <2>3, EvictStep DEF Sweep
  <2>4. QED
    BY <2>1, <2>2, <2>3, SessionInvStep, CallInvStep, TickInvStep DEF Next
<1>2. QED
  BY <1>1, InitIInv, PTL DEF Spec

(* Every variable keeps its type.                                          *)
THEOREM TypeCorrect == Spec => []TypeOK
BY InvariantHolds, PTL DEF IInv

(* session.pending, pendingPayloads, the promises and the timers agree.    *)
THEOREM StoreIsConsistent == Spec => []AnswerableIffWaiting
BY InvariantHolds, PTL DEF IInv

(* Since MOBILE_RESULT_TIMEOUT plus any timer delay is at most SESSION_TTL, *)
(* no lookup, answer or sweep evicts a session with a call outstanding.     *)
THEOREM NoCallCutByExpiry == Spec => []ExpiryCutsNoCall
<1>1. IInv => ExpiryCutsNoCall
  BY BoundsAssumption, TimeoutBeforeTTL, DeferredParts
     DEF IInv, TypeOK, DeadlineBoundsAge, ExpiryCutsNoCall, Expired
<1>2. QED
  BY <1>1, InvariantHolds, PTL

(* Outside a run of microtasks, `awaiting_mobile` means a call is pending. *)
THEOREM AwaitingMeansPending == Spec => []AwaitingHasPending
<1>1. IInv => AwaitingHasPending
  BY DEF IInv, AwaitingJustified, AwaitingHasPending, Quiescent
<1>2. QED
  BY <1>1, InvariantHolds, PTL

-----------------------------------------------------------------------------
(* Rejecting a set of pending Deferreds is a Fail of the rendezvous.       *)
LEMMA SettleIsFail ==
  ASSUME TypeOK, NEW D \in SUBSET Deferreds, Settle(D, "rejected")
  PROVE  Abstract!Next
<1> DEFINE F == {d \in D : status[d] = "waiting"}
<1>1. status' = [d \in Deferreds |-> IF d \in F THEN "rejected" ELSE status[d]]
  BY DEF Settle, TypeOK
<1>2. Abstract!Fail(F)
  BY <1>1 DEF Abstract!Fail
<1>3. QED
  BY <1>2 DEF Abstract!Next

(* A step of the session map is a step of the rendezvous, or changes no    *)
(* promise.                                                                *)
LEMMA SessionStepRefines ==
  ASSUME IInv, NEW s \in Sessions, SessionStep(s)
  PROVE  [Abstract!Next]_status
<1> USE DEF IInv, TypeOK
<1>1. CASE Create(s) \/ Get(s)
  BY <1>1 DEF Create, Get
<1>2. CASE LazyEvict(s) \/ Delete(s)
  <2>1. Settle({d \in pending : SessionOf(d) \in {s}}, "rejected")
    BY <1>2 DEF LazyEvict, Delete, Evict
  <2>2. QED
    BY <2>1, SettleIsFail
<1>3. ASSUME NEW c \in Calls, ResolveMobileResult(s, c) PROVE Abstract!Next
  <2>1. PICK d \in pending : Settle({d}, "resolved")
    BY <1>3 DEF ResolveMobileResult
  <2>2. status[d] = "waiting" /\ status' = [status EXCEPT ![d] = "resolved"]
    BY <2>1 DEF Settle, AnswerableIffWaiting, WaitingIsPending
  <2>3. QED
    BY <2>2 DEF Abstract!Next, Abstract!Answer
<1>4. CASE CleanupSession(s)
  <2>1. Settle({d \in pending : SessionOf(d) = s}, "rejected")
    BY <1>4 DEF CleanupSession
  <2>2. QED
    BY <2>1, SettleIsFail
<1>5. ASSUME NEW new \in {"streaming", "idle"}, TurnSetsState(s, new)
      PROVE status' = status
  BY <1>5 DEF TurnSetsState
<1>6. QED
  BY <1>1, <1>2, <1>3, <1>4, <1>5 DEF SessionStep

(* So is a registration, a timeout or a .finally.                          *)
LEMMA CallStepRefines ==
  ASSUME IInv, NEW d \in Deferreds, CallStep(d)
  PROVE  [Abstract!Next]_status
<1> USE DEF IInv, TypeOK
<1>1. CASE AwaitMobileResult(d)
  <2> DEFINE KeyOf == [e \in Deferreds |-> Key(e)]
  <2>1. \A e \in Deferreds : KeyOf[e] = KeyOf[d] => status[e] # "waiting"
    BY <1>1 DEF AwaitMobileResult, NotYetPending, AnswerableIffWaiting, WaitingIsPending
  <2>2. Abstract!Open(d)
    BY <1>1, <2>1 DEF AwaitMobileResult, Fresh, Abstract!Open
  <2>3. QED
    BY <2>2 DEF Abstract!Next
<1>2. CASE TimerFires(d)
  <2>1. status' = status \/ Settle({d}, "rejected")
    BY <1>2 DEF TimerFires
  <2>2. QED
    BY <2>1, SettleIsFail
<1>3. CASE RunFinally(d)
  BY <1>3 DEF RunFinally
<1>4. QED
  BY <1>1, <1>2, <1>3 DEF CallStep

(* Every promise handed to a turn by awaitMobileResult is a one-shot       *)
(* rendezvous: the store implements Rendezvous.                            *)
THEOREM StoreIsRendezvous == Spec => ImplementsRendezvous
<1>1. Init => Abstract!Init
  BY DEF Init, Abstract!Init
<1>2. IInv /\ [Next]_vars => [Abstract!Next]_status
  <2> SUFFICES ASSUME IInv, [Next]_vars PROVE [Abstract!Next]_status
    OBVIOUS
  <2>1. CASE Sweep
    <3>1. Settle({d \in pending : SessionOf(d) \in {s \in Sessions : Stored(s) /\ Expired(s)}},
                 "rejected")
      BY <2>1 DEF Sweep, Evict
    <3>2. QED
      BY <3>1, SettleIsFail DEF IInv, TypeOK
  <2>2. CASE Tick \/ UNCHANGED vars
    BY <2>2 DEF Tick, vars
  <2>3. QED
    BY <2>1, <2>2, SessionStepRefines, CallStepRefines DEF Next
<1>3. QED
  BY <1>1, <1>2, InvariantHolds, PTL DEF Spec, ImplementsRendezvous, Abstract!Spec

=============================================================================
