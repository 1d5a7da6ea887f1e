----------------------- MODULE StreamLifecycleProofs ------------------------
(***************************************************************************)
(* Proofs about StreamLifecycle for any turns, calls and timeout.          *)
(***************************************************************************)
EXTENDS StreamLifecycle, TLAPS

(* Only an opened stream is dropped.  Every call knows its turn; a turn    *)
(* has one pending call at most, and is suspended on one that came over    *)
(* its stream.  Only a call that was asked for has a hint.                 *)
Owned ==
  /\ \A t \in dropped : pc[t] # "new"
  /\ \A c \in pending : owner[c] \in Turns /\ pc[owner[c]] \in {"suspended", "over"}
  /\ \A c, d \in pending : owner[c] = owner[d] => c = d
  /\ \A c \in streamed \cup accepted : owner[c] \in Turns
  /\ \A c \in Calls : hint[c] = "speaking" => owner[c] \in Turns
  /\ \A c \in streamed \cap pending : pc[owner[c]] = "suspended"

(* For a client that waits for the session to rest: one turn is active and *)
(* what is pending is its own, and a hint speaks to the stream of its turn.*)
Alone ==
  ~overlapped =>
    /\ \A t, u \in Turns : Active(t) /\ Active(u) => t = u
    /\ \A t \in Turns : Active(t) => \A c \in pending : owner[c] = t
    /\ \A c \in Calls : hint[c] = "speaking" => voice[c] = owner[c]

IInv ==
  /\ TypeOK
  /\ Owned
  /\ Alone
  /\ ReplayComplete
  /\ WriterIsCurrent
  /\ StreamedIsHeard
  /\ HintInOwnStream

LEMMA InitIInv == Init => IInv
<1> SUFFICES ASSUME Init PROVE IInv
  OBVIOUS
<1>1. TypeOK
  <2>1. left \in [Calls -> 0 .. Timeout]
    BY TimeoutAssumption DEF Init
  <2>2. /\ pc \in [Turns -> {"new", "running", "suspended", "ending", "over"}]
        /\ owner \in [Calls -> Turns \cup {NoTurn}]
        /\ hint \in [Calls -> {"none", "speaking", "over"}]
        /\ voice \in [Calls -> Turns \cup {NoTurn}]
    BY DEF Init
  <2>3. QED
    BY <2>1, <2>2 DEF Init, TypeOK
<1>2. Owned /\ Alone
  BY DEF Init, Owned, Alone, Active
<1>3. ReplayComplete /\ WriterIsCurrent /\ StreamedIsHeard /\ HintInOwnStream
  BY DEF Init, ReplayComplete, WriterIsCurrent, StreamedIsHeard, HintInOwnStream,
     IsOpen, Active
<1>4. QED
  BY <1>1, <1>2, <1>3 DEF IInv

(* Opening, dropping and closing of streams, and the end of a turn.        *)
LEMMA StreamStep ==
  ASSUME IInv, NEW t \in Turns, Post(t) \/ Drop(t) \/ Cut(t) \/ Finish(t) \/ Close(t)
  PROVE  IInv'
<1> USE DEF IInv
<1>1. TypeOK'
  BY DEF TypeOK, Post, Drop, Cut, Finish, Close, ClearWriter, StopAtNextYield, IsOpen,
     historyVars
<1>2. Owned'
  BY DEF TypeOK, Owned, Post, Drop, Cut, Finish, Close, StopAtNextYield, IsOpen, Active,
     historyVars
<1>3. UNCHANGED <<pending, owner, hint, voice, streamed, accepted, transcript, spoken>>
  BY DEF Post, Drop, Cut, Finish, Close, historyVars
<1>4. StreamedIsHeard'
  BY <1>3 DEF StreamedIsHeard
<1>5. CASE Post(t)
  <2>1. /\ ~overlapped' => ~overlapped /\ pending = {} /\ \A u \in Turns : ~Active(u)
        /\ state' = "streaming" /\ writer' = t /\ dropped' = dropped
    BY <1>5 DEF Post, AtRest
  <2>2. Active(t)' /\ \A u \in Turns : Active(u)' => Active(u) \/ u = t
    BY <1>5 DEF Post, Active, TypeOK
  <2>3. Alone'
    BY <1>3, <2>1, <2>2 DEF Alone
  <2>4. ReplayComplete' /\ HintInOwnStream'
    BY <1>3, <2>1 DEF ReplayComplete, HintInOwnStream
  <2>5. IsOpen(t)'
    BY <1>5, <2>1, <2>2 DEF IsOpen, Owned, Post
  <2>6. WriterIsCurrent'
    BY <2>1, <2>2, <2>5 DEF WriterIsCurrent, IsOpen
  <2>7. QED
    BY <1>1, <1>2, <1>4, <2>3, <2>4, <2>6
<1>6. CASE Drop(t)
  <2>1. /\ UNCHANGED <<pc, state, overlapped>> /\ IsOpen(t) /\ writer' = NoTurn
        /\ dropped' = dropped \cup {t}
    BY <1>6 DEF Drop, StopAtNextYield, ClearWriter, historyVars
  <2>2. Alone' /\ ReplayComplete' /\ HintInOwnStream'
    BY <1>3, <2>1 DEF Alone, Active, ReplayComplete, HintInOwnStream
  <2>3. ~overlapped => \A u \in Turns : ~IsOpen(u)'
    BY <2>1 DEF Alone, IsOpen, Active
  <2>4. WriterIsCurrent'
    BY <2>1, <2>3 DEF WriterIsCurrent
  <2>5. QED
    BY <1>1, <1>2, <1>4, <2>2, <2>4
<1>7. CASE Cut(t) \/ Close(t)
  <2>1. /\ UNCHANGED <<dropped, state, overlapped>> /\ Active(t) /\ writer' = NoTurn
        /\ \A u \in Turns : Active(u)' => Active(u) /\ u # t
    BY <1>7 DEF Cut, Close, ClearWriter, historyVars, Active, TypeOK
  <2>2. Alone' /\ ReplayComplete' /\ HintInOwnStream'
    BY <1>3, <2>1 DEF Alone, ReplayComplete, HintInOwnStream
  <2>3. ~overlapped => \A u \in Turns : ~IsOpen(u)'
    BY <2>1 DEF Alone, IsOpen
  <2>4. WriterIsCurrent'
    BY <2>1, <2>3 DEF WriterIsCurrent
  <2>5. QED
    BY <1>1, <1>2, <1>4, <2>2, <2>4
<1>8. CASE Finish(t)
  <2>1. /\ UNCHANGED <<dropped, writer, overlapped>> /\ state' \in {"idle", state}
        /\ \A u \in Turns : Active(u)' <=> Active(u)
    BY <1>8 DEF Finish, historyVars, Active, TypeOK
  <2>2. Alone' /\ HintInOwnStream' /\ WriterIsCurrent'
    BY <1>3, <2>1 DEF Alone, HintInOwnStream, WriterIsCurrent, IsOpen, TypeOK
  <2>3. ~overlapped => pending = {}
    BY <1>8 DEF Finish, Alone, Active, Owned
  <2>4. ReplayComplete'
    BY <1>3, <2>1, <2>3 DEF ReplayComplete
  <2>5. QED
    BY <1>1, <1>2, <1>4, <2>2, <2>4
<1>9. QED
  BY <1>5, <1>6, <1>7, <1>8

(* A pending entry goes: Respond and Expire.  The turn that awaits it is   *)
(* resumed or ends.                                                        *)
LEMMA UnregisterStep ==
  ASSUME IInv, NEW c \in Calls, Respond(c) \/ Expire(c)
  PROVE  IInv'
<1> USE DEF IInv
<1>1. /\ c \in pending /\ pending' = pending \ {c}
      /\ left' = [left EXCEPT ![c] = Timeout]
      /\ UNCHANGED <<dropped, writer, owner, hint, voice, streamed, replayed, flagged,
                     spoken, overlapped>>
  BY DEF Respond, Expire, Due, Unregister, historyVars
<1>2. /\ pc' \in [Turns -> {"new", "running", "suspended", "ending", "over"}]
      /\ \A t \in Turns : IF Awaits(t, c) THEN pc'[t] \in {"running", "ending"}
                                         ELSE pc'[t] = pc[t]
  <2>1. CASE Awaited(c)
    BY <2>1 DEF Respond, Expire, LosersEnd, TypeOK
  <2>2. CASE ~Awaited(c)
    BY <2>2 DEF Respond, Expire, LosersEnd, TypeOK, Awaited
  <2>3. QED
    BY <2>1, <2>2
<1>3. \A t \in Turns : Active(t)' <=> Active(t)
  BY <1>2 DEF Active, Awaits
<1>4. /\ state' \in {"streaming", "awaiting_mobile", "idle"}
      /\ Awaited(c) => state' # "awaiting_mobile"
      /\ ~Awaited(c) => state' = IdleIfNoneLeft
  BY DEF Respond, Expire, IdleIfNoneLeft, TypeOK
<1>5. /\ accepted \subseteq accepted' /\ accepted' \subseteq accepted \cup {c}
      /\ transcript' \subseteq transcript \cup {c} /\ transcript \subseteq transcript'
      /\ accepted' # accepted /\ Awaited(c) => c \in transcript'
      /\ since' = since \/ (since' = Undefined /\ c \in transcript')
  BY DEF Respond, Expire, ClearStamp, historyVars
<1>6. TypeOK'
  BY <1>1, <1>2, <1>4, <1>5, TimeoutAssumption DEF TypeOK
<1>7. Owned'
  BY <1>1, <1>2, <1>5 DEF Owned, Awaits, TypeOK
<1>8. Alone'
  BY <1>1, <1>3 DEF Alone
<1>9. ReplayComplete'
  <2>1. CASE Awaited(c)
    <3>1. PICK t \in Turns : pc[t] = "suspended" /\ owner[c] = t
      BY <2>1 DEF Awaited, Awaits
    <3>2. ~overlapped => pending' = {}
      BY <1>1, <3>1 DEF Alone, Active, Owned
    <3>3. QED
      BY <1>1, <1>4, <2>1, <3>2 DEF ReplayComplete
  <2>2. CASE ~Awaited(c)
    BY <1>1, <1>4, <2>2 DEF ReplayComplete, IdleIfNoneLeft
  <2>3. QED
    BY <2>1, <2>2
<1>10. WriterIsCurrent' /\ HintInOwnStream'
  BY <1>1, <1>3 DEF WriterIsCurrent, HintInOwnStream, IsOpen, TypeOK
<1>11. StreamedIsHeard'
  <2>1. c \in streamed => Awaited(c)
    BY <1>1 DEF Owned, Awaited, Awaits
  <2>2. QED
    BY <1>1, <1>5, <2>1 DEF StreamedIsHeard
<1>12. QED
  BY <1>6, <1>7, <1>8, <1>9, <1>10, <1>11

(* A turn asks the wallet.                                                 *)
LEMMA AskStep ==
  ASSUME IInv, NEW t \in Turns, NEW c \in Calls, Ask(t, c)
  PROVE  IInv'
<1> USE DEF IInv
<1>1. /\ pc[t] = "running" /\ owner[c] = NoTurn /\ pending' = pending \cup {c}
      /\ owner' = [owner EXCEPT ![c] = t] /\ state' = "awaiting_mobile"
      /\ UNCHANGED <<dropped, left, hint, voice, replayed, flagged, accepted,
                     transcript, spoken, overlapped>>
  BY DEF Ask
<1>2. \/ /\ t \in dropped /\ pc' = [pc EXCEPT ![t] = "over"]
         /\ writer' = NoTurn /\ streamed' = streamed
      \/ /\ t \notin dropped /\ pc' = [pc EXCEPT ![t] = "suspended"]
         /\ writer' = writer /\ streamed' = streamed \cup {c}
  BY DEF Ask, ClearWriter
<1>3. since' \in {since, 0}
  BY DEF Ask
<1>4. TypeOK'
  BY <1>1, <1>2, <1>3, TimeoutAssumption DEF TypeOK
<1>5. /\ c \notin pending /\ c \notin streamed \cup accepted
      /\ owner'[c] = t /\ \A d \in Calls \ {c} : owner'[d] = owner[d]
      /\ \A d \in pending : owner[d] # t
      /\ hint[c] # "speaking"
  BY <1>1, NoTurnAssumption DEF Owned, TypeOK
<1>6. Owned'
  BY <1>1, <1>2, <1>5 DEF Owned, TypeOK
<1>7. /\ \A u \in Turns : Active(u)' => Active(u)
      /\ \A u \in Turns : u # t => (Active(u)' <=> Active(u))
      /\ Active(t) /\ (t \notin dropped => Active(t)')
  BY <1>1, <1>2 DEF Active, TypeOK
<1>8. ~overlapped => pending = {}
  BY <1>1, <1>5, <1>7 DEF Alone
<1>9. Alone'
  BY <1>1, <1>5, <1>7, <1>8 DEF Alone, TypeOK
<1>10. ReplayComplete'
  BY <1>1 DEF ReplayComplete
<1>11. WriterIsCurrent'
  BY <1>1, <1>2, <1>7 DEF WriterIsCurrent, IsOpen, Alone
<1>12. StreamedIsHeard' /\ HintInOwnStream'
  BY <1>1, <1>2, <1>5, NoTurnAssumption DEF StreamedIsHeard, HintInOwnStream, TypeOK
<1>13. QED
  BY <1>4, <1>6, <1>9, <1>10, <1>11, <1>12

(* Reconnects, hints and time.                                             *)
LEMMA QuietStep ==
  ASSUME IInv,
         \/ Reconnect \/ Tick
         \/ \E c \in Calls : Progress(c) \/ HintStep(c)
  PROVE  IInv'
<1> USE DEF IInv
<1>1. /\ UNCHANGED <<pc, dropped, state, writer, pending, owner, streamed, accepted,
                     transcript, overlapped>>
  BY DEF Reconnect, Tick, Progress, HintStep, HintChunk, HintEnds, HintFails,
     serverVars, historyVars, hintUnchanged
<1>2. ReplayComplete' /\ WriterIsCurrent' /\ StreamedIsHeard'
  BY <1>1 DEF ReplayComplete, WriterIsCurrent, StreamedIsHeard, IsOpen, Active
<1>3. CASE Reconnect \/ Tick
  <2>1. UNCHANGED <<hint, voice, spoken>>
    BY <1>3 DEF Reconnect, Tick, serverVars, historyVars
  <2>a. Owned'
    BY <1>1, <2>1 DEF Owned
  <2>b. Alone'
    <3>1. \A t \in Turns : Active(t)' <=> Active(t)
      BY <1>1 DEF Active
    <3>2. QED
      BY <1>1, <2>1, <3>1 DEF Alone
  <2>2. HintInOwnStream'
    BY <1>1, <2>1 DEF HintInOwnStream
  <2>3. ASSUME Reconnect PROVE TypeOK'
    BY <1>1, <2>1, <2>3 DEF Reconnect, serverVars, TypeOK
  <2>4. ASSUME Tick PROVE TypeOK'
    <3>1. \A c \in pending : left[c] \in 1 .. Timeout
      BY <2>4, TimeoutAssumption DEF Tick, Due, TypeOK
    <3>2. left' \in [Calls -> 0 .. Timeout]
      BY <2>4, <3>1, TimeoutAssumption DEF Tick, TypeOK
    <3>3. since' \in {Undefined} \cup (0 .. Timeout + 1)
      <4>1. since' = IF since = Undefined \/ since > Timeout THEN since ELSE since + 1
        BY <2>4 DEF Tick
      <4>2. since \in {Undefined} \cup (0 .. Timeout + 1)
        BY DEF TypeOK
      <4>3. since \in 0 .. Timeout + 1 /\ ~(since > Timeout) => since + 1 \in 0 .. Timeout + 1
        BY TimeoutAssumption
      <4>4. QED
        BY <4>1, <4>2, <4>3
    <3>4. UNCHANGED <<replayed, flagged>>
      BY <2>4 DEF Tick, historyVars
    <3>5. QED
      BY <1>1, <2>1, <3>2, <3>3, <3>4 DEF TypeOK
  <2>5. TypeOK'
    BY <1>3, <2>3, <2>4
  <2>6. QED
    BY <1>2, <2>a, <2>b, <2>2, <2>5
<1>4. ASSUME NEW c \in Calls, Progress(c) PROVE IInv'
  <2>1. /\ c \in pending /\ hint' \in [Calls -> {"none", "speaking", "over"}]
        /\ voice' = [voice EXCEPT ![c] = writer]
        /\ \A d \in Calls \ {c} : hint'[d] = hint[d]
        /\ hint'[c] = "speaking" => writer # NoTurn
        /\ spoken' = IF writer = NoTurn THEN spoken ELSE spoken \cup {<<c, writer>>}
        /\ UNCHANGED <<left, since, replayed, flagged>>
    BY <1>4 DEF Progress, hintUnchanged, TypeOK
  <2>2. ~overlapped /\ writer # NoTurn => owner[c] = writer
    BY <2>1 DEF WriterIsCurrent, IsOpen, Alone
  <2>3. TypeOK'
    BY <1>1, <2>1 DEF TypeOK
  <2>4. Owned'
    BY <1>1, <2>1 DEF Owned
  <2>5. Alone' /\ HintInOwnStream'
    BY <1>1, <2>1, <2>2 DEF Alone, Active, HintInOwnStream, TypeOK
  <2>6. QED
    BY <1>2, <2>3, <2>4, <2>5
<1>5. ASSUME NEW c \in Calls, HintStep(c) PROVE IInv'
  <2>1. /\ hint[c] = "speaking" /\ hint' \in [Calls -> {"none", "speaking", "over"}]
        /\ voice' = voice
        /\ \A d \in Calls : hint'[d] = "speaking" => hint[d] = "speaking"
        /\ spoken' = spoken \/ (IsOpen(voice[c]) /\ spoken' = spoken \cup {<<c, voice[c]>>})
        /\ UNCHANGED <<left, since, replayed, flagged>>
    BY <1>5 DEF HintStep, HintChunk, HintEnds, HintFails, Speak, CapturedVoice,
       hintUnchanged, TypeOK
  <2>2. TypeOK'
    BY <1>1, <2>1 DEF TypeOK, IsOpen
  <2>3. Owned'
    BY <1>1, <2>1 DEF Owned
  <2>4. Alone' /\ HintInOwnStream'
    BY <1>1, <2>1 DEF Alone, Active, HintInOwnStream
  <2>5. QED
    BY <1>2, <2>2, <2>3, <2>4
<1>6. QED
  BY <1>3, <1>4, <1>5

LEMMA StepIInv == IInv /\ [Next]_vars => IInv'
<1> SUFFICES ASSUME IInv, [Next]_vars PROVE IInv'
  OBVIOUS
<1>1. CASE UNCHANGED vars
  BY <1>1 DEF vars, serverVars, historyVars, IInv, TypeOK, Owned, Alone, Active,
     ReplayComplete, WriterIsCurrent, IsOpen, StreamedIsHeard, HintInOwnStream
<1>2. CASE ClientStep
  BY <1>2, StreamStep, UnregisterStep, QuietStep DEF ClientStep
<1>3. ASSUME NEW t \in Turns, TurnStep(t) PROVE IInv'
  BY <1>3, StreamStep, AskStep DEF TurnStep
<1>4. ASSUME NEW c \in Calls, Expire(c) \/ HintStep(c) PROVE IInv'
  BY <1>4, UnregisterStep, QuietStep
<1>5. CASE Tick
  BY <1>5, QuietStep
<1>6. QED
  BY <1>1, <1>2, <1>3, <1>4, <1>5 DEF Next

-----------------------------------------------------------------------------
(* The call that awaitingMobileSince was set for: it was not heard since,  *)
(* and while it is pending its timer and the stamp add up.                 *)
Stamper(d) ==
  /\ owner[d] # NoTurn
  /\ d \notin transcript
  /\ d \in pending => left[d] + since <= Timeout

Stamped ==
  /\ \A c \in transcript \cup flagged : owner[c] # NoTurn
  /\ since # Undefined => \E d \in Calls : Stamper(d)
  /\ LiveFlagNeedsLostCall

LEMMA StampedInit == Init => Stamped
BY DEF Init, Stamped, LiveFlagNeedsLostCall

(* Steps that leave the calls, their timers and the stamp alone.           *)
LEMMA StampedStays ==
  ASSUME Stamped, UNCHANGED <<pending, left, since, owner, flagged, transcript>>
  PROVE  Stamped'
BY DEF Stamped, Stamper, LiveFlagNeedsLostCall

(* A call is asked: it is the stamper if there was none.                   *)
LEMMA StampedAsk ==
  ASSUME IInv, Stamped, NEW t \in Turns, NEW c \in Calls, Ask(t, c)
  PROVE  Stamped'
<1>1. /\ owner[c] = NoTurn /\ pending' = pending \cup {c}
      /\ owner' = [owner EXCEPT ![c] = t]
      /\ since' = IF since = Undefined THEN 0 ELSE since
      /\ UNCHANGED <<left, flagged, transcript>>
  BY DEF Ask
<1>2. /\ c \notin pending /\ c \notin transcript /\ c \notin flagged
      /\ owner'[c] = t /\ t # NoTurn
      /\ \A d \in Calls \ {c} : owner'[d] = owner[d]
  BY <1>1, NoTurnAssumption DEF IInv, TypeOK, Owned, Stamped
<1>3. \A d \in transcript' \cup flagged' : owner'[d] # NoTurn
  BY <1>1, <1>2 DEF IInv, TypeOK, Stamped
<1>4. \E d \in Calls : Stamper(d)'
  <2>1. CASE since = Undefined
    <3>1. left[c] \in 0 .. Timeout /\ since' = 0 /\ left' = left
      BY <1>1, <2>1 DEF IInv, TypeOK
    <3>2. left'[c] + since' <= Timeout
      BY <3>1, TimeoutAssumption
    <3>3. QED
      BY <1>1, <1>2, <3>2 DEF Stamper
  <2>2. CASE since # Undefined
    <3>1. PICK d \in Calls : Stamper(d)
      BY <2>2 DEF Stamped
    <3>2. d # c
      BY <1>1, <3>1 DEF Stamper
    <3>3. QED
      BY <1>1, <1>2, <2>2, <3>1, <3>2 DEF Stamper
  <2>3. QED
    BY <2>1, <2>2
<1>5. LiveFlagNeedsLostCall'
  <2> SUFFICES ASSUME NEW e \in flagged', e \in pending', left'[e] > 0
               PROVE  \E d \in Calls \ {e} :
                        owner'[d] # NoTurn /\ d \notin pending' /\ d \notin transcript'
    BY DEF LiveFlagNeedsLostCall
  <2>1. e \in flagged /\ e \in pending /\ left[e] > 0
    BY <1>1, <1>2
  <2>2. PICK d \in Calls \ {e} : owner[d] # NoTurn /\ d \notin pending /\ d \notin transcript
    BY <2>1 DEF Stamped, LiveFlagNeedsLostCall
  <2>3. d # c
    BY <1>1, <2>2
  <2>4. QED
    BY <1>1, <1>2, <2>2, <2>3
<1>6. QED
  BY <1>3, <1>4, <1>5 DEF Stamped

(* A call is settled: its stamp goes with it if it is heard.               *)
LEMMA StampedUnregister ==
  ASSUME IInv, Stamped, NEW c \in Calls, Respond(c) \/ Expire(c)
  PROVE  Stamped'
<1>1. /\ c \in pending /\ pending' = pending \ {c}
      /\ left' = [left EXCEPT ![c] = Timeout]
      /\ UNCHANGED <<owner, flagged>>
      /\ \/ since' = since /\ transcript' = transcript
         \/ since' = Undefined /\ transcript' = transcript \cup {c}
  BY DEF Respond, Expire, Due, Unregister, ClearStamp, historyVars
<1>2. owner[c] # NoTurn
  BY <1>1, NoTurnAssumption DEF IInv, Owned
<1>3. since' # Undefined => \E d \in Calls : Stamper(d)'
  <2>1. SUFFICES ASSUME since' # Undefined PROVE \E d \in Calls : Stamper(d)'
    OBVIOUS
  <2>2. since' = since /\ transcript' = transcript
    BY <1>1, <2>1
  <2>3. PICK d \in Calls : Stamper(d)
    BY <2>1, <2>2 DEF Stamped
  <2>4. left \in [Calls -> 0 .. Timeout]
    BY DEF IInv, TypeOK
  <2>5. Stamper(d)'
    BY <1>1, <2>2, <2>3, <2>4 DEF Stamper
  <2>6. QED
    BY <2>5
<1>4. LiveFlagNeedsLostCall'
  <2> SUFFICES ASSUME NEW e \in flagged', e \in pending', left'[e] > 0
               PROVE  \E d \in Calls \ {e} :
                        owner'[d] # NoTurn /\ d \notin pending' /\ d \notin transcript'
    BY DEF LiveFlagNeedsLostCall
  <2>1. e \in flagged /\ e \in pending /\ e # c /\ left'[e] = left[e]
    BY <1>1 DEF IInv, TypeOK
  <2>2. PICK d \in Calls \ {e} : owner[d] # NoTurn /\ d \notin pending /\ d \notin transcript
    BY <2>1 DEF Stamped, LiveFlagNeedsLostCall
  <2>3. QED
    BY <1>1, <2>2
<1>5. QED
  BY <1>1, <1>2, <1>3, <1>4 DEF Stamped

(* A stamp past the timeout is the stamp of a call that is pending no more.*)
LEMMA StampedReconnect ==
  ASSUME IInv, Stamped, Reconnect
  PROVE  Stamped'
<1>1. /\ UNCHANGED <<pending, left, since, owner, transcript>>
      /\ flagged' = IF since > Timeout THEN flagged \cup pending ELSE flagged
  BY DEF Reconnect, serverVars, InterruptedAt
<1>2. \A c \in pending : owner[c] # NoTurn
  BY NoTurnAssumption DEF IInv, Owned
<1>3. LiveFlagNeedsLostCall'
  <2> SUFFICES ASSUME NEW e \in flagged', e \in pending', left'[e] > 0
               PROVE  \E d \in Calls \ {e} :
                        owner'[d] # NoTurn /\ d \notin pending' /\ d \notin transcript'
    BY DEF LiveFlagNeedsLostCall
  <2>1. CASE e \in flagged
    BY <1>1, <2>1 DEF Stamped, LiveFlagNeedsLostCall
  <2>2. CASE e \notin flagged
    <3>1. since > Timeout /\ since # Undefined
      BY <1>1, <2>2, TimeoutAssumption DEF Undefined
    <3>2. PICK d \in Calls : Stamper(d)
      BY <3>1 DEF Stamped
    <3>3. since \in 0 .. Timeout + 1 /\ left[d] \in 0 .. Timeout
      BY <3>1 DEF IInv, TypeOK
    <3>4. d \notin pending
      BY <3>1, <3>2, <3>3, TimeoutAssumption DEF Stamper
    <3>5. QED
      BY <1>1, <3>2, <3>4 DEF Stamper
  <2>3. QED
    BY <2>1, <2>2
<1>4. QED
  BY <1>1, <1>2, <1>3 DEF Stamped, Stamper

(* Timer and stamp move together.                                          *)
LEMMA StampedTick ==
  ASSUME IInv, Stamped, Tick
  PROVE  Stamped'
<1>1. /\ UNCHANGED <<pending, owner, flagged, transcript>>
      /\ left' = [c \in Calls |-> IF c \in pending THEN left[c] - 1 ELSE left[c]]
      /\ since' = IF since = Undefined \/ since > Timeout THEN since ELSE since + 1
  BY DEF Tick, historyVars
<1>2. /\ left \in [Calls -> 0 .. Timeout]
      /\ since \in {Undefined} \cup (0 .. Timeout + 1)
  BY DEF IInv, TypeOK
<1>3. since' # Undefined => \E d \in Calls : Stamper(d)'
  <2>1. SUFFICES ASSUME since' # Undefined PROVE \E d \in Calls : Stamper(d)'
    OBVIOUS
  <2>2. since # Undefined /\ since \in 0 .. Timeout + 1 /\ since' \in {since, since + 1}
    BY <1>1, <1>2, <2>1
  <2>3. PICK d \in Calls : Stamper(d)
    BY <2>2 DEF Stamped
  <2>4. d \in pending => left'[d] + since' <= Timeout
    <3>1. d \in pending => left[d] + since <= Timeout /\ left'[d] = left[d] - 1
      BY <1>1, <2>3 DEF Stamper
    <3>2. left[d] \in 0 .. Timeout
      BY <1>2
    <3>3. QED
      BY <2>2, <3>1, <3>2, TimeoutAssumption
  <2>5. QED
    BY <1>1, <2>3, <2>4 DEF Stamper
<1>4. LiveFlagNeedsLostCall'
  <2> SUFFICES ASSUME NEW e \in flagged', e \in pending', left'[e] > 0
               PROVE  \E d \in Calls \ {e} :
                        owner'[d] # NoTurn /\ d \notin pending' /\ d \notin transcript'
    BY DEF LiveFlagNeedsLostCall
  <2>1. e \in Calls /\ left[e] \in 0 .. Timeout /\ left'[e] = left[e] - 1
    BY <1>1, <1>2 DEF IInv, TypeOK
  <2>2. left[e] > 0
    BY <2>1, TimeoutAssumption
  <2>3. QED
    BY <1>1, <2>2 DEF Stamped, LiveFlagNeedsLostCall
<1>5. QED
  BY <1>1, <1>3, <1>4 DEF Stamped

LEMMA StampedStep == IInv /\ Stamped /\ [Next]_vars => Stamped'
<1> SUFFICES ASSUME IInv, Stamped, [Next]_vars PROVE Stamped'
  OBVIOUS
<1>1. CASE UNCHANGED vars
  BY <1>1, StampedStays DEF vars, serverVars, historyVars
<1>2. ASSUME NEW t \in Turns, Post(t) \/ Drop(t) \/ Cut(t) \/ Finish(t) \/ Close(t)
      PROVE  Stamped'
  BY <1>2, StampedStays DEF Post, Drop, Cut, Finish, Close, historyVars
<1>3. ASSUME NEW c \in Calls, Progress(c) \/ HintStep(c) PROVE Stamped'
  BY <1>3, StampedStays DEF Progress, HintStep, HintChunk, HintEnds, HintFails,
     hintUnchanged
<1>4. CASE ClientStep
  BY <1>2, <1>3, <1>4, StampedUnregister, StampedReconnect DEF ClientStep
<1>5. ASSUME NEW t \in Turns, TurnStep(t) PROVE Stamped'
  BY <1>2, <1>5, StampedAsk DEF TurnStep
<1>6. ASSUME NEW c \in Calls, Expire(c) \/ HintStep(c) PROVE Stamped'
  BY <1>3, <1>6, StampedUnregister
<1>7. CASE Tick
  BY <1>7, StampedTick
<1>8. QED
  BY <1>1, <1>4, <1>5, <1>6, <1>7 DEF Next

-----------------------------------------------------------------------------
(* The invariant holds in every reachable state.                           *)
THEOREM InvariantHolds == Spec => []IInv
BY InitIInv, StepIInv, PTL DEF Spec

(* Every variable keeps its type; no timer runs past its time.             *)
THEOREM TypeCorrect == Spec => []TypeOK
BY InvariantHolds, PTL DEF IInv

(* A reconnect finds every pending call, when turns do not overlap.        *)
THEOREM ReconnectSeesAll == Spec => []ReplayComplete
BY InvariantHolds, PTL DEF IInv

(* enqueueExternal writes to an open stream only, to the open one when     *)
(* turns do not overlap.                                                   *)
THEOREM WriterStaysCurrent == Spec => []WriterIsCurrent
BY InvariantHolds, PTL DEF IInv

(* An accepted answer to a call its own stream delivered is never lost, in *)
(* whatever order streams are opened, dropped and closed.                  *)
THEOREM StreamedAnswersAreHeard == Spec => []StreamedIsHeard
BY InvariantHolds, PTL DEF IInv

(* A hint never strays into another turn's stream, when turns do not       *)
(* overlap.                                                                *)
THEOREM HintsStayInTheirStream == Spec => []HintInOwnStream
BY InvariantHolds, PTL DEF IInv

(* A live call is replayed as interrupted only if another one was lost,    *)
(* for any timeout, turns and calls, overlapping or not.                   *)
THEOREM LiveCallsFlaggedAfterLoss == Spec => []LiveFlagNeedsLostCall
<1>1. Spec => []Stamped
  BY InvariantHolds, StampedInit, StampedStep, PTL DEF Spec
<1>2. Stamped => LiveFlagNeedsLostCall
  BY DEF Stamped
<1>3. QED
  BY <1>1, <1>2, PTL

=============================================================================
