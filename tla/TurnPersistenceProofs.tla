----------------------- MODULE TurnPersistenceProofs ------------------------
(***************************************************************************)
(* Proofs about TurnPersistence for every number of requests and messages, *)
(* whatever write fails and whenever the session is lost, for a client     *)
(* that sends one request at a time and names a conversation only when it  *)
(* has no live session.  (Without the first of these TLC finds a message   *)
(* lost, without the second one shown twice.)  The order of dates also     *)
(* needs a database that is not faster than a row a millisecond.           *)
(***************************************************************************)
EXTENDS TurnPersistence, SequenceTheorems, FiniteSetTheorems, TLAPS

Careful == OneAtATime /\ LoadsFreshOnly

Logged(m) == \E r \in 1 .. Len(log) : log[r].msg = m

(* The sequences and functions the steps extend.                           *)
Shapes ==
  /\ \E S : messages \in Seq(S)
  /\ \E S : log \in Seq(S)
  /\ lastPersisted \in {Undefined} \cup (0 .. Len(messages))
  /\ floor \in Nat
  /\ DOMAIN pc = Turns
  /\ DOMAIN flush = Turns

Solo == \A t, u \in Turns : Active(t) /\ Active(u) => t = u

(* Turns have a session, and the watermark is seeded by the first of them  *)
(* that gets to run, not before.                                           *)
Seeded ==
  /\ ~session => lastPersisted = Undefined
  /\ \A t \in Turns :
       /\ Active(t) => session
       /\ pc[t] = "loading" => lastPersisted = Undefined
       /\ pc[t] \in {"running", "inserting", "touching"} => lastPersisted # Undefined

(* A slice being written reaches from the watermark to the end, and is in  *)
(* the log once inserted: nothing was pushed since it was cut.             *)
SliceCurrent ==
  \A t \in Turns :
    /\ pc[t] \in {"inserting", "touching"} =>
         flush[t].msgs = SubSeq(messages, lastPersisted + 1, Len(messages))
    /\ pc[t] = "touching" =>
         \A n \in lastPersisted + 1 .. Len(messages) : Logged(messages[n])

IInv == Shapes /\ Solo /\ Seeded /\ SliceCurrent /\ NothingLost

LEMMA InitIInv == Init => IInv
<1> SUFFICES ASSUME Init PROVE IInv
  OBVIOUS
<1>1. messages \in Seq({}) /\ log \in Seq({})
  BY EmptySeq DEF Init
<1>2. Shapes
  BY <1>1 DEF Init, Shapes
<1>3. QED
  BY <1>2 DEF Init, IInv, Solo, Active, Seeded, SliceCurrent, NothingLost, Undefined

-----------------------------------------------------------------------------
(* One more message, the old ones where they were.                         *)
LEMMA AppendKeeps ==
  ASSUME NEW s, NEW e, \E S : s \in Seq(S)
  PROVE  /\ \E S : Append(s, e) \in Seq(S)
         /\ Len(s) \in Nat
         /\ Len(Append(s, e)) = Len(s) + 1
         /\ \A n \in 1 .. Len(s) : Append(s, e)[n] = s[n]
<1>1. PICK S : s \in Seq(S)
  OBVIOUS
<1>2. s \in Seq(S \cup {e}) /\ e \in S \cup {e}
  BY <1>1, SeqMonotonic
<1>3. QED
  BY <1>2

LEMMA ConcatKeeps ==
  ASSUME NEW S, NEW T, NEW s \in Seq(S), NEW u \in Seq(T)
  PROVE  /\ s \o u \in Seq(S \cup T)
         /\ Len(s) \in Nat /\ Len(u) \in Nat
         /\ Len(s \o u) = Len(s) + Len(u)
         /\ \A n \in 1 .. Len(s) : (s \o u)[n] = s[n]
         /\ \A n \in 1 .. Len(u) : (s \o u)[Len(s) + n] = u[n]
<1>1. s \in Seq(S \cup T) /\ u \in Seq(S \cup T)
  BY SeqMonotonic
<1>2. QED
  BY <1>1, ConcatProperties

LEMMA SubSeqOf ==
  ASSUME NEW s, \E S : s \in Seq(S), NEW m \in Nat, m =< Len(s)
  PROVE  /\ Len(s) \in Nat
         /\ Len(SubSeq(s, m + 1, Len(s))) = Len(s) - m
         /\ \A n \in m + 1 .. Len(s) : SubSeq(s, m + 1, Len(s))[n - m] = s[n]
<1>1. PICK S : s \in Seq(S)
  OBVIOUS
<1>2. Len(s) \in Nat /\ \A i \in m + 1 .. Len(s) : s[i] \in S
  BY <1>1, ElementOfSeq
<1>3. CASE m < Len(s)
  <2>1. Len(SubSeq(s, m + 1, Len(s))) = Len(s) - m
    BY <1>1, <1>2, <1>3, SubSeqProperties
  <2>2. \A i \in 1 .. Len(s) - m : SubSeq(s, m + 1, Len(s))[i] = s[m + i]
    BY <1>1, <1>2, <1>3, SubSeqProperties
  <2>3. QED
    BY <1>2, <2>1, <2>2
<1>4. CASE m = Len(s)
  <2>1. SubSeq(s, m + 1, Len(s)) = <<>>
    BY <1>2, <1>4, SubSeqEmpty
  <2>2. QED
    BY <1>2, <1>4, <2>1
<1>5. QED
  BY <1>2, <1>3, <1>4

LEMMA FunctionIsSeq ==
  ASSUME NEW f, NEW k \in Nat, f = [i \in 1 .. k |-> f[i]]
  PROVE  (\E S : f \in Seq(S)) /\ Len(f) = k
<1> DEFINE S == {f[i] : i \in 1 .. k}
<1>1. f \in [1 .. k -> S]
  OBVIOUS
<1>2. f \in Seq(S)
  BY <1>1, SeqDef
<1>3. Len(f) \in Nat /\ DOMAIN f = 1 .. Len(f) /\ DOMAIN f = 1 .. k
  BY <1>1, <1>2, LenProperties
<1>4. Len(f) = k
  BY <1>3
<1>5. QED
  BY <1>2, <1>4

LEMMA ReloadIsSeq ==
  ASSUME NEW c, NEW prior \in Reloads(c), \E S : log \in Seq(S)
  PROVE  \E S : prior \in Seq(S)
<1>1. Len(log) \in Nat
  BY AppendKeeps
<1>2. IsFiniteSet(RowsOf(c))
  <2>1. IsFiniteSet(1 .. Len(log)) /\ RowsOf(c) \subseteq 1 .. Len(log)
    BY <1>1, FS_Interval DEF RowsOf
  <2>2. QED
    BY <2>1, FS_Subset
<1>3. Cardinality(RowsOf(c)) \in Nat
  BY <1>2, FS_CardinalityType
<1>4. PICK tie : prior = Reload(c, tie)
  BY DEF Reloads
<1>5. prior = [i \in 1 .. Cardinality(RowsOf(c)) |-> prior[i]]
  BY <1>4 DEF Reload
<1>6. QED
  BY <1>3, <1>5, FunctionIsSeq

-----------------------------------------------------------------------------
(* A request is accepted: no turn runs, the session gets one message.      *)
LEMMA AcceptStep ==
  ASSUME IInv, Careful, NEW t \in Turns, Accept(t)
  PROVE  /\ \A u \in Turns : ~Active(u)
         /\ \E S : messages' \in Seq(S)
         /\ Len(messages) \in Nat
         /\ Len(messages') = Len(messages) + 1
         /\ \A n \in 1 .. Len(messages) : messages'[n] = messages[n]
         /\ session'
<1>1. \A u \in Turns : ~Active(u)
  BY DEF Accept, Careful
<1>2. messages' = Append(messages, sent + 1) /\ session'
  BY DEF Accept
<1>3. \E S : messages \in Seq(S)
  BY DEF IInv, Shapes
<1>4. QED
  BY <1>1, <1>2, <1>3, AppendKeeps

(* A turn that starts to run: with a fresh session nothing is below the    *)
(* watermark it is seeded with that the log must hold.                     *)
LEMMA SeedStep ==
  ASSUME NothingLost, Shapes, NEW n \in 0 .. Len(messages'), Seed(n),
         Len(messages') \in Nat, Len(messages) \in Nat, log' = log,
         \/ lastPersisted = Undefined
         \/ /\ Len(messages) =< Len(messages')
            /\ \A k \in 1 .. Len(messages) : messages'[k] = messages[k]
  PROVE  /\ NothingLost'
         /\ lastPersisted' \in 0 .. Len(messages')
         /\ floor' \in Nat
<1>1. CASE lastPersisted = Undefined
  BY <1>1 DEF Seed, NothingLost
<1>2. CASE lastPersisted # Undefined
  <2>1. lastPersisted' = lastPersisted /\ floor' = floor
    BY <1>2 DEF Seed
  <2>2. lastPersisted \in 0 .. Len(messages) /\ floor \in Nat
    BY <1>2 DEF Shapes
  <2>3. \A k \in 1 .. Len(messages) : messages'[k] = messages[k]
    BY <1>2
  <2>4. NothingLost'
    BY <2>1, <2>2, <2>3 DEF NothingLost
  <2>5. QED
    BY <1>2, <2>1, <2>2, <2>4
<1>3. QED
  BY <1>1, <1>2

(* persistTurnSoFar cuts its slice, with or without a new message.         *)
LEMMA StartFlushStep ==
  ASSUME IInv, NEW t \in Turns, NEW last \in BOOLEAN, pc[t] = "running",
         StartFlush(t, last),
         \E S : messages' \in Seq(S),
         Len(messages) \in Nat, Len(messages') \in Nat,
         Len(messages) =< Len(messages'),
         \A k \in 1 .. Len(messages) : messages'[k] = messages[k],
         UNCHANGED <<session, lastPersisted, conversation, created, log, floor>>
  PROVE  IInv'
<1>0. Shapes /\ Solo /\ Seeded /\ SliceCurrent /\ NothingLost
  BY DEF IInv
<1>1. lastPersisted \in 0 .. Len(messages) /\ floor \in Nat /\ lastPersisted # Undefined
  BY <1>0 DEF Shapes, Seeded
<1>2. \A u \in Turns : u # t => ~Active(u)
  BY <1>0 DEF Solo, Active
<1>3. DOMAIN pc = Turns /\ DOMAIN flush = Turns
  BY <1>0 DEF Shapes
<1>4. PICK place \in {"running", "done", "inserting"} : pc' = [pc EXCEPT ![t] = place]
  BY DEF StartFlush, Resume, Goto
<1>5. pc'[t] = place /\ \A u \in Turns : u # t => pc'[u] = pc[u]
  BY <1>3, <1>4
<1>6. \A u \in Turns : u # t => pc'[u] \in {"new", "done"}
  BY <1>2, <1>5 DEF Active
<1>7. DOMAIN flush' = Turns
  BY <1>3 DEF StartFlush
<1>8. place = "inserting" =>
        flush'[t].msgs = SubSeq(messages', lastPersisted + 1, Len(messages'))
  BY <1>3, <1>5 DEF StartFlush, Resume, Goto
<1>9. Shapes'
  BY <1>0, <1>1, <1>3, <1>4, <1>7 DEF Shapes
<1>10. Solo'
  BY <1>6 DEF Solo, Active
<1>11. Seeded'
  <2>1. ~session' => lastPersisted' = Undefined
    BY <1>0 DEF Seeded
  <2>2. session'
    BY <1>0 DEF Seeded, Active
  <2>3. QED
    BY <1>1, <1>5, <1>6, <2>1, <2>2 DEF Seeded, Active
<1>12. SliceCurrent'
  BY <1>5, <1>6, <1>8 DEF SliceCurrent
<1>13. NothingLost'
  BY <1>0, <1>1 DEF NothingLost
<1>14. QED
  BY <1>9, <1>10, <1>11, <1>12, <1>13 DEF IInv

(* A turn moves on without touching the session or the log.                *)
LEMMA MoveOn ==
  ASSUME IInv, NEW t \in Turns, Active(t),
         NEW place \in {"running", "done"}, pc' = [pc EXCEPT ![t] = place],
         place = "running" => lastPersisted # Undefined,
         DOMAIN flush' = Turns,
         UNCHANGED <<session, messages, lastPersisted, log, floor>>
  PROVE  IInv'
<1>0. Shapes /\ Solo /\ Seeded /\ SliceCurrent /\ NothingLost
  BY DEF IInv
<1>1. pc'[t] = place /\ \A u \in Turns : u # t => pc'[u] = pc[u]
  BY <1>0 DEF Shapes
<1>2. \A u \in Turns : u # t => pc'[u] \in {"new", "done"}
  BY <1>0, <1>1 DEF Solo, Active
<1>3. Shapes'
  BY <1>0 DEF Shapes
<1>4. Solo' /\ SliceCurrent'
  BY <1>1, <1>2 DEF Solo, Active, SliceCurrent
<1>5. Seeded'
  BY <1>0, <1>1, <1>2 DEF Seeded, Active
<1>6. NothingLost'
  BY <1>0 DEF NothingLost
<1>7. QED
  BY <1>3, <1>4, <1>5, <1>6 DEF IInv

-----------------------------------------------------------------------------
(* One lemma per kind of step.                                             *)

LEMMA PostStep ==
  ASSUME IInv, Careful, NEW t \in Turns,
         PostNew(t) \/ PostAgent(t) \/ \E c \in Conversations : PostContinue(t, c)
  PROVE  IInv'
<1>0. Shapes /\ Solo /\ Seeded /\ SliceCurrent /\ NothingLost
  BY DEF IInv
<1>1. Accept(t)
  BY DEF PostNew, PostAgent, PostContinue
<1>2. /\ \A u \in Turns : ~Active(u)
      /\ \E S : messages' \in Seq(S)
      /\ Len(messages) \in Nat
      /\ Len(messages') = Len(messages) + 1
      /\ \A n \in 1 .. Len(messages) : messages'[n] = messages[n]
      /\ session'
  BY <1>1, AcceptStep
<1>3. PICK place \in {"loading", "creating", "running"} : pc' = [pc EXCEPT ![t] = place]
  BY DEF PostNew, PostAgent, PostContinue, Goto
<1>4. pc'[t] = place /\ \A u \in Turns : u # t => pc'[u] = pc[u]
  BY <1>0, <1>3 DEF Shapes
<1>5. \A u \in Turns : u # t => pc'[u] \in {"new", "done"}
  BY <1>2, <1>4 DEF Active
<1>6. log' = log /\ DOMAIN flush' = Turns /\ DOMAIN pc' = Turns
  BY <1>0, <1>3 DEF PostNew, PostAgent, PostContinue, Shapes
<1>7. /\ NothingLost'
      /\ lastPersisted' \in {Undefined} \cup (0 .. Len(messages'))
      /\ floor' \in Nat
      /\ place = "loading" => lastPersisted' = Undefined
      /\ place = "running" => lastPersisted' # Undefined
  <2>1. CASE PostAgent(t)
    <3>1. Seed(Len(messages')) /\ place = "running"
      BY <1>3, <1>4, <1>0, <2>1 DEF PostAgent, Goto, Shapes
    <3>2. NothingLost' /\ lastPersisted' \in 0 .. Len(messages') /\ floor' \in Nat
      BY <1>0, <1>2, <1>6, <3>1, SeedStep
    <3>3. QED
      BY <3>1, <3>2 DEF Undefined
  <2>2. CASE PostNew(t)
    <3>1. UNCHANGED <<lastPersisted, floor>> /\ pc' = [pc EXCEPT ![t] = "creating"]
      BY <2>2 DEF PostNew, Goto
    <3>2. place = "creating"
      BY <1>0, <1>4, <3>1 DEF Shapes
    <3>3. lastPersisted \in {Undefined} \cup (0 .. Len(messages)) /\ floor \in Nat
      BY <1>0 DEF Shapes
    <3>4. floor + 1 .. lastPersisted \subseteq 1 .. Len(messages)
      BY <1>2, <3>3 DEF Undefined
    <3>5. NothingLost'
      BY <1>0, <1>2, <1>6, <3>1, <3>4 DEF NothingLost
    <3>6. QED
      BY <1>2, <3>1, <3>2, <3>3, <3>5
  <2>3. CASE \E c \in Conversations : PostContinue(t, c)
    <3>1. UNCHANGED <<lastPersisted, floor>> /\ place = "loading" /\ ~session
      BY <1>4, <1>0, <2>3 DEF PostContinue, Goto, Shapes, Careful
    <3>2. lastPersisted = Undefined
      BY <1>0, <3>1 DEF Seeded
    <3>3. NothingLost'
      BY <1>0, <3>1, <3>2 DEF NothingLost, Undefined, Shapes
    <3>4. QED
      BY <1>0, <3>1, <3>2, <3>3 DEF Shapes
  <2>4. QED
    BY <2>1, <2>2, <2>3
<1>8. \E S : log' \in Seq(S)
  BY <1>0, <1>6 DEF Shapes
<1>9. Shapes'
  BY <1>2, <1>6, <1>7, <1>8 DEF Shapes
<1>10. Solo' /\ SliceCurrent'
  BY <1>3, <1>4, <1>5 DEF Solo, Active, SliceCurrent
<1>11. Seeded'
  BY <1>2, <1>4, <1>5, <1>7 DEF Seeded, Active
<1>12. QED
  BY <1>7, <1>9, <1>10, <1>11 DEF IInv

LEMMA LoadedStep ==
  ASSUME IInv, NEW t \in Turns, NEW prior \in Reloads(flush[t].conv), Loaded(t, prior)
  PROVE  IInv'
<1>0. Shapes /\ Solo /\ Seeded /\ SliceCurrent /\ NothingLost
  BY DEF IInv
<1>1. pc[t] = "loading" /\ lastPersisted = Undefined
  BY <1>0 DEF Loaded, Seeded
<1>2. \E S : prior \in Seq(S)
  BY <1>0, ReloadIsSeq DEF Shapes
<1>3. /\ \E S : messages' \in Seq(S)
      /\ Len(prior) \in Nat /\ Len(messages) \in Nat
      /\ Len(messages') = Len(prior) + Len(messages)
  <2>1. PICK S, T : prior \in Seq(S) /\ messages \in Seq(T)
    BY <1>0, <1>2 DEF Shapes
  <2>2. messages' = prior \o messages
    BY DEF Loaded, Prepend
  <2>3. /\ prior \o messages \in Seq(S \cup T)
        /\ Len(prior) \in Nat /\ Len(messages) \in Nat
        /\ Len(prior \o messages) = Len(prior) + Len(messages)
    BY <2>1, ConcatKeeps
  <2>4. QED
    BY <2>2, <2>3
<1>4. Seed(Len(prior)) /\ log' = log
  BY DEF Loaded
<1>5. Len(prior) \in 0 .. Len(messages') /\ Len(messages') \in Nat
  BY <1>3
<1>6. NothingLost' /\ lastPersisted' \in 0 .. Len(messages') /\ floor' \in Nat
  BY <1>0, <1>1, <1>3, <1>4, <1>5, SeedStep
<1>7. pc' = [pc EXCEPT ![t] = "running"] /\ DOMAIN flush' = Turns /\ session' = session
  BY <1>0 DEF Loaded, Goto, Shapes
<1>8. pc'[t] = "running" /\ \A u \in Turns : u # t => pc'[u] = pc[u]
  BY <1>0, <1>7 DEF Shapes
<1>9. \A u \in Turns : u # t => pc'[u] \in {"new", "done"}
  BY <1>0, <1>1, <1>8 DEF Solo, Active
<1>10. Shapes'
  BY <1>0, <1>3, <1>4, <1>6, <1>7 DEF Shapes
<1>11. Solo' /\ SliceCurrent'
  BY <1>8, <1>9 DEF Solo, Active, SliceCurrent
<1>12. Seeded'
  BY <1>0, <1>1, <1>6, <1>7, <1>8, <1>9 DEF Seeded, Active, Undefined
<1>13. QED
  BY <1>6, <1>10, <1>11, <1>12 DEF IInv

LEMMA CreatedStep ==
  ASSUME IInv, NEW t \in Turns, ConversationCreated(t)
  PROVE  IInv'
<1>0. Shapes /\ Solo /\ Seeded /\ SliceCurrent /\ NothingLost
  BY DEF IInv
<1>1. /\ pc[t] = "creating"
      /\ UNCHANGED <<session, messages, log, flush>>
      /\ Seed(0)
      /\ pc' = [pc EXCEPT ![t] = "running"]
  BY DEF ConversationCreated, Goto
<1>2. Len(messages) \in Nat
  BY <1>0, AppendKeeps DEF Shapes
<1>3. NothingLost' /\ lastPersisted' \in 0 .. Len(messages') /\ floor' \in Nat
  BY <1>0, <1>1, <1>2, SeedStep
<1>4. pc'[t] = "running" /\ \A u \in Turns : u # t => pc'[u] = pc[u]
  BY <1>0, <1>1 DEF Shapes
<1>5. \A u \in Turns : u # t => pc'[u] \in {"new", "done"}
  BY <1>0, <1>1, <1>4 DEF Solo, Active
<1>6. Shapes'
  BY <1>0, <1>1, <1>3 DEF Shapes
<1>7. Solo' /\ SliceCurrent'
  BY <1>4, <1>5 DEF Solo, Active, SliceCurrent
<1>8. Seeded'
  BY <1>0, <1>1, <1>3, <1>4, <1>5 DEF Seeded, Active, Undefined
<1>9. QED
  BY <1>3, <1>6, <1>7, <1>8 DEF IInv

LEMMA CommitStep ==
  ASSUME IInv, NEW t \in Turns, Commit(t) \/ Finish(t)
  PROVE  IInv'
<1>1. PICK last \in BOOLEAN : StartFlush(t, last)
  BY DEF Commit, Finish
<1>2. \E S : messages \in Seq(S)
  BY DEF IInv, Shapes
<1>3. /\ \E S : messages' \in Seq(S)
      /\ Len(messages) \in Nat /\ Len(messages') \in Nat
      /\ Len(messages) =< Len(messages')
      /\ \A k \in 1 .. Len(messages) : messages'[k] = messages[k]
  <2>1. CASE Commit(t)
    <3>1. messages' = Append(messages, sent + 1)
      BY <2>1 DEF Commit
    <3>2. /\ \E S : Append(messages, sent + 1) \in Seq(S)
          /\ Len(messages) \in Nat
          /\ Len(Append(messages, sent + 1)) = Len(messages) + 1
          /\ \A n \in 1 .. Len(messages) : Append(messages, sent + 1)[n] = messages[n]
      BY <1>2, AppendKeeps
    <3>3. QED
      BY <3>1, <3>2
  <2>2. CASE Finish(t)
    <3>1. messages' = messages
      BY <2>2 DEF Finish
    <3>2. Len(messages) \in Nat
      BY <1>2, AppendKeeps
    <3>3. QED
      BY <1>2, <3>1, <3>2
  <2>3. QED
    BY <2>1, <2>2
<1>4. pc[t] = "running" /\ UNCHANGED <<session, lastPersisted, conversation, created, log, floor>>
  BY DEF Commit, Finish
<1>5. QED
  BY <1>1, <1>3, <1>4, StartFlushStep

LEMMA InsertStep ==
  ASSUME IInv, NEW t \in Turns, InsertRows(t)
  PROVE  IInv'
<1>0. Shapes /\ Solo /\ Seeded /\ SliceCurrent /\ NothingLost
  BY DEF IInv
<1> DEFINE rows == [n \in 1 .. Len(flush[t].msgs) |->
                      [conv |-> flush[t].conv, msg |-> flush[t].msgs[n],
                       at |-> CreatedAt(flush[t].base, n)]]
<1>1. /\ pc[t] = "inserting"
      /\ UNCHANGED <<session, messages, lastPersisted, flush, floor>>
      /\ log' = log \o rows
      /\ pc' = [pc EXCEPT ![t] = "touching"]
  BY DEF InsertRows, Goto
<1>2. lastPersisted \in 0 .. Len(messages) /\ lastPersisted # Undefined
  BY <1>0, <1>1 DEF Shapes, Seeded
<1>3. flush[t].msgs = SubSeq(messages, lastPersisted + 1, Len(messages))
  BY <1>0, <1>1 DEF SliceCurrent
<1>4. /\ Len(messages) \in Nat
      /\ Len(flush[t].msgs) = Len(messages) - lastPersisted
      /\ \A n \in lastPersisted + 1 .. Len(messages) :
           flush[t].msgs[n - lastPersisted] = messages[n]
  BY <1>0, <1>2, <1>3, SubSeqOf DEF Shapes
<1>5. Len(flush[t].msgs) \in Nat
  BY <1>2, <1>4
<1>6. (\E S : rows \in Seq(S)) /\ Len(rows) = Len(flush[t].msgs)
  <2>1. rows = [n \in 1 .. Len(flush[t].msgs) |-> rows[n]]
    OBVIOUS
  <2> HIDE DEF rows
  <2>2. QED
    BY <1>5, <2>1, FunctionIsSeq
<1>7. Len(rows) = Len(flush[t].msgs)
  BY <1>6
<1>8. \A n \in 1 .. Len(flush[t].msgs) : rows[n].msg = flush[t].msgs[n]
  OBVIOUS
<1> HIDE DEF rows
<1>9. /\ \E S : log' \in Seq(S)
      /\ Len(log) \in Nat
      /\ Len(log') = Len(log) + Len(rows)
      /\ \A n \in 1 .. Len(log) : log'[n] = log[n]
      /\ \A n \in 1 .. Len(rows) : log'[Len(log) + n] = rows[n]
  <2>1. \E S : log \in Seq(S)
    BY <1>0 DEF Shapes
  <2>2. PICK S, T : log \in Seq(S) /\ rows \in Seq(T)
    BY <1>6, <2>1
  <2>3. /\ log \o rows \in Seq(S \cup T)
        /\ Len(log) \in Nat
        /\ Len(log \o rows) = Len(log) + Len(rows)
        /\ \A n \in 1 .. Len(log) : (log \o rows)[n] = log[n]
        /\ \A n \in 1 .. Len(rows) : (log \o rows)[Len(log) + n] = rows[n]
    BY <2>2, ConcatKeeps
  <2>4. QED
    BY <1>1, <2>3
<1>10. \A m : Logged(m) => Logged(m)'
  BY <1>5, <1>7, <1>9 DEF Logged
<1>11. \A n \in lastPersisted + 1 .. Len(messages) : Logged(messages[n])'
  <2> SUFFICES ASSUME NEW n \in lastPersisted + 1 .. Len(messages)
               PROVE  Logged(messages[n])'
    OBVIOUS
  <2>1. n - lastPersisted \in 1 .. Len(rows)
    BY <1>2, <1>4, <1>7
  <2>2. rows[n - lastPersisted].msg = messages[n]
    BY <1>4, <1>7, <1>8, <2>1
  <2>3. log'[Len(log) + (n - lastPersisted)].msg = messages[n]
    BY <1>9, <2>1, <2>2
  <2>4. Len(log) + (n - lastPersisted) \in 1 .. Len(log')
    BY <1>5, <1>7, <1>9, <2>1
  <2>5. messages' = messages
    BY <1>1
  <2>6. QED
    BY <2>3, <2>4, <2>5 DEF Logged
<1>12. pc'[t] = "touching" /\ \A u \in Turns : u # t => pc'[u] = pc[u]
  BY <1>0, <1>1 DEF Shapes
<1>13. \A u \in Turns : u # t => pc'[u] \in {"new", "done"}
  BY <1>0, <1>1, <1>12 DEF Solo, Active
<1>14. Shapes'
  BY <1>0, <1>1, <1>9 DEF Shapes
<1>15. Solo'
  BY <1>13 DEF Solo, Active
<1>16. Seeded'
  BY <1>0, <1>1, <1>2, <1>12, <1>13 DEF Seeded, Active
<1>17. SliceCurrent'
  BY <1>1, <1>3, <1>11, <1>12, <1>13 DEF SliceCurrent
<1>18. NothingLost'
  <2>1. NothingLost = \A n \in floor + 1 .. lastPersisted : Logged(messages[n])
    BY DEF NothingLost, Logged
  <2>2. NothingLost' = \A n \in floor' + 1 .. lastPersisted' : Logged(messages[n])'
    BY DEF NothingLost, Logged
  <2>3. messages' = messages /\ lastPersisted' = lastPersisted /\ floor' = floor
    BY <1>1
  <2>4. QED
    BY <1>0, <1>10, <2>1, <2>2, <2>3 DEF Logged
<1>19. QED
  BY <1>14, <1>15, <1>16, <1>17, <1>18 DEF IInv

LEMMA FlushSucceedsStep ==
  ASSUME IInv, NEW t \in Turns, FlushSucceeds(t)
  PROVE  IInv'
<1>0. Shapes /\ Solo /\ Seeded /\ SliceCurrent /\ NothingLost
  BY DEF IInv
<1>1. /\ pc[t] = "touching"
      /\ lastPersisted' = Len(messages)
      /\ UNCHANGED <<session, messages, log, floor>>
  BY DEF FlushSucceeds, FlushEnds, NewWatermark
<1>2. PICK place \in {"running", "done"} : pc' = [pc EXCEPT ![t] = place]
  BY DEF FlushSucceeds, FlushEnds, Resume, Goto
<1>3. DOMAIN flush' = Turns
  BY <1>0 DEF FlushSucceeds, FlushEnds, Shapes
<1>4. lastPersisted \in 0 .. Len(messages) /\ Len(messages) \in Nat /\ floor \in Nat
  <2>1. Len(messages) \in Nat
    BY <1>0, AppendKeeps DEF Shapes
  <2>2. QED
    BY <1>0, <1>1, <2>1 DEF Shapes, Seeded
<1>5. pc'[t] = place /\ \A u \in Turns : u # t => pc'[u] = pc[u]
  BY <1>0, <1>2 DEF Shapes
<1>6. \A u \in Turns : u # t => pc'[u] \in {"new", "done"}
  BY <1>0, <1>1, <1>5 DEF Solo, Active
<1>7. Shapes'
  BY <1>0, <1>1, <1>2, <1>3, <1>4 DEF Shapes
<1>8. Solo' /\ SliceCurrent'
  BY <1>5, <1>6 DEF Solo, Active, SliceCurrent
<1>9. Seeded'
  <2>1. session' /\ lastPersisted' # Undefined
    BY <1>0, <1>1, <1>4 DEF Seeded, Active, Undefined
  <2>2. QED
    BY <1>5, <1>6, <2>1 DEF Seeded
<1>10. NothingLost'
  <2>1. \A n \in lastPersisted + 1 .. Len(messages) : Logged(messages[n])
    BY <1>0, <1>1 DEF SliceCurrent
  <2>2. \A n \in floor + 1 .. lastPersisted : Logged(messages[n])
    BY <1>0 DEF NothingLost, Logged
  <2>3. \A n \in floor + 1 .. Len(messages) : Logged(messages[n])
    BY <1>4, <2>1, <2>2
  <2>4. QED
    BY <1>1, <2>3 DEF NothingLost, Logged
<1>11. QED
  BY <1>7, <1>8, <1>9, <1>10 DEF IInv

LEMMA LoseSessionStep == IInv /\ LoseSession => IInv'
<1> SUFFICES ASSUME IInv, LoseSession PROVE IInv'
  OBVIOUS
<1>0. Shapes /\ Solo /\ Seeded /\ SliceCurrent /\ NothingLost
  BY DEF IInv
<1>1. /\ messages' = <<>> /\ lastPersisted' = Undefined /\ floor' = 0
      /\ pc' = [t \in Turns |-> IF Active(t) THEN "done" ELSE pc[t]]
      /\ flush' = [t \in Turns |-> NoFlush]
      /\ log' = log
  BY DEF LoseSession
<1>2. \A t \in Turns : pc'[t] \in {"new", "done"}
  BY <1>1 DEF Active
<1>3. messages' \in Seq({})
  BY <1>1, EmptySeq
<1>4. Shapes'
  BY <1>0, <1>1, <1>3 DEF Shapes
<1>5. Solo' /\ Seeded' /\ SliceCurrent'
  BY <1>1, <1>2 DEF Solo, Active, Seeded, SliceCurrent
<1>6. NothingLost'
  BY <1>1 DEF NothingLost, Undefined
<1>7. QED
  BY <1>4, <1>5, <1>6 DEF IInv

(* The steps that only end a request, a flush that failed or a turn.       *)
LEMMA EndingStep ==
  ASSUME IInv, NEW t \in Turns,
         PostFails(t) \/ Stop(t) \/ InsertFails(t) \/ TouchFails(t)
  PROVE  IInv'
<1>0. Shapes /\ Seeded
  BY DEF IInv
<1>1. UNCHANGED <<session, messages, lastPersisted, log, floor>>
  BY DEF PostFails, Stop, InsertFails, TouchFails, FlushEnds, KeepWatermark
<1>2. DOMAIN flush' = Turns
  BY <1>0 DEF PostFails, Stop, InsertFails, TouchFails, FlushEnds, Shapes
<1>3. Active(t)
  BY DEF PostFails, Stop, InsertFails, TouchFails, Active
<1>4. CASE PostFails(t) \/ Stop(t)
  <2>1. pc' = [pc EXCEPT ![t] = "done"]
    BY <1>4 DEF PostFails, Stop, Goto
  <2>2. QED
    BY <1>1, <1>2, <1>3, <2>1, MoveOn
<1>5. CASE InsertFails(t) \/ TouchFails(t)
  <2>1. PICK place \in {"running", "done"} : pc' = [pc EXCEPT ![t] = place]
    BY <1>5 DEF InsertFails, TouchFails, FlushEnds, Resume, Goto
  <2>2. lastPersisted # Undefined
    BY <1>0, <1>5 DEF InsertFails, TouchFails, Seeded
  <2>3. QED
    BY <1>1, <1>2, <1>3, <2>1, <2>2, MoveOn
<1>6. QED
  BY <1>4, <1>5

-----------------------------------------------------------------------------
LEMMA StepIInv == Careful /\ IInv /\ [Next]_vars => IInv'
<1> SUFFICES ASSUME Careful, IInv, [Next]_vars PROVE IInv'
  OBVIOUS
<1>1. CASE UNCHANGED vars
  BY <1>1 DEF vars, IInv, Shapes, Solo, Active, Seeded, SliceCurrent, Logged, NothingLost
<1>2. CASE LoseSession
  BY <1>2, LoseSessionStep
<1>3. ASSUME NEW t \in Turns, TurnStep(t) PROVE IInv'
  <2>1. CASE PostNew(t) \/ PostAgent(t) \/ \E c \in Conversations : PostContinue(t, c)
    BY <2>1, PostStep
  <2>2. CASE \E prior \in Reloads(flush[t].conv) : Loaded(t, prior)
    BY <2>2, LoadedStep
  <2>3. CASE ConversationCreated(t)
    BY <2>3, CreatedStep
  <2>4. CASE Commit(t) \/ Finish(t)
    BY <2>4, CommitStep
  <2>5. CASE InsertRows(t)
    BY <2>5, InsertStep
  <2>6. CASE FlushSucceeds(t)
    BY <2>6, FlushSucceedsStep
  <2>7. CASE PostFails(t) \/ Stop(t) \/ InsertFails(t) \/ TouchFails(t)
    BY <2>7, EndingStep
  <2>8. QED
    BY <1>3, <2>1, <2>2, <2>3, <2>4, <2>5, <2>6, <2>7 DEF TurnStep
<1>4. QED
  BY <1>1, <1>2, <1>3 DEF Next

(* What the log is for: whatever is below the watermark has been written,  *)
(* through every failed write, restart, reload and new conversation.       *)
THEOREM LogKeepsWhatItAcknowledged ==
  ASSUME Careful
  PROVE  Spec => []NothingLost
<1>1. IInv /\ [Next]_vars => IInv'
  BY StepIInv
<1>2. IInv => NothingLost
  BY DEF IInv
<1>3. QED
  BY <1>1, <1>2, InitIInv, PTL DEF Spec

-----------------------------------------------------------------------------
(* The messages not yet acknowledged are above Low.  They are new to the   *)
(* log, unless a slice of them has just been inserted or was before its    *)
(* update failed; and they differ from each other.                         *)
Low == IF lastPersisted = Undefined THEN 0 ELSE lastPersisted
Touching == \E t \in Turns : pc[t] = "touching"

Numbered ==
  /\ sent \in Nat
  /\ \A r \in 1 .. Len(log) : log[r].msg \in 1 .. sent
  /\ \A n \in Low + 1 .. Len(messages) : messages[n] \in 1 .. sent

Distinct == \A m, n \in Low + 1 .. Len(messages) : messages[m] = messages[n] => m = n

NewToLog ==
  Touching \/ \A n \in Low + 1 .. Len(messages) :
                Logged(messages[n]) => messages[n] \in halfWritten

OnceInv == IInv /\ Numbered /\ Distinct /\ NewToLog /\ ExactlyOnce

LEMMA InitOnce == Init => OnceInv
<1> SUFFICES ASSUME Init PROVE OnceInv
  OBVIOUS
<1>1. Len(messages) = 0 /\ Len(log) = 0 /\ sent = 0 /\ lastPersisted = Undefined
  BY DEF Init
<1>2. QED
  BY <1>1, InitIInv DEF OnceInv, Numbered, Distinct, NewToLog, ExactlyOnce, Low, Undefined

LEMMA LowIsLow ==
  ASSUME Shapes
  PROVE  Len(messages) \in Nat /\ Len(log) \in Nat /\ Low \in 0 .. Len(messages)
<1>1. Len(messages) \in Nat /\ Len(log) \in Nat
  BY AppendKeeps DEF Shapes
<1>2. QED
  BY <1>1 DEF Shapes, Low

(* Nobody but the turn that runs can be between the two writes.            *)
LEMMA NotTouching ==
  ASSUME Solo, NEW t \in Turns, Active(t), pc[t] # "touching"
  PROVE  ~ Touching
BY DEF Solo, Active, Touching

(* Nothing is written; one message more perhaps.                           *)
LEMMA PushOnce ==
  ASSUME OnceInv, ~ Touching, NEW low \in Nat, Low' = low, Low =< low,
         UNCHANGED <<log, halfWritten>>,
         \/ UNCHANGED <<messages, sent>>
         \/ sent' = sent + 1 /\ messages' = Append(messages, sent + 1)
  PROVE  Numbered' /\ Distinct' /\ NewToLog' /\ ExactlyOnce'
<1>0. Numbered /\ Distinct /\ NewToLog /\ ExactlyOnce /\ Shapes
  BY DEF OnceInv, IInv
<1>1. Len(messages) \in Nat /\ Low \in Nat /\ sent \in Nat /\ Len(log) \in Nat
  BY <1>0, LowIsLow DEF Numbered
<1>2. ExactlyOnce'
  BY <1>0 DEF ExactlyOnce
<1>3. \A n \in Low + 1 .. Len(messages) :
        Logged(messages[n]) => messages[n] \in halfWritten
  BY <1>0 DEF NewToLog
<1>4. CASE UNCHANGED <<messages, sent>>
  <2>1. Numbered' /\ Distinct'
    BY <1>0, <1>1, <1>4 DEF Numbered, Distinct
  <2>2. \A n \in low + 1 .. Len(messages') :
          Logged(messages[n]) => messages[n] \in halfWritten
    BY <1>1, <1>3, <1>4
  <2>3. NewToLog'
    BY <1>4, <2>2 DEF NewToLog, Logged
  <2>4. QED
    BY <1>2, <2>1, <2>3
<1>5. CASE sent' = sent + 1 /\ messages' = Append(messages, sent + 1)
  <2>1. /\ Len(messages') = Len(messages) + 1
        /\ \A n \in 1 .. Len(messages) : messages'[n] = messages[n]
        /\ messages'[Len(messages) + 1] = sent + 1
    <3>1. PICK S : messages \in Seq(S)
      BY <1>0 DEF Shapes
    <3>2. messages \in Seq(S \cup {sent + 1}) /\ sent + 1 \in S \cup {sent + 1}
      BY <3>1, SeqMonotonic
    <3>3. QED
      BY <1>5, <3>2, AppendProperties
  <2>2. \A n \in low + 1 .. Len(messages') :
          \/ n \in Low + 1 .. Len(messages) /\ messages'[n] = messages[n]
          \/ n = Len(messages) + 1 /\ messages'[n] = sent + 1
    BY <1>1, <2>1
  <2>3. Numbered'
    BY <1>0, <1>1, <1>5, <2>2 DEF Numbered
  <2>4. Distinct'
    BY <1>0, <1>1, <2>2 DEF Numbered, Distinct
  <2>5. ~ Logged(sent + 1)
    BY <1>0, <1>1 DEF Numbered, Logged
  <2>6. \A n \in low + 1 .. Len(messages') :
          Logged(messages'[n]) => messages'[n] \in halfWritten
    BY <1>3, <2>2, <2>5
  <2>7. NewToLog'
    BY <2>6 DEF NewToLog, Logged
  <2>8. QED
    BY <1>2, <2>3, <2>4, <2>7
<1>6. QED
  BY <1>4, <1>5

(* The rows of a conversation are put below the watermark.                 *)
LEMMA LoadedOnce ==
  ASSUME OnceInv, NEW t \in Turns, NEW prior \in Reloads(flush[t].conv),
         Loaded(t, prior)
  PROVE  Numbered' /\ Distinct' /\ NewToLog' /\ ExactlyOnce'
<1>0. Numbered /\ Distinct /\ NewToLog /\ ExactlyOnce /\ Shapes /\ Solo /\ Seeded
  BY DEF OnceInv, IInv
<1>1. Len(messages) \in Nat /\ Low \in Nat /\ sent \in Nat /\ Len(log) \in Nat
  BY <1>0, LowIsLow DEF Numbered
<1>2. /\ messages' = prior \o messages
      /\ UNCHANGED <<log, halfWritten, sent>>
      /\ pc[t] = "loading" /\ lastPersisted = Undefined
  BY <1>0 DEF Loaded, Prepend, Seeded
<1>3. ~ Touching
  BY <1>0, <1>2, NotTouching DEF Active
<1>4. /\ Len(prior) \in Nat
      /\ Len(messages') = Len(prior) + Len(messages)
      /\ \A n \in 1 .. Len(messages) : messages'[Len(prior) + n] = messages[n]
  <2>1. \E S : prior \in Seq(S)
    BY <1>0, ReloadIsSeq DEF Shapes
  <2>2. PICK S, T : prior \in Seq(S) /\ messages \in Seq(T)
    BY <1>0, <2>1 DEF Shapes
  <2>3. QED
    BY <1>2, <2>2, ConcatKeeps
<1>5. Low = 0 /\ Low' = Len(prior)
  BY <1>2, <1>4 DEF Loaded, Seed, Low, Undefined
<1>6. \A n \in Low' + 1 .. Len(messages') :
        /\ n - Len(prior) \in Low + 1 .. Len(messages)
        /\ messages'[n] = messages[n - Len(prior)]
  <2> SUFFICES ASSUME NEW n \in Low' + 1 .. Len(messages')
               PROVE  /\ n - Len(prior) \in Low + 1 .. Len(messages)
                      /\ messages'[n] = messages[n - Len(prior)]
    OBVIOUS
  <2>1. n - Len(prior) \in 1 .. Len(messages) /\ Len(prior) + (n - Len(prior)) = n
    BY <1>1, <1>4, <1>5
  <2>2. QED
    BY <1>4, <1>5, <2>1
<1>7. Numbered'
  BY <1>0, <1>2, <1>6 DEF Numbered
<1>8. Distinct'
  <2> SUFFICES ASSUME NEW m \in Low' + 1 .. Len(messages'),
                      NEW n \in Low' + 1 .. Len(messages'),
                      messages'[m] = messages'[n]
               PROVE  m = n
    BY DEF Distinct
  <2>1. m - Len(prior) = n - Len(prior)
    BY <1>0, <1>6 DEF Distinct
  <2>2. QED
    BY <1>1, <1>4, <1>5, <2>1
<1>9. \A n \in Low' + 1 .. Len(messages') :
        Logged(messages'[n]) => messages'[n] \in halfWritten
  BY <1>0, <1>3, <1>6 DEF NewToLog
<1>10. NewToLog' /\ ExactlyOnce'
  BY <1>0, <1>2, <1>9 DEF NewToLog, ExactlyOnce, Logged
<1>11. QED
  BY <1>7, <1>8, <1>10

(* The slice a turn inserts is the messages above Low.                     *)
LEMMA SliceIsUnsaved ==
  ASSUME IInv, NEW t \in Turns, pc[t] \in {"inserting", "touching"}
  PROVE  /\ Len(flush[t].msgs) \in Nat
         /\ Len(flush[t].msgs) = Len(messages) - Low
         /\ \A k \in 1 .. Len(flush[t].msgs) :
              /\ Low + k \in Low + 1 .. Len(messages)
              /\ flush[t].msgs[k] = messages[Low + k]
<1>1. Shapes /\ lastPersisted # Undefined
  BY DEF IInv, Seeded
<1>2. Len(messages) \in Nat /\ Low \in 0 .. Len(messages) /\ Low = lastPersisted
  BY <1>1, LowIsLow DEF Low
<1>3. flush[t].msgs = SubSeq(messages, Low + 1, Len(messages))
  BY <1>2 DEF IInv, SliceCurrent
<1>4. /\ Len(flush[t].msgs) = Len(messages) - Low
      /\ \A n \in Low + 1 .. Len(messages) : flush[t].msgs[n - Low] = messages[n]
  BY <1>1, <1>2, <1>3, SubSeqOf DEF Shapes
<1>5. ASSUME NEW k \in 1 .. Len(flush[t].msgs)
      PROVE  /\ Low + k \in Low + 1 .. Len(messages)
             /\ flush[t].msgs[k] = messages[Low + k]
  <2>1. Low + k \in Low + 1 .. Len(messages) /\ (Low + k) - Low = k
    BY <1>2, <1>4
  <2>2. QED
    BY <1>4, <2>1
<1>6. QED
  BY <1>2, <1>4, <1>5

(* The rows of the log once the slice is inserted: the old ones, and one   *)
(* for each message above Low, a millisecond apart.                        *)
LEMMA InsertedRows ==
  ASSUME IInv, NEW t \in Turns, InsertRows(t)
  PROVE  /\ Len(log') = Len(log) + (Len(messages) - Low)
         /\ \A r \in 1 .. Len(log') : r \in 1 .. Len(log) => log'[r] = log[r]
         /\ \A r \in 1 .. Len(log') : r \notin 1 .. Len(log) =>
              /\ r - Len(log) \in 1 .. Len(messages) - Low
              /\ log'[r].msg = messages[Low + (r - Len(log))]
              /\ log'[r].at = flush[t].base + (r - Len(log)) - 1
<1>1. Shapes /\ Len(messages) \in Nat /\ Low \in 0 .. Len(messages) /\ Len(log) \in Nat
  BY LowIsLow DEF IInv
<1> DEFINE rows == [n \in 1 .. Len(flush[t].msgs) |->
                      [conv |-> flush[t].conv, msg |-> flush[t].msgs[n],
                       at |-> CreatedAt(flush[t].base, n)]]
<1>2. pc[t] = "inserting" /\ log' = log \o rows
  BY DEF InsertRows
<1>3. /\ Len(flush[t].msgs) \in Nat
      /\ Len(flush[t].msgs) = Len(messages) - Low
      /\ \A k \in 1 .. Len(flush[t].msgs) : flush[t].msgs[k] = messages[Low + k]
  BY <1>2, SliceIsUnsaved
<1>4. (\E S : rows \in Seq(S)) /\ Len(rows) = Len(flush[t].msgs)
  <2>1. rows = [n \in 1 .. Len(flush[t].msgs) |-> rows[n]]
    OBVIOUS
  <2> HIDE DEF rows
  <2>2. QED
    BY <1>3, <2>1, FunctionIsSeq
<1>5. \A k \in 1 .. Len(rows) :
        rows[k].msg = messages[Low + k] /\ rows[k].at = flush[t].base + k - 1
  BY <1>3, <1>4 DEF CreatedAt
<1> HIDE DEF rows
<1>6. /\ Len(rows) \in Nat
      /\ Len(log') = Len(log) + Len(rows)
      /\ \A n \in 1 .. Len(log) : log'[n] = log[n]
      /\ \A k \in 1 .. Len(rows) : log'[Len(log) + k] = rows[k]
  <2>1. PICK S, T : log \in Seq(S) /\ rows \in Seq(T)
    BY <1>1, <1>4 DEF Shapes
  <2>2. QED
    BY <1>2, <2>1, ConcatKeeps
<1>7. ASSUME NEW r \in 1 .. Len(log'), r \notin 1 .. Len(log)
      PROVE  /\ r - Len(log) \in 1 .. Len(rows)
             /\ log'[r] = rows[r - Len(log)]
  <2>1. Len(log) \in Nat /\ Len(rows) \in Nat
    BY <1>1, <1>6
  <2>2. r \in 1 .. Len(log) + Len(rows)
    BY <1>6
  <2>3. r - Len(log) \in 1 .. Len(rows) /\ Len(log) + (r - Len(log)) = r
    BY <2>1, <2>2, <1>7
  <2>4. QED
    BY <1>6, <2>3
<1>8. Len(rows) = Len(messages) - Low
  BY <1>3, <1>4
<1>9. \A r \in 1 .. Len(log') : r \notin 1 .. Len(log) =>
        /\ r - Len(log) \in 1 .. Len(messages) - Low
        /\ log'[r].msg = messages[Low + (r - Len(log))]
        /\ log'[r].at = flush[t].base + (r - Len(log)) - 1
  BY <1>5, <1>7, <1>8
<1>10. QED
  BY <1>6, <1>8, <1>9

LEMMA InsertOnce ==
  ASSUME OnceInv, NEW t \in Turns, InsertRows(t)
  PROVE  Numbered' /\ Distinct' /\ NewToLog' /\ ExactlyOnce'
<1>0. Numbered /\ Distinct /\ NewToLog /\ ExactlyOnce /\ Shapes /\ Solo /\ IInv
  BY DEF OnceInv, IInv
<1>1. Len(messages) \in Nat /\ Low \in Nat /\ sent \in Nat /\ Len(log) \in Nat
  BY <1>0, LowIsLow DEF Numbered
<1>2. /\ pc[t] = "inserting"
      /\ UNCHANGED <<messages, lastPersisted, sent, halfWritten>>
      /\ pc' = [pc EXCEPT ![t] = "touching"]
  BY DEF InsertRows, Goto
<1>3. \A r \in 1 .. Len(log') :
        \/ r \in 1 .. Len(log) /\ log'[r] = log[r]
        \/ /\ r \notin 1 .. Len(log)
           /\ Low + (r - Len(log)) \in Low + 1 .. Len(messages)
           /\ log'[r].msg = messages[Low + (r - Len(log))]
  <2>1. /\ \A r \in 1 .. Len(log') : r \in 1 .. Len(log) => log'[r] = log[r]
        /\ \A r \in 1 .. Len(log') : r \notin 1 .. Len(log) =>
             /\ r - Len(log) \in 1 .. Len(messages) - Low
             /\ log'[r].msg = messages[Low + (r - Len(log))]
    BY <1>0, InsertedRows
  <2>2. \A k \in 1 .. Len(messages) - Low : Low + k \in Low + 1 .. Len(messages)
    BY <1>1
  <2>3. QED
    BY <2>1, <2>2
<1>4. Low' = Low /\ messages' = messages /\ sent' = sent
  BY <1>2 DEF Low
<1>5. \A r \in 1 .. Len(log') : log'[r].msg \in 1 .. sent
  BY <1>0, <1>3 DEF Numbered
<1>6. Numbered' /\ Distinct'
  BY <1>0, <1>4, <1>5 DEF Numbered, Distinct
<1>7. NewToLog'
  BY <1>0, <1>2 DEF NewToLog, Touching, Shapes
<1>8. \A n \in Low + 1 .. Len(messages) :
        Logged(messages[n]) => messages[n] \in halfWritten
  BY <1>0, <1>2, NotTouching DEF NewToLog, Active
<1>9. ExactlyOnce'
  <2> SUFFICES ASSUME NEW r \in 1 .. Len(log'), NEW q \in 1 .. Len(log'),
                      log'[r].msg = log'[q].msg, log'[r].msg \notin halfWritten
               PROVE  r = q
    BY <1>2 DEF ExactlyOnce
  <2>1. CASE r \in 1 .. Len(log) /\ q \in 1 .. Len(log)
    BY <1>0, <1>3, <2>1 DEF ExactlyOnce
  <2>2. CASE r \notin 1 .. Len(log) /\ q \notin 1 .. Len(log)
    <3>1. Low + (r - Len(log)) = Low + (q - Len(log))
      BY <1>0, <1>3, <2>2 DEF Distinct
    <3>2. QED
      BY <1>1, <3>1
  <2>3. CASE r \in 1 .. Len(log) /\ q \notin 1 .. Len(log)
    <3>1. Logged(log'[q].msg)
      BY <1>3, <2>3 DEF Logged
    <3>2. QED
      BY <1>3, <1>8, <2>3, <3>1
  <2>4. CASE r \notin 1 .. Len(log) /\ q \in 1 .. Len(log)
    <3>1. Logged(log'[r].msg)
      BY <1>3, <2>4 DEF Logged
    <3>2. QED
      BY <1>3, <1>8, <2>4, <3>1
  <2>5. QED
    BY <2>1, <2>2, <2>3, <2>4
<1>10. QED
  BY <1>6, <1>7, <1>9

(* The messages above Low are half written when their update fails.        *)
LEMMA SliceHalfWritten ==
  ASSUME IInv, NEW t \in Turns, TouchFails(t)
  PROVE  \A n \in Low + 1 .. Len(messages) : messages[n] \in halfWritten'
<1>1. Len(messages) \in Nat /\ Low \in Nat
  BY LowIsLow DEF IInv
<1>2. /\ pc[t] = "touching"
      /\ halfWritten' = halfWritten
           \cup {flush[t].msgs[n] : n \in 1 .. Len(flush[t].msgs)}
  BY DEF TouchFails
<1>3. /\ Len(flush[t].msgs) = Len(messages) - Low
      /\ \A k \in 1 .. Len(flush[t].msgs) : flush[t].msgs[k] = messages[Low + k]
  BY <1>2, SliceIsUnsaved
<1>4. ASSUME NEW n \in Low + 1 .. Len(messages) PROVE messages[n] \in halfWritten'
  <2>1. n - Low \in 1 .. Len(flush[t].msgs) /\ Low + (n - Low) = n
    BY <1>1, <1>3
  <2>2. flush[t].msgs[n - Low] = messages[n]
    BY <1>3, <2>1
  <2>3. QED
    BY <1>2, <2>1, <2>2
<1>5. QED
  BY <1>4

LEMMA TouchFailsOnce ==
  ASSUME OnceInv, NEW t \in Turns, TouchFails(t)
  PROVE  Numbered' /\ Distinct' /\ NewToLog' /\ ExactlyOnce'
<1>0. Numbered /\ Distinct /\ ExactlyOnce /\ IInv
  BY DEF OnceInv
<1>1. UNCHANGED <<messages, lastPersisted, log, sent>> /\ halfWritten \subseteq halfWritten'
  BY DEF TouchFails, KeepWatermark, FlushEnds
<1>2. Low' = Low
  BY <1>1 DEF Low
<1>3. Numbered' /\ Distinct' /\ ExactlyOnce'
  BY <1>0, <1>1, <1>2 DEF Numbered, Distinct, ExactlyOnce
<1>4. NewToLog'
  BY <1>0, <1>1, <1>2, SliceHalfWritten DEF NewToLog
<1>5. QED
  BY <1>3, <1>4

(* The acknowledged and the lost: nothing is above Low.                    *)
LEMMA EmptiedOnce ==
  ASSUME OnceInv, LoseSession \/ \E t \in Turns : FlushSucceeds(t)
  PROVE  Numbered' /\ Distinct' /\ NewToLog' /\ ExactlyOnce'
<1>0. Numbered /\ ExactlyOnce /\ Shapes
  BY DEF OnceInv, IInv
<1>1. UNCHANGED <<log, sent, halfWritten>>
  BY DEF LoseSession, FlushSucceeds, FlushEnds
<1>2. Len(messages') \in Nat /\ Low' = Len(messages')
  <2>1. CASE LoseSession
    BY <2>1 DEF LoseSession, Low, Undefined
  <2>2. CASE \E t \in Turns : FlushSucceeds(t)
    <3>1. lastPersisted' = Len(messages) /\ messages' = messages
      BY <2>2 DEF FlushSucceeds, FlushEnds, NewWatermark
    <3>2. Len(messages) \in Nat
      BY <1>0, LowIsLow
    <3>3. QED
      BY <3>1, <3>2 DEF Low, Undefined
  <2>3. QED
    BY <2>1, <2>2
<1>3. Low' + 1 .. Len(messages') = {}
  BY <1>2
<1>4. QED
  BY <1>0, <1>1, <1>3 DEF Numbered, Distinct, NewToLog, ExactlyOnce

LEMMA StepOnce == Careful /\ OnceInv /\ [Next]_vars => OnceInv'
<1> SUFFICES ASSUME Careful, OnceInv, [Next]_vars PROVE OnceInv'
  OBVIOUS
<1>0. IInv' /\ Shapes /\ Solo
  BY StepIInv DEF OnceInv, IInv
<1>1. Len(messages) \in Nat /\ Low \in Nat
  BY <1>0, LowIsLow
<1>2. CASE UNCHANGED vars
  BY <1>0, <1>2 DEF vars, OnceInv, Numbered, Distinct, NewToLog, ExactlyOnce, Low,
                    Logged, Touching
<1>3. CASE LoseSession
  BY <1>0, <1>3, EmptiedOnce DEF OnceInv
<1>4. ASSUME NEW t \in Turns, TurnStep(t) PROVE OnceInv'
  <2>1. CASE PostNew(t) \/ PostAgent(t) \/ \E c \in Conversations : PostContinue(t, c)
    <3>1. Accept(t) /\ UNCHANGED <<log, halfWritten>>
      BY <2>1 DEF PostNew, PostAgent, PostContinue
    <3>2. ~ Touching /\ sent' = sent + 1 /\ messages' = Append(messages, sent + 1)
      BY <3>1 DEF Accept, Careful, Active, Touching
    <3>3. Len(messages') \in Nat
      BY <1>0, AppendKeeps DEF IInv, Shapes
    <3>4. Low' \in Nat /\ Low =< Low'
      BY <1>1, <2>1, <3>3 DEF PostNew, PostAgent, PostContinue, Seed, Low, Undefined
    <3>5. QED
      BY <1>0, <3>1, <3>2, <3>4, PushOnce DEF OnceInv
  <2>2. CASE \E prior \in Reloads(flush[t].conv) : Loaded(t, prior)
    BY <1>0, <2>2, LoadedOnce DEF OnceInv
  <2>3. CASE ConversationCreated(t)
    <3>1. Low' = Low
      BY <2>3 DEF ConversationCreated, Seed, Low, Undefined
    <3>2. ~ Touching
      BY <1>0, <2>3, NotTouching DEF ConversationCreated, Active
    <3>3. UNCHANGED <<messages, sent, log, halfWritten>>
      BY <2>3 DEF ConversationCreated
    <3>4. QED
      BY <1>0, <1>1, <3>1, <3>2, <3>3, PushOnce DEF OnceInv
  <2>4. CASE Commit(t) \/ Finish(t) \/ Stop(t) \/ PostFails(t) \/ InsertFails(t)
    <3>1. ~ Touching
      BY <1>0, <2>4, NotTouching DEF Commit, Finish, Stop, PostFails, InsertFails, Active
    <3>2. /\ UNCHANGED <<lastPersisted, log, halfWritten>>
          /\ \/ UNCHANGED <<messages, sent>>
             \/ sent' = sent + 1 /\ messages' = Append(messages, sent + 1)
      BY <2>4 DEF Commit, Finish, Stop, PostFails, InsertFails, FlushEnds, KeepWatermark
    <3>3. Low' = Low
      BY <3>2 DEF Low
    <3>4. QED
      BY <1>0, <1>1, <3>1, <3>2, <3>3, PushOnce DEF OnceInv
  <2>5. CASE InsertRows(t)
    BY <1>0, <2>5, InsertOnce DEF OnceInv
  <2>6. CASE FlushSucceeds(t)
    BY <1>0, <2>6, EmptiedOnce DEF OnceInv
  <2>7. CASE TouchFails(t)
    BY <1>0, <2>7, TouchFailsOnce DEF OnceInv
  <2>8. QED
    BY <1>4, <2>1, <2>2, <2>3, <2>4, <2>5, <2>6, <2>7 DEF TurnStep
<1>5. QED
  BY <1>2, <1>3, <1>4 DEF Next

(* The log holds a message once, over flushes, turns, failed inserts,      *)
(* restarts and reloads, unless the update after its insert failed.        *)
THEOREM LogHoldsEachMessageOnce ==
  ASSUME Careful
  PROVE  Spec => []ExactlyOnce
<1>1. OnceInv /\ [Next]_vars => OnceInv'
  BY StepOnce
<1>2. OnceInv => ExactlyOnce
  BY DEF OnceInv
<1>3. QED
  BY <1>1, <1>2, InitOnce, PTL DEF Spec

-----------------------------------------------------------------------------
(* As many places as rows, no two rows in one: no place is empty.          *)
LEMMA PlacesAreFilled ==
  ASSUME NEW R, IsFiniteSet(R), NEW place \in [R -> 1 .. Cardinality(R)],
         \A q, r \in R : place[q] = place[r] => q = r
  PROVE  \A i \in 1 .. Cardinality(R) : \E r \in R : place[r] = i
<1>1. Cardinality(R) \in Nat
  BY FS_CardinalityType
<1>2. IsFiniteSet(1 .. Cardinality(R)) /\ Cardinality(1 .. Cardinality(R)) = Cardinality(R)
  BY <1>1, FS_Interval
<1>3. place \in Injection(R, 1 .. Cardinality(R))
  BY DEF Injection, IsInjective
<1>4. place \in Surjection(R, 1 .. Cardinality(R))
  BY <1>2, <1>3, FS_Injection
<1>5. QED
  BY <1>4 DEF Surjection

(* Reading a conversation back sorts its rows by date, each once.          *)
ReadBy(prior, c, row) ==
  /\ \A i \in 1 .. Len(prior) :
       /\ row[i] \in 1 .. Len(log) /\ log[row[i]].conv = c
       /\ prior[i] = log[row[i]].msg
  /\ \A i, j \in 1 .. Len(prior) :
       i < j => row[i] # row[j] /\ log[row[i]].at =< log[row[j]].at

LEMMA ReloadSorts ==
  ASSUME NEW c, NEW prior \in Reloads(c), \E S : log \in Seq(S),
         \A r \in 1 .. Len(log) : log[r].at \in Nat
  PROVE  Len(prior) \in Nat /\ \E row : ReadBy(prior, c, row)
<1> DEFINE R == RowsOf(c)
<1>1. IsFiniteSet(R) /\ R \subseteq 1 .. Len(log) /\ \A r \in R : log[r].conv = c
  <2>1. Len(log) \in Nat
    BY AppendKeeps
  <2>2. IsFiniteSet(1 .. Len(log)) /\ R \subseteq 1 .. Len(log)
    BY <2>1, FS_Interval DEF RowsOf
  <2>3. QED
    BY <2>2, FS_Subset DEF RowsOf
<1>2. Cardinality(R) \in Nat
  BY <1>1, FS_CardinalityType
<1>3. PICK tie \in [Tied(c) -> 1 .. Cardinality(Tied(c))] :
        /\ prior = Reload(c, tie)
        /\ \A q, r \in Tied(c) : tie[q] = tie[r] => q = r
  BY DEF Reloads
<1> DEFINE Before(q, r) == \/ log[q].at < log[r].at
                           \/ log[q].at = log[r].at /\ q # r /\ tie[q] < tie[r]
           Place(r) == 1 + Cardinality({q \in R : Before(q, r)})
           row == [i \in 1 .. Cardinality(R) |-> CHOOSE r \in R : Place(r) = i]
<1>4. \A q, r \in R : q # r /\ log[q].at = log[r].at =>
        tie[q] \in Int /\ tie[r] \in Int /\ tie[q] # tie[r]
  <2> SUFFICES ASSUME NEW q \in R, NEW r \in R, q # r, log[q].at = log[r].at
               PROVE  tie[q] \in Int /\ tie[r] \in Int /\ tie[q] # tie[r]
    OBVIOUS
  <2>1. q \in Tied(c) /\ r \in Tied(c)
    BY DEF Tied
  <2>2. QED
    BY <1>3, <2>1
<1>5. \A r \in R : ~Before(r, r)
  BY <1>1
<1>6. \A p, q, r \in R : Before(p, q) /\ Before(q, r) => Before(p, r)
  <2> SUFFICES ASSUME NEW p \in R, NEW q \in R, NEW r \in R, Before(p, q), Before(q, r)
               PROVE  Before(p, r)
    OBVIOUS
  <2>1. log[p].at \in Nat /\ log[q].at \in Nat /\ log[r].at \in Nat
    BY <1>1
  <2>2. QED
    BY <1>4, <2>1
<1>7. \A q, r \in R : q = r \/ Before(q, r) \/ Before(r, q)
  <2> SUFFICES ASSUME NEW q \in R, NEW r \in R, q # r
               PROVE  Before(q, r) \/ Before(r, q)
    OBVIOUS
  <2>1. log[q].at \in Nat /\ log[r].at \in Nat
    BY <1>1
  <2>2. QED
    BY <1>4, <2>1
<1>8. \A q, r \in R : Before(q, r) => log[q].at =< log[r].at
  BY <1>1
<1>9. /\ prior = [i \in 1 .. Cardinality(R) |-> log[row[i]].msg]
      /\ Len(prior) = Cardinality(R)
  <2>1. prior = [i \in 1 .. Cardinality(R) |-> log[CHOOSE r \in R : Place(r) = i].msg]
    BY <1>3 DEF Reload
  <2>2. prior = [i \in 1 .. Cardinality(R) |-> log[row[i]].msg]
    BY <2>1
  <2> HIDE DEF row, R
  <2>3. prior = [i \in 1 .. Cardinality(R) |-> prior[i]]
    BY <2>2
  <2>4. QED
    BY <1>2, <2>2, <2>3, FunctionIsSeq
<1> HIDE DEF Before
<1>10. \A r \in R : IsFiniteSet({q \in R : Before(q, r)})
                    /\ Place(r) \in 1 .. Cardinality(R)
  <2> SUFFICES ASSUME NEW r \in R
               PROVE  IsFiniteSet({q \in R : Before(q, r)})
                      /\ Place(r) \in 1 .. Cardinality(R)
    OBVIOUS
  <2> DEFINE B == {q \in R : Before(q, r)}
  <2> HIDE DEF R
  <2>1. B \subseteq R /\ r \notin B
    BY <1>5
  <2> HIDE DEF B
  <2>2. IsFiniteSet(B) /\ Cardinality(B) =< Cardinality(R) /\ Cardinality(B) # Cardinality(R)
    BY <1>1, <2>1, FS_Subset
  <2>3. Cardinality(B) \in Nat
    BY <2>2, FS_CardinalityType
  <2>4. 1 + Cardinality(B) \in 1 .. Cardinality(R)
    BY <1>2, <2>2, <2>3
  <2>5. QED
    BY <2>2, <2>4 DEF B
<1>11. \A q, r \in R : Before(q, r) => Place(q) < Place(r)
  <2> SUFFICES ASSUME NEW q \in R, NEW r \in R, Before(q, r)
               PROVE  Place(q) < Place(r)
    OBVIOUS
  <2> DEFINE A == {p \in R : Before(p, q)}
             B == {p \in R : Before(p, r)}
  <2> HIDE DEF R
  <2>1. A \subseteq B /\ q \in B /\ q \notin A
    BY <1>5, <1>6
  <2>2. IsFiniteSet(A) /\ IsFiniteSet(B)
    BY <1>10
  <2> HIDE DEF A, B
  <2>3. Cardinality(A) =< Cardinality(B) /\ Cardinality(A) # Cardinality(B)
    BY <2>1, <2>2, FS_Subset
  <2>4. Cardinality(A) \in Nat /\ Cardinality(B) \in Nat
    BY <2>2, FS_CardinalityType
  <2>5. 1 + Cardinality(A) < 1 + Cardinality(B)
    BY <2>3, <2>4
  <2>6. QED
    BY <2>5 DEF A, B
<1> HIDE DEF Place
<1>12. \A i \in 1 .. Cardinality(R) : row[i] \in R /\ Place(row[i]) = i
  <2> DEFINE place == [r \in R |-> Place(r)]
  <2> HIDE DEF R, row
  <2>1. /\ place \in [R -> 1 .. Cardinality(R)]
        /\ \A r \in R : place[r] = Place(r)
    BY <1>10
  <2> HIDE DEF place
  <2>2. \A q, r \in R : place[q] = place[r] => q = r
    <3> SUFFICES ASSUME NEW q \in R, NEW r \in R, place[q] = place[r]
                 PROVE  q = r
      OBVIOUS
    <3>1. Place(q) = Place(r)
      BY <2>1
    <3>2. Place(q) \in 1 .. Cardinality(R) /\ Place(r) \in 1 .. Cardinality(R)
      BY <1>10
    <3>3. ~(Place(q) < Place(r)) /\ ~(Place(r) < Place(q))
      BY <1>2, <3>1, <3>2
    <3>4. QED
      BY <1>7, <1>11, <3>3
  <2>3. IsFiniteSet(R)
    BY <1>1
  <2>4. \A i \in 1 .. Cardinality(R) : \E r \in R : place[r] = i
    BY <2>1, <2>2, <2>3, PlacesAreFilled
  <2>5. \A i \in 1 .. Cardinality(R) : \E r \in R : Place(r) = i
    BY <2>1, <2>4
  <2>6. QED
    BY <2>5 DEF row
<1>13. \A i, j \in 1 .. Cardinality(R) :
         i < j => row[i] # row[j] /\ log[row[i]].at =< log[row[j]].at
  <2> SUFFICES ASSUME NEW i \in 1 .. Cardinality(R), NEW j \in 1 .. Cardinality(R), i < j
               PROVE  row[i] # row[j] /\ log[row[i]].at =< log[row[j]].at
    OBVIOUS
  <2> HIDE DEF row, R
  <2>1. row[i] \in R /\ row[j] \in R /\ Place(row[i]) = i /\ Place(row[j]) = j
    BY <1>12
  <2>2. row[i] # row[j] /\ ~Before(row[j], row[i])
    BY <1>2, <1>11, <2>1
  <2>3. QED
    BY <1>7, <1>8, <2>1, <2>2
<1>14. \A i \in 1 .. Len(prior) :
         row[i] \in 1 .. Len(log) /\ log[row[i]].conv = c /\ prior[i] = log[row[i]].msg
  <2> HIDE DEF row, R
  <2>1. QED
    BY <1>1, <1>9, <1>12
<1> HIDE DEF row, R
<1>15. QED
  BY <1>2, <1>9, <1>13, <1>14 DEF ReadBy

-----------------------------------------------------------------------------
(* The messages above Low are younger than those of the log and ascend, and *)
(* dates stay behind the clock: a slice has no more rows than a round trip  *)
(* has milliseconds.                                                        *)
SlowEnough == RoundTrip >= MaxMessages

Counted == sent =< MaxMessages /\ Len(messages) - Low =< sent

Ascending ==
  \A m, n \in Low + 1 .. Len(messages) : m < n => messages[m] < messages[n]

AboveLog ==
  Touching \/ \A r \in 1 .. Len(log) : \A n \in Low + 1 .. Len(messages) :
    \/ log[r].msg \in halfWritten
    \/ messages[n] \in halfWritten
    \/ log[r].msg < messages[n]

Dated ==
  /\ now \in Nat
  /\ \A r \in 1 .. Len(log) : log[r].at \in Nat /\ log[r].at < now
  /\ \A t \in Turns : pc[t] = "inserting" =>
       /\ flush[t].base \in Nat
       /\ \A r \in 1 .. Len(log) : log[r].at < flush[t].base

Told == \A n \in 1 .. Len(messages) : messages[n] \in 1 .. sent

Placed == Counted /\ Ascending /\ AboveLog /\ Told /\ TranscriptInOrder

OrderInv == OnceInv /\ Placed /\ Dated /\ ReloadInOrder

LEMMA InitOrder == Init => OrderInv
<1> SUFFICES ASSUME Init PROVE OrderInv
  OBVIOUS
<1>1. /\ Len(messages) = 0 /\ Len(log) = 0 /\ sent = 0 /\ now = 0
      /\ lastPersisted = Undefined
      /\ \A t \in Turns : pc[t] = "new"
  BY DEF Init
<1>2. Placed
  BY <1>1, BoundsAssumption
     DEF Placed, Counted, Ascending, AboveLog, Told, TranscriptInOrder, Low, Undefined
<1>3. QED
  BY <1>1, <1>2, InitOnce DEF OrderInv, Dated, ReloadInOrder

LEMMA QuietDates ==
  ASSUME Dated, ReloadInOrder, UNCHANGED <<log, now>>, halfWritten \subseteq halfWritten',
         \A u \in Turns : pc'[u] = "inserting" => pc[u] = "inserting" /\ flush'[u] = flush[u]
  PROVE  Dated' /\ ReloadInOrder'
<1>1. Dated'
  BY DEF Dated
<1>2. ReloadInOrder'
  BY DEF ReloadInOrder
<1>3. QED
  BY <1>1, <1>2

(* The clock may have gone on when a slice is cut, and is noted.           *)
LEMMA StartFlushDates ==
  ASSUME OrderInv, NEW t \in Turns, NEW last \in BOOLEAN, pc[t] = "running",
         StartFlush(t, last), UNCHANGED <<log, halfWritten>>
  PROVE  Dated' /\ ReloadInOrder'
<1>0. Dated /\ ReloadInOrder /\ Solo /\ Shapes
  BY DEF OrderInv, OnceInv, IInv
<1>1. \A u \in Turns : u # t => ~Active(u)
  BY <1>0 DEF Solo, Active
<1>2. PICK place \in {"running", "done", "inserting"} : pc' = [pc EXCEPT ![t] = place]
  BY DEF StartFlush, Resume, Goto
<1>3. \A u \in Turns : u # t => pc'[u] \in {"new", "done"}
  BY <1>0, <1>1, <1>2 DEF Shapes, Active
<1>4. ReloadInOrder'
  BY <1>0 DEF ReloadInOrder
<1>5. CASE conversation = NoConversation \/ lastPersisted >= Len(messages')
  <2>1. UNCHANGED <<flush, now>> /\ pc'[t] # "inserting"
    BY <1>0, <1>5 DEF StartFlush, Resume, Goto, Shapes
  <2>2. QED
    BY <1>0, <1>3, <1>4, <2>1 DEF Dated
<1>6. CASE ~(conversation = NoConversation \/ lastPersisted >= Len(messages'))
  <2>1. PICK base \in Bases : flush'[t].base = base /\ now' = base
    BY <1>0, <1>6 DEF StartFlush, Shapes
  <2>2. base \in Nat /\ now =< base
    BY <1>0, <2>1 DEF Bases, Dated
  <2>3. \A r \in 1 .. Len(log) : log[r].at \in Nat /\ log[r].at < base
    BY <1>0, <2>2 DEF Dated
  <2>4. QED
    BY <1>3, <1>4, <2>1, <2>2, <2>3 DEF Dated
<1>7. QED
  BY <1>5, <1>6

(* Nothing is written; one message more perhaps.                           *)
LEMMA PushPlaced ==
  ASSUME OrderInv, ~ Touching, NEW low \in Nat, Low' = low, Low =< low,
         UNCHANGED <<log, halfWritten>>,
         \/ UNCHANGED <<messages, sent>>
         \/ /\ sent < MaxMessages
            /\ sent' = sent + 1 /\ messages' = Append(messages, sent + 1)
  PROVE  Placed'
<1>0. /\ Numbered /\ Shapes /\ Counted /\ Ascending /\ AboveLog /\ Told
      /\ TranscriptInOrder
  BY DEF OrderInv, Placed, OnceInv, IInv
<1>1. /\ Len(messages) \in Nat /\ Low \in Nat /\ sent \in Nat /\ Len(log) \in Nat
      /\ MaxMessages \in Nat
  BY <1>0, LowIsLow, BoundsAssumption DEF Numbered
<1>2. \A r \in 1 .. Len(log) : \A n \in Low + 1 .. Len(messages) :
        \/ log[r].msg \in halfWritten
        \/ messages[n] \in halfWritten
        \/ log[r].msg < messages[n]
  BY <1>0 DEF AboveLog
<1>3. CASE UNCHANGED <<messages, sent>>
  <2>1. Len(messages) - low =< Len(messages) - Low
        /\ low + 1 .. Len(messages) \subseteq Low + 1 .. Len(messages)
    BY <1>1
  <2>2. Counted'
    BY <1>0, <1>1, <1>3, <2>1 DEF Counted
  <2>3. Ascending' /\ AboveLog'
    BY <1>0, <1>2, <1>3, <2>1 DEF Ascending, AboveLog
  <2>4. Told' /\ TranscriptInOrder'
    BY <1>0, <1>3 DEF Told, TranscriptInOrder
  <2>5. QED
    BY <2>2, <2>3, <2>4 DEF Placed
<1>4. CASE /\ sent < MaxMessages
           /\ sent' = sent + 1 /\ messages' = Append(messages, sent + 1)
  <2>1. /\ Len(messages') = Len(messages) + 1
        /\ \A n \in 1 .. Len(messages) : messages'[n] = messages[n]
        /\ messages'[Len(messages) + 1] = sent + 1
    <3>1. PICK S : messages \in Seq(S)
      BY <1>0 DEF Shapes
    <3>2. messages \in Seq(S \cup {sent + 1}) /\ sent + 1 \in S \cup {sent + 1}
      BY <3>1, SeqMonotonic
    <3>3. QED
      BY <1>4, <3>2, AppendProperties
  <2>2. \A n \in 1 .. Len(messages') :
          \/ n \in 1 .. Len(messages) /\ messages'[n] = messages[n] /\ messages[n] \in 1 .. sent
          \/ n = Len(messages) + 1 /\ messages'[n] = sent + 1
    BY <1>0, <1>1, <2>1 DEF Told
  <2>3. \A n \in low + 1 .. Len(messages') :
          \/ n \in Low + 1 .. Len(messages) /\ messages'[n] = messages[n] /\ messages[n] \in 1 .. sent
          \/ n = Len(messages) + 1 /\ messages'[n] = sent + 1
    BY <1>1, <2>1, <2>2
  <2>4. Counted'
    BY <1>0, <1>1, <1>4, <2>1 DEF Counted
  <2>5. Ascending'
    BY <1>0, <1>1, <2>3 DEF Ascending
  <2>6. AboveLog'
    BY <1>0, <1>1, <1>2, <2>3 DEF Numbered, AboveLog
  <2>7. Told'
    BY <1>1, <1>4, <2>2 DEF Told
  <2>8. TranscriptInOrder'
    BY <1>0, <1>1, <2>2 DEF TranscriptInOrder
  <2>9. QED
    BY <2>4, <2>5, <2>6, <2>7, <2>8 DEF Placed
<1>5. QED
  BY <1>3, <1>4

LEMMA LoadedPlaced ==
  ASSUME OrderInv, NEW t \in Turns, NEW prior \in Reloads(flush[t].conv),
         Loaded(t, prior)
  PROVE  Placed'
<1>0. /\ Numbered /\ Shapes /\ Solo /\ Seeded /\ Counted /\ Ascending /\ AboveLog
      /\ Told /\ TranscriptInOrder /\ Dated /\ ReloadInOrder /\ ExactlyOnce
  BY DEF OrderInv, Placed, OnceInv, IInv
<1>1. Len(messages) \in Nat /\ Low \in Nat /\ sent \in Nat /\ Len(log) \in Nat
  BY <1>0, LowIsLow DEF Numbered
<1>2. /\ messages' = prior \o messages
      /\ UNCHANGED <<log, halfWritten, sent>>
      /\ pc[t] = "loading" /\ lastPersisted = Undefined
  BY <1>0 DEF Loaded, Prepend, Seeded
<1>3. ~ Touching
  BY <1>0, <1>2, NotTouching DEF Active
<1>4. \A r \in 1 .. Len(log) : log[r].at \in Nat
  BY <1>0 DEF Dated
<1>5. Len(prior) \in Nat /\ \E row : ReadBy(prior, flush[t].conv, row)
  <2>1. \E S : log \in Seq(S)
    BY <1>0 DEF Shapes
  <2>2. QED
    BY <1>4, <2>1, ReloadSorts
<1>6. PICK row :
        /\ \A i \in 1 .. Len(prior) :
             /\ row[i] \in 1 .. Len(log) /\ log[row[i]].conv = flush[t].conv
             /\ prior[i] = log[row[i]].msg
        /\ \A i, j \in 1 .. Len(prior) :
             i < j => row[i] # row[j] /\ log[row[i]].at =< log[row[j]].at
  BY <1>5 DEF ReadBy
<1>7. /\ Len(messages') = Len(prior) + Len(messages)
      /\ \A i \in 1 .. Len(prior) : messages'[i] = prior[i]
      /\ \A n \in 1 .. Len(messages) : messages'[Len(prior) + n] = messages[n]
  <2>1. \E S : prior \in Seq(S)
    BY <1>0, ReloadIsSeq DEF Shapes
  <2>2. PICK S, T : prior \in Seq(S) /\ messages \in Seq(T)
    BY <1>0, <2>1 DEF Shapes
  <2>3. QED
    BY <1>2, <2>2, ConcatKeeps
<1>8. Low = 0 /\ Low' = Len(prior)
  BY <1>2, <1>5 DEF Loaded, Seed, Low, Undefined
<1>9. \A n \in 1 .. Len(messages') :
        \/ n \in 1 .. Len(prior) /\ messages'[n] = log[row[n]].msg
        \/ /\ n \notin 1 .. Len(prior)
           /\ n - Len(prior) \in 1 .. Len(messages)
           /\ messages'[n] = messages[n - Len(prior)]
  <2> SUFFICES ASSUME NEW n \in 1 .. Len(messages'), n \notin 1 .. Len(prior)
               PROVE  /\ n - Len(prior) \in 1 .. Len(messages)
                      /\ messages'[n] = messages[n - Len(prior)]
    BY <1>6, <1>7
  <2>1. n - Len(prior) \in 1 .. Len(messages) /\ Len(prior) + (n - Len(prior)) = n
    BY <1>1, <1>5, <1>7
  <2>2. QED
    BY <1>7, <2>1
<1>10. \A n \in Low' + 1 .. Len(messages') :
         /\ n - Len(prior) \in Low + 1 .. Len(messages)
         /\ messages'[n] = messages[n - Len(prior)]
  <2>1. \A n \in Len(prior) + 1 .. Len(messages') :
          n \in 1 .. Len(messages') /\ n \notin 1 .. Len(prior)
    BY <1>1, <1>5, <1>7
  <2>2. QED
    BY <1>8, <1>9, <2>1
<1>11. Counted'
  BY <1>0, <1>1, <1>2, <1>5, <1>7, <1>8 DEF Counted
<1>12. Ascending'
  <2> SUFFICES ASSUME NEW m \in Low' + 1 .. Len(messages'),
                      NEW n \in Low' + 1 .. Len(messages'), m < n
               PROVE  messages'[m] < messages'[n]
    BY DEF Ascending
  <2>1. m - Len(prior) < n - Len(prior)
    BY <1>5, <1>7, <1>8
  <2>2. QED
    BY <1>0, <1>10, <2>1 DEF Ascending
<1>13. \A r \in 1 .. Len(log) : \A n \in 1 .. Len(messages) :
         \/ log[r].msg \in halfWritten
         \/ messages[n] \in halfWritten
         \/ log[r].msg < messages[n]
  BY <1>0, <1>3, <1>8 DEF AboveLog
<1>14. AboveLog'
  <2>1. ASSUME NEW r \in 1 .. Len(log), NEW n \in Low' + 1 .. Len(messages')
        PROVE  \/ log[r].msg \in halfWritten
               \/ messages'[n] \in halfWritten
               \/ log[r].msg < messages'[n]
    <3>1. n - Len(prior) \in 1 .. Len(messages) /\ messages'[n] = messages[n - Len(prior)]
      BY <1>8, <1>10
    <3>2. QED
      BY <1>13, <3>1
  <2>2. QED
    BY <1>2, <2>1 DEF AboveLog
<1>15. Told'
  BY <1>0, <1>2, <1>6, <1>9 DEF Told, Numbered
<1>16. ASSUME NEW i \in 1 .. Len(prior), NEW j \in 1 .. Len(prior), i < j,
              log[row[i]].msg \notin halfWritten, log[row[j]].msg \notin halfWritten
       PROVE  log[row[i]].msg < log[row[j]].msg
  <2>1. /\ row[i] \in 1 .. Len(log) /\ row[j] \in 1 .. Len(log)
        /\ log[row[i]].conv = log[row[j]].conv
        /\ row[i] # row[j] /\ log[row[i]].at =< log[row[j]].at
    BY <1>6, <1>16
  <2>2. log[row[i]].msg # log[row[j]].msg
    BY <1>0, <1>16, <2>1 DEF ExactlyOnce
  <2>3. log[row[j]].msg < log[row[i]].msg => log[row[j]].at < log[row[i]].at
    BY <1>0, <1>16, <2>1 DEF ReloadInOrder
  <2>4. log[row[i]].msg \in 1 .. sent /\ log[row[j]].msg \in 1 .. sent
    BY <1>0, <2>1 DEF Numbered
  <2>5. log[row[i]].at \in Nat /\ log[row[j]].at \in Nat
    BY <1>4, <2>1
  <2>6. ~ (log[row[j]].msg < log[row[i]].msg)
    BY <2>1, <2>3, <2>5
  <2>7. QED
    BY <2>2, <2>4, <2>6
<1>17. TranscriptInOrder'
  <2> SUFFICES ASSUME NEW m \in 1 .. Len(messages'), NEW n \in 1 .. Len(messages'),
                      m < n, messages'[m] \notin halfWritten, messages'[n] \notin halfWritten
               PROVE  messages'[m] < messages'[n]
    BY <1>2 DEF TranscriptInOrder
  <2>1. CASE m \in 1 .. Len(prior) /\ n \in 1 .. Len(prior)
    BY <1>9, <1>16, <2>1
  <2>2. CASE m \in 1 .. Len(prior) /\ n \notin 1 .. Len(prior)
    BY <1>6, <1>9, <1>13, <2>2
  <2>3. CASE m \notin 1 .. Len(prior)
    <3>1. m \in Len(prior) + 1 .. Len(messages') /\ n \in Len(prior) + 1 .. Len(messages')
      BY <1>1, <1>5, <1>7, <2>3
    <3>2. QED
      BY <1>8, <1>12, <3>1 DEF Ascending
  <2>4. QED
    BY <2>1, <2>2, <2>3
<1>18. QED
  BY <1>11, <1>12, <1>14, <1>15, <1>17 DEF Placed

LEMMA InsertOrder ==
  ASSUME OrderInv, SlowEnough, NEW t \in Turns, InsertRows(t)
  PROVE  Placed' /\ Dated' /\ ReloadInOrder'
<1>0. /\ Numbered /\ Shapes /\ Solo /\ IInv /\ Counted /\ Ascending /\ AboveLog
      /\ Told /\ TranscriptInOrder /\ Dated /\ ReloadInOrder
  BY DEF OrderInv, Placed, OnceInv, IInv
<1>1. /\ Len(messages) \in Nat /\ Low \in Nat /\ sent \in Nat /\ Len(log) \in Nat
      /\ MaxMessages \in Nat /\ RoundTrip \in Nat
  BY <1>0, LowIsLow, BoundsAssumption DEF Numbered
<1>2. /\ pc[t] = "inserting"
      /\ UNCHANGED <<messages, lastPersisted, sent, halfWritten>>
      /\ pc' = [pc EXCEPT ![t] = "touching"]
      /\ now' = IF flush[t].base + RoundTrip > now THEN flush[t].base + RoundTrip ELSE now
  BY DEF InsertRows, Goto
<1>3. Low' = Low
  BY <1>2 DEF Low
<1>4. \A u \in Turns : pc'[u] # "inserting"
  BY <1>0, <1>2 DEF Shapes, Solo, Active
<1>5. Touching'
  BY <1>0, <1>2 DEF Touching, Shapes
<1>6. Placed'
  BY <1>0, <1>2, <1>3, <1>5
     DEF Placed, Counted, Ascending, AboveLog, Told, TranscriptInOrder
<1>7. flush[t].base \in Nat /\ now \in Nat
      /\ \A r \in 1 .. Len(log) :
           log[r].at \in Nat /\ log[r].at < now /\ log[r].at < flush[t].base
  BY <1>0, <1>2 DEF Dated
<1>8. /\ now' \in Nat /\ now =< now'
      /\ \A k \in 1 .. Len(messages) - Low : flush[t].base + k - 1 < now'
  <2>1. Len(messages) - Low =< RoundTrip
    BY <1>0, <1>1 DEF Counted, SlowEnough
  <2>2. now' \in Nat /\ now =< now' /\ flush[t].base + RoundTrip =< now'
    BY <1>1, <1>2, <1>7
  <2>3. ASSUME NEW k \in 1 .. Len(messages) - Low
        PROVE  flush[t].base + k - 1 < flush[t].base + RoundTrip
    BY <1>1, <1>7, <2>1
  <2>4. \A k \in 1 .. Len(messages) - Low : flush[t].base + k - 1 \in Int
    BY <1>7
  <2>5. QED
    BY <1>1, <1>7, <2>2, <2>3, <2>4
<1>9. \A r \in 1 .. Len(log') : r \in 1 .. Len(log) => log'[r] = log[r]
  BY <1>0, InsertedRows
<1>10. \A r \in 1 .. Len(log') : r \notin 1 .. Len(log) =>
         /\ r - Len(log) \in 1 .. Len(messages) - Low
         /\ log'[r].msg = messages[Low + (r - Len(log))]
         /\ log'[r].at = flush[t].base + (r - Len(log)) - 1
  BY <1>0, InsertedRows
<1>11. ASSUME NEW r \in 1 .. Len(log')
       PROVE  log'[r].at \in Nat /\ log'[r].at < now'
  <2>1. CASE r \in 1 .. Len(log)
    BY <1>7, <1>8, <1>9, <2>1
  <2>2. CASE r \notin 1 .. Len(log)
    <3>1. PICK k \in 1 .. Len(messages) - Low : log'[r].at = flush[t].base + k - 1
      BY <1>10, <2>2
    <3>2. flush[t].base + k - 1 \in Nat
      BY <1>1, <1>7
    <3>3. QED
      BY <1>8, <3>1, <3>2
  <2>3. QED
    BY <2>1, <2>2
<1>12. Dated'
  BY <1>4, <1>8, <1>11 DEF Dated
<1>13. \A r \in 1 .. Len(log) : \A n \in Low + 1 .. Len(messages) :
         \/ log[r].msg \in halfWritten
         \/ messages[n] \in halfWritten
         \/ log[r].msg < messages[n]
  BY <1>0, <1>2, NotTouching DEF AboveLog, Active
<1>14. \A k \in 1 .. Len(messages) - Low : Low + k \in Low + 1 .. Len(messages)
  BY <1>1
<1>15. ReloadInOrder'
  <2> SUFFICES ASSUME NEW r \in 1 .. Len(log'), NEW q \in 1 .. Len(log'),
                      log'[r].conv = log'[q].conv,
                      log'[r].msg \notin halfWritten, log'[q].msg \notin halfWritten,
                      log'[r].msg < log'[q].msg
               PROVE  log'[r].at < log'[q].at
    BY <1>2 DEF ReloadInOrder
  <2>1. CASE r \in 1 .. Len(log) /\ q \in 1 .. Len(log)
    BY <1>0, <1>9, <2>1 DEF ReloadInOrder
  <2>2. CASE r \in 1 .. Len(log) /\ q \notin 1 .. Len(log)
    <3>1. PICK k \in 1 .. Len(messages) - Low : log'[q].at = flush[t].base + k - 1
      BY <1>10, <2>2
    <3>2. log'[r].at \in Nat /\ log'[r].at < flush[t].base
      BY <1>7, <1>9, <2>2
    <3>3. QED
      BY <1>1, <1>7, <3>1, <3>2
  <2>3. CASE r \notin 1 .. Len(log) /\ q \in 1 .. Len(log)
    <3>1. PICK k \in 1 .. Len(messages) - Low : log'[r].msg = messages[Low + k]
      BY <1>10, <2>3
    <3>2. log'[q].msg < log'[r].msg
      BY <1>9, <1>13, <1>14, <2>3, <3>1
    <3>3. log'[q].msg \in Nat /\ log'[r].msg \in Nat
      BY <1>0, <1>1, <1>9, <1>14, <2>3, <3>1 DEF Numbered
    <3>4. QED
      BY <3>2, <3>3
  <2>4. CASE r \notin 1 .. Len(log) /\ q \notin 1 .. Len(log)
    <3>1. PICK j \in 1 .. Len(messages) - Low :
            log'[r].msg = messages[Low + j] /\ log'[r].at = flush[t].base + j - 1
      BY <1>10, <2>4
    <3>2. PICK k \in 1 .. Len(messages) - Low :
            log'[q].msg = messages[Low + k] /\ log'[q].at = flush[t].base + k - 1
      BY <1>10, <2>4
    <3>3. messages[Low + j] \in Nat /\ messages[Low + k] \in Nat
      BY <1>0, <1>14 DEF Numbered
    <3>4. ~ (Low + k =< Low + j)
      <4>1. Low + k < Low + j => messages[Low + k] < messages[Low + j]
        BY <1>0, <1>14 DEF Ascending
      <4>2. QED
        BY <1>1, <3>1, <3>2, <3>3, <4>1
    <3>5. QED
      BY <1>1, <1>7, <3>1, <3>2, <3>4
  <2>5. QED
    BY <2>1, <2>2, <2>3, <2>4
<1>16. QED
  BY <1>6, <1>12, <1>15

LEMMA TouchFailsPlaced ==
  ASSUME OrderInv, NEW t \in Turns, TouchFails(t)
  PROVE  Placed'
<1>0. /\ Shapes /\ IInv /\ Counted /\ Ascending /\ Told /\ TranscriptInOrder
  BY DEF OrderInv, Placed, OnceInv, IInv
<1>1. /\ pc[t] = "touching"
      /\ UNCHANGED <<messages, lastPersisted, log, sent>>
      /\ halfWritten \subseteq halfWritten'
  BY DEF TouchFails, KeepWatermark, FlushEnds
<1>2. Low' = Low
  BY <1>1 DEF Low
<1>3. Counted' /\ Ascending' /\ Told' /\ TranscriptInOrder'
  BY <1>0, <1>1, <1>2 DEF Counted, Ascending, Told, TranscriptInOrder
<1>4. AboveLog'
  BY <1>0, <1>1, <1>2, SliceHalfWritten DEF AboveLog
<1>5. QED
  BY <1>3, <1>4 DEF Placed

LEMMA EmptiedPlaced ==
  ASSUME OrderInv, LoseSession \/ \E t \in Turns : FlushSucceeds(t)
  PROVE  Placed'
<1>0. Numbered /\ Shapes /\ Counted /\ Told /\ TranscriptInOrder
  BY DEF OrderInv, Placed, OnceInv, IInv
<1>1. UNCHANGED <<log, sent, halfWritten>> /\ sent \in Nat
  BY <1>0 DEF LoseSession, FlushSucceeds, FlushEnds, Numbered
<1>2. Len(messages') \in Nat /\ Low' = Len(messages') /\ Told' /\ TranscriptInOrder'
  <2>1. CASE LoseSession
    <3>1. messages' = <<>> /\ lastPersisted' = Undefined
      BY <2>1 DEF LoseSession
    <3>2. Len(messages') = 0
      BY <3>1
    <3>3. QED
      BY <3>1, <3>2 DEF Low, Undefined, Told, TranscriptInOrder
  <2>2. CASE \E t \in Turns : FlushSucceeds(t)
    <3>1. lastPersisted' = Len(messages) /\ messages' = messages
      BY <2>2 DEF FlushSucceeds, FlushEnds, NewWatermark
    <3>2. Len(messages) \in Nat
      BY <1>0, LowIsLow
    <3>3. QED
      BY <1>0, <1>1, <3>1, <3>2 DEF Low, Undefined, Told, TranscriptInOrder
  <2>3. QED
    BY <2>1, <2>2
<1>3. Low' + 1 .. Len(messages') = {}
  BY <1>2
<1>4. Counted'
  BY <1>0, <1>1, <1>2 DEF Counted
<1>5. Ascending' /\ AboveLog'
  BY <1>3 DEF Ascending, AboveLog
<1>6. QED
  BY <1>2, <1>4, <1>5 DEF Placed

LEMMA StepOrder == Careful /\ SlowEnough /\ OrderInv /\ [Next]_vars => OrderInv'
<1> SUFFICES ASSUME Careful, SlowEnough, OrderInv, [Next]_vars PROVE OrderInv'
  OBVIOUS
<1>0. /\ OnceInv /\ OnceInv' /\ Shapes /\ Shapes' /\ Solo /\ Dated /\ ReloadInOrder
      /\ DOMAIN pc = Turns /\ DOMAIN flush = Turns
  BY StepOnce DEF OrderInv, OnceInv, IInv, Shapes
<1>1. Len(messages) \in Nat /\ Low \in Nat
  BY <1>0, LowIsLow
<1>2. CASE UNCHANGED vars
  <2>1. Placed'
    BY <1>2 DEF OrderInv, vars, Placed, Counted, Ascending, AboveLog, Told,
                TranscriptInOrder, Low, Touching
  <2>2. QED
    BY <1>0, <1>2, <2>1, QuietDates DEF OrderInv, vars
<1>3. CASE LoseSession
  <2>1. UNCHANGED <<log, now, halfWritten>> /\ \A u \in Turns : pc'[u] # "inserting"
    BY <1>3 DEF LoseSession, Active
  <2>2. QED
    BY <1>0, <1>3, <2>1, QuietDates, EmptiedPlaced DEF OrderInv
<1>4. ASSUME NEW t \in Turns, TurnStep(t) PROVE OrderInv'
  <2>1. CASE PostNew(t) \/ PostAgent(t) \/ \E c \in Conversations : PostContinue(t, c)
    <3>1. Accept(t) /\ UNCHANGED <<log, now, halfWritten>>
      BY <2>1 DEF PostNew, PostAgent, PostContinue
    <3>2. /\ ~ Touching /\ sent < MaxMessages
          /\ sent' = sent + 1 /\ messages' = Append(messages, sent + 1)
      BY <3>1 DEF Accept, Careful, Active, Touching
    <3>3. Len(messages') \in Nat
      BY <1>0, AppendKeeps DEF Shapes
    <3>4. Low' \in Nat /\ Low =< Low'
      BY <1>1, <2>1, <3>3 DEF PostNew, PostAgent, PostContinue, Seed, Low, Undefined
    <3>5. Placed'
      BY <3>1, <3>2, <3>4, PushPlaced
    <3>6. \A u \in Turns : pc'[u] # "inserting"
      <4>1. \A u \in Turns : ~Active(u)
        BY <3>1 DEF Accept, Careful
      <4>2. PICK place \in {"loading", "creating", "running"} :
              pc' = [pc EXCEPT ![t] = place]
        BY <2>1 DEF PostNew, PostAgent, PostContinue, Goto
      <4>3. QED
        BY <1>0, <4>1, <4>2 DEF Active
    <3>7. QED
      BY <1>0, <3>1, <3>5, <3>6, QuietDates DEF OrderInv
  <2>2. CASE \E prior \in Reloads(flush[t].conv) : Loaded(t, prior)
    <3>1. /\ UNCHANGED <<log, now, halfWritten>>
          /\ pc' = [pc EXCEPT ![t] = "running"]
          /\ flush' = [flush EXCEPT ![t] = NoFlush]
      BY <2>2 DEF Loaded, Goto
    <3>2. \A u \in Turns : pc'[u] = "inserting" => pc[u] = "inserting" /\ flush'[u] = flush[u]
      BY <1>0, <3>1
    <3>3. QED
      BY <1>0, <2>2, <3>1, <3>2, QuietDates, LoadedPlaced DEF OrderInv
  <2>3. CASE ConversationCreated(t)
    <3>1. Low' = Low
      BY <2>3 DEF ConversationCreated, Seed, Low, Undefined
    <3>2. ~ Touching
      BY <1>0, <2>3, NotTouching DEF ConversationCreated, Active
    <3>3. /\ UNCHANGED <<messages, sent, log, now, flush, halfWritten>>
          /\ pc' = [pc EXCEPT ![t] = "running"]
      BY <2>3 DEF ConversationCreated, Goto
    <3>4. Placed'
      BY <1>1, <3>1, <3>2, <3>3, PushPlaced
    <3>5. \A u \in Turns : pc'[u] = "inserting" => pc[u] = "inserting" /\ flush'[u] = flush[u]
      BY <1>0, <3>3
    <3>6. QED
      BY <1>0, <3>3, <3>4, <3>5, QuietDates DEF OrderInv
  <2>4. CASE Commit(t) \/ Finish(t)
    <3>1. pc[t] = "running" /\ ~ Touching
      BY <1>0, <2>4, NotTouching DEF Commit, Finish, Active
    <3>2. /\ UNCHANGED <<lastPersisted, log, halfWritten>>
          /\ \/ UNCHANGED <<messages, sent>>
             \/ /\ sent < MaxMessages
                /\ sent' = sent + 1 /\ messages' = Append(messages, sent + 1)
      BY <2>4 DEF Commit, Finish
    <3>3. Low' = Low
      BY <3>2 DEF Low
    <3>4. Placed'
      BY <1>1, <3>1, <3>2, <3>3, PushPlaced
    <3>5. \E last \in BOOLEAN : StartFlush(t, last)
      BY <2>4 DEF Commit, Finish
    <3>6. Dated' /\ ReloadInOrder'
      BY <3>1, <3>2, <3>5, StartFlushDates
    <3>7. QED
      BY <1>0, <3>4, <3>6 DEF OrderInv
  <2>5. CASE Stop(t) \/ PostFails(t) \/ InsertFails(t)
    <3>1. ~ Touching
      BY <1>0, <2>5, NotTouching DEF Stop, PostFails, InsertFails, Active
    <3>2. UNCHANGED <<messages, sent, lastPersisted, log, now, halfWritten>>
      BY <2>5 DEF Stop, PostFails, InsertFails, FlushEnds, KeepWatermark
    <3>3. Low' = Low
      BY <3>2 DEF Low
    <3>4. Placed'
      BY <1>1, <3>1, <3>2, <3>3, PushPlaced
    <3>5. PICK place \in {"running", "done"} : pc' = [pc EXCEPT ![t] = place]
      BY <2>5 DEF Stop, PostFails, InsertFails, FlushEnds, Resume, Goto
    <3>6. flush' = flush \/ flush' = [flush EXCEPT ![t] = NoFlush]
      BY <2>5 DEF Stop, PostFails, InsertFails, FlushEnds
    <3>7. \A u \in Turns : pc'[u] = "inserting" => pc[u] = "inserting" /\ flush'[u] = flush[u]
      BY <1>0, <3>5, <3>6
    <3>8. QED
      BY <1>0, <3>2, <3>4, <3>7, QuietDates DEF OrderInv
  <2>6. CASE InsertRows(t)
    BY <1>0, <2>6, InsertOrder DEF OrderInv
  <2>7. CASE FlushSucceeds(t) \/ TouchFails(t)
    <3>1. Placed'
      BY <2>7, EmptiedPlaced, TouchFailsPlaced
    <3>2. UNCHANGED <<log, now>> /\ halfWritten \subseteq halfWritten'
      BY <2>7 DEF FlushSucceeds, TouchFails, FlushEnds
    <3>3. PICK place \in {"running", "done"} : pc' = [pc EXCEPT ![t] = place]
      BY <2>7 DEF FlushSucceeds, TouchFails, FlushEnds, Resume, Goto
    <3>4. flush' = [flush EXCEPT ![t] = NoFlush]
      BY <2>7 DEF FlushSucceeds, TouchFails, FlushEnds
    <3>5. \A u \in Turns : pc'[u] = "inserting" => pc[u] = "inserting" /\ flush'[u] = flush[u]
      BY <1>0, <3>3, <3>4
    <3>6. QED
      BY <1>0, <3>1, <3>2, <3>5, QuietDates DEF OrderInv
  <2>8. QED
    BY <1>4, <2>1, <2>2, <2>3, <2>4, <2>5, <2>6, <2>7 DEF TurnStep
<1>5. QED
  BY <1>2, <1>3, <1>4 DEF Next

(* Rows are dated in the order their messages came into being, so that     *)
(* createdAt sorts a conversation as it happened, as long as a round trip  *)
(* to the database takes a millisecond for each row of a slice.            *)
THEOREM DatesFollowTheTalk ==
  ASSUME Careful, SlowEnough
  PROVE  Spec => []ReloadInOrder
<1>1. OrderInv /\ [Next]_vars => OrderInv'
  BY StepOrder
<1>2. OrderInv => ReloadInOrder
  BY DEF OrderInv
<1>3. QED
  BY <1>1, <1>2, InitOrder, PTL DEF Spec

(* So the model is shown a conversation in order and without repeats, in   *)
(* any session and after any restart.                                      *)
THEOREM ModelSeesTheTalkInOrder ==
  ASSUME Careful, SlowEnough
  PROVE  Spec => []TranscriptInOrder
<1>1. OrderInv /\ [Next]_vars => OrderInv'
  BY StepOrder
<1>2. OrderInv => TranscriptInOrder
  BY DEF OrderInv, Placed
<1>3. QED
  BY <1>1, <1>2, InitOrder, PTL DEF Spec

-----------------------------------------------------------------------------
(* Type correctness, for any client.                                       *)
LEMMA InitTypes == Init => TypeOK
<1> SUFFICES ASSUME Init PROVE TypeOK
  OBVIOUS
<1>1. NoFlush \in Flushes
  BY EmptySeq DEF NoFlush, Flushes, NoConversation
<1>2. <<>> \in Seq(Messages) /\ <<>> \in Seq(Rows)
  BY EmptySeq
<1>3. log \in Seq(Rows) /\ messages \in Seq(Messages) /\ flush \in [Turns -> Flushes]
  BY <1>1, <1>2 DEF Init
<1>4. /\ created \in Nat /\ sent \in 0 .. MaxMessages /\ now \in Nat /\ floor \in Nat
      /\ conversation \in Nat
  BY BoundsAssumption DEF Init, NoConversation
<1>5. QED
  BY <1>3, <1>4 DEF Init, TypeOK

LEMMA NoFlushTyped == NoFlush \in Flushes
BY EmptySeq DEF NoFlush, Flushes, NoConversation

LEMMA PushTyped ==
  ASSUME TypeOK, sent < MaxMessages, sent' = sent + 1, messages' = Append(messages, sent + 1)
  PROVE  /\ sent' \in 0 .. MaxMessages /\ messages' \in Seq(Messages)
         /\ Len(messages) \in Nat /\ Len(messages') = Len(messages) + 1
<1>1. sent + 1 \in Messages /\ sent' \in 0 .. MaxMessages
  BY BoundsAssumption DEF TypeOK, Messages
<1>2. messages \in Seq(Messages)
  BY DEF TypeOK
<1>3. QED
  BY <1>1, <1>2

LEMMA SeedTyped ==
  ASSUME TypeOK, Len(messages') \in Nat, Len(messages) =< Len(messages'),
         NEW n \in 0 .. Len(messages'), Seed(n)
  PROVE  lastPersisted' \in {Undefined} \cup (0 .. Len(messages')) /\ floor' \in Nat
<1>1. messages \in Seq(Messages) /\ Len(messages) \in Nat
  BY DEF TypeOK
<1>2. QED
  BY <1>1 DEF Seed, TypeOK

LEMMA SliceTyped ==
  ASSUME TypeOK, NEW msgs \in Seq(Messages), NEW n \in Nat
  PROVE  SubSeq(msgs, n + 1, Len(msgs)) \in Seq(Messages)
<1>1. Len(msgs) \in Nat
  OBVIOUS
<1>2. QED
  BY <1>1

LEMMA StartFlushTyped ==
  ASSUME TypeOK, NEW t \in Turns, NEW last \in BOOLEAN, StartFlush(t, last),
         messages' \in Seq(Messages), Len(messages) =< Len(messages'),
         lastPersisted # Undefined \/ conversation = NoConversation
  PROVE  /\ pc' \in [Turns -> {"new", "loading", "creating", "running", "inserting",
                               "touching", "done"}]
         /\ flush' \in [Turns -> Flushes] /\ ending' \subseteq Turns /\ now' \in Nat
<1>1. CASE conversation = NoConversation \/ lastPersisted >= Len(messages')
  BY <1>1 DEF StartFlush, Resume, Goto, TypeOK
<1>2. CASE ~(conversation = NoConversation \/ lastPersisted >= Len(messages'))
  <2>1. /\ Goto(t, "inserting") /\ ending' = (IF last THEN ending \cup {t} ELSE ending)
        /\ \E base \in Bases :
             /\ flush' = [flush EXCEPT ![t] =
                  [conv |-> conversation, base |-> base,
                   msgs |-> SubSeq(messages', lastPersisted + 1, Len(messages'))]]
             /\ now' = base
    BY <1>2 DEF StartFlush
  <2>2. PICK base \in Bases :
             /\ flush' = [flush EXCEPT ![t] =
                  [conv |-> conversation, base |-> base,
                   msgs |-> SubSeq(messages', lastPersisted + 1, Len(messages'))]]
             /\ now' = base
    BY <2>1
  <2>3. base \in Nat
    BY DEF Bases, TypeOK
  <2>4. lastPersisted \in Nat /\ conversation \in Nat
    BY <1>2 DEF TypeOK
  <2>5. SubSeq(messages', lastPersisted + 1, Len(messages')) \in Seq(Messages)
    BY <2>4, SliceTyped
  <2>6. flush' \in [Turns -> Flushes]
    BY <2>2, <2>3, <2>4, <2>5 DEF TypeOK, Flushes
  <2>7. QED
    BY <2>1, <2>2, <2>3, <2>6 DEF Goto, TypeOK
<1>3. QED
  BY <1>1, <1>2


(* Only a turn that has seeded the watermark cuts slices from it.          *)
WasSeeded ==
  \A t \in Turns : pc[t] \in {"running", "inserting", "touching"} => lastPersisted # Undefined

LEMMA PostTyped ==
  ASSUME TypeOK, WasSeeded, NEW t \in Turns,
         PostNew(t) \/ PostAgent(t) \/ \E c \in Conversations : PostContinue(t, c)
  PROVE  TypeOK' /\ WasSeeded'
<1>1. /\ sent' \in 0 .. MaxMessages /\ messages' \in Seq(Messages) /\ session'
      /\ Len(messages) \in Nat /\ Len(messages') = Len(messages) + 1
  BY PushTyped DEF PostNew, PostAgent, PostContinue, Accept
<1>2. lastPersisted' \in {Undefined} \cup (0 .. Len(messages')) /\ floor' \in Nat
  <2>1. CASE PostAgent(t)
    BY <1>1, <2>1, SeedTyped DEF PostAgent
  <2>2. CASE PostNew(t) \/ \E c \in Conversations : PostContinue(t, c)
    BY <1>1, <2>2 DEF PostNew, PostContinue, TypeOK
  <2>3. QED
    BY <2>1, <2>2
<1>3. flush' \in [Turns -> Flushes]
  <2>1. flush \in [Turns -> Flushes]
    BY DEF TypeOK
  <2>2. ASSUME NEW c \in Conversations, flush' = [flush EXCEPT ![t].conv = c]
        PROVE  flush' \in [Turns -> Flushes]
    <3>1. c \in Nat /\ flush[t] \in Flushes
      BY <2>1 DEF Conversations, TypeOK
    <3>2. [flush[t] EXCEPT !.conv = c] \in Flushes
      BY <3>1 DEF Flushes
    <3>3. QED
      BY <2>1, <2>2, <3>2
  <2>3. QED
    BY <2>1, <2>2 DEF PostNew, PostAgent, PostContinue
<1>4. session' \in BOOLEAN
  BY DEF PostNew, PostAgent, PostContinue, Accept
<1>5. TypeOK'
  BY <1>1, <1>2, <1>3, <1>4
     DEF PostNew, PostAgent, PostContinue, Goto, TypeOK
<1>6. WasSeeded'
  <2>1. CASE PostAgent(t)
    <3>1. lastPersisted' # Undefined
      BY <1>1, <2>1 DEF PostAgent, Seed, Undefined
    <3>2. QED
      BY <3>1 DEF WasSeeded
  <2>2. CASE PostNew(t) \/ \E c \in Conversations : PostContinue(t, c)
    BY <2>2 DEF PostNew, PostContinue, Goto, WasSeeded, TypeOK
  <2>3. QED
    BY <2>1, <2>2
<1>7. QED
  BY <1>5, <1>6

LEMMA LoadedTyped ==
  ASSUME TypeOK, WasSeeded, NEW t \in Turns, NEW prior \in Reloads(flush[t].conv),
         Loaded(t, prior)
  PROVE  TypeOK' /\ WasSeeded'
<1>1. log \in Seq(Rows) /\ messages \in Seq(Messages)
  BY DEF TypeOK
<1>2. \A r \in 1 .. Len(log) : log[r] \in Rows
  BY <1>1
<1>3. \A r \in 1 .. Len(log) : log[r].at \in Nat /\ log[r].msg \in Messages
  BY <1>2 DEF Rows
<1>4. (\E S : prior \in Seq(S)) /\ Len(prior) \in Nat
      /\ \E row : ReadBy(prior, flush[t].conv, row)
  BY <1>1, <1>3, ReloadIsSeq, ReloadSorts
<1>5. \A i \in 1 .. Len(prior) : prior[i] \in Messages
  BY <1>3, <1>4 DEF ReadBy
<1>6. prior \in Seq(Messages)
  BY <1>4, <1>5
<1>7. messages' \in Seq(Messages) /\ Len(messages) \in Nat
      /\ Len(messages') = Len(prior) + Len(messages)
  BY <1>1, <1>6 DEF Loaded, Prepend
<1>8. lastPersisted' \in {Undefined} \cup (0 .. Len(messages')) /\ floor' \in Nat
      /\ lastPersisted' # Undefined
  <2>1. Len(prior) \in 0 .. Len(messages') /\ Seed(Len(prior))
    BY <1>4, <1>7 DEF Loaded
  <2>2. lastPersisted' # Undefined
    BY <1>4, <2>1 DEF Seed, Undefined
  <2>3. QED
    BY <1>4, <1>7, <2>1, <2>2, SeedTyped
<1>9. flush' \in [Turns -> Flushes]
  BY NoFlushTyped DEF Loaded, TypeOK
<1>10. conversation' \in Nat
  BY DEF Loaded, TypeOK, Flushes
<1>11. QED
  BY <1>7, <1>8, <1>9, <1>10 DEF Loaded, Goto, TypeOK, WasSeeded

LEMMA InsertTyped ==
  ASSUME TypeOK, WasSeeded, NEW t \in Turns, InsertRows(t)
  PROVE  TypeOK' /\ WasSeeded'
<1> DEFINE Row(n) == [conv |-> flush[t].conv, msg |-> flush[t].msgs[n],
                      at |-> CreatedAt(flush[t].base, n)]
<1>1. flush[t] \in Flushes
  BY DEF TypeOK
<1>2. flush[t].conv \in Nat /\ flush[t].msgs \in Seq(Messages) /\ flush[t].base \in Nat
  BY <1>1 DEF Flushes
<1>3. Len(flush[t].msgs) \in Nat
      /\ \A n \in 1 .. Len(flush[t].msgs) : flush[t].msgs[n] \in Messages
  BY <1>2
<1>4. \A n \in 1 .. Len(flush[t].msgs) : CreatedAt(flush[t].base, n) \in Nat
  BY <1>2, <1>3 DEF CreatedAt
<1>5. \A n \in 1 .. Len(flush[t].msgs) : Row(n) \in Rows
  BY <1>2, <1>3, <1>4 DEF Rows
<1>6. log' = log \o [n \in 1 .. Len(flush[t].msgs) |-> Row(n)]
  BY DEF InsertRows
<1> HIDE DEF Row
<1>7. [n \in 1 .. Len(flush[t].msgs) |-> Row(n)] \in Seq(Rows)
  BY <1>3, <1>5
<1>8. log' \in Seq(Rows)
  BY <1>6, <1>7 DEF TypeOK
<1>9. now' \in Nat
  BY <1>2, BoundsAssumption DEF InsertRows, TypeOK
<1>10. QED
  BY <1>8, <1>9 DEF InsertRows, Goto, TypeOK, WasSeeded

LEMMA FlushEndsTyped ==
  ASSUME TypeOK, WasSeeded, NEW t \in Turns,
         InsertFails(t) \/ FlushSucceeds(t) \/ TouchFails(t)
  PROVE  TypeOK' /\ WasSeeded'
<1>1. messages \in Seq(Messages) /\ Len(messages) \in Nat
  BY DEF TypeOK
<1>2. lastPersisted # Undefined
  BY DEF InsertFails, FlushSucceeds, TouchFails, WasSeeded
<1>3. lastPersisted' \in 0 .. Len(messages)
  BY <1>1, <1>2 DEF InsertFails, FlushSucceeds, TouchFails, KeepWatermark, NewWatermark,
     TypeOK
<1>4. lastPersisted' # Undefined
  BY <1>3 DEF Undefined
<1>5. halfWritten' \subseteq Messages
  <2>1. flush[t].msgs \in Seq(Messages)
    BY DEF TypeOK, Flushes
  <2>2. \A n \in 1 .. Len(flush[t].msgs) : flush[t].msgs[n] \in Messages
    BY <2>1
  <2>3. QED
    BY <2>2 DEF InsertFails, FlushSucceeds, TouchFails, TypeOK
<1>6. FlushEnds(t) /\ flush' \in [Turns -> Flushes]
  BY NoFlushTyped DEF InsertFails, FlushSucceeds, TouchFails, FlushEnds, TypeOK
<1>7. QED
  BY <1>3, <1>4, <1>5, <1>6 DEF FlushEnds, Resume, Goto, TypeOK, WasSeeded

LEMMA TurnTyped ==
  ASSUME TypeOK, WasSeeded, NEW t \in Turns, Commit(t) \/ Finish(t)
  PROVE  TypeOK' /\ WasSeeded'
<1>1. lastPersisted # Undefined
  BY DEF Commit, Finish, WasSeeded
<1>2. /\ messages' \in Seq(Messages) /\ sent' \in 0 .. MaxMessages
      /\ Len(messages) \in Nat /\ Len(messages') \in Nat /\ Len(messages) =< Len(messages')
  <2>1. CASE Commit(t)
    BY <2>1, PushTyped DEF Commit
  <2>2. CASE Finish(t)
    BY <2>2 DEF Finish, TypeOK
  <2>3. QED
    BY <2>1, <2>2
<1>3. /\ pc' \in [Turns -> {"new", "loading", "creating", "running", "inserting",
                            "touching", "done"}]
      /\ flush' \in [Turns -> Flushes] /\ ending' \subseteq Turns /\ now' \in Nat
  BY <1>1, <1>2, StartFlushTyped DEF Commit, Finish
<1>4. lastPersisted' = lastPersisted /\ lastPersisted' \in 0 .. Len(messages')
  <2>1. lastPersisted' = lastPersisted
    BY DEF Commit, Finish
  <2>2. lastPersisted \in 0 .. Len(messages)
    BY <1>1 DEF TypeOK
  <2>3. QED
    BY <1>2, <2>1, <2>2
<1>5. QED
  BY <1>1, <1>2, <1>3, <1>4 DEF Commit, Finish, TypeOK, WasSeeded

LEMMA StepTypes == TypeOK /\ WasSeeded /\ [Next]_vars => TypeOK' /\ WasSeeded'
<1> SUFFICES ASSUME TypeOK, WasSeeded, [Next]_vars PROVE TypeOK' /\ WasSeeded'
  OBVIOUS
<1>1. CASE UNCHANGED vars
  BY <1>1 DEF vars, TypeOK, WasSeeded
<1>2. CASE LoseSession
  <2>1. messages' \in Seq(Messages) /\ flush' \in [Turns -> Flushes]
    BY <1>2, NoFlushTyped, EmptySeq DEF LoseSession
  <2>2. \A u \in Turns : pc'[u] \in {"new", "done"}
    BY <1>2 DEF LoseSession, Active, TypeOK
  <2>3. WasSeeded'
    BY <2>2 DEF WasSeeded
  <2>4. QED
    BY <1>2, <2>1, <2>3 DEF LoseSession, TypeOK, NoConversation
<1>3. ASSUME NEW t \in Turns, TurnStep(t) PROVE TypeOK' /\ WasSeeded'
  <2>1. CASE PostNew(t) \/ PostAgent(t) \/ \E c \in Conversations : PostContinue(t, c)
    BY <2>1, PostTyped
  <2>2. CASE \E prior \in Reloads(flush[t].conv) : Loaded(t, prior)
    BY <2>2, LoadedTyped
  <2>3. CASE ConversationCreated(t)
    <3>1. messages \in Seq(Messages) /\ Len(messages) \in Nat
      BY DEF TypeOK
    <3>2. /\ lastPersisted' \in {Undefined} \cup (0 .. Len(messages')) /\ floor' \in Nat
          /\ lastPersisted' # Undefined
      BY <2>3, <3>1 DEF ConversationCreated, Seed, Undefined, TypeOK
    <3>3. QED
      BY <2>3, <3>1, <3>2 DEF ConversationCreated, Goto, TypeOK, WasSeeded
  <2>4. CASE PostFails(t) \/ Stop(t)
    BY <2>4, NoFlushTyped DEF PostFails, Stop, Goto, TypeOK, WasSeeded
  <2>5. CASE Commit(t) \/ Finish(t)
    BY <2>5, TurnTyped
  <2>6. CASE InsertRows(t)
    BY <2>6, InsertTyped
  <2>7. CASE InsertFails(t) \/ FlushSucceeds(t) \/ TouchFails(t)
    BY <2>7, FlushEndsTyped
  <2>8. QED
    BY <1>3, <2>1, <2>2, <2>3, <2>4, <2>5, <2>6, <2>7 DEF TurnStep
<1>4. QED
  BY <1>1, <1>2, <1>3 DEF Next

(* Every variable has its type, and the watermark never passes the end of  *)
(* the transcript, also for requests that overlap.                         *)
THEOREM TypeCorrect == Spec => []TypeOK
<1>1. Init => TypeOK /\ WasSeeded
  BY InitTypes DEF Init, WasSeeded
<1>2. QED
  BY <1>1, StepTypes, PTL DEF Spec

=============================================================================
