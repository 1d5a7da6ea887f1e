-------------------------- MODULE SharedTranscript --------------------------
(***************************************************************************)
(* One session.messages, read and appended to by every turn of the session *)
(* (orchestrator.ts, runCoreRouter and runAgentTurn of chat.service.ts).   *)
(* A turn asks Core, which sees the transcript as it was when the turn     *)
(* began, and specialists, which see it whole; both through the repair of  *)
(* TranscriptRepair.  In between other turns may run, the client may cut a *)
(* turn off, and the session may be lost and read back from the log: less  *)
(* a tail that was not flushed, or with rows repeated or out of order      *)
(* (TurnPersistence shows how).  The calls of a reply are handled in any   *)
(* order, their ids being interchangeable.                                 *)
(***************************************************************************)
EXTENDS TranscriptRepair

CONSTANTS
  Turns,       \* POST requests
  MaxMessages  \* length of a transcript: a bound

ASSUME BoundAssumption == MaxMessages \in Nat
ASSUME CallsAssumption == IsFiniteSet(Calls)

VARIABLES
  messages, \* session.messages
  pc,       \* of each turn: "new", "core" or "asking" (about to call a model),
            \* "tools" or "over"
  start,    \* turnStartIndex of each turn
  todo,     \* calls of the turn's last reply without a result so far
  used,     \* calls made so far; ids are not used again
  told,     \* history: calls some model was shown as interrupted
  clean     \* history: turns never overlapped, no row was repeated or moved

vars == <<messages, pc, start, todo, used, told, clean>>

Active(t) == pc[t] \in {"core", "asking", "tools"}

TypeOK ==
  /\ messages \in Seq(Message)
  /\ \A i \in 1 .. Len(messages) : IsMessage(messages[i])
  /\ pc \in [Turns -> {"new", "core", "asking", "tools", "over"}]
  /\ start \in [Turns -> Nat]
  /\ \A t \in Turns : Active(t) => start[t] =< Len(messages)
  /\ todo \in [Turns -> SUBSET Calls]
  /\ used \subseteq Calls
  /\ told \subseteq Calls
  /\ clean \in BOOLEAN

Init ==
  /\ messages = <<>>
  /\ pc = [t \in Turns |-> "new"]
  /\ start = [t \in Turns |-> 0]
  /\ todo = [t \in Turns |-> {}]
  /\ used = {}
  /\ told = {}
  /\ clean = TRUE

Push(t, m) ==
  /\ Len(messages) < MaxMessages
  /\ messages' = Append(messages, m)

TurnStart == Len(messages')

(* The user's message; an agent's own endpoint goes without Core.          *)
Post(t, first) ==
  /\ pc[t] = "new"
  /\ Push(t, User)
  /\ pc' = [pc EXCEPT ![t] = first]
  /\ start' = [start EXCEPT ![t] = TurnStart]
  /\ clean' = (clean /\ \A u \in Turns : ~Active(u))
  /\ UNCHANGED <<todo, used, told>>

-----------------------------------------------------------------------------
(* Model calls.                                                            *)

Shown(v) == told' = told \cup {c \in Calls : Interrupted(c) \in ToSet(v)}

CoreView(t) == View(SubSeq(messages, 1, start[t]))

(* Core hands over to a specialist; its own prose is dropped.              *)
CoreRoutes(t) ==
  /\ pc[t] = "core"
  /\ Shown(CoreView(t))
  /\ pc' = [pc EXCEPT ![t] = "asking"]
  /\ UNCHANGED <<messages, start, todo, used, clean>>

(* Core answers, fails, or ends a resumed turn silently.                   *)
CoreAnswers(t) ==
  /\ pc[t] = "core"
  /\ Shown(CoreView(t))
  /\ Push(t, Reply({})) \/ UNCHANGED messages
  /\ pc' = [pc EXCEPT ![t] = "over"]
  /\ UNCHANGED <<start, todo, used, clean>>

(* The specialist answers, says nothing or fails: its turn is done, and    *)
(* Core is resumed, the next specialist asked, or the turn over.           *)
SpecialistAnswers(t, next) ==
  /\ pc[t] = "asking"
  /\ Shown(View(messages))
  /\ Push(t, Reply({})) \/ UNCHANGED messages
  /\ pc' = [pc EXCEPT ![t] = next]
  /\ UNCHANGED <<start, todo, used, clean>>

(* The specialist calls tools.                                             *)
SpecialistCalls(t, C) ==
  /\ pc[t] = "asking"
  /\ Shown(View(messages))
  /\ C # {} /\ C \cap used = {}
  /\ Push(t, Reply(C))
  /\ todo' = [todo EXCEPT ![t] = @ \cup C]
  /\ used' = used \cup C
  /\ pc' = [pc EXCEPT ![t] = "tools"]
  /\ UNCHANGED <<start, clean>>

-----------------------------------------------------------------------------
(* Tool calls.                                                             *)

\* Mutant: the loop stays at a call it has handled.
Again(t, c) == UNCHANGED todo
Done(t, c) == todo' = [todo EXCEPT ![t] = @ \ {c}]

(* A server tool, the wallet or the duplicate-read guard gives a result.   *)
Result(t, c) ==
  /\ pc[t] = "tools"
  /\ c \in todo[t]
  /\ Push(t, ToolResult(c))
  /\ Done(t, c)
  /\ UNCHANGED <<pc, start, used, told, clean>>

\* Mutant: the next model call does not wait for the results.
SomeDone(t) == TRUE
AllDone(t) == todo[t] = {}

(* After the step: the next iteration, or a guard of the loop ends the     *)
(* specialist's turn.                                                      *)
NextIteration(t, next) ==
  /\ pc[t] = "tools"
  /\ AllDone(t)
  /\ pc' = [pc EXCEPT ![t] = next]
  /\ UNCHANGED <<messages, start, todo, used, told, clean>>

(* The wallet's await is rejected: this call is marked, then the error     *)
(* frame, then the calls left are; a client gone by then cuts it short.    *)
Lose(t, c, cut) ==
  /\ pc[t] = "tools"
  /\ c \in todo[t]
  /\ LET marked == IF cut THEN {c} ELSE todo[t]
     IN  \E order \in SetToSeqs(marked) :
           /\ Len(messages) + Len(order) =< MaxMessages
           /\ messages' = messages \o [n \in 1 .. Len(order) |-> Interrupted(order[n])]
  /\ todo' = [todo EXCEPT ![t] = {}]
  /\ pc' = [pc EXCEPT ![t] = "over"]
  /\ UNCHANGED <<start, used, told, clean>>

(* A dropped stream ends the turn at one of its yields: what is left to do *)
(* stays undone.                                                           *)
Cut(t) ==
  /\ Active(t)
  /\ pc' = [pc EXCEPT ![t] = "over"]
  /\ todo' = [todo EXCEPT ![t] = {}]
  /\ UNCHANGED <<messages, start, used, told, clean>>

-----------------------------------------------------------------------------
(* The log.                                                                *)

(* What was flushed, as it was.                                            *)
Flushed(m) == {SubSeq(m, 1, n) : n \in 0 .. Len(m)}

(* A slice written twice; two rows of one date.                            *)
Repeated(m) ==
  {m \o SubSeq(m, a, Len(m)) : a \in 1 .. Len(m)}
Swapped(m) ==
  {[m EXCEPT ![a] = m[a + 1], ![a + 1] = m[a]] : a \in 1 .. Len(m) - 1}

(* The session is lost with its turns, and the log read back.              *)
Reload(m) ==
  /\ m \in Flushed(messages) \cup Repeated(messages) \cup Swapped(messages)
  /\ Len(m) =< MaxMessages
  /\ messages' = m
  /\ clean' = (clean /\ m \in Flushed(messages))
  /\ pc' = [t \in Turns |-> IF Active(t) THEN "over" ELSE pc[t]]
  /\ todo' = [t \in Turns |-> {}]
  /\ UNCHANGED <<start, used, told>>

-----------------------------------------------------------------------------
TurnStep(t) ==
  \/ \E first \in {"core", "asking"} : Post(t, first)
  \/ CoreRoutes(t)
  \/ CoreAnswers(t)
  \/ \E next \in {"core", "asking", "over"} : SpecialistAnswers(t, next) \/ NextIteration(t, next)
  \/ \E C \in SUBSET Calls : SpecialistCalls(t, C)
  \/ \E c \in Calls : Result(t, c) \/ \E cut \in BOOLEAN : Lose(t, c, cut)
  \/ Cut(t)

Next ==
  \/ \E t \in Turns : TurnStep(t)
  \/ \E m \in Flushed(messages) \cup Repeated(messages) \cup Swapped(messages) : Reload(m)

Spec == Init /\ [][Next]_vars

-----------------------------------------------------------------------------
(* Properties.                                                             *)

(* No model is ever sent a call without a result or a result without a     *)
(* call, neither a specialist nor Core, whose view may end in the middle   *)
(* of another turn's step; whatever was lost, repeated or reordered.       *)
ModelsSeePairs ==
  /\ WellPaired(View(messages))
  /\ \A t \in Turns : pc[t] = "core" => WellPaired(CoreView(t))

(* The two passes change what they must and nothing else.                  *)
RepairIsLocal == View(messages) = ViewInPlace(messages)

(* With one turn at a time and a log in order, no result that was pushed   *)
(* is withheld from the models.                                            *)
ResultsAreShown ==
  clean => \A j \in 1 .. Len(messages) : Kept(messages, j)

(* ... and a call that a model was told is interrupted never gets a result *)
(* afterwards.                                                             *)
InterruptedIsOver ==
  clean => \A c \in told : ToolResult(c) \notin ToSet(messages)

=============================================================================
