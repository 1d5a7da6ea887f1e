----------------------------- MODULE AgentTurn ------------------------------
(***************************************************************************)
(* chat.service.ts, runAgentTurn: one agent's multi-step turn.  The model  *)
(* is called, its tool calls run one by one on the server (executeServer-  *)
(* Tool) or on the wallet (executeMobileTool), the results are fed back,   *)
(* until the model calls no tool or a guard of the loop ends the turn.     *)
(* A client that drops its stream has sseResponse call generator.return:   *)
(* the turn runs on to its next `yield` and ends there, in mid-step.       *)
(*                                                                         *)
(* A tool call is its place <<model step, index>> in the transcript and a  *)
(* key, the tool with its arguments.  Text, prompts and payloads are left  *)
(* out; persistence is in TurnPersistence.                                 *)
(***************************************************************************)
EXTENDS Integers, Sequences

CONSTANTS
  Keys,          \* tool name + arguments (readCallKey)
  Reads,         \* the keys whose tool has capability "read"
  ServerRun,     \* the keys whose tool has executor "server"
  MaxIterations, \* MAX_ITERATIONS
  MaxFailures,   \* MAX_CONSECUTIVE_TOOL_FAILURES
  MaxCalls       \* tool calls in one model reply: a bound

ASSUME BoundsAssumption ==
  /\ MaxIterations \in Nat
  /\ MaxFailures \in Nat \ {0}
  /\ MaxCalls \in Nat
ASSUME KeysAssumption == Reads \subseteq Keys /\ ServerRun \subseteq Keys

Slots == (1 .. MaxIterations) \X (1 .. MaxCalls)

VARIABLES
  pc,          \* "loop", "model", "tools", "server" (awaiting the MCP tool),
               \* "mobile" (awaiting the wallet), "refused" (by the store),
               \* "ended" or "cut" (off by its client)
  cancelled,   \* a generator.return is queued
  iterations,  \* model calls made
  toolCalls,   \* the keys called by the last model reply
  i,           \* index of the call being handled
  seenReads,   \* seenReadCalls
  dupRead,     \* sawDuplicateRead
  progressed,  \* stepProgressed
  failed,      \* stepFailed
  failedSteps, \* consecutiveFailedSteps
  state,       \* session.state
  terminal,    \* the frame that ended the turn: "none", "done" or "error"
  issued,      \* slots of the tool calls committed to the transcript
  results,     \* results[s]: tool results pushed for slot s
  reads,       \* history: dispatches of each key since the last write
  outcomes     \* history: how each finished step went

vars == <<pc, cancelled, iterations, toolCalls, i, seenReads, dupRead, progressed,
          failed, failedSteps, state, terminal, issued, results, reads, outcomes>>

TypeOK ==
  /\ pc \in {"loop", "model", "tools", "server", "mobile", "refused", "ended",
            "cut"}
  /\ cancelled \in BOOLEAN
  /\ iterations \in 0 .. MaxIterations
  /\ toolCalls \in Seq(Keys) /\ Len(toolCalls) =< MaxCalls
  /\ i \in 1 .. MaxCalls + 1
  /\ seenReads \subseteq Reads
  /\ dupRead \in BOOLEAN /\ progressed \in BOOLEAN /\ failed \in BOOLEAN
  /\ failedSteps \in 0 .. MaxFailures
  /\ state \in {"streaming", "awaiting_mobile", "idle"}
  /\ terminal \in {"none", "done", "error"}
  /\ issued \subseteq Slots
  /\ results \in [Slots -> Nat]
  /\ reads \in [Keys -> Nat]
  /\ outcomes \in Seq({"progress", "stuck"})

Init ==
  /\ pc = "loop"
  /\ cancelled = FALSE
  /\ iterations = 0
  /\ toolCalls = <<>>
  /\ i = 1
  /\ seenReads = {}
  /\ dupRead = FALSE /\ progressed = FALSE /\ failed = FALSE
  /\ failedSteps = 0
  /\ state = "streaming"
  /\ terminal = "none"
  /\ issued = {}
  /\ results = [s \in Slots |-> 0]
  /\ reads = [k \in Keys |-> 0]
  /\ outcomes = <<>>

-----------------------------------------------------------------------------
(* Cancellation.                                                           *)

Over == pc \in {"ended", "cut"}

(* The client is gone; the generator is told so at its next yield.         *)
Cancel ==
  /\ ~Over
  /\ ~cancelled
  /\ cancelled' = TRUE
  /\ UNCHANGED <<pc, iterations, toolCalls, i, seenReads, dupRead, progressed, failed,
                 failedSteps, state, terminal, issued, results, reads, outcomes>>

(* A yield: go on to `place`, unless the turn ends here.                   *)
Yield(place) == pc' = IF cancelled THEN "cut" ELSE place

-----------------------------------------------------------------------------
(* The model call.                                                         *)

stepVars == <<cancelled, toolCalls, i, seenReads, dupRead, progressed, failed, issued,
              results, reads, outcomes>>

\* Mutant: a `return` forgotten, the loop goes on after the frame.
EndContinues(frame) ==
  /\ pc' = "loop"
  /\ state' = "idle"
  /\ terminal' = frame

(* The ways out of the loop: the session goes idle, one frame is sent.     *)
End(frame) ==
  /\ pc' = "ended"
  /\ state' = "idle"
  /\ terminal' = frame

IterationsLeft == iterations < MaxIterations

(* Every iteration begins with a status frame.                             *)
Think ==
  /\ pc = "loop"
  /\ IterationsLeft
  /\ iterations' = iterations + 1
  /\ Yield("model")
  /\ UNCHANGED <<stepVars, failedSteps, state, terminal>>

(* The provider throws: at the call, in the text or for the tool calls.    *)
(* The error frame is sent first and the session goes idle after it.       *)
ModelFails ==
  /\ pc = "model"
  /\ IF cancelled THEN pc' = "cut" /\ UNCHANGED <<state, terminal>> ELSE End("error")
  /\ UNCHANGED <<stepVars, iterations, failedSteps>>

(* The stream was dropped while text was still to come: the turn ends at   *)
(* the next chunk and nothing of the reply is committed.                   *)
CutInText ==
  /\ pc = "model"
  /\ cancelled
  /\ pc' = "cut"
  /\ UNCHANGED <<stepVars, iterations, failedSteps, state, terminal>>

(* Plain text ends the turn.  So does a reply cut off by the repetition    *)
(* guard of the stream sanitizer, whose tool calls are dropped unseen.     *)
ModelAnswers ==
  /\ pc = "model"
  /\ End("done")
  /\ UNCHANGED <<stepVars, iterations, failedSteps>>

ModelCallsTools(calls) ==
  /\ pc = "model"
  /\ pc' = "tools"
  /\ toolCalls' = calls
  /\ i' = 1
  /\ progressed' = FALSE
  /\ failed' = FALSE
  /\ issued' = issued \cup {<<iterations, n>> : n \in 1 .. Len(calls)}
  /\ UNCHANGED <<cancelled, iterations, seenReads, dupRead, failedSteps, state,
                 terminal, results, reads, outcomes>>

IterationsExhausted ==
  /\ pc = "loop"
  /\ ~IterationsLeft
  /\ End("error")
  /\ UNCHANGED <<stepVars, iterations, failedSteps>>

-----------------------------------------------------------------------------
(* One tool call of the step.                                              *)

Handling(k) == pc = "tools" /\ i =< Len(toolCalls) /\ k = toolCalls[i]

IsDuplicateRead(k) == k \in Reads /\ k \in seenReads

(* Push one tool result for each of the given slots.                       *)
PushResults(S) ==
  results' = [s \in Slots |-> IF s \in S THEN results[s] + 1 ELSE results[s]]

Here == <<iterations, i>>

(* What a finished call does to the step's flags.                          *)
Count(ok) ==
  /\ progressed' = (progressed \/ ok)
  /\ failed' = (failed \/ ~ok)

\* Mutant: the read is not remembered.
ForgetRead(k) == seenReads
(* A dispatched read is remembered before it runs; a write that ran makes  *)
(* every read worth repeating.                                             *)
RememberRead(k) == IF k \in Reads THEN seenReads \cup {k} ELSE seenReads
ClearAfterWrite(k) == IF k \in Reads THEN seenReads ELSE {}
ReadsAfter(k) ==
  IF k \in Reads THEN [reads EXCEPT ![k] = @ + 1] ELSE [x \in Keys |-> 0]

(* An identical read of this turn is not dispatched again: a stub result   *)
(* pairs the call and the turn is finalized after the step.                *)
DuplicateRead(k) ==
  /\ Handling(k)
  /\ IsDuplicateRead(k)
  /\ dupRead' = TRUE
  /\ PushResults({Here})
  /\ progressed' = TRUE
  /\ i' = i + 1
  /\ UNCHANGED <<pc, cancelled, iterations, toolCalls, seenReads, failed, failedSteps,
                 state, terminal, issued, reads, outcomes>>

(* executeServerTool announces the call with a status frame ...            *)
AskServer(k) ==
  /\ Handling(k)
  /\ ~IsDuplicateRead(k)
  /\ k \in ServerRun
  /\ Yield("server")
  /\ seenReads' = RememberRead(k)
  /\ reads' = IF cancelled THEN reads ELSE ReadsAfter(k)
  /\ UNCHANGED <<cancelled, iterations, toolCalls, i, dupRead, progressed, failed,
                 failedSteps, state, terminal, issued, results, outcomes>>

(* ... and the MCP call returns or throws: a result and a frame either way.*)
ServerReturns(ok) ==
  /\ pc = "server"
  /\ PushResults({Here})
  /\ Yield("tools")
  /\ Count(ok)
  /\ seenReads' = ClearAfterWrite(toolCalls[i])
  /\ i' = i + 1
  /\ UNCHANGED <<cancelled, iterations, toolCalls, dupRead, failedSteps, state,
                 terminal, issued, reads, outcomes>>

(* executeMobileTool registers the call, sends tool_pending and suspends   *)
(* on the wallet.  The store may refuse (session evicted, call id already  *)
(* pending): the promise is then a rejected one.  A cancelled turn leaves  *)
(* the call registered.                                                    *)
AskMobile(k, registered) ==
  /\ Handling(k)
  /\ ~IsDuplicateRead(k)
  /\ k \notin ServerRun
  /\ state' = IF registered THEN "awaiting_mobile" ELSE state
  /\ Yield(IF registered THEN "mobile" ELSE "refused")
  /\ seenReads' = RememberRead(k)
  /\ reads' = IF cancelled THEN reads ELSE ReadsAfter(k)
  /\ UNCHANGED <<cancelled, iterations, toolCalls, i, dupRead, progressed, failed,
                 failedSteps, terminal, issued, results, outcomes>>

(* The wallet answers: an error counts as failed, a refusal by the user as *)
(* progress.  No frame is sent.                                            *)
MobileAnswers(ok) ==
  /\ pc = "mobile"
  /\ pc' = "tools"
  /\ state' = "streaming"
  /\ PushResults({Here})
  /\ Count(ok)
  /\ seenReads' = ClearAfterWrite(toolCalls[i])
  /\ i' = i + 1
  /\ UNCHANGED <<cancelled, iterations, toolCalls, dupRead, failedSteps, terminal,
                 issued, reads, outcomes>>

\* Mutant: only the call that timed out is paired.
OnlyThisCall == {Here}
RemainingCalls == {<<iterations, n>> : n \in i .. Len(toolCalls)}

(* The await is rejected (timeout, eviction, refused registration): this   *)
(* call and every one left in the step get an interrupted result.  The     *)
(* error frame is sent between the first of them and the rest.             *)
MobileLost ==
  /\ pc \in {"mobile", "refused"}
  /\ IF cancelled
     THEN /\ pc' = "cut"
          /\ state' = "idle"
          /\ PushResults({Here})
          /\ i' = i + 1
          /\ UNCHANGED terminal
     ELSE /\ End("error")
          /\ PushResults(RemainingCalls)
          /\ i' = Len(toolCalls) + 1
  /\ UNCHANGED <<cancelled, iterations, toolCalls, seenReads, dupRead, progressed,
                 failed, failedSteps, issued, reads, outcomes>>

-----------------------------------------------------------------------------
(* The guards after the last call of a step.                               *)

StepDone == pc = "tools" /\ i = Len(toolCalls) + 1
AllFailed == failed /\ ~progressed
StepOutcome == IF AllFailed THEN "stuck" ELSE "progress"

FinalizeAfterDuplicate ==
  /\ StepDone
  /\ dupRead
  /\ End("done")
  /\ outcomes' = Append(outcomes, StepOutcome)
  /\ UNCHANGED <<cancelled, iterations, toolCalls, i, seenReads, dupRead, progressed,
                 failed, failedSteps, issued, results, reads>>

BreakSpiral ==
  /\ StepDone
  /\ ~dupRead
  /\ AllFailed
  /\ failedSteps + 1 >= MaxFailures
  /\ failedSteps' = failedSteps + 1
  /\ End("error")
  /\ outcomes' = Append(outcomes, StepOutcome)
  /\ UNCHANGED <<cancelled, iterations, toolCalls, i, seenReads, dupRead, progressed,
                 failed, issued, results, reads>>

\* Mutant: the failure count restarts with every step.
RestartCount == 0
CountFailedSteps == IF AllFailed THEN failedSteps + 1 ELSE 0

NextStep ==
  /\ StepDone
  /\ ~dupRead
  /\ AllFailed => failedSteps + 1 < MaxFailures
  /\ failedSteps' = CountFailedSteps
  /\ pc' = "loop"
  /\ outcomes' = Append(outcomes, StepOutcome)
  /\ UNCHANGED <<cancelled, iterations, toolCalls, i, seenReads, dupRead, progressed,
                 failed, state, terminal, issued, results, reads>>

-----------------------------------------------------------------------------
ModelStep ==
  \/ Think
  \/ ModelFails
  \/ CutInText
  \/ ModelAnswers
  \/ \E n \in 1 .. MaxCalls : \E calls \in [1 .. n -> Keys] : ModelCallsTools(calls)
  \/ IterationsExhausted

ToolStep ==
  \/ \E k \in Keys :
       \/ DuplicateRead(k)
       \/ AskServer(k)
       \/ \E registered \in BOOLEAN : AskMobile(k, registered)
  \/ \E ok \in BOOLEAN : ServerReturns(ok)
  \/ FinalizeAfterDuplicate
  \/ BreakSpiral
  \/ NextStep

MobileStep == MobileLost \/ \E ok \in BOOLEAN : MobileAnswers(ok)

(* A finished turn stays as it is.                                         *)
Finished == Over /\ UNCHANGED vars

Next == ModelStep \/ ToolStep \/ MobileStep \/ Cancel \/ Finished

Spec == Init /\ [][Next]_vars

(* The generator runs on, the provider answers or throws, and the store    *)
(* settles every await (AwaitsSettle of SessionStore).                     *)
FairSpec ==
  /\ Spec
  /\ WF_vars(ModelStep)
  /\ WF_vars(ToolStep)
  /\ WF_vars(MobileStep)

-----------------------------------------------------------------------------
(* Properties.                                                             *)

Open(s) ==
  /\ pc \in {"tools", "server", "mobile", "refused", "cut"}
  /\ s[1] = iterations
  /\ s[2] >= i

(* Every committed tool call has exactly one result once it is handled, on *)
(* every path, so neither the next model call nor the next turn is given a *)
(* transcript with an orphaned or doubly answered tool_call_id (the        *)
(* provider's 400).  A turn cut off by its client leaves open calls of its *)
(* last step only, which sanitizeOrphanedToolCalls closes later.           *)
TranscriptPaired ==
  \A s \in Slots : results[s] = IF s \in issued /\ ~Open(s) THEN 1 ELSE 0

(* A turn that is not cut off ends with one terminal frame and leaves the  *)
(* session idle; until then the session is busy, and awaiting_mobile when  *)
(* the turn is suspended on the wallet.                                    *)
EndsIdle ==
  /\ pc = "ended" <=> terminal # "none"
  /\ pc = "ended" => state = "idle"
  /\ pc \in {"loop", "model", "tools", "server", "refused"} => state = "streaming"
  /\ pc = "mobile" => state = "awaiting_mobile"

(* Between two writes no read is dispatched twice: the wallet never shows  *)
(* the same card again and the turn cannot spin on a read that succeeds.   *)
NoRepeatedRead == \A k \in Reads : reads[k] =< 1

(* Whatever mix of tools a step runs, MaxFailures steps in a row without   *)
(* progress are never followed by another model call.                      *)
SpiralBounded ==
  \A n \in MaxFailures .. Len(outcomes) :
    (\A m \in (n - MaxFailures + 1) .. n : outcomes[m] = "stuck") => pc = "ended"

(* Every turn ends, whatever the model keeps asking for, and also when its *)
(* client is gone.                                                         *)
TurnEnds == <>Over

=============================================================================
