-------------------------- MODULE AgentTurnProofs ---------------------------
(***************************************************************************)
(* Proofs about one agent turn: about AgentTurn, its loop, for every set   *)
(* of tools and every value of MAX_ITERATIONS and                          *)
(* MAX_CONSECUTIVE_TOOL_FAILURES, and about ToolSets, the tools it holds,  *)
(* for any processes, loads, resources and versions of the catalog.        *)
(***************************************************************************)
EXTENDS AgentTurn, ToolSets, TLAPS

(* Where the loop stands: the calls of the current model step are exactly  *)
(* the slots issued for it, and nothing is issued for a step to come.      *)
LoopShape ==
  /\ \A s \in issued : s[1] =< iterations
  /\ pc \in {"tools", "server", "mobile", "refused"} =>
       /\ iterations \in 1 .. MaxIterations
       /\ i =< Len(toolCalls) + 1
       /\ \A n \in 1 .. MaxCalls : <<iterations, n>> \in issued <=> n =< Len(toolCalls)
  /\ pc \in {"server", "mobile", "refused"} => i =< Len(toolCalls)
  /\ pc = "model" => iterations >= 1 /\ \A s \in issued : s[1] < iterations

(* A read dispatched since the last write is in seenReads; a write in      *)
(* flight has already started a new count.                                 *)
ReadsRemembered ==
  /\ \A k \in Reads : reads[k] =< 1 /\ (k \notin seenReads => reads[k] = 0)
  /\ pc \in {"server", "mobile"} /\ toolCalls[i] \notin Reads =>
       \A k \in Reads : reads[k] = 0

(* While the turn runs, failedSteps is the length of the failed suffix.    *)
SuffixCounted ==
  pc # "ended" =>
    /\ failedSteps < MaxFailures
    /\ failedSteps =< Len(outcomes)
    /\ failedSteps < Len(outcomes) => outcomes[Len(outcomes) - failedSteps] = "progress"

IInv ==
  /\ TypeOK
  /\ LoopShape
  /\ TranscriptPaired
  /\ EndsIdle
  /\ ReadsRemembered
  /\ SuffixCounted
  /\ SpiralBounded

(* A function on 1 .. n is a sequence of length n.                         *)
LEMMA CallsAreSeq ==
  ASSUME NEW n \in 1 .. MaxCalls, NEW calls \in [1 .. n -> Keys]
  PROVE  calls \in Seq(Keys) /\ Len(calls) = n
  BY BoundsAssumption

(* Each action keeps every variable in its type.                           *)
LEMMA TypeStep == IInv /\ [Next]_vars => TypeOK'
<1> SUFFICES ASSUME IInv, [Next]_vars PROVE TypeOK'
  OBVIOUS
<1> USE BoundsAssumption, KeysAssumption DEF IInv, TypeOK
<1>1. CASE UNCHANGED vars
  BY <1>1 DEF vars
<1>2. CASE Think \/ ModelFails \/ CutInText \/ ModelAnswers \/ IterationsExhausted
  BY <1>2 DEF Think, ModelFails, CutInText, ModelAnswers, IterationsExhausted,
     IterationsLeft, Yield, End, stepVars
<1>3. ASSUME NEW n \in 1 .. MaxCalls, NEW calls \in [1 .. n -> Keys],
             ModelCallsTools(calls)
      PROVE  TypeOK'
  <2>1. calls \in Seq(Keys) /\ Len(calls) = n
    BY CallsAreSeq
  <2>2. iterations \in 1 .. MaxIterations
    BY <1>3 DEF ModelCallsTools, LoopShape
  <2>3. {<<iterations, m>> : m \in 1 .. Len(calls)} \subseteq Slots
    BY <2>1, <2>2 DEF Slots
  <2>4. issued' \subseteq Slots
    BY <1>3, <2>3 DEF ModelCallsTools
  <2>5. toolCalls' \in Seq(Keys) /\ Len(toolCalls') =< MaxCalls
    BY <1>3, <2>1 DEF ModelCallsTools
  <2>6. /\ pc' = "tools" /\ i' = 1
        /\ progressed' = FALSE /\ failed' = FALSE
        /\ UNCHANGED <<cancelled, iterations, seenReads, dupRead, failedSteps, state,
                       terminal, results, reads, outcomes>>
    BY <1>3 DEF ModelCallsTools
  <2>7. /\ i' \in 1 .. MaxCalls + 1
        /\ failedSteps' \in 0 .. MaxFailures
        /\ results' \in [Slots -> Nat] /\ reads' \in [Keys -> Nat]
    BY <2>6
  <2>8. QED
    BY <2>4, <2>5, <2>6, <2>7
<1>4. ASSUME NEW k \in Keys, DuplicateRead(k) PROVE TypeOK'
  BY <1>4 DEF DuplicateRead, Handling, PushResults
<1>5. ASSUME NEW k \in Keys, AskServer(k) PROVE TypeOK'
  <2>1. /\ pc' \in {"server", "cut"}
        /\ UNCHANGED <<cancelled, iterations, toolCalls, i, dupRead, progressed, failed,
                       failedSteps, state, terminal, issued, results, outcomes>>
    BY <1>5 DEF AskServer, Yield
  <2>2. seenReads' \subseteq Reads /\ reads' \in [Keys -> Nat]
    BY <1>5 DEF AskServer, RememberRead, ReadsAfter
  <2>3. QED
    BY <2>1, <2>2
<1>6. ASSUME NEW k \in Keys, NEW registered \in BOOLEAN, AskMobile(k, registered)
      PROVE  TypeOK'
  <2>1. /\ pc' \in {"mobile", "refused", "cut"} /\ state' \in {state, "awaiting_mobile"}
        /\ UNCHANGED <<cancelled, iterations, toolCalls, i, dupRead, progressed, failed,
                       failedSteps, terminal, issued, results, outcomes>>
    BY <1>6 DEF AskMobile, Yield
  <2>2. seenReads' \subseteq Reads /\ reads' \in [Keys -> Nat]
    BY <1>6 DEF AskMobile, RememberRead, ReadsAfter
  <2>3. QED
    BY <2>1, <2>2
<1>a. pc \in {"server", "mobile", "refused"} => i + 1 \in 1 .. MaxCalls + 1
  BY DEF LoopShape
<1>7. ASSUME NEW ok \in BOOLEAN, ServerReturns(ok) \/ MobileAnswers(ok) PROVE TypeOK'
  <2>0. /\ pc \in {"server", "mobile"} /\ i' = i + 1
        /\ PushResults({Here}) /\ Count(ok)
        /\ seenReads' = ClearAfterWrite(toolCalls[i])
    BY <1>7 DEF ServerReturns, MobileAnswers
  <2>1. results' \in [Slots -> Nat]
    BY <2>0 DEF PushResults
  <2>i. i' \in 1 .. MaxCalls + 1
    BY <2>0, <1>a
  <2>2. progressed' \in BOOLEAN /\ failed' \in BOOLEAN /\ seenReads' \subseteq Reads
    BY <2>0 DEF Count, ClearAfterWrite
  <2>3. /\ pc' \in {"tools", "cut"} /\ state' \in {state, "streaming"}
        /\ UNCHANGED <<cancelled, iterations, toolCalls, dupRead, failedSteps, terminal,
                       issued, reads, outcomes>>
    BY <1>7 DEF ServerReturns, MobileAnswers, Yield
  <2>4. QED
    BY <2>1, <2>i, <2>2, <2>3
<1>8. CASE MobileLost
  <2>1. /\ pc' \in {"cut", "ended"} /\ state' = "idle" /\ terminal' \in {terminal, "error"}
        /\ i' \in {i + 1, Len(toolCalls) + 1}
        /\ \E S : PushResults(S)
        /\ UNCHANGED <<cancelled, iterations, toolCalls, seenReads, dupRead, progressed,
                       failed, failedSteps, issued, reads, outcomes>>
    BY <1>8 DEF MobileLost, End
  <2>2. results' \in [Slots -> Nat]
    BY <2>1 DEF PushResults
  <2>3. i' \in 1 .. MaxCalls + 1
    BY <2>1, <1>8, <1>a DEF MobileLost
  <2>4. QED
    BY <2>1, <2>2, <2>3
<1>9. CASE FinalizeAfterDuplicate \/ BreakSpiral \/ NextStep
  <2>1. outcomes' = Append(outcomes, StepOutcome) /\ StepOutcome \in {"progress", "stuck"}
    BY <1>9 DEF FinalizeAfterDuplicate, BreakSpiral, NextStep, StepOutcome
  <2>2. outcomes' \in Seq({"progress", "stuck"})
    BY <2>1
  <2>3. pc # "ended"
    BY <1>9 DEF FinalizeAfterDuplicate, BreakSpiral, NextStep, StepDone
  <2>4. failedSteps' \in 0 .. MaxFailures
    BY <1>9, <2>3 DEF FinalizeAfterDuplicate, BreakSpiral, NextStep, CountFailedSteps,
       SuffixCounted
  <2>5. QED
    BY <1>9, <2>2, <2>4 DEF FinalizeAfterDuplicate, BreakSpiral, NextStep, End
<1>10. CASE Cancel
  BY <1>10 DEF Cancel
<1>11. QED
  BY <1>1, <1>2, <1>3, <1>4, <1>5, <1>6, <1>7, <1>8, <1>9, <1>10
     DEF Next, ModelStep, ToolStep, MobileStep, Finished

(* The loop keeps its shape.                                               *)
LEMMA ShapeStep == IInv /\ TypeOK' /\ [Next]_vars => LoopShape'
<1> SUFFICES ASSUME IInv, TypeOK', [Next]_vars PROVE LoopShape'
  OBVIOUS
<1> USE BoundsAssumption DEF IInv, TypeOK, LoopShape
<1>1. CASE UNCHANGED vars
  BY <1>1 DEF vars
<1>2. CASE Think
  <2>1. iterations' = iterations + 1 /\ issued' = issued /\ pc' \in {"model", "cut"}
    BY <1>2 DEF Think, Yield, stepVars
  <2>2. \A s \in issued : s[1] \in Nat /\ s[1] < iterations'
    BY <2>1 DEF Slots
  <2>3. QED
    BY <2>1, <2>2
<1>b. CASE ModelFails \/ CutInText \/ ModelAnswers \/ IterationsExhausted
  <2>1. iterations' = iterations /\ issued' = issued /\ pc' \in {"ended", "cut"}
    BY <1>b DEF ModelFails, CutInText, ModelAnswers, IterationsExhausted, End, stepVars
  <2>2. QED
    BY <2>1
<1>3. ASSUME NEW n \in 1 .. MaxCalls, NEW calls \in [1 .. n -> Keys],
             ModelCallsTools(calls)
      PROVE  LoopShape'
  <2>1. Len(calls) = n
    BY CallsAreSeq
  <2>2. \A s \in issued' : s[1] =< iterations'
    BY <1>3 DEF ModelCallsTools, Slots
  <2>3. \A m \in 1 .. MaxCalls : <<iterations', m>> \in issued' <=> m =< Len(toolCalls')
    BY <1>3, <2>1 DEF ModelCallsTools
  <2>4. /\ iterations' = iterations /\ i' = 1 /\ pc' = "tools"
        /\ toolCalls' = calls /\ iterations \in 1 .. MaxIterations
    BY <1>3 DEF ModelCallsTools
  <2>5. QED
    BY <2>1, <2>2, <2>3, <2>4
<1>4. ASSUME NEW k \in Keys, DuplicateRead(k) PROVE LoopShape'
  BY <1>4 DEF DuplicateRead, Handling
<1>5. ASSUME NEW k \in Keys, AskServer(k) PROVE LoopShape'
  BY <1>5 DEF AskServer, Handling, Yield
<1>6. ASSUME NEW k \in Keys, NEW registered \in BOOLEAN, AskMobile(k, registered)
      PROVE  LoopShape'
  BY <1>6 DEF AskMobile, Handling, Yield
<1>7. ASSUME NEW ok \in BOOLEAN, ServerReturns(ok) \/ MobileAnswers(ok)
      PROVE  LoopShape'
  <2>1. /\ pc \in {"server", "mobile"} /\ pc' \in {"tools", "cut"} /\ i' = i + 1
        /\ UNCHANGED <<iterations, toolCalls, issued>>
    BY <1>7 DEF ServerReturns, MobileAnswers, Yield
  <2>2. QED
    BY <2>1
<1>8. CASE MobileLost
  BY <1>8 DEF MobileLost, End
<1>9. CASE FinalizeAfterDuplicate \/ BreakSpiral \/ NextStep
  BY <1>9 DEF FinalizeAfterDuplicate, BreakSpiral, NextStep, End
<1>10. CASE Cancel
  BY <1>10 DEF Cancel
<1>11. QED
  BY <1>1, <1>2, <1>b, <1>3, <1>4, <1>5, <1>6, <1>7, <1>8, <1>9, <1>10
     DEF Next, ModelStep, ToolStep, MobileStep, Finished

(* Every handled call keeps exactly one result, an open one none.          *)
LEMMA PairedStep == IInv /\ TypeOK' /\ [Next]_vars => TranscriptPaired'
<1> SUFFICES ASSUME IInv, TypeOK', [Next]_vars, NEW s \in Slots
             PROVE  results'[s] = IF s \in issued' /\ ~Open(s)' THEN 1 ELSE 0
  BY DEF TranscriptPaired
<1> DEFINE Paired == results'[s] = IF s \in issued' /\ ~Open(s)' THEN 1 ELSE 0
<1>a. /\ s[1] \in 1 .. MaxIterations /\ s[2] \in 1 .. MaxCalls /\ s = <<s[1], s[2]>>
      /\ MaxIterations \in Nat /\ MaxCalls \in Nat
  BY BoundsAssumption DEF Slots
<1>b. /\ iterations \in 0 .. MaxIterations /\ i \in 1 .. MaxCalls + 1
      /\ Len(toolCalls) \in Nat /\ results \in [Slots -> Nat]
  BY DEF IInv, TypeOK
<1>c. results[s] = IF s \in issued /\ ~Open(s) THEN 1 ELSE 0
  BY DEF IInv, TranscriptPaired
<1>d. LoopShape
  BY DEF IInv
<1>1. CASE UNCHANGED vars
  BY <1>1, <1>c DEF vars, Open
<1>2. CASE Think \/ ModelFails \/ CutInText \/ ModelAnswers \/ IterationsExhausted
  <2>1. /\ pc \in {"loop", "model"} /\ pc' \in {"model", "ended", "cut"}
        /\ UNCHANGED <<issued, results>>
        /\ pc = "model" => iterations' = iterations
        /\ pc = "loop" /\ pc' = "cut" => iterations' = iterations + 1
    BY <1>2 DEF Think, ModelFails, CutInText, ModelAnswers, IterationsExhausted, Yield,
       End, stepVars
  <2>2. s \in issued => s[1] < iterations'  \/ pc' # "cut"
    BY <2>1, <1>a, <1>b, <1>d DEF LoopShape
  <2>3. ~Open(s) /\ (s \in issued => ~Open(s)')
    BY <2>1, <2>2, <1>a, <1>b DEF Open
  <2>4. QED
    BY <2>1, <2>3, <1>c
<1>3. ASSUME NEW n \in 1 .. MaxCalls, NEW calls \in [1 .. n -> Keys],
             ModelCallsTools(calls)
      PROVE  Paired
  <2>1. /\ pc = "model" /\ pc' = "tools" /\ iterations' = iterations /\ i' = 1
        /\ results' = results
        /\ issued' = issued \cup {<<iterations, m>> : m \in 1 .. Len(calls)}
    BY <1>3 DEF ModelCallsTools
  <2>2. CASE s[1] = iterations
    <3>1. s \notin issued
      BY <2>1, <2>2, <1>b, <1>d DEF LoopShape
    <3>2. results'[s] = 0
      BY <3>1, <2>1, <1>c
    <3>3. Open(s)'
      BY <2>1, <2>2, <1>a DEF Open
    <3>4. QED
      BY <3>2, <3>3
  <2>3. CASE s[1] # iterations
    <3>1. s \in issued' <=> s \in issued
      BY <2>1, <2>3, <1>a
    <3>2. ~Open(s) /\ ~Open(s)'
      BY <2>1, <2>3 DEF Open
    <3>3. QED
      BY <3>1, <3>2, <2>1, <1>c
  <2>4. QED
    BY <2>2, <2>3
<1>4. ASSUME PushResults({Here}), i' = i + 1, UNCHANGED <<iterations, issued>>,
             pc \in {"tools", "server", "mobile", "refused"}, pc' \in {"tools", "cut"},
             i =< Len(toolCalls)
      PROVE  Paired
  <2>1. CASE s = <<iterations, i>>
    <3>1. s \in issued /\ Open(s) /\ ~Open(s)'
      BY <2>1, <1>4, <1>a, <1>b, <1>d DEF LoopShape, Open
    <3>2. results'[s] = results[s] + 1
      BY <2>1, <1>4, <1>b DEF PushResults, Here
    <3>3. QED
      BY <3>1, <3>2, <1>4, <1>c
  <2>2. CASE s # <<iterations, i>>
    <3>1. Open(s) <=> Open(s)'
      BY <2>2, <1>4, <1>a, <1>b DEF Open
    <3>2. results'[s] = results[s]
      BY <2>2, <1>4, <1>b DEF PushResults, Here
    <3>3. QED
      BY <3>1, <3>2, <1>4, <1>c
  <2>3. QED
    BY <2>1, <2>2
<1>5. ASSUME NEW k \in Keys,
             AskServer(k) \/ \E registered \in BOOLEAN : AskMobile(k, registered)
      PROVE  Paired
  <2>1. /\ pc = "tools" /\ pc' \in {"server", "mobile", "refused", "cut"}
        /\ UNCHANGED <<iterations, i, issued, results>>
    BY <1>5 DEF AskServer, AskMobile, Handling, Yield
  <2>2. Open(s) <=> Open(s)'
    BY <2>1 DEF Open
  <2>3. QED
    BY <2>1, <2>2, <1>c
<1>6. ASSUME NEW ok \in BOOLEAN, ServerReturns(ok) \/ MobileAnswers(ok) PROVE Paired
  BY <1>4, <1>6, <1>d DEF ServerReturns, MobileAnswers, Yield, LoopShape
<1>7. CASE MobileLost /\ cancelled
  BY <1>4, <1>7, <1>d DEF MobileLost, LoopShape
<1>8. CASE MobileLost /\ ~cancelled
  <2>1. /\ pc \in {"mobile", "refused"} /\ pc' = "ended" /\ issued' = issued
        /\ results'[s] = IF s \in RemainingCalls THEN results[s] + 1 ELSE results[s]
    BY <1>8 DEF MobileLost, PushResults, End
  <2>2. s \in RemainingCalls <=> s[1] = iterations /\ s[2] \in i .. Len(toolCalls)
    BY <1>a DEF RemainingCalls
  <2>3. s \in RemainingCalls <=> s \in issued /\ Open(s)
    BY <2>1, <2>2, <1>a, <1>b, <1>d DEF LoopShape, Open
  <2>4. ~Open(s)'
    BY <2>1 DEF Open
  <2>5. QED
    BY <2>1, <2>3, <2>4, <1>c
<1>9. CASE FinalizeAfterDuplicate \/ BreakSpiral \/ NextStep
  <2>1. /\ pc = "tools" /\ i = Len(toolCalls) + 1 /\ pc' \in {"ended", "loop"}
        /\ UNCHANGED <<issued, results>>
    BY <1>9 DEF FinalizeAfterDuplicate, BreakSpiral, NextStep, StepDone, End
  <2>2. s \in issued => ~Open(s)
    BY <2>1, <1>a, <1>b, <1>d DEF LoopShape, Open
  <2>3. ~Open(s)'
    BY <2>1 DEF Open
  <2>4. QED
    BY <2>1, <2>2, <2>3, <1>c
<1>10. ASSUME NEW k \in Keys, DuplicateRead(k) PROVE Paired
  BY <1>4, <1>10 DEF DuplicateRead, Handling
<1>11. CASE Cancel
  BY <1>11, <1>c DEF Cancel, Open
<1>12. QED
  BY <1>1, <1>2, <1>3, <1>5, <1>6, <1>7, <1>8, <1>9, <1>10, <1>11
     DEF Next, ModelStep, ToolStep, MobileStep, Finished

(* One terminal frame, sent as the session goes idle.                      *)
LEMMA EndsStep == IInv /\ [Next]_vars => EndsIdle'
<1> SUFFICES ASSUME IInv, [Next]_vars PROVE EndsIdle'
  OBVIOUS
<1>1. EndsIdle /\ state \in {"streaming", "awaiting_mobile", "idle"}
  BY DEF IInv, TypeOK
<1>2. CASE UNCHANGED vars
  BY <1>1, <1>2 DEF vars, EndsIdle
<1>3. CASE ModelStep
  BY <1>1, <1>3 DEF ModelStep, Think, ModelFails, CutInText, ModelAnswers,
     ModelCallsTools, IterationsExhausted, Yield, End, EndsIdle
<1>4. CASE ToolStep
  BY <1>1, <1>4 DEF ToolStep, DuplicateRead, AskServer, ServerReturns, AskMobile,
     Handling, Yield, FinalizeAfterDuplicate, BreakSpiral, NextStep, StepDone, End,
     EndsIdle
<1>5. CASE MobileStep
  BY <1>1, <1>5 DEF MobileStep, MobileLost, MobileAnswers, End, EndsIdle
<1>6. CASE Cancel
  BY <1>1, <1>6 DEF Cancel, EndsIdle
<1>7. QED
  BY <1>2, <1>3, <1>4, <1>5, <1>6 DEF Next, Finished

(* A dispatched read stays in seenReads until a write.                     *)
LEMMA ReadsStep == IInv /\ [Next]_vars => ReadsRemembered'
<1> SUFFICES ASSUME IInv, [Next]_vars PROVE ReadsRemembered'
  OBVIOUS
<1>1. /\ ReadsRemembered /\ Reads \subseteq Keys
      /\ reads \in [Keys -> Nat] /\ toolCalls \in Seq(Keys)
  BY KeysAssumption DEF IInv, TypeOK
<1>2. CASE UNCHANGED vars
  BY <1>1, <1>2 DEF vars, ReadsRemembered
<1>3. CASE ModelStep
  BY <1>1, <1>3 DEF ModelStep, Think, ModelFails, CutInText, ModelAnswers,
     ModelCallsTools, IterationsExhausted, Yield, End, stepVars, ReadsRemembered
<1>4. ASSUME NEW k \in Keys, DuplicateRead(k) PROVE ReadsRemembered'
  BY <1>1, <1>4 DEF DuplicateRead, Handling, ReadsRemembered
<1>5. ASSUME NEW k \in Keys, AskServer(k) PROVE ReadsRemembered'
  BY <1>1, <1>5 DEF AskServer, Handling, Yield, IsDuplicateRead, RememberRead,
     ReadsAfter, ReadsRemembered
<1>6. ASSUME NEW k \in Keys, NEW registered \in BOOLEAN, AskMobile(k, registered)
      PROVE  ReadsRemembered'
  BY <1>1, <1>6 DEF AskMobile, Handling, Yield, IsDuplicateRead, RememberRead,
     ReadsAfter, ReadsRemembered
<1>7. ASSUME NEW ok \in BOOLEAN, ServerReturns(ok) \/ MobileAnswers(ok)
      PROVE  ReadsRemembered'
  BY <1>1, <1>7 DEF ServerReturns, MobileAnswers, Yield, ClearAfterWrite, ReadsRemembered
<1>8. CASE MobileLost
  BY <1>1, <1>8 DEF MobileLost, End, ReadsRemembered
<1>9. CASE FinalizeAfterDuplicate \/ BreakSpiral \/ NextStep
  BY <1>1, <1>9 DEF FinalizeAfterDuplicate, BreakSpiral, NextStep, StepDone, End,
     ReadsRemembered
<1>10. CASE Cancel
  BY <1>1, <1>10 DEF Cancel, ReadsRemembered
<1>11. QED
  BY <1>2, <1>3, <1>4, <1>5, <1>6, <1>7, <1>8, <1>9, <1>10
     DEF Next, ToolStep, MobileStep, Finished

(* The step that would complete MaxFailures fruitless steps ends the turn. *)
LEMMA SpiralStep == IInv /\ TypeOK' /\ [Next]_vars => SuffixCounted' /\ SpiralBounded'
<1> SUFFICES ASSUME IInv, TypeOK', [Next]_vars PROVE SuffixCounted' /\ SpiralBounded'
  OBVIOUS
<1>1. /\ SuffixCounted /\ SpiralBounded
      /\ outcomes \in Seq({"progress", "stuck"})
      /\ failedSteps \in 0 .. MaxFailures /\ MaxFailures \in Nat \ {0}
  BY BoundsAssumption DEF IInv, TypeOK
<1>2. CASE pc' = "ended"
  BY <1>2 DEF SuffixCounted, SpiralBounded
<1>3. CASE UNCHANGED <<failedSteps, outcomes>> /\ pc # "ended"
  BY <1>1, <1>3 DEF SuffixCounted, SpiralBounded
<1>4. CASE UNCHANGED <<failedSteps, outcomes, pc>>
  BY <1>1, <1>4 DEF SuffixCounted, SpiralBounded
<1>5. CASE NextStep
  <2>1. /\ pc = "tools" /\ pc' = "loop"
        /\ AllFailed => failedSteps + 1 < MaxFailures
        /\ failedSteps' = IF AllFailed THEN failedSteps + 1 ELSE 0
        /\ outcomes' = Append(outcomes, IF AllFailed THEN "stuck" ELSE "progress")
    BY <1>5 DEF NextStep, StepDone, CountFailedSteps, StepOutcome
  <2> DEFINE L == Len(outcomes)
  <2>2. /\ L \in Nat /\ Len(outcomes') = L + 1
        /\ \A n \in 1 .. L : outcomes'[n] = outcomes[n]
        /\ outcomes'[L + 1] = IF AllFailed THEN "stuck" ELSE "progress"
    BY <2>1, <1>1
  <2>3. SuffixCounted'
    BY <2>1, <2>2, <1>1 DEF SuffixCounted
  <2>4. ASSUME NEW n \in MaxFailures .. L + 1,
               \A m \in (n - MaxFailures + 1) .. n : outcomes'[m] = "stuck"
        PROVE  FALSE
    <3>1. CASE n =< L
      <4>1. \A m \in (n - MaxFailures + 1) .. n : outcomes[m] = "stuck"
        BY <2>2, <2>4, <3>1, <1>1
      <4>2. QED
        BY <4>1, <3>1, <2>1, <2>2, <2>4, <1>1 DEF SpiralBounded
    <3>2. CASE n = L + 1
      <4>1. outcomes'[L + 1 - failedSteps'] = "progress"
        BY <2>1, <2>2, <2>3, <2>4, <3>2, <1>1 DEF SuffixCounted
      <4>2. L + 1 - failedSteps' \in (n - MaxFailures + 1) .. n
        BY <2>1, <2>2, <3>2, <1>1
      <4>3. QED
        BY <4>1, <4>2, <2>4
    <3>3. QED
      BY <3>1, <3>2, <2>2, <2>4, <1>1
  <2>5. QED
    BY <2>2, <2>3, <2>4 DEF SpiralBounded
<1>6. CASE ModelStep
  BY <1>2, <1>3, <1>6 DEF ModelStep, Think, ModelFails, CutInText, ModelAnswers,
     ModelCallsTools, IterationsExhausted, Yield, End, stepVars
<1>7. CASE ToolStep
  BY <1>2, <1>3, <1>5, <1>7 DEF ToolStep, DuplicateRead, AskServer, ServerReturns,
     AskMobile, Handling, Yield, FinalizeAfterDuplicate, BreakSpiral, End
<1>8. CASE MobileStep
  BY <1>2, <1>3, <1>8 DEF MobileStep, MobileLost, MobileAnswers, End
<1>9. QED
  BY <1>4, <1>6, <1>7, <1>8 DEF Next, Cancel, Finished, vars

(* The initial state satisfies the invariant.                              *)
LEMMA InitIInv == Init => IInv
<1> SUFFICES ASSUME Init PROVE IInv
  OBVIOUS
<1> USE BoundsAssumption DEF Init
<1>1. TypeOK
  <2>1. toolCalls \in Seq(Keys) /\ Len(toolCalls) =< MaxCalls
    OBVIOUS
  <2>2. outcomes \in Seq({"progress", "stuck"})
    OBVIOUS
  <2>3. i \in 1 .. MaxCalls + 1 /\ iterations \in 0 .. MaxIterations
        /\ failedSteps \in 0 .. MaxFailures
    OBVIOUS
  <2>4. QED
    BY <2>1, <2>2, <2>3 DEF TypeOK
<1>2. LoopShape /\ TranscriptPaired /\ EndsIdle
  BY DEF LoopShape, TranscriptPaired, EndsIdle, Open
<1>3. ReadsRemembered
  BY KeysAssumption DEF ReadsRemembered
<1>4. SuffixCounted /\ SpiralBounded
  BY DEF SuffixCounted, SpiralBounded
<1>5. QED
  BY <1>1, <1>2, <1>3, <1>4 DEF IInv

(* The invariant holds in every reachable state.                           *)
THEOREM InvariantHolds == Spec => []IInv
<1>1. IInv /\ [Next]_vars => IInv'
  BY TypeStep, ShapeStep, PairedStep, EndsStep, ReadsStep, SpiralStep DEF IInv
<1>2. QED
  BY <1>1, InitIInv, PTL DEF Spec

(* Every variable keeps its type; in particular the model is called at     *)
(* most MAX_ITERATIONS times.                                              *)
THEOREM TypeCorrect == Spec => []TypeOK
BY InvariantHolds, PTL DEF IInv

(* Every tool call the turn commits gets exactly one result, on every path *)
(* out of the loop; a client that goes away leaves open calls of the last  *)
(* step only.                                                              *)
THEOREM TranscriptAlwaysPaired == Spec => []TranscriptPaired
BY InvariantHolds, PTL DEF IInv

(* A turn that is not cut off ends with one terminal frame and an idle     *)
(* session.                                                                *)
THEOREM TurnEndsIdle == Spec => []EndsIdle
BY InvariantHolds, PTL DEF IInv

(* No read is dispatched twice between two writes.                         *)
THEOREM ReadsRunOnce == Spec => []NoRepeatedRead
<1>1. IInv => NoRepeatedRead
  BY DEF IInv, ReadsRemembered, NoRepeatedRead
<1>2. QED
  BY <1>1, InvariantHolds, PTL

(* MAX_CONSECUTIVE_TOOL_FAILURES fruitless steps in a row end the turn.    *)
THEOREM FailureSpiralBounded == Spec => []SpiralBounded
BY InvariantHolds, PTL DEF IInv

-----------------------------------------------------------------------------
(* ToolSets and X402Catalog.                                               *)

(* Nothing that was read is newer than the table.                          *)
NothingAhead ==
  /\ cache =< Version
  /\ \A p \in Procs : snapshot[p] =< Version
  /\ \A l \in Loads : load[l].rows =< Version /\ load[l].since =< Version

(* What a load has to show it has, or will have: until it reads, the       *)
(* cached list is as new, or there is none.                                *)
LoadsKeepUp ==
  \A l \in Loads :
    /\ load[l].pc = "get" => cache = Empty \/ cache >= load[l].since
    /\ load[l].pc \in {"store", "done"} => load[l].rows >= load[l].since

(* A turn has the tools it was given, built from a list of the table, and  *)
(* its calls went where these tools say.                                   *)
ToolsAsBuilt ==
  /\ built =< Version
  /\ turn.pc = "asking" =>
       offered = [tools |-> BuildAllTools(turn.bound), ids |-> EnabledResourceIds(built)]
  /\ \A c \in last :
       /\ turn.pc = "asking"
       /\ c.tool \in turn.bound \/ c.tool \notin ServerTools => c.went # "unbound"
       /\ c.tool = Fetch => c.url = ResolveResourceRequest(c.list, c.id)

(* The inductive invariant.                                                *)
ToolsIInv == ToolsTypeOK /\ NothingAhead /\ LoadsKeepUp /\ ToolsAsBuilt

(* The part of it that is about one load, in a table of v versions.        *)
LoadRecord ==
  [of : Procs, pc : {"idle", "del", "get", "query", "store", "done"}, rows : List, since : List]

LoadOK(x, v, c, running) ==
  /\ x \in LoadRecord
  /\ x.pc # "idle" => running[x.of] # "down"
  /\ x.rows =< v /\ x.since =< v
  /\ x.pc = "get" => c = Empty \/ c >= x.since
  /\ x.pc \in {"store", "done"} => x.rows # Empty /\ x.rows >= x.since

(* The rest of the catalog's part.                                         *)
TableOK ==
  /\ table \in Seq([Resources -> List]) /\ Len(table) \in 1 .. MaxEdits
  /\ cache \in 0 .. Version
  /\ proc \in [Procs -> {"down", "booting", "up"}]
  /\ snapshot \in [Procs -> 0 .. Version]

LoadsOK ==
  /\ load \in [Loads -> LoadRecord]
  /\ \A l \in Loads : LoadOK(load[l], Version, cache, proc)

(* The invariant, divided anew.                                            *)
LEMMA CatalogParts == CatalogTypeOK /\ NothingAhead /\ LoadsKeepUp <=> TableOK /\ LoadsOK
<1>1. MaxEdits \in Nat \ {0}
  BY EditsAssumption
<1>2. ASSUME CatalogTypeOK, NothingAhead, LoadsKeepUp PROVE TableOK /\ LoadsOK
  <2>1. TableOK
    BY <1>1, <1>2 DEF CatalogTypeOK, NothingAhead, TableOK, Version, List
  <2>2. LoadsOK
    BY <1>2 DEF CatalogTypeOK, NothingAhead, LoadsKeepUp, LoadsOK, LoadOK, LoadRecord
  <2>3. QED
    BY <2>1, <2>2
<1>3. ASSUME TableOK, LoadsOK PROVE CatalogTypeOK /\ NothingAhead /\ LoadsKeepUp
  <2>1. CatalogTypeOK
    BY <1>1, <1>3 DEF CatalogTypeOK, TableOK, LoadsOK, LoadOK, LoadRecord, Version, List
  <2>2. NothingAhead
    BY <1>3 DEF NothingAhead, TableOK, LoadsOK, LoadOK, Version
  <2>3. LoadsKeepUp
    BY <1>3 DEF LoadsKeepUp, LoadsOK, LoadOK
  <2>4. QED
    BY <2>1, <2>2, <2>3
<1>4. QED
  BY <1>2, <1>3

(* And in the next state.                                                  *)
LEMMA CatalogPartsNext ==
  (CatalogTypeOK /\ NothingAhead /\ LoadsKeepUp)' <=> TableOK' /\ LoadsOK'
BY CatalogParts, PTL

(* An idle load, field by field.                                           *)
LEMMA IdleIs ==
  \E q \in Procs : Idle = [of |-> q, pc |-> "idle", rows |-> Empty, since |-> 0]
<1> DEFINE q == CHOOSE p \in Procs : TRUE
<1>1. q \in Procs
  BY HostAssumption
<1>2. Idle = [of |-> q, pc |-> "idle", rows |-> Empty, since |-> 0]
  BY DEF Idle
<1>3. QED
  BY <1>1, <1>2

(* A record, field by field.                                               *)
LEMMA PcAndRows ==
  ASSUME NEW x \in LoadRecord, NEW a, NEW b
  PROVE  [x EXCEPT !.pc = a, !.rows = b]
           = [of |-> x.of, pc |-> a, rows |-> b, since |-> x.since]
<1> DEFINE y == [x EXCEPT !.pc = a]
<1>1. y = [of |-> x.of, pc |-> a, rows |-> x.rows, since |-> x.since]
  BY DEF LoadRecord
<1>2. [x EXCEPT !.pc = a, !.rows = b] = [y EXCEPT !.rows = b]
  OBVIOUS
<1> HIDE DEF y
<1>3. [y EXCEPT !.rows = b] = [of |-> x.of, pc |-> a, rows |-> b, since |-> x.since]
  BY <1>1
<1>4. QED
  BY <1>2, <1>3

(* Likewise.                                                               *)
LEMMA PcAndSince ==
  ASSUME NEW x \in LoadRecord, NEW a, NEW b
  PROVE  [x EXCEPT !.pc = a, !.since = b]
           = [of |-> x.of, pc |-> a, rows |-> x.rows, since |-> b]
<1> DEFINE y == [x EXCEPT !.pc = a]
<1>1. y = [of |-> x.of, pc |-> a, rows |-> x.rows, since |-> x.since]
  BY DEF LoadRecord
<1>2. [x EXCEPT !.pc = a, !.since = b] = [y EXCEPT !.since = b]
  OBVIOUS
<1> HIDE DEF y
<1>3. [y EXCEPT !.since = b] = [of |-> x.of, pc |-> a, rows |-> x.rows, since |-> b]
  BY <1>1
<1>4. QED
  BY <1>2, <1>3

(* A load that starts.                                                     *)
StartedAs(p, a, b) == [Idle EXCEPT !.of = p, !.pc = a, !.since = b]

(* Likewise.                                                               *)
LEMMA Started ==
  ASSUME NEW p, NEW a, NEW b
  PROVE  StartedAs(p, a, b)
           = [of |-> p, pc |-> a, rows |-> Empty, since |-> b]
<1>1. PICK q \in Procs : Idle = [of |-> q, pc |-> "idle", rows |-> Empty, since |-> 0]
  BY IdleIs
<1> DEFINE x == [Idle EXCEPT !.of = p]
           y == [x EXCEPT !.pc = a]
<1>2. x = [of |-> p, pc |-> "idle", rows |-> Empty, since |-> 0]
  BY <1>1
<1>3. StartedAs(p, a, b) = [y EXCEPT !.since = b]
  BY DEF StartedAs
<1> HIDE DEF x
<1>4. y = [of |-> p, pc |-> a, rows |-> Empty, since |-> 0]
  BY <1>2
<1> HIDE DEF y
<1>5. [y EXCEPT !.since = b] = [of |-> p, pc |-> a, rows |-> Empty, since |-> b]
  BY <1>4
<1>6. QED
  BY <1>3, <1>5

(* An idle load is fine in every state.                                    *)
LEMMA IdleOK ==
  ASSUME NEW v \in Nat, NEW c, NEW running
  PROVE  LoadOK(Idle, v, c, running) /\ Idle \in LoadRecord
BY HostAssumption, EditsAssumption DEF Idle, LoadOK, LoadRecord, List, Empty

(* The load of one call changes, and the rest of the state is as before or *)
(* keeps what the other loads need.                                        *)
LEMMA OneLoad ==
  ASSUME LoadsOK, NEW l \in Loads, NEW x, load' = [load EXCEPT ![l] = x],
         LoadOK(x, Version, cache', proc'), Version' = Version,
         \A m \in Loads \ {l} : LoadOK(load[m], Version, cache', proc')
  PROVE  LoadsOK'
<1>1. x \in LoadRecord
  BY DEF LoadOK
<1>2. load' \in [Loads -> LoadRecord]
  BY <1>1 DEF LoadsOK
<1>3. \A m \in Loads : load'[m] = IF m = l THEN x ELSE load[m]
  BY DEF LoadsOK
<1>4. \A m \in Loads : LoadOK(load'[m], Version', cache', proc')
  BY <1>3
<1>5. QED
  BY <1>2, <1>4 DEF LoadsOK

(* Every step of the catalog keeps its part.                               *)
LEMMA CatalogStep ==
  ASSUME TableOK, LoadsOK, CatalogNext
  PROVE  TableOK' /\ LoadsOK'
<1>a. MaxEdits \in Nat \ {0} /\ Version \in 1 .. MaxEdits /\ Version \in List /\ Empty = 0
  BY EditsAssumption DEF TableOK, Version, List, Empty
<1>b. \A m \in Loads : LoadOK(load[m], Version, cache, proc) /\ load[m] \in LoadRecord
  BY DEF LoadsOK
<1>1. ASSUME NEW r \in Resources, Edit(r) PROVE TableOK' /\ LoadsOK'
  <2>1. PICK url \in {Off, Version + 1} : table' = Append(table, [table[Version] EXCEPT ![r] = url])
    BY <1>1 DEF Edit
  <2>2. Version < MaxEdits /\ UNCHANGED <<cache, proc, snapshot, load>>
    BY <1>1 DEF Edit
  <2>3. url \in List /\ table[Version] \in [Resources -> List]
    BY <1>a, <2>2 DEF Off, List, TableOK, Version
  <2>4. [table[Version] EXCEPT ![r] = url] \in [Resources -> List]
    BY <2>3
  <2>5. table' \in Seq([Resources -> List]) /\ Len(table') = Len(table) + 1
    BY <2>1, <2>4 DEF TableOK
  <2>6. Version' = Version + 1 /\ Len(table') \in 1 .. MaxEdits
    BY <1>a, <2>2, <2>5 DEF Version
  <2>7. TableOK'
    BY <1>a, <2>2, <2>5, <2>6 DEF TableOK
  <2>8. \A m \in Loads : LoadOK(load[m], Version + 1, cache, proc)
    BY <1>a, <1>b DEF LoadOK, LoadRecord, List
  <2>9. QED
    BY <2>2, <2>6, <2>7, <2>8 DEF LoadsOK
<1>2. ASSUME NEW p \in Procs, Boot(p) PROVE TableOK' /\ LoadsOK'
  <2>1. PICK l \in Loads : load[l].pc = "idle" /\ Start(l, p, TRUE)
    BY <1>2 DEF Boot
  <2> DEFINE x == StartedAs(p, "get", 0)
  <2>2. /\ proc[p] = "down" /\ proc' = [proc EXCEPT ![p] = "booting"]
        /\ UNCHANGED <<table, cache, snapshot>> /\ load' = [load EXCEPT ![l] = x]
    BY <1>2, <2>1 DEF Boot, Start, StartedAs
  <2>3. TableOK' /\ Version' = Version
    BY <2>2 DEF TableOK, Version
  <2>4. x = [of |-> p, pc |-> "get", rows |-> Empty, since |-> 0]
    BY Started
  <2> HIDE DEF x
  <2>5. LoadOK(x, Version, cache', proc')
    BY <1>a, <2>2, <2>4 DEF LoadOK, LoadRecord, List, TableOK
  <2>6. \A m \in Loads : LoadOK(load[m], Version, cache', proc')
    BY <1>b, <2>2 DEF LoadOK, LoadRecord, TableOK
  <2> HIDE DEF x
  <2>7. QED
    BY <2>2, <2>3, <2>5, <2>6, OneLoad
<1>3. ASSUME NEW p \in Procs, Invalidate(p) PROVE TableOK' /\ LoadsOK'
  <2>1. PICK l \in Loads : load[l].pc = "idle" /\ Start(l, p, FALSE)
    BY <1>3 DEF Invalidate
  <2> DEFINE x == StartedAs(p, "del", Version)
  <2>2. /\ proc[p] = "up" /\ UNCHANGED <<table, cache, proc, snapshot>>
        /\ load' = [load EXCEPT ![l] = x]
    BY <1>3, <2>1 DEF Invalidate, Start, StartedAs
  <2>3. TableOK' /\ Version' = Version
    BY <2>2 DEF TableOK, Version
  <2>4. x = [of |-> p, pc |-> "del", rows |-> Empty, since |-> Version]
    BY Started
  <2> HIDE DEF x
  <2>5. LoadOK(x, Version, cache', proc')
    BY <1>a, <2>2, <2>4 DEF LoadOK, LoadRecord, List
  <2> HIDE DEF x
  <2>6. QED
    BY <1>b, <2>2, <2>3, <2>5, OneLoad
<1>4. ASSUME NEW p \in Procs, Crash(p) PROVE TableOK' /\ LoadsOK'
  <2>1. /\ proc' = [proc EXCEPT ![p] = "down"] /\ snapshot' = [snapshot EXCEPT ![p] = Empty]
        /\ load' = [l \in Loads |-> IF load[l].of = p THEN Idle ELSE load[l]]
        /\ UNCHANGED <<table, cache>>
    BY <1>4 DEF Crash, WithoutLoadsOf
  <2>2. TableOK' /\ Version' = Version
    BY <1>a, <2>1 DEF TableOK, Version
  <2>3. ASSUME NEW m \in Loads PROVE load'[m] \in LoadRecord /\ LoadOK(load'[m], Version, cache', proc')
    <3>1. CASE load[m].of = p
      BY <1>a, <2>1, <3>1, IdleOK
    <3>2. CASE load[m].of # p
      BY <1>b, <2>1, <3>2 DEF LoadOK, LoadRecord, TableOK
    <3>3. QED
      BY <3>1, <3>2
  <2>4. load' \in [Loads -> LoadRecord]
    BY <2>1, <2>3
  <2>5. QED
    BY <2>2, <2>3, <2>4 DEF LoadsOK
<1>5. ASSUME NEW l \in Loads, DropCached(l) PROVE TableOK' /\ LoadsOK'
  <2>1. load[l].pc = "del" /\ UNCHANGED <<table, proc, snapshot>> /\ Del(l)
    BY <1>5 DEF DropCached
  <2>2. PICK s \in {0, load[l].since} :
          /\ load' = [load EXCEPT ![l] = [@ EXCEPT !.pc = "get", !.since = s]]
          /\ \/ s = 0 /\ cache' = cache
             \/ s = load[l].since /\ cache' = Empty
    <3>1. CASE cache' = Empty /\ load' = Goto(l, "get")
      <4>1. load[l] = [load[l] EXCEPT !.since = load[l].since]
        BY <1>b DEF LoadRecord
      <4>2. load' = [load EXCEPT ![l] = [@ EXCEPT !.pc = "get", !.since = load[l].since]]
        BY <1>b, <3>1 DEF Goto, LoadRecord, LoadsOK
      <4>3. QED
        BY <3>1, <4>2
    <3>2. CASE cache' = cache /\ load' = [Goto(l, "get") EXCEPT ![l].since = 0]
      <4>1. load' = [load EXCEPT ![l] = [@ EXCEPT !.pc = "get", !.since = 0]]
        BY <3>2 DEF Goto, LoadsOK
      <4>2. QED
        BY <3>2, <4>1
    <3>3. QED
      BY <2>1, <3>1, <3>2 DEF Del
  <2> DEFINE x == [load[l] EXCEPT !.pc = "get", !.since = s]
  <2>3. load' = [load EXCEPT ![l] = x]
    BY <2>2
  <2>4. x \in LoadRecord /\ x.pc = "get" /\ x.since = s /\ x.of = load[l].of /\ x.rows = load[l].rows
    <3>1. x = [of |-> load[l].of, pc |-> "get", rows |-> load[l].rows, since |-> s]
      BY <1>b, PcAndSince
    <3>2. s \in List
      BY <1>a, <1>b, <2>2 DEF LoadRecord, List
    <3> HIDE DEF x
    <3>3. QED
      BY <1>b, <3>1, <3>2 DEF LoadRecord
  <2> HIDE DEF x
  <2>5. TableOK' /\ Version' = Version
    BY <1>a, <2>1, <2>2 DEF TableOK, Version
  <2>6. LoadOK(x, Version, cache', proc')
    BY <1>a, <1>b, <2>1, <2>2, <2>4, <2>5 DEF LoadOK, LoadRecord, List, TableOK
  <2>7. \A m \in Loads : LoadOK(load[m], Version, cache', proc')
    BY <1>b, <2>1, <2>2 DEF LoadOK
  <2> HIDE DEF x
  <2>8. QED
    BY <2>3, <2>5, <2>6, <2>7, OneLoad
<1>6. ASSUME NEW l \in Loads, ReadCached(l) PROVE TableOK' /\ LoadsOK'
  <2>1. load[l].pc = "get" /\ UNCHANGED <<table, cache, proc, snapshot>>
    BY <1>6 DEF ReadCached
  <2>2. TableOK' /\ Version' = Version
    BY <2>1 DEF TableOK, Version
  <2>3. CASE cache # Empty /\ load' = [Goto(l, "done") EXCEPT ![l].rows = cache]
    <3> DEFINE x == [load[l] EXCEPT !.pc = "done", !.rows = cache]
    <3>1. load' = [load EXCEPT ![l] = x]
      BY <2>3 DEF Goto, LoadsOK
    <3>0. x = [of |-> load[l].of, pc |-> "done", rows |-> cache, since |-> load[l].since]
      BY <1>b, PcAndRows
    <3>a. cache \in List /\ cache =< Version /\ LoadOK(load[l], Version, cache, proc)
      BY <1>a, <1>b DEF TableOK, List
    <3> HIDE DEF x
    <3>2. LoadOK(x, Version, cache', proc')
      BY <2>1, <2>3, <3>0, <3>a DEF LoadOK, LoadRecord
    <3> HIDE DEF x
    <3>3. QED
      BY <1>b, <2>1, <2>2, <3>1, <3>2, OneLoad
  <2>4. CASE load' = Goto(l, "query")
    <3> DEFINE x == [load[l] EXCEPT !.pc = "query"]
    <3>1. load' = [load EXCEPT ![l] = x]
      BY <2>4 DEF Goto, LoadsOK
    <3>2. LoadOK(x, Version, cache', proc')
      BY <1>b, <2>1 DEF LoadOK, LoadRecord
    <3> HIDE DEF x
    <3>3. QED
      BY <1>b, <2>1, <2>2, <3>1, <3>2, OneLoad
  <2>5. QED
    BY <1>6, <2>3, <2>4 DEF ReadCached
<1>7. ASSUME NEW l \in Loads, Query(l) PROVE TableOK' /\ LoadsOK'
  <2> DEFINE x == [load[l] EXCEPT !.pc = "store", !.rows = Version]
  <2>1. load[l].pc = "query" /\ UNCHANGED <<table, cache, proc, snapshot>>
    BY <1>7 DEF Query
  <2>2. TableOK' /\ Version' = Version
    BY <2>1 DEF TableOK, Version
  <2>3. load' = [load EXCEPT ![l] = x]
    BY <1>7 DEF Goto, LoadsOK, Query
  <2>0. x = [of |-> load[l].of, pc |-> "store", rows |-> Version, since |-> load[l].since]
    BY <1>b, PcAndRows
  <2>a. LoadOK(load[l], Version, cache, proc) /\ Version # Empty /\ Version =< Version
    BY <1>a, <1>b
  <2> HIDE DEF x
  <2>4. LoadOK(x, Version, cache', proc')
    BY <1>a, <2>0, <2>1, <2>a DEF LoadOK, LoadRecord
  <2> HIDE DEF x
  <2>5. QED
    BY <1>b, <2>1, <2>2, <2>3, <2>4, OneLoad
<1>8. ASSUME NEW l \in Loads, Store(l) PROVE TableOK' /\ LoadsOK'
  <2>1. load[l].pc = "store" /\ UNCHANGED <<table, proc, snapshot>>
    BY <1>8 DEF Store
  <2>2. CASE cache' = cache /\ load' = Goto(l, "done")
    <3> DEFINE x == [load[l] EXCEPT !.pc = "done"]
    <3>1. load' = [load EXCEPT ![l] = x]
      BY <2>2 DEF Goto, LoadsOK
    <3>2. LoadOK(x, Version, cache', proc')
      BY <1>b, <2>1 DEF LoadOK, LoadRecord
    <3>3. TableOK' /\ Version' = Version
      BY <2>1, <2>2 DEF TableOK, Version
    <3> HIDE DEF x
    <3>4. QED
      BY <1>b, <2>1, <2>2, <3>1, <3>2, <3>3, OneLoad
  <2>3. CASE /\ cache' = load[l].rows
             /\ load' = [m \in Loads |->
                           IF m = l THEN [load[l] EXCEPT !.pc = "done"]
                           ELSE IF load[m].pc = "get" /\ load[l].rows < load[m].since
                           THEN [load[m] EXCEPT !.since = 0]
                           ELSE load[m]]
    <3>1. TableOK' /\ Version' = Version
      BY <1>b, <2>1, <2>3 DEF TableOK, Version, LoadOK, LoadRecord, List
    <3>2. ASSUME NEW m \in Loads PROVE LoadOK(load'[m], Version, cache', proc')
      <4>1. LoadOK(load[m], Version, cache, proc) /\ LoadOK(load[l], Version, cache, proc)
        BY <1>b
      <4>2. CASE m = l
        <5>1. load'[m] = [load[l] EXCEPT !.pc = "done"]
          BY <2>3, <4>2
        <5>2. QED
          BY <2>1, <4>1, <5>1 DEF LoadOK, LoadRecord
      <4>3. CASE m # l /\ load[m].pc = "get" /\ load[l].rows < load[m].since
        <5>1. load'[m] = [load[m] EXCEPT !.since = 0]
          BY <2>3, <4>3
        <5>2. QED
          BY <1>a, <2>1, <2>3, <4>1, <4>3, <5>1 DEF LoadOK, LoadRecord, List
      <4>4. CASE m # l /\ ~ (load[m].pc = "get" /\ load[l].rows < load[m].since)
        <5>1. load'[m] = load[m]
          BY <2>3, <4>4
        <5>2. QED
          BY <1>a, <2>1, <2>3, <4>1, <4>4, <5>1 DEF LoadOK, LoadRecord, List
      <4>5. QED
        BY <4>2, <4>3, <4>4
    <3>3. load' \in [Loads -> LoadRecord]
      BY <2>3, <3>2 DEF LoadOK
    <3>4. QED
      BY <3>1, <3>2, <3>3 DEF LoadsOK
  <2>4. QED
    BY <1>8, <2>2, <2>3 DEF Store
<1>9. ASSUME NEW l \in Loads, Return(l), snapshot' \in [Procs -> 0 .. Version], UNCHANGED <<table, cache>>
      PROVE  TableOK' /\ LoadsOK'
  <2>1. proc' = [proc EXCEPT ![load[l].of] = "up"] /\ load' = [load EXCEPT ![l] = Idle]
    BY <1>9 DEF Return
  <2>2. TableOK' /\ Version' = Version
    BY <1>9, <2>1 DEF TableOK, Version
  <2>3. \A m \in Loads : LoadOK(load[m], Version, cache', proc')
    BY <1>b, <1>9, <2>1 DEF LoadOK, LoadRecord, TableOK
  <2>4. LoadOK(Idle, Version, cache', proc')
    BY <1>a, IdleOK
  <2> DEFINE x == Idle
  <2>5. LoadOK(x, Version, cache', proc') /\ load' = [load EXCEPT ![l] = x]
    BY <2>1, <2>4
  <2> HIDE DEF x
  <2>6. QED
    BY <2>2, <2>3, <2>5, OneLoad
<1>10. ASSUME NEW l \in Loads, Warm(l) PROVE TableOK' /\ LoadsOK'
  <2>1. snapshot' = [snapshot EXCEPT ![load[l].of] = load[l].rows]
    BY <1>10 DEF Warm
  <2>2. load[l].rows \in 0 .. Version
    BY <1>a, <1>b DEF LoadOK, LoadRecord, List
  <2>3. snapshot' \in [Procs -> 0 .. Version]
    BY <2>1, <2>2 DEF TableOK
  <2>4. QED
    BY <1>9, <1>10, <2>3 DEF Warm
<1>11. ASSUME NEW l \in Loads, LoadFails(l) PROVE TableOK' /\ LoadsOK'
  BY <1>9, <1>11 DEF LoadFails, LastGood, TableOK
<1>12. ASSUME Expire PROVE TableOK' /\ LoadsOK'
  <2>1. cache' = Empty /\ UNCHANGED <<table, proc, snapshot, load>>
    BY <1>12 DEF Expire
  <2>2. TableOK' /\ Version' = Version
    BY <1>a, <2>1 DEF TableOK, Version
  <2>3. \A m \in Loads : LoadOK(load[m], Version, cache', proc')
    BY <1>b, <2>1 DEF LoadOK
  <2>4. QED
    BY <1>b, <2>1, <2>2, <2>3 DEF LoadsOK
<1>13. QED
  BY <1>1, <1>2, <1>3, <1>4, <1>5, <1>6, <1>7, <1>8, <1>10, <1>11, <1>12 DEF CatalogNext, LoadStep

(* What a catalog step leaves as it was: the versions there are, and a     *)
(* process that is up until it goes down.                                  *)
LEMMA CatalogKeeps ==
  ASSUME TableOK, LoadsOK, CatalogNext
  PROVE  /\ \A v \in 1 .. Version : table'[v] = table[v]
         /\ Version =< Version'
         /\ \A p \in Procs : proc[p] = "up" => proc'[p] \in {"up", "down"}
<1>a. \A l \in Loads : load[l].of \in Procs
  BY DEF LoadsOK, LoadRecord
<1>b. Version \in Nat
  BY DEF TableOK, Version
<1>1. ASSUME NEW r \in Resources, Edit(r)
      PROVE  (\A v \in 1 .. Version : table'[v] = table[v]) /\ Version =< Version' /\ proc' = proc
  <2>1. PICK url \in {Off, Version + 1} : table' = Append(table, [table[Version] EXCEPT ![r] = url])
    BY <1>1 DEF Edit
  <2> DEFINE row == [table[Version] EXCEPT ![r] = url]
  <2>2. Version < MaxEdits /\ url \in List /\ table[Version] \in [Resources -> List]
    BY <1>1, EditsAssumption DEF Edit, Off, List, TableOK, Version
  <2>3. row \in [Resources -> List] /\ table' = Append(table, row) /\ table \in Seq([Resources -> List])
    BY <2>1, <2>2 DEF TableOK
  <2> HIDE DEF row
  <2>4. Len(table') = Len(table) + 1 /\ \A v \in 1 .. Len(table) : table'[v] = table[v]
    BY <2>3
  <2>5. QED
    BY <1>1, <1>b, <2>4 DEF Edit, Version
<1>2. ASSUME UNCHANGED table
      PROVE  (\A v \in 1 .. Version : table'[v] = table[v]) /\ Version =< Version'
  BY <1>2, <1>b DEF Version
<1>3. ASSUME NEW p \in Procs, Boot(p) \/ Invalidate(p) \/ Crash(p)
      PROVE  UNCHANGED table /\ \A q \in Procs : proc[q] = "up" => proc'[q] \in {"up", "down"}
  BY <1>3 DEF Boot, Invalidate, Crash, TableOK
<1>4. ASSUME NEW l \in Loads, LoadStep(l)
      PROVE  UNCHANGED table /\ \A q \in Procs : proc[q] = "up" => proc'[q] \in {"up", "down"}
  <2>1. ASSUME Return(l) PROVE \A q \in Procs : proc[q] = "up" => proc'[q] \in {"up", "down"}
    BY <1>a, <2>1 DEF Return, TableOK
  <2>2. QED
    BY <1>4, <2>1 DEF LoadStep, DropCached, ReadCached, Query, Store, Warm, LoadFails
<1>5. Expire => UNCHANGED <<table, proc>>
  BY DEF Expire
<1>6. QED
  BY <1>1, <1>2, <1>3, <1>4, <1>5 DEF CatalogNext

(* The part of the invariant that is about the turn.                       *)
TurnOK ==
  /\ turn \in [pc : {"none", "asking"}, bound : SUBSET ServerTools]
  /\ offered \in [tools : SUBSET Registry, ids : SUBSET Resources]
  /\ built \in List
  /\ last \subseteq Call
  /\ turn.pc = "asking" => proc[Host] = "up"
  /\ ToolsAsBuilt

(* The invariant is its three parts ...                                    *)
LEMMA ToolsParts == ToolsIInv <=> TableOK /\ LoadsOK /\ TurnOK
BY CatalogParts DEF ToolsIInv, ToolsTypeOK, TurnOK

(* ... in the next state too.                                              *)
LEMMA ToolsPartsNext == ToolsIInv' <=> TableOK' /\ LoadsOK' /\ TurnOK'
BY ToolsParts, PTL

(* It holds at first ...                                                   *)
LEMMA InitToolsIInv == ToolsInit => ToolsIInv
<1> SUFFICES ASSUME ToolsInit PROVE TableOK /\ LoadsOK /\ TurnOK
  BY ToolsParts
<1>a. MaxEdits \in Nat \ {0} /\ Empty = 0 /\ List = 0 .. MaxEdits
  BY EditsAssumption DEF Empty, List
<1>1. table \in Seq([Resources -> List]) /\ Len(table) = 1 /\ Version = 1
  <2>1. [r \in Resources |-> 1] \in [Resources -> List]
    BY <1>a
  <2>2. QED
    BY <2>1 DEF ToolsInit, CatalogInit, Version
<1>2. TableOK
  BY <1>a, <1>1 DEF ToolsInit, CatalogInit, TableOK
<1>3. LoadsOK
  BY <1>1, IdleOK DEF ToolsInit, CatalogInit, LoadsOK
<1>4. TurnOK
  BY <1>a, <1>1 DEF ToolsInit, TurnOK, NoTurn, NoTools, ToolsAsBuilt
<1>5. QED
  BY <1>2, <1>3, <1>4

(* ... and every step keeps it.                                            *)
LEMMA ToolsStep ==
  ASSUME ToolsIInv, [ToolsNext]_toolSetVars
  PROVE  ToolsIInv'
<1> SUFFICES TableOK' /\ LoadsOK' /\ TurnOK'
  BY ToolsPartsNext
<1>a. TableOK /\ LoadsOK /\ TurnOK
  BY ToolsParts
<1>b. MaxEdits \in Nat \ {0} /\ Empty = 0 /\ List = 0 .. MaxEdits /\ Version \in 1 .. MaxEdits
  BY <1>a, EditsAssumption DEF Empty, List, TableOK, Version
<1>c. Host \in Procs /\ snapshot[Host] \in 0 .. Version
  BY <1>a, HostAssumption DEF TableOK
<1>d. ASSUME UNCHANGED catalogVars PROVE TableOK' /\ LoadsOK' /\ Version' = Version /\ table' = table /\ proc' = proc
  BY <1>a, <1>d DEF catalogVars, TableOK, LoadsOK, Version, LoadOK
<1>1. CASE Catalog
  <2>1. CatalogNext /\ last' = {}
    BY <1>1 DEF Catalog
  <2>2. /\ \A v \in 1 .. Version : table'[v] = table[v]
        /\ Version =< Version' /\ Version' \in Nat
        /\ proc[Host] = "up" => proc'[Host] \in {"up", "down"}
    BY <1>a, <1>c, <2>1, CatalogKeeps, CatalogStep DEF TableOK, Version
  <2>3. CASE proc'[Host] = "down"
    <3>1. turn' = NoTurn /\ offered' = NoTools /\ built' = Empty
      BY <1>1, <2>3 DEF Catalog
    <3>2. QED
      BY <1>a, <1>b, <2>1, <2>2, <3>1, CatalogStep DEF TurnOK, ToolsAsBuilt, NoTurn, NoTools
  <2>4. CASE proc'[Host] # "down"
    <3>1. UNCHANGED <<turn, offered, built>>
      BY <1>1, <2>4 DEF Catalog
    <3>2. built \in 0 .. Version
      BY <1>a, <1>b DEF TurnOK, ToolsAsBuilt
    <3>3. EnabledResourceIds(built)' = EnabledResourceIds(built)
      <4>1. built # 0 => table'[built] = table[built]
        BY <1>b, <2>2, <3>2
      <4>2. QED
        BY <1>b, <3>1, <4>1 DEF EnabledResourceIds
    <3>4. BuildAllTools(turn.bound)' = BuildAllTools(turn.bound)
      BY <3>1 DEF BuildAllTools
    <3>5. ToolsAsBuilt'
      BY <1>a, <1>b, <2>1, <2>2, <3>1, <3>2, <3>3, <3>4 DEF TurnOK, ToolsAsBuilt
    <3>6. QED
      BY <1>a, <2>1, <2>2, <2>4, <3>1, <3>5, CatalogStep DEF TurnOK
  <2>5. QED
    BY <2>3, <2>4
<1>2. CASE StartTurn
  <2>1. PICK bound \in GetMcpTools :
          /\ turn' = [pc |-> "asking", bound |-> bound]
          /\ offered' = [tools |-> BuildAllTools(bound), ids |-> WithResourceEnum(snapshot[Host])]
    BY <1>2 DEF StartTurn
  <2>2. proc[Host] = "up" /\ built' = snapshot[Host] /\ last' = {} /\ UNCHANGED catalogVars
    BY <1>2 DEF StartTurn
  <2>3. bound \subseteq ServerTools
    BY DEF GetMcpTools
  <2>4. BuildAllTools(bound) \subseteq Registry
    BY <2>3 DEF BuildAllTools, Registry
  <2>5. WithResourceEnum(snapshot[Host]) = EnabledResourceIds(snapshot[Host])
        /\ EnabledResourceIds(snapshot[Host]) \subseteq Resources
    BY DEF WithResourceEnum, EnabledResourceIds
  <2>6. EnabledResourceIds(built)' = EnabledResourceIds(snapshot[Host])
        /\ BuildAllTools(turn.bound)' = BuildAllTools(bound)
    BY <1>d, <2>1, <2>2 DEF EnabledResourceIds, BuildAllTools
  <2>7. ToolsAsBuilt'
    BY <1>c, <1>d, <2>1, <2>2, <2>5, <2>6 DEF ToolsAsBuilt
  <2>8. QED
    BY <1>b, <1>c, <1>d, <2>1, <2>2, <2>3, <2>4, <2>5, <2>7 DEF TurnOK
<1>3. ASSUME NEW tool \in Names, NEW id \in Resources \cup {Stranger}, MakeCall(tool, id)
      PROVE  TableOK' /\ LoadsOK' /\ TurnOK'
  <2> DEFINE c == [tool |-> tool, id |-> id, list |-> snapshot[Host],
                   went |-> Executor(tool), url |-> UrlOf(tool, id)]
  <2>1. turn.pc = "asking" /\ last' = {c} /\ UNCHANGED <<catalogVars, turn, offered, built>>
    BY <1>3 DEF MakeCall
  <2>2. Executor(tool) \in {"server", "unbound", "wallet"}
        /\ (tool \in turn.bound \/ tool \notin ServerTools => Executor(tool) # "unbound")
    BY <1>a DEF Executor, TurnOK
  <2>3. ResolveResourceRequest(snapshot[Host], id) \in List
    <3>1. id \in EnabledResourceIds(snapshot[Host]) =>
            id \in Resources /\ table[snapshot[Host]] \in [Resources -> List]
      BY <1>a, <1>b, <1>c DEF EnabledResourceIds, TableOK, Version
    <3>2. QED
      BY <1>b, <3>1 DEF ResolveResourceRequest, Unresolved, Off
  <2>4. UrlOf(tool, id) \in List
    BY <1>b, <2>3 DEF UrlOf, Unresolved, Off
  <2>5. c \in Call
    BY <1>b, <1>c, <2>2, <2>4 DEF Call
  <2>6. /\ c.tool \in turn.bound \/ c.tool \notin ServerTools => c.went # "unbound"
        /\ c.tool = Fetch => c.url = ResolveResourceRequest(c.list, c.id)
    BY <2>2 DEF UrlOf
  <2> HIDE DEF c
  <2>7. \A d : ResolveResourceRequest(d.list, d.id)' = ResolveResourceRequest(d.list, d.id)
    BY <1>d, <2>1 DEF ResolveResourceRequest, EnabledResourceIds
  <2>8. EnabledResourceIds(built)' = EnabledResourceIds(built)
        /\ BuildAllTools(turn.bound)' = BuildAllTools(turn.bound)
    BY <1>d, <2>1 DEF EnabledResourceIds, BuildAllTools
  <2>9. ToolsAsBuilt'
    BY <1>a, <1>d, <2>1, <2>6, <2>7, <2>8 DEF ToolsAsBuilt, TurnOK
  <2>10. QED
    BY <1>a, <1>d, <2>1, <2>5, <2>9 DEF TurnOK
<1>4. CASE EndTurn
  <2>1. turn' = NoTurn /\ offered' = NoTools /\ built' = Empty /\ last' = {} /\ UNCHANGED catalogVars
    BY <1>4 DEF EndTurn
  <2>2. QED
    BY <1>b, <1>d, <2>1 DEF TurnOK, ToolsAsBuilt, NoTurn, NoTools
<1>5. CASE UNCHANGED toolSetVars
  <2>1. UNCHANGED <<catalogVars, turn, offered, built, last>>
    BY <1>5 DEF toolSetVars, toolVars
  <2>2. ToolsAsBuilt' <=> ToolsAsBuilt
    BY <1>d, <2>1 DEF ToolsAsBuilt, EnabledResourceIds, BuildAllTools, ResolveResourceRequest
  <2>3. QED
    BY <1>a, <1>d, <2>1, <2>2 DEF TurnOK
<1>6. QED
  BY <1>1, <1>2, <1>3, <1>4, <1>5 DEF ToolsNext, Names, Registry

(* In every reachable state the loads keep up and the tools are as built.  *)
THEOREM ToolsInvariant == ToolsSpec => []ToolsIInv
<1>1. ToolsIInv /\ [ToolsNext]_toolSetVars => ToolsIInv'
  BY ToolsStep
<1>2. QED
  BY <1>1, InitToolsIInv, PTL DEF ToolsSpec

(* Every variable keeps its type, and no load outlives its process.        *)
THEOREM ToolsTypes == ToolsSpec => []ToolsTypeOK
<1>1. ToolsIInv => ToolsTypeOK
  BY DEF ToolsIInv
<1>2. QED
  BY <1>1, ToolsInvariant, PTL

(* A tool that a turn was offered is run, and a resource it was offered    *)
(* resolves to the URL of the moment, until the snapshot is replaced.      *)
THEOREM OfferedAlwaysWorks == ToolsSpec => []OfferedWorks
<1>1. ToolsIInv => OfferedWorks
  <2> SUFFICES ASSUME ToolsIInv, NEW c \in last
               PROVE  /\ c.tool \in offered.tools => c.went # "unbound"
                      /\ c.tool = Fetch /\ c.id \in offered.ids /\ c.list = built
                           => c.url # Unresolved /\ c.url = table[built][c.id]
    BY DEF OfferedWorks
  <2>1. /\ turn.pc = "asking"
        /\ offered = [tools |-> BuildAllTools(turn.bound), ids |-> EnabledResourceIds(built)]
        /\ c.tool \in turn.bound \/ c.tool \notin ServerTools => c.went # "unbound"
        /\ c.tool = Fetch => c.url = ResolveResourceRequest(c.list, c.id)
    BY DEF ToolsIInv, ToolsAsBuilt
  <2>2. c.tool \in offered.tools => c.tool \in turn.bound \/ c.tool \notin ServerTools
    BY <2>1, ExecutorsAssumption DEF BuildAllTools
  <2>3. c.tool = Fetch /\ c.id \in offered.ids /\ c.list = built
          => c.url = table[built][c.id] /\ table[built][c.id] # Unresolved
    BY <2>1 DEF ResolveResourceRequest, EnabledResourceIds, Unresolved
  <2>4. QED
    BY <2>1, <2>2, <2>3
<1>2. QED
  BY <1>1, ToolsInvariant, PTL

(* An invalidation that runs through shows the table as it was when it was *)
(* called, or newer, for any processes and any loads between its steps.    *)
THEOREM InvalidationsShow == ToolsSpec => InvalidateShows
<1> DEFINE Shows ==
      \A l \in Loads :
        load[l].pc = "done" /\ load'[l].pc = "idle" /\ proc'[load[l].of] # "down"
          => snapshot'[load[l].of] >= load[l].since
<1>1. ToolsIInv /\ [ToolsNext]_toolSetVars => [Shows]_catalogVars
  <2> SUFFICES ASSUME ToolsIInv, [ToolsNext]_toolSetVars, catalogVars' # catalogVars,
                      NEW l \in Loads, load[l].pc = "done", load'[l].pc = "idle",
                      proc'[load[l].of] # "down"
               PROVE  snapshot'[load[l].of] >= load[l].since
    OBVIOUS
  <2>1. TableOK /\ LoadsOK
    BY ToolsParts
  <2>2. /\ load[l] \in LoadRecord /\ load[l].of \in Procs
        /\ load[l].rows >= load[l].since
    BY <2>1 DEF LoadsOK, LoadOK, LoadRecord
  <2>3. CatalogNext
    BY DEF ToolsNext, Catalog, StartTurn, MakeCall, EndTurn, toolSetVars
  <2>4. ASSUME load'[l] = load[l] PROVE FALSE
    BY <2>4
  <2>5. ASSUME NEW m \in Loads, m # l, NEW x, load' = [load EXCEPT ![m] = x] PROVE FALSE
    BY <2>1, <2>4, <2>5 DEF LoadsOK
  <2>6. ASSUME NEW r \in Resources, Edit(r) PROVE FALSE
    BY <2>4, <2>6 DEF Edit
  <2>7. ASSUME NEW p \in Procs, Boot(p) \/ Invalidate(p) PROVE FALSE
    <3>1. PICK m \in Loads, boot \in BOOLEAN : load[m].pc = "idle" /\ Start(m, p, boot)
      BY <2>7 DEF Boot, Invalidate
    <3>2. m # l
      BY <3>1
    <3>3. QED
      BY <2>5, <3>1, <3>2 DEF Start
  <2>8. ASSUME NEW p \in Procs, Crash(p) PROVE FALSE
    <3>1. load'[l] = IF load[l].of = p THEN Idle ELSE load[l]
      BY <2>8 DEF Crash, WithoutLoadsOf
    <3>2. load[l].of = p
      BY <2>4, <3>1
    <3>3. proc'[p] = "down"
      BY <2>1, <2>8 DEF Crash, TableOK
    <3>4. QED
      BY <3>2, <3>3
  <2>9. ASSUME Expire PROVE FALSE
    BY <2>4, <2>9 DEF Expire
  <2>10. ASSUME NEW m \in Loads, LoadStep(m) PROVE m = l /\ Warm(l)
    <3>1. ASSUME m # l PROVE FALSE
      <4>1. CASE Store(m)
        <5>1. load'[l] = load[l] \/ load' = Goto(m, "done")
          BY <2>1, <3>1, <4>1 DEF Store, LoadsOK
        <5>2. QED
          BY <2>4, <2>5, <3>1, <5>1 DEF Goto
      <4>2. CASE DropCached(m) \/ ReadCached(m) \/ Query(m)
        <5>1. load'[l] = load[l]
          BY <2>1, <3>1, <4>2 DEF DropCached, Del, ReadCached, Query, Goto, LoadsOK
        <5>2. QED
          BY <2>4, <5>1
      <4>3. CASE Warm(m) \/ LoadFails(m)
        BY <2>5, <3>1, <4>3 DEF Warm, LoadFails, Return
      <4>4. QED
        BY <2>10, <4>1, <4>2, <4>3 DEF LoadStep
    <3>2. QED
      BY <2>10, <3>1 DEF LoadStep, DropCached, ReadCached, Query, Store, LoadFails
  <2>11. Warm(l)
    BY <2>3, <2>6, <2>7, <2>8, <2>9, <2>10 DEF CatalogNext
  <2>12. snapshot'[load[l].of] = load[l].rows
    BY <2>1, <2>2, <2>11 DEF Warm, TableOK
  <2>13. QED
    BY <2>2, <2>12
<1>2. QED
  BY <1>1, ToolsInvariant, PTL DEF ToolsSpec, InvalidateShows

=============================================================================
