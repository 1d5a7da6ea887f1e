------------------------- MODULE OrchestratorProofs -------------------------
(***************************************************************************)
(* Proofs about Orchestrator for every set of specialists, every plan a    *)
(* model may return and every MAX_COORDINATION_HOPS; and about TaskStore,  *)
(* for every number of callers, tasks, conversations and readers: that it  *)
(* implements TaskContract when a task has one driver.                     *)
(***************************************************************************)
EXTENDS Orchestrator, TaskStore, FiniteSetTheorems, TLAPS

(* What the two guard sets of orchestrate remember of the runs so far: a   *)
(* run of an earlier hop has spent its specialist, and every step run is   *)
(* in `delegated`.                                                         *)
RunsRemembered ==
  /\ hop \in Nat
  /\ \A r \in runs :
       /\ r = <<r[1], r[2]>>
       /\ r[1] \in Nat /\ r[1] =< hop
       /\ r[2] \in delegated
       /\ r[1] < hop => r[2][1] \in ranInPriorHop
       /\ r[1] = hop => pc # "core" /\ r[2][1] \in ranThisHop

(* The stream is closed exactly when the turn is.                          *)
IInv == RunsRemembered /\ OneHopPerSpecialist /\ OneFrame

LEMMA InitIInv == Init => IInv
BY DEF Init, IInv, RunsRemembered, OneHopPerSpecialist, OneFrame

(* The first frame of a turn.                                              *)
LEMMA FirstFrames ==
  ASSUME frames = <<>>
  PROVE  /\ \A f \in {"done", "error"} : Append(frames, f) = <<f>>
         /\ frames \o <<"error", "done">> = <<"error", "done">>
OBVIOUS

(* A step that is delegated now was not run before, and its specialist ran *)
(* in this hop only.                                                       *)
LEMMA DelegateStep ==
  ASSUME RunsRemembered, OneHopPerSpecialist, NEW s, ~Skipped(s), Delegate(s),
         hop' = hop, ranInPriorHop' = ranInPriorHop, pc' # "core"
  PROVE  RunsRemembered' /\ OneHopPerSpecialist'
<1>1. runs' = runs \cup {<<hop, s>>} /\ delegated' = delegated \cup {s}
      /\ ranThisHop' = ranThisHop \cup {s[1]}
  BY DEF Delegate
<1>2. s \notin delegated /\ s[1] \notin ranInPriorHop
  BY DEF Skipped
<1>3. RunsRemembered'
  BY <1>1 DEF RunsRemembered
<1>4. \A r \in runs : r[2] # s /\ (r[2][1] = s[1] => r[1] = hop)
  BY <1>2 DEF RunsRemembered
<1>5. OneHopPerSpecialist'
  BY <1>1, <1>4 DEF OneHopPerSpecialist
<1>6. QED
  BY <1>3, <1>5

LEMMA StepIInv == IInv /\ [Next]_vars => IInv'
<1> SUFFICES ASSUME IInv, [Next]_vars PROVE IInv'
  OBVIOUS
<1>1. RunsRemembered /\ OneHopPerSpecialist /\ OneFrame
  BY DEF IInv
<1>2. CASE UNCHANGED vars
  BY <1>1, <1>2 DEF vars, IInv, RunsRemembered, OneHopPerSpecialist, OneFrame
<1>3. ASSUME NEW calls, CoreAnswers(calls) PROVE IInv'
  BY <1>1, <1>3 DEF CoreAnswers, coreVars, Emit, IInv, RunsRemembered,
     OneHopPerSpecialist, OneFrame
<1>4. ASSUME NEW calls, CoreRoutes(calls) PROVE IInv'
  BY <1>1, <1>4 DEF CoreRoutes, coreVars, IInv, RunsRemembered, OneHopPerSpecialist,
     OneFrame
<1>5. CASE CoreFails \/ HopCapReached
  <2>1. RunsRemembered' /\ OneHopPerSpecialist'
    BY <1>1, <1>5 DEF CoreFails, HopCapReached, coreVars,
       RunsRemembered, OneHopPerSpecialist
  <2>2. OneFrame'
    BY <1>1, <1>5, FirstFrames DEF CoreFails, HopCapReached, coreVars,
       Emit, OneFrame
  <2>3. QED
    BY <2>1, <2>2 DEF IInv
<1>6. CASE SkipStep \/ NothingRan
  <2>1. RunsRemembered' /\ OneHopPerSpecialist'
    BY <1>1, <1>6 DEF SkipStep, NothingRan, stepVars,
       RunsRemembered, OneHopPerSpecialist
  <2>2. OneFrame'
    BY <1>1, <1>6, FirstFrames DEF SkipStep, NothingRan, stepVars,
       Emit, OneFrame
  <2>3. QED
    BY <2>1, <2>2 DEF IInv
<1>7. CASE StartSpecialist
  <2>1. RunsRemembered' /\ OneHopPerSpecialist'
    BY <1>1, <1>7, DelegateStep DEF StartSpecialist, stepVars
  <2>2. OneFrame'
    BY <1>1, <1>7 DEF StartSpecialist, OneFrame
  <2>3. QED
    BY <2>1, <2>2 DEF IInv
<1>8. CASE SpecialistUnavailable
  <2>1. RunsRemembered' /\ OneHopPerSpecialist'
    BY <1>1, <1>8, DelegateStep DEF SpecialistUnavailable, stepVars
  <2>2. OneFrame'
    BY <1>1, <1>8 DEF SpecialistUnavailable, Emit, OneFrame
  <2>3. QED
    BY <2>1, <2>2 DEF IInv
<1>9. CASE Cut
  BY <1>1, <1>9 DEF Cut, stepVars, IInv,
     RunsRemembered, OneHopPerSpecialist, OneFrame
<1>10. CASE SpecialistDone \/ SpecialistErrs
  <2>1. RunsRemembered' /\ OneHopPerSpecialist'
    BY <1>1, <1>10 DEF SpecialistDone, SpecialistErrs, SwallowDone, stepVars,
       RunsRemembered, OneHopPerSpecialist
  <2>2. OneFrame'
    BY <1>1, <1>10, FirstFrames DEF SpecialistDone, SpecialistErrs, SwallowDone, stepVars,
       Emit, OneFrame
  <2>3. QED
    BY <2>1, <2>2 DEF IInv
<1>11. CASE NextHop
  <2>1. RunsRemembered'
    BY <1>1, <1>11 DEF NextHop, RunsRemembered
  <2>2. OneHopPerSpecialist' /\ OneFrame'
    BY <1>1, <1>11 DEF NextHop, OneHopPerSpecialist, OneFrame
  <2>3. QED
    BY <2>1, <2>2 DEF IInv
<1>12. QED
  BY <1>2, <1>3, <1>4, <1>5, <1>6, <1>7, <1>8, <1>9, <1>10, <1>11
     DEF Next, CoreStep, PlanStep, SpecialistEnds, Finished

(* The invariant holds in every reachable state.                           *)
THEOREM InvariantHolds == Spec => []IInv
BY InitIInv, StepIInv, PTL DEF Spec

(* Whatever Core hands off, a specialist runs in one hop of a turn and     *)
(* never twice for one brief.                                              *)
THEOREM SpecialistsRunInOneHop == Spec => []OneHopPerSpecialist
BY InvariantHolds, PTL DEF IInv

(* The client gets one closing frame, and only at the end of the turn;     *)
(* two ("error" then "done") only when Core's own model call fails.        *)
THEOREM OneClosingFrame == Spec => []OneFrame
BY InvariantHolds, PTL DEF IInv

-----------------------------------------------------------------------------
(* No step of a plan is lost.                                              *)

(* Ranks number the members of a finite set of integers without gaps or    *)
(* repeats, so InOrder passes none of them over.                           *)
LEMMA RanksDiffer ==
  ASSUME NEW S, IsFiniteSet(S), S \subseteq Int, NEW n \in S, NEW m \in S, m < n
  PROVE  Rank(m, S) # Rank(n, S)
<1> DEFINE Upto(k) == {i \in S : i =< k}
<1>1. IsFiniteSet(Upto(n)) /\ m \in Int /\ n \in Int
  BY FS_Subset
<1>2. Upto(m) \subseteq Upto(n) /\ n \in Upto(n) /\ n \notin Upto(m)
  <2>1. \A i \in S : i \in Int /\ (i =< m => i =< n)
    BY <1>1
  <2>2. Upto(m) \subseteq Upto(n)
    BY <2>1
  <2>3. n =< n /\ ~(n =< m)
    BY <1>1
  <2>4. QED
    BY <2>2, <2>3
<1>3. Cardinality(Upto(n)) # Cardinality(Upto(m))
  BY <1>1, <1>2, FS_Subset
<1>4. QED
  BY <1>3 DEF Rank

LEMMA RankIn ==
  ASSUME NEW S, IsFiniteSet(S), S \subseteq Int, NEW n \in S
  PROVE  Rank(n, S) \in 1 .. Cardinality(S)
<1>1. {m \in S : m =< n} \in SUBSET S /\ n \in {m \in S : m =< n}
  OBVIOUS
<1>2. IsFiniteSet({m \in S : m =< n})
  BY <1>1, FS_Subset
<1>3. Cardinality({m \in S : m =< n}) \in Nat /\ Cardinality(S) \in Nat
  BY <1>2, FS_CardinalityType
<1>4. Cardinality({m \in S : m =< n}) # 0
  BY <1>1, <1>2, FS_EmptySet
<1>5. Cardinality({m \in S : m =< n}) =< Cardinality(S)
  BY <1>1, FS_Subset
<1>6. QED
  BY <1>3, <1>4, <1>5 DEF Rank

LEMMA EveryRankTaken ==
  ASSUME NEW S, IsFiniteSet(S), S \subseteq Int, NEW k \in 1 .. Cardinality(S)
  PROVE  \E n \in S : Rank(n, S) = k
<1> DEFINE f == [n \in S |-> Rank(n, S)]
           T == 1 .. Cardinality(S)
<1>1. f \in [S -> T]
  BY RankIn
<1>2. ASSUME NEW m \in S, NEW n \in S, f[m] = f[n] PROVE m = n
  <2>1. m \in Int /\ n \in Int
    OBVIOUS
  <2>2. ~(m < n) /\ ~(n < m)
    BY <1>2, RanksDiffer
  <2>3. QED
    BY <2>1, <2>2
<1>3. f \in Injection(S, T)
  BY <1>1, <1>2 DEF Injection, IsInjective
<1>4. Cardinality(S) \in Nat
  BY FS_CardinalityType
<1>5. IsFiniteSet(T) /\ Cardinality(T) = Cardinality(S)
  BY <1>4, FS_Interval
<1> HIDE DEF f, T
<1>6. f \in Surjection(S, T)
  BY <1>3, <1>5, FS_Injection
<1>7. \E n \in S : f[n] = k
  BY <1>6 DEF Surjection, T
<1>8. QED
  BY <1>7 DEF f

LEMMA NoneOutOfOrder ==
  ASSUME NEW calls, NEW S, IsFiniteSet(S), S \subseteq Int, NEW n \in S
  PROVE  \E k \in DOMAIN InOrder(calls, S) : InOrder(calls, S)[k] = calls[n]
<1>1. Rank(n, S) \in 1 .. Cardinality(S)
  BY RankIn
<1>2. \A m \in S : Rank(m, S) = Rank(n, S) => m = n
  <2> SUFFICES ASSUME NEW m \in S, Rank(m, S) = Rank(n, S) PROVE m = n
    OBVIOUS
  <2>1. m \in Int /\ n \in Int
    OBVIOUS
  <2>2. ~(m < n) /\ ~(n < m)
    BY RanksDiffer
  <2>3. QED
    BY <2>1, <2>2
<1>3. (CHOOSE m \in S : Rank(m, S) = Rank(n, S)) = n
  BY <1>2
<1>4. QED
  BY <1>1, <1>3 DEF InOrder

(* A route holds each valid hand-off of the reply, and steps only.         *)
LEMMA RouteHoldsAll ==
  ASSUME NEW n \in Nat, NEW calls \in [1 .. n -> Handoffs]
  PROVE  /\ RouteOf(calls) \in Seq(Steps)
         /\ \A i \in ValidIn(calls) :
              \E k \in DOMAIN RouteOf(calls) : RouteOf(calls)[k] = calls[i]
<1> DEFINE valid == ValidIn(calls)
<1>1. valid \in SUBSET (1 .. n)
  BY DEF ValidIn
<1>2. IsFiniteSet(1 .. n)
  BY FS_Interval
<1>3. IsFiniteSet(valid) /\ valid \subseteq Int
  BY <1>1, <1>2, FS_Subset
<1>4. Cardinality(valid) \in Nat
  BY <1>3, FS_CardinalityType
<1>5. \A i \in valid : \E k \in DOMAIN RouteOf(calls) : RouteOf(calls)[k] = calls[i]
  BY <1>3, NoneOutOfOrder DEF RouteOf
<1>6. \A i \in valid : calls[i] \in Steps
  BY DEF ValidIn, IsValid, Handoffs, Steps
<1>7. ASSUME NEW k \in 1 .. Cardinality(valid)
      PROVE  calls[CHOOSE i \in valid : Rank(i, valid) = k] \in Steps
  BY <1>3, <1>6, EveryRankTaken
<1>8. [k \in 1 .. Cardinality(valid) |-> calls[CHOOSE i \in valid : Rank(i, valid) = k]]
        \in Seq(Steps)
  BY <1>4, <1>7
<1>9. QED
  BY <1>5, <1>8 DEF RouteOf, InOrder

(* What a planned step is owed: a run, or a place in the rest of the plan. *)
(* The guard sets forget nothing but what was run.                         *)
Covered(p) ==
  \E r \in runs : /\ r[2] = p[2] \/ (r[2][1] = p[2][1] /\ r[1] < p[1])
                  /\ r[1] =< p[1]

Due(p) == p[1] = hop /\ \E i \in DOMAIN plan : plan[i] = p[2]

GuardsJustified ==
  /\ \A s \in delegated : \E r \in runs : r[2] = s
  /\ \A a \in ranThisHop : \E r \in runs : r[2][1] = a
  /\ \A a \in ranInPriorHop : \E r \in runs : r[2][1] = a /\ r[1] < hop

PlanEmpty == pc = "core" \/ (pc = "ended" /\ frames = <<"done">>) => plan = <<>>

PlanKept == \A p \in planned : p[1] \in Nat /\ p[1] =< hop /\ (Covered(p) \/ Due(p))

HopOpen == pc \in {"steps", "specialist"} => hop < MaxHops

LossInv ==
  TypeOK /\ HopOpen /\ RunsRemembered /\ OneFrame /\ GuardsJustified /\ PlanEmpty /\ PlanKept

LEMMA FramesTyped ==
  ASSUME TypeOK
  PROVE  /\ Append(frames, "done") \in Seq({"done", "error"})
         /\ Append(frames, "error") \in Seq({"done", "error"})
         /\ frames \o <<"error", "done">> \in Seq({"done", "error"})
<1>1. frames \in Seq({"done", "error"}) /\ <<"error", "done">> \in Seq({"done", "error"})
  BY DEF TypeOK
<1>2. QED
  BY <1>1

LEMMA InitTypes == Init => TypeOK /\ HopOpen
BY BoundsAssumption DEF Init, TypeOK, HopOpen

LEMMA PlanStepsOn ==
  ASSUME TypeOK, plan # <<>>
  PROVE  /\ Head(plan) \in Steps /\ Head(plan)[1] \in Specialists
         /\ Tail(plan) \in Seq(Steps)
         /\ \A i \in DOMAIN plan : plan[i] = Head(plan)
                                  \/ \E j \in DOMAIN Tail(plan) : Tail(plan)[j] = plan[i]
<1>1. plan \in Seq(Steps)
  BY DEF TypeOK
<1>2. Head(plan) \in Steps /\ Tail(plan) \in Seq(Steps)
  BY <1>1
<1>3. Head(plan)[1] \in Specialists
  BY <1>2 DEF Steps
<1>4. ASSUME NEW i \in DOMAIN plan, i # 1
      PROVE  \E j \in DOMAIN Tail(plan) : Tail(plan)[j] = plan[i]
  <2>1. i - 1 \in DOMAIN Tail(plan) /\ Tail(plan)[i - 1] = plan[i]
    BY <1>1, <1>4
  <2>2. QED
    BY <2>1
<1>5. Head(plan) = plan[1]
  BY <1>1
<1>6. QED
  BY <1>2, <1>3, <1>4, <1>5

LEMMA DelegateTypes ==
  ASSUME TypeOK, NEW s \in Steps, s[1] \in Specialists, Tail(plan) \in Seq(Steps), Delegate(s)
  PROVE  /\ delegated' \subseteq Steps /\ ranThisHop' \subseteq Specialists
         /\ plan' \in Seq(Steps)
         /\ runs' \subseteq (0 .. MaxHops) \X Steps
<1>1. hop \in 0 .. MaxHops /\ runs \subseteq (0 .. MaxHops) \X Steps
  BY DEF TypeOK
<1>2. <<hop, s>> \in (0 .. MaxHops) \X Steps
  BY <1>1
<1>3. QED
  BY <1>1, <1>2 DEF Delegate, RestOfPlan, TypeOK

LEMMA StepHopOpen == TypeOK /\ HopOpen /\ [Next]_vars => HopOpen'
BY DEF HopOpen, TypeOK, Next, CoreStep, PlanStep, SpecialistEnds, Finished, CoreAnswers,
   CoreRoutes, CoreFails, HopCapReached, SkipStep, StartSpecialist, SpecialistUnavailable,
   NothingRan, NextHop, SpecialistDone, SpecialistErrs, Cut, HopLeft, coreVars, stepVars,
   vars

LEMMA StepTypes == TypeOK /\ HopOpen /\ [Next]_vars => TypeOK'
<1> SUFFICES ASSUME TypeOK, HopOpen, [Next]_vars PROVE TypeOK'
  OBVIOUS
<1>1. CASE UNCHANGED vars
  BY <1>1 DEF vars, TypeOK
<1>2. ASSUME NEW n \in 0 .. MaxSteps, NEW calls \in [1 .. n -> Handoffs], CoreAnswers(calls)
      PROVE  TypeOK'
  BY <1>2 DEF CoreAnswers, coreVars, Emit, TypeOK
<1>3. ASSUME NEW n \in 0 .. MaxSteps, NEW calls \in [1 .. n -> Handoffs], CoreRoutes(calls)
      PROVE  TypeOK'
  <2>1. RouteOf(calls) \in Seq(Steps)
    BY BoundsAssumption, RouteHoldsAll
  <2>2. \A i \in ValidIn(calls) : calls[i] \in Steps
    BY DEF ValidIn, IsValid, Handoffs, Steps
  <2>3. planned' \subseteq (0 .. MaxHops) \X Steps
    BY <1>3, <2>2 DEF CoreRoutes, TypeOK
  <2>4. QED
    BY <1>3, <2>1, <2>3 DEF CoreRoutes, coreVars, TypeOK
<1>4. CASE CoreFails \/ HopCapReached
  BY <1>4, FramesTyped DEF CoreFails, HopCapReached, coreVars, Emit, TypeOK
<1>5. CASE SkipStep
  BY <1>5, PlanStepsOn DEF SkipStep, RestOfPlan, stepVars, TypeOK
<1>8. CASE StartSpecialist \/ SpecialistUnavailable
  <2>1. plan # <<>>
    BY <1>8 DEF StartSpecialist, SpecialistUnavailable
  <2>2. /\ delegated' \subseteq Steps /\ ranThisHop' \subseteq Specialists
        /\ plan' \in Seq(Steps)
        /\ runs' \subseteq (0 .. MaxHops) \X Steps
    BY <1>8, <2>1, PlanStepsOn, DelegateTypes DEF StartSpecialist, SpecialistUnavailable
  <2>3. frames' \in Seq({"done", "error"})
    BY <1>8, FramesTyped DEF StartSpecialist, SpecialistUnavailable, Emit, TypeOK
  <2>4. QED
    BY <1>8, <2>2, <2>3 DEF StartSpecialist, SpecialistUnavailable, stepVars, TypeOK
<1>6. CASE NothingRan \/ SpecialistEnds \/ Cut
  BY <1>6, FramesTyped DEF NothingRan, SpecialistEnds, SpecialistDone, SpecialistErrs,
     SwallowDone, Cut, stepVars, Emit, TypeOK
<1>7. CASE NextHop
  BY <1>7, BoundsAssumption DEF NextHop, HopOpen, TypeOK
<1>9. QED
  BY <1>1, <1>2, <1>3, <1>4, <1>5, <1>8, <1>6, <1>7
     DEF Next, CoreStep, PlanStep, Finished

(* Nothing is taken from the plan and no run forgotten.                    *)
LEMMA QuietKeepsPlan ==
  ASSUME LossInv, UNCHANGED <<hop, plan, delegated, ranInPriorHop, ranThisHop, runs, planned>>
  PROVE  GuardsJustified' /\ PlanKept'
<1>1. \A p : (Covered(p) => Covered(p)') /\ (Due(p) => Due(p)')
  BY DEF Covered, Due
<1>2. QED
  BY <1>1 DEF LossInv, GuardsJustified, PlanKept

(* A step is taken off the plan when a run covers it.                      *)
LEMMA HeadCovered ==
  ASSUME LossInv, plan # <<>>, plan' = Tail(plan), hop' = hop, planned' = planned,
         runs \subseteq runs',
         \A p \in planned : p[1] = hop /\ p[2] = Head(plan) => Covered(p)'
  PROVE  PlanKept'
<1> SUFFICES ASSUME NEW p \in planned
             PROVE  p[1] \in Nat /\ p[1] =< hop /\ (Covered(p)' \/ Due(p)')
  BY DEF PlanKept
<1>1. p[1] \in Nat /\ p[1] =< hop /\ (Covered(p) \/ Due(p))
  BY DEF LossInv, PlanKept
<1>2. Covered(p) => Covered(p)'
  BY DEF Covered
<1>3. ASSUME Due(p) PROVE Covered(p)' \/ Due(p)'
  <2>1. PICK i \in DOMAIN plan : plan[i] = p[2] /\ p[1] = hop
    BY <1>3 DEF Due
  <2>2. CASE plan[i] = Head(plan)
    BY <2>1, <2>2
  <2>3. CASE \E j \in DOMAIN Tail(plan) : Tail(plan)[j] = plan[i]
    BY <2>1, <2>3 DEF Due
  <2>4. QED
    BY <2>2, <2>3, PlanStepsOn DEF LossInv
<1>4. QED
  BY <1>1, <1>2, <1>3

(* A step that is skipped was run, or its specialist in an earlier hop.    *)
LEMMA SkippedIsCovered ==
  ASSUME LossInv, plan # <<>>, Skipped(Head(plan)), NEW p, p[1] = hop, p[2] = Head(plan)
  PROVE  Covered(p)
<1>1. CASE Head(plan)[1] \in ranInPriorHop
  <2>1. PICK r \in runs : r[2][1] = Head(plan)[1] /\ r[1] < hop
    BY <1>1 DEF LossInv, GuardsJustified
  <2>2. r[1] \in Nat /\ hop \in Nat
    BY DEF LossInv, RunsRemembered
  <2>3. QED
    BY <2>1, <2>2 DEF Covered
<1>2. CASE Head(plan) \in delegated
  <2>1. PICK r \in runs : r[2] = Head(plan)
    BY <1>2 DEF LossInv, GuardsJustified
  <2>2. r[1] =< hop
    BY DEF LossInv, RunsRemembered
  <2>3. QED
    BY <2>1, <2>2 DEF Covered
<1>3. QED
  BY <1>1, <1>2 DEF Skipped

LEMMA DelegateKeepsPlan ==
  ASSUME LossInv, plan # <<>>, Delegate(Head(plan)), hop' = hop,
         ranInPriorHop' = ranInPriorHop, planned' = planned
  PROVE  GuardsJustified' /\ PlanKept'
<1>1. runs' = runs \cup {<<hop, Head(plan)>>} /\ plan' = Tail(plan)
  BY DEF Delegate, RestOfPlan
<1>2. PICK new \in runs' : new[1] = hop /\ new[2] = Head(plan)
  <2>1. <<hop, Head(plan)>> \in runs'
    BY <1>1
  <2>2. <<hop, Head(plan)>>[1] = hop /\ <<hop, Head(plan)>>[2] = Head(plan)
    OBVIOUS
  <2>3. QED
    BY <2>1, <2>2
<1>3. GuardsJustified'
  <2>1. /\ delegated' = delegated \cup {Head(plan)}
        /\ ranThisHop' = ranThisHop \cup {Head(plan)[1]}
        /\ runs \subseteq runs'
    BY <1>1 DEF Delegate
  <2>2. GuardsJustified
    BY DEF LossInv
  <2>3. \A q \in delegated' : \E r \in runs' : r[2] = q
    BY <1>2, <2>1, <2>2 DEF GuardsJustified
  <2>4. \A a \in ranThisHop' : \E r \in runs' : r[2][1] = a
    BY <1>2, <2>1, <2>2 DEF GuardsJustified
  <2>5. QED
    BY <2>1, <2>2, <2>3, <2>4 DEF GuardsJustified
<1>4. hop =< hop
  BY DEF LossInv, RunsRemembered
<1>5. \A p \in planned : p[1] = hop /\ p[2] = Head(plan) => Covered(p)'
  BY <1>2, <1>4 DEF Covered
<1>6. PlanKept'
  BY <1>1, <1>5, HeadCovered
<1>7. QED
  BY <1>3, <1>6

LEMMA RoutePlans ==
  ASSUME LossInv, NEW n \in Nat, NEW calls \in [1 .. n -> Handoffs], CoreRoutes(calls)
  PROVE  GuardsJustified' /\ PlanKept'
<1>1. /\ plan' = RouteOf(calls) /\ UNCHANGED coreVars /\ ranThisHop' = {}
      /\ planned' = planned \cup {<<hop, calls[i]>> : i \in ValidIn(calls)}
      /\ plan = <<>>
  BY DEF CoreRoutes, LossInv, PlanEmpty
<1>2. GuardsJustified'
  BY <1>1 DEF coreVars, LossInv, GuardsJustified
<1>3. hop \in Nat /\ hop' = hop /\ runs' = runs
  BY <1>1 DEF LossInv, RunsRemembered, coreVars
<1>4. ASSUME NEW p \in planned
      PROVE  p[1] \in Nat /\ p[1] =< hop /\ Covered(p)'
  BY <1>1, <1>3 DEF LossInv, PlanKept, Covered, Due
<1>5. ASSUME NEW i \in ValidIn(calls)
      PROVE  Due(<<hop, calls[i]>>)'
  BY <1>1, <1>3, RouteHoldsAll DEF Due
<1>6. QED
  BY <1>1, <1>2, <1>3, <1>4, <1>5 DEF PlanKept

LEMMA NextHopCovers ==
  ASSUME LossInv, NextHop
  PROVE  GuardsJustified' /\ PlanKept'
<1>1. hop \in Nat /\ hop' = hop + 1 /\ plan = <<>> /\ \A r \in runs : r[1] \in Nat /\ r[1] =< hop
  BY DEF NextHop, LossInv, RunsRemembered
<1>2. \A r \in runs : r[1] < hop + 1
  BY <1>1
<1>3. GuardsJustified'
  BY <1>1, <1>2 DEF NextHop, LossInv, GuardsJustified
<1>4. \A p \in planned : p[1] \in Nat /\ p[1] =< hop /\ Covered(p)
  BY <1>1 DEF LossInv, PlanKept, Due
<1>5. \A p \in planned : p[1] =< hop + 1 /\ Covered(p)'
  BY <1>1, <1>4 DEF NextHop, Covered
<1>6. QED
  BY <1>1, <1>3, <1>4, <1>5 DEF NextHop, PlanKept

LEMMA StepPlanEmpty == LossInv /\ [Next]_vars => PlanEmpty'
<1> SUFFICES ASSUME LossInv, [Next]_vars PROVE PlanEmpty'
  OBVIOUS
<1>1. PlanEmpty /\ (pc # "ended" => frames = <<>>)
  BY DEF LossInv, OneFrame
<1>2. CASE UNCHANGED vars \/ Finished
  BY <1>1, <1>2 DEF PlanEmpty, Finished, vars
<1>3. CASE pc' \in {"steps", "specialist", "cut"}
  BY <1>3 DEF PlanEmpty
<1>4. CASE \/ HopCapReached \/ CoreFails \/ NothingRan \/ NextHop
           \/ \E n \in 0 .. MaxSteps : \E calls \in [1 .. n -> Handoffs] : CoreAnswers(calls)
  BY <1>1, <1>4 DEF PlanEmpty, HopCapReached, CoreFails, NothingRan, NextHop, CoreAnswers,
     stepVars
<1>5. CASE SpecialistUnavailable \/ SpecialistErrs
  <2>1. frames = <<>> /\ frames' = Append(frames, "error") /\ pc' = "ended"
    BY <1>1, <1>5 DEF SpecialistUnavailable, SpecialistErrs, Emit
  <2>2. frames' # <<"done">>
    BY <2>1, FirstFrames
  <2>3. QED
    BY <2>1, <2>2 DEF PlanEmpty
<1>6. \/ UNCHANGED vars \/ Finished \/ HopCapReached \/ CoreFails \/ NothingRan \/ NextHop
      \/ \E n \in 0 .. MaxSteps : \E calls \in [1 .. n -> Handoffs] : CoreAnswers(calls)
      \/ SpecialistUnavailable \/ SpecialistErrs
      \/ pc' \in {"steps", "specialist", "cut"}
  BY DEF Next, CoreStep, PlanStep, SpecialistEnds, CoreRoutes, SkipStep, StartSpecialist,
     SpecialistDone, Cut
<1>7. QED
  BY <1>2, <1>3, <1>4, <1>5, <1>6

LEMMA InitLossInv == Init => LossInv
<1>1. Init => TypeOK /\ HopOpen /\ IInv
  BY InitTypes, InitIInv
<1>2. QED
  BY <1>1 DEF Init, IInv, LossInv, GuardsJustified, PlanEmpty, PlanKept

LEMMA StepLossInv == LossInv /\ OneHopPerSpecialist /\ [Next]_vars => LossInv'
<1> SUFFICES ASSUME LossInv, OneHopPerSpecialist, [Next]_vars PROVE LossInv'
  OBVIOUS
<1>1. TypeOK' /\ HopOpen' /\ RunsRemembered' /\ OneFrame' /\ PlanEmpty'
  BY StepTypes, StepHopOpen, StepIInv, StepPlanEmpty DEF LossInv, IInv
<1>2. GuardsJustified' /\ PlanKept'
  <2>1. CASE \/ UNCHANGED vars \/ CoreFails \/ HopCapReached \/ NothingRan
             \/ SpecialistEnds \/ Cut \/ Finished
             \/ \E n \in 0 .. MaxSteps : \E calls \in [1 .. n -> Handoffs] : CoreAnswers(calls)
    <3>1. UNCHANGED <<hop, plan, delegated, ranInPriorHop, ranThisHop, runs, planned>>
      BY <2>1 DEF vars, CoreFails, HopCapReached, NothingRan, SpecialistEnds, SpecialistDone,
         SpecialistErrs, Cut, Finished, CoreAnswers, coreVars, stepVars
    <3>2. QED
      BY <3>1, QuietKeepsPlan
  <2>2. CASE \E n \in 0 .. MaxSteps : \E calls \in [1 .. n -> Handoffs] : CoreRoutes(calls)
    BY <2>2, RoutePlans
  <2>3. CASE SkipStep
    <3>1. /\ plan # <<>> /\ Skipped(Head(plan)) /\ plan' = Tail(plan)
          /\ UNCHANGED <<hop, delegated, ranInPriorHop, ranThisHop, runs, planned>>
      BY <2>3 DEF SkipStep, RestOfPlan, stepVars
    <3>2. \A p \in planned : p[1] = hop /\ p[2] = Head(plan) => Covered(p)'
      BY <3>1, SkippedIsCovered DEF Covered
    <3>3. PlanKept'
      BY <3>1, <3>2, HeadCovered
    <3>4. GuardsJustified'
      BY <3>1 DEF LossInv, GuardsJustified
    <3>5. QED
      BY <3>3, <3>4
  <2>4. CASE StartSpecialist \/ SpecialistUnavailable
    BY <2>4, DelegateKeepsPlan DEF StartSpecialist, SpecialistUnavailable, stepVars
  <2>5. CASE NextHop
    BY <2>5, NextHopCovers
  <2>6. QED
    BY <2>1, <2>2, <2>3, <2>4, <2>5 DEF Next, CoreStep, PlanStep
<1>3. QED
  BY <1>1, <1>2 DEF LossInv

LEMMA NothingLeft == LossInv => NoStepLost
<1> SUFFICES ASSUME LossInv, pc = "ended", frames = <<"done">>, NEW p \in planned
             PROVE  Covered(p)
  BY DEF NoStepLost, Covered
<1>1. plan = <<>>
  BY DEF LossInv, PlanEmpty
<1>2. QED
  BY <1>1 DEF LossInv, PlanKept, Due

(* The state, the plan and the histories have their types; for the hops    *)
(* this rests on the hop cap being checked before Core is asked.           *)
THEOREM TypeCorrect == Spec => []TypeOK
BY InitTypes, StepTypes, StepHopOpen, PTL DEF Spec

(* Whatever Core plans over its hops, a turn that ends without an error    *)
(* has run every step it was handed, or its specialist was spent before.   *)
THEOREM CompoundRequestsComplete == Spec => []NoStepLost
<1>1. Init => LossInv
  BY InitLossInv
<1>2. LossInv /\ OneHopPerSpecialist /\ [Next]_vars => LossInv'
  BY StepLossInv
<1>3. LossInv => NoStepLost
  BY NothingLeft
<1>4. QED
  BY <1>1, <1>2, <1>3, SpecialistsRunInOneHop, PTL DEF Spec

-----------------------------------------------------------------------------
(* The task store.                                                         *)

(* A row is of a task that was created, in a conversation that is there.   *)
RowsKnown ==
  /\ \A t \in Tasks : Exists(t) => ~ Fresh(t) /\ Row(t).conv \notin deleted
  /\ \A p \in Callers : call[p] # Idle => ~ Fresh(call[p].task)

(* What a transition read is still so: nobody else moves the task, and a   *)
(* task that was deleted does not come back.                               *)
ReadIsCurrent ==
  \A p \in Callers : call[p] # Idle /\ call[p].seen # NotRead /\ Exists(call[p].task) =>
    /\ Row(call[p].task).status = call[p].seen
    /\ call[p].next \in VALID_TRANSITIONS(call[p].seen)

(* A task that ended has what was said before.                             *)
EndedKeeps ==
  \A t \in Tasks : Exists(t) /\ Row(t).status \in Ended =>
    atEnd[t] \in Seq(Messages) /\ Len(atEnd[t]) =< Len(agentPeerMessage[t])

(* A task listed as ended is that for as long as it is there, and its      *)
(* messages, when they are read, are at least those of its end.            *)
ListedStays ==
  \A r \in Readers : listing[r] # Nothing /\ listing[r].conv \notin deleted =>
    \A t \in DOMAIN listing[r].tasks : listing[r].tasks[t] \in Ended =>
      /\ Exists(t) /\ Row(t).status \in Ended /\ Row(t).conv = listing[r].conv
      /\ listing[r].msgs # Nothing => Len(atEnd[t]) =< Len(listing[r].msgs[t])

(* The inductive invariants: of any drivers, and of one each.              *)
TaskIInv == TaskTypeOK /\ RowsKnown
DrivenInv == ReadIsCurrent /\ EndedKeeps /\ ListedStays

(* A call, field by field, and what a step that fills in a field makes.    *)
LEMMA CallFields ==
  ASSUME NEW x \in CallRecord, NEW s \in Statuses
  PROVE  /\ x.task \in Tasks /\ x.next \in Statuses /\ x.output \in Outputs \cup {Undefined}
         /\ x.seen \in Statuses \cup {NotRead}
         /\ [x EXCEPT !.seen = s] \in CallRecord
         /\ [x EXCEPT !.seen = s].task = x.task /\ [x EXCEPT !.seen = s].next = x.next
         /\ [x EXCEPT !.seen = s].seen = s
BY DEF CallRecord

(* The row a transition writes.                                            *)
Moved(row, next, output) ==
  [conv |-> row.conv, status |-> next,
   output |-> IF output = Undefined THEN row.output ELSE output]

(* The table with that row, as the code writes it.                         *)
Updated(t, next, output) ==
  [agentTask EXCEPT ![t].status = next,
                    ![t].output = IF output = Undefined THEN @ ELSE output]

(* One field of a row.                                                     *)
LEMMA RowFields ==
  ASSUME NEW c, NEW s, NEW o, NEW row, row = [conv |-> c, status |-> s, output |-> o], NEW x
  PROVE  /\ [row EXCEPT !.status = x] = [conv |-> c, status |-> x, output |-> o]
         /\ [row EXCEPT !.output = x] = [conv |-> c, status |-> s, output |-> x]
OBVIOUS

(* What the two field updates of an existing row come to.                  *)
LEMMA UpdateWrites ==
  ASSUME TaskTypeOK, NEW t \in Tasks, Exists(t), NEW next \in Statuses,
         NEW output \in Outputs \cup {Undefined}
  PROVE  /\ Updated(t, next, output) = [agentTask EXCEPT ![t] = Moved(Row(t), next, output)]
         /\ Moved(Row(t), next, output) \in Contract!TaskRecord
<1>1. Row(t) \in Contract!TaskRecord
  BY DEF TaskTypeOK, Row, Exists
<1>2. /\ Row(t) = [conv |-> Row(t).conv, status |-> Row(t).status, output |-> Row(t).output]
      /\ Row(t).conv \in Conversations /\ Row(t).output \in Outputs \cup {Undefined}
  BY <1>1 DEF Contract!TaskRecord
<1> DEFINE a == [agentTask EXCEPT ![t].status = next]
           new == IF output = Undefined THEN Row(t).output ELSE output
<1>3. a = [agentTask EXCEPT ![t] = [conv |-> Row(t).conv, status |-> next, output |-> Row(t).output]]
  <2>1. a = [agentTask EXCEPT ![t] = [Row(t) EXCEPT !.status = next]]
    BY DEF Row
  <2>2. [Row(t) EXCEPT !.status = next]
          = [conv |-> Row(t).conv, status |-> next, output |-> Row(t).output]
    BY <1>2, RowFields
  <2>3. QED
    BY <2>1, <2>2
<1>4. a[t] = [conv |-> Row(t).conv, status |-> next, output |-> Row(t).output]
  BY <1>3 DEF TaskTypeOK
<1>5. Updated(t, next, output) = [a EXCEPT ![t].output = IF output = Undefined THEN @ ELSE output]
  BY DEF Updated
<1> HIDE DEF a
<1>6. [a EXCEPT ![t].output = IF output = Undefined THEN @ ELSE output]
        = [a EXCEPT ![t] = [conv |-> Row(t).conv, status |-> next, output |-> new]]
  <2> DEFINE row == a[t]
  <2>1. [a EXCEPT ![t].output = IF output = Undefined THEN @ ELSE output]
          = [a EXCEPT ![t] = [row EXCEPT !.output = IF output = Undefined THEN row.output ELSE output]]
    OBVIOUS
  <2>2. row = [conv |-> Row(t).conv, status |-> next, output |-> Row(t).output]
    BY <1>4
  <2> HIDE DEF row
  <2>3. (IF output = Undefined THEN row.output ELSE output) = new
    BY <2>2
  <2> HIDE DEF new
  <2>4. [row EXCEPT !.output = new] = [conv |-> Row(t).conv, status |-> next, output |-> new]
    BY <2>2, RowFields
  <2>5. QED
    BY <2>1, <2>3, <2>4
<1>7. [a EXCEPT ![t] = [conv |-> Row(t).conv, status |-> next, output |-> new]]
        = [agentTask EXCEPT ![t] = [conv |-> Row(t).conv, status |-> next, output |-> new]]
  BY <1>3
<1>8. Moved(Row(t), next, output) \in Contract!TaskRecord
  BY <1>2 DEF Moved, Contract!TaskRecord, Statuses
<1>9. QED
  BY <1>5, <1>6, <1>7, <1>8 DEF Moved

(* A task that was created stays so, and the one just created is.          *)
LEMMA FreshAppend ==
  ASSUME created \in Seq(Tasks), NEW x \in Tasks, created' = Append(created, x), NEW t
  PROVE  (~ Fresh(t) => ~ Fresh(t)') /\ ~ Fresh(x)'
<1>1. /\ Len(created') = Len(created) + 1 /\ DOMAIN created' = 1 .. Len(created')
      /\ created'[Len(created')] = x /\ DOMAIN created = 1 .. Len(created)
      /\ \A i \in 1 .. Len(created) : created'[i] = created[i]
      /\ Len(created) \in Nat
  OBVIOUS
<1>2. ASSUME NEW i \in DOMAIN created, created[i] = t PROVE ~ Fresh(t)'
  BY <1>1, <1>2 DEF Fresh
<1>3. ~ Fresh(x)'
  BY <1>1 DEF Fresh
<1>4. QED
  BY <1>2, <1>3 DEF Fresh

(* The empty store satisfies both invariants.                              *)
LEMMA TaskInitInv == TaskInit => TaskIInv /\ DrivenInv
<1> SUFFICES ASSUME TaskInit PROVE TaskIInv /\ DrivenInv
  OBVIOUS
<1>1. << >> \in Seq(Tasks) /\ << >> \in Seq(Messages)
  OBVIOUS
<1>2. TaskTypeOK
  BY <1>1 DEF TaskInit, TaskTypeOK, Idle
<1>3. RowsKnown /\ DrivenInv
  BY DEF TaskInit, RowsKnown, DrivenInv, ReadIsCurrent, EndedKeeps, ListedStays, Exists, Row, Idle
<1>4. QED
  BY <1>2, <1>3 DEF TaskIInv

(* Each statement keeps the types, and a row's conversation undeleted,     *)
(* whoever drives the tasks.                                               *)
LEMMA TaskStep ==
  ASSUME TaskIInv, [TaskNext]_taskVars
  PROVE  TaskIInv'
<1>a. TaskTypeOK /\ RowsKnown
  BY DEF TaskIInv
<1>b. /\ agentTask \in [Tasks -> Contract!TaskRecord \cup {NoTask}]
      /\ agentPeerMessage \in [Tasks -> Seq(Messages)]
      /\ created \in Seq(Tasks) /\ deleted \subseteq Conversations
      /\ call \in [Callers -> CallRecord \cup {Idle}]
      /\ DOMAIN listing = Readers
      /\ atEnd \in [Tasks -> Seq(Messages) \cup {Nothing}]
  BY <1>a DEF TaskTypeOK
<1>1. ASSUME NEW p \in Callers, NEW t \in Tasks, NEW c \in Conversations, CreateTask(p, t, c)
      PROVE  TaskIInv'
  <2> DEFINE row == [conv |-> c, status |-> "pending", output |-> Undefined]
  <2>1. /\ Fresh(t) /\ c \notin deleted /\ agentTask' = [agentTask EXCEPT ![t] = row]
        /\ created' = Append(created, t)
        /\ UNCHANGED <<agentPeerMessage, deleted, call, listing, atEnd>>
    BY <1>1 DEF CreateTask
  <2>2. row \in Contract!TaskRecord /\ row.conv = c
    BY DEF Contract!TaskRecord, Contract!Statuses
  <2> HIDE DEF row
  <2>3. agentTask' \in [Tasks -> Contract!TaskRecord \cup {NoTask}] /\ created' \in Seq(Tasks)
    BY <1>b, <2>1, <2>2
  <2>4. TaskTypeOK'
    BY <1>a, <2>1, <2>3 DEF TaskTypeOK, ListingOK
  <2>5. \A u \in Tasks : (~ Fresh(u) => ~ Fresh(u)') /\ ~ Fresh(t)'
    BY <1>b, <2>1, FreshAppend
  <2>6. \A q \in Callers : call[q] # Idle => call[q].task \in Tasks
    BY <1>b DEF CallRecord
  <2>7. RowsKnown'
    BY <1>a, <1>b, <2>1, <2>2, <2>5, <2>6 DEF RowsKnown, Exists, Row
  <2>8. QED
    BY <2>4, <2>7 DEF TaskIInv
<1>2. ASSUME UNCHANGED <<agentTask, agentPeerMessage, created, deleted, listing, atEnd>>,
             NEW p \in Callers, NEW x \in CallRecord \cup {Idle},
             call' = [call EXCEPT ![p] = x],
             x # Idle => p \in Driver[x.task] /\ ~ Fresh(x.task)
      PROVE  TaskIInv'
  <2>1. TaskTypeOK'
    BY <1>a, <1>2 DEF TaskTypeOK, ListingOK
  <2>2. \A t \in Tasks : Exists(t)' = Exists(t) /\ Row(t)' = Row(t)
    BY <1>2 DEF Exists, Row
  <2>3. \A t : Fresh(t)' = Fresh(t)
    BY <1>2 DEF Fresh
  <2>4. \A q \in Callers : call'[q] = IF q = p THEN x ELSE call[q]
    BY <1>b, <1>2
  <2>5. RowsKnown'
    <3>1. \A t \in Tasks : Exists(t)' => ~ Fresh(t)' /\ Row(t)'.conv \notin deleted'
      BY <1>a, <1>2, <2>2, <2>3 DEF RowsKnown
    <3>2. \A q \in Callers : call'[q] # Idle => ~ Fresh(call'[q].task)
      BY <1>a, <1>2, <2>4 DEF RowsKnown
    <3>3. \A q \in Callers : call'[q] # Idle => ~ Fresh(call[q].task)'
      BY <1>2, <3>2 DEF Fresh
    <3>4. QED
      BY <3>1, <3>3 DEF RowsKnown, Idle
  <2>6. QED
    BY <2>1, <2>5 DEF TaskIInv
<1>3. ASSUME NEW p \in Callers, NEW t \in Tasks, NEW next \in Statuses,
             NEW output \in Outputs \cup {Undefined}, CallTransition(p, t, next, output)
      PROVE  TaskIInv'
  <2> DEFINE x == [task |-> t, next |-> next, output |-> output, seen |-> NotRead]
  <2>1. x \in CallRecord /\ x.task = t
    BY DEF CallRecord
  <2>2. /\ call' = [call EXCEPT ![p] = x] /\ p \in Driver[t] /\ ~ Fresh(t)
        /\ UNCHANGED <<agentTask, agentPeerMessage, created, deleted, listing, atEnd>>
    BY <1>3 DEF CallTransition
  <2> HIDE DEF x
  <2>3. QED
    BY <1>2, <2>1, <2>2
<1>4. ASSUME NEW p \in Callers, ReadCurrent(p) PROVE TaskIInv'
  <2>1. /\ call[p] # Idle /\ call[p] \in CallRecord /\ call[p].task \in Tasks
        /\ p \in Driver[call[p].task] /\ ~ Fresh(call[p].task)
        /\ UNCHANGED <<agentTask, agentPeerMessage, created, deleted, listing, atEnd>>
    BY <1>a, <1>b, <1>4 DEF ReadCurrent, TaskTypeOK, RowsKnown, CallRecord
  <2>2. CASE call' = [call EXCEPT ![p] = Idle]
    BY <1>2, <2>1, <2>2
  <2>3. CASE /\ Exists(call[p].task)
             /\ call' = [call EXCEPT ![p].seen = Row(call[p].task).status]
    <3> DEFINE x == [call[p] EXCEPT !.seen = Row(call[p].task).status]
    <3>1. Row(call[p].task).status \in Statuses
      BY <1>b, <2>1, <2>3 DEF Exists, Row, Contract!TaskRecord, Statuses
    <3>2. x \in CallRecord /\ x.task = call[p].task
      BY <2>1, <3>1, CallFields
    <3>3. call' = [call EXCEPT ![p] = x]
      BY <2>3
    <3> HIDE DEF x
    <3>4. QED
      BY <1>2, <2>1, <3>2, <3>3
  <2>4. QED
    BY <1>4, <2>2, <2>3 DEF ReadCurrent
<1>5. ASSUME NEW p \in Callers, UpdateTask(p) PROVE TaskIInv'
  <2> DEFINE t == call[p].task
             new == Moved(Row(t), call[p].next, call[p].output)
  <2>1. /\ call[p] # Idle /\ call[p] \in CallRecord /\ t \in Tasks
        /\ call[p].next \in Statuses /\ call[p].output \in Outputs \cup {Undefined}
        /\ call' = [call EXCEPT ![p] = Idle]
        /\ UNCHANGED <<agentPeerMessage, created, deleted, listing>>
    BY <1>b, <1>5 DEF UpdateTask, CallRecord
  <2>2. agentTask' = IF ~ Exists(t) THEN agentTask ELSE Updated(t, call[p].next, call[p].output)
    BY <1>5 DEF UpdateTask, Updated
  <2>3. \/ ~ Exists(t) /\ agentTask' = agentTask
        \/ Exists(t) /\ agentTask' = [agentTask EXCEPT ![t] = new] /\ new \in Contract!TaskRecord
    BY <1>a, <2>1, <2>2, UpdateWrites
  <2>4. Exists(t) => new.conv = Row(t).conv
    BY DEF Moved
  <2>5. atEnd' \in [Tasks -> Seq(Messages) \cup {Nothing}]
    BY <1>b, <1>5, <2>1 DEF UpdateTask
  <2> HIDE DEF new, t
  <2>6. agentTask' \in [Tasks -> Contract!TaskRecord \cup {NoTask}]
    BY <1>b, <2>1, <2>3
  <2>7. call' \in [Callers -> CallRecord \cup {Idle}]
        /\ \A q \in Callers : call'[q] # Idle => call[q] # Idle /\ call'[q] = call[q]
    BY <1>b, <2>1
  <2>8. TaskTypeOK'
    BY <1>a, <2>1, <2>5, <2>6, <2>7 DEF TaskTypeOK, ListingOK, Idle
  <2>9. \A u \in Tasks : Exists(u)' => Exists(u) /\ Row(u)'.conv = Row(u).conv
    BY <1>b, <2>1, <2>3, <2>4 DEF Exists, Row
  <2>10. \A u : Fresh(u)' = Fresh(u)
    BY <2>1 DEF Fresh
  <2>11. RowsKnown'
    BY <1>a, <2>1, <2>7, <2>9, <2>10 DEF RowsKnown, Idle, Fresh
  <2>12. QED
    BY <2>8, <2>11 DEF TaskIInv
<1>6. ASSUME NEW p \in Callers, NEW t \in Tasks, NEW m \in Messages, AppendPeerMessage(p, t, m)
      PROVE  TaskIInv'
  <2>1. /\ agentPeerMessage' = [agentPeerMessage EXCEPT ![t] = Append(@, m)]
        /\ UNCHANGED <<agentTask, created, deleted, call, listing, atEnd>>
    BY <1>6 DEF AppendPeerMessage
  <2>2. agentPeerMessage' \in [Tasks -> Seq(Messages)]
    BY <1>b, <2>1
  <2>3. TaskTypeOK'
    BY <1>a, <2>1, <2>2 DEF TaskTypeOK, ListingOK
  <2>4. RowsKnown'
    BY <1>a, <2>1 DEF RowsKnown, Exists, Row, Fresh
  <2>5. QED
    BY <2>3, <2>4 DEF TaskIInv
<1>7. ASSUME NEW c \in Conversations, DeleteConversation(c) PROVE TaskIInv'
  <2>1. /\ deleted' = deleted \cup {c}
        /\ agentTask' = [t \in Tasks |-> IF t \in RowsOf(c) THEN NoTask ELSE Row(t)]
        /\ agentPeerMessage' =
             [t \in Tasks |-> IF t \in RowsOf(c) THEN << >> ELSE agentPeerMessage[t]]
        /\ UNCHANGED <<created, call, listing, atEnd>>
    BY <1>7 DEF DeleteConversation
  <2>2. << >> \in Seq(Messages)
    OBVIOUS
  <2>3. /\ agentTask' \in [Tasks -> Contract!TaskRecord \cup {NoTask}]
        /\ agentPeerMessage' \in [Tasks -> Seq(Messages)]
    BY <1>b, <2>1, <2>2 DEF Row
  <2>4. TaskTypeOK'
    BY <1>a, <2>1, <2>3 DEF TaskTypeOK, ListingOK
  <2>5. \A t \in Tasks : Exists(t)' => Exists(t) /\ Row(t)' = Row(t) /\ Row(t).conv # c
    BY <2>1 DEF Exists, Row, RowsOf
  <2>6. \A t : Fresh(t)' = Fresh(t)
    BY <2>1 DEF Fresh
  <2>7. RowsKnown'
    BY <1>a, <2>1, <2>5, <2>6 DEF RowsKnown, Fresh
  <2>8. QED
    BY <2>4, <2>7 DEF TaskIInv
<1>8. ASSUME UNCHANGED <<agentTask, agentPeerMessage, created, deleted, call, atEnd>>,
             NEW r \in Readers, NEW l, ListingOK(l), listing' = [listing EXCEPT ![r] = l]
      PROVE  TaskIInv'
  <2>1. DOMAIN listing' = Readers /\ \A q \in Readers : listing'[q] = IF q = r THEN l ELSE listing[q]
    BY <1>b, <1>8
  <2>2. \A q \in Readers : listing'[q] # Nothing => ListingOK(listing'[q])
    BY <1>a, <1>8, <2>1 DEF TaskTypeOK
  <2>3. \A q \in Readers : listing'[q] # Nothing => ListingOK(listing[q])'
    BY <2>2 DEF ListingOK
  <2>4. TaskTypeOK'
    BY <1>a, <1>8, <2>1, <2>3 DEF TaskTypeOK
  <2>5. RowsKnown'
    BY <1>a, <1>8 DEF RowsKnown, Exists, Row, Fresh
  <2>6. QED
    BY <2>4, <2>5 DEF TaskIInv
<1>9. ASSUME NEW r \in Readers, NEW c \in Conversations, ListTasks(r, c) PROVE TaskIInv'
  <2> DEFINE l == [conv |-> c, tasks |-> Snapshot(c), msgs |-> Nothing]
  <2>1. RowsOf(c) \in SUBSET Tasks /\ Snapshot(c) \in [RowsOf(c) -> Statuses]
    BY <1>b DEF RowsOf, Snapshot, Exists, Row, Contract!TaskRecord, Statuses
  <2>2. ListingOK(l)
    BY <2>1 DEF ListingOK
  <2>3. QED
    BY <1>8, <1>9, <2>2 DEF ListTasks
<1>10. ASSUME NEW r \in Readers, ListMessages(r) PROVE TaskIInv'
  <2> DEFINE l == [listing[r] EXCEPT !.msgs = [t \in DOMAIN listing[r].tasks |-> agentPeerMessage[t]]]
  <2>1. listing[r] # Nothing /\ ListingOK(listing[r])
    BY <1>a, <1>10 DEF ListMessages, TaskTypeOK
  <2>2. DOMAIN listing[r].tasks \subseteq Tasks
    BY <2>1 DEF ListingOK
  <2>3. [t \in DOMAIN listing[r].tasks |-> agentPeerMessage[t]] \in [DOMAIN listing[r].tasks -> Seq(Messages)]
    BY <1>b, <2>2
  <2>4. /\ DOMAIN l = {"conv", "tasks", "msgs"} /\ l.conv = listing[r].conv
        /\ l.tasks = listing[r].tasks
        /\ l.msgs = [t \in DOMAIN listing[r].tasks |-> agentPeerMessage[t]]
    BY <2>1 DEF ListingOK
  <2>5. listing' = [listing EXCEPT ![r] = l]
    BY <1>10 DEF ListMessages
  <2> HIDE DEF l
  <2>6. ListingOK(l)
    BY <2>1, <2>3, <2>4 DEF ListingOK
  <2>7. QED
    BY <1>8, <1>10, <2>5, <2>6 DEF ListMessages
<1>11. CASE UNCHANGED taskVars
  BY <1>a, <1>11 DEF taskVars, TaskIInv, TaskTypeOK, ListingOK, RowsKnown, Exists, Row, Fresh, Idle
<1>12. QED
  BY <1>1, <1>3, <1>4, <1>5, <1>6, <1>7, <1>9, <1>10, <1>11 DEF TaskNext

(* Every variable keeps its type, whoever drives the tasks.                *)
THEOREM TaskTypes == TaskSpec => []TaskTypeOK
<1>1. TaskIInv /\ [TaskNext]_taskVars => TaskIInv'
  BY TaskStep
<1>2. TaskIInv => TaskTypeOK
  BY DEF TaskIInv
<1>3. QED
  BY <1>1, <1>2, TaskInitInv, PTL DEF TaskSpec

(* A step that leaves the rows there are with their status and conversation, *)
(* and takes nothing from their messages, and what was seen and listed.      *)
LEMMA CalmStep ==
  ASSUME TaskIInv, TaskIInv', DrivenInv,
         \A t \in Tasks : Exists(t)' /\ ~ Fresh(t) => /\ Exists(t) /\ Row(t)' = Row(t)
                                         /\ Len(agentPeerMessage[t]) =< Len(agentPeerMessage'[t]),
         \A t \in Tasks : Exists(t)' /\ Fresh(t) => Row(t)'.status = "pending",
         \A t \in Tasks : Exists(t) /\ ~ Exists(t)' => Row(t).conv \in deleted',
         UNCHANGED <<listing, atEnd>>, deleted \subseteq deleted',
         \A p \in Callers : call'[p] # Idle /\ call'[p].seen # NotRead => call'[p] = call[p]
  PROVE  DrivenInv'
<1>a. TaskTypeOK /\ RowsKnown /\ ReadIsCurrent /\ EndedKeeps /\ ListedStays
  BY DEF TaskIInv, DrivenInv
<1>b. /\ \A t \in Tasks : agentPeerMessage[t] \in Seq(Messages)
      /\ \A t \in Tasks : agentPeerMessage'[t] \in Seq(Messages)
  BY <1>a DEF TaskIInv, TaskTypeOK
<1>1. ReadIsCurrent'
  <2> SUFFICES ASSUME NEW p \in Callers, call'[p] # Idle, call'[p].seen # NotRead,
                      agentTask'[call'[p].task] # NoTask
               PROVE  /\ agentTask'[call'[p].task].status = call'[p].seen
                      /\ call'[p].next \in VALID_TRANSITIONS(call'[p].seen)
    BY DEF ReadIsCurrent, Idle, VALID_TRANSITIONS, Exists, Row
  <2>1. call'[p] = call[p]
    OBVIOUS
  <2>0. call[p] # Idle /\ call[p].seen # NotRead
         /\ call[p].task \in Tasks /\ ~ Fresh(call[p].task)
    BY <1>a, <2>1 DEF TaskTypeOK, RowsKnown, CallRecord, Idle
  <2> PICK t \in Tasks : t = call[p].task
    BY <2>0
  <2>2. call[p] # Idle /\ call[p].seen # NotRead /\ ~ Fresh(t)
    BY <2>0
  <2>3. agentTask'[t] # NoTask
    BY <2>1
  <2>4. Exists(t)'
    BY <2>3 DEF Exists, Row
  <2>5. Exists(t) /\ Row(t)' = Row(t)
    BY <2>2, <2>4
  <2>6. agentTask'[t] = Row(t)
    BY <2>5 DEF Row
  <2>7. /\ Row(t).status = call[p].seen
        /\ call[p].next \in VALID_TRANSITIONS(call[p].seen)
    BY <1>a, <2>2, <2>5 DEF ReadIsCurrent
  <2>8. QED
    BY <2>1, <2>6, <2>7
<1>2. EndedKeeps'
  <2> SUFFICES ASSUME NEW t \in Tasks, Exists(t)', Row(t)'.status \in Ended
               PROVE  atEnd'[t] \in Seq(Messages) /\ Len(atEnd'[t]) =< Len(agentPeerMessage'[t])
    BY DEF EndedKeeps, Ended
  <2>1. ~ Fresh(t)
    BY DEF Ended
  <2>2. Exists(t) /\ Row(t)' = Row(t) /\ Len(agentPeerMessage[t]) =< Len(agentPeerMessage'[t])
    BY <2>1
  <2>3. atEnd[t] \in Seq(Messages) /\ Len(atEnd[t]) =< Len(agentPeerMessage[t]) /\ atEnd' = atEnd
    BY <1>a, <2>2 DEF EndedKeeps
  <2>4. Len(atEnd[t]) \in Nat /\ Len(agentPeerMessage[t]) \in Nat /\ Len(agentPeerMessage'[t]) \in Nat
    BY <1>b, <2>3
  <2>5. QED
    BY <1>b, <2>2, <2>3, <2>4
<1>3. ListedStays'
  <2> SUFFICES ASSUME NEW r \in Readers, listing[r] # Nothing, listing[r].conv \notin deleted',
                      NEW t \in DOMAIN listing[r].tasks, listing[r].tasks[t] \in Ended
               PROVE  /\ Exists(t)' /\ Row(t)'.status \in Ended /\ Row(t)'.conv = listing[r].conv
                      /\ listing[r].msgs # Nothing => Len(atEnd[t]) =< Len(listing[r].msgs[t])
    BY DEF ListedStays, Exists, Row, Ended
  <2>1. t \in Tasks
    BY <1>a DEF TaskTypeOK, ListingOK
  <2>2. /\ Exists(t) /\ Row(t).status \in Ended /\ Row(t).conv = listing[r].conv
        /\ listing[r].msgs # Nothing => Len(atEnd[t]) =< Len(listing[r].msgs[t])
    BY <1>a DEF ListedStays
  <2>3. Exists(t)'
    BY <2>1, <2>2
  <2>4. ~ Fresh(t)
    BY <1>a, <2>1, <2>2 DEF RowsKnown
  <2>5. QED
    BY <2>1, <2>2, <2>3, <2>4
<1>4. QED
  BY <1>1, <1>2, <1>3 DEF DrivenInv

(* Each statement keeps the three facts that need a task's one driver:     *)
(* only UpdateTask can change a status somebody has read or listed.        *)
LEMMA DrivenStep ==
  ASSUME OneDriver, TaskIInv, TaskIInv', DrivenInv, [TaskNext]_taskVars
  PROVE  DrivenInv'
<1>a. TaskTypeOK /\ RowsKnown /\ ReadIsCurrent /\ EndedKeeps /\ ListedStays
  BY DEF TaskIInv, DrivenInv
<1>b. /\ agentTask \in [Tasks -> Contract!TaskRecord \cup {NoTask}]
      /\ agentPeerMessage \in [Tasks -> Seq(Messages)]
      /\ \A t \in Tasks : agentPeerMessage[t] \in Seq(Messages) /\ Len(agentPeerMessage[t]) \in Nat
      /\ call \in [Callers -> CallRecord \cup {Idle}] /\ DOMAIN listing = Readers
      /\ atEnd \in [Tasks -> Seq(Messages) \cup {Nothing}]
  BY <1>a DEF TaskTypeOK
<1>c. \A t \in Tasks : Len(agentPeerMessage[t]) =< Len(agentPeerMessage[t])
  BY <1>b
<1>1. ASSUME NEW p \in Callers, NEW t \in Tasks, NEW c \in Conversations, CreateTask(p, t, c)
      PROVE  DrivenInv'
  <2> DEFINE row == [conv |-> c, status |-> "pending", output |-> Undefined]
  <2>1. /\ Fresh(t) /\ agentTask' = [agentTask EXCEPT ![t] = row]
        /\ UNCHANGED <<agentPeerMessage, deleted, call, listing, atEnd>>
    BY <1>1 DEF CreateTask
  <2>2. row.status = "pending"
    OBVIOUS
  <2> HIDE DEF row
  <2>3. \A u \in Tasks : /\ u = t => Row(u)' = row
                         /\ u # t => Row(u)' = Row(u) /\ Exists(u)' = Exists(u)
    BY <1>b, <2>1 DEF Row, Exists
  <2>4. ~ Exists(t) /\ \A u \in Tasks : Exists(u) => ~ Fresh(u)
    BY <1>a, <2>1 DEF RowsKnown
  <2>5. QED
    BY <1>b, <1>c, <2>1, <2>2, <2>3, <2>4, CalmStep
<1>2. ASSUME UNCHANGED <<agentTask, agentPeerMessage, created, deleted, listing, atEnd>>,
             NEW p \in Callers, NEW x, call' = [call EXCEPT ![p] = x],
             x = Idle \/ x.seen = NotRead
      PROVE  DrivenInv'
  <2>1. \A q \in Callers : call'[q] # Idle /\ call'[q].seen # NotRead => call'[q] = call[q]
    BY <1>b, <1>2
  <2>2. \A t \in Tasks : Row(t)' = Row(t) /\ Exists(t)' = Exists(t)
    BY <1>2 DEF Row, Exists
  <2>3. \A t \in Tasks : Exists(t) => ~ Fresh(t)
    BY <1>a DEF RowsKnown
  <2>4. QED
    BY <1>c, <1>2, <2>1, <2>2, <2>3, CalmStep
<1>3. ASSUME NEW p \in Callers, NEW t \in Tasks, NEW next \in Statuses,
             NEW output \in Outputs \cup {Undefined}, CallTransition(p, t, next, output)
      PROVE  DrivenInv'
  <2> DEFINE x == [task |-> t, next |-> next, output |-> output, seen |-> NotRead]
  <2>1. x.seen = NotRead
    OBVIOUS
  <2>2. /\ call' = [call EXCEPT ![p] = x]
        /\ UNCHANGED <<agentTask, agentPeerMessage, created, deleted, listing, atEnd>>
    BY <1>3 DEF CallTransition
  <2> HIDE DEF x
  <2>3. QED
    BY <1>2, <2>1, <2>2
<1>4. ASSUME NEW p \in Callers, ReadCurrent(p) PROVE DrivenInv'
  <2>1. /\ call[p] # Idle /\ call[p] \in CallRecord /\ call[p].task \in Tasks
        /\ UNCHANGED <<agentTask, agentPeerMessage, created, deleted, listing, atEnd>>
    BY <1>b, <1>4 DEF ReadCurrent, CallRecord
  <2>2. CASE call' = [call EXCEPT ![p] = Idle]
    BY <1>2, <2>1, <2>2
  <2>3. CASE /\ Exists(call[p].task)
             /\ call[p].next \in VALID_TRANSITIONS(Row(call[p].task).status)
             /\ call' = [call EXCEPT ![p].seen = Row(call[p].task).status]
    <3> DEFINE x == [call[p] EXCEPT !.seen = Row(call[p].task).status]
    <3>1. Row(call[p].task).status \in Statuses
      BY <1>b, <2>1, <2>3 DEF Exists, Row, Contract!TaskRecord, Statuses
    <3>2. /\ x.task = call[p].task /\ x.next = call[p].next
          /\ x.seen = Row(call[p].task).status
      BY <2>1, <3>1, CallFields
    <3>3. call' = [call EXCEPT ![p] = x]
      BY <2>3
    <3> HIDE DEF x
    <3>4. \A q \in Callers : call'[q] = IF q = p THEN x ELSE call[q]
      BY <1>b, <3>3
    <3>5. ReadIsCurrent'
      <4> SUFFICES ASSUME NEW q \in Callers, call'[q] # Idle, call'[q].seen # NotRead,
                          Exists(call'[q].task)
                   PROVE  /\ Row(call'[q].task).status = call'[q].seen
                          /\ call'[q].next \in VALID_TRANSITIONS(call'[q].seen)
        BY <2>1 DEF ReadIsCurrent, Idle, VALID_TRANSITIONS, Exists, Row
      <4>1. CASE q = p
        BY <2>3, <3>2, <3>4, <4>1
      <4>2. CASE q # p
        BY <1>a, <3>4, <4>2 DEF ReadIsCurrent
      <4>3. QED
        BY <4>1, <4>2
    <3>6. EndedKeeps' /\ ListedStays'
      BY <1>a, <2>1 DEF EndedKeeps, ListedStays, Exists, Row, Ended
    <3>7. QED
      BY <3>5, <3>6 DEF DrivenInv
  <2>4. QED
    BY <1>4, <2>2, <2>3 DEF ReadCurrent
<1>5. ASSUME NEW p \in Callers, UpdateTask(p) PROVE DrivenInv'
  <2> DEFINE t == call[p].task
             new == Moved(Row(t), call[p].next, call[p].output)
  <2>1. /\ call[p] # Idle /\ call[p].seen # NotRead /\ call[p] \in CallRecord /\ t \in Tasks
        /\ call[p].next \in Statuses /\ call[p].output \in Outputs \cup {Undefined}
        /\ call' = [call EXCEPT ![p] = Idle]
        /\ UNCHANGED <<agentPeerMessage, created, deleted, listing>>
    BY <1>b, <1>5 DEF UpdateTask, CallRecord
  <2>2. CASE ~ Exists(t)
    <3>1. agentTask' = agentTask /\ atEnd' = atEnd
      BY <1>5, <2>2 DEF UpdateTask
    <3>2. QED
      BY <1>2, <2>1, <3>1
  <2>3. CASE Exists(t)
    <3>1. agentTask' = Updated(t, call[p].next, call[p].output)
      BY <1>5, <2>3 DEF UpdateTask, Updated
    <3>2. agentTask' = [agentTask EXCEPT ![t] = new]
      BY <1>a, <2>1, <2>3, <3>1, UpdateWrites
    <3>3. new.conv = Row(t).conv /\ new.status = call[p].next
      BY DEF Moved
    <3>4. atEnd' = IF call[p].next \in Ended THEN [atEnd EXCEPT ![t] = agentPeerMessage[t]] ELSE atEnd
      BY <1>5, <2>3 DEF UpdateTask
    <3>5. call[p].next \in VALID_TRANSITIONS(Row(t).status)
      BY <1>a, <2>1, <2>3 DEF ReadIsCurrent
    <3>6. Row(t).status \notin Ended
      <4>1. Row(t).status \in Statuses
        BY <1>b, <2>1, <2>3 DEF Exists, Row, Contract!TaskRecord, Statuses
      <4>2. QED
        BY <3>5, <4>1 DEF VALID_TRANSITIONS, Ended
    <3>7. \A q \in Callers : call[q] # Idle /\ q # p => call[q].task # t /\ call[q].task \in Tasks
      BY <1>a, <1>b, <2>1 DEF OneDriver, TaskTypeOK, CallRecord
    <3> HIDE DEF new, t
    <3>8. \A u \in Tasks : Row(u)' = IF u = t THEN new ELSE Row(u)
      BY <1>b, <2>1, <3>2 DEF Row
    <3>9. \A u \in Tasks : u # t => Exists(u)' = Exists(u) /\ atEnd'[u] = atEnd[u]
      BY <1>b, <2>1, <3>4, <3>8 DEF Exists
    <3>10. ReadIsCurrent'
      <4> SUFFICES ASSUME NEW q \in Callers, call'[q] # Idle, call'[q].seen # NotRead,
                          agentTask'[call'[q].task] # NoTask
                   PROVE  /\ agentTask'[call'[q].task].status = call'[q].seen
                          /\ call'[q].next \in VALID_TRANSITIONS(call'[q].seen)
        BY DEF ReadIsCurrent, Idle, VALID_TRANSITIONS, Exists, Row
      <4>1. q # p /\ call'[q] = call[q]
        BY <1>b, <2>1
      <4>0. call[q].task # t /\ call[q].task \in Tasks
        BY <3>7, <4>1
      <4> PICK u \in Tasks : u = call[q].task
        BY <4>0
      <4>2. u # t
        BY <4>0
      <4>3. agentTask'[u] # NoTask
        BY <4>1
      <4>4. call[q] # Idle /\ call[q].seen # NotRead
        BY <4>1
      <4>5. Row(u)' = Row(u) /\ Exists(u)' = Exists(u)
        BY <3>8, <3>9, <4>2
      <4>6. Exists(u) /\ agentTask'[u] = Row(u)
        BY <4>3, <4>5 DEF Exists, Row
      <4>7. /\ Row(u).status = call[q].seen
            /\ call[q].next \in VALID_TRANSITIONS(call[q].seen)
        BY <1>a, <4>4, <4>6 DEF ReadIsCurrent
      <4>8. QED
        BY <4>1, <4>6, <4>7
    <3>11. EndedKeeps'
      <4> SUFFICES ASSUME NEW u \in Tasks, Exists(u)', Row(u)'.status \in Ended
                   PROVE  atEnd'[u] \in Seq(Messages) /\ Len(atEnd'[u]) =< Len(agentPeerMessage[u])
        BY <2>1 DEF EndedKeeps, Ended
      <4>1. CASE u = t
        <5>1. atEnd'[u] = agentPeerMessage[u]
          BY <1>b, <2>1, <3>3, <3>4, <3>8, <4>1
        <5>2. QED
          BY <1>b, <1>c, <5>1
      <4>2. CASE u # t
        BY <1>a, <3>8, <3>9, <4>2 DEF EndedKeeps
      <4>3. QED
        BY <4>1, <4>2
    <3>12. ListedStays'
      <4> SUFFICES ASSUME NEW r \in Readers, listing[r] # Nothing, listing[r].conv \notin deleted,
                          NEW u \in DOMAIN listing[r].tasks, listing[r].tasks[u] \in Ended
                   PROVE  /\ Exists(u)' /\ Row(u)'.status \in Ended /\ Row(u)'.conv = listing[r].conv
                          /\ listing[r].msgs # Nothing => Len(atEnd'[u]) =< Len(listing[r].msgs[u])
        BY <2>1 DEF ListedStays, Exists, Row, Ended
      <4>1. u \in Tasks
        BY <1>a DEF TaskTypeOK, ListingOK
      <4>2. /\ Exists(u) /\ Row(u).status \in Ended /\ Row(u).conv = listing[r].conv
            /\ listing[r].msgs # Nothing => Len(atEnd[u]) =< Len(listing[r].msgs[u])
        BY <1>a DEF ListedStays
      <4>3. u # t
        BY <3>6, <4>2
      <4>4. QED
        BY <3>8, <3>9, <4>1, <4>2, <4>3
    <3>13. QED
      BY <3>10, <3>11, <3>12 DEF DrivenInv
  <2>4. QED
    BY <2>2, <2>3
<1>6. ASSUME NEW p \in Callers, NEW t \in Tasks, NEW m \in Messages, AppendPeerMessage(p, t, m)
      PROVE  DrivenInv'
  <2>1. /\ agentPeerMessage' = [agentPeerMessage EXCEPT ![t] = Append(@, m)]
        /\ UNCHANGED <<agentTask, created, deleted, call, listing, atEnd>>
    BY <1>6 DEF AppendPeerMessage
  <2>2. ASSUME NEW u \in Tasks PROVE Len(agentPeerMessage[u]) =< Len(agentPeerMessage'[u])
    <3>1. CASE u = t
      <4>1. agentPeerMessage'[u] = Append(agentPeerMessage[u], m)
        BY <1>b, <2>1, <3>1
      <4>2. Len(Append(agentPeerMessage[u], m)) = Len(agentPeerMessage[u]) + 1
        BY <1>b
      <4>3. QED
        BY <1>b, <4>1, <4>2
    <3>2. CASE u # t
      BY <1>b, <1>c, <2>1, <3>2
    <3>3. QED
      BY <3>1, <3>2
  <2>3. \A u \in Tasks : Row(u)' = Row(u) /\ Exists(u)' = Exists(u)
    BY <2>1 DEF Row, Exists
  <2>4. \A u \in Tasks : Exists(u) => ~ Fresh(u)
    BY <1>a DEF RowsKnown
  <2>5. QED
    BY <2>1, <2>2, <2>3, <2>4, CalmStep
<1>7. ASSUME NEW c \in Conversations, DeleteConversation(c) PROVE DrivenInv'
  <2>1. /\ deleted' = deleted \cup {c}
        /\ agentTask' = [t \in Tasks |-> IF t \in RowsOf(c) THEN NoTask ELSE Row(t)]
        /\ agentPeerMessage' =
             [t \in Tasks |-> IF t \in RowsOf(c) THEN << >> ELSE agentPeerMessage[t]]
        /\ UNCHANGED <<created, call, listing, atEnd>>
    BY <1>7 DEF DeleteConversation
  <2>2. \A t \in Tasks : Exists(t)' =>
          Exists(t) /\ Row(t)' = Row(t) /\ agentPeerMessage'[t] = agentPeerMessage[t]
    BY <2>1 DEF Exists, Row
  <2>3. \A t \in Tasks : Exists(t) /\ ~ Exists(t)' => Row(t).conv = c
    BY <2>1 DEF Exists, Row, RowsOf
  <2>4. \A t \in Tasks : Exists(t) => ~ Fresh(t)
    BY <1>a DEF RowsKnown
  <2>5. QED
    BY <1>c, <2>1, <2>2, <2>3, <2>4, CalmStep
<1>8. ASSUME UNCHANGED <<agentTask, agentPeerMessage, created, deleted, call, atEnd>>,
             NEW r \in Readers, NEW l, listing' = [listing EXCEPT ![r] = l],
             l.conv \notin deleted => \A t \in DOMAIN l.tasks : l.tasks[t] \in Ended =>
               /\ Exists(t) /\ Row(t).status \in Ended /\ Row(t).conv = l.conv
               /\ l.msgs # Nothing => Len(atEnd[t]) =< Len(l.msgs[t])
      PROVE  DrivenInv'
  <2>1. \A q \in Readers : listing'[q] = IF q = r THEN l ELSE listing[q]
    BY <1>b, <1>8
  <2>2. ReadIsCurrent' /\ EndedKeeps'
    BY <1>a, <1>8 DEF ReadIsCurrent, EndedKeeps, Exists, Row, Idle, Ended, VALID_TRANSITIONS
  <2>3. ListedStays'
    <3> SUFFICES ASSUME NEW q \in Readers, listing'[q] # Nothing, listing'[q].conv \notin deleted,
                        NEW t \in DOMAIN listing'[q].tasks, listing'[q].tasks[t] \in Ended
                 PROVE  /\ Exists(t) /\ Row(t).status \in Ended /\ Row(t).conv = listing'[q].conv
                        /\ listing'[q].msgs # Nothing => Len(atEnd[t]) =< Len(listing'[q].msgs[t])
      BY <1>8 DEF ListedStays, Exists, Row, Ended
    <3>1. CASE q = r
      BY <1>8, <2>1, <3>1
    <3>2. CASE q # r
      BY <1>a, <2>1, <3>2 DEF ListedStays
    <3>3. QED
      BY <3>1, <3>2
  <2>4. QED
    BY <2>2, <2>3 DEF DrivenInv
<1>9. ASSUME NEW r \in Readers, NEW c \in Conversations, ListTasks(r, c) PROVE DrivenInv'
  <2> DEFINE l == [conv |-> c, tasks |-> Snapshot(c), msgs |-> Nothing]
  <2>1. l.conv = c /\ l.tasks = Snapshot(c) /\ l.msgs = Nothing
    OBVIOUS
  <2>2. /\ listing' = [listing EXCEPT ![r] = l]
        /\ UNCHANGED <<agentTask, agentPeerMessage, created, deleted, call, atEnd>>
    BY <1>9 DEF ListTasks
  <2> HIDE DEF l
  <2>3. \A t \in DOMAIN l.tasks : Exists(t) /\ Row(t).conv = c /\ l.tasks[t] = Row(t).status
    BY <2>1 DEF Snapshot, RowsOf
  <2>4. QED
    BY <1>8, <2>1, <2>2, <2>3
<1>10. ASSUME NEW r \in Readers, ListMessages(r) PROVE DrivenInv'
  <2> DEFINE f == [t \in DOMAIN listing[r].tasks |-> agentPeerMessage[t]]
             l == [listing[r] EXCEPT !.msgs = f]
  <2>1. listing[r] # Nothing /\ ListingOK(listing[r])
    BY <1>a, <1>10 DEF ListMessages, TaskTypeOK
  <2>2. l.conv = listing[r].conv /\ l.tasks = listing[r].tasks /\ l.msgs = f
    BY <2>1 DEF ListingOK
  <2>3. /\ listing' = [listing EXCEPT ![r] = l]
        /\ UNCHANGED <<agentTask, agentPeerMessage, created, deleted, call, atEnd>>
    BY <1>10 DEF ListMessages
  <2>4. DOMAIN listing[r].tasks \subseteq Tasks
    BY <2>1 DEF ListingOK
  <2>5. \A t \in DOMAIN l.tasks : t \in Tasks /\ l.msgs[t] = agentPeerMessage[t]
    BY <2>2, <2>4
  <2> HIDE DEF l, f
  <2>6. ASSUME l.conv \notin deleted, NEW t \in DOMAIN l.tasks, l.tasks[t] \in Ended
        PROVE  /\ Exists(t) /\ Row(t).status \in Ended /\ Row(t).conv = l.conv
               /\ Len(atEnd[t]) =< Len(l.msgs[t])
    <3>1. Exists(t) /\ Row(t).status \in Ended /\ Row(t).conv = l.conv
      BY <1>a, <2>1, <2>2, <2>6 DEF ListedStays
    <3>2. Len(atEnd[t]) =< Len(agentPeerMessage[t])
      BY <1>a, <2>5, <3>1 DEF EndedKeeps
    <3>3. QED
      BY <2>5, <3>1, <3>2
  <2>7. QED
    BY <1>8, <2>3, <2>6
<1>11. CASE UNCHANGED taskVars
  BY <1>a, <1>11 DEF taskVars, DrivenInv, ReadIsCurrent, EndedKeeps, ListedStays, Exists, Row, Ended,
                     Idle, VALID_TRANSITIONS
<1>12. QED
  BY <1>1, <1>3, <1>4, <1>5, <1>6, <1>7, <1>9, <1>10, <1>11 DEF TaskNext

(* Every reachable state of a store whose tasks have one driver each.      *)
THEOREM TaskInvariant == ASSUME OneDriver PROVE TaskSpec => [](TaskIInv /\ DrivenInv)
<1>1. TaskIInv /\ DrivenInv /\ [TaskNext]_taskVars => (TaskIInv /\ DrivenInv)'
  BY TaskStep, DrivenStep
<1>2. QED
  BY <1>1, TaskInitInv, PTL DEF TaskSpec

(* A task listed as ended is listed with all that was said before.         *)
THEOREM EndedTasksListAll == ASSUME OneDriver PROVE TaskSpec => []EndedListsAll
<1>1. TaskIInv /\ DrivenInv => EndedListsAll
  BY DEF DrivenInv, ListedStays, EndedListsAll, Listed
<1>2. QED
  BY <1>1, TaskInvariant, PTL

(* The Prisma store keeps the contract of the in-memory one.               *)
THEOREM StoreKeepsContract == ASSUME OneDriver PROVE TaskSpec => KeepsContract
<1>1. TaskInit => Contract!ContractInit
  BY DEF TaskInit, Contract!ContractInit
<1>2. TaskIInv /\ DrivenInv /\ [TaskNext]_taskVars => [Contract!ContractNext]_(Contract!contractVars)
  <2> SUFFICES ASSUME TaskIInv, DrivenInv, [TaskNext]_taskVars
               PROVE  Contract!ContractNext \/ UNCHANGED <<agentTask, agentPeerMessage, created>>
    BY DEF Contract!contractVars
  <2>a. TaskTypeOK /\ ReadIsCurrent /\ call \in [Callers -> CallRecord \cup {Idle}]
    BY DEF TaskIInv, DrivenInv, TaskTypeOK
  <2>1. ASSUME NEW p \in Callers, NEW t \in Tasks, NEW c \in Conversations, CreateTask(p, t, c)
        PROVE  Contract!ContractNext
    <3>1. Contract!CreateTask(t, c)
      BY <2>1 DEF CreateTask, Contract!CreateTask, Fresh
    <3>2. QED
      BY <3>1 DEF Contract!ContractNext
  <2>2. ASSUME NEW p \in Callers, NEW t \in Tasks, NEW m \in Messages, AppendPeerMessage(p, t, m)
        PROVE  Contract!ContractNext
    <3>1. Contract!AppendPeerMessage(t, m)
      BY <2>2 DEF AppendPeerMessage, Contract!AppendPeerMessage, Exists, Row
    <3>2. QED
      BY <3>1 DEF Contract!ContractNext
  <2>3. ASSUME NEW p \in Callers, UpdateTask(p), Exists(call[p].task)
        PROVE  Contract!ContractNext
    <3> DEFINE t == call[p].task
    <3>1. /\ call[p] # Idle /\ call[p].seen # NotRead /\ t \in Tasks
          /\ call[p].next \in Statuses /\ call[p].output \in Outputs \cup {Undefined}
      BY <2>a, <2>3 DEF UpdateTask, CallRecord
    <3>2. call[p].next \in VALID_TRANSITIONS(Row(t).status)
      BY <2>a, <2>3, <3>1 DEF ReadIsCurrent
    <3>3. call[p].next \in Contract!VALID_TRANSITIONS(agentTask[t].status)
      BY <3>2 DEF VALID_TRANSITIONS, Contract!VALID_TRANSITIONS, Row
    <3>4. Contract!TransitionTask(t, call[p].next, call[p].output)
      BY <2>3, <3>3 DEF UpdateTask, Contract!TransitionTask, Exists, Row
    <3>5. QED
      BY <3>1, <3>4 DEF Contract!ContractNext, Statuses
  <2>4. ASSUME NEW c \in Conversations, DeleteConversation(c) PROVE Contract!ContractNext
    <3>1. Contract!DropConversation(c)
      BY <2>4 DEF DeleteConversation, Contract!DropConversation, RowsOf, Exists, Row
    <3>2. QED
      BY <3>1 DEF Contract!ContractNext
  <2>5. ASSUME NEW p \in Callers, UpdateTask(p), ~ Exists(call[p].task)
        PROVE  UNCHANGED <<agentTask, agentPeerMessage, created>>
    BY <2>5 DEF UpdateTask
  <2>6. ASSUME NEW p \in Callers,
               \/ ReadCurrent(p)
               \/ \E t \in Tasks, next \in Statuses, output \in Outputs \cup {Undefined} :
                     CallTransition(p, t, next, output)
        PROVE  UNCHANGED <<agentTask, agentPeerMessage, created>>
    BY <2>6 DEF ReadCurrent, CallTransition
  <2>7. ASSUME NEW r \in Readers, ListMessages(r) \/ \E c \in Conversations : ListTasks(r, c)
        PROVE  UNCHANGED <<agentTask, agentPeerMessage, created>>
    BY <2>7 DEF ListMessages, ListTasks
  <2>8. CASE UNCHANGED taskVars
    BY <2>8 DEF taskVars
  <2>9. QED
    BY <2>1, <2>2, <2>3, <2>4, <2>5, <2>6, <2>7, <2>8 DEF TaskNext
<1>3. QED
  BY <1>1, <1>2, TaskInvariant, PTL DEF TaskSpec, KeepsContract, Contract!ContractSpec

=============================================================================
