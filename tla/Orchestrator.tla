---------------------------- MODULE Orchestrator ----------------------------
(***************************************************************************)
(* agents/orchestrator.ts, orchestrate: one user turn.  Core is asked what *)
(* to do (runCoreRouter), every step it hands off is run by a specialist   *)
(* (runSpecialistTurn, AgentTurn in detail), and Core is asked again, at   *)
(* most MaxHops times.                                                     *)
(*                                                                         *)
(* A step is <<agent, brief>>.  Frames are those that close the stream on  *)
(* the client: "done" and "error".  A client that drops its stream ends the *)
(* turn at its next yield (Cut).                                           *)
(***************************************************************************)
EXTENDS Integers, Sequences, FiniteSets

CONSTANTS
  Specialists,  \* listSpecialistIds()
  Others,       \* agent ids a model may name that are not specialists
  Briefs,       \* hand-off texts
  MaxHops,      \* MAX_COORDINATION_HOPS
  MaxSteps      \* core_handoff calls in one Core reply: a bound

ASSUME BoundsAssumption == MaxHops \in Nat /\ MaxSteps \in Nat
ASSUME AgentsAssumption == Specialists \cap Others = {}

Steps == Specialists \X Briefs
Handoffs == (Specialists \cup Others) \X Briefs

VARIABLES
  pc,             \* "core", "steps", "specialist", "ended" or "cut"
  hop,            \* hops completed
  plan,           \* decision.steps still to run in this hop
  delegated,      \* steps run so far (`delegated`)
  ranInPriorHop,  \* specialists spent in an earlier hop
  ranThisHop,     \* specialists run in this hop (ranThisHopIds)
  state,          \* session.state
  frames,         \* history: the terminal frames sent, in order
  runs,           \* history: <<hop, step>> of every specialist turn started
  planned         \* history: <<hop, step>> of every valid hand-off of Core

vars == <<pc, hop, plan, delegated, ranInPriorHop, ranThisHop, state,
          frames, runs, planned>>

TypeOK ==
  /\ pc \in {"core", "steps", "specialist", "ended", "cut"}
  /\ hop \in 0 .. MaxHops
  /\ plan \in Seq(Steps)
  /\ delegated \subseteq Steps
  /\ ranInPriorHop \subseteq Specialists
  /\ ranThisHop \subseteq Specialists
  /\ state \in {"streaming", "idle"}
  /\ frames \in Seq({"done", "error"})
  /\ runs \subseteq (0 .. MaxHops) \X Steps
  /\ planned \subseteq (0 .. MaxHops) \X Steps

Init ==
  /\ pc = "core"
  /\ hop = 0
  /\ plan = <<>>
  /\ delegated = {}
  /\ ranInPriorHop = {}
  /\ ranThisHop = {}
  /\ state = "idle"
  /\ frames = <<>>
  /\ runs = {}
  /\ planned = {}

-----------------------------------------------------------------------------
Over == pc \in {"ended", "cut"}

(* Core.                                                                   *)

Emit(frame) == frames' = Append(frames, frame)

(* decideCoreRoute: the valid hand-offs of one reply, in order; the k-th is *)
(* the one of rank k.                                                      *)
IsValid(c) == c[1] \in Specialists
ValidIn(calls) == {n \in DOMAIN calls : IsValid(calls[n])}

Rank(n, S) == Cardinality({m \in S : m =< n})
InOrder(calls, S) ==
  [k \in 1 .. Cardinality(S) |-> calls[CHOOSE n \in S : Rank(n, S) = k]]

\* Mutant: only the first hand-off is taken.
FirstHandoff(calls) ==
  LET valid == ValidIn(calls) IN InOrder(calls, {n \in valid : Rank(n, valid) = 1})
RouteOf(calls) == InOrder(calls, ValidIn(calls))

HopLeft == hop < MaxHops

coreVars == <<hop, delegated, ranInPriorHop, runs>>

(* Core answers, or ends a resumed turn silently: idle, then one `done`.   *)
CoreAnswers(calls) ==
  /\ pc = "core" /\ HopLeft
  /\ RouteOf(calls) = <<>>
  /\ state' = "idle"
  /\ Emit("done")
  /\ pc' = "ended"
  /\ UNCHANGED <<coreVars, plan, ranThisHop, planned>>

CoreRoutes(calls) ==
  /\ pc = "core" /\ HopLeft
  /\ RouteOf(calls) # <<>>
  /\ state' = "streaming"
  /\ plan' = RouteOf(calls)
  /\ planned' = planned \cup
       {<<hop, calls[n]>> : n \in ValidIn(calls)}
  /\ ranThisHop' = {}
  /\ pc' = "steps"
  /\ UNCHANGED <<coreVars, frames>>

(* The Core model cannot be resolved or throws: runCoreRouter sends an     *)
(* error frame, reports "answered" without going idle, and orchestrate     *)
(* adds its `done`.                                                        *)
CoreFails ==
  /\ pc = "core" /\ HopLeft
  /\ state' = "streaming"
  /\ frames' = frames \o <<"error", "done">>
  /\ pc' = "ended"
  /\ UNCHANGED <<coreVars, plan, ranThisHop, planned>>

HopCapReached ==
  /\ pc = "core" /\ hop = MaxHops
  /\ Emit("done")
  /\ pc' = "ended"
  /\ UNCHANGED <<coreVars, plan, ranThisHop, planned, state>>

-----------------------------------------------------------------------------
(* The steps of one hop.                                                   *)

stepVars == <<hop, ranInPriorHop, planned>>

\* Mutant: only a verbatim repeat is skipped.
SkipVerbatim(s) == s \in delegated
Skipped(s) == s[1] \in ranInPriorHop \/ s \in delegated

\* Mutant: the step is not taken off the plan.
SamePlan == plan
RestOfPlan == Tail(plan)

SkipStep ==
  /\ pc = "steps" /\ plan # <<>>
  /\ Skipped(Head(plan))
  /\ plan' = RestOfPlan
  /\ UNCHANGED <<stepVars, pc, delegated, ranThisHop, state, frames, runs>>

Delegate(s) ==
  /\ delegated' = delegated \cup {s}
  /\ ranThisHop' = ranThisHop \cup {s[1]}
  /\ runs' = runs \cup {<<hop, s>>}
  /\ plan' = RestOfPlan

(* runSpecialistTurn -> runAgentTurn.                                      *)
StartSpecialist ==
  /\ pc = "steps" /\ plan # <<>>
  /\ ~Skipped(Head(plan))
  /\ Delegate(Head(plan))
  /\ state' = "streaming"
  /\ pc' = "specialist"
  /\ UNCHANGED <<stepVars, frames>>

(* The specialist's model cannot be resolved: an error frame and nothing   *)
(* else, the session state untouched.                                      *)
SpecialistUnavailable ==
  /\ pc = "steps" /\ plan # <<>>
  /\ ~Skipped(Head(plan))
  /\ Delegate(Head(plan))
  /\ Emit("error")
  /\ pc' = "ended"
  /\ UNCHANGED <<stepVars, state>>

(* The specialist's own `done` is swallowed.                               *)
SwallowDone == UNCHANGED frames

SpecialistDone ==
  /\ pc = "specialist"
  /\ state' = "idle"
  /\ SwallowDone
  /\ pc' = "steps"
  /\ UNCHANGED <<stepVars, plan, delegated, ranThisHop, runs>>

SpecialistErrs ==
  /\ pc = "specialist"
  /\ state' = "idle"
  /\ Emit("error")
  /\ pc' = "ended"
  /\ UNCHANGED <<stepVars, plan, delegated, ranThisHop, runs>>

(* Every step was a repeat: close the turn.                                *)
NothingRan ==
  /\ pc = "steps" /\ plan = <<>>
  /\ ranThisHop = {}
  /\ Emit("done")
  /\ pc' = "ended"
  /\ UNCHANGED <<stepVars, plan, delegated, ranThisHop, state, runs>>

NextHop ==
  /\ pc = "steps" /\ plan = <<>>
  /\ ranThisHop # {}
  /\ ranInPriorHop' = ranInPriorHop \cup ranThisHop
  /\ hop' = hop + 1
  /\ pc' = "core"
  /\ UNCHANGED <<plan, delegated, ranThisHop, state, frames, runs, planned>>

(* generator.return, run at a yield of Core or of the specialist: nothing  *)
(* more is done, and the state stays what the inner generator made it.     *)
Cut ==
  /\ \/ pc = "core" /\ HopLeft /\ state' = "streaming"
     \/ pc = "specialist" /\ state' \in {"streaming", "idle"}
  /\ pc' = "cut"
  /\ UNCHANGED <<stepVars, plan, delegated, ranThisHop, frames, runs>>

-----------------------------------------------------------------------------
(* Replies of up to MaxSteps hand-offs.                                    *)
CoreStep ==
  \/ \E n \in 0 .. MaxSteps : \E calls \in [1 .. n -> Handoffs] :
       CoreAnswers(calls) \/ CoreRoutes(calls)
  \/ CoreFails
  \/ HopCapReached

PlanStep ==
  \/ SkipStep
  \/ StartSpecialist
  \/ SpecialistUnavailable
  \/ NothingRan
  \/ NextHop

SpecialistEnds == SpecialistDone \/ SpecialistErrs

Finished == Over /\ UNCHANGED vars

Next ==
  \/ CoreStep
  \/ PlanStep
  \/ SpecialistEnds
  \/ Cut
  \/ Finished

Spec == Init /\ [][Next]_vars

(* The provider answers or throws, and a specialist turn ends (TurnEnds of *)
(* AgentTurn).                                                             *)
FairSpec == Spec /\ WF_vars(CoreStep) /\ WF_vars(PlanStep) /\ WF_vars(SpecialistEnds)

-----------------------------------------------------------------------------
(* Properties.                                                             *)

(* A specialist runs in one hop of a turn only, however Core rewords its   *)
(* hand-off, and never twice for the same brief: the agent cannot repeat   *)
(* the same message over and over.                                         *)
OneHopPerSpecialist ==
  \A r, q \in runs :
    /\ r[2][1] = q[2][1] => r[1] = q[1]
    /\ r[2] = q[2] => r = q

(* No part of a compound request is dropped: in a turn that ends without   *)
(* an error every step Core handed off was run, or its specialist already  *)
(* had its turn in an earlier hop.                                         *)
NoStepLost ==
  pc = "ended" /\ frames = <<"done">> =>
    \A p \in planned :
      \E r \in runs : /\ r[2] = p[2] \/ (r[2][1] = p[2][1] /\ r[1] < p[1])
                      /\ r[1] =< p[1]

(* Apart from a failing Core, a turn closes the stream with exactly one    *)
(* frame, after which nothing is sent; a turn cut off sends none.          *)
OneFrame ==
  /\ pc # "ended" => frames = <<>>
  /\ pc = "ended" => frames \in {<<"done">>, <<"error">>, <<"error", "done">>}

(* Every turn ends, however often Core delegates, and also when its client *)
(* is gone.                                                                *)
TurnEnds == <>Over

=============================================================================
