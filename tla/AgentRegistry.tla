-------------------------------- MODULE AgentRegistry --------------------------------
(***************************************************************************)
(* The boot of the agent registry (agents/registry.ts,                     *)
(* agents/loadAgentCards.ts, tools/internal/compose.ts, main.ts) and the   *)
(* routing it serves afterwards (agents/tools/dispatch.ts).                *)
(*                                                                         *)
(* A build ships three sources that must agree and are written by hand:    *)
(* the cards, the manifest and the tools of each agent.  Importing the     *)
(* tool modules checks the tools against the manifest, loadAgentCards      *)
(* checks the cards against it, and assertRegistryInvariants checks the    *)
(* tools against the cards.  Each check throws, and a throw ends the boot. *)
(* The modules below say what a build that passed all three still          *)
(* guarantees.                                                             *)
(*                                                                         *)
(* A tool name is the sequence of its words ("get_pool_apr" is             *)
(* <<"get", "pool", "apr">>).  A prefix entry is a family ("get_", every   *)
(* name that goes on after its words) or one whole name ("read_contract"). *)
(***************************************************************************)
EXTENDS Integers, Sequences

CONSTANTS
    Words,      \* the words tool names are made of
    Builds,     \* the builds: cards, manifest, tools and environment
    Called,     \* the tool names a model may call
    Targets     \* what a model may write into a hand-off's `to`

VARIABLES
    build,          \* the build this process runs
    composed,       \* the agents whose tool module has been imported
    TOOL_REGISTRY,  \* tool name -> the agent whose module brought it
    CARDS,          \* the registered cards, in insertion order
    phase,          \* how far the boot has come
    routed          \* the last dispatch

vars == <<build, composed, TOOL_REGISTRY, CARDS, phase, routed>>

\* The ids of agentConfig.ts, in the order registry.ts spreads their tools.
AgentIds == {"core", "wallet", "defi"}
SpecialistIds == AgentIds \ {"core"}

Names == Seq(Words)
Prefix == [words : Names, family : BOOLEAN]
CoreFamily == [words |-> <<"core">>, family |-> TRUE]
Handoff == <<"core", "handoff">>
NoAgent == "none"

Card == [id : STRING, prefixes : Seq(Prefix), status : {"ready", "stub", "disabled"}]
Build == [cards : Seq(Card), manifest : Seq(Card),
          tools : [AgentIds -> SUBSET Names], keys : BOOLEAN]

(* The core folder's tools exist in every build, and `bootstrap` registers *)
(* one card for each folder under agents/.                                 *)
ASSUME BuildsAssumption ==
    /\ Builds \subseteq Build
    /\ \A b \in Builds : Len(b.cards) = 3

ASSUME CallsAssumption == Called \subseteq Names /\ Targets \subseteq STRING

EntriesOf(s) == {s[i] : i \in DOMAIN s}

-----------------------------------------------------------------------------
(* Matching.                                                               *)

Matches(p, n) ==
    IF p.family THEN /\ Len(p.words) < Len(n)
                     /\ SubSeq(n, 1, Len(p.words)) = p.words
                ELSE n = p.words

Claims(c, n) == \E p \in EntriesOf(c.prefixes) : Matches(p, n)

First(S) == CHOOSE i \in S : \A j \in S : i <= j
Last(S) == CHOOSE i \in S : \A j \in S : j <= i

(* The indices of the cards (or manifest entries) with this id. *)
WithId(s, id) == {i \in DOMAIN s : s[i].id = id}

HasCard(cards, id) == WithId(cards, id) # {}

(* getAgentForTool: a whole name first, then the longest family; the first *)
(* registered card wins a tie.                                             *)
Exact(cards, n) ==
    {i \in DOMAIN cards : \E p \in EntriesOf(cards[i].prefixes) : ~p.family /\ p.words = n}

Longest(cards, n) ==
    {i \in DOMAIN cards :
        \E p \in EntriesOf(cards[i].prefixes) :
            /\ p.family /\ Matches(p, n)
            /\ \A j \in DOMAIN cards : \A q \in EntriesOf(cards[j].prefixes) :
                  q.family /\ Matches(q, n) => Len(q.words) <= Len(p.words)}

\* Mutant: the first family that matches wins, however short.
AgentForToolFirstFamily(cards, n) ==
    LET claiming == {i \in DOMAIN cards : Claims(cards[i], n)}
    IN  IF Exact(cards, n) # {} THEN cards[First(Exact(cards, n))].id
        ELSE IF claiming # {} THEN cards[First(claiming)].id
        ELSE NoAgent

AgentForTool(cards, n) ==
    IF Exact(cards, n) # {} THEN cards[First(Exact(cards, n))].id
    ELSE IF Longest(cards, n) # {} THEN cards[First(Longest(cards, n))].id
    ELSE NoAgent

-----------------------------------------------------------------------------
(* The checks of the boot.                                                 *)

\* Mutant: only the agent is looked up, its tools are not matched.
ComposesAnything(b, a) == WithId(b.manifest, a) # {}

(* composeAgentTools looks its agent up with `find`: the first entry.      *)
Composes(b, a) ==
    LET entries == WithId(b.manifest, a)
    IN  /\ entries # {}
        /\ \A n \in b.tools[a] : Claims(b.manifest[First(entries)], n)

(* registerAgent: a new id, and no prefix another card has. *)
Registrable(cards, c) ==
    /\ ~HasCard(cards, c.id)
    /\ \A d \in EntriesOf(cards) : EntriesOf(d.prefixes) \cap EntriesOf(c.prefixes) = {}

(* crossCheckAgainstManifest indexes the manifest by id in a Map: the last *)
(* entry; prefixes are compared in order.                                  *)
CrossChecks(cards, manifest) ==
    /\ \A c \in EntriesOf(cards) :
          /\ WithId(manifest, c.id) # {}
          /\ LET entry == manifest[Last(WithId(manifest, c.id))]
             IN  c.prefixes = entry.prefixes /\ c.status = entry.status
    /\ \A entry \in EntriesOf(manifest) : HasCard(cards, entry.id)

(* Invariant 1: no prefix is claimed twice, by another card or the same. *)
PrefixesUnique(cards) ==
    \A i, j \in DOMAIN cards :
        \A k \in DOMAIN cards[i].prefixes : \A l \in DOMAIN cards[j].prefixes :
            cards[i].prefixes[k] = cards[j].prefixes[l] => i = j /\ k = l

(* Invariant 4: Core's prefixes are exactly its own family. *)
CoreIsolated(cards) ==
    \A c \in EntriesOf(cards) : c.id = "core" => c.prefixes = <<CoreFamily>>

(* assertRegistryInvariants; a dead prefix (invariant 2) only warns. *)
AssertsInvariants(cards, names) ==
    /\ PrefixesUnique(cards)
    /\ CoreIsolated(cards)
    /\ \A n \in names : \E c \in EntriesOf(cards) : Claims(c, n)

-----------------------------------------------------------------------------
Init ==
    /\ build \in Builds
    /\ composed = {}
    /\ TOOL_REGISTRY = << >>
    /\ CARDS = << >>
    /\ phase = "imports"
    /\ routed = << >>

(* One agent's tool module is imported: its tools are checked. *)
ComposeAgentTools(a) ==
    /\ phase = "imports"
    /\ a \notin composed
    /\ IF Composes(build, a)
       THEN composed' = composed \cup {a} /\ UNCHANGED phase
       ELSE phase' = "failed" /\ UNCHANGED composed
    /\ UNCHANGED <<build, TOOL_REGISTRY, CARDS, routed>>

(* tools/registry.ts spreads core, wallet and defi: the later agent keeps  *)
(* a name two of them define.                                              *)
SpreadTools ==
    /\ phase = "imports"
    /\ composed = AgentIds
    /\ TOOL_REGISTRY' =
          [n \in UNION {build.tools[a] : a \in AgentIds} |->
              IF n \in build.tools["defi"] THEN "defi"
              ELSE IF n \in build.tools["wallet"] THEN "wallet"
              ELSE "core"]
    /\ phase' = "cards"
    /\ UNCHANGED <<build, composed, CARDS, routed>>

RegisterAgent ==
    /\ phase = "cards"
    /\ Len(CARDS) < Len(build.cards)
    /\ LET card == build.cards[Len(CARDS) + 1]
       IN  IF Registrable(CARDS, card)
           THEN CARDS' = Append(CARDS, card) /\ UNCHANGED phase
           ELSE phase' = "failed" /\ UNCHANGED CARDS
    /\ UNCHANGED <<build, composed, TOOL_REGISTRY, routed>>

CrossCheckAgainstManifest ==
    /\ phase = "cards"
    /\ Len(CARDS) = Len(build.cards)
    /\ phase' = IF CrossChecks(CARDS, build.manifest) THEN "loaded" ELSE "failed"
    /\ UNCHANGED <<build, composed, TOOL_REGISTRY, CARDS, routed>>

AssertRegistryInvariants ==
    /\ phase = "loaded"
    /\ phase' = IF AssertsInvariants(CARDS, DOMAIN TOOL_REGISTRY) THEN "asserted" ELSE "failed"
    /\ UNCHANGED <<build, composed, TOOL_REGISTRY, CARDS, routed>>

Listen ==
    /\ phase = "asserted"
    /\ phase' = IF build.keys THEN "listening" ELSE "failed"
    /\ UNCHANGED <<build, composed, TOOL_REGISTRY, CARDS, routed>>

(* dispatch: a hand-off goes where its `to` says, any other tool to the    *)
(* agent that owns its name.                                               *)
DispatchResult(cards, n, to) ==
    IF n = Handoff
    THEN IF to # "" /\ HasCard(cards, to) THEN [kind |-> "agent", agent |-> to]
         ELSE [kind |-> "invalid_handoff", agent |-> NoAgent]
    ELSE IF AgentForTool(cards, n) = NoAgent THEN [kind |-> "unknown", agent |-> NoAgent]
    ELSE [kind |-> "agent", agent |-> AgentForTool(cards, n)]

Dispatch ==
    /\ phase = "listening"
    /\ \E n \in Called, to \in Targets :
          routed' = [tool |-> n, to |-> to, result |-> DispatchResult(CARDS, n, to)]
    /\ UNCHANGED <<build, composed, TOOL_REGISTRY, CARDS, phase>>

Next ==
    \/ \E a \in AgentIds : ComposeAgentTools(a)
    \/ SpreadTools
    \/ RegisterAgent
    \/ CrossCheckAgainstManifest
    \/ AssertRegistryInvariants
    \/ Listen
    \/ Dispatch

Spec == Init /\ [][Next]_vars

-----------------------------------------------------------------------------
(* What Core's prompt offers and what the routes accept.                   *)

(* specialistList: every registered card but Core's and the disabled ones. *)
RoutingGuide ==
    {c.id : c \in {d \in EntriesOf(CARDS) : d.id # "core" /\ d.status # "disabled"}}

(* POST /agents/:agentId answers 404 to any other id. *)
Addressable(id) == id = "core" \/ id \in AgentIds

Listening == phase = "listening"

-----------------------------------------------------------------------------
(* Type invariant: the state of the boot, and a registry filled in order.  *)
TypeOK ==
    /\ build \in Build
    /\ composed \subseteq AgentIds
    /\ CARDS \in Seq(Card)
    /\ DOMAIN TOOL_REGISTRY \subseteq Names
    /\ \A n \in DOMAIN TOOL_REGISTRY : TOOL_REGISTRY[n] \in AgentIds
    /\ phase \in {"imports", "cards", "loaded", "asserted", "listening", "failed"}

(* Once the server listens, each of its tools has one owner, and the order *)
(* in which the cards were registered does not decide it: the card that    *)
(* dispatch returns has an entry for the name which every matching entry   *)
(* of another card is less specific than.                                  *)
MoreSpecific(p, q) ==
    \/ ~p.family /\ q.family
    \/ p.family /\ q.family /\ Len(p.words) > Len(q.words)

OneOwner ==
    Listening =>
        \A n \in DOMAIN TOOL_REGISTRY :
            \E i \in DOMAIN CARDS :
                /\ CARDS[i].id = AgentForTool(CARDS, n)
                /\ \E p \in EntriesOf(CARDS[i].prefixes) :
                      /\ Matches(p, n)
                      /\ \A j \in DOMAIN CARDS \ {i} :
                            \A q \in EntriesOf(CARDS[j].prefixes) :
                                Matches(q, n) => MoreSpecific(p, q)

(* Three places decide which agents exist: the registry (dispatch and      *)
(* Core's prompt), AGENT_CONFIGS (decideCoreRoute) and the HTTP route.     *)
(* Nothing compares the first with the other two, and yet after a boot     *)
(* they agree: dispatch accepts a hand-off to exactly the addressable      *)
(* agents, and Core is offered only specialists decideCoreRoute accepts.   *)
RoutersAgree ==
    Listening =>
        /\ \A id \in Targets \cup AgentIds : HasCard(CARDS, id) <=> Addressable(id)
        /\ RoutingGuide \subseteq SpecialistIds

(* Entries overlap when some name matches both; a                          *)
(* manifest that lists an id twice is read by its first entry in compose   *)
(* and by its last in loadAgentCards.                                      *)
Overlap(p, q) ==
    IF p.family THEN /\ Len(p.words) <= Len(q.words)
                     /\ SubSeq(q.words, 1, Len(p.words)) = p.words
                     /\ q.family \/ Len(p.words) < Len(q.words)
                ELSE ~q.family /\ p.words = q.words

Clean(b) ==
    /\ \A i, j \in DOMAIN b.manifest : b.manifest[i].id = b.manifest[j].id => i = j
    /\ \A i, j \in DOMAIN b.cards : i # j =>
          \A p \in EntriesOf(b.cards[i].prefixes), q \in EntriesOf(b.cards[j].prefixes) :
              ~Overlap(p, q)

(* With families that do not nest across agents and a manifest without     *)
(* doubles, a tool is dispatched to the agent whose module composed it.    *)
(* Neither condition is checked at boot; without either it is false.       *)
ComposedGoesHome ==
    Listening /\ Clean(build) =>
        \A n \in DOMAIN TOOL_REGISTRY : AgentForTool(CARDS, n) = TOOL_REGISTRY[n]

(* Whatever passed the boot, no dispatch hands Core a tool of another      *)
(* agent's family: Core is returned only for a name of the core_ family or *)
(* for a hand-off that names it.                                           *)
CoreGetsOnlyItsOwn ==
    routed # << >> /\ routed.result.agent = "core" =>
        Matches(CoreFamily, routed.tool)

=============================================================================
