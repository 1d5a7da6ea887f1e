------------------------ MODULE AgentRegistryProofs ------------------------
(***************************************************************************)
(* Proofs about AgentRegistry for every set of builds: whatever cards,     *)
(* manifest and tools a build ships, what the boot accepts routes as the   *)
(* properties say; and about Requests, for any number of clients' requests,*)
(* sessions, wallets and conversations: whose turn a request becomes, and  *)
(* about ApiKeyGuard for any keys and request.                             *)
(***************************************************************************)
EXTENDS AgentRegistry, Requests, ApiKeyGuard, TLAPS, SequenceTheorems, WellFoundedInduction

(***************************************************************************)
(* Matching.                                                               *)
(***************************************************************************)

LEMMA FirstOfNats ==
  ASSUME NEW S, S \subseteq Nat, S # {}
  PROVE  First(S) \in S /\ \A j \in S : First(S) <= j
<1>1. \E x \in S : \A y \in S : ~(<<y, x>> \in OpToRel(<, Nat))
  BY WFMin, NatLessThanWellFounded
<1>2. PICK x \in S : \A y \in S : ~(<<y, x>> \in OpToRel(<, Nat))
  BY <1>1
<1>3. \A y \in S : ~(y < x)
  BY <1>2 DEF OpToRel
<1>4. \A y \in S : x <= y
  BY <1>3
<1> QED
  BY <1>4 DEF First

(* Entries of the same length that match the same name are the same family. *)
LEMMA SameLength ==
  ASSUME NEW p \in Prefix, NEW q \in Prefix, NEW n \in Names,
         p.family, q.family, Matches(p, n), Matches(q, n),
         Len(p.words) = Len(q.words)
  PROVE  p = q
BY DEF Matches, Prefix

LEMMA Nested ==
  ASSUME NEW n \in Names, NEW k \in Nat, NEW m \in Nat, k <= m, m <= Len(n)
  PROVE  SubSeq(SubSeq(n, 1, m), 1, k) = SubSeq(n, 1, k)
<1>1. CASE k = 0
  BY <1>1, SubSeqEmpty
<1>2. CASE k # 0
  <2>1. n \in Seq(Words) /\ m \in 1..Len(n) /\ 1 \in 1..Len(n) /\ k \in 1..(m - 1 + 1)
        /\ 1 \in 1..(m - 1 + 1)
    BY <1>2, LenProperties DEF Names
  <2> QED
    BY <2>1, SubSeqOfSubSeq
<1> QED
  BY <1>1, <1>2

(* Two entries that match one name overlap. *)
LEMMA MatchingOverlap ==
  ASSUME NEW p \in Prefix, NEW q \in Prefix, NEW n \in Names,
         Matches(p, n), Matches(q, n)
  PROVE  Overlap(p, q) \/ Overlap(q, p)
<1>0. Len(p.words) \in Nat /\ Len(q.words) \in Nat /\ Len(n) \in Nat
  BY LenProperties DEF Prefix, Names
<1>1. CASE ~p.family \/ ~q.family
  BY <1>0, <1>1 DEF Matches, Overlap, Prefix
<1>2. CASE p.family /\ q.family /\ Len(p.words) <= Len(q.words)
  BY <1>0, <1>2, Nested DEF Matches, Overlap
<1>3. CASE p.family /\ q.family /\ Len(q.words) <= Len(p.words)
  BY <1>0, <1>3, Nested DEF Matches, Overlap
<1> QED
  BY <1>0, <1>1, <1>2, <1>3 DEF Prefix

(***************************************************************************)
(* The lookup.                                                             *)
(***************************************************************************)

Cards == Seq(Card)

LEMMA EntryTypes ==
  ASSUME NEW cards \in Cards, NEW i \in DOMAIN cards
  PROVE  /\ i \in Nat
         /\ cards[i] \in Card
         /\ cards[i].id \in STRING
         /\ EntriesOf(cards[i].prefixes) \subseteq Prefix
<1>1. cards[i] \in Card /\ i \in Nat
  BY ElementOfSeq, LenProperties DEF Cards
<1>2. cards[i].id \in STRING /\ cards[i].prefixes \in Seq(Prefix)
  BY <1>1 DEF Card
<1>3. \A k \in DOMAIN cards[i].prefixes : cards[i].prefixes[k] \in Prefix
  BY <1>2, ElementOfSeq, LenProperties
<1> QED
  BY <1>1, <1>2, <1>3 DEF EntriesOf

(* When no whole name matches and some family does, a longest one exists. *)
LEMMA LongestExists ==
  ASSUME NEW cards \in Cards, NEW n \in Names,
         NEW i \in DOMAIN cards, NEW p \in EntriesOf(cards[i].prefixes),
         p.family, Matches(p, n)
  PROVE  Longest(cards, n) # {}
<1> DEFINE Fits(c, q) == /\ c \in DOMAIN cards /\ q \in EntriesOf(cards[c].prefixes)
                         /\ q.family /\ Matches(q, n)
           Gaps == {Len(n) - Len(q.words) :
                       q \in {r \in Prefix : \E c \in DOMAIN cards : Fits(c, r)}}
<1>1. \A c, q : Fits(c, q) => q \in Prefix /\ Len(q.words) \in Nat /\ Len(n) - Len(q.words) \in Nat
  <2> SUFFICES ASSUME NEW c, NEW q, Fits(c, q)
               PROVE  q \in Prefix /\ Len(q.words) \in Nat /\ Len(n) - Len(q.words) \in Nat
    OBVIOUS
  <2>1. q \in Prefix
    BY EntryTypes
  <2>2. Len(q.words) \in Nat /\ Len(n) \in Nat
    BY <2>1, LenProperties DEF Prefix, Names
  <2> QED
    BY <2>1, <2>2 DEF Matches
<1>2. Gaps \subseteq Nat
  BY <1>1
<1>3. Fits(i, p)
  OBVIOUS
<1>4. Len(n) - Len(p.words) \in Gaps
  BY <1>1, <1>3
<1>5. First(Gaps) \in Gaps /\ \A g \in Gaps : First(Gaps) <= g
  BY <1>2, <1>4, FirstOfNats
<1>6. PICK c \in DOMAIN cards, q \in Prefix : Fits(c, q) /\ First(Gaps) = Len(n) - Len(q.words)
  BY <1>5
<1>7. \A j \in DOMAIN cards : \A r \in EntriesOf(cards[j].prefixes) :
        r.family /\ Matches(r, n) => Len(r.words) <= Len(q.words)
  <2> SUFFICES ASSUME NEW j \in DOMAIN cards, NEW r \in EntriesOf(cards[j].prefixes),
                      r.family, Matches(r, n)
               PROVE  Len(r.words) <= Len(q.words)
    OBVIOUS
  <2>1. Fits(j, r)
    OBVIOUS
  <2>2. Len(n) - Len(r.words) \in Gaps
    BY <1>1, <2>1
  <2>3. Len(n) \in Nat
    BY LenProperties DEF Names
  <2>4. First(Gaps) <= Len(n) - Len(r.words)
    BY <1>5, <2>2
  <2>5. Len(r.words) \in Nat /\ Len(q.words) \in Nat
    BY <1>1, <1>6, <2>1
  <2> HIDE DEF Gaps, Fits
  <2> QED
    BY <1>6, <2>3, <2>4, <2>5
<1>8. c \in Longest(cards, n)
  BY <1>6, <1>7 DEF Longest
<1> QED
  BY <1>8

LEMMA FirstOfOne ==
  ASSUME NEW i \in Nat
  PROVE  First({i}) = i /\ Last({i}) = i
BY DEF First, Last

(* With prefixes that are claimed once, the card dispatch returns has the *)
(* single most specific entry for a claimed name.                          *)
LEMMA OwnerIsUnique ==
  ASSUME NEW cards \in Cards, NEW n \in Names,
         PrefixesUnique(cards), \E c \in EntriesOf(cards) : Claims(c, n)
  PROVE  \E i \in DOMAIN cards :
            /\ cards[i].id = AgentForTool(cards, n)
            /\ \E p \in EntriesOf(cards[i].prefixes) :
                  /\ Matches(p, n)
                  /\ \A j \in DOMAIN cards \ {i} : \A q \in EntriesOf(cards[j].prefixes) :
                        Matches(q, n) => MoreSpecific(p, q)
<1>0. ASSUME NEW i \in DOMAIN cards, NEW j \in DOMAIN cards,
             NEW p, p \in EntriesOf(cards[i].prefixes), p \in EntriesOf(cards[j].prefixes)
      PROVE  i = j
  BY <1>0 DEF PrefixesUnique, EntriesOf
<1>1. CASE Exact(cards, n) # {}
  <2>0. PICK i \in DOMAIN cards :
          \E p \in EntriesOf(cards[i].prefixes) : ~p.family /\ p.words = n
    BY <1>1 DEF Exact
  <2>1. PICK p \in EntriesOf(cards[i].prefixes) : ~p.family /\ p.words = n
    BY <2>0
  <2>2. \A j \in DOMAIN cards \ {i} : \A q \in EntriesOf(cards[j].prefixes) :
          Matches(q, n) => q.family
    <3> SUFFICES ASSUME NEW j \in DOMAIN cards \ {i}, NEW q \in EntriesOf(cards[j].prefixes),
                        Matches(q, n), ~q.family
                 PROVE  FALSE
      BY EntryTypes DEF Prefix
    <3>1. p = q
      BY <2>1, EntryTypes DEF Matches, Prefix
    <3> QED
      BY <1>0, <3>1
  <2>3. Exact(cards, n) = {i}
    BY <2>1, <2>2 DEF Exact, Matches
  <2>4. cards[i].id = AgentForTool(cards, n)
    BY <1>1, <2>3, EntryTypes, FirstOfOne DEF AgentForTool
  <2> QED
    BY <2>1, <2>2, <2>4 DEF Matches, MoreSpecific
<1>2. CASE Exact(cards, n) = {}
  <2>0. \A j \in DOMAIN cards : \A q \in EntriesOf(cards[j].prefixes) :
          Matches(q, n) => q.family
    BY <1>2, EntryTypes DEF Exact, Matches, Prefix
  <2>1. PICK k \in DOMAIN cards : \E r \in EntriesOf(cards[k].prefixes) : Matches(r, n)
    BY DEF Claims, EntriesOf
  <2>2. Longest(cards, n) # {}
    BY <2>0, <2>1, LongestExists
  <2> DEFINE IsLongest(p) ==
          /\ p.family /\ Matches(p, n)
          /\ \A j \in DOMAIN cards : \A q \in EntriesOf(cards[j].prefixes) :
                q.family /\ Matches(q, n) => Len(q.words) <= Len(p.words)
  <2>a. PICK i \in DOMAIN cards : \E p \in EntriesOf(cards[i].prefixes) : IsLongest(p)
    BY <2>2 DEF Longest
  <2>3. PICK p \in EntriesOf(cards[i].prefixes) : IsLongest(p)
    BY <2>a
  <2>4. \A j \in DOMAIN cards \ {i} : \A q \in EntriesOf(cards[j].prefixes) :
          Matches(q, n) => q.family /\ Len(p.words) > Len(q.words)
    <3> SUFFICES ASSUME NEW j \in DOMAIN cards \ {i}, NEW q \in EntriesOf(cards[j].prefixes),
                        Matches(q, n)
                 PROVE  q.family /\ Len(p.words) > Len(q.words)
      OBVIOUS
    <3>1. q.family /\ Len(q.words) <= Len(p.words)
      BY <2>0, <2>3
    <3>2. p \in Prefix /\ q \in Prefix
      BY EntryTypes
    <3>3. p # q
      BY <1>0
    <3>4. Len(p.words) # Len(q.words)
      BY <2>3, <3>1, <3>2, <3>3, SameLength
    <3>5. Len(p.words) \in Nat /\ Len(q.words) \in Nat
      BY <3>2, LenProperties DEF Prefix, Names
    <3> QED
      BY <3>1, <3>4, <3>5
  <2>5. Longest(cards, n) = {i}
    <3>1. i \in Longest(cards, n)
      BY <2>3 DEF Longest
    <3>2. \A j \in Longest(cards, n) : j = i
      <4> SUFFICES ASSUME NEW j \in Longest(cards, n), j # i
                   PROVE  FALSE
        OBVIOUS
      <4>1. PICK q \in EntriesOf(cards[j].prefixes) :
              Matches(q, n) /\ Len(p.words) <= Len(q.words)
        BY <2>3 DEF Longest
      <4>2. p \in Prefix /\ q \in Prefix /\ j \in DOMAIN cards
        BY EntryTypes DEF Longest
      <4>3. Len(p.words) \in Nat /\ Len(q.words) \in Nat
        BY <4>2, LenProperties DEF Prefix, Names
      <4> QED
        BY <2>4, <4>1, <4>2, <4>3
    <3> QED
      BY <3>1, <3>2
  <2>6. cards[i].id = AgentForTool(cards, n)
    BY <1>2, <2>5, EntryTypes, FirstOfOne DEF AgentForTool
  <2> QED
    BY <2>3, <2>4, <2>6 DEF MoreSpecific
<1> QED
  BY <1>1, <1>2

(* A name only one card claims goes to that card. *)
LEMMA OnlyClaimant ==
  ASSUME NEW cards \in Cards, NEW n \in Names, PrefixesUnique(cards),
         NEW i \in DOMAIN cards, Claims(cards[i], n),
         \A j \in DOMAIN cards \ {i} : ~Claims(cards[j], n)
  PROVE  AgentForTool(cards, n) = cards[i].id
<1>1. \E c \in EntriesOf(cards) : Claims(c, n)
  BY DEF EntriesOf
<1>2. PICK k \in DOMAIN cards :
        /\ cards[k].id = AgentForTool(cards, n)
        /\ \E p \in EntriesOf(cards[k].prefixes) : Matches(p, n)
  BY <1>1, OwnerIsUnique
<1>3. Claims(cards[k], n)
  BY <1>2 DEF Claims
<1> QED
  BY <1>2, <1>3

(***************************************************************************)
(* The inductive invariant: what each phase has checked so far, kept until *)
(* the server listens.                                                     *)
(***************************************************************************)
Past(phases) == phase \in phases

Imported ==
    /\ Past({"imports"}) => \A a \in composed : Composes(build, a)
    /\ Past({"cards", "loaded", "asserted", "listening"}) =>
          /\ \A a \in AgentIds : Composes(build, a)
          /\ \A n \in DOMAIN TOOL_REGISTRY : n \in build.tools[TOOL_REGISTRY[n]]

Registered ==
    /\ Len(CARDS) <= Len(build.cards)
    /\ \A i \in DOMAIN CARDS : CARDS[i] = build.cards[i]
    /\ \A i, j \in DOMAIN CARDS : CARDS[i].id = CARDS[j].id => i = j
    /\ Past({"loaded", "asserted", "listening"}) =>
          Len(CARDS) = Len(build.cards) /\ CrossChecks(CARDS, build.manifest)

Asserted ==
    Past({"asserted", "listening"}) => AssertsInvariants(CARDS, DOMAIN TOOL_REGISTRY)

Dispatched ==
    routed # << >> =>
        /\ Past({"listening"})
        /\ routed.tool \in Names
        /\ routed.result = DispatchResult(CARDS, routed.tool, routed.to)

IInv ==
    /\ TypeOK
    /\ build \in Builds
    /\ Imported
    /\ Registered
    /\ Asserted
    /\ Dispatched

LEMMA InitIInv == Init => IInv
<1> SUFFICES ASSUME Init PROVE IInv
  OBVIOUS
<1>1. TypeOK
  BY BuildsAssumption, EmptySeq DEF Init, TypeOK
<1>2. Len(build.cards) = 3 /\ DOMAIN CARDS = {} /\ Len(CARDS) = 0
  BY BuildsAssumption DEF Init
<1> QED
  BY <1>1, <1>2 DEF Init, IInv, Imported, Registered, Asserted, Dispatched, Past

LEMMA BuildParts ==
  ASSUME NEW b \in Build
  PROVE  /\ b.cards \in Seq(Card) /\ b.manifest \in Seq(Card)
         /\ \A a \in AgentIds : b.tools[a] \subseteq Names
BY DEF Build

LEMMA StepIInv == IInv /\ [Next]_vars => IInv'
<1> SUFFICES ASSUME IInv, [Next]_vars PROVE IInv'
  OBVIOUS
<1> USE DEF IInv
<1>0. /\ build' = build
      /\ (routed' = routed) \/ Dispatch
  BY DEF Next, vars, ComposeAgentTools, SpreadTools, RegisterAgent,
         CrossCheckAgainstManifest, AssertRegistryInvariants, Listen, Dispatch
<1>1. ASSUME NEW a \in AgentIds, ComposeAgentTools(a) PROVE IInv'
  <2>1. TypeOK'
    BY <1>0, <1>1 DEF ComposeAgentTools, TypeOK
  <2>2. Imported'
    BY <1>0, <1>1 DEF ComposeAgentTools, Imported, Past
  <2>3. Registered' /\ Asserted' /\ Dispatched'
    BY <1>0, <1>1 DEF ComposeAgentTools, Registered, Asserted, Dispatched, Past
  <2> QED
    BY <1>0, <2>1, <2>2, <2>3
<1>2. CASE SpreadTools
  <2>1. /\ DOMAIN TOOL_REGISTRY' = UNION {build.tools[a] : a \in AgentIds}
        /\ \A n \in DOMAIN TOOL_REGISTRY' :
              TOOL_REGISTRY'[n] \in AgentIds /\ n \in build.tools[TOOL_REGISTRY'[n]]
    BY <1>2 DEF SpreadTools, AgentIds
  <2>2. TypeOK'
    BY <1>0, <1>2, <2>1, BuildParts DEF SpreadTools, TypeOK
  <2>3. Imported'
    BY <1>0, <1>2, <2>1 DEF SpreadTools, Imported, Past
  <2>4. Registered' /\ Asserted' /\ Dispatched'
    BY <1>0, <1>2 DEF SpreadTools, Registered, Asserted, Dispatched, Past
  <2> QED
    BY <1>0, <2>2, <2>3, <2>4
<1>3. CASE RegisterAgent
  <2>0. CARDS \in Seq(Card) /\ build.cards \in Seq(Card)
    BY BuildParts DEF TypeOK
  <2>1. CASE ~Registrable(CARDS, build.cards[Len(CARDS) + 1])
    <3>1. phase' = "failed" /\ UNCHANGED <<build, composed, TOOL_REGISTRY, CARDS, routed>>
      BY <1>3, <2>1 DEF RegisterAgent
    <3>2. phase = "cards"
      BY <1>3 DEF RegisterAgent
    <3> QED
      BY <3>1, <3>2 DEF TypeOK, Imported, Registered, Asserted, Dispatched, Past
  <2>2. CASE Registrable(CARDS, build.cards[Len(CARDS) + 1])
    <3> DEFINE k == Len(CARDS) + 1
               card == build.cards[k]
    <3>1. /\ phase = "cards" /\ phase' = phase /\ Len(CARDS) < Len(build.cards)
          /\ CARDS' = Append(CARDS, card)
          /\ UNCHANGED <<build, composed, TOOL_REGISTRY, routed>>
      BY <1>3, <2>2 DEF RegisterAgent
    <3>2. k \in 1..Len(build.cards) /\ DOMAIN CARDS = 1..Len(CARDS) /\ Len(CARDS) \in Nat
          /\ Len(build.cards) \in Nat
      BY <2>0, <3>1, LenProperties
    <3>3. card \in Card
      BY <2>0, <3>2, ElementOfSeq
    <3>4. /\ CARDS' \in Seq(Card) /\ Len(CARDS') = k /\ DOMAIN CARDS' = 1..k
          /\ \A i \in 1..Len(CARDS) : CARDS'[i] = CARDS[i]
          /\ CARDS'[k] = card
      BY <2>0, <3>1, <3>2, <3>3, AppendProperties, LenProperties
    <3>5. \A i \in DOMAIN CARDS : CARDS[i].id # card.id
      BY <2>2 DEF Registrable, HasCard, WithId
    <3>6. TypeOK'
      BY <3>1, <3>4 DEF TypeOK
    <3>7. Registered'
      <4> HIDE DEF k, card
      <4>1. \A i \in DOMAIN CARDS' : i = k \/ i \in DOMAIN CARDS
        BY <3>2, <3>4 DEF k
      <4>2. \A i \in DOMAIN CARDS' : CARDS'[i] = build'.cards[i]
        BY <3>1, <3>2, <3>4, <4>1 DEF Registered, card
      <4>3. \A i, j \in DOMAIN CARDS' : CARDS'[i].id = CARDS'[j].id => i = j
        BY <3>2, <3>4, <3>5, <4>1 DEF Registered
      <4>4. Len(CARDS') <= Len(build'.cards)
        BY <3>1, <3>2, <3>4
      <4> QED
        BY <3>1, <4>2, <4>3, <4>4 DEF Registered, Past
    <3>8. Imported' /\ Asserted' /\ Dispatched'
      BY <3>1 DEF Imported, Asserted, Dispatched, Past
    <3> QED
      BY <3>1, <3>6, <3>7, <3>8
  <2> QED
    BY <2>1, <2>2
<1>4. CASE CrossCheckAgainstManifest
  BY <1>4 DEF CrossCheckAgainstManifest, TypeOK, Imported, Registered, Asserted, Dispatched, Past
<1>5. CASE AssertRegistryInvariants
  BY <1>5 DEF AssertRegistryInvariants, TypeOK, Imported, Registered, Asserted, Dispatched, Past
<1>6. CASE Listen
  BY <1>6 DEF Listen, TypeOK, Imported, Registered, Asserted, Dispatched, Past
<1>7. CASE Dispatch
  <2>1. PICK n \in Called, to \in Targets :
          routed' = [tool |-> n, to |-> to, result |-> DispatchResult(CARDS, n, to)]
    BY <1>7 DEF Dispatch
  <2>2. phase = "listening" /\ UNCHANGED <<build, composed, TOOL_REGISTRY, CARDS, phase>>
    BY <1>7 DEF Dispatch
  <2>3. Dispatched'
    <3>1. n \in Names
      BY CallsAssumption
    <3>2. DispatchResult(CARDS, n, to)' = DispatchResult(CARDS, n, to)
      BY <2>2 DEF DispatchResult, HasCard, WithId, AgentForTool, Exact, Longest
    <3> QED
      BY <2>1, <2>2, <3>1, <3>2 DEF Dispatched, Past
  <2> QED
    BY <2>2, <2>3 DEF TypeOK, Imported, Registered, Asserted, Past
<1>8. CASE UNCHANGED vars
  BY <1>8 DEF vars, TypeOK, Imported, Registered, Asserted, Dispatched, Past
<1> QED
  BY <1>1, <1>2, <1>3, <1>4, <1>5, <1>6, <1>7, <1>8 DEF Next

THEOREM BootInvariant == Spec => []IInv
BY InitIInv, StepIInv, PTL DEF Spec

THEOREM RegistryTypes == Spec => []TypeOK
BY BootInvariant, PTL DEF IInv

(***************************************************************************)
(* What holds once the server listens.                                     *)
(***************************************************************************)
LEMMA ListeningFacts ==
  ASSUME IInv, Listening
  PROVE  /\ CARDS \in Cards /\ build \in Build
         /\ Len(CARDS) = 3 /\ DOMAIN CARDS = 1..3
         /\ \A i \in DOMAIN CARDS : CARDS[i] = build.cards[i]
         /\ CrossChecks(CARDS, build.manifest)
         /\ AssertsInvariants(CARDS, DOMAIN TOOL_REGISTRY)
         /\ \A a \in AgentIds : Composes(build, a)
         /\ \A n \in DOMAIN TOOL_REGISTRY :
               /\ n \in Names
               /\ TOOL_REGISTRY[n] \in AgentIds
               /\ n \in build.tools[TOOL_REGISTRY[n]]
<1>1. CARDS \in Cards /\ build \in Build /\ build \in Builds
  BY DEF IInv, TypeOK, Cards
<1>2. Len(CARDS) = 3
  BY <1>1, BuildsAssumption DEF IInv, Registered, Past, Listening
<1>3. DOMAIN CARDS = 1..3
  BY <1>1, <1>2, LenProperties DEF Cards
<1> QED
  BY <1>1, <1>2, <1>3 DEF IInv, TypeOK, Imported, Registered, Asserted, Past, Listening

(* Every tool the server knows has one owner, whatever the order in which *)
(* the cards were registered.                                              *)
LEMMA OneOwnerHolds == IInv => OneOwner
<1> SUFFICES ASSUME IInv, Listening, NEW n \in DOMAIN TOOL_REGISTRY
             PROVE  \E i \in DOMAIN CARDS :
                       /\ CARDS[i].id = AgentForTool(CARDS, n)
                       /\ \E p \in EntriesOf(CARDS[i].prefixes) :
                             /\ Matches(p, n)
                             /\ \A j \in DOMAIN CARDS \ {i} :
                                   \A q \in EntriesOf(CARDS[j].prefixes) :
                                       Matches(q, n) => MoreSpecific(p, q)
  BY DEF OneOwner
<1>1. CARDS \in Cards /\ n \in Names
  BY ListeningFacts
<1>2. PrefixesUnique(CARDS) /\ \E c \in EntriesOf(CARDS) : Claims(c, n)
  BY ListeningFacts DEF AssertsInvariants
<1> QED
  BY <1>1, <1>2, OwnerIsUnique

THEOREM ToolsHaveOneOwner == Spec => []OneOwner
BY BootInvariant, OneOwnerHolds, PTL

(* The registry holds a card for every configured agent: each has its      *)
(* tools composed, hence a manifest entry, hence a card.                   *)
LEMMA EveryAgentHasACard ==
  ASSUME IInv, Listening, NEW a \in AgentIds
  PROVE  \E i \in DOMAIN CARDS : CARDS[i].id = a
<1>1. WithId(build.manifest, a) # {}
  BY ListeningFacts DEF Composes
<1>2. PICK e \in EntriesOf(build.manifest) : e.id = a
  BY <1>1 DEF WithId, EntriesOf
<1>3. HasCard(CARDS, e.id)
  BY ListeningFacts DEF CrossChecks
<1> QED
  BY <1>2, <1>3 DEF HasCard, WithId

(* Three cards and three configured agents: there is no other card. *)
LEMMA OnlyAgentsHaveCards ==
  ASSUME IInv, Listening, NEW i \in DOMAIN CARDS
  PROVE  CARDS[i].id \in AgentIds
<1>1. PICK c \in DOMAIN CARDS : CARDS[c].id = "core"
  BY EveryAgentHasACard DEF AgentIds
<1>2. PICK w \in DOMAIN CARDS : CARDS[w].id = "wallet"
  BY EveryAgentHasACard DEF AgentIds
<1>3. PICK d \in DOMAIN CARDS : CARDS[d].id = "defi"
  BY EveryAgentHasACard DEF AgentIds
<1>4. c # w /\ c # d /\ w # d
  BY <1>1, <1>2, <1>3
<1>5. i = c \/ i = w \/ i = d
  BY <1>4, ListeningFacts
<1> QED
  BY <1>1, <1>2, <1>3, <1>5 DEF AgentIds

LEMMA RoutersAgreeHolds == IInv => RoutersAgree
<1> SUFFICES ASSUME IInv, Listening
             PROVE  /\ \A id \in Targets \cup AgentIds : HasCard(CARDS, id) <=> Addressable(id)
                    /\ RoutingGuide \subseteq SpecialistIds
  BY DEF RoutersAgree
<1>1. ASSUME NEW id, HasCard(CARDS, id) PROVE Addressable(id)
  BY <1>1, OnlyAgentsHaveCards DEF HasCard, WithId, Addressable
<1>2. ASSUME NEW id, Addressable(id) PROVE HasCard(CARDS, id)
  BY <1>2, EveryAgentHasACard DEF HasCard, WithId, Addressable, AgentIds
<1>3. RoutingGuide \subseteq SpecialistIds
  BY OnlyAgentsHaveCards DEF RoutingGuide, EntriesOf, SpecialistIds
<1> QED
  BY <1>1, <1>2, <1>3

THEOREM RoutersAlwaysAgree == Spec => []RoutersAgree
BY BootInvariant, RoutersAgreeHolds, PTL

(* A tool matches an entry of the card of the agent that composed it; on a *)
(* clean build no entry of another card can match it too.                  *)
LEMMA ComposedGoesHomeHolds == IInv => ComposedGoesHome
<1> SUFFICES ASSUME IInv, Listening, Clean(build), NEW n \in DOMAIN TOOL_REGISTRY
             PROVE  AgentForTool(CARDS, n) = TOOL_REGISTRY[n]
  BY DEF ComposedGoesHome
<1> DEFINE a == TOOL_REGISTRY[n]
<1>1. a \in AgentIds /\ n \in Names /\ n \in build.tools[a] /\ CARDS \in Cards
  BY ListeningFacts
<1>2. PICK i \in DOMAIN CARDS : CARDS[i].id = a
  BY <1>1, EveryAgentHasACard
<1>3. PICK e \in DOMAIN build.manifest : WithId(build.manifest, a) = {e}
  <2>1. WithId(build.manifest, a) # {}
    BY <1>1, ListeningFacts DEF Composes
  <2> QED
    BY <2>1 DEF WithId, Clean
<1>4. e \in Nat
  BY ListeningFacts, LenProperties DEF Build
<1>5. First(WithId(build.manifest, a)) = e /\ Last(WithId(build.manifest, a)) = e
  BY <1>3, <1>4, FirstOfOne
<1>6. Claims(build.manifest[e], n)
  BY <1>1, <1>5, ListeningFacts DEF Composes
<1>7. CARDS[i].prefixes = build.manifest[e].prefixes
  BY <1>2, <1>5, ListeningFacts DEF CrossChecks, EntriesOf
<1>8. Claims(CARDS[i], n)
  BY <1>6, <1>7 DEF Claims
<1>9. \A j \in DOMAIN CARDS \ {i} : ~Claims(CARDS[j], n)
  <2> SUFFICES ASSUME NEW j \in DOMAIN CARDS, j # i, Claims(CARDS[j], n)
               PROVE  FALSE
    OBVIOUS
  <2>1. PICK p \in EntriesOf(CARDS[i].prefixes) : Matches(p, n)
    BY <1>8 DEF Claims
  <2>2. PICK q \in EntriesOf(CARDS[j].prefixes) : Matches(q, n)
    BY DEF Claims
  <2>3. p \in Prefix /\ q \in Prefix
    BY <1>1, <2>1, <2>2, EntryTypes
  <2>4. Overlap(p, q) \/ Overlap(q, p)
    BY <1>1, <2>1, <2>2, <2>3, MatchingOverlap
  <2>5. CARDS[i] = build.cards[i] /\ CARDS[j] = build.cards[j]
        /\ i \in DOMAIN build.cards /\ j \in DOMAIN build.cards
    <3>1. build \in Builds /\ build.cards \in Seq(Card)
      BY ListeningFacts, BuildParts DEF IInv
    <3>2. DOMAIN build.cards = 1..3
      BY <3>1, BuildsAssumption, LenProperties
    <3> QED
      BY <3>2, ListeningFacts
  <2> QED
    BY <2>1, <2>2, <2>4, <2>5 DEF Clean
<1> QED
  BY <1>1, <1>2, <1>8, <1>9, OnlyClaimant, ListeningFacts DEF AssertsInvariants

THEOREM ComposedToolsGoHome == Spec => []ComposedGoesHome
BY BootInvariant, ComposedGoesHomeHolds, PTL

(* A tool dispatched to Core matched an entry of Core's card, and that     *)
(* card has one entry.                                                     *)
LEMMA AgentForToolClaims ==
  ASSUME NEW cards \in Cards, NEW n \in Names, AgentForTool(cards, n) # NoAgent
  PROVE  \E i \in DOMAIN cards : cards[i].id = AgentForTool(cards, n) /\ Claims(cards[i], n)
<1>1. Exact(cards, n) \subseteq Nat /\ Longest(cards, n) \subseteq Nat
  BY EntryTypes DEF Exact, Longest
<1>2. CASE Exact(cards, n) # {}
  <2>1. First(Exact(cards, n)) \in Exact(cards, n)
    BY <1>1, <1>2, FirstOfNats
  <2> QED
    BY <1>2, <2>1 DEF AgentForTool, Exact, Claims, Matches
<1>3. CASE Exact(cards, n) = {}
  <2>1. First(Longest(cards, n)) \in Longest(cards, n)
    BY <1>1, <1>3, FirstOfNats DEF AgentForTool
  <2> QED
    BY <1>3, <2>1 DEF AgentForTool, Longest, Claims
<1> QED
  BY <1>2, <1>3

LEMMA CoreGetsOnlyItsOwnHolds == IInv => CoreGetsOnlyItsOwn
<1> SUFFICES ASSUME IInv, routed # << >>, routed.result.agent = "core"
             PROVE  Matches(CoreFamily, routed.tool)
  BY DEF CoreGetsOnlyItsOwn
<1> DEFINE n == routed.tool
<1>1. Listening /\ n \in Names /\ routed.result = DispatchResult(CARDS, n, routed.to)
  BY DEF IInv, Dispatched, Past, Listening
<1>2. CASE n = Handoff
  <2>0. n = <<"core", "handoff">>
    BY <1>2 DEF Handoff
  <2>1. Len(n) = 2 /\ n[1] = "core" /\ n[2] = "handoff"
    <3> HIDE DEF n
    <3> QED
      BY <2>0
  <2>2. /\ SubSeq(n, 1, 1) \in Seq({"core"})
        /\ Len(SubSeq(n, 1, 1)) = 1
        /\ SubSeq(n, 1, 1)[1] = "core"
    <3> HIDE DEF n
    <3>1. \A i \in 1..1 : n[i] \in {"core"}
      <4> HIDE DEF n
      <4>1. \A i \in 1..1 : i = 1
        OBVIOUS
      <4> QED
        BY <2>1, <4>1
    <3> QED
      BY <2>1, <3>1, SubSeqProperties
  <2>3. SubSeq(n, 1, 1) = <<"core">>
    <3> DEFINE s == SubSeq(n, 1, 1)
               t == <<"core">>
    <3>1. s \in Seq({"core"}) /\ t \in Seq({"core"}) /\ Len(s) = 1 /\ Len(t) = 1
          /\ s[1] = "core" /\ t[1] = "core"
      BY <2>2
    <3>2. \A i \in 1..Len(s) : s[i] = t[i]
      BY <3>1
    <3>3. s = t
      <4> HIDE DEF s, t
      <4> QED
        BY <3>1, <3>2, SeqEqual
    <3> QED
      BY <3>3
  <2> QED
    BY <2>1, <2>3 DEF Matches, CoreFamily
<1>3. CASE n # Handoff
  <2>1. AgentForTool(CARDS, n) = "core" /\ AgentForTool(CARDS, n) # NoAgent
    BY <1>1, <1>3 DEF DispatchResult, NoAgent
  <2>2. PICK i \in DOMAIN CARDS : CARDS[i].id = "core" /\ Claims(CARDS[i], n)
    BY <1>1, <2>1, AgentForToolClaims, ListeningFacts
  <2>3. CARDS[i].prefixes = <<CoreFamily>>
    BY <1>1, <2>2, ListeningFacts DEF AssertsInvariants, CoreIsolated, EntriesOf
  <2>4. EntriesOf(<<CoreFamily>>) = {CoreFamily}
    BY DEF EntriesOf
  <2> QED
    BY <2>2, <2>3, <2>4 DEF Claims
<1> QED
  BY <1>2, <1>3

THEOREM CoreKeepsToItself == Spec => []CoreGetsOnlyItsOwn
BY BootInvariant, CoreGetsOnlyItsOwnHolds, PTL

-----------------------------------------------------------------------------
(* The requests that bring an agent its turns.                             *)

(* Where a request that is being served is, and what it waits for; a turn  *)
(* that runs has a watermark.                                              *)
TurnsPlaced ==
  \A r \in Requests :
    /\ Active(r) => at[r] \in Sessions
    /\ pc[r] = "waiting" /\ kind[r] = "continue" => target[r] \in Conversations
    /\ pc[r] = "running" => lastPersisted[at[r]] # Undefined

RequestsBase == RequestsTypeOK /\ TurnsPlaced

(* What a step leaves of the transcripts when it only adds to them.        *)
Grown ==
  /\ messages' \in [Sessions -> Seq(Requests)]
  /\ \A s \in Sessions : Len(messages[s]) =< Len(messages'[s])

(* A message appended.                                                     *)
LEMMA GrowByOne ==
  ASSUME RequestsTypeOK, NEW s \in Sessions, NEW r \in Requests,
         messages' = messages \/ messages' = [messages EXCEPT ![s] = Append(@, r)]
  PROVE  Grown
<1>1. messages \in [Sessions -> Seq(Requests)] /\ \A q \in Sessions : messages[q] \in Seq(Requests)
  BY DEF RequestsTypeOK
<1>2. \A q \in Sessions : Len(messages[q]) \in Nat
  BY <1>1
<1>3. CASE messages' = messages
  BY <1>1, <1>2, <1>3 DEF Grown
<1>4. CASE messages' = [messages EXCEPT ![s] = Append(@, r)]
  <2>1. Append(messages[s], r) \in Seq(Requests) /\ Len(Append(messages[s], r)) = Len(messages[s]) + 1
    BY <1>1
  <2>2. \A q \in Sessions : messages'[q] = IF q = s THEN Append(messages[s], r) ELSE messages[q]
    BY <1>1, <1>4
  <2>3. messages' \in [Sessions -> Seq(Requests)]
    BY <1>1, <1>4, <2>1
  <2>4. QED
    BY <1>2, <2>1, <2>2, <2>3 DEF Grown
<1>5. QED
  BY <1>3, <1>4

(* What a handler does before its first await.                             *)
LEMMA AcceptFacts ==
  ASSUME RequestsTypeOK, NEW r \in Requests, NEW req \in ChatRequest, NEW s \in Sessions,
         NEW what \in {"new", "continue", "keep"}, Accept(r, req, s, what)
  PROVE  /\ held' \subseteq Sessions /\ wallet' \in [Sessions -> Wallets \cup {None}]
         /\ Grown
         /\ at' \in [Requests -> Sessions \cup {None}]
         /\ \A q \in Requests : at'[q] = IF q = r THEN s ELSE at[q]
         /\ kind' \in [Requests -> {"new", "continue", "keep", None}]
         /\ \A q \in Requests : kind'[q] = IF q = r THEN what ELSE kind[q]
         /\ sender' \in [Requests -> Wallets \cup {None}]
<1>1. req.wallet_context \in Wallets \cup {None}
  BY DEF ChatRequest
<1>2. Refreshed(wallet[s], req.wallet_context) \in Wallets \cup {None}
  BY <1>1 DEF Refreshed, RequestsTypeOK
<1>3. held' \subseteq Sessions /\ wallet' \in [Sessions -> Wallets \cup {None}]
  BY <1>1, <1>2 DEF Accept, Meet, Create, RequestsTypeOK, Refreshed
<1>4. Grown
  BY GrowByOne DEF Accept
<1>5. QED
  BY <1>2, <1>3, <1>4 DEF Accept, RequestsTypeOK

(* A watermark is seeded once, within the transcript.                      *)
LEMMA SeedFacts ==
  ASSUME RequestsTypeOK, NEW s \in Sessions, Grown,
         NEW n \in Nat, n =< Len(messages'[s]), Seed(s, n)
  PROVE  /\ lastPersisted' \in [Sessions -> Int]
         /\ \A q \in Sessions : lastPersisted'[q] \in Undefined .. Len(messages'[q])
         /\ lastPersisted'[s] # Undefined
         /\ \A q \in Sessions : q # s \/ lastPersisted[q] # Undefined => lastPersisted'[q] = lastPersisted[q]
<1>1. /\ lastPersisted \in [Sessions -> Int]
      /\ \A q \in Sessions : lastPersisted[q] \in Undefined .. Len(messages[q])
      /\ \A q \in Sessions : messages[q] \in Seq(Requests) /\ messages'[q] \in Seq(Requests)
  BY DEF RequestsTypeOK, Grown
<1>2. \A q \in Sessions : /\ Len(messages[q]) \in Nat /\ Len(messages'[q]) \in Nat
                          /\ Len(messages[q]) =< Len(messages'[q])
  BY <1>1 DEF Grown
<1>3. \A q \in Sessions :
        lastPersisted'[q] = IF q = s /\ lastPersisted[q] = Undefined THEN n ELSE lastPersisted[q]
  BY <1>1 DEF Seed
<1>4. lastPersisted' \in [Sessions -> Int]
  BY <1>1 DEF Seed
<1>5. ASSUME NEW q \in Sessions
      PROVE  lastPersisted'[q] \in Undefined .. Len(messages'[q])
  <2>1. lastPersisted[q] \in Undefined .. Len(messages[q]) /\ lastPersisted[q] \in Int
    BY <1>1
  <2>2. /\ Len(messages[q]) \in Nat /\ Len(messages'[q]) \in Nat
        /\ Len(messages[q]) =< Len(messages'[q])
    BY <1>2
  <2>3. CASE q = s /\ lastPersisted[q] = Undefined
    BY <1>3, <2>2, <2>3 DEF Undefined
  <2>4. CASE ~ (q = s /\ lastPersisted[q] = Undefined)
    <3>1. lastPersisted'[q] = lastPersisted[q]
      BY <1>3, <2>4
    <3>2. QED
      BY <2>1, <2>2, <3>1 DEF Undefined
  <2>5. QED
    BY <2>3, <2>4
<1>6. lastPersisted'[s] # Undefined
  BY <1>3 DEF Undefined
<1>7. QED
  BY <1>3, <1>4, <1>5, <1>6

(* The rest of a transcript, from the watermark on.                        *)
LEMMA RestOf ==
  ASSUME NEW m \in Seq(Requests), NEW k \in 0 .. Len(m)
  PROVE  /\ SubSeq(m, k + 1, Len(m)) \in Seq(Requests)
         /\ Len(SubSeq(m, k + 1, Len(m))) = Len(m) - k
         /\ \A i \in 1 .. Len(m) - k : SubSeq(m, k + 1, Len(m))[i] = m[k + i]
<1>1. Len(m) \in Nat /\ \A i \in 1 .. Len(m) : m[i] \in Requests
  OBVIOUS
<1> DEFINE t == SubSeq(m, k + 1, Len(m))
<1>2. t = [i \in 1 .. Len(m) - k |-> m[k + i]]
  BY <1>1
<1> HIDE DEF t
<1>3. \A i \in 1 .. Len(m) - k : t[i] = m[k + i] /\ t[i] \in Requests
  BY <1>1, <1>2
<1>4. Len(m) - k \in Nat
  BY <1>1
<1>5. t \in Seq(Requests) /\ Len(t) = Len(m) - k
  BY <1>2, <1>3, <1>4
<1> USE DEF t
<1>6. QED
  BY <1>3, <1>5

(* A flush writes the rest of the transcript and moves the watermark.      *)
LEMMA FlushFacts ==
  ASSUME RequestsTypeOK, NEW s \in Sessions, Grown, lastPersisted[s] # Undefined, Flush(s)
  PROVE  /\ conversation[s] \in Conversations
         /\ Unflushed(s, messages'[s]) \in Seq(Requests)
         /\ Len(Unflushed(s, messages'[s])) = Len(messages'[s]) - lastPersisted[s]
         /\ \A i \in 1 .. Len(messages'[s]) - lastPersisted[s] :
              Unflushed(s, messages'[s])[i] = messages'[s][lastPersisted[s] + i]
         /\ log' \in [Conversations -> Seq(Requests)]
         /\ lastPersisted' \in [Sessions -> Int]
         /\ \A q \in Sessions : lastPersisted'[q] = IF q = s THEN Len(messages'[s]) ELSE lastPersisted[q]
<1>1. conversation[s] \in Conversations
  BY DEF Flush, RequestsTypeOK
<1>2. messages[s] \in Seq(Requests) /\ messages'[s] \in Seq(Requests)
  BY DEF RequestsTypeOK, Grown
<1>3. Len(messages[s]) \in Nat /\ Len(messages'[s]) \in Nat /\ Len(messages[s]) =< Len(messages'[s])
  BY <1>2 DEF Grown
<1>4. lastPersisted[s] \in Undefined .. Len(messages[s])
  BY DEF RequestsTypeOK
<1>5. lastPersisted[s] \in 0 .. Len(messages'[s])
  BY <1>3, <1>4 DEF Undefined
<1>6. /\ Unflushed(s, messages'[s]) \in Seq(Requests)
      /\ Len(Unflushed(s, messages'[s])) = Len(messages'[s]) - lastPersisted[s]
      /\ \A i \in 1 .. Len(messages'[s]) - lastPersisted[s] :
           Unflushed(s, messages'[s])[i] = messages'[s][lastPersisted[s] + i]
  BY <1>2, <1>5, RestOf DEF Unflushed
<1>7. log[conversation[s]] \in Seq(Requests) /\ log \in [Conversations -> Seq(Requests)]
  BY <1>1 DEF RequestsTypeOK
<1>8. log' = [log EXCEPT ![conversation[s]] = log[conversation[s]] \o Unflushed(s, messages'[s])]
  BY DEF Flush
<1>9. log[conversation[s]] \o Unflushed(s, messages'[s]) \in Seq(Requests)
  BY <1>6, <1>7
<1>10. log' \in [Conversations -> Seq(Requests)]
  BY <1>7, <1>8, <1>9
<1>11. lastPersisted' = [lastPersisted EXCEPT ![s] = Len(messages'[s])] /\ lastPersisted \in [Sessions -> Int]
  BY DEF Flush, NewWatermark, RequestsTypeOK
<1>12. QED
  BY <1>1, <1>3, <1>6, <1>10, <1>11

(* A flush, or none, of a turn that runs.                                  *)
LEMMA PersistFacts ==
  ASSUME RequestsTypeOK, NEW s \in Sessions, Grown, lastPersisted[s] # Undefined,
         Flush(s) \/ NoFlush
  PROVE  /\ log' \in [Conversations -> Seq(Requests)]
         /\ lastPersisted' \in [Sessions -> Int]
         /\ \A q \in Sessions : /\ lastPersisted'[q] \in Undefined .. Len(messages'[q])
                                /\ lastPersisted[q] # Undefined => lastPersisted'[q] # Undefined
                                /\ lastPersisted'[q] >= lastPersisted[q]
<1>1. /\ lastPersisted \in [Sessions -> Int] /\ log \in [Conversations -> Seq(Requests)]
      /\ \A q \in Sessions : lastPersisted[q] \in Undefined .. Len(messages[q])
      /\ \A q \in Sessions : messages[q] \in Seq(Requests) /\ messages'[q] \in Seq(Requests)
  BY DEF RequestsTypeOK, Grown
<1>2. \A q \in Sessions : /\ Len(messages[q]) \in Nat /\ Len(messages'[q]) \in Nat
                          /\ Len(messages[q]) =< Len(messages'[q])
  BY <1>1 DEF Grown
<1>3. CASE Flush(s)
  <2>1. /\ log' \in [Conversations -> Seq(Requests)]
        /\ lastPersisted' \in [Sessions -> Int]
        /\ \A q \in Sessions : lastPersisted'[q] = IF q = s THEN Len(messages'[s]) ELSE lastPersisted[q]
    BY <1>3, FlushFacts
  <2>2. ASSUME NEW q \in Sessions
        PROVE  /\ lastPersisted'[q] \in Undefined .. Len(messages'[q])
               /\ lastPersisted[q] # Undefined => lastPersisted'[q] # Undefined
               /\ lastPersisted'[q] >= lastPersisted[q]
    <3>1. lastPersisted[q] \in Undefined .. Len(messages[q]) /\ lastPersisted[q] \in Int
      BY <1>1
    <3>2. /\ Len(messages[q]) \in Nat /\ Len(messages'[q]) \in Nat
          /\ Len(messages[q]) =< Len(messages'[q])
      BY <1>2
    <3>3. CASE q = s
      BY <2>1, <3>1, <3>2, <3>3 DEF Undefined
    <3>4. CASE q # s
      <4>1. lastPersisted'[q] = lastPersisted[q]
        BY <2>1, <3>4
      <4>2. QED
        BY <3>1, <3>2, <4>1 DEF Undefined
    <3>5. QED
      BY <3>3, <3>4
  <2>3. QED
    BY <2>1, <2>2
<1>4. CASE NoFlush
  BY <1>1, <1>2, <1>4 DEF NoFlush, Undefined
<1>5. QED
  BY <1>3, <1>4

(* A transcript read back is put in front.                                 *)
LEMMA GrowInFront ==
  ASSUME RequestsTypeOK, NEW s \in Sessions, NEW m \in Seq(Requests),
         messages' = [messages EXCEPT ![s] = m \o @]
  PROVE  Grown /\ Len(m) \in Nat /\ Len(m) =< Len(messages'[s])
<1>1. messages \in [Sessions -> Seq(Requests)] /\ \A q \in Sessions : messages[q] \in Seq(Requests)
  BY DEF RequestsTypeOK
<1>2. m \o messages[s] \in Seq(Requests) /\ Len(m \o messages[s]) = Len(m) + Len(messages[s])
  BY <1>1
<1>3. Len(m) \in Nat /\ \A q \in Sessions : Len(messages[q]) \in Nat
  BY <1>1
<1>4. \A q \in Sessions : messages'[q] = IF q = s THEN m \o messages[s] ELSE messages[q]
  BY <1>1
<1>5. messages' \in [Sessions -> Seq(Requests)]
  BY <1>1, <1>2
<1>6. QED
  BY <1>2, <1>3, <1>4, <1>5 DEF Grown

(* A watermark stays within a transcript that grows.                       *)
LEMMA WatermarkStays ==
  ASSUME RequestsTypeOK, Grown
  PROVE  \A q \in Sessions : lastPersisted[q] \in Undefined .. Len(messages'[q])
<1> SUFFICES ASSUME NEW q \in Sessions PROVE lastPersisted[q] \in Undefined .. Len(messages'[q])
  OBVIOUS
<1>1. messages[q] \in Seq(Requests) /\ messages'[q] \in Seq(Requests)
      /\ Len(messages[q]) =< Len(messages'[q])
  BY DEF RequestsTypeOK, Grown
<1>2. lastPersisted[q] \in Undefined .. Len(messages[q])
  BY DEF RequestsTypeOK
<1>3. QED
  BY <1>1, <1>2 DEF Undefined

(* At the start nobody is served.                                          *)
LEMMA RequestsInitBase == RequestsInit => RequestsBase
<1> SUFFICES ASSUME RequestsInit PROVE RequestsBase
  OBVIOUS
<1>1. << >> \in Seq(Requests) /\ Len(<< >>) = 0
  OBVIOUS
<1>2. 0 \in 0 .. MaxReplies /\ Undefined \in Undefined .. 0 /\ Undefined \in Int
  BY BoundsAssumption DEF Undefined
<1>3. RequestsTypeOK
  BY <1>1, <1>2 DEF RequestsInit, RequestsTypeOK
<1>4. QED
  BY <1>3 DEF RequestsInit, RequestsBase, TurnsPlaced, Active

(* A step in which nothing a running turn relies on is taken away.         *)
LEMMA PlacesStay ==
  ASSUME TurnsPlaced, RequestsTypeOK, NEW r \in Requests,
         \A q \in Requests : q # r =>
           /\ pc'[q] = pc[q] /\ at'[q] = at[q] /\ kind'[q] = kind[q] /\ target'[q] = target[q],
         \A s \in Sessions : lastPersisted[s] # Undefined => lastPersisted'[s] # Undefined,
         pc'[r] \in {"waiting", "running"} => at'[r] \in Sessions,
         pc'[r] = "waiting" /\ kind'[r] = "continue" => target'[r] \in Conversations,
         pc'[r] = "running" => lastPersisted'[at'[r]] # Undefined
  PROVE  TurnsPlaced'
<1>1. ASSUME NEW q \in Requests
      PROVE  /\ pc'[q] \in {"waiting", "running"} => at'[q] \in Sessions
             /\ pc'[q] = "waiting" /\ kind'[q] = "continue" => target'[q] \in Conversations
             /\ pc'[q] = "running" => lastPersisted'[at'[q]] # Undefined
  BY DEF TurnsPlaced, Active
<1>2. QED
  BY <1>1 DEF TurnsPlaced, Active

(* Each step of the client, the handlers and the database keeps the types. *)
LEMMA RequestsBaseStep ==
  ASSUME RequestsBase, [RequestsNext]_requestVars
  PROVE  RequestsBase'
<1>a. RequestsTypeOK /\ TurnsPlaced
  BY DEF RequestsBase
<1>b. /\ pc \in [Requests -> {"new", "refused", "waiting", "running", "saved", "unsaved"}]
      /\ at \in [Requests -> Sessions \cup {None}]
      /\ kind \in [Requests -> {"new", "continue", "keep", None}]
      /\ target \in [Requests -> Conversations \cup {None}]
      /\ conversation \in [Sessions -> Conversations \cup {None}]
      /\ messages \in [Sessions -> Seq(Requests)]
  BY <1>a DEF RequestsTypeOK
<1>c. \A s \in Sessions : Len(messages[s]) \in Nat /\ messages[s] \in Seq(Requests)
  BY <1>b
<1>1. ASSUME NEW r \in Requests, Refuse(r) PROVE RequestsBase'
  <2>1. Goto(r, "refused") /\ UNCHANGED <<session, database, at, kind, target, sender, replies>>
    BY <1>1 DEF Refuse
  <2>2. RequestsTypeOK'
    BY <1>a, <2>1 DEF RequestsTypeOK, Goto, session, database
  <2>3. TurnsPlaced'
    BY <1>a, <1>b, <2>1, PlacesStay DEF Goto, session
  <2>4. QED
    BY <2>2, <2>3 DEF RequestsBase
<1>2. ASSUME NEW r \in Requests, NEW req \in ChatRequest, NEW s \in Sessions, Keep(r, req, s)
      PROVE  RequestsBase'
  <2>1. /\ Accept(r, req, s, "keep") /\ Seed(s, Len(messages'[s])) /\ Begin(r)
        /\ UNCHANGED <<conversation, database, replies>>
    BY <1>2 DEF Keep
  <2>2. /\ held' \subseteq Sessions /\ wallet' \in [Sessions -> Wallets \cup {None}]
        /\ Grown
        /\ at' \in [Requests -> Sessions \cup {None}]
        /\ \A q \in Requests : at'[q] = IF q = r THEN s ELSE at[q]
        /\ kind' \in [Requests -> {"new", "continue", "keep", None}]
        /\ \A q \in Requests : kind'[q] = IF q = r THEN "keep" ELSE kind[q]
        /\ sender' \in [Requests -> Wallets \cup {None}]
    BY <1>a, <2>1, AcceptFacts
  <2>3. Len(messages'[s]) \in Nat /\ Len(messages'[s]) =< Len(messages'[s])
    BY <2>2 DEF Grown
  <2>4. /\ lastPersisted' \in [Sessions -> Int]
        /\ \A q \in Sessions : lastPersisted'[q] \in Undefined .. Len(messages'[q])
        /\ lastPersisted'[s] # Undefined
        /\ \A q \in Sessions : lastPersisted[q] # Undefined => lastPersisted'[q] # Undefined
    BY <1>a, <2>1, <2>2, <2>3, SeedFacts
  <2>5. /\ pc' = [pc EXCEPT ![r] = "running"] /\ target' = [target EXCEPT ![r] = conversation'[s]]
        /\ conversation' = conversation
    BY <2>1, <2>2 DEF Begin, Goto
  <2>6. conversation[s] \in Conversations \cup {None}
    BY <1>b
  <2>7. RequestsTypeOK'
    BY <1>a, <2>1, <2>2, <2>4, <2>5, <2>6 DEF RequestsTypeOK, Grown, database
  <2>8. \A q \in Requests : q # r =>
          /\ pc'[q] = pc[q] /\ at'[q] = at[q] /\ kind'[q] = kind[q] /\ target'[q] = target[q]
    BY <1>b, <2>2, <2>5
  <2>9. pc'[r] = "running" /\ at'[r] = s
    BY <1>b, <2>2, <2>5
  <2>10. TurnsPlaced'
    BY <1>a, <2>4, <2>8, <2>9, PlacesStay
  <2>11. QED
    BY <2>7, <2>10 DEF RequestsBase
<1>3. ASSUME NEW r \in Requests, NEW req \in ChatRequest, NEW s \in Sessions, PostContinue(r, req, s)
      PROVE  RequestsBase'
  <2>1. /\ Accept(r, req, s, "continue") /\ Goto(r, "waiting") /\ req.conversation_id # None
        /\ target' = [target EXCEPT ![r] = req.conversation_id]
        /\ UNCHANGED <<conversation, lastPersisted, database, replies>>
    BY <1>3 DEF PostContinue
  <2>2. /\ held' \subseteq Sessions /\ wallet' \in [Sessions -> Wallets \cup {None}]
        /\ Grown
        /\ at' \in [Requests -> Sessions \cup {None}]
        /\ \A q \in Requests : at'[q] = IF q = r THEN s ELSE at[q]
        /\ kind' \in [Requests -> {"new", "continue", "keep", None}]
        /\ \A q \in Requests : kind'[q] = IF q = r THEN "continue" ELSE kind[q]
        /\ sender' \in [Requests -> Wallets \cup {None}]
    BY <1>a, <2>1, AcceptFacts
  <2>3. req.conversation_id \in Conversations
    BY <2>1 DEF ChatRequest
  <2>4. \A q \in Sessions : lastPersisted[q] \in Undefined .. Len(messages'[q])
    BY <1>a, <1>c, <2>2, WatermarkStays
  <2>5. RequestsTypeOK'
    BY <1>a, <2>1, <2>2, <2>3, <2>4 DEF RequestsTypeOK, Grown, Goto, database
  <2>6. \A q \in Requests : q # r =>
          /\ pc'[q] = pc[q] /\ at'[q] = at[q] /\ kind'[q] = kind[q] /\ target'[q] = target[q]
    BY <1>b, <2>1, <2>2 DEF Goto
  <2>7. pc'[r] = "waiting" /\ at'[r] = s /\ target'[r] \in Conversations
    BY <1>b, <2>1, <2>2, <2>3 DEF Goto
  <2>8. TurnsPlaced'
    BY <1>a, <2>1, <2>6, <2>7, PlacesStay
  <2>9. QED
    BY <2>5, <2>8 DEF RequestsBase
<1>4. ASSUME NEW r \in Requests, NEW req \in ChatRequest, NEW s \in Sessions, PostNew(r, req, s)
      PROVE  RequestsBase'
  <2>1. /\ Accept(r, req, s, "new") /\ Goto(r, "waiting")
        /\ UNCHANGED <<conversation, lastPersisted, database, target, replies>>
    BY <1>4 DEF PostNew
  <2>2. /\ held' \subseteq Sessions /\ wallet' \in [Sessions -> Wallets \cup {None}]
        /\ Grown
        /\ at' \in [Requests -> Sessions \cup {None}]
        /\ \A q \in Requests : at'[q] = IF q = r THEN s ELSE at[q]
        /\ kind' \in [Requests -> {"new", "continue", "keep", None}]
        /\ \A q \in Requests : kind'[q] = IF q = r THEN "new" ELSE kind[q]
        /\ sender' \in [Requests -> Wallets \cup {None}]
    BY <1>a, <2>1, AcceptFacts
  <2>3. \A q \in Sessions : lastPersisted[q] \in Undefined .. Len(messages'[q])
    BY <1>a, <1>c, <2>2, WatermarkStays
  <2>4. RequestsTypeOK'
    BY <1>a, <2>1, <2>2, <2>3 DEF RequestsTypeOK, Grown, Goto, database
  <2>5. \A q \in Requests : q # r =>
          /\ pc'[q] = pc[q] /\ at'[q] = at[q] /\ kind'[q] = kind[q] /\ target'[q] = target[q]
    BY <1>b, <2>1, <2>2 DEF Goto
  <2>6. pc'[r] = "waiting" /\ at'[r] = s /\ kind'[r] = "new"
    BY <1>b, <2>1, <2>2 DEF Goto
  <2>7. TurnsPlaced'
    BY <1>a, <2>1, <2>5, <2>6, PlacesStay
  <2>8. QED
    BY <2>4, <2>7 DEF RequestsBase
<1>5. ASSUME NEW r \in Requests, Loaded(r) PROVE RequestsBase'
  <2>1. /\ pc[r] = "waiting" /\ kind[r] = "continue"
        /\ messages' = [messages EXCEPT ![at[r]] = log[target[r]] \o @]
        /\ conversation' = [conversation EXCEPT ![at[r]] = target[r]]
        /\ Seed(at[r], Len(log[target[r]])) /\ Begin(r)
        /\ UNCHANGED <<held, wallet, at, database, kind, sender, replies>>
    BY <1>5 DEF Loaded
  <2>2. at[r] \in Sessions /\ target[r] \in Conversations
    BY <1>a, <2>1 DEF TurnsPlaced, Active
  <2>3. log[target[r]] \in Seq(Requests)
    BY <1>a, <2>2 DEF RequestsTypeOK
  <2>4. Grown /\ Len(log[target[r]]) \in Nat /\ Len(log[target[r]]) =< Len(messages'[at[r]])
    BY <1>a, <2>1, <2>2, <2>3, GrowInFront
  <2>5. /\ lastPersisted' \in [Sessions -> Int]
        /\ \A q \in Sessions : lastPersisted'[q] \in Undefined .. Len(messages'[q])
        /\ lastPersisted'[at[r]] # Undefined
        /\ \A q \in Sessions : lastPersisted[q] # Undefined => lastPersisted'[q] # Undefined
    BY <1>a, <2>1, <2>2, <2>4, SeedFacts
  <2>6. /\ pc' = [pc EXCEPT ![r] = "running"] /\ target' = [target EXCEPT ![r] = conversation'[at[r]]]
        /\ conversation'[at[r]] = target[r] /\ conversation' \in [Sessions -> Conversations \cup {None}]
    BY <1>b, <2>1, <2>2 DEF Begin, Goto
  <2>7. RequestsTypeOK'
    BY <1>a, <2>1, <2>2, <2>4, <2>5, <2>6 DEF RequestsTypeOK, Grown, database
  <2>8. TurnsPlaced'
    BY <1>a, <1>b, <2>1, <2>2, <2>5, <2>6, PlacesStay
  <2>9. QED
    BY <2>7, <2>8 DEF RequestsBase
<1>6. ASSUME NEW r \in Requests, NEW c \in Conversations, ConversationCreated(r, c) PROVE RequestsBase'
  <2>1. /\ pc[r] = "waiting"
        /\ owner' = [owner EXCEPT ![c] = sender[r]]
        /\ conversation' = [conversation EXCEPT ![at[r]] = c]
        /\ Seed(at[r], 0) /\ Begin(r)
        /\ UNCHANGED <<held, wallet, messages, at, deleted, log, kind, sender, replies>>
    BY <1>6 DEF ConversationCreated, TakesNew
  <2>2. at[r] \in Sessions
    BY <1>a, <2>1 DEF TurnsPlaced, Active
  <2>3. Grown /\ 0 =< Len(messages'[at[r]])
    BY <1>b, <1>c, <2>1, <2>2 DEF Grown
  <2>4. /\ lastPersisted' \in [Sessions -> Int]
        /\ \A q \in Sessions : lastPersisted'[q] \in Undefined .. Len(messages'[q])
        /\ lastPersisted'[at[r]] # Undefined
        /\ \A q \in Sessions : lastPersisted[q] # Undefined => lastPersisted'[q] # Undefined
    BY <1>a, <2>1, <2>2, <2>3, SeedFacts
  <2>5. /\ pc' = [pc EXCEPT ![r] = "running"] /\ target' = [target EXCEPT ![r] = conversation'[at[r]]]
        /\ conversation'[at[r]] = c /\ conversation' \in [Sessions -> Conversations \cup {None}]
    BY <1>b, <2>1, <2>2 DEF Begin, Goto
  <2>6. RequestsTypeOK'
    BY <1>a, <2>1, <2>2, <2>3, <2>4, <2>5 DEF RequestsTypeOK, Grown
  <2>7. TurnsPlaced'
    BY <1>a, <1>b, <2>1, <2>2, <2>4, <2>5, PlacesStay
  <2>8. QED
    BY <2>6, <2>7 DEF RequestsBase
<1>7. ASSUME NEW r \in Requests, PostFails(r) PROVE RequestsBase'
  <2>1. /\ pc[r] = "waiting" /\ Goto(r, "unsaved") /\ target' = [target EXCEPT ![r] = None]
        /\ UNCHANGED <<session, database, at, kind, sender, replies>>
    BY <1>7 DEF PostFails
  <2>2. RequestsTypeOK'
    BY <1>a, <2>1 DEF RequestsTypeOK, Goto, session, database
  <2>3. TurnsPlaced'
    BY <1>a, <1>b, <2>1, PlacesStay DEF Goto, session
  <2>4. QED
    BY <2>2, <2>3 DEF RequestsBase
<1>8. ASSUME NEW r \in Requests, Reply(r) PROVE RequestsBase'
  <2>1. /\ pc[r] = "running" /\ replies[r] < MaxReplies
        /\ replies' = [replies EXCEPT ![r] = replies[r] + 1]
        /\ messages' = [messages EXCEPT ![at[r]] = Append(@, r)]
        /\ Flush(at[r]) \/ NoFlush
        /\ UNCHANGED <<held, wallet, conversation, owner, deleted, pc, at, kind, target, sender>>
    BY <1>8 DEF Reply
  <2>2. at[r] \in Sessions /\ lastPersisted[at[r]] # Undefined
    BY <1>a, <2>1 DEF TurnsPlaced, Active
  <2>3. Grown
    BY <1>a, <2>1, <2>2, GrowByOne
  <2>4. /\ log' \in [Conversations -> Seq(Requests)]
        /\ lastPersisted' \in [Sessions -> Int]
        /\ \A q \in Sessions : /\ lastPersisted'[q] \in Undefined .. Len(messages'[q])
                               /\ lastPersisted[q] # Undefined => lastPersisted'[q] # Undefined
    BY <1>a, <2>1, <2>2, <2>3, PersistFacts
  <2>5. replies' \in [Requests -> 0 .. MaxReplies]
    BY <1>a, <2>1, BoundsAssumption DEF RequestsTypeOK
  <2>6. RequestsTypeOK'
    BY <1>a, <2>1, <2>3, <2>4, <2>5 DEF RequestsTypeOK, Grown
  <2>7. TurnsPlaced'
    BY <1>a, <1>b, <2>1, <2>2, <2>4, PlacesStay
  <2>8. QED
    BY <2>6, <2>7 DEF RequestsBase
<1>9. ASSUME NEW r \in Requests, End(r) PROVE RequestsBase'
  <2>1. /\ pc[r] = "running"
        /\ Flush(at[r]) \/ NoFlush
        /\ pc' \in {[pc EXCEPT ![r] = "saved"], [pc EXCEPT ![r] = "unsaved"]}
        /\ UNCHANGED <<messages, held, wallet, conversation, owner, deleted, at, kind, target,
                       sender, replies>>
    BY <1>9 DEF End, Goto
  <2>2. at[r] \in Sessions /\ lastPersisted[at[r]] # Undefined
    BY <1>a, <2>1 DEF TurnsPlaced, Active
  <2>3. Grown
    BY <1>b, <1>c, <2>1 DEF Grown
  <2>4. /\ log' \in [Conversations -> Seq(Requests)]
        /\ lastPersisted' \in [Sessions -> Int]
        /\ \A q \in Sessions : /\ lastPersisted'[q] \in Undefined .. Len(messages'[q])
                               /\ lastPersisted[q] # Undefined => lastPersisted'[q] # Undefined
    BY <1>a, <2>1, <2>2, <2>3, PersistFacts
  <2>5. RequestsTypeOK'
    BY <1>a, <2>1, <2>3, <2>4 DEF RequestsTypeOK, Grown
  <2>6. TurnsPlaced'
    BY <1>a, <1>b, <2>1, <2>2, <2>4, PlacesStay
  <2>7. QED
    BY <2>5, <2>6 DEF RequestsBase
<1>10. ASSUME NEW c \in Conversations, NEW w \in Wallets, Delete(c, w) PROVE RequestsBase'
  <2>1. /\ deleted' = deleted \cup {c} /\ log' = [log EXCEPT ![c] = << >>]
        /\ UNCHANGED <<session, owner, request>>
    BY <1>10 DEF Delete
  <2>2. << >> \in Seq(Requests)
    OBVIOUS
  <2>3. RequestsTypeOK'
    BY <1>a, <2>1, <2>2 DEF RequestsTypeOK, session, request
  <2>4. TurnsPlaced'
    BY <1>a, <2>1 DEF TurnsPlaced, Active, session, request
  <2>5. QED
    BY <2>3, <2>4 DEF RequestsBase
<1>11. ASSUME NEW s \in Sessions, Forget(s) PROVE RequestsBase'
  BY <1>a, <1>11 DEF Forget, RequestsBase, RequestsTypeOK, TurnsPlaced, Active, database, request
<1>12. CASE Restart
  <2>1. /\ held' = {} /\ pc' = [r \in Requests |-> IF Active(r) THEN "unsaved" ELSE pc[r]]
        /\ UNCHANGED <<wallet, conversation, messages, lastPersisted, database, at, kind,
                       target, sender, replies>>
    BY <1>12 DEF Restart
  <2>2. pc' \in [Requests -> {"new", "refused", "waiting", "running", "saved", "unsaved"}]
    BY <1>b, <2>1
  <2>3. RequestsTypeOK'
    BY <1>a, <2>1, <2>2 DEF RequestsTypeOK, database
  <2>4. \A r \in Requests : pc'[r] \notin {"waiting", "running"}
    BY <2>1 DEF Active
  <2>5. TurnsPlaced'
    BY <2>4 DEF TurnsPlaced, Active
  <2>6. QED
    BY <2>3, <2>5 DEF RequestsBase
<1>13. CASE UNCHANGED requestVars
  BY <1>a, <1>13 DEF requestVars, session, database, request, RequestsBase, RequestsTypeOK,
                     TurnsPlaced, Active
<1>14. ASSUME NEW r \in Requests, Post(r) PROVE RequestsBase'
  BY <1>1, <1>2, <1>3, <1>4, <1>14 DEF Post, PostRefused, PostAgent, PostOther
<1>15. QED
  BY <1>1, <1>5, <1>6, <1>7, <1>8, <1>9, <1>10, <1>11, <1>12, <1>13, <1>14 DEF RequestsNext, Step

(* Every variable keeps its type, whatever the client does.                *)
THEOREM RequestsTypes == RequestsSpec => []RequestsTypeOK
<1>1. RequestsBase /\ [RequestsNext]_requestVars => RequestsBase'
  BY RequestsBaseStep
<1>2. RequestsBase => RequestsTypeOK
  BY DEF RequestsBase
<1>3. QED
  BY <1>1, <1>2, RequestsInitBase, PTL DEF RequestsSpec

(* What a client that sends one request at a time keeps: one turn at most  *)
(* is on, the session it is in has the wallet of its request, and the      *)
(* conversation it loaded or created is that wallet's.                     *)
HeldHasWallet == \A s \in held : wallet[s] # None

OneActive == \A q, r \in Requests : Active(q) /\ Active(r) => q = r

TurnsOwn ==
  \A r \in Requests : Active(r) =>
    /\ sender[r] # None /\ wallet[at[r]] = sender[r]
    /\ pc[r] = "running" /\ kind[r] # "keep" =>
         conversation[at[r]] # None /\ owner[conversation[at[r]]] = sender[r]

WalletInv == HeldHasWallet /\ OneActive /\ TurnsOwn

(* A step by which turns only end.                                         *)
LEMMA TurnsEnd ==
  ASSUME WalletInv, held' \subseteq held,
         UNCHANGED <<wallet, conversation, owner, at, kind, sender>>,
         \A q \in Requests : pc'[q] = pc[q] \/ pc'[q] \notin {"waiting", "running"}
  PROVE  WalletInv'
<1>1. \A q \in Requests : Active(q)' => Active(q) /\ pc'[q] = pc[q]
  BY DEF Active
<1>2. HeldHasWallet'
  BY DEF WalletInv, HeldHasWallet
<1>3. OneActive'
  BY <1>1 DEF WalletInv, OneActive
<1>4. TurnsOwn'
  BY <1>1 DEF WalletInv, TurnsOwn
<1>5. QED
  BY <1>2, <1>3, <1>4 DEF WalletInv

(* A step after which r is the one that is served.                         *)
LEMMA OneServed ==
  ASSUME NEW r \in Requests, HeldHasWallet',
         \A q \in Requests : Active(q)' => q = r,
         sender'[r] # None, wallet'[at'[r]] = sender'[r],
         pc'[r] = "running" /\ kind'[r] # "keep" =>
           conversation'[at'[r]] # None /\ owner'[conversation'[at'[r]]] = sender'[r]
  PROVE  WalletInv'
<1>1. OneActive'
  BY DEF OneActive
<1>2. TurnsOwn'
  BY DEF TurnsOwn
<1>3. QED
  BY <1>1, <1>2 DEF WalletInv

(* The wallet a session has when its request is accepted.                  *)
LEMMA AcceptWallet ==
  ASSUME RequestsTypeOK, HeldHasWallet, NEW r \in Requests, NEW req \in ChatRequest,
         NEW s \in Sessions, NEW what, Accept(r, req, s, what)
  PROVE  /\ HeldHasWallet'
         /\ sender'[r] # None /\ at'[r] = s /\ wallet'[s] = sender'[r]
<1>1. /\ wallet \in [Sessions -> Wallets \cup {None}] /\ held \subseteq Sessions
      /\ at \in [Requests -> Sessions \cup {None}] /\ sender \in [Requests -> Wallets \cup {None}]
  BY DEF RequestsTypeOK
<1>2. at'[r] = s /\ sender'[r] = Refreshed(wallet[s], req.wallet_context)
  BY <1>1 DEF Accept
<1>3. CASE Meet(s, req)
  <2>1. /\ s \in held /\ held' = held
        /\ wallet' = [wallet EXCEPT ![s] = Refreshed(wallet[s], req.wallet_context)]
    BY <1>3 DEF Meet
  <2>2. wallet[s] # None /\ Refreshed(wallet[s], req.wallet_context) # None
    BY <2>1 DEF HeldHasWallet, Refreshed
  <2>3. QED
    BY <1>1, <1>2, <2>1, <2>2 DEF HeldHasWallet
<1>4. CASE Create(s, req)
  <2>1. /\ req.wallet_context # None /\ held' = held \cup {s}
        /\ wallet' = [wallet EXCEPT ![s] = req.wallet_context]
        /\ Refreshed(wallet[s], req.wallet_context) = req.wallet_context
    BY <1>4 DEF Create, Refreshed
  <2>2. QED
    BY <1>1, <1>2, <2>1 DEF HeldHasWallet
<1>5. QED
  BY <1>3, <1>4 DEF Accept

(* Each step keeps the wallets apart: a second request waits for the turn. *)
LEMMA WalletStep ==
  ASSUME OneAtATime, RequestsBase, WalletInv, [RequestsNext]_requestVars
  PROVE  WalletInv'
<1>a. RequestsTypeOK /\ TurnsPlaced /\ HeldHasWallet /\ OneActive /\ TurnsOwn
  BY DEF RequestsBase, WalletInv
<1>b. /\ pc \in [Requests -> {"new", "refused", "waiting", "running", "saved", "unsaved"}]
      /\ kind \in [Requests -> {"new", "continue", "keep", None}]
      /\ conversation \in [Sessions -> Conversations \cup {None}]
      /\ owner \in [Conversations -> Wallets \cup {None}]
  BY <1>a DEF RequestsTypeOK
<1>1. ASSUME NEW r \in Requests, Refuse(r) PROVE WalletInv'
  <2>1. /\ pc' = [pc EXCEPT ![r] = "refused"]
        /\ UNCHANGED <<session, database, at, kind, target, sender, replies>>
    BY <1>1 DEF Refuse, Goto
  <2>2. \A q \in Requests : pc'[q] = pc[q] \/ pc'[q] \notin {"waiting", "running"}
    BY <1>b, <2>1
  <2>3. QED
    BY <2>1, <2>2, TurnsEnd DEF session, database
<1>2. ASSUME NEW r \in Requests, NEW req \in ChatRequest, NEW s \in Sessions,
             NEW what \in {"new", "continue", "keep"}, NEW place \in {"waiting", "running"},
             Arrive(r), Accept(r, req, s, what), Goto(r, place),
             what = "keep" \/ place = "waiting"
      PROVE  WalletInv'
  <2>1. HeldHasWallet' /\ sender'[r] # None /\ at'[r] = s /\ wallet'[s] = sender'[r]
    BY <1>2, <1>a, AcceptWallet
  <2>2. \A q \in Requests : ~ Active(q)
    BY <1>2 DEF Arrive
  <2>3. \A q \in Requests : Active(q)' => q = r
    BY <1>b, <1>2, <2>2 DEF Active, Goto
  <2>4. pc'[r] = place /\ kind'[r] = what
    BY <1>b, <1>2 DEF Accept, Goto
  <2>5. QED
    BY <1>2, <2>1, <2>3, <2>4, OneServed
<1>3. ASSUME NEW r \in Requests, NEW req \in ChatRequest, NEW s \in Sessions, Arrive(r),
             \/ PostAgent(r, req, s) \/ PostContinue(r, req, s)
             \/ PostNew(r, req, s) \/ PostOther(r, req, s)
      PROVE  WalletInv'
  <2>1. CASE Keep(r, req, s)
    BY <1>2, <1>3, <2>1 DEF Keep, Begin
  <2>2. CASE PostContinue(r, req, s)
    BY <1>2, <1>3, <2>2 DEF PostContinue
  <2>3. CASE PostNew(r, req, s)
    BY <1>2, <1>3, <2>3 DEF PostNew
  <2>4. QED
    BY <1>3, <2>1, <2>2, <2>3 DEF PostAgent, PostOther
<1>4. ASSUME NEW r \in Requests, Post(r) PROVE WalletInv'
  <2>1. Arrive(r)
    BY <1>4 DEF Post
  <2>2. QED
    BY <1>1, <1>3, <1>4, <2>1 DEF Post, PostRefused
<1>5. ASSUME NEW r \in Requests, Loaded(r) PROVE WalletInv'
  <2>1. /\ pc[r] = "waiting" /\ Found(target[r], sender[r]) /\ kind[r] = "continue"
        /\ conversation' = [conversation EXCEPT ![at[r]] = target[r]]
        /\ pc' = [pc EXCEPT ![r] = "running"]
        /\ UNCHANGED <<held, wallet, at, database, kind, sender>>
    BY <1>5 DEF Loaded, Begin, Goto
  <2>2. at[r] \in Sessions /\ target[r] \in Conversations
    BY <1>a, <2>1 DEF TurnsPlaced, Active
  <2>3. Active(r) /\ sender[r] # None /\ wallet[at[r]] = sender[r]
    BY <1>a, <2>1 DEF TurnsOwn, Active
  <2>4. \A q \in Requests : Active(q)' => q = r
    BY <1>a, <1>b, <2>1, <2>3 DEF OneActive, Active
  <2>5. conversation'[at[r]] = target[r] /\ owner'[target[r]] = sender[r]
    BY <1>b, <2>1, <2>2 DEF Found, database
  <2>6. target[r] # None
    BY <1>a, <2>2, NoneAssumption
  <2>7. HeldHasWallet'
    BY <1>a, <2>1 DEF HeldHasWallet
  <2>8. QED
    BY <2>1, <2>3, <2>4, <2>5, <2>6, <2>7, OneServed
<1>6. ASSUME NEW r \in Requests, NEW c \in Conversations, ConversationCreated(r, c) PROVE WalletInv'
  <2>1. /\ pc[r] = "waiting" /\ pc' = [pc EXCEPT ![r] = "running"]
        /\ owner' = [owner EXCEPT ![c] = sender[r]]
        /\ conversation' = [conversation EXCEPT ![at[r]] = c]
        /\ UNCHANGED <<held, wallet, at, kind, sender>>
    BY <1>6 DEF ConversationCreated, TakesNew, Begin, Goto
  <2>2. at[r] \in Sessions
    BY <1>a, <2>1 DEF TurnsPlaced, Active
  <2>3. Active(r) /\ sender[r] # None /\ wallet[at[r]] = sender[r]
    BY <1>a, <2>1 DEF TurnsOwn, Active
  <2>4. \A q \in Requests : Active(q)' => q = r
    BY <1>a, <1>b, <2>1, <2>3 DEF OneActive, Active
  <2>5. conversation'[at[r]] = c /\ owner'[c] = sender[r] /\ c # None
    BY <1>b, <2>1, <2>2, NoneAssumption
  <2>6. HeldHasWallet'
    BY <1>a, <2>1 DEF HeldHasWallet
  <2>7. QED
    BY <2>1, <2>3, <2>4, <2>5, <2>6, OneServed
<1>7. ASSUME NEW r \in Requests, PostFails(r) PROVE WalletInv'
  <2>1. /\ pc' = [pc EXCEPT ![r] = "unsaved"]
        /\ UNCHANGED <<session, database, at, kind, sender, replies>>
    BY <1>7 DEF PostFails, Goto
  <2>2. \A q \in Requests : pc'[q] = pc[q] \/ pc'[q] \notin {"waiting", "running"}
    BY <1>b, <2>1
  <2>3. QED
    BY <2>1, <2>2, TurnsEnd DEF session, database
<1>8. ASSUME NEW r \in Requests, Reply(r) PROVE WalletInv'
  BY <1>8, TurnsEnd DEF Reply
<1>9. ASSUME NEW r \in Requests, End(r) PROVE WalletInv'
  <2>1. /\ pc' \in {[pc EXCEPT ![r] = "saved"], [pc EXCEPT ![r] = "unsaved"]}
        /\ UNCHANGED <<held, wallet, conversation, owner, at, kind, sender>>
    BY <1>9 DEF End, Goto
  <2>2. \A q \in Requests : pc'[q] = pc[q] \/ pc'[q] \notin {"waiting", "running"}
    BY <1>b, <2>1
  <2>3. QED
    BY <2>1, <2>2, TurnsEnd
<1>10. ASSUME NEW c \in Conversations, NEW w \in Wallets, Delete(c, w) PROVE WalletInv'
  BY <1>10, TurnsEnd DEF Delete, session, request
<1>11. ASSUME NEW s \in Sessions, Forget(s) PROVE WalletInv'
  BY <1>11, TurnsEnd DEF Forget, database, request
<1>12. CASE Restart
  <2>1. \A q \in Requests : pc'[q] = pc[q] \/ pc'[q] \notin {"waiting", "running"}
    BY <1>12 DEF Restart
  <2>2. QED
    BY <1>12, <2>1, TurnsEnd DEF Restart, database
<1>13. CASE UNCHANGED requestVars
  BY <1>13, TurnsEnd DEF requestVars, session, database, request
<1>14. QED
  BY <1>1, <1>4, <1>5, <1>6, <1>7, <1>8, <1>9, <1>10, <1>11, <1>12, <1>13 DEF RequestsNext, Step

(* Every reachable state, of a client that sends one request at a time.    *)
THEOREM WalletInvariant == ASSUME OneAtATime PROVE RequestsSpec => [](RequestsBase /\ WalletInv)
<1>1. RequestsInit => WalletInv
  BY DEF RequestsInit, WalletInv, HeldHasWallet, OneActive, TurnsOwn, Active
<1>2. RequestsBase /\ WalletInv /\ [RequestsNext]_requestVars => (RequestsBase /\ WalletInv)'
  BY RequestsBaseStep, WalletStep
<1>3. QED
  BY <1>1, <1>2, RequestsInitBase, PTL DEF RequestsSpec

(* A turn runs for the wallet of its request and in that wallet's          *)
(* conversation, unless it kept whatever the session had.                  *)
THEOREM TurnsAreTheirWallets == ASSUME OneAtATime PROVE RequestsSpec => []TurnIsItsWallets
<1>1. WalletInv => TurnIsItsWallets
  BY DEF WalletInv, TurnsOwn, TurnIsItsWallets, Active
<1>2. QED
  BY <1>1, WalletInvariant, PTL

(* What a client keeps that names a conversation only without a live       *)
(* session.  A row of a conversation was said in a turn of its owner, or   *)
(* in one that the property excepts; and what a session has not written    *)
(* yet was said in the turn that is on in it, or in turns that ended       *)
(* unsaved: the next flush writes nothing else.                            *)
RowFor(q, w) == sender[q] = w \/ kind[q] = "keep" \/ pc[q] = "unsaved"

Unseeded ==
  /\ \A s \in Sessions : wallet[s] = None => lastPersisted[s] = Undefined
  /\ \A r \in Requests : pc[r] = "waiting" /\ kind[r] = "continue" => lastPersisted[at[r]] = Undefined

Owned == \A s \in Sessions : conversation[s] # None => owner[conversation[s]] # None

LogsOwned ==
  \A c \in Conversations :
    /\ owner[c] = None => log[c] = << >>
    /\ \A n \in 1 .. Len(log[c]) : pc[log[c][n]] # "new" /\ RowFor(log[c][n], owner[c])

RestOfTurn(s, q) == pc[q] = "unsaved" \/ (Active(q) /\ at[q] = s)

RestUnsaved ==
  \A s \in Sessions : \A n \in 1 .. Len(messages[s]) :
    /\ pc[messages[s][n]] # "new"
    /\ n > lastPersisted[s] => RestOfTurn(s, messages[s][n])

RowsInv == Unseeded /\ Owned /\ LogsOwned /\ RestUnsaved

(* What is known of a request once it has come in stays so.                *)
Settled ==
  \A q \in Requests : pc[q] # "new" =>
    /\ pc'[q] # "new" /\ sender'[q] = sender[q] /\ kind'[q] = kind[q] /\ at'[q] = at[q]
    /\ pc[q] = "unsaved" => pc'[q] = "unsaved"

(* Every step leaves it so.                                                *)
LEMMA RequestsSettle ==
  ASSUME RequestsTypeOK, [RequestsNext]_requestVars
  PROVE  Settled
<1>a. /\ pc \in [Requests -> {"new", "refused", "waiting", "running", "saved", "unsaved"}]
      /\ kind \in [Requests -> {"new", "continue", "keep", None}]
      /\ at \in [Requests -> Sessions \cup {None}]
      /\ sender \in [Requests -> Wallets \cup {None}]
  BY DEF RequestsTypeOK
<1>1. ASSUME NEW r \in Requests, NEW place \in {"refused", "waiting", "running", "saved", "unsaved"},
             pc[r] # "unsaved", Goto(r, place), UNCHANGED <<at, kind, sender>>
      PROVE  Settled
  BY <1>a, <1>1 DEF Goto, Settled
<1>2. ASSUME NEW r \in Requests, NEW req, NEW s, NEW what, NEW place \in {"waiting", "running"},
             Arrive(r), Accept(r, req, s, what), Goto(r, place)
      PROVE  Settled
  BY <1>a, <1>2 DEF Arrive, Accept, Goto, Settled
<1>3. ASSUME NEW r \in Requests, Refuse(r) PROVE Settled
  BY <1>1, <1>3 DEF Refuse, Arrive
<1>4. ASSUME NEW r \in Requests, Post(r) PROVE Settled
  <2>1. ASSUME NEW req \in ChatRequest, NEW s \in Sessions, Keep(r, req, s) PROVE Settled
    BY <1>2, <1>4, <2>1 DEF Post, Keep, Begin
  <2>2. ASSUME NEW req \in ChatRequest, NEW s \in Sessions, PostContinue(r, req, s) PROVE Settled
    BY <1>2, <1>4, <2>2 DEF Post, PostContinue
  <2>3. ASSUME NEW req \in ChatRequest, NEW s \in Sessions, PostNew(r, req, s) PROVE Settled
    BY <1>2, <1>4, <2>3 DEF Post, PostNew
  <2>4. QED
    BY <1>3, <1>4, <2>1, <2>2, <2>3 DEF Post, PostRefused, PostAgent, PostOther
<1>5. ASSUME NEW r \in Requests, Loaded(r) PROVE Settled
  BY <1>1, <1>5 DEF Loaded, Begin
<1>6. ASSUME NEW r \in Requests, NEW c \in Conversations, ConversationCreated(r, c) PROVE Settled
  BY <1>1, <1>6 DEF ConversationCreated, Begin
<1>7. ASSUME NEW r \in Requests, PostFails(r) PROVE Settled
  BY <1>1, <1>7 DEF PostFails
<1>8. ASSUME NEW r \in Requests, Reply(r) PROVE Settled
  BY <1>8 DEF Reply, Settled
<1>9. ASSUME NEW r \in Requests, End(r) PROVE Settled
  BY <1>1, <1>9 DEF End
<1>10. ASSUME NEW c \in Conversations, NEW w \in Wallets, Delete(c, w) PROVE Settled
  BY <1>10 DEF Delete, request, Settled
<1>11. ASSUME NEW s \in Sessions, Forget(s) PROVE Settled
  BY <1>11 DEF Forget, request, Settled
<1>12. CASE Restart
  BY <1>12 DEF Restart, Settled, Active
<1>13. CASE UNCHANGED requestVars
  BY <1>13 DEF requestVars, request, Settled
<1>14. QED
  BY <1>3, <1>4, <1>5, <1>6, <1>7, <1>8, <1>9, <1>10, <1>11, <1>12, <1>13 DEF RequestsNext, Step

(* A message appended, element by element.                                 *)
LEMMA AppendElements ==
  ASSUME NEW m \in Seq(Requests), NEW r \in Requests
  PROVE  /\ Len(m) \in Nat /\ \A n \in 1 .. Len(m) : m[n] \in Requests
         /\ Len(Append(m, r)) = Len(m) + 1
         /\ \A n \in 1 .. Len(m) + 1 : Append(m, r)[n] = IF n = Len(m) + 1 THEN r ELSE m[n]
OBVIOUS

(* The same of a concatenation.                                            *)
LEMMA JoinElements ==
  ASSUME NEW l \in Seq(Requests), NEW m \in Seq(Requests)
  PROVE  /\ Len(m) \in Nat /\ Len(l) \in Nat /\ Len(l \o m) = Len(l) + Len(m)
         /\ \A n \in 1 .. Len(m) : m[n] \in Requests
         /\ \A n \in 1 .. Len(l) : l[n] \in Requests
         /\ \A n \in 1 .. Len(l) + Len(m) : (l \o m)[n] = IF n =< Len(l) THEN l[n] ELSE m[n - Len(l)]
OBVIOUS

(* The rows stay those of the owners when nothing is written ...           *)
LEMMA LogsStay ==
  ASSUME RequestsTypeOK, LogsOwned, Settled, log' = log, owner' = owner
  PROVE  LogsOwned'
<1> SUFFICES ASSUME NEW c \in Conversations
             PROVE  /\ owner[c] = None => log[c] = << >>
                    /\ \A n \in 1 .. Len(log[c]) : pc'[log[c][n]] # "new" /\ RowFor(log[c][n], owner[c])'
  BY DEF LogsOwned, RowFor
<1>1. log[c] \in Seq(Requests)
  BY DEF RequestsTypeOK
<1>2. ASSUME NEW n \in 1 .. Len(log[c]) PROVE pc'[log[c][n]] # "new" /\ RowFor(log[c][n], owner[c])'
  <2> PICK q \in Requests : q = log[c][n]
    BY <1>1
  <2>1. pc[q] # "new" /\ RowFor(q, owner[c])
    BY DEF LogsOwned
  <2>2. pc'[q] # "new" /\ (sender'[q] = owner[c] \/ kind'[q] = "keep" \/ pc'[q] = "unsaved")
    BY <2>1 DEF Settled, RowFor
  <2>3. QED
    BY <2>2 DEF RowFor
<1>3. QED
  BY <1>2 DEF LogsOwned

(* ... and when a turn flushes what its session has not written.           *)
LEMMA LogsFlushed ==
  ASSUME RequestsTypeOK, LogsOwned, Owned, Settled, owner' = owner, Grown,
         NEW r \in Requests, pc[r] # "new", NEW s \in Sessions, lastPersisted[s] # Undefined, Flush(s),
         kind[r] # "keep" => owner[conversation[s]] = sender[r],
         \A n \in 1 .. Len(messages'[s]) : n > lastPersisted[s] =>
           messages'[s][n] = r \/ pc[messages'[s][n]] = "unsaved"
  PROVE  LogsOwned'
<1>1. messages'[s] \in Seq(Requests) /\ Len(messages'[s]) \in Nat /\ lastPersisted[s] \in Nat
      /\ messages[s] \in Seq(Requests) /\ log \in [Conversations -> Seq(Requests)]
  BY DEF RequestsTypeOK, Grown, Undefined
<1> DEFINE c0 == conversation[s]
           u == Unflushed(s, messages'[s])
           len == Len(messages'[s]) - lastPersisted[s]
<1>2. /\ c0 \in Conversations /\ u \in Seq(Requests) /\ Len(u) = len
      /\ \A i \in 1 .. len : u[i] = messages'[s][lastPersisted[s] + i]
  BY FlushFacts
<1>3. len \in Nat
  <2>1. Len(messages[s]) =< Len(messages'[s]) /\ lastPersisted[s] =< Len(messages[s]) /\ Len(messages[s]) \in Nat
    BY <1>1 DEF RequestsTypeOK, Grown
  <2>2. QED
    BY <1>1, <2>1
<1>4. log' = [log EXCEPT ![c0] = log[c0] \o u]
  BY DEF Flush
<1>5. c0 # None
  BY DEF Flush
<1>6. owner[c0] # None
  BY <1>5 DEF Owned
<1>7. ASSUME NEW i \in 1 .. len
      PROVE  u[i] \in Requests /\ pc[u[i]] # "new" /\ RowFor(u[i], owner[c0])
  <2>1. u[i] \in Requests
    BY <1>2, <1>3
  <2>2. lastPersisted[s] + i \in 1 .. Len(messages'[s]) /\ lastPersisted[s] + i > lastPersisted[s]
    BY <1>1, <1>3
  <2>3. u[i] = r \/ pc[u[i]] = "unsaved"
    BY <1>2, <2>2
  <2>4. QED
    BY <2>1, <2>3 DEF RowFor
<1> HIDE DEF c0, u, len
<1>8. ASSUME NEW c \in Conversations, NEW n \in 1 .. Len(log'[c])
      PROVE  log'[c][n] \in Requests /\ pc[log'[c][n]] # "new" /\ RowFor(log'[c][n], owner[c])
  <2>1. log[c] \in Seq(Requests)
    BY <1>1
  <2>2. Len(log[c]) \in Nat /\ Len(log[c] \o u) = Len(log[c]) + len
        /\ \A k \in 1 .. Len(log[c]) + len :
             (log[c] \o u)[k] = IF k =< Len(log[c]) THEN log[c][k] ELSE u[k - Len(log[c])]
    BY <1>2, <2>1, JoinElements
  <2>3. \A k \in 1 .. Len(log[c]) : log[c][k] \in Requests /\ pc[log[c][k]] # "new" /\ RowFor(log[c][k], owner[c])
    BY <2>1 DEF LogsOwned
  <2>4. CASE c = c0
    <3>1. log'[c] = log[c] \o u
      BY <1>1, <1>4, <2>4
    <3>2. n \in 1 .. Len(log[c]) + len
      BY <2>2, <3>1
    <3>3. CASE n =< Len(log[c])
      <4>1. log'[c][n] = log[c][n] /\ n \in 1 .. Len(log[c])
        BY <2>2, <3>1, <3>2, <3>3
      <4>2. QED
        BY <2>3, <4>1
    <3>4. CASE n > Len(log[c])
      <4>1. log'[c][n] = u[n - Len(log[c])]
        BY <2>2, <3>1, <3>2, <3>4
      <4>2. n - Len(log[c]) \in 1 .. len
        BY <1>3, <2>2, <3>2, <3>4
      <4>3. QED
        BY <1>7, <2>4, <4>1, <4>2
    <3>5. QED
      BY <2>2, <3>2, <3>3, <3>4
  <2>5. CASE c # c0
    <3>1. log'[c] = log[c]
      BY <1>1, <1>4, <2>5
    <3>2. QED
      BY <2>3, <3>1
  <2>6. QED
    BY <2>4, <2>5
<1>9. ASSUME NEW c \in Conversations, owner[c] = None PROVE log'[c] = << >>
  <2>1. c # c0
    BY <1>6, <1>9
  <2>2. QED
    BY <1>1, <1>4, <1>9, <2>1 DEF LogsOwned
<1>10. ASSUME NEW c \in Conversations, NEW n \in 1 .. Len(log'[c])
       PROVE  pc'[log'[c][n]] # "new" /\ (sender'[log'[c][n]] = owner'[c] \/ kind'[log'[c][n]] = "keep"
                                          \/ pc'[log'[c][n]] = "unsaved")
  <2> PICK q \in Requests : q = log'[c][n] /\ pc[q] # "new" /\ RowFor(q, owner[c])
    BY <1>8
  <2>1. QED
    BY DEF Settled, RowFor
<1>11. QED
  BY <1>9, <1>10 DEF LogsOwned, RowFor

(* What RestUnsaved says of the messages of s after a step.                *)
RestAfter(s) ==
  \A n \in 1 .. Len(messages'[s]) :
    /\ pc'[messages'[s][n]] # "new"
    /\ n > lastPersisted'[s] =>
         \/ pc'[messages'[s][n]] = "unsaved"
         \/ pc'[messages'[s][n]] \in {"waiting", "running"} /\ at'[messages'[s][n]] = s

(* A transcript that stays, or takes a message of the turn that is on.     *)
LEMMA RestKept ==
  ASSUME RequestsTypeOK, RestUnsaved, Settled, NEW s \in Sessions, NEW r \in Requests,
         \/ messages'[s] = messages[s]
         \/ /\ messages'[s] = Append(messages[s], r)
            /\ pc'[r] \in {"waiting", "running"} /\ at'[r] = s,
         lastPersisted'[s] \in Int, lastPersisted'[s] >= lastPersisted[s],
         \A q \in Requests : Active(q) /\ at[q] = s => pc'[q] \in {"waiting", "running", "unsaved"}
  PROVE  RestAfter(s)
<1>1. messages[s] \in Seq(Requests) /\ lastPersisted[s] \in Int
  BY DEF RequestsTypeOK
<1>2. /\ Len(messages[s]) \in Nat /\ \A n \in 1 .. Len(messages[s]) : messages[s][n] \in Requests
      /\ Len(Append(messages[s], r)) = Len(messages[s]) + 1
      /\ \A n \in 1 .. Len(messages[s]) + 1 :
           Append(messages[s], r)[n] = IF n = Len(messages[s]) + 1 THEN r ELSE messages[s][n]
  BY <1>1, AppendElements
<1>3. ASSUME NEW n \in 1 .. Len(messages[s]), messages'[s][n] = messages[s][n]
      PROVE  /\ pc'[messages'[s][n]] # "new"
             /\ n > lastPersisted'[s] =>
                  \/ pc'[messages'[s][n]] = "unsaved"
                  \/ pc'[messages'[s][n]] \in {"waiting", "running"} /\ at'[messages'[s][n]] = s
  <2> PICK q \in Requests : q = messages[s][n]
    BY <1>2
  <2>1. pc[q] # "new" /\ (n > lastPersisted[s] => RestOfTurn(s, q))
    BY DEF RestUnsaved
  <2>2. n > lastPersisted'[s] => n > lastPersisted[s]
    BY <1>1
  <2>3. pc'[q] # "new" /\ at'[q] = at[q] /\ (pc[q] = "unsaved" => pc'[q] = "unsaved")
    BY <2>1 DEF Settled
  <2>4. RestOfTurn(s, q) => pc'[q] = "unsaved" \/ (pc'[q] \in {"waiting", "running"} /\ at'[q] = s)
    BY <2>3 DEF RestOfTurn
  <2>5. QED
    BY <1>3, <2>1, <2>2, <2>3, <2>4
<1>4. CASE messages'[s] = messages[s]
  BY <1>3, <1>4 DEF RestAfter
<1>5. CASE /\ messages'[s] = Append(messages[s], r)
           /\ pc'[r] \in {"waiting", "running"} /\ at'[r] = s
  <2>1. ASSUME NEW n \in 1 .. Len(messages[s]) + 1
        PROVE  /\ pc'[messages'[s][n]] # "new"
               /\ n > lastPersisted'[s] =>
                    \/ pc'[messages'[s][n]] = "unsaved"
                    \/ pc'[messages'[s][n]] \in {"waiting", "running"} /\ at'[messages'[s][n]] = s
    <3>1. CASE n = Len(messages[s]) + 1
      BY <1>2, <1>5, <3>1
    <3>2. CASE n # Len(messages[s]) + 1
      <4>1. n \in 1 .. Len(messages[s]) /\ messages'[s][n] = messages[s][n]
        BY <1>2, <1>5, <3>2
      <4>2. QED
        BY <1>3, <4>1
    <3>3. QED
      BY <3>1, <3>2
  <2>2. QED
    BY <1>2, <1>5, <2>1 DEF RestAfter
<1>6. QED
  BY <1>4, <1>5

(* A transcript that is put behind the rows of its conversation.           *)
LEMMA RestLoaded ==
  ASSUME RequestsTypeOK, LogsOwned, RestUnsaved, Settled, NEW s \in Sessions, NEW c \in Conversations,
         messages'[s] = log[c] \o messages[s], lastPersisted'[s] = Len(log[c]),
         lastPersisted[s] = Undefined,
         \A q \in Requests : Active(q) /\ at[q] = s => pc'[q] \in {"waiting", "running", "unsaved"}
  PROVE  RestAfter(s)
<1>1. messages[s] \in Seq(Requests) /\ log[c] \in Seq(Requests)
  BY DEF RequestsTypeOK
<1> DEFINE a == Len(log[c])
           b == Len(messages[s])
<1>2. /\ a \in Nat /\ b \in Nat
      /\ \A n \in 1 .. a : log[c][n] \in Requests
      /\ \A n \in 1 .. b : messages[s][n] \in Requests
      /\ Len(log[c] \o messages[s]) = a + b
      /\ \A n \in 1 .. a + b :
           (log[c] \o messages[s])[n] = IF n =< a THEN log[c][n] ELSE messages[s][n - a]
  BY <1>1, JoinElements
<1>3. ASSUME NEW n \in 1 .. a + b
      PROVE  /\ pc'[messages'[s][n]] # "new"
             /\ n > a => \/ pc'[messages'[s][n]] = "unsaved"
                         \/ /\ pc'[messages'[s][n]] \in {"waiting", "running"}
                            /\ at'[messages'[s][n]] = s
  <2>1. CASE n =< a
    <3>1. messages'[s][n] = log[c][n] /\ n \in 1 .. a
      BY <1>2, <2>1
    <3>2. log[c][n] \in Requests /\ pc[log[c][n]] # "new"
      BY <1>2, <3>1 DEF LogsOwned
    <3>3. QED
      BY <1>2, <2>1, <3>1, <3>2 DEF Settled
  <2>2. CASE n > a
    <3>a. messages'[s][n] = messages[s][n - a]
      BY <1>2, <2>2
    <3>b. n - a \in 1 .. b /\ n - a > -1
      <4> HIDE DEF a, b
      <4>1. a \in Nat /\ b \in Nat /\ n \in 1 .. a + b
        BY <1>2
      <4>2. QED
        BY <2>2, <4>1
    <3>1. messages'[s][n] = messages[s][n - a] /\ n - a \in 1 .. b /\ n - a > lastPersisted[s]
      BY <3>a, <3>b DEF Undefined
    <3> PICK q \in Requests : q = messages[s][n - a]
      BY <1>2, <3>1
    <3>2. pc[q] # "new" /\ RestOfTurn(s, q)
      BY <3>1 DEF RestUnsaved
    <3>3. pc'[q] # "new" /\ at'[q] = at[q] /\ (pc[q] = "unsaved" => pc'[q] = "unsaved")
      BY <3>2 DEF Settled
    <3>4. pc'[q] = "unsaved" \/ (pc'[q] \in {"waiting", "running"} /\ at'[q] = s)
      BY <3>2, <3>3 DEF RestOfTurn
    <3>5. QED
      BY <3>1, <3>3, <3>4
  <2>3. QED
    BY <1>2, <2>1, <2>2
<1>4. QED
  BY <1>2, <1>3 DEF RestAfter

(* All sessions together.                                                  *)
LEMMA RestAll ==
  ASSUME \A s \in Sessions : RestAfter(s)
  PROVE  RestUnsaved'
BY DEF RestAfter, RestUnsaved, RestOfTurn, Active

(* A step that touches no transcript and no watermark.                     *)
LEMMA RowsStay ==
  ASSUME RequestsTypeOK, RowsInv, Settled,
         UNCHANGED <<wallet, conversation, messages, lastPersisted, owner>>, LogsOwned',
         \A q \in Requests : Active(q) => pc'[q] \in {"waiting", "running", "unsaved"},
         \A q \in Requests : pc'[q] = "waiting" => pc[q] = "waiting"
  PROVE  RowsInv'
<1>a. Unseeded /\ Owned /\ LogsOwned /\ RestUnsaved
  BY DEF RowsInv
<1>1. ASSUME NEW s \in Sessions PROVE RestAfter(s)
  <2>1. lastPersisted[s] \in Int
    BY DEF RequestsTypeOK
  <2>2. lastPersisted[s] >= lastPersisted[s]
    BY <2>1
  <2>3. CASE Requests = {}
    <3>1. messages[s] \in Seq(Requests) /\ Len(messages[s]) \in Nat
      BY DEF RequestsTypeOK
    <3>2. QED
      BY <2>3, <3>1 DEF RestAfter
  <2>4. CASE Requests # {}
    <3> PICK r \in Requests : TRUE
      BY <2>4
    <3>1. QED
      BY <1>a, <2>1, <2>2, RestKept
  <2>5. QED
    BY <2>3, <2>4
<1>2. Unseeded'
  <2>1. ASSUME NEW r \in Requests, pc'[r] = "waiting", kind'[r] = "continue"
        PROVE  lastPersisted[at'[r]] = Undefined
    <3>1. pc[r] = "waiting"
      BY <2>1
    <3>2. kind'[r] = kind[r] /\ at'[r] = at[r]
      BY <3>1 DEF Settled
    <3>3. QED
      BY <1>a, <2>1, <3>1, <3>2 DEF Unseeded
  <2>2. QED
    BY <1>a, <2>1 DEF Unseeded
<1>3. Owned'
  BY <1>a DEF Owned
<1>4. QED
  BY <1>1, <1>2, <1>3, RestAll DEF RowsInv

(* What a running turn's session has not written: the turn's own messages, *)
(* and those of turns that ended unsaved.                                  *)
LEMMA PendingIsOwn ==
  ASSUME RequestsTypeOK, OneActive, RestUnsaved, NEW r \in Requests, Active(r), at[r] \in Sessions,
         \/ messages'[at[r]] = messages[at[r]]
         \/ messages'[at[r]] = Append(messages[at[r]], r)
  PROVE  \A n \in 1 .. Len(messages'[at[r]]) : n > lastPersisted[at[r]] =>
           messages'[at[r]][n] = r \/ pc[messages'[at[r]][n]] = "unsaved"
<1> PICK s \in Sessions : s = at[r]
  OBVIOUS
<1>1. messages[s] \in Seq(Requests)
  BY DEF RequestsTypeOK
<1>2. /\ Len(messages[s]) \in Nat /\ \A n \in 1 .. Len(messages[s]) : messages[s][n] \in Requests
      /\ Len(Append(messages[s], r)) = Len(messages[s]) + 1
      /\ \A n \in 1 .. Len(messages[s]) + 1 :
           Append(messages[s], r)[n] = IF n = Len(messages[s]) + 1 THEN r ELSE messages[s][n]
  BY <1>1, AppendElements
<1>3. \A n \in 1 .. Len(messages[s]) : n > lastPersisted[s] =>
        messages[s][n] = r \/ pc[messages[s][n]] = "unsaved"
  BY <1>2 DEF RestUnsaved, RestOfTurn, OneActive
<1>4. CASE messages'[s] = messages[s]
  BY <1>3, <1>4
<1>5. CASE messages'[s] = Append(messages[s], r)
  <2>1. ASSUME NEW n \in 1 .. Len(messages[s]) + 1, n > lastPersisted[s]
        PROVE  messages'[s][n] = r \/ pc[messages'[s][n]] = "unsaved"
    <3>1. CASE n = Len(messages[s]) + 1
      BY <1>2, <1>5, <3>1
    <3>2. CASE n # Len(messages[s]) + 1
      <4>1. n \in 1 .. Len(messages[s]) /\ messages'[s][n] = messages[s][n]
        BY <1>2, <1>5, <3>2
      <4>2. QED
        BY <1>3, <2>1, <4>1
    <3>3. QED
      BY <3>1, <3>2
  <2>2. QED
    BY <1>2, <1>5, <2>1
<1>6. QED
  BY <1>4, <1>5

(* A turn that is on writes what is pending, or does not.                  *)
LEMMA TurnPersists ==
  ASSUME RequestsBase, Grown, OneActive, TurnsOwn, RowsInv, Settled, NEW r \in Requests, pc[r] = "running",
         \/ messages'[at[r]] = messages[at[r]]
         \/ messages'[at[r]] = Append(messages[at[r]], r),
         owner' = owner, Flush(at[r]) \/ NoFlush
  PROVE  /\ LogsOwned'
         /\ \A s \in Sessions : /\ lastPersisted'[s] \in Int /\ lastPersisted'[s] >= lastPersisted[s]
                                /\ s # at[r] => lastPersisted'[s] = lastPersisted[s]
<1>a. RequestsTypeOK /\ TurnsPlaced /\ Owned /\ LogsOwned /\ RestUnsaved
  BY DEF RequestsBase, RowsInv
<1>1. Active(r) /\ at[r] \in Sessions /\ lastPersisted[at[r]] # Undefined
  BY <1>a DEF TurnsPlaced, Active
<1>2. lastPersisted' \in [Sessions -> Int] /\ \A s \in Sessions : lastPersisted'[s] >= lastPersisted[s]
  BY <1>a, <1>1, PersistFacts
<1>3. CASE Flush(at[r])
  <2>1. \A n \in 1 .. Len(messages'[at[r]]) : n > lastPersisted[at[r]] =>
          messages'[at[r]][n] = r \/ pc[messages'[at[r]][n]] = "unsaved"
    BY <1>a, <1>1, PendingIsOwn
  <2>2. kind[r] # "keep" => owner[conversation[at[r]]] = sender[r]
    BY <1>1 DEF TurnsOwn
  <2>3. pc[r] # "new"
    OBVIOUS
  <2>4. LogsOwned'
    BY <1>a, <1>1, <1>3, <2>1, <2>2, <2>3, LogsFlushed
  <2>5. \A s \in Sessions : s # at[r] => lastPersisted'[s] = lastPersisted[s]
    BY <1>3 DEF Flush
  <2>6. QED
    BY <1>2, <2>4, <2>5
<1>4. CASE NoFlush
  <2>1. LogsOwned'
    BY <1>a, <1>4, LogsStay DEF NoFlush
  <2>2. QED
    BY <1>2, <1>4, <2>1 DEF NoFlush
<1>5. QED
  BY <1>3, <1>4

(* Each step keeps the rows apart.                                         *)
LEMMA RowsStep ==
  ASSUME OneAtATime, LoadsFreshOnly, RequestsBase, RequestsBase', WalletInv, RowsInv,
         [RequestsNext]_requestVars
  PROVE  RowsInv'
<1>a. RequestsTypeOK /\ TurnsPlaced /\ HeldHasWallet /\ OneActive /\ TurnsOwn
      /\ Unseeded /\ Owned /\ LogsOwned /\ RestUnsaved
  BY DEF RequestsBase, WalletInv, RowsInv
<1>b. /\ pc \in [Requests -> {"new", "refused", "waiting", "running", "saved", "unsaved"}]
      /\ wallet \in [Sessions -> Wallets \cup {None}]
      /\ conversation \in [Sessions -> Conversations \cup {None}]
      /\ messages \in [Sessions -> Seq(Requests)]
      /\ lastPersisted \in [Sessions -> Int]
      /\ owner \in [Conversations -> Wallets \cup {None}]
      /\ log \in [Conversations -> Seq(Requests)]
  BY <1>a DEF RequestsTypeOK
<1>c. \A s \in Sessions : lastPersisted[s] \in Int /\ lastPersisted[s] >= lastPersisted[s]
                          /\ lastPersisted[s] >= Undefined
  BY <1>a DEF RequestsTypeOK, Undefined
<1>d. Settled
  BY <1>a, RequestsSettle
<1>e. \A s \in Sessions : lastPersisted'[s] \in Int /\ lastPersisted'[s] >= Undefined
  BY DEF RequestsBase, RequestsTypeOK, Undefined
<1>1. ASSUME NEW r \in Requests, Refuse(r) PROVE RowsInv'
  <2>1. /\ pc[r] = "new" /\ pc' = [pc EXCEPT ![r] = "refused"]
        /\ UNCHANGED <<session, database, at, kind, target, sender, replies>>
    BY <1>1 DEF Refuse, Arrive, Goto
  <2>2. LogsOwned'
    BY <1>a, <1>d, <2>1, LogsStay DEF database
  <2>3. \A q \in Requests : /\ Active(q) => pc'[q] \in {"waiting", "running", "unsaved"}
                            /\ pc'[q] = "waiting" => pc[q] = "waiting"
    BY <1>b, <2>1 DEF Active
  <2>4. QED
    BY <1>a, <1>d, <2>1, <2>2, <2>3, RowsStay DEF session, database
<1>2. ASSUME NEW r \in Requests, NEW req \in ChatRequest, NEW s \in Sessions,
             NEW what \in {"new", "continue", "keep"}, NEW place \in {"waiting", "running"},
             Arrive(r), Accept(r, req, s, what), Goto(r, place),
             UNCHANGED <<conversation, database>>,
             \A q \in Sessions : q # s => lastPersisted'[q] = lastPersisted[q],
             lastPersisted'[s] >= lastPersisted[s],
             what = "continue" => lastPersisted'[s] = Undefined
      PROVE  RowsInv'
  <2>1. wallet'[s] # None /\ at'[r] = s
    BY <1>2, <1>a, AcceptWallet
  <2>2. \A q \in Requests : ~ Active(q)
    BY <1>2 DEF Arrive
  <2>3. pc'[r] = place /\ kind'[r] = what /\ \A q \in Requests : q # r => pc'[q] = pc[q]
    BY <1>2, <1>a DEF Accept, Goto, RequestsTypeOK
  <2>4. \A q \in Sessions : q # s => wallet'[q] = wallet[q] /\ messages'[q] = messages[q]
    BY <1>2, <1>b DEF Accept, Meet, Create
  <2>5. messages'[s] = messages[s] \/ messages'[s] = Append(messages[s], r)
    BY <1>2, <1>b DEF Accept
  <2>6. RestAfter(s)
    BY <1>2, <1>a, <1>d, <1>e, <2>1, <2>2, <2>3, <2>5, RestKept
  <2>7. ASSUME NEW q \in Sessions, q # s PROVE RestAfter(q)
    <3>1. lastPersisted'[q] \in Int /\ lastPersisted'[q] >= lastPersisted[q] /\ messages'[q] = messages[q]
      BY <1>2, <1>c, <1>e, <2>4, <2>7
    <3>2. QED
      BY <1>a, <1>d, <2>2, <3>1, RestKept
  <2>8. LogsOwned'
    BY <1>a, <1>d, <1>2, LogsStay DEF database
  <2>9. Owned'
    BY <1>a, <1>2 DEF Owned, database
  <2>10. Unseeded'
    <3>1. \A q \in Sessions : wallet'[q] = None => lastPersisted'[q] = Undefined
      BY <1>2, <1>a, <2>1, <2>4 DEF Unseeded
    <3>2. \A q \in Requests : pc'[q] = "waiting" => q = r
      BY <2>2, <2>3 DEF Active
    <3>3. QED
      BY <1>2, <2>1, <2>3, <3>1, <3>2 DEF Unseeded
  <2>11. QED
    BY <2>6, <2>7, <2>8, <2>9, <2>10, RestAll DEF RowsInv
<1>3. ASSUME NEW r \in Requests, NEW req \in ChatRequest, NEW s \in Sessions, Arrive(r),
             \/ PostAgent(r, req, s) \/ PostContinue(r, req, s)
             \/ PostNew(r, req, s) \/ PostOther(r, req, s)
      PROVE  RowsInv'
  <2>1. CASE Keep(r, req, s)
    <3>1. /\ Accept(r, req, s, "keep") /\ Seed(s, Len(messages'[s])) /\ Goto(r, "running")
          /\ UNCHANGED <<conversation, database>>
      BY <2>1 DEF Keep, Begin
    <3>2. /\ \A q \in Sessions : q # s => lastPersisted'[q] = lastPersisted[q]
          /\ lastPersisted[s] # Undefined => lastPersisted'[s] = lastPersisted[s]
      BY <1>b, <3>1 DEF Seed
    <3>3. lastPersisted'[s] >= lastPersisted[s]
      BY <1>c, <1>e, <3>2
    <3>4. QED
      BY <1>2, <1>3, <3>1, <3>2, <3>3
  <2>2. CASE PostContinue(r, req, s)
    <3>1. /\ Accept(r, req, s, "continue") /\ Goto(r, "waiting") /\ req.session_id \notin held
          /\ UNCHANGED <<conversation, lastPersisted, database>>
      BY <2>2 DEF PostContinue
    <3>2. wallet[s] = None
      BY <3>1 DEF Accept, Meet, Create
    <3>3. lastPersisted'[s] = Undefined
      BY <1>a, <3>1, <3>2 DEF Unseeded
    <3>4. QED
      BY <1>2, <1>3, <1>c, <3>1, <3>3
  <2>3. CASE PostNew(r, req, s)
    <3>1. /\ Accept(r, req, s, "new") /\ Goto(r, "waiting")
          /\ UNCHANGED <<conversation, lastPersisted, database>>
      BY <2>3 DEF PostNew
    <3>2. QED
      BY <1>2, <1>3, <1>c, <3>1
  <2>4. QED
    BY <1>3, <2>1, <2>2, <2>3 DEF PostAgent, PostOther
<1>4. ASSUME NEW r \in Requests, Post(r) PROVE RowsInv'
  <2>1. Arrive(r)
    BY <1>4 DEF Post
  <2>2. QED
    BY <1>1, <1>3, <1>4, <2>1 DEF Post, PostRefused
<1>5. ASSUME NEW r \in Requests, Loaded(r) PROVE RowsInv'
  <2>1. /\ pc[r] = "waiting" /\ kind[r] = "continue" /\ Found(target[r], sender[r])
        /\ messages' = [messages EXCEPT ![at[r]] = log[target[r]] \o messages[at[r]]]
        /\ conversation' = [conversation EXCEPT ![at[r]] = target[r]]
        /\ Seed(at[r], Len(log[target[r]])) /\ pc' = [pc EXCEPT ![r] = "running"]
        /\ UNCHANGED <<held, wallet, at, owner, log, kind, sender>>
    BY <1>5 DEF Loaded, Begin, Goto, database
  <2>2. at[r] \in Sessions /\ target[r] \in Conversations
    BY <1>a, <2>1 DEF TurnsPlaced, Active
  <2>3. Active(r) /\ sender[r] # None /\ wallet[at[r]] = sender[r]
    BY <1>a, <2>1 DEF TurnsOwn, Active
  <2>4. \A q \in Requests : Active(q) => q = r
    BY <1>a, <2>3 DEF OneActive
  <2>5. pc'[r] = "running" /\ \A q \in Requests : pc'[q] # "waiting"
    BY <1>b, <2>1, <2>4 DEF Active
  <2>6. lastPersisted[at[r]] = Undefined
    BY <1>a, <2>1 DEF Unseeded
  <2>7. lastPersisted'[at[r]] = Len(log[target[r]])
        /\ \A s \in Sessions : s # at[r] => lastPersisted'[s] = lastPersisted[s]
    BY <1>b, <2>1, <2>2, <2>6 DEF Seed
  <2>8. ASSUME NEW s \in Sessions PROVE RestAfter(s)
    <3>1. CASE s = at[r]
      <4>1. messages'[s] = log[target[r]] \o messages[s]
        BY <1>b, <2>1, <3>1
      <4>2. QED
        BY <1>a, <1>d, <2>2, <2>4, <2>5, <2>6, <2>7, <3>1, <4>1, RestLoaded
    <3>2. CASE s # at[r]
      <4>1. messages'[s] = messages[s]
        BY <1>b, <2>1, <3>2
      <4>2. lastPersisted'[s] \in Int /\ lastPersisted'[s] >= lastPersisted[s]
        BY <1>c, <2>7, <3>2
      <4>3. QED
        BY <1>a, <1>d, <2>4, <2>5, <4>1, <4>2, RestKept
    <3>3. QED
      BY <3>1, <3>2
  <2>9. LogsOwned'
    BY <1>a, <1>d, <2>1, LogsStay
  <2>10. Owned'
    <3>1. owner[target[r]] # None
      BY <2>1, <2>3 DEF Found
    <3>2. \A s \in Sessions : conversation'[s] = IF s = at[r] THEN target[r] ELSE conversation[s]
      BY <1>b, <2>1
    <3>3. QED
      BY <1>a, <2>1, <3>1, <3>2 DEF Owned
  <2>11. Unseeded'
    BY <1>a, <2>1, <2>3, <2>5, <2>7 DEF Unseeded
  <2>12. QED
    BY <2>8, <2>9, <2>10, <2>11, RestAll DEF RowsInv
<1>6. ASSUME NEW r \in Requests, NEW c \in Conversations, ConversationCreated(r, c) PROVE RowsInv'
  <2>1. /\ pc[r] = "waiting" /\ owner[c] = None
        /\ owner' = [owner EXCEPT ![c] = sender[r]]
        /\ conversation' = [conversation EXCEPT ![at[r]] = c]
        /\ Seed(at[r], 0) /\ pc' = [pc EXCEPT ![r] = "running"]
        /\ UNCHANGED <<held, wallet, messages, at, log, kind, sender>>
    BY <1>6 DEF ConversationCreated, TakesNew, Begin, Goto
  <2>2. at[r] \in Sessions
    BY <1>a, <2>1 DEF TurnsPlaced, Active
  <2>3. Active(r) /\ sender[r] # None /\ wallet[at[r]] = sender[r]
    BY <1>a, <2>1 DEF TurnsOwn, Active
  <2>4. \A q \in Requests : Active(q) => q = r
    BY <1>a, <2>3 DEF OneActive
  <2>5. pc'[r] = "running" /\ \A q \in Requests : pc'[q] # "waiting"
    BY <1>b, <2>1, <2>4 DEF Active
  <2>6. /\ lastPersisted[at[r]] # Undefined => lastPersisted'[at[r]] = lastPersisted[at[r]]
        /\ \A s \in Sessions : s # at[r] => lastPersisted'[s] = lastPersisted[s]
    BY <1>b, <2>1 DEF Seed
  <2>7. \A s \in Sessions : lastPersisted'[s] \in Int /\ lastPersisted'[s] >= lastPersisted[s]
    BY <1>c, <1>e, <2>6
  <2>8. \A s \in Sessions : RestAfter(s)
    BY <1>a, <1>d, <2>1, <2>4, <2>5, <2>7, RestKept
  <2>9. \A d \in Conversations : owner'[d] = IF d = c THEN sender[r] ELSE owner[d]
    BY <1>b, <2>1
  <2>10. LogsOwned'
    <3>1. log[c] = << >>
      BY <1>a, <2>1 DEF LogsOwned
    <3>2. ASSUME NEW d \in Conversations, NEW n \in 1 .. Len(log[d])
          PROVE  pc'[log[d][n]] # "new" /\ (sender'[log[d][n]] = owner'[d] \/ kind'[log[d][n]] = "keep"
                                            \/ pc'[log[d][n]] = "unsaved")
      <4>1. d # c
        BY <3>1, <3>2
      <4>2. log[d][n] \in Requests
        BY <1>b
      <4>3. pc[log[d][n]] # "new" /\ RowFor(log[d][n], owner[d])
        BY <1>a DEF LogsOwned
      <4>4. QED
        BY <1>d, <2>9, <4>1, <4>2, <4>3 DEF Settled, RowFor
    <3>3. \A d \in Conversations : owner'[d] = None => log[d] = << >>
      BY <1>a, <2>3, <2>9 DEF LogsOwned
    <3>4. QED
      BY <2>1, <3>2, <3>3 DEF LogsOwned, RowFor
  <2>11. Owned'
    <3>1. \A s \in Sessions : conversation'[s] = IF s = at[r] THEN c ELSE conversation[s]
      BY <1>b, <2>1
    <3>2. \A s \in Sessions : conversation[s] # None => conversation[s] \in Conversations
      BY <1>b
    <3>3. QED
      BY <1>a, <2>3, <2>9, <3>1, <3>2 DEF Owned
  <2>12. Unseeded'
    BY <1>a, <2>1, <2>3, <2>5, <2>6 DEF Unseeded
  <2>13. QED
    BY <2>8, <2>10, <2>11, <2>12, RestAll DEF RowsInv
<1>7. ASSUME NEW r \in Requests, PostFails(r) PROVE RowsInv'
  <2>1. /\ pc' = [pc EXCEPT ![r] = "unsaved"]
        /\ UNCHANGED <<session, database, at, kind, sender, replies>>
    BY <1>7 DEF PostFails, Goto
  <2>2. LogsOwned'
    BY <1>a, <1>d, <2>1, LogsStay DEF database
  <2>3. \A q \in Requests : /\ Active(q) => pc'[q] \in {"waiting", "running", "unsaved"}
                            /\ pc'[q] = "waiting" => pc[q] = "waiting"
    BY <1>b, <2>1 DEF Active
  <2>4. QED
    BY <1>a, <1>d, <2>1, <2>2, <2>3, RowsStay DEF session, database
<1>8. ASSUME NEW r \in Requests, Reply(r) PROVE RowsInv'
  <2>1. /\ pc[r] = "running"
        /\ messages' = [messages EXCEPT ![at[r]] = Append(messages[at[r]], r)]
        /\ Flush(at[r]) \/ NoFlush
        /\ UNCHANGED <<held, wallet, conversation, owner, pc, at, kind, sender>>
    BY <1>8 DEF Reply
  <2>2. at[r] \in Sessions
    BY <1>a, <2>1 DEF TurnsPlaced, Active
  <2>3. Active(r) /\ sender[r] # None /\ wallet[at[r]] = sender[r]
    BY <1>a, <2>1 DEF TurnsOwn, Active
  <2>4. \A q \in Requests : Active(q) => q = r
    BY <1>a, <2>3 DEF OneActive
  <2>5. /\ messages'[at[r]] = Append(messages[at[r]], r)
        /\ \A s \in Sessions : s # at[r] => messages'[s] = messages[s]
    BY <1>b, <2>1, <2>2
  <2>6. Grown
    BY <1>a, <2>1, <2>2, GrowByOne
  <2>7. /\ LogsOwned'
        /\ \A s \in Sessions : /\ lastPersisted'[s] \in Int /\ lastPersisted'[s] >= lastPersisted[s]
                               /\ s # at[r] => lastPersisted'[s] = lastPersisted[s]
    BY <1>a, <1>d, <2>1, <2>5, <2>6, TurnPersists
  <2>8. \A s \in Sessions : RestAfter(s)
    BY <1>a, <1>d, <2>1, <2>4, <2>5, <2>7, RestKept DEF Active
  <2>9. Owned'
    BY <1>a, <2>1 DEF Owned
  <2>10. \A q \in Requests : pc'[q] # "waiting"
    BY <2>1, <2>4 DEF Active
  <2>11. Unseeded'
    BY <1>a, <2>1, <2>3, <2>7, <2>10 DEF Unseeded
  <2>12. QED
    BY <2>7, <2>8, <2>9, <2>11, RestAll DEF RowsInv
<1>9. ASSUME NEW r \in Requests, End(r) PROVE RowsInv'
  <2>1. /\ pc[r] = "running" /\ messages' = messages
        /\ Flush(at[r]) \/ NoFlush
        /\ pc' = [pc EXCEPT ![r] = IF lastPersisted'[at[r]] = Len(messages[at[r]])
                                   THEN "saved" ELSE "unsaved"]
        /\ UNCHANGED <<held, wallet, conversation, owner, at, kind, sender>>
    BY <1>9 DEF End, Goto
  <2>2. at[r] \in Sessions
    BY <1>a, <2>1 DEF TurnsPlaced, Active
  <2>3. Active(r) /\ sender[r] # None /\ wallet[at[r]] = sender[r]
    BY <1>a, <2>1 DEF TurnsOwn, Active
  <2>4. \A q \in Requests : Active(q) => q = r
    BY <1>a, <2>3 DEF OneActive
  <2>5. \A s \in Sessions : messages[s] \in Seq(Requests) /\ Len(messages[s]) \in Nat
                            /\ \A n \in 1 .. Len(messages[s]) : messages[s][n] \in Requests
    BY <1>b
  <2>6. Grown
    BY <1>b, <2>1, <2>5 DEF Grown
  <2>7. /\ LogsOwned'
        /\ \A s \in Sessions : /\ lastPersisted'[s] \in Int /\ lastPersisted'[s] >= lastPersisted[s]
                               /\ s # at[r] => lastPersisted'[s] = lastPersisted[s]
    BY <1>a, <1>d, <2>1, <2>6, TurnPersists
  <2>8. ASSUME NEW s \in Sessions PROVE RestAfter(s)
    <3>1. CASE s # at[r] \/ pc'[r] = "unsaved"
      BY <1>a, <1>d, <2>1, <2>4, <2>7, <3>1, RestKept
    <3>2. CASE s = at[r] /\ pc'[r] # "unsaved"
      <4>1. lastPersisted'[s] = Len(messages[s])
        BY <1>b, <2>1, <3>2
      <4>2. \A n \in 1 .. Len(messages[s]) : ~ (n > lastPersisted'[s])
        BY <2>5, <4>1
      <4>3. \A n \in 1 .. Len(messages[s]) : pc'[messages[s][n]] # "new"
        BY <1>a, <1>d, <2>5 DEF RestUnsaved, Settled
      <4>4. QED
        BY <2>1, <4>2, <4>3 DEF RestAfter
    <3>3. QED
      BY <3>1, <3>2
  <2>9. Owned'
    BY <1>a, <2>1 DEF Owned
  <2>10. \A q \in Requests : pc'[q] # "waiting"
    BY <1>b, <2>1, <2>4 DEF Active
  <2>11. Unseeded'
    BY <1>a, <2>1, <2>3, <2>7, <2>10 DEF Unseeded
  <2>12. QED
    BY <2>7, <2>8, <2>9, <2>11, RestAll DEF RowsInv
<1>10. ASSUME NEW c \in Conversations, NEW w \in Wallets, Delete(c, w) PROVE RowsInv'
  <2>1. log' = [log EXCEPT ![c] = << >>] /\ UNCHANGED <<session, owner, request>>
    BY <1>10 DEF Delete
  <2>2. \A d \in Conversations : log'[d] = IF d = c THEN << >> ELSE log[d]
    BY <1>b, <2>1
  <2>3. LogsOwned'
    BY <1>a, <2>1, <2>2 DEF LogsOwned, RowFor, request
  <2>4. \A q \in Requests : /\ Active(q) => pc'[q] \in {"waiting", "running", "unsaved"}
                            /\ pc'[q] = "waiting" => pc[q] = "waiting"
    BY <2>1 DEF request, Active
  <2>5. QED
    BY <1>a, <1>d, <2>1, <2>3, <2>4, RowsStay DEF session
<1>11. ASSUME NEW s \in Sessions, Forget(s) PROVE RowsInv'
  <2>1. UNCHANGED <<wallet, conversation, messages, lastPersisted, database, request>>
    BY <1>11 DEF Forget
  <2>2. LogsOwned'
    BY <1>a, <1>d, <2>1, LogsStay DEF database
  <2>3. \A q \in Requests : /\ Active(q) => pc'[q] \in {"waiting", "running", "unsaved"}
                            /\ pc'[q] = "waiting" => pc[q] = "waiting"
    BY <2>1 DEF request, Active
  <2>4. QED
    BY <1>a, <1>d, <2>1, <2>2, <2>3, RowsStay DEF database
<1>12. CASE Restart
  <2>1. /\ pc' = [r \in Requests |-> IF Active(r) THEN "unsaved" ELSE pc[r]]
        /\ UNCHANGED <<wallet, conversation, messages, lastPersisted, database>>
    BY <1>12 DEF Restart
  <2>2. LogsOwned'
    BY <1>a, <1>d, <2>1, LogsStay DEF database
  <2>3. \A q \in Requests : /\ Active(q) => pc'[q] \in {"waiting", "running", "unsaved"}
                            /\ pc'[q] = "waiting" => pc[q] = "waiting"
    BY <2>1
  <2>4. QED
    BY <1>a, <1>d, <2>1, <2>2, <2>3, RowsStay DEF database
<1>13. CASE UNCHANGED requestVars
  <2>1. UNCHANGED <<session, database, request>>
    BY <1>13 DEF requestVars
  <2>2. LogsOwned'
    BY <1>a, <1>d, <2>1, LogsStay DEF database
  <2>3. \A q \in Requests : /\ Active(q) => pc'[q] \in {"waiting", "running", "unsaved"}
                            /\ pc'[q] = "waiting" => pc[q] = "waiting"
    BY <2>1 DEF request, Active
  <2>4. QED
    BY <1>a, <1>d, <2>1, <2>2, <2>3, RowsStay DEF session, database
<1>14. QED
  BY <1>1, <1>4, <1>5, <1>6, <1>7, <1>8, <1>9, <1>10, <1>11, <1>12, <1>13 DEF RequestsNext, Step

(* Whatever a wallet reads in its conversations was said in turns of its   *)
(* own, kept conversations and unsaved turns excepted.                     *)
THEOREM RowsAreTheirOwners ==
  ASSUME OneAtATime, LoadsFreshOnly PROVE RequestsSpec => []RowsAreTheOwners
<1>1. RequestsInit => RowsInv
  <2> SUFFICES ASSUME RequestsInit PROVE RowsInv
    OBVIOUS
  <2>1. /\ \A s \in Sessions : conversation[s] = None /\ messages[s] = << >>
                               /\ lastPersisted[s] = Undefined
        /\ \A c \in Conversations : owner[c] = None /\ log[c] = << >>
        /\ \A r \in Requests : pc[r] = "new"
    BY DEF RequestsInit
  <2>2. \A n \in 1 .. Len(<< >>) : FALSE
    OBVIOUS
  <2>3. LogsOwned /\ RestUnsaved
    BY <2>1, <2>2 DEF LogsOwned, RestUnsaved
  <2>4. QED
    BY <2>1, <2>3 DEF RowsInv, Unseeded, Owned
<1>2. RequestsBase /\ WalletInv /\ RequestsBase' /\ RowsInv /\ [RequestsNext]_requestVars => RowsInv'
  BY RowsStep
<1>3. RequestsTypeOK /\ LogsOwned => RowsAreTheOwners
  <2> SUFFICES ASSUME RequestsTypeOK, LogsOwned, NEW c \in Conversations, NEW w \in Wallets,
                      NEW r \in Shown(c, w)
               PROVE  sender[r] = w \/ kind[r] = "keep" \/ pc[r] = "unsaved"
    BY DEF RowsAreTheOwners
  <2>1. Found(c, w) /\ r \in {log[c][n] : n \in 1 .. Len(log[c])}
    BY DEF Shown
  <2>2. PICK n \in 1 .. Len(log[c]) : r = log[c][n]
    BY <2>1
  <2>3. owner[c] = w
    BY <2>1 DEF Found
  <2>4. QED
    BY <2>2, <2>3 DEF LogsOwned, RowFor
<1>4. RequestsBase /\ RowsInv => RowsAreTheOwners
  BY <1>3 DEF RequestsBase, RowsInv
<1>5. QED
  BY <1>1, <1>2, <1>4, WalletInvariant, PTL DEF RequestsSpec

-----------------------------------------------------------------------------
(* The guard.                                                              *)

(* The first string of a payload: where it is, and that it is what a key   *)
(* would have to be.                                                       *)
LEMMA FirstStringIs ==
  ASSUME NEW p \in Payloads
  PROVE  \/ Silent(p, 4) /\ FirstString(p) = Absent
         \/ \E n \in 1 .. 4 : /\ p[n] # Absent /\ Silent(p, n - 1)
                              /\ FirstString(p) = p[n]
<1> DEFINE First4(n) == p[n] # Absent /\ \A k \in 1 .. n - 1 : p[k] = Absent
<1>1. CASE Silent(p, 4)
  BY <1>1 DEF Silent, FirstString
<1>2. CASE ~ Silent(p, 4)
  <2>1. \E n \in 1 .. 4 : p[n] # Absent
    BY <1>2 DEF Silent
  <2>2. \E n \in 1 .. 4 : First4(n)
    <3>1. CASE p[1] # Absent
      BY <3>1
    <3>2. CASE p[1] = Absent /\ p[2] # Absent
      BY <3>2
    <3>3. CASE p[1] = Absent /\ p[2] = Absent /\ p[3] # Absent
      BY <3>3
    <3>4. CASE p[1] = Absent /\ p[2] = Absent /\ p[3] = Absent /\ p[4] # Absent
      BY <3>4
    <3>5. QED
      BY <2>1, <3>1, <3>2, <3>3, <3>4
  <2> DEFINE m == CHOOSE n \in 1 .. 4 : First4(n)
  <2>3. m \in 1 .. 4 /\ First4(m)
    <3> HIDE DEF First4
    <3>1. QED
      BY <2>2
  <2>4. FirstString(p) = p[m]
    BY <2>1 DEF FirstString
  <2> HIDE DEF m
  <2>5. QED
    BY <2>3, <2>4 DEF Silent
<1>3. QED
  BY <1>1, <1>2

(* What it says of the payload: two positions with nothing before them are *)
(* the same.                                                               *)
LEMMA FirstStringCounts ==
  ASSUME NEW p \in Payloads, Expected \in Keys
  PROVE  /\ FirstString(p) = Expected <=> Holds(p)
         /\ ~ Truthy(FirstString(p)) <=> Unfilled(p)
<1>1. Expected # Absent /\ Truthy(Expected)
  BY KeysAssumption DEF Truthy
<1>2. CASE Silent(p, 4) /\ FirstString(p) = Absent
  <2>1. \A n \in 1 .. 4 : p[n] = Absent
    BY <1>2 DEF Silent
  <2>2. QED
    BY <1>1, <1>2, <2>1 DEF Holds, Unfilled, Truthy
<1>3. ASSUME NEW n \in 1 .. 4, p[n] # Absent, Silent(p, n - 1), FirstString(p) = p[n]
      PROVE  /\ FirstString(p) = Expected <=> Holds(p)
             /\ ~ Truthy(FirstString(p)) <=> Unfilled(p)
  <2>1. ASSUME NEW m \in 1 .. 4, Silent(p, m - 1) PROVE m = n \/ p[m] = Absent
    <3>1. ~ (n < m)
      BY <1>3, <2>1 DEF Silent
    <3>2. m < n => p[m] = Absent
      BY <1>3 DEF Silent
    <3>3. QED
      BY <3>1, <3>2
  <2>2. FirstString(p) = Expected <=> Holds(p)
    BY <1>1, <1>3, <2>1 DEF Holds
  <2>3. ~ Truthy(FirstString(p)) <=> Unfilled(p)
    <3>1. ~ Truthy(Absent)
      BY DEF Truthy
    <3>2. QED
      BY <1>3, <2>1, <3>1 DEF Unfilled
  <2>4. QED
    BY <2>2, <2>3
<1>4. QED
  BY <1>2, <1>3, FirstStringIs

(* canActivate lets in exactly who has the expected key in a place that    *)
(* counts, wherever else something is written, and nobody when the server  *)
(* has no key.                                                             *)
THEOREM GuardLetsIn ==
  ASSUME NEW cred \in Credentials
  PROVE  Admitted(cred) <=> LetIn(cred)
<1>1. CASE Expected \notin Keys
  BY <1>1, ExpectedAssumption DEF Admitted, LetIn
<1>2. CASE Expected \in Keys
  <2>1. Expected # Absent /\ Truthy(Expected)
    BY <1>2, KeysAssumption DEF Truthy
  <2>2. cred.query \in Payloads /\ cred.body \in Payloads
    BY DEF Credentials
  <2>3. /\ FirstString(cred.query) = Expected <=> Holds(cred.query)
        /\ ~ Truthy(FirstString(cred.query)) <=> Unfilled(cred.query)
        /\ FirstString(cred.body) = Expected <=> Holds(cred.body)
    BY <1>2, <2>2, FirstStringCounts
  <2>4. Admitted(cred) <=> ProvidedKey(cred) = Expected
    BY <2>1 DEF Admitted
  <2>5. CASE Truthy(cred.header)
    BY <1>2, <2>4, <2>5 DEF ProvidedKey, LetIn
  <2>6. CASE ~ Truthy(cred.header) /\ (cred.bearer \/ Truthy(cred.authorization))
    BY <1>2, <2>1, <2>4, <2>6 DEF ProvidedKey, LetIn
  <2>7. CASE ~ Truthy(cred.header) /\ ~ (cred.bearer \/ Truthy(cred.authorization))
    <3>1. ProvidedKey(cred) = IF Truthy(FirstString(cred.query)) THEN FirstString(cred.query)
                              ELSE FirstString(cred.body)
      BY <2>7 DEF ProvidedKey
    <3>2. cred.header # Expected /\ cred.authorization # Expected
      BY <2>1, <2>7
    <3>3. LetIn(cred) <=> Holds(cred.query) \/ (Unfilled(cred.query) /\ Holds(cred.body))
      BY <1>2, <2>7, <3>2 DEF LetIn
    <3>4. Holds(cred.query) => Truthy(FirstString(cred.query))
      BY <2>1, <2>3
    <3>5. QED
      BY <2>3, <2>4, <3>1, <3>3, <3>4
  <2>8. QED
    BY <2>5, <2>6, <2>7
<1>3. QED
  BY <1>1, <1>2

=============================================================================
