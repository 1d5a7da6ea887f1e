--------------------------- MODULE MCAgentRegistry ---------------------------
(* Small builds for AgentRegistry: entries that nest, coincide or do not     *)
(* meet, with the manifests, tools and cards that go wrong around them.      *)
EXTENDS AgentRegistry

MCWords == {"core", "handoff", "clarify", "get", "pool", "apr", "defi"}

Family(ws) == [words |-> ws, family |-> TRUE]
Whole(ws) == [words |-> ws, family |-> FALSE]

Entries == {Family(<<"get">>), Family(<<"get", "pool">>), Whole(<<"get", "pool">>),
            Family(<<"defi">>), CoreFamily}

EntryLists ==
    {<<p>> : p \in Entries}
    \cup {<<Family(<<"get">>), q>> : q \in Entries}
    \cup {<<Whole(<<"get", "pool">>), q>> : q \in Entries}

ACard(id, ps) == [id |-> id, prefixes |-> ps, status |-> "ready"]

(* The wallet's card under its own id, or under one copied from another. *)
CardLists ==
    {<<ACard("core", cs), ACard(id, ws), ACard("defi", ds)>> :
        cs \in {<<CoreFamily>>, <<CoreFamily, Family(<<"get">>)>>},
        id \in {"wallet", "defi", "swap"},
        ws \in EntryLists, ds \in {<<Family(<<"defi">>)>>, <<Family(<<"get", "pool">>)>>,
                                   <<Whole(<<"get", "pool">>), Family(<<"defi">>)>>}}

(* The manifest of a list of cards: in step, with another wallet status,     *)
(* with an entry no card has, without its last entry, or with the wallet     *)
(* listed once more in front.                                                *)
Manifest(kind, cards) ==
    CASE kind = "in step" -> cards
      [] kind = "other status" -> [cards EXCEPT ![2].status = "disabled"]
      [] kind = "no card" -> Append(cards, ACard("wallet", <<Family(<<"get">>)>>))
      [] kind = "no entry" -> <<cards[1], cards[2]>>
      [] kind = "listed twice" -> <<ACard("wallet", <<Family(<<"get">>)>>)>> \o cards

ManifestKinds == {"in step", "other status", "no card", "no entry", "listed twice"}

Tools(ws, ds) ==
    [a \in AgentIds |-> CASE a = "core" -> {Handoff, <<"core", "clarify">>}
                          [] a = "wallet" -> ws
                          [] a = "defi" -> ds]

(* The tools of a build and whether its environment has the required keys. *)
Settings ==
    {[tools |-> Tools(ws, ds), keys |-> TRUE] :
        ws \in {{}, {<<"get", "pool">>}, {<<"get", "pool", "apr">>}, {<<"get", "apr">>}},
        ds \in {{}, {<<"get", "pool">>}, {<<"get", "pool", "apr">>}, {<<"defi", "apr">>}}}
    \cup {[tools |-> Tools({}, {}), keys |-> FALSE]}

MCBuilds ==
    {[cards |-> cs, manifest |-> Manifest(kind, cs), tools |-> s.tools, keys |-> s.keys] :
        cs \in CardLists, kind \in ManifestKinds, s \in Settings}

MCCalled == {Handoff, <<"core", "clarify">>, <<"get", "pool">>, <<"get", "pool", "apr">>,
             <<"get", "apr">>, <<"defi", "apr">>, <<"get">>}

MCTargets == {"", "core", "wallet", "defi", "swap"}

=============================================================================
