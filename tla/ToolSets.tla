------------------------------ MODULE ToolSets ------------------------------
(***************************************************************************)
(* The tools a turn offers its model, and where the calls go               *)
(* (buildAllTools, withResourceEnum, getMcpTools and the routing of a call *)
(* in runAgentTurn of chat.service.ts; mcp-client.service.ts).  Tools are  *)
(* fixed when the turn begins, from the registry, the MCP server and the   *)
(* catalog's snapshot; a paid call is resolved against the snapshot when   *)
(* it is made, which may have been replaced since.                         *)
(***************************************************************************)
EXTENDS X402Catalog

CONSTANTS
  Host,        \* the process that runs the turn
  ServerTools, \* registered, executed through MCP
  MobileTools, \* registered, executed by the wallet
  Fetch,       \* x402_fetch, also executed by the wallet
  Stranger     \* a tool name and a resource id that nobody has configured

ASSUME HostAssumption == Host \in Procs

\* An entry of the registry has one executor.
ASSUME ExecutorsAssumption == ServerTools \cap (MobileTools \cup {Fetch}) = {}

VARIABLES
  turn,     \* the turn: "none" or "asking", and the MCP tools it holds
  offered,  \* the tools of its model calls and the ids of the resource enum
  built,    \* history: the snapshot its tools were built from
  last      \* history: the call just made, with the snapshot of that moment, if any

toolVars == <<turn, offered, built, last>>
toolSetVars == <<catalogVars, toolVars>>

Registry == ServerTools \cup MobileTools \cup {Fetch}
Names == Registry \cup {Stranger}

Call == [tool : Names, id : Resources \cup {Stranger}, list : List,
         went : {"server", "unbound", "wallet"}, url : List]

ToolsTypeOK ==
  /\ CatalogTypeOK
  /\ turn \in [pc : {"none", "asking"}, bound : SUBSET ServerTools]
  /\ offered \in [tools : SUBSET Registry, ids : SUBSET Resources]
  /\ built \in List
  /\ last \subseteq Call
  /\ turn.pc = "asking" => proc[Host] = "up"

NoTurn == [pc |-> "none", bound |-> {}]
NoTools == [tools |-> {}, ids |-> {}]

ToolsInit ==
  /\ CatalogInit
  /\ turn = NoTurn
  /\ offered = NoTools
  /\ built = Empty
  /\ last = {}

\* getTools is empty when the client could not connect, and when the server does not
\* list its tools.
GetMcpTools == {{}, ServerTools}

BuildAllTools(bound) == MobileTools \cup {Fetch} \cup (ServerTools \cap bound)

\* Mutant: the enum lists rows that are off.
EnumOfAll(list) == Resources

WithResourceEnum(list) == EnabledResourceIds(list)

StartTurn ==
  /\ turn.pc = "none" /\ proc[Host] = "up"
  /\ \E bound \in GetMcpTools :
       /\ turn' = [pc |-> "asking", bound |-> bound]
       /\ offered' = [tools |-> BuildAllTools(bound),
                      ids |-> WithResourceEnum(snapshot[Host])]
  /\ built' = snapshot[Host]
  /\ last' = {}
  /\ UNCHANGED catalogVars

\* Where a call goes: what the registry does not know is the wallet's.
Executor(tool) ==
  IF tool \in ServerTools
  THEN IF tool \in turn.bound THEN "server" ELSE "unbound"
  ELSE "wallet"

\* The URL put in front of the wallet; an unresolved call keeps the model's input.
UrlOf(tool, id) ==
  IF tool = Fetch THEN ResolveResourceRequest(snapshot[Host], id) ELSE Unresolved

\* The model names any tool and any id: nothing checks them against the schema.
MakeCall(tool, id) ==
  /\ turn.pc = "asking"
  /\ last' = {[tool |-> tool, id |-> id, list |-> snapshot[Host],
                           went |-> Executor(tool), url |-> UrlOf(tool, id)]}
  /\ UNCHANGED <<catalogVars, turn, offered, built>>

EndTurn ==
  /\ turn.pc = "asking"
  /\ turn' = NoTurn
  /\ offered' = NoTools /\ built' = Empty /\ last' = {}
  /\ UNCHANGED catalogVars

\* A catalog step; a process that stops takes its turn with it.
Catalog ==
  /\ CatalogNext
  /\ IF proc'[Host] = "down"
     THEN turn' = NoTurn /\ offered' = NoTools /\ built' = Empty
     ELSE UNCHANGED <<turn, offered, built>>
  /\ last' = {}

ToolsNext ==
  \/ Catalog
  \/ StartTurn
  \/ \E tool \in Names : MakeCall(tool, Stranger)
  \/ \E id \in Resources : MakeCall(Fetch, id)
  \/ EndTurn

ToolsSpec == ToolsInit /\ [][ToolsNext]_toolSetVars

-----------------------------------------------------------------------------
(* What a model is offered it can use: an offered server tool is run by the    *)
(* server, and an offered resource resolves to the URL it had when the turn's  *)
(* tools were built, for as long as the snapshot is not replaced               *)
(* (buildAllTools and the routing of runAgentTurn).                            *)
OfferedWorks ==
  \A c \in last :
    /\ c.tool \in offered.tools => c.went # "unbound"
    /\ c.tool = Fetch /\ c.id \in offered.ids /\ c.list = built
         => c.url # Unresolved /\ c.url = table[built][c.id]

=============================================================================
