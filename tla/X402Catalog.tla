---------------------------- MODULE X402Catalog ----------------------------
(***************************************************************************)
(* The catalog of paid resources (x402/catalog.ts and                      *)
(* x402/x402-catalog.service.ts): a table that an administrator edits, one *)
(* list of it in Valkey that all server processes share, and in each       *)
(* process a snapshot that turns read synchronously.  A process loads its  *)
(* snapshot when it boots and whenever invalidate is called, from Valkey   *)
(* or else from the table; nothing else refreshes it.                      *)
(*                                                                         *)
(* A list is the number of the version of the table it was read from; a    *)
(* row is the version that gave it its URL, or Off when it is missing,     *)
(* disabled or without a URL, which readers do not tell apart.             *)
(***************************************************************************)
EXTENDS Naturals, Sequences

CONSTANTS
  Resources, \* ids of the table's rows
  Procs,     \* server processes
  Loads,     \* calls of refresh
  MaxEdits   \* versions of the table: a bound

ASSUME EditsAssumption == MaxEdits \in Nat \ {0}

Off == 0
Empty == 0
List == 0 .. MaxEdits

VARIABLES
  table,    \* the x402_resources table, version by version: the last is what it holds
  cache,    \* the list at CACHE_KEY, Empty when there is none
  proc,     \* per process: "down", "booting" or "up" (listening)
  snapshot, \* per process: SNAPSHOT
  load      \* per call of refresh: its process, where it is, what it has read, and (as
            \* history) the version an invalidation has to show, 0 when it is excused

catalogVars == <<table, cache, proc, snapshot, load>>

Idle == [of |-> CHOOSE p \in Procs : TRUE, pc |-> "idle", rows |-> Empty, since |-> 0]

CatalogTypeOK ==
  /\ table \in Seq([Resources -> List]) /\ Len(table) \in 1 .. MaxEdits
  /\ cache \in List
  /\ proc \in [Procs -> {"down", "booting", "up"}]
  /\ snapshot \in [Procs -> List]
  /\ load \in [Loads -> [of : Procs, pc : {"idle", "del", "get", "query", "store", "done"},
                         rows : List, since : List]]
  /\ \A l \in Loads : load[l].pc \in {"store", "done"} => load[l].rows # Empty
  /\ \A l \in Loads : load[l].pc # "idle" => proc[load[l].of] # "down"

CatalogInit ==
  /\ table = << [r \in Resources |-> 1] >>
  /\ cache = Empty
  /\ proc = [p \in Procs |-> "down"]
  /\ snapshot = [p \in Procs |-> Empty]
  /\ load = [l \in Loads |-> Idle]

Version == Len(table)

\* An administrator switches a row off or gives it a new URL.
Edit(r) ==
  /\ Version < MaxEdits
  /\ \E url \in {Off, Version + 1} :
       table' = Append(table, [table[Version] EXCEPT ![r] = url])
  /\ UNCHANGED <<cache, proc, snapshot, load>>

\* Starting load l of process p; an invalidation begins with the del.
Start(l, p, boot) ==
  load' = [load EXCEPT ![l] = [Idle EXCEPT !.of = p, !.pc = IF boot THEN "get" ELSE "del",
                                 !.since = IF boot THEN 0 ELSE Version]]

\* onModuleInit of both services; the server listens when refresh has returned.
Boot(p) ==
  /\ proc[p] = "down"
  /\ proc' = [proc EXCEPT ![p] = "booting"]
  /\ \E l \in Loads : load[l].pc = "idle" /\ Start(l, p, TRUE)
  /\ UNCHANGED <<table, cache, snapshot>>

Invalidate(p) ==
  /\ proc[p] = "up"
  /\ \E l \in Loads : load[l].pc = "idle" /\ Start(l, p, FALSE)
  /\ UNCHANGED <<table, cache, proc, snapshot>>

Goto(l, pc) == [load EXCEPT ![l].pc = pc]

\* Mutant: invalidate reloads without dropping the cached list.
NoDel(l) == cache' = cache /\ load' = Goto(l, "get")

\* The del of invalidate, which may fail or have no client to go to (as any call to
\* Valkey); the load then goes on and is excused for what it finds.
Del(l) ==
  \/ cache' = Empty /\ load' = Goto(l, "get")
  \/ cache' = cache /\ load' = [Goto(l, "get") EXCEPT ![l].since = 0]

DropCached(l) ==
  /\ load[l].pc = "del"
  /\ Del(l)
  /\ UNCHANGED <<table, proc, snapshot>>

\* A missing, unreadable or unreachable list sends the load to the table.
ReadCached(l) ==
  /\ load[l].pc = "get"
  /\ \/ /\ cache # Empty
        /\ load' = [Goto(l, "done") EXCEPT ![l].rows = cache]
     \/ load' = Goto(l, "query")
  /\ UNCHANGED <<table, cache, proc, snapshot>>

Query(l) ==
  /\ load[l].pc = "query"
  /\ load' = [Goto(l, "store") EXCEPT ![l].rows = Version]
  /\ UNCHANGED <<table, cache, proc, snapshot>>

\* The setex, which may fail.  A list older than what a load between its del and its
\* get has to show excuses that load.
Store(l) ==
  /\ load[l].pc = "store"
  /\ \/ cache' = cache /\ load' = Goto(l, "done")
     \/ /\ cache' = load[l].rows
        /\ load' = [m \in Loads |->
                      IF m = l THEN [load[l] EXCEPT !.pc = "done"]
                      ELSE IF load[m].pc = "get" /\ load[l].rows < load[m].since
                      THEN [load[m] EXCEPT !.since = 0]
                      ELSE load[m]]
  /\ UNCHANGED <<table, proc, snapshot>>

\* refresh returns; at boot the server now listens.
Return(l) ==
  /\ proc' = [proc EXCEPT ![load[l].of] = "up"]
  /\ load' = [load EXCEPT ![l] = Idle]

\* setSnapshot, behind a load that returned.
Warm(l) ==
  LET p == load[l].of
  IN  /\ load[l].pc = "done"
      /\ snapshot' = [snapshot EXCEPT ![p] = load[l].rows]
      /\ Return(l)
      /\ UNCHANGED <<table, cache>>

LastGood(p) == snapshot

\* The query throws: refreshCatalog swallows it.
LoadFails(l) ==
  /\ load[l].pc = "query"
  /\ snapshot' = LastGood(load[l].of)
  /\ Return(l)
  /\ UNCHANGED <<table, cache>>

\* CACHE_TTL_S has passed.
Expire ==
  /\ cache' = Empty
  /\ UNCHANGED <<table, proc, snapshot, load>>

\* Mutant: what the process was loading goes on.
StillLoading(p) == load

WithoutLoadsOf(p) == [l \in Loads |-> IF load[l].of = p THEN Idle ELSE load[l]]

\* A restart loses the snapshot and whatever the process was loading.
Crash(p) ==
  /\ proc[p] # "down"
  /\ proc' = [proc EXCEPT ![p] = "down"]
  /\ snapshot' = [snapshot EXCEPT ![p] = Empty]
  /\ load' = WithoutLoadsOf(p)
  /\ UNCHANGED <<table, cache>>

LoadStep(l) ==
  DropCached(l) \/ ReadCached(l) \/ Query(l) \/ Store(l) \/ Warm(l) \/ LoadFails(l)

CatalogNext ==
  \/ \E r \in Resources : Edit(r)
  \/ \E p \in Procs : Boot(p) \/ Invalidate(p) \/ Crash(p)
  \/ \E l \in Loads : LoadStep(l)
  \/ Expire

-----------------------------------------------------------------------------
(* Reads of a snapshot.                                                        *)

EnabledResourceIds(list) == {r \in Resources : list # Empty /\ table[list][r] # Off}

Unresolved == Off

\* getResource and resolveResourceRequest: the URL of an enabled row.
ResolveResourceRequest(list, id) ==
  IF id \in EnabledResourceIds(list) THEN table[list][id] ELSE Unresolved

-----------------------------------------------------------------------------
(* An invalidation that has run through shows the table as it was when it was  *)
(* called, or newer, whatever other loads of any process were doing.  Excused  *)
(* is one whose del failed, or between whose del and get a list read before    *)
(* the edit was stored by a slower load (invalidate and loadRows).             *)
InvalidateShows ==
  [][\A l \in Loads :
       load[l].pc = "done" /\ load'[l].pc = "idle" /\ proc'[load[l].of] # "down"
         => snapshot'[load[l].of] >= load[l].since]_catalogVars

=============================================================================
