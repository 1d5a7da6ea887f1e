------------------------- MODULE ConversationCache -------------------------
(***************************************************************************)
(* prisma.service.ts, the conversation list of a wallet: read through a    *)
(* cache that every write recomputes in a detached promise, and walked     *)
(* page by page by the client (conversations.controller.ts, list).         *)
(*                                                                         *)
(* A row is its updatedAt.  A list keeps the ids of its rows and the       *)
(* oldest updatedAt; `moved` is history: what was written since its query. *)
(* A write changes the row and starts an in-flight task that goes on to    *)
(* recompute the list; a task may fail or be lost in a restart at any      *)
(* await.  The clock of the writes does not go back.                       *)
(***************************************************************************)
EXTENDS Integers, FiniteSets

CONSTANTS
  Ids,        \* conversations
  Addresses,  \* wallet addresses as clients spell them
  Keys,       \* cache keys
  Owner,      \* walletAddress of a conversation
  KeyOf,      \* convListKey: spellings of one address share a key
  PageSize,   \* 10: the largest page, and the one recomputeCache stores
  Start,      \* the time at which the model begins: a bound
  Tasks,      \* requests and recomputes under way at once: a bound
  MaxWrites   \* writes in a run: a bound

ASSUME ConstantsAssumption ==
  /\ IsFiniteSet(Ids)
  /\ Owner \in [Ids -> Addresses] /\ KeyOf \in [Addresses -> Keys]
  /\ PageSize \in Nat \ {0} /\ Start \in Nat \ {0} /\ MaxWrites \in Nat

Unborn == 0
Gone == -1
Times == 1 .. Start + MaxWrites
None == Start + MaxWrites + 1  \* no cursor: later than every updatedAt

VARIABLES
  updatedAt,  \* of the row of a conversation, Unborn or Gone
  now,        \* the clock of the writes
  writes,     \* writes so far
  cache,      \* the list under a key, or Empty
  task,       \* requests and detached recomputes under way
  walk,       \* the client that last got a first page
  disturbed   \* history: keys whose list lost a recompute or was overtaken

vars == <<updatedAt, now, writes, cache, task, walk, disturbed>>

List == [addr : Addresses, take : 1 .. PageSize, ids : SUBSET Ids,
         last : Times \cup {None}, moved : SUBSET Ids]
Empty == [ids |-> {}]  \* no entry

Idle == [pc |-> "idle"]
Task ==
  {Idle}
    \cup [pc : {"touch", "delete"}, id : Ids]
    \cup [pc : {"recompute"}, addr : Addresses]
    \cup [pc : {"miss"}, addr : Addresses, take : 1 .. PageSize]
    \cup [pc : {"store", "fill"}, list : List]

(* shown: ids of the pages so far; cursor: next_cursor.  owed is history:  *)
(* what the client has a right to see on the pages to come.                *)
Walk == [addr : Addresses, take : 1 .. PageSize, cursor : Times,
         shown : SUBSET Ids, owed : SUBSET Ids]
(* At the end (no next_cursor), or before it began.                        *)
Ended == [cursor : {None}, owed : SUBSET Ids]

TypeOK ==
  /\ updatedAt \in [Ids -> Times \cup {Unborn, Gone}]
  /\ now \in Start .. Start + writes /\ writes \in 0 .. MaxWrites
  /\ cache \in [Keys -> List \cup {Empty}]
  /\ task \in [Tasks -> Task]
  /\ walk \in Walk \cup Ended
  /\ disturbed \subseteq Keys

(* Some conversations are there already.                                   *)
Init ==
  /\ updatedAt \in [Ids -> {Unborn} \cup 1 .. Start]
  /\ now = Start /\ writes = 0
  /\ cache = [k \in Keys |-> Empty]
  /\ task = [t \in Tasks |-> Idle]
  /\ walk = [cursor |-> None, owed |-> {}]
  /\ disturbed = {}

-----------------------------------------------------------------------------
(* Queries.                                                                *)

Stored(c) == updatedAt[c] \in Times
Of(addr) == {c \in Ids : Owner[c] = addr /\ Stored(c)}

\* Mutant: updatedAt: { lte: cursor }.
AtOrBefore(c, cursor) == updatedAt[c] <= cursor
(* updatedAt: { lt: cursor }.                                              *)
Before(c, cursor) == updatedAt[c] < cursor

(* orderBy updatedAt desc, take: ties come in any order.                   *)
IsPage(P, S, take) ==
  /\ P \subseteq S
  /\ Cardinality(P) <= take
  /\ Cardinality(P) < take => P = S
  /\ \A c \in P, d \in S \ P : updatedAt[c] >= updatedAt[d]

Oldest(P) ==
  IF P = {} THEN None
  ELSE CHOOSE t \in Times : /\ \E c \in P : updatedAt[c] = t
                            /\ \A c \in P : updatedAt[c] >= t

Pages(addr, take, cursor) ==
  LET S == {c \in Of(addr) : Before(c, cursor)}
  IN  {P \in SUBSET S : IsPage(P, S, take)}

(* What findMany gives listConversationSummaries and recomputeCache.       *)
Lists(addr, take) ==
  {[addr |-> addr, take |-> take, ids |-> P, last |-> Oldest(P), moved |-> {}] :
     P \in Pages(addr, take, None)}

\* Mutant: the last page is the one with a row too many.
CursorIfOver(ids, last, take) == IF Cardinality(ids) > take THEN last ELSE None
(* next_cursor: only a page of exactly `take` rows has a next.             *)
NextCursor(ids, last, take) == IF Cardinality(ids) = take THEN last ELSE None

-----------------------------------------------------------------------------
(* Writes, and what a write outdates.                                      *)

Outdate(l, c) == [l EXCEPT !.moved = @ \cup {c}]

OutdateCache(c) ==
  [k \in Keys |-> IF cache[k] # Empty /\ cache[k].addr = Owner[c]
                  THEN Outdate(cache[k], c) ELSE cache[k]]

OutdateTask(u, c) ==
  IF u.pc \in {"store", "fill"} /\ u.list.addr = Owner[c]
  THEN [u EXCEPT !.list = Outdate(@, c)] ELSE u

NoLongerOwed(w, c) == [w EXCEPT !.owed = @ \ {c}]

(* A write of conversation c that sets its updatedAt to `at`; its task     *)
(* goes on as `next`.                                                      *)
Write(c, at, t, next) ==
  /\ writes < MaxWrites
  /\ writes' = writes + 1
  /\ updatedAt' = [updatedAt EXCEPT ![c] = at]
  /\ cache' = OutdateCache(c)
  /\ task' = [u \in Tasks |-> IF u = t THEN next ELSE OutdateTask(task[u], c)]
  /\ walk' = NoLongerOwed(walk, c)

Stamp == now' \in {now, now + 1}

Recompute(c) == [pc |-> "recompute", addr |-> Owner[c]]
\* Mutant: the wallets are read after the rows are gone.
NoWallet(c) == Idle
(* deleteManyConversations recomputes for the wallets it read before.      *)
RecomputeDeleted(c) == Recompute(c)

Create(t, c) ==
  /\ task[t] = Idle /\ updatedAt[c] = Unborn
  /\ Stamp
  /\ Write(c, now', t, Recompute(c))
  /\ UNCHANGED disturbed

(* appendMessages inserts the messages, which shows in the preview ...     *)
InsertMessages(t, c) ==
  /\ task[t] = Idle /\ Stored(c)
  /\ Write(c, updatedAt[c], t, [pc |-> "touch", id |-> c])
  /\ UNCHANGED <<now, disturbed>>

(* ... and then touches the conversation.                                  *)
Touch(t) ==
  /\ task[t].pc = "touch" /\ Stored(task[t].id)
  /\ Stamp
  /\ Write(task[t].id, now', t, Recompute(task[t].id))
  /\ UNCHANGED disturbed

(* update throws when the conversation was deleted in between.             *)
TouchDeleted(t) ==
  /\ task[t].pc = "touch" /\ ~ Stored(task[t].id)
  /\ task' = [task EXCEPT ![t] = Idle]
  /\ UNCHANGED <<updatedAt, now, writes, cache, walk, disturbed>>

(* updateManyConversations: no recompute.                                  *)
UpdateTitle(t, c) ==
  /\ task[t] = Idle /\ Stored(c)
  /\ Stamp
  /\ Write(c, now', t, Idle)
  /\ disturbed' = disturbed \cup {KeyOf[Owner[c]]}

FindToDelete(t, c) ==
  /\ task[t] = Idle /\ Stored(c)
  /\ task' = [task EXCEPT ![t] = [pc |-> "delete", id |-> c]]
  /\ UNCHANGED <<updatedAt, now, writes, cache, walk, disturbed>>

DeleteMany(t) ==
  /\ task[t].pc = "delete" /\ Stored(task[t].id)
  /\ Write(task[t].id, Gone, t, RecomputeDeleted(task[t].id))
  /\ UNCHANGED <<now, disturbed>>

(* Of two deletes that found the row the second has nothing to delete.     *)
DeleteNone(t) ==
  /\ task[t].pc = "delete" /\ ~ Stored(task[t].id)
  /\ task' = [task EXCEPT ![t] = RecomputeDeleted(task[t].id)]
  /\ UNCHANGED <<updatedAt, now, writes, cache, walk, disturbed>>

-----------------------------------------------------------------------------
(* The cache.                                                              *)

(* setex.  A list outdated since its query disturbs the key, a list that   *)
(* is not settles it.                                                      *)
SetEx(list) ==
  LET k == KeyOf[list.addr]
  IN  /\ cache' = [cache EXCEPT ![k] = list]
      /\ disturbed' = IF list.moved = {} THEN disturbed \ {k} ELSE disturbed \cup {k}

RecomputeQuery(t) ==
  /\ task[t].pc = "recompute"
  /\ \E list \in Lists(task[t].addr, PageSize) :
       task' = [task EXCEPT ![t] = [pc |-> "store", list |-> list]]
  /\ UNCHANGED <<updatedAt, now, writes, cache, walk, disturbed>>

RecomputeStore(t) ==
  /\ task[t].pc = "store"
  /\ SetEx(task[t].list)
  /\ task' = [task EXCEPT ![t] = Idle]
  /\ UNCHANGED <<updatedAt, now, writes, walk>>

(* A call to the database or to the cache throws, or the process is gone:  *)
(* a write may be left without its recompute.                              *)
Fail(t) ==
  /\ task[t] # Idle
  /\ task' = [task EXCEPT ![t] = Idle]
  /\ disturbed' = CASE task[t].pc = "touch" ->
                         disturbed \cup {KeyOf[Owner[task[t].id]]}
                    [] task[t].pc = "recompute" -> disturbed \cup {KeyOf[task[t].addr]}
                    [] task[t].pc = "store" ->
                         disturbed \cup {KeyOf[task[t].list.addr]}
                    [] OTHER -> disturbed
  /\ UNCHANGED <<updatedAt, now, writes, cache, walk>>

\* Mutant: set without a time to live.
NeverExpires(k) == FALSE
Expires(k) == cache[k] # Empty

(* CACHE_TTL_S after its setex the entry is gone.                          *)
Expire(k) ==
  /\ Expires(k)
  /\ cache' = [cache EXCEPT ![k] = Empty]
  /\ disturbed' = disturbed \ {k}
  /\ UNCHANGED <<updatedAt, now, writes, task, walk>>

-----------------------------------------------------------------------------
(* The reader.                                                             *)

(* What of the rest R the pages from this cursor on must show: a row that  *)
(* ties with the cursor is passed over.                                    *)
Walked(addr, take, ids, cursor, shown, R) ==
  LET owed == {c \in R \ ids : updatedAt[c] # cursor}
  IN  IF cursor = None THEN [cursor |-> None, owed |-> owed]
      ELSE [addr |-> addr, take |-> take, cursor |-> cursor,
            shown |-> shown \cup ids, owed |-> owed]

(* list answers a request without a cursor with this list.  A list that    *)
(* was queried for another take or spelling owes nothing.                  *)
Reply(addr, take, list) ==
  walk' = Walked(addr, take, list.ids, NextCursor(list.ids, list.last, take), {},
                 IF list.addr = addr /\ list.take = take
                 THEN Of(addr) \ list.moved ELSE {})

(* take = min(limit ?? 10, 10).                                            *)
Takes == 1 .. PageSize

(* A hit is answered as it was stored, for whatever take and spelling.     *)
ListCached(addr, take) ==
  /\ cache[KeyOf[addr]] # Empty
  /\ Reply(addr, take, cache[KeyOf[addr]])
  /\ UNCHANGED <<updatedAt, now, writes, cache, task, disturbed>>

ListMiss(t, addr, take) ==
  /\ task[t] = Idle /\ cache[KeyOf[addr]] = Empty
  /\ task' = [task EXCEPT ![t] = [pc |-> "miss", addr |-> addr, take |-> take]]
  /\ UNCHANGED <<updatedAt, now, writes, cache, walk, disturbed>>

ListQuery(t) ==
  /\ task[t].pc = "miss"
  /\ \E list \in Lists(task[t].addr, task[t].take) :
       task' = [task EXCEPT ![t] = [pc |-> "fill", list |-> list]]
  /\ UNCHANGED <<updatedAt, now, writes, cache, walk, disturbed>>

ListFill(t) ==
  /\ task[t].pc = "fill"
  /\ SetEx(task[t].list)
  /\ Reply(task[t].list.addr, task[t].list.take, task[t].list)
  /\ task' = [task EXCEPT ![t] = Idle]
  /\ UNCHANGED <<updatedAt, now, writes>>

(* The client follows next_cursor: a page with a cursor is never cached.   *)
NextPage ==
  /\ walk.cursor # None
  /\ \E P \in Pages(walk.addr, walk.take, walk.cursor) :
       walk' = Walked(walk.addr, walk.take, P, NextCursor(P, Oldest(P), walk.take),
                      walk.shown, walk.owed)
  /\ UNCHANGED <<updatedAt, now, writes, cache, task, disturbed>>

-----------------------------------------------------------------------------
Writer == \E t \in Tasks :
  \/ Touch(t) \/ TouchDeleted(t) \/ DeleteMany(t) \/ DeleteNone(t)
  \/ \E c \in Ids : \/ Create(t, c) \/ InsertMessages(t, c)
                    \/ UpdateTitle(t, c) \/ FindToDelete(t, c)

Cacher ==
  \/ \E t \in Tasks : RecomputeQuery(t) \/ RecomputeStore(t) \/ Fail(t)
  \/ \E k \in Keys : Expire(k)

Reader ==
  \/ \E t \in Tasks : ListQuery(t) \/ ListFill(t)
  \/ \E addr \in Addresses, take \in Takes :
       \/ ListCached(addr, take)
       \/ \E t \in Tasks : ListMiss(t, addr, take)
  \/ NextPage

Next == Writer \/ Cacher \/ Reader

(* The database and the cache answer; an entry runs out of its TTL.        *)
Fairness ==
  /\ \A t \in Tasks : WF_vars(\/ Touch(t) \/ TouchDeleted(t)
                              \/ DeleteMany(t) \/ DeleteNone(t)
                              \/ RecomputeQuery(t) \/ RecomputeStore(t)
                              \/ ListQuery(t) \/ ListFill(t) \/ Fail(t))
  /\ \A k \in Keys : WF_vars(Expire(k))

Spec == Init /\ [][Next]_vars /\ Fairness

-----------------------------------------------------------------------------
(* Properties.                                                             *)

(* When a client that asked for pages of one size, and whose first page    *)
(* was queried for just that, has come to the end (next_cursor null), it   *)
(* has been shown every conversation that was not written since that query *)
(* and that does not tie with a cursor, however old the cached first page  *)
(* was.                                                                    *)
WalkShowsAll == walk.cursor = None => walk.owed = {}

(* A client is shown no conversation twice: none that it has seen, moved   *)
(* or not, is due on a later page.                                         *)
ShownOnce ==
  walk.cursor # None =>
    \A c \in walk.shown : Stored(c) => ~ Before(c, walk.cursor)

Recomputing(k) ==
  \E t \in Tasks :
    \/ task[t].pc = "touch" /\ KeyOf[Owner[task[t].id]] = k
    \/ task[t].pc = "recompute" /\ KeyOf[task[t].addr] = k
    \/ task[t].pc = "store" /\ KeyOf[task[t].list.addr] = k

(* At rest a cached list is what the database has, unless since it was     *)
(* stored a title was changed or a recompute was lost, or it is itself a   *)
(* list that a write overtook between its query and its setex.             *)
FreshAtRest ==
  \A k \in Keys :
    k \notin disturbed /\ cache[k] # Empty /\ ~ Recomputing(k) => cache[k].moved = {}

(* Whatever was lost, reordered or skipped, a while after the last write   *)
(* every cached list is up to date.                                        *)
EventuallyFresh ==
  <>[](\A k \in Keys : cache[k] # Empty => cache[k].moved = {})

=============================================================================
