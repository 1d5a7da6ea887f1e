----------------------- MODULE ConversationCacheProofs -----------------------
(***************************************************************************)
(* Proofs about ConversationCache, for any wallets, spellings, page size   *)
(* and number of writes and tasks.                                         *)
(***************************************************************************)
EXTENDS ConversationCache, TLAPS, FiniteSetTheorems, WellFoundedInduction

(* The clock of the writes is ahead of every row.                          *)
ClockOK == \A c \in Ids : updatedAt[c] <= now

(* What a list is good for as long as it is kept: its rows are not older   *)
(* than its last one, and a row that is not on it was written since its    *)
(* query or belongs on a later page.                                       *)
ListOK(l, at) ==
  /\ l.ids # {} => l.last \in Times
  /\ \A c \in l.ids : at[c] = Gone \/ at[c] >= l.last
  /\ \A c \in Ids : Owner[c] = l.addr /\ at[c] \in Times /\ c \notin l.moved =>
       c \in l.ids \/ (Cardinality(l.ids) = l.take /\ at[c] <= l.last)

CacheOK ==
  \A k \in Keys : cache[k] # Empty => ListOK(cache[k], updatedAt) /\ KeyOf[cache[k].addr] = k

TasksOK == \A t \in Tasks : task[t].pc \in {"store", "fill"} => ListOK(task[t].list, updatedAt)

(* What a client has seen is not older than its cursor, what it is owed is.*)
WalkOK ==
  IF walk.cursor = None THEN walk.owed = {}
  ELSE /\ \A c \in walk.shown : updatedAt[c] = Gone \/ updatedAt[c] >= walk.cursor
       /\ \A c \in walk.owed : c \in Of(walk.addr) /\ updatedAt[c] < walk.cursor

(* Task t still recomputes the list under k for a write of c.              *)
Covers(t, c, k) ==
  \/ task[t].pc = "touch" /\ task[t].id = c /\ Stored(c) /\ KeyOf[Owner[c]] = k
  \/ task[t].pc = "recompute" /\ KeyOf[task[t].addr] = k
  \/ task[t].pc = "store" /\ KeyOf[task[t].list.addr] = k

Covered ==
  \A k \in Keys : k \notin disturbed /\ cache[k] # Empty =>
    \A c \in cache[k].moved : \E t \in Tasks : Covers(t, c, k)

IInv == TypeOK /\ ClockOK /\ CacheOK /\ TasksOK /\ WalkOK /\ Covered

-----------------------------------------------------------------------------
(* A non-empty set of naturals has a least element.                        *)
LEMMA LeastTime ==
  ASSUME NEW S, S \subseteq Nat, S # {}
  PROVE  \E x \in S : \A y \in S : y >= x
<1>1. \E x \in S : \A y \in S : ~ (<<y, x>> \in OpToRel(<, Nat))
  BY WFMin, NatLessThanWellFounded
<1>2. PICK x \in S : \A y \in S : ~ (<<y, x>> \in OpToRel(<, Nat))
  BY <1>1
<1>3. \A y \in S : ~ (y < x)
  BY <1>2 DEF OpToRel
<1>4. QED
  BY <1>3

(* What the fields of a task are.                                          *)
LEMMA TaskFields ==
  ASSUME NEW u \in Task
  PROVE  /\ u.pc \in {"idle", "touch", "delete", "recompute", "miss", "store", "fill"}
         /\ u.pc = "idle" => u = Idle
         /\ u.pc \in {"touch", "delete"} => u.id \in Ids
         /\ u.pc \in {"recompute", "miss"} => u.addr \in Addresses
         /\ u.pc = "miss" => u.take \in 1 .. PageSize
         /\ u.pc \in {"store", "fill"} => u.list \in List
BY DEF Task, Idle

(* Oldest is the least updatedAt of a page, and some row of it has it.     *)
LEMMA OldestIsLeast ==
  ASSUME NEW P, P \subseteq Ids, P # {}, \A c \in P : updatedAt[c] \in Times
  PROVE  /\ Oldest(P) \in Times
         /\ \E c \in P : updatedAt[c] = Oldest(P)
         /\ \A c \in P : updatedAt[c] >= Oldest(P)
<1> DEFINE S == {updatedAt[c] : c \in P}
<1>1. S \subseteq Nat /\ S # {} /\ S \subseteq Times
  BY ConstantsAssumption DEF Times
<1>2. PICK x \in S : \A y \in S : y >= x
  BY <1>1, LeastTime
<1>3. \E t \in Times : (\E c \in P : updatedAt[c] = t) /\ \A c \in P : updatedAt[c] >= t
  BY <1>1, <1>2
<1>4. QED
  BY <1>3 DEF Oldest

(* A page, whatever its cursor: it has fewer rows than asked for only if   *)
(* it has them all.                                                        *)
LEMMA PageFacts ==
  ASSUME TypeOK, NEW addr \in Addresses, NEW take \in 1 .. PageSize,
         NEW cursor \in Times \cup {None}, NEW P \in Pages(addr, take, cursor)
  PROVE  /\ P \subseteq Of(addr) /\ P \subseteq Ids
         /\ \A c \in P : updatedAt[c] \in Times /\ updatedAt[c] < cursor
         /\ \A c \in Of(addr) : updatedAt[c] < cursor /\ c \notin P =>
              /\ Cardinality(P) = take
              /\ \A d \in P : updatedAt[d] >= updatedAt[c]
         /\ P # {} => Oldest(P) \in Times /\ \E c \in P : updatedAt[c] = Oldest(P)
         /\ P = {} => Oldest(P) = None /\ Cardinality(P) # take
         /\ \A c \in P : updatedAt[c] >= Oldest(P)
<1> DEFINE S == {c \in Of(addr) : Before(c, cursor)}
<1>1. P \subseteq S /\ IsPage(P, S, take)
  BY DEF Pages
<1>2. P \subseteq Ids /\ S \subseteq Of(addr) /\ P \subseteq Of(addr)
  BY <1>1 DEF Of
<1>3. \A c \in P : updatedAt[c] \in Times /\ updatedAt[c] < cursor
  BY <1>1 DEF Of, Stored, Before
<1>4. IsFiniteSet(P) /\ Cardinality(P) \in Nat
  BY <1>2, ConstantsAssumption, FS_Subset, FS_CardinalityType
<1>5. \A c \in Of(addr) : updatedAt[c] < cursor /\ c \notin P =>
        Cardinality(P) = take /\ \A d \in P : updatedAt[d] >= updatedAt[c]
  <2> SUFFICES ASSUME NEW c \in Of(addr), updatedAt[c] < cursor, c \notin P
               PROVE  Cardinality(P) = take /\ \A d \in P : updatedAt[d] >= updatedAt[c]
    OBVIOUS
  <2>1. c \in S
    BY DEF Before
  <2>2. P # S
    BY <2>1
  <2>3. ~ (Cardinality(P) < take) /\ Cardinality(P) <= take
    BY <1>1, <2>2 DEF IsPage
  <2>4. take \in Nat
    BY ConstantsAssumption
  <2>5. Cardinality(P) = take
    BY <2>3, <2>4, <1>4
  <2>6. QED
    BY <1>1, <2>1, <2>5 DEF IsPage
<1>6. P = {} => Cardinality(P) = 0 /\ 0 # take
  BY FS_EmptySet, ConstantsAssumption
<1>7. P # {} => /\ Oldest(P) \in Times
                /\ \E c \in P : updatedAt[c] = Oldest(P)
                /\ \A c \in P : updatedAt[c] >= Oldest(P)
  BY <1>2, <1>3, OldestIsLeast
<1>8. P = {} => Oldest(P) = None
  BY DEF Oldest
<1>9. QED
  BY <1>2, <1>3, <1>5, <1>6, <1>7, <1>8

(* A list fresh from the database.                                         *)
LEMMA FreshList ==
  ASSUME TypeOK, NEW addr \in Addresses, NEW take \in 1 .. PageSize,
         NEW l \in Lists(addr, take)
  PROVE  l \in List /\ l.addr = addr /\ l.take = take /\ l.moved = {} /\ ListOK(l, updatedAt)
<1>1. PICK P \in Pages(addr, take, None) :
        l = [addr |-> addr, take |-> take, ids |-> P, last |-> Oldest(P), moved |-> {}]
  BY DEF Lists
<1>2. None \in Times \cup {None}
  OBVIOUS
<1>3. P \subseteq Ids /\ Oldest(P) \in Times \cup {None}
  BY <1>1, <1>2, PageFacts
<1>4. l \in List
  BY <1>1, <1>3 DEF List
<1>5. \A c \in Of(addr) : updatedAt[c] < None
  BY ConstantsAssumption DEF Of, Stored, Times, None
<1>6. P # {} => Oldest(P) \in Times /\ \A c \in P : updatedAt[c] >= Oldest(P)
  BY <1>2, PageFacts
<1>7. ASSUME NEW c \in Of(addr), c \notin P
      PROVE  Cardinality(P) = take /\ updatedAt[c] <= Oldest(P)
  <2>1. Cardinality(P) = take /\ \A d \in P : updatedAt[d] >= updatedAt[c]
    BY <1>2, <1>5, <1>7, PageFacts
  <2>2. P # {}
    BY <1>2, <2>1, PageFacts
  <2>3. \E d \in P : updatedAt[d] = Oldest(P)
    BY <1>2, <2>2, PageFacts
  <2>4. PICK d \in P : updatedAt[d] = Oldest(P) /\ updatedAt[d] >= updatedAt[c]
    BY <2>1, <2>3
  <2>5. updatedAt[d] \in Times /\ updatedAt[c] \in Times
    BY <1>2, PageFacts DEF Of, Stored
  <2>6. QED
    BY <2>1, <2>4, <2>5, ConstantsAssumption DEF Times
<1>8. ListOK(l, updatedAt)
  BY <1>1, <1>6, <1>7 DEF ListOK, Of, Stored
<1>9. QED
  BY <1>1, <1>4, <1>8

-----------------------------------------------------------------------------
(* What a write may set updatedAt to.                                      *)
Sets(c, at) ==
  \/ at = Gone
  \/ at \in Times /\ at <= now' /\ updatedAt[c] # Gone /\ at >= updatedAt[c]

(* A list after a write of c.                                              *)
Outdated(l, c) == IF l.addr = Owner[c] THEN Outdate(l, c) ELSE l

(* A list stays good when a write of c outdates it.                        *)
LEMMA ListOutdated ==
  ASSUME TypeOK, NEW c \in Ids, NEW at, Sets(c, at),
         updatedAt' = [updatedAt EXCEPT ![c] = at],
         NEW l \in List, ListOK(l, updatedAt)
  PROVE  /\ Outdated(l, c) \in List /\ Outdated(l, c).addr = l.addr
         /\ ListOK(Outdated(l, c), updatedAt')
<1> DEFINE m == Outdated(l, c)
<1>1. /\ m \in List /\ m.addr = l.addr /\ m.ids = l.ids /\ m.last = l.last
      /\ m.take = l.take
      /\ m.moved = IF l.addr = Owner[c] THEN l.moved \cup {c} ELSE l.moved
  BY DEF List, Outdate, Outdated
<1> HIDE DEF m
<1>2. /\ \A d \in Ids : updatedAt'[d] = IF d = c THEN at ELSE updatedAt[d]
      /\ l.ids \subseteq Ids /\ l.last \in Int
      /\ \A d \in Ids : updatedAt[d] \in Int
      /\ at \in Int
  BY ConstantsAssumption DEF TypeOK, List, Sets, Times, None, Unborn, Gone
<1>3. m.ids # {} => m.last \in Times
  BY <1>1 DEF ListOK
<1>4. ASSUME NEW d \in m.ids PROVE updatedAt'[d] = Gone \/ updatedAt'[d] >= m.last
  <2>1. updatedAt[d] = Gone \/ updatedAt[d] >= l.last
    BY <1>1, <1>4 DEF ListOK
  <2>2. CASE d # c
    BY <1>1, <1>2, <1>4, <2>1, <2>2
  <2>3. CASE d = c
    BY <1>1, <1>2, <1>4, <2>1, <2>3 DEF Sets
  <2>4. QED
    BY <2>2, <2>3
<1>5. ASSUME NEW d \in Ids, Owner[d] = m.addr, updatedAt'[d] \in Times, d \notin m.moved
      PROVE  d \in m.ids \/ (Cardinality(m.ids) = m.take /\ updatedAt'[d] <= m.last)
  <2>1. d \in Ids /\ Owner[d] = l.addr
    BY <1>1, <1>5
  <2>2. d # c
    BY <1>1, <1>5, <2>1
  <2>3. updatedAt'[d] = updatedAt[d] /\ d \notin l.moved
    BY <1>1, <1>2, <1>5, <2>1, <2>2
  <2>4. QED
    BY <1>1, <1>5, <2>1, <2>3 DEF ListOK
<1>6. m \in List /\ m.addr = l.addr /\ ListOK(m, updatedAt')
  BY <1>1, <1>3, <1>4, <1>5 DEF ListOK
<1>7. QED
  BY <1>6 DEF m

(* What a write does to a task and to a walk.                              *)
LEMMA OutdatedTask ==
  ASSUME NEW u \in Task, NEW c
  PROVE  /\ u.pc \notin {"store", "fill"} => OutdateTask(u, c) = u
         /\ u.pc \in {"store", "fill"} =>
              OutdateTask(u, c) =
                [pc |-> u.pc, list |-> Outdated(u.list, c)]
<1>1. CASE u \in [pc : {"store", "fill"}, list : List]
  BY <1>1 DEF OutdateTask, Outdated
<1>2. CASE u.pc \notin {"store", "fill"}
  BY <1>2, Zenon DEF OutdateTask
<1>3. QED
  BY <1>1, <1>2 DEF Task, Idle

LEMMA WalkOwing ==
  ASSUME NEW w \in Walk, NEW c
  PROVE  /\ NoLongerOwed(w, c) \in Walk
         /\ NoLongerOwed(w, c).owed = w.owed \ {c}
         /\ NoLongerOwed(w, c).cursor = w.cursor
         /\ NoLongerOwed(w, c).shown = w.shown
         /\ NoLongerOwed(w, c).addr = w.addr
BY DEF Walk, NoLongerOwed

LEMMA EndedOwing ==
  ASSUME NEW w \in Ended, NEW c
  PROVE  NoLongerOwed(w, c) \in Ended /\ NoLongerOwed(w, c).owed = w.owed \ {c}
BY DEF Ended, NoLongerOwed

(* What every write keeps.                                                 *)
LEMMA WriteStep ==
  ASSUME TypeOK, ClockOK, CacheOK, TasksOK, WalkOK,
         NEW c \in Ids, NEW t \in Tasks, NEW at, NEW next \in Task,
         next.pc \notin {"store", "fill"}, Sets(c, at), Write(c, at, t, next),
         now' \in {now, now + 1}, disturbed' \subseteq Keys
  PROVE  TypeOK' /\ ClockOK' /\ CacheOK' /\ TasksOK' /\ WalkOK'
<1>0. /\ writes < MaxWrites /\ writes' = writes + 1
      /\ updatedAt' = [updatedAt EXCEPT ![c] = at]
      /\ cache' = OutdateCache(c)
      /\ task' = [u \in Tasks |-> IF u = t THEN next ELSE OutdateTask(task[u], c)]
      /\ walk' = NoLongerOwed(walk, c)
  BY DEF Write
<1>1. /\ writes' \in 0 .. MaxWrites /\ now' \in Start .. Start + writes'
      /\ updatedAt' \in [Ids -> Times \cup {Unborn, Gone}]
      /\ updatedAt' = [updatedAt EXCEPT ![c] = at]
      /\ \A d \in Ids : updatedAt'[d] = IF d = c THEN at ELSE updatedAt[d]
  BY <1>0, ConstantsAssumption DEF TypeOK, Sets
<1>2. ClockOK'
  <2>1. \A d \in Ids : updatedAt[d] \in Int /\ updatedAt[d] <= now
    BY ConstantsAssumption DEF TypeOK, ClockOK, Times, Unborn, Gone
  <2>2. now \in Int /\ now >= 1 /\ now' >= now /\ now' \in Int
    BY ConstantsAssumption DEF TypeOK
  <2>3. at \in Int /\ at <= now'
    BY <2>2, ConstantsAssumption DEF Sets, Times, Gone
  <2>4. QED
    BY <1>1, <2>1, <2>2, <2>3 DEF ClockOK
<1>3. ASSUME NEW k \in Keys
      PROVE  /\ cache'[k] \in List \cup {Empty}
             /\ cache'[k] # Empty => ListOK(cache'[k], updatedAt') /\ KeyOf[cache'[k].addr] = k
  <2>1. cache'[k] = IF cache[k] # Empty /\ cache[k].addr = Owner[c]
                    THEN Outdate(cache[k], c) ELSE cache[k]
    BY <1>0 DEF OutdateCache
  <2>2. CASE cache[k] = Empty
    BY <2>1, <2>2
  <2>3. CASE cache[k] # Empty
    <3>1. cache[k] \in List /\ ListOK(cache[k], updatedAt) /\ KeyOf[cache[k].addr] = k
      BY <1>3, <2>3 DEF TypeOK, CacheOK
    <3>2. cache'[k] = Outdated(cache[k], c)
      BY <2>1, <2>3 DEF Outdated
    <3>3. /\ Outdated(cache[k], c) \in List /\ Outdated(cache[k], c).addr = cache[k].addr
          /\ ListOK(Outdated(cache[k], c), updatedAt')
      BY <1>1, <3>1, ListOutdated
    <3>4. QED
      BY <3>1, <3>2, <3>3
  <2>4. QED
    BY <2>2, <2>3
<1>4. ASSUME NEW u \in Tasks
      PROVE  /\ task'[u] \in Task
             /\ task'[u].pc \in {"store", "fill"} => ListOK(task'[u].list, updatedAt')
  <2>1. CASE u = t
    BY <1>0, <2>1
  <2>2. CASE u # t /\ task[u].pc \notin {"store", "fill"}
    <3>1. task[u] \in Task /\ OutdateTask(task[u], c) = task[u]
      BY <2>2, OutdatedTask DEF TypeOK
    <3>2. task'[u] = task[u]
      BY <1>0, <2>2, <3>1
    <3>3. QED
      BY <2>2, <3>1, <3>2
  <2>3. CASE u # t /\ task[u].pc \in {"store", "fill"}
    <3>1. task[u] \in Task /\ task[u].list \in List /\ ListOK(task[u].list, updatedAt)
      BY <1>4, <2>3, TaskFields DEF TypeOK, TasksOK
    <3> DEFINE m == Outdated(task[u].list, c)
    <3>2. OutdateTask(task[u], c) = [pc |-> task[u].pc, list |-> m]
      BY <2>3, <3>1, OutdatedTask
    <3>3. task'[u] = [pc |-> task[u].pc, list |-> m]
      BY <1>0, <2>3, <3>2
    <3>4. m \in List /\ ListOK(m, updatedAt')
      BY <1>1, <3>1, ListOutdated
    <3> HIDE DEF m
    <3>5. task'[u].list = m /\ m \in List /\ task'[u].pc = task[u].pc
      BY <3>3, <3>4
    <3>6. task'[u] \in Task
      BY <2>3, <3>3, <3>5 DEF Task
    <3>7. QED
      BY <3>4, <3>5, <3>6
  <2>4. QED
    BY <2>1, <2>2, <2>3
<1>5. WalkOK' /\ walk' \in Walk \cup Ended
  <2>1. CASE walk \in Ended
    <3>1. walk' \in Ended /\ walk'.owed = walk.owed \ {c}
      BY <1>0, <2>1, EndedOwing
    <3>2. walk.cursor = None /\ walk'.cursor = None
      BY <2>1, <3>1 DEF Ended
    <3>3. QED
      BY <3>1, <3>2 DEF WalkOK, None
  <2>2. CASE walk \in Walk
    <3>1. /\ walk' \in Walk /\ walk'.owed = walk.owed \ {c}
          /\ walk'.cursor = walk.cursor /\ walk'.shown = walk.shown
          /\ walk'.addr = walk.addr
      <4> DEFINE v == NoLongerOwed(walk, c)
      <4>1. /\ v \in Walk /\ v.owed = walk.owed \ {c} /\ v.cursor = walk.cursor
            /\ v.shown = walk.shown /\ v.addr = walk.addr
        BY <2>2, WalkOwing
      <4> HIDE DEF v
      <4>2. walk' = v
        BY <1>0 DEF v
      <4>3. QED
        BY <4>1, <4>2
    <3>2. walk.cursor # None /\ walk.shown \subseteq Ids /\ walk.cursor \in Times
      BY <2>2, ConstantsAssumption DEF Walk, Times, None
    <3>3. \A d \in walk.shown : updatedAt'[d] = Gone \/ updatedAt'[d] >= walk.cursor
      <4> SUFFICES ASSUME NEW d \in walk.shown
                   PROVE  updatedAt'[d] = Gone \/ updatedAt'[d] >= walk.cursor
        OBVIOUS
      <4>1. d \in Ids /\ (updatedAt[d] = Gone \/ updatedAt[d] >= walk.cursor)
        BY <3>2 DEF WalkOK
      <4>2. /\ updatedAt[d] \in Int /\ walk.cursor \in Int /\ at \in Int
        BY <3>2, <4>1, ConstantsAssumption DEF TypeOK, Times, Unborn, Gone, Sets
      <4>3. QED
        BY <1>1, <4>1, <4>2 DEF Sets
    <3>4. \A d \in walk.owed \ {c} : d \in Of(walk.addr)' /\ updatedAt'[d] < walk.cursor
      BY <1>1, <3>1, <3>2 DEF WalkOK, Of, Stored
    <3>5. QED
      BY <3>1, <3>2, <3>3, <3>4 DEF WalkOK
  <2>3. QED
    BY <2>1, <2>2 DEF TypeOK
<1>6. CacheOK' /\ cache' \in [Keys -> List \cup {Empty}]
  BY <1>0, <1>3 DEF CacheOK, OutdateCache
<1>7. TasksOK' /\ task' \in [Tasks -> Task]
  BY <1>0, <1>4 DEF TasksOK
<1>8. QED
  BY <1>1, <1>2, <1>5, <1>6, <1>7 DEF TypeOK

(* A page brings a client on: it is shown what it is owed or still owed it.*)
LEMMA WalkedStep ==
  ASSUME TypeOK, NEW addr \in Addresses, NEW take \in 1 .. PageSize,
         NEW ids \in SUBSET Ids, NEW cursor \in Times \cup {None},
         NEW shown \in SUBSET Ids, NEW R, R \subseteq Of(addr),
         cursor = None => R \subseteq ids,
         cursor # None => \A c \in R \ ids : updatedAt[c] <= cursor,
         cursor # None =>
           \A c \in shown \cup ids : updatedAt[c] = Gone \/ updatedAt[c] >= cursor,
         walk' = Walked(addr, take, ids, cursor, shown, R), updatedAt' = updatedAt
  PROVE  walk' \in Walk \cup Ended /\ WalkOK'
<1> DEFINE owed == {c \in R \ ids : updatedAt[c] # cursor}
<1>1. owed \subseteq Ids /\ owed \subseteq Of(addr)
  BY DEF Of
<1>2. CASE cursor = None
  <2>1. walk' = [cursor |-> None, owed |-> owed] /\ owed = {}
    BY <1>2 DEF Walked
  <2> HIDE DEF owed
  <2>2. walk' \in Ended /\ walk'.cursor = None /\ walk'.owed = {}
    BY <2>1 DEF Ended
  <2>3. QED
    BY <2>2 DEF WalkOK, None
<1>3. CASE cursor # None
  <2>1. walk' = [addr |-> addr, take |-> take, cursor |-> cursor,
                 shown |-> shown \cup ids, owed |-> owed]
    BY <1>3 DEF Walked
  <2>2. \A c \in owed : c \in Of(addr) /\ updatedAt[c] < cursor
    <3> SUFFICES ASSUME NEW c \in owed PROVE updatedAt[c] < cursor
      BY <1>1
    <3>1. updatedAt[c] \in Times /\ updatedAt[c] <= cursor /\ updatedAt[c] # cursor
      BY <1>1, <1>3 DEF Of, Stored
    <3>2. QED
      BY <1>3, <3>1, ConstantsAssumption DEF Times
  <2>3. \A c \in shown \cup ids : updatedAt[c] = Gone \/ updatedAt[c] >= cursor
    BY <1>3
  <2> HIDE DEF owed
  <2>4. /\ walk' \in Walk /\ walk'.cursor = cursor /\ walk'.addr = addr
        /\ walk'.shown = shown \cup ids /\ walk'.owed = owed
    BY <1>1, <1>3, <2>1 DEF Walk
  <2>5. cursor # None'
    BY <1>3 DEF None
  <2>6. \A c \in owed : c \in Of(addr)' /\ updatedAt'[c] < cursor
    BY <2>2 DEF Of, Stored
  <2>7. QED
    BY <2>3, <2>4, <2>5, <2>6 DEF WalkOK
<1>4. QED
  BY <1>2, <1>3

(* The first page of a client is a good list, be it cached or not.         *)
LEMMA ReplyStep ==
  ASSUME TypeOK, NEW addr \in Addresses, NEW take \in 1 .. PageSize,
         NEW l \in List, ListOK(l, updatedAt), Reply(addr, take, l),
         updatedAt' = updatedAt
  PROVE  walk' \in Walk \cup Ended /\ WalkOK'
<1> DEFINE cursor == NextCursor(l.ids, l.last, take)
           R == IF l.addr = addr /\ l.take = take THEN Of(addr) \ l.moved ELSE {}
<1>1. walk' = Walked(addr, take, l.ids, cursor, {}, R)
  BY DEF Reply
<1>2. /\ l.ids \in SUBSET Ids /\ l.last \in Times \cup {None}
      /\ R \subseteq Of(addr)
  BY DEF List
<1>3. cursor \in Times \cup {None} /\ (cursor # None => cursor = l.last)
  BY <1>2 DEF NextCursor
<1>4. ASSUME NEW c \in R, c \notin l.ids
      PROVE  cursor = l.last /\ updatedAt[c] <= l.last /\ l.ids # {}
  <2>1. /\ l.addr = addr /\ l.take = take /\ c \notin l.moved
        /\ c \in Ids /\ Owner[c] = addr /\ updatedAt[c] \in Times
    BY <1>4 DEF Of, Stored
  <2>2. Cardinality(l.ids) = l.take /\ updatedAt[c] <= l.last
    BY <1>4, <2>1 DEF ListOK
  <2>3. cursor = l.last
    BY <2>1, <2>2 DEF NextCursor
  <2>4. l.ids # {}
    BY <2>1, <2>2, FS_EmptySet, ConstantsAssumption
  <2>5. QED
    BY <2>2, <2>3, <2>4
<1>5. cursor = None => R \subseteq l.ids
  <2>1. ASSUME NEW c \in R, c \notin l.ids, cursor = None PROVE FALSE
    <3>1. l.last = None /\ l.last \in Times
      BY <1>4, <2>1 DEF ListOK
    <3>2. QED
      BY <3>1, ConstantsAssumption DEF Times, None
  <2>2. QED
    BY <2>1
<1>6. cursor # None => \A c \in R \ l.ids : updatedAt[c] <= cursor
  BY <1>4
<1>7. cursor # None =>
        \A c \in {} \cup l.ids : updatedAt[c] = Gone \/ updatedAt[c] >= cursor
  BY <1>3 DEF ListOK
<1> HIDE DEF cursor, R
<1>8. {} \in SUBSET Ids
  OBVIOUS
<1>9. QED
  BY <1>1, <1>2, <1>3, <1>5, <1>6, <1>7, <1>8, WalkedStep

(* A later page.                                                           *)
LEMMA NextPageStep ==
  ASSUME TypeOK, WalkOK, NextPage
  PROVE  walk' \in Walk \cup Ended /\ WalkOK'
<1>1. walk \in Walk
  BY DEF TypeOK, NextPage, Ended
<1>2. /\ walk.addr \in Addresses /\ walk.take \in 1 .. PageSize
      /\ walk.cursor \in Times \cup {None} /\ walk.cursor # None
      /\ walk.shown \in SUBSET Ids
  BY <1>1 DEF Walk, NextPage
<1>3. /\ \A c \in walk.shown : updatedAt[c] = Gone \/ updatedAt[c] >= walk.cursor
      /\ \A c \in walk.owed : c \in Of(walk.addr) /\ updatedAt[c] < walk.cursor
  BY <1>2 DEF WalkOK
<1>4. PICK P \in Pages(walk.addr, walk.take, walk.cursor) :
        walk' = Walked(walk.addr, walk.take, P, NextCursor(P, Oldest(P), walk.take),
                       walk.shown, walk.owed)
  BY DEF NextPage
<1> DEFINE cursor == NextCursor(P, Oldest(P), walk.take)
<1>5. /\ P \subseteq Ids
      /\ \A c \in P : updatedAt[c] \in Times /\ updatedAt[c] < walk.cursor
      /\ \A c \in Of(walk.addr) : updatedAt[c] < walk.cursor /\ c \notin P =>
           Cardinality(P) = walk.take /\ \A d \in P : updatedAt[d] >= updatedAt[c]
      /\ P # {} => Oldest(P) \in Times /\ \E c \in P : updatedAt[c] = Oldest(P)
      /\ P = {} => Oldest(P) = None /\ Cardinality(P) # walk.take
      /\ \A c \in P : updatedAt[c] >= Oldest(P)
  BY <1>2, PageFacts
<1>6. /\ cursor \in Times \cup {None}
      /\ cursor # None => P # {} /\ cursor = Oldest(P)
      /\ Cardinality(P) = walk.take => cursor = Oldest(P) /\ cursor \in Times
  BY <1>5 DEF NextCursor
<1>7. \A t \in Times : t # None
  BY ConstantsAssumption DEF Times, None
<1>8. cursor = None => walk.owed \subseteq P
  BY <1>3, <1>5, <1>6, <1>7
<1>9. ASSUME cursor # None
      PROVE  /\ \A c \in walk.owed \ P : updatedAt[c] <= cursor
             /\ \A c \in walk.shown \cup P :
                  updatedAt[c] = Gone \/ updatedAt[c] >= cursor
  <2>1. PICK d \in P : updatedAt[d] = cursor
    BY <1>5, <1>6, <1>9
  <2>2. /\ cursor \in Int /\ walk.cursor \in Int /\ cursor < walk.cursor
        /\ \A c \in Ids : updatedAt[c] \in Int
    BY <1>2, <1>5, <1>6, <1>9, <2>1, ConstantsAssumption
       DEF TypeOK, Times, None, Unborn, Gone
  <2>3. ASSUME NEW c \in walk.owed \ P PROVE updatedAt[c] <= cursor
    <3>1. updatedAt[d] >= updatedAt[c] /\ c \in Ids
      BY <1>3, <1>5, <2>1, <2>3 DEF Of
    <3>2. QED
      BY <2>1, <2>2, <3>1
  <2>4. ASSUME NEW c \in walk.shown PROVE updatedAt[c] = Gone \/ updatedAt[c] >= cursor
    BY <1>2, <1>3, <2>2, <2>4
  <2>5. \A c \in P : updatedAt[c] >= cursor
    BY <1>5, <1>6, <1>9
  <2>6. QED
    BY <2>3, <2>4, <2>5
<1> HIDE DEF cursor
<1>10. /\ walk' = Walked(walk.addr, walk.take, P, cursor, walk.shown, walk.owed)
       /\ updatedAt' = updatedAt /\ walk.owed \subseteq Of(walk.addr)
       /\ P \in SUBSET Ids
  BY <1>3, <1>4, <1>5 DEF NextPage, cursor
<1>11. QED
  BY <1>2, <1>6, <1>8, <1>9, <1>10, WalkedStep

-----------------------------------------------------------------------------
(* A list is stored as it is, and whether it was overtaken is remembered.  *)
LEMMA SetExStep ==
  ASSUME TypeOK, CacheOK, NEW l \in List, ListOK(l, updatedAt), SetEx(l),
         updatedAt' = updatedAt
  PROVE  cache' \in [Keys -> List \cup {Empty}] /\ disturbed' \subseteq Keys /\ CacheOK'
<1>1. l.addr \in Addresses /\ KeyOf[l.addr] \in Keys
  BY ConstantsAssumption DEF List
<1>2. /\ cache' = [cache EXCEPT ![KeyOf[l.addr]] = l] /\ disturbed' \subseteq Keys
  BY <1>1 DEF SetEx, TypeOK
<1>3. \A k \in Keys : cache'[k] = IF k = KeyOf[l.addr] THEN l ELSE cache[k]
  BY <1>2 DEF TypeOK
<1>4. cache' \in [Keys -> List \cup {Empty}]
  BY <1>1, <1>2 DEF TypeOK
<1>5. \A k \in Keys : cache'[k] # Empty =>
        ListOK(cache'[k], updatedAt') /\ KeyOf[cache'[k].addr] = k
  BY <1>3 DEF CacheOK
<1>6. QED
  BY <1>2, <1>4, <1>5 DEF CacheOK, Empty

(* What becomes of a task that goes on to `next`, the others at rest.      *)
LEMMA TaskStep ==
  ASSUME TypeOK, TasksOK, NEW t \in Tasks, NEW next \in Task,
         next.pc \in {"store", "fill"} => ListOK(next.list, updatedAt),
         task' = [task EXCEPT ![t] = next], updatedAt' = updatedAt
  PROVE  task' \in [Tasks -> Task] /\ TasksOK'
<1>1. \A u \in Tasks : task'[u] = IF u = t THEN next ELSE task[u]
  BY DEF TypeOK
<1>2. QED
  BY <1>1 DEF TypeOK, TasksOK

(* Tasks that a task may go on to.                                         *)
LEMMA TaskShapes ==
  /\ Idle \in Task /\ Idle.pc = "idle"
  /\ \A c \in Ids : /\ [pc |-> "touch", id |-> c] \in Task
                    /\ [pc |-> "delete", id |-> c] \in Task
                    /\ Recompute(c) \in Task /\ Recompute(c).pc = "recompute"
                    /\ Recompute(c).addr = Owner[c] /\ RecomputeDeleted(c) = Recompute(c)
  /\ \A addr \in Addresses, take \in Takes :
       [pc |-> "miss", addr |-> addr, take |-> take] \in Task
  /\ \A l \in List : [pc |-> "store", list |-> l] \in Task
                     /\ [pc |-> "fill", list |-> l] \in Task
BY ConstantsAssumption DEF Task, Idle, Recompute, RecomputeDeleted, Takes

Good == TypeOK /\ ClockOK /\ CacheOK /\ TasksOK /\ WalkOK

LEMMA InitHolds == Init => IInv
<1> SUFFICES ASSUME Init PROVE IInv
  OBVIOUS
<1>1. \A t \in Tasks : task[t] = Idle
  BY DEF Init
<1>2. \A k \in Keys : cache[k] = Empty
  BY DEF Init
<1>3. walk \in Ended /\ walk.cursor = None /\ walk.owed = {}
  BY DEF Init, Ended
<1>4. /\ updatedAt \in [Ids -> Times \cup {Unborn, Gone}] /\ ClockOK
      /\ now \in Start .. Start + writes /\ writes \in 0 .. MaxWrites
  BY ConstantsAssumption DEF Init, Times, Unborn, Gone, ClockOK
<1>5. TypeOK
  BY <1>1, <1>3, <1>4, TaskShapes DEF Init, TypeOK
<1>6. CacheOK /\ TasksOK /\ WalkOK /\ Covered
  BY <1>1, <1>2, <1>3 DEF CacheOK, TasksOK, WalkOK, Covered, Idle
<1>7. QED
  BY <1>4, <1>5, <1>6 DEF IInv

(* Every step of a writer keeps types, lists and walk.                     *)
LEMMA GoodWriter == Good /\ Writer => Good'
<1> SUFFICES ASSUME Good, Writer PROVE Good'
  OBVIOUS
<1> USE DEF Good
<1>1. /\ now \in Times /\ now \in Int /\ disturbed \subseteq Keys
      /\ (writes < MaxWrites => now + 1 \in Times)
      /\ \A c \in Ids : updatedAt[c] <= now
      /\ \A c \in Ids : KeyOf[Owner[c]] \in Keys
  BY ConstantsAssumption DEF TypeOK, Times, ClockOK
<1>2. \A c \in Ids : Stamp /\ updatedAt[c] # Gone /\ writes < MaxWrites
        => Sets(c, now') /\ now' \in {now, now + 1}
  <2> SUFFICES ASSUME NEW c \in Ids, Stamp, updatedAt[c] # Gone, writes < MaxWrites
               PROVE  Sets(c, now') /\ now' \in {now, now + 1}
    OBVIOUS
  <2>1. updatedAt[c] \in Int /\ updatedAt[c] <= now
    BY <1>1, ConstantsAssumption DEF TypeOK, Times, Unborn, Gone
  <2>2. now' \in Times /\ now' >= updatedAt[c] /\ now' <= now'
    BY <1>1, <2>1 DEF Stamp
  <2>3. QED
    BY <2>2 DEF Sets, Stamp
<1>3. ASSUME NEW t \in Tasks, Touch(t) PROVE Good'
  <2> DEFINE c == task[t].id
  <2>1. c \in Ids /\ updatedAt[c] # Gone
    BY <1>3, TaskFields, ConstantsAssumption DEF Touch, TypeOK, Stored, Times, Gone
  <2>2. /\ Write(c, now', t, Recompute(c)) /\ Stamp /\ disturbed' = disturbed
        /\ writes < MaxWrites
    BY <1>3 DEF Touch, Write
  <2> HIDE DEF c
  <2>3. QED
    BY <1>1, <1>2, <2>1, <2>2, WriteStep, TaskShapes
<1>4. ASSUME NEW t \in Tasks, TouchDeleted(t) PROVE Good'
  BY <1>4, TaskStep, TaskShapes
     DEF TouchDeleted, TypeOK, ClockOK, CacheOK, WalkOK, Of, Stored
<1>5. ASSUME NEW t \in Tasks, DeleteMany(t) PROVE Good'
  <2> DEFINE c == task[t].id
  <2>1. c \in Ids
    BY <1>5, TaskFields DEF DeleteMany, TypeOK
  <2>2. Write(c, Gone, t, Recompute(c)) /\ now' = now /\ disturbed' = disturbed
    BY <1>5, <2>1, TaskShapes DEF DeleteMany
  <2> HIDE DEF c
  <2>3. Sets(c, Gone)
    BY DEF Sets
  <2>4. /\ Recompute(c) \in Task /\ Recompute(c).pc \notin {"store", "fill"}
        /\ now' \in {now, now + 1} /\ disturbed' \subseteq Keys
    BY <1>1, <2>1, <2>2, TaskShapes
  <2>5. QED
    BY <2>1, <2>2, <2>3, <2>4, WriteStep
<1>6. ASSUME NEW t \in Tasks, DeleteNone(t) PROVE Good'
  <2>1. task[t].id \in Ids
    BY <1>6, TaskFields DEF DeleteNone, TypeOK
  <2>2. /\ Recompute(task[t].id) \in Task
        /\ Recompute(task[t].id).pc \notin {"store", "fill"}
        /\ task' = [task EXCEPT ![t] = Recompute(task[t].id)]
    BY <1>6, <2>1, TaskShapes DEF DeleteNone
  <2>3. task' \in [Tasks -> Task] /\ TasksOK'
    BY <1>6, <2>2, TaskStep DEF DeleteNone
  <2>4. QED
    BY <1>6, <2>3 DEF DeleteNone, TypeOK, ClockOK, CacheOK, WalkOK, Of, Stored
<1>7. ASSUME NEW t \in Tasks, NEW c \in Ids, Create(t, c) PROVE Good'
  <2>1. updatedAt[c] # Gone
    BY <1>7 DEF Create, Unborn, Gone
  <2>2. /\ Write(c, now', t, Recompute(c)) /\ Stamp /\ disturbed' = disturbed
        /\ writes < MaxWrites
    BY <1>7 DEF Create, Write
  <2>3. QED
    BY <1>1, <1>2, <2>1, <2>2, WriteStep, TaskShapes
<1>8. ASSUME NEW t \in Tasks, NEW c \in Ids, InsertMessages(t, c) PROVE Good'
  <2>1. /\ Write(c, updatedAt[c], t, [pc |-> "touch", id |-> c])
        /\ now' = now /\ disturbed' = disturbed /\ updatedAt[c] \in Times
    BY <1>8 DEF InsertMessages, Stored
  <2>2. Sets(c, updatedAt[c])
    BY <1>1, <2>1, ConstantsAssumption DEF Sets, Times, Gone
  <2>3. QED
    BY <1>1, <2>1, <2>2, WriteStep, TaskShapes
<1>9. ASSUME NEW t \in Tasks, NEW c \in Ids, UpdateTitle(t, c) PROVE Good'
  <2>1. updatedAt[c] # Gone
    BY <1>9, ConstantsAssumption DEF UpdateTitle, Stored, Times, Gone
  <2>2. /\ Write(c, now', t, Idle) /\ Stamp /\ disturbed' \subseteq Keys
        /\ writes < MaxWrites
    BY <1>1, <1>9 DEF UpdateTitle, Write
  <2>3. QED
    BY <1>1, <1>2, <2>1, <2>2, WriteStep, TaskShapes
<1>10. ASSUME NEW t \in Tasks, NEW c \in Ids, FindToDelete(t, c) PROVE Good'
  BY <1>10, TaskStep, TaskShapes
     DEF FindToDelete, TypeOK, ClockOK, CacheOK, WalkOK, Of, Stored
<1>11. QED
  BY <1>3, <1>4, <1>5, <1>6, <1>7, <1>8, <1>9, <1>10 DEF Writer

(* Every step of the cache keeps types, lists and walk.                    *)
LEMMA GoodCacher == Good /\ Cacher => Good'
<1> SUFFICES ASSUME Good, Cacher PROVE Good'
  OBVIOUS
<1> USE DEF Good
<1>1. ASSUME NEW t \in Tasks, RecomputeQuery(t) PROVE Good'
  <2>1. task[t].addr \in Addresses /\ PageSize \in 1 .. PageSize
    BY <1>1, TaskFields, ConstantsAssumption DEF RecomputeQuery, TypeOK
  <2>2. PICK l \in Lists(task[t].addr, PageSize) :
          task' = [task EXCEPT ![t] = [pc |-> "store", list |-> l]]
    BY <1>1 DEF RecomputeQuery
  <2>3. l \in List /\ ListOK(l, updatedAt)
    BY <2>1, FreshList
  <2>4. task' \in [Tasks -> Task] /\ TasksOK'
    BY <1>1, <2>2, <2>3, TaskStep, TaskShapes DEF RecomputeQuery
  <2>5. QED
    BY <1>1, <2>4 DEF RecomputeQuery, TypeOK, ClockOK, CacheOK, WalkOK, Of, Stored
<1>2. ASSUME NEW t \in Tasks, RecomputeStore(t) PROVE Good'
  <2>1. task[t].list \in List /\ ListOK(task[t].list, updatedAt)
    BY <1>2, TaskFields DEF RecomputeStore, TypeOK, TasksOK
  <2>2. task' \in [Tasks -> Task] /\ TasksOK'
    BY <1>2, TaskStep, TaskShapes DEF RecomputeStore
  <2>3. cache' \in [Keys -> List \cup {Empty}] /\ disturbed' \subseteq Keys /\ CacheOK'
    BY <1>2, <2>1, SetExStep DEF RecomputeStore
  <2>4. QED
    BY <1>2, <2>2, <2>3 DEF RecomputeStore, TypeOK, ClockOK, WalkOK, Of, Stored
<1>3. ASSUME NEW t \in Tasks, Fail(t) PROVE Good'
  <2>1. task' \in [Tasks -> Task] /\ TasksOK'
    BY <1>3, TaskStep, TaskShapes DEF Fail
  <2>2. disturbed' \subseteq Keys
    <3>1. /\ task[t].pc = "touch" => KeyOf[Owner[task[t].id]] \in Keys
          /\ task[t].pc = "recompute" => KeyOf[task[t].addr] \in Keys
          /\ task[t].pc = "store" => KeyOf[task[t].list.addr] \in Keys
      BY TaskFields, ConstantsAssumption DEF TypeOK, List
    <3>2. QED
      BY <1>3, <3>1 DEF Fail, TypeOK
  <2>3. QED
    BY <1>3, <2>1, <2>2 DEF Fail, TypeOK, ClockOK, CacheOK, WalkOK, Of, Stored
<1>4. ASSUME NEW k \in Keys, Expire(k) PROVE Good'
  BY <1>4 DEF Expire, TypeOK, ClockOK, CacheOK, TasksOK, WalkOK, Of, Stored
<1>5. QED
  BY <1>1, <1>2, <1>3, <1>4 DEF Cacher

(* Every step of a reader keeps types, lists and walk.                     *)
LEMMA GoodReader == Good /\ Reader => Good'
<1> SUFFICES ASSUME Good, Reader PROVE Good'
  OBVIOUS
<1> USE DEF Good
<1>1. ASSUME NEW t \in Tasks, ListQuery(t) PROVE Good'
  <2>1. task[t].addr \in Addresses /\ task[t].take \in 1 .. PageSize
    BY <1>1, TaskFields DEF ListQuery, TypeOK
  <2>2. PICK l \in Lists(task[t].addr, task[t].take) :
          task' = [task EXCEPT ![t] = [pc |-> "fill", list |-> l]]
    BY <1>1 DEF ListQuery
  <2>3. l \in List /\ ListOK(l, updatedAt)
    BY <2>1, FreshList
  <2>4. task' \in [Tasks -> Task] /\ TasksOK'
    BY <1>1, <2>2, <2>3, TaskStep, TaskShapes DEF ListQuery
  <2>5. QED
    BY <1>1, <2>4 DEF ListQuery, TypeOK, ClockOK, CacheOK, WalkOK, Of, Stored
<1>2. ASSUME NEW t \in Tasks, ListFill(t) PROVE Good'
  <2>1. task[t].list \in List /\ ListOK(task[t].list, updatedAt)
    BY <1>2, TaskFields DEF ListFill, TypeOK, TasksOK
  <2>2. task' \in [Tasks -> Task] /\ TasksOK'
    BY <1>2, TaskStep, TaskShapes DEF ListFill
  <2>3. cache' \in [Keys -> List \cup {Empty}] /\ disturbed' \subseteq Keys /\ CacheOK'
    BY <1>2, <2>1, SetExStep DEF ListFill
  <2>4. task[t].list.addr \in Addresses /\ task[t].list.take \in 1 .. PageSize
    BY <2>1 DEF List
  <2>5. walk' \in Walk \cup Ended /\ WalkOK'
    BY <1>2, <2>1, <2>4, ReplyStep DEF ListFill
  <2>6. QED
    BY <1>2, <2>2, <2>3, <2>5 DEF ListFill, TypeOK, ClockOK
<1>3. ASSUME NEW addr \in Addresses, NEW take \in Takes, ListCached(addr, take)
      PROVE  Good'
  <2>1. KeyOf[addr] \in Keys
    BY ConstantsAssumption
  <2>2. cache[KeyOf[addr]] \in List /\ ListOK(cache[KeyOf[addr]], updatedAt)
    BY <1>3, <2>1 DEF ListCached, TypeOK, CacheOK
  <2>3. walk' \in Walk \cup Ended /\ WalkOK'
    BY <1>3, <2>2, ReplyStep DEF ListCached, Takes
  <2>4. QED
    BY <1>3, <2>3 DEF ListCached, TypeOK, ClockOK, CacheOK, TasksOK
<1>4. ASSUME NEW t \in Tasks, NEW addr \in Addresses, NEW take \in Takes,
             ListMiss(t, addr, take)
      PROVE  Good'
  BY <1>4, TaskStep, TaskShapes
     DEF ListMiss, TypeOK, ClockOK, CacheOK, WalkOK, Of, Stored
<1>5. ASSUME NextPage PROVE Good'
  BY <1>5, NextPageStep DEF NextPage, TypeOK, ClockOK, CacheOK, TasksOK
<1>6. QED
  BY <1>1, <1>2, <1>3, <1>4, <1>5 DEF Reader

-----------------------------------------------------------------------------
(* A write is covered by the task it starts; what a task covered before it *)
(* still covers, or the write does.                                        *)
LEMMA CoveredWrite ==
  ASSUME TypeOK, CacheOK, Covered,
         NEW c \in Ids, NEW t \in Tasks, NEW at, NEW next \in Task,
         Write(c, at, t, next), disturbed \subseteq disturbed',
         at \in Times \/ next = Recompute(c),
         \/ next = Recompute(c)
         \/ next = [pc |-> "touch", id |-> c] /\ at \in Times
         \/ KeyOf[Owner[c]] \in disturbed',
         \/ task[t].pc \in {"idle", "delete"}
         \/ task[t].pc = "touch" /\ task[t].id = c /\ next = Recompute(c)
  PROVE  Covered'
<1> SUFFICES ASSUME NEW k \in Keys, k \notin disturbed', cache'[k] # Empty,
                    NEW d \in cache'[k].moved
             PROVE  \E u \in Tasks : Covers(u, d, k)'
  BY DEF Covered, Empty
<1>1. /\ \A u \in Tasks : task'[u] = IF u = t THEN next ELSE OutdateTask(task[u], c)
      /\ cache'[k] = IF cache[k] # Empty /\ cache[k].addr = Owner[c]
                     THEN Outdate(cache[k], c) ELSE cache[k]
      /\ \A e \in Ids : updatedAt'[e] = IF e = c THEN at ELSE updatedAt[e]
  BY DEF Write, OutdateCache, TypeOK
<1>2. cache[k] # Empty /\ cache[k] \in List /\ k \notin disturbed
      /\ KeyOf[cache[k].addr] = k
  BY <1>1 DEF TypeOK, CacheOK
<1>3. d \in cache[k].moved \/ (d = c /\ cache[k].addr = Owner[c])
  BY <1>1, <1>2 DEF Outdate, List
<1>4. d \in Ids
  BY <1>2, <1>3 DEF List
<1>5. ASSUME next = Recompute(c), KeyOf[Owner[c]] = k PROVE Covers(t, d, k)'
  <2>1. task'[t].pc = "recompute" /\ task'[t].addr = Owner[c]
    BY <1>1, <1>5, TaskShapes
  <2>2. QED
    BY <1>5, <2>1 DEF Covers
<1>6. CASE d = c /\ KeyOf[Owner[c]] = k
  <2>1. CASE next = Recompute(c)
    BY <1>5, <1>6, <2>1
  <2>2. CASE next = [pc |-> "touch", id |-> c] /\ at \in Times
    BY <1>1, <1>6, <2>2 DEF Covers, Stored
  <2>3. QED
    BY <1>6, <2>1, <2>2
<1>7. CASE d \in cache[k].moved /\ ~ (d = c /\ KeyOf[Owner[c]] = k)
  <2>1. PICK u \in Tasks : Covers(u, d, k)
    BY <1>2, <1>7 DEF Covered
  <2>2. CASE u = t
    <3>1. task[t].pc = "touch" /\ task[t].id = d /\ KeyOf[Owner[d]] = k
      BY <2>1, <2>2, TaskFields DEF Covers, TypeOK
    <3>2. QED
      BY <1>7, <3>1
  <2>3. CASE u # t
    <3>1. task[u] \in Task /\ task'[u] = OutdateTask(task[u], c)
      BY <1>1, <2>3 DEF TypeOK
    <3>2. CASE task[u].pc \in {"store", "fill"}
      <4>1. task[u].list \in List
        BY <3>1, <3>2, TaskFields
      <4>2. /\ task'[u].pc = task[u].pc
            /\ task'[u].list = Outdated(task[u].list, c)
        BY <3>1, <3>2, OutdatedTask
      <4>3. task'[u].list.addr = task[u].list.addr
        BY <4>1, <4>2 DEF Outdated, Outdate, List
      <4>4. QED
        BY <2>1, <3>2, <4>2, <4>3 DEF Covers
    <3>3. CASE task[u].pc \notin {"store", "fill"}
      <4>1. task'[u] = task[u]
        BY <3>1, <3>3, OutdatedTask
      <4>2. CASE task[u].pc = "recompute"
        BY <2>1, <4>1, <4>2 DEF Covers
      <4>3. CASE task[u].pc = "touch"
        <5>1. task[u].id = d /\ Stored(d) /\ KeyOf[Owner[d]] = k
          BY <2>1, <4>3 DEF Covers
        <5>2. Stored(d)'
          BY <1>1, <1>4, <1>7, <5>1 DEF Stored
        <5>3. QED
          BY <4>1, <4>3, <5>1, <5>2 DEF Covers
      <4>4. QED
        BY <2>1, <3>3, <4>2, <4>3 DEF Covers
    <3>4. QED
      BY <3>2, <3>3
  <2>4. QED
    BY <2>2, <2>3
<1>8. QED
  BY <1>2, <1>3, <1>6, <1>7

(* A step that stores nothing and takes no task from its work.             *)
LEMMA CoveredTask ==
  ASSUME TypeOK, Covered, NEW t \in Tasks, NEW next,
         task' = [task EXCEPT ![t] = next],
         UNCHANGED <<updatedAt, cache>>, disturbed \subseteq disturbed',
         \A c \in Ids, k \in Keys : Covers(t, c, k) /\ k \notin disturbed' => Covers(t, c, k)'
  PROVE  Covered'
<1> SUFFICES ASSUME NEW k \in Keys, k \notin disturbed', cache[k] # Empty,
                    NEW d \in cache[k].moved
             PROVE  \E u \in Tasks : Covers(u, d, k)'
  BY DEF Covered, Empty
<1>1. d \in Ids
  BY DEF TypeOK, List
<1>2. PICK u \in Tasks : Covers(u, d, k)
  BY DEF Covered
<1>3. CASE u = t
  BY <1>1, <1>2, <1>3
<1>4. CASE u # t
  BY <1>2, <1>4 DEF Covers, Stored, TypeOK
<1>5. QED
  BY <1>3, <1>4

(* A list that is stored is up to date, or its key is disturbed.           *)
LEMMA CoveredSetEx ==
  ASSUME TypeOK, Covered, NEW t \in Tasks, task[t].pc \in {"store", "fill"},
         SetEx(task[t].list), task' = [task EXCEPT ![t] = Idle], updatedAt' = updatedAt
  PROVE  Covered'
<1> DEFINE l == task[t].list
           key == KeyOf[l.addr]
<1>1. l \in List /\ key \in Keys
  BY TaskFields, ConstantsAssumption DEF TypeOK, List
<1>2. /\ \A k \in Keys : cache'[k] = IF k = key THEN l ELSE cache[k]
      /\ disturbed' = IF l.moved = {} THEN disturbed \ {key} ELSE disturbed \cup {key}
  BY DEF SetEx, TypeOK
<1> SUFFICES ASSUME NEW k \in Keys, k \notin disturbed', cache'[k] # Empty,
                    NEW d \in cache'[k].moved
             PROVE  \E u \in Tasks : Covers(u, d, k)'
  BY DEF Covered, Empty
<1>3. k # key
  BY <1>1, <1>2
<1>4. cache'[k] = cache[k] /\ k \notin disturbed
  BY <1>2, <1>3
<1>5. PICK u \in Tasks : Covers(u, d, k)
  BY <1>4 DEF Covered
<1>6. u # t
  BY <1>3, <1>5, TaskFields DEF Covers, TypeOK
<1>7. QED
  BY <1>5, <1>6 DEF Covers, Stored, TypeOK

LEMMA CoveredStep == Good /\ Covered /\ Next => Covered'
<1> SUFFICES ASSUME Good, Covered, Next PROVE Covered'
  OBVIOUS
<1> USE DEF Good
<1>1. ASSUME Writer PROVE Covered'
  <2>1. now \in Int /\ (writes < MaxWrites => now \in Times /\ now + 1 \in Times)
    BY ConstantsAssumption DEF TypeOK, Times
  <2>2. Stamp /\ writes < MaxWrites => now' \in Times
    BY <2>1 DEF Stamp
  <2>3. ASSUME NEW t \in Tasks, Touch(t) PROVE Covered'
    <3> DEFINE c == task[t].id
    <3>1. /\ c \in Ids /\ Recompute(c) \in Task /\ task[t].pc = "touch"
          /\ Write(c, now', t, Recompute(c)) /\ disturbed' = disturbed
      BY <2>3, TaskFields, TaskShapes DEF Touch, TypeOK
    <3>2. QED
      BY <3>1, CoveredWrite
  <2>4. ASSUME NEW t \in Tasks, TouchDeleted(t) PROVE Covered'
    <3>1. \A c \in Ids, k \in Keys : ~ Covers(t, c, k)
      BY <2>4 DEF TouchDeleted, Covers
    <3>2. QED
      BY <2>4, <3>1, CoveredTask DEF TouchDeleted
  <2>5. ASSUME NEW t \in Tasks, DeleteMany(t) PROVE Covered'
    <3> DEFINE c == task[t].id
    <3>1. /\ c \in Ids /\ Recompute(c) \in Task /\ task[t].pc = "delete"
          /\ Write(c, Gone, t, Recompute(c)) /\ disturbed' = disturbed
      BY <2>5, TaskFields, TaskShapes DEF DeleteMany, TypeOK
    <3>2. QED
      BY <3>1, CoveredWrite
  <2>6. ASSUME NEW t \in Tasks, DeleteNone(t) PROVE Covered'
    <3>1. \A c \in Ids, k \in Keys : ~ Covers(t, c, k)
      BY <2>6 DEF DeleteNone, Covers
    <3>2. QED
      BY <2>6, <3>1, CoveredTask DEF DeleteNone
  <2>7. ASSUME NEW t \in Tasks, NEW c \in Ids, Create(t, c) PROVE Covered'
    <3>1. /\ Recompute(c) \in Task /\ task[t].pc = "idle"
          /\ Write(c, now', t, Recompute(c)) /\ disturbed' = disturbed
      BY <2>7, TaskShapes DEF Create
    <3>2. QED
      BY <3>1, CoveredWrite
  <2>8. ASSUME NEW t \in Tasks, NEW c \in Ids, InsertMessages(t, c) PROVE Covered'
    <3> DEFINE next == [pc |-> "touch", id |-> c]
    <3>1. /\ next \in Task /\ task[t].pc = "idle" /\ updatedAt[c] \in Times
          /\ Write(c, updatedAt[c], t, next) /\ disturbed' = disturbed
      BY <2>8, TaskShapes DEF InsertMessages, Stored
    <3>2. QED
      BY <3>1, CoveredWrite
  <2>9. ASSUME NEW t \in Tasks, NEW c \in Ids, UpdateTitle(t, c) PROVE Covered'
    <3>1. /\ Idle \in Task /\ task[t].pc = "idle" /\ now' \in Times
          /\ Write(c, now', t, Idle) /\ disturbed \subseteq disturbed'
          /\ KeyOf[Owner[c]] \in disturbed'
      BY <2>2, <2>9, TaskShapes DEF UpdateTitle, Write
    <3>2. QED
      BY <3>1, CoveredWrite
  <2>10. ASSUME NEW t \in Tasks, NEW c \in Ids, FindToDelete(t, c) PROVE Covered'
    <3>1. \A e \in Ids, k \in Keys : ~ Covers(t, e, k)
      BY <2>10 DEF FindToDelete, Covers, Idle
    <3>2. QED
      BY <2>10, <3>1, CoveredTask DEF FindToDelete
  <2>11. QED
    BY <1>1, <2>3, <2>4, <2>5, <2>6, <2>7, <2>8, <2>9, <2>10 DEF Writer
<1>2. ASSUME NEW t \in Tasks, RecomputeQuery(t) PROVE Covered'
  <2>1. task[t].addr \in Addresses /\ PageSize \in 1 .. PageSize
    BY <1>2, TaskFields, ConstantsAssumption DEF RecomputeQuery, TypeOK
  <2>2. PICK l \in Lists(task[t].addr, PageSize) :
          task' = [task EXCEPT ![t] = [pc |-> "store", list |-> l]]
    BY <1>2 DEF RecomputeQuery
  <2>3. l.addr = task[t].addr
    BY <2>1, FreshList
  <2>4. task'[t].pc = "store" /\ task'[t].list = l /\ task[t].pc = "recompute"
    BY <1>2, <2>2 DEF RecomputeQuery, TypeOK
  <2>5. \A c \in Ids, k \in Keys : Covers(t, c, k) => Covers(t, c, k)'
    BY <2>3, <2>4 DEF Covers
  <2>6. QED
    BY <1>2, <2>2, <2>5, CoveredTask DEF RecomputeQuery
<1>3. ASSUME NEW t \in Tasks, RecomputeStore(t) PROVE Covered'
  BY <1>3, CoveredSetEx DEF RecomputeStore
<1>4. ASSUME NEW t \in Tasks, Fail(t) PROVE Covered'
  <2>1. \A c \in Ids, k \in Keys : Covers(t, c, k) => k \in disturbed'
    BY <1>4 DEF Fail, Covers
  <2>2. disturbed \subseteq disturbed'
    BY <1>4 DEF Fail
  <2>3. QED
    BY <1>4, <2>1, <2>2, CoveredTask DEF Fail
<1>5. ASSUME NEW k \in Keys, Expire(k) PROVE Covered'
  <2>1. \A j \in Keys : cache'[j] = IF j = k THEN Empty ELSE cache[j]
    BY <1>5 DEF Expire, TypeOK
  <2>2. disturbed' = disturbed \ {k} /\ task' = task /\ updatedAt' = updatedAt
    BY <1>5 DEF Expire
  <2>3. QED
    BY <2>1, <2>2 DEF Covered, Covers, Stored, Empty
<1>6. ASSUME Reader PROVE Covered'
  <2>1. ASSUME NEW t \in Tasks, ListQuery(t) PROVE Covered'
    <3>1. \A c \in Ids, k \in Keys : ~ Covers(t, c, k)
      BY <2>1 DEF ListQuery, Covers
    <3>2. PICK l : task' = [task EXCEPT ![t] = [pc |-> "fill", list |-> l]]
      BY <2>1 DEF ListQuery
    <3>3. QED
      BY <2>1, <3>1, <3>2, CoveredTask DEF ListQuery
  <2>2. ASSUME NEW t \in Tasks, ListFill(t) PROVE Covered'
    BY <2>2, CoveredSetEx DEF ListFill
  <2>3. ASSUME NEW addr \in Addresses, NEW take \in Takes, ListCached(addr, take)
        PROVE  Covered'
    BY <2>3 DEF ListCached, Covered, Covers, Stored, Empty
  <2>4. ASSUME NEW t \in Tasks, NEW addr \in Addresses, NEW take \in Takes,
               ListMiss(t, addr, take)
        PROVE  Covered'
    <3>1. \A c \in Ids, k \in Keys : ~ Covers(t, c, k)
      BY <2>4 DEF ListMiss, Covers, Idle
    <3>2. QED
      BY <2>4, <3>1, CoveredTask DEF ListMiss
  <2>5. ASSUME NextPage PROVE Covered'
    BY <2>5 DEF NextPage, Covered, Covers, Stored, Empty
  <2>6. QED
    BY <1>6, <2>1, <2>2, <2>3, <2>4, <2>5 DEF Reader
<1>7. QED
  BY <1>1, <1>2, <1>3, <1>4, <1>5, <1>6 DEF Next, Cacher

(* The inductive invariant: whatever is written, lost, stored or expires,  *)
(* every list in flight or cached stays good, every client is shown or     *)
(* still owed what it may expect, and every outdated list has a task that  *)
(* will replace it, or is known to be disturbed.                           *)
THEOREM InvariantHolds == Spec => []IInv
<1>1. Init => IInv
  BY InitHolds
<1>2. IInv /\ [Next]_vars => IInv'
  <2>1. IInv /\ Next => IInv'
    <3>1. IInv <=> Good /\ Covered
      BY DEF IInv, Good
    <3>2. Good /\ Next => Good'
      BY GoodWriter, GoodCacher, GoodReader DEF Next
    <3>3. IInv' <=> Good' /\ Covered'
      BY DEF IInv, Good
    <3>4. QED
      BY <3>1, <3>2, <3>3, CoveredStep
  <2>2. IInv /\ UNCHANGED vars => IInv'
    BY DEF vars, IInv, TypeOK, ClockOK, CacheOK, TasksOK, WalkOK, Of, Stored,
           Covered, Covers, Empty
  <2>3. QED
    BY <2>1, <2>2
<1>3. QED
  BY <1>1, <1>2, PTL DEF Spec

(* The types of the rows, the cache, the tasks and the clients.            *)
THEOREM TypeCorrect == Spec => []TypeOK
<1>1. IInv => TypeOK
  BY DEF IInv
<1>2. QED
  BY <1>1, InvariantHolds, PTL

(* A client that walks the pages to the end, from a first page however     *)
(* stale, misses no conversation that was left alone.                      *)
THEOREM WalkIsComplete == Spec => []WalkShowsAll
<1>1. IInv => WalkShowsAll
  BY DEF IInv, WalkOK, WalkShowsAll
<1>2. QED
  BY <1>1, InvariantHolds, PTL

(* No conversation a client was shown is due on a later page.              *)
THEOREM WalkIsDistinct == Spec => []ShownOnce
<1>1. IInv => ShownOnce
  <2> SUFFICES ASSUME IInv, walk.cursor # None, NEW c \in walk.shown, Stored(c)
               PROVE  ~ Before(c, walk.cursor)
    BY DEF ShownOnce
  <2>1. walk \in Walk
    BY DEF IInv, TypeOK, Ended
  <2>2. walk.cursor \in Times /\ updatedAt[c] \in Times
    BY <2>1 DEF Walk, Stored
  <2>3. updatedAt[c] # Gone /\ walk.cursor \in Int /\ updatedAt[c] \in Int
    BY <2>2, ConstantsAssumption DEF Times, Gone
  <2>4. updatedAt[c] >= walk.cursor
    BY <2>3 DEF IInv, WalkOK
  <2>5. QED
    BY <2>3, <2>4 DEF Before
<1>2. QED
  BY <1>1, InvariantHolds, PTL

(* A cached list that nothing will replace and nothing disturbed is what   *)
(* the database has.                                                       *)
THEOREM RestIsFresh == Spec => []FreshAtRest
<1>1. IInv => FreshAtRest
  <2> SUFFICES ASSUME IInv, NEW k \in Keys, k \notin disturbed, cache[k] # Empty,
                      NEW c \in cache[k].moved
               PROVE  Recomputing(k)
    BY DEF FreshAtRest, IInv, TypeOK, List
  <2>1. PICK t \in Tasks : Covers(t, c, k)
    BY DEF IInv, Covered
  <2>2. QED
    BY <2>1 DEF Covers, Recomputing
<1>2. QED
  BY <1>1, InvariantHolds, PTL

=============================================================================
