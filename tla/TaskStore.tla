------------------------------ MODULE TaskStore ------------------------------
(***************************************************************************)
(* The Prisma task store (agents/tasks/prismaStore.ts) and the debug       *)
(* listing of the conversation endpoint (history/conversation.service.ts). *)
(* A transition reads the row, checks it in the process and updates it: a  *)
(* statement each, with other callers' statements in between.  The store   *)
(* has no lock of its own; Driver says which callers move which task, and  *)
(* the store keeps the contract of TaskContract when that is one each.     *)
(***************************************************************************)
EXTENDS Naturals, Sequences

CONSTANTS
    Tasks, Conversations, Messages, Outputs, Undefined,
    Callers,        \* the turns that use the store, each awaiting its calls
    Driver,         \* task -> the callers that transition it
    Readers,        \* requests that list a conversation's tasks
    NoTask, Nothing,    \* no row; no call, no listing
    MaxMessages     \* bound on a task's peer messages

VARIABLES
    agentTask,          \* the agent_tasks table
    agentPeerMessage,   \* the agent_peer_messages rows of each task, by age
    created,            \* task ids in the order of their rows
    deleted,            \* the conversations deleted so far
    call,               \* caller -> the transition it awaits, or Idle
    listing,            \* reader -> the tasks read, then with their messages
    atEnd               \* history: task -> its messages when it ended

taskVars == <<agentTask, agentPeerMessage, created, deleted, call, listing, atEnd>>

Contract == INSTANCE TaskContract WITH tasks <- agentTask, peer <- agentPeerMessage

Statuses == Contract!Statuses
Ended == {"completed", "failed"}

Idle == Nothing
NotRead == "not read"

ASSUME DriverAssumption == Driver \in [Tasks -> SUBSET Callers]

\* Mutant: a failed task may be tried again.
TransitionsWithRetry(status) ==
    CASE status = "pending" -> {"working", "failed"}
      [] status = "working" -> {"completed", "failed"}
      [] status = "completed" -> {}
      [] status = "failed" -> {"working"}

(* prismaStore.ts has its own copy of the table. *)
VALID_TRANSITIONS(status) ==
    CASE status = "pending" -> {"working", "failed"}
      [] status = "working" -> {"completed", "failed"}
      [] status \in {"completed", "failed"} -> {}

Row(t) == agentTask[t]
Exists(t) == Row(t) # NoTask
RowsOf(c) == {t \in Tasks : Exists(t) /\ Row(t).conv = c}
Fresh(t) == \A i \in DOMAIN created : created[i] # t

TaskInit ==
    /\ agentTask = [t \in Tasks |-> NoTask]
    /\ agentPeerMessage = [t \in Tasks |-> << >>]
    /\ created = << >>
    /\ deleted = {}
    /\ call = [p \in Callers |-> Idle]
    /\ listing = [r \in Readers |-> Nothing]
    /\ atEnd = [t \in Tasks |-> Nothing]

-----------------------------------------------------------------------------
(* createTask: one INSERT, refused when the conversation is gone. *)
CreateTask(p, t, c) ==
    /\ call[p] = Idle
    /\ Fresh(t) /\ p \in Driver[t]
    /\ c \notin deleted
    /\ agentTask' = [agentTask EXCEPT ![t] =
                        [conv |-> c, status |-> "pending", output |-> Undefined]]
    /\ created' = Append(created, t)
    /\ UNCHANGED <<agentPeerMessage, deleted, call, listing, atEnd>>

(* transitionTask is called: findUniqueOrThrow is on its way. *)
CallTransition(p, t, next, output) ==
    /\ call[p] = Idle
    /\ p \in Driver[t] /\ ~Fresh(t)
    /\ call' = [call EXCEPT ![p] =
                  [task |-> t, next |-> next, output |-> output, seen |-> NotRead]]
    /\ UNCHANGED <<agentTask, agentPeerMessage, created, deleted, listing, atEnd>>

(* The row arrives: a missing row and a transition it does not allow throw. *)
ReadCurrent(p) ==
    /\ call[p] # Idle
    /\ call[p].seen = NotRead
    /\ IF /\ Exists(call[p].task)
          /\ call[p].next \in VALID_TRANSITIONS(Row(call[p].task).status)
       THEN call' = [call EXCEPT ![p].seen = Row(call[p].task).status]
       ELSE call' = [call EXCEPT ![p] = Idle]
    /\ UNCHANGED <<agentTask, agentPeerMessage, created, deleted, listing, atEnd>>

(* The UPDATE names the id only: not the status that was checked.  It      *)
(* throws when the row has gone meanwhile.                                 *)
UpdateTask(p) ==
    /\ call[p] # Idle
    /\ call[p].seen # NotRead
    /\ LET t == call[p].task
           ends == Exists(t) /\ call[p].next \in Ended
       IN  /\ agentTask' = IF ~Exists(t) THEN agentTask
                           ELSE [agentTask EXCEPT
                                   ![t].status = call[p].next,
                                   ![t].output = IF call[p].output = Undefined
                                                 THEN @ ELSE call[p].output]
           /\ atEnd' = IF ends THEN [atEnd EXCEPT ![t] = agentPeerMessage[t]] ELSE atEnd
    /\ call' = [call EXCEPT ![p] = Idle]
    /\ UNCHANGED <<agentPeerMessage, created, deleted, listing>>

(* appendPeerMessage: one INSERT, refused by the foreign key when the task *)
(* is not there.  Any caller may write to any task it knows of.            *)
AppendPeerMessage(p, t, m) ==
    /\ call[p] = Idle
    /\ Exists(t)
    /\ Len(agentPeerMessage[t]) < MaxMessages
    /\ agentPeerMessage' = [agentPeerMessage EXCEPT ![t] = Append(@, m)]
    /\ UNCHANGED <<agentTask, created, deleted, call, listing, atEnd>>

(* deleteConversation; the database cascades. *)
DeleteConversation(c) ==
    /\ c \notin deleted
    /\ deleted' = deleted \cup {c}
    /\ agentTask' = [t \in Tasks |-> IF t \in RowsOf(c) THEN NoTask ELSE Row(t)]
    /\ agentPeerMessage' =
          [t \in Tasks |-> IF t \in RowsOf(c) THEN << >> ELSE agentPeerMessage[t]]
    /\ UNCHANGED <<created, call, listing, atEnd>>

(* listAgentTasks and listTasksForConversation: findMany reads the tasks   *)
(* of the conversation, then their peer messages in a second query.        *)
Snapshot(c) == [t \in RowsOf(c) |-> Row(t).status]

ListTasks(r, c) ==
    /\ listing[r] = Nothing
    /\ listing' = [listing EXCEPT ![r] = [conv |-> c, tasks |-> Snapshot(c), msgs |-> Nothing]]
    /\ UNCHANGED <<agentTask, agentPeerMessage, created, deleted, call, atEnd>>

\* Mutant: the peer messages are not included.
ListWithoutMessages(r) ==
    /\ listing[r] # Nothing
    /\ listing[r].msgs = Nothing
    /\ listing' = [listing EXCEPT ![r].msgs = [t \in DOMAIN listing[r].tasks |-> << >>]]
    /\ UNCHANGED <<agentTask, agentPeerMessage, created, deleted, call, atEnd>>

ListMessages(r) ==
    /\ listing[r] # Nothing
    /\ listing[r].msgs = Nothing
    /\ listing' = [listing EXCEPT ![r].msgs =
                     [t \in DOMAIN listing[r].tasks |-> agentPeerMessage[t]]]
    /\ UNCHANGED <<agentTask, agentPeerMessage, created, deleted, call, atEnd>>

TaskNext ==
    \/ \E p \in Callers, t \in Tasks :
          \/ \E c \in Conversations : CreateTask(p, t, c)
          \/ \E next \in Statuses, output \in Outputs \cup {Undefined} :
                CallTransition(p, t, next, output)
          \/ \E m \in Messages : AppendPeerMessage(p, t, m)
    \/ \E p \in Callers : ReadCurrent(p) \/ UpdateTask(p)
    \/ \E c \in Conversations : DeleteConversation(c)
    \/ \E r \in Readers : ListMessages(r) \/ \E c \in Conversations : ListTasks(r, c)

TaskSpec == TaskInit /\ [][TaskNext]_taskVars

-----------------------------------------------------------------------------
Listed(r) == listing[r] # Nothing /\ listing[r].msgs # Nothing

(* A transition on its way, with the status it has read. *)
CallRecord ==
    [task : Tasks, next : Statuses, output : Outputs \cup {Undefined},
     seen : Statuses \cup {NotRead}]

(* A listing: the tasks the first query found, and what the second has of  *)
(* them.                                                                   *)
ListingOK(l) ==
    /\ DOMAIN l = {"conv", "tasks", "msgs"}
    /\ l.conv \in Conversations
    /\ \E T \in SUBSET Tasks : l.tasks \in [T -> Statuses]
    /\ l.msgs # Nothing => l.msgs \in [DOMAIN l.tasks -> Seq(Messages)]

(* Type invariant. *)
TaskTypeOK ==
    /\ agentTask \in [Tasks -> Contract!TaskRecord \cup {NoTask}]
    /\ agentPeerMessage \in [Tasks -> Seq(Messages)]
    /\ created \in Seq(Tasks)
    /\ deleted \subseteq Conversations
    /\ call \in [Callers -> CallRecord \cup {Idle}]
    /\ \A p \in Callers : call[p] # Idle => p \in Driver[call[p].task]
    /\ DOMAIN listing = Readers
    /\ \A r \in Readers : listing[r] # Nothing => ListingOK(listing[r])
    /\ atEnd \in [Tasks -> Seq(Messages) \cup {Nothing}]

(* Each task is moved by one turn only, which awaits its calls in order.   *)
OneDriver == \A t \in Tasks : \A p, q \in Driver[t] : p = q

(* The store keeps the contract of the in-memory store: every statement of *)
(* prismaStore.ts is a step of the contract or changes nothing it speaks   *)
(* of.  It holds although a transition checks a row it read earlier, as    *)
(* long as a task has one driver, which awaits each transition.            *)
KeepsContract == Contract!ContractSpec

(* A task listed as ended is listed with all that was said before it       *)
(* ended, though its row and its messages are read by two queries: unless  *)
(* the conversation was deleted, which empties the second.                 *)
EndedListsAll ==
    \A r \in Readers : Listed(r) /\ listing[r].conv \notin deleted =>
        \A t \in DOMAIN listing[r].tasks :
            listing[r].tasks[t] \in Ended =>
                Len(atEnd[t]) <= Len(listing[r].msgs[t])

=============================================================================
