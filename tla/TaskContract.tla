---------------------------- MODULE TaskContract ----------------------------
(***************************************************************************)
(* What a TaskStore promises (agents/tasks/store.ts): the in-memory store, *)
(* whose methods run to their end without an await.  A task moves along    *)
(* VALID_TRANSITIONS, keeps its last output, and collects its peer         *)
(* messages in the order they were appended; a call the store refuses      *)
(* changes nothing.                                                        *)
(***************************************************************************)
EXTENDS Sequences

CONSTANTS
    Tasks,          \* the ids randomUUID may return
    Conversations,
    Messages,
    Outputs,        \* the outputs a caller may pass
    Undefined,      \* no output
    NoTask          \* not a task

VARIABLES
    tasks,      \* task -> its record, or NoTask
    peer,       \* task -> its peer messages
    created     \* the tasks in the order they were created

contractVars == <<tasks, peer, created>>

Statuses == {"pending", "working", "completed", "failed"}

TaskRecord == [conv : Conversations, status : Statuses, output : Outputs \cup {Undefined}]

VALID_TRANSITIONS(status) ==
    CASE status = "pending" -> {"working", "failed"}
      [] status = "working" -> {"completed", "failed"}
      [] status \in {"completed", "failed"} -> {}

ContractInit ==
    /\ tasks = [t \in Tasks |-> NoTask]
    /\ peer = [t \in Tasks |-> << >>]
    /\ created = << >>

CreateTask(t, c) ==
    /\ \A i \in DOMAIN created : created[i] # t
    /\ tasks' = [tasks EXCEPT ![t] = [conv |-> c, status |-> "pending", output |-> Undefined]]
    /\ created' = Append(created, t)
    /\ UNCHANGED peer

(* `output ?? task.output`: a transition without an output keeps the last. *)
TransitionTask(t, next, output) ==
    /\ tasks[t] # NoTask
    /\ next \in VALID_TRANSITIONS(tasks[t].status)
    /\ tasks' = [tasks EXCEPT ![t].status = next,
                              ![t].output = IF output = Undefined THEN @ ELSE output]
    /\ UNCHANGED <<peer, created>>

AppendPeerMessage(t, m) ==
    /\ tasks[t] # NoTask
    /\ peer' = [peer EXCEPT ![t] = Append(@, m)]
    /\ UNCHANGED <<tasks, created>>

(* The schema drops the tasks of a deleted conversation and their messages *)
(* (onDelete: Cascade); the in-memory store, used by tests, has no such    *)
(* call.                                                                   *)
DropConversation(c) ==
    LET gone == {t \in Tasks : tasks[t] # NoTask /\ tasks[t].conv = c}
    IN  /\ tasks' = [t \in Tasks |-> IF t \in gone THEN NoTask ELSE tasks[t]]
        /\ peer' = [t \in Tasks |-> IF t \in gone THEN << >> ELSE peer[t]]
        /\ UNCHANGED created

ContractNext ==
    \/ \E t \in Tasks, c \in Conversations : CreateTask(t, c)
    \/ \E t \in Tasks, next \in Statuses, output \in Outputs \cup {Undefined} :
          TransitionTask(t, next, output)
    \/ \E t \in Tasks, m \in Messages : AppendPeerMessage(t, m)
    \/ \E c \in Conversations : DropConversation(c)

ContractSpec == ContractInit /\ [][ContractNext]_contractVars

=============================================================================
