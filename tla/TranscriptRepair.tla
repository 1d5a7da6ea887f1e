-------------------------- MODULE TranscriptRepair --------------------------
(***************************************************************************)
(* chat.service.ts, sanitizeOrphanedToolCalls and dropOrphanedToolResults: *)
(* what every model call makes of session.messages, because a provider     *)
(* rejects a tool call without a result and a result without a call.       *)
(*                                                                         *)
(* A message has a role and the tool_call_ids in its parts: those it calls *)
(* (assistant) or the one it answers (tool; toolResultMessage makes one    *)
(* part).  The ids of one reply are distinct, so they are a set.  `real`   *)
(* tells the result of a tool from an interrupted marker.                  *)
(***************************************************************************)
EXTENDS Integers, SequencesExt

CONSTANT Calls  \* tool_call_ids

Message == [role : {"user", "assistant", "tool"}, ids : SUBSET Calls, real : BOOLEAN]

User == [role |-> "user", ids |-> {}, real |-> FALSE]
Reply(C) == [role |-> "assistant", ids |-> C, real |-> FALSE]
ToolResult(c) == [role |-> "tool", ids |-> {c}, real |-> TRUE]
Interrupted(c) == [role |-> "tool", ids |-> {c}, real |-> FALSE]

IsMessage(m) ==
  /\ m \in Message
  /\ m.role = "user" => m.ids = {}
  /\ m.role = "tool" => \E c \in Calls : m.ids = {c}

\* Mutant: a result anywhere later counts as the reply.
AllLater(messages, i) == {j \in i + 1 .. Len(messages) : messages[j].role = "tool"}
(* The tool messages directly behind message i.                            *)
RepliesTo(messages, i) ==
  {j \in i + 1 .. Len(messages) : \A k \in i + 1 .. j : messages[k].role = "tool"}

Answered(messages, i) == UNION {messages[j].ids : j \in RepliesTo(messages, i)}

Unanswered(messages, i) ==
  IF messages[i].role = "assistant" THEN messages[i].ids \ Answered(messages, i) ELSE {}

MarkersFor(C) == SetToSeq({Interrupted(c) : c \in C})

(* An interrupted marker for each unanswered call, behind its message.     *)
Sanitized(messages) ==
  LET out[n \in 0 .. Len(messages)] ==
        IF n = 0 THEN <<>>
        ELSE out[n - 1] \o <<messages[n]>> \o MarkersFor(Unanswered(messages, n))
  IN  out

SanitizeOrphanedToolCalls(messages) == Sanitized(messages)[Len(messages)]

\* Mutant: an answered call stays open.
StillOpen(open, message) == open
OpenAfter(open, message) == open \ message.ids

(* One scan with the set of calls still open: a result of none is dropped. *)
Scan(acc, m) ==
  CASE m.role = "assistant" ->
         [open |-> acc.open \cup m.ids, out |-> Append(acc.out, m)]
    [] m.role = "tool" /\ m.ids \subseteq acc.open ->
         [open |-> OpenAfter(acc.open, m), out |-> Append(acc.out, m)]
    [] m.role = "tool" /\ ~(m.ids \subseteq acc.open) -> acc
    [] m.role = "user" -> [open |-> acc.open, out |-> Append(acc.out, m)]

Scanned(messages) ==
  LET acc[n \in 0 .. Len(messages)] ==
        IF n = 0 THEN [open |-> {}, out |-> <<>>] ELSE Scan(acc[n - 1], messages[n])
  IN  acc

DropOrphanedToolResults(messages) == Scanned(messages)[Len(messages)].out

\* Mutant: the two passes in the other order.
DropFirst(messages) == SanitizeOrphanedToolCalls(DropOrphanedToolResults(messages))
(* What a model is shown.                                                  *)
View(messages) == DropOrphanedToolResults(SanitizeOrphanedToolCalls(messages))

-----------------------------------------------------------------------------
(* Reference definitions: what the view should be, whatever the passes do. *)

(* Message j is a result directly behind message i: in between are others. *)
Follows(messages, j, i) ==
  i < j /\ \A k \in i + 1 .. j : messages[k].role = "tool"

(* Message j is the first result of a call of message i.                   *)
Resolves(messages, j, i) ==
  /\ messages[i].role = "assistant"
  /\ Follows(messages, j, i)
  /\ messages[j].ids \subseteq messages[i].ids
  /\ \A k \in i + 1 .. j - 1 : messages[k].ids # messages[j].ids

Kept(messages, j) ==
  messages[j].role = "tool" => \E i \in 1 .. j - 1 : Resolves(messages, j, i)

Unresolved(messages, i) ==
  IF messages[i].role = "assistant"
  THEN {c \in messages[i].ids : ~ \E j \in 1 .. Len(messages) :
                                    messages[j].ids = {c} /\ Resolves(messages, j, i)}
  ELSE {}

(* The view, message by message.                                           *)
InPlace(messages) ==
  LET view[n \in 0 .. Len(messages)] ==
        IF n = 0 THEN <<>>
        ELSE IF Kept(messages, n)
        THEN view[n - 1] \o <<messages[n]>> \o MarkersFor(Unresolved(messages, n))
        ELSE view[n - 1]
  IN  view

ViewInPlace(messages) == InPlace(messages)[Len(messages)]

(* A transcript a provider accepts: behind each reply one result of each   *)
(* of its calls, and no other result anywhere.                             *)
WellPaired(messages) ==
  /\ \A i \in 1 .. Len(messages) : messages[i].role = "assistant" =>
       \A c \in messages[i].ids :
         \E j \in 1 .. Len(messages) :
           /\ messages[j].ids = {c} /\ Follows(messages, j, i)
           /\ \A k \in 1 .. Len(messages) :
                messages[k].ids = {c} /\ Follows(messages, k, i) => k = j
  /\ \A j \in 1 .. Len(messages) : messages[j].role = "tool" =>
       \E i \in 1 .. j - 1 : /\ messages[i].role = "assistant"
                             /\ Follows(messages, j, i)
                             /\ messages[j].ids \subseteq messages[i].ids

=============================================================================
