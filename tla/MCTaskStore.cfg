\* Two callers with a task each, one listing, a task's messages up to one.
SPECIFICATION TaskSpec
CONSTANTS
  Tasks = {t1, t2}
  Conversations = {conv1}
  Messages = {msg}
  Outputs = {out}
  Undefined = undef
  NoTask = no_task
  Nothing = nothing
  Callers = {c1, c2}
  Readers = {reader}
  MaxMessages = 1
  c1 = c1
  c2 = c2
  t1 = t1
  t2 = t2
  Driver <- MCDriver
INVARIANTS
  EndedListsAll
PROPERTIES
  KeepsContract
SYMMETRY MCSymmetry
CHECK_DEADLOCK FALSE
