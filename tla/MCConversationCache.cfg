\* A wallet with two conversations in one of two spellings, pages of up to two.
SPECIFICATION Spec
CONSTANTS
  a = a
  b = b
  listKey = listKey
  c1 = c1
  c2 = c2
  Ids = {c1, c2}
  Addresses = {a, b}
  Keys = {listKey}
  Owner <- MCOwner
  KeyOf <- MCKeyOf
  PageSize = 2
  Start = 1
  Tasks = {t1, t2}
  MaxWrites = 2
INVARIANTS
  WalkShowsAll
  ShownOnce
  FreshAtRest
PROPERTY EventuallyFresh
CHECK_DEADLOCK FALSE
