\* Three lists, two distinct leaves of the right type.
CONSTANTS
  List = {outer, inner, innermost}
  MainList = outer
  Good = {good1, good2}
  Bad = {bad}
  MaxLen = 2
SPECIFICATION MCSpec
INVARIANTS
  CollectedInOrder
PROPERTIES
  ResultExact
  Terminates
\* The call returns and the system stops.
CHECK_DEADLOCK FALSE
