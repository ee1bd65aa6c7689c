\* Two messages with two map fields, three dicts.
CONSTANTS
  Msg = {m1, m2}
  Dict = {d1, d2, d3}
  labels = labels
  wide = wide
  name = name
  other = other
  number = number
  int = int
  float = float
  text = text
  MapField = {labels, wide}
  Key = {name, other, number}
  Value = {int, float}
  None = none
  Unset = unset
  KeyFits <- MCKeyFits
  ValueFits <- MCValueFits
  NoneDrops = {labels}
  MapType <- MCMapType
  MaxSteps = 5
SPECIFICATION Spec
SYMMETRY MCSymmetry
INVARIANTS
  MapConforms
PROPERTIES
  FailureContained
  FrozenMaps
  MergeUnion
CHECK_DEADLOCK FALSE
