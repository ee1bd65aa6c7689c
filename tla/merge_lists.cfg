\* Two messages with list fields of different types, three shared lists.
CONSTANTS
  Msg = {m1, m2}
  List = {l1, l2, l3}
  Scalar = {one, half}
  None = none
  Unset = unset
  Overflow = overflow
  NoCall = nocall
  child = child
  flag = flag
  num = num
  text = text
  names = names
  wide = wide
  one = one
  half = half
  Field = {names, wide}
  ListField = {names, wide}
  Oneof = {}
  Nullable = {child}
  Fits <- MCFits
  Wrapped <- NoWrappers
  MaxLen = 1
  MaxSteps = 6
  Type <- SameTypes
  ElemType <- ListType
  Default <- NoDefault
  FieldOrder <- Alphabetic
SPECIFICATION MergeSpec
SYMMETRY MCSymmetry
INVARIANTS
  MergeExact
  OnlyDestination
  ConformUnlessBypassed
PROPERTIES
  FrozenImmutable
CHECK_DEADLOCK FALSE
