\* Six messages with a child and a scalar in one oneof, and another scalar;
\* both scalars have a default, and values of two types.
CONSTANTS
  Msg = {m1, m2, m3, m4, m5, m6}
  List = {}
  Scalar = {one, half}
  None = none
  Unset = unset
  Overflow = overflow
  NoCall = nocall
  child = child
  flag = flag
  num = num
  text = text
  names = names
  wide = wide
  one = one
  half = half
  Field = {child, flag, num, text}
  ListField = {}
  Oneof = {child, num, text}
  Nullable = {child}
  Fits <- MCFits
  Wrapped <- NoWrappers
  MaxLen = 0
  MaxSteps = 4
  Type <- MixedType
  ElemType <- ListType
  Default <- SomeDefault
  FieldOrder <- Alphabetic
SPECIFICATION MergeSpec
SYMMETRY MCSymmetry
INVARIANTS
  MergeTypeOK
  MergeExact
  OnlyDestination
  OutcomeDetermined
PROPERTIES
  FrozenImmutable
  DefaultsExact
CHECK_DEADLOCK FALSE
