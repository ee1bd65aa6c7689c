\* Messages with a child and a scalar of two types.
CONSTANTS
  Msg = {m1, m2, m3, m4, m5}
  List = {}
  Scalar = {one, half}
  None = none
  Unset = unset
  Overflow = overflow
  NoCall = nocall
  child = child
  flag = flag
  num = num
  text = text
  names = names
  wide = wide
  one = one
  half = half
  Field = {child, num}
  ListField = {}
  Oneof = {}
  Nullable = {child}
  Fits <- MCFits
  Wrapped <- NoWrappers
  MaxLen = 0
  MaxSteps = 4
  Type <- MixedType
  ElemType <- ListType
  Default <- NoDefault
  FieldOrder <- Alphabetic
SPECIFICATION MergeSpec
SYMMETRY MCSymmetry
INVARIANTS
  MergedRecursively
CHECK_DEADLOCK FALSE
