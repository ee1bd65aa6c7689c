\* The instance of build.cfg.
CONSTANTS
  Msg = {m1, m2, m3, m4}
  List = {l1, l2}
  None = none
  Unset = unset
  NoCall = nocall
  wrappers = wrappers
  blobs = blobs
  children = children
  level = level
  num = num
  wrapped = wrapped
  child = child
  Field = {wrappers, blobs, children, level, num, wrapped, child}
  ListField = {wrappers, blobs, children}
  Oneof = {num, wrapped}
  Nullable = {wrapped, child}
  HasPresence = {num, wrapped, child}
  Bytes = {blobs}
  Half32 = 2
  Half64 = 4
  Precise = 4
  Halves <- MCHalves
  Enum <- MCEnum
  Scalar <- MCScalar
  Overflow <- Error
  Zero <- MCZero
  Fits <- MCFits
  Wrapped <- MCWrapped
  Proto <- MCProto
  RoundTrip <- MCRoundTrip
  MaxLen = 2
  MaxArgs = 2
  MaxSteps = 2
SPECIFICATION MCBuildSpec
SYMMETRY MCSymmetry
INVARIANTS
  CloneReturns
CHECK_DEADLOCK FALSE
