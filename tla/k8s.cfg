\* Five messages, three runs, two faults.
CONSTANTS
  pod = pod
  claim = claim
  custom = custom
  volume = volume
  Kind = {pod, claim, custom, volume}
  Discovered = {pod, claim, volume}
  Namespaced = {pod, claim}
  app = app
  side = side
  Name = {app, side}
  old = old
  new = new
  Body = {old, new}
  Messages <- MCMessages
  NoName = noname
  Argument = {app, noname}
  Absent = absent
  NoRequest = norequest
  MaxRuns = 3
  MaxFaults = 2
SPECIFICATION Spec
INVARIANTS
  ReportsTrue
  CleanRunSettles
PROPERTIES
  Surgical
CHECK_DEADLOCK FALSE
