\* Three files; Load is called with an alias ("./main.sky") of the canonical
\* path of the main file ("main.sky").
CONSTANTS
  File = {main, liba, libb}
  MainFile = main
  MainPath = dotmain
  NoPath = none
  Test = {t1}
  MaxBody = 2
SPECIFICATION MCSpec
INVARIANTS
  LoadingIsStack
  OkIsComplete
  ExecutedOnce
PROPERTIES
  Terminates
  ImplementsConfigLoad
\* Load returns and the system stops; Terminates says it stops nowhere else.
CHECK_DEADLOCK FALSE
