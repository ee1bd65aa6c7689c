\* Two runs of a test with up to four nested calls and three failed assertions.
CONSTANTS
  MaxDepth = 5
  MaxFailures = 3
  MaxRuns = 2
SPECIFICATION Spec
INVARIANTS
  FailuresAccounted
  ReportExact
\* After MaxRuns runs nothing more is asked of the test.
CHECK_DEADLOCK FALSE
