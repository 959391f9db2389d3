SPECIFICATION FairSpec
CONSTANTS
  c1 = c1
  c2 = c2
  CPU <- Processors
  Raised = {2, 6, 8, 9, 14}
  Messages = {"ok"}
  Reasons <- MCReasons
  TRACE_BUFSIZE = 16
  PANIC_BUFSIZE = 20
  MAX_TRAPS = 1
INVARIANTS TypeOK ReportWhole
PROPERTIES OneReport EntryRight PanicEnds
