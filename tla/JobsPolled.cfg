\* Two jobs, polled by the reaper and by the tools under fair threads, that may be
\* killed, and a server that may exit.
CONSTANTS
  Jobs = {j1, j2}
  NoJob = NoJob
  NoCode = NoCode
  Codes = {0}
  MaxTries = 2
  Kills = TRUE
  Stops = TRUE
SPECIFICATION FairSpec
INVARIANTS RecordTrue RecordedAfterExit DirOutlivesJob
PROPERTIES ReportConsistent ImplementsRecords ExitRecorded ToolsAnswer
CHECK_DEADLOCK FALSE
