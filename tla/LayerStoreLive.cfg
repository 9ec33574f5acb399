\* Two servers under fair scheduling and a fair flock; one may stop while the other
\* starts or stops.
CONSTANTS
  Procs = {p1, p2}
  Sids = {s1, s2}
  Contents = {a}
  NoProc = NoProc
  DeadProc = DeadProc
  NoSid = NoSid
  NoContent = NoContent
  Events = {"exit"}
  MaxEvents = 2
  Overlap = TRUE
  MaxDepth = 2
SPECIFICATION FairSpec
PROPERTIES ToolsFinish StopsFinish
CHECK_DEADLOCK FALSE
