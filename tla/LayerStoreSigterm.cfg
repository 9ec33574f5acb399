\* A SIGTERM arrives while a tool holds the index lock.
CONSTANTS
  Procs = {p1}
  Sids = {s1}
  Contents = {a}
  NoProc = NoProc
  DeadProc = DeadProc
  NoSid = NoSid
  NoContent = NoContent
  Events = {"term"}
  MaxEvents = 1
  Overlap = FALSE
  MaxDepth = 1
SPECIFICATION FairSpec
PROPERTIES StopsFinish
CHECK_DEADLOCK FALSE
