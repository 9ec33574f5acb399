\* Two servers, one of which is killed once.
CONSTANTS
  Procs = {p1, p2}
  Sids = {s1, s2, s3}
  Contents = {a, b}
  NoProc = NoProc
  DeadProc = DeadProc
  NoSid = NoSid
  NoContent = NoContent
  Events = {"kill"}
  MaxEvents = 1
  Overlap = FALSE
  MaxDepth = 2
SPECIFICATION Spec
SYMMETRY Symmetry
INVARIANTS StackPresent
CHECK_DEADLOCK FALSE
