\* Two servers that start and stop at different times; no crash.
CONSTANTS
  Procs = {p1, p2}
  Sids = {s1, s2, s3}
  Contents = {a, b}
  NoProc = NoProc
  DeadProc = DeadProc
  NoSid = NoSid
  NoContent = NoContent
  Events = {"exit"}
  MaxEvents = 2
  Overlap = FALSE
  MaxDepth = 2
SPECIFICATION Spec
SYMMETRY Symmetry
INVARIANTS StackBacked SessionsCounted ParentsCounted NoLostUpdate
PROPERTIES ImplementsRefs
CHECK_DEADLOCK FALSE
