\* One server that is stopped, signalled, killed and restarted at any step.
CONSTANTS
  Procs = {p1}
  Sids = {s1, s2, s3}
  Contents = {a, b}
  NoProc = NoProc
  DeadProc = DeadProc
  NoSid = NoSid
  NoContent = NoContent
  Events = {"exit", "term", "kill", "io"}
  MaxEvents = 3
  Overlap = TRUE
  MaxDepth = 2
SPECIFICATION Spec
SYMMETRY Symmetry
INVARIANTS StackPresent NeverUndercounted SweepLeaves
CHECK_DEADLOCK FALSE
