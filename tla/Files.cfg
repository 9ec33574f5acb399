\* Two operations on one file below up to two mount points, after the binds of the
\* command line; two commands of a tool call may fail, such as a tee and the rm after it.
CONSTANTS
  h1 = h1
  h2 = h2
  cwd = cwd
  ssh = ssh
  sub = sub
  old = old
  new = new
  raw = raw
  repl = repl
  unended = unended
  busy = busy
  absent = absent
  Hosts = {h1, h2, cwd, ssh}
  Class <- MCClass
  Mounts = {root, sub, elsewhere}
  Over = {root, sub}
  Cwd = cwd
  Root = root
  Overlay = overlay
  Old = old
  New = new
  Raw = raw
  Repl = repl
  Unended = unended
  Busy = busy
  Absent = absent
  Starts <- MCStarts
  Texts <- MCTexts
  Given <- MCGiven
  Linked <- MCLinked
  MaxShown = 1
  MaxBinds = 3
  MaxLines = 2
  MaxFaults = 2
  MaxOps = 2
SPECIFICATION Spec
INVARIANTS EditAtomic EditTrue TempGone WriteTrue ReadTrue GrepTrue
PROPERTIES RedirectShown ReadOnlyKept
CHECK_DEADLOCK FALSE
