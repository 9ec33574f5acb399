\* As Executor.cfg, with one attempt.
CONSTANTS
  w = w
  t = t
  r = r
  x = x
  Targets <- MCTargets
  Area <- MCArea
  Redirs <- MCRedirs
  PipeRedirs <- MCPipeRedirs
  Pipe = pipe
  MaxSpecs = 3
  Chars <- MCChars
  MaxText = 0
  MaxTokens = 0
  Dirs = {home, dir}
  Home = home
  MaxAttempts = 1
  MaxCmds = 2
SPECIFICATION Spec
INVARIANT PipelineReconstructed
CHECK_DEADLOCK FALSE
