\* Programs of up to three commands; three attempts show the first, a middle and
\* the last retry.
CONSTANTS
  w = w
  t = t
  r = r
  x = x
  Targets <- MCTargets
  Area <- MCArea
  Redirs <- MCRedirs
  PipeRedirs <- MCPipeRedirs
  Pipe = pipe
  MaxSpecs = 3
  Chars <- MCChars
  MaxText = 4
  MaxTokens = 4
  Dirs = {home, dir}
  Home = home
  MaxAttempts = 3
  MaxCmds = 3
SPECIFICATION FairSpec
INVARIANTS RunsOnce ChainAsShell InDir ReplyTrue StreamsAsShell QuotesHold
  WordsAsShell ParseKeeps
PROPERTIES RefusalHidden Answered
CHECK_DEADLOCK FALSE
