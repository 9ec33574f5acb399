\* One session appends to a file it has committed.
CONSTANTS
  Sids = {s1}
  Files = {f}
  Db = db
  Text = text
  Targets <- NoTargets
  NoList = NoList
  MaxLen = 2
  MaxCommits = 1
  MaxLayers = 2
  MaxRare = 0
  NoJob = NoJob
SPECIFICATION Spec
PROPERTIES AppendKeeps
