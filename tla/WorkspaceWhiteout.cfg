\* Two sessions that remove files and commit; nothing times out.
CONSTANTS
  Sids = {s1, s2}
  Files = {f}
  Db = db
  Text = text
  Targets <- NoTargets
  NoList = NoList
  MaxLen = 1
  MaxCommits = 3
  MaxLayers = 2
  MaxRare = 0
  NoJob = NoJob
SPECIFICATION Spec
PROPERTIES CommitKeepsView
