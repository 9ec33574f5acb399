\* Two sessions, one file and the package database; one mishap, link or job at a time,
\* and one link beside a job.
CONSTANTS
  Sids = {s1, s2}
  Files = {f}
  Db = db
  Text = text
  Targets <- OwnTargets
  NoList = NoList
  MaxLen = 1
  MaxCommits = 2
  MaxLayers = 2
  MaxRare = 1
  NoJob = NoJob
SPECIFICATION Spec
SYMMETRY Symmetry
INVARIANTS LayersHonest ListFresh
PROPERTIES CommitFaithful Restores JobSteady
