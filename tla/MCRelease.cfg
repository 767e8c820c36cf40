SPECIFICATION Spec
CONSTANTS
  Version = {v1}
  Template = v0
  Binary = {"b1"}
  FirstBuild = "b1"
  Salt = {1}
  Faults = {"git", "late", "vault", "kill"}
  Habits = {"build", "spec", "project", "all", "switch", "restore"}
  MaxCommit = 5
  MaxStamp = 2
INVARIANTS TypeOK SignedAsTagged
PROPERTIES MergesOnlyTagged
