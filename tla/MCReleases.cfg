SPECIFICATION FairSpec
CONSTANTS
  Version = {v1}
  Template = v0
  Binary = {"b1"}
  FirstBuild = "b1"
  Salt = {1, 2}
  Faults = {}
  Habits = {"build", "spec", "project"}
  MaxCommit = 10
  MaxStamp = 1
PROPERTIES Releases
CHECK_DEADLOCK FALSE
