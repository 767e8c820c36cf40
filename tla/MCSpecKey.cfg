SPECIFICATION FairSpec
CONSTANTS
  Version = {v1}
  Template = v0
  Binary = {"b1"}
  FirstBuild = "b1"
  Salt = {1}
  Faults = {}
  Habits = {"build"}
  MaxCommit = 5
  MaxStamp = 1
PROPERTIES Releases
CHECK_DEADLOCK FALSE
