SPECIFICATION Spec
CONSTANTS
  Version = {v1}
  Template = v0
  Binary = {"b1", "b2"}
  FirstBuild = "b1"
  Salt = {1}
  Faults = {}
  Habits = {"build", "spec"}
  MaxCommit = 5
  MaxStamp = 1
INVARIANTS TagBindsBinary
CHECK_DEADLOCK FALSE
