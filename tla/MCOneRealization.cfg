SPECIFICATION LoopSpec
CONSTANTS
  Field <- MCField
  FieldOrder <- MCFieldOrder
  Policy <- MCPolicy
  ActionOf <- MCActionOf
  Op <- MCOp
  Role <- MCRole
  StateField <- MCStateField
  Derivation <- MCDerivation
  Value = {"x", "y", "true", "false", "some", "empty"}
  Absent = "absent"
  NoAction = "none"
  ResId = {1, 2, 3}
  JobId = {}
  MaxRev = 6
  ForeignRev = 2
  Async = {}
  JobEnd = {"SUCCEEDED", "FAILED"}
  Faults = {"sign","actuate","lost","service","stop"}
  EmptyShown = "empty"
  ForeignValue = {"x"}
  Session = {s1, s2}
  Plans = {}
  Intents = {}
  Invoked = {}
  Conditional = {TRUE, FALSE}
  InitStates <- MCReplaceState
  Wanted <- MCWanted
  Retried = {"failed","lost"}
INVARIANTS OneRealization CleanRunConverges
