SPECIFICATION Spec
CONSTANTS
  Field <- MCField
  FieldOrder <- MCFieldOrder
  Policy <- MCPolicy
  ActionOf <- MCActionOf
  Op <- MCOp
  Role <- MCRole
  StateField <- MCField
  Derivation = {}
  Value = {"x", "y"}
  Absent = "absent"
  NoAction = "none"
  ResId = {1}
  JobId = {1}
  MaxRev = 3
  ForeignRev = 2
  Async = {"ChangeCompartment"}
  JobEnd = {"SUCCEEDED", "FAILED"}
  Faults = {"lost", "stop"}
  EmptyShown = "absent"
  ForeignValue = {"y"}
  Session = {s1, s2}
  Plans <- MCEditPlans
  Intents <- MCIntents
  Invoked = {}
  Conditional = {TRUE}
  InitStates <- MCInitStates
INVARIANTS OneWinnerPerRevision
PROPERTIES NoSilentOverwrite
SYMMETRY MCSymmetry
