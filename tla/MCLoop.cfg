SPECIFICATION FairLoopSpec
CONSTANTS
  Field <- MCField
  FieldOrder <- MCFieldOrder
  Policy <- MCPolicy
  ActionOf <- MCActionOf
  Op <- MCOp
  Role <- MCRole
  StateField <- MCStateField
  Derivation <- MCDerivation
  Value = {"x", "y", "true", "false", "some", "empty"}
  Absent = "absent"
  NoAction = "none"
  ResId = {1, 2, 3}
  JobId = {1, 2}
  MaxRev = 12
  ForeignRev = 2
  Async = {"ChangeCompartment"}
  JobEnd = {"SUCCEEDED"}
  Faults = {}
  EmptyShown = "empty"
  ForeignValue = {"x"}
  Session = {s1, s2}
  Plans = {}
  Intents = {}
  Invoked = {}
  Conditional = {TRUE}
  InitStates <- MCStates
  Wanted <- MCWanted
  Retried = {}
INVARIANTS LoopTypeOK CleanRunConverges
PROPERTIES Settles
