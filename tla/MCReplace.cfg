SPECIFICATION FairSpec
CONSTANTS
  Field <- MCField
  FieldOrder <- MCFieldOrder
  Policy <- MCPolicy
  ActionOf <- MCActionOf
  Op <- MCOp
  Role <- MCRole
  StateField <- MCField
  Derivation = {}
  Value = {"x", "y"}
  Absent = "absent"
  NoAction = "none"
  ResId = {1, 2}
  JobId = {1}
  MaxRev = 4
  ForeignRev = 2
  Async = {"Delete"}
  JobEnd = {"SUCCEEDED", "FAILED"}
  Faults = {"sign", "garbled", "stop"}
  EmptyShown = "absent"
  ForeignValue = {"y"}
  Session = {s1}
  Plans <- MCPlans
  Intents <- MCIntents
  Invoked = {"ChangeCompartment"}
  Conditional = {TRUE, FALSE}
  InitStates <- MCInitStates
INVARIANTS TypeOK HonestVerdict
PROPERTIES ExecuteComesBack RunsPlanVerbatim
