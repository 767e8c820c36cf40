SPECIFICATION Spec
CONSTANTS
  Resource <- MCResource
  NoName = "none"
  OpOrder <- MCOpOrder
  Segment <- MCSegment
  Param <- MCParam
  GetOf <- MCGetOf
  DetailsOf <- MCDetailsOf
  CreateNamed <- MCCreateNamed
  UpdateNamed <- MCUpdateNamed
  ActionNamed <- MCActionNamed
  ChangeNamed <- MCChangeNamed
  ClientOf <- MCClientOf
  Supplied <- MCSupplied
  NoBundle = NoBundle
  OperationOf <- MCOperationOf
  Version <- MCVersion
  Sdk <- MCSdk
  FirstVersion <- MCFirstVersion
  GenOrder <- MCGenOrder
  Clients <- MCClients
  Kind <- MCKind
  Payload <- MCPayload
  MaxAdmitted = 1
  FieldNames <- MCFieldNames
  Absent = "absent"
  Seen <- MCSeen
INVARIANTS
  TypeOK
  AdmittedStaysAdmissible
  CreateSurfaceIsWhole
  PinnedIsExtractable
  AdmittedIsPlannable
