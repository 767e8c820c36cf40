---------------------------- MODULE AdmittedPlans ----------------------------
(***************************************************************************)
(* The pipeline composed with the planner: module ResourceContract for the *)
(* contract of a pinned bundle.  The kinds of JSON values stand for the    *)
(* values.                                                                 *)
(***************************************************************************)
EXTENDS SchemaPipeline

CONSTANTS
  FieldNames,  \* the names of all fields, in string order
  Absent,      \* no such key
  Seen         \* payloads an observation's effective_config may come in

\* FieldNames has every field of a bundle at one place.
ASSUME NamesAssumption ==
  /\ FieldNames \in Seq(Range(FieldNames))
  /\ \A v \in Version, r \in Resource : Extracted[v][r].exit # 1 =>
       \A f \in DOMAIN Extracted[v][r].bundle.config : \E i \in DOMAIN FieldNames :
         \A j \in DOMAIN FieldNames : FieldNames[j] = f <=> j = i

\* What the provider answers an observation with is an object in a proper envelope.
ASSUME SeenAssumption == \A p \in Seen : CheckEnvelope(p) = {} /\ IsObject(p)

\* The name of the operation planned for a role the contract has none for.
Unnamed == [read |-> "no read", create |-> "no create",
            update |-> "no update", delete |-> "no delete"]

\* The stand-ins are no operations, and without a model there is no action.
ASSUME StandInAssumption ==
  /\ \A role \in DOMAIN Unnamed : Unnamed[role] \notin Range(OpOrder) \cup {NoName}
  /\ OperationOf[NoName] = NoName

Lacking(contract) ==
  {role \in DOMAIN Unnamed :
     \A o \in DOMAIN contract.operations : contract.operations[o] # role}

RoleOf(contract) ==
  [o \in DOMAIN contract.operations \cup {Unnamed[role] : role \in Lacking(contract)} |->
     IF o \in DOMAIN contract.operations THEN contract.operations[o]
       ELSE CHOOSE role \in Lacking(contract) : Unnamed[role] = o]

Planner(contract) ==
  INSTANCE ResourceContract WITH
    Field <- DOMAIN contract.fields,
    FieldOrder <- FieldNames,
    Policy <- [f \in DOMAIN contract.fields |-> contract.fields[f].policy],
    ActionOf <- [f \in DOMAIN contract.fields |-> contract.fields[f].action],
    Op <- DOMAIN RoleOf(contract),
    Role <- RoleOf(contract),
    StateField <- {}, Derivation <- {},
    Value <- JsonKind,
    NoAction <- NoName

ConfigOf(contract, payload) ==
  [f \in DOMAIN contract.fields |-> IF f \in Keys(payload) THEN payload.object[f] ELSE Absent]

\* Validate, the generated contract and the planner are written apart: the plan
\* for an admitted intent is never an error, all its operations but the delete
\* of a replacement are operations the contract names, and every field that
\* differs is in the body of one of them.
AdmittedIsPlannable ==
  \A a \in admitted : a.kind \in Resource =>
    LET contract == Contracts(pinned)[a.kind]
        desired  == ConfigOf(contract, a.payload)
    IN  \A p \in Seen :
          LET observed == ConfigOf(contract, p)
              ops == Planner(contract)!PlanOps(desired, observed)
          IN  /\ PlanFront(Contracts(pinned), a.kind, a.payload, p) = "planned"
              /\ \A i \in DOMAIN ops :
                   \/ ops[i] \in DOMAIN contract.operations
                   \/ ops[i] = Unnamed["delete"]
              /\ \A f \in Planner(contract)!Changed(desired, observed) :
                   \E i \in DOMAIN ops :
                     /\ ops[i] \in DOMAIN RoleOf(contract)
                     /\ f \in Planner(contract)!BodyFields(ops[i])

-----------------------------------------------------------------------------
(* What the theorem about plans presupposes of the revisions. *)

\* A Change...Details model that an operation sends is named after the operation.
ActionModelsAreNamed ==
  \A v \in Version : \A c \in DOMAIN Sdk[v].client :
    \A n \in DOMAIN Sdk[v].client[c].public :
      LET q == Sdk[v].client[c].public[n].request
          decl == Sdk[v].decl
      IN  q # NoName =>
            /\ DetailsOf[q] \in ChangeNamed => OperationOf[DetailsOf[q]] = n
            /\ q \in DOMAIN decl /\ decl[q].body \in ChangeNamed => OperationOf[decl[q].body] = n

=============================================================================
