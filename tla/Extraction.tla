----------------------------- MODULE Extraction -----------------------------
(***************************************************************************)
(* oci-extract (tools/oci-extract): how a revision of Oracle's Go SDK      *)
(* becomes the schema bundle of a resource.  The operations are paired     *)
(* from the methods of the client files (client.go), the models read from  *)
(* the type declarations (extract.go), the lifecycle of the resource       *)
(* resolved from the HTTP surface (resolve.go), the policy of every field  *)
(* derived from the models that carry it (policy.go), and the result       *)
(* written as a bundle (schema.go).  The sweep (cmd/oci-sweep) classifies  *)
(* every resource of a service with the same resolution.                   *)
(*                                                                         *)
(* An SDK is a record: client (name of a client file -> its methods) and   *)
(* decl (name of a type -> its declaration).  In a client file public maps *)
(* an exported method to the request and response types of its signature,  *)
(* wire maps the name of the exported method a private one belongs to to   *)
(* the verb and path of the HTTP call the private one makes.  A path is    *)
(* the sequence of its segments.  The body a request or response struct    *)
(* declares is a type without its *, [] and package (lastIdent): the       *)
(* response of List<Resource> carries the resource as that of Get does.    *)
(***************************************************************************)
EXTENDS SequencesExt

CONSTANTS
  Resource,     \* read-model names of the resources schemas are generated for
  NoName,       \* the name of no type and of no operation
  OpOrder,      \* operation names in string order
  Segment,      \* the segments of paths
  Param,        \* the segments that are {placeholders}
  GetOf,        \* resource -> the operation name Get<Resource>
  DetailsOf,    \* request type -> the model <Operation>Details it is paired with
  CreateNamed,  \* resource -> Create<Resource>Details
  UpdateNamed,  \* resource -> Update<Resource>Details
  ActionNamed,  \* resource -> the names (Change|Add|Remove)...<Resource>...Details
  ChangeNamed,  \* the type names that begin with Change
  ClientOf,     \* resource -> the client file passed to oci-extract -schema
  Supplied,     \* resource -> the declarations passed to oci-extract -schema
  NoBundle      \* an output file the shell truncated and oci-extract never wrote

-----------------------------------------------------------------------------
(* Reading the SDK. *)

NoOp == [name |-> NoName, verb |-> "", path |-> << >>,
         request |-> NoName, response |-> NoName]

ZeroModel == [name |-> NoName, kind |-> "struct", fields |-> << >>, body |-> NoName]

\* An exported method with a response is an operation if its private half makes
\* an HTTP call; one that cannot be paired is left out without a word.  The
\* operations of a file stand at the places their names have in string order.
ExtractClientFile(file) ==
  LET IsOp(n) == /\ n \in DOMAIN file.public
                 /\ file.public[n].response # NoName
                 /\ n \in DOMAIN file.wire
  IN  [i \in {i \in DOMAIN OpOrder : IsOp(OpOrder[i])} |->
         [name |-> OpOrder[i],
          verb |-> file.wire[OpOrder[i]].verb, path |-> file.wire[OpOrder[i]].path,
          request |-> file.public[OpOrder[i]].request,
          response |-> file.public[OpOrder[i]].response]]

\* What -audit counts against the result: operations without a wire half, wire
\* halves without an exported method.
AuditClientFile(file) ==
  LET candidates == {n \in DOMAIN file.public : file.public[n].response # NoName}
  IN  [unresolved |-> candidates \ DOMAIN file.wire,
       orphans    |-> DOMAIN file.wire \ DOMAIN file.public]

AuditExit(sdk) ==
  IF \A c \in DOMAIN sdk.client :
       LET a == AuditClientFile(sdk.client[c]) IN a.unresolved \cup a.orphans = {}
    THEN 0 ELSE 4

\* Only structs and interfaces become models, an interface without fields.
ExtractFile(sdk, names) ==
  [n \in {n \in names : sdk.decl[n].kind \in {"struct", "interface"}} |->
     [name   |-> n, kind |-> sdk.decl[n].kind, body |-> sdk.decl[n].body,
      fields |-> IF sdk.decl[n].kind = "struct" THEN sdk.decl[n].fields ELSE << >>]]

ByName(models, n) == IF n \in DOMAIN models THEN models[n] ELSE ZeroModel

IsPolymorphic(m) == m.kind = "interface"

-----------------------------------------------------------------------------
(* Resolving the lifecycle of a resource. *)

\* The operation at the first of the places, none if there is no place.
First(ops, at) == IF at = {} THEN NoOp ELSE ops[Min(at)]

\* The first of the operations whose name comes first.
Pick(ops, at) ==
  LET Rank(i) == CHOOSE n \in DOMAIN OpOrder : OpOrder[n] = ops[i].name
  IN  First(ops, {i \in at : \A j \in at : Rank(i) <= Rank(j)})

\* A GET whose response carries the resource, else the operation Get<Resource>.
FindReadOp(ops, models, r) ==
  LET reads == {i \in DOMAIN ops : /\ ops[i].verb = "GET"
                                   /\ ByName(models, ops[i].response).body = r}
      named == {i \in DOMAIN ops : ops[i].name = GetOf[r]}
  IN  IF reads # {} THEN [op |-> First(ops, reads), source |-> "response-body"]
                    ELSE [op |-> First(ops, named), source |-> "name-convention"]

CollectionPath(path) ==
  IF Len(path) > 1 /\ path[Len(path)] \in Param THEN Front(path) ELSE << >>

\* The body the request struct names, else the model its name is paired with.
RequestBodyModel(op, models) ==
  LET body == ByName(models, op.request).body
  IN  IF op.request = NoName THEN ZeroModel
        ELSE ByName(models, IF body # NoName THEN body ELSE DetailsOf[op.request])

ResponseBodyModel(op, models, r) ==
  LET body == ByName(models, op.response).body
  IN  ByName(models, IF body # NoName THEN body ELSE r)

ReadGaps(res) ==
  {g \in {"no read model"} : res.read.name = NoName}
    \cup {g \in {"read polymorphic"} : IsPolymorphic(res.read)}

\* Mutant of CreateGaps: an operation whose body was not found is no gap.
CreateGapsNamed(res, models) ==
  {g \in {"no create model"} : /\ res.create.name = NoName
                               /\ res.source = "name-convention" /\ ReadGaps(res) = {}
                               /\ CreateNamed[res.resource] \notin DOMAIN models}
    \cup {g \in {"create polymorphic"} : IsPolymorphic(res.create)}

\* Mutant of CreateGaps: an interface passes for a model without fields.
CreateGapsMissing(res, models) ==
  {g \in {"create body not supplied"} : res.createOp # NoOp /\ res.create.name = NoName}

\* A create operation without its body is always a gap, a resource that seems to
\* have no create model only if it was found by name.
CreateGaps(res, models) ==
  LET noBody == res.createOp # NoOp /\ res.create.name = NoName
  IN  {g \in {"create body not supplied"} : noBody}
        \cup {g \in {"no create model"} :
                /\ ~noBody /\ res.create.name = NoName
                /\ res.source = "name-convention" /\ ReadGaps(res) = {}
                /\ CreateNamed[res.resource] \notin DOMAIN models}
        \cup {g \in {"create polymorphic"} : IsPolymorphic(res.create)}

\* The gaps that make the surface of the resource untrustworthy.
Note(res, models) ==
  ReadGaps(res) \cup CreateGaps(res, models)
    \cup {g \in {"update polymorphic"} : IsPolymorphic(res.update)}

Unresolvable(r, source, gaps) ==
  [resource |-> r, source |-> source, unresolved |-> gaps,
   readOp |-> NoOp, createOp |-> NoOp, updateOp |-> NoOp, deleteOp |-> NoOp,
   read |-> ZeroModel, create |-> ZeroModel, update |-> ZeroModel, actions |-> << >>]

\* Without operations the models are found by their names.
ResolveByName(models, r) ==
  LET named == ActionNamed[r]
      acting == {i \in DOMAIN named : /\ named[i] \in DOMAIN models
                                      /\ ~IsPolymorphic(models[named[i]])}
      res == [Unresolvable(r, "name-convention", {}) EXCEPT
                !.read = ByName(models, r),
                !.create = ByName(models, CreateNamed[r]),
                !.update = ByName(models, UpdateNamed[r]),
                !.actions = [i \in acting |-> [op |-> NoOp, model |-> models[named[i]]]]]
  IN  [res EXCEPT !.unresolved = Note(res, models)]

\* The places of the operations with this verb and path.
AtPath(ops, verb, path) == {i \in DOMAIN ops : ops[i].verb = verb /\ ops[i].path = path}

\* The operations of one client file come in name order, and so do the actions.
ResolveByPath(models, ops, r) ==
  LET found      == FindReadOp(ops, models, r)
      readPath   == found.op.path
      collection == CollectionPath(readPath)
      puts       == AtPath(ops, "PUT", readPath)
      createOp == IF collection = << >> THEN NoOp ELSE Pick(ops, AtPath(ops, "POST", collection))
      updateOp == IF puts # {} THEN ops[Max(puts)]
                               ELSE First(ops, AtPath(ops, "POST", readPath))
      acting   == {i \in DOMAIN ops : /\ ops[i].verb = "POST"
                                      /\ IsStrictPrefix(readPath, ops[i].path)
                                      /\ RequestBodyModel(ops[i], models).name # NoName
                                      /\ ~IsPolymorphic(RequestBodyModel(ops[i], models))}
      res == [Unresolvable(r, found.source, {}) EXCEPT
                !.readOp = found.op, !.createOp = createOp, !.updateOp = updateOp,
                !.deleteOp = Pick(ops, AtPath(ops, "DELETE", readPath)),
                !.read = ResponseBodyModel(found.op, models, r),
                !.create = RequestBodyModel(createOp, models),
                !.update = RequestBodyModel(updateOp, models),
                !.actions = [i \in acting |->
                               [op |-> ops[i], model |-> RequestBodyModel(ops[i], models)]]]
  IN  IF found.op = NoOp THEN Unresolvable(r, "", {"no read operation"})
        ELSE [res EXCEPT !.unresolved = Note(res, models)]

Resolve(models, ops, r) ==
  IF DOMAIN ops = {} THEN ResolveByName(models, r) ELSE ResolveByPath(models, ops, r)

-----------------------------------------------------------------------------
(* The policy of every field and the bundle. *)

\* The first Change...Details model that carries the field.
ActionModel(res, f) ==
  LET setting == {i \in DOMAIN res.actions : /\ res.actions[i].model.name \in ChangeNamed
                                             /\ f \in DOMAIN res.actions[i].model.fields}
  IN  IF setting = {} THEN NoName ELSE res.actions[Min(setting)].model.name

\* Updatable in place; else changed by an action; else fixed when created.
FieldPolicy(res, f) ==
  LET created == f \in DOMAIN res.create.fields
      read    == f \in DOMAIN res.read.fields
  IN  IF f \in DOMAIN res.update.fields THEN "mutable"
        ELSE IF ActionModel(res, f) # NoName THEN "action-managed"
        ELSE CASE created /\ read -> "create-only"
               [] created /\ ~read -> "input-only"
               [] ~created -> "provider-computed"

\* The Go type of a field: the read model's, else the create, update, action models'.
GoType(res, f) ==
  LET carrying == {i \in DOMAIN res.actions : f \in DOMAIN res.actions[i].model.fields}
  IN  IF f \in DOMAIN res.read.fields THEN res.read.fields[f].type
        ELSE IF f \in DOMAIN res.create.fields THEN res.create.fields[f].type
        ELSE IF f \in DOMAIN res.update.fields THEN res.update.fields[f].type
        ELSE res.actions[Min(carrying)].model.fields[f].type

TypeToSchema(goType) ==
  CASE goType \in {"string", "enum"} -> "string"
    [] goType = "bool"               -> "boolean"
    [] goType = "int"                -> "integer"
    [] goType = "float"              -> "number"
    [] goType = "slice"              -> "array"
    [] goType \in {"map", "named"}   -> "object"
    [] OTHER                         -> ""

\* Each operation with its role; a name listed twice keeps the later role.
OperationMap(res) ==
  LET acting == {res.actions[i].op.name : i \in DOMAIN res.actions}
      single == {res.readOp.name, res.createOp.name, res.updateOp.name, res.deleteOp.name}
  IN  [n \in (single \cup acting) \ {NoName} |->
         IF n \in acting THEN "action"
           ELSE IF n = res.deleteOp.name THEN "delete"
           ELSE IF n = res.updateOp.name THEN "update"
           ELSE IF n = res.createOp.name THEN "create"
           ELSE "read"]

\* Mutant of Required: what the read model always shows counts as demanded.
RequiredAnywhere(res, settable) ==
  {f \in DOMAIN res.create.fields : res.create.fields[f].mandatory}
    \cup {f \in DOMAIN res.read.fields : res.read.fields[f].mandatory}

\* What the create model demands of the settable fields.
Required(res, settable) ==
  {f \in settable : f \in DOMAIN res.create.fields /\ res.create.fields[f].mandatory}

\* Config is what a caller may set, state what is read back.
ResourceSchemas(res) ==
  LET carried == UNION {DOMAIN res.read.fields, DOMAIN res.create.fields,
                        DOMAIN res.update.fields}
      settable == {f \in carried : FieldPolicy(res, f) # "provider-computed"}
  IN  [config |-> [f \in settable |->
                     [type   |-> TypeToSchema(GoType(res, f)),
                      policy |-> FieldPolicy(res, f),
                      action |-> IF FieldPolicy(res, f) = "action-managed"
                                   THEN ActionModel(res, f) ELSE NoName]],
       required |-> Required(res, settable),
       state |-> DOMAIN res.read.fields,
       operations |-> OperationMap(res)]

-----------------------------------------------------------------------------
(* The two tools. *)

\* oci-extract -schema with the files `make oci.generate` names: the bundle is
\* printed before the exit status reports the gaps.
ExtractSchema(sdk, r) ==
  LET res == Resolve(ExtractFile(sdk, Supplied[r]),
                     ExtractClientFile(sdk.client[ClientOf[r]]), r)
  IN  IF Supplied[r] \subseteq DOMAIN sdk.decl
        THEN [bundle |-> ResourceSchemas(res), exit |-> IF res.unresolved = {} THEN 0 ELSE 5]
        ELSE [bundle |-> NoBundle, exit |-> 1]

\* All operations of the service's directory, client after client.
SweepOps(sdk, clients) ==
  LET N == Len(OpOrder)
      File(i) == ExtractClientFile(sdk.client[clients[((i - 1) \div N) + 1]])
      Place(i) == ((i - 1) % N) + 1
  IN  [i \in {i \in 1..(Len(clients) * N) : Place(i) \in DOMAIN File(i)} |-> File(i)[Place(i)]]

SweepResolve(sdk, clients, r) ==
  Resolve(ExtractFile(sdk, DOMAIN sdk.decl), SweepOps(sdk, clients), r)

SweepClass(sdk, clients, r) ==
  LET res == SweepResolve(sdk, clients, r)
  IN  CASE res.read.name = NoName -> "C"
        [] res.read.name # NoName /\ (IsPolymorphic(res.read) \/ IsPolymorphic(res.create)) -> "D"
        [] OTHER -> IF res.createOp # NoOp /\ res.create.name # NoName THEN "A" ELSE "B"

=============================================================================
