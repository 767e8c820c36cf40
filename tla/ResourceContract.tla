-------------------------- MODULE ResourceContract --------------------------
(***************************************************************************)
(* The contract of one resource kind (module/contracts.go) and the pure    *)
(* operations of the provider that depend on nothing else: how two         *)
(* configurations are diffed into a plan (Plan, planProviderOps), how the  *)
(* body of one planned operation is rendered (renderBody) and how observed *)
(* state is projected back onto the configuration surface                  *)
(* (effectiveConfig, applyDerivations).                                    *)
(*                                                                         *)
(* A configuration is a JSON object: a function from the names of the      *)
(* contract's fields to values, Absent standing for a key that is missing. *)
(***************************************************************************)
EXTENDS Naturals, Sequences, FiniteSets

CONSTANTS
  Field,        \* the names of the contract's config fields
  FieldOrder,   \* names in string order, those of the fields among them
  Policy,       \* field -> "mutable" | "create-only" | "action-managed" | "input-only"
  ActionOf,     \* field -> the operation that changes it, NoAction without one
  Op,           \* the names of the contract's operations
  Role,         \* operation -> its lifecycle role
  StateField,   \* the names the provider's read model carries
  Derivation,   \* the correspondence rules of the kind
  Value,        \* JSON values a field may hold
  Absent,       \* no such key
  NoAction

Policies == {"mutable", "create-only", "action-managed", "input-only"}

LifecycleRole == {"read", "create", "update", "delete"}

Rule == {"bool-from-nonempty", "bool-invert", "rename"}

\* What holds of the committed schema bundles: every lifecycle role has exactly
\* one operation, every action field names an operation of the same bundle.
ASSUME ContractAssumption ==
  /\ Policy \in [Field -> Policies]
  /\ ActionOf \in [Field -> Op \cup {NoAction}]
  /\ Role \in [Op -> LifecycleRole \cup {"action"}]
  /\ \A role \in LifecycleRole : \E o \in Op : \A p \in Op : Role[p] = role <=> p = o
  /\ Derivation \subseteq [field : Field, from : StateField, rule : Rule]
  /\ \A d, e \in Derivation : d.field = e.field \/ d.from = e.from => d = e
  /\ Derivation # {} => {"true", "false", "some"} \subseteq Value
  /\ Absent \notin Value

\* An operation that changes one field only has none of the four roles.
ASSUME ActionAssumption ==
  \A f \in Field : ActionOf[f] # NoAction => Role[ActionOf[f]] = "action"

\* The string order has every field at one place.
ASSUME FieldOrderAssumption ==
  /\ FieldOrder \in Seq({FieldOrder[i] : i \in DOMAIN FieldOrder})
  /\ \A f \in Field : \E i \in DOMAIN FieldOrder :
       \A j \in DOMAIN FieldOrder : FieldOrder[j] = f <=> j = i

Maybe == Value \cup {Absent}

Config == [Field -> Maybe]

State == [StateField -> Maybe]

EmptyConfig == [f \in Field |-> Absent]

NoState == [f \in StateField |-> Absent]

OpByRole(role) == CHOOSE o \in Op : Role[o] = role

-----------------------------------------------------------------------------
(* Planning: the diff of an intent with an observed configuration. *)

\* Only fields the intent sets are compared; a field one side lacks differs.
Changed(desired, observed) ==
  {f \in Field : desired[f] # Absent /\ desired[f] # observed[f]}

\* Mutant of PolicyOp: a create-only field is taken for one the default covers.
PolicyOpDefault(policy) ==
  CASE policy = "input-only"     -> "replace"
    [] policy = "action-managed" -> "action"
    [] OTHER                     -> "update"

PolicyOp(policy) ==
  CASE policy = "action-managed"              -> "action"
    [] policy \in {"create-only", "input-only"} -> "replace"
    [] OTHER                                  -> "update"

Rank == [noop |-> 0, update |-> 1, action |-> 2, replace |-> 3]

\* The most disruptive of the operations the changed fields force.
PlanOperation(desired, observed) ==
  LET forced == {"noop"} \cup {PolicyOp(Policy[f]) : f \in Changed(desired, observed)}
  IN  CHOOSE op \in forced : \A other \in forced : Rank[other] <= Rank[op]

\* The changed fields that have an operation of their own.
Moved(changed) ==
  {f \in changed : Policy[f] = "action-managed" /\ ActionOf[f] # NoAction}

Position(f) == CHOOSE i \in DOMAIN FieldOrder : FieldOrder[i] = f

\* How many of the given fields come before f.
Place(f, fields) == Cardinality({g \in fields : Position(g) < Position(f)})

\* One operation per changed action field, in name order: two fields that share
\* an operation list it twice.
ActionOps(changed) ==
  LET moved == Moved(changed)
  IN  [k \in 1 .. Cardinality(moved) |->
         ActionOf[CHOOSE f \in moved : Place(f, moved) = k - 1]]

\* Mutant of ProviderOps: the replacement is created before the old one is deleted.
ProviderOpsCreateFirst(op, changed) ==
  LET update == IF \E f \in changed : Policy[f] = "mutable"
                  THEN <<OpByRole("update")>> ELSE << >>
  IN  CASE op = "noop"    -> << >>
        [] op = "replace" -> <<OpByRole("create"), OpByRole("delete")>>
        [] OTHER          -> update \o ActionOps(changed)

\* A replacement supersedes everything; otherwise one update comes first and
\* every action field adds its own operation.
ProviderOps(op, changed) ==
  LET update == IF \E f \in changed : Policy[f] = "mutable"
                  THEN <<OpByRole("update")>> ELSE << >>
  IN  CASE op = "noop"    -> << >>
        [] op = "replace" -> <<OpByRole("delete"), OpByRole("create")>>
        [] OTHER          -> update \o ActionOps(changed)

PlanOps(desired, observed) ==
  ProviderOps(PlanOperation(desired, observed), Changed(desired, observed))

-----------------------------------------------------------------------------
(* Rendering: the fields of the configuration one operation carries. *)

BodyFields(op) ==
  CASE Role[op] = "delete" -> {}
    [] Role[op] = "create" -> Field
    [] Role[op] = "update" -> {f \in Field : Policy[f] = "mutable"}
    [] OTHER -> {f \in Field : Policy[f] = "action-managed" /\ ActionOf[f] = op}

RenderBody(op, config) ==
  [f \in Field |-> IF f \in BodyFields(op) THEN config[f] ELSE Absent]

-----------------------------------------------------------------------------
(* Reading back: the projection of provider state on the config surface. *)

EmptyJson == {"null", "empty", "false"}

Derive(rule, v) ==
  CASE rule = "bool-from-nonempty" -> IF v \in EmptyJson THEN "false" ELSE "true"
    [] rule = "bool-invert"        -> IF v = "true" THEN "false" ELSE "true"
    [] rule = "rename"             -> v

Projected(state, f) == IF f \in StateField THEN state[f] ELSE Absent

\* Mutant of EffectiveConfig: the raw state stands for the configuration.
EffectiveConfigRaw(state) == state

\* Mutant of EffectiveConfig: the correspondence rules are not applied.
EffectiveConfigStructural(state) == [f \in Field |-> Projected(state, f)]

\* A rule applies only when the read shows its source field.
EffectiveConfig(state) ==
  [f \in Field |->
     IF \E d \in Derivation : d.field = f /\ state[d.from] # Absent
       THEN LET d == CHOOSE d \in Derivation : d.field = f /\ state[d.from] # Absent
            IN  Derive(d.rule, state[d.from])
       ELSE Projected(state, f)]

=============================================================================
