---------------------------- MODULE PlanningProofs ----------------------------
(***************************************************************************)
(* Theorems about planning (module ResourceContract): what Plan decides    *)
(* for a diff, and that the operations it lists carry the whole diff.      *)
(***************************************************************************)
EXTENDS ResourceContract, OrderLemmas, TLAPS

\* The string order numbers the fields.
LEMMA PositionFacts ==
  /\ IsFiniteSet(Field)
  /\ \A f \in Field : Position(f) \in Nat
  /\ \A f, g \in Field : Position(f) = Position(g) => f = g
<1>1. \A f \in Field : /\ Position(f) \in 1 .. Len(FieldOrder)
                       /\ FieldOrder[Position(f)] = f
  <2> SUFFICES ASSUME NEW f \in Field
               PROVE  Position(f) \in 1 .. Len(FieldOrder) /\ FieldOrder[Position(f)] = f
    OBVIOUS
  <2>1. DOMAIN FieldOrder = 1 .. Len(FieldOrder)
    BY FieldOrderAssumption
  <2>2. \E i \in DOMAIN FieldOrder : FieldOrder[i] = f
    BY FieldOrderAssumption
  <2> QED
    BY <2>1, <2>2 DEF Position
<1>2. Len(FieldOrder) \in Nat
  BY FieldOrderAssumption
<1>3. \A f, g \in Field : Position(f) = Position(g) => f = g
  BY <1>1
<1> DEFINE number == [f \in Field |-> Position(f)]
<1>4. number \in Injection(Field, 1 .. Len(FieldOrder))
  BY <1>1, <1>3 DEF Injection, IsInjective
<1>5. IsFiniteSet(1 .. Len(FieldOrder))
  BY <1>2, FS_Interval
<1>6. IsFiniteSet(Field)
  BY <1>4, <1>5, FS_Injection
<1> QED
  BY <1>1, <1>2, <1>3, <1>6

\* In any set of n fields the numbers of fields that come before a field are
\* 0 .. n - 1, each of them once.
LEMMA PlaceFacts ==
  ASSUME NEW fields \in SUBSET Field
  PROVE  /\ Cardinality(fields) \in Nat
         /\ \A f \in fields : Place(f, fields) \in 0 .. (Cardinality(fields) - 1)
         /\ \A f, g \in fields : Place(f, fields) = Place(g, fields) => f = g
         /\ \A k \in 1 .. Cardinality(fields) : \E f \in fields : Place(f, fields) = k - 1
<1> DEFINE position == [f \in fields |-> Position(f)]
           place(f) == CountBefore(f, fields, position)
<1>1. IsFiniteSet(fields)
  BY PositionFacts, FS_Subset
<1>2. /\ position \in [fields -> Nat]
      /\ \A f, g \in fields : position[f] = position[g] => f = g
  BY PositionFacts
<1>3. \A f \in fields : Place(f, fields) = place(f)
  <2> SUFFICES ASSUME NEW f \in fields PROVE Place(f, fields) = place(f)
    OBVIOUS
  <2>1. {g \in fields : Position(g) < Position(f)} = {g \in fields : position[g] < position[f]}
    OBVIOUS
  <2> QED
    BY <2>1 DEF Place, CountBefore
<1> HIDE DEF position
<1>4. /\ Cardinality(fields) \in Nat
      /\ \A f \in fields : place(f) \in 0 .. (Cardinality(fields) - 1)
      /\ \A f, g \in fields : place(f) = place(g) => f = g
      /\ \A k \in 1 .. Cardinality(fields) : \E f \in fields : place(f) = k - 1
  BY <1>1, <1>2, PlacesAreNumbered
<1> HIDE DEF place
<1> QED
  BY <1>3, <1>4

-----------------------------------------------------------------------------
(* What Plan decides. *)

\* The action operations of a plan: one for every field that has one of its own.
LEMMA ActionOpsFacts ==
  ASSUME NEW changed \in SUBSET Field
  PROVE  /\ ActionOps(changed) \in Seq(Op)
         /\ \A i \in DOMAIN ActionOps(changed) :
              \E f \in Moved(changed) : ActionOps(changed)[i] = ActionOf[f]
         /\ \A f \in Moved(changed) :
              \E i \in DOMAIN ActionOps(changed) : ActionOps(changed)[i] = ActionOf[f]
<1> DEFINE moved == Moved(changed)
           n == Cardinality(moved)
           nth(k) == CHOOSE f \in moved : Place(f, moved) = k - 1
<1>1. moved \in SUBSET Field /\ \A f \in moved : ActionOf[f] \in Op
  BY ContractAssumption DEF Moved
<1> HIDE DEF moved
<1>2. /\ n \in Nat
      /\ \A f \in moved : Place(f, moved) \in 0 .. (n - 1)
      /\ \A f, g \in moved : Place(f, moved) = Place(g, moved) => f = g
      /\ \A k \in 1 .. n : \E f \in moved : Place(f, moved) = k - 1
  BY <1>1, PlaceFacts
<1> HIDE DEF n
<1>3. \A k \in 1 .. n : nth(k) \in moved /\ Place(nth(k), moved) = k - 1
  BY <1>2
<1> HIDE DEF nth
<1>4. ActionOps(changed) = [k \in 1 .. n |-> ActionOf[nth(k)]]
  BY DEF ActionOps, n, nth, moved
<1>5. \A k \in 1 .. n : ActionOf[nth(k)] \in Op
  BY <1>1, <1>3
<1>6. ActionOps(changed) \in Seq(Op)
  BY <1>2, <1>4, <1>5
<1>7. \A i \in DOMAIN ActionOps(changed) :
        \E f \in moved : ActionOps(changed)[i] = ActionOf[f]
  BY <1>3, <1>4
<1>8. ASSUME NEW f \in moved
      PROVE  \E i \in DOMAIN ActionOps(changed) : ActionOps(changed)[i] = ActionOf[f]
  <2> DEFINE i == Place(f, moved) + 1
  <2>1. i \in 1 .. n /\ Place(f, moved) = i - 1
    BY <1>2
  <2>2. nth(i) = f
    BY <1>2, <1>3, <2>1
  <2> QED
    BY <1>4, <2>1, <2>2
<1> QED
  BY <1>6, <1>7, <1>8 DEF moved

\* The most disruptive operation that a changed field forces, and none without one.
LEMMA PlanOperationFacts ==
  ASSUME NEW desired \in Config, NEW observed \in Config
  PROVE  LET op == PlanOperation(desired, observed)
             changed == Changed(desired, observed)
         IN  /\ op \in {"noop", "update", "action", "replace"}
             /\ op = "noop" <=> changed = {}
             /\ op = "replace" <=>
                  \E f \in changed : Policy[f] \in {"create-only", "input-only"}
<1> DEFINE changed == Changed(desired, observed)
           forced == {"noop"} \cup {PolicyOp(Policy[f]) : f \in changed}
           best(op) == op \in forced /\ \A other \in forced : Rank[other] <= Rank[op]
<1>1. /\ Rank["noop"] = 0 /\ Rank["update"] = 1 /\ Rank["action"] = 2 /\ Rank["replace"] = 3
  BY DEF Rank
<1>2. \A f \in changed : Policy[f] \in Policies
  BY ContractAssumption DEF Changed
<1> HIDE DEF changed
<1>3. \A f \in changed :
        /\ PolicyOp(Policy[f]) \in {"update", "action", "replace"}
        /\ PolicyOp(Policy[f]) = "replace" <=> Policy[f] \in {"create-only", "input-only"}
  BY <1>2 DEF Policies, PolicyOp
<1>4. /\ "noop" \in forced /\ \A op \in forced : op \in {"noop", "update", "action", "replace"}
      /\ \A op \in forced : op # "noop" => \E f \in changed : op = PolicyOp(Policy[f])
      /\ \A f \in changed : PolicyOp(Policy[f]) \in forced
  BY <1>3
<1> HIDE DEF forced
<1>5. \E op : best(op)
  <2>1. CASE "replace" \in forced
    <3>1. best("replace")
      BY <1>1, <1>4, <2>1
    <3> QED
      BY <3>1
  <2>2. CASE "replace" \notin forced /\ "action" \in forced
    <3>1. best("action")
      BY <1>1, <1>4, <2>2
    <3> QED
      BY <3>1
  <2>3. CASE "replace" \notin forced /\ "action" \notin forced /\ "update" \in forced
    <3>1. best("update")
      BY <1>1, <1>4, <2>3
    <3> QED
      BY <3>1
  <2>4. CASE "replace" \notin forced /\ "action" \notin forced /\ "update" \notin forced
    <3>1. best("noop")
      BY <1>1, <1>4, <2>4
    <3> QED
      BY <3>1
  <2> QED
    BY <2>1, <2>2, <2>3, <2>4
<1> DEFINE op == PlanOperation(desired, observed)
<1>6. op \in forced /\ \A other \in forced : Rank[other] <= Rank[op]
  BY <1>5 DEF PlanOperation, forced, changed
<1> HIDE DEF op
<1>7. op \in {"noop", "update", "action", "replace"}
  BY <1>4, <1>6
<1>8. op = "noop" <=> changed = {}
  <2>1. ASSUME op = "noop", NEW f \in changed PROVE FALSE
    <3>1. PolicyOp(Policy[f]) \in forced
      BY <1>4
    <3>2. Rank[PolicyOp(Policy[f])] <= 0
      BY <1>1, <1>6, <2>1, <3>1
    <3> QED
      BY <1>1, <1>3, <3>2
  <2> QED
    BY <1>4, <1>6, <2>1
<1>9. op = "replace" <=> \E f \in changed : Policy[f] \in {"create-only", "input-only"}
  <2>1. ASSUME "replace" \in forced PROVE op = "replace"
    <3>1. 3 <= Rank[op]
      BY <1>1, <1>6, <2>1
    <3> QED
      BY <1>1, <1>7, <3>1
  <2>2. ASSUME NEW f \in changed, Policy[f] \in {"create-only", "input-only"}
        PROVE  "replace" \in forced
    BY <1>3, <1>4, <2>2
  <2>3. ASSUME op = "replace"
        PROVE  \E f \in changed : Policy[f] \in {"create-only", "input-only"}
    <3>1. PICK f \in changed : op = PolicyOp(Policy[f])
      BY <1>4, <1>6, <2>3
    <3> QED
      BY <1>3, <2>3, <3>1
  <2> QED
    BY <2>1, <2>2, <2>3
<1> QED
  BY <1>7, <1>8, <1>9 DEF op, changed

LEMMA RoleHasOp ==
  ASSUME NEW role \in LifecycleRole
  PROVE  OpByRole(role) \in Op /\ Role[OpByRole(role)] = role
  BY ContractAssumption DEF OpByRole

Replacement == <<OpByRole("delete"), OpByRole("create")>>

Edits == {op \in Op : Role[op] \in {"update", "action"}}

EditOps(changed) ==
  (IF \E f \in changed : Policy[f] = "mutable" THEN <<OpByRole("update")>> ELSE << >>)
    \o ActionOps(changed)

\* A plan without a replacement only edits; it updates if a mutable field differs
\* and runs the operation of every other field that has one.
LEMMA EditOpsFacts ==
  ASSUME NEW changed \in SUBSET Field
  PROVE  /\ EditOps(changed) \in Seq(Edits)
         /\ (\E f \in changed : Policy[f] = "mutable") =>
              \E i \in DOMAIN EditOps(changed) : EditOps(changed)[i] = OpByRole("update")
         /\ \A f \in Moved(changed) :
              \E i \in DOMAIN EditOps(changed) : EditOps(changed)[i] = ActionOf[f]
<1> DEFINE update == IF \E f \in changed : Policy[f] = "mutable"
                       THEN <<OpByRole("update")>> ELSE << >>
           actions == ActionOps(changed)
<1>1. OpByRole("update") \in Edits
  BY RoleHasOp DEF Edits, LifecycleRole
<1>2. update \in Seq(Edits)
  BY <1>1
<1>3. actions \in Seq(Op)
  BY ActionOpsFacts
<1>4. \A i \in DOMAIN actions : actions[i] \in Edits
  <2> SUFFICES ASSUME NEW i \in DOMAIN actions PROVE actions[i] \in Edits
    OBVIOUS
  <2>1. PICK f \in Moved(changed) : actions[i] = ActionOf[f]
    BY ActionOpsFacts
  <2>2. f \in Field /\ ActionOf[f] # NoAction /\ ActionOf[f] \in Op
    BY ContractAssumption DEF Moved
  <2> QED
    BY <2>1, <2>2, ActionAssumption DEF Edits
<1>5. \A f \in Moved(changed) : \E i \in DOMAIN actions : actions[i] = ActionOf[f]
  BY ActionOpsFacts
<1>6. EditOps(changed) = update \o actions
  BY DEF EditOps
<1>7. (\E f \in changed : Policy[f] = "mutable") => update = <<OpByRole("update")>>
  OBVIOUS
<1> HIDE DEF actions, update
<1>8. actions \in Seq(Edits)
  BY <1>3, <1>4
<1>9. ASSUME NEW i \in DOMAIN actions
      PROVE  \E k \in DOMAIN (update \o actions) : (update \o actions)[k] = actions[i]
  <2>1. Len(update) + i \in DOMAIN (update \o actions)
    BY <1>2, <1>8
  <2>2. (update \o actions)[Len(update) + i] = actions[i]
    BY <1>2, <1>8
  <2> QED
    BY <2>1, <2>2
<1>10. ASSUME \E f \in changed : Policy[f] = "mutable"
       PROVE  \E k \in DOMAIN (update \o actions) :
                (update \o actions)[k] = OpByRole("update")
  <2>1. update = <<OpByRole("update")>>
    BY <1>7, <1>10
  <2>2. 1 \in DOMAIN (update \o actions) /\ (update \o actions)[1] = OpByRole("update")
    BY <1>1, <1>8, <2>1
  <2> QED
    BY <2>2
<1>11. update \o actions \in Seq(Edits)
  BY <1>2, <1>8
<1>12. ASSUME NEW f \in Moved(changed)
       PROVE  \E k \in DOMAIN (update \o actions) : (update \o actions)[k] = ActionOf[f]
  <2>1. PICK i \in DOMAIN actions : actions[i] = ActionOf[f]
    BY <1>5
  <2> QED
    BY <1>9, <2>1
<1> QED
  BY <1>6, <1>10, <1>11, <1>12

\* A plan is a replacement or a sequence of edits, never a mixture.
LEMMA PlanOpsFacts ==
  ASSUME NEW desired \in Config, NEW observed \in Config
  PROVE  LET op == PlanOperation(desired, observed)
             ops == PlanOps(desired, observed)
         IN  /\ ops = Replacement \/ ops \in Seq(Edits)
             /\ op = "noop" => ops = << >>
             /\ op = "replace" => ops = Replacement
             /\ op \in {"update", "action"} => ops = EditOps(Changed(desired, observed))
<1> DEFINE op == PlanOperation(desired, observed)
           changed == Changed(desired, observed)
<1>1. op \in {"noop", "update", "action", "replace"}
  BY PlanOperationFacts
<1>2. changed \in SUBSET Field
  BY DEF Changed
<1>3. EditOps(changed) \in Seq(Edits) /\ << >> \in Seq(Edits)
  BY <1>2, EditOpsFacts
<1>4. PlanOps(desired, observed) = ProviderOps(op, changed)
  BY DEF PlanOps
<1> HIDE DEF op, changed
<1>5. /\ op = "noop" => ProviderOps(op, changed) = << >>
      /\ op = "replace" => ProviderOps(op, changed) = Replacement
      /\ op \in {"update", "action"} => ProviderOps(op, changed) = EditOps(changed)
  BY DEF ProviderOps, Replacement, EditOps
<1> QED
  BY <1>1, <1>3, <1>4, <1>5 DEF op, changed

\* Whatever an intent and an observation are, every field that differs is in the body
\* of an operation the plan lists, unless the field has no operation to change it with
\* and nothing is replaced (Plan, planProviderOps and renderBody of provider.go).
THEOREM PlanCarriesDiff ==
  ASSUME NEW desired \in Config, NEW observed \in Config,
         NEW f \in Changed(desired, observed),
         Policy[f] = "action-managed" => ActionOf[f] # NoAction
  PROVE  \E i \in DOMAIN PlanOps(desired, observed) :
           f \in BodyFields(PlanOps(desired, observed)[i])
<1> DEFINE op == PlanOperation(desired, observed)
           changed == Changed(desired, observed)
           ops == PlanOps(desired, observed)
<1>1. /\ op \in {"noop", "update", "action", "replace"} /\ op # "noop"
      /\ op = "replace" <=> \E g \in changed : Policy[g] \in {"create-only", "input-only"}
  BY PlanOperationFacts
<1>2. changed \in SUBSET Field /\ f \in Field /\ Policy[f] \in Policies
  BY ContractAssumption DEF Changed
<1>3. CASE op = "replace"
  <2>1. ops = Replacement
    BY <1>3, PlanOpsFacts
  <2>2. 2 \in DOMAIN ops /\ ops[2] = OpByRole("create")
    BY <2>1 DEF Replacement
  <2>3. BodyFields(OpByRole("create")) = Field
    BY RoleHasOp DEF BodyFields, LifecycleRole
  <2> QED
    BY <1>2, <2>2, <2>3
<1>4. CASE op # "replace"
  <2>1. ops = EditOps(changed)
    BY <1>1, <1>4, PlanOpsFacts
  <2>2. Policy[f] \in {"mutable", "action-managed"}
    BY <1>1, <1>2, <1>4 DEF Policies
  <2>3. CASE Policy[f] = "mutable"
    <3>1. \E i \in DOMAIN EditOps(changed) : EditOps(changed)[i] = OpByRole("update")
      BY <1>2, <2>3, EditOpsFacts
    <3>2. f \in BodyFields(OpByRole("update"))
      BY <1>2, <2>3, RoleHasOp DEF BodyFields, LifecycleRole
    <3> QED
      BY <2>1, <3>1, <3>2
  <2>4. CASE Policy[f] = "action-managed"
    <3>1. f \in Moved(changed) /\ ActionOf[f] # NoAction
      BY <2>4 DEF Moved
    <3>2. \E i \in DOMAIN EditOps(changed) : EditOps(changed)[i] = ActionOf[f]
      BY <1>2, <3>1, EditOpsFacts
    <3>3. Role[ActionOf[f]] = "action"
      BY <1>2, <3>1, ActionAssumption
    <3>4. f \in BodyFields(ActionOf[f])
      BY <1>2, <2>4, <3>3 DEF BodyFields
    <3> QED
      BY <2>1, <3>2, <3>4
  <2> QED
    BY <2>2, <2>3, <2>4
<1> QED
  BY <1>3, <1>4

=============================================================================
