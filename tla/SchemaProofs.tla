---------------------------- MODULE SchemaProofs ----------------------------
(***************************************************************************)
(* Proofs about module SchemaPipeline, for every SDK, every history of     *)
(* bumps and every set of intents: the diff gate keeps its promise, what   *)
(* is pinned has the create surface its SDK declares and can be swept, and *)
(* the planner can plan with it.                                           *)
(*                                                                         *)
(* AdmittedStaysAdmissible is not inductive: it rests on what a clean gate *)
(* says of the two bundles it compared, on both being the finished bundles *)
(* of their revisions until they are pinned (GateInv), and on no bundle    *)
(* demanding a field that it does not have (TypeOK), without which a       *)
(* demand could pass the gate unseen.  CreateSurfaceIsWhole rests on the   *)
(* pinned bundles being those of one audited revision, extracted without a *)
(* gap (Provenance), and on what an extraction without a gap yields; so    *)
(* does what the planner presupposes.  PinnedIsExtractable rests on it as  *)
(* well: recipe and sweep read the same operations, and the same models as *)
(* long as the bodies are declared as they are named.                      *)
(***************************************************************************)
EXTENDS AdmittedPlans, OrderLemmas

\* What TypeOK leaves out: the shapes of tree and pinned.
Shapes == DOMAIN tree = Resource /\ DOMAIN pinned = Resource

\* What the recipe has done, and what a clean gate has found.
GateInv ==
  /\ \A i \in 1..recipe.done : WellFormed(tree[GenOrder[i]])
  /\ \A r \in Resource : gate[r] # NotRun => recipe.done = Len(GenOrder)
  /\ \A r \in Resource : gate[r] = 0 => Breaking(pinned[r], tree[r]) = {}

IInv == TypeOK /\ Shapes /\ GateInv /\ AdmittedStaysAdmissible

-----------------------------------------------------------------------------
(* Facts about the operators. *)

\* Whatever was resolved, the bundle demands only fields it has.
LEMMA SchemasAreWellFormed ==
  ASSUME NEW res PROVE WellFormed(ResourceSchemas(res))
BY DEF WellFormed, ResourceSchemas, Required

\* So does every bundle that make oci.generate takes for finished.
LEMMA ExtractedIsWellFormed ==
  ASSUME NEW v \in Version, NEW r \in Resource
  PROVE  /\ Extracted[v][r].exit = 0 => WellFormed(Extracted[v][r].bundle)
         /\ Extracted[v][r].bundle # NoBundle => WellFormed(Extracted[v][r].bundle)
<1>1. Extracted[v][r] = ExtractSchema(Sdk[v], r)
  BY DEF Extracted
<1> DEFINE res == Resolve(ExtractFile(Sdk[v], Supplied[r]),
                          ExtractClientFile(Sdk[v].client[ClientOf[r]]), r)
<1>2. \/ ExtractSchema(Sdk[v], r).bundle = ResourceSchemas(res)
      \/ ExtractSchema(Sdk[v], r) = [bundle |-> NoBundle, exit |-> 1]
  BY DEF ExtractSchema
<1>3. WellFormed(ResourceSchemas(res))
  BY SchemasAreWellFormed
<1> QED
  BY <1>1, <1>2, <1>3

LEMMA AuditExits == ASSUME NEW v \in Version PROVE Audited[v] \in {0, 4}
BY DEF Audited, AuditExit

LEMMA DiffExits == ASSUME NEW old, NEW new
                   PROVE  /\ DiffExit(old, new) \in {0, 3}
                          /\ DiffExit(old, new) = 0 <=> Breaking(old, new) = {}
BY DEF DiffExit

\* A contract has the fields, types and demands of its bundle.
LEMMA ContractFields ==
  ASSUME NEW bundles, NEW k \in DOMAIN bundles
  PROVE  LET c == Contracts(bundles)[k]
         IN  /\ DOMAIN c.fields = DOMAIN bundles[k].config
             /\ c.required = bundles[k].required
             /\ \A f \in DOMAIN c.fields : c.fields[f].type = bundles[k].config[f].type
BY DEF Contracts, ContractOf

\* What a clean gate says, in terms of the bundles.
LEMMA CleanGate ==
  ASSUME NEW old, NEW new, Breaking(old, new) = {}, WellFormed(old), WellFormed(new)
  PROVE  /\ DOMAIN old.config \subseteq DOMAIN new.config
         /\ \A f \in DOMAIN old.config : new.config[f].type = old.config[f].type
         /\ new.required \subseteq old.required
BY DEF Breaking, WellFormed

\* One intent over one compatible change.
LEMMA CompatibleKeepsAdmissible ==
  ASSUME NEW old, NEW new, DOMAIN old = Resource, DOMAIN new = Resource,
         \A r \in Resource : WellFormed(old[r]) /\ WellFormed(new[r]),
         \A r \in Resource : Breaking(old[r], new[r]) = {},
         NEW a, StillAdmissible(a, old)
  PROVE  StillAdmissible(a, new)
<1> DEFINE wellFormed == a.kind # "" /\ CheckEnvelope(a.payload) = {}
<1>1. /\ DOMAIN Contracts(old) = Resource /\ DOMAIN Contracts(new) = Resource
  BY DEF Contracts
<1>2. wellFormed
  BY DEF StillAdmissible, Validate
<1>3. CASE a.kind \notin Resource
  BY <1>1, <1>2, <1>3 DEF StillAdmissible, Validate
<1>4. CASE a.kind \in Resource
  <2> DEFINE k == a.kind
             c == Contracts(old)[k]
             d == Contracts(new)[k]
  <2>1. ConformIntent(c, a.payload)
    BY <1>1, <1>2, <1>4 DEF StillAdmissible, Validate
  <2>2. /\ DOMAIN c.fields = DOMAIN old[k].config /\ DOMAIN d.fields = DOMAIN new[k].config
        /\ c.required = old[k].required /\ d.required = new[k].required
        /\ \A f \in DOMAIN c.fields : c.fields[f].type = old[k].config[f].type
        /\ \A f \in DOMAIN d.fields : d.fields[f].type = new[k].config[f].type
    <3>1. k \in DOMAIN old /\ k \in DOMAIN new
      BY <1>4
    <3> HIDE DEF c, d, k
    <3> QED
      BY <3>1, ContractFields DEF c, d
  <2>3. /\ DOMAIN old[k].config \subseteq DOMAIN new[k].config
        /\ \A f \in DOMAIN old[k].config : new[k].config[f].type = old[k].config[f].type
        /\ new[k].required \subseteq old[k].required
    BY <1>4, CleanGate
  <2>4. ConformIntent(d, a.payload)
    <3> HIDE DEF c, d, k
    <3> QED
      BY <2>1, <2>2, <2>3 DEF ConformIntent
  <2> QED
    BY <1>1, <1>2, <1>4, <2>4 DEF StillAdmissible, Validate
<1> QED
  BY <1>3, <1>4

-----------------------------------------------------------------------------
(* The invariant. *)

LEMMA InitEstablishes == ASSUME Init PROVE IInv
<1>1. source \in Version /\ Usable(source)
  BY RecipeAssumption DEF Init
<1>2. \A r \in Resource : WellFormed(pinned[r])
  BY <1>1, ExtractedIsWellFormed DEF Init, Usable
<1>3. Len(GenOrder) \in Nat
  BY RecipeAssumption
<1>4. TypeOK /\ Shapes
  BY <1>1, <1>2, <1>3 DEF Init, TypeOK, Shapes, NoGate
<1>5. GateInv
  BY DEF Init, GateInv, NoGate, NotRun
<1>6. AdmittedStaysAdmissible
  BY DEF Init, AdmittedStaysAdmissible
<1> QED
  BY <1>4, <1>5, <1>6 DEF IInv

\* A new start of the pipeline forgets the gate; tree and recipe agree trivially.
LEMMA RestartedInv ==
  ASSUME IInv, Restarted PROVE
    /\ GateInv'
    /\ audit' \in {NotRun, 0, 4} /\ gate' \in [Resource -> {NotRun, 0, 3}]
    /\ recipe' \in [done : 0..Len(GenOrder), failed : BOOLEAN]
    /\ recipe'.done = 0 /\ gate' = NoGate
<1>1. Len(GenOrder) \in Nat
  BY RecipeAssumption
<1> QED
  BY <1>1 DEF Restarted, GateInv, NoGate, NotRun

LEMMA BumpInv == ASSUME IInv, NEW v \in Version, Bump(v) PROVE IInv'
<1>1. TypeOK' /\ Shapes'
  BY RestartedInv DEF Bump, IInv, TypeOK, Shapes
<1>2. AdmittedStaysAdmissible'
  BY DEF Bump, IInv, AdmittedStaysAdmissible
<1> QED
  BY <1>1, <1>2, RestartedInv DEF Bump, IInv

LEMMA AuditInv == ASSUME IInv, Audit PROVE IInv'
<1>1. Audited[sdk] \in {0, 4}
  BY AuditExits DEF IInv, TypeOK
<1> QED
  BY <1>1 DEF Audit, IInv, TypeOK, Shapes, GateInv, AdmittedStaysAdmissible

LEMMA GenerateInv == ASSUME IInv, Generate PROVE IInv'
<1> DEFINE n == recipe.done + 1
           r == GenOrder[n]
           out == Extracted[sdk][r]
<1>1. n \in 1..Len(GenOrder) /\ r \in Resource /\ sdk \in Version
  BY RecipeAssumption DEF Generate, IInv, TypeOK
<1>2. /\ out.exit = 0 => WellFormed(out.bundle)
      /\ out.bundle # NoBundle => WellFormed(out.bundle)
  BY <1>1, ExtractedIsWellFormed
<1>3. tree' = [tree EXCEPT ![r] = out.bundle]
  BY DEF Generate
<1>4. \/ out.exit = 0 /\ recipe' = [recipe EXCEPT !.done = n]
      \/ recipe' = [recipe EXCEPT !.failed = TRUE]
  BY DEF Generate
<1>5. UNCHANGED <<sdk, source, pinned, audit, gate, admitted>> /\ sdk # source
  BY DEF Generate
<1>6. recipe' \in [done : 0..Len(GenOrder), failed : BOOLEAN]
  <2>1. recipe \in [done : 0..Len(GenOrder), failed : BOOLEAN]
    BY DEF IInv, TypeOK
  <2>2. Len(GenOrder) \in Nat /\ n \in 0..Len(GenOrder)
    BY <1>1, RecipeAssumption
  <2> HIDE DEF n
  <2> QED
    BY <1>4, <2>1, <2>2
<1> HIDE DEF r, out
<1>7. TypeOK' /\ Shapes'
  BY <1>1, <1>2, <1>3, <1>5, <1>6 DEF IInv, TypeOK, Shapes
<1>8. \A i \in 1..recipe'.done : WellFormed(tree'[GenOrder[i]])
  <2> DEFINE m == recipe'.done
  <2>1. recipe.done \in Nat /\ ((m = n /\ out.exit = 0) \/ m = recipe.done)
    BY <1>4 DEF IInv, TypeOK
  <2>2. GenOrder \in Seq(Resource) /\ Len(GenOrder) \in Nat
    BY RecipeAssumption
  <2> HIDE DEF m
  <2> SUFFICES ASSUME NEW i \in 1..m PROVE WellFormed(tree'[GenOrder[i]])
    BY DEF m
  <2>3. CASE i = n
    <3>1. out.exit = 0
      BY <2>1, <2>3
    <3> QED
      BY <1>1, <1>2, <1>3, <2>3, <3>1 DEF IInv, Shapes, r
  <2>4. CASE i # n
    <3>1. i \in 1..recipe.done /\ i \in 1..Len(GenOrder)
      BY <1>1, <2>1, <2>2, <2>4
    <3>2. GenOrder[i] \in Resource
      BY <2>2, <3>1
    <3>3. GenOrder[i] # r
      BY <1>1, <2>4, <3>1, <3>2, RecipeAssumption DEF r
    <3> QED
      BY <1>3, <3>1, <3>2, <3>3 DEF IInv, Shapes, GateInv
  <2> QED
    BY <2>3, <2>4
<1>9. \A q \in Resource : gate[q] = NotRun
  BY <1>1 DEF IInv, GateInv, TypeOK, Generate
<1>10. GateInv'
  BY <1>5, <1>8, <1>9 DEF GateInv, NotRun
<1>11. AdmittedStaysAdmissible'
  BY <1>5 DEF IInv, AdmittedStaysAdmissible
<1> QED
  BY <1>7, <1>10, <1>11 DEF IInv

LEMMA DiffInv == ASSUME IInv, NEW r \in Resource, Diff(r) PROVE IInv'
<1> DEFINE exit == DiffExit(pinned[r], tree[r])
<1>1. /\ exit \in {0, 3}
      /\ exit = 0 <=> Breaking(pinned[r], tree[r]) = {}
  BY DiffExits
<1>2. /\ gate' = [gate EXCEPT ![r] = exit] /\ recipe.done = Len(GenOrder)
      /\ UNCHANGED <<sdk, source, tree, pinned, audit, recipe, admitted>>
  BY DEF Diff
<1> HIDE DEF exit
<1>3. recipe.done # 0
  <2>1. PICK i \in 1..Len(GenOrder) : GenOrder[i] = r
    BY RecipeAssumption
  <2>2. Len(GenOrder) \in Nat
    BY RecipeAssumption
  <2> QED
    BY <1>2, <2>1, <2>2
<1>4. sdk # source
  BY <1>3 DEF IInv, TypeOK
<1>5. gate' \in [Resource -> {NotRun, 0, 3}]
  BY <1>1, <1>2 DEF IInv, TypeOK
<1>6. TypeOK' /\ Shapes'
  BY <1>2, <1>4, <1>5 DEF IInv, TypeOK, Shapes
<1>7. GateInv'
  BY <1>1, <1>2 DEF IInv, TypeOK, GateInv
<1> QED
  BY <1>2, <1>6, <1>7 DEF IInv, AdmittedStaysAdmissible

\* Both ways of pinning: the gate has run, so every bundle of the tree is finished.
LEMMA PinnedInv ==
  ASSUME IInv, Pinned, \A r \in Resource : gate[r] \in {0, 3}, admitted' \subseteq admitted
  PROVE  TypeOK' /\ Shapes' /\ GateInv' /\ \A r \in Resource : WellFormed(tree[r])
<1>1. \A r \in Resource : WellFormed(tree[r])
  <2> SUFFICES ASSUME NEW r \in Resource PROVE WellFormed(tree[r])
    OBVIOUS
  <2>1. recipe.done = Len(GenOrder)
    BY DEF IInv, GateInv, NotRun
  <2>2. PICK i \in 1..Len(GenOrder) : GenOrder[i] = r
    BY RecipeAssumption
  <2> QED
    BY <2>1, <2>2 DEF IInv, GateInv
<1>2. TypeOK' /\ Shapes'
  BY <1>1, RestartedInv DEF Pinned, IInv, TypeOK, Shapes
<1> QED
  BY <1>1, <1>2, RestartedInv DEF Pinned

LEMMA PinInv == ASSUME IInv, Pin PROVE IInv'
<1>1. /\ \A r \in Resource : gate[r] = 0
      /\ Pinned /\ admitted' = admitted /\ pinned' = tree
  BY DEF Pin, Pinned
<1>2. TypeOK' /\ Shapes' /\ GateInv' /\ \A r \in Resource : WellFormed(tree[r])
  BY <1>1, PinnedInv
<1>3. AdmittedStaysAdmissible'
  <2> SUFFICES ASSUME NEW a \in admitted PROVE StillAdmissible(a, tree)
    BY <1>1 DEF AdmittedStaysAdmissible
  <2>1. StillAdmissible(a, pinned)
    BY DEF IInv, AdmittedStaysAdmissible
  <2>2. \A r \in Resource : WellFormed(pinned[r]) /\ Breaking(pinned[r], tree[r]) = {}
    BY <1>1 DEF IInv, TypeOK, GateInv
  <2> QED
    BY <1>2, <2>1, <2>2, CompatibleKeepsAdmissible DEF IInv, Shapes
<1> QED
  BY <1>2, <1>3 DEF IInv

LEMMA PinReviewedInv == ASSUME IInv, PinReviewed PROVE IInv'
<1>1. /\ \A r \in Resource : gate[r] \in {0, 3}
      /\ Pinned /\ admitted' = {a \in admitted : StillAdmissible(a, tree)} /\ pinned' = tree
  BY DEF PinReviewed, Pinned
<1>2. TypeOK' /\ Shapes' /\ GateInv'
  BY <1>1, PinnedInv
<1>3. AdmittedStaysAdmissible'
  BY <1>1 DEF AdmittedStaysAdmissible
<1> QED
  BY <1>2, <1>3 DEF IInv

LEMMA DiscardInv == ASSUME IInv, Discard PROVE IInv'
<1>1. TypeOK' /\ Shapes'
  BY RestartedInv DEF Discard, IInv, TypeOK, Shapes
<1>2. AdmittedStaysAdmissible'
  BY DEF Discard, IInv, AdmittedStaysAdmissible
<1> QED
  BY <1>1, <1>2, RestartedInv DEF Discard, IInv

LEMMA AdmitInv == ASSUME IInv, NEW k \in Kind, NEW p \in Payload, Admit(k, p) PROVE IInv'
<1>1. /\ admitted' = admitted \cup {[kind |-> k, payload |-> p]}
      /\ UNCHANGED <<sdk, source, tree, pinned, audit, recipe, gate>>
      /\ Validate(Contracts(pinned), k, p).admissible
  BY DEF Admit
<1>2. AdmittedStaysAdmissible'
  BY <1>1 DEF IInv, AdmittedStaysAdmissible, StillAdmissible
<1> QED
  BY <1>1, <1>2 DEF IInv, TypeOK, Shapes, GateInv

LEMMA NextPreserves == ASSUME IInv, [Next]_vars PROVE IInv'
<1>1. CASE UNCHANGED vars
  BY <1>1 DEF vars, IInv, TypeOK, Shapes, GateInv, AdmittedStaysAdmissible
<1> QED
  BY <1>1, BumpInv, AuditInv, GenerateInv, DiffInv, PinInv, PinReviewedInv, DiscardInv, AdmitInv
  DEF Next

THEOREM Invariance == Spec => []IInv
<1>1. Init => IInv
  BY InitEstablishes
<1>2. IInv /\ [Next]_vars => IInv'
  BY NextPreserves
<1> QED
  BY <1>1, <1>2, PTL DEF Spec

\* The working tree, the gate and the pinned bundles of the pipeline keep their
\* shape, for every SDK.
THEOREM PipelineTypeCorrect == Spec => []TypeOK
<1>1. IInv => TypeOK
  BY DEF IInv
<1> QED
  BY <1>1, Invariance, PTL

\* What passes the gate as compatible never makes an admitted intent
\* inadmissible (DiffConfigSchemas against conformIntent), however many bumps it
\* takes.
THEOREM GateKeepsAdmitted == Spec => []AdmittedStaysAdmissible
<1>1. IInv => AdmittedStaysAdmissible
  BY DEF IInv
<1> QED
  BY <1>1, Invariance, PTL

-----------------------------------------------------------------------------
(* Where the bundles come from. *)

\* The pinned bundles are those of a revision that passed the audit and was
\* extracted without a gap; what the recipe has finished comes from the revision
\* the bump names.
Provenance ==
  /\ Usable(source)
  /\ \A r \in Resource : pinned[r] = Extracted[source][r].bundle
  /\ \A i \in 1..recipe.done : /\ tree[GenOrder[i]] = Extracted[sdk][GenOrder[i]].bundle
                               /\ Extracted[sdk][GenOrder[i]].exit = 0
  /\ audit = 0 => Audited[sdk] = 0

LEMMA GenerateKeepsProvenance == ASSUME IInv, Provenance, Generate PROVE Provenance'
<1> DEFINE n == recipe.done + 1
           r == GenOrder[n]
           out == Extracted[sdk][r]
<1>1. n \in 1..Len(GenOrder) /\ r \in Resource /\ recipe.done \in Nat
  BY RecipeAssumption DEF Generate, IInv, TypeOK
<1>2. /\ tree' = [tree EXCEPT ![r] = out.bundle] /\ DOMAIN tree = Resource
      /\ UNCHANGED <<sdk, source, pinned, audit>>
      /\ \/ out.exit = 0 /\ recipe'.done = n
         \/ recipe'.done = recipe.done
  <2>1. recipe \in [done : 0..Len(GenOrder), failed : BOOLEAN]
    BY DEF IInv, TypeOK
  <2> QED
    BY <2>1 DEF Generate, IInv, Shapes
<1>3. ASSUME NEW i \in 1..recipe'.done
      PROVE  /\ tree'[GenOrder[i]] = Extracted[sdk][GenOrder[i]].bundle
             /\ Extracted[sdk][GenOrder[i]].exit = 0
  <2> HIDE DEF out
  <2>1. CASE i = n
    <3>1. out.exit = 0
      BY <1>1, <1>2, <1>3, <2>1
    <3> QED
      BY <1>1, <1>2, <2>1, <3>1 DEF out
  <2>2. CASE i # n
    <3>1. i \in 1..recipe.done /\ i \in 1..Len(GenOrder)
      BY <1>1, <1>2, <1>3, <2>2, RecipeAssumption, SMTT(30)
    <3>2. GenOrder[i] \in Resource
      BY <3>1, RecipeAssumption
    <3>3. GenOrder[i] # r
      BY <1>1, <2>2, <3>1, <3>2, RecipeAssumption
    <3>4. tree'[GenOrder[i]] = tree[GenOrder[i]]
      BY <1>2, <3>2, <3>3
    <3> QED
      BY <3>1, <3>4 DEF Provenance
  <2> QED
    BY <2>1, <2>2
<1> HIDE DEF n, r, out
<1> QED
  BY <1>2, <1>3 DEF Provenance, Usable

\* A gate runs only when the recipe is through, so all of the tree is pinned from
\* the revision that was audited.
LEMMA PinnedKeepsProvenance ==
  ASSUME IInv, Provenance, Pinned, audit = 0, \A r \in Resource : gate[r] \in {0, 3}
  PROVE  Provenance'
<1>1. \A r \in Resource : tree[r] = Extracted[sdk][r].bundle /\ Extracted[sdk][r].exit = 0
  <2> SUFFICES ASSUME NEW r \in Resource
               PROVE  tree[r] = Extracted[sdk][r].bundle /\ Extracted[sdk][r].exit = 0
    OBVIOUS
  <2>1. recipe.done = Len(GenOrder)
    BY DEF IInv, GateInv, NotRun
  <2>2. PICK i \in 1..Len(GenOrder) : GenOrder[i] = r
    BY RecipeAssumption
  <2> QED
    BY <2>1, <2>2 DEF Provenance
<1>3. Usable(sdk)
  BY <1>1 DEF Usable, Provenance
<1>4. /\ pinned' = tree /\ source' = sdk /\ sdk' = sdk /\ recipe'.done = 0 /\ audit' = NotRun
  BY DEF Pinned, Restarted
<1> QED
  BY <1>1, <1>3, <1>4 DEF Provenance, NotRun, Usable

-----------------------------------------------------------------------------
(* What an extraction without a gap yields. *)

LEMMA MinIsLeast ==
  ASSUME NEW S \in SUBSET Nat, S # {} PROVE Min(S) \in S /\ \A j \in S : Min(S) <= j
BY LeastOfNats DEF Min

LEMMA MaxIsOne ==
  ASSUME NEW n \in Nat, NEW S \in SUBSET (1..n), S # {} PROVE Max(S) \in S
BY GreatestUpTo DEF Max

\* The operations of a client file: each at the place of its name.
ClientOps(ops) ==
  /\ DOMAIN ops \subseteq DOMAIN OpOrder
  /\ \A i \in DOMAIN ops : ops[i].name = OpOrder[i] /\ ops[i].path \in Seq(Segment)

LEMMA Names ==
  /\ DOMAIN OpOrder = 1..Len(OpOrder) /\ Len(OpOrder) \in Nat
  /\ \A i \in DOMAIN OpOrder : OpOrder[i] # NoName
  /\ \A i, j \in DOMAIN OpOrder : OpOrder[i] = OpOrder[j] => i = j
<1>1. OpOrder \in Seq(Range(OpOrder))
  BY SdkAssumption
<1>2. \A i \in DOMAIN OpOrder : OpOrder[i] # NoName
  BY SdkAssumption DEF Range
<1>3. \A i, j \in DOMAIN OpOrder : OpOrder[i] = OpOrder[j] => i = j
  BY SdkAssumption
<1> QED
  BY <1>1, <1>2, <1>3

LEMMA FrontOfTwo == ASSUME NEW s \in Seq(Segment), Len(s) > 1 PROVE Front(s) # << >>
<1>1. Front(s) \in Seq(Segment) /\ Len(Front(s)) = Len(s) - 1
  BY DEF Front
<1>2. Len(Front(s)) # 0
  BY <1>1, SMTT(30)
<1> HIDE DEF Front
<1> QED
  BY <1>1, <1>2

LEMMA NoOpIsUnnamed == NoOp.name = NoName
BY DEF NoOp

LEMMA FirstIsOne ==
  ASSUME NEW ops, NEW at \in SUBSET Nat
  PROVE  /\ at = {} => First(ops, at) = NoOp
         /\ at # {} => \E i \in at : First(ops, at) = ops[i]
BY MinIsLeast DEF First

LEMMA PickIsOne ==
  ASSUME NEW ops, ClientOps(ops), NEW at \in SUBSET DOMAIN ops
  PROVE  /\ at = {} => Pick(ops, at) = NoOp
         /\ at # {} => \E i \in at : Pick(ops, at) = ops[i]
<1> DEFINE Rank(i) == CHOOSE n \in DOMAIN OpOrder : OpOrder[n] = ops[i].name
           least == {i \in at : \A j \in at : Rank(i) <= Rank(j)}
<1>1. at \in SUBSET Nat
  BY Names DEF ClientOps
<1>2. \A i \in at : Rank(i) = i
  BY Names DEF ClientOps
<1>3. Pick(ops, at) = First(ops, least)
  BY DEF Pick
<1>4. least \in SUBSET Nat /\ least \subseteq at
  BY <1>1
<1>5. at # {} => least # {}
  <2> SUFFICES ASSUME at # {} PROVE least # {}
    OBVIOUS
  <2>1. Min(at) \in at /\ \A j \in at : Min(at) <= j
    BY <1>1, MinIsLeast
  <2>2. \A j \in at : Rank(Min(at)) <= Rank(j)
    BY <1>2, <2>1
  <2> QED
    BY <2>1, <2>2
<1> HIDE DEF least
<1> QED
  BY <1>3, <1>4, <1>5, FirstIsOne

\* What is written over the role of the create operation is elsewhere.
OthersElsewhere(res, ops, path) ==
  /\ res.updateOp = NoOp
       \/ \E i \in DOMAIN ops : /\ res.updateOp = ops[i] /\ ops[i].path = path
                                /\ ops[i].verb \in {"PUT", "POST"}
  /\ res.deleteOp = NoOp
       \/ \E i \in AtPath(ops, "DELETE", path) : res.deleteOp = ops[i]
  /\ \A a \in DOMAIN res.actions : /\ a \in DOMAIN ops /\ res.actions[a].op = ops[a]
                                   /\ IsStrictPrefix(path, ops[a].path)

\* What the lifecycle of a resource is put together from.
FromPaths(res, ops, models) ==
  LET collection == CollectionPath(res.readOp.path)
  IN  /\ \E i \in DOMAIN ops : res.readOp = ops[i]
      /\ res.createOp = IF collection = << >> THEN NoOp
                          ELSE Pick(ops, AtPath(ops, "POST", collection))
      /\ res.create = RequestBodyModel(res.createOp, models)
      /\ res.update = RequestBodyModel(res.updateOp, models)
      /\ \A a \in DOMAIN res.actions : res.actions[a].model = RequestBodyModel(ops[a], models)
      /\ OthersElsewhere(res, ops, res.readOp.path)
      /\ CreateGaps(res, models) = {}

LEMMA ResolvedByPath ==
  ASSUME NEW models, NEW ops, ClientOps(ops), NEW r,
         NEW res, res = ResolveByPath(models, ops, r), res.unresolved = {}
  PROVE  FromPaths(res, ops, models)
<1> DEFINE found == FindReadOp(ops, models, r)
           path == found.op.path
           collection == CollectionPath(path)
           puts == AtPath(ops, "PUT", path)
           create == IF collection = << >> THEN NoOp
                       ELSE Pick(ops, AtPath(ops, "POST", collection))
           update == IF puts # {} THEN ops[Max(puts)]
                                 ELSE First(ops, AtPath(ops, "POST", path))
           delete == Pick(ops, AtPath(ops, "DELETE", path))
           acting == {i \in DOMAIN ops : /\ ops[i].verb = "POST"
                                         /\ IsStrictPrefix(path, ops[i].path)
                                         /\ RequestBodyModel(ops[i], models).name # NoName
                                         /\ ~IsPolymorphic(RequestBodyModel(ops[i], models))}
           actions == [i \in acting |->
                         [op |-> ops[i], model |-> RequestBodyModel(ops[i], models)]]
           out == [Unresolvable(r, found.source, {}) EXCEPT
                     !.readOp = found.op, !.createOp = create, !.updateOp = update,
                     !.deleteOp = delete,
                     !.read = ResponseBodyModel(found.op, models, r),
                     !.create = RequestBodyModel(create, models),
                     !.update = RequestBodyModel(update, models),
                     !.actions = actions]
<1>1. found.op # NoOp /\ res = [out EXCEPT !.unresolved = Note(out, models)]
  <2>1. res = IF found.op = NoOp THEN Unresolvable(r, "", {"no read operation"})
                ELSE [out EXCEPT !.unresolved = Note(out, models)]
    BY DEF ResolveByPath
  <2>2. Unresolvable(r, "", {"no read operation"}).unresolved # {}
    BY DEF Unresolvable
  <2> HIDE DEF found, out
  <2> QED
    BY <2>1, <2>2
<1>2. /\ res.readOp = found.op /\ res.createOp = create /\ res.updateOp = update
      /\ res.deleteOp = delete /\ res.create = RequestBodyModel(create, models)
      /\ res.update = RequestBodyModel(update, models)
      /\ res.actions = actions /\ res.unresolved = Note(out, models)
  <2> HIDE DEF found, create, update, delete, actions
  <2> QED
    BY <1>1 DEF Unresolvable
<1>3. CreateGaps(res, models) = CreateGaps(out, models)
  <2> HIDE DEF found, create, update, delete, actions
  <2> QED
    BY <1>1 DEF Unresolvable, CreateGaps, ReadGaps
<1>4. CreateGaps(res, models) = {}
  BY <1>2, <1>3, ZenonT(60) DEF Note
<1>5. DOMAIN ops \in SUBSET (1..Len(OpOrder)) /\ Len(OpOrder) \in Nat
  BY Names DEF ClientOps
<1>6. \E i \in DOMAIN ops : found.op = ops[i]
  <2> DEFINE reads == {i \in DOMAIN ops : /\ ops[i].verb = "GET"
                                          /\ ByName(models, ops[i].response).body = r}
             named == {i \in DOMAIN ops : ops[i].name = GetOf[r]}
  <2>1. found.op = IF reads # {} THEN First(ops, reads) ELSE First(ops, named)
    BY DEF FindReadOp
  <2>2. reads \in SUBSET Nat /\ named \in SUBSET Nat
    BY <1>5
  <2>3. reads \subseteq DOMAIN ops /\ named \subseteq DOMAIN ops
    OBVIOUS
  <2>4. found.op # NoOp
    BY <1>1
  <2> HIDE DEF reads, named, found, path, out
  <2>5. CASE reads # {}
    BY <2>1, <2>2, <2>3, <2>5, FirstIsOne
  <2>6. CASE reads = {}
    <3>1. found.op = First(ops, named)
      BY <2>1, <2>6
    <3>2. named # {}
      BY <2>2, <2>4, <3>1, FirstIsOne
    <3>3. PICK i \in named : First(ops, named) = ops[i]
      BY <2>2, <3>2, FirstIsOne
    <3> QED
      BY <2>3, <3>1, <3>3
  <2> QED
    BY <2>5, <2>6
<1>7. update = NoOp \/ \E i \in DOMAIN ops : /\ update = ops[i] /\ ops[i].path = path
                                              /\ ops[i].verb \in {"PUT", "POST"}
  <2> DEFINE posts == AtPath(ops, "POST", path)
  <2>1. \A i \in puts \cup posts : /\ i \in DOMAIN ops /\ ops[i].path = path
                                  /\ ops[i].verb \in {"PUT", "POST"}
    BY DEF AtPath
  <2>2. posts \in SUBSET Nat /\ puts \in SUBSET (1..Len(OpOrder))
    BY <1>5, <2>1
  <2>3. update = IF puts # {} THEN ops[Max(puts)] ELSE First(ops, posts)
    OBVIOUS
  <2> HIDE DEF posts, puts, update, path
  <2> QED
    BY <1>5, <2>1, <2>2, <2>3, FirstIsOne, MaxIsOne
<1>8. delete = NoOp \/ \E i \in AtPath(ops, "DELETE", path) : delete = ops[i]
  <2>1. AtPath(ops, "DELETE", path) \in SUBSET DOMAIN ops
    BY DEF AtPath
  <2> HIDE DEF path
  <2> QED
    BY <2>1, PickIsOne
<1>9. \A a \in DOMAIN actions : /\ a \in DOMAIN ops /\ actions[a].op = ops[a]
                                /\ IsStrictPrefix(path, ops[a].path)
  <2> HIDE DEF path
  <2> QED
    OBVIOUS
<1>10. OthersElsewhere(res, ops, path)
  <2> HIDE DEF found, update, delete, actions
  <2> QED
    BY <1>2, <1>7, <1>8, <1>9 DEF OthersElsewhere
<1>11. \A a \in DOMAIN actions : actions[a].model = RequestBodyModel(ops[a], models)
  <2> HIDE DEF path
  <2> QED
    OBVIOUS
<1> HIDE DEF found, update, delete, actions
<1> QED
  BY <1>2, <1>4, <1>6, <1>10, <1>11 DEF FromPaths

\* A name has the role it is listed with.
LEMMA RolesAreListed ==
  ASSUME NEW res, NEW n \in DOMAIN OperationMap(res)
  PROVE  /\ n # NoName
         /\ OperationMap(res)[n] = "create" => n = res.createOp.name
         /\ OperationMap(res)[n] = "read" => n = res.readOp.name
         /\ OperationMap(res)[n] = "update" => n = res.updateOp.name
         /\ OperationMap(res)[n] = "delete" => n = res.deleteOp.name
BY DEF OperationMap

\* Nothing takes the create operation away from its role: what is written over it
\* would have to be at its place, at another path or with another verb.
LEMMA CreateIsListed ==
  ASSUME NEW ops, ClientOps(ops), NEW path \in Seq(Segment),
         NEW k \in DOMAIN ops, ops[k].verb = "POST", ops[k].path = Front(path), Len(path) > 1,
         NEW res, res.createOp = ops[k],
         OthersElsewhere(res, ops, path)
  PROVE  ops[k].name \in DOMAIN OperationMap(res) /\ OperationMap(res)[ops[k].name] = "create"
<1> DEFINE n == ops[k].name
<1>1. /\ n # NoName
      /\ \A i \in DOMAIN ops : ops[i].name = n => i = k
  BY Names DEF ClientOps
<1>2. Len(path) \in Nat /\ Len(ops[k].path) = Len(path) - 1
  BY DEF Front
<1>3. n # res.updateOp.name
  <2>1. CASE res.updateOp = NoOp
    BY <1>1, <2>1, NoOpIsUnnamed
  <2>2. ASSUME NEW i \in DOMAIN ops, res.updateOp = ops[i], ops[i].path = path
        PROVE  n # res.updateOp.name
    <3>1. i # k
      BY <1>2, <2>2
    <3> QED
      BY <1>1, <2>2, <3>1
  <2> QED
    BY <2>1, <2>2 DEF OthersElsewhere
<1>4. n # res.deleteOp.name
  <2>1. CASE res.deleteOp = NoOp
    BY <1>1, <2>1, NoOpIsUnnamed
  <2>2. ASSUME NEW i \in AtPath(ops, "DELETE", path), res.deleteOp = ops[i]
        PROVE  n # res.deleteOp.name
    <3>1. i \in DOMAIN ops /\ i # k
      BY <2>2 DEF AtPath
    <3> QED
      BY <1>1, <2>2, <3>1
  <2> QED
    BY <2>1, <2>2 DEF OthersElsewhere
<1>5. \A a \in DOMAIN res.actions : n # res.actions[a].op.name
  <2> SUFFICES ASSUME NEW a \in DOMAIN res.actions, n = res.actions[a].op.name PROVE FALSE
    OBVIOUS
  <2>1. a = k
    BY <1>1 DEF OthersElsewhere
  <2> QED
    BY <1>2, <2>1 DEF IsStrictPrefix, IsPrefix, OthersElsewhere
<1> HIDE DEF n
<1> QED
  BY <1>1, <1>3, <1>4, <1>5 DEF OperationMap, n

LEMMA ClientOperations ==
  ASSUME NEW v \in Version, NEW c \in DOMAIN Sdk[v].client
  PROVE  LET file == Sdk[v].client[c]
             ops == ExtractClientFile(file)
         IN  /\ ClientOps(ops)
             /\ \A i \in DOMAIN ops :
                  /\ ops[i].name \in DOMAIN file.public /\ ops[i].name \in DOMAIN file.wire
                  /\ ops[i].verb = file.wire[ops[i].name].verb
                  /\ ops[i].path = file.wire[ops[i].name].path
                  /\ ops[i].request = file.public[ops[i].name].request
                  /\ ops[i].response = file.public[ops[i].name].response
             /\ CallsRespond /\ Audited[v] = 0 =>
                  \A n \in DOMAIN file.wire : \E i \in DOMAIN ops : ops[i].name = n
<1> DEFINE file == Sdk[v].client[c]
           ops == ExtractClientFile(file)
<1>1. \A i \in DOMAIN ops :
        /\ i \in DOMAIN OpOrder /\ ops[i].name = OpOrder[i]
        /\ ops[i].name \in DOMAIN file.public /\ ops[i].name \in DOMAIN file.wire
        /\ ops[i].verb = file.wire[ops[i].name].verb
        /\ ops[i].path = file.wire[ops[i].name].path
        /\ ops[i].request = file.public[ops[i].name].request
        /\ ops[i].response = file.public[ops[i].name].response
  BY DEF ExtractClientFile
<1>2. \A n \in DOMAIN file.wire : file.wire[n].path \in Seq(Segment)
  BY SdkAssumption
<1>3. ASSUME CallsRespond, Audited[v] = 0, NEW n \in DOMAIN file.wire
      PROVE  \E i \in DOMAIN ops : ops[i].name = n
  <2>1. AuditExit(Sdk[v]) = 0
    BY <1>3 DEF Audited
  <2>2. n \in DOMAIN file.public
    BY <2>1 DEF AuditExit, AuditClientFile
  <2>3. PICK i \in DOMAIN OpOrder : OpOrder[i] = n
    BY <2>2, SdkAssumption DEF Range
  <2>4. file.public[n].response # NoName
    BY <1>3, <2>2 DEF CallsRespond
  <2>5. i \in DOMAIN ops
    BY <1>3, <2>2, <2>3, <2>4 DEF ExtractClientFile
  <2> QED
    BY <1>1, <2>3, <2>5
<1>4. ClientOps(ops)
  BY <1>1, <1>2 DEF ClientOps
<1> HIDE DEF ops
<1> QED
  BY <1>1, <1>3, <1>4 DEF ops

LEMMA HasOperations ==
  ASSUME ClientsHaveMethods, NEW v \in Version, NEW r \in Resource, Audited[v] = 0
  PROVE  DOMAIN ExtractClientFile(Sdk[v].client[ClientOf[r]]) # {}
<1> DEFINE file == Sdk[v].client[ClientOf[r]]
<1>1. ClientOf[r] \in DOMAIN Sdk[v].client
  BY SdkAssumption
<1>2. PICK n \in DOMAIN file.public : file.public[n].response # NoName
  BY DEF ClientsHaveMethods
<1>3. AuditExit(Sdk[v]) = 0
  BY DEF Audited
<1>4. n \in DOMAIN file.wire
  <2> DEFINE counted == AuditClientFile(file)
  <2>1. counted.unresolved = {}
    BY <1>1, <1>3 DEF AuditExit
  <2>2. counted.unresolved =
          {m \in DOMAIN file.public : file.public[m].response # NoName} \ DOMAIN file.wire
    BY DEF AuditClientFile
  <2> HIDE DEF counted
  <2> QED
    BY <1>2, <2>1, <2>2
<1>5. PICK i \in DOMAIN OpOrder : OpOrder[i] = n
  BY <1>1, <1>2, SdkAssumption DEF Range
<1>6. i \in DOMAIN ExtractClientFile(file)
  BY <1>2, <1>4, <1>5 DEF ExtractClientFile
<1> QED
  BY <1>6

\* The create model is the body of the request of the create operation.
LEMMA CreateModelIsBody ==
  ASSUME NEW v \in Version, NEW names \in SUBSET DOMAIN Sdk[v].decl,
         NEW op, BodyIsNamed(Sdk[v], op.request),
         NEW model, model = RequestBodyModel(op, ExtractFile(Sdk[v], names)),
         model.name # NoName, ~IsPolymorphic(model)
  PROVE  model.fields = Sdk[v].decl[Sdk[v].decl[op.request].body].fields
<1> DEFINE decl == Sdk[v].decl
           models == ExtractFile(Sdk[v], names)
           q == op.request
           body == ByName(models, q).body
           b == IF body # NoName THEN body ELSE DetailsOf[q]
<1>1. /\ DOMAIN models \subseteq DOMAIN decl
      /\ \A m \in DOMAIN models :
           /\ models[m].body = decl[m].body
           /\ models[m].kind \in {"struct", "interface"}
           /\ models[m].kind = "struct" => models[m].fields = decl[m].fields
  BY DEF ExtractFile
<1>2. ZeroModel.name = NoName /\ ZeroModel.body = NoName
  BY DEF ZeroModel
<1>3. q # NoName /\ model = ByName(models, b)
  BY <1>2 DEF RequestBodyModel
<1>4. b \in DOMAIN models /\ model = models[b]
  <2> HIDE DEF models, b
  <2> QED
    BY <1>2, <1>3 DEF ByName
<1>5. model.fields = decl[b].fields
  <2> HIDE DEF models, b
  <2> QED
    BY <1>1, <1>4 DEF IsPolymorphic
<1>6. b = decl[q].body
  <2> HIDE DEF models
  <2>1. CASE body # NoName
    <3>1. q \in DOMAIN models
      BY <1>2, <2>1 DEF ByName
    <3> QED
      BY <1>1, <2>1, <3>1 DEF ByName
  <2>2. CASE body = NoName
    BY <1>1, <1>3, <1>4, <2>2 DEF BodyIsNamed
  <2> QED
    BY <2>1, <2>2
<1> QED
  BY <1>5, <1>6

\* The bundle of a resource that was extracted without a gap.
LEMMA ExtractedIsWhole ==
  ASSUME CallsRespond, NEW v \in Version, NEW r \in Resource,
         Audited[v] = 0, Extracted[v][r].exit = 0
  PROVE  CreateIsWhole(Sdk[v], r, Extracted[v][r].bundle)
<1> DEFINE c == ClientOf[r]
           file == Sdk[v].client[c]
           decl == Sdk[v].decl
           ops == ExtractClientFile(file)
           models == ExtractFile(Sdk[v], Supplied[r])
           res == Resolve(models, ops, r)
           bundle == Extracted[v][r].bundle
<1>1. /\ bundle = ResourceSchemas(res) /\ res.unresolved = {}
      /\ Supplied[r] \subseteq DOMAIN decl
  <2>1. Extracted[v][r] = ExtractSchema(Sdk[v], r)
    BY DEF Extracted
  <2> HIDE DEF res
  <2> QED
    BY <2>1 DEF ExtractSchema, res
<1>2. /\ bundle.operations = OperationMap(res)
      /\ \A f \in DOMAIN res.create.fields : f \in DOMAIN bundle.config
      /\ bundle.required = {f \in DOMAIN res.create.fields : res.create.fields[f].mandatory}
  <2> DEFINE carried == UNION {DOMAIN res.read.fields, DOMAIN res.create.fields,
                               DOMAIN res.update.fields}
             settable == {f \in carried : FieldPolicy(res, f) # "provider-computed"}
  <2>1. /\ bundle.operations = OperationMap(res) /\ DOMAIN bundle.config = settable
        /\ bundle.required = Required(res, settable)
    <3> HIDE DEF res
    <3> QED
      BY <1>1 DEF ResourceSchemas
  <2>2. \A f \in DOMAIN res.create.fields : f \in settable
    <3> HIDE DEF res
    <3> QED
      BY DEF FieldPolicy
  <2> HIDE DEF res, settable
  <2> QED
    BY <2>1, <2>2 DEF Required
<1>3. c \in DOMAIN Sdk[v].client
  BY SdkAssumption
<1>4. /\ ClientOps(ops)
      /\ \A i \in DOMAIN ops :
           /\ ops[i].name \in DOMAIN file.public /\ ops[i].name \in DOMAIN file.wire
           /\ ops[i].verb = file.wire[ops[i].name].verb
           /\ ops[i].path = file.wire[ops[i].name].path
           /\ ops[i].request = file.public[ops[i].name].request
      /\ \A n \in DOMAIN file.wire : \E i \in DOMAIN ops : ops[i].name = n
  BY <1>3, ClientOperations
<1> DEFINE Body(o) == decl[decl[file.public[o].request].body].fields
           Collects(n, o) == LET path == file.wire[o].path
                             IN  /\ file.wire[n].verb = "POST"
                                 /\ Len(path) > 1 /\ path[Len(path)] \in Param
                                 /\ file.wire[n].path = Front(path)
<1> SUFFICES
       /\ \A o \in OpsInRole(bundle, "create") :
            BodyIsNamed(Sdk[v], file.public[o].request) =>
            /\ DOMAIN Body(o) \subseteq DOMAIN bundle.config
            /\ bundle.required = {f \in DOMAIN Body(o) : Body(o)[f].mandatory}
       /\ (\E n \in DOMAIN file.wire, o \in OpsInRole(bundle, "read") : Collects(n, o))
            => OpsInRole(bundle, "create") # {}
  BY DEF CreateIsWhole
<1>5. CASE DOMAIN ops = {}
  <2>1. DOMAIN OperationMap(res) = {}
    <3>1. res = ResolveByName(models, r)
      BY <1>5 DEF Resolve
    <3>2. /\ res.readOp = NoOp /\ res.createOp = NoOp /\ res.updateOp = NoOp
          /\ res.deleteOp = NoOp /\ \A a \in DOMAIN res.actions : res.actions[a].op = NoOp
      <4> HIDE DEF res, models
      <4> QED
        BY <3>1 DEF ResolveByName, Unresolvable
    <3> HIDE DEF res
    <3> QED
      BY <3>2, NoOpIsUnnamed DEF OperationMap
  <2>2. OpsInRole(bundle, "read") = {} /\ OpsInRole(bundle, "create") = {}
    BY <1>2, <2>1 DEF OpsInRole
  <2> QED
    BY <2>2
<1>6. CASE DOMAIN ops # {}
  <2> DEFINE path == res.readOp.path
             collection == CollectionPath(path)
  <2>1. res = ResolveByPath(models, ops, r)
    BY <1>6 DEF Resolve
  <2> HIDE DEF ops, models, res, bundle
  <2>2. FromPaths(res, ops, models)
    BY <1>1, <1>4, <2>1, ResolvedByPath
  <2>3. \A i \in DOMAIN ops : ops[i].path \in Seq(Segment)
    BY <1>4 DEF ClientOps
  <2>4. AtPath(ops, "POST", collection) \in SUBSET DOMAIN ops
    BY DEF AtPath
  <2>5. \/ res.createOp = NoOp
        \/ \E i \in AtPath(ops, "POST", collection) : res.createOp = ops[i]
    BY <1>4, <2>2, <2>4, PickIsOne, SMTT(30) DEF FromPaths
  <2>6. ASSUME NEW o \in OpsInRole(bundle, "create"),
               BodyIsNamed(Sdk[v], file.public[o].request)
        PROVE  /\ DOMAIN Body(o) \subseteq DOMAIN bundle.config
               /\ bundle.required = {f \in DOMAIN Body(o) : Body(o)[f].mandatory}
    <3>1. o = res.createOp.name /\ o # NoName
      BY <1>2, RolesAreListed DEF OpsInRole
    <3>2. res.createOp # NoOp
      BY <3>1, NoOpIsUnnamed
    <3>3. PICK i \in DOMAIN ops : res.createOp = ops[i]
      BY <2>4, <2>5, <3>2
    <3>4. /\ o \in DOMAIN file.public
          /\ res.createOp.request = file.public[o].request
      BY <1>4, <3>1, <3>3
    <3>5. res.create.name # NoName /\ ~IsPolymorphic(res.create)
      BY <2>2, <3>2 DEF CreateGaps, FromPaths
    <3>6. res.create.fields = Body(o)
      <4>1. /\ Supplied[r] \in SUBSET DOMAIN Sdk[v].decl
            /\ res.createOp.request = Sdk[v].client[c].public[o].request
            /\ BodyIsNamed(Sdk[v], res.createOp.request)
            /\ res.create = RequestBodyModel(res.createOp, ExtractFile(Sdk[v], Supplied[r]))
        BY <1>1, <2>2, <2>6, <3>4 DEF models, FromPaths
      <4>2. res.create.fields = Sdk[v].decl[Sdk[v].decl[res.createOp.request].body].fields
        <5> HIDE DEF c
        <5> QED
          BY <3>5, <4>1, CreateModelIsBody, ZenonT(60)
      <4> QED
        BY <3>4, <4>2
    <3> QED
      BY <1>2, <3>6
  <2>7. ASSUME NEW n \in DOMAIN file.wire, NEW o \in OpsInRole(bundle, "read"), Collects(n, o)
        PROVE  OpsInRole(bundle, "create") # {}
    <3>1. o = res.readOp.name
      BY <1>2, RolesAreListed DEF OpsInRole
    <3>2. file.wire[o].path = path /\ path \in Seq(Segment)
      BY <1>4, <2>2, <2>3, <3>1 DEF FromPaths
    <3>3. /\ collection = Front(path) /\ Len(path) > 1
          /\ file.wire[n].verb = "POST" /\ file.wire[n].path = collection
      BY <2>7, <3>2 DEF CollectionPath
    <3>4. collection # << >>
      BY <3>2, <3>3, FrontOfTwo
    <3>5. PICK j \in DOMAIN ops : ops[j].name = n
      BY <1>4
    <3>6. j \in AtPath(ops, "POST", collection)
      BY <1>4, <3>3, <3>5 DEF AtPath
    <3>7. PICK k \in AtPath(ops, "POST", collection) : res.createOp = ops[k]
      <4> DEFINE at == AtPath(ops, "POST", collection)
      <4>1. res.createOp = Pick(ops, at)
        BY <2>2, <3>4 DEF FromPaths
      <4>2. at \in SUBSET DOMAIN ops /\ at # {}
        BY <2>4, <3>6
      <4> HIDE DEF at, collection, path
      <4>3. \E k \in at : res.createOp = ops[k]
        BY <1>4, <4>1, <4>2, PickIsOne
      <4> QED
        BY <4>3 DEF at
    <3>8. k \in DOMAIN ops /\ ops[k].verb = "POST" /\ ops[k].path = Front(path)
      BY <3>3, <3>7 DEF AtPath
    <3>9. /\ ops[k].name \in DOMAIN OperationMap(res)
          /\ OperationMap(res)[ops[k].name] = "create"
      <4>1. /\ ClientOps(ops) /\ path \in Seq(Segment) /\ Len(path) > 1
            /\ res.createOp = ops[k]
        BY <1>4, <3>2, <3>3, <3>7
      <4>2. OthersElsewhere(res, ops, path)
        BY <2>2 DEF FromPaths
      <4> HIDE DEF path, file
      <4> QED
        BY <3>8, <4>1, <4>2, CreateIsListed
    <3> QED
      BY <1>2, <3>9 DEF OpsInRole
  <2> QED
    BY <2>6, <2>7
<1> QED
  BY <1>5, <1>6

-----------------------------------------------------------------------------
(* The theorem about the create surface. *)

LEMMA NextKeepsProvenance == ASSUME IInv, Provenance, [Next]_vars PROVE Provenance'
<1>1. CASE UNCHANGED vars
  BY <1>1 DEF vars, Provenance, Usable
<1>2. CASE \E v \in Version : Bump(v)
  BY <1>2 DEF Bump, Restarted, Provenance, Usable, NotRun
<1>3. CASE Audit
  BY <1>3 DEF Audit, Provenance, Usable
<1>4. CASE Generate
  BY <1>4, GenerateKeepsProvenance
<1>5. CASE \E r \in Resource : Diff(r)
  BY <1>5 DEF Diff, Provenance, Usable
<1>6. CASE Pin \/ PinReviewed
  BY <1>6, PinnedKeepsProvenance DEF Pin, PinReviewed
<1>7. CASE Discard
  BY <1>7 DEF Discard, Restarted, Provenance, Usable, NotRun
<1>8. CASE \E k \in Kind, p \in Payload : Admit(k, p)
  BY <1>8 DEF Admit, Provenance, Usable
<1> QED
  BY <1>1, <1>2, <1>3, <1>4, <1>5, <1>6, <1>7, <1>8 DEF Next

\* What is pinned is, resource by resource, what one audited revision yields
\* (mk/golang.mk, oci.generate; cmd/oci-extract): no bundle of a failed recipe
\* and no mixture of two revisions is ever embedded.
THEOREM PinnedFromOneRevision == Spec => []Provenance
<1>1. Init => Provenance
  BY DEF Init, Provenance, NotRun
<1>2. IInv /\ Provenance /\ [Next]_vars => Provenance'
  BY NextKeepsProvenance
<1> QED
  BY <1>1, <1>2, Invariance, PTL DEF Spec

\* The create surface of every pinned bundle is the one its SDK declares
\* (note and requestBodyModel in resolve.go, ResourceSchemasFrom in schema.go): no
\* bundle that looks valid and lacks what a create demands.
THEOREM CreateSurfacesAreWhole ==
  ASSUME CallsRespond
  PROVE  Spec => []CreateSurfaceIsWhole
<1>1. IInv /\ Provenance => CreateSurfaceIsWhole
  <2> SUFFICES ASSUME IInv, Provenance, NEW r \in Resource
               PROVE  CreateIsWhole(Sdk[source], r, pinned[r])
    BY DEF CreateSurfaceIsWhole
  <2>1. /\ source \in Version /\ Audited[source] = 0 /\ Extracted[source][r].exit = 0
        /\ pinned[r] = Extracted[source][r].bundle
    BY DEF IInv, TypeOK, Provenance, Usable
  <2> QED
    BY <2>1, ExtractedIsWhole
<1> QED
  BY <1>1, Invariance, PinnedFromOneRevision, PTL

-----------------------------------------------------------------------------
(* What the sweep finds where an extraction had no gap. *)

\* Where an operation stands in the sweep: file after file, each with all its names.
LEMMA PlaceInFile ==
  ASSUME NEW n \in Nat \ {0}, NEW files \in Nat, NEW x \in Nat, x < files * n
  PROVE  x % n \in 0 .. (n - 1) /\ x \div n \in 0 .. (files - 1)
<1> DEFINE d == x \div n
<1>1. d \in Nat /\ d * n <= x /\ x % n \in 0 .. (n - 1)
  OBVIOUS
<1> HIDE DEF d
<1>2. ASSUME d >= files PROVE d * n >= files * n
  BY <1>1, <1>2
<1>3. d * n \in Nat /\ files * n \in Nat
  BY <1>1
<1>4. d < files
  BY <1>1, <1>2, <1>3
<1> QED
  BY <1>1, <1>4 DEF d

LEMMA PlaceInSweep ==
  ASSUME NEW n \in Nat \ {0}, NEW files \in Nat, NEW k \in 0 .. (files - 1),
         NEW j \in 0 .. (n - 1)
  PROVE  /\ k * n + j \in Nat /\ k * n + j < files * n
         /\ (k * n + j) % n = j /\ (k * n + j) \div n = k
OBVIOUS

\* What the sweep of a revision lists is what its client files have.
SweptOps(v, ops) ==
  /\ DOMAIN ops \subseteq Nat
  /\ \A i \in DOMAIN ops : \E c \in Range(Clients) :
       \E j \in DOMAIN ExtractClientFile(Sdk[v].client[c]) :
         ops[i] = ExtractClientFile(Sdk[v].client[c])[j]
  /\ \A c \in Range(Clients) : \A j \in DOMAIN ExtractClientFile(Sdk[v].client[c]) :
       \E i \in DOMAIN ops : ops[i] = ExtractClientFile(Sdk[v].client[c])[j]

LEMMA SweepIsComplete ==
  ASSUME NEW v \in Version
  PROVE  SweptOps(v, SweepOps(Sdk[v], Clients))
<1> DEFINE N == Len(OpOrder)
           K == Len(Clients)
           File(i) == ExtractClientFile(Sdk[v].client[Clients[((i - 1) \div N) + 1]])
           Place(i) == ((i - 1) % N) + 1
           at == {i \in 1 .. (K * N) : Place(i) \in DOMAIN File(i)}
           ops == SweepOps(Sdk[v], Clients)
<1>1. ops = [i \in at |-> File(i)[Place(i)]]
  BY DEF SweepOps
<1>2. /\ N \in Nat /\ K \in Nat /\ DOMAIN Clients = 1 .. K /\ DOMAIN OpOrder = 1 .. N
      /\ Range(Clients) \in SUBSET DOMAIN Sdk[v].client
      /\ \A k \in 1 .. K : Clients[k] \in Range(Clients)
      /\ \A c \in Range(Clients) : \E k \in 1 .. K : Clients[k] = c
  BY Names, SdkAssumption DEF Range
<1> HIDE DEF N, K
<1>3. at \in SUBSET Nat
  BY <1>2
<1>4. ASSUME NEW i \in at
      PROVE  \E c \in Range(Clients) : \E j \in DOMAIN ExtractClientFile(Sdk[v].client[c]) :
               ops[i] = ExtractClientFile(Sdk[v].client[c])[j]
  <2> DEFINE x == i - 1
  <2>1. K * N \in Nat /\ i \in 1 .. (K * N) /\ Place(i) \in DOMAIN File(i)
    BY <1>2
  <2>2. x \in Nat /\ x < K * N /\ N # 0
    BY <1>2, <2>1
  <2>3. x \div N \in 0 .. (K - 1)
    <3> HIDE DEF x
    <3> QED
      BY <1>2, <2>2, PlaceInFile
  <2>4. (x \div N) + 1 \in 1 .. K
    BY <1>2, <2>3
  <2>5. ops[i] = File(i)[Place(i)]
    BY <1>1
  <2> QED
    BY <1>2, <2>1, <2>4, <2>5
<1>5. ASSUME NEW c \in Range(Clients), NEW j \in DOMAIN ExtractClientFile(Sdk[v].client[c])
      PROVE  \E i \in at : ops[i] = ExtractClientFile(Sdk[v].client[c])[j]
  <2>1. PICK k \in 1 .. K : Clients[k] = c
    BY <1>2
  <2>2. j \in 1 .. N
    BY <1>2, ClientOperations DEF ClientOps
  <2> DEFINE y == (k - 1) * N + (j - 1)
  <2>3. y \in Nat /\ y < K * N /\ y % N = j - 1 /\ y \div N = k - 1
    <3>1. N \in Nat \ {0} /\ k - 1 \in 0 .. (K - 1) /\ j - 1 \in 0 .. (N - 1)
      BY <1>2, <2>2
    <3> QED
      BY <1>2, <3>1, PlaceInSweep, ZenonT(60)
  <2> HIDE DEF y
  <2>4. K * N \in Nat
    BY <1>2
  <2>5. y + 1 \in 1 .. (K * N) /\ (y + 1) - 1 = y
    BY <2>3, <2>4
  <2>6. Place(y + 1) = j /\ ((y + 1) - 1) \div N + 1 = k
    BY <2>2, <2>3, <2>5
  <2>7. File(y + 1) = ExtractClientFile(Sdk[v].client[c])
    BY <2>1, <2>6
  <2>8. y + 1 \in at
    BY <2>5, <2>6, <2>7
  <2> QED
    BY <1>1, <2>6, <2>7, <2>8
<1> HIDE DEF at, ops
<1>6. DOMAIN ops = at
  BY <1>1
<1> QED
  BY <1>3, <1>4, <1>5, <1>6 DEF SweptOps, ops

\* What is read and created, of the resource r.
ReadByPath(res, ops, models, r) ==
  LET collection == CollectionPath(res.readOp.path)
  IN  /\ res.readOp = FindReadOp(ops, models, r).op
      /\ res.read = ResponseBodyModel(res.readOp, models, r)
      /\ res.createOp = IF collection = << >> THEN NoOp
                          ELSE Pick(ops, AtPath(ops, "POST", collection))
      /\ res.create = RequestBodyModel(res.createOp, models)
      /\ ReadGaps(res) \cup CreateGaps(res, models) \subseteq res.unresolved

LEMMA ResolvedReads ==
  ASSUME NEW models, NEW ops, NEW r, NEW res, res = ResolveByPath(models, ops, r),
         FindReadOp(ops, models, r).op # NoOp
  PROVE  ReadByPath(res, ops, models, r)
<1> DEFINE found == FindReadOp(ops, models, r)
           path == found.op.path
           collection == CollectionPath(path)
           puts == AtPath(ops, "PUT", path)
           create == IF collection = << >> THEN NoOp
                       ELSE Pick(ops, AtPath(ops, "POST", collection))
           update == IF puts # {} THEN ops[Max(puts)]
                                 ELSE First(ops, AtPath(ops, "POST", path))
           delete == Pick(ops, AtPath(ops, "DELETE", path))
           acting == {i \in DOMAIN ops : /\ ops[i].verb = "POST"
                                         /\ IsStrictPrefix(path, ops[i].path)
                                         /\ RequestBodyModel(ops[i], models).name # NoName
                                         /\ ~IsPolymorphic(RequestBodyModel(ops[i], models))}
           actions == [i \in acting |->
                         [op |-> ops[i], model |-> RequestBodyModel(ops[i], models)]]
           out == [Unresolvable(r, found.source, {}) EXCEPT
                     !.readOp = found.op, !.createOp = create, !.updateOp = update,
                     !.deleteOp = delete,
                     !.read = ResponseBodyModel(found.op, models, r),
                     !.create = RequestBodyModel(create, models),
                     !.update = RequestBodyModel(update, models),
                     !.actions = actions]
<1>1. res = [out EXCEPT !.unresolved = Note(out, models)]
  <2>1. res = IF found.op = NoOp THEN Unresolvable(r, "", {"no read operation"})
                ELSE [out EXCEPT !.unresolved = Note(out, models)]
    BY DEF ResolveByPath
  <2> HIDE DEF found, out
  <2> QED
    BY <2>1 DEF found
<1>2. /\ res.readOp = found.op /\ res.createOp = create
      /\ res.read = ResponseBodyModel(found.op, models, r)
      /\ res.create = RequestBodyModel(create, models)
      /\ res.unresolved = Note(out, models)
  <2> HIDE DEF found, create, update, delete, actions
  <2> QED
    BY <1>1 DEF Unresolvable
<1>3. ReadGaps(res) = ReadGaps(out) /\ CreateGaps(res, models) = CreateGaps(out, models)
  <2> HIDE DEF found, create, update, delete, actions
  <2> QED
    BY <1>1 DEF Unresolvable, CreateGaps, ReadGaps
<1>4. ReadGaps(res) \cup CreateGaps(res, models) \subseteq res.unresolved
  <2> HIDE DEF out
  <2> QED
    BY <1>2, <1>3 DEF Note
<1> HIDE DEF found, out
<1> QED
  BY <1>2, <1>4 DEF ReadByPath, found

LEMMA ResolvedWithoutGap ==
  ASSUME NEW models, NEW ops, NEW r, ResolveByPath(models, ops, r).unresolved = {}
  PROVE  FindReadOp(ops, models, r).op # NoOp
<1> DEFINE gap == Unresolvable(r, "", {"no read operation"})
<1>1. gap.unresolved # {}
  BY DEF Unresolvable
<1>2. FindReadOp(ops, models, r).op = NoOp => ResolveByPath(models, ops, r) = gap
  BY DEF ResolveByPath
<1> HIDE DEF gap
<1> QED
  BY <1>1, <1>2

\* What is declared in the SDK: the fact that a sweep and a recipe differ in.
LEMMA ModelsAreDeclared ==
  ASSUME NEW contents, NEW names \in SUBSET DOMAIN contents.decl
  PROVE  LET models == ExtractFile(contents, names)
             all == ExtractFile(contents, DOMAIN contents.decl)
         IN  /\ \A m \in DOMAIN models : m \in DOMAIN all /\ models[m] = all[m] /\ m \in names
             /\ \A m \in DOMAIN all : /\ m \in DOMAIN contents.decl
                                      /\ all[m].body = contents.decl[m].body /\ all[m].name = m
             /\ \A m \in DOMAIN all : m \in names => m \in DOMAIN models
BY DEF ExtractFile

\* A request or response that declares this body, or none.
Declares(v, t, b) == t \in DOMAIN Sdk[v].decl => Sdk[v].decl[t].body \in {b, NoName}

LEMMA DeclaredBody ==
  ASSUME NEW v \in Version, NEW names \in SUBSET DOMAIN Sdk[v].decl,
         NEW t, NEW b, Declares(v, t, b)
  PROVE  ByName(ExtractFile(Sdk[v], names), t).body \in {b, NoName}
<1> DEFINE models == ExtractFile(Sdk[v], names)
<1>1. \A m \in DOMAIN models : m \in DOMAIN Sdk[v].decl /\ models[m].body = Sdk[v].decl[m].body
  BY DEF ExtractFile
<1>2. ZeroModel.body = NoName
  BY DEF ZeroModel
<1> HIDE DEF models
<1>3. ByName(models, t).body \in {b, NoName}
  BY <1>1, <1>2 DEF ByName, Declares
<1> QED
  BY <1>3 DEF models

\* A create model that was found is the one the sweep finds, unless the request
\* declares another body than the one it is paired with.
LEMMA CreateModelIsSwept ==
  ASSUME NEW v \in Version, NEW names \in SUBSET DOMAIN Sdk[v].decl, NEW op,
         op.request # NoName => Declares(v, op.request, DetailsOf[op.request]),
         NEW model, model = RequestBodyModel(op, ExtractFile(Sdk[v], names)),
         model.name # NoName
  PROVE  model = RequestBodyModel(op, ExtractFile(Sdk[v], DOMAIN Sdk[v].decl))
<1> DEFINE models == ExtractFile(Sdk[v], names)
           all == ExtractFile(Sdk[v], DOMAIN Sdk[v].decl)
           details == DetailsOf[op.request]
<1>1. ZeroModel.name = NoName
  BY DEF ZeroModel
<1>2. op.request # NoName
  BY <1>1 DEF RequestBodyModel
<1>3. /\ ByName(models, op.request).body \in {details, NoName}
      /\ ByName(all, op.request).body \in {details, NoName}
  BY <1>2, DeclaredBody
<1>4. \A m \in DOMAIN models : m \in DOMAIN all /\ models[m] = all[m]
  BY ModelsAreDeclared
<1> HIDE DEF models, all
<1>5. /\ RequestBodyModel(op, models) = ByName(models, details)
      /\ RequestBodyModel(op, all) = ByName(all, details)
  BY <1>2, <1>3 DEF RequestBodyModel
<1>6. model = ByName(models, details)
  BY <1>5 DEF models
<1>7. details \in DOMAIN models
  BY <1>1, <1>6 DEF ByName
<1> QED
  BY <1>4, <1>5, <1>6, <1>7 DEF ByName, all

\* An operation reads the resource by its response or by its name.
Reads(op, models, r) ==
  op.name = GetOf[r] \/ (op.verb = "GET" /\ ByName(models, op.response).body = r)

LEMMA FoundReads ==
  ASSUME NEW ops, DOMAIN ops \subseteq Nat, NEW models, NEW r
  PROVE  LET op == FindReadOp(ops, models, r).op
         IN  /\ op # NoOp => \E i \in DOMAIN ops : op = ops[i] /\ Reads(ops[i], models, r)
             /\ (\E i \in DOMAIN ops : ops[i].name = GetOf[r]) =>
                  \E i \in DOMAIN ops : op = ops[i] /\ Reads(ops[i], models, r)
<1> DEFINE op == FindReadOp(ops, models, r).op
           reads == {i \in DOMAIN ops : /\ ops[i].verb = "GET"
                                        /\ ByName(models, ops[i].response).body = r}
           named == {i \in DOMAIN ops : ops[i].name = GetOf[r]}
<1>1. op = IF reads # {} THEN First(ops, reads) ELSE First(ops, named)
  BY DEF FindReadOp
<1>2. reads \in SUBSET Nat /\ named \in SUBSET Nat
  OBVIOUS
<1>3. \A i \in reads \cup named : i \in DOMAIN ops /\ Reads(ops[i], models, r)
  BY DEF Reads
<1>4. (\E i \in DOMAIN ops : ops[i].name = GetOf[r]) => named # {}
  OBVIOUS
<1> HIDE DEF reads, named, op
<1>5. CASE reads # {}
  BY <1>1, <1>2, <1>3, <1>5, FirstIsOne DEF op
<1>6. CASE reads = {} /\ named # {}
  BY <1>1, <1>2, <1>3, <1>6, FirstIsOne DEF op
<1>7. CASE reads = {} /\ named = {}
  BY <1>1, <1>2, <1>4, <1>7, FirstIsOne DEF op
<1> QED
  BY <1>5, <1>6, <1>7

\* The first by name does not depend on how often an operation is listed.
LEMMA PicksAgree ==
  ASSUME NEW ops, ClientOps(ops), NEW wide, DOMAIN wide \subseteq Nat,
         NEW at \in SUBSET DOMAIN ops, NEW more \in SUBSET DOMAIN wide,
         \A i \in more : \E j \in at : wide[i] = ops[j],
         \A j \in at : \E i \in more : wide[i] = ops[j]
  PROVE  Pick(wide, more) = Pick(ops, at)
<1> DEFINE Rank(i) == CHOOSE n \in DOMAIN OpOrder : OpOrder[n] = ops[i].name
           Wide(i) == CHOOSE n \in DOMAIN OpOrder : OpOrder[n] = wide[i].name
           least == {i \in at : \A j \in at : Rank(i) <= Rank(j)}
           first == {i \in more : \A j \in more : Wide(i) <= Wide(j)}
<1>1. at \in SUBSET Nat /\ more \in SUBSET Nat
  BY Names DEF ClientOps
<1>2. \A j \in at : Rank(j) = j
  BY Names DEF ClientOps
<1>3. \A i \in more : Wide(i) \in at /\ wide[i] = ops[Wide(i)]
  <2> SUFFICES ASSUME NEW i \in more PROVE Wide(i) \in at /\ wide[i] = ops[Wide(i)]
    OBVIOUS
  <2>1. PICK j \in at : wide[i] = ops[j]
    OBVIOUS
  <2>2. Wide(i) = j
    BY <2>1, Names DEF ClientOps
  <2> QED
    BY <2>1, <2>2
<1>4. Pick(ops, at) = First(ops, least) /\ Pick(wide, more) = First(wide, first)
  BY DEF Pick
<1>5. least = {i \in at : \A j \in at : i <= j}
  BY <1>2
<1> HIDE DEF Wide, Rank
<1>6. first \in SUBSET Nat /\ least \in SUBSET Nat
  BY <1>1
<1>7. CASE at = {}
  <2>1. least = {} /\ first = {}
    BY <1>7
  <2> HIDE DEF least, first
  <2> QED
    BY <1>4, <1>6, <2>1, FirstIsOne
<1>8. CASE at # {}
  <2> DEFINE m == Min(at)
  <2>1. m \in at /\ \A j \in at : m <= j
    BY <1>1, <1>8, MinIsLeast
  <2> HIDE DEF m
  <2>2. least = {m}
    <3>1. m \in least
      BY <1>5, <2>1
    <3>2. \A i \in least : i = m
      <4> SUFFICES ASSUME NEW i \in least PROVE i = m
        OBVIOUS
      <4>1. i \in at /\ i <= m
        BY <1>5, <2>1
      <4>2. i \in Nat /\ m \in Nat /\ m <= i
        BY <1>1, <2>1, <4>1
      <4> QED
        BY <4>1, <4>2
    <3> QED
      BY <3>1, <3>2
  <2>3. First(ops, least) = ops[m]
    <3> HIDE DEF least
    <3> QED
      BY <1>6, <2>2, FirstIsOne
  <2>4. PICK y \in more : wide[y] = ops[m]
    BY <2>1
  <2>5. \A i \in more : \E j \in at : j = Wide(i) /\ m <= j
    BY <1>3, <2>1
  <2>6. Wide(y) = m
    BY <2>1, <2>4, Names DEF ClientOps, Wide
  <2>7. y \in first
    BY <2>4, <2>5, <2>6
  <2>8. \A i \in first : wide[i] = ops[m]
    <3> SUFFICES ASSUME NEW i \in first PROVE wide[i] = ops[m]
      OBVIOUS
    <3>1. i \in more /\ Wide(i) <= m /\ m <= Wide(i)
      BY <2>4, <2>5, <2>6
    <3>2. Wide(i) \in Nat /\ m \in Nat
      BY <1>1, <1>3, <2>1
    <3> QED
      BY <1>3, <3>1, <3>2
  <2>9. First(wide, first) = ops[m]
    <3> HIDE DEF first
    <3> QED
      BY <1>6, <2>7, <2>8, FirstIsOne
  <2> QED
    BY <1>4, <2>3, <2>9
<1> QED
  BY <1>7, <1>8

\* Without responses the recipe knows the read operation by its name alone.
LEMMA RecipeReadsByName ==
  ASSUME RecipeNamesModels, NEW v \in Version, NEW r \in Resource,
         NEW j \in DOMAIN ExtractClientFile(Sdk[v].client[ClientOf[r]]),
         NEW op, op = ExtractClientFile(Sdk[v].client[ClientOf[r]])[j],
         Reads(op, ExtractFile(Sdk[v], Supplied[r]), r)
  PROVE  op.name = GetOf[r]
<1> DEFINE models == ExtractFile(Sdk[v], Supplied[r])
           public == Sdk[v].client[ClientOf[r]].public
<1>1. ClientOf[r] \in DOMAIN Sdk[v].client /\ r # NoName
  BY SdkAssumption
<1>2. op.name \in DOMAIN public /\ op.response = public[op.name].response
  BY <1>1, ClientOperations
<1>3. op.response \notin Supplied[r]
  BY <1>2 DEF RecipeNamesModels
<1>4. DOMAIN models \subseteq Supplied[r]
  BY DEF ExtractFile
<1> HIDE DEF models
<1>5. ByName(models, op.response).body = NoName
  BY <1>3, <1>4 DEF ByName, ZeroModel
<1> QED
  BY <1>1, <1>5 DEF Reads, models

\* What reads the resource in the sweep is Get<Resource> of its client file, or a
\* list of resources, to whose path nothing is posted.
ReadOrListed(v, r, c, op) ==
  \/ c = ClientOf[r] /\ op.name = GetOf[r]
  \/ CollectionPath(op.path) = << >> /\ Declares(v, op.response, r)

LEMMA SweptReader ==
  ASSUME OthersOnlyList, NEW v \in Version, NEW r \in Resource, NEW c \in Range(Clients),
         NEW j \in DOMAIN ExtractClientFile(Sdk[v].client[c]),
         NEW op, op = ExtractClientFile(Sdk[v].client[c])[j],
         Reads(op, ExtractFile(Sdk[v], DOMAIN Sdk[v].decl), r)
  PROVE  ReadOrListed(v, r, c, op)
<1> DEFINE file == Sdk[v].client[c]
           decl == Sdk[v].decl
           all == ExtractFile(Sdk[v], DOMAIN decl)
           n == op.name
<1>1. c \in DOMAIN Sdk[v].client /\ r # NoName
  BY SdkAssumption
<1>2. /\ n \in DOMAIN file.public \cap DOMAIN file.wire
      /\ op.verb = file.wire[n].verb /\ op.path = file.wire[n].path
      /\ op.response = file.public[n].response
  BY <1>1, ClientOperations
<1>3. \A m \in DOMAIN all : m \in DOMAIN decl /\ all[m].body = decl[m].body
  BY DEF ExtractFile
<1>4. n = GetOf[r] \/ (op.verb = "GET" /\ ByName(all, op.response).body = r)
  BY DEF Reads
<1>5. ByName(all, op.response).body = r => op.response \in DOMAIN decl /\ decl[op.response].body = r
  <2>1. ZeroModel.body = NoName
    BY DEF ZeroModel
  <2> HIDE DEF all
  <2> QED
    BY <1>1, <1>3, <2>1 DEF ByName
<1>6. /\ n = GetOf[r] => c = ClientOf[r]
      /\ /\ n # GetOf[r] /\ op.verb = "GET"
         /\ op.response \in DOMAIN decl /\ decl[op.response].body = r
         => CollectionPath(op.path) = << >>
  <2>1. n = GetOf[r] => c = ClientOf[r]
    BY <1>2 DEF OthersOnlyList
  <2>2. \A m \in (DOMAIN file.public \cap DOMAIN file.wire) \ {GetOf[r]} :
          file.wire[m].verb = "GET" /\ CollectionPath(file.wire[m].path) # << >> =>
            ~(/\ file.public[m].response \in DOMAIN decl
              /\ decl[file.public[m].response].body = r)
    BY DEF OthersOnlyList
  <2> HIDE DEF n, file
  <2> QED
    BY <1>2, <2>1, <2>2
<1> HIDE DEF n, all
<1> QED
  BY <1>4, <1>5, <1>6 DEF ReadOrListed, Declares, n

\* An operation of the service that posts to the collection is of that file too.
CollectedIn(v, r, collection) ==
  \A c \in Range(Clients) : \A j \in DOMAIN ExtractClientFile(Sdk[v].client[c]) :
    LET op == ExtractClientFile(Sdk[v].client[c])[j]
    IN  op.verb = "POST" /\ op.path = collection => c = ClientOf[r]

LEMMA CollectorIsKept ==
  ASSUME CollectionsAreKept, NEW v \in Version, NEW r \in Resource,
         NEW get \in DOMAIN ExtractClientFile(Sdk[v].client[ClientOf[r]]),
         NEW collection, collection # << >>,
         NEW reader, reader = ExtractClientFile(Sdk[v].client[ClientOf[r]])[get],
         reader.name = GetOf[r], collection = CollectionPath(reader.path)
  PROVE  CollectedIn(v, r, collection)
<1> SUFFICES ASSUME NEW c \in Range(Clients) \ {ClientOf[r]},
                    NEW j \in DOMAIN ExtractClientFile(Sdk[v].client[c]),
                    ExtractClientFile(Sdk[v].client[c])[j].verb = "POST",
                    ExtractClientFile(Sdk[v].client[c])[j].path = collection
             PROVE  FALSE
  BY DEF CollectedIn
<1> DEFINE home == Sdk[v].client[ClientOf[r]].wire
           wire == Sdk[v].client[c].wire
           n == ExtractClientFile(Sdk[v].client[c])[j].name
<1>1. c \in DOMAIN Sdk[v].client /\ ClientOf[r] \in DOMAIN Sdk[v].client
  BY SdkAssumption
<1>2. GetOf[r] \in DOMAIN home /\ CollectionPath(home[GetOf[r]].path) = collection
  <2>1. reader.name \in DOMAIN home /\ reader.path = home[reader.name].path
    BY <1>1, ClientOperations
  <2> HIDE DEF home
  <2> QED
    BY <2>1
<1>3. n \in DOMAIN wire /\ wire[n].verb = "POST" /\ wire[n].path = collection
  BY <1>1, ClientOperations
<1>4. GetOf[r] \in DOMAIN home /\ CollectionPath(home[GetOf[r]].path) # << >> =>
        \A m \in DOMAIN wire :
          wire[m].verb = "POST" => wire[m].path # CollectionPath(home[GetOf[r]].path)
  <2>1. \A k \in Range(Clients) \ {ClientOf[r]} :
          GetOf[r] \in DOMAIN home /\ CollectionPath(home[GetOf[r]].path) # << >> =>
            \A m \in DOMAIN Sdk[v].client[k].wire :
              Sdk[v].client[k].wire[m].verb = "POST" =>
                Sdk[v].client[k].wire[m].path # CollectionPath(home[GetOf[r]].path)
    BY DEF CollectionsAreKept
  <2> QED
    BY <2>1
<1> HIDE DEF n, home, wire
<1> QED
  BY <1>2, <1>3, <1>4

\* The sweep finds the collector of the resource where the recipe does.
LEMMA SweptCollectors ==
  ASSUME CollectionsAreKept, NEW v \in Version, NEW r \in Resource,
         NEW get, get \in DOMAIN ExtractClientFile(Sdk[v].client[ClientOf[r]]),
         NEW path, path = ExtractClientFile(Sdk[v].client[ClientOf[r]])[get].path,
         ExtractClientFile(Sdk[v].client[ClientOf[r]])[get].name = GetOf[r],
         CollectionPath(path) # << >>
  PROVE  LET ops == ExtractClientFile(Sdk[v].client[ClientOf[r]])
             wide == SweepOps(Sdk[v], Clients)
         IN  Pick(wide, AtPath(wide, "POST", CollectionPath(path)))
               = Pick(ops, AtPath(ops, "POST", CollectionPath(path)))
<1> DEFINE home == ClientOf[r]
           ops == ExtractClientFile(Sdk[v].client[home])
           wide == SweepOps(Sdk[v], Clients)
           at == AtPath(ops, "POST", CollectionPath(path))
           more == AtPath(wide, "POST", CollectionPath(path))
<1>1. home \in Range(Clients) /\ ClientOf[r] \in DOMAIN Sdk[v].client
  BY SdkAssumption
<1>2. ClientOps(ops)
  BY <1>1, ClientOperations
<1>3. SweptOps(v, wide)
  BY SweepIsComplete
<1>4. \A c \in Range(Clients) : \A j \in DOMAIN ExtractClientFile(Sdk[v].client[c]) :
        /\ ExtractClientFile(Sdk[v].client[c])[j].verb = "POST"
        /\ ExtractClientFile(Sdk[v].client[c])[j].path = CollectionPath(path)
        => c = home
  <2> DEFINE collection == CollectionPath(path)
             reader == ExtractClientFile(Sdk[v].client[ClientOf[r]])[get]
  <2>1. /\ reader = ExtractClientFile(Sdk[v].client[ClientOf[r]])[get]
        /\ reader.name = GetOf[r] /\ collection = CollectionPath(reader.path)
        /\ collection # << >>
    OBVIOUS
  <2> HIDE DEF collection, reader
  <2>2. CollectedIn(v, r, collection)
    BY <2>1, CollectorIsKept
  <2> QED
    BY <2>2 DEF collection, CollectedIn
<1> HIDE DEF ops, wide, home
<1>5. /\ at \in SUBSET DOMAIN ops /\ more \in SUBSET DOMAIN wide
      /\ \A i \in at : i \in DOMAIN ops /\ ops[i].verb = "POST" /\ ops[i].path = CollectionPath(path)
      /\ \A i \in DOMAIN ops :
           ops[i].verb = "POST" /\ ops[i].path = CollectionPath(path) => i \in at
      /\ \A i \in more : i \in DOMAIN wide /\ wide[i].verb = "POST" /\ wide[i].path = CollectionPath(path)
      /\ \A i \in DOMAIN wide :
           wide[i].verb = "POST" /\ wide[i].path = CollectionPath(path) => i \in more
  BY DEF AtPath
<1> HIDE DEF at, more
<1>6. DOMAIN wide \subseteq Nat
  BY <1>3 DEF SweptOps
<1>7. ASSUME NEW i \in more PROVE \E j \in at : wide[i] = ops[j]
  <2>1. i \in DOMAIN wide /\ wide[i].verb = "POST" /\ wide[i].path = CollectionPath(path)
    BY <1>5, <1>7
  <2>2. PICK c \in Range(Clients) : \E j \in DOMAIN ExtractClientFile(Sdk[v].client[c]) :
          wide[i] = ExtractClientFile(Sdk[v].client[c])[j]
    BY <1>3, <2>1 DEF SweptOps
  <2>3. PICK j \in DOMAIN ExtractClientFile(Sdk[v].client[c]) :
          wide[i] = ExtractClientFile(Sdk[v].client[c])[j]
    BY <2>2
  <2>4. c = home
    BY <1>4, <2>1, <2>3
  <2>5. j \in DOMAIN ops /\ wide[i] = ops[j]
    BY <2>3, <2>4 DEF ops
  <2> QED
    BY <1>5, <2>1, <2>5
<1>8. ASSUME NEW j \in at PROVE \E i \in more : wide[i] = ops[j]
  <2>1. j \in DOMAIN ops /\ ops[j].verb = "POST" /\ ops[j].path = CollectionPath(path)
    BY <1>5, <1>8
  <2>2. PICK i \in DOMAIN wide : wide[i] = ops[j]
    BY <1>1, <1>3, <2>1 DEF SweptOps, ops
  <2> QED
    BY <1>5, <2>1, <2>2
<1>9. Pick(wide, more) = Pick(ops, at)
  BY <1>2, <1>5, <1>6, <1>7, <1>8, PicksAgree
<1> QED
  BY <1>9 DEF at, more, ops, wide, home

\* An operation that was not found brings no model.
LEMMA NothingCreated ==
  ASSUME NEW models
  PROVE  RequestBodyModel(NoOp, models) = ZeroModel /\ ~IsPolymorphic(ZeroModel)
BY DEF RequestBodyModel, NoOp, ZeroModel, IsPolymorphic

\* A create model without a gap is there and is a struct.
LEMMA CreateWithoutGap ==
  ASSUME NEW res, NEW models, CreateGaps(res, models) = {}
  PROVE  /\ ~IsPolymorphic(res.create)
         /\ res.createOp # NoOp => res.create.name # NoName
BY DEF CreateGaps

LEMMA ReadWithoutGap ==
  ASSUME NEW res, ReadGaps(res) = {}
  PROVE  res.read.name # NoName /\ ~IsPolymorphic(res.read)
BY DEF ReadGaps

\* What the response of the read operation stands for, when it carries nothing else.
LEMMA ReadModel ==
  ASSUME NEW v \in Version, NEW r \in Resource, NEW names \in SUBSET DOMAIN Sdk[v].decl,
         NEW op, Declares(v, op.response, r)
  PROVE  ResponseBodyModel(op, ExtractFile(Sdk[v], names), r)
           = ByName(ExtractFile(Sdk[v], names), r)
<1>1. ByName(ExtractFile(Sdk[v], names), op.response).body \in {r, NoName}
  BY DeclaredBody
<1> QED
  BY <1>1 DEF ResponseBodyModel

\* The bundle lists the create operation that was found, in that role.
LEMMA CreatorIsListed ==
  ASSUME NEW ops, ClientOps(ops), NEW models, NEW r,
         NEW res, res = ResolveByPath(models, ops, r), res.unresolved = {},
         res.createOp # NoOp
  PROVE  /\ res.createOp.name \in OpsInRole(ResourceSchemas(res), "create")
         /\ \E k \in DOMAIN ops : res.createOp = ops[k]
<1> DEFINE path == res.readOp.path
           collection == CollectionPath(path)
           at == AtPath(ops, "POST", collection)
<1>1. FromPaths(res, ops, models)
  BY ResolvedByPath
<1>2. /\ collection # << >> /\ res.createOp = Pick(ops, at)
      /\ OthersElsewhere(res, ops, path)
      /\ \E i \in DOMAIN ops : res.readOp = ops[i]
  BY <1>1 DEF FromPaths
<1>3. at \in SUBSET DOMAIN ops
      /\ \A i \in at : ops[i].verb = "POST" /\ ops[i].path = collection
  BY DEF AtPath
<1>4. path \in Seq(Segment) /\ Len(path) > 1 /\ collection = Front(path)
  <2>1. path \in Seq(Segment)
    BY <1>2 DEF ClientOps
  <2> HIDE DEF path
  <2> QED
    BY <1>2, <2>1 DEF CollectionPath
<1> HIDE DEF path, collection, at
<1>5. PICK k \in at : res.createOp = ops[k]
  BY <1>2, <1>3, PickIsOne
<1>6. k \in DOMAIN ops /\ ops[k].verb = "POST" /\ ops[k].path = Front(path)
  BY <1>3, <1>4, <1>5
<1>7. /\ ops[k].name \in DOMAIN OperationMap(res)
      /\ OperationMap(res)[ops[k].name] = "create"
  BY <1>2, <1>4, <1>5, <1>6, CreateIsListed
<1>8. ResourceSchemas(res).operations = OperationMap(res)
  BY DEF ResourceSchemas
<1> QED
  BY <1>5, <1>6, <1>7, <1>8 DEF OpsInRole

\* What is extracted without a gap, the sweep can read too.
LEMMA ExtractedIsSwept ==
  ASSUME ClientsHaveMethods, RecipeNamesModels, OthersOnlyList, CollectionsAreKept,
         NEW v \in Version, NEW r \in Resource,
         Audited[v] = 0, Extracted[v][r].exit = 0,
         ~Redeclared(Sdk[v], r, Extracted[v][r].bundle)
  PROVE  Swept[v][r] \in {"A", "B"}
<1> DEFINE c == ClientOf[r]
           file == Sdk[v].client[c]
           decl == Sdk[v].decl
           ops == ExtractClientFile(file)
           models == ExtractFile(Sdk[v], Supplied[r])
           res == ResolveByPath(models, ops, r)
           bundle == Extracted[v][r].bundle
           wide == SweepOps(Sdk[v], Clients)
           all == ExtractFile(Sdk[v], DOMAIN decl)
           seen == ResolveByPath(all, wide, r)
           get == FindReadOp(ops, models, r).op
           got == FindReadOp(wide, all, r).op
           Creator(op) == IF CollectionPath(op.path) = << >> THEN NoOp
                            ELSE Pick(ops, AtPath(ops, "POST", CollectionPath(op.path)))
           Swiped(op) == IF CollectionPath(op.path) = << >> THEN NoOp
                           ELSE Pick(wide, AtPath(wide, "POST", CollectionPath(op.path)))
<1>1. DOMAIN ops # {}
  BY HasOperations
<1>2. c \in DOMAIN Sdk[v].client /\ c \in Range(Clients)
  BY SdkAssumption
<1>3. /\ res.unresolved = {} /\ Supplied[r] \in SUBSET DOMAIN decl
      /\ bundle = ResourceSchemas(res)
  <2>1. Extracted[v][r] = ExtractSchema(Sdk[v], r)
    BY DEF Extracted
  <2>2. Resolve(models, ops, r) = res
    BY <1>1 DEF Resolve
  <2> HIDE DEF res
  <2> QED
    BY <2>1, <2>2 DEF ExtractSchema
<1>4. get # NoOp
  BY <1>3, ResolvedWithoutGap
<1>5. ClientOps(ops)
  BY <1>2, ClientOperations
<1>6. DOMAIN ops \subseteq Nat
  BY <1>5, Names DEF ClientOps
<1>7. SweptOps(v, wide)
  BY SweepIsComplete
<1>8. PICK g \in DOMAIN ops : get = ops[g] /\ Reads(ops[g], models, r)
  <2> HIDE DEF ops, models, get
  <2> QED
    BY <1>4, <1>6, FoundReads DEF get
<1>9. get.name = GetOf[r]
  <2>1. ops[g].name = GetOf[r]
    BY <1>8, RecipeReadsByName
  <2> HIDE DEF get, ops
  <2> QED
    BY <1>8, <2>1
<1>10. Declares(v, get.response, r)
  <2>1. /\ ops[g].name \in DOMAIN file.public
        /\ ops[g].response = file.public[ops[g].name].response
    BY <1>2, <1>8, ClientOperations
  <2>2. GetOf[r] \in DOMAIN file.public /\ get.response = file.public[GetOf[r]].response
    <3> HIDE DEF get, ops, file
    <3> QED
      BY <1>8, <1>9, <2>1
  <2> HIDE DEF get
  <2> QED
    BY <2>2 DEF Redeclared, Declares
<1>11. /\ got # NoOp /\ Declares(v, got.response, r)
       /\ got = get \/ CollectionPath(got.path) = << >>
  <2>1. PICK i \in DOMAIN wide : wide[i] = ops[g]
    BY <1>2, <1>7, <1>8 DEF SweptOps
  <2>2. wide[i].name = GetOf[r] /\ DOMAIN wide \subseteq Nat
    <3> HIDE DEF get, ops, wide
    <3> QED
      BY <1>7, <1>8, <1>9, <2>1 DEF SweptOps
  <2>3. PICK k \in DOMAIN wide : got = wide[k] /\ Reads(wide[k], all, r)
    <3> HIDE DEF wide, all, got
    <3> QED
      BY <2>2, FoundReads DEF got
  <2>4. PICK d \in Range(Clients) : \E j \in DOMAIN ExtractClientFile(Sdk[v].client[d]) :
          wide[k] = ExtractClientFile(Sdk[v].client[d])[j]
    <3> HIDE DEF wide
    <3> QED
      BY <1>7, <2>3 DEF SweptOps
  <2>5. PICK j \in DOMAIN ExtractClientFile(Sdk[v].client[d]) :
          wide[k] = ExtractClientFile(Sdk[v].client[d])[j]
    BY <2>4
  <2>6. ReadOrListed(v, r, d, wide[k])
    <3>1. Reads(wide[k], ExtractFile(Sdk[v], DOMAIN Sdk[v].decl), r)
      BY <2>3
    <3> HIDE DEF wide
    <3> QED
      BY <2>5, <3>1, SweptReader
  <2>7. ASSUME d = c, wide[k].name = GetOf[r] PROVE got = get
    <3>1. j \in DOMAIN ops /\ got = ops[j] /\ ops[j].name = ops[g].name
      <4>1. j \in DOMAIN ops /\ wide[k] = ops[j]
        BY <2>5, <2>7
      <4> HIDE DEF ops, wide, got, get
      <4> QED
        BY <1>8, <1>9, <2>3, <2>7, <4>1
    <3> HIDE DEF ops, got, get
    <3>2. j = g
      BY <1>5, <1>8, <3>1, Names DEF ClientOps
    <3> QED
      BY <1>8, <3>1, <3>2
  <2>8. wide[k].name # NoName
    <3>1. ClientOps(ExtractClientFile(Sdk[v].client[d])) /\ d \in DOMAIN Sdk[v].client
      BY ClientOperations, SdkAssumption
    <3>2. ExtractClientFile(Sdk[v].client[d])[j].name # NoName
      BY <2>5, <3>1, Names DEF ClientOps
    <3> HIDE DEF wide
    <3> QED
      BY <2>5, <3>2
  <2> HIDE DEF wide, got, get, ops
  <2>9. got # NoOp
    BY <2>3, <2>8, NoOpIsUnnamed
  <2> QED
    BY <1>10, <2>3, <2>6, <2>7, <2>9 DEF ReadOrListed
<1>12. ReadByPath(res, ops, models, r) /\ ReadByPath(seen, wide, all, r)
  <2> HIDE DEF ops, models, wide, all
  <2>1. ReadByPath(res, ops, models, r)
    <3> HIDE DEF res
    <3> QED
      BY <1>4, ResolvedReads DEF res
  <2>2. ReadByPath(seen, wide, all, r)
    <3> HIDE DEF seen
    <3> QED
      BY <1>11, ResolvedReads DEF seen
  <2> QED
    BY <2>1, <2>2
<1>13. ClientOps(ops) /\ res = ResolveByPath(models, ops, r) /\ res.unresolved = {}
  BY <1>3, <1>5
<1> HIDE DEF res, seen
<1>14. /\ res.read = ResponseBodyModel(get, models, r)
       /\ seen.read = ResponseBodyModel(got, all, r)
       /\ res.createOp = Creator(get) /\ seen.createOp = Swiped(got)
       /\ res.create = RequestBodyModel(res.createOp, models)
       /\ seen.create = RequestBodyModel(seen.createOp, all)
       /\ ReadGaps(res) = {} /\ CreateGaps(res, models) = {}
  <2> HIDE DEF ops, models, wide, all
  <2> QED
    BY <1>3, <1>12 DEF ReadByPath
<1>15. seen.read = res.read
  <2>1. res.read = ByName(models, r) /\ seen.read = ByName(all, r)
    <3> HIDE DEF get, got
    <3> QED
      BY <1>3, <1>10, <1>11, <1>14, ReadModel
  <2>2. res.read.name # NoName
    BY <1>14, ReadWithoutGap
  <2>3. ByName(models, r).name # NoName => r \in DOMAIN models
    <3> HIDE DEF models
    <3> QED
      BY DEF ByName, ZeroModel
  <2>4. r \in DOMAIN models => r \in DOMAIN all /\ all[r] = models[r]
    BY <1>3, ModelsAreDeclared
  <2> HIDE DEF models, all
  <2> QED
    BY <2>1, <2>2, <2>3, <2>4 DEF ByName
<1>16. seen.createOp \in {NoOp, res.createOp}
  <2>1. CASE CollectionPath(got.path) = << >>
    BY <1>14, <2>1
  <2>2. CASE CollectionPath(got.path) # << >>
    <3>1. got = get /\ CollectionPath(get.path) # << >>
      <4> HIDE DEF got, get
      <4> QED
        BY <1>11, <2>2
    <3>2. Swiped(get) = Creator(get)
      <4> DEFINE path == get.path
      <4>1. /\ g \in DOMAIN ExtractClientFile(Sdk[v].client[ClientOf[r]])
            /\ path = ExtractClientFile(Sdk[v].client[ClientOf[r]])[g].path
            /\ ExtractClientFile(Sdk[v].client[ClientOf[r]])[g].name = GetOf[r]
        <5> HIDE DEF get
        <5> QED
          BY <1>8, <1>9
      <4> HIDE DEF path
      <4>2. CollectionPath(path) # << >>
        BY <3>1 DEF path
      <4>3. Pick(wide, AtPath(wide, "POST", CollectionPath(path)))
              = Pick(ops, AtPath(ops, "POST", CollectionPath(path)))
        <5> HIDE DEF get, got, models, all
        <5> QED
          BY <4>1, <4>2, SweptCollectors, ZenonT(60)
      <4> HIDE DEF ops, wide, get
      <4> QED
        BY <4>2, <4>3 DEF path
    <3> HIDE DEF got, get, Creator, Swiped
    <3> QED
      BY <1>14, <3>1, <3>2
  <2> QED
    BY <2>1, <2>2
<1>17. ~IsPolymorphic(seen.create)
  <2>1. CASE seen.createOp = NoOp
    <3> HIDE DEF models, all
    <3> QED
      BY <1>14, <2>1, NothingCreated
  <2>2. CASE seen.createOp # NoOp
    <3> DEFINE op == res.createOp
    <3>1. seen.createOp = op /\ op # NoOp
      BY <1>16, <2>2
    <3>2. res.create.name # NoName /\ ~IsPolymorphic(res.create)
      BY <1>14, <3>1, CreateWithoutGap
    <3>3. op.name \in OpsInRole(bundle, "create") /\ \E k \in DOMAIN ops : op = ops[k]
      <4> HIDE DEF ops, models, bundle
      <4>1. res.createOp # NoOp
        BY <3>1
      <4>2. /\ res.createOp.name \in OpsInRole(ResourceSchemas(res), "create")
            /\ \E k \in DOMAIN ops : res.createOp = ops[k]
        BY <1>13, <4>1, CreatorIsListed
      <4> QED
        BY <1>3, <4>2
    <3>4. op.request = file.public[op.name].request
      <4>1. \A k \in DOMAIN ops : ops[k].request = file.public[ops[k].name].request
        BY <1>2, ClientOperations
      <4> HIDE DEF ops, op
      <4> QED
        BY <3>3, <4>1
    <3> HIDE DEF op
    <3>5. op.request # NoName => Declares(v, op.request, DetailsOf[op.request])
      <4> HIDE DEF bundle
      <4> QED
        BY <3>3, <3>4 DEF Redeclared, Declares, bundle
    <3>6. res.create = RequestBodyModel(op, ExtractFile(Sdk[v], Supplied[r]))
      BY <1>14 DEF op
    <3>7. res.create = RequestBodyModel(op, all)
      BY <1>3, <3>2, <3>5, <3>6, CreateModelIsSwept
    <3> HIDE DEF all
    <3> QED
      BY <1>14, <3>1, <3>2, <3>7
  <2> QED
    BY <2>1, <2>2
<1>18. seen.read.name # NoName /\ ~IsPolymorphic(seen.read)
  BY <1>14, <1>15, ReadWithoutGap
<1>19. SweepResolve(Sdk[v], Clients, r) = seen
  <2>1. DOMAIN wide # {}
    <3> HIDE DEF ops, wide
    <3> QED
      BY <1>2, <1>7, <1>8 DEF SweptOps, ops
  <2> QED
    BY <2>1 DEF SweepResolve, Resolve, seen
<1>20. Swept[v][r] = SweepClass(Sdk[v], Clients, r)
  BY DEF Swept
<1> HIDE DEF seen
<1> QED
  BY <1>17, <1>18, <1>19, <1>20 DEF SweepClass

\* Generation and sweep read the SDK in different ways (ExtractSchema in
\* cmd/oci-extract, the classes of cmd/oci-sweep).  What was generated without a
\* gap from the files of the recipe, the sweep of the directory resolves to a
\* struct too, unless a request or response declares another body than it is named
\* after: an interface, an alias or a wrong operation elsewhere in the directory
\* cannot come between them.
THEOREM PinnedAreExtractable ==
  ASSUME ClientsHaveMethods, RecipeNamesModels, OthersOnlyList, CollectionsAreKept
  PROVE  Spec => []PinnedIsExtractable
<1>1. IInv /\ Provenance => PinnedIsExtractable
  <2> SUFFICES ASSUME IInv, Provenance, NEW r \in Resource,
                      ~Redeclared(Sdk[source], r, pinned[r])
               PROVE  Swept[source][r] \in {"A", "B"}
    BY DEF PinnedIsExtractable
  <2>1. /\ source \in Version /\ Audited[source] = 0 /\ Extracted[source][r].exit = 0
        /\ pinned[r] = Extracted[source][r].bundle
    BY DEF IInv, TypeOK, Provenance, Usable
  <2>2. ~Redeclared(Sdk[source], r, Extracted[source][r].bundle)
    BY <2>1
  <2> QED
    BY <2>1, <2>2, ExtractedIsSwept
<1> QED
  BY <1>1, Invariance, PinnedFromOneRevision, PTL

-----------------------------------------------------------------------------
(* What the planner finds in the bundle of an extraction without a gap. *)

\* Every field has a policy, the operation that changes it is there, and no role
\* has two operations.
Plannable(bundle) ==
  /\ \A f \in DOMAIN bundle.config :
       LET policy == bundle.config[f].policy
       IN  /\ policy \in {"mutable", "create-only", "input-only", "action-managed"}
           /\ policy = "mutable" => OpsInRole(bundle, "update") # {}
           /\ policy \in {"create-only", "input-only"} => OpsInRole(bundle, "create") # {}
           /\ policy = "action-managed" =>
                OperationOf[bundle.config[f].action] \in OpsInRole(bundle, "action")
  /\ \A o \in DOMAIN bundle.operations :
       o # NoName /\ \A role \in DOMAIN Unnamed : Unnamed[role] # o
  /\ \A role \in DOMAIN Unnamed : \A o, p \in OpsInRole(bundle, role) : o = p

\* Nothing takes the update operation away from its role either.
LEMMA UpdateIsListed ==
  ASSUME NEW ops, ClientOps(ops), NEW path \in Seq(Segment),
         NEW res, OthersElsewhere(res, ops, path), res.updateOp # NoOp
  PROVE  /\ res.updateOp.name \in DOMAIN OperationMap(res)
         /\ OperationMap(res)[res.updateOp.name] = "update"
<1>1. PICK k \in DOMAIN ops : /\ res.updateOp = ops[k] /\ ops[k].path = path
                              /\ ops[k].verb \in {"PUT", "POST"}
  BY DEF OthersElsewhere
<1> DEFINE n == ops[k].name
<1>2. /\ n # NoName
      /\ \A i \in DOMAIN ops : ops[i].name = n => i = k
  BY Names DEF ClientOps
<1>3. n # res.deleteOp.name
  <2>1. CASE res.deleteOp = NoOp
    BY <1>2, <2>1, NoOpIsUnnamed
  <2>2. ASSUME NEW i \in AtPath(ops, "DELETE", path), res.deleteOp = ops[i]
        PROVE  n # res.deleteOp.name
    <3>1. i \in DOMAIN ops /\ i # k
      BY <1>1, <2>2 DEF AtPath
    <3> QED
      BY <1>2, <2>2, <3>1
  <2> QED
    BY <2>1, <2>2 DEF OthersElsewhere
<1>4. \A a \in DOMAIN res.actions : n # res.actions[a].op.name
  <2> SUFFICES ASSUME NEW a \in DOMAIN res.actions, n = res.actions[a].op.name PROVE FALSE
    OBVIOUS
  <2>1. a = k
    BY <1>2 DEF OthersElsewhere
  <2> QED
    BY <1>1, <2>1 DEF IsStrictPrefix, OthersElsewhere
<1> HIDE DEF n
<1> QED
  BY <1>1, <1>2, <1>3, <1>4 DEF OperationMap, n

\* Without an operation there is no model.
LEMMA NoOpSendsNothing ==
  ASSUME NEW models PROVE DOMAIN RequestBodyModel(NoOp, models).fields = {}
<1>1. RequestBodyModel(NoOp, models) = ZeroModel
  BY DEF RequestBodyModel, NoOp
<1>2. DOMAIN << >> = {}
  OBVIOUS
<1> QED
  BY <1>1, <1>2 DEF ZeroModel

\* The name is that of the body the request declares, or of the details it stands for.
NamedByRequest(name, q, contents) ==
  /\ q # NoName
  /\ \/ name = DetailsOf[q]
     \/ q \in DOMAIN contents.decl /\ name = contents.decl[q].body

\* What names the model of an action.
LEMMA ModelIsNamed ==
  ASSUME NEW contents, NEW names \in SUBSET DOMAIN contents.decl, NEW op, NEW model,
         model = RequestBodyModel(op, ExtractFile(contents, names)),
         model.name # NoName
  PROVE  NamedByRequest(model.name, op.request, contents)
<1> DEFINE models == ExtractFile(contents, names)
           q == op.request
           body == ByName(models, q).body
           b == IF body # NoName THEN body ELSE DetailsOf[q]
<1>1. \A m \in DOMAIN models : /\ m \in DOMAIN contents.decl
                               /\ models[m].body = contents.decl[m].body /\ models[m].name = m
  BY DEF ExtractFile
<1>2. ZeroModel.name = NoName /\ ZeroModel.body = NoName
  BY DEF ZeroModel
<1>3. q # NoName /\ model = ByName(models, b)
  BY <1>2 DEF RequestBodyModel
<1>4. model.name = b
  <2> HIDE DEF models, b
  <2> QED
    BY <1>1, <1>2, <1>3 DEF ByName
<1>5. body # NoName => q \in DOMAIN models /\ body = models[q].body
  <2> HIDE DEF models
  <2> QED
    BY <1>2 DEF ByName
<1> HIDE DEF models
<1> QED
  BY <1>1, <1>3, <1>4, <1>5 DEF NamedByRequest

LEMMA ExtractedIsPlannable ==
  ASSUME ClientsHaveMethods, ActionModelsAreNamed, NEW v \in Version, NEW r \in Resource,
         Audited[v] = 0, Extracted[v][r].exit = 0
  PROVE  Plannable(Extracted[v][r].bundle)
<1> DEFINE c == ClientOf[r]
           file == Sdk[v].client[c]
           ops == ExtractClientFile(file)
           models == ExtractFile(Sdk[v], Supplied[r])
           res == Resolve(models, ops, r)
           bundle == Extracted[v][r].bundle
           path == res.readOp.path
           collection == CollectionPath(path)
<1>1. /\ bundle = ResourceSchemas(res) /\ res.unresolved = {}
      /\ Supplied[r] \subseteq DOMAIN Sdk[v].decl
  <2>1. Extracted[v][r] = ExtractSchema(Sdk[v], r)
    BY DEF Extracted
  <2> HIDE DEF res
  <2> QED
    BY <2>1 DEF ExtractSchema, res
<1>2. /\ bundle.operations = OperationMap(res)
      /\ \A f \in DOMAIN bundle.config :
           /\ bundle.config[f].policy = FieldPolicy(res, f)
           /\ FieldPolicy(res, f) # "provider-computed"
           /\ FieldPolicy(res, f) = "action-managed" => bundle.config[f].action = ActionModel(res, f)
  <2> HIDE DEF res
  <2> QED
    BY <1>1 DEF ResourceSchemas
<1>3. c \in DOMAIN Sdk[v].client
  BY SdkAssumption
<1>4. /\ ClientOps(ops)
      /\ \A i \in DOMAIN ops :
           /\ ops[i].name \in DOMAIN file.public
           /\ ops[i].request = file.public[ops[i].name].request
  BY <1>3, ClientOperations
<1>5. DOMAIN ops # {}
  BY HasOperations
<1>6. res = ResolveByPath(models, ops, r)
  BY <1>5 DEF Resolve
<1>7. DOMAIN ops \subseteq DOMAIN OpOrder
  BY <1>4 DEF ClientOps
<1> HIDE DEF ops, models, res, bundle
<1>8. FromPaths(res, ops, models)
  BY <1>1, <1>4, <1>6, ResolvedByPath
<1>9. path \in Seq(Segment) /\ OthersElsewhere(res, ops, path)
  BY <1>4, <1>8 DEF FromPaths, ClientOps
<1>10. ASSUME res.createOp # NoOp PROVE OpsInRole(bundle, "create") # {}
  <2>1. /\ collection # << >>
        /\ res.createOp = Pick(ops, AtPath(ops, "POST", collection))
    BY <1>8, <1>10 DEF FromPaths
  <2>2. Len(path) > 1 /\ collection = Front(path)
    BY <2>1 DEF CollectionPath
  <2>3. AtPath(ops, "POST", collection) \in SUBSET DOMAIN ops
    BY DEF AtPath
  <2>4. PICK k \in AtPath(ops, "POST", collection) : res.createOp = ops[k]
    BY <1>4, <1>10, <2>1, <2>3, PickIsOne
  <2>5. k \in DOMAIN ops /\ ops[k].verb = "POST" /\ ops[k].path = Front(path)
    BY <2>2, <2>4 DEF AtPath
  <2>6. /\ ops[k].name \in DOMAIN OperationMap(res)
        /\ OperationMap(res)[ops[k].name] = "create"
    <3>1. ClientOps(ops) /\ res.createOp = ops[k] /\ Len(path) > 1
      BY <1>4, <2>2, <2>4
    <3> HIDE DEF path, file
    <3> QED
      BY <1>9, <2>5, <3>1, CreateIsListed
  <2> QED
    BY <1>2, <2>6 DEF OpsInRole
<1>11. ASSUME res.updateOp # NoOp PROVE OpsInRole(bundle, "update") # {}
  <2>1. ClientOps(ops)
    BY <1>4
  <2>2. /\ res.updateOp.name \in DOMAIN OperationMap(res)
        /\ OperationMap(res)[res.updateOp.name] = "update"
    <3> HIDE DEF path, file
    <3> QED
      BY <1>9, <1>11, <2>1, UpdateIsListed
  <2> QED
    BY <1>2, <2>2 DEF OpsInRole
<1>12. ASSUME NEW f, ActionModel(res, f) # NoName
       PROVE  OperationOf[ActionModel(res, f)] \in OpsInRole(bundle, "action")
  <2> DEFINE setting == {i \in DOMAIN res.actions :
                           /\ res.actions[i].model.name \in ChangeNamed
                           /\ f \in DOMAIN res.actions[i].model.fields}
             m == Min(setting)
  <2>1. setting # {} /\ ActionModel(res, f) = res.actions[m].model.name
    BY <1>12 DEF ActionModel
  <2>2. setting \in SUBSET Nat
    BY <1>7, <1>9, Names DEF OthersElsewhere
  <2>3. m \in setting
    <3> HIDE DEF setting
    <3> QED
      BY <2>1, <2>2, MinIsLeast
  <2>4. /\ m \in DOMAIN res.actions /\ m \in DOMAIN ops /\ res.actions[m].op = ops[m]
        /\ res.actions[m].model.name \in ChangeNamed
        /\ res.actions[m].model = RequestBodyModel(ops[m], models)
    BY <1>8, <2>3 DEF FromPaths, OthersElsewhere
  <2> HIDE DEF m
  <2> DEFINE model == res.actions[m].model
             n == ops[m].name
  <2>5. n \in DOMAIN file.public /\ ops[m].request = file.public[n].request
    BY <1>4, <2>4
  <2>6. NamedByRequest(model.name, ops[m].request, Sdk[v])
    <3>1. model.name # NoName
      BY <1>12, <2>1
    <3>2. model = RequestBodyModel(ops[m], ExtractFile(Sdk[v], Supplied[r]))
      BY <2>4 DEF models
    <3> HIDE DEF model
    <3> QED
      BY <1>1, <3>1, <3>2, ModelIsNamed
  <2>7. OperationOf[model.name] = n
    <3>1. model.name \in ChangeNamed
      BY <2>4
    <3> HIDE DEF model, n
    <3>2. LET q == file.public[n].request
              decl == Sdk[v].decl
          IN  q # NoName =>
                /\ DetailsOf[q] \in ChangeNamed => OperationOf[DetailsOf[q]] = n
                /\ q \in DOMAIN decl /\ decl[q].body \in ChangeNamed => OperationOf[decl[q].body] = n
      BY <1>3, <2>5 DEF ActionModelsAreNamed
    <3> QED
      BY <2>5, <2>6, <3>1, <3>2 DEF NamedByRequest
  <2>8. n # NoName
    BY <1>4, <2>4, Names DEF ClientOps
  <2>9. n \in DOMAIN OperationMap(res) /\ OperationMap(res)[n] = "action"
    BY <2>4, <2>8 DEF OperationMap
  <2> QED
    BY <1>2, <2>1, <2>7, <2>9 DEF OpsInRole
<1>13. ASSUME NEW f \in DOMAIN bundle.config
       PROVE  LET policy == bundle.config[f].policy
              IN  /\ policy \in {"mutable", "create-only", "input-only", "action-managed"}
                  /\ policy = "mutable" => OpsInRole(bundle, "update") # {}
                  /\ policy \in {"create-only", "input-only"} => OpsInRole(bundle, "create") # {}
                  /\ policy = "action-managed" =>
                       OperationOf[bundle.config[f].action] \in OpsInRole(bundle, "action")
  <2> DEFINE policy == FieldPolicy(res, f)
  <2>1. /\ policy \in {"mutable", "create-only", "input-only", "action-managed"}
        /\ policy = "mutable" => f \in DOMAIN res.update.fields
        /\ policy \in {"create-only", "input-only"} => f \in DOMAIN res.create.fields
        /\ policy = "action-managed" => ActionModel(res, f) # NoName
    BY <1>2 DEF FieldPolicy
  <2>2. f \in DOMAIN res.update.fields => res.updateOp # NoOp
    BY <1>8, NoOpSendsNothing DEF FromPaths
  <2>3. f \in DOMAIN res.create.fields => res.createOp # NoOp
    BY <1>8, NoOpSendsNothing DEF FromPaths
  <2> HIDE DEF policy
  <2>4. bundle.config[f].policy = policy
        /\ (policy = "action-managed" => bundle.config[f].action = ActionModel(res, f))
    BY <1>2 DEF policy
  <2>5. policy = "action-managed" =>
          OperationOf[bundle.config[f].action] \in OpsInRole(bundle, "action")
    BY <1>12, <2>1, <2>4
  <2>6. /\ policy = "mutable" => OpsInRole(bundle, "update") # {}
        /\ policy \in {"create-only", "input-only"} => OpsInRole(bundle, "create") # {}
    BY <1>10, <1>11, <2>1, <2>2, <2>3
  <2> QED
    BY <2>1, <2>4, <2>5, <2>6
<1>14. ASSUME NEW o \in DOMAIN bundle.operations
       PROVE  o # NoName /\ \A role \in DOMAIN Unnamed : Unnamed[role] # o
  <2>1. o \in DOMAIN OperationMap(res) /\ o # NoName
    BY <1>2, RolesAreListed
  <2>2. \E i \in DOMAIN ops : ops[i].name = o
    <3>1. o \in {res.readOp.name, res.createOp.name, res.updateOp.name, res.deleteOp.name}
                  \cup {res.actions[a].op.name : a \in DOMAIN res.actions}
      BY <2>1 DEF OperationMap
    <3>2. CASE o \in {res.readOp.name, res.updateOp.name}
      BY <1>8, <1>9, <2>1, <3>2, NoOpIsUnnamed DEF FromPaths, OthersElsewhere
    <3>3. CASE o = res.deleteOp.name
      BY <1>9, <2>1, <3>3, NoOpIsUnnamed DEF OthersElsewhere, AtPath
    <3>4. CASE o = res.createOp.name
      <4>1. AtPath(ops, "POST", collection) \in SUBSET DOMAIN ops
        BY DEF AtPath
      <4>2. res.createOp = NoOp \/ res.createOp = Pick(ops, AtPath(ops, "POST", collection))
        BY <1>8 DEF FromPaths
      <4> QED
        BY <1>4, <2>1, <3>4, <4>1, <4>2, NoOpIsUnnamed, PickIsOne
    <3>5. CASE o \in {res.actions[a].op.name : a \in DOMAIN res.actions}
      BY <1>9, <3>5 DEF OthersElsewhere
    <3> QED
      BY <3>1, <3>2, <3>3, <3>4, <3>5
  <2>3. o \in Range(OpOrder)
    BY <1>4, <1>7, <2>2 DEF ClientOps, Range
  <2> QED
    BY <2>1, <2>3, StandInAssumption
<1>15. \A role \in DOMAIN Unnamed : \A o, p \in OpsInRole(bundle, role) : o = p
  <2>1. DOMAIN Unnamed = {"read", "create", "update", "delete"}
    BY DEF Unnamed
  <2>2. ASSUME NEW role \in DOMAIN Unnamed, NEW o \in OpsInRole(bundle, role),
               NEW p \in OpsInRole(bundle, role)
        PROVE  o = p
    <3>1. /\ o \in DOMAIN OperationMap(res) /\ OperationMap(res)[o] = role
          /\ p \in DOMAIN OperationMap(res) /\ OperationMap(res)[p] = role
      BY <1>2 DEF OpsInRole
    <3> QED
      BY <2>1, <3>1, RolesAreListed
  <2> QED
    BY <2>2
<1> QED
  BY <1>13, <1>14, <1>15 DEF Plannable, bundle

-----------------------------------------------------------------------------
(* The planner for a contract.  The facts about module ResourceContract    *)
(* that module PlanningProofs has are of its constants; here the contract  *)
(* is a parameter of the instance, whose definitions are unfolded one      *)
(* after the other.                                                        *)

\* What differs, and the operation with a role, outside the instance.
Differing(contract, d, o) == {f \in DOMAIN contract.fields : d[f] # Absent /\ d[f] # o[f]}

OpFor(contract, role) == CHOOSE o \in DOMAIN RoleOf(contract) : RoleOf(contract)[o] = role

Managed(contract, changed) ==
  {f \in changed : /\ contract.fields[f].policy = "action-managed"
                   /\ contract.fields[f].action # NoName}

PlaceOf(f) == CHOOSE i \in DOMAIN FieldNames : FieldNames[i] = f

PlacesIn(fields) == [f \in fields |-> PlaceOf(f)]

LEMMA PlannerChanged ==
  ASSUME NEW contract, NEW d, NEW o
  PROVE  Planner(contract)!Changed(d, o) = Differing(contract, d, o)
BY SMT DEF Planner!Changed, Differing

LEMMA PlannerOpFor ==
  ASSUME NEW contract, NEW role
  PROVE  Planner(contract)!OpByRole(role) = OpFor(contract, role)
BY SMT DEF Planner!OpByRole, OpFor

LEMMA PlannerPolicyOp ==
  ASSUME NEW contract, NEW p
  PROVE  /\ p = "mutable" => Planner(contract)!PolicyOp(p) = "update"
         /\ p = "action-managed" => Planner(contract)!PolicyOp(p) = "action"
         /\ p \in {"create-only", "input-only"} => Planner(contract)!PolicyOp(p) = "replace"
BY SMT DEF Planner!PolicyOp

\* The instance counts as FiniteSets does.
LEMMA PlannerCounts ==
  ASSUME NEW contract, NEW S
  PROVE  Planner(contract)!Cardinality(S) = Cardinality(S)
BY SMT DEF Planner!Cardinality, Cardinality

LEMMA PlannerPlace ==
  ASSUME NEW contract, NEW fields, NEW f \in fields
  PROVE  Planner(contract)!Place(f, fields) = CountBefore(f, fields, PlacesIn(fields))
<1>1. \A g : Planner(contract)!Position(g) = PlaceOf(g)
  BY SMT DEF Planner!Position, PlaceOf
<1>2. Planner(contract)!Place(f, fields) = Cardinality({g \in fields : PlaceOf(g) < PlaceOf(f)})
  <2>1. {g \in fields : Planner(contract)!Position(g) < Planner(contract)!Position(f)}
          = {g \in fields : PlaceOf(g) < PlaceOf(f)}
    BY <1>1, SMT
  <2> QED
    BY <2>1, PlannerCounts, SMT DEF Planner!Place
<1>3. {g \in fields : PlaceOf(g) < PlaceOf(f)}
        = {g \in fields : PlacesIn(fields)[g] < PlacesIn(fields)[f]}
  BY SMT DEF PlacesIn
<1> QED
  BY <1>2, <1>3, SMT DEF CountBefore

\* The fields of the contract have places in the string order.
OrderedFields(contract) ==
  \A f \in DOMAIN contract.fields : \E i \in DOMAIN FieldNames :
    \A j \in DOMAIN FieldNames : FieldNames[j] = f <=> j = i

LEMMA PlacesDiffer ==
  ASSUME NEW fields,
         \A f \in fields : \E i \in DOMAIN FieldNames :
           \A j \in DOMAIN FieldNames : FieldNames[j] = f <=> j = i
  PROVE  /\ IsFiniteSet(fields) /\ PlacesIn(fields) \in [fields -> Nat]
         /\ \A f, g \in fields : PlacesIn(fields)[f] = PlacesIn(fields)[g] => f = g
<1>1. \A f \in fields : /\ PlaceOf(f) \in 1 .. Len(FieldNames)
                        /\ FieldNames[PlaceOf(f)] = f
  <2> SUFFICES ASSUME NEW f \in fields
               PROVE  PlaceOf(f) \in 1 .. Len(FieldNames) /\ FieldNames[PlaceOf(f)] = f
    OBVIOUS
  <2>1. DOMAIN FieldNames = 1 .. Len(FieldNames)
    BY NamesAssumption
  <2>2. \E i \in DOMAIN FieldNames : FieldNames[i] = f
    OBVIOUS
  <2> QED
    BY <2>1, <2>2 DEF PlaceOf
<1>2. Len(FieldNames) \in Nat
  BY NamesAssumption
<1> DEFINE number == PlacesIn(fields)
<1>3. number \in [fields -> 1 .. Len(FieldNames)] /\ \A f \in fields : FieldNames[number[f]] = f
  BY <1>1 DEF PlacesIn
<1>4. \A f, g \in fields : number[f] = number[g] => f = g
  BY <1>3
<1>5. number \in Injection(fields, 1 .. Len(FieldNames))
  BY <1>3, <1>4 DEF Injection, IsInjective
<1>6. IsFiniteSet(fields)
  BY <1>2, <1>5, FS_Interval, FS_Injection
<1>7. number \in [fields -> Nat]
  BY <1>2, <1>3
<1> QED
  BY <1>4, <1>6, <1>7

LEMMA PlannerActions ==
  ASSUME NEW contract, OrderedFields(contract), NEW changed \in SUBSET DOMAIN contract.fields
  PROVE  LET actions == Planner(contract)!ActionOps(changed)
             moved == Managed(contract, changed)
         IN  /\ actions \in Seq({contract.fields[f].action : f \in moved})
             /\ \A f \in moved : \E i \in DOMAIN actions : actions[i] = contract.fields[f].action
<1> DEFINE moved == Managed(contract, changed)
           n == Cardinality(moved)
           nth(k) == CHOOSE f \in moved : Planner(contract)!Place(f, moved) = k - 1
           actions == Planner(contract)!ActionOps(changed)
           place == [f \in moved |-> CountBefore(f, moved, PlacesIn(moved))]
<1>1. Planner(contract)!Moved(changed) = moved
  BY SMT DEF Planner!Moved, Managed
<1>2. moved \in SUBSET DOMAIN contract.fields
  BY SMT DEF Managed
<1> HIDE DEF moved
<1>3. \A f \in moved : Planner(contract)!Place(f, moved) = place[f]
  BY PlannerPlace, SMT
<1>4. actions = [k \in 1 .. n |->
                   [f \in DOMAIN contract.fields |-> contract.fields[f].action][nth(k)]]
  BY <1>1, PlannerCounts, SMT DEF Planner!ActionOps
<1>5. /\ n \in Nat
      /\ \A f \in moved : place[f] \in 0 .. (n - 1)
      /\ \A f, g \in moved : place[f] = place[g] => f = g
      /\ \A k \in 1 .. n : \E f \in moved : place[f] = k - 1
  <2>1. /\ IsFiniteSet(moved) /\ PlacesIn(moved) \in [moved -> Nat]
        /\ \A f, g \in moved : PlacesIn(moved)[f] = PlacesIn(moved)[g] => f = g
    BY <1>2, PlacesDiffer, SMT DEF OrderedFields
  <2> DEFINE position == PlacesIn(moved)
             count(f) == CountBefore(f, moved, position)
  <2> HIDE DEF position
  <2>2. /\ n \in Nat
        /\ \A f \in moved : count(f) \in 0 .. (n - 1)
        /\ \A f, g \in moved : count(f) = count(g) => f = g
        /\ \A k \in 1 .. n : \E f \in moved : count(f) = k - 1
    BY <2>1, PlacesAreNumbered, Zenon DEF position
  <2> HIDE DEF count
  <2>3. place = [f \in moved |-> count(f)]
    BY SMT DEF count, position
  <2> HIDE DEF place
  <2> QED
    BY <2>2, <2>3, SMT
<1> HIDE DEF n, place, actions
<1>6. \A k \in 1 .. n : nth(k) \in moved /\ place[nth(k)] = k - 1
  BY <1>3, <1>5, SMT
<1> HIDE DEF nth
<1>7. actions = [k \in 1 .. n |-> contract.fields[nth(k)].action]
  BY <1>2, <1>4, <1>6, SMT
<1>8. actions \in Seq({contract.fields[f].action : f \in moved})
  BY <1>5, <1>6, <1>7, SMT
<1>9. ASSUME NEW f \in moved
      PROVE  \E i \in DOMAIN actions : actions[i] = contract.fields[f].action
  <2> DEFINE i == place[f] + 1
  <2>1. i \in 1 .. n /\ place[f] = i - 1
    BY <1>5, SMT
  <2>2. nth(i) = f
    BY <1>5, <1>6, <2>1, SMT
  <2> QED
    BY <1>7, <2>1, <2>2, SMT
<1> QED
  BY <1>8, <1>9, SMT DEF moved, actions

LEMMA PlannerBody ==
  ASSUME NEW contract, NEW op
  PROVE  LET role == RoleOf(contract)[op]
             body == Planner(contract)!BodyFields(op)
         IN  /\ role = "create" => body = DOMAIN contract.fields
             /\ role = "update" => body = {f \in DOMAIN contract.fields : contract.fields[f].policy = "mutable"}
             /\ role = "action" => body = {f \in DOMAIN contract.fields :
                   contract.fields[f].policy = "action-managed" /\ contract.fields[f].action = op}
BY SMT DEF Planner!BodyFields


\* What differs forces an operation at least as disruptive as its policy says.
LEMMA PlannerOperation ==
  ASSUME NEW contract, NEW d, NEW o,
         \A f \in DOMAIN contract.fields : contract.fields[f].policy \in
           {"mutable", "create-only", "input-only", "action-managed"}
  PROVE  LET op == Planner(contract)!PlanOperation(d, o)
             changed == Differing(contract, d, o)
         IN  /\ op \in {"noop", "update", "action", "replace"}
             /\ op = "noop" => changed = {}
             /\ op = "replace" <=>
                  \E f \in changed : contract.fields[f].policy \in {"create-only", "input-only"}
<1> DEFINE changed == Differing(contract, d, o)
           policies == [f \in DOMAIN contract.fields |-> contract.fields[f].policy]
           forcedBy(f) == Planner(contract)!PolicyOp(policies[f])
           forced == {"noop"} \cup {forcedBy(f) : f \in Planner(contract)!Changed(d, o)}
           rank == Planner(contract)!Rank
           best(op) == op \in forced /\ \A other \in forced : rank[other] <= rank[op]
           op == Planner(contract)!PlanOperation(d, o)
<1>1. op = CHOOSE p \in forced : \A other \in forced : rank[other] <= rank[p]
  BY SMT DEF Planner!PlanOperation
<1>2. changed = Planner(contract)!Changed(d, o) /\ changed \in SUBSET DOMAIN contract.fields
  BY PlannerChanged, SMT DEF Differing
<1>3. /\ policies \in [DOMAIN contract.fields ->
                         {"mutable", "create-only", "input-only", "action-managed"}]
      /\ \A f \in DOMAIN contract.fields : policies[f] = contract.fields[f].policy
  OBVIOUS
<1>4. rank["noop"] = 0 /\ rank["update"] = 1 /\ rank["action"] = 2 /\ rank["replace"] = 3
  BY SMT DEF Planner!Rank
<1> HIDE DEF op, policies, rank, changed
<1>5. \A f \in changed :
        /\ forcedBy(f) \in {"update", "action", "replace"}
        /\ forcedBy(f) = "replace" <=> policies[f] \in {"create-only", "input-only"}
  BY <1>2, <1>3, PlannerPolicyOp, SMT
<1>6. /\ "noop" \in forced /\ \A p \in forced : p \in {"noop", "update", "action", "replace"}
      /\ \A p \in forced : p # "noop" => \E f \in changed : p = forcedBy(f)
      /\ \A f \in changed : forcedBy(f) \in forced
  BY <1>2, <1>5, SMT
<1> HIDE DEF forced, forcedBy
<1>7. \E p : best(p)
  <2>1. CASE "replace" \in forced
    BY <1>6, <1>4, <2>1
  <2>2. CASE "replace" \notin forced /\ "action" \in forced
    BY <1>6, <1>4, <2>2
  <2>3. CASE "replace" \notin forced /\ "action" \notin forced /\ "update" \in forced
    BY <1>6, <1>4, <2>3
  <2>4. CASE "replace" \notin forced /\ "action" \notin forced /\ "update" \notin forced
    BY <1>6, <1>4, <2>4
  <2> QED
    BY <2>1, <2>2, <2>3, <2>4
<1>8. op \in forced /\ \A other \in forced : rank[other] <= rank[op]
  BY <1>1, <1>7
<1>9. op \in {"noop", "update", "action", "replace"}
  BY <1>6, <1>8
<1>10. op = "noop" => changed = {}
  <2>1. ASSUME op = "noop", NEW f \in changed PROVE FALSE
    <3>1. forcedBy(f) \in forced /\ rank[forcedBy(f)] <= 0
      BY <1>6, <1>4, <1>8, <2>1
    <3> QED
      BY <1>5, <1>4, <3>1
  <2> QED
    BY <2>1
<1>11. ASSUME NEW f \in changed, policies[f] \in {"create-only", "input-only"}
       PROVE  op = "replace"
  <2>1. "replace" \in forced
    BY <1>5, <1>6, <1>11
  <2>2. 3 <= rank[op]
    BY <1>4, <1>8, <2>1
  <2> QED
    BY <1>4, <1>9, <2>2
<1>12. ASSUME op = "replace"
       PROVE  \E f \in changed : policies[f] \in {"create-only", "input-only"}
  <2>1. PICK f \in changed : op = forcedBy(f)
    BY <1>6, <1>8, <1>12
  <2> QED
    BY <1>5, <1>12, <2>1
<1>13. \A f \in changed : policies[f] = contract.fields[f].policy
  BY <1>2, <1>3
<1> QED
  BY <1>9, <1>10, <1>11, <1>12, <1>13, SMT DEF op, changed

\* Every role has an operation, that of the contract if it has one.
LEMMA RolesHaveOps ==
  ASSUME NEW contract, NEW role \in DOMAIN Unnamed,
         \A o \in DOMAIN contract.operations :
           \A other \in DOMAIN Unnamed : Unnamed[other] # o
  PROVE  LET o == OpFor(contract, role)
         IN  /\ o \in DOMAIN RoleOf(contract) /\ RoleOf(contract)[o] = role
             /\ o \in DOMAIN contract.operations \/ o = Unnamed[role]
             /\ OpsInRole(contract, role) # {} => o \in DOMAIN contract.operations
<1> DEFINE ops == contract.operations
           roles == RoleOf(contract)
           o == OpFor(contract, role)
<1>1. \A p, q \in DOMAIN Unnamed : Unnamed[p] = Unnamed[q] => p = q
  <2>1. /\ DOMAIN Unnamed = {"read", "create", "update", "delete"}
        /\ Unnamed["read"] = "no read" /\ Unnamed["create"] = "no create"
        /\ Unnamed["update"] = "no update" /\ Unnamed["delete"] = "no delete"
    BY DEF Unnamed
  <2> QED
    BY <2>1
<1>2. /\ DOMAIN roles = DOMAIN ops \cup {Unnamed[p] : p \in Lacking(contract)}
      /\ \A p \in DOMAIN ops : roles[p] = ops[p]
  BY DEF RoleOf
<1>3. Lacking(contract) \in SUBSET DOMAIN Unnamed
  BY DEF Lacking
<1>4. ASSUME NEW q \in Lacking(contract)
      PROVE  Unnamed[q] \in DOMAIN roles /\ roles[Unnamed[q]] = q
  <2>1. Unnamed[q] \in DOMAIN roles /\ Unnamed[q] \notin DOMAIN ops
    BY <1>2, <1>3
  <2>2. roles[Unnamed[q]] = CHOOSE p \in Lacking(contract) : Unnamed[p] = Unnamed[q]
    BY <2>1 DEF RoleOf
  <2> HIDE DEF roles
  <2> QED
    BY <1>1, <1>3, <2>1, <2>2
<1>5. role \in Lacking(contract) \/ \E p \in DOMAIN ops : ops[p] = role
  BY DEF Lacking
<1>6. \E p \in DOMAIN roles : roles[p] = role
  BY <1>2, <1>4, <1>5
<1> HIDE DEF roles
<1>7. o \in DOMAIN roles /\ roles[o] = role
  BY <1>6 DEF OpFor, roles
<1>8. ASSUME o \notin DOMAIN ops PROVE role \in Lacking(contract) /\ o = Unnamed[role]
  BY <1>2, <1>4, <1>7, <1>8
<1>9. role \in Lacking(contract) => OpsInRole(contract, role) = {}
  BY DEF Lacking, OpsInRole
<1> QED
  BY <1>7, <1>8, <1>9 DEF roles

-----------------------------------------------------------------------------

\* What the planner relies on, of a contract.
PlannableContract(contract) ==
  /\ OrderedFields(contract)
  /\ \A f \in DOMAIN contract.fields :
       LET policy == contract.fields[f].policy
       IN  /\ policy \in {"mutable", "create-only", "input-only", "action-managed"}
           /\ policy = "mutable" => OpsInRole(contract, "update") # {}
           /\ policy \in {"create-only", "input-only"} => OpsInRole(contract, "create") # {}
           /\ policy = "action-managed" =>
                contract.fields[f].action \in OpsInRole(contract, "action")
  /\ \A o \in DOMAIN contract.operations :
       o # NoName /\ \A role \in DOMAIN Unnamed : Unnamed[role] # o

\* What AdmittedIsPlannable asks of one plan.
GoodPlan(contract, d, o, ops) ==
  /\ \A i \in DOMAIN ops : ops[i] \in DOMAIN contract.operations \/ ops[i] = Unnamed["delete"]
  /\ \A f \in Differing(contract, d, o) : \E i \in DOMAIN ops :
       /\ ops[i] \in DOMAIN RoleOf(contract)
       /\ f \in Planner(contract)!BodyFields(ops[i])

UpdateOf(contract, changed) ==
  IF \E f \in changed : contract.fields[f].policy = "mutable"
    THEN <<OpFor(contract, "update")>> ELSE << >>

\* The operations of a plan, given those of its action fields.
PlannedFor(contract, op, changed, actions, ops) ==
  /\ op = "noop" => ops = << >>
  /\ op = "replace" => ops = <<OpFor(contract, "delete"), OpFor(contract, "create")>>
  /\ op \in {"update", "action"} => ops = UpdateOf(contract, changed) \o actions

LEMMA PlannerOps ==
  ASSUME NEW contract, NEW changed \in SUBSET DOMAIN contract.fields, NEW op
  PROVE  PlannedFor(contract, op, changed, Planner(contract)!ActionOps(changed),
                    Planner(contract)!ProviderOps(op, changed))
<1> DEFINE policies == [f \in DOMAIN contract.fields |-> contract.fields[f].policy]
           update == IF \E f \in changed : policies[f] = "mutable"
                       THEN <<Planner(contract)!OpByRole("update")>> ELSE << >>
           actions == Planner(contract)!ActionOps(changed)
           replacement == <<Planner(contract)!OpByRole("delete"),
                            Planner(contract)!OpByRole("create")>>
           ops == Planner(contract)!ProviderOps(op, changed)
<1>1. update = UpdateOf(contract, changed)
  <2>1. (\E f \in changed : policies[f] = "mutable")
          <=> (\E f \in changed : contract.fields[f].policy = "mutable")
    <3>1. \A f \in changed : policies[f] = contract.fields[f].policy
      BY SMT
    <3> HIDE DEF policies
    <3> QED
      BY <3>1, SMT
  <2>2. <<Planner(contract)!OpByRole("update")>> = <<OpFor(contract, "update")>>
    BY PlannerOpFor, SMT
  <2> HIDE DEF policies
  <2> QED
    BY <2>1, <2>2, SMT DEF UpdateOf
<1>2. replacement = <<OpFor(contract, "delete"), OpFor(contract, "create")>>
  BY PlannerOpFor, SMT
<1>3. ops = CASE op = "noop"    -> << >>
              [] op = "replace" -> replacement
              [] OTHER          -> update \o actions
  BY SMT DEF Planner!ProviderOps
<1> HIDE DEF ops, update, actions, replacement
<1> QED
  BY <1>1, <1>2, <1>3, SMT DEF PlannedFor, actions, ops

LEMMA PlannablePlans ==
  ASSUME NEW contract, PlannableContract(contract), NEW d, NEW o
  PROVE  GoodPlan(contract, d, o, Planner(contract)!PlanOps(d, o))
<1> DEFINE changed == Differing(contract, d, o)
           policy(f) == contract.fields[f].policy
           action(f) == contract.fields[f].action
           op == Planner(contract)!PlanOperation(d, o)
           ops == Planner(contract)!PlanOps(d, o)
           update == UpdateOf(contract, changed)
           actions == Planner(contract)!ActionOps(changed)
           moved == Managed(contract, changed)
           body(p) == Planner(contract)!BodyFields(p)
           named == DOMAIN contract.operations
           roles == RoleOf(contract)
<1>1. /\ op \in {"noop", "update", "action", "replace"}
      /\ op = "noop" => changed = {}
      /\ op = "replace" <=> \E f \in changed : policy(f) \in {"create-only", "input-only"}
  BY PlannerOperation, SMT DEF PlannableContract
<1>2. changed = Planner(contract)!Changed(d, o) /\ changed \in SUBSET DOMAIN contract.fields
  BY PlannerChanged, SMT DEF Differing
<1>3. \A role \in DOMAIN Unnamed :
        LET p == OpFor(contract, role)
        IN  /\ p \in DOMAIN roles /\ roles[p] = role
            /\ p \in named \/ p = Unnamed[role]
            /\ OpsInRole(contract, role) # {} => p \in named
  BY RolesHaveOps DEF PlannableContract
<1>4. {"create", "update", "delete"} \in SUBSET DOMAIN Unnamed
  BY DEF Unnamed
<1> HIDE DEF op, changed, roles, actions
<1>5. PlannedFor(contract, op, changed, actions, ops)
  <2>1. ops = Planner(contract)!ProviderOps(op, changed)
    BY <1>2, SMT DEF Planner!PlanOps, op
  <2> HIDE DEF ops
  <2> QED
    BY <1>2, <2>1, PlannerOps, SMT DEF actions
<1> DEFINE bodies == [p \in DOMAIN roles |-> body(p)]
<1>6. \A p \in DOMAIN roles :
        /\ bodies[p] = body(p)
        /\ roles[p] = "create" => bodies[p] = DOMAIN contract.fields
        /\ roles[p] = "update" => \A f \in DOMAIN contract.fields : policy(f) = "mutable" => f \in bodies[p]
        /\ roles[p] = "action" => \A f \in DOMAIN contract.fields :
             policy(f) = "action-managed" /\ action(f) = p => f \in bodies[p]
  BY PlannerBody, SMT DEF roles
<1>7. \A p \in named : p \in DOMAIN roles /\ roles[p] = contract.operations[p] /\ p # NoName
  BY DEF PlannableContract, RoleOf, roles
<1>8. /\ actions \in Seq({action(f) : f \in moved})
      /\ \A f \in moved : \E i \in DOMAIN actions : actions[i] = action(f)
  BY <1>2, PlannerActions, SMT DEF PlannableContract, actions
<1> HIDE DEF ops, bodies
<1> SUFFICES /\ \A i \in DOMAIN ops : ops[i] \in named \/ ops[i] = Unnamed["delete"]
             /\ \A f \in changed : \E i \in DOMAIN ops :
                  ops[i] \in DOMAIN roles /\ f \in bodies[ops[i]]
  BY <1>6, SMT DEF GoodPlan, ops, changed, roles
<1>9. CASE op = "noop"
  BY <1>1, <1>5, <1>9 DEF PlannedFor
<1>10. CASE op = "replace"
  <2> DEFINE del == OpFor(contract, "delete")
             cre == OpFor(contract, "create")
  <2>1. ops = <<del, cre>>
    BY <1>5, <1>10 DEF PlannedFor
  <2>2. OpsInRole(contract, "create") # {}
    BY <1>1, <1>2, <1>10 DEF PlannableContract
  <2>3. /\ cre \in named /\ cre \in DOMAIN roles /\ roles[cre] = "create"
        /\ del \in named \/ del = Unnamed["delete"]
    BY <1>3, <1>4, <2>2
  <2>4. bodies[cre] = DOMAIN contract.fields
    BY <1>6, <2>3
  <2> HIDE DEF del, cre
  <2>5. DOMAIN ops = {1, 2} /\ ops[1] = del /\ ops[2] = cre
    BY <2>1
  <2> QED
    BY <1>2, <2>3, <2>4, <2>5
<1>11. CASE op \in {"update", "action"}
  <2> DEFINE upd == OpFor(contract, "update")
  <2>1. ops = update \o actions
    BY <1>5, <1>11 DEF PlannedFor
  <2>2. \A f \in changed : policy(f) \in {"mutable", "action-managed"}
    BY <1>1, <1>2, <1>11 DEF PlannableContract
  <2>3. \A f \in changed : policy(f) = "mutable" =>
          upd \in named /\ roles[upd] = "update" /\ update = <<upd>>
    BY <1>2, <1>3, <1>4 DEF PlannableContract, UpdateOf
  <2>4. (\A f \in changed : policy(f) # "mutable") => update = << >>
    BY DEF UpdateOf
  <2>5. \A f \in moved : action(f) \in named /\ roles[action(f)] = "action"
    BY <1>2, <1>7 DEF PlannableContract, Managed, OpsInRole
  <2>6. \A f \in changed : policy(f) = "action-managed" => f \in moved
    BY <1>2, <1>7 DEF PlannableContract, Managed, OpsInRole
  <2> HIDE DEF upd, update, moved
  <2>7. update \in Seq(named)
    <3> HIDE DEF named, policy
    <3>1. CASE \E f \in changed : policy(f) = "mutable"
      <4>1. update = <<upd>> /\ upd \in named
        BY <2>3, <3>1
      <4> QED
        BY <4>1
    <3>2. CASE \A f \in changed : policy(f) # "mutable"
      <4>1. update = << >>
        BY <2>4, <3>2
      <4> QED
        BY <4>1
    <3> QED
      BY <3>1, <3>2
  <2>8. actions \in Seq(named)
    BY <1>8, <2>5
  <2>9. \A i \in DOMAIN ops : ops[i] \in named
    BY <2>1, <2>7, <2>8
  <2>10. ASSUME NEW f \in changed, policy(f) = "mutable"
         PROVE  \E i \in DOMAIN ops : ops[i] \in DOMAIN roles /\ f \in bodies[ops[i]]
    <3>1. update = <<upd>> /\ upd \in named /\ upd \in DOMAIN roles /\ f \in bodies[upd]
      BY <1>2, <1>6, <1>7, <2>3, <2>10
    <3>2. 1 \in DOMAIN ops /\ ops[1] = upd
      BY <2>1, <2>8, <3>1
    <3> QED
      BY <3>1, <3>2
  <2>11. ASSUME NEW f \in changed, policy(f) = "action-managed"
         PROVE  \E i \in DOMAIN ops : ops[i] \in DOMAIN roles /\ f \in bodies[ops[i]]
    <3>1. PICK i \in DOMAIN actions : actions[i] = action(f)
      BY <1>8, <2>6, <2>11
    <3>2. /\ action(f) \in DOMAIN roles /\ f \in bodies[action(f)]
      BY <1>2, <1>6, <1>7, <2>5, <2>6, <2>11
    <3>3. Len(update) + i \in DOMAIN ops /\ ops[Len(update) + i] = actions[i]
      BY <2>1, <2>7, <2>8, <3>1
    <3> QED
      BY <3>1, <3>2, <3>3
  <2> QED
    BY <2>2, <2>9, <2>10, <2>11
<1> QED
  BY <1>1, <1>9, <1>10, <1>11

-----------------------------------------------------------------------------
(* The theorems about plans. *)

LEMMA ContractIsPlannable ==
  ASSUME NEW bundle, Plannable(bundle),
         \A f \in DOMAIN bundle.config : \E i \in DOMAIN FieldNames :
           \A j \in DOMAIN FieldNames : FieldNames[j] = f <=> j = i
  PROVE  PlannableContract(ContractOf(bundle))
<1> DEFINE contract == ContractOf(bundle)
<1>1. /\ DOMAIN contract.fields = DOMAIN bundle.config
      /\ contract.operations = bundle.operations
      /\ \A f \in DOMAIN contract.fields :
           /\ contract.fields[f].policy = bundle.config[f].policy
           /\ contract.fields[f].action = OperationOf[bundle.config[f].action]
  BY DEF ContractOf
<1>2. \A role : OpsInRole(contract, role) = OpsInRole(bundle, role)
  BY <1>1 DEF OpsInRole
<1> HIDE DEF contract
<1>3. OrderedFields(contract)
  BY <1>1 DEF OrderedFields
<1> QED
  BY <1>1, <1>2, <1>3 DEF Plannable, PlannableContract, contract

PinnedIsPlannable == \A r \in Resource : Plannable(pinned[r])

\* What the guest embeds, the planner can plan with (ResourceSchemasFrom in
\* schema.go, planProviderOps and opByRole in provider.go): the operation that a
\* policy calls for is in the bundle, and no lifecycle role has two.
THEOREM PinnedArePlannable ==
  ASSUME ClientsHaveMethods, ActionModelsAreNamed
  PROVE  Spec => []PinnedIsPlannable
<1>1. IInv /\ Provenance => PinnedIsPlannable
  <2> SUFFICES ASSUME IInv, Provenance, NEW r \in Resource
               PROVE  Plannable(pinned[r])
    BY DEF PinnedIsPlannable
  <2>1. /\ source \in Version /\ Audited[source] = 0 /\ Extracted[source][r].exit = 0
        /\ pinned[r] = Extracted[source][r].bundle
    BY DEF IInv, TypeOK, Provenance, Usable
  <2> QED
    BY <2>1, ExtractedIsPlannable
<1> QED
  BY <1>1, Invariance, PinnedFromOneRevision, PTL

LEMMA PlansAreGood ==
  ASSUME IInv, Provenance, PinnedIsPlannable
  PROVE  AdmittedIsPlannable
<1> SUFFICES ASSUME NEW a \in admitted, a.kind \in Resource, NEW p \in Seen
             PROVE  LET contract == Contracts(pinned)[a.kind]
                        desired == ConfigOf(contract, a.payload)
                        observed == ConfigOf(contract, p)
                        ops == Planner(contract)!PlanOps(desired, observed)
                    IN  /\ PlanFront(Contracts(pinned), a.kind, a.payload, p) = "planned"
                        /\ \A i \in DOMAIN ops :
                             \/ ops[i] \in DOMAIN contract.operations
                             \/ ops[i] = Unnamed["delete"]
                        /\ \A f \in Planner(contract)!Changed(desired, observed) :
                             \E i \in DOMAIN ops :
                               /\ ops[i] \in DOMAIN RoleOf(contract)
                               /\ f \in Planner(contract)!BodyFields(ops[i])
  BY SMT DEF AdmittedIsPlannable
<1> DEFINE contract == Contracts(pinned)[a.kind]
           desired == ConfigOf(contract, a.payload)
           observed == ConfigOf(contract, p)
<1>1. DOMAIN Contracts(pinned) = Resource /\ contract = ContractOf(pinned[a.kind])
  BY DEF IInv, Shapes, Contracts
<1>2. PlanFront(Contracts(pinned), a.kind, a.payload, p) = "planned"
  <2>1. StillAdmissible(a, pinned)
    BY DEF IInv, AdmittedStaysAdmissible
  <2>2. CheckEnvelope(a.payload) = {} /\ IsObject(a.payload)
    BY <1>1, <2>1 DEF StillAdmissible, Validate, ConformIntent
  <2>3. CheckEnvelope(p) = {} /\ IsObject(p)
    BY SeenAssumption
  <2> QED
    BY <1>1, <2>2, <2>3 DEF PlanFront
<1>3. PlannableContract(contract)
  <2>1. /\ source \in Version /\ Extracted[source][a.kind].exit = 0
        /\ pinned[a.kind] = Extracted[source][a.kind].bundle
    BY DEF IInv, TypeOK, Provenance, Usable
  <2>2. \A f \in DOMAIN pinned[a.kind].config : \E i \in DOMAIN FieldNames :
          \A j \in DOMAIN FieldNames : FieldNames[j] = f <=> j = i
    BY <2>1, NamesAssumption
  <2>3. Plannable(pinned[a.kind])
    BY DEF PinnedIsPlannable
  <2> QED
    BY <1>1, <2>2, <2>3, ContractIsPlannable
<1> HIDE DEF contract, desired, observed
<1>4. GoodPlan(contract, desired, observed, Planner(contract)!PlanOps(desired, observed))
  BY <1>3, PlannablePlans, SMT
<1>5. Planner(contract)!Changed(desired, observed) = Differing(contract, desired, observed)
  BY PlannerChanged, SMT
<1> QED
  BY <1>2, <1>4, <1>5, SMT DEF GoodPlan, contract, desired, observed

\* An intent that Validate admits is one Plan can plan (Validate, Plan and
\* planProviderOps in provider.go, parseContractBundle in contracts.go,
\* ResourceSchemasFrom in schema.go): after any history of bumps its plan
\* is no error, every operation but the delete of a replacement is
\* one the contract names, and every field that differs is in the body of one.
THEOREM AdmittedArePlannable ==
  ASSUME ClientsHaveMethods, ActionModelsAreNamed
  PROVE  Spec => []AdmittedIsPlannable
<1>1. IInv /\ Provenance /\ PinnedIsPlannable => AdmittedIsPlannable
  BY PlansAreGood
<1> QED
  BY <1>1, Invariance, PinnedFromOneRevision, PinnedArePlannable, PTL

=============================================================================
