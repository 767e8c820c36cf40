-------------------------- MODULE ConvergenceProofs --------------------------
(***************************************************************************)
(* Theorem about module Reconcile: a run that reports a positive result    *)
(* and that nobody interfered with leaves a resource that satisfies the    *)
(* intent, whatever the diff, the contract, the mixture of synchronous and *)
(* asynchronous operations, the faults and the retries.                    *)
(*                                                                         *)
(* CleanRunConverges looks at the end of a run.  What makes it inductive   *)
(* is what is true on the way there: as long as nobody else touches the    *)
(* resource, every field it still lacks is in the body of an operation     *)
(* that the plan has yet to send, or of a Work Request that the run has    *)
(* started and that has not ended well.  The hypotheses of the theorem are *)
(* defined at the end of module Reconcile.                                 *)
(***************************************************************************)
EXTENDS ReconcileProofs

-----------------------------------------------------------------------------
(* Bodies and states. *)

\* What state lacks of an intent.
Missing(want, state) == Changed(want, EffectiveConfig(state))

\* The projection of a field that has no correspondence, or whose source is not shown.
LEMMA ProjectedField ==
  ASSUME NEW state \in State, NEW f \in Field,
         \A d \in Derivation : d.field = f => state[d.from] = Absent
  PROVE  EffectiveConfig(state)[f] = IF f \in StateField THEN state[f] ELSE Absent
  BY DEF EffectiveConfig, Projected

\* The projection of a field whose source is shown: the rules are one per field.
LEMMA DerivedField ==
  ASSUME NEW state \in State, NEW d \in Derivation, state[d.from] # Absent
  PROVE  EffectiveConfig(state)[d.field] = Derive(d.rule, state[d.from])
<1> DEFINE Applies(e) == e.field = d.field /\ state[e.from] # Absent
<1>1. \A e \in Derivation : Applies(e) => e = d
  BY ContractAssumption
<1>2. Applies(d) /\ d.field \in Field
  BY ContractAssumption
<1>3. (CHOOSE e \in Derivation : Applies(e)) = d
  BY <1>1, <1>2
<1>4. EffectiveConfig(state)[d.field] =
        LET e == CHOOSE e \in Derivation : Applies(e) IN Derive(e.rule, state[e.from])
  BY <1>2 DEF EffectiveConfig
<1> QED
  BY <1>3, <1>4

\* A body that says what the intent says takes nothing back.
LEMMA OverlayNears ==
  ASSUME DerivationsAreCreateTime, NEW want \in Config, NEW state \in State, NEW op
  PROVE  Missing(want, Overlay(state, RenderBody(op, want))) \subseteq Missing(want, state)
<1> DEFINE body == RenderBody(op, want)
           after == Overlay(state, body)
<1>1. body \in Config /\ \A f \in Field : body[f] \in {Absent, want[f]}
  BY RenderBodyType DEF RenderBody
<1>2. after \in State
  BY <1>1, OverlayType
<1>3. \A f \in StateField : after[f] = IF f \in Field /\ body[f] # Absent THEN body[f] ELSE state[f]
  BY DEF Overlay
<1>4. \A d \in Derivation : d.from \in StateField /\ after[d.from] = state[d.from]
  BY <1>3, ContractAssumption DEF DerivationsAreCreateTime
<1> HIDE DEF after, body
<1> SUFFICES ASSUME NEW f \in Field, want[f] # Absent, EffectiveConfig(state)[f] = want[f]
             PROVE  EffectiveConfig(after)[f] = want[f]
  BY DEF Missing, Changed, after, body
<1>5. CASE \E d \in Derivation : d.field = f /\ state[d.from] # Absent
  <2>1. PICK d \in Derivation : d.field = f /\ state[d.from] # Absent
    BY <1>5
  <2>2. EffectiveConfig(state)[f] = Derive(d.rule, state[d.from])
    BY <2>1, DerivedField
  <2>3. EffectiveConfig(after)[f] = Derive(d.rule, after[d.from])
    BY <1>2, <1>4, <2>1, DerivedField
  <2> QED
    BY <1>4, <2>2, <2>3
<1>6. CASE \A d \in Derivation : d.field = f => state[d.from] = Absent
  <2>1. f \in StateField /\ state[f] = want[f]
    BY <1>6, ProjectedField
  <2>2. EffectiveConfig(after)[f] = after[f]
    BY <1>2, <1>4, <1>6, <2>1, ProjectedField
  <2> QED
    BY <1>1, <1>3, <2>1, <2>2
<1> QED
  BY <1>5, <1>6

\* What the body of an edit carries is there afterwards.
LEMMA OverlayCarries ==
  ASSUME DerivationsAreCreateTime, IntentsAreReadable, NEW s \in Session,
         NEW state \in State, NEW op \in Edits, NEW f \in BodyFields(op)
  PROVE  f \notin Missing(Wanted[s], Overlay(state, RenderBody(op, Wanted[s])))
<1> DEFINE want == Wanted[s]
           body == RenderBody(op, want)
           after == Overlay(state, body)
<1>1. want \in Config
  BY ReconcileAssumption
<1>2. f \in Field /\ Policy[f] \in {"mutable", "action-managed"}
  BY DEF BodyFields, Edits
<1>3. body[f] = want[f] /\ body \in Config
  BY <1>1, <1>2, RenderBodyType DEF RenderBody
<1>4. after \in State
  BY <1>3, OverlayType
<1>5. \A d \in Derivation : d.field # f
  BY <1>2 DEF DerivationsAreCreateTime
<1> SUFFICES ASSUME want[f] # Absent PROVE EffectiveConfig(after)[f] = want[f]
  BY DEF Missing, Changed
<1>6. f \in StateField
  BY <1>2, <1>5 DEF IntentsAreReadable
<1>7. after[f] = want[f]
  BY <1>2, <1>3, <1>6 DEF Overlay
<1> HIDE DEF after, body, want
<1> QED
  BY <1>2, <1>4, <1>5, <1>6, <1>7, ProjectedField

\* A rule gives back what it was given.
LEMMA RoundTrip ==
  ASSUME EmptyShown \in EmptyJson \ {Absent}, NEW rule \in Rule, NEW v \in Value,
         rule # "rename" => v \in {"true", "false"}, {"true", "false", "some"} \subseteq Value
  PROVE  Realised(rule, v) # Absent /\ Derive(rule, Realised(rule, v)) = v
<1>1. Absent \notin Value
  BY ContractAssumption
<1> QED
  BY <1>1 DEF Rule, Realised, Derive, EmptyJson

\* A resource that was created from an intent lacks nothing of it.
LEMMA ProvisionedFits ==
  ASSUME DerivationsAreCreateTime, IntentsAreReadable, NEW s \in Session,
         NEW op \in Op, Role[op] = "create"
  PROVE  Missing(Wanted[s], Provisioned(RenderBody(op, Wanted[s]))) = {}
<1> DEFINE want == Wanted[s]
           state == Provisioned(want)
<1>1. want \in Config
  BY ReconcileAssumption
<1>2. RenderBody(op, want) = want
  BY <1>1 DEF RenderBody, BodyFields, Config
<1>3. state \in State
  BY <1>1, ProvisionedType
<1> SUFFICES ASSUME NEW f \in Field, want[f] # Absent PROVE EffectiveConfig(state)[f] = want[f]
  BY <1>2 DEF Missing, Changed
<1>4. ASSUME NEW d \in Derivation, want[d.field] # Absent
      PROVE  state[d.from] = Realised(d.rule, want[d.field])
  <2> DEFINE Applies(e) == e.from = d.from /\ want[e.field] # Absent
  <2>1. (CHOOSE e \in Derivation : Applies(e)) = d
    <3>1. Applies(d) /\ \A e \in Derivation : Applies(e) => e = d
      BY <1>4, ContractAssumption
    <3> QED
      BY <3>1
  <2>2. d.from \in StateField
    BY ContractAssumption
  <2>3. state[d.from] =
          LET e == CHOOSE e \in Derivation : Applies(e) IN Realised(e.rule, want[e.field])
    BY <1>4, <2>2 DEF Provisioned
  <2> QED
    BY <2>1, <2>3
<1>5. CASE \E d \in Derivation : d.field = f
  <2>1. PICK d \in Derivation : d.field = f
    BY <1>5
  <2>2. want[f] \in Value /\ d.rule \in Rule /\ {"true", "false", "some"} \subseteq Value
    BY <1>1, <2>1, ContractAssumption DEF Config, Maybe
  <2>3. d.rule # "rename" => want[f] \in {"true", "false"}
    BY <2>1 DEF IntentsAreReadable
  <2>4. /\ Realised(d.rule, want[f]) # Absent
        /\ Derive(d.rule, Realised(d.rule, want[f])) = want[f]
    BY <2>2, <2>3, RoundTrip DEF IntentsAreReadable
  <2>5. state[d.from] = Realised(d.rule, want[f])
    BY <1>4, <2>1
  <2> HIDE DEF state, want
  <2> QED
    BY <1>3, <2>1, <2>4, <2>5, DerivedField
<1>6. CASE \A d \in Derivation : d.field # f
  <2>1. f \in StateField
    BY <1>6 DEF IntentsAreReadable
  <2>2. \A d \in Derivation : d.from # f
    BY DEF DerivationsAreCreateTime
  <2>3. state[f] = want[f]
    BY <2>1, <2>2 DEF Provisioned
  <2> HIDE DEF state, want
  <2> QED
    BY <1>3, <1>6, <2>1, <2>3, ProjectedField
<1> QED
  BY <1>5, <1>6

-----------------------------------------------------------------------------
(* What a request does to the resources and the Work Requests. *)

\* The book-keeping of one accepted request: no Work Request that is in use changes.
LEMMA TrackFacts ==
  ASSUME OciTypeOK, NEW req \in RequestSet, NEW rid, NEW j \in JobId \cup {NoJob},
         Track(req, rid, j)
  PROVE  /\ \A i \in JobId : jobs[i].status # "unused" => jobs'[i] = jobs[i]
         /\ req.op \in Async <=> j # NoJob
         /\ j # NoJob => /\ j \in JobId
                         /\ jobs'[j] = [status |-> "ACCEPTED", role |-> req.role,
                                        rid |-> rid, body |-> req.body]
<1>1. NoJob \notin JobId
  BY OciAssumption
<1> QED
  BY <1>1 DEF Track, OciTypeOK

\* No Work Request that is in use changes, no resource becomes unused again.
InUseStays ==
  /\ \A j \in JobId : jobs[j].status # "unused" => jobs'[j] = jobs[j]
  /\ \A r \in ResId : cloud[r].life # "unused" => cloud'[r].life # "unused"

\* What Work Request wr, if there is one, has to do with a request for a resource.
Started(req, rid, wr) ==
  /\ req.op \in Async <=> wr # NoJob
  /\ wr # NoJob => wr \in JobId /\ jobs'[wr] = [status |-> "ACCEPTED", role |-> req.role,
                                               rid |-> rid, body |-> req.body]

\* The three ways a request is carried out.
Edited(req, wr) ==
  /\ req.role \in {"update", "action"} /\ req.rid \in ResId
  /\ Live(req.rid)'
  /\ cloud'[req.rid].state = IF req.op \in Async THEN cloud[req.rid].state
                             ELSE Overlay(cloud[req.rid].state, req.body)
  /\ \A r \in ResId : r # req.rid => cloud'[r] = cloud[r]
  /\ Started(req, req.rid, wr)

Deleted(req, wr) ==
  /\ req.role = "delete" /\ req.rid \in ResId
  /\ cloud'[req.rid].state = cloud[req.rid].state
  /\ \A r \in ResId : r # req.rid => cloud'[r] = cloud[r]
  /\ Started(req, req.rid, wr)

Created(req, wr) ==
  /\ req.role = "create"
  /\ \E rid \in ResId :
       /\ cloud[rid].life = "unused"
       /\ Live(rid)' /\ cloud'[rid].state = Provisioned(req.body)
       /\ \A r \in ResId : r # rid => cloud'[r] = cloud[r]
       /\ Started(req, rid, wr)

CarriedOut(req, wr) == Edited(req, wr) \/ Deleted(req, wr) \/ Created(req, wr)

LEMMA CommitResult ==
  ASSUME OciTypeOK, NEW rid \in ResId, NEW life, NEW state, Commit(rid, life, state)
  PROVE  /\ \A r \in ResId : r # rid => cloud'[r] = cloud[r]
         /\ cloud'[rid].life = life /\ cloud'[rid].state = state
  BY DEF Commit, OciTypeOK

LEMMA ServeEffect ==
  ASSUME OciTypeOK, NEW req \in RequestSet, NEW rep \in Reply, Serve(req, rep)
  PROVE  /\ InUseStays
         /\ \/ UNCHANGED ociVars /\ (rep.status < 400 => req.role = "read")
                                 /\ rep.wr = NoJob
            \/ CarriedOut(req, rep.wr) /\ rep.status < 400
<1>0. rep.status \in Nat
  BY DEF Reply
<1>1. ASSUME UNCHANGED ociVars PROVE InUseStays
  BY <1>1 DEF ociVars, InUseStays
<1>2. CASE ServeRead(req, rep)
  BY <1>1, <1>2 DEF ServeRead, Answer, Refuse
<1>3. CASE Reject(req, rep)
  BY <1>1, <1>3 DEF Reject, Refuse, Answer
<1>4. CASE Unavailable(req, rep)
  BY <1>1, <1>4 DEF Unavailable, Refuse, Answer
<1>5. CASE Change(req, rep)
  <2> DEFINE state == IF req.op \in Async THEN cloud[req.rid].state
                      ELSE Overlay(cloud[req.rid].state, req.body)
  <2>1. req.rid \in ResId /\ req.role \in {"update", "action"}
    BY <1>5 DEF Change, Accepts, Exists
  <2>2. Commit(req.rid, "live", state)
    BY <1>5 DEF Change
  <2>3. PICK j \in JobId \cup {NoJob} :
          Track(req, req.rid, j) /\ rep = Answer(IF j = NoJob THEN 200 ELSE 202, j)
    BY <1>5 DEF Change
  <2> HIDE DEF state
  <2>4. /\ \A r \in ResId : r # req.rid => cloud'[r] = cloud[r]
        /\ cloud'[req.rid].life = "live" /\ cloud'[req.rid].state = state
    BY <2>1, <2>2, CommitResult
  <2>5. /\ \A i \in JobId : jobs[i].status # "unused" => jobs'[i] = jobs[i]
        /\ Started(req, req.rid, j)
    BY <2>3, TrackFacts DEF Started
  <2>6. rep.wr = j /\ rep.status < 400
    BY <2>3 DEF Answer
  <2>7. InUseStays
    BY <2>1, <2>4, <2>5 DEF InUseStays
  <2>8. Edited(req, j)
    BY <2>1, <2>4, <2>5 DEF Edited, Live, state
  <2> QED
    BY <2>6, <2>7, <2>8 DEF CarriedOut
<1>6. CASE Delete(req, rep)
  <2> DEFINE life == IF req.op \in Async THEN "deleting" ELSE "gone"
  <2>1. req.rid \in ResId /\ req.role = "delete"
    BY <1>6 DEF Delete, Accepts, Exists
  <2>2. Commit(req.rid, life, cloud[req.rid].state) /\ life # "unused"
    BY <1>6 DEF Delete
  <2>3. PICK j \in JobId \cup {NoJob} : Track(req, req.rid, j) /\ rep = Answer(204, j)
    BY <1>6 DEF Delete
  <2> HIDE DEF life
  <2>4. /\ \A r \in ResId : r # req.rid => cloud'[r] = cloud[r]
        /\ cloud'[req.rid].life = life /\ cloud'[req.rid].state = cloud[req.rid].state
    BY <2>1, <2>2, CommitResult
  <2>5. /\ \A i \in JobId : jobs[i].status # "unused" => jobs'[i] = jobs[i]
        /\ Started(req, req.rid, j)
    BY <2>3, TrackFacts DEF Started
  <2>6. rep.wr = j /\ rep.status < 400
    BY <2>3 DEF Answer
  <2>7. InUseStays
    BY <2>1, <2>2, <2>4, <2>5 DEF InUseStays
  <2>8. Deleted(req, j)
    BY <2>1, <2>4, <2>5 DEF Deleted
  <2> QED
    BY <2>6, <2>7, <2>8 DEF CarriedOut
<1>7. CASE Create(req, rep)
  <2>1. CASE rep = Refuse(400) /\ UNCHANGED ociVars
    BY <1>1, <2>1 DEF Refuse, Answer
  <2>2. CASE ~(rep = Refuse(400) /\ UNCHANGED ociVars)
    <3>1. PICK r \in ResId, j \in JobId \cup {NoJob} :
            /\ cloud[r].life = "unused"
            /\ Commit(r, "live", Provisioned(req.body))
            /\ Track(req, r, j)
            /\ rep = Answer(200, j)
      BY <1>7, <2>2 DEF Create
    <3>2. /\ \A q \in ResId : q # r => cloud'[q] = cloud[q]
          /\ cloud'[r].life = "live" /\ cloud'[r].state = Provisioned(req.body)
      BY <3>1, CommitResult
    <3>3. /\ \A i \in JobId : jobs[i].status # "unused" => jobs'[i] = jobs[i]
          /\ Started(req, r, j)
      BY <3>1, TrackFacts DEF Started
    <3>4. rep.wr = j /\ rep.status < 400
      BY <3>1 DEF Answer
    <3>5. InUseStays
      BY <3>1, <3>2, <3>3 DEF InUseStays
    <3>6. Created(req, j)
      BY <1>7, <3>1, <3>2, <3>3 DEF Created, Create, Live
    <3> QED
      BY <3>4, <3>5, <3>6 DEF CarriedOut
  <2> QED
    BY <2>1, <2>2
<1> QED
  BY <1>2, <1>3, <1>4, <1>5, <1>6, <1>7 DEF Serve

LEMMA LimitFacts == \A n \in Nat : n >= 400 <=> ~(n < 400)
  OBVIOUS

\* A step without an error of its own fails by the status of its reply.
LEMMA AnsweredStep ==
  ASSUME NEW op, NEW out, out.err = "", out.reply.status \in Nat
  PROVE  Fatal(StepOf(op, out)) <=> ~(out.reply.status < 400)
<1> DEFINE status == out.reply.status
<1>1. StepOf(op, out).err = IF status >= 400 THEN "provider" ELSE ""
  BY DEF StepOf
<1> QED
  BY <1>1, LimitFacts, Zenon DEF Fatal

\* A signed request whose step is not an error was carried out as the step says; one
\* whose step is an error may have been, but then nobody is told of a Work Request.
LEMMA ActuateEffect ==
  ASSUME RepliesAreReadable, OciTypeOK, NEW req \in RequestSet, req.op \in Op,
         req.role # "read", NEW out \in Outcome, ActuateSigned(req, out)
  PROVE  LET step == StepOf(req.op, out)
         IN  /\ InUseStays
             /\ ~Fatal(step) => CarriedOut(req, step.wr)
             /\ Fatal(step) => /\ step.wr = NoJob
                               /\ UNCHANGED ociVars \/ \E wr : CarriedOut(req, wr)
<1> DEFINE step == StepOf(req.op, out)
<1>1. step.wr = out.reply.wr
  BY DEF StepOf
<1>2. ASSUME out.err # "" PROVE Fatal(step)
  BY <1>2 DEF Fatal, StepOf
<1>3. ASSUME NEW rep \in Reply, out = Answered(rep)
      PROVE  Fatal(step) <=> ~(rep.status < 400)
  <2>1. out.err = "" /\ out.reply = rep
    BY <1>3, AnsweredFields, Zenon
  <2>2. rep.status \in Nat
    BY DEF Reply
  <2> QED
    BY <2>1, <2>2, AnsweredStep
<1> HIDE DEF step
<1>4. CASE UNCHANGED ociVars /\ \E where \in Faults \cap {"sign", "actuate"} : out = Failed(where)
  <2>1. PICK where \in {"sign", "actuate"} : out = Failed(where)
    BY <1>4
  <2>2. out.err = where /\ out.reply.wr = NoJob
    BY <2>1, FailedFields
  <2>3. InUseStays
    BY <1>4 DEF ociVars, InUseStays
  <2> QED
    BY <1>1, <1>2, <1>4, <2>2, <2>3 DEF step
<1>5. CASE out = Failed("actuate") /\ \E rep \in Reply : Serve(req, rep)
  <2>1. out.err = "actuate" /\ out.reply.wr = NoJob
    BY <1>5, FailedFields
  <2>2. PICK rep \in Reply : Serve(req, rep)
    BY <1>5
  <2>3. InUseStays /\ (UNCHANGED ociVars \/ \E wr : CarriedOut(req, wr))
    BY <2>2, ServeEffect
  <2> QED
    BY <1>1, <1>2, <2>1, <2>3 DEF step
<1>6. CASE \E rep \in Reply : out = Answered(rep) /\ Serve(req, rep)
  <2>1. PICK rep \in Reply : out = Answered(rep) /\ Serve(req, rep)
    BY <1>6
  <2>2. out.reply = rep
    BY <2>1, AnsweredFields
  <2>3. /\ InUseStays
        /\ \/ UNCHANGED ociVars /\ (rep.status < 400 => req.role = "read") /\ rep.wr = NoJob
           \/ CarriedOut(req, rep.wr) /\ rep.status < 400
    BY <2>1, ServeEffect
  <2>4. Fatal(step) <=> ~(rep.status < 400)
    BY <1>3, <2>1
  <2> QED
    BY <1>1, <2>2, <2>3, <2>4 DEF step
<1> QED
  BY <1>4, <1>5, <1>6 DEF ActuateSigned, RepliesAreReadable

\* A read changes nothing.
LEMMA ReadEffect ==
  ASSUME OciTypeOK, NEW req \in RequestSet, req.role = "read", NEW out \in Outcome,
         ActuateSigned(req, out)
  PROVE  UNCHANGED ociVars
<1>1. ASSUME NEW rep \in Reply, Serve(req, rep) PROVE UNCHANGED ociVars
  BY <1>1, ServeEffect DEF CarriedOut, Edited, Deleted, Created
<1> QED
  BY <1>1 DEF ActuateSigned

-----------------------------------------------------------------------------
(* The invariant. *)

\* What the resource lacks of the intent.
Lacks(s, rid) == Missing(Wanted[s], cloud[rid].state)

WorkOf(s, i) == run[s].steps[i].wr

\* The steps of a run that left a Work Request behind.
Works(s) == {i \in DOMAIN run[s].steps : WorkOf(s, i) # NoJob}

\* The operations of a run whose effect is still to come.
Left(s) ==
  {i \in DOMAIN run[s].ops :
     i > Len(run[s].steps) \/ (i \in Works(s) /\ jobs[WorkOf(s, i)].status # "SUCCEEDED")}

Failing(s) == \E i \in Works(s) : jobs[WorkOf(s, i)].status \in {"FAILED", "CANCELED"}

\* The fields in the bodies of the operations at the given places.
Carried(ops, at) == UNION {BodyFields(ops[i]) : i \in at}

\* A Work Request of a run does what the run's operation says, to its resource.
WorkMatches(s) ==
  \A i \in Works(s) :
    LET job == jobs[WorkOf(s, i)]
        op  == run[s].ops[i]
    IN  /\ job.status # "unused" /\ job.role = Role[op]
        /\ job.body = RenderBody(op, Wanted[s])
        /\ Role[op] # "create" => job.rid = run[s].rid

\* A resource a session knows of was created.
Known(s) ==
  /\ obs[s].rid # NoRes => cloud[obs[s].rid].life # "unused"
  /\ run[s].rid # NoRes => cloud[run[s].rid].life # "unused"

\* A run is the plan's, for the intent and the resource that was observed.
Bound(s) ==
  /\ run[s].status = "running" => phase[s] = "wait" /\ run[s].config = Wanted[s]
  /\ run[s].status \in {"succeeded", "accepted"} => Len(run[s].steps) = Len(run[s].ops)
  /\ Len(run[s].steps) <= Len(run[s].ops)
  /\ phase[s] = "wait" => run[s].ops = plan[s].ops /\ run[s].rid = obs[s].rid
  /\ phase[s] \in {"execute", "wait"} => plan[s].ops # << >>

\* What the observed resource lacks was seen, and is in the plan unless that replaces.
PlanFits(s) ==
  obs[s].rid # NoRes =>
    /\ phase[s] = "plan" => Lacks(s, obs[s].rid) \subseteq Changed(Wanted[s], obs[s].config)
    /\ phase[s] \in {"execute", "wait"} /\ plan[s].ops # Replacement =>
         Lacks(s, obs[s].rid) \subseteq Carried(plan[s].ops, DOMAIN plan[s].ops)

\* Edits leave open what is left to do; a replacement fits once it is created, unless
\* its Work Request ended otherwise.
EditsFit(s) ==
  /\ run[s].rid # NoRes => Lacks(s, run[s].rid) \subseteq Carried(run[s].ops, Left(s))
  /\ run[s].steps # << >> => run[s].rid # NoRes /\ Live(run[s].rid)

ReplacementFits(s) ==
  /\ run[s].steps # << >> => run[s].rid # NoRes
  /\ Len(run[s].steps) = 2 =>
       \/ Failing(s)
       \/ \E rid \in ResId : rid # run[s].rid /\ Live(rid) /\ Lacks(s, rid) = {}

RunFits(s) ==
  phase[s] = "wait" /\ run[s].status \in {"running", "succeeded", "accepted"} =>
    IF run[s].ops = Replacement THEN ReplacementFits(s) ELSE EditsFit(s)

SessionInv(s) ==
  /\ WorkMatches(s) /\ Known(s) /\ Bound(s)
  /\ ~stale[s] => PlanFits(s) /\ RunFits(s)

ConvergenceInv == LoopTypeOK /\ PlansAreComputed /\ \A s \in Session : SessionInv(s)

\* At the end of an undisturbed run nothing is left to come.
LEMMA FitsAtTheEnd ==
  ASSUME LoopTypeOK, NEW s \in Session, SessionInv(s), CleanRun(s)
  PROVE  Converged(s)
<1>1. /\ phase[s] = "wait" /\ run[s].status \in {"succeeded", "accepted"} /\ ~stale[s]
      /\ \A j \in JobId : Tracks(s, j) => jobs[j].status = "SUCCEEDED"
  BY DEF CleanRun
<1>2. /\ run[s].steps \in Seq(Step) /\ run[s].ops \in Seq(Op) /\ run[s].rid \in ResId \cup {NoRes}
      /\ cloud \in [ResId -> Resource]
  BY DEF LoopTypeOK, TypeOK, OciTypeOK, Run
<1>3. \A i \in Works(s) : jobs[WorkOf(s, i)].status = "SUCCEEDED"
  <2> SUFFICES ASSUME NEW i \in Works(s) PROVE jobs[WorkOf(s, i)].status = "SUCCEEDED"
    OBVIOUS
  <2>1. i \in DOMAIN run[s].steps /\ WorkOf(s, i) # NoJob
    BY DEF Works
  <2>2. run[s].steps[i] \in Step
    BY <1>2, <2>1
  <2>3. WorkOf(s, i) \in JobId
    BY <2>1, <2>2 DEF WorkOf, Step
  <2> QED
    BY <1>1, <2>1, <2>3 DEF Tracks, WorkOf
<1>4. Len(run[s].steps) = Len(run[s].ops) /\ run[s].ops # << >>
  BY <1>1 DEF SessionInv, Bound
<1>5. Left(s) = {} /\ ~Failing(s) /\ run[s].steps # << >>
  BY <1>2, <1>3, <1>4 DEF Left, Failing
<1>6. ASSUME NEW rid \in ResId, Live(rid), Lacks(s, rid) = {} PROVE Converged(s)
  <2>1. cloud[rid].state \in State
    BY <1>2, <1>6 DEF Resource
  <2>2. EffectiveConfig(cloud[rid].state) \in Config /\ Wanted[s] \in Config
    BY <2>1, EffectiveConfigType, ReconcileAssumption
  <2>3. Satisfied(s, rid)
    BY <1>6, <2>2, PlanOperationFacts DEF Lacks, Missing, Satisfied
  <2> QED
    BY <1>6, <2>3 DEF Converged
<1>7. RunFits(s)
  BY <1>1 DEF SessionInv
<1>8. CASE run[s].ops = Replacement
  <2>1. Len(run[s].steps) = 2
    BY <1>4, <1>8, ReplacementFacts
  <2>2. ReplacementFits(s)
    BY <1>1, <1>7, <1>8 DEF RunFits
  <2> QED
    BY <1>5, <1>6, <2>1, <2>2 DEF ReplacementFits
<1>9. CASE run[s].ops # Replacement
  <2>1. EditsFit(s)
    BY <1>1, <1>7, <1>9 DEF RunFits
  <2>2. run[s].rid \in ResId /\ Live(run[s].rid) /\ Lacks(s, run[s].rid) = {}
    BY <1>2, <1>5, <2>1 DEF EditsFit, Carried
  <2> QED
    BY <1>6, <2>2
<1> QED
  BY <1>8, <1>9

-----------------------------------------------------------------------------
(* Sessions that do not act. *)

Untouched(t) ==
  /\ obs'[t] = obs[t] /\ run'[t] = run[t]
  /\ phase'[t] = phase[t] /\ plan'[t] = plan[t]

\* A session keeps what it knows when its own variables and Work Requests stay, and
\* either the resources stay too or it counts as overtaken.
LEMMA SessionStays ==
  ASSUME TypeOK, NEW t \in Session, SessionInv(t), Untouched(t),
         \A r \in ResId : cloud[r].life # "unused" => cloud'[r].life # "unused",
         \A i \in Works(t) : jobs'[WorkOf(t, i)] = jobs[WorkOf(t, i)],
         stale'[t] \/ (cloud' = cloud /\ stale'[t] = stale[t])
  PROVE  SessionInv(t)'
<1>1. \A i : WorkOf(t, i)' = WorkOf(t, i)
  BY DEF Untouched, WorkOf
<1>2. Works(t)' = Works(t)
  BY <1>1 DEF Untouched, Works
<1>3. WorkMatches(t)'
  BY <1>1, <1>2 DEF SessionInv, WorkMatches, Untouched
<1>4. Known(t)'
  <2>1. obs[t].rid \in ResId \cup {NoRes} /\ run[t].rid \in ResId \cup {NoRes}
    BY DEF TypeOK, Observation, Run
  <2> QED
    BY <2>1 DEF SessionInv, Known, Untouched
<1>5. Bound(t)'
  BY DEF SessionInv, Bound, Untouched
<1>6. CASE stale'[t]
  BY <1>3, <1>4, <1>5, <1>6 DEF SessionInv
<1>7. CASE cloud' = cloud /\ stale'[t] = stale[t]
  <2>1. \A rid : Lacks(t, rid)' = Lacks(t, rid) /\ Live(rid)' = Live(rid)
    BY <1>7 DEF Lacks, Live
  <2>2. Left(t)' = Left(t) /\ Failing(t)' = Failing(t)
    BY <1>1, <1>2 DEF Left, Failing, Untouched
  <2>3. PlanFits(t)' = PlanFits(t)
    BY <2>1 DEF PlanFits, Untouched
  <2>4. RunFits(t)' = RunFits(t)
    BY <2>1, <2>2 DEF RunFits, ReplacementFits, EditsFit, Untouched
  <2> QED
    BY <1>3, <1>4, <1>5, <1>7, <2>3, <2>4 DEF SessionInv
<1> QED
  BY <1>6, <1>7

\* The Work Requests of a run are in use, so a request of somebody else leaves them.
LEMMA WorksStay ==
  ASSUME TypeOK, NEW t \in Session, SessionInv(t), InUseStays
  PROVE  \A i \in Works(t) : WorkOf(t, i) \in JobId /\ jobs'[WorkOf(t, i)] = jobs[WorkOf(t, i)]
<1> SUFFICES ASSUME NEW i \in Works(t)
             PROVE  WorkOf(t, i) \in JobId /\ jobs'[WorkOf(t, i)] = jobs[WorkOf(t, i)]
  OBVIOUS
<1>1. run[t].steps \in Seq(Step) /\ i \in DOMAIN run[t].steps /\ WorkOf(t, i) # NoJob
  BY DEF TypeOK, Run, Works
<1>2. run[t].steps[i] \in Step
  BY <1>1
<1>3. WorkOf(t, i) \in JobId
  BY <1>1, <1>2 DEF WorkOf, Step
<1>4. jobs[WorkOf(t, i)].status # "unused"
  BY DEF SessionInv, WorkMatches
<1> QED
  BY <1>3, <1>4 DEF InUseStays

LEMMA OthersStay ==
  ASSUME TypeOK, InUseStays, NEW t \in Session, SessionInv(t), Untouched(t),
         stale'[t] \/ (cloud' = cloud /\ stale'[t] = stale[t])
  PROVE  SessionInv(t)'
<1>1. \A i \in Works(t) : jobs'[WorkOf(t, i)] = jobs[WorkOf(t, i)]
  BY WorksStay
<1>2. \A r \in ResId : cloud[r].life # "unused" => cloud'[r].life # "unused"
  BY DEF InUseStays
<1> QED
  BY <1>1, <1>2, SessionStays

\* A step of one session that changes no resource.
LEMMA OthersStayQuietly ==
  ASSUME TypeOK, UNCHANGED ociVars, NEW s \in Session, NEW t \in Session, t # s,
         SessionInv(t), Untouched(t), stale'[t] = stale[t]
  PROVE  SessionInv(t)'
<1>1. InUseStays /\ cloud' = cloud
  BY DEF InUseStays, ociVars
<1> QED
  BY <1>1, OthersStay

-----------------------------------------------------------------------------
(* The calls of the host. *)

LEMMA HostObservesFits ==
  ASSUME LoopTypeOK, NEW s \in Session, \A t \in Session : SessionInv(t), HostObserves(s)
  PROVE  \A t \in Session : SessionInv(t)'
<1>1. PICK rid \in ResId, out \in Outcome :
        /\ Exists(rid)
        /\ ObserveOnce(s, rid, out)
        /\ IF out = ReadDone
             THEN Enter(s, "plan") /\ stale' = [stale EXCEPT ![s] = FALSE]
             ELSE UNCHANGED <<phase, stale>>
  BY DEF HostObserves
<1> DEFINE req == Request(OpByRole("read"), rid, NoRev, EmptyConfig)
           seen == [rid |-> rid, etag |-> cloud[rid].etag,
                    config |-> EffectiveConfig(cloud[rid].state)]
<1>2. /\ ActuateSigned(req, out) /\ UNCHANGED <<run, plan>>
      /\ obs' = IF out = ReadDone THEN [obs EXCEPT ![s] = seen] ELSE obs
      /\ Idle(s) /\ phase[s] = "observe"
  BY <1>1 DEF ObserveOnce, HostObserves
<1>3. req \in RequestSet /\ req.role = "read"
  <2>1. OpByRole("read") \in Op /\ Role[OpByRole("read")] = "read"
    BY RoleHasOp DEF LifecycleRole
  <2> QED
    BY <2>1, RequestType, EmptyTypes DEF NoRev, Request
<1> HIDE DEF req, seen
<1>4. UNCHANGED ociVars /\ TypeOK
  BY <1>2, <1>3, ReadEffect DEF LoopTypeOK, TypeOK
<1>5. CASE out = ReadDone
  <2>1. /\ obs'[s] = seen /\ phase'[s] = "plan" /\ stale'[s] = FALSE
        /\ \A t \in Session : t # s => Untouched(t) /\ stale'[t] = stale[t]
    BY <1>1, <1>2, <1>5 DEF LoopTypeOK, TypeOK, Enter, Untouched
  <2>2. WorkMatches(s)'
    BY <1>2, <1>4 DEF SessionInv, WorkMatches, Works, WorkOf, ociVars
  <2>3. Known(s)'
    BY <1>1, <1>2, <1>4, <2>1 DEF SessionInv, Known, Exists, seen, ociVars
  <2>4. Bound(s)'
    BY <1>2, <2>1 DEF SessionInv, Bound, Idle
  <2>5. PlanFits(s)' /\ RunFits(s)'
    BY <1>4, <2>1 DEF PlanFits, RunFits, Lacks, Missing, seen, ociVars
  <2>6. SessionInv(s)'
    BY <2>2, <2>3, <2>4, <2>5 DEF SessionInv
  <2> QED
    BY <1>4, <2>1, <2>6, OthersStayQuietly
<1>6. CASE out # ReadDone
  <2>1. \A t \in Session : Untouched(t) /\ stale'[t] = stale[t]
    BY <1>1, <1>2, <1>6 DEF Untouched
  <2>2. InUseStays /\ cloud' = cloud
    BY <1>4 DEF InUseStays, ociVars
  <2> QED
    BY <1>4, <2>1, <2>2, OthersStay
<1> QED
  BY <1>5, <1>6

LEMMA HostFindsNothingFits ==
  ASSUME LoopTypeOK, NEW s \in Session, \A t \in Session : SessionInv(t), HostFindsNothing(s)
  PROVE  \A t \in Session : SessionInv(t)'
<1>1. /\ TypeOK /\ UNCHANGED <<ociVars, run, plan>>
      /\ phase[s] = "observe" /\ phase'[s] = "plan" /\ obs'[s] = Unobserved
      /\ \A t \in Session : t # s => Untouched(t) /\ stale'[t] = stale[t]
  BY DEF HostFindsNothing, LoopTypeOK, TypeOK, Enter, Untouched
<1>2. WorkMatches(s)' /\ Known(s)'
  BY <1>1 DEF SessionInv, WorkMatches, Works, WorkOf, ociVars, Known, Unobserved
<1>3. Bound(s)'
  BY <1>1 DEF SessionInv, Bound
<1>4. PlanFits(s)' /\ RunFits(s)'
  BY <1>1 DEF PlanFits, RunFits, Unobserved
<1>5. SessionInv(s)'
  BY <1>2, <1>3, <1>4 DEF SessionInv
<1> QED
  BY <1>1, <1>5, OthersStayQuietly

\* What Plan makes of an observation carries everything that differs.
LEMMA PlanForCarries ==
  ASSUME ActionsAreNamed, TypeOK, NEW s \in Session
  PROVE  LET changed == Changed(Wanted[s], obs[s].config)
         IN  /\ changed \subseteq Carried(PlanFor(s).ops, DOMAIN PlanFor(s).ops)
             /\ PlanFor(s).operation # "noop" => PlanFor(s).ops # << >>
<1> DEFINE ops == PlanOps(Wanted[s], obs[s].config)
           op == PlanOperation(Wanted[s], obs[s].config)
           changed == Changed(Wanted[s], obs[s].config)
<1>1. Wanted[s] \in Config /\ obs[s].config \in Config
  BY ReconcileAssumption DEF TypeOK, Observation
<1>2. PlanFor(s).ops = ops /\ PlanFor(s).operation = op
  BY DEF PlanFor
<1>3. \A f \in changed : \E i \in DOMAIN ops : f \in BodyFields(ops[i])
  <2> SUFFICES ASSUME NEW f \in changed PROVE \E i \in DOMAIN ops : f \in BodyFields(ops[i])
    OBVIOUS
  <2>1. Policy[f] = "action-managed" => ActionOf[f] # NoAction
    BY DEF Changed, ActionsAreNamed
  <2> QED
    BY <1>1, <2>1, PlanCarriesDiff
<1>4. op # "noop" => changed # {}
  BY <1>1, PlanOperationFacts
<1> HIDE DEF ops, op, changed
<1>5. changed # {} => ops # << >>
  BY <1>3
<1> QED
  BY <1>2, <1>3, <1>4, <1>5 DEF Carried, changed

LEMMA HostPlansFits ==
  ASSUME ActionsAreNamed, LoopTypeOK, NEW s \in Session, \A t \in Session : SessionInv(t),
         HostPlans(s)
  PROVE  \A t \in Session : SessionInv(t)'
<1>1. /\ TypeOK /\ UNCHANGED <<ociVars, obs, run, stale>>
      /\ phase[s] = "plan" /\ plan'[s] = PlanFor(s)
      /\ phase'[s] = IF PlanFor(s).operation = "noop" THEN "observe" ELSE "execute"
      /\ \A t \in Session : t # s => Untouched(t)
  BY DEF HostPlans, LoopTypeOK, TypeOK, Enter, Untouched, vars, ociVars
<1>2. WorkMatches(s)' /\ Known(s)'
  BY <1>1 DEF SessionInv, WorkMatches, Works, WorkOf, ociVars, Known
<1>3. Bound(s)'
  BY <1>1, PlanForCarries DEF SessionInv, Bound
<1>4. RunFits(s)'
  BY <1>1 DEF RunFits
<1>5. ASSUME PlanFits(s) PROVE PlanFits(s)'
  <2>1. ASSUME obs[s].rid # NoRes
        PROVE  Lacks(s, obs[s].rid)' \subseteq Carried(PlanFor(s).ops, DOMAIN PlanFor(s).ops)
    <3>1. Lacks(s, obs[s].rid) \subseteq Changed(Wanted[s], obs[s].config)
      BY <1>1, <1>5, <2>1 DEF PlanFits
    <3>2. Lacks(s, obs[s].rid)' = Lacks(s, obs[s].rid)
      BY <1>1 DEF Lacks, ociVars
    <3> QED
      BY <1>1, <3>1, <3>2, PlanForCarries
  <2> QED
    BY <1>1, <2>1 DEF PlanFits
<1>6. SessionInv(s)'
  BY <1>1, <1>2, <1>3, <1>4, <1>5 DEF SessionInv
<1> QED
  BY <1>1, <1>6, OthersStayQuietly

LEMMA HostExecutesFits ==
  ASSUME LoopTypeOK, NEW s \in Session, \A t \in Session : SessionInv(t), HostExecutes(s)
  PROVE  \A t \in Session : SessionInv(t)'
<1>1. PICK b \in Bindings(s) : Execute(s, plan[s].ops, Wanted[s], b)
  BY DEF HostExecutes
<1>2. /\ TypeOK /\ UNCHANGED <<ociVars, obs, plan, stale>>
      /\ phase[s] = "execute" /\ phase'[s] = "wait"
      /\ run'[s] = [ops |-> plan[s].ops, config |-> Wanted[s], rid |-> b.rid,
                    revision |-> b.revision, steps |-> << >>, status |-> "running"]
      /\ \A t \in Session : t # s => Untouched(t)
  BY <1>1 DEF Execute, HostExecutes, LoopTypeOK, TypeOK, Enter, Untouched
<1>3. b.rid = obs[s].rid
  BY DEF Bindings
<1>4. /\ run'[s].ops = plan[s].ops /\ run'[s].config = Wanted[s] /\ run'[s].rid = obs[s].rid
      /\ run'[s].steps = << >> /\ run'[s].status = "running"
  BY <1>2, <1>3
<1>5. plan[s].ops \in Seq(Op)
  BY DEF LoopTypeOK
<1>6. WorkMatches(s)' /\ Known(s)' /\ Failing(s)' = FALSE
  BY <1>2, <1>4 DEF SessionInv, WorkMatches, Works, Known, Failing, ociVars
<1>7. Bound(s)'
  BY <1>2, <1>4, <1>5 DEF SessionInv, Bound
<1>8. Left(s)' = DOMAIN plan[s].ops
  BY <1>4, <1>5 DEF Left
<1>9. ASSUME PlanFits(s) PROVE PlanFits(s)' /\ RunFits(s)'
  <2>1. Lacks(s, obs[s].rid)' = Lacks(s, obs[s].rid)
    BY <1>2 DEF Lacks, ociVars
  <2>2. PlanFits(s)'
    BY <1>2, <1>9, <2>1 DEF PlanFits
  <2>3. CASE plan[s].ops = Replacement
    BY <1>4, <2>2, <2>3 DEF RunFits, ReplacementFits
  <2>4. CASE plan[s].ops # Replacement
    <3>1. obs[s].rid # NoRes =>
            Lacks(s, obs[s].rid)' \subseteq Carried(plan[s].ops, DOMAIN plan[s].ops)
      BY <1>2, <1>9, <2>1, <2>4 DEF PlanFits
    <3> QED
      BY <1>2, <1>4, <1>8, <2>2, <2>4, <3>1 DEF RunFits, EditsFit, Lacks, Carried
  <2> QED
    BY <2>2, <2>3, <2>4
<1>10. SessionInv(s)'
  BY <1>2, <1>6, <1>7, <1>9 DEF SessionInv
<1> QED
  BY <1>2, <1>10, OthersStayQuietly

\* The end of a run is a change of its status.
LEMMA StatusFits ==
  ASSUME TypeOK, NEW s \in Session, \A t \in Session : SessionInv(t), NEW status,
         run[s].status = "running", status # "running",
         run' = [run EXCEPT ![s].status = status],
         status = "lost" \/ Len(run[s].steps) = Len(run[s].ops),
         UNCHANGED <<ociVars, obs, phase, plan>>, \A t \in Session : stale'[t] = stale[t]
  PROVE  \A t \in Session : SessionInv(t)'
<1>1. /\ \A t \in Session : t # s => Untouched(t)
      /\ run'[s].ops = run[s].ops /\ run'[s].config = run[s].config
      /\ run'[s].rid = run[s].rid /\ run'[s].steps = run[s].steps /\ run'[s].status = status
  BY DEF TypeOK, Run, Untouched
<1>2. \A i : WorkOf(s, i)' = WorkOf(s, i)
  BY <1>1 DEF WorkOf
<1>3. Works(s)' = Works(s)
  BY <1>1, <1>2 DEF Works
<1>4. WorkMatches(s)' /\ Known(s)'
  BY <1>1, <1>2, <1>3 DEF SessionInv, WorkMatches, Known, ociVars
<1>5. Bound(s)'
  BY <1>1 DEF SessionInv, Bound
<1>6. Left(s)' = Left(s) /\ Failing(s)' = Failing(s)
  BY <1>1, <1>2, <1>3 DEF Left, Failing, ociVars
<1>7. \A rid : Lacks(s, rid)' = Lacks(s, rid) /\ Live(rid)' = Live(rid)
  BY DEF Lacks, Live, ociVars
<1>8. PlanFits(s)' = PlanFits(s)
  BY <1>7 DEF PlanFits
<1>9. RunFits(s) => RunFits(s)'
  BY <1>1, <1>6, <1>7 DEF RunFits, ReplacementFits, EditsFit
<1>10. SessionInv(s)'
  BY <1>4, <1>5, <1>8, <1>9 DEF SessionInv
<1> QED
  BY <1>1, <1>10, OthersStayQuietly

\* A failed or finished run is looked at again, or its plan is sent once more.
LEMMA HostConcludesFits ==
  ASSUME LoopTypeOK, NEW s \in Session, \A t \in Session : SessionInv(t), HostConcludes(s)
  PROVE  \A t \in Session : SessionInv(t)'
<1>1. /\ TypeOK /\ UNCHANGED <<ociVars, obs, run, plan, stale>> /\ Idle(s)
      /\ phase[s] = "wait" /\ phase'[s] \in {"observe", "execute"}
      /\ \A t \in Session : t # s => Untouched(t)
  BY DEF HostConcludes, LoopTypeOK, TypeOK, Enter, Untouched, vars, ociVars
<1>2. WorkMatches(s)' /\ Known(s)'
  BY <1>1 DEF SessionInv, WorkMatches, Works, WorkOf, ociVars, Known
<1>3. Bound(s)' /\ RunFits(s)'
  BY <1>1 DEF SessionInv, Bound, Idle, RunFits
<1>4. PlanFits(s) => PlanFits(s)'
  BY <1>1 DEF PlanFits, Lacks, ociVars
<1>5. SessionInv(s)'
  BY <1>1, <1>2, <1>3, <1>4 DEF SessionInv
<1> QED
  BY <1>1, <1>5, OthersStayQuietly

-----------------------------------------------------------------------------
(* The requests of a run. *)

\* No resource loses what it has of the intent.
NoLoss(s) ==
  \A rid \in ResId : cloud[rid].life # "unused" => Lacks(s, rid)' \subseteq Lacks(s, rid)

\* The body of an operation of the plan, for the session's intent.
Carries(req, s, op) == req.op = op /\ req.role = Role[op] /\ req.body = RenderBody(op, Wanted[s])

LEMMA CarriedOutLosesNothing ==
  ASSUME DerivationsAreCreateTime, OciTypeOK, NEW s \in Session, NEW op, NEW req, NEW wr,
         Carries(req, s, op), CarriedOut(req, wr)
  PROVE  NoLoss(s)
<1> SUFFICES ASSUME NEW rid \in ResId, cloud[rid].life # "unused"
             PROVE  Lacks(s, rid)' \subseteq Lacks(s, rid)
  BY DEF NoLoss
<1>1. cloud[rid].state \in State /\ Wanted[s] \in Config
  BY ReconcileAssumption DEF OciTypeOK, Resource
<1>2. CASE cloud'[rid].state = cloud[rid].state
  BY <1>2 DEF Lacks
<1>3. CASE Edited(req, wr)
  <2>1. CASE rid = req.rid /\ req.op \notin Async
    <3>1. cloud'[rid].state = Overlay(cloud[rid].state, RenderBody(op, Wanted[s]))
      BY <1>3, <2>1 DEF Edited, Carries
    <3> QED
      BY <1>1, <3>1, OverlayNears DEF Lacks
  <2>2. CASE ~(rid = req.rid /\ req.op \notin Async)
    BY <1>2, <1>3, <2>2 DEF Edited
  <2> QED
    BY <2>1, <2>2
<1>4. CASE Deleted(req, wr)
  BY <1>2, <1>4 DEF Deleted
<1>5. CASE Created(req, wr)
  BY <1>2, <1>5 DEF Created
<1> QED
  BY <1>3, <1>4, <1>5 DEF CarriedOut

\* What PlanFits says survives a request and the end of a Work Request.
LEMMA PlanFitsStays ==
  ASSUME TypeOK, NEW s \in Session, PlanFits(s), Known(s), NoLoss(s),
         obs'[s] = obs[s], phase'[s] = phase[s], plan'[s] = plan[s]
  PROVE  PlanFits(s)'
<1>1. obs[s].rid \in ResId \cup {NoRes}
  BY DEF TypeOK, Observation
<1>2. obs[s].rid # NoRes => Lacks(s, obs[s].rid)' \subseteq Lacks(s, obs[s].rid)
  BY <1>1 DEF Known, NoLoss
<1> QED
  BY <1>2 DEF PlanFits

\* The Work Request of a request that was carried out.
LEMMA CarriedOutWork ==
  ASSUME NEW req, NEW wr, CarriedOut(req, wr)
  PROVE  /\ req.op \in Async <=> wr # NoJob
         /\ wr # NoJob => /\ jobs'[wr].status = "ACCEPTED" /\ jobs'[wr].role = req.role
                          /\ jobs'[wr].body = req.body
                          /\ req.role # "create" => jobs'[wr].rid = req.rid
<1>1. ASSUME NEW rid, Started(req, rid, wr), req.role # "create" => rid = req.rid
      PROVE  /\ req.op \in Async <=> wr # NoJob
             /\ wr # NoJob => /\ jobs'[wr].status = "ACCEPTED" /\ jobs'[wr].role = req.role
                              /\ jobs'[wr].body = req.body
                              /\ req.role # "create" => jobs'[wr].rid = req.rid
  BY <1>1 DEF Started
<1> QED
  BY <1>1 DEF CarriedOut, Edited, Deleted, Created

LEMMA PlannedOps ==
  ASSUME NEW ops, Planned(ops), NEW i \in DOMAIN ops
  PROVE  /\ ops[i] \in Op /\ Role[ops[i]] \in {"update", "action", "delete", "create"}
         /\ ops # Replacement => ops[i] \in Edits
<1>1. CASE ops = Replacement
  <2>1. DOMAIN ops = {1, 2}
    BY <1>1 DEF Replacement
  <2>2. ops[1] \in Op /\ ops[2] \in Op /\ Role[ops[1]] = "delete" /\ Role[ops[2]] = "create"
    BY <1>1, ReplacementFacts
  <2> QED
    BY <1>1, <2>1, <2>2
<1>2. CASE ops # Replacement
  <2>1. ops \in Seq(Edits)
    BY <1>2 DEF Planned
  <2>2. ops[i] \in Edits
    BY <2>1
  <2> QED
    BY <2>2 DEF Edits
<1> QED
  BY <1>1, <1>2

\* The step a run gains, and what it leaves of the ones before.
NextStep(s, step) ==
  /\ obs'[s] = obs[s] /\ phase'[s] = phase[s] /\ plan'[s] = plan[s]
  /\ run[s].status = "running" /\ Len(run[s].steps) < Len(run[s].ops)
  /\ run'[s].ops = run[s].ops /\ run'[s].config = run[s].config
  /\ run'[s].rid = run[s].rid
  /\ run'[s].steps = Append(run[s].steps, step)
  /\ run'[s].status = IF Fatal(step) THEN "failed" ELSE "running"

LEMMA NextStepFacts ==
  ASSUME TypeOK, NEW s \in Session, SessionInv(s), InUseStays, NEW step, NextStep(s, step)
  PROVE  LET n == Len(run[s].steps) + 1
         IN  /\ n \in DOMAIN run[s].ops /\ NextOp(s) = run[s].ops[n]
             /\ Len(run'[s].steps) = n /\ run'[s].steps # << >>
             /\ run'[s].steps[n].wr = step.wr
             /\ \A i \in Works(s) : i \in Works(s)' /\ WorkOf(s, i)' = WorkOf(s, i)
             /\ Works(s)' \subseteq Works(s) \cup {n}
             /\ \A i \in Left(s) : i # n => i \in Left(s)'
<1> DEFINE n == Len(run[s].steps) + 1
<1>1. run[s].steps \in Seq(Step) /\ run[s].ops \in Seq(Op)
  BY DEF TypeOK, Run
<1>2. /\ n \in Nat /\ n \in DOMAIN run[s].ops /\ n \notin DOMAIN run[s].steps
      /\ Len(run'[s].steps) = n
      /\ DOMAIN run'[s].steps = (DOMAIN run[s].steps) \cup {n}
      /\ run'[s].steps[n] = step
      /\ \A i \in DOMAIN run[s].steps : run'[s].steps[i] = run[s].steps[i]
  BY <1>1 DEF NextStep
<1>3. run'[s].steps # << >>
  BY <1>2
<1>4. \A i \in DOMAIN run[s].steps : WorkOf(s, i)' = WorkOf(s, i)
  BY <1>2 DEF WorkOf
<1>5. /\ \A i \in Works(s) : i \in Works(s)' /\ WorkOf(s, i)' = WorkOf(s, i)
      /\ Works(s)' \subseteq Works(s) \cup {n}
  BY <1>2, <1>4 DEF Works
<1>6. ASSUME NEW i \in Left(s), i # n PROVE i \in Left(s)'
  <2>1. i \in DOMAIN run[s].ops /\ i \in Nat
    BY <1>1 DEF Left
  <2>2. CASE i > Len(run[s].steps)
    <3>1. i > n
      BY <1>1, <1>6, <2>1, <2>2
    <3> QED
      BY <1>2, <2>1, <3>1 DEF Left, NextStep
  <2>3. CASE i \in Works(s) /\ jobs[WorkOf(s, i)].status # "SUCCEEDED"
    <3>1. jobs'[WorkOf(s, i)] = jobs[WorkOf(s, i)]
      BY <2>3, WorksStay
    <3> QED
      BY <1>5, <2>1, <2>3, <3>1 DEF Left, NextStep
  <2> QED
    BY <2>2, <2>3 DEF Left
<1>7. NextOp(s) = run[s].ops[n]
  BY DEF NextOp
<1> HIDE DEF n
<1> QED
  BY <1>2, <1>3, <1>4, <1>5, <1>6, <1>7 DEF n

\* After a request that was not carried out as planned the run has failed, and no
\* resource lacks more than before.
LEMMA FailedStepFits ==
  ASSUME TypeOK, NEW s \in Session, SessionInv(s), InUseStays, NoLoss(s),
         NEW step, NextStep(s, step), Fatal(step), step.wr = NoJob, stale'[s] = stale[s]
  PROVE  SessionInv(s)'
<1> DEFINE n == Len(run[s].steps) + 1
<1>1. /\ run'[s].status = "failed" /\ run'[s].ops = run[s].ops /\ run'[s].rid = run[s].rid
      /\ phase[s] = "wait" /\ phase'[s] = phase[s] /\ obs'[s] = obs[s] /\ plan'[s] = plan[s]
      /\ Len(run'[s].steps) <= Len(run'[s].ops)
  <2>1. run[s].ops \in Seq(Op) /\ run[s].steps \in Seq(Step)
    BY DEF TypeOK, Run
  <2>2. Len(run'[s].steps) = n /\ run'[s].ops = run[s].ops
    BY NextStepFacts DEF NextStep
  <2> QED
    BY <2>1, <2>2 DEF NextStep, SessionInv, Bound
<1>2. Works(s)' = Works(s) /\ \A i \in Works(s) : WorkOf(s, i)' = WorkOf(s, i)
  <2>1. n \notin Works(s)'
    BY NextStepFacts DEF Works, WorkOf
  <2> QED
    BY <2>1, NextStepFacts
<1> HIDE DEF n
<1>3. WorkMatches(s)'
  BY <1>1, <1>2, WorksStay DEF SessionInv, WorkMatches
<1>4. Known(s)'
  <2>1. obs[s].rid \in ResId \cup {NoRes} /\ run[s].rid \in ResId \cup {NoRes}
    BY DEF TypeOK, Observation, Run
  <2> QED
    BY <1>1, <2>1 DEF SessionInv, Known, InUseStays
<1>5. Bound(s)' /\ RunFits(s)'
  BY <1>1 DEF SessionInv, Bound, RunFits
<1>6. PlanFits(s) => PlanFits(s)'
  BY <1>1, PlanFitsStays DEF SessionInv
<1> QED
  BY <1>3, <1>4, <1>5, <1>6 DEF SessionInv

\* After a request that was carried out, what it carries is there or in its Work Request.
LEMMA DoneStepFits ==
  ASSUME DerivationsAreCreateTime, IntentsAreReadable,
         TypeOK, NEW s \in Session, Planned(run[s].ops), SessionInv(s), InUseStays,
         NEW step, NextStep(s, step), ~Fatal(step), stale'[s] = stale[s],
         NEW req, Carries(req, s, NextOp(s)), req.rid = run[s].rid, CarriedOut(req, step.wr)
  PROVE  SessionInv(s)'
<1> DEFINE n == Len(run[s].steps) + 1
           op == NextOp(s)
<1>1. /\ run'[s].status = "running" /\ run'[s].ops = run[s].ops /\ run'[s].rid = run[s].rid
      /\ run'[s].config = run[s].config /\ run[s].config = Wanted[s]
      /\ run[s].status = "running"
      /\ phase[s] = "wait" /\ phase'[s] = phase[s] /\ obs'[s] = obs[s] /\ plan'[s] = plan[s]
  BY DEF NextStep, SessionInv, Bound
<1>2. /\ run[s].ops \in Seq(Op) /\ run[s].steps \in Seq(Step) /\ n \in Nat
      /\ run[s].rid \in ResId \cup {NoRes} /\ obs[s].rid \in ResId \cup {NoRes}
      /\ cloud \in [ResId -> Resource] /\ OciTypeOK
  BY DEF TypeOK, OciTypeOK, Run, Observation
<1>3. /\ n \in DOMAIN run[s].ops /\ op = run[s].ops[n]
      /\ Len(run'[s].steps) = n /\ run'[s].steps # << >>
      /\ run'[s].steps[n].wr = step.wr
      /\ \A i \in Works(s) : i \in Works(s)' /\ WorkOf(s, i)' = WorkOf(s, i)
      /\ Works(s)' \subseteq Works(s) \cup {n}
      /\ \A i \in Left(s) : i # n => i \in Left(s)'
  BY NextStepFacts
<1>4. /\ op \in Op /\ Role[op] \in {"update", "action", "delete", "create"}
      /\ run[s].ops # Replacement => op \in Edits
  BY <1>3, PlannedOps
<1>5. req.op = op /\ req.role = Role[op] /\ req.body = RenderBody(op, Wanted[s])
  BY DEF Carries
<1>6. /\ req.op \in Async <=> step.wr # NoJob
      /\ step.wr # NoJob => /\ jobs'[step.wr].status = "ACCEPTED"
                            /\ jobs'[step.wr].role = req.role
                            /\ jobs'[step.wr].body = req.body
                            /\ req.role # "create" => jobs'[step.wr].rid = req.rid
  BY CarriedOutWork
<1>7. NoLoss(s)
  BY <1>2, CarriedOutLosesNothing
<1> HIDE DEF n, op
<1>8. WorkMatches(s)'
  <2> SUFFICES ASSUME NEW i \in Works(s)'
               PROVE  LET job == jobs'[run'[s].steps[i].wr]
                          o   == run'[s].ops[i]
                      IN  /\ job.status # "unused" /\ job.role = Role[o]
                          /\ job.body = RenderBody(o, Wanted[s])
                          /\ Role[o] # "create" => job.rid = run'[s].rid
    BY DEF WorkMatches, WorkOf
  <2>1. CASE i \in Works(s)
    <3>1. run'[s].steps[i].wr = WorkOf(s, i) /\ jobs'[WorkOf(s, i)] = jobs[WorkOf(s, i)]
      BY <1>3, <2>1, WorksStay DEF WorkOf
    <3> QED
      BY <1>1, <2>1, <3>1 DEF SessionInv, WorkMatches
  <2>2. CASE i = n
    <3>1. step.wr # NoJob /\ run'[s].steps[i].wr = step.wr /\ run'[s].ops[i] = op
      BY <1>1, <1>3, <2>2 DEF Works, WorkOf
    <3> QED
      BY <1>1, <1>5, <1>6, <3>1
  <2> QED
    BY <1>3, <2>1, <2>2
<1>9. Known(s)'
  BY <1>1, <1>2 DEF SessionInv, Known, InUseStays
<1>10. Bound(s)'
  <2>1. n <= Len(run[s].ops)
    BY <1>2, <1>3
  <2> QED
    BY <1>1, <1>3, <2>1 DEF SessionInv, Bound
<1>11. PlanFits(s) => PlanFits(s)'
  BY <1>1, <1>7, PlanFitsStays DEF SessionInv
<1>12. ASSUME RunFits(s), run[s].ops # Replacement PROVE EditsFit(s)'
  <2>1. op \in Edits /\ Edited(req, step.wr)
    BY <1>4, <1>5, <1>12 DEF CarriedOut, Edits, Edited, Deleted, Created
  <2>2. run[s].rid \in ResId /\ Live(run[s].rid)' /\ run[s].rid # NoRes
    <3>1. run[s].rid \in ResId /\ Live(run[s].rid)'
      BY <1>1, <2>1 DEF Edited, Live
    <3> QED
      BY <3>1, OciAssumption
  <2>3. Lacks(s, run[s].rid) \subseteq Carried(run[s].ops, Left(s)) /\ run[s].rid # NoRes
    BY <1>1, <1>12, <2>2 DEF RunFits, EditsFit
  <2>4. Lacks(s, run[s].rid)' \subseteq Lacks(s, run[s].rid)
    BY <1>1, <1>7, <2>2 DEF NoLoss, SessionInv, Known, Lacks
  <2>5. ASSUME NEW f \in Lacks(s, run[s].rid)' PROVE f \in Carried(run[s].ops, Left(s)')
    <3>1. PICK i \in Left(s) : f \in BodyFields(run[s].ops[i])
      BY <2>3, <2>4, <2>5 DEF Carried
    <3>2. CASE i # n
      BY <1>3, <3>1, <3>2 DEF Carried
    <3>3. CASE i = n /\ step.wr # NoJob
      <4>1. n \in Works(s)'
        BY <1>2, <1>3, <3>3 DEF Works, WorkOf
      <4>2. n \in Left(s)'
        BY <1>1, <1>3, <1>6, <3>3, <4>1 DEF Left, WorkOf
      <4> QED
        BY <3>1, <3>3, <4>2 DEF Carried
    <3>4. CASE i = n /\ step.wr = NoJob
      <4>1. cloud'[run[s].rid].state = Overlay(cloud[run[s].rid].state, RenderBody(op, Wanted[s]))
        BY <1>5, <1>6, <2>1, <3>4 DEF Edited
      <4>2. cloud[run[s].rid].state \in State /\ f \in BodyFields(op)
        BY <1>2, <1>3, <2>2, <3>1, <3>4 DEF Resource
      <4>3. f \notin Missing(Wanted[s], cloud'[run[s].rid].state)
        BY <2>1, <4>1, <4>2, OverlayCarries
      <4> QED
        BY <1>1, <2>5, <4>3 DEF Lacks
    <3> QED
      BY <3>2, <3>3, <3>4
  <2> QED
    BY <1>1, <2>2, <2>3, <2>5 DEF EditsFit, Lacks, Carried
<1>13. ASSUME RunFits(s), run[s].ops = Replacement PROVE ReplacementFits(s)'
  <2>1. n \in {1, 2} /\ Role[Replacement[1]] = "delete" /\ Role[Replacement[2]] = "create"
    <3>1. DOMAIN Replacement = {1, 2}
      BY DEF Replacement
    <3> QED
      BY <1>3, <1>13, <3>1, ReplacementFacts
  <2>2. CASE n = 1
    <3>1. Deleted(req, step.wr)
      BY <1>3, <1>5, <1>13, <2>1, <2>2 DEF CarriedOut, Edited, Deleted, Created
    <3>2. run[s].rid \in ResId
      BY <3>1 DEF Deleted
    <3>3. run'[s].rid # NoRes
      BY <1>1, <3>2, OciAssumption
    <3>4. Len(run'[s].steps) # 2
      BY <1>3, <2>2
    <3> QED
      BY <3>3, <3>4 DEF ReplacementFits
  <2>3. CASE n = 2
    <3>1. run[s].steps # << >>
      BY <1>2, <2>3 DEF n
    <3>2. run[s].rid # NoRes /\ run[s].rid \in ResId
      BY <1>1, <1>2, <1>13, <3>1 DEF RunFits, ReplacementFits
    <3>3. op \in Op /\ Role[op] = "create" /\ Created(req, step.wr)
      BY <1>3, <1>4, <1>5, <1>13, <2>1, <2>3 DEF CarriedOut, Edited, Deleted, Created
    <3>4. PICK rid \in ResId : /\ cloud[rid].life = "unused" /\ Live(rid)'
                               /\ cloud'[rid].state = Provisioned(req.body)
      BY <3>3 DEF Created
    <3>5. rid # run[s].rid
      BY <3>2, <3>4 DEF SessionInv, Known
    <3>6. Lacks(s, rid)' = {}
      BY <1>5, <3>3, <3>4, ProvisionedFits DEF Lacks
    <3> QED
      BY <1>1, <3>2, <3>4, <3>5, <3>6 DEF ReplacementFits
  <2> QED
    BY <2>1, <2>2, <2>3
<1>14. RunFits(s) => RunFits(s)'
  BY <1>1, <1>12, <1>13 DEF RunFits
<1> QED
  BY <1>8, <1>9, <1>10, <1>11, <1>14 DEF SessionInv

\* A step of Execute.
LEMMA ExecuteOneFits ==
  ASSUME DerivationsAreCreateTime, IntentsAreReadable, RepliesAreReadable,
         TypeOK, LoopTypeOK, PlansAreComputed, \A t \in Session : SessionInv(t),
         NEW s \in Session, ExecuteOne(s), Noticed(s), UNCHANGED <<phase, plan>>
  PROVE  \A t \in Session : SessionInv(t)'
<1> DEFINE op == NextOp(s)
           req == Request(op, run[s].rid, run[s].revision, RenderBody(op, run[s].config))
<1>1. run[s].status = "running" /\ Len(run[s].steps) < Len(run[s].ops)
  BY DEF ExecuteOne
<1>2. PICK out \in Outcome :
        /\ ActuateSigned(req, out)
        /\ run' = [run EXCEPT ![s].steps  = Append(@, StepOf(op, out)),
                              ![s].status = IF Fatal(StepOf(op, out)) THEN "failed" ELSE "running"]
  BY DEF ExecuteOne
<1>3. op \in Op /\ req \in RequestSet
  BY <1>1, ExecuteOneType
<1>4. run[s].config = Wanted[s]
  BY <1>1 DEF SessionInv, Bound
<1>5. Carries(req, s, op) /\ req.rid = run[s].rid /\ req.op \in Op
  BY <1>3, <1>4 DEF Carries, Request
<1>6. req.role # "read"
  <2>1. run[s].ops \in Seq(Op) /\ run[s].steps \in Seq(Step)
    BY DEF TypeOK, Run
  <2>2. Len(run[s].steps) + 1 \in DOMAIN run[s].ops
    BY <1>1, <2>1
  <2>3. Role[op] \in {"update", "action", "delete", "create"}
    BY <2>2, PlannedOps DEF PlansAreComputed, NextOp
  <2> QED
    BY <1>5, <2>3 DEF Carries
<1> HIDE DEF req
<1> DEFINE step == StepOf(op, out)
<1>7. OciTypeOK
  BY DEF TypeOK
<1>8. /\ InUseStays
      /\ ~Fatal(step) => CarriedOut(req, step.wr)
      /\ Fatal(step) => /\ step.wr = NoJob
                        /\ UNCHANGED ociVars \/ \E wr : CarriedOut(req, wr)
  BY <1>2, <1>3, <1>5, <1>6, <1>7, ActuateEffect DEF Carries
<1> HIDE DEF step
<1>9. /\ NextStep(s, step) /\ stale'[s] = stale[s]
      /\ \A t \in Session : t # s =>
           Untouched(t) /\ (stale'[t] \/ (cloud' = cloud /\ stale'[t] = stale[t]))
  <2>1. /\ run' = [run EXCEPT ![s].steps  = Append(@, step),
                              ![s].status = IF Fatal(step) THEN "failed" ELSE "running"]
        /\ UNCHANGED obs
    BY <1>2 DEF step, ExecuteOne
  <2>2. NextStep(s, step)
    BY <1>1, <2>1 DEF NextStep, TypeOK, Run
  <2>3. \A t \in Session : t # s => Untouched(t)
    BY <2>1 DEF Untouched, TypeOK
  <2>4. \A t \in Session : stale'[t] = (stale[t] \/ (t # s /\ cloud' # cloud)) /\ stale[t] \in BOOLEAN
    BY DEF Noticed, LoopTypeOK
  <2>5. /\ stale'[s] = stale[s]
        /\ \A t \in Session : t # s => stale'[t] \/ (cloud' = cloud /\ stale'[t] = stale[t])
    BY <2>4, Zenon
  <2> QED
    BY <2>2, <2>3, <2>5
<1>10. CASE ~Fatal(step)
  <2>1. Planned(run[s].ops)
    BY DEF PlansAreComputed
  <2>2. SessionInv(s)'
    BY <1>5, <1>8, <1>9, <1>10, <2>1, DoneStepFits
  <2> QED
    BY <1>8, <1>9, <2>2, OthersStay
<1>11. CASE Fatal(step)
  <2>1. NoLoss(s)
    <3>1. CASE UNCHANGED ociVars
      BY <3>1 DEF NoLoss, Lacks, ociVars
    <3>2. CASE \E wr : CarriedOut(req, wr)
      BY <1>5, <1>7, <3>2, CarriedOutLosesNothing
    <3> QED
      BY <1>8, <1>11, <3>1, <3>2
  <2>2. SessionInv(s)'
    BY <1>8, <1>9, <1>11, <2>1, FailedStepFits
  <2> QED
    BY <1>8, <1>9, <2>2, OthersStay
<1> QED
  BY <1>10, <1>11

-----------------------------------------------------------------------------
(* Work Requests end. *)

\* What the end of a Work Request does to the resource it is about.
Ended(j, end) ==
  LET rid  == jobs[j].rid
      role == jobs[j].role
  IN  /\ role = "delete" => cloud'[rid].state = cloud[rid].state
      /\ role = "create" => /\ cloud'[rid].state = cloud[rid].state
                            /\ end = "SUCCEEDED" => cloud'[rid].life = cloud[rid].life
      /\ role \notin {"delete", "create"} =>
           /\ cloud'[rid].life = cloud[rid].life
           /\ cloud'[rid].state = IF end = "SUCCEEDED"
                                  THEN Overlay(cloud[rid].state, jobs[j].body)
                                  ELSE cloud[rid].state
      /\ cloud[rid].life # "unused" => cloud'[rid].life # "unused"

LEMMA JobEndsEffect ==
  ASSUME OciTypeOK, NEW j \in JobId, JobEnds(j)
  PROVE  /\ jobs[j].status = "ACCEPTED"
         /\ \A i \in JobId : i # j => jobs'[i] = jobs[i]
         /\ \E end \in JobEnd :
              /\ jobs'[j].status = end /\ jobs'[j].role = jobs[j].role
              /\ jobs'[j].rid = jobs[j].rid /\ jobs'[j].body = jobs[j].body
              /\ jobs[j].rid \in ResId => Ended(j, end)
         /\ \A r \in ResId : r # jobs[j].rid => cloud'[r] = cloud[r]
<1> DEFINE rid == jobs[j].rid
           role == jobs[j].role
           state == cloud[rid].state
<1>1. PICK end \in JobEnd :
        /\ jobs' = [jobs EXCEPT ![j].status = end]
        /\ CASE role = "delete" ->
                  Commit(rid, IF end = "SUCCEEDED" THEN "gone" ELSE "live", state)
             [] role = "create" ->
                  Commit(rid, IF end = "SUCCEEDED" THEN cloud[rid].life ELSE "gone", state)
             [] OTHER ->
                  Commit(rid, cloud[rid].life,
                         IF end = "SUCCEEDED" THEN Overlay(state, jobs[j].body) ELSE state)
  BY DEF JobEnds
<1>2. /\ jobs[j].status = "ACCEPTED"
      /\ \A i \in JobId : i # j => jobs'[i] = jobs[i]
      /\ jobs'[j].status = end /\ jobs'[j].role = jobs[j].role
      /\ jobs'[j].rid = jobs[j].rid /\ jobs'[j].body = jobs[j].body
  BY <1>1 DEF JobEnds, OciTypeOK, Job
<1> HIDE DEF state
<1>3. CASE role = "delete"
  <2> DEFINE life == IF end = "SUCCEEDED" THEN "gone" ELSE "live"
  <2>1. Commit(rid, life, state) /\ life # "unused"
    BY <1>1, <1>3
  <2> HIDE DEF life, rid
  <2>2. /\ \A r \in ResId : r # rid => cloud'[r] = cloud[r]
        /\ rid \in ResId => cloud'[rid].life = life /\ cloud'[rid].state = state
    BY <2>1 DEF Commit, OciTypeOK
  <2> QED
    BY <1>2, <1>3, <2>1, <2>2 DEF Ended, rid, state
<1>4. CASE role = "create"
  <2> DEFINE life == IF end = "SUCCEEDED" THEN cloud[rid].life ELSE "gone"
  <2>1. Commit(rid, life, state)
    BY <1>1, <1>4
  <2>2. /\ end = "SUCCEEDED" => life = cloud[rid].life
        /\ cloud[rid].life # "unused" => life # "unused"
    OBVIOUS
  <2> HIDE DEF life, rid
  <2>3. /\ \A r \in ResId : r # rid => cloud'[r] = cloud[r]
        /\ rid \in ResId => cloud'[rid].life = life /\ cloud'[rid].state = state
    BY <2>1 DEF Commit, OciTypeOK
  <2> QED
    BY <1>2, <1>4, <2>2, <2>3 DEF Ended, rid, state
<1>5. CASE role \notin {"delete", "create"}
  <2> DEFINE life == cloud[rid].life
             after == IF end = "SUCCEEDED" THEN Overlay(state, jobs[j].body) ELSE state
  <2>1. Commit(rid, life, after)
    BY <1>1, <1>5
  <2> HIDE DEF life, after, rid
  <2>3. /\ \A r \in ResId : r # rid => cloud'[r] = cloud[r]
        /\ rid \in ResId => cloud'[rid].life = life /\ cloud'[rid].state = after
    BY <2>1 DEF Commit, OciTypeOK
  <2> QED
    BY <1>2, <1>5, <2>3 DEF Ended, life, after, rid, state
<1> QED
  BY <1>3, <1>4, <1>5

\* The end of a Work Request of the session's own run.
LEMMA OwnWorkEnds ==
  ASSUME DerivationsAreCreateTime, IntentsAreReadable,
         TypeOK, NEW s \in Session, Planned(run[s].ops), SessionInv(s), Untouched(s),
         stale'[s] = stale[s], NEW k \in Works(s), NEW j \in JobId, j = WorkOf(s, k), JobEnds(j)
  PROVE  SessionInv(s)'
<1> DEFINE op == run[s].ops[k]
           rid == jobs[j].rid
<1>1. /\ run[s].ops \in Seq(Op) /\ run[s].steps \in Seq(Step) /\ OciTypeOK
      /\ run[s].rid \in ResId \cup {NoRes} /\ obs[s].rid \in ResId \cup {NoRes}
      /\ cloud \in [ResId -> Resource] /\ Wanted[s] \in Config
  BY ReconcileAssumption DEF TypeOK, OciTypeOK, Run, Observation
<1>2. k \in DOMAIN run[s].ops
  BY <1>1 DEF Works, SessionInv, Bound
<1>3. /\ op \in Op /\ Role[op] \in {"update", "action", "delete", "create"}
      /\ run[s].ops # Replacement => op \in Edits
  BY <1>2, PlannedOps
<1>4. /\ jobs[j].role = Role[op] /\ jobs[j].body = RenderBody(op, Wanted[s])
      /\ Role[op] # "create" => rid = run[s].rid
  BY DEF SessionInv, WorkMatches
<1>5. PICK end \in JobEnd :
        /\ jobs[j].status = "ACCEPTED"
        /\ \A i \in JobId : i # j => jobs'[i] = jobs[i]
        /\ jobs'[j].status = end /\ jobs'[j].role = jobs[j].role
        /\ jobs'[j].rid = jobs[j].rid /\ jobs'[j].body = jobs[j].body
        /\ rid \in ResId => Ended(j, end)
        /\ \A r \in ResId : r # rid => cloud'[r] = cloud[r]
  BY <1>1, JobEndsEffect
<1> HIDE DEF op, rid
<1>6. end \in {"SUCCEEDED", "FAILED", "CANCELED"}
  BY OciAssumption
<1>7. /\ \A i : WorkOf(s, i)' = WorkOf(s, i)
      /\ Works(s)' = Works(s)
      /\ \A i \in Works(s) : WorkOf(s, i) \in JobId
  <2>1. \A i : WorkOf(s, i)' = WorkOf(s, i)
    BY DEF Untouched, WorkOf
  <2>2. Works(s)' = Works(s)
    BY <2>1 DEF Untouched, Works
  <2>3. ASSUME NEW i \in Works(s) PROVE WorkOf(s, i) \in JobId
    <3>1. run[s].steps[i] \in Step /\ WorkOf(s, i) # NoJob
      BY <1>1 DEF Works
    <3> QED
      BY <3>1 DEF WorkOf, Step
  <2> QED
    BY <2>1, <2>2, <2>3
<1>8. \A i \in Works(s) :
        /\ jobs'[WorkOf(s, i)].role = jobs[WorkOf(s, i)].role
        /\ jobs'[WorkOf(s, i)].rid = jobs[WorkOf(s, i)].rid
        /\ jobs'[WorkOf(s, i)].body = jobs[WorkOf(s, i)].body
        /\ WorkOf(s, i) # j => jobs'[WorkOf(s, i)] = jobs[WorkOf(s, i)]
  BY <1>5, <1>7
<1>9. \A r \in ResId : cloud[r].life # "unused" => cloud'[r].life # "unused"
  BY <1>5 DEF Ended, rid
<1>10. WorkMatches(s)'
  <2>1. \A i \in Works(s) : jobs'[WorkOf(s, i)].status # "unused"
    BY <1>5, <1>6, <1>8 DEF SessionInv, WorkMatches
  <2> QED
    BY <1>7, <1>8, <2>1 DEF SessionInv, WorkMatches, Untouched
<1>11. Known(s)'
  BY <1>1, <1>9 DEF SessionInv, Known, Untouched
<1>12. Bound(s)'
  BY DEF SessionInv, Bound, Untouched
<1>13. ASSUME rid \in ResId, cloud'[rid].state # cloud[rid].state
       PROVE  /\ Role[op] \in {"update", "action"} /\ end = "SUCCEEDED"
              /\ cloud'[rid].state = Overlay(cloud[rid].state, RenderBody(op, Wanted[s]))
  BY <1>3, <1>4, <1>5, <1>13 DEF Ended, rid
<1>14. NoLoss(s)
  <2> SUFFICES ASSUME NEW r \in ResId PROVE Lacks(s, r)' \subseteq Lacks(s, r)
    BY DEF NoLoss
  <2>1. CASE cloud'[r].state = cloud[r].state
    BY <2>1 DEF Lacks
  <2>2. CASE r = rid /\ cloud'[r].state # cloud[r].state
    <3>1. cloud'[r].state = Overlay(cloud[r].state, RenderBody(op, Wanted[s]))
      BY <1>13, <2>2
    <3>2. cloud[r].state \in State
      BY <1>1 DEF Resource
    <3> QED
      BY <1>1, <3>1, <3>2, OverlayNears DEF Lacks
  <2> QED
    BY <1>5, <2>1, <2>2
<1>15. PlanFits(s) => PlanFits(s)'
  BY <1>14, PlanFitsStays DEF SessionInv, Untouched
<1>16. ASSUME EditsFit(s), run[s].ops # Replacement PROVE EditsFit(s)'
  <2>1. op \in Edits /\ rid = run[s].rid /\ Role[op] \in {"update", "action"}
    BY <1>3, <1>4, <1>16 DEF Edits
  <2>2. rid # NoRes /\ rid \in ResId /\ Live(rid)
    <3>1. run[s].steps # << >>
      BY DEF Works
    <3> QED
      BY <1>1, <1>16, <2>1, <3>1 DEF EditsFit
  <2>3. Live(rid)'
    <3>1. cloud'[rid].life = cloud[rid].life
      BY <1>4, <1>5, <2>1, <2>2 DEF Ended, rid
    <3>2. cloud'[rid].life = "live"
      BY <2>2, <3>1 DEF Live
    <3>3. rid' = rid
      BY <1>5 DEF rid
    <3> QED
      BY <3>2, <3>3 DEF Live
  <2>4. ASSUME NEW i \in Left(s), i \notin Works(s) \/ WorkOf(s, i) # j \/ end # "SUCCEEDED"
        PROVE  i \in Left(s)'
    BY <1>5, <1>7, <1>8, <2>4 DEF Left, Untouched
  <2>5. Lacks(s, rid) \subseteq Carried(run[s].ops, Left(s))
    BY <1>16, <2>1, <2>2 DEF EditsFit
  <2>6. ASSUME NEW f, f \in Missing(Wanted[s], cloud'[rid].state)
        PROVE  f \in Carried(run[s].ops, Left(s)')
    <3>1. f \in Lacks(s, rid)
      <4>1. cloud[rid].life # "unused"
        BY <2>2 DEF Live
      <4>2. Missing(Wanted[s], cloud'[rid].state) \subseteq Missing(Wanted[s], cloud[rid].state)
        <5>1. CASE cloud'[rid].state = cloud[rid].state
          BY <5>1
        <5>2. CASE cloud'[rid].state # cloud[rid].state
          <6>1. cloud[rid].state \in State
            BY <1>1, <2>2 DEF Resource
          <6> QED
            BY <1>1, <1>13, <2>2, <5>2, <6>1, OverlayNears
        <5> QED
          BY <5>1, <5>2
      <4> QED
        BY <2>6, <4>2 DEF Lacks
    <3>2. PICK i \in Left(s) : f \in BodyFields(run[s].ops[i])
      BY <2>5, <3>1 DEF Carried
    <3>3. ASSUME i \in Works(s), WorkOf(s, i) = j, end = "SUCCEEDED" PROVE FALSE
      <4>1. i \in DOMAIN run[s].ops
        BY DEF Left
      <4>2. run[s].ops[i] \in Edits
        BY <1>16, <4>1, PlannedOps
      <4>3. /\ jobs[j].body = RenderBody(run[s].ops[i], Wanted[s])
            /\ jobs[j].role = Role[run[s].ops[i]]
        BY <3>3 DEF SessionInv, WorkMatches
      <4>4. cloud'[rid].state = Overlay(cloud[rid].state, jobs[j].body)
        BY <1>4, <1>5, <2>1, <2>2, <3>3 DEF Ended, rid
      <4>5. cloud[rid].state \in State
        BY <1>1, <2>2 DEF Resource
      <4> QED
        BY <2>6, <3>2, <4>2, <4>3, <4>4, <4>5, OverlayCarries
    <3>4. i \in Left(s)'
      BY <2>4, <3>3
    <3> QED
      BY <3>2, <3>4 DEF Carried
  <2>7. run'[s] = run[s] /\ run'[s].rid = rid
    BY <2>1 DEF Untouched
  <2>8. Missing(Wanted[s], cloud'[run'[s].rid].state) \subseteq Carried(run'[s].ops, Left(s)')
    BY <2>6, <2>7
  <2>9. cloud'[run'[s].rid].life = "live"
    BY <1>4, <1>5, <2>1, <2>2, <2>7 DEF Ended, rid, Live
  <2> QED
    BY <2>2, <2>7, <2>8, <2>9 DEF EditsFit, Lacks, Live, Carried
<1>17. ASSUME ReplacementFits(s) PROVE ReplacementFits(s)'
  <2>1. CASE Failing(s)
    <3>1. PICK i \in Works(s) : jobs[WorkOf(s, i)].status \in {"FAILED", "CANCELED"}
      BY <2>1 DEF Failing
    <3>2. jobs'[WorkOf(s, i)] = jobs[WorkOf(s, i)]
      BY <1>5, <1>8, <3>1
    <3>3. Failing(s)'
      BY <1>7, <3>1, <3>2 DEF Failing
    <3> QED
      BY <1>17, <3>3 DEF ReplacementFits, Untouched
  <2>2. CASE Len(run[s].steps) # 2
    BY <1>17, <2>2 DEF ReplacementFits, Untouched
  <2>3. CASE end # "SUCCEEDED"
    <3>1. jobs'[WorkOf(s, k)].status \in {"FAILED", "CANCELED"}
      BY <1>5, <1>6, <2>3
    <3>2. Failing(s)'
      BY <1>7, <3>1 DEF Failing
    <3> QED
      BY <1>17, <3>2 DEF ReplacementFits, Untouched
  <2>4. CASE ~Failing(s) /\ Len(run[s].steps) = 2 /\ end = "SUCCEEDED"
    <3>1. PICK r \in ResId : r # run[s].rid /\ Live(r) /\ Lacks(s, r) = {}
      BY <1>17, <2>4 DEF ReplacementFits
    <3>2. Lacks(s, r)' = {}
      BY <1>14, <3>1 DEF NoLoss, Live
    <3>3. Live(r)'
      <4>1. CASE r # rid
        BY <1>5, <3>1, <4>1 DEF Live
      <4>2. CASE r = rid
        <5>1. Role[op] = "create"
          BY <1>4, <3>1, <4>2
        <5>2. cloud'[r].life = cloud[r].life
          BY <1>4, <1>5, <2>4, <4>2, <5>1 DEF Ended, rid
        <5> QED
          BY <3>1, <5>2 DEF Live
      <4> QED
        BY <4>1, <4>2
    <3> QED
      BY <1>17, <3>1, <3>2, <3>3 DEF ReplacementFits, Untouched
  <2> QED
    BY <2>1, <2>2, <2>3, <2>4
<1>18. RunFits(s) => RunFits(s)'
  BY <1>16, <1>17 DEF RunFits, Untouched
<1> QED
  BY <1>10, <1>11, <1>12, <1>15, <1>18 DEF SessionInv

LEMMA WorkEndsFits ==
  ASSUME DerivationsAreCreateTime, IntentsAreReadable, LoopTypeOK, PlansAreComputed,
         \A t \in Session : SessionInv(t), NEW j \in JobId, LoopWorkEnds(j)
  PROVE  \A t \in Session : SessionInv(t)'
<1> SUFFICES ASSUME NEW t \in Session PROVE SessionInv(t)'
  OBVIOUS
<1>1. /\ JobEnds(j) /\ Untouched(t) /\ TypeOK /\ OciTypeOK
      /\ stale'[t] = (stale[t] \/ ~Tracks(t, j)) /\ stale[t] \in BOOLEAN
  BY DEF LoopWorkEnds, WorkEnds, Untouched, LoopTypeOK, TypeOK
<1>2. j # NoJob
  BY OciAssumption
<1>3. CASE Tracks(t, j)
  <2>1. PICK k \in DOMAIN run[t].steps : run[t].steps[k].wr = j
    BY <1>3 DEF Tracks
  <2>2. k \in Works(t) /\ j = WorkOf(t, k)
    BY <1>2, <2>1 DEF Works, WorkOf
  <2>3. Planned(run[t].ops) /\ stale'[t] = stale[t]
    BY <1>1, <1>3 DEF PlansAreComputed
  <2> QED
    BY <1>1, <2>2, <2>3, OwnWorkEnds
<1>4. CASE ~Tracks(t, j)
  <2>1. \A r \in ResId : cloud[r].life # "unused" => cloud'[r].life # "unused"
    BY <1>1, JobEndsEffect DEF Ended
  <2>2. ASSUME NEW i \in Works(t) PROVE jobs'[WorkOf(t, i)] = jobs[WorkOf(t, i)]
    <3>1. run[t].steps \in Seq(Step) /\ i \in DOMAIN run[t].steps /\ WorkOf(t, i) # NoJob
      BY <1>1 DEF TypeOK, Run, Works
    <3>2. run[t].steps[i] \in Step
      BY <3>1
    <3>3. WorkOf(t, i) \in JobId /\ WorkOf(t, i) # j
      BY <1>4, <3>1, <3>2 DEF WorkOf, Step, Tracks
    <3> QED
      BY <1>1, <3>3, JobEndsEffect
  <2> QED
    BY <1>1, <1>4, <2>1, <2>2, SessionStays
<1> QED
  BY <1>3, <1>4

LEMMA OthersWriteFits ==
  ASSUME LoopTypeOK, \A t \in Session : SessionInv(t), NEW rid \in ResId, LoopOthersWrite(rid)
  PROVE  \A t \in Session : SessionInv(t)'
<1>1. /\ TypeOK /\ OciTypeOK /\ UNCHANGED jobs
      /\ \A t \in Session : Untouched(t) /\ stale'[t] = TRUE
  BY DEF LoopOthersWrite, OthersWrite, ForeignWrite, Untouched, LoopTypeOK, TypeOK
<1>2. PICK state : Commit(rid, "live", state)
  BY DEF LoopOthersWrite, OthersWrite, ForeignWrite
<1>3. /\ \A r \in ResId : r # rid => cloud'[r] = cloud[r]
      /\ cloud'[rid].life = "live"
  BY <1>1, <1>2, CommitLives
<1>4. InUseStays
  BY <1>1, <1>3 DEF InUseStays
<1> QED
  BY <1>1, <1>4, OthersStay

-----------------------------------------------------------------------------
(* The theorem. *)

LEMMA ConvergenceInit == LoopInit => ConvergenceInv
<1> SUFFICES ASSUME LoopInit PROVE ConvergenceInv
  OBVIOUS
<1>1. LoopTypeOK
  BY LoopInitType
<1>2. PlansAreComputed
  BY OneInvInit DEF OneInv
<1>3. ASSUME NEW s \in Session PROVE SessionInv(s)
  <2>1. /\ obs[s].rid = NoRes /\ run[s].rid = NoRes /\ run[s].steps = << >>
        /\ run[s].ops = << >> /\ run[s].status = "none" /\ phase[s] = "observe"
    BY DEF LoopInit, Init, Unobserved, NoRun
  <2> QED
    BY <2>1 DEF SessionInv, WorkMatches, Works, Known, Bound, PlanFits, RunFits
<1> QED
  BY <1>1, <1>2, <1>3 DEF ConvergenceInv

\* The plans of the host stay plans that Plan computed.
LEMMA PlansStayComputed ==
  ASSUME LoopTypeOK, PlansAreComputed, [LoopNext]_loopVars
  PROVE  PlansAreComputed'
<1>1. TypeOK
  BY DEF LoopTypeOK
<1>2. ASSUME \A s \in Session : plan'[s].ops = plan[s].ops \/ Planned(plan'[s].ops),
             \A s \in Session : run'[s].ops = run[s].ops \/ Planned(run'[s].ops)
      PROVE  PlansAreComputed'
  BY <1>2 DEF PlansAreComputed
<1>3. CASE UNCHANGED <<run, plan>>
  BY <1>2, <1>3
<1>4. ASSUME NEW s \in Session, HostPlans(s) PROVE PlansAreComputed'
  <2>1. plan' = [plan EXCEPT ![s] = PlanFor(s)] /\ UNCHANGED run
    BY <1>4 DEF HostPlans, vars
  <2>2. Planned(PlanFor(s).ops)
    BY <1>1, PlanForFacts
  <2> QED
    BY <1>2, <2>1, <2>2 DEF LoopTypeOK
<1>5. ASSUME NEW s \in Session, HostExecutes(s) PROVE PlansAreComputed'
  <2>1. PICK b \in Bindings(s) : Execute(s, plan[s].ops, Wanted[s], b)
    BY <1>5 DEF HostExecutes
  <2>2. /\ \A t \in Session : t # s => run'[t] = run[t]
        /\ run'[s].ops = plan[s].ops /\ UNCHANGED plan
    BY <1>1, <1>5, <2>1 DEF Execute, HostExecutes, TypeOK
  <2> QED
    BY <1>2, <2>2 DEF PlansAreComputed
<1>6. ASSUME NEW s \in Session, GuestActs(s) \/ HostAborts(s) PROVE PlansAreComputed'
  <2>1. CASE ExecuteOne(s)
    <3>1. PICK step, status :
            run' = [run EXCEPT ![s].steps = Append(@, step), ![s].status = status]
      BY <2>1 DEF ExecuteOne
    <3>2. \A t \in Session : run'[t].ops = run[t].ops
      BY <1>1, <3>1 DEF TypeOK, Run
    <3> QED
      BY <1>2, <1>6, <3>2 DEF GuestActs, HostAborts, hostVars
  <2>2. CASE ExecuteReturns(s) \/ Abort(s)
    <3>1. PICK status : run' = [run EXCEPT ![s].status = status]
      BY <2>2 DEF ExecuteReturns, Abort
    <3>2. \A t \in Session : run'[t].ops = run[t].ops
      BY <1>1, <3>1 DEF TypeOK, Run
    <3> QED
      BY <1>2, <1>6, <3>2 DEF GuestActs, HostAborts, hostVars
  <2> QED
    BY <1>6, <2>1, <2>2 DEF GuestActs, Guest, HostAborts
<1>7. ASSUME NEW s \in Session,
             HostObserves(s) \/ HostFindsNothing(s) \/ HostPolls(s) \/ HostConcludes(s)
      PROVE  UNCHANGED <<run, plan>>
  BY <1>7 DEF HostObserves, ObserveOnce, HostFindsNothing, HostPolls, Poll, HostConcludes,
              hostVars, vars
<1>8. ASSUME NEW j \in JobId, LoopWorkEnds(j) PROVE UNCHANGED <<run, plan>>
  BY <1>8 DEF LoopWorkEnds, WorkEnds
<1>9. ASSUME NEW rid \in ResId, LoopOthersWrite(rid) PROVE UNCHANGED <<run, plan>>
  BY <1>9 DEF LoopOthersWrite, OthersWrite
<1>10. CASE UNCHANGED loopVars
  BY <1>3, <1>10 DEF loopVars, vars
<1> QED
  BY <1>3, <1>4, <1>5, <1>6, <1>7, <1>8, <1>9, <1>10 DEF LoopNext, SessionActs

LEMMA ConvergenceNext ==
  ASSUME DerivationsAreCreateTime, ActionsAreNamed, IntentsAreReadable, RepliesAreReadable,
         ConvergenceInv, [LoopNext]_loopVars
  PROVE  ConvergenceInv'
<1>1. LoopTypeOK /\ TypeOK /\ PlansAreComputed /\ \A t \in Session : SessionInv(t)
  BY DEF ConvergenceInv, LoopTypeOK
<1>2. LoopTypeOK' /\ PlansAreComputed'
  BY <1>1, LoopStepType, PlansStayComputed
<1>3. ASSUME \A t \in Session : SessionInv(t)' PROVE ConvergenceInv'
  BY <1>2, <1>3 DEF ConvergenceInv
<1>4. ASSUME UNCHANGED <<cloud, jobs, obs, run, phase, plan, stale>>
      PROVE  \A t \in Session : SessionInv(t)'
  <2>1. InUseStays /\ \A t \in Session : Untouched(t)
    BY <1>4 DEF InUseStays, Untouched
  <2> QED
    BY <1>1, <1>4, <2>1, OthersStay
<1>5. CASE UNCHANGED loopVars
  BY <1>3, <1>4, <1>5 DEF loopVars, vars
<1>6. ASSUME NEW s \in Session, HostObserves(s) PROVE ConvergenceInv'
  BY <1>1, <1>3, <1>6, HostObservesFits
<1>7. ASSUME NEW s \in Session, HostFindsNothing(s) PROVE ConvergenceInv'
  BY <1>1, <1>3, <1>7, HostFindsNothingFits
<1>8. ASSUME NEW s \in Session, HostPlans(s) PROVE ConvergenceInv'
  BY <1>1, <1>3, <1>8, HostPlansFits
<1>9. ASSUME NEW s \in Session, HostExecutes(s) PROVE ConvergenceInv'
  BY <1>1, <1>3, <1>9, HostExecutesFits
<1>10. ASSUME NEW s \in Session, GuestActs(s) PROVE ConvergenceInv'
  <2>1. Noticed(s) /\ UNCHANGED <<phase, plan>>
    BY <1>10 DEF GuestActs
  <2>2. CASE ExecuteOne(s)
    BY <1>1, <1>3, <2>1, <2>2, ExecuteOneFits
  <2>3. CASE ExecuteReturns(s)
    <3> DEFINE status == IF Pending(run[s].steps) THEN "accepted" ELSE "succeeded"
    <3>1. /\ run[s].status = "running" /\ status # "running"
          /\ Len(run[s].steps) = Len(run[s].ops)
          /\ run' = [run EXCEPT ![s].status = status]
          /\ UNCHANGED <<ociVars, obs, phase, plan>>
      BY <2>1, <2>3 DEF ExecuteReturns
    <3>2. \A t \in Session : stale'[t] = stale[t]
      <4>1. cloud' = cloud
        BY <3>1 DEF ociVars
      <4>2. \A t \in Session : stale'[t] = (stale[t] \/ (t # s /\ cloud' # cloud))
                               /\ stale[t] \in BOOLEAN
        BY <1>1, <2>1 DEF Noticed, LoopTypeOK
      <4> QED
        BY <4>1, <4>2, Zenon
    <3> HIDE DEF status
    <3> QED
      BY <1>1, <1>3, <3>1, <3>2, StatusFits
  <2> QED
    BY <1>10, <2>2, <2>3 DEF GuestActs, Guest
<1>11. ASSUME NEW s \in Session, HostAborts(s) PROVE ConvergenceInv'
  <2>1. /\ run[s].status = "running" /\ run' = [run EXCEPT ![s].status = "lost"]
        /\ UNCHANGED <<ociVars, obs, phase, plan>> /\ stale' = stale
    BY <1>11 DEF HostAborts, Abort, hostVars
  <2> QED
    BY <1>1, <1>3, <2>1, StatusFits
<1>12. ASSUME NEW s \in Session, HostPolls(s) PROVE ConvergenceInv'
  <2>1. UNCHANGED <<cloud, jobs, obs, run, phase, plan, stale>>
    BY <1>12 DEF HostPolls, Poll, hostVars, ociVars
  <2> QED
    BY <1>3, <1>4, <2>1
<1>13. ASSUME NEW s \in Session, HostConcludes(s) PROVE ConvergenceInv'
  BY <1>1, <1>3, <1>13, HostConcludesFits
<1>14. ASSUME NEW j \in JobId, LoopWorkEnds(j) PROVE ConvergenceInv'
  BY <1>1, <1>3, <1>14, WorkEndsFits
<1>15. ASSUME NEW rid \in ResId, LoopOthersWrite(rid) PROVE ConvergenceInv'
  BY <1>1, <1>3, <1>15, OthersWriteFits
<1> QED
  BY <1>5, <1>6, <1>7, <1>8, <1>9, <1>10, <1>11, <1>12, <1>13, <1>14, <1>15
     DEF LoopNext, SessionActs

\* A run that succeeded and that nobody interfered with, its Work Requests all
\* succeeded, leaves a live resource that a fresh plan finds nothing to change on:
\* for any number of sessions, resources and retries, whatever was lost on the way,
\* whichever operations are asynchronous (Plan, Execute and renderBody of
\* provider.go, applyDerivations of correspondence.go).
THEOREM UndisturbedRunsConverge ==
  ASSUME DerivationsAreCreateTime, ActionsAreNamed, IntentsAreReadable, RepliesAreReadable
  PROVE  LoopSpec => []CleanRunConverges
<1>1. LoopInit => ConvergenceInv
  BY ConvergenceInit
<1>2. ConvergenceInv /\ [LoopNext]_loopVars => ConvergenceInv'
  BY ConvergenceNext
<1>3. ConvergenceInv => CleanRunConverges
  BY FitsAtTheEnd DEF ConvergenceInv, CleanRunConverges
<1> QED
  BY <1>1, <1>2, <1>3, PTL DEF LoopSpec

=============================================================================
