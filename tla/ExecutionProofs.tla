--------------------------- MODULE ExecutionProofs ---------------------------
(***************************************************************************)
(* Proofs about module Execution, for every contract, every number of      *)
(* sessions, resources and Work Requests, every set of faults and without  *)
(* the bounds TLC needs being small: its invariants, and that it           *)
(* implements module PlanRun, fairness left to TLC.                        *)
(***************************************************************************)
EXTENDS Execution, TLAPS

-----------------------------------------------------------------------------
(* Facts about the contract's operators. *)

\* Every lifecycle role names one operation of the contract (opByRole).
LEMMA OpByRoleType ==
  ASSUME NEW role \in LifecycleRole
  PROVE  OpByRole(role) \in Op /\ Role[OpByRole(role)] = role
<1>1. PICK o \in Op : \A p \in Op : Role[p] = role <=> p = o
  BY ContractAssumption
<1>2. \E p \in Op : Role[p] = role
  BY <1>1
<1> QED
  BY <1>2 DEF OpByRole

\* Every operation has a role.
LEMMA RoleType == \A op \in Op : Role[op] \in LifecycleRole \cup {"action"}
  BY ContractAssumption

LEMMA EmptyTypes == EmptyConfig \in Config /\ NoState \in State
  BY DEF EmptyConfig, Config, NoState, State, Maybe

\* A rendered body is a configuration.
LEMMA RenderBodyType ==
  ASSUME NEW op, NEW config \in Config
  PROVE  RenderBody(op, config) \in Config
  BY DEF RenderBody, Config, Maybe

\* A rule turns a value that is shown into a value.
LEMMA DeriveType ==
  ASSUME NEW d \in Derivation, NEW v \in Value
  PROVE  Derive(d.rule, v) \in Value
<1>1. {"true", "false"} \subseteq Value /\ d.rule \in Rule
  BY ContractAssumption
<1> QED
  BY <1>1 DEF Derive, Rule

\* The projection of a state on the configuration surface is a configuration.
LEMMA EffectiveConfigType ==
  ASSUME NEW state \in State
  PROVE  EffectiveConfig(state) \in Config
<1> DEFINE Applies(f, d) == d.field = f /\ state[d.from] # Absent
<1> SUFFICES ASSUME NEW f \in Field
             PROVE  EffectiveConfig(state)[f] \in Maybe
  BY DEF EffectiveConfig, Config
<1>1. CASE \E d \in Derivation : Applies(f, d)
  <2> DEFINE d == CHOOSE d \in Derivation : Applies(f, d)
  <2>1. d \in Derivation /\ Applies(f, d)
    BY <1>1
  <2>2. d.from \in StateField
    BY <2>1, ContractAssumption
  <2>3. state[d.from] \in Value
    BY <2>1, <2>2 DEF State, Maybe
  <2>4. EffectiveConfig(state)[f] = Derive(d.rule, state[d.from])
    BY <1>1 DEF EffectiveConfig
  <2> HIDE DEF d
  <2> QED
    BY <2>1, <2>3, <2>4, DeriveType DEF Maybe
<1>2. CASE ~ \E d \in Derivation : Applies(f, d)
  <2>1. EffectiveConfig(state)[f] = Projected(state, f)
    BY <1>2 DEF EffectiveConfig
  <2> QED
    BY <2>1 DEF Projected, State, Maybe
<1> QED
  BY <1>1, <1>2

-----------------------------------------------------------------------------
(* Facts about the provider's service. *)

RequestSet == [op : Op, role : LifecycleRole \cup {"action"}, rid : ResId \cup {NoRes},
               ifMatch : Nat, body : Config]

LEMMA RequestType ==
  ASSUME NEW op \in Op, NEW rid \in ResId \cup {NoRes}, NEW ifMatch \in Nat,
         NEW body \in Config
  PROVE  Request(op, rid, ifMatch, body) \in RequestSet
  BY RoleType DEF Request, RequestSet

LEMMA OverlayType ==
  ASSUME NEW state \in State, NEW body \in Config
  PROVE  Overlay(state, body) \in State
  BY DEF Overlay, State, Config, Maybe

\* What a create makes of its body is a state.
LEMMA ProvisionedType ==
  ASSUME NEW body \in Config
  PROVE  Provisioned(body) \in State
<1> DEFINE Applies(f, d) == d.from = f /\ body[d.field] # Absent
<1> SUFFICES ASSUME NEW f \in StateField
             PROVE  Provisioned(body)[f] \in Maybe
  BY DEF Provisioned, State
<1>1. CASE \E d \in Derivation : Applies(f, d)
  <2> DEFINE d == CHOOSE d \in Derivation : Applies(f, d)
  <2>1. d \in Derivation /\ Applies(f, d)
    BY <1>1
  <2>2. d.field \in Field /\ d.rule \in Rule /\ {"true", "false", "some"} \subseteq Maybe
    BY <2>1, ContractAssumption DEF Maybe
  <2>3. body[d.field] \in Maybe
    BY <2>2 DEF Config
  <2>4. Provisioned(body)[f] = Realised(d.rule, body[d.field])
    BY <1>1 DEF Provisioned
  <2> HIDE DEF d
  <2> QED
    BY <2>2, <2>3, <2>4, OciAssumption DEF Realised, Rule
<1>2. CASE ~ \E d \in Derivation : Applies(f, d)
  <2>1. Provisioned(body)[f] = IF f \in Field THEN body[f] ELSE Absent
    BY <1>2 DEF Provisioned
  <2> QED
    BY <2>1 DEF Config, Maybe
<1> QED
  BY <1>1, <1>2

\* A change keeps the service well typed, hands out one new etag and touches one
\* resource only.
LEMMA CommitFacts ==
  ASSUME OciTypeOK, NEW rid, NEW life, NEW state,
         rid \in ResId => life \in {"unused", "live", "deleting", "gone"} /\ state \in State,
         Commit(rid, life, state)
  PROVE  /\ cloud' \in [ResId -> Resource]
         /\ rev' = rev + 1 /\ rev' \in Nat
         /\ \A r \in ResId : r # rid => cloud'[r] = cloud[r]
         /\ rid \in ResId => cloud'[rid].etag = rev + 1
<1>1. rev' = rev + 1 /\ rev' \in Nat
  BY DEF Commit, OciTypeOK
<1> DEFINE new == [life |-> life, etag |-> rev + 1, state |-> state]
<1>2. cloud' = [cloud EXCEPT ![rid] = new] /\ cloud \in [ResId -> Resource]
  BY DEF Commit, OciTypeOK
<1>3. rid \in ResId => new \in Resource
  BY <1>1 DEF Resource
<1>4. new.etag = rev + 1
  OBVIOUS
<1> HIDE DEF new
<1> QED
  BY <1>1, <1>2, <1>3, <1>4

\* The book-keeping of Work Requests is well typed.
LEMMA TrackType ==
  ASSUME OciTypeOK, NEW req \in RequestSet, NEW rid \in ResId \cup {NoRes}, NEW j,
         Track(req, rid, j)
  PROVE  jobs' \in [JobId -> Job] /\ j \in JobId \cup {NoJob}
<1>1. CASE req.op \in Async
  <2> DEFINE new == [status |-> "ACCEPTED", role |-> req.role, rid |-> rid,
                     body |-> req.body]
  <2>1. new \in Job
    BY DEF Job, JobStatus, RequestSet
  <2>2. j \in JobId /\ jobs' = [jobs EXCEPT ![j] = new]
    BY <1>1 DEF Track
  <2> HIDE DEF new
  <2> QED
    BY <2>1, <2>2 DEF OciTypeOK
<1>2. CASE req.op \notin Async
  BY <1>2 DEF Track, OciTypeOK
<1> QED
  BY <1>1, <1>2

\* What any request may do to the service, and what its reply then says.
Served(req, rep) ==
  /\ OciTypeOK'
  /\ rev' \in {rev, rev + 1}
  /\ \A r \in ResId : cloud'[r] # cloud[r] =>
       /\ rev' = rev + 1 /\ cloud'[r].etag = rev + 1
       /\ cloud[r].life # "unused" => r = req.rid /\ Matches(req)
  /\ rep.status \in 200 .. 299 /\ req.role \in {"update", "action", "delete"} =>
       req.rid \in ResId /\ Matches(req) /\ rev' = rev + 1 /\ cloud'[req.rid].etag = rev + 1

LEMMA ChangeFacts ==
  ASSUME OciTypeOK, NEW req \in RequestSet, NEW rep \in Reply, Change(req, rep)
  PROVE  Served(req, rep)
<1> DEFINE state == IF req.op \in Async THEN cloud[req.rid].state
                    ELSE Overlay(cloud[req.rid].state, req.body)
<1>1. Commit(req.rid, "live", state) /\ Accepts(req)
  BY DEF Change
<1>2. req.rid \in ResId /\ Matches(req)
  BY <1>1 DEF Accepts, Exists
<1>3. cloud[req.rid].state \in State /\ req.body \in Config
  BY <1>2 DEF OciTypeOK, Resource, RequestSet
<1>4. state \in State
  BY <1>3, OverlayType
<1>5. jobs' \in [JobId -> Job]
  BY <1>2, TrackType DEF Change
<1> HIDE DEF state
<1> QED
  BY <1>1, <1>2, <1>4, <1>5, CommitFacts DEF Served, OciTypeOK

LEMMA DeleteFacts ==
  ASSUME OciTypeOK, NEW req \in RequestSet, NEW rep \in Reply, Delete(req, rep)
  PROVE  Served(req, rep)
<1> DEFINE life == IF req.op \in Async THEN "deleting" ELSE "gone"
<1>1. Commit(req.rid, life, cloud[req.rid].state) /\ Accepts(req)
  BY DEF Delete
<1>2. req.rid \in ResId /\ Matches(req)
  BY <1>1 DEF Accepts, Exists
<1>3. cloud[req.rid].state \in State
  BY <1>2 DEF OciTypeOK, Resource
<1>4. life \in {"live", "deleting", "gone"}
  OBVIOUS
<1>5. jobs' \in [JobId -> Job]
  BY <1>2, TrackType DEF Delete
<1> HIDE DEF life
<1> QED
  BY <1>1, <1>2, <1>3, <1>4, <1>5, CommitFacts DEF Served, OciTypeOK

\* A create leaves every existing resource as it is.
LEMMA CreateFacts ==
  ASSUME OciTypeOK, NEW req \in RequestSet, NEW rep \in Reply, Create(req, rep)
  PROVE  Served(req, rep)
<1>1. req.role = "create"
  BY DEF Create
<1>2. CASE UNCHANGED ociVars
  BY <1>1, <1>2 DEF ociVars, Served, OciTypeOK
<1>3. CASE ~ UNCHANGED ociVars
  <2>1. PICK r \in ResId, j \in JobId \cup {NoJob} :
          /\ cloud[r].life = "unused"
          /\ Commit(r, "live", Provisioned(req.body))
          /\ Track(req, r, j)
    BY <1>3 DEF Create
  <2>2. Provisioned(req.body) \in State
    BY ProvisionedType DEF RequestSet
  <2>3. jobs' \in [JobId -> Job]
    BY <2>1, TrackType
  <2> QED
    BY <1>1, <2>1, <2>2, <2>3, CommitFacts DEF Served, OciTypeOK
<1> QED
  BY <1>2, <1>3

LEMMA ServeFacts ==
  ASSUME OciTypeOK, NEW req \in RequestSet, NEW rep \in Reply, Serve(req, rep)
  PROVE  Served(req, rep)
<1>1. CASE ServeRead(req, rep)
  BY <1>1 DEF ServeRead, ociVars, Served, OciTypeOK
<1>2. CASE Reject(req, rep) \/ Unavailable(req, rep)
  <2>1. rep.status \notin 200 .. 299
    BY <1>2 DEF Reject, Unavailable, Refuse, Answer
  <2>2. UNCHANGED ociVars
    BY <1>2 DEF Reject, Unavailable
  <2> QED
    BY <2>1, <2>2 DEF ociVars, Served, OciTypeOK
<1> QED
  BY <1>1, <1>2, ChangeFacts, DeleteFacts, CreateFacts DEF Serve

LEMMA AnsweredFields ==
  ASSUME NEW rep
  PROVE  Answered(rep).err = "" /\ Answered(rep).reply = rep
  BY DEF Answered

LEMMA FailedFields ==
  ASSUME NEW where
  PROVE  /\ Failed(where).err = where
         /\ Failed(where).reply.status = 0 /\ Failed(where).reply.wr = NoJob
  BY DEF Failed, Refuse, Answer

LEMMA RefuseFields ==
  ASSUME NEW status
  PROVE  Refuse(status).status = status /\ Refuse(status).wr = NoJob
  BY DEF Refuse, Answer

LEMMA OutcomeType ==
  ASSUME NEW out \in Outcome
  PROVE  /\ out.err \in {"", "sign", "actuate"}
         /\ out.reply.status \in Nat
         /\ out.reply.wr \in JobId \cup {NoJob}
<1>1. CASE \E rep \in Reply : out = Answered(rep)
  <2>1. PICK rep \in Reply : out = Answered(rep)
    BY <1>1
  <2>2. rep.status \in Nat /\ rep.wr \in JobId \cup {NoJob}
    BY DEF Reply
  <2> QED
    BY <2>1, <2>2, AnsweredFields
<1>2. CASE out = Failed("sign")
  <2>1. out.err = "sign" /\ out.reply.status = 0 /\ out.reply.wr = NoJob
    BY <1>2, FailedFields
  <2> QED
    BY <2>1
<1>3. CASE out = Failed("actuate")
  <2>1. out.err = "actuate" /\ out.reply.status = 0 /\ out.reply.wr = NoJob
    BY <1>3, FailedFields
  <2> QED
    BY <2>1
<1>4. CASE out = Answered(Refuse(0))
  <2>1. out.err = "" /\ out.reply = Refuse(0)
    BY <1>4, AnsweredFields
  <2>2. out.reply.status = 0 /\ out.reply.wr = NoJob
    BY <2>1, RefuseFields
  <2>3. out.reply.status \in Nat
    BY <2>2
  <2> QED
    BY <2>1, <2>2, <2>3, Zenon
<1> QED
  BY <1>1, <1>2, <1>3, <1>4 DEF Outcome

\* The same facts for a request that is signed and sent first, whatever becomes of
\* its reply: a caller is told 2xx only when the service did answer so.
LEMMA ActuateFacts ==
  ASSUME OciTypeOK, NEW req \in RequestSet, NEW out \in Outcome, ActuateSigned(req, out)
  PROVE  Served(req, out.reply)
<1>1. CASE UNCHANGED ociVars /\ \E where \in Faults \cap {"sign", "actuate"} : out = Failed(where)
  <2>1. out.reply.status = 0
    BY <1>1, FailedFields
  <2> QED
    BY <1>1, <2>1 DEF ociVars, Served, OciTypeOK
<1>2. CASE /\ out \in {Failed("actuate"), Answered(Refuse(0))}
           /\ \E rep \in Reply : Serve(req, rep)
  <2>1. out.reply.status = 0
    <3>1. CASE out = Failed("actuate")
      BY <3>1, FailedFields
    <3>2. CASE out = Answered(Refuse(0))
      <4>1. out.reply = Refuse(0)
        BY <3>2, AnsweredFields
      <4> QED
        BY <4>1, RefuseFields
    <3> QED
      BY <1>2, <3>1, <3>2
  <2>2. PICK rep \in Reply : Served(req, rep)
    BY <1>2, ServeFacts
  <2> QED
    BY <2>1, <2>2 DEF Served
<1>3. CASE \E rep \in Reply : out = Answered(rep) /\ Serve(req, rep)
  <2>1. PICK rep \in Reply : out = Answered(rep) /\ Serve(req, rep)
    BY <1>3
  <2>2. Served(req, rep) /\ out.reply = rep
    BY <2>1, ServeFacts, AnsweredFields
  <2> QED
    BY <2>2
<1> QED
  BY <1>1, <1>2, <1>3 DEF ActuateSigned

\* However a Work Request ends, its resource gets a new etag and no other changes.
LEMMA JobEndsFacts ==
  ASSUME OciTypeOK, NEW j \in JobId, JobEnds(j)
  PROVE  /\ OciTypeOK'
         /\ rev' = rev + 1
         /\ \A r \in ResId : cloud'[r] # cloud[r] => cloud'[r].etag = rev + 1
<1> DEFINE rid == jobs[j].rid
           Lives == {"unused", "live", "deleting", "gone"}
<1>1. jobs[j] \in Job /\ rid \in ResId \cup {NoRes} /\ jobs[j].body \in Config
  BY DEF OciTypeOK, Job
<1>2. rid \in ResId => /\ cloud[rid].life \in Lives /\ cloud[rid].state \in State
                       /\ Overlay(cloud[rid].state, jobs[j].body) \in State
  BY <1>1, OverlayType DEF OciTypeOK, Resource
<1>3. PICK end \in JobEnd :
        /\ jobs' = [jobs EXCEPT ![j].status = end]
        /\ \/ Commit(rid, IF end = "SUCCEEDED" THEN "gone" ELSE "live", cloud[rid].state)
           \/ Commit(rid, IF end = "SUCCEEDED" THEN cloud[rid].life ELSE "gone",
                     cloud[rid].state)
           \/ Commit(rid, cloud[rid].life,
                     IF end = "SUCCEEDED" THEN Overlay(cloud[rid].state, jobs[j].body)
                     ELSE cloud[rid].state)
  BY DEF JobEnds
<1>4. \E life, state :
        /\ rid \in ResId => life \in Lives /\ state \in State
        /\ Commit(rid, life, state)
  <2>1. (IF end = "SUCCEEDED" THEN "gone" ELSE "live") \in Lives
    OBVIOUS
  <2>2. rid \in ResId => (IF end = "SUCCEEDED" THEN cloud[rid].life ELSE "gone") \in Lives
    BY <1>2
  <2>3. rid \in ResId => (IF end = "SUCCEEDED" THEN Overlay(cloud[rid].state, jobs[j].body)
                          ELSE cloud[rid].state) \in State
    BY <1>2
  <2> QED
    BY <1>2, <1>3, <2>1, <2>2, <2>3
<1>5. jobs' \in [JobId -> Job]
  <2>1. end \in JobStatus
    BY OciAssumption DEF JobStatus
  <2>2. [jobs[j] EXCEPT !.status = end] \in Job
    BY <1>1, <2>1 DEF Job
  <2>3. jobs' = [jobs EXCEPT ![j] = [jobs[j] EXCEPT !.status = end]]
    BY <1>3
  <2> QED
    BY <2>2, <2>3 DEF OciTypeOK
<1> HIDE DEF rid
<1> QED
  BY <1>4, <1>5, CommitFacts DEF OciTypeOK

-----------------------------------------------------------------------------
(* Type correctness. *)

LEMMA OciErrorType ==
  ASSUME NEW status \in Nat
  PROVE  OciError(status) \in ErrorClass
  BY DEF OciError, ErrorClass

\* executeOne's record of a request is a step, and it keeps the reply's status.
LEMMA StepOfFacts ==
  ASSUME NEW op \in Op, NEW out \in Outcome
  PROVE  /\ StepOf(op, out) \in Step
         /\ StepOf(op, out).op = op
         /\ StepOf(op, out).http = out.reply.status
<1> DEFINE err == IF out.err # "" THEN out.err
                  ELSE IF out.reply.status >= 400 THEN "provider" ELSE ""
           class == IF out.err = "" /\ out.reply.status >= 400
                    THEN OciError(out.reply.status) ELSE ""
<1>1. err \in {"", "sign", "actuate", "provider"}
  BY OutcomeType, Zenon
<1>2. class \in ErrorClass \cup {""}
  BY OutcomeType, OciErrorType
<1>3. StepOf(op, out) = [op |-> op, http |-> out.reply.status, wr |-> out.reply.wr,
                         err |-> err, class |-> class]
  BY DEF StepOf
<1> HIDE DEF err, class
<1>4. out.reply.status \in Nat /\ out.reply.wr \in JobId \cup {NoJob}
  BY OutcomeType
<1>5. [op |-> op, http |-> out.reply.status, wr |-> out.reply.wr,
       err |-> err, class |-> class] \in Step
  BY <1>1, <1>2, <1>4, Zenon DEF Step
<1> QED
  BY <1>3, <1>5

\* A session binds its calls to a resource and an etag it was shown.
LEMMA BindingsType ==
  ASSUME TypeOK, NEW s \in Session, NEW b \in Bindings(s)
  PROVE  b.rid \in ResId \cup {NoRes} /\ b.revision \in Nat
<1>1. obs[s] \in Observation
  BY DEF TypeOK
<1> QED
  BY <1>1 DEF Bindings, Observation, NoRev

\* The result of a single request is a run.
LEMMA SingleType ==
  ASSUME TypeOK, NEW s \in Session, NEW op \in Op, NEW config \in Config,
         NEW b \in Bindings(s), NEW step \in Step, NEW status \in RunStatus,
         Single(s, op, config, b, step, status)
  PROVE  run' \in [Session -> Run]
<1> DEFINE r == [ops |-> <<op>>, config |-> config, rid |-> b.rid,
                 revision |-> b.revision,
                 steps |-> IF status = "error" THEN << >> ELSE <<step>>,
                 status |-> status]
<1>1. <<op>> \in Seq(Op) /\ (IF status = "error" THEN << >> ELSE <<step>>) \in Seq(Step)
  OBVIOUS
<1>2. r \in Run
  BY <1>1, BindingsType DEF Run
<1>3. run' = [run EXCEPT ![s] = r]
  BY DEF Single
<1> HIDE DEF r
<1> QED
  BY <1>2, <1>3 DEF TypeOK

\* The coordinates of ExecuteOne's request are of the right types.
LEMMA ExecuteOneType ==
  ASSUME TypeOK, NEW s \in Session, run[s].status = "running",
         Len(run[s].steps) < Len(run[s].ops)
  PROVE  /\ NextOp(s) \in Op
         /\ Request(NextOp(s), run[s].rid, run[s].revision,
                    RenderBody(NextOp(s), run[s].config)) \in RequestSet
<1>1. run[s] \in Run
  BY DEF TypeOK
<1>2. NextOp(s) \in Op
  BY <1>1 DEF NextOp, Run
<1>3. RenderBody(NextOp(s), run[s].config) \in Config
  BY <1>1, RenderBodyType DEF Run
<1> QED
  BY <1>1, <1>2, <1>3, RequestType DEF Run

LEMMA InitType == Init => TypeOK
<1> SUFFICES ASSUME Init PROVE TypeOK
  OBVIOUS
<1>1. NoResource \in Resource /\ NoJobYet \in Job
  BY EmptyTypes DEF NoResource, Resource, NoRev, NoJobYet, Job, JobStatus, LifecycleRole
<1>2. \A st \in InitStates : [life |-> "live", etag |-> 1, state |-> st] \in Resource
  BY ExecutionAssumption DEF Resource
<1>3. OciTypeOK
  BY <1>1, <1>2 DEF Init, OciInit, OciTypeOK
<1>4. Unobserved \in Observation
  BY EmptyTypes DEF Unobserved, Observation, NoRev
<1>5. NoRun \in Run
  BY EmptyTypes DEF NoRun, Run, RunStatus, NoRev
<1> QED
  BY <1>3, <1>4, <1>5 DEF Init, TypeOK

LEMMA ObserveType ==
  ASSUME TypeOK, NEW s \in Session, NEW rid \in ResId, Observe(s, rid)
  PROVE  TypeOK'
<1>1. PICK out \in Outcome : ObserveOnce(s, rid, out)
  BY DEF Observe
<1>2. Request(OpByRole("read"), rid, NoRev, EmptyConfig) \in RequestSet
  BY OpByRoleType, EmptyTypes, RequestType DEF LifecycleRole, NoRev
<1>3. OciTypeOK'
  BY <1>1, <1>2, ActuateFacts DEF ObserveOnce, TypeOK, Served
<1>4. [rid |-> rid, etag |-> cloud[rid].etag,
       config |-> EffectiveConfig(cloud[rid].state)] \in Observation
  BY EffectiveConfigType DEF TypeOK, OciTypeOK, Resource, Observation
<1>5. obs' \in [Session -> Observation]
  BY <1>1, <1>4 DEF ObserveOnce, TypeOK
<1> QED
  BY <1>1, <1>3, <1>5 DEF ObserveOnce, TypeOK

LEMMA ExecuteOneKeepsType ==
  ASSUME TypeOK, NEW s \in Session, ExecuteOne(s)
  PROVE  TypeOK'
<1>1. PICK out \in Outcome :
        /\ ActuateSigned(Request(NextOp(s), run[s].rid, run[s].revision,
                                 RenderBody(NextOp(s), run[s].config)), out)
        /\ LET step == StepOf(NextOp(s), out)
           IN  run' = [run EXCEPT ![s].steps  = Append(@, step),
                                  ![s].status = IF Fatal(step) THEN "failed" ELSE "running"]
  BY DEF ExecuteOne
<1>2. OciTypeOK'
  BY <1>1, ExecuteOneType, ActuateFacts DEF ExecuteOne, TypeOK, Served
<1> DEFINE step == StepOf(NextOp(s), out)
           status == IF Fatal(step) THEN "failed" ELSE "running"
<1>3. step \in Step /\ status \in RunStatus
  BY ExecuteOneType, StepOfFacts DEF ExecuteOne, RunStatus, Verdict
<1>4. run' = [run EXCEPT ![s].steps = Append(@, step), ![s].status = status]
  BY <1>1
<1> HIDE DEF step, status
<1>5. [run[s] EXCEPT !.steps = Append(@, step), !.status = status] \in Run
  <2>1. run[s] \in Run /\ Append(run[s].steps, step) \in Seq(Step)
    BY <1>3 DEF TypeOK, Run
  <2> QED
    BY <1>3, <2>1 DEF Run
<1>6. run' \in [Session -> Run]
  BY <1>4, <1>5 DEF TypeOK
<1> QED
  BY <1>2, <1>6 DEF ExecuteOne, TypeOK

LEMMA VerdictOfType ==
  ASSUME NEW step, NEW b \in BOOLEAN
  PROVE  (IF b THEN "error" ELSE VerdictOf(step)) \in RunStatus
  BY DEF VerdictOf, RunStatus, Verdict

LEMMA DestroyType ==
  ASSUME TypeOK, NEW s \in Session, NEW b \in Bindings(s), Destroy(s, b)
  PROVE  TypeOK'
<1> DEFINE op == OpByRole("delete")
<1>1. op \in Op /\ Request(op, b.rid, b.revision, EmptyConfig) \in RequestSet
  BY OpByRoleType, BindingsType, EmptyTypes, RequestType DEF LifecycleRole
<1>2. PICK out \in Outcome :
        /\ ActuateSigned(Request(op, b.rid, b.revision, EmptyConfig), out)
        /\ Single(s, op, EmptyConfig, b, StepOf(op, out),
                  IF out.err # "" \/ StepOf(op, out).http = 404 THEN "error"
                  ELSE VerdictOf(StepOf(op, out)))
  BY DEF Destroy
<1> HIDE DEF op
<1>3. run' \in [Session -> Run]
  BY <1>1, <1>2, StepOfFacts, EmptyTypes, VerdictOfType, SingleType
<1>4. OciTypeOK'
  BY <1>1, <1>2, ActuateFacts DEF TypeOK, Served
<1> QED
  BY <1>3, <1>4 DEF Destroy, TypeOK

LEMMA InvokeType ==
  ASSUME TypeOK, NEW s \in Session, NEW op \in Invoked, NEW config \in Intents,
         NEW b \in Bindings(s), Invoke(s, op, config, b)
  PROVE  TypeOK'
<1>1. /\ op \in Op /\ config \in Config
      /\ Request(op, b.rid, b.revision, config) \in RequestSet
  BY ExecutionAssumption, BindingsType, RequestType
<1>2. PICK out \in Outcome :
        /\ ActuateSigned(Request(op, b.rid, b.revision, config), out)
        /\ Single(s, op, config, b, StepOf(op, out),
                  IF out.err # "" THEN "error" ELSE VerdictOf(StepOf(op, out)))
  BY DEF Invoke
<1>3. run' \in [Session -> Run]
  BY <1>1, <1>2, StepOfFacts, VerdictOfType, SingleType
<1>4. OciTypeOK'
  BY <1>1, <1>2, ActuateFacts DEF TypeOK, Served
<1> QED
  BY <1>3, <1>4 DEF Invoke, TypeOK

LEMMA OthersWriteType ==
  ASSUME TypeOK, NEW rid \in ResId, OthersWrite(rid)
  PROVE  TypeOK'
<1>1. PICK f \in StateField, v \in ForeignValue :
        Commit(rid, "live", [cloud[rid].state EXCEPT ![f] = v])
  BY DEF OthersWrite, ForeignWrite
<1>2. cloud[rid].state \in State /\ v \in Maybe
  BY OciAssumption DEF TypeOK, OciTypeOK, Resource
<1>3. [cloud[rid].state EXCEPT ![f] = v] \in State
  BY <1>2 DEF State
<1>4. OciTypeOK'
  BY <1>1, <1>3, CommitFacts DEF OthersWrite, ForeignWrite, TypeOK, OciTypeOK
<1> QED
  BY <1>4 DEF OthersWrite, TypeOK

LEMMA TypeStep == TypeOK /\ [Next]_vars => TypeOK'
<1> SUFFICES ASSUME TypeOK, [Next]_vars PROVE TypeOK'
  OBVIOUS
<1>1. CASE UNCHANGED vars
  BY <1>1 DEF vars, TypeOK, OciTypeOK
<1>2. ASSUME NEW s \in Session, NEW rid \in ResId, Observe(s, rid) PROVE TypeOK'
  BY <1>2, ObserveType
<1>3. ASSUME NEW s \in Session, NEW b \in Bindings(s), NEW ops \in Plans,
             NEW config \in Intents, Execute(s, ops, config, b)
      PROVE  TypeOK'
  <2> DEFINE r == [ops |-> ops, config |-> config, rid |-> b.rid,
                   revision |-> b.revision, steps |-> << >>, status |-> "running"]
  <2>1. r \in Run
    BY BindingsType, ExecutionAssumption DEF Run, RunStatus
  <2>2. run' = [run EXCEPT ![s] = r]
    BY <1>3 DEF Execute
  <2> HIDE DEF r
  <2> QED
    BY <1>3, <2>1, <2>2 DEF Execute, TypeOK, OciTypeOK, ociVars
<1>4. ASSUME NEW s \in Session, NEW b \in Bindings(s), Destroy(s, b) PROVE TypeOK'
  BY <1>4, DestroyType
<1>5. ASSUME NEW s \in Session, NEW b \in Bindings(s), NEW op \in Invoked,
             NEW config \in Intents, Invoke(s, op, config, b)
      PROVE  TypeOK'
  BY <1>5, InvokeType
<1>6. ASSUME NEW s \in Session, NEW j \in JobId, Poll(s, j) PROVE TypeOK'
  BY <1>6 DEF Poll, TypeOK, OciTypeOK, ociVars
<1>7. ASSUME NEW s \in Session, ExecuteOne(s) PROVE TypeOK'
  BY <1>7, ExecuteOneKeepsType
<1>8. ASSUME NEW s \in Session, NEW status \in RunStatus,
             run' = [run EXCEPT ![s].status = status], UNCHANGED <<ociVars, obs, polled>>
      PROVE  TypeOK'
  <2>1. [run[s] EXCEPT !.status = status] \in Run
    BY DEF TypeOK, Run
  <2> QED
    BY <1>8, <2>1 DEF TypeOK, OciTypeOK, ociVars
<1>9. ASSUME NEW s \in Session, ExecuteReturns(s) PROVE TypeOK'
  <2> DEFINE status == IF Pending(run[s].steps) THEN "accepted" ELSE "succeeded"
  <2>1. status \in RunStatus
    BY DEF RunStatus, Verdict
  <2> QED
    BY <1>8, <1>9, <2>1 DEF ExecuteReturns
<1>10. ASSUME NEW s \in Session, Abort(s) PROVE TypeOK'
  BY <1>8, <1>10 DEF Abort, RunStatus
<1>11. ASSUME NEW j \in JobId, WorkEnds(j) PROVE TypeOK'
  BY <1>11, JobEndsFacts DEF WorkEnds, TypeOK
<1>12. ASSUME NEW rid \in ResId, OthersWrite(rid) PROVE TypeOK'
  BY <1>12, OthersWriteType
<1> QED
  BY <1>1, <1>2, <1>3, <1>4, <1>5, <1>6, <1>7, <1>9, <1>10, <1>11, <1>12
     DEF Next, Calls, Guest

\* Every variable keeps the type the provider and the host give it.
THEOREM TypeCorrect == Spec => []TypeOK
  BY InitType, TypeStep, PTL DEF Spec

-----------------------------------------------------------------------------
(* Optimistic concurrency. *)

\* No etag is ahead of the last one handed out.
EtagsIssued == \A r \in ResId : cloud[r].etag <= rev

\* A revision that admitted a change has been left behind by its resource.
Consumed ==
  \A s \in Session : \A i \in Won(s) : run[s].revision # NoRev =>
    run[s].rid \in ResId /\ run[s].revision < cloud[run[s].rid].etag

\* OneWinnerPerRevision is not inductive: that a second winner is refused rests on
\* the etag having moved since the first one, and on etags never coming back.
RaceInv == TypeOK /\ EtagsIssued /\ Consumed /\ OneWinnerPerRevision

\* What a step does to etags.
EtagsMove ==
  /\ rev' \in {rev, rev + 1}
  /\ \A r \in ResId : cloud'[r] # cloud[r] => rev' = rev + 1 /\ cloud'[r].etag = rev + 1

KeptWin(s, i) ==
  i \in Won(s) /\ run'[s].rid = run[s].rid /\ run'[s].revision = run[s].revision

\* What a step does to the results: at most one session wins one step more, and
\* then its resource had the etag of its binding and has a new one now.
NewWin(s, i) ==
  /\ run'[s].rid \in ResId
  /\ run'[s].revision \in {NoRev, cloud[run'[s].rid].etag}
  /\ rev' = rev + 1 /\ cloud'[run'[s].rid].etag = rev + 1

RaceStep ==
  /\ EtagsMove
  /\ \E s, i : \A t \in Session : \A k \in Won(t)' :
       KeptWin(t, k) \/ (t = s /\ k = i /\ NewWin(t, k))

LEMMA RaceStepInductive ==
  ASSUME RaceInv, TypeOK', RaceStep
  PROVE  RaceInv'
<1>1. /\ \A r \in ResId : cloud[r].etag \in Nat /\ cloud'[r].etag \in Nat
      /\ \A s \in Session : run[s].revision \in Nat /\ run'[s].revision \in Nat
      /\ rev \in Nat /\ rev' \in Nat
  BY DEF RaceInv, TypeOK, OciTypeOK, Resource, Run
<1>2. EtagsIssued'
  BY <1>1 DEF RaceInv, EtagsIssued, RaceStep, EtagsMove
<1>4. PICK w, n : \A t \in Session : \A k \in Won(t)' :
        KeptWin(t, k) \/ (t = w /\ k = n /\ NewWin(t, k))
  BY DEF RaceStep
<1>5. Consumed'
  <2> SUFFICES ASSUME NEW t \in Session, NEW k \in Won(t)', run'[t].revision # NoRev
               PROVE  /\ run'[t].rid \in ResId
                      /\ run'[t].revision < cloud'[run'[t].rid].etag
    BY DEF Consumed, NoRev
  <2>1. CASE KeptWin(t, k)
    <3>1. run[t].rid \in ResId /\ run[t].revision < cloud[run[t].rid].etag
      BY <2>1 DEF RaceInv, Consumed, KeptWin
    <3>2. cloud[run[t].rid].etag <= cloud'[run[t].rid].etag
      BY <1>1, <3>1 DEF RaceInv, EtagsIssued, RaceStep, EtagsMove
    <3> QED
      BY <1>1, <2>1, <3>1, <3>2 DEF KeptWin
  <2>2. CASE NewWin(t, k)
    <3>1. cloud[run'[t].rid].etag <= rev
      BY <2>2 DEF NewWin, RaceInv, EtagsIssued
    <3> QED
      BY <1>1, <2>2, <3>1 DEF NewWin
  <2> QED
    BY <1>4, <2>1, <2>2
<1>6. OneWinnerPerRevision'
  <2> SUFFICES ASSUME NEW t \in Session, NEW u \in Session,
                      NEW k \in Won(t)', NEW m \in Won(u)',
                      run'[t].revision # NoRev, run'[t].rid = run'[u].rid,
                      run'[t].revision = run'[u].revision
               PROVE  t = u /\ k = m
    BY DEF OneWinnerPerRevision, NoRev
  <2>1. ASSUME NEW a \in Session, NEW b \in Session, NEW c, NEW d \in Won(b)',
               NewWin(a, c), KeptWin(b, d),
               run'[a].revision # NoRev, run'[a].rid = run'[b].rid,
               run'[a].revision = run'[b].revision
        PROVE  FALSE
    <3>1. run[b].revision < cloud[run[b].rid].etag
      BY <2>1 DEF KeptWin, RaceInv, Consumed
    <3>2. run[b].revision = cloud[run[b].rid].etag
      BY <2>1 DEF KeptWin, NewWin
    <3>3. cloud[run[b].rid].etag \in Nat
      BY <1>1, <2>1 DEF KeptWin, NewWin
    <3> QED
      BY <3>1, <3>2, <3>3
  <2>2. CASE KeptWin(t, k) /\ KeptWin(u, m)
    BY <2>2 DEF KeptWin, RaceInv, OneWinnerPerRevision
  <2> QED
    BY <1>4, <2>1, <2>2
<1> QED
  BY <1>2, <1>5, <1>6 DEF RaceInv

LEMMA ServedMoves ==
  ASSUME NEW req, NEW rep, Served(req, rep)
  PROVE  EtagsMove
  BY DEF Served, EtagsMove

\* A step that leaves the etags and the results alone, or clears a result.
LEMMA QuietRaceStep ==
  ASSUME EtagsMove, NEW s \in Session, \A t \in Session : t # s => run'[t] = run[t],
         \/ run'[s].steps = << >>
         \/ /\ run'[s].steps = run[s].steps
            /\ run'[s].rid = run[s].rid /\ run'[s].revision = run[s].revision
  PROVE  RaceStep
<1>1. ASSUME NEW t \in Session, NEW k \in Won(t)' PROVE KeptWin(t, k)
  <2>1. CASE t # s
    BY <2>1 DEF Won, KeptWin
  <2>2. CASE t = s /\ run'[s].steps = << >>
    <3>1. Won(s)' = {}
      BY <2>2 DEF Won
    <3> QED
      BY <2>2, <3>1
  <2>3. CASE t = s /\ run'[s].steps # << >>
    BY <2>3 DEF Won, KeptWin
  <2> QED
    BY <2>1, <2>2, <2>3
<1> QED
  BY <1>1 DEF RaceStep

\* A request whose step is reported as done has won its revision.
LEMMA StepWins ==
  ASSUME OciTypeOK, NEW req \in RequestSet, NEW out \in Outcome, ActuateSigned(req, out),
         NEW s \in Session, run'[s].rid = req.rid, run'[s].revision = req.ifMatch,
         req.role \in {"update", "action", "delete"}, out.reply.status \in 200 .. 299
  PROVE  NewWin(s, 0)
<1>1. Served(req, out.reply)
  BY ActuateFacts
<1> QED
  BY <1>1 DEF Served, Matches, NewWin

LEMMA SingleRaceStep ==
  ASSUME TypeOK, NEW s \in Session, NEW op \in Op, NEW config \in Config,
         NEW body \in Config, NEW b \in Bindings(s), NEW out \in Outcome, NEW status,
         ActuateSigned(Request(op, b.rid, b.revision, body), out),
         Single(s, op, config, b, StepOf(op, out), status)
  PROVE  RaceStep
<1> DEFINE req == Request(op, b.rid, b.revision, body)
<1>1. req \in RequestSet
  BY BindingsType, RequestType
<1>2. EtagsMove
  BY <1>1, ActuateFacts, ServedMoves DEF TypeOK
<1>3. \A t \in Session : t # s => run'[t] = run[t]
  BY DEF Single, TypeOK
<1>4. /\ run'[s].rid = req.rid /\ run'[s].revision = req.ifMatch
      /\ run'[s].steps \in {<< >>, <<StepOf(op, out)>>}
  BY DEF Single, TypeOK, Request
<1>5. ASSUME NEW i \in Won(s)' PROVE i = 1 /\ NewWin(s, i)
  <2>1. i = 1 /\ Conditioned(op) /\ out.reply.status \in 200 .. 299
    <3> DEFINE step == StepOf(op, out)
    <3>1. i \in DOMAIN run'[s].steps /\ Conditioned(run'[s].steps[i].op)
          /\ run'[s].steps[i].http \in 200 .. 299
      BY <1>5 DEF Won
    <3>2. step.op = op /\ step.http = out.reply.status
      BY StepOfFacts
    <3> HIDE DEF step
    <3>3. run'[s].steps = <<step>>
      BY <1>4, <3>1 DEF step
    <3>4. i = 1 /\ run'[s].steps[i] = step
      BY <3>1, <3>3
    <3> QED
      BY <3>1, <3>2, <3>4
  <2>2. req.role \in {"update", "action", "delete"}
    BY <2>1 DEF Conditioned, Request
  <2>3. NewWin(s, 0)
    BY <1>1, <1>4, <2>1, <2>2, StepWins DEF TypeOK
  <2> QED
    BY <2>1, <2>3 DEF NewWin
<1>6. \A t \in Session : \A k \in Won(t)' : t # s => KeptWin(t, k)
  BY <1>3 DEF Won, KeptWin
<1> QED
  BY <1>2, <1>5, <1>6 DEF RaceStep

LEMMA ExecuteOneRaceStep ==
  ASSUME TypeOK, NEW s \in Session, ExecuteOne(s)
  PROVE  RaceStep
<1> DEFINE op == NextOp(s)
           req == Request(op, run[s].rid, run[s].revision, RenderBody(op, run[s].config))
<1>1. op \in Op /\ req \in RequestSet /\ run[s] \in Run
  BY ExecuteOneType DEF ExecuteOne, TypeOK
<1>2. PICK out \in Outcome :
        /\ ActuateSigned(req, out)
        /\ run' = [run EXCEPT ![s].steps  = Append(@, StepOf(op, out)),
                              ![s].status = IF Fatal(StepOf(op, out)) THEN "failed"
                                            ELSE "running"]
  BY DEF ExecuteOne
<1>3. EtagsMove
  BY <1>1, <1>2, ActuateFacts, ServedMoves DEF TypeOK
<1>4. \A t \in Session : t # s => run'[t] = run[t]
  BY <1>2 DEF TypeOK
<1> DEFINE n == Len(run[s].steps) + 1
<1>5. /\ run'[s].rid = run[s].rid /\ run'[s].revision = run[s].revision
      /\ run'[s].steps = Append(run[s].steps, StepOf(op, out))
      /\ run[s].steps \in Seq(Step) /\ StepOf(op, out) \in Step
      /\ n \in Nat
  BY <1>1, <1>2, StepOfFacts DEF TypeOK, Run
<1>6. n \in Won(s)' => NewWin(s, n)
  <2> SUFFICES ASSUME n \in Won(s)' PROVE NewWin(s, n)
    OBVIOUS
  <2>1. run'[s].steps[n] = StepOf(op, out)
    BY <1>5
  <2>2. Conditioned(op) /\ out.reply.status \in 200 .. 299
    BY <1>1, <2>1, StepOfFacts DEF Won
  <2>3. req.role \in {"update", "action", "delete"}
    BY <2>2 DEF Conditioned, Request
  <2>4. run'[s].rid = req.rid /\ run'[s].revision = req.ifMatch
    BY <1>5 DEF Request
  <2>5. NewWin(s, 0)
    BY <1>1, <1>2, <2>2, <2>3, <2>4, StepWins DEF TypeOK
  <2> QED
    BY <2>5 DEF NewWin
<1>7. ASSUME NEW k \in Won(s)', k # n PROVE KeptWin(s, k)
  <2>1. k \in DOMAIN run[s].steps /\ run'[s].steps[k] = run[s].steps[k]
    BY <1>5, <1>7 DEF Won
  <2> QED
    BY <1>5, <2>1 DEF Won, KeptWin
<1>8. \A t \in Session : \A k \in Won(t)' : t # s => KeptWin(t, k)
  BY <1>4 DEF Won, KeptWin
<1> HIDE DEF op, req, n
<1>9. \A t \in Session : \A k \in Won(t)' :
        KeptWin(t, k) \/ (t = s /\ k = n /\ NewWin(t, k))
  BY <1>6, <1>7, <1>8
<1> QED
  BY <1>3, <1>9 DEF RaceStep

\* Steps that change neither an operation, a binding nor a step of any result.
LEMMA IdleRaceStep ==
  ASSUME EtagsMove, \A t \in Session : /\ run'[t].steps = run[t].steps
                                      /\ run'[t].rid = run[t].rid
                                      /\ run'[t].revision = run[t].revision
  PROVE  RaceStep
<1>1. \A t \in Session : \A k \in Won(t)' : KeptWin(t, k)
  BY DEF Won, KeptWin
<1> QED
  BY <1>1 DEF RaceStep

LEMMA NextRaceStep ==
  ASSUME TypeOK, [Next]_vars
  PROVE  RaceStep
<1>1. CASE UNCHANGED vars
  BY <1>1, IdleRaceStep DEF vars, EtagsMove
<1>2. ASSUME NEW s \in Session, NEW rid \in ResId, Observe(s, rid) PROVE RaceStep
  <2>1. PICK out \in Outcome :
          ActuateSigned(Request(OpByRole("read"), rid, NoRev, EmptyConfig), out)
    BY <1>2 DEF Observe, ObserveOnce
  <2>2. Request(OpByRole("read"), rid, NoRev, EmptyConfig) \in RequestSet
    BY OpByRoleType, EmptyTypes, RequestType DEF LifecycleRole, NoRev
  <2>3. EtagsMove
    BY <2>1, <2>2, ActuateFacts, ServedMoves DEF TypeOK
  <2> QED
    BY <1>2, <2>3, IdleRaceStep DEF Observe, ObserveOnce
<1>3. ASSUME NEW s \in Session, NEW b \in Bindings(s), NEW ops \in Plans,
             NEW config \in Intents, Execute(s, ops, config, b)
      PROVE  RaceStep
  <2>1. EtagsMove
    BY <1>3 DEF Execute, ociVars, EtagsMove
  <2>2. /\ \A t \in Session : t # s => run'[t] = run[t]
        /\ run'[s].steps = << >>
    BY <1>3 DEF Execute, TypeOK
  <2> QED
    BY <2>1, <2>2, QuietRaceStep
<1>4. ASSUME NEW s \in Session, NEW b \in Bindings(s), Destroy(s, b) PROVE RaceStep
  <2> DEFINE op == OpByRole("delete")
  <2>1. PICK out \in Outcome :
          /\ ActuateSigned(Request(op, b.rid, b.revision, EmptyConfig), out)
          /\ Single(s, op, EmptyConfig, b, StepOf(op, out),
                    IF out.err # "" \/ StepOf(op, out).http = 404 THEN "error"
                    ELSE VerdictOf(StepOf(op, out)))
    BY <1>4 DEF Destroy
  <2>2. op \in Op
    BY OpByRoleType DEF LifecycleRole
  <2> HIDE DEF op
  <2> QED
    BY <2>1, <2>2, EmptyTypes, SingleRaceStep
<1>5. ASSUME NEW s \in Session, NEW b \in Bindings(s), NEW op \in Invoked,
             NEW config \in Intents, Invoke(s, op, config, b)
      PROVE  RaceStep
  <2>1. PICK out \in Outcome :
          /\ ActuateSigned(Request(op, b.rid, b.revision, config), out)
          /\ \E status : Single(s, op, config, b, StepOf(op, out), status)
    BY <1>5 DEF Invoke
  <2>2. op \in Op /\ config \in Config
    BY ExecutionAssumption
  <2> QED
    BY <2>1, <2>2, SingleRaceStep
<1>6. ASSUME NEW s \in Session, NEW j \in JobId, Poll(s, j) PROVE RaceStep
  BY <1>6, IdleRaceStep DEF Poll, ociVars, EtagsMove
<1>7. ASSUME NEW s \in Session, ExecuteOne(s) PROVE RaceStep
  BY <1>7, ExecuteOneRaceStep
<1>8. ASSUME NEW s \in Session, NEW status,
             run' = [run EXCEPT ![s].status = status], UNCHANGED ociVars
      PROVE  RaceStep
  <2>1. run'[s] = [run[s] EXCEPT !.status = status] /\ run[s] \in Run
    BY <1>8 DEF TypeOK
  <2>2. /\ run'[s].steps = run[s].steps /\ run'[s].rid = run[s].rid
        /\ run'[s].revision = run[s].revision
    BY <2>1 DEF Run
  <2>3. \A t \in Session : t # s => run'[t] = run[t]
    BY <1>8 DEF TypeOK
  <2>4. EtagsMove
    BY <1>8 DEF ociVars, EtagsMove
  <2> QED
    BY <2>2, <2>3, <2>4, QuietRaceStep
<1>9. ASSUME NEW s \in Session, ExecuteReturns(s) \/ Abort(s) PROVE RaceStep
  BY <1>8, <1>9 DEF ExecuteReturns, Abort
<1>10. ASSUME NEW j \in JobId, WorkEnds(j) PROVE RaceStep
  <2>1. EtagsMove
    BY <1>10, JobEndsFacts DEF WorkEnds, TypeOK, EtagsMove
  <2> QED
    BY <1>10, <2>1, IdleRaceStep DEF WorkEnds
<1>11. ASSUME NEW rid \in ResId, OthersWrite(rid) PROVE RaceStep
  <2>1. PICK f \in StateField, v \in ForeignValue :
          Commit(rid, "live", [cloud[rid].state EXCEPT ![f] = v])
    BY <1>11 DEF OthersWrite, ForeignWrite
  <2>2. EtagsMove
    BY <2>1 DEF Commit, TypeOK, OciTypeOK, EtagsMove
  <2> QED
    BY <1>11, <2>2, IdleRaceStep DEF OthersWrite
<1> QED
  BY <1>1, <1>2, <1>3, <1>4, <1>5, <1>6, <1>7, <1>9, <1>10, <1>11
     DEF Next, Calls, Guest

LEMMA RaceInit == Init => RaceInv
<1> SUFFICES ASSUME Init PROVE RaceInv
  OBVIOUS
<1>1. EtagsIssued
  BY DEF Init, OciInit, NoResource, NoRev, EtagsIssued
<1>2. \A s \in Session : Won(s) = {}
  BY DEF Init, NoRun, Won
<1> QED
  BY <1>1, <1>2, InitType DEF RaceInv, Consumed, OneWinnerPerRevision

LEMMA RaceNext == RaceInv /\ [Next]_vars => RaceInv'
<1> SUFFICES ASSUME RaceInv, [Next]_vars PROVE RaceInv'
  OBVIOUS
<1>1. TypeOK'
  BY TypeStep DEF RaceInv
<1> QED
  BY <1>1, NextRaceStep, RaceStepInductive DEF RaceInv

\* However many sessions, other writers and Work Requests are at work, and whatever
\* is lost on the way: of all the steps reported done under one If-Match etag of a
\* resource there is only one.
THEOREM RevisionsAdmitOne == Spec => []OneWinnerPerRevision
<1>1. RaceInv => OneWinnerPerRevision
  BY DEF RaceInv
<1> QED
  BY <1>1, RaceInit, RaceNext, PTL DEF Spec

-----------------------------------------------------------------------------
(* No step of a session touches a resource behind its back. *)

Respects(s, r) ==
  /\ run'[s].rid = r
  /\ run'[s].revision \in {NoRev, cloud[r].etag}

RespectfulStep ==
  \A s \in Session, r \in ResId :
    (/\ run'[s] # run[s]
     /\ cloud[r].life # "unused"
     /\ cloud'[r] # cloud[r])
      => Respects(s, r)

\* Only the session that sends a request has a new result, and the service let the
\* request through to the resource the result is bound to.
LEMMA SendingIsRespectful ==
  ASSUME TypeOK, NEW req \in RequestSet, NEW out \in Outcome, ActuateSigned(req, out),
         NEW s \in Session, \A t \in Session : t # s => run'[t] = run[t],
         run'[s].rid = req.rid, run'[s].revision = req.ifMatch
  PROVE  RespectfulStep
<1>1. Served(req, out.reply)
  BY ActuateFacts DEF TypeOK
<1>2. ASSUME NEW r \in ResId, cloud[r].life # "unused", cloud'[r] # cloud[r]
      PROVE  Respects(s, r)
  BY <1>1, <1>2 DEF Served, Matches, Respects
<1> QED
  BY <1>2 DEF RespectfulStep

LEMMA SingleIsRespectful ==
  ASSUME TypeOK, NEW s \in Session, NEW op \in Op, NEW config, NEW body \in Config,
         NEW b \in Bindings(s), NEW out \in Outcome, NEW step, NEW status,
         ActuateSigned(Request(op, b.rid, b.revision, body), out),
         Single(s, op, config, b, step, status)
  PROVE  RespectfulStep
<1> DEFINE req == Request(op, b.rid, b.revision, body)
<1>1. req \in RequestSet
  BY BindingsType, RequestType
<1>2. \A t \in Session : t # s => run'[t] = run[t]
  BY DEF Single, TypeOK
<1>3. run'[s].rid = req.rid /\ run'[s].revision = req.ifMatch
  BY DEF Single, TypeOK, Request
<1> HIDE DEF req
<1>4. ActuateSigned(req, out)
  BY DEF req
<1> QED
  BY <1>1, <1>2, <1>3, <1>4, SendingIsRespectful

LEMMA NextIsRespectful ==
  ASSUME TypeOK, [Next]_vars
  PROVE  RespectfulStep
<1>1. ASSUME UNCHANGED run \/ UNCHANGED cloud PROVE RespectfulStep
  BY <1>1 DEF RespectfulStep
<1>2. ASSUME NEW s \in Session, NEW b \in Bindings(s), Destroy(s, b) PROVE RespectfulStep
  <2> DEFINE op == OpByRole("delete")
  <2>1. PICK out \in Outcome :
          /\ ActuateSigned(Request(op, b.rid, b.revision, EmptyConfig), out)
          /\ Single(s, op, EmptyConfig, b, StepOf(op, out),
                    IF out.err # "" \/ StepOf(op, out).http = 404 THEN "error"
                    ELSE VerdictOf(StepOf(op, out)))
    BY <1>2 DEF Destroy
  <2>2. op \in Op
    BY OpByRoleType DEF LifecycleRole
  <2> HIDE DEF op
  <2> QED
    BY <2>1, <2>2, EmptyTypes, SingleIsRespectful
<1>3. ASSUME NEW s \in Session, NEW b \in Bindings(s), NEW op \in Invoked,
             NEW config \in Intents, Invoke(s, op, config, b)
      PROVE  RespectfulStep
  <2>1. PICK out \in Outcome :
          /\ ActuateSigned(Request(op, b.rid, b.revision, config), out)
          /\ \E status : Single(s, op, config, b, StepOf(op, out), status)
    BY <1>3 DEF Invoke
  <2>2. op \in Op /\ config \in Config
    BY ExecutionAssumption
  <2> QED
    BY <2>1, <2>2, SingleIsRespectful
<1>4. ASSUME NEW s \in Session, ExecuteOne(s) PROVE RespectfulStep
  <2> DEFINE req == Request(NextOp(s), run[s].rid, run[s].revision,
                            RenderBody(NextOp(s), run[s].config))
  <2>1. req \in RequestSet
    BY <1>4, ExecuteOneType DEF ExecuteOne
  <2>2. PICK out \in Outcome :
          /\ ActuateSigned(req, out)
          /\ \E step, status :
               run' = [run EXCEPT ![s].steps = Append(@, step), ![s].status = status]
    BY <1>4 DEF ExecuteOne
  <2>3. \A t \in Session : t # s => run'[t] = run[t]
    BY <2>2 DEF TypeOK
  <2>4. run'[s].rid = run[s].rid /\ run'[s].revision = run[s].revision
    BY <2>2 DEF TypeOK, Run
  <2>5. run'[s].rid = req.rid /\ run'[s].revision = req.ifMatch
    BY <2>4 DEF Request
  <2> HIDE DEF req
  <2> QED
    BY <2>1, <2>2, <2>3, <2>5, SendingIsRespectful
<1> QED
  BY <1>1, <1>2, <1>3, <1>4
     DEF Next, Calls, Guest, vars, Observe, ObserveOnce, Execute, ociVars, Poll,
         ExecuteReturns, Abort, WorkEnds, OthersWrite

\* A call changes no existing resource but the one it is bound to, and under a
\* revision only while the resource still has that etag.
THEOREM NeverOverwrites == Spec => NoSilentOverwrite
<1>1. TypeOK /\ [Next]_vars => [RespectfulStep]_vars
  BY NextIsRespectful
<1>2. [RespectfulStep]_vars =>
        [\A s \in Session, r \in ResId :
           (/\ run'[s] # run[s]
            /\ cloud[r].life # "unused"
            /\ cloud'[r] # cloud[r])
             => /\ run'[s].rid = r
                /\ run'[s].revision \in {NoRev, cloud[r].etag}]_vars
  BY DEF RespectfulStep, Respects
<1> QED
  BY <1>1, <1>2, TypeCorrect, PTL DEF Spec, NoSilentOverwrite

-----------------------------------------------------------------------------
(* Verdicts. *)

HonestInv == TypeOK /\ HonestVerdict

\* A call of one operation ends with a verdict its only step bears out.
LEMMA SingleIsHonest ==
  ASSUME NEW r, NEW op, NEW step, step.op = op, r.ops = <<op>>,
         \/ r.steps = << >> /\ r.status = "error"
         \/ r.steps = <<step>> /\ r.status = VerdictOf(step)
  PROVE  Honest(r)
<1>1. CASE r.steps = << >> /\ r.status = "error"
  BY <1>1 DEF Honest
<1>2. CASE r.steps = <<step>> /\ r.status = VerdictOf(step)
  <2>1. DOMAIN r.steps = {1} /\ r.steps[1] = step /\ Len(r.steps) = 1 /\ r.steps # << >>
    BY <1>2
  <2>2. Len(r.ops) = 1 /\ r.ops[1] = op
    OBVIOUS
  <2>3. CASE Fatal(step)
    <3>1. r.status = "failed"
      BY <1>2, <2>3 DEF VerdictOf
    <3> HIDE <1>2
    <3> QED
      BY <2>1, <2>2, <2>3, <3>1 DEF Honest
  <2>4. CASE ~Fatal(step)
    <3>1. r.status = IF step.wr # NoJob THEN "accepted" ELSE "succeeded"
      BY <1>2, <2>4 DEF VerdictOf
    <3>2. Clean(r) /\ (Pending(r.steps) <=> step.wr # NoJob)
      BY <2>1, <2>4 DEF Clean, Pending
    <3> QED
      BY <2>1, <2>2, <2>4, <3>1, <3>2 DEF Honest
  <2> QED
    BY <2>3, <2>4
<1> QED
  BY <1>1, <1>2

\* Another step of the plan keeps a running result honest.
LEMMA AnotherStepIsHonest ==
  ASSUME NEW r \in Run, NEW q, NEW step \in Step, Honest(r), r.status = "running",
         Len(r.steps) < Len(r.ops), step.op = r.ops[Len(r.steps) + 1],
         q.ops = r.ops, q.steps = Append(r.steps, step),
         q.status = IF Fatal(step) THEN "failed" ELSE "running"
  PROVE  Honest(q)
<1> DEFINE n == Len(r.steps) + 1
<1>1. /\ r.steps \in Seq(Step) /\ r.ops \in Seq(Op) /\ Clean(r)
      /\ Len(q.steps) = n /\ DOMAIN q.steps = 1 .. n /\ q.steps[n] = step
      /\ \A i \in DOMAIN r.steps : q.steps[i] = r.steps[i]
      /\ DOMAIN r.steps = 1 .. n - 1 /\ n \in Nat
  BY DEF Honest, Run
<1>2. \A i \in DOMAIN q.steps : i # n => i \in DOMAIN r.steps /\ i < n
  BY <1>1
<1>3. \A i \in DOMAIN q.steps : q.steps[i].op = q.ops[i]
  BY <1>1, <1>2 DEF Honest
<1>4. \A i \in DOMAIN q.steps : i < n => ~Fatal(q.steps[i])
  BY <1>1, <1>2 DEF Clean
<1>5. q.steps # << >> /\ Len(q.steps) <= Len(q.ops)
  <2>1. Len(q.steps) <= Len(q.ops)
    BY <1>1
  <2>2. ASSUME q.steps = << >> PROVE FALSE
    <3>1. DOMAIN q.steps = {}
      BY <2>2
    <3> QED
      BY <1>1, <3>1
  <2> QED
    BY <2>1, <2>2
<1>6. CASE Fatal(step)
  BY <1>1, <1>3, <1>4, <1>5, <1>6 DEF Honest
<1>7. CASE ~Fatal(step)
  <2>1. Clean(q)
    BY <1>1, <1>2, <1>4, <1>7 DEF Clean
  <2> QED
    BY <1>1, <1>3, <1>4, <1>5, <1>7, <2>1 DEF Honest
<1> QED
  BY <1>6, <1>7

LEMMA HonestInit == Init => HonestVerdict
  BY DEF Init, NoRun, HonestVerdict, Honest

LEMMA HonestNext == HonestInv /\ [Next]_vars => HonestVerdict'
<1> SUFFICES ASSUME TypeOK, HonestVerdict, [Next]_vars PROVE HonestVerdict'
  BY DEF HonestInv
<1>1. ASSUME NEW s \in Session, \A t \in Session : t # s => run'[t] = run[t],
             Honest(run'[s])
      PROVE  HonestVerdict'
  BY <1>1 DEF HonestVerdict, Honest, Clean
<1>2. ASSUME UNCHANGED run PROVE HonestVerdict'
  BY <1>2 DEF HonestVerdict
<1>3. ASSUME NEW s \in Session, NEW op \in Op, NEW config, NEW b, NEW out \in Outcome,
             NEW status, status \in {"error", VerdictOf(StepOf(op, out))},
             Single(s, op, config, b, StepOf(op, out), status)
      PROVE  HonestVerdict'
  <2> DEFINE step == StepOf(op, out)
  <2>1. step.op = op /\ VerdictOf(step) # "error"
    BY StepOfFacts DEF VerdictOf
  <2>2. /\ run'[s].ops = <<op>> /\ run'[s].status = status
        /\ run'[s].steps = IF status = "error" THEN << >> ELSE <<step>>
        /\ \A t \in Session : t # s => run'[t] = run[t]
    BY <1>3 DEF Single, TypeOK
  <2> HIDE DEF step
  <2>3. status \in {"error", VerdictOf(step)}
    BY <1>3 DEF step
  <2>4. Honest(run'[s])
    BY <2>1, <2>2, <2>3, SingleIsHonest
  <2> QED
    BY <1>1, <2>2, <2>4
<1>4. ASSUME NEW s \in Session, NEW b \in Bindings(s), NEW ops \in Plans,
             NEW config \in Intents, Execute(s, ops, config, b)
      PROVE  HonestVerdict'
  <2>1. /\ run'[s].steps = << >> /\ run'[s].status = "running" /\ run'[s].ops \in Seq(Op)
        /\ \A t \in Session : t # s => run'[t] = run[t]
    BY <1>4, ExecutionAssumption DEF Execute, TypeOK
  <2>2. Honest(run'[s])
    BY <2>1 DEF Honest, Clean
  <2> QED
    BY <1>1, <2>1, <2>2
<1>5. ASSUME NEW s \in Session, NEW b \in Bindings(s), Destroy(s, b) PROVE HonestVerdict'
  <2> DEFINE op == OpByRole("delete")
  <2>1. PICK out \in Outcome :
          Single(s, op, EmptyConfig, b, StepOf(op, out),
                 IF out.err # "" \/ StepOf(op, out).http = 404 THEN "error"
                 ELSE VerdictOf(StepOf(op, out)))
    BY <1>5 DEF Destroy
  <2>2. op \in Op
    BY OpByRoleType DEF LifecycleRole
  <2> HIDE DEF op
  <2> QED
    BY <1>3, <2>1, <2>2
<1>6. ASSUME NEW s \in Session, NEW b \in Bindings(s), NEW op \in Invoked,
             NEW config \in Intents, Invoke(s, op, config, b)
      PROVE  HonestVerdict'
  <2>1. PICK out \in Outcome :
          Single(s, op, config, b, StepOf(op, out),
                 IF out.err # "" THEN "error" ELSE VerdictOf(StepOf(op, out)))
    BY <1>6 DEF Invoke
  <2> QED
    BY <1>3, <2>1, ExecutionAssumption
<1>7. ASSUME NEW s \in Session, ExecuteOne(s) PROVE HonestVerdict'
  <2>1. PICK out \in Outcome :
          run' = [run EXCEPT ![s].steps  = Append(@, StepOf(NextOp(s), out)),
                             ![s].status = IF Fatal(StepOf(NextOp(s), out)) THEN "failed"
                                           ELSE "running"]
    BY <1>7 DEF ExecuteOne
  <2> DEFINE step == StepOf(NextOp(s), out)
  <2>2. step \in Step /\ step.op = NextOp(s)
    BY <1>7, ExecuteOneType, StepOfFacts DEF ExecuteOne
  <2>3. run[s] \in Run /\ Honest(run[s])
    BY DEF TypeOK, HonestVerdict
  <2>4. /\ run'[s].ops = run[s].ops
        /\ run'[s].steps = Append(run[s].steps, step)
        /\ run'[s].status = IF Fatal(step) THEN "failed" ELSE "running"
        /\ \A t \in Session : t # s => run'[t] = run[t]
    BY <2>1, <2>3 DEF TypeOK, Run
  <2> HIDE DEF step
  <2>5. step.op = run[s].ops[Len(run[s].steps) + 1]
    BY <2>2 DEF NextOp
  <2>6. Honest(run'[s])
    BY <1>7, <2>2, <2>3, <2>4, <2>5, AnotherStepIsHonest DEF ExecuteOne
  <2> QED
    BY <1>1, <2>4, <2>6
<1>8. ASSUME NEW s \in Session, ExecuteReturns(s) \/ Abort(s) PROVE HonestVerdict'
  <2>1. run[s] \in Run /\ Honest(run[s]) /\ run[s].status = "running"
    BY <1>8 DEF TypeOK, HonestVerdict, ExecuteReturns, Abort
  <2>2. /\ run'[s].ops = run[s].ops /\ run'[s].steps = run[s].steps
        /\ \A t \in Session : t # s => run'[t] = run[t]
        /\ \/ run'[s].status = "lost"
           \/ /\ run'[s].status = IF Pending(run[s].steps) THEN "accepted" ELSE "succeeded"
              /\ Len(run[s].steps) = Len(run[s].ops)
    BY <1>8, <2>1 DEF TypeOK, Run, ExecuteReturns, Abort
  <2>3. Honest(run'[s])
    BY <2>1, <2>2 DEF Honest, Clean
  <2> QED
    BY <1>1, <2>2, <2>3
<1> QED
  BY <1>2, <1>4, <1>5, <1>6, <1>7, <1>8
     DEF Next, Calls, Guest, vars, Observe, ObserveOnce, Poll, WorkEnds, OthersWrite

\* Whatever is lost, refused or garbled on the way, a verdict tells the truth about
\* the steps of its result.
THEOREM VerdictsAreHonest == Spec => []HonestVerdict
<1>1. Init => HonestInv
  BY InitType, HonestInit DEF HonestInv
<1>2. HonestInv /\ [Next]_vars => HonestInv'
  BY TypeStep, HonestNext DEF HonestInv
<1>3. HonestInv => HonestVerdict
  BY DEF HonestInv
<1> QED
  BY <1>1, <1>2, <1>3, PTL DEF Spec

-----------------------------------------------------------------------------
(* The refinement of PlanRun.  What a result reports as done. *)

LEMMA NothingDone == DoneOf(<< >>) = << >>
  BY DEF DoneOf

LEMMA OneDone ==
  ASSUME NEW step
  PROVE  DoneOf(<<step>>) = IF Fatal(step) THEN << >> ELSE <<step.op>>
<1> DEFINE one == <<step>>
<1>1. DOMAIN one = {1} /\ one[1] = step
  OBVIOUS
<1> HIDE DEF one
<1>2. CASE Fatal(step)
  <2>1. {j \in DOMAIN one : ~Fatal(one[j])} = {}
    BY <1>1, <1>2
  <2>2. DoneOf(one) = << >>
    BY <2>1 DEF DoneOf
  <2> QED
    BY <1>2, <2>2 DEF one
<1>3. CASE ~Fatal(step)
  <2>1. {j \in DOMAIN one : ~Fatal(one[j])} = {1}
    BY <1>1, <1>3
  <2>2. DoneOf(one) = [i \in {1} |-> step.op]
    BY <1>1, <2>1 DEF DoneOf
  <2>3. <<step.op>> = [i \in {1} |-> step.op]
    OBVIOUS
  <2> QED
    BY <1>3, <2>2, <2>3 DEF one
<1> QED
  BY <1>2, <1>3

\* While no step is in error everything recorded is done.
LEMMA CleanDone ==
  ASSUME NEW r \in Run, Honest(r), Clean(r)
  PROVE  /\ DoneOf(r.steps) = [i \in 1 .. Len(r.steps) |-> r.ops[i]]
         /\ DoneOf(r.steps) \in Seq(Op)
         /\ Len(DoneOf(r.steps)) = Len(r.steps)
         /\ Len(r.steps) = Len(r.ops) => DoneOf(r.steps) = r.ops
<1>1. /\ r.steps \in Seq(Step) /\ r.ops \in Seq(Op)
      /\ DOMAIN r.steps = 1 .. Len(r.steps) /\ Len(r.steps) \in Nat
      /\ Len(r.steps) <= Len(r.ops)
  BY DEF Run, Honest
<1>2. {j \in DOMAIN r.steps : ~Fatal(r.steps[j])} = 1 .. Len(r.steps)
  BY <1>1 DEF Clean
<1>3. \A i \in 1 .. Len(r.steps) : r.steps[i].op = r.ops[i] /\ r.ops[i] \in Op
  BY <1>1 DEF Honest
<1>4. DoneOf(r.steps) = [i \in 1 .. Len(r.steps) |-> r.ops[i]]
  BY <1>2, <1>3 DEF DoneOf
<1>5. DoneOf(r.steps) \in Seq(Op) /\ Len(DoneOf(r.steps)) = Len(r.steps)
  BY <1>1, <1>3, <1>4
<1>6. ASSUME Len(r.steps) = Len(r.ops) PROVE DoneOf(r.steps) = r.ops
  BY <1>1, <1>4, <1>6
<1> QED
  BY <1>4, <1>5, <1>6

\* A further step adds its operation to what is done, or nothing if it failed.
LEMMA FurtherDone ==
  ASSUME NEW r \in Run, Honest(r), r.status = "running", NEW step \in Step
  PROVE  DoneOf(Append(r.steps, step)) =
           IF Fatal(step) THEN DoneOf(r.steps) ELSE Append(DoneOf(r.steps), step.op)
<1> DEFINE n == Len(r.steps)
           all == Append(r.steps, step)
<1>1. /\ r.steps \in Seq(Step) /\ n \in Nat /\ Clean(r)
      /\ DOMAIN r.steps = 1 .. n
  BY DEF Run, Honest
<1>2. /\ DOMAIN all = 1 .. n + 1 /\ all[n + 1] = step
      /\ \A i \in 1 .. n : all[i] = r.steps[i] /\ ~Fatal(r.steps[i])
  BY <1>1 DEF Clean
<1>3. /\ DoneOf(r.steps) = [i \in 1 .. n |-> r.steps[i].op]
      /\ DoneOf(r.steps) \in Seq(Op) /\ Len(DoneOf(r.steps)) = n
  <2>1. {j \in DOMAIN r.steps : ~Fatal(r.steps[j])} = 1 .. n
    BY <1>1, <1>2
  <2> QED
    BY <1>1, <2>1, CleanDone DEF DoneOf
<1> HIDE DEF n, all
<1>4. CASE Fatal(step)
  <2>1. {j \in DOMAIN all : ~Fatal(all[j])} = 1 .. n
    BY <1>1, <1>2, <1>4
  <2>2. DoneOf(all) = [i \in 1 .. n |-> r.steps[i].op]
    BY <1>2, <2>1 DEF DoneOf
  <2> QED
    BY <1>3, <1>4, <2>2 DEF all
<1>5. CASE ~Fatal(step)
  <2>1. {j \in DOMAIN all : ~Fatal(all[j])} = 1 .. n + 1
    BY <1>1, <1>2, <1>5
  <2>2. DoneOf(all) = [i \in 1 .. n + 1 |-> all[i].op]
    BY <2>1 DEF DoneOf
  <2>3. Append(DoneOf(r.steps), step.op) = [i \in 1 .. n + 1 |-> all[i].op]
    BY <1>1, <1>2, <1>3
  <2> QED
    BY <1>5, <2>2, <2>3 DEF all
<1> QED
  BY <1>4, <1>5

-----------------------------------------------------------------------------
(* The mapping of steps. *)

Plan == [s \in Session |-> run[s].ops]

DoneOps == [s \in Session |-> DoneOf(run[s].steps)]

Told == [s \in Session |-> run[s].status]

\* A step of one session moves the abstract variables at that session only.
LEMMA OneSessionMoves ==
  ASSUME NEW s \in Session, \A t \in Session : t # s => run'[t] = run[t]
  PROVE  /\ Plan' = [Plan EXCEPT ![s] = run'[s].ops]
         /\ DoneOps' = [DoneOps EXCEPT ![s] = DoneOf(run'[s].steps)]
         /\ Told' = [Told EXCEPT ![s] = run'[s].status]
  BY DEF Plan, DoneOps, Told

LEMMA RunFields ==
  ASSUME NEW s \in Session
  PROVE  Plan[s] = run[s].ops /\ DoneOps[s] = DoneOf(run[s].steps) /\ Told[s] = run[s].status
  BY DEF Plan, DoneOps, Told

LEMMA MappedInit == Init => PlanRunOf!Init
<1> SUFFICES ASSUME Init PROVE PlanRunOf!Init
  OBVIOUS
<1>1. \A s \in Session :
        run[s].ops = << >> /\ DoneOf(run[s].steps) = << >> /\ run[s].status = "none"
  BY NothingDone DEF Init, NoRun
<1> QED
  BY <1>1 DEF PlanRunOf!Init

\* The abstract step of a call that sends one request.
LEMMA SingleMaps ==
  ASSUME TypeOK, NEW s \in Session, Idle(s), NEW op \in Op, NEW config, NEW b,
         NEW out \in Outcome, NEW status, status \in {"error", VerdictOf(StepOf(op, out))},
         Single(s, op, config, b, StepOf(op, out), status)
  PROVE  PlanRunOf!Single(s)
<1> DEFINE step == StepOf(op, out)
<1>1. step.op = op /\ VerdictOf(step) # "error"
  BY StepOfFacts DEF VerdictOf
<1>2. /\ run'[s].ops = <<op>> /\ run'[s].status = status
      /\ run'[s].steps = IF status = "error" THEN << >> ELSE <<step>>
      /\ \A t \in Session : t # s => run'[t] = run[t]
  BY DEF Single, TypeOK
<1> HIDE DEF step
<1>3. status \in {"error", VerdictOf(step)}
  BY DEF step
<1>4. \/ DoneOf(run'[s].steps) = <<op>> /\ run'[s].status \in {"succeeded", "accepted"}
      \/ DoneOf(run'[s].steps) = << >> /\ run'[s].status \in {"failed", "error"}
  <2>1. CASE status = "error"
    BY <1>2, <2>1, NothingDone
  <2>2. CASE status = VerdictOf(step) /\ Fatal(step)
    BY <1>1, <1>2, <2>2, OneDone DEF VerdictOf
  <2>3. CASE status = VerdictOf(step) /\ ~Fatal(step)
    BY <1>1, <1>2, <2>3, OneDone DEF VerdictOf
  <2> QED
    BY <1>3, <2>1, <2>2, <2>3
<1>5. /\ Plan' = [Plan EXCEPT ![s] = <<op>>]
      /\ DoneOps' = [DoneOps EXCEPT ![s] = DoneOf(run'[s].steps)]
      /\ Told' = [Told EXCEPT ![s] = run'[s].status]
  BY <1>2, OneSessionMoves
<1>6. Told[s] # "running"
  BY RunFields DEF Idle
<1> QED
  BY <1>4, <1>5, <1>6 DEF PlanRunOf!Single, Plan, DoneOps, Told

\* A request of a running plan is performed, or fails the call.
LEMMA ExecuteOneMaps ==
  ASSUME TypeOK, HonestVerdict, NEW s \in Session, ExecuteOne(s)
  PROVE  PlanRunOf!Perform(s) \/ PlanRunOf!Fail(s)
<1>1. PICK out \in Outcome :
        run' = [run EXCEPT ![s].steps  = Append(@, StepOf(NextOp(s), out)),
                           ![s].status = IF Fatal(StepOf(NextOp(s), out)) THEN "failed"
                                         ELSE "running"]
  BY DEF ExecuteOne
<1> DEFINE step == StepOf(NextOp(s), out)
<1>2. step \in Step /\ step.op = run[s].ops[Len(run[s].steps) + 1]
  BY ExecuteOneType, StepOfFacts DEF ExecuteOne, NextOp
<1>3. /\ run[s] \in Run /\ Honest(run[s]) /\ run[s].status = "running" /\ Clean(run[s])
      /\ Len(run[s].steps) < Len(run[s].ops)
  BY DEF TypeOK, HonestVerdict, Honest, ExecuteOne
<1>4. /\ run'[s].ops = run[s].ops
      /\ run'[s].steps = Append(run[s].steps, step)
      /\ run'[s].status = IF Fatal(step) THEN "failed" ELSE "running"
      /\ \A t \in Session : t # s => run'[t] = run[t]
  BY <1>1, <1>3 DEF TypeOK, Run
<1> HIDE DEF step
<1>5. /\ Len(DoneOps[s]) = Len(run[s].steps) /\ Plan[s] = run[s].ops
      /\ Told[s] = "running" /\ DoneOps[s] = DoneOf(run[s].steps)
  BY <1>3, CleanDone, RunFields
<1>6. DoneOf(run'[s].steps) = IF Fatal(step) THEN DoneOps[s] ELSE Append(DoneOps[s], step.op)
  BY <1>2, <1>3, <1>4, <1>5, FurtherDone
<1>7. /\ Plan' = [Plan EXCEPT ![s] = run'[s].ops]
      /\ DoneOps' = [DoneOps EXCEPT ![s] = DoneOf(run'[s].steps)]
      /\ Told' = [Told EXCEPT ![s] = run'[s].status]
  BY <1>4, OneSessionMoves
<1>8. /\ Plan = [Plan EXCEPT ![s] = Plan[s]] /\ DoneOps = [DoneOps EXCEPT ![s] = DoneOps[s]]
      /\ Told = [Told EXCEPT ![s] = Told[s]]
  BY DEF Plan, DoneOps, Told
<1>9. CASE Fatal(step)
  <2>1. Plan' = Plan /\ DoneOps' = DoneOps /\ Told' = [Told EXCEPT ![s] = "failed"]
    BY <1>4, <1>5, <1>6, <1>7, <1>8, <1>9
  <2>2. PlanRunOf!Fail(s)
    BY <1>3, <1>5, <2>1 DEF PlanRunOf!Fail, Plan, DoneOps, Told
  <2> QED
    BY <2>2
<1>10. CASE ~Fatal(step)
  <2>1. /\ Plan' = Plan /\ Told' = Told
        /\ DoneOps' = [DoneOps EXCEPT ![s] = Append(@, Plan[s][Len(@) + 1])]
    BY <1>2, <1>4, <1>5, <1>6, <1>7, <1>8, <1>10
  <2>2. PlanRunOf!Perform(s)
    BY <1>3, <1>5, <2>1 DEF PlanRunOf!Perform, Plan, DoneOps, Told
  <2> QED
    BY <2>2
<1> QED
  BY <1>9, <1>10

\* A step that ends a running call with nothing more sent.
LEMMA EndMaps ==
  ASSUME TypeOK, HonestVerdict, NEW s \in Session, ExecuteReturns(s) \/ Abort(s)
  PROVE  PlanRunOf!Complete(s) \/ PlanRunOf!Lose(s)
<1>1. /\ run[s] \in Run /\ Honest(run[s]) /\ run[s].status = "running" /\ Clean(run[s])
  BY DEF TypeOK, HonestVerdict, Honest, ExecuteReturns, Abort
<1>2. /\ run'[s].ops = run[s].ops /\ run'[s].steps = run[s].steps
      /\ \A t \in Session : t # s => run'[t] = run[t]
      /\ \/ run'[s].status = "lost"
         \/ /\ run'[s].status \in {"succeeded", "accepted"}
            /\ Len(run[s].steps) = Len(run[s].ops)
  BY <1>1 DEF TypeOK, Run, ExecuteReturns, Abort
<1>3. Plan' = Plan /\ DoneOps' = DoneOps /\ Told' = [Told EXCEPT ![s] = run'[s].status]
  BY <1>2, OneSessionMoves DEF Plan, DoneOps
<1>4. Told[s] = "running"
  BY <1>1, RunFields
<1>5. CASE run'[s].status = "lost"
  BY <1>3, <1>4, <1>5 DEF PlanRunOf!Lose, Plan, DoneOps, Told
<1>6. CASE run'[s].status # "lost"
  <2>1. DoneOps[s] = Plan[s]
    BY <1>1, <1>2, <1>6, CleanDone, RunFields
  <2> QED
    BY <1>2, <1>3, <1>4, <1>6, <2>1 DEF PlanRunOf!Complete, Plan, DoneOps, Told
<1> QED
  BY <1>5, <1>6

LEMMA ExecuteMaps ==
  ASSUME TypeOK, NEW s \in Session, NEW b, NEW ops \in Plans, NEW config,
         Execute(s, ops, config, b)
  PROVE  PlanRunOf!Submit(s)
<1>1. /\ run'[s].ops = ops /\ run'[s].steps = << >> /\ run'[s].status = "running"
      /\ \A t \in Session : t # s => run'[t] = run[t]
      /\ ops \in Seq(Op) /\ run[s].status # "running"
  BY ExecutionAssumption DEF Execute, Idle, TypeOK
<1>2. /\ Plan' = [Plan EXCEPT ![s] = ops]
      /\ DoneOps' = [DoneOps EXCEPT ![s] = << >>]
      /\ Told' = [Told EXCEPT ![s] = "running"]
  BY <1>1, OneSessionMoves, NothingDone
<1>3. Plan'[s] = ops
  BY <1>1 DEF Plan
<1>4. Told[s] # "running"
  BY <1>1, RunFields
<1> QED
  BY <1>1, <1>2, <1>3, <1>4 DEF PlanRunOf!Submit, Plan, DoneOps, Told

LEMMA MappedNext ==
  ASSUME TypeOK, HonestVerdict, [Next]_vars
  PROVE  [PlanRunOf!Next]_PlanRunOf!abstractVars
<1>1. ASSUME UNCHANGED run PROVE UNCHANGED PlanRunOf!abstractVars
  BY <1>1 DEF PlanRunOf!abstractVars
<1>2. ASSUME NEW s \in Session, NEW b \in Bindings(s), NEW ops \in Plans,
             NEW config \in Intents, Execute(s, ops, config, b)
      PROVE  PlanRunOf!Next
  BY <1>2, ExecuteMaps DEF PlanRunOf!Next
<1>3. ASSUME NEW s \in Session, NEW b \in Bindings(s), Destroy(s, b)
      PROVE  PlanRunOf!Next
  <2> DEFINE op == OpByRole("delete")
  <2>1. PICK out \in Outcome :
          Single(s, op, EmptyConfig, b, StepOf(op, out),
                 IF out.err # "" \/ StepOf(op, out).http = 404 THEN "error"
                 ELSE VerdictOf(StepOf(op, out)))
    BY <1>3 DEF Destroy
  <2>2. op \in Op /\ Idle(s)
    BY <1>3, OpByRoleType DEF LifecycleRole, Destroy
  <2> HIDE DEF op
  <2>3. PlanRunOf!Single(s)
    BY <2>1, <2>2, SingleMaps
  <2> QED
    BY <2>3 DEF PlanRunOf!Next
<1>4. ASSUME NEW s \in Session, NEW b \in Bindings(s), NEW op \in Invoked,
             NEW config \in Intents, Invoke(s, op, config, b)
      PROVE  PlanRunOf!Next
  <2>1. PICK out \in Outcome :
          Single(s, op, config, b, StepOf(op, out),
                 IF out.err # "" THEN "error" ELSE VerdictOf(StepOf(op, out)))
    BY <1>4 DEF Invoke
  <2>2. op \in Op /\ Idle(s)
    BY <1>4, ExecutionAssumption DEF Invoke
  <2>3. PlanRunOf!Single(s)
    BY <2>1, <2>2, SingleMaps
  <2> QED
    BY <2>3 DEF PlanRunOf!Next
<1>5. ASSUME NEW s \in Session, ExecuteOne(s) PROVE PlanRunOf!Next
  BY <1>5, ExecuteOneMaps DEF PlanRunOf!Next, PlanRunOf!Advance
<1>6. ASSUME NEW s \in Session, ExecuteReturns(s) \/ Abort(s) PROVE PlanRunOf!Next
  BY <1>6, EndMaps DEF PlanRunOf!Next, PlanRunOf!Advance
<1> QED
  BY <1>1, <1>2, <1>3, <1>4, <1>5, <1>6
     DEF Next, Calls, Guest, vars, Observe, ObserveOnce, Poll, WorkEnds, OthersWrite

\* The sign+send calls keep the promise of module PlanRun but for its fairness: an
\* approved plan is carried out verbatim, each operation once and in order, the first
\* that cannot be done ends the call, and a verdict once given is final.
THEOREM ImplementsPlanRun == Spec => PlanRunOf!Spec
<1>1. TypeOK /\ HonestVerdict /\ [Next]_vars => [PlanRunOf!Next]_PlanRunOf!abstractVars
  BY MappedNext
<1> QED
  BY <1>1, MappedInit, TypeCorrect, VerdictsAreHonest, PTL DEF Spec, PlanRunOf!Spec

=============================================================================
