---------------------------- MODULE ReconcileProofs ----------------------------
(***************************************************************************)
(* Theorems about module Reconcile: its types, and that one intent never   *)
(* has two live realizations.  A replacement first deletes the resource    *)
(* and then creates the new one.  In between nothing is live, and the run  *)
(* that has deleted is the only one whose create can still come.           *)
(***************************************************************************)
EXTENDS Reconcile, ExecutionProofs, PlanningProofs

\* A run of a replacement that has deleted and not yet created.
Holding(r) == r.status = "running" /\ r.ops = Replacement /\ Len(r.steps) = 1

\* There is at most one resource, or a run that may still create it.
OneClaim ==
  /\ OneRealization
  /\ \A s \in Session : Holding(run[s]) => \A rid \in ResId : ~Live(rid)
  /\ \A s, t \in Session : Holding(run[s]) /\ Holding(run[t]) => s = t

\* What Plan computes: a replacement, or edits only.
Planned(ops) == ops = Replacement \/ ops \in Seq(Edits)

PlansAreComputed ==
  \A s \in Session : Planned(plan[s].ops) /\ Planned(run[s].ops)

\* No resource waits to be deleted, so none comes back to life.
NothingPending == \A j \in JobId : jobs[j].role # "delete"

OneInv == LoopTypeOK /\ PlansAreComputed /\ NothingPending /\ OneClaim

-----------------------------------------------------------------------------
(* The types of the loop. *)

LEMMA ReplacementFacts ==
  /\ Replacement \in Seq(Op) /\ Len(Replacement) = 2
  /\ Role[Replacement[1]] = "delete" /\ Role[Replacement[2]] = "create"
  /\ Replacement \notin Seq(Edits)
<1>1. /\ OpByRole("delete") \in Op /\ Role[OpByRole("delete")] = "delete"
      /\ OpByRole("create") \in Op /\ Role[OpByRole("create")] = "create"
  BY RoleHasOp DEF LifecycleRole
<1>2. Replacement \in Seq(Op) /\ Len(Replacement) = 2
  BY <1>1 DEF Replacement
<1>3. Replacement[1] = OpByRole("delete") /\ Replacement[2] = OpByRole("create")
  BY DEF Replacement
<1>4. OpByRole("delete") \notin Edits
  BY <1>1 DEF Edits
<1>5. Replacement \notin Seq(Edits)
  <2>1. ASSUME Replacement \in Seq(Edits) PROVE Replacement[1] \in Edits
    BY <1>2, <2>1
  <2> QED
    BY <1>3, <1>4, <2>1
<1> QED
  BY <1>1, <1>2, <1>3, <1>5

LEMMA PlannedType ==
  ASSUME NEW ops, Planned(ops)
  PROVE  ops \in Seq(Op)
<1>1. Edits \subseteq Op
  BY DEF Edits
<1>2. ops \in Seq(Edits) => ops \in Seq(Op)
  BY <1>1
<1> QED
  BY <1>2, ReplacementFacts DEF Planned

LEMMA PlanForFacts ==
  ASSUME TypeOK, NEW s \in Session
  PROVE  /\ PlanFor(s).operation \in {"noop", "update", "action", "replace"}
         /\ Planned(PlanFor(s).ops)
         /\ PlanFor(s) \in [operation : {"noop", "update", "action", "replace"},
                            ops : Seq(Op)]
<1>1. Wanted[s] \in Config /\ obs[s].config \in Config
  BY ReconcileAssumption DEF TypeOK, Observation
<1>2. PlanOperation(Wanted[s], obs[s].config) \in {"noop", "update", "action", "replace"}
  BY <1>1, PlanOperationFacts
<1>3. Planned(PlanOps(Wanted[s], obs[s].config))
  BY <1>1, PlanOpsFacts DEF Planned
<1> QED
  BY <1>2, <1>3, PlannedType DEF PlanFor

LEMMA LoopInitType == LoopInit => LoopTypeOK
  BY InitType DEF LoopInit, LoopTypeOK, Phase, NoPlan

LEMMA EnterType ==
  ASSUME LoopTypeOK, NEW s \in Session, NEW p \in Phase, Enter(s, p)
  PROVE  phase' \in [Session -> Phase]
  BY DEF LoopTypeOK, Enter

\* Every step of the loop but two is a step of module Execution or none at all.
LEMMA LoopStepType == LoopTypeOK /\ [LoopNext]_loopVars => LoopTypeOK'
<1> SUFFICES ASSUME LoopTypeOK, [LoopNext]_loopVars PROVE LoopTypeOK'
  OBVIOUS
<1> DEFINE HostOK == /\ phase' \in [Session -> Phase]
                     /\ plan' \in [Session -> [operation : {"noop", "update", "action", "replace"},
                                               ops : Seq(Op)]]
                     /\ stale' \in [Session -> BOOLEAN]
<1>0. TypeOK
  BY DEF LoopTypeOK
<1>1. ASSUME [Next]_vars, HostOK PROVE LoopTypeOK'
  BY <1>0, <1>1, TypeStep DEF LoopTypeOK
<1>2. CASE UNCHANGED loopVars
  BY <1>1, <1>2 DEF loopVars, LoopTypeOK
<1>3. ASSUME NEW s \in Session, HostObserves(s) PROVE LoopTypeOK'
  <2>1. PICK rid \in ResId, out \in Outcome :
          /\ ObserveOnce(s, rid, out)
          /\ IF out = ReadDone
               THEN Enter(s, "plan") /\ stale' = [stale EXCEPT ![s] = FALSE]
               ELSE UNCHANGED <<phase, stale>>
    BY <1>3 DEF HostObserves
  <2>2. Next
    BY <2>1 DEF Next, Calls, Observe
  <2>3. phase' \in [Session -> Phase]
    BY <2>1, EnterType DEF Phase, LoopTypeOK
  <2>4. stale' \in [Session -> BOOLEAN] /\ UNCHANGED plan
    BY <1>3, <2>1 DEF HostObserves, LoopTypeOK
  <2> QED
    BY <1>1, <2>2, <2>3, <2>4 DEF LoopTypeOK
<1>4. ASSUME NEW s \in Session, HostFindsNothing(s) PROVE LoopTypeOK'
  <2>1. Unobserved \in Observation
    BY EmptyTypes DEF Unobserved, Observation, NoRev
  <2>2. TypeOK'
    BY <1>0, <1>4, <2>1 DEF HostFindsNothing, TypeOK, OciTypeOK, ociVars
  <2>3. phase' \in [Session -> Phase]
    BY <1>4, EnterType DEF HostFindsNothing, Phase
  <2> QED
    BY <1>4, <2>2, <2>3 DEF HostFindsNothing, LoopTypeOK
<1>5. ASSUME NEW s \in Session, HostPlans(s) PROVE LoopTypeOK'
  <2>1. PlanFor(s) \in [operation : {"noop", "update", "action", "replace"}, ops : Seq(Op)]
    BY <1>0, PlanForFacts
  <2>2. plan' = [plan EXCEPT ![s] = PlanFor(s)] /\ UNCHANGED <<vars, stale>>
    BY <1>5 DEF HostPlans
  <2>3. phase' \in [Session -> Phase]
    <3>1. (IF PlanFor(s).operation = "noop" THEN "observe" ELSE "execute") \in Phase
      BY DEF Phase
    <3> QED
      BY <1>5, <3>1, EnterType DEF HostPlans
  <2> QED
    BY <1>1, <2>1, <2>2, <2>3 DEF LoopTypeOK
<1>6. ASSUME NEW s \in Session, HostExecutes(s) PROVE LoopTypeOK'
  <2>1. PICK b \in Bindings(s) : Execute(s, plan[s].ops, Wanted[s], b)
    BY <1>6 DEF HostExecutes
  <2> DEFINE r == [ops |-> plan[s].ops, config |-> Wanted[s], rid |-> b.rid,
                   revision |-> b.revision, steps |-> << >>, status |-> "running"]
  <2>2. plan[s].ops \in Seq(Op) /\ Wanted[s] \in Config
    BY ReconcileAssumption DEF LoopTypeOK
  <2>3. b.rid \in ResId \cup {NoRes} /\ b.revision \in Nat
    BY <1>0, BindingsType
  <2>4. r \in Run
    BY <2>2, <2>3 DEF Run, RunStatus
  <2>5. run' = [run EXCEPT ![s] = r]
    BY <2>1 DEF Execute
  <2> HIDE DEF r
  <2>6. TypeOK'
    BY <1>0, <2>1, <2>4, <2>5 DEF Execute, TypeOK, OciTypeOK, ociVars
  <2>7. phase' \in [Session -> Phase]
    BY <1>6, EnterType DEF HostExecutes, Phase
  <2> QED
    BY <1>6, <2>6, <2>7 DEF HostExecutes, LoopTypeOK
<1>7. ASSUME NEW s \in Session, GuestActs(s) PROVE LoopTypeOK'
  <2>1. Next
    BY <1>7 DEF GuestActs, Next
  <2>2. stale' \in [Session -> BOOLEAN]
    BY <1>7 DEF GuestActs, Noticed, LoopTypeOK
  <2> QED
    BY <1>1, <1>7, <2>1, <2>2 DEF GuestActs, LoopTypeOK
<1>8. ASSUME NEW s \in Session, HostAborts(s) PROVE LoopTypeOK'
  BY <1>1, <1>8 DEF HostAborts, hostVars, Next, LoopTypeOK
<1>9. ASSUME NEW s \in Session, HostPolls(s) PROVE LoopTypeOK'
  <2>1. Next
    BY <1>9 DEF HostPolls, Next, Calls
  <2> QED
    BY <1>1, <1>9, <2>1 DEF HostPolls, hostVars, LoopTypeOK
<1>10. ASSUME NEW s \in Session, HostConcludes(s) PROVE LoopTypeOK'
  <2>1. phase' \in [Session -> Phase]
    BY <1>10, EnterType DEF HostConcludes, Phase
  <2> QED
    BY <1>1, <1>10, <2>1 DEF HostConcludes, LoopTypeOK
<1>11. ASSUME NEW j \in JobId, LoopWorkEnds(j) PROVE LoopTypeOK'
  <2>1. Next
    BY <1>11 DEF LoopWorkEnds, Next
  <2>2. stale' \in [Session -> BOOLEAN]
    BY <1>11 DEF LoopWorkEnds, Tracks, LoopTypeOK
  <2> QED
    BY <1>1, <1>11, <2>1, <2>2 DEF LoopWorkEnds, LoopTypeOK
<1>12. ASSUME NEW rid \in ResId, LoopOthersWrite(rid) PROVE LoopTypeOK'
  <2>1. Next
    BY <1>12 DEF LoopOthersWrite, Next
  <2> QED
    BY <1>1, <1>12, <2>1 DEF LoopOthersWrite, LoopTypeOK
<1> QED
  BY <1>2, <1>3, <1>4, <1>5, <1>6, <1>7, <1>8, <1>9, <1>10, <1>11, <1>12
     DEF LoopNext, SessionActs

\* The loop keeps its types: what Plan computes is a plan for every intent and every
\* observation (Plan, planProviderOps of provider.go).
THEOREM LoopTypeCorrect == LoopSpec => []LoopTypeOK
<1>1. LoopInit => LoopTypeOK
  BY LoopInitType
<1>2. LoopTypeOK /\ [LoopNext]_loopVars => LoopTypeOK'
  BY LoopStepType
<1> QED
  BY <1>1, <1>2, PTL DEF LoopSpec

-----------------------------------------------------------------------------
(* What a request does to the resources that are live. *)

\* Nothing comes to life.
NoBirth == \A r \in ResId : Live(r)' => Live(r)

\* At most one resource comes to life.
OneBirth == \E r : \A q \in ResId \ {r} : Live(q)' => Live(q)

\* A live resource is gone, everything else is as it was.
OneDeath == \E r \in ResId : Live(r) /\ ~Live(r)' /\ \A q \in ResId \ {r} : Live(q)' = Live(q)

LEMMA CommitLives ==
  ASSUME OciTypeOK, NEW rid, NEW life, NEW state, Commit(rid, life, state)
  PROVE  /\ \A r \in ResId : r # rid => cloud'[r] = cloud[r]
         /\ rid \in ResId => cloud'[rid].life = life
  BY DEF Commit, OciTypeOK

\* No Work Request is left behind for a delete.
LEMMA TrackKeepsPending ==
  ASSUME DeletesAreAnswered, OciTypeOK, NothingPending, NEW req \in RequestSet,
         req.role = Role[req.op], NEW rid, NEW j, Track(req, rid, j)
  PROVE  NothingPending'
<1>1. CASE req.op \in Async
  <2>1. req.role # "delete"
    <3>1. ASSUME Role[req.op] = "delete" PROVE req.op = OpByRole("delete")
      <4>1. PICK o \in Op : \A p \in Op : Role[p] = "delete" <=> p = o
        BY ContractAssumption DEF LifecycleRole
      <4>2. OpByRole("delete") \in Op /\ Role[OpByRole("delete")] = "delete"
        BY RoleHasOp DEF LifecycleRole
      <4> QED
        BY <3>1, <4>1, <4>2 DEF RequestSet
    <3> QED
      BY <1>1, <3>1 DEF DeletesAreAnswered
  <2>2. jobs' = [jobs EXCEPT ![j] = [status |-> "ACCEPTED", role |-> req.role,
                                     rid |-> rid, body |-> req.body]]
    BY <1>1 DEF Track
  <2> QED
    BY <2>1, <2>2 DEF NothingPending, OciTypeOK
<1>2. CASE req.op \notin Async
  BY <1>2 DEF Track, NothingPending
<1> QED
  BY <1>1, <1>2

LEMMA ServeLives ==
  ASSUME DeletesAreAnswered, OciTypeOK, NothingPending, NEW req \in RequestSet,
         req.role = Role[req.op], NEW rep \in Reply, Serve(req, rep)
  PROVE  /\ NothingPending'
         /\ req.role \in {"read", "update", "action", "delete"} => NoBirth
         /\ req.role = "delete" /\ rep.status < 400 => OneDeath
         /\ OneBirth
<1>1. CASE UNCHANGED ociVars /\ (req.role = "delete" => rep.status >= 400)
  BY <1>1 DEF ociVars, NothingPending, NoBirth, OneBirth, Live, Reply
<1>2. CASE ServeRead(req, rep)
  BY <1>1, <1>2 DEF ServeRead
<1>3. CASE Reject(req, rep)
  BY <1>1, <1>3 DEF Reject, Refuse, Answer
<1>4. CASE Unavailable(req, rep)
  BY <1>1, <1>4 DEF Unavailable, Refuse, Answer
<1>5. CASE Change(req, rep)
  <2>1. req.rid \in ResId /\ Live(req.rid) /\ req.role \in {"update", "action"}
    BY <1>5 DEF Change, Accepts, Exists, Live
  <2>2. \A r \in ResId : r # req.rid => cloud'[r] = cloud[r]
    BY <1>5, CommitLives DEF Change
  <2>3. NoBirth /\ OneBirth
    BY <2>1, <2>2 DEF NoBirth, OneBirth, Live
  <2>4. NothingPending'
    BY <1>5, TrackKeepsPending DEF Change
  <2> QED
    BY <2>1, <2>3, <2>4
<1>6. CASE Delete(req, rep)
  <2>1. req.rid \in ResId /\ Live(req.rid) /\ req.role = "delete"
    BY <1>6 DEF Delete, Accepts, Exists, Live
  <2> DEFINE life == IF req.op \in Async THEN "deleting" ELSE "gone"
  <2>2. life # "live"
    OBVIOUS
  <2>3. Commit(req.rid, life, cloud[req.rid].state)
    BY <1>6 DEF Delete
  <2> HIDE DEF life
  <2>4. /\ \A r \in ResId : r # req.rid => cloud'[r] = cloud[r]
        /\ cloud'[req.rid].life = life
    BY <2>1, <2>3, CommitLives
  <2>5. OneDeath /\ NoBirth /\ OneBirth
    BY <2>1, <2>2, <2>4 DEF OneDeath, NoBirth, OneBirth, Live
  <2>6. NothingPending'
    BY <1>6, TrackKeepsPending DEF Delete
  <2> QED
    BY <2>1, <2>5, <2>6
<1>7. CASE Create(req, rep)
  <2>1. req.role = "create"
    BY <1>7 DEF Create
  <2>2. CASE UNCHANGED ociVars
    BY <1>1, <2>1, <2>2
  <2>3. CASE ~UNCHANGED ociVars
    <3>1. PICK r \in ResId, j \in JobId \cup {NoJob} :
            Commit(r, "live", Provisioned(req.body)) /\ Track(req, r, j)
      BY <1>7, <2>3 DEF Create
    <3>2. \A q \in ResId : q # r => cloud'[q] = cloud[q]
      BY <3>1, CommitLives
    <3>3. OneBirth
      BY <3>2 DEF OneBirth, Live
    <3>4. NothingPending'
      BY <3>1, TrackKeepsPending
    <3> QED
      BY <2>1, <3>3, <3>4
  <2> QED
    BY <2>2, <2>3
<1> QED
  BY <1>2, <1>3, <1>4, <1>5, <1>6, <1>7 DEF Serve

\* The same for a signed request: only a delete that was carried out is taken for done.
LEMMA ActuateLives ==
  ASSUME DeletesAreAnswered, OciTypeOK, NothingPending, NEW req \in RequestSet,
         req.role = Role[req.op], NEW out \in Outcome, ActuateSigned(req, out)
  PROVE  /\ NothingPending'
         /\ req.role \in {"read", "update", "action", "delete"} => NoBirth
         /\ req.role = "delete" /\ ~Fatal(StepOf(req.op, out)) => OneDeath
         /\ OneBirth
<1>1. ASSUME out.err # "" PROVE Fatal(StepOf(req.op, out))
  BY <1>1 DEF Fatal, StepOf
<1>2. ASSUME NEW rep, out = Answered(rep), ~Fatal(StepOf(req.op, out))
      PROVE  ~(rep.status >= 400)
  BY <1>2, AnsweredFields DEF Fatal, StepOf
<1>3. CASE UNCHANGED ociVars /\ \E where \in Faults \cap {"sign", "actuate"} : out = Failed(where)
  <2>1. PICK where \in {"sign", "actuate"} : out = Failed(where)
    BY <1>3
  <2>2. out.err = where
    BY <2>1, FailedFields
  <2> QED
    BY <1>1, <1>3, <2>2 DEF ociVars, NothingPending, NoBirth, OneBirth, Live
<1>4. CASE out = Failed("actuate") /\ \E rep \in Reply : Serve(req, rep)
  <2>1. out.err = "actuate"
    BY <1>4, FailedFields
  <2> QED
    BY <1>1, <1>4, <2>1, ServeLives
<1>5. CASE \E rep \in Reply : out = Answered(rep) /\ Serve(req, rep)
  <2>1. PICK rep \in Reply : out = Answered(rep) /\ Serve(req, rep)
    BY <1>5
  <2>2. rep.status \in Nat
    BY DEF Reply
  <2>3. ~Fatal(StepOf(req.op, out)) => rep.status < 400
    BY <1>2, <2>1, <2>2
  <2> QED
    BY <2>1, <2>3, ServeLives
<1> QED
  BY <1>3, <1>4, <1>5 DEF ActuateSigned, DeletesAreAnswered

-----------------------------------------------------------------------------
(* One claim at a time. *)

LEMMA QuietKeepsClaim ==
  ASSUME OneClaim, NoBirth, \A s \in Session : Holding(run[s])' => Holding(run[s])
  PROVE  OneClaim'
  BY DEF OneClaim, OneRealization, NoBirth

\* Steps of the loop that start no request.
LEMMA RunStays ==
  ASSUME UNCHANGED <<ociVars, run>>, OneClaim, NothingPending
  PROVE  OneClaim' /\ NothingPending'
  BY DEF OneClaim, OneRealization, Live, NothingPending, ociVars, Holding

LEMMA ExecuteOneKeepsClaim ==
  ASSUME DeletesAreAnswered, TypeOK, NothingPending, OneClaim,
         NEW s \in Session, Planned(run[s].ops), ExecuteOne(s)
  PROVE  OneClaim' /\ NothingPending' /\ \A t \in Session : run'[t].ops = run[t].ops
<1> DEFINE op == NextOp(s)
           req == Request(op, run[s].rid, run[s].revision, RenderBody(op, run[s].config))
<1>1. PICK out \in Outcome :
        /\ ActuateSigned(req, out)
        /\ run' = [run EXCEPT ![s].steps  = Append(@, StepOf(op, out)),
                              ![s].status = IF Fatal(StepOf(op, out)) THEN "failed"
                                            ELSE "running"]
  BY DEF ExecuteOne
<1>2. op \in Op /\ req \in RequestSet /\ req.op = op /\ req.role = Role[op]
  BY ExecuteOneType DEF ExecuteOne, Request
<1>3. run[s] \in Run /\ run[s].status = "running" /\ Len(run[s].steps) < Len(run[s].ops)
  BY DEF TypeOK, ExecuteOne
<1>4. op = run[s].ops[Len(run[s].steps) + 1]
  BY DEF NextOp
<1> HIDE DEF op, req
<1> DEFINE step == StepOf(op, out)
<1>5. /\ NothingPending'
      /\ Role[op] \in {"read", "update", "action", "delete"} => NoBirth
      /\ Role[op] = "delete" /\ ~Fatal(step) => OneDeath
      /\ OneBirth
  BY <1>1, <1>2, ActuateLives DEF TypeOK
<1> HIDE DEF step
<1>6. /\ \A t \in Session : t # s => run'[t] = run[t]
      /\ run'[s].ops = run[s].ops
      /\ run'[s].steps = Append(run[s].steps, step)
      /\ run'[s].status = IF Fatal(step) THEN "failed" ELSE "running"
  BY <1>1, <1>3 DEF TypeOK, Run, step
<1>7. Len(run'[s].steps) = Len(run[s].steps) + 1 /\ Len(run[s].steps) \in Nat
  BY <1>3, <1>6 DEF Run
<1>8. CASE run[s].ops \in Seq(Edits)
  <2>1. Role[op] \in {"update", "action"}
    <3>1. op \in Edits
      BY <1>3, <1>4, <1>7, <1>8
    <3> QED
      BY <3>1 DEF Edits
  <2>2. run'[s].ops # Replacement
    BY <1>6, <1>8, ReplacementFacts
  <2>3. \A t \in Session : Holding(run'[t]) => Holding(run[t])
    BY <1>6, <2>2 DEF Holding
  <2> QED
    BY <1>5, <1>6, <2>1, <2>3, QuietKeepsClaim
<1>9. CASE run[s].ops = Replacement /\ Len(run[s].steps) = 0
  <2>1. Role[op] = "delete"
    BY <1>4, <1>9, ReplacementFacts
  <2>2. CASE Fatal(step)
    <3>1. \A t \in Session : Holding(run'[t]) => Holding(run[t])
      BY <1>6, <2>2 DEF Holding
    <3> QED
      BY <1>5, <1>6, <2>1, <3>1, QuietKeepsClaim
  <2>3. CASE ~Fatal(step)
    <3>1. PICK r \in ResId : Live(r) /\ ~Live(r)' /\ \A q \in ResId \ {r} : Live(q)' = Live(q)
      BY <1>5, <2>1, <2>3 DEF OneDeath
    <3>2. \A q \in ResId : ~Live(q)'
      BY <3>1 DEF OneClaim, OneRealization
    <3>3. \A t \in Session : ~Holding(run[t])
      BY <3>1 DEF OneClaim
    <3>4. \A t \in Session : Holding(run'[t]) => t = s
      BY <1>6, <3>3
    <3> QED
      BY <1>5, <1>6, <3>2, <3>4 DEF OneClaim, OneRealization
  <2> QED
    BY <2>2, <2>3
<1>10. CASE run[s].ops = Replacement /\ Len(run[s].steps) = 1
  <2>1. Holding(run[s])
    BY <1>3, <1>10 DEF Holding
  <2>2. \A q \in ResId : ~Live(q)
    BY <2>1 DEF OneClaim
  <2>3. \A t \in Session : Holding(run[t]) => t = s
    BY <2>1 DEF OneClaim
  <2>4. ~Holding(run'[s])
    BY <1>7, <1>10 DEF Holding
  <2>5. \A t \in Session : ~Holding(run'[t])
    BY <1>6, <2>3, <2>4
  <2>6. PICK r : \A q \in ResId \ {r} : Live(q)' => Live(q)
    BY <1>5 DEF OneBirth
  <2>7. \A q \in ResId : Live(q)' => q = r
    BY <2>2, <2>6
  <2> QED
    BY <1>5, <1>6, <2>5, <2>7 DEF OneClaim, OneRealization
<1>11. ASSUME run[s].ops = Replacement PROVE Len(run[s].steps) \in {0, 1}
  <2>1. Len(run[s].ops) = 2
    BY <1>11, ReplacementFacts
  <2>2. Len(run[s].steps) < 2
    BY <1>3, <2>1
  <2>3. Len(run[s].steps) \in Nat
    BY <1>7
  <2>4. \A n \in Nat : n < 2 => n \in {0, 1}
    OBVIOUS
  <2> QED
    BY <2>2, <2>3, <2>4, Zenon
<1> QED
  BY <1>8, <1>9, <1>10, <1>11 DEF Planned

\* An observation is a read; it changes neither resources nor runs.
LEMMA ObserveKeepsClaim ==
  ASSUME DeletesAreAnswered, TypeOK, NothingPending, OneClaim,
         NEW s \in Session, NEW rid \in ResId, NEW out \in Outcome, ObserveOnce(s, rid, out)
  PROVE  OneClaim' /\ NothingPending' /\ UNCHANGED run
<1> DEFINE req == Request(OpByRole("read"), rid, NoRev, EmptyConfig)
<1>1. ActuateSigned(req, out) /\ UNCHANGED run
  BY DEF ObserveOnce
<1>2. OpByRole("read") \in Op /\ Role[OpByRole("read")] = "read"
  BY RoleHasOp DEF LifecycleRole
<1>3. req \in RequestSet
  BY <1>2, RequestType, EmptyTypes DEF NoRev
<1>4. req.role = "read" /\ req.role = Role[req.op]
  BY <1>2 DEF Request
<1> HIDE DEF req
<1>5. NothingPending' /\ NoBirth
  BY <1>1, <1>3, <1>4, ActuateLives DEF TypeOK
<1> QED
  BY <1>1, <1>5, QuietKeepsClaim

\* Work Requests of other operations bring nothing to life.
LEMMA WorkEndsKeepsClaim ==
  ASSUME TypeOK, NothingPending, OneClaim, NEW j \in JobId, JobEnds(j), UNCHANGED run
  PROVE  OneClaim' /\ NothingPending'
<1> DEFINE rid == jobs[j].rid
<1>1. jobs[j] \in Job /\ jobs[j].role # "delete"
  BY DEF TypeOK, OciTypeOK, NothingPending
<1>2. PICK end \in JobEnd :
        /\ jobs' = [jobs EXCEPT ![j].status = end]
        /\ \/ \E state : Commit(rid, cloud[rid].life, state)
           \/ \E state : Commit(rid, "gone", state)
  <2>1. PICK end \in JobEnd :
          /\ jobs' = [jobs EXCEPT ![j].status = end]
          /\ CASE jobs[j].role = "delete" ->
                    Commit(rid, IF end = "SUCCEEDED" THEN "gone" ELSE "live", cloud[rid].state)
               [] jobs[j].role = "create" ->
                    Commit(rid, IF end = "SUCCEEDED" THEN cloud[rid].life ELSE "gone",
                           cloud[rid].state)
               [] OTHER ->
                    Commit(rid, cloud[rid].life,
                           IF end = "SUCCEEDED" THEN Overlay(cloud[rid].state, jobs[j].body)
                           ELSE cloud[rid].state)
    BY DEF JobEnds
  <2>2. CASE jobs[j].role = "create" /\ end = "SUCCEEDED"
    <3>1. Commit(rid, cloud[rid].life, cloud[rid].state)
      BY <2>1, <2>2
    <3> QED
      BY <2>1, <3>1
  <2>3. CASE jobs[j].role = "create" /\ end # "SUCCEEDED"
    <3>1. Commit(rid, "gone", cloud[rid].state)
      BY <2>1, <2>3
    <3> QED
      BY <2>1, <3>1
  <2>4. CASE jobs[j].role # "create"
    <3>1. Commit(rid, cloud[rid].life,
                 IF end = "SUCCEEDED" THEN Overlay(cloud[rid].state, jobs[j].body)
                 ELSE cloud[rid].state)
      BY <1>1, <2>1, <2>4
    <3> QED
      BY <2>1, <3>1
  <2> QED
    BY <2>2, <2>3, <2>4
<1>3. PICK life, state : Commit(rid, life, state) /\ life \in {cloud[rid].life, "gone"}
  BY <1>2
<1> HIDE DEF rid
<1>4. /\ \A r \in ResId : r # rid => cloud'[r] = cloud[r]
      /\ rid \in ResId => cloud'[rid].life = life
  BY <1>3, CommitLives DEF TypeOK
<1>5. NoBirth
  BY <1>3, <1>4 DEF NoBirth, Live
<1>6. NothingPending'
  BY <1>1, <1>2 DEF NothingPending, TypeOK, OciTypeOK, Job
<1> QED
  BY <1>5, <1>6, QuietKeepsClaim

LEMMA OthersKeepClaim ==
  ASSUME TypeOK, NothingPending, OneClaim, NEW rid \in ResId, OthersWrite(rid)
  PROVE  OneClaim' /\ NothingPending' /\ UNCHANGED run
<1>1. PICK state : Commit(rid, "live", state)
  BY DEF OthersWrite, ForeignWrite
<1>2. Live(rid) /\ UNCHANGED <<jobs, run>>
  BY DEF OthersWrite, ForeignWrite, Live
<1>3. \A r \in ResId : r # rid => cloud'[r] = cloud[r]
  BY <1>1, CommitLives DEF TypeOK
<1>4. NoBirth
  BY <1>2, <1>3 DEF NoBirth, Live
<1> QED
  BY <1>2, <1>4, QuietKeepsClaim DEF NothingPending

LEMMA OneInvInit == LoopInit => OneInv
<1> SUFFICES ASSUME LoopInit PROVE OneInv
  OBVIOUS
<1>1. LoopTypeOK
  BY LoopInitType
<1>2. NothingPending
  BY DEF LoopInit, Init, OciInit, NothingPending, NoJobYet
<1>3. PlansAreComputed
  <2>1. << >> \in Seq(Edits)
    OBVIOUS
  <2>2. \A s \in Session : plan[s].ops = << >> /\ run[s].ops = << >>
    BY DEF LoopInit, Init, NoRun, NoPlan
  <2> QED
    BY <2>1, <2>2 DEF PlansAreComputed, Planned
<1>4. OneRealization
  BY DEF LoopInit, Init, OciInit, OneRealization, Live, NoResource
<1>5. \A s \in Session : ~Holding(run[s])
  BY DEF LoopInit, Init, NoRun, Holding
<1> QED
  BY <1>1, <1>2, <1>3, <1>4, <1>5 DEF OneInv, OneClaim

LEMMA OneInvNext ==
  ASSUME DeletesAreAnswered, OneInv, [LoopNext]_loopVars
  PROVE  OneInv'
<1>1. TypeOK /\ LoopTypeOK /\ PlansAreComputed /\ NothingPending /\ OneClaim
  BY DEF OneInv, LoopTypeOK
<1>2. LoopTypeOK'
  BY <1>1, LoopStepType
<1>3. ASSUME OneClaim', NothingPending',
             \A s \in Session : plan'[s].ops = plan[s].ops \/ Planned(plan'[s].ops),
             \A s \in Session : run'[s].ops = run[s].ops \/ Planned(run'[s].ops)
      PROVE  OneInv'
  <2>1. PlansAreComputed'
    BY <1>1, <1>3 DEF PlansAreComputed
  <2> QED
    BY <1>2, <1>3, <2>1 DEF OneInv
<1>4. ASSUME UNCHANGED <<ociVars, run>>,
             \A s \in Session : plan'[s].ops = plan[s].ops \/ Planned(plan'[s].ops)
      PROVE  OneInv'
  BY <1>1, <1>3, <1>4, RunStays
<1>5. CASE UNCHANGED loopVars
  BY <1>4, <1>5 DEF loopVars, vars, ociVars
<1>6. ASSUME NEW s \in Session, HostObserves(s) PROVE OneInv'
  <2>1. PICK rid \in ResId, out \in Outcome : ObserveOnce(s, rid, out)
    BY <1>6 DEF HostObserves
  <2>2. OneClaim' /\ NothingPending' /\ UNCHANGED run
    BY <1>1, <2>1, ObserveKeepsClaim
  <2> QED
    BY <1>3, <1>6, <2>2 DEF HostObserves
<1>7. ASSUME NEW s \in Session, HostFindsNothing(s) \/ HostConcludes(s) \/ HostPolls(s)
      PROVE  OneInv'
  <2>1. UNCHANGED <<ociVars, run, plan>>
    BY <1>7 DEF HostFindsNothing, HostConcludes, HostPolls, hostVars, Poll, vars, ociVars
  <2> QED
    BY <1>4, <2>1
<1>8. ASSUME NEW s \in Session, HostPlans(s) PROVE OneInv'
  <2>1. plan' = [plan EXCEPT ![s] = PlanFor(s)] /\ UNCHANGED <<ociVars, run>>
    BY <1>8 DEF HostPlans, vars, ociVars
  <2>2. Planned(PlanFor(s).ops)
    BY <1>1, PlanForFacts
  <2>3. \A t \in Session : plan'[t].ops = plan[t].ops \/ Planned(plan'[t].ops)
    BY <1>1, <2>1, <2>2 DEF LoopTypeOK
  <2> QED
    BY <1>4, <2>1, <2>3
<1>9. ASSUME NEW s \in Session, HostExecutes(s) PROVE OneInv'
  <2>1. PICK b \in Bindings(s) : Execute(s, plan[s].ops, Wanted[s], b)
    BY <1>9 DEF HostExecutes
  <2>2. /\ \A t \in Session : t # s => run'[t] = run[t]
        /\ run'[s].ops = plan[s].ops /\ run'[s].steps = << >>
        /\ UNCHANGED ociVars
    BY <1>1, <2>1 DEF Execute, TypeOK
  <2>3. \A t \in Session : Holding(run'[t]) => Holding(run[t])
    <3>1. ~Holding(run'[s])
      BY <2>2 DEF Holding
    <3> QED
      BY <2>2, <3>1
  <2>4. NoBirth /\ NothingPending'
    BY <1>1, <2>2 DEF NoBirth, Live, NothingPending, ociVars
  <2>5. OneClaim'
    BY <1>1, <2>3, <2>4, QuietKeepsClaim
  <2>6. \A t \in Session : run'[t].ops = run[t].ops \/ Planned(run'[t].ops)
    BY <1>1, <2>2 DEF PlansAreComputed
  <2> QED
    BY <1>3, <1>9, <2>4, <2>5, <2>6 DEF HostExecutes
<1>10. ASSUME NEW s \in Session, NEW status, status # "running", UNCHANGED <<ociVars, plan>>,
              run' = [run EXCEPT ![s].status = status]
       PROVE  OneInv'
  <2>1. /\ \A t \in Session : t # s => run'[t] = run[t]
        /\ run'[s].ops = run[s].ops /\ run'[s].status = status
    BY <1>1, <1>10 DEF TypeOK, Run
  <2>2. \A t \in Session : Holding(run'[t]) => Holding(run[t])
    BY <1>10, <2>1 DEF Holding
  <2>3. NoBirth /\ NothingPending'
    BY <1>1, <1>10 DEF NoBirth, Live, NothingPending, ociVars
  <2>4. OneClaim'
    BY <1>1, <2>2, <2>3, QuietKeepsClaim
  <2> QED
    BY <1>3, <1>10, <2>1, <2>3, <2>4
<1>11. ASSUME NEW s \in Session, HostAborts(s) PROVE OneInv'
  BY <1>10, <1>11 DEF HostAborts, Abort, hostVars
<1>12. ASSUME NEW s \in Session, GuestActs(s) PROVE OneInv'
  <2>1. CASE ExecuteOne(s)
    <3>1. OneClaim' /\ NothingPending' /\ \A t \in Session : run'[t].ops = run[t].ops
      BY <1>1, <2>1, ExecuteOneKeepsClaim DEF PlansAreComputed
    <3> QED
      BY <1>3, <1>12, <3>1 DEF GuestActs
  <2>2. CASE ExecuteReturns(s)
    <3> DEFINE status == IF Pending(run[s].steps) THEN "accepted" ELSE "succeeded"
    <3>1. status # "running"
      OBVIOUS
    <3> QED
      BY <1>10, <1>12, <2>2, <3>1 DEF ExecuteReturns, GuestActs
  <2> QED
    BY <1>12, <2>1, <2>2 DEF GuestActs, Guest
<1>13. ASSUME NEW j \in JobId, LoopWorkEnds(j) PROVE OneInv'
  <2>1. JobEnds(j) /\ UNCHANGED <<run, plan>>
    BY <1>13 DEF LoopWorkEnds, WorkEnds
  <2> QED
    BY <1>1, <1>3, <2>1, WorkEndsKeepsClaim
<1>14. ASSUME NEW rid \in ResId, LoopOthersWrite(rid) PROVE OneInv'
  BY <1>1, <1>3, <1>14, OthersKeepClaim DEF LoopOthersWrite
<1> QED
  BY <1>5, <1>6, <1>7, <1>8, <1>9, <1>11, <1>12, <1>13, <1>14 DEF LoopNext, SessionActs

\* One intent has one realization, for any number of sessions, resources and retries:
\* no lost reply, failed step, stopped guest or repeated plan leaves two live resources
\* (planProviderOps puts the delete of a replacement before its create and Execute
\* stops at the first failing step).
THEOREM OneRealizationHolds ==
  ASSUME DeletesAreAnswered
  PROVE  LoopSpec => []OneRealization
<1>1. LoopInit => OneInv
  BY OneInvInit
<1>2. OneInv /\ [LoopNext]_loopVars => OneInv'
  BY OneInvNext
<1>3. OneInv => OneRealization
  BY DEF OneInv, OneClaim
<1> QED
  BY <1>1, <1>2, <1>3, PTL DEF LoopSpec

=============================================================================
