------------------------------ MODULE Execution ------------------------------
(***************************************************************************)
(* The sign+send operations of module/provider.go: Observe, Execute,       *)
(* Destroy, Invoke and Poll, called by several sessions of the relay host  *)
(* against one provider.  A guest instance is single-threaded and keeps    *)
(* nothing between calls; what a session carries from one call to the next *)
(* is what the host holds: the last observation and the last result.       *)
(*                                                                         *)
(* Execute is not atomic: between two of its requests other sessions, Work *)
(* Requests and foreign writers change the provider, and the host may stop *)
(* the guest.  Every request is one step, ActuateSigned.  Execute runs any *)
(* sequence of operations the host submits; where a plan comes from is the *)
(* business of module Reconcile.                                           *)
(***************************************************************************)
EXTENDS OciService

CONSTANTS
  Session,      \* sessions of the host
  Plans,        \* operation sequences a host submits to Execute
  Intents,      \* configurations a host submits with them
  Invoked,      \* operations a host runs through Invoke
  Conditional,  \* {TRUE}: the host always binds the observed etag; {FALSE}: never
  InitStates    \* states the resource may be in before the first call

ASSUME ExecutionAssumption ==
  /\ Plans \subseteq Seq(Op)
  /\ Intents \subseteq Config
  /\ Invoked \subseteq Op
  /\ Conditional \subseteq BOOLEAN
  /\ InitStates \subseteq State

VARIABLES
  obs,          \* session -> the observation the host holds
  run,          \* session -> the last sign+send call and its result so far
  polled        \* session -> Work Requests of that result seen terminal

vars == <<cloud, jobs, rev, obs, run, polled>>

-----------------------------------------------------------------------------
(* The provider's own types. *)

ErrorClass == {"validation", "permission", "not-found", "conflict", "transport", "provider"}

\* A step whose request never got an answer has an error and no error class.
Step == [op : Op, http : Nat, wr : JobId \cup {NoJob},
         err : {"", "sign", "actuate", "provider"}, class : ErrorClass \cup {""}]

Observation == [rid : ResId \cup {NoRes}, etag : Nat, config : Config]

Unobserved == [rid |-> NoRes, etag |-> NoRev, config |-> EmptyConfig]

Verdict == {"succeeded", "accepted", "failed"}

\* "none": no call yet, "running": inside Execute, "error": the call returned a
\* provider error instead of a result, "lost": the host never saw the result.
RunStatus == Verdict \cup {"none", "running", "error", "lost"}

Run == [ops : Seq(Op), config : Config, rid : ResId \cup {NoRes}, revision : Nat,
        steps : Seq(Step), status : RunStatus]

NoRun == [ops |-> << >>, config |-> EmptyConfig, rid |-> NoRes, revision |-> NoRev,
          steps |-> << >>, status |-> "none"]

Idle(s) == run[s].status # "running"

-----------------------------------------------------------------------------
(* One signed request. *)

OciError(status) ==
  CASE status = 400          -> "validation"
    [] status \in {401, 403} -> "permission"
    [] status = 404          -> "not-found"
    [] status \in {409, 412} -> "conflict"
    [] status = 429          -> "transport"
    [] OTHER                 -> "provider"

Failed(where) == [err |-> where, reply |-> Refuse(0)]

Answered(rep) == [err |-> "", reply |-> rep]

Outcome == {Failed("sign"), Failed("actuate"), Answered(Refuse(0))}
             \cup {Answered(rep) : rep \in Reply}

\* Sign, then send.  A refusal by either host function leaves the provider alone.
\* An error of actuate may also hide a request the provider did carry out, and a
\* reply that does not decode reaches the caller as status 0 without an error.
ActuateSigned(req, out) ==
  \/ /\ \E where \in Faults \cap {"sign", "actuate"} : out = Failed(where)
     /\ UNCHANGED ociVars
  \/ /\ \/ "lost" \in Faults /\ out = Failed("actuate")
        \/ "garbled" \in Faults /\ out = Answered(Refuse(0))
     /\ \E rep \in Reply : Serve(req, rep)
  \/ \E rep \in Reply : out = Answered(rep) /\ Serve(req, rep)

\* Mutant of StepOf: the error class is stored where the error belongs.
StepOfSwapped(op, out) ==
  [op |-> op, http |-> out.reply.status, wr |-> out.reply.wr,
   err   |-> IF out.err # "" THEN out.err
             ELSE IF out.reply.status >= 400 THEN OciError(out.reply.status) ELSE "",
   class |-> ""]

\* executeOne's record of a request: status below 400 counts as done.
StepOf(op, out) ==
  [op |-> op, http |-> out.reply.status, wr |-> out.reply.wr,
   err   |-> IF out.err # "" THEN out.err
             ELSE IF out.reply.status >= 400 THEN "provider" ELSE "",
   class |-> IF out.err = "" /\ out.reply.status >= 400
             THEN OciError(out.reply.status) ELSE ""]

Fatal(step) == step.err # ""

Pending(steps) == \E i \in DOMAIN steps : steps[i].wr # NoJob

-----------------------------------------------------------------------------
(* The operations of one session. *)

\* The coordinates a session binds a call to: the resource it observed, with or
\* without the etag, or no resource at all.
Bindings(s) ==
  {[rid |-> obs[s].rid, revision |-> IF c THEN obs[s].etag ELSE NoRev] : c \in Conditional}

ReadDone == Answered(Answer(200, NoJob))

\* A failed read leaves the host with the observation it had.
ObserveOnce(s, rid, out) ==
  /\ Idle(s)
  /\ ActuateSigned(Request(OpByRole("read"), rid, NoRev, EmptyConfig), out)
  /\ obs' = IF out = ReadDone
              THEN [obs EXCEPT ![s] = [rid |-> rid, etag |-> cloud[rid].etag,
                                       config |-> EffectiveConfig(cloud[rid].state)]]
              ELSE obs
  /\ UNCHANGED <<run, polled>>

Observe(s, rid) == \E out \in Outcome : ObserveOnce(s, rid, out)

Execute(s, ops, config, b) ==
  /\ Idle(s)
  /\ run' = [run EXCEPT ![s] = [ops |-> ops, config |-> config, rid |-> b.rid,
                                revision |-> b.revision, steps |-> << >>,
                                status |-> "running"]]
  /\ polled' = [polled EXCEPT ![s] = {}]
  /\ UNCHANGED <<ociVars, obs>>

NextOp(s) == run[s].ops[Len(run[s].steps) + 1]

\* Mutant of ExecuteOne: the request goes out without If-Match.
ExecuteOneUnbound(s) ==
  /\ run[s].status = "running"
  /\ Len(run[s].steps) < Len(run[s].ops)
  /\ \E out \in Outcome :
       /\ ActuateSigned(Request(NextOp(s), run[s].rid, NoRev,
                                RenderBody(NextOp(s), run[s].config)), out)
       /\ LET step == StepOf(NextOp(s), out)
          IN  run' = [run EXCEPT ![s].steps  = Append(@, step),
                                 ![s].status = IF Fatal(step) THEN "failed" ELSE "running"]
  /\ UNCHANGED <<obs, polled>>

\* Mutant of ExecuteOne: after a throttled request the plan starts over.
ExecuteOneRetrying(s) ==
  /\ run[s].status = "running"
  /\ Len(run[s].steps) < Len(run[s].ops)
  /\ \E out \in Outcome :
       /\ ActuateSigned(Request(NextOp(s), run[s].rid, run[s].revision,
                                RenderBody(NextOp(s), run[s].config)), out)
       /\ LET step == StepOf(NextOp(s), out)
          IN  run' = IF step.http = 429 THEN [run EXCEPT ![s].steps = << >>]
                     ELSE [run EXCEPT ![s].steps  = Append(@, step),
                                      ![s].status = IF Fatal(step) THEN "failed" ELSE "running"]
  /\ UNCHANGED <<obs, polled>>

\* Mutant of ExecuteOne: the plan goes on after a failed step.
ExecuteOneGoesOn(s) ==
  /\ run[s].status = "running"
  /\ Len(run[s].steps) < Len(run[s].ops)
  /\ \E out \in Outcome :
       /\ ActuateSigned(Request(NextOp(s), run[s].rid, run[s].revision,
                                RenderBody(NextOp(s), run[s].config)), out)
       /\ run' = [run EXCEPT ![s].steps = Append(@, StepOf(NextOp(s), out))]
  /\ UNCHANGED <<obs, polled>>

\* Every operation of the plan is bound to the same revision.
ExecuteOne(s) ==
  /\ run[s].status = "running"
  /\ Len(run[s].steps) < Len(run[s].ops)
  /\ \E out \in Outcome :
       /\ ActuateSigned(Request(NextOp(s), run[s].rid, run[s].revision,
                                RenderBody(NextOp(s), run[s].config)), out)
       /\ LET step == StepOf(NextOp(s), out)
          IN  run' = [run EXCEPT ![s].steps  = Append(@, step),
                                 ![s].status = IF Fatal(step) THEN "failed" ELSE "running"]
  /\ UNCHANGED <<obs, polled>>

\* Mutant of ExecuteReturns: outstanding Work Requests are not looked at.
ExecuteReturnsDone(s) ==
  /\ run[s].status = "running"
  /\ Len(run[s].steps) = Len(run[s].ops)
  /\ run' = [run EXCEPT ![s].status = "succeeded"]
  /\ UNCHANGED <<ociVars, obs, polled>>

ExecuteReturns(s) ==
  /\ run[s].status = "running"
  /\ Len(run[s].steps) = Len(run[s].ops)
  /\ run' = [run EXCEPT ![s].status =
                IF Pending(run[s].steps) THEN "accepted" ELSE "succeeded"]
  /\ UNCHANGED <<ociVars, obs, polled>>

\* The host stops the guest (timeout, restart): the result never reaches it.
Abort(s) ==
  /\ "stop" \in Faults
  /\ run[s].status = "running"
  /\ run' = [run EXCEPT ![s].status = "lost"]
  /\ UNCHANGED <<ociVars, obs, polled>>

\* The result of an operation that sends a single request.
Single(s, op, config, b, step, status) ==
  run' = [run EXCEPT ![s] = [ops |-> <<op>>, config |-> config, rid |-> b.rid,
                             revision |-> b.revision,
                             steps |-> IF status = "error" THEN << >> ELSE <<step>>,
                             status |-> status]]

VerdictOf(step) ==
  IF Fatal(step) THEN "failed" ELSE IF step.wr # NoJob THEN "accepted" ELSE "succeeded"

\* Mutant of Destroy: the delete is sent without If-Match.
DestroyUnbound(s, b) ==
  /\ Idle(s)
  /\ b.rid # NoRes
  /\ \E out \in Outcome :
       LET op   == OpByRole("delete")
           step == StepOf(op, out)
       IN  /\ ActuateSigned(Request(op, b.rid, NoRev, EmptyConfig), out)
           /\ Single(s, op, EmptyConfig, b, step,
                     IF out.err # "" \/ step.http = 404 THEN "error" ELSE VerdictOf(step))
  /\ polled' = [polled EXCEPT ![s] = {}]
  /\ UNCHANGED obs

\* A resource already gone is a not-found error of the call, not a failed step.
Destroy(s, b) ==
  /\ Idle(s)
  /\ b.rid # NoRes
  /\ \E out \in Outcome :
       LET op   == OpByRole("delete")
           step == StepOf(op, out)
       IN  /\ ActuateSigned(Request(op, b.rid, b.revision, EmptyConfig), out)
           /\ Single(s, op, EmptyConfig, b, step,
                     IF out.err # "" \/ step.http = 404 THEN "error" ELSE VerdictOf(step))
  /\ polled' = [polled EXCEPT ![s] = {}]
  /\ UNCHANGED obs

\* The request's configuration is the body as it stands.
Invoke(s, op, config, b) ==
  /\ Idle(s)
  /\ b.rid # NoRes
  /\ \E out \in Outcome :
       LET step == StepOf(op, out)
       IN  /\ ActuateSigned(Request(op, b.rid, b.revision, config), out)
           /\ Single(s, op, config, b, step,
                     IF out.err # "" THEN "error" ELSE VerdictOf(step))
  /\ polled' = [polled EXCEPT ![s] = {}]
  /\ UNCHANGED obs

IsTerminalWorkStatus(status) == status \in {"SUCCEEDED", "FAILED", "CANCELED"}

\* A Work Request of the session's result is read; a terminal one is not read again.
\* A read that fails returns an error and tells the host nothing: no step at all.
Poll(s, j) ==
  /\ Idle(s)
  /\ j \notin polled[s]
  /\ \E i \in DOMAIN run[s].steps : run[s].steps[i].wr = j
  /\ polled' = IF IsTerminalWorkStatus(jobs[j].status)
                 THEN [polled EXCEPT ![s] = @ \cup {j}] ELSE polled
  /\ UNCHANGED <<ociVars, obs, run>>

-----------------------------------------------------------------------------

Init ==
  /\ OciInit(InitStates)
  /\ obs = [s \in Session |-> Unobserved]
  /\ run = [s \in Session |-> NoRun]
  /\ polled = [s \in Session |-> {}]

\* Steps of the guest on behalf of a session that is inside Execute.
Guest(s) == ExecuteOne(s) \/ ExecuteReturns(s)

Calls(s) ==
  \/ \E rid \in ResId : Observe(s, rid)
  \/ \E b \in Bindings(s) :
       \/ \E ops \in Plans, config \in Intents : Execute(s, ops, config, b)
       \/ Destroy(s, b)
       \/ \E op \in Invoked, config \in Intents : Invoke(s, op, config, b)
  \/ \E j \in JobId : Poll(s, j)

WorkEnds(j) == JobEnds(j) /\ UNCHANGED <<obs, run, polled>>

OthersWrite(rid) == ForeignWrite(rid) /\ UNCHANGED <<obs, run, polled>>

Next ==
  \/ \E s \in Session : Calls(s) \/ Guest(s) \/ Abort(s)
  \/ \E j \in JobId : WorkEnds(j)
  \/ \E rid \in ResId : OthersWrite(rid)

Spec == Init /\ [][Next]_vars

Fairness == \A s \in Session : WF_vars(Guest(s))

FairSpec == Spec /\ Fairness

-----------------------------------------------------------------------------
(* Properties. *)

\* Every variable holds what the provider's and the host's types allow.
TypeOK ==
  /\ OciTypeOK
  /\ obs \in [Session -> Observation]
  /\ run \in [Session -> Run]
  /\ polled \in [Session -> SUBSET JobId]

Conditioned(op) == Role[op] \in {"update", "action", "delete"}

Won(s) == {i \in DOMAIN run[s].steps :
             Conditioned(run[s].steps[i].op) /\ run[s].steps[i].http \in 200 .. 299}

\* A revision is consumed by the first change it admits: of all the requests that
\* any sessions' results report as done on a resource under one If-Match etag,
\* there is only one (Execute and Destroy pass binding.revision on, provider.go).
OneWinnerPerRevision ==
  \A s, t \in Session : \A i \in Won(s), j \in Won(t) :
    (/\ run[s].revision # NoRev
     /\ run[s].rid = run[t].rid
     /\ run[s].revision = run[t].revision) => s = t /\ i = j

Clean(r) == \A i \in DOMAIN r.steps : ~Fatal(r.steps[i])

Honest(r) ==
  /\ Len(r.steps) <= Len(r.ops)
  /\ \A i \in DOMAIN r.steps : r.steps[i].op = r.ops[i]
  /\ \A i \in DOMAIN r.steps : i < Len(r.steps) => ~Fatal(r.steps[i])
  /\ r.status = "failed" => r.steps # << >> /\ Fatal(r.steps[Len(r.steps)])
  /\ r.status = "running" => Clean(r)
  /\ r.status \in {"succeeded", "accepted"} => Clean(r) /\ Len(r.steps) = Len(r.ops)
  /\ r.status = "succeeded" => ~Pending(r.steps)
  /\ r.status = "accepted" => Pending(r.steps)

\* The verdict of a call tells the truth about its steps: the steps are the plan's
\* own operations in order, only the last step of a failed run is in error, a run
\* that did not fail did everything, and "succeeded" leaves no Work Request
\* outstanding while "accepted" names at least one (Execute, Destroy, Invoke).
HonestVerdict == \A s \in Session : Honest(run[s])

\* A session's request never changes an existing resource other than the one it is
\* bound to, and under a revision only if the resource still has that etag.
NoSilentOverwrite ==
  [][\A s \in Session, r \in ResId :
       (/\ run'[s] # run[s]
        /\ cloud[r].life # "unused"
        /\ cloud'[r] # cloud[r])
         => /\ run'[s].rid = r
            /\ run'[s].revision \in {NoRev, cloud[r].etag}]_vars

\* Execute always comes back: the host's functions return, so the loop over the
\* plan ends, whatever the provider answers and whoever else is at work.
ExecuteComesBack == \A s \in Session : run[s].status = "running" ~> Idle(s)

\* The operations a result reports as done, at their places in the run.
DoneOf(steps) == [i \in {j \in DOMAIN steps : ~Fatal(steps[j])} |-> steps[i].op]

PlanRunOf == INSTANCE PlanRun WITH
  plan    <- [s \in Session |-> run[s].ops],
  done    <- [s \in Session |-> DoneOf(run[s].steps)],
  verdict <- [s \in Session |-> run[s].status]

\* The calls keep the promise of module PlanRun, with its fairness when theirs holds.
RunsPlanVerbatim == PlanRunOf!FairSpec

=============================================================================
