------------------------------ MODULE Reconcile ------------------------------
(***************************************************************************)
(* The loop the provider's operations are made for (docs/design: observe,  *)
(* plan, execute, poll, observe again): sessions of the relay host bring   *)
(* resources to their intents with plans that Plan computed from what      *)
(* Observe returned.  The loop itself is host policy, outside the          *)
(* repository; every call it makes is an action of module Execution.       *)
(***************************************************************************)
EXTENDS Execution

CONSTANTS
  Wanted,   \* session -> the intent it reconciles
  Retried   \* verdicts after which a host may submit the same plan again

ASSUME ReconcileAssumption ==
  /\ Wanted \in [Session -> Config]
  /\ Retried \subseteq {"failed", "lost"}

VARIABLES
  phase,    \* session -> what the host does next
  plan,     \* session -> the execution-plan the host holds
  stale     \* session -> has anybody else changed anything since it observed?

hostVars == <<phase, plan, stale>>

loopVars == <<vars, phase, plan, stale>>

Phase == {"observe", "plan", "execute", "wait"}

NoPlan == [operation |-> "noop", ops |-> << >>]

Enter(s, p) == phase' = [phase EXCEPT ![s] = p]

\* Plan's whole result, but for the hash that names it.
PlanFor(s) ==
  [operation |-> PlanOperation(Wanted[s], obs[s].config),
   ops       |-> PlanOps(Wanted[s], obs[s].config)]

\* A change made by session s, or by nobody of them, makes observations stale.
Noticed(s) ==
  stale' = [t \in Session |-> stale[t] \/ (t # s /\ cloud' # cloud)]

-----------------------------------------------------------------------------

\* The host finds the resource by the identity of the intent, not by the id it
\* last had, and reads it.
HostObserves(s) ==
  /\ phase[s] = "observe"
  /\ \E rid \in ResId, out \in Outcome :
       /\ Exists(rid)
       /\ ObserveOnce(s, rid, out)
       /\ IF out = ReadDone
            THEN Enter(s, "plan") /\ stale' = [stale EXCEPT ![s] = FALSE]
            ELSE UNCHANGED <<phase, stale>>
  /\ UNCHANGED plan

\* Nothing realizes the intent yet: the host plans against an empty observation.
HostFindsNothing(s) ==
  /\ phase[s] = "observe"
  /\ \A rid \in ResId : ~Exists(rid)
  /\ obs' = [obs EXCEPT ![s] = Unobserved]
  /\ stale' = [stale EXCEPT ![s] = FALSE]
  /\ Enter(s, "plan")
  /\ UNCHANGED <<ociVars, run, polled, plan>>

HostPlans(s) ==
  /\ phase[s] = "plan"
  /\ plan' = [plan EXCEPT ![s] = PlanFor(s)]
  /\ Enter(s, IF PlanFor(s).operation = "noop" THEN "observe" ELSE "execute")
  /\ UNCHANGED <<vars, stale>>

\* The approved plan goes out with the intent as configuration, bound to the
\* observed resource and etag.
HostExecutes(s) ==
  /\ phase[s] = "execute"
  /\ \E b \in Bindings(s) : Execute(s, plan[s].ops, Wanted[s], b)
  /\ Enter(s, "wait")
  /\ UNCHANGED <<plan, stale>>

GuestActs(s) ==
  /\ Guest(s)
  /\ Noticed(s)
  /\ UNCHANGED <<phase, plan>>

HostAborts(s) == Abort(s) /\ UNCHANGED hostVars

HostPolls(s) ==
  /\ phase[s] = "wait"
  /\ run[s].status = "accepted"
  /\ \E j \in JobId : Poll(s, j)
  /\ UNCHANGED hostVars

Outstanding(s) ==
  \E i \in DOMAIN run[s].steps : run[s].steps[i].wr \notin polled[s] \cup {NoJob}

\* A finished call is followed by a fresh look; one whose outcome is unknown or
\* negative may also be tried again as it was approved.
HostConcludes(s) ==
  /\ phase[s] = "wait"
  /\ Idle(s)
  /\ run[s].status = "accepted" => ~Outstanding(s)
  /\ \/ Enter(s, "observe")
     \/ run[s].status \in Retried /\ Enter(s, "execute")
  /\ UNCHANGED <<vars, plan, stale>>

Tracks(s, j) == \E i \in DOMAIN run[s].steps : run[s].steps[i].wr = j

LoopWorkEnds(j) ==
  /\ WorkEnds(j)
  /\ stale' = [s \in Session |-> stale[s] \/ ~Tracks(s, j)]
  /\ UNCHANGED <<phase, plan>>

LoopOthersWrite(rid) ==
  /\ OthersWrite(rid)
  /\ stale' = [s \in Session |-> TRUE]
  /\ UNCHANGED <<phase, plan>>

LoopInit ==
  /\ Init
  /\ phase = [s \in Session |-> "observe"]
  /\ plan = [s \in Session |-> NoPlan]
  /\ stale = [s \in Session |-> FALSE]

SessionActs(s) ==
  \/ HostObserves(s) \/ HostFindsNothing(s) \/ HostPlans(s) \/ HostExecutes(s)
  \/ GuestActs(s) \/ HostPolls(s) \/ HostConcludes(s)

LoopNext ==
  \/ \E s \in Session : SessionActs(s) \/ HostAborts(s)
  \/ \E j \in JobId : LoopWorkEnds(j)
  \/ \E rid \in ResId : LoopOthersWrite(rid)

LoopSpec == LoopInit /\ [][LoopNext]_loopVars

\* The host keeps its loop going and Work Requests end.
LoopFairness ==
  /\ \A s \in Session : WF_loopVars(SessionActs(s))
  /\ \A j \in JobId : WF_loopVars(LoopWorkEnds(j))

FairLoopSpec == LoopSpec /\ LoopFairness

-----------------------------------------------------------------------------
(* Properties. *)

LoopTypeOK ==
  /\ TypeOK
  /\ phase \in [Session -> Phase]
  /\ plan \in [Session -> [operation : {"noop", "update", "action", "replace"},
                           ops : Seq(Op)]]
  /\ stale \in [Session -> BOOLEAN]

Live(rid) == cloud[rid].life = "live"

\* A fresh observation of the resource would plan nothing for this intent.
Satisfied(s, rid) ==
  PlanOperation(Wanted[s], EffectiveConfig(cloud[rid].state)) = "noop"

Converged(s) == \E rid \in ResId : Live(rid) /\ Satisfied(s, rid)

\* A positive result of a run nobody interfered with, all its work finished.
CleanRun(s) ==
  /\ phase[s] = "wait"
  /\ run[s].status \in {"succeeded", "accepted"}
  /\ ~stale[s]
  /\ \A j \in JobId : Tracks(s, j) => jobs[j].status = "SUCCEEDED"

\* A plan that was carried out undisturbed leaves nothing to plan: a second
\* observe reports the intent satisfied (docs/design/roadmap.md, exit criterion
\* of phase 3), whatever diff the plan was computed from.
CleanRunConverges == \A s \in Session : CleanRun(s) => Converged(s)

\* Execute carries out the approved plan (docs/design/specs/provider-abi.md, Operation
\* meanings): when nobody else touches the resource and every request is answered,
\* the run does not fail.
ApprovedPlanCompletes ==
  \A s \in Session : phase[s] = "wait" /\ run[s].status = "failed" => stale[s]

\* A declared intent is provisioned end-to-end, also when nothing exists yet.
GetsProvisioned == \A s \in Session : <>Converged(s)

\* One intent has one realization: no sequence of failures, lost replies, retries
\* and concurrent sessions leaves two live resources behind.
OneRealization == \A q, r \in ResId : Live(q) /\ Live(r) => q = r

\* Once others leave the resource alone the loop brings it to the intent and keeps
\* it there, even though a plan of several operations cannot finish in one run.
Settles == \A s \in Session : <>[]Converged(s)

-----------------------------------------------------------------------------
(* What some of the theorems presuppose of an instance. *)

\* A correspondence tells how a field that is only accepted at create time is read
\* back, from a name that is no configuration field (module/correspondence/vcn.json).
DerivationsAreCreateTime ==
  \A d \in Derivation :
    d.from \notin Field /\ Policy[d.field] \in {"create-only", "input-only"}

\* The SDK's Change...Details model of an action-managed field names its operation.
ActionsAreNamed ==
  \A f \in Field : Policy[f] = "action-managed" => ActionOf[f] # NoAction

\* What an intent sets can be read back: a field without a correspondence is part of
\* the read model, a field with a Boolean one is set to a Boolean, and a read shows a
\* list without members as an empty list.
IntentsAreReadable ==
  /\ EmptyShown \in EmptyJson \ {Absent}
  /\ \A s \in Session, f \in Field : Wanted[s][f] # Absent =>
       /\ (\A d \in Derivation : d.field # f) => f \in StateField
       /\ \A d \in Derivation : d.field = f /\ d.rule # "rename" =>
            Wanted[s][f] \in {"true", "false"}

\* The replies the host passes on can be read.
RepliesAreReadable == "garbled" \notin Faults

\* The replies the host passes on can be read, and the delete of a replacement has
\* taken effect when it is answered.
DeletesAreAnswered == "garbled" \notin Faults /\ OpByRole("delete") \notin Async

=============================================================================
