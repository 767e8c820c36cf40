----------------------------- MODULE OciService -----------------------------
(***************************************************************************)
(* The provider's API as module/provider.go relies on it: resources with   *)
(* an etag that every change moves, conditional requests (If-Match),       *)
(* asynchronous operations that answer with a Work Request, and the relay  *)
(* host module (cic-flow.sign / cic-flow.actuate) in front of it.  None of *)
(* this is code of the repository; it is external to the provider and is   *)
(* modelled by what the provider's handling of requests, statuses and      *)
(* headers presupposes.                                                    *)
(***************************************************************************)
EXTENDS ResourceContract

CONSTANTS
  ResId,        \* resource ids: 1 .. n, handed out in order
  JobId,        \* Work Request ids: 1 .. n
  MaxRev,       \* bound: requests that would move an etag past it are throttled
  ForeignRev,   \* bound: foreign writes stop at this etag
  Async,        \* operations answered with a Work Request
  JobEnd,       \* how a Work Request may end
  Faults,       \* what may go wrong on the way to and from the provider
  EmptyShown,   \* how a read shows a list with no members: "empty" or Absent
  ForeignValue  \* what somebody else may write into a field

NoRes == 0
NoRev == 0
NoJob == 0

FaultKinds == {"sign", "actuate", "lost", "garbled", "service", "stop"}

ASSUME OciAssumption ==
  /\ ResId \subseteq Nat \ {NoRes}
  /\ JobId \subseteq Nat \ {NoJob}
  /\ MaxRev \in Nat \ {0}
  /\ ForeignRev \in 0 .. MaxRev
  /\ Async \subseteq Op
  /\ JobEnd \subseteq {"SUCCEEDED", "FAILED", "CANCELED"}
  /\ Faults \subseteq FaultKinds
  /\ EmptyShown \in Maybe
  /\ ForeignValue \subseteq Maybe

VARIABLES
  cloud,        \* resource id -> its life, its etag, the state a read shows
  jobs,         \* Work Request id -> its status and the change it carries
  rev           \* the last etag handed out

ociVars == <<cloud, jobs, rev>>

Resource == [life : {"unused", "live", "deleting", "gone"}, etag : Nat, state : State]

JobStatus == {"unused", "ACCEPTED", "SUCCEEDED", "FAILED", "CANCELED"}

Job == [status : JobStatus, role : LifecycleRole \cup {"action"},
        rid : ResId \cup {NoRes}, body : Config]

NoJobYet == [status |-> "unused", role |-> "read", rid |-> NoRes, body |-> EmptyConfig]

OciTypeOK ==
  /\ cloud \in [ResId -> Resource]
  /\ jobs \in [JobId -> Job]
  /\ rev \in Nat

NoResource == [life |-> "unused", etag |-> NoRev, state |-> NoState]

\* The first resource exists in one of the given states; without any there is none.
OciInit(States) ==
  /\ \/ States = {} /\ cloud = [r \in ResId |-> NoResource]
     \/ \E st \in States :
          cloud = [r \in ResId |-> IF r = 1 THEN [life |-> "live", etag |-> 1, state |-> st]
                                   ELSE NoResource]
  /\ jobs = [j \in JobId |-> NoJobYet]
  /\ rev = 1

-----------------------------------------------------------------------------
(* Requests and replies. *)

Request(op, rid, ifMatch, body) ==
  [op |-> op, role |-> Role[op], rid |-> rid, ifMatch |-> ifMatch, body |-> body]

\* What a reply tells the caller besides the state a read returns.
Reply == [status : {200, 202, 204, 400, 404, 409, 412, 429, 500},
          wr : JobId \cup {NoJob}]

Answer(status, job) == [status |-> status, wr |-> job]

Refuse(status) == Answer(status, NoJob)

Exists(rid) == rid \in ResId /\ cloud[rid].life \in {"live", "deleting"}

Matches(req) == req.ifMatch \in {NoRev, cloud[req.rid].etag}

\* Set fields overwrite, fields the body lacks stay as they are.
Overlay(state, body) ==
  [f \in StateField |-> IF f \in Field /\ body[f] # Absent THEN body[f] ELSE state[f]]

\* How an input-only field shows in the state of the resource it created.
Realised(rule, v) ==
  CASE rule = "bool-from-nonempty" -> IF v = "true" THEN "some" ELSE EmptyShown
    [] rule = "bool-invert"        -> IF v = "true" THEN "false" ELSE "true"
    [] rule = "rename"             -> v

Provisioned(body) ==
  [f \in StateField |->
     IF \E d \in Derivation : d.from = f /\ body[d.field] # Absent
       THEN LET d == CHOOSE d \in Derivation : d.from = f /\ body[d.field] # Absent
            IN  Realised(d.rule, body[d.field])
       ELSE IF f \in Field THEN body[f] ELSE Absent]

\* Every change of a resource moves its etag to a value never used before.
Commit(rid, life, state) ==
  /\ rev' = rev + 1
  /\ cloud' = [cloud EXCEPT ![rid] = [life |-> life, etag |-> rev + 1, state |-> state]]

\* An asynchronous operation leaves its Work Request behind, any other leaves none.
Track(req, rid, j) ==
  IF req.op \in Async
    THEN /\ j \in JobId
         /\ jobs[j].status = "unused"
         /\ \A i \in JobId : i < j => jobs[i].status # "unused"
         /\ jobs' = [jobs EXCEPT ![j] = [status |-> "ACCEPTED", role |-> req.role,
                                         rid |-> rid, body |-> req.body]]
    ELSE j = NoJob /\ UNCHANGED jobs

ServeRead(req, rep) ==
  /\ req.role = "read"
  /\ rep = IF Exists(req.rid) THEN Answer(200, NoJob) ELSE Refuse(404)
  /\ UNCHANGED ociVars

Reject(req, rep) ==
  /\ req.role \in {"update", "action", "delete"}
  /\ \/ ~Exists(req.rid) /\ rep = Refuse(404)
     \/ Exists(req.rid) /\ ~Matches(req) /\ rep = Refuse(412)
     \/ /\ Exists(req.rid) /\ Matches(req)
        /\ cloud[req.rid].life = "deleting"
        /\ rep = Refuse(409)
  /\ UNCHANGED ociVars

\* Throttling at the bounds, and the outages a run allows.
Unavailable(req, rep) ==
  /\ \/ /\ rep = Refuse(429)
        /\ req.role # "read"
        /\ \/ rev >= MaxRev
           \/ req.op \in Async /\ \A j \in JobId : jobs[j].status # "unused"
     \/ "service" \in Faults /\ rep \in {Refuse(429), Refuse(500)}
  /\ UNCHANGED ociVars

Accepts(req) ==
  /\ Exists(req.rid) /\ Matches(req)
  /\ cloud[req.rid].life = "live"
  /\ rev < MaxRev

Change(req, rep) ==
  /\ req.role \in {"update", "action"}
  /\ Accepts(req)
  /\ Commit(req.rid, "live", IF req.op \in Async THEN cloud[req.rid].state
                             ELSE Overlay(cloud[req.rid].state, req.body))
  /\ \E j \in JobId \cup {NoJob} :
       /\ Track(req, req.rid, j)
       /\ rep = Answer(IF j = NoJob THEN 200 ELSE 202, j)

Delete(req, rep) ==
  /\ req.role = "delete"
  /\ Accepts(req)
  /\ Commit(req.rid, IF req.op \in Async THEN "deleting" ELSE "gone", cloud[req.rid].state)
  /\ \E j \in JobId \cup {NoJob} :
       Track(req, req.rid, j) /\ rep = Answer(204, j)

\* If-Match means nothing to a create: there is no resource to compare with.
Create(req, rep) ==
  /\ req.role = "create"
  /\ \/ /\ \A r \in ResId : cloud[r].life # "unused"
        /\ rep = Refuse(400) /\ UNCHANGED ociVars
     \/ \E r \in ResId, j \in JobId \cup {NoJob} :
          /\ rev < MaxRev
          /\ cloud[r].life = "unused"
          /\ \A q \in ResId : q < r => cloud[q].life # "unused"
          /\ Commit(r, "live", Provisioned(req.body))
          /\ Track(req, r, j)
          /\ rep = Answer(200, j)

\* The provider handles one request and answers it with rep.
Serve(req, rep) ==
  \/ ServeRead(req, rep) \/ Reject(req, rep) \/ Unavailable(req, rep)
  \/ Change(req, rep) \/ Delete(req, rep) \/ Create(req, rep)

-----------------------------------------------------------------------------
(* What happens without the provider asking. *)

\* A Work Request ends: its change takes effect, or is undone.
JobEnds(j) ==
  /\ jobs[j].status = "ACCEPTED"
  /\ \E end \in JobEnd :
       /\ jobs' = [jobs EXCEPT ![j].status = end]
       /\ LET rid  == jobs[j].rid
              role == jobs[j].role
              res  == cloud[rid]
          IN  CASE role = "delete" ->
                     Commit(rid, IF end = "SUCCEEDED" THEN "gone" ELSE "live", res.state)
                [] role = "create" ->
                     Commit(rid, IF end = "SUCCEEDED" THEN res.life ELSE "gone", res.state)
                [] OTHER ->
                     Commit(rid, res.life,
                            IF end = "SUCCEEDED" THEN Overlay(res.state, jobs[j].body)
                            ELSE res.state)

\* Somebody else - a console user, another controller - edits the resource.
ForeignWrite(rid) ==
  /\ cloud[rid].life = "live" /\ rev < ForeignRev
  /\ \E f \in StateField, v \in ForeignValue :
       /\ cloud[rid].state[f] # v
       /\ Commit(rid, "live", [cloud[rid].state EXCEPT ![f] = v])
  /\ UNCHANGED jobs

=============================================================================
