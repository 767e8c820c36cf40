------------------------------- MODULE PlanRun -------------------------------
(***************************************************************************)
(* What the sign+send calls of the provider promise a session of the host, *)
(* without saying how a request is signed, what the provider answers or    *)
(* who else is at work: an approved plan is carried out verbatim, from its *)
(* first operation on and each operation once; the first operation that    *)
(* cannot be done ends the call; and the one verdict the host gets is      *)
(* final, positive exactly when the whole plan is done.                    *)
(***************************************************************************)
EXTENDS Naturals, Sequences

CONSTANTS Session, Op

VARIABLES
  plan,      \* session -> the operations of the current or last call
  done,      \* session -> those the host is told are done: index -> operation
  verdict    \* session -> what the host knows of the call

abstractVars == <<plan, done, verdict>>

Ended == {"succeeded", "accepted", "failed", "error", "lost"}

Init ==
  /\ plan = [s \in Session |-> << >>]
  /\ done = [s \in Session |-> << >>]
  /\ verdict = [s \in Session |-> "none"]

\* The host submits a plan once the call before it has ended.
Submit(s) ==
  /\ verdict[s] # "running"
  /\ plan'[s] \in Seq(Op)
  /\ plan' = [plan EXCEPT ![s] = plan'[s]]
  /\ done' = [done EXCEPT ![s] = << >>]
  /\ verdict' = [verdict EXCEPT ![s] = "running"]

Perform(s) ==
  /\ verdict[s] = "running"
  /\ Len(done[s]) < Len(plan[s])
  /\ done' = [done EXCEPT ![s] = Append(@, plan[s][Len(@) + 1])]
  /\ UNCHANGED <<plan, verdict>>

Fail(s) ==
  /\ verdict[s] = "running"
  /\ Len(done[s]) < Len(plan[s])
  /\ verdict' = [verdict EXCEPT ![s] = "failed"]
  /\ UNCHANGED <<plan, done>>

Complete(s) ==
  /\ verdict[s] = "running"
  /\ done[s] = plan[s]
  /\ \E v \in {"succeeded", "accepted"} : verdict' = [verdict EXCEPT ![s] = v]
  /\ UNCHANGED <<plan, done>>

Lose(s) ==
  /\ verdict[s] = "running"
  /\ verdict' = [verdict EXCEPT ![s] = "lost"]
  /\ UNCHANGED <<plan, done>>

\* A call of one operation is over as soon as it is made.
Single(s) ==
  /\ verdict[s] # "running"
  /\ \E op \in Op :
       /\ plan' = [plan EXCEPT ![s] = <<op>>]
       /\ \/ /\ done' = [done EXCEPT ![s] = <<op>>]
             /\ \E v \in {"succeeded", "accepted"} : verdict' = [verdict EXCEPT ![s] = v]
          \/ /\ done' = [done EXCEPT ![s] = << >>]
             /\ \E v \in {"failed", "error"} : verdict' = [verdict EXCEPT ![s] = v]

Advance(s) == Perform(s) \/ Fail(s) \/ Complete(s) \/ Lose(s)

Next == \E s \in Session : Submit(s) \/ Advance(s) \/ Single(s)

Spec == Init /\ [][Next]_abstractVars

FairSpec == Spec /\ \A s \in Session : WF_abstractVars(Advance(s))

=============================================================================
