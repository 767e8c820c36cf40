--------------------------------- MODULE Abi ---------------------------------
(***************************************************************************)
(* The guest's memory (module/abi.go, module/cicflow_guest.go).  Host and  *)
(* guest exchange bytes through buffers of the guest's heap: the host      *)
(* writes op, auth and data before Call and reads the packed result after  *)
(* it; inside Call a handler may call the host back, with a buffer for the *)
(* request and one for the reply.  The instance is kept from call to call  *)
(* and the guest runs on one thread.  The host's half is external: it does *)
(* what docs/contracts/en/host-expectations.md says of callGuest.          *)
(*                                                                         *)
(* A buffer's content is a tag that says what was written for which call.  *)
(***************************************************************************)
EXTENDS Integers, Sequences

CONSTANTS
  Ptr,           \* addresses malloc may return
  Null,          \* the null pointer: what malloc returns for no bytes
  Nobody,        \* a pointer variable that is not in use
  MaxCalls,      \* bound: calls of the host
  MaxHostCalls   \* bound: host calls of a handler

ASSUME AbiAssumption ==
  /\ Null \notin Ptr /\ Nobody \notin Ptr /\ Null # Nobody
  /\ MaxCalls \in Nat /\ MaxHostCalls \in Nat

VARIABLES
  heap,   \* the live buffers: pointer -> content
  ptrs,   \* the pointer variables of host and guest
  host,   \* the host: where it is, which call, what it read
  guest   \* Call's frame: where it is, what it copied

vars == <<heap, ptrs, host, guest>>

Args == {"op", "auth", "data"}

PtrVars == Args \cup {"result", "req", "out"}

Tagged(what, call, i) == [what |-> what, call |-> call, part |-> i]

\* What a load from freed or never written memory yields.
Garbage == Tagged("garbage", 0, 0)

\* No bytes, and the negative status of a host call.
Empty == Tagged("empty", 0, 0)

Refused == Tagged("refused", 0, 0)

Load(p) == IF p \in DOMAIN heap THEN heap[p] ELSE Garbage

Stored(h, p, content) == [q \in DOMAIN h \cup {p} |-> IF q = p THEN content ELSE h[q]]

Freed(h, some) == [q \in DOMAIN h \ some |-> h[q]]

Unused == Ptr \ DOMAIN heap

Unset(vs) == [v \in PtrVars |-> IF v \in vs THEN Nobody ELSE ptrs[v]]

IdleGuest == [at |-> "idle", copied |-> [v \in Args |-> Empty], replies |-> << >>]

IdleHost(call) == [at |-> "op", call |-> call, read |-> << >>, result |-> Empty]

Init ==
  /\ heap = << >>
  /\ ptrs = [v \in PtrVars |-> Nobody]
  /\ host = IdleHost(1)
  /\ guest = IdleGuest

-----------------------------------------------------------------------------
(* The host before the call. *)

Follows == [op |-> "auth", auth |-> "data", data |-> "call"]

\* op, auth, data in turn; for no bytes malloc gives the null pointer.
HostWrites ==
  /\ host.at \in Args /\ host.call <= MaxCalls
  /\ \/ \E p \in Unused :
          /\ heap' = Stored(heap, p, Tagged(host.at, host.call, 0))
          /\ ptrs' = [ptrs EXCEPT ![host.at] = p]
     \/ ptrs' = [ptrs EXCEPT ![host.at] = Null] /\ UNCHANGED heap
  /\ host' = [host EXCEPT !.at = Follows[host.at]]
  /\ UNCHANGED guest

\* An allocation or a write failed: HOST_ERROR, the guest is not called.
HostGivesUp ==
  /\ host.at \in {"auth", "data", "call"}
  /\ heap' = Freed(heap, {ptrs[v] : v \in Args})
  /\ ptrs' = Unset(Args)
  /\ host' = IdleHost(host.call + 1)
  /\ UNCHANGED guest

HostCalls ==
  /\ host.at = "call"
  /\ host' = [host EXCEPT !.at = "waiting"]
  /\ guest' = [guest EXCEPT !.at = "reading"]
  /\ UNCHANGED <<heap, ptrs>>

-----------------------------------------------------------------------------
(* The guest: Call and hostCall. *)

\* The arguments are copied; an op it does not know goes to the answer at once.
GuestReads ==
  /\ guest.at = "reading"
  /\ \E next \in {"handling", "answering"} :
       guest' = [guest EXCEPT
                   !.at = next,
                   !.copied = [v \in Args |-> IF ptrs[v] = Null THEN Empty ELSE Load(ptrs[v])]]
  /\ UNCHANGED <<heap, ptrs, host>>

HostCallNo == Len(guest.replies) + 1

\* Request and reply buffer; the reply's is not written yet.
HostCallStarts ==
  /\ guest.at = "handling" /\ HostCallNo <= MaxHostCalls
  /\ \E p \in Unused : \E q \in Unused \ {p} :
       /\ heap' = Stored(Stored(heap, p, Tagged("request", host.call, HostCallNo)), q, Garbage)
       /\ ptrs' = [ptrs EXCEPT !["req"] = p, !["out"] = q]
  /\ guest' = [guest EXCEPT !.at = "outside"]
  /\ UNCHANGED host

\* cic-flow: the host reads the request and writes the reply, unless it does not
\* fit or cannot be written (a negative status).
HostServes ==
  /\ guest.at = "outside"
  /\ host' = [host EXCEPT !.read = Append(@, Load(ptrs["req"]))]
  /\ \/ /\ heap' = [heap EXCEPT ![ptrs["out"]] = Tagged("reply", host.call, HostCallNo)]
        /\ guest' = [guest EXCEPT !.at = "served"]
     \/ guest' = [guest EXCEPT !.at = "refused"] /\ UNCHANGED heap
  /\ UNCHANGED ptrs

\* Mutant of HostCallReturns: the error return leaves the buffers behind.
HostCallReturnsLeaking ==
  /\ guest.at \in {"served", "refused"}
  /\ heap' = IF guest.at = "refused" THEN heap ELSE Freed(heap, {ptrs["req"], ptrs["out"]})
  /\ ptrs' = Unset({"req", "out"})
  /\ guest' = [guest EXCEPT
                 !.at = "handling",
                 !.replies = Append(@, IF guest.at = "refused" THEN Refused
                                         ELSE Load(ptrs["out"]))]
  /\ UNCHANGED host

\* Mutant of HostCallReturns: deallocate is called before the copy, not deferred.
HostCallReturnsTooSoon ==
  /\ guest.at \in {"served", "refused"}
  /\ heap' = Freed(heap, {ptrs["req"], ptrs["out"]})
  /\ ptrs' = Unset({"req", "out"})
  /\ guest' = [guest EXCEPT
                 !.at = "handling",
                 !.replies = Append(@, IF guest.at = "refused" THEN Refused
                                         ELSE Load(ptrs["out"])')]
  /\ UNCHANGED host

\* The reply is copied and both buffers are freed, also after an error.
HostCallReturns ==
  /\ guest.at \in {"served", "refused"}
  /\ heap' = Freed(heap, {ptrs["req"], ptrs["out"]})
  /\ ptrs' = Unset({"req", "out"})
  /\ guest' = [guest EXCEPT
                 !.at = "handling",
                 !.replies = Append(@, IF guest.at = "refused" THEN Refused
                                         ELSE Load(ptrs["out"]))]
  /\ UNCHANGED host

\* The handler's result or its error, as an envelope (marshalData, marshalErr),
\* which is never empty, goes into a buffer that is the host's from now on (pack).
GuestAnswers ==
  /\ guest.at \in {"handling", "answering"}
  /\ \E p \in Unused :
       /\ heap' = Stored(heap, p, Tagged("result", host.call, 0))
       /\ ptrs' = [ptrs EXCEPT !["result"] = p]
  /\ host' = [host EXCEPT !.at = "reading"]
  /\ guest' = IdleGuest

-----------------------------------------------------------------------------
(* The host after the call. *)

HostReads ==
  /\ host.at = "reading"
  /\ host' = [host EXCEPT !.at = "freeing", !.result = Load(ptrs["result"])]
  /\ UNCHANGED <<heap, ptrs, guest>>

\* All four buffers, whatever the result was.
HostFrees ==
  /\ host.at = "freeing"
  /\ heap' = Freed(heap, {ptrs[v] : v \in Args \cup {"result"}})
  /\ ptrs' = Unset(Args \cup {"result"})
  /\ host' = IdleHost(host.call + 1)
  /\ UNCHANGED guest

Next ==
  \/ HostWrites \/ HostGivesUp \/ HostCalls \/ HostServes \/ HostReads \/ HostFrees
  \/ GuestReads \/ HostCallStarts \/ HostCallReturns \/ GuestAnswers

Spec == Init /\ [][Next]_vars

-----------------------------------------------------------------------------
(* Properties. *)

\* A live buffer is in exactly one pointer variable of the two sides and a pointer
\* in use is live: nothing leaks on any path through Call and hostCall, nothing is
\* freed twice, and no two buffers of a call are the same.
Ownership ==
  /\ DOMAIN heap = {ptrs[v] : v \in PtrVars} \cap Ptr
  /\ \A v, w \in PtrVars : ptrs[v] \in Ptr /\ ptrs[v] = ptrs[w] => v = w

\* Each side reads what the other wrote for this call: the handler has this call's
\* arguments, the host its k-th request, the handler the k-th reply, and the host
\* this call's result, never freed memory or bytes of an earlier call.
RightBytes ==
  /\ guest.at \in {"handling", "outside", "served", "refused", "answering"} =>
       \A v \in Args : guest.copied[v] = IF ptrs[v] = Null THEN Empty
                                                           ELSE Tagged(v, host.call, 0)
  /\ \A k \in DOMAIN host.read : host.read[k] = Tagged("request", host.call, k)
  /\ \A k \in DOMAIN guest.replies :
       guest.replies[k] \in {Refused, Tagged("reply", host.call, k)}
  /\ host.at = "freeing" => host.result = Tagged("result", host.call, 0)

=============================================================================
