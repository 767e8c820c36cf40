------------------------------ MODULE AbiProofs ------------------------------
(***************************************************************************)
(* Who owns which buffer, and whose bytes each side reads, for any number  *)
(* of addresses, calls and host calls: proofs about module Abi.            *)
(*                                                                         *)
(* Ownership and RightBytes are not inductive.  They rest on which pointer *)
(* variables are in use at each point of a call (Phases) and on what the   *)
(* buffers hold until they are read (Contents).                            *)
(***************************************************************************)
EXTENDS Abi, TLAPS

What == PtrVars \cup {"garbage", "empty", "refused", "request", "reply"}

Content == [what : What, call : Nat, part : Nat]

HostAt == {"op", "auth", "data", "call", "waiting", "reading", "freeing"}

GuestAt == {"idle", "reading", "handling", "outside", "served", "refused", "answering"}

PtrType == ptrs \in [PtrVars -> Ptr \cup {Null, Nobody}]

HostType == host \in [at : HostAt, call : Nat, read : Seq(Content), result : Content]

GuestType == guest \in [at : GuestAt, copied : [Args -> Content], replies : Seq(Content)]

HeapType == \A p \in DOMAIN heap : heap[p] \in Content

Types == PtrType /\ HostType /\ GuestType /\ HeapType

\* Where host and guest are, and the pointer variables and counts that go with it.
Unwritten == IF host.at = "op" THEN Args
             ELSE IF host.at = "auth" THEN {"auth", "data"}
             ELSE IF host.at = "data" THEN {"data"}
             ELSE {}

ArgPhase == \A v \in Args : ptrs[v] = Nobody <=> v \in Unwritten

ResultPhase == IF host.at \in {"reading", "freeing"} THEN ptrs["result"] \in Ptr
                                                     ELSE ptrs["result"] = Nobody

CallPhase == IF guest.at \in {"outside", "served", "refused"}
               THEN ptrs["req"] \in Ptr /\ ptrs["out"] \in Ptr
               ELSE ptrs["req"] = Nobody /\ ptrs["out"] = Nobody

CountPhase ==
  /\ guest.at \in {"idle", "reading"} => Len(guest.replies) = 0
  /\ host.at \in Args \cup {"call"} => Len(host.read) = 0
  /\ host.at = "waiting" =>
       Len(host.read) = IF guest.at \in {"served", "refused"} THEN Len(guest.replies) + 1
                                                              ELSE Len(guest.replies)

Phases ==
  /\ host.at = "waiting" <=> guest.at # "idle"
  /\ ArgPhase /\ ResultPhase /\ CallPhase /\ CountPhase

\* What the buffers in use hold.
Contents ==
  /\ \A v \in Args \cup {"result"} : ptrs[v] \in Ptr => heap[ptrs[v]] = Tagged(v, host.call, 0)
  /\ guest.at \in {"outside", "served", "refused"} =>
       heap[ptrs["req"]] = Tagged("request", host.call, HostCallNo)
  /\ guest.at = "served" => heap[ptrs["out"]] = Tagged("reply", host.call, HostCallNo)

IInv == Types /\ Phases /\ Contents /\ Ownership /\ RightBytes

-----------------------------------------------------------------------------
(* The heap operators. *)

LEMMA StoredHeap ==
  ASSUME NEW h, NEW p, NEW c
  PROVE  /\ DOMAIN Stored(h, p, c) = DOMAIN h \cup {p}
         /\ Stored(h, p, c)[p] = c
         /\ \A q \in DOMAIN h : q # p => Stored(h, p, c)[q] = h[q]
BY DEF Stored

LEMMA FreedHeap ==
  ASSUME NEW h, NEW some
  PROVE  /\ DOMAIN Freed(h, some) = DOMAIN h \ some
         /\ \A q \in DOMAIN h \ some : Freed(h, some)[q] = h[q]
BY DEF Freed

LEMMA Tags == ASSUME NEW w \in What, NEW c \in Nat, NEW i \in Nat
              PROVE  Tagged(w, c, i) \in Content
BY DEF Tagged, Content

-----------------------------------------------------------------------------
(* The invariant is inductive. *)

LEMMA InitInv == Init => IInv
<1> SUFFICES ASSUME Init PROVE IInv
  OBVIOUS
<1> USE AbiAssumption DEF Init, IdleHost, IdleGuest
<1>a. Empty \in Content
  BY Tags DEF Empty, What
<1>b. DOMAIN heap = {}
  BY DEF Init
<1>1. PtrType
  BY DEF PtrType
<1>2. HostType
  BY <1>a DEF HostType, HostAt
<1>3. GuestType
  BY <1>a DEF GuestType, GuestAt
<1>4. HeapType
  BY <1>b DEF HeapType
<1>5. Phases
  BY DEF Phases, ArgPhase, Unwritten, ResultPhase, CallPhase, CountPhase, Args, PtrVars
<1>6. Contents
  BY DEF Contents, Args, PtrVars
<1>7. Ownership
  BY <1>b DEF Ownership
<1>8. RightBytes
  BY DEF RightBytes
<1> QED
  BY <1>1, <1>2, <1>3, <1>4, <1>5, <1>6, <1>7, <1>8 DEF IInv, Types

LEMMA HostWritesInv == IInv /\ HostWrites => IInv'
<1> SUFFICES ASSUME IInv, HostWrites PROVE IInv'
  OBVIOUS
<1> USE AbiAssumption DEF IInv, Types
<1> DEFINE a == host.at
           c == Tagged(a, host.call, 0)
<1>1. a \in Args /\ guest.at = "idle" /\ guest' = guest /\ ptrs[a] = Nobody
  BY DEF HostWrites, Phases, ArgPhase, Unwritten, Args, HostType, HostAt
<1>2. PICK p \in Unused \cup {Null} :
        /\ ptrs' = [ptrs EXCEPT ![a] = p]
        /\ IF p = Null THEN heap' = heap ELSE heap' = Stored(heap, p, c)
  <2>1. Null \notin Unused
    BY DEF Unused
  <2> QED
    BY <2>1 DEF HostWrites
<1>3. host' = [host EXCEPT !.at = Follows[a]]
  BY DEF HostWrites
<1>4. /\ Follows[a] = IF a = "op" THEN "auth" ELSE IF a = "auth" THEN "data" ELSE "call"
      /\ host'.at = Follows[a] /\ host'.call = host.call
      /\ host'.read = host.read /\ host'.result = host.result
  BY <1>1, <1>3 DEF HostType, Follows, Args
<1>5. /\ ptrs'[a] = p
      /\ \A v \in PtrVars \ {a} : ptrs'[v] = ptrs[v]
  BY <1>1, <1>2 DEF PtrType, PtrVars
<1>6. /\ DOMAIN heap' = IF p = Null THEN DOMAIN heap ELSE DOMAIN heap \cup {p}
      /\ p # Null => p \in Ptr \ DOMAIN heap /\ heap'[p] = c
      /\ \A q \in DOMAIN heap : heap'[q] = heap[q]
  <2>1. CASE p = Null
    BY <1>2, <2>1
  <2>2. CASE p # Null
    <3>1. heap' = Stored(heap, p, c) /\ p \in Ptr \ DOMAIN heap
      BY <1>2, <2>2 DEF Unused
    <3> QED
      BY <2>2, <3>1 DEF Stored
  <2> QED
    BY <2>1, <2>2
<1>7. PtrType'
  BY <1>1, <1>2 DEF PtrType, Unused
<1>8. HostType'
  BY <1>1, <1>3, <1>4 DEF HostType, HostAt
<1>9. GuestType'
  BY <1>1 DEF GuestType
<1>10. HeapType'
  <2>1. c \in Content
    BY <1>1, Tags DEF HostType, What, PtrVars
  <2> QED
    BY <1>6, <2>1 DEF HeapType
<1>a. p # Nobody /\ (p = Null \/ p \in Ptr)
  BY DEF Unused
<1>11. Phases'
  <2>1. ArgPhase'
    <3>1. Unwritten' = Unwritten \ {a}
      BY <1>1, <1>4 DEF Unwritten, Args
    <3> QED
      BY <1>1, <1>5, <1>a, <3>1 DEF Phases, ArgPhase, PtrVars, Args
  <2>2. ResultPhase'
    BY <1>1, <1>4, <1>5 DEF Phases, ResultPhase, PtrVars, Args
  <2>3. CallPhase'
    BY <1>1, <1>4, <1>5 DEF Phases, CallPhase, PtrVars, Args
  <2>4. CountPhase'
    BY <1>1, <1>4 DEF Phases, CountPhase, Args
  <2> QED
    BY <1>1, <1>4, <2>1, <2>2, <2>3, <2>4 DEF Phases, Args
<1>12. Contents'
  BY <1>1, <1>4, <1>5, <1>6 DEF Contents, Ownership, PtrVars, Args
<1>13. Ownership'
  BY <1>1, <1>5, <1>6 DEF Ownership, PtrVars, Args
<1>14. RightBytes'
  BY <1>1, <1>4 DEF RightBytes, Args
<1> QED
  BY <1>7, <1>8, <1>9, <1>10, <1>11, <1>12, <1>13, <1>14

LEMMA HostGivesUpInv == IInv /\ HostGivesUp => IInv'
<1> SUFFICES ASSUME IInv, HostGivesUp PROVE IInv'
  OBVIOUS
<1> USE AbiAssumption DEF IInv, Types
<1>1. /\ host.at \in {"auth", "data", "call"} /\ guest.at = "idle" /\ guest' = guest
      /\ ptrs["result"] = Nobody /\ ptrs["req"] = Nobody /\ ptrs["out"] = Nobody
  BY DEF HostGivesUp, Phases, ResultPhase, CallPhase
<1>2. host' = IdleHost(host.call + 1) /\ ptrs' = Unset(Args)
  BY DEF HostGivesUp
<1>3. /\ host'.at = "op" /\ host'.call = host.call + 1
      /\ host'.read = << >> /\ host'.result = Empty
  BY <1>2 DEF IdleHost
<1>4. \A v \in PtrVars : ptrs'[v] = Nobody
  BY <1>1, <1>2 DEF Unset, PtrVars, Args
<1>5. DOMAIN heap' = {}
  BY <1>1 DEF HostGivesUp, Freed, Ownership, PtrVars
<1>6. PtrType'
  BY <1>2, <1>4 DEF PtrType, Unset
<1>7. HostType'
  <2>1. Empty \in Content
    BY Tags DEF Empty, What
  <2> QED
    BY <1>2, <2>1 DEF HostType, HostAt, IdleHost
<1>8. GuestType'
  BY <1>1 DEF GuestType
<1>9. HeapType'
  BY <1>5 DEF HeapType
<1>10. Phases'
  BY <1>1, <1>3, <1>4 DEF Phases, ArgPhase, Unwritten, ResultPhase, CallPhase, CountPhase, PtrVars, Args
<1>11. Contents'
  BY <1>1, <1>4 DEF Contents, PtrVars
<1>12. Ownership'
  BY <1>4, <1>5 DEF Ownership
<1>13. RightBytes'
  BY <1>1, <1>3 DEF RightBytes, Phases, CountPhase
<1> QED
  BY <1>6, <1>7, <1>8, <1>9, <1>10, <1>11, <1>12, <1>13

LEMMA HostCallsInv == IInv /\ HostCalls => IInv'
<1> SUFFICES ASSUME IInv, HostCalls PROVE IInv'
  OBVIOUS
<1> USE AbiAssumption DEF IInv, Types
<1>1. /\ host.at = "call" /\ guest.at = "idle" /\ heap' = heap /\ ptrs' = ptrs
      /\ host' = [host EXCEPT !.at = "waiting"] /\ guest' = [guest EXCEPT !.at = "reading"]
  BY DEF HostCalls, Phases
<1>2. /\ host'.at = "waiting" /\ host'.call = host.call
      /\ host'.read = host.read /\ host'.result = host.result
      /\ guest'.at = "reading" /\ guest'.copied = guest.copied /\ guest'.replies = guest.replies
  BY <1>1 DEF HostType, GuestType
<1>3. PtrType' /\ HeapType' /\ HostType' /\ GuestType'
  BY <1>1 DEF PtrType, HeapType, HostType, HostAt, GuestType, GuestAt
<1>4. Phases'
  BY <1>1, <1>2 DEF Phases, ArgPhase, Unwritten, ResultPhase, CallPhase, CountPhase, Args
<1>5. Contents'
  BY <1>1, <1>2 DEF Contents
<1>6. Ownership'
  BY <1>1 DEF Ownership
<1>7. RightBytes'
  BY <1>1, <1>2 DEF RightBytes
<1> QED
  BY <1>3, <1>4, <1>5, <1>6, <1>7

LEMMA GuestReadsInv == IInv /\ GuestReads => IInv'
<1> SUFFICES ASSUME IInv, GuestReads PROVE IInv'
  OBVIOUS
<1> USE AbiAssumption DEF IInv, Types
<1> DEFINE copy == [v \in Args |-> IF ptrs[v] = Null THEN Empty ELSE Load(ptrs[v])]
<1>1. PICK next \in {"handling", "answering"} :
        guest' = [guest EXCEPT !.at = next, !.copied = copy]
  BY DEF GuestReads
<1>2. /\ guest.at = "reading" /\ host.at = "waiting"
      /\ heap' = heap /\ ptrs' = ptrs /\ host' = host
  BY DEF GuestReads, Phases
<1>3. guest'.at = next /\ guest'.copied = copy /\ guest'.replies = guest.replies
  BY <1>1 DEF GuestType
<1>4. \A v \in Args : copy[v] = IF ptrs[v] = Null THEN Empty ELSE Tagged(v, host.call, 0)
  <2> SUFFICES ASSUME NEW v \in Args, ptrs[v] # Null
               PROVE  Load(ptrs[v]) = Tagged(v, host.call, 0)
    OBVIOUS
  <2>1. ptrs[v] \in Ptr
    BY <1>2 DEF Phases, ArgPhase, Unwritten, PtrType, PtrVars, Args
  <2>2. ptrs[v] \in DOMAIN heap
    BY <2>1 DEF Ownership, PtrVars
  <2> QED
    BY <2>1, <2>2 DEF Contents, Load
<1>5. copy \in [Args -> Content]
  <2>1. Empty \in Content /\ \A v \in Args : Tagged(v, host.call, 0) \in Content
    BY Tags DEF Empty, What, PtrVars, HostType
  <2> QED
    BY <1>4, <2>1
<1> HIDE DEF copy
<1>6. PtrType' /\ HeapType' /\ HostType'
  BY <1>2 DEF PtrType, HeapType, HostType
<1>7. GuestType'
  BY <1>1, <1>5 DEF GuestType, GuestAt
<1>8. Phases'
  BY <1>2, <1>3 DEF Phases, ArgPhase, Unwritten, ResultPhase, CallPhase, CountPhase
<1>9. Contents'
  BY <1>2, <1>3 DEF Contents
<1>10. Ownership'
  BY <1>2 DEF Ownership
<1>11. RightBytes'
  BY <1>2, <1>3, <1>4 DEF RightBytes
<1> QED
  BY <1>6, <1>7, <1>8, <1>9, <1>10, <1>11

LEMMA HostCallStartsInv == IInv /\ HostCallStarts => IInv'
<1> SUFFICES ASSUME IInv, HostCallStarts PROVE IInv'
  OBVIOUS
<1> USE AbiAssumption DEF IInv, Types
<1> DEFINE c == Tagged("request", host.call, HostCallNo)
<1>1. PICK p \in Unused, q \in Unused :
        /\ p # q
        /\ heap' = Stored(Stored(heap, p, c), q, Garbage)
        /\ ptrs' = [ptrs EXCEPT !["req"] = p, !["out"] = q]
  BY DEF HostCallStarts
<1>2. /\ guest.at = "handling" /\ host.at = "waiting" /\ host' = host
      /\ guest' = [guest EXCEPT !.at = "outside"]
      /\ ptrs["req"] = Nobody /\ ptrs["out"] = Nobody
  BY DEF HostCallStarts, Phases, CallPhase
<1>3. guest'.at = "outside" /\ guest'.copied = guest.copied /\ guest'.replies = guest.replies
  BY <1>2 DEF GuestType
<1>4. /\ ptrs'["req"] = p /\ ptrs'["out"] = q
      /\ \A v \in PtrVars \ {"req", "out"} : ptrs'[v] = ptrs[v]
  BY <1>1 DEF PtrType, PtrVars
<1>5. p \in Ptr /\ q \in Ptr /\ p # q /\ p \notin DOMAIN heap /\ q \notin DOMAIN heap
  BY <1>1 DEF Unused
<1>6. /\ DOMAIN heap' = DOMAIN heap \cup {p, q}
      /\ heap'[p] = c /\ heap'[q] = Garbage
      /\ \A r \in DOMAIN heap : heap'[r] = heap[r]
  BY <1>1, <1>5 DEF Stored
<1>7. HostCallNo' = HostCallNo /\ HostCallNo \in Nat
  BY <1>3 DEF HostCallNo, GuestType
<1>8. PtrType' /\ HostType' /\ GuestType'
  BY <1>1, <1>2, <1>5 DEF PtrType, HostType, GuestType, GuestAt
<1>9. HeapType'
  <2>1. c \in Content /\ Garbage \in Content
    BY <1>7, Tags DEF Garbage, What, HostType
  <2> QED
    BY <1>6, <2>1 DEF HeapType
<1>10. Phases'
  <2>1. ArgPhase'
    BY <1>2, <1>4 DEF Phases, ArgPhase, Unwritten, PtrVars, Args
  <2>2. ResultPhase'
    BY <1>2, <1>4 DEF Phases, ResultPhase, PtrVars
  <2>3. CallPhase'
    BY <1>3, <1>4, <1>5 DEF CallPhase
  <2>4. CountPhase'
    BY <1>2, <1>3 DEF Phases, CountPhase
  <2> QED
    BY <1>2, <1>3, <2>1, <2>2, <2>3, <2>4 DEF Phases
<1>11. Contents'
  BY <1>2, <1>3, <1>4, <1>6, <1>7 DEF Contents, Ownership, PtrVars, Args
<1>12. Ownership'
  BY <1>2, <1>4, <1>5, <1>6 DEF Ownership, PtrVars, Args
<1>13. RightBytes'
  BY <1>2, <1>3, <1>4 DEF RightBytes, PtrVars, Args
<1> QED
  BY <1>8, <1>9, <1>10, <1>11, <1>12, <1>13

LEMMA HostServesInv == IInv /\ HostServes => IInv'
<1> SUFFICES ASSUME IInv, HostServes PROVE IInv'
  OBVIOUS
<1> USE AbiAssumption DEF IInv, Types
<1> DEFINE c == Tagged("reply", host.call, HostCallNo)
<1>1. /\ guest.at = "outside" /\ host.at = "waiting" /\ ptrs' = ptrs
      /\ host' = [host EXCEPT !.read = Append(host.read, Load(ptrs["req"]))]
      /\ ptrs["req"] \in Ptr /\ ptrs["out"] \in Ptr
  BY DEF HostServes, Phases, CallPhase
<1>2. PICK at \in {"served", "refused"} :
        /\ guest' = [guest EXCEPT !.at = at]
        /\ heap' = IF at = "served" THEN [heap EXCEPT ![ptrs["out"]] = c] ELSE heap
  BY DEF HostServes
<1>3. guest'.at = at /\ guest'.copied = guest.copied /\ guest'.replies = guest.replies
  BY <1>2 DEF GuestType
<1>4. /\ Load(ptrs["req"]) = Tagged("request", host.call, HostCallNo)
      /\ ptrs["req"] \in DOMAIN heap /\ ptrs["out"] \in DOMAIN heap
      /\ \A v \in PtrVars : v # "out" => ptrs[v] # ptrs["out"]
  BY <1>1 DEF Load, Contents, Ownership, PtrVars
<1>5. HostCallNo' = HostCallNo /\ HostCallNo \in Nat /\ HostCallNo = Len(host.read) + 1
  BY <1>1, <1>3 DEF HostCallNo, GuestType, Phases, CountPhase
<1>6. Load(ptrs["req"]) \in Content /\ c \in Content
  <2>1. host.call \in Nat /\ "request" \in What /\ "reply" \in What
    BY DEF What, HostType
  <2> QED
    BY <1>4, <1>5, <2>1, Tags
<1>7. /\ host'.at = "waiting" /\ host'.call = host.call /\ host'.result = host.result
      /\ host'.read = Append(host.read, Load(ptrs["req"]))
  BY <1>1 DEF HostType
<1>8. /\ Len(host'.read) = Len(host.read) + 1
      /\ \A k \in DOMAIN host'.read : IF k = Len(host.read) + 1
                                       THEN host'.read[k] = Load(ptrs["req"])
                                       ELSE k \in DOMAIN host.read /\ host'.read[k] = host.read[k]
  BY <1>6, <1>7 DEF HostType
<1>9. /\ DOMAIN heap' = DOMAIN heap
      /\ \A r \in DOMAIN heap : r # ptrs["out"] => heap'[r] = heap[r]
      /\ heap'[ptrs["out"]] = IF at = "served" THEN c ELSE heap[ptrs["out"]]
  BY <1>2, <1>4
<1>10. PtrType' /\ GuestType'
  BY <1>1, <1>2 DEF PtrType, GuestType, GuestAt
<1>11. HostType'
  <2>1. host.read \in Seq(Content)
    BY DEF HostType
  <2>2. Append(host.read, Load(ptrs["req"])) \in Seq(Content)
    BY <1>6, <2>1
  <2> HIDE DEF IInv, Types
  <2>3. HostType
    BY DEF IInv, Types
  <2> QED
    BY <1>1, <2>2, <2>3 DEF HostType
<1>12. HeapType'
  BY <1>6, <1>9 DEF HeapType
<1>13. Phases'
  <2>1. ArgPhase' /\ ResultPhase' /\ CallPhase'
    BY <1>1, <1>3, <1>7 DEF Phases, ArgPhase, Unwritten, ResultPhase, CallPhase
  <2>2. CountPhase'
    BY <1>1, <1>3, <1>7, <1>8 DEF Phases, CountPhase, Args
  <2> QED
    BY <1>3, <1>7, <2>1, <2>2 DEF Phases
<1>14. Contents'
  BY <1>1, <1>3, <1>4, <1>5, <1>7, <1>9 DEF Contents, Ownership, PtrVars, Args
<1>15. Ownership'
  BY <1>1, <1>9 DEF Ownership
<1>16. RightBytes'
  BY <1>1, <1>3, <1>4, <1>5, <1>7, <1>8 DEF RightBytes
<1> QED
  BY <1>10, <1>11, <1>12, <1>13, <1>14, <1>15, <1>16

LEMMA HostCallReturnsInv == IInv /\ HostCallReturns => IInv'
<1> SUFFICES ASSUME IInv, HostCallReturns PROVE IInv'
  OBVIOUS
<1> USE AbiAssumption DEF IInv, Types
<1> DEFINE r == IF guest.at = "refused" THEN Refused ELSE Load(ptrs["out"])
<1>1. /\ guest.at \in {"served", "refused"} /\ host.at = "waiting" /\ host' = host
      /\ ptrs["req"] \in Ptr /\ ptrs["out"] \in Ptr
      /\ heap' = Freed(heap, {ptrs["req"], ptrs["out"]})
      /\ ptrs' = Unset({"req", "out"})
      /\ guest' = [guest EXCEPT !.at = "handling", !.replies = Append(guest.replies, r)]
  BY DEF HostCallReturns, Phases, CallPhase
<1>2. r \in {Refused, Tagged("reply", host.call, HostCallNo)}
  BY <1>1 DEF Load, Contents, Ownership, PtrVars
<1>3. HostCallNo \in Nat /\ HostCallNo = Len(guest.replies) + 1
  BY DEF HostCallNo, GuestType
<1>4. r \in Content
  <2>1. host.call \in Nat /\ "refused" \in What /\ "reply" \in What
    BY DEF What, HostType
  <2> HIDE DEF r
  <2> QED
    BY <1>2, <1>3, <2>1, Tags DEF Refused
<1>5. /\ guest'.at = "handling" /\ guest'.copied = guest.copied
      /\ guest'.replies = Append(guest.replies, r)
  BY <1>1 DEF GuestType
<1>6. /\ Len(guest'.replies) = Len(guest.replies) + 1
      /\ \A k \in DOMAIN guest'.replies :
           IF k = Len(guest.replies) + 1
             THEN guest'.replies[k] = r
             ELSE k \in DOMAIN guest.replies /\ guest'.replies[k] = guest.replies[k]
  BY <1>4, <1>5 DEF GuestType
<1>7. /\ ptrs'["req"] = Nobody /\ ptrs'["out"] = Nobody
      /\ \A v \in PtrVars \ {"req", "out"} : ptrs'[v] = ptrs[v]
  BY <1>1 DEF Unset, PtrVars
<1>8. /\ DOMAIN heap' = DOMAIN heap \ {ptrs["req"], ptrs["out"]}
      /\ \A q \in DOMAIN heap' : heap'[q] = heap[q]
  BY <1>1 DEF Freed
<1> HIDE DEF r
<1>9. PtrType'
  BY <1>1 DEF PtrType, Unset
<1>10. HostType' /\ GuestType'
  <2>1. guest.replies \in Seq(Content)
    BY DEF GuestType
  <2>2. Append(guest.replies, r) \in Seq(Content)
    BY <1>4, <2>1
  <2> QED
    BY <1>1, <2>2 DEF HostType, GuestType, GuestAt
<1>11. HeapType'
  BY <1>8 DEF HeapType
<1>12. Phases'
  <2>1. ArgPhase' /\ ResultPhase'
    BY <1>1, <1>7 DEF Phases, ArgPhase, Unwritten, ResultPhase, PtrVars, Args
  <2>2. CallPhase'
    BY <1>5, <1>7 DEF CallPhase
  <2>3. CountPhase'
    BY <1>1, <1>5, <1>6 DEF Phases, CountPhase, Args
  <2> QED
    BY <1>1, <1>5, <2>1, <2>2, <2>3 DEF Phases
<1>13. Ownership'
  BY <1>7, <1>8 DEF Ownership, PtrVars, Args
<1>14. Contents'
  <2>1. ASSUME NEW v \in Args \cup {"result"}, ptrs'[v] \in Ptr
        PROVE  heap'[ptrs'[v]] = Tagged(v, host.call, 0)
    <3>1. ptrs'[v] = ptrs[v]
      BY <1>7 DEF PtrVars, Args
    <3>2. ptrs[v] \in DOMAIN heap'
      BY <1>1, <1>8, <2>1, <3>1 DEF Ownership, PtrVars, Args
    <3> QED
      BY <1>8, <2>1, <3>1, <3>2 DEF Contents
  <2> QED
    BY <1>1, <1>5, <2>1 DEF Contents
<1>15. RightBytes'
  BY <1>1, <1>2, <1>3, <1>5, <1>6, <1>7 DEF RightBytes, PtrVars, Args
<1> QED
  BY <1>9, <1>10, <1>11, <1>12, <1>13, <1>14, <1>15

LEMMA GuestAnswersInv == IInv /\ GuestAnswers => IInv'
<1> SUFFICES ASSUME IInv, GuestAnswers PROVE IInv'
  OBVIOUS
<1> USE AbiAssumption DEF IInv, Types
<1> DEFINE c == Tagged("result", host.call, 0)
<1>1. PICK p \in Unused : heap' = Stored(heap, p, c) /\ ptrs' = [ptrs EXCEPT !["result"] = p]
  BY DEF GuestAnswers
<1>2. /\ guest.at \in {"handling", "answering"} /\ host.at = "waiting"
      /\ host' = [host EXCEPT !.at = "reading"] /\ guest' = IdleGuest
      /\ ptrs["result"] = Nobody /\ ptrs["req"] = Nobody /\ ptrs["out"] = Nobody
  BY DEF GuestAnswers, Phases, ResultPhase, CallPhase
<1>3. /\ host'.at = "reading" /\ host'.call = host.call
      /\ host'.read = host.read /\ host'.result = host.result
      /\ guest'.at = "idle" /\ guest'.replies = << >>
  BY <1>2 DEF HostType, IdleGuest
<1>4. ptrs'["result"] = p /\ \A v \in PtrVars \ {"result"} : ptrs'[v] = ptrs[v]
  BY <1>1 DEF PtrType, PtrVars
<1>5. p \in Ptr /\ p \notin DOMAIN heap
  BY <1>1 DEF Unused
<1>6. /\ DOMAIN heap' = DOMAIN heap \cup {p} /\ heap'[p] = c
      /\ \A q \in DOMAIN heap : heap'[q] = heap[q]
  BY <1>1, <1>5 DEF Stored
<1>7. c \in Content /\ Empty \in Content
  BY Tags DEF Empty, What, PtrVars, HostType
<1>8. PtrType' /\ HostType' /\ GuestType'
  <2>1. PtrType' /\ HostType'
    BY <1>1, <1>2, <1>5 DEF PtrType, HostType, HostAt
  <2>2. IdleGuest \in [at : GuestAt, copied : [Args -> Content], replies : Seq(Content)]
    BY <1>7 DEF GuestAt, IdleGuest
  <2> QED
    BY <1>2, <2>1, <2>2 DEF GuestType
<1>9. HeapType'
  BY <1>6, <1>7 DEF HeapType
<1>10. Phases'
  <2>1. ArgPhase'
    BY <1>2, <1>3, <1>4 DEF Phases, ArgPhase, Unwritten, PtrVars, Args
  <2>2. ResultPhase' /\ CallPhase'
    BY <1>2, <1>3, <1>4, <1>5 DEF ResultPhase, CallPhase, PtrVars
  <2>3. CountPhase'
    BY <1>3 DEF CountPhase, Args
  <2> QED
    BY <1>3, <2>1, <2>2, <2>3 DEF Phases
<1>11. Contents'
  BY <1>2, <1>3, <1>4, <1>5, <1>6 DEF Contents, Ownership, PtrVars, Args
<1>12. Ownership'
  BY <1>2, <1>4, <1>5, <1>6 DEF Ownership, PtrVars, Args
<1>13. RightBytes'
  BY <1>3 DEF RightBytes
<1> QED
  BY <1>8, <1>9, <1>10, <1>11, <1>12, <1>13

LEMMA HostReadsInv == IInv /\ HostReads => IInv'
<1> SUFFICES ASSUME IInv, HostReads PROVE IInv'
  OBVIOUS
<1> USE AbiAssumption DEF IInv, Types
<1>1. /\ host.at = "reading" /\ guest.at = "idle" /\ heap' = heap /\ ptrs' = ptrs /\ guest' = guest
      /\ host' = [host EXCEPT !.at = "freeing", !.result = Load(ptrs["result"])]
      /\ ptrs["result"] \in Ptr
  BY DEF HostReads, Phases, ResultPhase
<1>2. Load(ptrs["result"]) = Tagged("result", host.call, 0)
  BY <1>1 DEF Load, Contents, Ownership, PtrVars
<1>3. Load(ptrs["result"]) \in Content
  BY <1>2, Tags DEF What, PtrVars, HostType
<1>4. /\ host'.at = "freeing" /\ host'.call = host.call /\ host'.read = host.read
      /\ host'.result = Load(ptrs["result"])
  BY <1>1 DEF HostType
<1>5. PtrType' /\ HeapType' /\ GuestType' /\ HostType'
  BY <1>1, <1>3 DEF PtrType, HeapType, GuestType, HostType, HostAt
<1>6. Phases'
  BY <1>1, <1>4 DEF Phases, ArgPhase, Unwritten, ResultPhase, CallPhase, CountPhase, Args
<1>7. Contents'
  BY <1>1, <1>4 DEF Contents
<1>8. Ownership'
  BY <1>1 DEF Ownership
<1>9. RightBytes'
  BY <1>1, <1>2, <1>4 DEF RightBytes
<1> QED
  BY <1>5, <1>6, <1>7, <1>8, <1>9

LEMMA HostFreesInv == IInv /\ HostFrees => IInv'
<1> SUFFICES ASSUME IInv, HostFrees PROVE IInv'
  OBVIOUS
<1> USE AbiAssumption DEF IInv, Types
<1>1. /\ host.at = "freeing" /\ guest.at = "idle" /\ guest' = guest
      /\ ptrs["req"] = Nobody /\ ptrs["out"] = Nobody
      /\ host' = IdleHost(host.call + 1) /\ ptrs' = Unset(Args \cup {"result"})
  BY DEF HostFrees, Phases, CallPhase
<1>2. /\ host'.at = "op" /\ host'.call = host.call + 1
      /\ host'.read = << >> /\ host'.result = Empty
  BY <1>1 DEF IdleHost
<1>3. \A v \in PtrVars : ptrs'[v] = Nobody
  BY <1>1 DEF Unset, PtrVars, Args
<1>4. DOMAIN heap' = {}
  BY <1>1 DEF HostFrees, Freed, Ownership, PtrVars
<1>5. PtrType'
  BY <1>1, <1>3 DEF PtrType, Unset
<1>6. HostType'
  <2>1. Empty \in Content
    BY Tags DEF Empty, What
  <2> QED
    BY <1>1, <2>1 DEF HostType, HostAt, IdleHost
<1>7. GuestType' /\ HeapType'
  BY <1>1, <1>4 DEF GuestType, HeapType
<1>8. Phases'
  BY <1>1, <1>2, <1>3 DEF Phases, ArgPhase, Unwritten, ResultPhase, CallPhase, CountPhase, PtrVars, Args
<1>9. Contents'
  BY <1>1, <1>3 DEF Contents, PtrVars
<1>10. Ownership'
  BY <1>3, <1>4 DEF Ownership
<1>11. RightBytes'
  BY <1>1, <1>2 DEF RightBytes, Phases, CountPhase
<1> QED
  BY <1>5, <1>6, <1>7, <1>8, <1>9, <1>10, <1>11

LEMMA NextInv == IInv /\ [Next]_vars => IInv'
<1> SUFFICES ASSUME IInv, [Next]_vars PROVE IInv'
  OBVIOUS
<1>1. CASE UNCHANGED vars
  BY <1>1 DEF vars, IInv, Types, PtrType, HostType, GuestType, HeapType, Phases, ArgPhase,
              Unwritten, ResultPhase, CallPhase, CountPhase, Contents, HostCallNo, Ownership,
              RightBytes
<1> QED
  BY <1>1, HostWritesInv, HostGivesUpInv, HostCallsInv, HostServesInv, HostReadsInv,
     HostFreesInv, GuestReadsInv, HostCallStartsInv, HostCallReturnsInv, GuestAnswersInv
  DEF Next

THEOREM Invariance == Spec => []IInv
BY InitInv, NextInv, PTL DEF Spec

-----------------------------------------------------------------------------

\* Every live buffer has exactly one holder, host or guest, on every path through
\* Call and hostCall: nothing leaks from call to call and nothing is freed twice.
THEOREM BuffersOwned == Spec => []Ownership
<1>1. IInv => Ownership
  BY DEF IInv
<1> QED
  BY <1>1, Invariance, PTL

\* What handler and host read is what the other side wrote for this very call.
THEOREM BytesAreRight == Spec => []RightBytes
<1>1. IInv => RightBytes
  BY DEF IInv
<1> QED
  BY <1>1, Invariance, PTL

=============================================================================
