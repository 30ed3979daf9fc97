------------------------------ MODULE RegionSet ------------------------------
(***************************************************************************)
(* What the table of dynamic regions promises the dyncode system calls: a  *)
(* set of disjoint ranges.  A range is inserted exactly if it overlaps     *)
(* none of them, removed only as a whole, and modified only inside one.    *)
(***************************************************************************)
EXTENDS Integers

CONSTANTS Call, Idle   \* the calls, and "no call in progress"

VARIABLES used, call, ret

Overlap(a, b) == a.start < b.start + b.size /\ b.start < a.start + a.size

Within(a, b) == b.start <= a.start /\ a.start + a.size <= b.start + b.size

Range(c) == [start |-> c.start, size |-> c.size]

Init == used = {} /\ call = Idle /\ ret = "none"

Invoke ==
  /\ call = Idle
  /\ call' \in Call
  /\ ret' = "none"
  /\ UNCHANGED used

Return(r) == call # Idle /\ call' = Idle /\ ret' = r

Create ==
  /\ call # Idle /\ call.op = "create"
  /\ IF \E u \in used : Overlap(u, call)
     THEN Return("EINVAL") /\ UNCHANGED used
     ELSE Return("ok") /\ used' = used \cup {Range(call)}

Delete ==
  /\ call # Idle /\ call.op = "delete"
  /\ \/ Range(call) \notin used /\ Return("EFAULT") /\ UNCHANGED used
     \/ Range(call) \in used /\ Return("EAGAIN") /\ UNCHANGED used
     \/ Range(call) \in used /\ Return("ok") /\ used' = used \ {Range(call)}

Modify ==
  /\ call # Idle /\ call.op = "modify"
  /\ Return(IF \E u \in used : Within(call, u) THEN "ok" ELSE "EFAULT")
  /\ UNCHANGED used

Next == Invoke \/ Create \/ Delete \/ Modify

Spec == Init /\ [][Next]_<<used, call, ret>>
=============================================================================
