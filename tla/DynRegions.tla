----------------------------- MODULE DynRegions -----------------------------
(***************************************************************************)
(* nap->dynamic_regions (nacl_text.c): the sorted array in which the       *)
(* runtime keeps the ranges of dynamic code, with the binary search, the   *)
(* insertion, the removal and the resizing that maintain it.  Everything   *)
(* happens under nap->dynamic_load_mutex, so one call is in progress at a  *)
(* time; its loops are steps, so that their bounds can be checked.         *)
(***************************************************************************)
EXTENDS Integers

CONSTANTS
  Bundle,         \* nap->bundle_size
  TextStart,      \* nap->dynamic_text_start
  TextEnd,        \* nap->dynamic_text_end - NACL_HALT_SLED_SIZE
  Address, Size,  \* what the program passes
  Cutoff,         \* kBinarySearchToScanCutoff
  MinAllocated,   \* kMinDynamicRegionsAllocated
  Idle            \* no call in progress

Call == [op : {"create", "delete", "modify"}, start : Address, size : Size]

ASSUME DynRegionsAssumption ==
  /\ Address \subseteq Nat
  /\ Size \subseteq Nat
  /\ Bundle \in Nat \ {0} /\ TextStart \in Nat /\ TextEnd \in Nat
  /\ TextStart % Bundle = 0
  /\ Cutoff \in Nat
  /\ MinAllocated \in Nat \ {0}
  /\ Idle \notin Call

VARIABLES
  num,        \* nap->num_dynamic_regions
  regions,    \* nap->dynamic_regions[0 .. num - 1]
  allocated,  \* nap->dynamic_regions_allocated
  pc,
  call,       \* the call in progress
  begin, end, \* of the searches; begin is also regionp of the insertion
  found,      \* what NaClDynamicRegionFindClosestLEQ returned, -1 for NULL
  wrote,      \* the range the last modification rewrites
  ret         \* the table's verdict on the last call

array == <<num, regions, allocated>>
vars == <<array, pc, call, begin, end, found, wrote, ret>>

Range == [start : Nat, size : Nat]
Nothing == [start |-> 0, size |-> 0]

TypeOK ==
  /\ num \in Nat
  /\ regions \in [0 .. num - 1 -> Range]
  /\ allocated \in Nat
  /\ pc \in {"idle", "find", "search", "decide", "scroll"}
  /\ call \in Call \cup {Idle}
  /\ begin \in Nat
  /\ end \in Nat
  /\ found \in Nat \cup {-1}
  /\ wrote \in Range
  /\ ret \in {"none", "ok", "EINVAL", "EFAULT", "EAGAIN"}

Init ==
  /\ num = 0
  /\ regions = [i \in {} |-> Nothing]
  /\ allocated = 0
  /\ pc = "idle"
  /\ call = Idle
  /\ begin = 0 /\ end = 0 /\ found = -1
  /\ wrote = Nothing
  /\ ret = "none"

-----------------------------------------------------------------------------
(* Arguments that reach the table.  The others are refused, or accepted     *)
(* without effect (size 0), before anything is looked up.                   *)

CreateArgs(c) ==
  /\ c.start % Bundle = 0 /\ c.size % Bundle = 0
  /\ TextStart <= c.start /\ c.start + c.size <= TextEnd

\* Mutant: the buffer is enlarged one insertion too late.
InvokeGrowsLate(c) ==
  /\ pc = "idle"
  /\ c.size # 0
  /\ c.op = "create" => CreateArgs(c)
  /\ allocated' = IF c.op # "create" \/ allocated >= num THEN allocated
                  ELSE IF allocated * 2 < MinAllocated THEN MinAllocated
                  ELSE allocated * 2
  /\ call' = c
  /\ wrote' = Nothing
  /\ ret' = "none"
  /\ pc' = "find"
  /\ UNCHANGED <<num, regions, begin, end, found>>

Invoke(c) ==
  /\ pc = "idle"
  /\ c.size # 0
  /\ c.op = "create" => CreateArgs(c)
  /\ allocated' = IF c.op # "create" \/ allocated # num THEN allocated
                  ELSE IF allocated * 2 < MinAllocated THEN MinAllocated
                  ELSE allocated * 2
  /\ call' = c
  /\ wrote' = Nothing
  /\ ret' = "none"
  /\ pc' = "find"
  /\ UNCHANGED <<num, regions, begin, end, found>>

Return(r) ==
  /\ pc' = "idle"
  /\ call' = Idle
  /\ ret' = r
  /\ begin' = 0 /\ end' = 0 /\ found' = -1

-----------------------------------------------------------------------------
(* NaClDynamicRegionFindClosestLEQ(nap, start + size - 1). *)

\* Mutant: the search looks for the first byte of the range.
PtrFirst == call.start

Ptr == call.start + call.size - 1

Decide(i) ==
  /\ pc' = "decide"
  /\ found' = i
  /\ UNCHANGED <<array, call, wrote, ret>>

\* No region, the last region, or a pointer that comes before everything.
FindAtEnds ==
  /\ pc = "find"
  /\ \/ num = 0 /\ Decide(-1)
     \/ num # 0 /\ regions[num - 1].start <= Ptr /\ Decide(num - 1)
     \/ /\ num # 0 /\ regions[num - 1].start > Ptr
        /\ Ptr < regions[0].start /\ Decide(-1)
  /\ UNCHANGED <<begin, end>>

FindBetween ==
  /\ pc = "find"
  /\ num # 0 /\ regions[num - 1].start > Ptr /\ regions[0].start <= Ptr
  /\ begin' = 0
  /\ end' = num
  /\ pc' = "search"
  /\ UNCHANGED <<array, call, found, wrote, ret>>

Bisect ==
  /\ pc = "search"
  /\ begin + Cutoff + 1 < end
  /\ LET mid == begin + (end - begin) \div 2
     IN IF regions[mid].start <= Ptr THEN begin' = mid /\ UNCHANGED end
                                     ELSE end' = mid /\ UNCHANGED begin
  /\ UNCHANGED <<array, pc, call, found, wrote, ret>>

\* Mutant: the scan does not move on.
LinearScanStays ==
  /\ pc = "search"
  /\ end <= begin + Cutoff + 1
  /\ IF begin + 1 < end /\ regions[begin + 1].start <= Ptr
     THEN UNCHANGED <<array, pc, call, begin, found, wrote, ret>>
     ELSE Decide(begin) /\ UNCHANGED begin
  /\ UNCHANGED end

LinearScan ==
  /\ pc = "search"
  /\ end <= begin + Cutoff + 1
  /\ IF begin + 1 < end /\ regions[begin + 1].start <= Ptr
     THEN begin' = begin + 1 /\ UNCHANGED <<array, pc, call, found, wrote, ret>>
     ELSE Decide(begin) /\ UNCHANGED begin
  /\ UNCHANGED end

-----------------------------------------------------------------------------
(* The callers. *)

\* NaClDynamicRegionFind's test of the region found.
Hit == found # -1 /\ call.start < regions[found].start + regions[found].size

\* NaClDynamicRegionCreate ...
CreateUsed ==
  /\ pc = "decide" /\ call.op = "create"
  /\ Hit
  /\ Return("EINVAL")
  /\ UNCHANGED <<array, wrote>>

CreateFree ==
  /\ pc = "decide" /\ call.op = "create"
  /\ ~Hit
  /\ begin' = IF found = -1 THEN 0 ELSE found
  /\ pc' = "scroll"
  /\ UNCHANGED <<array, call, end, found, wrote, ret>>

\* ... scrolls to the insertion point ...
Scroll ==
  /\ pc = "scroll"
  /\ begin # num /\ regions[begin].start < call.start
  /\ begin' = begin + 1
  /\ UNCHANGED <<array, pc, call, end, found, wrote, ret>>

\* ... and inserts, shifting everything forward by 1.
CreateInsert ==
  /\ pc = "scroll"
  /\ begin # num => regions[begin].start >= call.start
  /\ regions' = [i \in 0 .. num |->
                   IF i < begin THEN regions[i]
                   ELSE IF i = begin
                        THEN [start |-> call.start, size |-> call.size]
                        ELSE regions[i - 1]]
  /\ num' = num + 1
  /\ Return("ok")
  /\ UNCHANGED <<allocated, wrote>>

\* Mutant: the size of the region to delete is not compared.
ExactStart == Hit /\ regions[found].start = call.start

\* NaClTextSysDyncode_Delete wants exactly a region inserted before.
Exact == Hit /\ regions[found].start = call.start
             /\ regions[found].size = call.size

DeleteMiss ==
  /\ pc = "decide" /\ call.op = "delete"
  /\ ~Exact
  /\ Return("EFAULT")
  /\ UNCHANGED <<array, wrote>>

\* Some thread has not checked in yet (module DynCode).
DeletePending ==
  /\ pc = "decide" /\ call.op = "delete"
  /\ Exact
  /\ Return("EAGAIN")
  /\ UNCHANGED <<array, wrote>>

\* NaClDynamicRegionDelete: shift everything down, shrink the buffer.
DeleteRemove ==
  /\ pc = "decide" /\ call.op = "delete"
  /\ Exact
  /\ regions' = [i \in 0 .. num - 2 |->
                   IF i < found THEN regions[i] ELSE regions[i + 1]]
  /\ num' = num - 1
  /\ allocated' = IF allocated > MinAllocated /\ allocated \div 4 > num - 1
                  THEN allocated \div 2 ELSE allocated
  /\ Return("ok")
  /\ UNCHANGED wrote

\* NaClTextSysDyncode_Modify wants part of one region ...
Inside == Hit /\ regions[found].start <= call.start
              /\ regions[found].start + regions[found].size
                   >= call.start + call.size

ModifyMiss ==
  /\ pc = "decide" /\ call.op = "modify"
  /\ ~Inside
  /\ Return("EFAULT")
  /\ UNCHANGED <<array, wrote>>

\* ... and rewrites the whole bundles around it.
BundleDown(a) == a - (a % Bundle)

\* Mutant: the last bundle is the one after the range.
ModifyWriteLong ==
  /\ pc = "decide" /\ call.op = "modify"
  /\ Inside
  /\ LET beginbundle == BundleDown(call.start)
         endbundle == BundleDown(call.start + call.size + Bundle)
     IN wrote' = [start |-> beginbundle, size |-> endbundle - beginbundle]
  /\ Return("ok")
  /\ UNCHANGED array

ModifyWrite ==
  /\ pc = "decide" /\ call.op = "modify"
  /\ Inside
  /\ LET beginbundle == BundleDown(call.start)
         endbundle == BundleDown(call.start + call.size - 1 + Bundle)
     IN wrote' = [start |-> beginbundle, size |-> endbundle - beginbundle]
  /\ Return("ok")
  /\ UNCHANGED array

-----------------------------------------------------------------------------
Step ==
  \/ FindAtEnds \/ FindBetween \/ Bisect \/ LinearScan
  \/ CreateUsed \/ CreateFree \/ Scroll \/ CreateInsert
  \/ DeleteMiss \/ DeletePending \/ DeleteRemove
  \/ ModifyMiss \/ ModifyWrite

Next == (\E c \in Call : Invoke(c)) \/ Step

Spec == Init /\ [][Next]_vars

-----------------------------------------------------------------------------
(* Correctness. *)

\* "Maintaining the sorted ordering": the regions are sorted and disjoint, also
\* between the steps of an insertion.
SortedDisjoint ==
  \A i, j \in 0 .. num - 1 : i < j =>
    regions[i].start + regions[i].size <= regions[j].start

\* "Find the maximal region with start<=ptr".
ClosestLEQ(i) ==
  /\ i \in -1 .. num - 1
  /\ i # -1 => regions[i].start <= Ptr
  /\ \A j \in 0 .. num - 1 : j > i => regions[j].start > Ptr

\* The search stays inside the array and ends at the region the comment of
\* NaClDynamicRegionFindClosestLEQ promises, whichever way it took.
SearchRight ==
  /\ pc = "search" =>
       /\ begin < end /\ end <= num
       /\ regions[begin].start <= Ptr
       /\ \A j \in 0 .. num - 1 : j >= end => regions[j].start > Ptr
  /\ pc \in {"decide", "scroll"} => ClosestLEQ(found)

\* "This should scroll at most 1 element", and it never leaves the array.
ScrollAtMostOne ==
  pc = "scroll" =>
    /\ begin <= num
    /\ IF found = -1 THEN begin = 0 ELSE begin \in found .. found + 1

\* The array is never written behind its buffer, although the buffer shrinks.
BufferFits ==
  /\ num <= allocated
  /\ pc # "idle" /\ call.op = "create" => num < allocated

\* Widened to whole bundles, a modification still writes inside one region.
ModifyInRegion ==
  wrote # Nothing =>
    \E i \in 0 .. num - 1 :
      /\ regions[i].start <= wrote.start
      /\ wrote.start + wrote.size <= regions[i].start + regions[i].size

\* Regions are not empty, and a call holds the mutex exactly while it runs.
CallState ==
  /\ \A i \in 0 .. num - 1 : regions[i].size > 0
  /\ pc = "idle" <=> call = Idle
  /\ call # Idle => call.size > 0
  /\ pc = "scroll" => call.op = "create" /\ ~Hit

\* The inductive invariant.
IInv ==
  TypeOK /\ SortedDisjoint /\ SearchRight /\ ScrollAtMostOne /\ BufferFits /\ CallState

\* The array implements a set of disjoint ranges.
Set == INSTANCE RegionSet WITH
         used <- {regions[i] : i \in 0 .. num - 1}
SetSpec == Set!Spec
=============================================================================
