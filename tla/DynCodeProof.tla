---------------------------- MODULE DynCodeProof ----------------------------
(***************************************************************************)
(* Proofs about DynCode: dynamic code stays in place under the threads     *)
(* that execute it, for any number of threads, regions and generations.    *)
(***************************************************************************)
EXTENDS DynCode, TLAPS

\* What counting the occupied slots shows: num_threads is not 0 when a thread is in
\* the table, it fits the table, and if the first num_threads slots are all occupied
\* they are the only ones.
CountRight ==
  /\ numThreads \in 0 .. MaxSlots
  /\ numThreads = 0 => \A s \in Slot : table[s] = None
  /\ (\A k \in Slot : k < numThreads => table[k] # None) =>
       \A s \in Slot : table[s] # None => s < numThreads

\* A step only makes values of the types TypeOK gives the variables.
LEMMA TypeStep ==
  ASSUME TypeOK, CountRight, LocksHeld, [Next]_vars
  PROVE  TypeOK'
<1> USE DynCodeAssumption DEF TypeOK, Locations
<1>1. ASSUME NEW t \in Thread, NEW c \in Thread, Create(t, c) PROVE TypeOK'
  BY <1>1, Zenon DEF Create, LeaveText, tableVars, textVars, scanVars
<1>2. ASSUME NEW t \in Thread, Launch(t) PROVE TypeOK'
  BY <1>2 DEF Launch, textVars, scanVars
<1>3. ASSUME NEW t \in Thread, Exit(t) PROVE TypeOK'
  <2>1. numThreads # 0
    BY <1>3, Zenon DEF CountRight, Exit
  <2> QED
    BY <1>3, <2>1 DEF Exit, LeaveText, textVars, scanVars
<1>4. ASSUME NEW t \in Thread, NEW r \in Region, Enter(t, r) PROVE TypeOK'
  BY <1>4, Zenon DEF Enter, tableVars, textVars, scanVars
<1>5. ASSUME NEW t \in Thread, Leave(t) PROVE TypeOK'
  BY <1>5, Zenon DEF Leave, LeaveText, tableVars, textVars, scanVars
<1>6. ASSUME NEW t \in Thread, NEW r \in Region, CreateRejected(t, r) PROVE TypeOK'
  BY <1>6, Zenon DEF CreateRejected, InsertRegion, LeaveText, tableVars, NotRequested
<1>7. ASSUME NEW t \in Thread, NEW r \in Region, CreateAccepted(t, r) PROVE TypeOK'
  BY <1>7, Zenon DEF CreateAccepted, InsertRegion, LeaveText, tableVars, NotRequested
<1>8. ASSUME NEW t \in Thread, CopyBundleTails(t) PROVE TypeOK'
  BY <1>8, Zenon DEF CopyBundleTails, tableVars, textVars, scanVars
<1>9. ASSUME NEW t \in Thread, CopyBundleHeads(t) PROVE TypeOK'
  BY <1>9, Zenon DEF CopyBundleHeads, tableVars
<1>10. ASSUME NEW t \in Thread, NEW r \in Region, Modify(t, r) PROVE TypeOK'
  <2>1. headsOpen' \in [Region -> BOOLEAN]
    BY <1>10, Zenon DEF Modify
  <2>2. reopened' = reopened \/ reopened' = reopened \cup {r}
    BY <1>10, Zenon DEF Modify
  <2>3. reopened' \subseteq Region
    BY <2>2, Zenon
  <2> QED
    BY <1>10, <2>1, <2>3, Zenon DEF Modify, LeaveText, tableVars, scanVars
<1>11. ASSUME NEW t \in Thread, CheckInFetch(t) PROVE TypeOK'
  BY <1>11 DEF CheckInFetch, LeaveText, tableVars, textVars, scanVars
<1>12. ASSUME NEW t \in Thread, CheckInSet(t) PROVE TypeOK'
  BY <1>12, Zenon DEF CheckInSet, history, tableVars, textVars, scanVars
<1>13. ASSUME NEW t \in Thread, NEW r \in Region, DeleteRequest(t, r) PROVE TypeOK'
  BY <1>13 DEF DeleteRequest, DeleteLock, LeaveText, tableVars
<1>14. ASSUME NEW t \in Thread, NEW r \in Region, DeleteRetry(t, r) PROVE TypeOK'
  BY <1>14 DEF DeleteRetry, DeleteLock, LeaveText, tableVars
<1>15. ASSUME NEW t \in Thread, MinLock(t) PROVE TypeOK'
  BY <1>15, Zenon DEF MinLock, history, tableVars, textVars
<1>16. ASSUME NEW t \in Thread, MinStep(t) PROVE TypeOK'
  <2>1. scanIx \in Slot
    BY <1>16 DEF CountRight, MinStep, Slot
  <2>2. gen[table[scanIx]] \in Nat
    BY <1>16, <2>1, Zenon DEF MinStep
  <2> QED
    BY <1>16, <2>2 DEF MinStep, history, threadVars, tableVars, textVars
<1>17. ASSUME NEW t \in Thread, MinCrash(t) PROVE TypeOK'
  BY <1>17, Zenon DEF MinCrash, history, threadVars, tableVars, textVars, scanVars
<1>18. ASSUME NEW t \in Thread, DeleteFinish(t) PROVE TypeOK'
  BY <1>18, Zenon DEF DeleteFinish, tableVars
<1>19. ASSUME NEW t \in Thread, MinUnlock(t) PROVE TypeOK'
  BY <1>19 DEF MinUnlock, tableVars, textVars, history
<1>20. ASSUME UNCHANGED vars PROVE TypeOK'
  BY <1>20, Zenon DEF vars, threadVars, tableVars, textVars, scanVars, history
<1> QED
  BY Zenon, <1>1, <1>2, <1>3, <1>4, <1>5, <1>6, <1>7, <1>8, <1>9, <1>10, <1>11, <1>12,
     <1>13, <1>14, <1>15, <1>16, <1>17, <1>18, <1>19, <1>20
  DEF Next, RuntimeStep, ProgramStep, Stopped

\* A thread holds a lock exactly at the locations between taking and releasing it.
LEMMA LocksStep ==
  ASSUME TypeOK, LocksHeld, [Next]_vars
  PROVE  LocksHeld'
  BY DynCodeAssumption DEF TypeOK, LocksHeld, Create, LeaveText, tableVars, textVars,
      scanVars, Launch, Exit, Enter, Leave, CreateRejected, InsertRegion,
      CreateAccepted, CopyBundleTails, CopyBundleHeads, Modify, CheckInFetch,
      CheckInSet, DeleteRequest, DeleteLock, DeleteRetry, MinLock, MinStep, threadVars,
      MinCrash, MinUnlock, DeleteFinish, vars, history, Next, RuntimeStep, ProgramStep, Stopped

\* Generations only grow, and a fetched one is not overtaken by the thread's own.
LEMMA GenerationsStep ==
  ASSUME TypeOK, LocksHeld, GenerationsOrdered, [Next]_vars
  PROVE  GenerationsOrdered'
  BY DynCodeAssumption DEF TypeOK, GenerationsOrdered, Absent, NotRequested, Create,
      LeaveText, tableVars, textVars, scanVars, Launch, Exit, Enter, Leave,
      CreateRejected, InsertRegion, CreateAccepted, CopyBundleTails, CopyBundleHeads,
      Modify, CheckInFetch, CheckInSet, DeleteRequest, DeleteLock, DeleteRetry, MinLock,
      MinStep, threadVars, MinCrash, MinUnlock, DeleteFinish, vars, history, Next, RuntimeStep, ProgramStep,
      Stopped

\* A scan that reached num_threads has met every thread of the table, holes or no
\* holes: it would have stopped at a hole below num_threads.
LEMMA ScanComplete ==
  ASSUME TypeOK, TableConsistent, CountRight, ScanSound,
         NEW t \in Thread, pc[t] = "scan", scanIx >= numThreads
  PROVE  \A u \in Thread : InTable(u) => scanMin <= gen[u]
<1>1. \A k \in Slot : k < numThreads => table[k] # None /\ scanMin <= gen[table[k]]
  BY DynCodeAssumption DEF TypeOK, ScanSound, Slot
<1>2. \A s \in Slot : table[s] # None => s < numThreads
  BY <1>1, Zenon DEF CountRight
<1> QED
  BY <1>1, <1>2, DynCodeAssumption DEF TableConsistent

\* While a thread scans, the threads in the slots it passed stay, and none falls
\* behind the minimum found; after the scan, only threads that start late can be
\* behind it, and they cannot enter the region.
LEMMA ScanStep ==
  ASSUME TypeOK, TableConsistent, CountRight, LocksHeld, GenerationsOrdered,
         OpenRegions, InsideBehind, ScanSound, [Next]_vars
  PROVE  ScanSound'
<1> USE DynCodeAssumption DEF TypeOK, LocksHeld, ScanSound
<1>1. ASSUME NEW t \in Thread, NEW c \in Thread, Create(t, c) PROVE ScanSound'
    BY <1>1 DEF Create, TableConsistent, InTable, LeaveText, tableVars, textVars,
        scanVars
<1>2. ASSUME NEW t \in Thread, Launch(t) PROVE ScanSound'
  <2>1. \A u \in Thread : pc'[u] # "scan"
    BY <1>2 DEF Launch
  <2>2. CASE \A u \in Thread : pc[u] # "compare"
    <3>1. late' = {}
      BY <1>2, <2>2, Zenon DEF Launch
    <3>2. \A u \in Thread : pc'[u] # "compare"
      BY <1>2, <2>2, Zenon DEF Launch
    <3> QED
      BY <2>1, <3>1, <3>2, Zenon
  <2>3. CASE \E u \in Thread : pc[u] = "compare"
    <3>1. PICK u \in Thread : pc[u] = "compare"
      BY <2>3, Zenon
    <3>2. late' = late \cup {t} /\ pc'[u] = "compare"
      BY <1>2, <3>1, Zenon DEF Launch
    <3>3. inside[t] # opRegion
      BY <1>2, <3>1 DEF Launch, InsideBehind
    <3>4. \A v \in Thread \ late' : InTable(v)' => scanMin <= gen[v]
      BY <1>2, <3>1, <3>2, Zenon DEF Launch, InTable
    <3>5. \A v \in late' \ strays : inside[v] # opRegion
      BY <3>1, <3>2, <3>3, Zenon
    <3> QED
      BY <1>2, <2>1, <3>2, <3>4, <3>5, Zenon DEF Launch, scanVars
  <2> QED
    BY <2>2, <2>3, Zenon
<1>3. ASSUME NEW t \in Thread, Exit(t) PROVE ScanSound'
  BY <1>3 DEF Exit, LeaveText, textVars, scanVars, InTable
<1>4. ASSUME NEW t \in Thread, NEW r \in Region, Enter(t, r) PROVE ScanSound'
  <2>1. ASSUME NEW u \in Thread, pc[u] = "compare", r \notin reopened
        PROVE  r # opRegion
    BY <1>4, <2>1 DEF Enter, OpenRegions, NotRequested
  <2>2. ASSUME NEW u \in Thread, pc[u] = "compare", NEW v \in late' \ strays'
        PROVE  inside'[v] # opRegion
    BY <1>4, <2>1, <2>2, Zenon DEF Enter
  <2> QED
    BY <1>4, <2>2, Zenon DEF Enter, tableVars, scanVars, InTable
<1>5. ASSUME NEW t \in Thread, Leave(t) PROVE ScanSound'
  BY <1>5, Zenon DEF Leave, LeaveText, tableVars, textVars, scanVars, InTable
<1>6. ASSUME NEW t \in Thread, NEW r \in Region, CreateRejected(t, r) PROVE ScanSound'
  BY <1>6, Zenon DEF CreateRejected, InsertRegion, LeaveText, tableVars, InTable
<1>7. ASSUME NEW t \in Thread, NEW r \in Region, CreateAccepted(t, r) PROVE ScanSound'
  BY <1>7 DEF CreateAccepted, InsertRegion, LeaveText, tableVars, InTable
<1>8. ASSUME NEW t \in Thread, CopyBundleTails(t) PROVE ScanSound'
  BY <1>8 DEF CopyBundleTails, tableVars, textVars, scanVars, InTable
<1>9. ASSUME NEW t \in Thread, CopyBundleHeads(t) PROVE ScanSound'
  BY <1>9 DEF CopyBundleHeads, tableVars, InTable
<1>10. ASSUME NEW t \in Thread, NEW r \in Region, Modify(t, r) PROVE ScanSound'
  BY <1>10, Zenon DEF Modify, LeaveText, tableVars, scanVars, InTable
<1>11. ASSUME NEW t \in Thread, CheckInFetch(t) PROVE ScanSound'
  BY <1>11 DEF CheckInFetch, LeaveText, tableVars, textVars, scanVars, InTable
<1>12. ASSUME NEW t \in Thread, CheckInSet(t) PROVE ScanSound'
  <2>1. \A u \in Thread : gen[u] <= gen'[u] /\ gen[u] \in Nat /\ gen'[u] \in Nat
    BY <1>12 DEF CheckInSet, GenerationsOrdered
  <2>2. \A u \in Thread : scanMin <= gen[u] => scanMin <= gen'[u]
    BY <2>1
  <2>3. \A u \in Thread : /\ pc'[u] = "scan" <=> pc[u] = "scan"
                          /\ pc'[u] = "compare" <=> pc[u] = "compare"
                          /\ InTable(u)' <=> InTable(u)
    BY <1>12, Zenon DEF CheckInSet, InTable
  <2> QED
    BY <1>12, <2>2, <2>3, ZenonT(40) DEF CheckInSet, history, tableVars, scanVars
<1>13. ASSUME NEW t \in Thread, NEW r \in Region, DeleteRequest(t, r) PROVE ScanSound'
  BY <1>13 DEF DeleteRequest, DeleteLock, LeaveText, tableVars, InTable
<1>14. ASSUME NEW t \in Thread, NEW r \in Region, DeleteRetry(t, r) PROVE ScanSound'
  BY <1>14 DEF DeleteRetry, DeleteLock, LeaveText, tableVars, InTable
<1>15. ASSUME NEW t \in Thread, MinLock(t) PROVE ScanSound'
    BY <1>15 DEF Slot, MinLock, tableVars, history
<1>16. ASSUME NEW t \in Thread, MinStep(t) PROVE ScanSound'
  <2>0. numThreads \in 0 .. MaxSlots
    BY Zenon DEF CountRight
  <2>1. scanIx \in Slot
    BY <1>16, <2>0 DEF MinStep, history, Slot
  <2>2. gen[table[scanIx]] \in Nat /\ scanMin' <= gen[table[scanIx]]
    BY <1>16, <2>1 DEF MinStep
  <2>3. scanIx # 0 => scanMin' <= scanMin
    BY <1>16, <2>2 DEF MinStep
  <2>4. scanMin' \in Nat
    BY <1>16, <2>2, Zenon DEF MinStep
  <2>5. ASSUME NEW k \in Slot, k < scanIx'
        PROVE  table[k] # None /\ scanMin' <= gen[table[k]]
    <3>1. CASE k = scanIx
      BY <1>16, <2>2, <3>1, Zenon DEF MinStep
    <3>2. CASE k # scanIx
      <4>1. k < scanIx /\ scanIx # 0
        BY <1>16, <2>5, <3>2 DEF MinStep, history, Slot
      <4>2. table[k] # None /\ scanMin <= gen[table[k]] /\ gen[table[k]] \in Nat
        BY <1>16, <4>1, Zenon DEF MinStep
      <4> QED
        BY <2>3, <2>4, <4>1, <4>2
    <3> QED
      BY <3>1, <3>2, Zenon
  <2>6. scanIx' <= numThreads
    BY <1>16 DEF MinStep
  <2> QED
    BY <1>16, <2>5, <2>6, Zenon DEF MinStep, history, threadVars, tableVars
<1>17. ASSUME NEW t \in Thread, MinCrash(t) PROVE ScanSound'
  BY <1>17, Zenon DEF MinCrash, history, threadVars, tableVars, textVars, scanVars, InTable
<1>18. ASSUME NEW t \in Thread, DeleteFinish(t) PROVE ScanSound'
  BY <1>18 DEF DeleteFinish, tableVars, InTable
<1>19. ASSUME NEW t \in Thread, MinUnlock(t) PROVE ScanSound'
  <2>1. \A u \in Thread : InTable(u) => scanMin <= gen[u]
    BY <1>19, ScanComplete, Zenon DEF MinUnlock
  <2>2. late = {}
    BY <1>19 DEF MinUnlock
  <2> QED
    BY <1>19, <2>1, <2>2 DEF MinUnlock, tableVars, InTable, history
<1>20. ASSUME UNCHANGED vars PROVE ScanSound'
  BY <1>20, Zenon DEF vars, threadVars, tableVars, textVars, scanVars, history, InTable
<1> QED
  BY Zenon, <1>1, <1>2, <1>3, <1>4, <1>5, <1>6, <1>7, <1>8, <1>9, <1>10, <1>11, <1>12,
     <1>13, <1>14, <1>15, <1>16, <1>17, <1>18, <1>19, <1>20
  DEF Next, RuntimeStep, ProgramStep, Stopped

\* A region is opened by the call that created it and closed by the first request to
\* delete it; only a modification opens it again.
LEMMA OpenStep ==
  ASSUME TypeOK, LocksHeld, InsideAllocated, OpenRegions,
         [Next]_vars
  PROVE  OpenRegions'
<1> USE DynCodeAssumption DEF TypeOK, LocksHeld, OpenRegions, Absent, NotRequested
<1>1. ASSUME NEW t \in Thread, NEW c \in Thread, Create(t, c) PROVE OpenRegions'
  BY <1>1 DEF Create, LeaveText, tableVars, textVars, scanVars, InsideAllocated
<1>2. ASSUME NEW t \in Thread, Launch(t) PROVE OpenRegions'
  BY <1>2 DEF Launch, textVars, scanVars, InsideAllocated
<1>3. ASSUME NEW t \in Thread, Exit(t) PROVE OpenRegions'
  BY <1>3 DEF Exit, LeaveText, textVars, scanVars, InsideAllocated
<1>4. ASSUME NEW t \in Thread, NEW r \in Region, Enter(t, r) PROVE OpenRegions'
  BY <1>4 DEF Enter, tableVars, textVars, scanVars, InsideAllocated
<1>5. ASSUME NEW t \in Thread, Leave(t) PROVE OpenRegions'
  BY <1>5 DEF Leave, LeaveText, tableVars, textVars, scanVars, InsideAllocated
<1>6. ASSUME NEW t \in Thread, NEW r \in Region, CreateRejected(t, r) PROVE OpenRegions'
  BY <1>6 DEF CreateRejected, InsertRegion, LeaveText, tableVars,
         InsideAllocated
<1>7. ASSUME NEW t \in Thread, NEW r \in Region, CreateAccepted(t, r) PROVE OpenRegions'
  BY <1>7 DEF CreateAccepted, InsertRegion, LeaveText, tableVars,
         InsideAllocated
<1>8. ASSUME NEW t \in Thread, CopyBundleTails(t) PROVE OpenRegions'
  BY <1>8 DEF CopyBundleTails, tableVars, textVars, scanVars, InsideAllocated
<1>9. ASSUME NEW t \in Thread, CopyBundleHeads(t) PROVE OpenRegions'
  BY <1>9 DEF CopyBundleHeads, tableVars, InsideAllocated
<1>10. ASSUME NEW t \in Thread, NEW r \in Region, Modify(t, r) PROVE OpenRegions'
  BY <1>10 DEF Modify, LeaveText, tableVars, scanVars, InsideAllocated
<1>11. ASSUME NEW t \in Thread, CheckInFetch(t) PROVE OpenRegions'
  BY <1>11 DEF CheckInFetch, LeaveText, tableVars, textVars, scanVars,
         InsideAllocated
<1>12. ASSUME NEW t \in Thread, CheckInSet(t) PROVE OpenRegions'
  BY <1>12 DEF CheckInSet, history, tableVars, textVars, scanVars, InsideAllocated
<1>13. ASSUME NEW t \in Thread, NEW r \in Region, DeleteRequest(t, r) PROVE OpenRegions'
  BY <1>13 DEF DeleteRequest, DeleteLock, LeaveText, tableVars, InsideAllocated
<1>14. ASSUME NEW t \in Thread, NEW r \in Region, DeleteRetry(t, r) PROVE OpenRegions'
  BY <1>14 DEF DeleteRetry, DeleteLock, LeaveText, tableVars, InsideAllocated
<1>15. ASSUME NEW t \in Thread, MinLock(t) PROVE OpenRegions'
  BY <1>15 DEF MinLock, history, tableVars, textVars, InsideAllocated
<1>16. ASSUME NEW t \in Thread, MinStep(t) PROVE OpenRegions'
  BY <1>16, Zenon DEF MinStep, history, threadVars, tableVars, textVars, InsideAllocated
<1>17. ASSUME NEW t \in Thread, MinCrash(t) PROVE OpenRegions'
  BY <1>17, Zenon DEF MinCrash, history, threadVars, tableVars, textVars, scanVars,
         InsideAllocated
<1>18. ASSUME NEW t \in Thread, DeleteFinish(t) PROVE OpenRegions'
  BY <1>18 DEF DeleteFinish, tableVars, InsideAllocated
<1>19. ASSUME NEW t \in Thread, MinUnlock(t) PROVE OpenRegions'
  BY <1>19 DEF MinUnlock, tableVars, textVars, history
<1>20. ASSUME UNCHANGED vars PROVE OpenRegions'
  BY <1>20, Zenon DEF vars, threadVars, tableVars, textVars, scanVars, history, InsideAllocated
<1> QED
  BY Zenon, <1>1, <1>2, <1>3, <1>4, <1>5, <1>6, <1>7, <1>8, <1>9, <1>10, <1>11, <1>12,
     <1>13, <1>14, <1>15, <1>16, <1>17, <1>18, <1>19, <1>20
  DEF Next, RuntimeStep, ProgramStep, Stopped

\* A thread inside a region marked for deletion has not checked in since, unless it
\* is a stray.
LEMMA BehindStep ==
  ASSUME TypeOK, GenerationsOrdered, OpenRegions, InsideAllocated, InsideBehind,
         [Next]_vars
  PROVE  InsideBehind'
<1> USE DynCodeAssumption DEF TypeOK, InsideBehind, Absent, NotRequested
<1>1. ASSUME NEW t \in Thread, NEW c \in Thread, Create(t, c) PROVE InsideBehind'
  BY <1>1 DEF Create, LeaveText, tableVars, textVars, scanVars,
         GenerationsOrdered, OpenRegions, InsideAllocated
<1>2. ASSUME NEW t \in Thread, Launch(t) PROVE InsideBehind'
  BY <1>2 DEF Launch, textVars, scanVars, GenerationsOrdered, OpenRegions,
         InsideAllocated
<1>3. ASSUME NEW t \in Thread, Exit(t) PROVE InsideBehind'
  BY <1>3, Zenon DEF Exit, LeaveText, textVars, scanVars, GenerationsOrdered,
         OpenRegions, InsideAllocated
<1>4. ASSUME NEW t \in Thread, NEW r \in Region, Enter(t, r) PROVE InsideBehind'
  BY <1>4 DEF Enter, tableVars, textVars, scanVars, GenerationsOrdered,
         OpenRegions, InsideAllocated
<1>5. ASSUME NEW t \in Thread, Leave(t) PROVE InsideBehind'
  BY <1>5 DEF Leave, LeaveText, tableVars, textVars, scanVars,
         GenerationsOrdered, OpenRegions, InsideAllocated
<1>6. ASSUME NEW t \in Thread, NEW r \in Region, CreateRejected(t, r) PROVE InsideBehind'
  BY <1>6 DEF CreateRejected, InsertRegion, LeaveText, tableVars,
         GenerationsOrdered, OpenRegions, InsideAllocated
<1>7. ASSUME NEW t \in Thread, NEW r \in Region, CreateAccepted(t, r) PROVE InsideBehind'
  BY <1>7 DEF CreateAccepted, InsertRegion, LeaveText, tableVars,
         GenerationsOrdered, OpenRegions, InsideAllocated
<1>8. ASSUME NEW t \in Thread, CopyBundleTails(t) PROVE InsideBehind'
  BY <1>8, Zenon DEF CopyBundleTails, tableVars, textVars, scanVars, GenerationsOrdered,
         OpenRegions, InsideAllocated
<1>9. ASSUME NEW t \in Thread, CopyBundleHeads(t) PROVE InsideBehind'
  BY <1>9, Zenon DEF CopyBundleHeads, tableVars, GenerationsOrdered, OpenRegions,
         InsideAllocated
<1>10. ASSUME NEW t \in Thread, NEW r \in Region, Modify(t, r) PROVE InsideBehind'
  BY <1>10 DEF Modify, LeaveText, tableVars, scanVars, GenerationsOrdered,
         OpenRegions, InsideAllocated
<1>11. ASSUME NEW t \in Thread, CheckInFetch(t) PROVE InsideBehind'
  BY <1>11, Zenon DEF CheckInFetch, LeaveText, tableVars, textVars, scanVars,
         GenerationsOrdered, OpenRegions, InsideAllocated
<1>12. ASSUME NEW t \in Thread, CheckInSet(t) PROVE InsideBehind'
  BY <1>12 DEF CheckInSet, history, tableVars, textVars, scanVars, GenerationsOrdered,
         OpenRegions, InsideAllocated
<1>13. ASSUME NEW t \in Thread, NEW r \in Region, DeleteRequest(t, r) PROVE InsideBehind'
  BY <1>13 DEF DeleteRequest, DeleteLock, LeaveText, tableVars,
         GenerationsOrdered, OpenRegions, InsideAllocated
<1>14. ASSUME NEW t \in Thread, NEW r \in Region, DeleteRetry(t, r) PROVE InsideBehind'
  BY <1>14 DEF DeleteRetry, DeleteLock, LeaveText, tableVars,
         GenerationsOrdered, OpenRegions, InsideAllocated
<1>15. ASSUME NEW t \in Thread, MinLock(t) PROVE InsideBehind'
  BY <1>15 DEF MinLock, history, tableVars, textVars, GenerationsOrdered, OpenRegions,
         InsideAllocated
<1>16. ASSUME NEW t \in Thread, MinStep(t) PROVE InsideBehind'
  BY <1>16, Zenon DEF MinStep, history, threadVars, tableVars, textVars, GenerationsOrdered,
         OpenRegions, InsideAllocated
<1>17. ASSUME NEW t \in Thread, MinCrash(t) PROVE InsideBehind'
  BY <1>17, Zenon DEF MinCrash, history, threadVars, tableVars, textVars, scanVars,
         GenerationsOrdered, OpenRegions, InsideAllocated
<1>18. ASSUME NEW t \in Thread, DeleteFinish(t) PROVE InsideBehind'
  BY <1>18 DEF DeleteFinish, tableVars, GenerationsOrdered, OpenRegions,
         InsideAllocated
<1>19. ASSUME NEW t \in Thread, MinUnlock(t) PROVE InsideBehind'
  BY <1>19 DEF MinUnlock, tableVars, textVars, history
<1>20. ASSUME UNCHANGED vars PROVE InsideBehind'
  BY <1>20, Zenon DEF vars, threadVars, tableVars, textVars, scanVars, history,
         GenerationsOrdered, OpenRegions, InsideAllocated
<1> QED
  BY Zenon, <1>1, <1>2, <1>3, <1>4, <1>5, <1>6, <1>7, <1>8, <1>9, <1>10, <1>11, <1>12,
     <1>13, <1>14, <1>15, <1>16, <1>17, <1>18, <1>19, <1>20
  DEF Next, RuntimeStep, ProgramStep, Stopped

\* A region is removed only when nobody but strays is inside.
LEMMA AllocatedStep ==
  ASSUME TypeOK, TableConsistent, CountRight, OpenRegions, LocksHeld, InsideAllocated,
         InsideBehind, ScanSound, [Next]_vars
  PROVE  InsideAllocated'
<1> USE DynCodeAssumption DEF TypeOK, InsideAllocated, Absent, NotRequested
<1>1. ASSUME NEW t \in Thread, NEW c \in Thread, Create(t, c) PROVE InsideAllocated'
  BY <1>1, Zenon DEF Create, LeaveText, tableVars, textVars, scanVars, OpenRegions
<1>2. ASSUME NEW t \in Thread, Launch(t) PROVE InsideAllocated'
  BY <1>2, Zenon DEF Launch, textVars, scanVars, OpenRegions
<1>3. ASSUME NEW t \in Thread, Exit(t) PROVE InsideAllocated'
  BY <1>3, Zenon DEF Exit, LeaveText, textVars, scanVars, OpenRegions
<1>4. ASSUME NEW t \in Thread, NEW r \in Region, Enter(t, r) PROVE InsideAllocated'
  BY <1>4 DEF Enter, tableVars, textVars, scanVars, OpenRegions
<1>5. ASSUME NEW t \in Thread, Leave(t) PROVE InsideAllocated'
  BY <1>5, Zenon DEF Leave, LeaveText, tableVars, textVars, scanVars, OpenRegions
<1>6. ASSUME NEW t \in Thread, NEW r \in Region, CreateRejected(t, r) PROVE InsideAllocated'
  BY <1>6 DEF CreateRejected, InsertRegion, LeaveText, tableVars, OpenRegions
<1>7. ASSUME NEW t \in Thread, NEW r \in Region, CreateAccepted(t, r) PROVE InsideAllocated'
  BY <1>7, Zenon DEF CreateAccepted, InsertRegion, LeaveText, tableVars, OpenRegions
<1>8. ASSUME NEW t \in Thread, CopyBundleTails(t) PROVE InsideAllocated'
  BY <1>8, Zenon DEF CopyBundleTails, tableVars, textVars, scanVars, OpenRegions
<1>9. ASSUME NEW t \in Thread, CopyBundleHeads(t) PROVE InsideAllocated'
  BY <1>9, Zenon DEF CopyBundleHeads, tableVars, OpenRegions
<1>10. ASSUME NEW t \in Thread, NEW r \in Region, Modify(t, r) PROVE InsideAllocated'
  BY <1>10 DEF Modify, LeaveText, tableVars, scanVars, OpenRegions
<1>11. ASSUME NEW t \in Thread, CheckInFetch(t) PROVE InsideAllocated'
  BY <1>11, Zenon DEF CheckInFetch, LeaveText, tableVars, textVars, scanVars,
         OpenRegions
<1>12. ASSUME NEW t \in Thread, CheckInSet(t) PROVE InsideAllocated'
  BY <1>12, Zenon DEF CheckInSet, history, tableVars, textVars, scanVars, OpenRegions
<1>13. ASSUME NEW t \in Thread, NEW r \in Region, DeleteRequest(t, r) PROVE InsideAllocated'
  BY <1>13 DEF DeleteRequest, DeleteLock, LeaveText, tableVars, OpenRegions
<1>14. ASSUME NEW t \in Thread, NEW r \in Region, DeleteRetry(t, r) PROVE InsideAllocated'
  BY <1>14, Zenon DEF DeleteRetry, DeleteLock, LeaveText, tableVars, OpenRegions
<1>15. ASSUME NEW t \in Thread, MinLock(t) PROVE InsideAllocated'
  BY <1>15, Zenon DEF MinLock, history, tableVars, textVars, OpenRegions
<1>16. ASSUME NEW t \in Thread, MinStep(t) PROVE InsideAllocated'
  BY <1>16, Zenon DEF MinStep, history, threadVars, tableVars, textVars, OpenRegions
<1>17. ASSUME NEW t \in Thread, MinCrash(t) PROVE InsideAllocated'
  BY <1>17, Zenon DEF MinCrash, history, threadVars, tableVars, textVars, scanVars, OpenRegions
<1>18. ASSUME NEW t \in Thread, DeleteFinish(t) PROVE InsideAllocated'
  <2>1. /\ \A u \in Thread \ late : InTable(u) => scanMin <= gen[u]
        /\ \A u \in late \ strays : inside[u] # opRegion
    BY <1>18, Zenon DEF DeleteFinish, ScanSound
  <2>2. deleteGen[opRegion] >= 0 /\ opRegion \in Region
    BY <1>18 DEF DeleteFinish, OpenRegions, LocksHeld
  <2>3. ASSUME NEW u \in Thread \ strays, inside[u] = opRegion
        PROVE  ~(deleteGen[opRegion] <= scanMin)
    <3>1. u \notin late
      BY <2>1, <2>3, Zenon
    <3> QED
      BY <2>1, <2>2, <2>3, <3>1 DEF InsideBehind, InTable
  <2> QED
    BY <1>18, <2>2, <2>3, Zenon DEF DeleteFinish
<1>19. ASSUME NEW t \in Thread, MinUnlock(t) PROVE InsideAllocated'
  BY <1>19 DEF MinUnlock, tableVars, textVars, history
<1>20. ASSUME UNCHANGED vars PROVE InsideAllocated'
  BY <1>20, Zenon DEF vars, threadVars, tableVars, textVars, scanVars, history, OpenRegions
<1> QED
  BY Zenon, <1>1, <1>2, <1>3, <1>4, <1>5, <1>6, <1>7, <1>8, <1>9, <1>10, <1>11, <1>12,
     <1>13, <1>14, <1>15, <1>16, <1>17, <1>18, <1>19, <1>20
  DEF Next, RuntimeStep, ProgramStep, Stopped

\* Code is written only into a region nobody but strays is inside.
LEMMA StableStep ==
  ASSUME TypeOK, LocksHeld, OpenRegions, CodeStable, [Next]_vars
  PROVE  CodeStable'
<1> USE DynCodeAssumption DEF TypeOK, CodeStable
<1>1. ASSUME NEW t \in Thread, NEW c \in Thread, Create(t, c) PROVE CodeStable'
  BY <1>1, Zenon DEF Create, LeaveText, tableVars, textVars, scanVars, OpenRegions
<1>2. ASSUME NEW t \in Thread, Launch(t) PROVE CodeStable'
  BY <1>2, Zenon DEF Launch, textVars, scanVars, OpenRegions
<1>3. ASSUME NEW t \in Thread, Exit(t) PROVE CodeStable'
  BY <1>3, Zenon DEF Exit, LeaveText, textVars, scanVars, OpenRegions
<1>4. ASSUME NEW t \in Thread, NEW r \in Region, Enter(t, r) PROVE CodeStable'
  BY <1>4 DEF Enter, tableVars, textVars, scanVars, OpenRegions
<1>5. ASSUME NEW t \in Thread, Leave(t) PROVE CodeStable'
  BY <1>5, Zenon DEF Leave, LeaveText, tableVars, textVars, scanVars, OpenRegions
<1>6. ASSUME NEW t \in Thread, NEW r \in Region, CreateRejected(t, r) PROVE CodeStable'
  BY <1>6, Zenon DEF CreateRejected, InsertRegion, LeaveText, tableVars, OpenRegions
<1>7. ASSUME NEW t \in Thread, NEW r \in Region, CreateAccepted(t, r) PROVE CodeStable'
  BY <1>7, Zenon DEF CreateAccepted, InsertRegion, LeaveText, tableVars, OpenRegions
<1>8. ASSUME NEW t \in Thread, CopyBundleTails(t) PROVE CodeStable'
  BY <1>8, Zenon DEF CopyBundleTails, tableVars, textVars, scanVars, OpenRegions
<1>9. ASSUME NEW t \in Thread, CopyBundleHeads(t) PROVE CodeStable'
  BY <1>9, Zenon DEF CopyBundleHeads, tableVars, OpenRegions
<1>10. ASSUME NEW t \in Thread, NEW r \in Region, Modify(t, r) PROVE CodeStable'
  BY <1>10, Zenon DEF Modify, LeaveText, tableVars, scanVars, OpenRegions
<1>11. ASSUME NEW t \in Thread, CheckInFetch(t) PROVE CodeStable'
  BY <1>11, Zenon DEF CheckInFetch, LeaveText, tableVars, textVars, scanVars,
         OpenRegions
<1>12. ASSUME NEW t \in Thread, CheckInSet(t) PROVE CodeStable'
  BY <1>12, Zenon DEF CheckInSet, history, tableVars, textVars, scanVars, OpenRegions
<1>13. ASSUME NEW t \in Thread, NEW r \in Region, DeleteRequest(t, r) PROVE CodeStable'
  BY <1>13, Zenon DEF DeleteRequest, DeleteLock, LeaveText, tableVars, OpenRegions
<1>14. ASSUME NEW t \in Thread, NEW r \in Region, DeleteRetry(t, r) PROVE CodeStable'
  BY <1>14, Zenon DEF DeleteRetry, DeleteLock, LeaveText, tableVars, OpenRegions
<1>15. ASSUME NEW t \in Thread, MinLock(t) PROVE CodeStable'
  BY <1>15, Zenon DEF MinLock, history, tableVars, textVars, OpenRegions
<1>16. ASSUME NEW t \in Thread, MinStep(t) PROVE CodeStable'
  BY <1>16, Zenon DEF MinStep, history, threadVars, tableVars, textVars, OpenRegions
<1>17. ASSUME NEW t \in Thread, MinCrash(t) PROVE CodeStable'
  BY <1>17, Zenon DEF MinCrash, history, threadVars, tableVars, textVars, scanVars, OpenRegions
<1>18. ASSUME NEW t \in Thread, DeleteFinish(t) PROVE CodeStable'
  BY <1>18, Zenon DEF DeleteFinish, tableVars, OpenRegions
<1>19. ASSUME NEW t \in Thread, MinUnlock(t) PROVE CodeStable'
  BY <1>19 DEF MinUnlock, tableVars, textVars, history
<1>20. ASSUME UNCHANGED vars PROVE CodeStable'
  BY <1>20, Zenon DEF vars, threadVars, tableVars, textVars, scanVars, history, OpenRegions
<1> QED
  BY Zenon, <1>1, <1>2, <1>3, <1>4, <1>5, <1>6, <1>7, <1>8, <1>9, <1>10, <1>11, <1>12,
     <1>13, <1>14, <1>15, <1>16, <1>17, <1>18, <1>19, <1>20
  DEF Next, RuntimeStep, ProgramStep, Stopped

-----------------------------------------------------------------------------
\* Every thread that was in the table at the last scan, and still is, has reached the
\* generation of a region's deletion.
CheckedIn(r) == \A t \in Thread \ late : InTable(t) => gen[t] >= deleteGen[r]

\* Only the comparison after a scan removes a region, and that scan has met every
\* thread that did not start since.
LEMMA RemovalStep ==
  ASSUME TypeOK, ScanSound, NEW r0 \in Region, deleteGen[r0] # Absent,
         deleteGen'[r0] = Absent, [Next]_vars
  PROVE  CheckedIn(r0)
<1> USE DynCodeAssumption DEF TypeOK, Absent, NotRequested
<1>1. ASSUME NEW t \in Thread, NEW c \in Thread, Create(t, c) PROVE CheckedIn(r0)
  BY <1>1, Zenon DEF Create, LeaveText, tableVars, textVars, scanVars
<1>2. ASSUME NEW t \in Thread, Launch(t) PROVE CheckedIn(r0)
  BY <1>2, Zenon DEF Launch, textVars, scanVars
<1>3. ASSUME NEW t \in Thread, Exit(t) PROVE CheckedIn(r0)
  BY <1>3, Zenon DEF Exit, LeaveText, textVars, scanVars
<1>4. ASSUME NEW t \in Thread, NEW r \in Region, Enter(t, r) PROVE CheckedIn(r0)
  BY <1>4, Zenon DEF Enter, tableVars, textVars, scanVars
<1>5. ASSUME NEW t \in Thread, Leave(t) PROVE CheckedIn(r0)
  BY <1>5, Zenon DEF Leave, LeaveText, tableVars, textVars, scanVars
<1>6. ASSUME NEW t \in Thread, NEW r \in Region, CreateRejected(t, r) PROVE CheckedIn(r0)
  BY <1>6, Zenon DEF CreateRejected, InsertRegion, LeaveText, tableVars
<1>7. ASSUME NEW t \in Thread, NEW r \in Region, CreateAccepted(t, r) PROVE CheckedIn(r0)
  BY <1>7, Zenon DEF CreateAccepted, InsertRegion, LeaveText, tableVars
<1>8. ASSUME NEW t \in Thread, CopyBundleTails(t) PROVE CheckedIn(r0)
  BY <1>8, Zenon DEF CopyBundleTails, tableVars, textVars, scanVars
<1>9. ASSUME NEW t \in Thread, CopyBundleHeads(t) PROVE CheckedIn(r0)
  BY <1>9, Zenon DEF CopyBundleHeads, tableVars
<1>10. ASSUME NEW t \in Thread, NEW r \in Region, Modify(t, r) PROVE CheckedIn(r0)
  BY <1>10, Zenon DEF Modify, LeaveText, tableVars, scanVars
<1>11. ASSUME NEW t \in Thread, CheckInFetch(t) PROVE CheckedIn(r0)
  BY <1>11, Zenon DEF CheckInFetch, LeaveText, tableVars, textVars, scanVars
<1>12. ASSUME NEW t \in Thread, CheckInSet(t) PROVE CheckedIn(r0)
  BY <1>12, Zenon DEF CheckInSet, history, tableVars, textVars, scanVars
<1>13. ASSUME NEW t \in Thread, NEW r \in Region, DeleteRequest(t, r) PROVE CheckedIn(r0)
  BY <1>13 DEF DeleteRequest, DeleteLock, LeaveText, tableVars
<1>14. ASSUME NEW t \in Thread, NEW r \in Region, DeleteRetry(t, r) PROVE CheckedIn(r0)
  BY <1>14, Zenon DEF DeleteRetry, DeleteLock, LeaveText, tableVars
<1>15. ASSUME NEW t \in Thread, MinLock(t) PROVE CheckedIn(r0)
  BY <1>15, Zenon DEF MinLock, history, tableVars, textVars
<1>16. ASSUME NEW t \in Thread, MinStep(t) PROVE CheckedIn(r0)
  BY <1>16, Zenon DEF MinStep, history, threadVars, tableVars, textVars
<1>17. ASSUME NEW t \in Thread, MinCrash(t) PROVE CheckedIn(r0)
  BY <1>17, Zenon DEF MinCrash, history, threadVars, tableVars, textVars, scanVars
<1>18. ASSUME NEW t \in Thread, DeleteFinish(t) PROVE CheckedIn(r0)
  <2>1. r0 = opRegion /\ deleteGen[r0] <= scanMin
    BY <1>18, Zenon DEF DeleteFinish
  <2>2. \A u \in Thread \ late : InTable(u) => scanMin <= gen[u]
    BY <1>18, Zenon DEF DeleteFinish, ScanSound
  <2> QED
    <3>1. scanMin \in Int /\ deleteGen[r0] \in Int /\ \A u \in Thread : gen[u] \in Int
      BY DEF TypeOK, Absent, NotRequested
    <3>2. ASSUME NEW u \in Thread \ late, InTable(u) PROVE gen[u] >= deleteGen[r0]
      <4>1. scanMin <= gen[u]
        BY <3>2, <2>2, Zenon
      <4> QED
        BY <2>1, <3>1, <4>1
    <3> QED
      BY <3>2, Zenon DEF CheckedIn
<1>19. ASSUME NEW t \in Thread, MinUnlock(t) PROVE CheckedIn(r0)
  BY <1>19 DEF MinUnlock, tableVars, textVars, history
<1>20. ASSUME UNCHANGED vars PROVE CheckedIn(r0)
  BY <1>20, Zenon DEF vars, threadVars, tableVars, textVars, scanVars, history
<1> QED
  BY Zenon, <1>1, <1>2, <1>3, <1>4, <1>5, <1>6, <1>7, <1>8, <1>9, <1>10, <1>11, <1>12,
     <1>13, <1>14, <1>15, <1>16, <1>17, <1>18, <1>19, <1>20
  DEF Next, RuntimeStep, ProgramStep, Stopped

-----------------------------------------------------------------------------
(* Counting the occupied slots. *)

INSTANCE FiniteSetTheorems

Occupied == {s \in Slot : table[s] # None}

\* The occupied slots of the thread table form a finite set.
LEMMA OccupiedFinite ==
  /\ IsFiniteSet(Slot) /\ IsFiniteSet(Occupied) /\ Cardinality(Occupied) \in Nat
<1>1. IsFiniteSet(Slot)
  BY FS_Interval, DynCodeAssumption DEF Slot
<1>2. IsFiniteSet(Occupied)
  BY <1>1, FS_Subset DEF Occupied
<1> QED
  BY <1>1, <1>2, FS_CardinalityType, Zenon

\* No more threads run than the table has slots.
LEMMA ThreadsFit ==
  ASSUME TypeOK, TableConsistent
  PROVE  numThreads = Cardinality(Occupied) /\ numThreads \in 0 .. MaxSlots
<1>1. Cardinality(Slot) = MaxSlots
  BY DynCodeAssumption, FS_Interval DEF Slot
<1>2. Occupied \subseteq Slot
  BY Zenon DEF Occupied
<1>3. Cardinality(Occupied) <= MaxSlots
  BY <1>1, <1>2, OccupiedFinite, FS_Subset
<1> QED
  BY <1>3 DEF TypeOK, TableConsistent, Occupied

\* If the first numThreads slots are all occupied, they are the only ones: a scan
\* of them that meets no hole has met every thread of the table.
LEMMA NoHoles ==
  ASSUME TypeOK, TableConsistent,
         \A k \in Slot : k < numThreads => table[k] # None
  PROVE  \A s \in Slot : table[s] # None => s < numThreads
<1> DEFINE Low == {k \in Slot : k < numThreads}
<1>1. numThreads = Cardinality(Occupied) /\ numThreads \in Nat
  BY ThreadsFit
<1>2. MaxSlots \in Nat /\ numThreads <= MaxSlots
  BY ThreadsFit, DynCodeAssumption
<1>3. Low = 0 .. numThreads - 1
  BY <1>1, <1>2 DEF Slot
<1>4. Cardinality(Low) = numThreads
  <2>1. Cardinality(0 .. numThreads - 1) = numThreads
    BY <1>1, FS_Interval
  <2> QED
    BY <2>1, <1>3, Zenon
<1>5. Low \subseteq Occupied
  BY DEF Occupied
<1>6. Low = Occupied
  BY <1>1, <1>4, <1>5, OccupiedFinite, FS_Subset, Zenon
<1> QED
  BY <1>6 DEF Occupied

\* A consistent table is counted right.
LEMMA TableCounted == TypeOK /\ TableConsistent => CountRight
<1> SUFFICES ASSUME TypeOK, TableConsistent PROVE CountRight
  BY Zenon
<1>1. numThreads = Cardinality(Occupied) /\ numThreads \in 0 .. MaxSlots
  BY ThreadsFit, Zenon
<1>2. numThreads = 0 => Occupied = {}
  BY <1>1, OccupiedFinite, FS_EmptySet, Zenon
<1> QED
  BY <1>1, <1>2, NoHoles, Zenon DEF CountRight, Occupied

\* The thread table keeps holding exactly the running threads, once each.
LEMMA TableStep ==
  ASSUME TypeOK, TableConsistent, [Next]_vars
  PROVE  TableConsistent'
<1> USE DynCodeAssumption DEF TypeOK, TableConsistent
<1>1. ASSUME NEW t \in Thread, NEW c \in Thread, Create(t, c) PROVE TableConsistent'
  BY <1>1 DEF Create, LeaveText, tableVars, textVars, scanVars, InTable
<1>2. ASSUME NEW t \in Thread, Launch(t) PROVE TableConsistent'
  <2>1. PICK s \in Slot : FirstAvail(s) /\ table' = [table EXCEPT ![s] = t]
    BY <1>2, Zenon DEF Launch
  <2>2. Occupied' = Occupied \cup {s} /\ s \notin Occupied
    BY <2>1 DEF Occupied, FirstAvail
  <2>3. Cardinality(Occupied') = Cardinality(Occupied) + 1
    BY <2>2, OccupiedFinite, FS_AddElement, Zenon
  <2>4. numThreads' = Cardinality({k \in Slot : table'[k] # None})
    BY <1>2, <2>3, Zenon DEF Launch, Occupied
  <2>5. \A u \in Thread : InTable(u)' <=> \E k \in Slot : table'[k] = u
    BY <1>2, <2>1 DEF Launch, FirstAvail, InTable
  <2>6. \A k \in Slot : table[k] # t
    BY <1>2 DEF Launch, InTable
  <2>7. \A s1, s2 \in Slot :
          table'[s1] = table'[s2] /\ table'[s1] # None => s1 = s2
    BY <2>1, <2>6 DEF FirstAvail
  <2> QED
    BY <2>4, <2>5, <2>7, Zenon
<1>3. ASSUME NEW t \in Thread, Exit(t) PROVE TableConsistent'
  <2>1. PICK s \in Slot : table[s] = t /\ table' = [table EXCEPT ![s] = None]
    BY <1>3, Zenon DEF Exit
  <2>2. Occupied' = Occupied \ {s} /\ s \in Occupied
    BY <2>1 DEF Occupied
  <2>3. Cardinality(Occupied') = Cardinality(Occupied) - 1
    BY <2>2, OccupiedFinite, FS_RemoveElement, Zenon
  <2>4. numThreads' = Cardinality({k \in Slot : table'[k] # None})
    BY <1>3, <2>3 DEF Exit, Occupied
  <2>5. \A u \in Thread : InTable(u)' <=> \E k \in Slot : table'[k] = u
    BY <1>3, <2>1 DEF Exit, InTable
  <2>6. \A s1, s2 \in Slot :
          table'[s1] = table'[s2] /\ table'[s1] # None => s1 = s2
    BY <2>1
  <2> QED
    BY <2>4, <2>5, <2>6, Zenon
<1>4. ASSUME NEW t \in Thread, NEW r \in Region, Enter(t, r) PROVE TableConsistent'
  BY <1>4 DEF Enter, tableVars, textVars, scanVars, InTable
<1>5. ASSUME NEW t \in Thread, Leave(t) PROVE TableConsistent'
  BY <1>5 DEF Leave, LeaveText, tableVars, textVars, scanVars, InTable
<1>6. ASSUME NEW t \in Thread, NEW r \in Region, CreateRejected(t, r) PROVE TableConsistent'
  BY <1>6, Zenon DEF CreateRejected, InsertRegion, LeaveText, tableVars, InTable
<1>7. ASSUME NEW t \in Thread, NEW r \in Region, CreateAccepted(t, r) PROVE TableConsistent'
  BY <1>7 DEF CreateAccepted, InsertRegion, LeaveText, tableVars, InTable
<1>8. ASSUME NEW t \in Thread, CopyBundleTails(t) PROVE TableConsistent'
  BY <1>8 DEF CopyBundleTails, tableVars, textVars, scanVars, InTable
<1>9. ASSUME NEW t \in Thread, CopyBundleHeads(t) PROVE TableConsistent'
  BY <1>9 DEF CopyBundleHeads, tableVars, InTable
<1>10. ASSUME NEW t \in Thread, NEW r \in Region, Modify(t, r) PROVE TableConsistent'
  BY <1>10 DEF Modify, LeaveText, tableVars, scanVars, InTable
<1>11. ASSUME NEW t \in Thread, CheckInFetch(t) PROVE TableConsistent'
  BY <1>11 DEF CheckInFetch, LeaveText, tableVars, textVars, scanVars, InTable
<1>12. ASSUME NEW t \in Thread, CheckInSet(t) PROVE TableConsistent'
  BY <1>12 DEF CheckInSet, history, tableVars, textVars, scanVars, InTable
<1>13. ASSUME NEW t \in Thread, NEW r \in Region, DeleteRequest(t, r) PROVE TableConsistent'
  BY <1>13, Zenon DEF DeleteRequest, DeleteLock, LeaveText, tableVars, InTable
<1>14. ASSUME NEW t \in Thread, NEW r \in Region, DeleteRetry(t, r) PROVE TableConsistent'
  BY <1>14 DEF DeleteRetry, DeleteLock, LeaveText, tableVars, InTable
<1>15. ASSUME NEW t \in Thread, MinLock(t) PROVE TableConsistent'
  BY <1>15 DEF MinLock, history, tableVars, textVars, InTable
<1>16. ASSUME NEW t \in Thread, MinStep(t) PROVE TableConsistent'
  BY <1>16 DEF MinStep, history, threadVars, tableVars, textVars, InTable
<1>17. ASSUME NEW t \in Thread, MinCrash(t) PROVE TableConsistent'
  BY <1>17, Zenon DEF MinCrash, history, threadVars, tableVars, textVars, scanVars, InTable
<1>18. ASSUME NEW t \in Thread, DeleteFinish(t) PROVE TableConsistent'
  BY <1>18 DEF DeleteFinish, tableVars, InTable
<1>19. ASSUME NEW t \in Thread, MinUnlock(t) PROVE TableConsistent'
  BY <1>19 DEF MinUnlock, tableVars, textVars, InTable, history
<1>20. ASSUME UNCHANGED vars PROVE TableConsistent'
  BY <1>20, Zenon DEF vars, threadVars, tableVars, textVars, scanVars, history, InTable
<1> QED
  BY Zenon, <1>1, <1>2, <1>3, <1>4, <1>5, <1>6, <1>7, <1>8, <1>9, <1>10, <1>11, <1>12,
     <1>13, <1>14, <1>15, <1>16, <1>17, <1>18, <1>19, <1>20
  DEF Next, RuntimeStep, ProgramStep, Stopped

-----------------------------------------------------------------------------
\* All of it holds after start-up: one thread, no region, generation 0.
LEMMA InitInv == Init => IInv
<1> SUFFICES ASSUME Init PROVE IInv
  BY Zenon
<1> USE DynCodeAssumption DEF Init
<1>1. TypeOK
  <2>1. pc \in [Thread -> Locations]
    BY Zenon DEF Locations
  <2>2. deleteGen \in [Region -> {Absent, NotRequested} \cup Nat]
    BY Zenon
  <2>3. generation \in 0 .. MaxGeneration /\ numThreads \in Nat
    OBVIOUS
  <2>4. headsOpen \in [Region -> BOOLEAN] /\ crashed \in BOOLEAN
    BY Zenon
  <2>5. gen \in [Thread -> Nat] /\ fetched \in [Thread -> Nat]
    BY Zenon
  <2>6. /\ inside \in [Thread -> Region \cup {None}]
        /\ table \in [Slot -> Thread \cup {None}]
    BY Zenon
  <2> QED
    BY <2>1, <2>2, <2>3, <2>4, <2>5, <2>6 DEF TypeOK
<1>2. GenerationsOrdered
  BY DEF GenerationsOrdered, Absent
<1>3. TableConsistent
    BY FS_EmptySet, Zenon DEF TableConsistent, InTable
<1>4. LocksHeld /\ ScanSound
  BY Zenon DEF LocksHeld, ScanSound
<1>5. OpenRegions /\ InsideAllocated /\ InsideBehind /\ CodeStable
  BY Zenon DEF OpenRegions, InsideAllocated, InsideBehind, CodeStable
<1> QED
  BY <1>1, <1>2, <1>3, <1>4, <1>5, Zenon DEF IInv

\* The invariant is inductive.
LEMMA StepInv == IInv /\ [Next]_vars => IInv'
  BY TypeStep, GenerationsStep, TableStep, TableCounted, LocksStep, ScanStep, OpenStep,
     BehindStep, AllocatedStep, StableStep, Zenon DEF IInv

\* The thread table, the generations and the locks are consistent in every
\* reachable state: NaClSetThreadGeneration's CHECK and NaClRemoveThreadMu's fatal
\* errors are unreachable, for any number of threads, regions and requests.
THEOREM Bookkeeping == Spec => [](TypeOK /\ GenerationsOrdered /\ TableConsistent)
<1>1. IInv => TypeOK /\ GenerationsOrdered /\ TableConsistent
  BY Zenon DEF IInv
<1> QED
  BY <1>1, InitInv, StepInv, PTL DEF Spec

\* A region leaves the table of regions only when every thread that was in the
\* thread table when the minimum was taken, and still is, has checked in since its
\* deletion was requested, although threads start and exit between the requests and
\* the scan counts slots rather than threads.
THEOREM Removal == Spec => RemovedAfterCheckIn
<1>1. IInv /\ [Next]_vars =>
        [\A r \in Region :
           deleteGen[r] # Absent /\ deleteGen'[r] = Absent =>
             \A t \in Thread \ late : InTable(t) => gen[t] >= deleteGen[r]]_vars
  BY RemovalStep, Zenon DEF IInv, CheckedIn
<1> QED
  BY <1>1, InitInv, StepInv, PTL DEF Spec, RemovedAfterCheckIn

\* The main result.  Nothing is loaded over the instructions a thread is executing,
\* and no thread executes in a range the table of regions calls free, unless the
\* thread came in through a bundle head that NaClTextSysDyncode_Modify wrote after
\* the region's deletion was requested.  It holds although a thread that starts
\* between the scan and the removal has generation 0: nothing lets it in.
THEOREM CodeSafe == Spec => []CodeStable /\ []InsideAllocated
<1>1. IInv => CodeStable /\ InsideAllocated
  BY Zenon DEF IInv
<1> QED
  BY <1>1, InitInv, StepInv, PTL DEF Spec

=============================================================================
