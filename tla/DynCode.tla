------------------------------- MODULE DynCode -------------------------------
(***************************************************************************)
(* Dynamic code in the service runtime (nacl_text.c) together with the     *)
(* thread table it consults (sel_ldr.c, nacl_app_thread.c).                *)
(*                                                                         *)
(* Untrusted threads execute inside dynamically created code regions while *)
(* other threads create, modify and delete regions.  A deleted region's    *)
(* memory may be handed out again only when no thread can still be in the  *)
(* middle of one of its bundles, which the runtime establishes with        *)
(* generations: a deletion request halts the bundle heads and bumps the    *)
(* global generation, threads check in by copying the generation, and the  *)
(* region is removed once the minimum over the thread table has caught up. *)
(*                                                                         *)
(* Locks: loadMu is nap->dynamic_load_mutex, threadsMu is nap->threads_mu. *)
(* A thread's own natp->mu is only ever held within one step of this       *)
(* module, so it needs no variable.                                        *)
(***************************************************************************)
EXTENDS Integers, FiniteSets

CONSTANTS
  Thread,         \* identities of NaClAppThread objects
  MainThread,     \* the thread NaClCreateMainThread starts
  Region,         \* disjoint ranges of the dynamic text segment
  None,           \* no thread / no region / empty slot of the thread table
  MaxSlots,       \* bound: slots of the thread table (a growing DynArray)
  MaxGeneration   \* the last generation, INT32_MAX in the code

ASSUME DynCodeAssumption ==
  /\ MainThread \in Thread
  /\ IsFiniteSet(Thread)
  /\ None \notin Thread /\ None \notin Region
  /\ MaxSlots \in Nat \ {0}
  /\ MaxGeneration \in Nat

VARIABLES
  pc,          \* where each thread is
  inside,      \* the region whose bundle bodies a thread is executing
  gen,         \* natp->dynamic_delete_generation
  fetched,     \* local gen of NaClTextSysDyncode_Delete with size 0
  table,       \* nap->threads
  numThreads,  \* nap->num_threads
  generation,  \* nap->dynamic_delete_generation
  deleteGen,   \* nap->dynamic_regions: Absent, NotRequested or a generation
  headsOpen,   \* do the region's bundle heads hold code rather than HLTs?
  loadMu,      \* holder of nap->dynamic_load_mutex
  threadsMu,   \* holder of nap->threads_mu
  opRegion,    \* the region the holder of loadMu works on
  scanIx,      \* i of NaClMinimumThreadGeneration
  scanMin,     \* rv of NaClMinimumThreadGeneration
  crashed      \* the service runtime dereferenced a NULL thread

\* History, for the properties only.
VARIABLES
  overrun,     \* threads whose region was written since they entered it
  reopened,    \* regions whose halts a modification replaced after the request
  strays,      \* threads that entered through such a head
  late         \* threads that came between the scan of the table and its use

threadVars == <<pc, inside, gen, fetched>>
tableVars == <<table, numThreads>>
textVars == <<generation, deleteGen, headsOpen>>
scanVars == <<opRegion, scanIx, scanMin>>
history == <<overrun, reopened, strays, late>>
vars == <<threadVars, tableVars, textVars, scanVars, loadMu, threadsMu, crashed,
          history>>

Slot == 0 .. MaxSlots - 1

Absent == -2        \* the range is in no region
NotRequested == -1  \* a region nobody has asked to delete

\* Locations of a thread.  "absent": no such thread (not yet created, or gone);
\* "launch": constructed but not yet in the thread table; "user": in untrusted
\* code; the others are points inside the dyncode system calls.
Locations == {"absent", "launch", "user", "checkin",
              "tails", "heads", "min", "scan", "compare"}

InTable(t) == pc[t] \notin {"absent", "launch"}

TypeOK ==
  /\ pc \in [Thread -> Locations]
  /\ inside \in [Thread -> Region \cup {None}]
  /\ gen \in [Thread -> Nat]
  /\ fetched \in [Thread -> Nat]
  /\ table \in [Slot -> Thread \cup {None}]
  /\ numThreads \in Nat
  /\ generation \in 0 .. MaxGeneration
  /\ deleteGen \in [Region -> {Absent, NotRequested} \cup Nat]
  /\ headsOpen \in [Region -> BOOLEAN]
  /\ loadMu \in Thread \cup {None}
  /\ threadsMu \in Thread \cup {None}
  /\ opRegion \in Region \cup {None}
  /\ scanIx \in Nat
  /\ scanMin \in Nat
  /\ crashed \in BOOLEAN
  /\ overrun \subseteq Thread
  /\ reopened \subseteq Region
  /\ strays \subseteq Thread
  /\ late \subseteq Thread

\* The state after the dynamic text was mapped and HLT-filled and the main
\* thread was constructed.
Init ==
  /\ pc = [t \in Thread |-> IF t = MainThread THEN "launch" ELSE "absent"]
  /\ inside = [t \in Thread |-> None]
  /\ gen = [t \in Thread |-> 0]
  /\ fetched = [t \in Thread |-> 0]
  /\ table = [s \in Slot |-> None]
  /\ numThreads = 0
  /\ generation = 0
  /\ deleteGen = [r \in Region |-> Absent]
  /\ headsOpen = [r \in Region |-> FALSE]
  /\ loadMu = None
  /\ threadsMu = None
  /\ opRegion = None
  /\ scanIx = 0
  /\ scanMin = 0
  /\ crashed = FALSE
  /\ overrun = {} /\ reopened = {} /\ strays = {} /\ late = {}

-----------------------------------------------------------------------------
(* Threads and the thread table. *)

\* A thread that enters the runtime is outside the bodies of all bundles; its
\* return address is a bundle head.
LeaveText(t) ==
  /\ inside' = [inside EXCEPT ![t] = None]
  /\ overrun' = overrun \ {t}
  /\ strays' = strays \ {t}

\* NaClAppThreadCtor, called for a new thread: generation 0, not in the table.
Create(t, c) ==
  /\ pc[t] = "user"
  /\ pc[c] = "absent"
  /\ pc' = [pc EXCEPT ![c] = "launch"]
  /\ LeaveText(t)
  /\ gen' = [gen EXCEPT ![c] = 0]
  /\ UNCHANGED <<fetched, tableVars, textVars, scanVars,
                 loadMu, threadsMu, crashed, reopened, late>>

\* DynArrayFirstAvail: the lowest empty slot.
FirstAvail(s) ==
  /\ table[s] = None
  /\ \A k \in Slot : k < s => table[k] # None

\* NaClThreadLauncher: the new thread enters itself into the table.
Launch(c) ==
  /\ pc[c] = "launch"
  /\ threadsMu = None
  /\ \E s \in Slot :
       /\ FirstAvail(s)
       /\ table' = [table EXCEPT ![s] = c]
  /\ numThreads' = numThreads + 1
  /\ pc' = [pc EXCEPT ![c] = "user"]
  /\ late' = IF \E t \in Thread : pc[t] = "compare" THEN late \cup {c} ELSE late
  /\ UNCHANGED <<inside, gen, fetched, textVars, scanVars,
                 loadMu, threadsMu, crashed, overrun, reopened, strays>>

\* NaClSysCommonThreadSuicide: the thread removes itself from the table.
Exit(t) ==
  /\ pc[t] = "user"
  /\ threadsMu = None
  /\ \E s \in Slot :
       /\ table[s] = t
       /\ table' = [table EXCEPT ![s] = None]
  /\ numThreads' = numThreads - 1
  /\ pc' = [pc EXCEPT ![t] = "absent"]
  /\ LeaveText(t)
  /\ UNCHANGED <<gen, fetched, textVars, scanVars,
                 loadMu, threadsMu, crashed, reopened, late>>

-----------------------------------------------------------------------------
(* Untrusted execution: bundles are entered only at their heads. *)

Enter(t, r) ==
  /\ pc[t] = "user"
  /\ headsOpen[r]
  /\ inside' = [inside EXCEPT ![t] = r]
  /\ overrun' = overrun \ {t}
  /\ strays' = IF r \in reopened THEN strays \cup {t} ELSE strays \ {t}
  /\ UNCHANGED <<pc, gen, fetched, tableVars, textVars, scanVars,
                 loadMu, threadsMu, crashed, reopened, late>>

\* Also every system call that fails before it changes any state: the thread
\* returns to a bundle head.
Leave(t) ==
  /\ pc[t] = "user"
  /\ inside[t] # None
  /\ LeaveText(t)
  /\ UNCHANGED <<pc, gen, fetched, tableVars, textVars, scanVars,
                 loadMu, threadsMu, crashed, reopened, late>>

-----------------------------------------------------------------------------
(* NaClTextSysDyncode_Create. *)

\* The range is entered into the region table before the code is validated.
InsertRegion(t, r) ==
  /\ pc[t] = "user"
  /\ loadMu = None
  /\ deleteGen[r] = Absent
  /\ deleteGen' = [deleteGen EXCEPT ![r] = NotRequested]
  /\ LeaveText(t)
  /\ UNCHANGED <<gen, fetched, tableVars, generation, headsOpen,
                 scanIx, scanMin, threadsMu, crashed, reopened, late>>

\* Validation, or mapping the text writable, failed: the region stays.
CreateRejected(t, r) ==
  /\ InsertRegion(t, r)
  /\ UNCHANGED <<pc, loadMu, opRegion>>

CreateAccepted(t, r) ==
  /\ InsertRegion(t, r)
  /\ pc' = [pc EXCEPT ![t] = "tails"]
  /\ loadMu' = t
  /\ opRegion' = r

\* CopyBundleTails: nobody may be in the middle of one of the bundles.
CopyBundleTails(t) ==
  /\ pc[t] = "tails"
  /\ overrun' = overrun \cup {u \in Thread : inside[u] = opRegion}
  /\ pc' = [pc EXCEPT ![t] = "heads"]
  /\ UNCHANGED <<inside, gen, fetched, tableVars, textVars, scanVars, loadMu,
                 threadsMu, crashed, reopened, strays, late>>

\* CopyBundleHeads: from here on threads can enter the region.
CopyBundleHeads(t) ==
  /\ pc[t] = "heads"
  /\ headsOpen' = [headsOpen EXCEPT ![opRegion] = TRUE]
  /\ reopened' = reopened \ {opRegion}
  /\ pc' = [pc EXCEPT ![t] = "user"]
  /\ loadMu' = None
  /\ opRegion' = None
  /\ UNCHANGED <<inside, gen, fetched, tableVars, generation, deleteGen,
                 scanIx, scanMin, threadsMu, crashed, overrun, strays, late>>

\* NaClTextSysDyncode_Modify: the replacement has the same instruction
\* boundaries and is copied one instruction at a time, so a thread inside keeps
\* executing valid code.  It may replace the HLTs at a bundle head as well, and
\* the region's delete_generation is not looked at.
Modify(t, r) ==
  /\ pc[t] = "user"
  /\ loadMu = None
  /\ deleteGen[r] # Absent
  /\ \E open \in {headsOpen[r], TRUE} :
       /\ headsOpen' = [headsOpen EXCEPT ![r] = open]
       /\ reopened' = IF deleteGen[r] >= 0 /\ open THEN reopened \cup {r}
                                                   ELSE reopened
  /\ LeaveText(t)
  /\ UNCHANGED <<pc, gen, fetched, tableVars, generation, deleteGen,
                 scanVars, loadMu, threadsMu, crashed, late>>

-----------------------------------------------------------------------------
(* NaClTextSysDyncode_Delete. *)

\* Size 0: fetch the generation under the lock ...
CheckInFetch(t) ==
  /\ pc[t] = "user"
  /\ loadMu = None
  /\ fetched' = [fetched EXCEPT ![t] = generation]
  /\ LeaveText(t)
  /\ pc' = [pc EXCEPT ![t] = "checkin"]
  /\ UNCHANGED <<gen, tableVars, textVars, scanVars,
                 loadMu, threadsMu, crashed, reopened, late>>

\* ... and NaClSetThreadGeneration after it was released.
CheckInSet(t) ==
  /\ pc[t] = "checkin"
  /\ gen' = [gen EXCEPT ![t] = fetched[t]]
  /\ fetched' = [fetched EXCEPT ![t] = 0]
  /\ pc' = [pc EXCEPT ![t] = "user"]
  /\ UNCHANGED <<inside, tableVars, textVars, scanVars,
                 loadMu, threadsMu, crashed, history>>

\* Take the lock and set our own generation to g.
DeleteLock(t, r, g) ==
  /\ pc[t] = "user"
  /\ loadMu = None
  /\ loadMu' = t
  /\ opRegion' = r
  /\ gen' = [gen EXCEPT ![t] = g]
  /\ LeaveText(t)
  /\ pc' = [pc EXCEPT ![t] = "min"]
  /\ UNCHANGED <<fetched, tableVars,
                 scanIx, scanMin, threadsMu, crashed, late>>

\* Mutants of the first request: no halts; the increment is lost.
DeleteRequestNoHalts(t, r) ==
  /\ deleteGen[r] = NotRequested
  /\ generation < MaxGeneration
  /\ generation' = generation + 1
  /\ deleteGen' = [deleteGen EXCEPT ![r] = generation + 1]
  /\ DeleteLock(t, r, generation + 1)
  /\ UNCHANGED <<headsOpen, reopened>>

DeleteRequestNoIncrement(t, r) ==
  /\ deleteGen[r] = NotRequested
  /\ generation < MaxGeneration
  /\ headsOpen' = [headsOpen EXCEPT ![r] = FALSE]
  /\ reopened' = reopened \ {r}
  /\ deleteGen' = [deleteGen EXCEPT ![r] = generation + 1]
  /\ DeleteLock(t, r, generation + 1)
  /\ UNCHANGED generation

\* The first request for a region: ReplaceBundleHeadsWithHalts, new generation.
DeleteRequest(t, r) ==
  /\ deleteGen[r] = NotRequested
  /\ generation < MaxGeneration
  /\ headsOpen' = [headsOpen EXCEPT ![r] = FALSE]
  /\ reopened' = reopened \ {r}
  /\ generation' = generation + 1
  /\ deleteGen' = [deleteGen EXCEPT ![r] = generation + 1]
  /\ DeleteLock(t, r, generation + 1)

\* A later request only checks in.
DeleteRetry(t, r) ==
  /\ deleteGen[r] >= 0
  /\ DeleteLock(t, r, generation)
  /\ UNCHANGED <<headsOpen, generation, deleteGen, reopened>>

\* NaClMinimumThreadGeneration: lock the thread table ...
MinLock(t) ==
  /\ pc[t] = "min"
  /\ threadsMu = None
  /\ threadsMu' = t
  /\ scanIx' = 0
  /\ scanMin' = 0
  /\ pc' = [pc EXCEPT ![t] = "scan"]
  /\ UNCHANGED <<inside, gen, fetched, tableVars, textVars,
                 opRegion, loadMu, crashed, history>>

\* Mutant of the scan's body: the last slot decides.
MinStepLast(t) ==
  /\ pc[t] = "scan"
  /\ scanIx < numThreads
  /\ table[scanIx] # None
  /\ scanMin' = gen[table[scanIx]]
  /\ scanIx' = scanIx + 1
  /\ UNCHANGED <<threadVars, tableVars, textVars, opRegion,
                 loadMu, threadsMu, crashed, history>>

\* ... read slots 0 .. num_threads - 1, one thread lock at a time ...
MinStep(t) ==
  /\ pc[t] = "scan"
  /\ scanIx < numThreads
  /\ table[scanIx] # None
  /\ LET g == gen[table[scanIx]]
     IN scanMin' = IF scanIx = 0 \/ scanMin > g THEN g ELSE scanMin
  /\ scanIx' = scanIx + 1
  /\ UNCHANGED <<threadVars, tableVars, textVars, opRegion,
                 loadMu, threadsMu, crashed, history>>

\* ... where an empty slot is a NULL thread whose lock is taken ...
MinCrash(t) ==
  /\ pc[t] = "scan"
  /\ scanIx < numThreads
  /\ table[scanIx] = None
  /\ crashed' = TRUE
  /\ UNCHANGED <<threadVars, tableVars, textVars, scanVars, loadMu, threadsMu,
                 history>>

\* ... unlock the table, keeping the lock on the regions ...
MinUnlock(t) ==
  /\ pc[t] = "scan"
  /\ scanIx >= numThreads
  /\ threadsMu' = None
  /\ scanIx' = 0
  /\ pc' = [pc EXCEPT ![t] = "compare"]
  /\ UNCHANGED <<inside, gen, fetched, tableVars, textVars, scanMin,
                 opRegion, loadMu, crashed, history>>

\* ... and remove the region if the minimum has caught up with its deletion.
\* Threads may have come and gone since the table was unlocked.
DeleteFinish(t) ==
  /\ pc[t] = "compare"
  /\ deleteGen' = IF deleteGen[opRegion] <= scanMin
                  THEN [deleteGen EXCEPT ![opRegion] = Absent]
                  ELSE deleteGen
  /\ loadMu' = None
  /\ opRegion' = None /\ scanMin' = 0
  /\ late' = {}
  /\ pc' = [pc EXCEPT ![t] = "user"]
  /\ UNCHANGED <<inside, gen, fetched, tableVars, generation, headsOpen,
                 scanIx, threadsMu, crashed, overrun, reopened, strays>>

-----------------------------------------------------------------------------
\* A thread's step inside the service runtime.
RuntimeStep(t) ==
  \/ Launch(t) \/ CopyBundleTails(t) \/ CopyBundleHeads(t) \/ CheckInSet(t)
  \/ MinLock(t) \/ MinStep(t) \/ MinCrash(t) \/ MinUnlock(t)
  \/ DeleteFinish(t)

\* What the untrusted program may do next.
ProgramStep(t) ==
  \/ Exit(t) \/ Leave(t) \/ CheckInFetch(t)
  \/ \E c \in Thread : Create(t, c)
  \/ \E r \in Region :
       \/ Enter(t, r) \/ Modify(t, r)
       \/ CreateRejected(t, r) \/ CreateAccepted(t, r)
       \/ DeleteRequest(t, r) \/ DeleteRetry(t, r)

\* The process is gone: a crash, or no thread is left.
Stopped ==
  /\ crashed \/ \A t \in Thread : pc[t] = "absent"
  /\ UNCHANGED vars

Next ==
  \/ ~crashed /\ \E t \in Thread : RuntimeStep(t) \/ ProgramStep(t)
  \/ Stopped

Spec == Init /\ [][Next]_vars

-----------------------------------------------------------------------------
(* Correctness. *)

\* The instructions under a thread never change: while a thread executes inside
\* a region, nothing is loaded over the code it entered (nacl_text.c, the
\* comments on CopyBundleTails and on removing a region).  Left out are the
\* threads that came in through a head reopened after the deletion was requested:
\* for them the code does not hold what the comments say (RemovedUnreachable).
CodeStable == overrun \subseteq strays

\* No such thread executes in a range the region table calls free.
InsideAllocated ==
  \A t \in Thread \ strays : inside[t] # None => deleteGen[inside[t]] # Absent

\* "Bundle heads are hlt and thus the bodies are unreachable": no range that left
\* the region table can be entered.
RemovedUnreachable ==
  \A r \in Region : deleteGen[r] = Absent => ~headsOpen[r]

\* NaClSetThreadGeneration's CHECK: a thread's generation never exceeds the one
\* it is about to store, although that one was fetched before the lock was
\* released, and no generation is ahead of the global one.
GenerationsOrdered ==
  /\ \A t \in Thread :
       /\ gen[t] <= generation
       /\ pc[t] = "checkin" => gen[t] <= fetched[t] /\ fetched[t] <= generation
  /\ \A r \in Region : deleteGen[r] <= generation

\* The thread table holds exactly the running threads, each once, and
\* num_threads counts them: NaClRemoveThreadMu's fatal errors cannot happen.
TableConsistent ==
  /\ \A t \in Thread : InTable(t) <=> \E s \in Slot : table[s] = t
  /\ \A s1, s2 \in Slot : table[s1] = table[s2] /\ table[s1] # None => s1 = s2
  /\ numThreads = Cardinality({s \in Slot : table[s] # None})

\* "All threads have checked in since we marked region for deletion": when a
\* region leaves the table, every thread that is in the thread table, and was when
\* the minimum was taken, has a generation no older than the region's.
RemovedAfterCheckIn ==
  [][\A r \in Region :
       deleteGen[r] # Absent /\ deleteGen'[r] = Absent =>
         \A t \in Thread \ late : InTable(t) => gen[t] >= deleteGen[r]]_vars

\* What the safety properties rest on.  The first two conjuncts tie the locks to
\* the threads' locations ...
LocksHeld ==
  /\ \A t \in Thread :
       loadMu = t <=> pc[t] \in {"tails", "heads", "min", "scan", "compare"}
  /\ \A t \in Thread : threadsMu = t <=> pc[t] = "scan"
  /\ loadMu # None => opRegion \in Region

\* ... a region that can be entered is nobody's to delete unless it was reopened,
\* and one that is being written is empty and closed, but for the strays ...
OpenRegions ==
  /\ \A r \in Region \ reopened : headsOpen[r] => deleteGen[r] = NotRequested
  /\ \A t \in Thread : pc[t] \in {"tails", "heads"} =>
       /\ deleteGen[opRegion] = NotRequested
       /\ headsOpen[opRegion] => opRegion \in reopened
       /\ \A u \in Thread \ strays : inside[u] # opRegion
  /\ \A t \in Thread : pc[t] \in {"min", "scan", "compare"} =>
       deleteGen[opRegion] >= 0

\* ... a thread inside a region that waits for deletion is behind it ...
InsideBehind ==
  \A t \in Thread : inside[t] # None =>
    /\ pc[t] = "user"
    /\ deleteGen[inside[t]] >= 0 /\ t \notin strays => gen[t] < deleteGen[inside[t]]

\* ... the scan has found a thread, no further behind than scanMin, in every slot
\* it passed; and what it found stays true, except of threads that came later,
\* which are not in the region.
ScanSound ==
  /\ \A t \in Thread : pc[t] = "scan" =>
       /\ scanIx <= numThreads
       /\ \A k \in Slot : k < scanIx =>
            table[k] # None /\ scanMin <= gen[table[k]]
  /\ \A t \in Thread : pc[t] = "compare" =>
       /\ \A u \in Thread \ late : InTable(u) => scanMin <= gen[u]
       /\ \A u \in late \ strays : inside[u] # opRegion
  /\ late # {} => \E t \in Thread : pc[t] = "compare"

\* The inductive invariant.
IInv ==
  /\ TypeOK /\ GenerationsOrdered /\ TableConsistent /\ LocksHeld
  /\ OpenRegions /\ InsideAllocated /\ InsideBehind /\ ScanSound /\ CodeStable

\* A delete request returns zero or -1; it does not bring the process down.
DeleteReturns == ~crashed
=============================================================================
