------------------------------- MODULE NcThread -------------------------------
(***************************************************************************)
(* The life of a thread in the untrusted pthread library                   *)
(* (src/untrusted/pthread/nc_thread.c): creation, exit, join, detach and   *)
(* the shutdown of the main thread.                                        *)
(*                                                                         *)
(* A thread is known by its basic data, which outlives the thread descrip- *)
(* tor block (TDB) until somebody has collected the thread's result.  A    *)
(* step is a critical section of __nc_thread_management_lock, or a piece   *)
(* of code between two of them that matters.                               *)
(***************************************************************************)
EXTENDS Integers, FiniteSets

CONSTANTS
  Thread,       \* basic data blocks: one for each thread that is ever created
  Main,         \* the main thread
  MaxThreadId,  \* MAX_THREAD_ID
  Careful,      \* does the program join or detach a thread at most once?
  None

ASSUME NcThreadAssumption ==
  /\ Main \in Thread /\ None \notin Thread
  /\ MaxThreadId \in Nat \ {0}
  /\ Careful \in BOOLEAN

VARIABLES
  pc,           \* where each thread is
  target,       \* the thread its call of pthread_create or pthread_join is about
  table,        \* basic data in __nc_thread_threads
  freed,        \* basic data released
  tdb,          \* basic data with a tdb pointer
  joinable,     \* tdb->joinable
  sawJoinable,  \* pthread_exit's local joinable
  joinWaiting,  \* tdb->join_waiting
  terminated,   \* status THREAD_TERMINATED
  id,           \* thread_id
  idCounter, idsUsed,  \* __nc_thread_id_counter, __nc_thread_counter_reached_32_bit
  runningThreads, \* __nc_running_threads_counter
  claimed,      \* threads nobody is to join or detach any more: created detached,
                \* never started, or a join or detach was called for them
  outcome       \* "up", "exited", or why it failed

dataVars == <<table, freed>>
tdbVars == <<tdb, joinable, joinWaiting, terminated>>
idVars == <<id, idCounter, idsUsed>>
vars == <<pc, target, dataVars, tdbVars, sawJoinable, idVars, runningThreads, claimed, outcome>>

Places ==
  {"unborn", "born",            \* before its first instruction
   "run",
   "create", "undo",            \* in pthread_create: around the system call
   "join", "joinWoken",         \* in pthread_join: asleep, awake
   "exit", "counted", "gone",   \* in pthread_exit
   "shutdown", "shutdownWoken"} \* in __pthread_shutdown: asleep, awake

InCall == {"create", "undo", "join", "joinWoken"}

\* Every thread is somewhere, and a call in progress is about some thread.
PlacesOK ==
  /\ pc \in [Thread -> Places]
  /\ target \in [Thread -> Thread \cup {None}]
  /\ \A t \in Thread : pc[t] \in InCall => target[t] \in Thread

DataOK ==
  /\ table \subseteq Thread /\ freed \subseteq Thread /\ claimed \subseteq Thread
  /\ tdb \subseteq Thread /\ joinable \subseteq Thread /\ sawJoinable \subseteq Thread
  /\ joinWaiting \subseteq Thread /\ terminated \subseteq Thread

IdsOK ==
  /\ id \in [Thread -> 0 .. MaxThreadId]
  /\ idCounter \in 1 .. MaxThreadId
  /\ idsUsed \in BOOLEAN

TypeOK ==
  /\ PlacesOK /\ DataOK /\ IdsOK
  /\ runningThreads \in Int
  /\ outcome \in {"up", "exited", "stale data", "unset data"}

\* __pthread_initialize.
Init ==
  /\ pc = [t \in Thread |-> IF t = Main THEN "run" ELSE "unborn"]
  /\ target = [t \in Thread |-> None]
  /\ table = {Main} /\ freed = {}
  /\ tdb = {Main} /\ joinable = {Main} /\ sawJoinable = {}
  /\ joinWaiting = {} /\ terminated = {}
  /\ id = [t \in Thread |-> 0]
  /\ idCounter = 1 /\ idsUsed = FALSE
  /\ runningThreads = 1
  /\ claimed = {Main}
  /\ outcome = "up"

Goto(t, place) == pc' = [pc EXCEPT ![t] = place]

\* nc_release_basic_data_mu
Release(t) == table' = table \ {t} /\ freed' = freed \cup {t}

-----------------------------------------------------------------------------
(* pthread_create *)

FreeIds == {i \in 0 .. MaxThreadId : \A t \in table : id[t] # i}

\* Mutant: the counter starts over and nobody looks whether the id is free.
AllocateIdWraps(t) ==
  /\ id' = [id EXCEPT ![t] = idCounter]
  /\ idCounter' = IF idCounter = MaxThreadId THEN 1 ELSE idCounter + 1
  /\ UNCHANGED idsUsed

\* nc_allocate_thread_id_mu, unless it fails
AllocateId(t) ==
  \/ /\ ~idsUsed
     /\ id' = [id EXCEPT ![t] = idCounter]
     /\ IF idCounter = MaxThreadId
        THEN idsUsed' = TRUE /\ UNCHANGED idCounter
        ELSE idCounter' = idCounter + 1 /\ UNCHANGED idsUsed
  \/ /\ idsUsed
     /\ \E i \in FreeIds : /\ \A k \in FreeIds : i <= k
                           /\ id' = [id EXCEPT ![t] = i]
     /\ UNCHANGED <<idCounter, idsUsed>>

\* The first critical section: everything is allocated and the thread is counted,
\* or it is not because there is no memory for its stack.  (When the id or the
\* descriptor block cannot be had, nothing that others can see has changed.)
Create(c, t, detached) ==
  /\ pc[c] = "run" /\ pc[t] = "unborn"
  /\ AllocateId(t)
  /\ \/ /\ pc' = [pc EXCEPT ![c] = "create", ![t] = "born"]
        /\ runningThreads' = runningThreads + 1
     \/ /\ pc' = [pc EXCEPT ![c] = "undo", ![t] = "born"]
        /\ UNCHANGED runningThreads
  /\ target' = [target EXCEPT ![c] = t]
  /\ table' = table \cup {t}
  /\ tdb' = tdb \cup {t}
  /\ joinable' = IF detached THEN joinable ELSE joinable \cup {t}
  /\ claimed' = IF detached THEN claimed \cup {t} ELSE claimed
  /\ UNCHANGED <<freed, sawJoinable, joinWaiting, terminated, outcome>>

\* malloc of the basic data fails: nc_release_tls_node writes through
\* tdb->basic_data, which has not been set.
CreateNoData(c) ==
  /\ pc[c] = "run"
  /\ outcome' = "unset data"
  /\ UNCHANGED <<pc, target, dataVars, tdbVars, sawJoinable, idVars, runningThreads, claimed>>

\* The system call starts the thread.
CreateStarts(c) ==
  /\ pc[c] = "create"
  /\ pc' = [pc EXCEPT ![c] = "run", ![target[c]] = "run"]
  /\ target' = [target EXCEPT ![c] = None]
  /\ UNCHANGED <<dataVars, tdbVars, sawJoinable, idVars, runningThreads, claimed, outcome>>

\* The system call fails, and the count is taken back ...
CreateFails(c) ==
  /\ pc[c] = "create"
  /\ Goto(c, "undo")
  /\ runningThreads' = runningThreads - 1
  /\ UNCHANGED <<target, dataVars, tdbVars, sawJoinable, idVars, claimed, outcome>>

\* ... then, in another critical section, everything is released.
CreateUndo(c) ==
  /\ pc[c] = "undo"
  /\ pc' = [pc EXCEPT ![c] = "run", ![target[c]] = "gone"]
  /\ target' = [target EXCEPT ![c] = None]
  /\ tdb' = tdb \ {target[c]}
  /\ Release(target[c])
  /\ claimed' = claimed \cup {target[c]}
  /\ UNCHANGED <<joinable, joinWaiting, terminated, sawJoinable, idVars, runningThreads, outcome>>

-----------------------------------------------------------------------------
(* pthread_exit *)

\* The descriptor is read, and destructors of thread-specific data may run.
Exit(t) ==
  /\ pc[t] = "run"
  /\ Goto(t, "exit")
  /\ sawJoinable' = IF t \in joinable THEN sawJoinable \cup {t} ELSE sawJoinable
  /\ UNCHANGED <<target, dataVars, tdbVars, idVars, runningThreads, claimed, outcome>>

ExitCount(t) ==
  /\ pc[t] = "exit" /\ id[t] # 0
  /\ Goto(t, "counted")
  /\ runningThreads' = runningThreads - 1
  /\ UNCHANGED <<target, dataVars, tdbVars, sawJoinable, idVars, claimed, outcome>>

Joiners(t) == {j \in Thread : pc[j] = "join" /\ target[j] = t}
LastJoined == {m \in Thread : pc[m] = "shutdown"}

\* The places after t has left and the threads of W were signalled.
Signalled(t, W) ==
  [s \in Thread |-> IF s = t THEN "gone"
                    ELSE IF s \notin W THEN pc[s]
                    ELSE IF pc[s] = "join" THEN "joinWoken" ELSE "shutdownWoken"]

\* Mutant: the last thread does not wake the main thread.
ExitFinishSilent(t) ==
  /\ pc[t] = "counted"
  /\ \E J \in SUBSET Joiners(t) :
       /\ Cardinality(J) = IF t \in sawJoinable /\ Joiners(t) # {} THEN 1 ELSE 0
       /\ pc' = Signalled(t, J)
  /\ terminated' = IF t \in sawJoinable THEN terminated \cup {t} ELSE terminated
  /\ tdb' = tdb \ {t}
  /\ IF t \in sawJoinable THEN UNCHANGED dataVars ELSE Release(t)
  /\ UNCHANGED <<target, joinable, joinWaiting, sawJoinable, idVars, runningThreads, claimed, outcome>>

\* Mutant: the joiner is not woken.
ExitFinishUnjoined(t) ==
  /\ pc[t] = "counted"
  /\ pc' = Signalled(t, IF runningThreads = 1 THEN LastJoined ELSE {})
  /\ terminated' = IF t \in sawJoinable THEN terminated \cup {t} ELSE terminated
  /\ tdb' = tdb \ {t}
  /\ IF t \in sawJoinable THEN UNCHANGED dataVars ELSE Release(t)
  /\ UNCHANGED <<target, joinable, joinWaiting, sawJoinable, idVars, runningThreads, claimed, outcome>>

\* Mutant: the basic data is released although a result waits to be collected.
ExitFinishReleases(t) ==
  /\ pc[t] = "counted"
  /\ pc' = Signalled(t, Joiners(t) \cup LastJoined)
  /\ terminated' = terminated \cup {t}
  /\ tdb' = tdb \ {t}
  /\ Release(t)
  /\ UNCHANGED <<target, joinable, joinWaiting, sawJoinable, idVars, runningThreads, claimed, outcome>>

\* A joinable thread wakes its joiner; the descriptor block is released, and the
\* basic data too unless the thread was joinable.  The last one wakes Main.
ExitFinish(t) ==
  /\ pc[t] = "counted"
  /\ \E J \in SUBSET Joiners(t) :
       /\ Cardinality(J) = IF t \in sawJoinable /\ Joiners(t) # {} THEN 1 ELSE 0
       /\ pc' = Signalled(t, J \cup (IF runningThreads = 1 THEN LastJoined ELSE {}))
  /\ terminated' = IF t \in sawJoinable THEN terminated \cup {t} ELSE terminated
  /\ tdb' = tdb \ {t}
  /\ IF t \in sawJoinable THEN UNCHANGED dataVars ELSE Release(t)
  /\ UNCHANGED <<target, joinable, joinWaiting, sawJoinable, idVars, runningThreads, claimed, outcome>>

\* Mutant: one other thread may be left.
ShutdownEarly(t) ==
  /\ pc[t] \in {"exit", "shutdownWoken"} /\ id[t] = 0
  /\ IF runningThreads <= 2
     THEN outcome' = "exited" /\ UNCHANGED pc
     ELSE Goto(t, "shutdown") /\ UNCHANGED outcome
  /\ UNCHANGED <<target, dataVars, tdbVars, sawJoinable, idVars, runningThreads, claimed>>

\* __pthread_shutdown and the exit of the process, for the thread with id 0
PthreadShutdown(t) ==
  /\ pc[t] \in {"exit", "shutdownWoken"} /\ id[t] = 0
  /\ IF runningThreads = 1
     THEN outcome' = "exited" /\ UNCHANGED pc
     ELSE Goto(t, "shutdown") /\ UNCHANGED outcome
  /\ UNCHANGED <<target, dataVars, tdbVars, sawJoinable, idVars, runningThreads, claimed>>

-----------------------------------------------------------------------------
(* pthread_join and pthread_detach *)

\* nc_find_tdb_mu
Find(i) == {b \in table : id[b] = i}

\* May the program join or detach t?  A careful one does so once, for a thread that
\* pthread_create has started.
MayClaim(t) ==
  /\ pc[t] # "unborn"
  /\ Careful => t \notin claimed /\ pc[t] # "born"

\* The thread runs: its joiner waits, unless it is detached or has a joiner.
Join(j, t) ==
  /\ pc[j] = "run" /\ id[j] # id[t] /\ MayClaim(t)
  /\ \E b \in Find(id[t]) \cap tdb :
       /\ b \in joinable /\ b \notin joinWaiting
       /\ joinWaiting' = joinWaiting \cup {b}
       /\ target' = [target EXCEPT ![j] = b]
  /\ Goto(j, "join")
  /\ claimed' = claimed \cup {t}
  /\ UNCHANGED <<dataVars, tdb, joinable, terminated, sawJoinable, idVars, runningThreads, outcome>>

\* The thread has terminated: its basic data is released.
JoinTerminated(j, t) ==
  /\ pc[j] = "run" /\ id[j] # id[t] /\ MayClaim(t)
  /\ \E b \in Find(id[t]) \ tdb : Release(b)
  /\ claimed' = claimed \cup {t}
  /\ UNCHANGED <<pc, target, tdbVars, sawJoinable, idVars, runningThreads, outcome>>

\* The wait for join_condvar is over, and so is the join if the thread has
\* terminated.
JoinAgain(j) ==
  /\ pc[j] = "joinWoken"
  /\ \/ /\ target[j] \in freed
        /\ outcome' = "stale data"
        /\ UNCHANGED <<pc, target, dataVars>>
     \/ /\ target[j] \notin freed /\ target[j] \in terminated
        /\ Release(target[j])
        /\ Goto(j, "run")
        /\ target' = [target EXCEPT ![j] = None]
        /\ UNCHANGED outcome
     \/ /\ target[j] \notin freed \cup terminated
        /\ Goto(j, "join")
        /\ UNCHANGED <<target, dataVars, outcome>>
  /\ UNCHANGED <<tdbVars, sawJoinable, idVars, runningThreads, claimed>>

Spurious(t) ==
  /\ pc[t] \in {"join", "shutdown"}
  /\ Goto(t, IF pc[t] = "join" THEN "joinWoken" ELSE "shutdownWoken")
  /\ UNCHANGED <<target, dataVars, tdbVars, sawJoinable, idVars, runningThreads, claimed, outcome>>

\* The thread runs: it becomes detached, unless it is already or has a joiner.
Detach(d, t) ==
  /\ pc[d] = "run" /\ MayClaim(t)
  /\ \E b \in Find(id[t]) \cap tdb :
       joinable' = IF b \in joinWaiting THEN joinable ELSE joinable \ {b}
  /\ claimed' = claimed \cup {t}
  /\ UNCHANGED <<pc, target, dataVars, tdb, joinWaiting, terminated, sawJoinable, idVars,
                 runningThreads, outcome>>

DetachTerminated(d, t) ==
  /\ pc[d] = "run" /\ MayClaim(t)
  /\ \E b \in Find(id[t]) \ tdb : Release(b)
  /\ claimed' = claimed \cup {t}
  /\ UNCHANGED <<pc, target, tdbVars, sawJoinable, idVars, runningThreads, outcome>>

-----------------------------------------------------------------------------

\* The steps of a thread in the middle of a call.
Proceed(t) ==
  \/ CreateStarts(t) \/ CreateFails(t) \/ CreateUndo(t)
  \/ ExitCount(t) \/ ExitFinish(t) \/ PthreadShutdown(t) \/ JoinAgain(t)

Begin(t) ==
  \/ CreateNoData(t) \/ Exit(t) \/ Spurious(t)
  \/ \E s \in Thread : \/ \E detached \in BOOLEAN : Create(t, s, detached)
                       \/ Join(t, s) \/ JoinTerminated(t, s)
                       \/ Detach(t, s) \/ DetachTerminated(t, s)

Next == outcome = "up" /\ \E t \in Thread : Proceed(t) \/ Begin(t)

Spec == Init /\ [][Next]_vars

\* A thread that can go on in the library does so.
Fairness == \A t \in Thread : WF_vars(outcome = "up" /\ Proceed(t))

FairSpec == Spec /\ Fairness

-----------------------------------------------------------------------------
(* Properties. *)

Joining == {j \in Thread : pc[j] \in {"join", "joinWoken"}}

\* Two threads whose basic data is kept never have the same id, also when the ids
\* have run out and pthread_create looks for one that is free.
UniqueIds == \A s, t \in table : id[s] = id[t] => s = t

\* The process exits only after every thread that was started, or may still be
\* started, has left the program and said so.
ShutdownWaits ==
  outcome = "exited" =>
    \A t \in Thread \ {Main} : pc[t] \in {"unborn", "counted", "gone"}

\* The basic data of a thread is there as long as the thread has not left, and as
\* long as a joiner waits for it, which is what pthread_join relies on when it
\* wakes up.  (Careful programs.)
DataKept ==
  /\ \A t \in Thread : pc[t] \notin {"unborn", "gone"} => t \in table
  /\ \A j \in Joining : target[j] \in table
  /\ outcome # "stale data"

\* A joiner, asleep or woken for nothing, returns once its thread is about to leave
\* pthread_exit: the signal is not lost, and the joiner does not go back to sleep
\* after it.
JoinReturns ==
  \A j \in Thread :
    j \in Joining /\ pc[target[j]] \in {"counted", "gone"}
      ~> pc[j] = "run" \/ outcome # "up"

\* The main thread leaves __pthread_shutdown once all other threads are done.
LastThreadWakesMain ==
  pc[Main] = "shutdown" /\ runningThreads = 1 ~> outcome # "up"

\* The ids handed out in order are below the counter.
IdsBelowCounter == ~idsUsed => \A t \in table : id[t] < idCounter

IdInv == PlacesOK /\ DataOK /\ IdsOK /\ UniqueIds /\ IdsBelowCounter

\* The stages of a thread's basic data.
DataStages ==
  /\ \A t \in Thread : t \in tdb <=> pc[t] \notin {"unborn", "gone"}
  /\ tdb \subseteq table
  /\ \A t \in Thread : pc[t] = "unborn" => t \notin table \cup freed
  /\ \A t \in terminated : pc[t] = "gone"
  /\ table \cap freed = {}

\* A thread that is not yet started has one creator, which is in pthread_create.
Creating == {c \in Thread : pc[c] \in {"create", "undo"}}
OneCreator ==
  /\ \A c \in Creating : pc[target[c]] = "born"
  /\ \A c, d \in Creating : target[c] = target[d] => c = d

\* Who may release the basic data of a thread: its only joiner, whoever claims the
\* thread when it has terminated, or the thread itself if it saw itself detached.
OneCollector ==
  /\ \A t \in Thread : pc[t] # "unborn" /\ t \notin claimed => t \in table /\ t \in joinable
  /\ joinWaiting \subseteq joinable \cap claimed
  /\ \A j \in Joining : target[j] \in table \cap joinWaiting /\ pc[target[j]] # "born"
  /\ \A j, k \in Joining : target[j] = target[k] => j = k
  /\ \A t \in Thread : pc[t] \in {"exit", "counted"} /\ t \in joinable => t \in sawJoinable

DataInv == IdInv /\ DataStages /\ OneCreator /\ OneCollector /\ outcome # "stale data"

=============================================================================
