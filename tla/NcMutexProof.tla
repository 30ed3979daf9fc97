---------------------------- MODULE NcMutexProof ----------------------------
(***************************************************************************)
(* Proofs about the mutexes, for any number of threads.                    *)
(*                                                                         *)
(* First the runtime's interruptible mutex (IntrMutex, instance Mu of      *)
(* NcMutex); then the library's mutexes, condition variables and           *)
(* pthread_once on top of it (NcMutex).                                    *)
(***************************************************************************)
EXTENDS NcMutex, TLAPS

-----------------------------------------------------------------------------
(* The runtime's mutex. *)

\* A wakeup leaves threads at places of the code.
LEMMA AwakeType == \A p \in Mu!Places : Mu!Awake(p) \in {"locking", "relocking"}
BY Zenon DEF Mu!Awake

\* NaClCondVarSignal wakes at most one thread, a sleeper, and one if there is any.
LEMMA SignalWakes ==
  ASSUME Mu!TypeOK, NEW S \in SUBSET Thread, NEW p \in Mu!WakeOne(S)
  PROVE  /\ p \in [Thread -> Mu!Places]
         /\ S = {} => p = pc
         /\ S # {} => \E w \in S : /\ p[w] \in {"locking", "relocking"}
                                   /\ \A t \in Thread \ {w} : p[t] = pc[t]
<1>1. CASE S = {}
  BY <1>1, Zenon DEF Mu!TypeOK, Mu!WakeOne
<1>2. CASE S # {}
  <2>1. PICK w \in S : p = [pc EXCEPT ![w] = Mu!Awake(pc[w])]
    BY <1>2, Zenon DEF Mu!WakeOne
  <2>2. Mu!Awake(pc[w]) \in {"locking", "relocking"}
    BY AwakeType, Zenon DEF Mu!TypeOK
  <2> QED
    BY <1>2, <2>1, <2>2, Zenon DEF Mu!TypeOK, Mu!Places
<1> QED
  BY <1>1, <1>2, Zenon

\* NaClCondVarBroadcast wakes the sleepers and no other thread.
LEMMA BroadcastWakes ==
  ASSUME Mu!TypeOK, NEW S \in SUBSET Thread
  PROVE  /\ Mu!WakeAll(S) \in [Thread -> Mu!Places]
         /\ \A t \in S : Mu!WakeAll(S)[t] \in {"locking", "relocking"}
         /\ \A t \in Thread \ S : Mu!WakeAll(S)[t] = pc[t]
BY AwakeType, Zenon DEF Mu!TypeOK, Mu!WakeAll, Mu!Places

\* Taking part in the contest for the mutex, from Lock or from the end of a wait,
\* keeps the invariant.
LEMMA ContendStep ==
  ASSUME Mu!IInv, NEW t \in Thread,
         NEW sleep \in {"lockSleep", "relockSleep"}, NEW holders \in SUBSET {t},
         Mu!Contend(t, sleep, holders)
  PROVE  Mu!IInv'
  BY Zenon DEF Mu!IInv, Mu!TypeOK, Mu!Contend, Mu!Places, Mu!MutualExclusion, Mu!NoLostWakeup

\* A release, in Unlock or in CondVarWait, wakes a sleeper if there is one.
LEMMA ReleaseWakes ==
  ASSUME Mu!TypeOK, NEW t \in Thread, pc[t] = "out",
         \/ pc' \in Mu!WakeOne(Mu!Sleepers)
         \/ pc' \in {[p EXCEPT ![t] = "condSleep"] : p \in Mu!WakeOne(Mu!Sleepers)}
  PROVE  pc' \in [Thread -> Mu!Places] /\ (Mu!Sleepers' # {} => Mu!Woken' # {})
  BY SignalWakes DEF Mu!Sleepers, Mu!TypeOK, Mu!Places, Mu!Woken

\* A thread that gives the mutex up was the only one that held it.
LEMMA ReleaseStep ==
  ASSUME Mu!IInv, NEW t \in Thread, Mu!Unlock(t) \/ Mu!CondVarWait(t)
  PROVE  Mu!IInv'
  BY ReleaseWakes, Zenon DEF Mu!IInv, Mu!Unlock, Mu!CondVarWait, Mu!TypeOK, Mu!MutualExclusion,
      Mu!NoLostWakeup

\* Waking threads without touching the mutex keeps the invariant.
LEMMA WakeStep ==
  ASSUME Mu!IInv, pc' \in [Thread -> Mu!Places],
         UNCHANGED <<lock_state, owners, interrupted, fatal>>,
         \A t \in Thread : pc'[t] = pc[t] \/ pc'[t] \in {"locking", "relocking"}
  PROVE  Mu!IInv'
  BY Zenon DEF Mu!IInv, Mu!TypeOK, Mu!MutualExclusion, Mu!Sleepers, Mu!Woken, Mu!NoLostWakeup

\* Every step keeps the invariant.
LEMMA InvStep == Mu!IInv /\ [Mu!Next]_(Mu!vars) => Mu!IInv'
<1> SUFFICES ASSUME Mu!IInv, [Mu!Next]_(Mu!vars) PROVE Mu!IInv'
  BY Zenon
<1>1. ASSUME NEW t \in Thread, Mu!Lock(t) \/ Mu!LockAgain(t) PROVE Mu!IInv'
    BY <1>1, ContendStep, Zenon DEF Mu!Lock, Mu!LockAgain
<1>2. ASSUME NEW t \in Thread, Mu!TryLock(t) PROVE Mu!IInv'
  BY <1>2, Zenon DEF Mu!TryLock, Mu!IInv, Mu!TypeOK, Mu!MutualExclusion, Mu!NoLostWakeup
<1>3. ASSUME NEW t \in Thread, Mu!Unlock(t) \/ Mu!CondVarWait(t) PROVE Mu!IInv'
  BY <1>3, ReleaseStep, Zenon
<1>4. ASSUME NEW t \in Thread, Mu!CondVarRelock(t) PROVE Mu!IInv'
    BY <1>4, ContendStep, Zenon DEF Mu!CondVarRelock
<1>5. ASSUME NEW t \in Thread, Mu!WakeUp(t) PROVE Mu!IInv'
    BY AwakeType, <1>5, WakeStep DEF Mu!IInv, Mu!TypeOK, Mu!WakeUp, Mu!Places
<1>6. ASSUME Mu!Intr PROVE Mu!IInv'
    BY <1>6, BroadcastWakes, Zenon DEF Mu!Sleepers, Mu!Intr, Mu!IInv, Mu!TypeOK,
        Mu!MutualExclusion, Mu!NoLostWakeup
<1>7. ASSUME Mu!Reset PROVE Mu!IInv'
  <2>1. Mu!TypeOK' /\ Mu!MutualExclusion'
    BY <1>7, Zenon DEF Mu!Reset, Mu!Quiescent, Mu!IInv, Mu!TypeOK, Mu!MutualExclusion
  <2>2. Mu!Sleepers' = {}
    BY <1>7, Zenon DEF Mu!Reset, Mu!Quiescent, Mu!Sleepers
  <2> QED
    BY <2>1, <2>2, Zenon DEF Mu!IInv, Mu!NoLostWakeup
<1>8. ASSUME Mu!CondVarSignal PROVE Mu!IInv'
    BY <1>8, SignalWakes, WakeStep DEF Mu!CondSleepers, Mu!CondVarSignal, Mu!IInv
<1>9. ASSUME Mu!CondVarBroadcast PROVE Mu!IInv'
    BY <1>9, BroadcastWakes, WakeStep, Zenon DEF Mu!CondSleepers, Mu!CondVarBroadcast, Mu!IInv
<1>10. ASSUME UNCHANGED Mu!vars PROVE Mu!IInv'
  BY <1>10, Zenon DEF Mu!vars, Mu!IInv, Mu!TypeOK, Mu!MutualExclusion, Mu!NoLostWakeup, Mu!Sleepers, Mu!Woken
<1> QED
  BY <1>1, <1>2, <1>3, <1>4, <1>5, <1>6, <1>7, <1>8, <1>9, <1>10, Zenon DEF Mu!Next, Mu!Step

\* From the start, or from a reset, to the next interruption at most one thread is
\* holders that it holds the mutex, and no sleeper is forgotten.
THEOREM LockSafe == Mu!Spec => [](Mu!MutualExclusion /\ Mu!NoLostWakeup)
<1>1. Mu!Init => Mu!IInv
  BY Zenon DEF Mu!Init, Mu!IInv, Mu!TypeOK, Mu!MutualExclusion, Mu!NoLostWakeup, Mu!Sleepers, Mu!Places
<1>2. Mu!IInv => Mu!MutualExclusion /\ Mu!NoLostWakeup
  BY Zenon DEF Mu!IInv
<1> QED
  BY <1>1, <1>2, InvStep, PTL DEF Mu!Spec

-----------------------------------------------------------------------------
(* What a step of the runtime does to the threads. *)

\* Sleepers are woken, and nothing else happens to any thread but t.
Stirs(t) ==
  /\ pc' \in [Thread -> Mu!Places]
  /\ \A s \in Thread \ {t} :
       \/ pc'[s] = pc[s]
       \/ pc[s] = "lockSleep" /\ pc'[s] = "locking"
       \/ pc[s] \in {"relockSleep", "condSleep"} /\ pc'[s] = "relocking"

\* Waking one sleeper sends it back to what it slept in.
LEMMA OneStirs ==
  ASSUME Mu!TypeOK, NEW S \in SUBSET (Mu!Sleepers \cup Mu!CondSleepers),
         NEW p \in Mu!WakeOne(S)
  PROVE  /\ p \in [Thread -> Mu!Places]
         /\ \A s \in Thread :
              \/ p[s] = pc[s]
              \/ pc[s] = "lockSleep" /\ p[s] = "locking"
              \/ pc[s] \in {"relockSleep", "condSleep"} /\ p[s] = "relocking"
  BY Zenon DEF Mu!TypeOK, Mu!WakeOne, Mu!Awake, Mu!Sleepers, Mu!CondSleepers, Mu!Places

\* Waking all of them does so for each.
LEMMA AllStir ==
  ASSUME Mu!TypeOK, NEW S \in SUBSET (Mu!Sleepers \cup Mu!CondSleepers),
         pc' = Mu!WakeAll(S)
  PROVE  Stirs(Nobody)
  BY Zenon DEF Mu!TypeOK, Mu!WakeAll, Mu!Awake, Mu!Sleepers, Mu!CondSleepers, Mu!Places, Stirs

\* Taking the lock gives the thread the mutex or puts it to sleep.
LEMMA LockEffect ==
  ASSUME Mu!IInv, NEW t \in Thread, Mu!Lock(t) \/ Mu!LockAgain(t)
  PROVE  /\ pc' = [pc EXCEPT ![t] = pc'[t]] /\ pc'[t] \in {"out", "lockSleep"}
         /\ Mu!LockAgain(t) => pc[t] = "locking"
         /\ owners \subseteq owners'
         /\ UNCHANGED <<interrupted, fatal>>
  BY Zenon DEF Mu!IInv, Mu!TypeOK, Mu!Lock, Mu!LockAgain, Mu!Contend

\* Taking it again after a condition variable does the same.
LEMMA RelockEffect ==
  ASSUME Mu!IInv, NEW t \in Thread, Mu!CondVarRelock(t)
  PROVE  /\ pc' = [pc EXCEPT ![t] = pc'[t]] /\ pc'[t] \in {"out", "relockSleep"}
         /\ pc[t] = "relocking"
         /\ owners \subseteq owners' /\ (pc'[t] = "out" => t \in owners')
         /\ UNCHANGED <<interrupted, fatal>>
  BY Zenon DEF Mu!IInv, Mu!TypeOK, Mu!CondVarRelock, Mu!Contend

\* Unlocking takes the mutex away from the thread and wakes sleepers.
LEMMA UnlockEffect ==
  ASSUME Mu!IInv, NEW t \in Thread, Mu!Unlock(t)
  PROVE  /\ Stirs(Nobody) /\ pc[t] = "out"
         /\ owners' = owners \ {t}
         /\ UNCHANGED <<interrupted, fatal>>
  BY OneStirs, Zenon DEF Mu!IInv, Mu!Unlock, Stirs

\* Waiting gives up the mutex and puts the thread to sleep.
LEMMA WaitEffect ==
  ASSUME Mu!IInv, NEW t \in Thread, Mu!CondVarWait(t)
  PROVE  /\ Stirs(t) /\ pc[t] = "out" /\ pc'[t] = "condSleep"
         /\ owners' = owners \ {t}
         /\ UNCHANGED <<interrupted, fatal>>
  BY OneStirs DEF Mu!CondVarWait, Mu!IInv, Stirs, Mu!Places

\* A signal or broadcast wakes sleepers and touches no owner.
LEMMA SignalEffect ==
  ASSUME Mu!IInv, Mu!CondVarSignal \/ Mu!CondVarBroadcast
  PROVE  Stirs(Nobody) /\ UNCHANGED <<lock_state, owners, interrupted, fatal>>
  BY OneStirs, AllStir, Zenon DEF Mu!IInv, Mu!CondVarSignal, Stirs, Mu!CondVarBroadcast

\* A spurious wake-up or a timeout touches no owner.
LEMMA WakeUpEffect ==
  ASSUME Mu!IInv, NEW t \in Thread, Mu!WakeUp(t)
  PROVE  /\ Stirs(Nobody) /\ pc[t] # "out"
         /\ UNCHANGED <<lock_state, owners, interrupted, fatal>>
  BY Zenon DEF Mu!IInv, Mu!TypeOK, Mu!WakeUp, Mu!Awake, Mu!Sleepers, Mu!CondSleepers,
         Mu!Places, Stirs

\* An interrupt takes the mutex away from nobody; a reset finds it at rest.
LEMMA InterruptEffect ==
  ASSUME Mu!IInv, Mu!Intr \/ Mu!Reset
  PROVE  /\ Stirs(Nobody) /\ UNCHANGED owners
         /\ interrupted' \/ Mu!Quiescent
  BY AllStir, Zenon DEF Mu!IInv, Mu!TypeOK, Mu!Intr, Stirs, Mu!Reset

\* The counter of a recursive mutex does not wrap where it counts.
LEMMA CountUp ==
  ASSUME NEW c \in Nat, c < MaxDepth
  PROVE  (c + 1) % Modulus = c + 1
  BY NcMutexAssumption

\* The recursion counter counts down modulo its width.
LEMMA CountDown ==
  ASSUME NEW c \in 0 .. Modulus - 1
  PROVE  /\ (c + Modulus - 1) % Modulus \in 0 .. Modulus - 1
         /\ c > 0 => (c + Modulus - 1) % Modulus = c - 1
  BY NcMutexAssumption

-----------------------------------------------------------------------------
(* The library: the invariant. *)

\* The types of mutex that have an owner.
Checked == {"RECURSIVE", "ERRORCHECK"}

\* Which calls a thread can be in at each place, and what the program had to
\* fulfil to make them.
CallInv ==
  /\ \A t \in Thread :
       /\ at[t] = "program" <=> op[t] = "none"
       /\ at[t] = "check" => op[t] \in {"lock", "trylock", "once", "unlock", "onceUnlock"}
       /\ at[t] = "call" => op[t] \notin {"unlock", "onceUnlock"}
       /\ at[t] = "asleep" => op[t] \in {"lock", "once", "wait", "timedwait"}
       /\ at[t] = "got" => op[t] \in {"lock", "trylock", "once"}
       /\ at[t] = "release" => op[t] \in {"unlock", "onceUnlock"}
       /\ at[t] = "woken" => op[t] \in {"wait", "timedwait"}
       /\ at[t] \in {"onceLocked", "onceInit"} => op[t] = "once"
       /\ op[t] # "none" => (op[t] \in {"once", "onceUnlock"} <=> mutex_type = "ONCE")
       /\ op[t] \in {"lock", "trylock"} => depth[t] < MaxDepth
       /\ op[t] = "unlock" => depth[t] > 0 \/ mutex_type = "ERRORCHECK"
       /\ op[t] \in {"wait", "timedwait"} => depth[t] = 1
       /\ op[t] = "timedwait" => mutex_type \in TimedTypes
       /\ status[t] = "ETIMEDOUT" => op[t] = "timedwait" /\ at[t] \in {"asleep", "woken"}
       /\ mutex_type = "ONCE" => depth[t] = 0

\* A thread sleeps in the runtime exactly while it is asleep in the library.
SleepInv ==
  \A t \in Thread :
    /\ at[t] = "asleep" <=> pc[t] # "out"
    /\ pc[t] \in {"locking", "lockSleep"} => op[t] \in {"lock", "once"}
    /\ pc[t] \in {"condSleep", "relocking", "relockSleep"} => op[t] \in {"wait", "timedwait"}

\* The creation of the objects: one creator at a time, nobody past it before.
CreateInv ==
  /\ \A t \in Thread :
       /\ at[t] = "create" => spinlock[ObjectOf(op[t])] = t
       /\ at[t] \notin {"program", "validate", "create"} => handle[ObjectOf(op[t])] # "invalid"
       /\ op[t] = "onceUnlock" => at[t] \in {"check", "release"}
  /\ \A o \in Object : spinlock[o] # Nobody => handle[o] = "invalid"
  /\ handle["mutex"] # "ok" =>
       /\ owner_thread_id = Nobody /\ Mu!Quiescent
       /\ \A t \in Thread : depth[t] = 0 /\ at[t] # "got"

\* Threads that take the runtime's mutex for theirs.
Relies(t) ==
  \/ at[t] \in {"got", "onceLocked", "onceInit"}
  \/ op[t] = "onceUnlock"
  \/ depth[t] > 0 /\ ~(at[t] = "asleep" /\ op[t] \in {"wait", "timedwait"})

OwnersInv ==
  handle["mutex"] = "ok" => \A t \in Thread : Relies(t) => t \in owners

\* The fields.
FieldInv ==
  mutex_type \in Checked =>
    /\ owner_thread_id # Nobody =>
         /\ depth[owner_thread_id] > 0 /\ at[owner_thread_id] # "release"
         /\ mutex_type = "RECURSIVE" =>
              recursion_counter > 0 /\ recursion_counter <= depth[owner_thread_id]
    /\ ~interrupted /\ TimedTypes \cap Checked = {} => \A t \in Thread :
         /\ depth[t] > 0 /\ at[t] \notin {"release", "asleep", "woken"} =>
              /\ owner_thread_id = t
              /\ mutex_type = "RECURSIVE" => recursion_counter = depth[t]
         /\ at[t] \in {"call", "asleep", "got"} /\ op[t] \in {"lock", "trylock"} => depth[t] = 0

\* pthread_once.
OnceInv ==
  /\ mutex_type # "ONCE" => inits = 0 /\ onceReturned = {}
  /\ mutex_type = "ONCE" => ~interrupted
  /\ mutex_type = "ONCE" /\ handle["mutex"] # "bad" =>
       /\ inits <= 1
       /\ ~done /\ inits > 0 => \E t \in Thread : at[t] = "onceInit"
       /\ onceReturned # {} => done
       /\ \A t \in Thread :
            /\ at[t] = "onceInit" => ~done
            /\ op[t] = "onceUnlock" => done

\* The types that the argument needs.
NcTypes ==
  /\ mutex_type \in {"FAST", "RECURSIVE", "ERRORCHECK", "ONCE"}
  /\ handle \in [Object -> {"invalid", "ok", "bad"}]
  /\ spinlock \in [Object -> Thread \cup {Nobody}]
  /\ owner_thread_id \in Thread \cup {Nobody}
  /\ recursion_counter \in 0 .. Modulus - 1
  /\ at \in [Thread -> Places] /\ op \in [Thread -> Calls]
  /\ status \in [Thread -> {"ok", "ETIMEDOUT"}]
  /\ depth \in [Thread -> 0 .. MaxDepth]
  /\ inits \in Nat /\ onceReturned \subseteq Thread

Parts ==
  /\ NcTypes /\ CallInv /\ SleepInv /\ CreateInv /\ OwnersInv /\ FieldInv /\ OnceInv

NcInv == Mu!IInv /\ Parts

-----------------------------------------------------------------------------
(* It is kept. *)

\* A step of the library keeps every part of the invariant.
LEMMA PartsStep == NcInv /\ [Next]_vars => Parts'
<1>. SUFFICES ASSUME NcInv, [Next]_vars PROVE Parts'
  BY Zenon
<1>. USE NcMutexAssumption DEF NcInv, Parts, NcTypes, Places, Calls, Object,
    ObjectOf, CallInv, SleepInv, CreateInv, OwnersInv, Relies, FieldInv,
    Checked, OnceInv, Stirs, Mu!IInv, Mu!MutualExclusion, Mu!Quiescent,
    muVars, fieldVars, createVars, onceVars
<1>1. \A t \in Thread : Call(t) => Parts'
  BY DEF Call, MayCall, Enter, Goto, Validated
<1>2. \A t \in Thread : Validate(t) => Parts'
  BY DEF Validate, Goto, Validated
<1>3. \A t \in Thread : Create(t) => Parts'
  BY DEF Create, Goto, Validated
<1>4. \A t \in Thread : CheckOwner(t) => Parts'
  BY CountUp DEF CheckOwner, Return, Goto
<1>5. \A t \in Thread : SysLock(t) => Parts'
  BY LockEffect DEF SysLock, Locking, Return, Goto, Mu!TypeOK
<1>6. \A t \in Thread : LockAgain(t) => Parts'
  BY LockEffect DEF LockAgain, Locking, Return, Goto, Mu!TypeOK
<1>7. \A t \in Thread : SysTryLock(t) => Parts'
  BY DEF SysTryLock, Mu!TryLock, Return, Goto
<1>8. \A t \in Thread : BadMutex(t) => Parts'
  BY DEF BadMutex, LockReturns, Return, Goto
<1>9. \A t \in Thread : SetOwner(t) => Parts'
  BY DEF SetOwner, LockReturns, Return, Goto
<1>10. \A t \in Thread : CheckUnlock(t) => Parts'
  <2>. TAKE t \in Thread
  <2>1. CheckUnlock(t) => FieldInv' /\ OwnersInv'
    BY CountDown DEF CheckUnlock, Return, Goto
  <2>2. CheckUnlock(t) => NcTypes' /\ CallInv' /\ SleepInv' /\ CreateInv' /\ OnceInv'
    BY CountDown DEF CheckUnlock, Return, Goto
  <2>. QED
    BY <2>1, <2>2, Zenon DEF Parts
<1>11. \A t \in Thread : SysUnlock(t) => Parts'
  BY UnlockEffect, SMTT(30) DEF SysUnlock, UnlockReturns, Return, Goto
<1>12. \A t \in Thread : SysWait(t) => Parts'
  BY WaitEffect, SMTT(30) DEF SysWait, Return, Goto
<1>13. \A t \in Thread : Relock(t) => Parts'
  BY RelockEffect DEF Relock, Goto, Mu!TypeOK
<1>14. \A t \in Thread : WaitReturns(t) => Parts'
  BY DEF WaitReturns, Return, Goto
<1>15. \A t \in Thread : SysSignal(t) => Parts'
  BY SignalEffect DEF SysSignal, Return, Goto
<1>16. \A t \in Thread : OnceCheck(t) => Parts'
  BY DEF OnceCheck, Enter, Goto, Validated
<1>17. \A t \in Thread : OnceDone(t) => Parts'
  BY DEF OnceDone, Enter, Goto, Validated
<1>18. \A t \in Thread : WakeUp(t) => Parts'
  BY WakeUpEffect DEF WakeUp
<1>19. Destroy => Parts'
  BY DEF Destroy
<1>20. Interrupt => Parts'
  BY InterruptEffect DEF Interrupt
<1>21. UNCHANGED vars => Parts'
  BY DEF vars
<1>. HIDE DEF Parts
<1>. QED
  BY Zenon, <1>1, <1>2, <1>3, <1>4, <1>5, <1>6, <1>7, <1>8, <1>9, <1>10, <1>11,
      <1>12, <1>13, <1>14, <1>15, <1>16, <1>17, <1>18, <1>19, <1>20, <1>21
  DEF Next, Library

\* Every step of the library is a step of the runtime's objects, or leaves them
\* alone; only the creation of the mutex sets them up.
LEMMA RuntimeStep ==
  ASSUME Next, \A t \in Thread : ~Create(t)
  PROVE  [Mu!Next]_(Mu!vars)
<1>. USE DEF muVars, Mu!vars
<1>1. \A t \in Thread :
        Call(t) \/ Validate(t) \/ CheckOwner(t) \/ BadMutex(t) \/ SetOwner(t)
          \/ CheckUnlock(t) \/ WaitReturns(t) \/ OnceCheck(t) \/ OnceDone(t)
          => UNCHANGED Mu!vars
  BY DEF Call, Validate, CheckOwner, BadMutex, SetOwner, CheckUnlock, WaitReturns,
         OnceCheck, OnceDone
<1>2. \A t \in Thread :
        SysLock(t) \/ LockAgain(t) \/ SysTryLock(t) \/ SysUnlock(t) \/ SysWait(t)
          \/ Relock(t) \/ WakeUp(t)
          => Mu!Step(t) \/ UNCHANGED Mu!vars
  BY Zenon DEF SysLock, LockAgain, SysTryLock, SysUnlock, SysWait, Relock, WakeUp, Mu!Step
<1>3. \A t \in Thread :
        SysSignal(t) => Mu!CondVarSignal \/ Mu!CondVarBroadcast \/ UNCHANGED Mu!vars
  BY Zenon DEF SysSignal
<1>4. Destroy => UNCHANGED Mu!vars
  BY Zenon DEF Destroy
<1>5. Interrupt => Mu!Intr \/ Mu!Reset
  BY Zenon DEF Interrupt
<1>. HIDE DEF muVars, Mu!vars
<1>. QED
  BY <1>1, <1>2, <1>3, <1>4, <1>5, Zenon DEF Next, Library, Mu!Next

\* A mutex that is created has nobody asleep on it and no owner.
LEMMA RuntimeCreated ==
  ASSUME NcInv, NEW t \in Thread, Create(t)
  PROVE  Mu!IInv'
<1>1. CASE ObjectOf(op[t]) = "mutex"
  <2>1. Mu!Quiescent
    BY <1>1, NcMutexAssumption DEF NcInv, Parts, CreateInv, Create, Object
  <2>. QED
    BY <1>1, <2>1, Zenon DEF NcInv, Create, Mu!IInv, Mu!TypeOK, Mu!MutualExclusion,
                      Mu!NoLostWakeup, Mu!Quiescent, Mu!Sleepers
<1>2. CASE ObjectOf(op[t]) # "mutex"
    BY <1>2, InvStep, Zenon DEF Create, Mu!vars, NcInv
<1>. QED
  BY <1>1, <1>2, Zenon

\* The statically initialized objects.
LEMMA NcInitInv == Init => NcInv
<1>. SUFFICES ASSUME Init PROVE NcInv
  BY Zenon
<1>1. Mu!IInv
  BY Zenon DEF Init, Mu!Init, Mu!IInv, Mu!TypeOK, Mu!MutualExclusion, Mu!NoLostWakeup,
         Mu!Sleepers, Mu!Places
<1>2. NcTypes
  BY NcMutexAssumption DEF Init, NcTypes, Places, Calls, Object
<1>. QED
  BY <1>1, <1>2, NcMutexAssumption
     DEF Init, Mu!Init, NcInv, Parts, CallInv, SleepInv, CreateInv, Relies, OwnersInv,
         FieldInv, OnceInv, Object, Mu!Quiescent, Checked

\* The parts of the invariant together.
LEMMA NcNextInv == NcInv /\ [Next]_vars => NcInv'
  BY RuntimeStep, RuntimeCreated, InvStep, PartsStep, Zenon DEF vars, muVars, Mu!vars, NcInv

\* The invariant of the library's mutex, in every reachable state.
LEMMA NcInvariant == Spec => []NcInv
  BY NcInitInv, NcNextInv, PTL DEF Spec

\* While the library's threads lock, wait for and signal the runtime's objects
\* (nacl_interruptible_mutex.c:87), and create and destroy them, no sleeper of a
\* free mutex is forgotten: for any number of threads.
THEOREM WakeupsKept == Spec => []NoLostWakeup
<1>1. NcInv => NoLostWakeup
  BY Zenon DEF NcInv, Mu!IInv, NoLostWakeup
<1>. QED
  BY <1>1, NcInvariant, PTL

\* Two threads never both count as holding a pthread mutex that was created, by
\* whichever of the racing first calls (nc_mutex.c:31), unless it is interrupted.
THEOREM PthreadExclusion == Spec => []LibraryExclusion
<1>1. NcInv => LibraryExclusion
  BY Zenon DEF NcInv, Mu!IInv, Mu!MutualExclusion, LibraryExclusion, Holds, Relies,
         OwnersInv, Parts
<1>. QED
  BY <1>1, NcInvariant, PTL

\* The unsynchronized test of owner_thread_id (nc_mutex.c:72) is right for any
\* number of threads and any depth, as long as no timed wait is used with a mutex
\* that has an owner: one that times out does not set the owner again
\* (nc_condvar.c:96).
THEOREM OwnersKnown ==
  ASSUME TimedTypes \cap {"RECURSIVE", "ERRORCHECK"} = {}
  PROVE  Spec => []OwnerRight
<1>1. NcInv => OwnerRight
  BY NcMutexAssumption DEF NcInv, Parts, NcTypes, FieldInv, OwnerRight, Checked
<1>. QED
  BY <1>1, NcInvariant, PTL

\* pthread_once calls the init routine at most once and returns after it (pthread.h:660),
\* for any number of threads that call it, if its mutex could be created.
THEOREM OnceSafe == Spec => []OnceRight
<1>1. NcInv => OnceRight
  BY DEF NcInv, Parts, NcTypes, OnceInv, OnceRight
<1>. QED
  BY <1>1, NcInvariant, PTL

=============================================================================
