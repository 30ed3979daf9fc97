------------------------------- MODULE NcMutex -------------------------------
(***************************************************************************)
(* The mutexes, condition variables and pthread_once of the untrusted      *)
(* library (nc_mutex.c, nc_condvar.c), on top of the runtime's             *)
(* interruptible mutex and condition variable (module IntrMutex).          *)
(*                                                                         *)
(* There is one pthread_mutex_t and one pthread_cond_t, both statically    *)
(* initialized, so that the first call creates the runtime's object.  The  *)
(* mutex is of one of the three types, or ("ONCE") it is the fast mutex    *)
(* of a pthread_once_t.  The fields of the mutex are plain memory: they    *)
(* are read and written outside the system calls, a step at a time.        *)
(*                                                                         *)
(* The program keeps to the rules of POSIX: it unlocks a fast or recursive *)
(* mutex, and waits with any, only when it holds it, locks a fast one only *)
(* when it does not, and waits with a recursive one only when it holds it  *)
(* once.  It may lock and unlock an error-checking mutex at any time.      *)
(***************************************************************************)
EXTENDS Naturals

CONSTANTS
  Thread,
  Nobody,       \* NACL_PTHREAD_ILLEGAL_THREAD_ID
  MaxDepth,     \* bound: how often the program locks the mutex
  Modulus,      \* one more than the largest value of recursion_counter, 2^32
  TimedTypes,   \* the types of mutex with which the program uses a timed wait
  IntrTypes     \* the types of mutex that the runtime interrupts

ASSUME NcMutexAssumption ==
  /\ Nobody \notin Thread
  /\ MaxDepth \in Nat \ {0}
  /\ Modulus \in Nat /\ Modulus > MaxDepth
  /\ TimedTypes \cup IntrTypes \subseteq {"FAST", "RECURSIVE", "ERRORCHECK"}

VARIABLES
  lock_state, pc, owners, interrupted, fatal,   \* the runtime's objects
  mutex_type,
  handle,             \* of each object: invalid (not created), ok or bad
  spinlock,           \* of each object: who holds it
  owner_thread_id,
  recursion_counter,
  at,                 \* where each thread is in the library
  op,                 \* the call it is in
  status,             \* the result of its wait
  depth,              \* how often the program counts it as holding the mutex
  done,               \* __once_control->done
  inits,              \* how often the init routine was called
  onceReturned        \* threads that have returned from pthread_once

Mu == INSTANCE IntrMutex

muVars == <<lock_state, pc, owners, interrupted, fatal>>
fieldVars == <<mutex_type, owner_thread_id, recursion_counter>>
createVars == <<handle, spinlock>>
onceVars == <<done, inits, onceReturned>>
vars == <<muVars, fieldVars, createVars, onceVars, at, op, status, depth>>

Object == {"mutex", "cond"}
Calls == {"none", "lock", "trylock", "unlock", "wait", "timedwait", "signal",
          "broadcast", "once", "onceUnlock"}
Places == {"program", "validate", "create", "check", "call", "asleep", "got",
           "release", "woken", "onceLocked", "onceInit"}

TypeOK ==
  /\ Mu!TypeOK
  /\ mutex_type \in {"FAST", "RECURSIVE", "ERRORCHECK", "ONCE"}
  /\ handle \in [Object -> {"invalid", "ok", "bad"}]
  /\ spinlock \in [Object -> Thread \cup {Nobody}]
  /\ owner_thread_id \in Thread \cup {Nobody}
  /\ recursion_counter \in 0 .. Modulus - 1
  /\ at \in [Thread -> Places] /\ op \in [Thread -> Calls]
  /\ status \in [Thread -> {"ok", "ETIMEDOUT"}]
  /\ depth \in [Thread -> 0 .. MaxDepth]
  /\ done \in BOOLEAN /\ inits \in Nat /\ onceReturned \subseteq Thread

\* PTHREAD_MUTEX_INITIALIZER and its variants, PTHREAD_COND_INITIALIZER,
\* PTHREAD_ONCE_INIT.
Init ==
  /\ Mu!Init
  /\ mutex_type \in {"FAST", "RECURSIVE", "ERRORCHECK", "ONCE"}
  /\ handle = [o \in Object |-> "invalid"]
  /\ spinlock = [o \in Object |-> Nobody]
  /\ owner_thread_id = Nobody
  /\ recursion_counter = 0
  /\ at = [t \in Thread |-> "program"]
  /\ op = [t \in Thread |-> "none"]
  /\ status = [t \in Thread |-> "ok"]
  /\ depth = [t \in Thread |-> 0]
  /\ done = FALSE
  /\ inits = 0
  /\ onceReturned = {}

Goto(t, place) == at' = [at EXCEPT ![t] = place]

\* The call ends; the program counts the mutex as held `d' times.
Return(t, d) ==
  /\ Goto(t, "program")
  /\ op' = [op EXCEPT ![t] = "none"]
  /\ depth' = [depth EXCEPT ![t] = d]

\* Where pthread_mutex_lock continues: pthread_once ignores its result.
LockReturns(t, d) ==
  IF op[t] = "once" THEN Goto(t, "onceLocked") /\ UNCHANGED <<op, depth>>
                    ELSE Return(t, d)

-----------------------------------------------------------------------------
(* The program calls the library. *)

\* The object that a call validates, and the place behind the validation.
ObjectOf(c) ==
  IF c \in {"wait", "timedwait", "signal", "broadcast"} THEN "cond" ELSE "mutex"

Validated(c) == IF ObjectOf(c) = "mutex" THEN "check" ELSE "call"

\* A call begins with the validation of its object, which does nothing to one that
\* has been created: nobody destroys an object that is in use.
Enter(t, c) ==
  /\ op' = [op EXCEPT ![t] = c]
  /\ Goto(t, IF handle[ObjectOf(c)] = "invalid" THEN "validate" ELSE Validated(c))

MayCall(t, c) ==
  \/ /\ mutex_type = "ONCE"
     /\ c = "once"
  \/ /\ mutex_type # "ONCE"
     /\ \/ /\ c \in {"lock", "trylock"} /\ depth[t] < MaxDepth
           /\ mutex_type = "FAST" => depth[t] = 0
        \/ c = "unlock" /\ (depth[t] > 0 \/ mutex_type = "ERRORCHECK")
        \/ c = "wait" /\ depth[t] = 1
        \/ c = "timedwait" /\ depth[t] = 1 /\ mutex_type \in TimedTypes
        \/ c \in {"signal", "broadcast"}

\* pthread_once reads done before anything else.
Call(t) ==
  /\ at[t] = "program"
  /\ \E c \in Calls :
       /\ MayCall(t, c)
       /\ IF c = "once" /\ done
          THEN onceReturned' = onceReturned \cup {t} /\ UNCHANGED <<at, op>>
          ELSE Enter(t, c) /\ UNCHANGED onceReturned
  /\ UNCHANGED <<muVars, fieldVars, createVars, status, depth, done, inits>>

-----------------------------------------------------------------------------
(* pthread_mutex_validate, pthread_cond_validate. *)

\* Mutant: the handle is tested without the lock.
ValidateUnlocked(t) ==
  /\ at[t] = "validate"
  /\ Goto(t, IF handle[ObjectOf(op[t])] = "invalid" THEN "create" ELSE Validated(op[t]))
  /\ UNCHANGED <<muVars, fieldVars, createVars, onceVars, op, status, depth>>

\* The spin lock is taken; an object that is there needs nothing more, and the
\* lock is given back.
Validate(t) ==
  LET o == ObjectOf(op[t]) IN
  /\ at[t] = "validate"
  /\ spinlock[o] = Nobody
  /\ IF handle[o] = "invalid"
     THEN Goto(t, "create") /\ spinlock' = [spinlock EXCEPT ![o] = t]
     ELSE Goto(t, Validated(op[t])) /\ UNCHANGED spinlock
  /\ UNCHANGED <<muVars, fieldVars, handle, onceVars, op, status, depth>>

\* nc_thread_mutex_init, nc_thread_cond_init: a new object in the runtime, or an
\* error that stays in the handle.  The result is not looked at.
Create(t) ==
  LET o == ObjectOf(op[t]) IN
  /\ at[t] = "create"
  /\ \E h \in {"ok", "bad"} : handle' = [handle EXCEPT ![o] = h]
  /\ IF o = "mutex"
     THEN /\ owner_thread_id' = Nobody /\ recursion_counter' = 0
          /\ lock_state' = "FREE" /\ owners' = {} /\ interrupted' = FALSE
     ELSE UNCHANGED <<owner_thread_id, recursion_counter, lock_state, owners,
                      interrupted>>
  /\ spinlock' = [spinlock EXCEPT ![o] = Nobody]
  /\ Goto(t, Validated(op[t]))
  /\ UNCHANGED <<pc, fatal, mutex_type, onceVars, op, status, depth>>

-----------------------------------------------------------------------------
(* pthread_mutex_lock, pthread_mutex_trylock. *)

\* The owner is compared without synchronization.
CheckOwner(t) ==
  /\ at[t] = "check" /\ op[t] \in {"lock", "trylock", "once"}
  /\ IF mutex_type \in {"RECURSIVE", "ERRORCHECK"} /\ owner_thread_id = t
     THEN IF mutex_type = "ERRORCHECK"
          THEN Return(t, depth[t]) /\ UNCHANGED recursion_counter     \* EDEADLK
          ELSE /\ recursion_counter' = (recursion_counter + 1) % Modulus
               /\ Return(t, depth[t] + 1)
     ELSE Goto(t, "call") /\ UNCHANGED <<recursion_counter, op, depth>>
  /\ UNCHANGED <<muVars, mutex_type, owner_thread_id, createVars, onceVars, status>>

\* The outcome of a step of the runtime's lock: asleep, taken, or interrupted.
Locking(t) ==
  /\ \/ pc'[t] # "out" /\ Goto(t, "asleep") /\ UNCHANGED <<op, depth>>
     \/ pc'[t] = "out" /\ t \in owners' /\ Goto(t, "got") /\ UNCHANGED <<op, depth>>
     \/ pc'[t] = "out" /\ t \notin owners' /\ Return(t, depth[t])
  /\ UNCHANGED <<fieldVars, createVars, onceVars, status>>

SysLock(t) ==
  /\ at[t] = "call" /\ op[t] \in {"lock", "once"} /\ handle["mutex"] = "ok"
  /\ Mu!Lock(t)
  /\ Locking(t)

LockAgain(t) == Mu!LockAgain(t) /\ Locking(t)

SysTryLock(t) ==
  /\ at[t] = "call" /\ op[t] = "trylock" /\ handle["mutex"] = "ok"
  /\ \/ Mu!TryLock(t) /\ Goto(t, "got") /\ UNCHANGED <<op, depth>>
     \/ lock_state # "FREE" /\ Return(t, depth[t]) /\ UNCHANGED muVars
  /\ UNCHANGED <<fieldVars, createVars, onceVars, status>>

\* EBADF.
BadMutex(t) ==
  /\ at[t] = "call" /\ op[t] \in {"lock", "trylock", "once"} /\ handle["mutex"] = "bad"
  /\ LockReturns(t, depth[t])
  /\ UNCHANGED <<muVars, fieldVars, createVars, onceVars, status>>

\* The fields are written by the thread that now holds the mutex.
SetOwner(t) ==
  /\ at[t] = "got"
  /\ owner_thread_id' = t
  /\ recursion_counter' = 1
  /\ LockReturns(t, 1)
  /\ UNCHANGED <<muVars, mutex_type, createVars, onceVars, status>>

-----------------------------------------------------------------------------
(* pthread_mutex_unlock. *)

\* The end of the call.
UnlockReturns(t, d) ==
  IF op[t] = "onceUnlock"
  THEN Return(t, 0) /\ onceReturned' = onceReturned \cup {t}
  ELSE Return(t, d) /\ UNCHANGED onceReturned

\* The counter of a recursive mutex goes down; an error-checking mutex compares
\* the owner; otherwise the fields are cleared while the mutex is still held.
CheckUnlock(t) ==
  LET left == (recursion_counter + Modulus - 1) % Modulus IN
  /\ at[t] = "check" /\ op[t] \in {"unlock", "onceUnlock"}
  /\ \/ /\ mutex_type = "RECURSIVE" /\ left # 0
        /\ recursion_counter' = left
        /\ Return(t, depth[t] - 1)
        /\ UNCHANGED owner_thread_id
     \/ /\ mutex_type = "ERRORCHECK" /\ owner_thread_id # t              \* EPERM
        /\ Return(t, depth[t])
        /\ UNCHANGED <<owner_thread_id, recursion_counter>>
     \/ /\ mutex_type = "RECURSIVE" => left = 0
        /\ mutex_type = "ERRORCHECK" => owner_thread_id = t
        /\ owner_thread_id' = Nobody /\ recursion_counter' = 0
        /\ Goto(t, "release")
        /\ UNCHANGED <<op, depth>>
  /\ UNCHANGED <<muVars, mutex_type, createVars, onceVars, status>>

\* The system call; a bad handle is EBADF.
SysUnlock(t) ==
  /\ at[t] = "release"
  /\ IF handle["mutex"] = "ok" THEN Mu!Unlock(t) ELSE UNCHANGED muVars
  /\ UnlockReturns(t, 0)
  /\ UNCHANGED <<fieldVars, createVars, done, inits, status>>

-----------------------------------------------------------------------------
(* pthread_cond_wait, pthread_cond_timedwait_abs, pthread_cond_signal,     *)
(* pthread_cond_broadcast.                                                 *)

\* Mutex and condition are released and waited for in one step.  A bad handle, or
\* a mutex that is not HELD, is an error.
SysWait(t) ==
  /\ at[t] = "call" /\ op[t] \in {"wait", "timedwait"}
  /\ IF handle["cond"] = "ok" /\ lock_state = "HELD"
     THEN /\ Mu!CondVarWait(t)
          /\ Goto(t, "asleep")
          /\ UNCHANGED <<op, depth>>
     ELSE Return(t, depth[t]) /\ UNCHANGED muVars
  /\ UNCHANGED <<fieldVars, createVars, onceVars, status>>

\* A thread asleep wakes by itself.  A wait for the condition ends with ETIMEDOUT
\* if its deadline has passed.
WakeUp(t) ==
  /\ Mu!WakeUp(t)
  /\ \/ UNCHANGED status
     \/ /\ pc[t] = "condSleep" /\ op[t] = "timedwait"
        /\ status' = [status EXCEPT ![t] = "ETIMEDOUT"]
  /\ UNCHANGED <<fieldVars, createVars, onceVars, at, op, depth>>

\* The mutex is taken again in the system call.
Relock(t) ==
  /\ Mu!CondVarRelock(t)
  /\ IF pc'[t] = "out" THEN Goto(t, "woken") ELSE UNCHANGED at
  /\ UNCHANGED <<fieldVars, createVars, onceVars, op, status, depth>>

\* Mutant: the owner is left as it is.
WaitReturnsBlind(t) ==
  /\ at[t] = "woken"
  /\ Return(t, depth[t]) /\ status' = [status EXCEPT ![t] = "ok"]
  /\ UNCHANGED <<muVars, fieldVars, createVars, onceVars>>

\* The fields are set again if the wait returned 0.
WaitReturns(t) ==
  /\ at[t] = "woken"
  /\ IF status[t] = "ok"
     THEN owner_thread_id' = t /\ recursion_counter' = 1
     ELSE UNCHANGED <<owner_thread_id, recursion_counter>>
  /\ Return(t, depth[t]) /\ status' = [status EXCEPT ![t] = "ok"]
  /\ UNCHANGED <<muVars, mutex_type, createVars, onceVars>>

SysSignal(t) ==
  /\ at[t] = "call" /\ op[t] \in {"signal", "broadcast"}
  /\ \/ handle["cond"] = "ok" /\ op[t] = "signal" /\ Mu!CondVarSignal
     \/ handle["cond"] = "ok" /\ op[t] = "broadcast" /\ Mu!CondVarBroadcast
     \/ handle["cond"] = "bad" /\ UNCHANGED muVars
  /\ Return(t, depth[t])
  /\ UNCHANGED <<fieldVars, createVars, onceVars, status>>

-----------------------------------------------------------------------------
(* pthread_once. *)

\* Mutant: done is not read again.
OnceCheckNot(t) ==
  /\ at[t] = "onceLocked"
  /\ Goto(t, "onceInit") /\ inits' = inits + 1 /\ UNCHANGED op
  /\ UNCHANGED <<muVars, fieldVars, createVars, status, depth, done, onceReturned>>

\* done is read again; the init routine is called, or the mutex unlocked.
OnceCheck(t) ==
  /\ at[t] = "onceLocked"
  /\ IF done
     THEN Enter(t, "onceUnlock") /\ UNCHANGED inits
     ELSE Goto(t, "onceInit") /\ inits' = inits + 1 /\ UNCHANGED op
  /\ UNCHANGED <<muVars, fieldVars, createVars, status, depth, done, onceReturned>>

\* The init routine returns and done is set.
OnceDone(t) ==
  /\ at[t] = "onceInit"
  /\ done' = TRUE
  /\ Enter(t, "onceUnlock")
  /\ UNCHANGED <<muVars, fieldVars, createVars, status, depth, inits, onceReturned>>

-----------------------------------------------------------------------------

\* pthread_mutex_destroy, when no other thread uses the mutex: an owner fails it
\* with EBUSY, otherwise the runtime's mutex is closed and may be created anew.
Destroy ==
  /\ mutex_type # "ONCE" /\ handle["mutex"] = "ok" /\ owners = {}
  /\ \A s \in Thread : at[s] = "program" /\ depth[s] = 0
  /\ owner_thread_id = Nobody
  /\ handle' = [handle EXCEPT !["mutex"] = "invalid"]
  /\ recursion_counter' = 0
  /\ UNCHANGED <<muVars, mutex_type, owner_thread_id, spinlock, onceVars, at, op,
                 status, depth>>

\* The runtime interrupts the mutex, or ends the interruption.  (pthread_once does
\* not look at the result of its lock, so its mutex is left out.)
Interrupt ==
  /\ handle["mutex"] = "ok" /\ mutex_type \in IntrTypes
  /\ Mu!Intr \/ Mu!Reset
  /\ UNCHANGED <<fieldVars, createVars, onceVars, at, op, status, depth>>

\* What a thread does inside the library, awake.
Library(t) ==
  \/ Validate(t) \/ Create(t) \/ CheckOwner(t) \/ SysLock(t) \/ LockAgain(t)
  \/ SysTryLock(t) \/ BadMutex(t) \/ SetOwner(t) \/ CheckUnlock(t) \/ SysUnlock(t)
  \/ SysWait(t) \/ Relock(t) \/ WaitReturns(t) \/ SysSignal(t) \/ OnceCheck(t)
  \/ OnceDone(t)

Next ==
  /\ ~fatal
  /\ \/ \E t \in Thread : Call(t) \/ Library(t) \/ WakeUp(t)
     \/ Destroy \/ Interrupt

Spec == Init /\ [][Next]_vars

\* A thread that is awake inside the library is scheduled in the end, and the init
\* routine of pthread_once returns.
Fairness == \A t \in Thread : WF_vars(~fatal /\ Library(t))

FairSpec == Spec /\ Fairness

-----------------------------------------------------------------------------
(* Properties. *)

\* What IntrMutex promises its callers holds when the library is the caller, with
\* the mutex created, destroyed and created anew: no sleeper of a free mutex is
\* forgotten (nacl_interruptible_mutex.c:87).
NoLostWakeup == Mu!NoLostWakeup

\* The program is in the section that the mutex protects.
Holds(t) ==
  \/ depth[t] > 0 /\ op[t] \notin {"wait", "timedwait", "unlock"}
  \/ at[t] = "onceInit"

\* Two threads never both count as holding the pthread mutex, although the first
\* calls race to create it (nc_mutex.c:31) and its fields are not protected.
\* An interruption, or a mutex that could not be created, voids this.
LibraryExclusion ==
  ~interrupted /\ handle["mutex"] = "ok" =>
    \A s, t \in Thread : Holds(s) /\ Holds(t) => s = t

\* The comment at nc_mutex.c:72: the unsynchronized test of the owner succeeds
\* exactly for the thread that holds the mutex, whenever it may test, also after
\* its wait for a condition (nc_condvar.c:81); and the counter of a recursive mutex
\* says how often the program has locked it.
OwnerRight ==
  ~interrupted /\ mutex_type \in {"RECURSIVE", "ERRORCHECK"} =>
    \A t \in Thread : at[t] \in {"program", "check"} =>
      /\ owner_thread_id = t <=> depth[t] > 0
      /\ mutex_type = "RECURSIVE" /\ depth[t] > 0 => recursion_counter = depth[t]

\* "Ensures that a piece of initialization code is executed at most once"
\* (pthread.h:660), and it has been executed when pthread_once returns, provided
\* that the mutex could be created.
OnceRight ==
  handle["mutex"] # "bad" => inits <= 1 /\ (onceReturned # {} => done)

\* Every call of pthread_once returns (nc_mutex.c:148), whoever gets the mutex
\* first, if the init routine returns.
OnceReturns ==
  \A t \in Thread : op[t] \in {"once", "onceUnlock"} ~> op[t] = "none"

\* cond_wait_test.cc:44 says "Mutex should be held when pthread_cond_returns" and
\* that unlocking an error-checking mutex then "should be 0": a thread that holds
\* the mutex is taken for its owner by pthread_mutex_unlock.
UnlockSucceeds ==
  \A t \in Thread :
    /\ at[t] = "check" /\ op[t] = "unlock" /\ depth[t] > 0
    /\ mutex_type = "ERRORCHECK" /\ ~interrupted
    => owner_thread_id = t

=============================================================================
