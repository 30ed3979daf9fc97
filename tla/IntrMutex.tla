------------------------------ MODULE IntrMutex ------------------------------
(***************************************************************************)
(* The interruptible mutex and condition variable of the runtime           *)
(* (nacl_interruptible_mutex.c, nacl_interruptible_condvar.c), which the   *)
(* mutex and condition variable descriptors hand to untrusted threads.     *)
(*                                                                         *)
(* Every function does its work under mp->mu, so what it does between two  *)
(* sleeps is one step.  A thread sleeps on mp->cv (for the mutex) or on    *)
(* cp->cv (for the condition); once awake it still has to get mp->mu back, *)
(* and other threads may come first.                                       *)
(***************************************************************************)
EXTENDS FiniteSets

CONSTANT Thread

VARIABLES
  lock_state,   \* mp->lock_state
  pc,           \* where each thread is
  owners,       \* threads whose last call told them that they hold the mutex
  interrupted,  \* NaClIntrMutexIntr was called since the last reset
  fatal         \* LOG_FATAL ended the process

vars == <<lock_state, pc, owners, interrupted, fatal>>

Places == {"out", "locking", "lockSleep", "condSleep", "relocking", "relockSleep"}

TypeOK ==
  /\ lock_state \in {"FREE", "HELD", "INTERRUPTED"}
  /\ pc \in [Thread -> Places]
  /\ owners \in SUBSET Thread
  /\ interrupted \in BOOLEAN
  /\ fatal \in BOOLEAN

Sleepers == {t \in Thread : pc[t] \in {"lockSleep", "relockSleep"}}   \* on mp->cv
CondSleepers == {t \in Thread : pc[t] = "condSleep"}                   \* on cp->cv
Woken == {t \in Thread : pc[t] \in {"locking", "relocking"}}

Init ==
  /\ lock_state = "FREE"
  /\ pc = [t \in Thread |-> "out"]
  /\ owners = {}
  /\ interrupted = FALSE
  /\ fatal = FALSE

-----------------------------------------------------------------------------
(* The condition variables of the platform. *)

Awake(place) == IF place = "lockSleep" THEN "locking" ELSE "relocking"

\* NaClCondVarSignal on a variable with sleepers S: the pc's that may result.
WakeOne(S) ==
  IF S = {} THEN {pc} ELSE {[pc EXCEPT ![w] = Awake(pc[w])] : w \in S}

\* NaClCondVarBroadcast.
WakeAll(S) == [t \in Thread |-> IF t \in S THEN Awake(pc[t]) ELSE pc[t]]

\* A sleeper of either variable wakes by itself: the deadline of a timed wait
\* passes, or the wakeup is spurious.
WakeUp(t) ==
  /\ t \in Sleepers \cup CondSleepers
  /\ pc' = [pc EXCEPT ![t] = Awake(pc[t])]
  /\ UNCHANGED <<lock_state, owners, interrupted, fatal>>

-----------------------------------------------------------------------------
(* The mutex. *)

\* while HELD: wait; take a FREE mutex; leave an INTERRUPTED one.  The result
\* tells the threads of `told' that they hold the mutex although it is
\* interrupted.
Contend(t, sleep, told) ==
  /\ \/ /\ lock_state = "HELD"
        /\ pc' = [pc EXCEPT ![t] = sleep]
        /\ UNCHANGED <<lock_state, owners>>
     \/ /\ lock_state = "FREE"
        /\ lock_state' = "HELD"
        /\ pc' = [pc EXCEPT ![t] = "out"]
        /\ owners' = owners \cup {t}
     \/ /\ lock_state = "INTERRUPTED"
        /\ pc' = [pc EXCEPT ![t] = "out"]
        /\ owners' = owners \cup told
        /\ UNCHANGED lock_state
  /\ UNCHANGED <<interrupted, fatal>>

Lock(t) == pc[t] = "out" /\ Contend(t, "lockSleep", {})

LockAgain(t) == pc[t] = "locking" /\ Contend(t, "lockSleep", {})

\* NACL_SYNC_BUSY and NACL_SYNC_MUTEX_INTERRUPTED change nothing.
TryLock(t) ==
  /\ pc[t] = "out"
  /\ lock_state = "FREE"
  /\ lock_state' = "HELD"
  /\ owners' = owners \cup {t}
  /\ UNCHANGED <<pc, interrupted, fatal>>

\* Mutants: nobody is woken.
UnlockNoSignal(t) ==
  /\ pc[t] = "out" /\ t \in owners
  /\ lock_state' = "FREE"
  /\ owners' = owners \ {t}
  /\ UNCHANGED <<pc, interrupted, fatal>>

\* A thread that was told it holds the mutex gives it up; the state becomes FREE
\* whatever it was.
Unlock(t) ==
  /\ pc[t] = "out" /\ t \in owners
  /\ lock_state' = "FREE"
  /\ owners' = owners \ {t}
  /\ pc' \in WakeOne(Sleepers)
  /\ UNCHANGED <<interrupted, fatal>>

\* Only a HELD mutex is taken to have waiters.
Intr ==
  /\ lock_state' = "INTERRUPTED"
  /\ pc' = IF lock_state = "HELD" THEN WakeAll(Sleepers) ELSE pc
  /\ interrupted' = TRUE
  /\ UNCHANGED <<owners, fatal>>

\* All threads are out of the mutex and none counts on holding it.
Quiescent == owners = {} /\ \A t \in Thread : pc[t] = "out"

\* The state is reset once the interruption is over; any state but INTERRUPTED
\* is fatal.
Reset ==
  /\ interrupted /\ Quiescent
  /\ IF lock_state = "INTERRUPTED"
     THEN lock_state' = "FREE" /\ interrupted' = FALSE /\ fatal' = FALSE
     ELSE fatal' = TRUE /\ UNCHANGED <<lock_state, interrupted>>
  /\ UNCHANGED <<pc, owners>>

-----------------------------------------------------------------------------
(* The condition variable. *)

\* Mutant: the mutex is released without a signal.
CondVarWaitNoSignal(t) ==
  /\ pc[t] = "out" /\ t \in owners
  /\ lock_state = "HELD"
  /\ lock_state' = "FREE"
  /\ owners' = owners \ {t}
  /\ pc' = [pc EXCEPT ![t] = "condSleep"]
  /\ UNCHANGED <<interrupted, fatal>>

\* The mutex is released and the thread sleeps on cp->cv, in one step.  A state
\* other than HELD fails the call and changes nothing.
CondVarWait(t) ==
  /\ pc[t] = "out" /\ t \in owners
  /\ lock_state = "HELD"
  /\ lock_state' = "FREE"
  /\ owners' = owners \ {t}
  /\ pc' \in {[p EXCEPT ![t] = "condSleep"] : p \in WakeOne(Sleepers)}
  /\ UNCHANGED <<interrupted, fatal>>

\* The end of the wait: the mutex is taken as in Lock, but the status returned is
\* the one of the wait, whether the mutex was taken or not.
CondVarRelock(t) == pc[t] = "relocking" /\ Contend(t, "relockSleep", {t})

CondVarSignal ==
  /\ pc' \in WakeOne(CondSleepers)
  /\ UNCHANGED <<lock_state, owners, interrupted, fatal>>

\* NaClIntrCondVarBroadcast and NaClIntrCondVarIntr.
CondVarBroadcast ==
  /\ pc' = WakeAll(CondSleepers)
  /\ UNCHANGED <<lock_state, owners, interrupted, fatal>>

-----------------------------------------------------------------------------

Step(t) ==
  \/ Lock(t) \/ LockAgain(t) \/ TryLock(t) \/ Unlock(t)
  \/ CondVarWait(t) \/ CondVarRelock(t) \/ WakeUp(t)

Next ==
  /\ ~fatal
  /\ (\E t \in Thread : Step(t)) \/ Intr \/ Reset \/ CondVarSignal \/ CondVarBroadcast

Spec == Init /\ [][Next]_vars

-----------------------------------------------------------------------------
(* Properties. *)

\* Unless the mutex has been interrupted, at most one thread was told by Lock,
\* TryLock or a return from CondVarWait that it holds the mutex, and the state is
\* HELD exactly when there is such a thread.
MutualExclusion ==
  ~interrupted =>
    /\ \A s, t \in owners : s = t
    /\ lock_state = (IF owners = {} THEN "FREE" ELSE "HELD")

\* Unless the mutex has been interrupted, a thread that sleeps while the mutex is
\* FREE is not forgotten: some thread is awake that will take the mutex, and wake
\* another one when it gives it up.
NoLostWakeup ==
  ~interrupted /\ lock_state = "FREE" /\ Sleepers # {} => Woken # {}

IInv ==
  /\ TypeOK
  /\ MutualExclusion
  /\ NoLostWakeup

=============================================================================
