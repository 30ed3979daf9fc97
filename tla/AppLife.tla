------------------------------ MODULE AppLife ------------------------------
(***************************************************************************)
(* The life of a NaCl process: sel_main.c loads a module, or waits for the *)
(* plugin to send it, waits for the plugin's permission, starts the        *)
(* program and waits for a thread to call exit; the secure command channel *)
(* (sel_ldr.c) serves the plugin meanwhile; the work queue                 *)
(* (nacl_sync_queue.c) is where the main thread waits first.               *)
(*                                                                         *)
(* A step is a critical section of nap->mu or of the queue's mutex, or what *)
(* lies between two of them.  The plugin sends any request at any time, one *)
(* after the other.  Nobody in the repository inserts work into the queue, *)
(* so it is empty and only its quit flag is modelled.                      *)
(***************************************************************************)
EXTENDS Integers

CONSTANTS
  AppThread,   \* threads of the program
  First,       \* the one that NaClCreateMainThread makes
  Status,      \* what a program passes to exit
  MaxRequests  \* bound on the requests of the plugin

ASSUME AppLifeAssumption ==
  /\ First \in AppThread
  /\ Status \subseteq Nat
  /\ MaxRequests \in Nat

VARIABLES
  hasChannel, rpc_supplies_nexe,        \* the flags -X and -R
  main, errcode,                        \* the main thread of sel_ldr
  channel,                              \* the thread of the command channel
  start_status,                         \* its local variable in start_module
  module_load_status, module_may_start, running, exit_status,
  quit,                                 \* the queue's flag
  cv, queueCv,                          \* who sleeps on nap->cv, on the queue
  thread, passed,                       \* the program: stages, arguments of exit
  process, code,                        \* how the process ended, with what code
  loads, unqualified, prepared,         \* history of the load
  launched, told,                       \* ... and of the start
  requests

appVars == <<hasChannel, rpc_supplies_nexe, main, errcode, channel,
             start_status, module_load_status, module_may_start, running,
             exit_status, quit, cv, queueCv, thread, passed, process, code,
             loads, unqualified, prepared, launched, told, requests>>

flags == <<hasChannel, rpc_supplies_nexe>>
nap == <<module_load_status, module_may_start, running, exit_status>>
program == <<thread, passed, quit, queueCv>>
history == <<loads, unqualified, prepared, launched, told>>
ended == <<process, code>>
server == <<channel, start_status, requests>>

Results == {"OK", "ERROR"}

AppTypeOK ==
  /\ hasChannel \in BOOLEAN /\ rpc_supplies_nexe \in BOOLEAN
  /\ main \in {"qualify", "load", "connect", "waitLoad", "prepare", "chroot",
               "waitStart", "create", "dequeue", "waitExit", "return"}
  /\ channel \in {"none", "idle", "load", "prepare", "start", "permit", "answer"}
  /\ errcode \in Results
  /\ start_status \in Results \cup {"UNKNOWN", "DUPLICATE"}
  /\ module_load_status \in Results \cup {"UNKNOWN"}
  /\ module_may_start \in BOOLEAN /\ running \in BOOLEAN /\ quit \in BOOLEAN
  /\ unqualified \in BOOLEAN /\ prepared \in BOOLEAN /\ launched \in BOOLEAN
  /\ exit_status \in Status \cup {-1}
  /\ cv \subseteq {"main", "channel"} /\ queueCv \subseteq {"main"}
  /\ thread \in [AppThread -> {"none", "app", "exit", "gone"}]
  /\ passed \in [AppThread -> Status \cup {-1}]
  /\ process \in {"up", "done", "shutdown", "fatal", "exited"}
  /\ code \in Status \cup {-1, 0, 1}
  /\ loads \in Nat /\ requests \in 0..MaxRequests
  /\ told \in Results \cup {"NOTHING", "DUPLICATE"}

(* NaClAppCtor and the options: -R needs -X. *)
AppInit ==
  /\ hasChannel \in BOOLEAN /\ rpc_supplies_nexe \in BOOLEAN
  /\ rpc_supplies_nexe => hasChannel
  /\ main = "qualify" /\ errcode = "OK"
  /\ channel = "none" /\ start_status = "UNKNOWN" /\ requests = 0
  /\ module_load_status = "UNKNOWN" /\ module_may_start = FALSE
  /\ running = FALSE /\ exit_status = -1
  /\ quit = FALSE /\ cv = {} /\ queueCv = {}
  /\ thread = [t \in AppThread |-> "none"] /\ passed = [t \in AppThread |-> -1]
  /\ process = "up" /\ code = -1
  /\ loads = 0 /\ unqualified = FALSE /\ prepared = FALSE
  /\ launched = FALSE /\ told = "NOTHING"

(* _exit(c): every thread stops. *)
ProcessEnds(how, c) == process' = how /\ code' = c

(* A step of the main thread: it is at `from' and not asleep. *)
MainAt(from) == main = from /\ "main" \notin cv \cup queueCv

----------------------------------------------------------------------------
(* sel_main.c, from the qualification tests to the wait for the plugin *)

\* Mutant: the error stays in errcode.
QualifyUnrecorded ==
  /\ MainAt("qualify")
  /\ main' = IF rpc_supplies_nexe THEN "connect" ELSE "load"
  /\ \/ UNCHANGED <<errcode, history>>
     \/ errcode' = "ERROR" /\ unqualified' = TRUE
        /\ UNCHANGED <<loads, prepared, launched, told>>
  /\ UNCHANGED <<flags, nap, server, program, cv, ended>>

(* The qualification tests; an error is kept for the plugin. *)
Qualify ==
  /\ MainAt("qualify")
  /\ main' = IF rpc_supplies_nexe THEN "connect" ELSE "load"
  /\ \/ UNCHANGED <<errcode, nap, history>>
     \/ /\ errcode' = "ERROR" /\ module_load_status' = "ERROR"
        /\ unqualified' = TRUE
        /\ UNCHANGED <<module_may_start, running, exit_status, loads, prepared,
                       launched, told>>
  /\ UNCHANGED <<flags, server, program, cv, ended>>

(* The file of the command line cannot be opened. *)
CannotOpen ==
  /\ MainAt("load") /\ ProcessEnds("done", 1)
  /\ UNCHANGED <<flags, main, errcode, server, nap, program, cv, history>>

(* NaClAppLoadFile of the command line's file; the result is published. *)
LoadFile ==
  /\ MainAt("load") /\ main' = "connect"
  /\ IF errcode = "OK"
     THEN /\ errcode' \in Results
          /\ module_load_status' = errcode'
          /\ loads' = loads + 1 /\ cv' = {}
     ELSE UNCHANGED <<errcode, module_load_status, loads, cv>>
  /\ UNCHANGED <<flags, server, module_may_start, running, exit_status, program,
                 ended, unqualified, prepared, launched, told>>

(* NaClSecureCommandChannel accepts the plugin's connection and makes a      *)
(* thread; it does not look whether the thread could be made.                *)
SecureCommandChannel ==
  /\ MainAt("connect")
  /\ \/ /\ main' = IF rpc_supplies_nexe THEN "waitLoad" ELSE "prepare"
        /\ channel' \in IF hasChannel THEN {"idle", "none"} ELSE {"none"}
        /\ UNCHANGED ended
     \/ /\ hasChannel /\ ProcessEnds("fatal", -1)
        /\ UNCHANGED <<main, channel>>
  /\ UNCHANGED <<flags, errcode, start_status, requests, nap, program, cv, history>>

(* NaClWaitForLoadModuleStatus by the main thread. *)
MainWaitsForLoad ==
  /\ MainAt("waitLoad")
  /\ IF module_load_status = "UNKNOWN"
     THEN cv' = cv \cup {"main"} /\ UNCHANGED <<main, errcode>>
     ELSE errcode' = module_load_status /\ main' = "chroot" /\ UNCHANGED cv
  /\ UNCHANGED <<flags, server, nap, program, ended, history>>

(* NaClAppPrepareToLaunch by the main thread: an error overwrites the status *)
(* that start_module reports, without the lock and without a broadcast.      *)
MainPrepares ==
  /\ MainAt("prepare") /\ main' = "chroot"
  /\ IF errcode = "OK"
     THEN /\ errcode' \in Results /\ prepared' = (errcode' = "OK")
          /\ module_load_status' =
               IF errcode' = "OK" THEN module_load_status ELSE errcode'
     ELSE UNCHANGED <<errcode, prepared, module_load_status>>
  /\ UNCHANGED <<flags, server, module_may_start, running, exit_status, program,
                 cv, ended, loads, unqualified, launched, told>>

(* The outer sandbox, if the environment asks for one, may refuse. *)
Chroot ==
  /\ MainAt("chroot")
  /\ \/ main' = "waitStart" /\ UNCHANGED ended
     \/ ProcessEnds("done", 1) /\ UNCHANGED main
  /\ UNCHANGED <<flags, errcode, server, nap, program, cv, history>>

(* NaClWaitForStartModuleCommand, if there is a channel and no error. *)
WaitForStartModule ==
  /\ MainAt("waitStart")
  /\ IF ~hasChannel \/ errcode # "OK"
     THEN main' = "create" /\ UNCHANGED <<errcode, cv>>
     ELSE IF ~module_may_start
     THEN cv' = cv \cup {"main"} /\ UNCHANGED <<main, errcode>>
     ELSE errcode' = module_load_status /\ main' = "create" /\ UNCHANGED cv
  /\ UNCHANGED <<flags, server, nap, program, ended, history>>

(* NaClCreateMainThread: the first thread of the program. *)
CreateMainThread ==
  /\ running' = TRUE
  /\ thread' = [thread EXCEPT ![First] = "app"]

(* After an error the process ends; otherwise the main thread is made, which *)
(* may fail as the environment filter before it may.                         *)
StartProgram ==
  /\ MainAt("create")
  /\ \/ ProcessEnds("done", 1) /\ UNCHANGED <<main, running, thread, launched>>
     \/ /\ errcode = "OK" /\ main' = "dequeue" /\ launched' = TRUE
        /\ CreateMainThread
        /\ UNCHANGED ended
  /\ UNCHANGED <<flags, errcode, server, module_load_status, module_may_start,
                 exit_status, passed, quit, queueCv, cv, loads, unqualified,
                 prepared, told>>

(* NaClSyncQueueDequeue: nothing is ever queued, so it waits for quit. *)
Dequeue ==
  /\ MainAt("dequeue")
  /\ IF quit THEN main' = "waitExit" /\ UNCHANGED queueCv
             ELSE queueCv' = {"main"} /\ UNCHANGED main
  /\ UNCHANGED <<flags, errcode, server, nap, thread, passed, quit, cv, ended,
                 history>>

\* Mutant: the main thread goes on as soon as the queue has quit.
WaitForExitNot ==
  /\ MainAt("waitExit") /\ main' = "return"
  /\ UNCHANGED <<flags, errcode, server, nap, program, cv, ended, history>>

(* NaClWaitForMainThreadToExit: the wait for an exit status. *)
WaitForExit ==
  /\ MainAt("waitExit")
  /\ IF running THEN cv' = cv \cup {"main"} /\ UNCHANGED main
                ELSE main' = "return" /\ UNCHANGED cv
  /\ UNCHANGED <<flags, errcode, server, nap, program, ended, history>>

(* ... and its return: the status is read after the unlock. *)
ReturnStatus ==
  /\ MainAt("return") /\ ProcessEnds("exited", exit_status)
  /\ UNCHANGED <<flags, main, errcode, server, nap, program, cv, history>>

----------------------------------------------------------------------------
(* The secure command channel: one thread, one request after the other *)

Serving(at) == channel = at /\ "channel" \notin cv

(* The next request of the plugin arrives. *)
Request ==
  /\ channel = "idle" /\ requests < MaxRequests
  /\ channel' \in {"load", "start"} /\ requests' = requests + 1
  /\ UNCHANGED <<flags, main, errcode, start_status, nap, program, cv, ended, history>>

(* hard_shutdown, or the plugin closes the channel. *)
Shutdown ==
  /\ channel = "idle" /\ ProcessEnds("shutdown", 0)
  /\ UNCHANGED <<flags, main, errcode, server, nap, program, cv, history>>

\* Mutant: nobody looks whether there was a load.
LoadModuleAgain ==
  /\ Serving("load")
  /\ loads' = loads + 1
  /\ \/ /\ module_load_status' = "ERROR" /\ cv' = {} /\ channel' = "idle"
     \/ /\ channel' = "prepare" /\ UNCHANGED <<module_load_status, cv>>
  /\ UNCHANGED <<flags, main, errcode, start_status, requests, module_may_start,
                 running, exit_status, program, ended, unqualified, prepared,
                 launched, told>>

(* NaClLoadModuleRpc up to the load: it fails before it takes the lock and   *)
(* leaves no trace, or finds that there was a load, or loads.                *)
LoadModule ==
  /\ Serving("load")
  /\ \/ /\ channel' = "idle"
        /\ UNCHANGED <<module_load_status, loads, cv>>
     \/ /\ module_load_status = "UNKNOWN" /\ loads' = loads + 1
        /\ module_load_status' = "ERROR" /\ cv' = {} /\ channel' = "idle"
     \/ /\ module_load_status = "UNKNOWN" /\ loads' = loads + 1
        /\ channel' = "prepare" /\ UNCHANGED <<module_load_status, cv>>
  /\ UNCHANGED <<flags, main, errcode, start_status, requests, module_may_start,
                 running, exit_status, program, ended, unqualified, prepared,
                 launched, told>>

(* The rest of it: NaClAppPrepareToLaunch, and the result is published. *)
LoadModulePrepares ==
  /\ Serving("prepare") /\ channel' = "idle"
  /\ module_load_status' \in Results /\ prepared' = (module_load_status' = "OK")
  /\ cv' = {}
  /\ UNCHANGED <<flags, main, errcode, start_status, requests, module_may_start,
                 running, exit_status, program, ended, loads, unqualified,
                 launched, told>>

(* start_module waits for the end of the load; the status it will report is  *)
(* the one at that time.                                                     *)
StartModule ==
  /\ Serving("start")
  /\ IF module_load_status = "UNKNOWN"
     THEN cv' = cv \cup {"channel"} /\ UNCHANGED <<channel, start_status>>
     ELSE start_status' = module_load_status /\ channel' = "permit" /\ UNCHANGED cv
  /\ UNCHANGED <<flags, main, errcode, requests, nap, program, ended, history>>

\* Mutant: no broadcast.
StartModulePermitsQuietly ==
  /\ Serving("permit") /\ channel' = "answer"
  /\ start_status' = IF module_may_start THEN "DUPLICATE" ELSE start_status
  /\ module_may_start' = TRUE
  /\ UNCHANGED <<flags, main, errcode, requests, module_load_status, running,
                 exit_status, program, cv, ended, history>>

(* ... then it lets the module start, whatever the status was. *)
StartModulePermits ==
  /\ Serving("permit") /\ channel' = "answer"
  /\ start_status' = IF module_may_start THEN "DUPLICATE" ELSE start_status
  /\ module_may_start' = TRUE /\ cv' = {}
  /\ UNCHANGED <<flags, main, errcode, requests, module_load_status, running,
                 exit_status, program, ended, history>>

(* ... and the plugin is told. *)
StartModuleAnswers ==
  /\ Serving("answer") /\ channel' = "idle"
  /\ told' = start_status
  /\ UNCHANGED <<flags, main, errcode, start_status, requests, nap, program, cv, ended,
                 loads, unqualified, prepared, launched>>

----------------------------------------------------------------------------
(* The program's threads *)

(* thread_create by t. *)
ThreadCreate(t) ==
  /\ thread[t] = "app"
  /\ \E u \in AppThread : thread[u] = "none"
                       /\ thread' = [thread EXCEPT ![u] = "app"]
  /\ UNCHANGED <<flags, main, errcode, server, nap, passed, quit, queueCv, cv,
                 ended, history>>

(* thread_exit by t. *)
ThreadExit(t) ==
  /\ thread[t] = "app" /\ thread' = [thread EXCEPT ![t] = "gone"]
  /\ UNCHANGED <<flags, main, errcode, server, nap, passed, quit, queueCv, cv,
                 ended, history>>

(* exit by t: NaClSyncQueueQuit. *)
SysExit(t) ==
  /\ thread[t] = "app" /\ thread' = [thread EXCEPT ![t] = "exit"]
  /\ \E s \in Status : passed' = [passed EXCEPT ![t] = s]
  /\ quit' = TRUE /\ queueCv' = {}
  /\ UNCHANGED <<flags, main, errcode, server, nap, cv, ended, history>>

\* Mutant: no signal.
SysExitStatusSilent(t) ==
  /\ thread[t] = "exit" /\ thread' = [thread EXCEPT ![t] = "gone"]
  /\ exit_status' = passed[t] /\ running' = FALSE
  /\ UNCHANGED <<flags, main, errcode, server, module_load_status,
                 module_may_start, passed, quit, queueCv, cv, ended, history>>

(* ... then the status, one signal on nap->cv, and the thread is gone. *)
SysExitStatus(t) ==
  /\ thread[t] = "exit" /\ thread' = [thread EXCEPT ![t] = "gone"]
  /\ exit_status' = passed[t] /\ running' = FALSE
  /\ IF cv = {} THEN UNCHANGED cv ELSE \E w \in cv : cv' = cv \ {w}
  /\ UNCHANGED <<flags, main, errcode, server, module_load_status,
                 module_may_start, passed, quit, queueCv, ended, history>>

----------------------------------------------------------------------------
MainNext ==
  \/ Qualify \/ CannotOpen \/ LoadFile \/ SecureCommandChannel
  \/ MainWaitsForLoad \/ MainPrepares \/ Chroot \/ WaitForStartModule
  \/ StartProgram \/ Dequeue \/ WaitForExit \/ ReturnStatus

ChannelNext ==
  \/ LoadModule \/ LoadModulePrepares
  \/ StartModule \/ StartModulePermits \/ StartModuleAnswers

AppNext ==
  /\ process = "up"
  /\ \/ MainNext \/ ChannelNext \/ Request \/ Shutdown
     \/ \E t \in AppThread :
          ThreadCreate(t) \/ ThreadExit(t) \/ SysExit(t) \/ SysExitStatus(t)

AppSpec == AppInit /\ [][AppNext]_appVars

(* The main thread, the channel's thread inside a handler and a thread       *)
(* inside exit run when they can.  The plugin and the program need not: it   *)
(* may never connect, send a request or exit.                                *)
AppFairness ==
  /\ WF_appVars(process = "up" /\ main # "connect" /\ MainNext)
  /\ WF_appVars(process = "up" /\ ChannelNext)
  /\ \A t \in AppThread : WF_appVars(process = "up" /\ SysExitStatus(t))

AppFairSpec == AppSpec /\ AppFairness

----------------------------------------------------------------------------
(* The program runs only on a platform that passed the tests, from a module  *)
(* that was loaded and prepared, and with the plugin's permission if there   *)
(* is a plugin; whichever of the two threads did the loading.                *)
LaunchGuarded ==
  launched => /\ ~unqualified /\ loads > 0 /\ prepared
              /\ hasChannel => module_may_start

(* NaClAppLoadFile fills the NaClApp at most once: load_module after a file, *)
(* after a failed load or after a repeated request finds the status set.     *)
LoadedOnce == loads <= 1

(* The exit code of a program that ran is one that a thread passed to exit   *)
(* and had stored, although the main thread reads it without the lock and    *)
(* several threads may call exit.                                            *)
ExitCodePassed ==
  process = "exited" =>
    \E t \in AppThread : thread[t] = "gone" /\ passed[t] = code

(* Once a thread is in exit the process ends: its single signal on nap->cv,  *)
(* which the channel's thread also waits on, reaches the main thread.        *)
ExitEnds ==
  (\E t \in AppThread : thread[t] = "exit") ~> process # "up"

(* When the plugin has been told that the module started, it is launched or  *)
(* the process ends: the main thread does not sleep through the permission.  *)
ToldRuns ==
  told = "OK" ~> (launched \/ process # "up")
=============================================================================
