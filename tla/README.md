# A TLA+ development of Native Client

Native Client runs an untrusted program inside one process together with the
trusted *service runtime* (`src/trusted/service_runtime`).  Untrusted threads
enter the runtime through system calls; the runtime keeps the program's memory
map, descriptors, threads and code, and talks to the browser plugin over SRPC.
A *validator* decides which code may run at all.  On top of the system calls
the untrusted side has its own libraries, among them a pthread library
(`src/untrusted/pthread`).

This directory models the concurrent and the index-heavy parts of that system in
TLA+, checks them with TLC on small instances, and proves the central results
with TLAPS for every instance.  `PROJECT.json` lists components, runs, mutants,
the source lines behind every definition, findings, hazards and theorems.

## Inventory

| Part | State | Operations | What makes it hard |
|---|---|---|---|
| Dynamic code (`nacl_text.c`) | regions with deletion generations, bundle contents, each thread's generation | create, modify, delete, check in | threads execute in a region while others rewrite or delete it; a generation is fetched under one lock and stored under another |
| Region table (`nacl_text.c`) | sorted array, its length and buffer size | find, insert, remove, resize | binary search with a linear tail; an insertion that trusts the search; a shrinking buffer |
| Writable text view (`nacl_text.c`) | one cached mapping | map, write, clear | page arithmetic; errors are cached too |
| Validator (`ncvalidate.c`, `ncdecode.c`) | tables of instruction starts and jump targets, the text | two passes, stub-out, pairwise replacement | masks and jumps that belong together, instructions across bundles, code replaced under a running thread |
| Code copy (`nccopycode.c`) | bytes in memory, bytes already fetched | store, serialize | processors fetch an instruction in pieces |
| Thread table (`sel_ldr.c`, `nacl_app_thread.c`, `dyn_array.c`) | slots, `num_threads` | launch, suicide, scan | threads come and go while others scan |
| Memory map (`sel_mem.c`, `nacl_memory_object.c`) | array with lazily removed entries, references to files | update, find page, find space | cutting of page ranges, offsets that move, lazy sorting |
| Memory calls (`nacl_syscall_common.c`, `linux/nacl_syscall_impl.c`) | break, host's pages | `brk`, `mmap`, `munmap` | values read before the lock; several host mappings in one call |
| Descriptors (`sel_ldr.c`, `nacl_refcount.c`, `nrd_xfer.c`) | `desc_tbl`, `ref_count`, host handles | use, make, close, send, receive | close against use, number reuse, cleanup after a failure in any place |
| Life of the process (`sel_main.c`, `sel_ldr.c`, `nacl_sync_queue.c`) | load status, start permission, quit flag, exit status | load, start, launch, exit | a handshake of two threads and a plugin; single signals on a shared condition |
| Interruptible mutex and condition variable (`shared/platform`) | `lock_state`, two wait sets | lock, try, unlock, interrupt, reset, wait, signal, broadcast | lost wakeups, interruptions between a signal and the run of the thread it woke, timeouts |
| pthread threads (`nc_thread.c`) | table of basic data, descriptors, ids, count of threads | create, exit, join, detach, shutdown | a flag read outside the lock, data that outlives its thread, failures half-way through a creation, reused ids |
| pthread mutexes, once (`nc_mutex.c`, `nc_condvar.c`) | owner, recursion count, handle | lock, unlock, wait, once | ownership kept outside the lock that protects it, lazy creation |

What has to be true: no thread leaves validated code or executes code that
changes under it; tables stay sorted, disjoint and inside their buffers; the map
of the memory changes as the calls say, and the host gives no page beyond it; every reference and handle is
dropped exactly once; at most one thread holds a mutex and nobody sleeps for
ever; the data of a thread lives exactly as long as somebody needs it; a program
runs only when loaded and permitted, and the process ends when it exits.

## Modules

| Module | Models | Proofs in |
|---|---|---|
| `DynCode` | dynamic code and the thread table | `DynCodeProof` |
| `RegionSet`, `DynRegions` | the set of ranges (abstract) and the array that implements it | `TextProof` |
| `TextMapCache` | the cached writable mapping | `TextProof` |
| `DynText` | the dyncode calls over `DynRegions` and `TextMapCache` | `TextProof` |
| `Validator` | x86-32 validator, replacement, and a thread in the code | `ValidatorProof` |
| `CopyCode` | the byte-wise copy against fetching processors | `TextProof` |
| `VmCut` | the cutting loop of the memory map | `AppProof` |
| `PageMap`, `MemCalls` | pages as a function (abstract); memory map and memory calls | |
| `DescTable` | descriptors, references, messages | `DescInv` (invariants), `DescTableProof`, `DescHandles`, `DescTransfer` |
| `AppLife` | loading, starting and ending of the process | `AppProof` |
| `IntrMutex` | interruptible mutex and condition variable | `NcMutexProof` |
| `NcMutex` | pthread mutexes, conditions, once, over `IntrMutex` | `NcMutexProof` |
| `NcThread` | threads of the pthread library | `AppProof` |

An `MC...` module holds the symmetry sets and values of constants where a run
needs them; there is one `.cfg` per run.

**DynCode.**  `loadMu` and `threadsMu` are `dynamic_load_mutex` and
`threads_mu`; an action is what a thread does between taking or releasing them.
Of the memory of a region the model keeps whether its bundle heads hold code or
HLTs (`headsOpen`).  A thread is `inside` a region from the moment it jumps to a
head until it leaves.  `Enter` and `Leave` are the untrusted program, which the
validator restricts to entering bundles at their heads.  The validator itself
is a choice between `CreateAccepted` and `CreateRejected`.  `Modify` is one
step: the replacement has the same instruction boundaries, so a thread inside
goes on executing valid code (`Validator` and `CopyCode` are about that).  As in
the code it is allowed in every region of the table, also in one that waits for
deletion, and it can replace an HLT at a head.  The scan of
`NaClMinimumThreadGeneration` is a step for each slot, because each thread has
its own lock; the table is unlocked (`MinUnlock`) before the minimum is compared
with the region's generation (`DeleteFinish`), so threads can start and leave in
between.

Four variables are history that only the properties read.  `overrun` are the
threads inside a region over which `CopyBundleTails` wrote; `reopened` are the
regions whose halts a modification replaced after the request; `strays` are the
threads that entered through such a head; `late` are the threads that entered
the table between the scan and the comparison.

**DynRegions** has every loop iteration of the search and of the insertion as a
step, with `begin`, `end` and the result as variables.  Its refinement mapping
to `RegionSet` turns the array into the set of its elements.  `EAGAIN` of a
deletion is a free choice here; `DynCode` says when it happens.

**TextMapCache** computes offsets and sizes as the code does.  `live` says
which bytes each mapping shows; `asked`, `written` and `view` record what the
last call was to write, what it wrote and what its mapping covered.

**DynText** composes the two.  `TextCreate`, `TextModify` and `TextDelete` conjoin
the step of the table with the step of the cache for the range that the table
step determines, so the ranges the cache sees are exactly those the calls can
pass, and a failure to map happens where the code handles it.  The process may
die inside a call (`TextDies`).

**Validator.**  `text[a]` is what the processor decodes at address `a`; the
instruction stream is chosen while it is decoded, so one run covers every module
over the chosen instructions.  An instruction is its length and its kind as
`ValidateInst` tells kinds apart.  After acceptance a thread runs, and
replacements are validated pairwise and copied in, one instruction at a time,
under it.  `nap->ignore_validator_result` (a debugging option of `sel_ldr`) is off.

**CopyCode** is one call of `NCCopyCode`.  `mem` is the memory; a processor has
a position and a buffer of bytes fetched so far, window by window in any order
(processor and serialization are external, by the contract that the comments in
`nccopycode.c` rely on).  Sizes are half of the code's.  A single store of 4 or 8
bytes writes unchanged bytes around the changed ones back; `StoreOnce` has only
the changed ones, because nobody else writes the text meanwhile.

**VmCut, MemCalls, PageMap.**  `VmCut` has what the loop of `NaClVmmapUpdate`
does to an array, as operators.  `MemCalls` keeps the array with its lazily
removed entries and `is_sorted` flag (`mem_map`), the host's pages (`os`) and
the files' reference counts.  It starts from the entries that
`NaClMemoryProtection` makes: guard page, static and dynamic text, read-only data
if there is any, data and stack.  What a call reads before it takes `nap->mu` is a
step of its own.  The refinement mapping to `PageMap` reads the array page by
page.

**DescTable.**  `desc_mu` covers one table operation; between its steps a call
holds objects only through the references in its local variables (`local`).
Blocks, numbers and host handles are reused, lowest first.  `Faults` are the
allocations that may fail.  Sockets of the host are external: a queue of
messages that carry handles.

**AppLife** has the main thread of `sel_ldr`, the thread of the command channel,
the program's threads and a plugin that sends any request at any time.  A step is
a critical section of `nap->mu` or of the queue's mutex, or what lies between two
of them.  `NaClCondVarSignal` wakes any one sleeper, main thread or channel.
Nobody in the repository queues work (`NaClStartAsyncOp` has no caller), so the
queue is its quit flag.

**IntrMutex.**  A function is one step up to its wait, and another one from
there; a thread that was woken competes with all others.  `owners` are the
threads whose last call told them that they hold the mutex.

**NcMutex** composes the library with `IntrMutex` (`Mu == INSTANCE`): the
library's fields are plain memory, read and written a step at a time outside the
system calls, and a system call is a step of `Mu`.  One mutex of any of the three
types, or the one inside a `pthread_once_t`, and one condition variable are
created lazily.  The program keeps to POSIX (see the module's header): it
unlocks and waits only with a mutex it holds, except that it may lock and unlock
an error-checking mutex at any time.

**NcThread.**  A step is a critical section of `__nc_thread_management_lock`, or
the reading of `joinable` before it.  `Careful` says whether the program keeps
to the rule that a thread is joined or detached at most once and only after
`pthread_create` has returned; with `Careful = FALSE` it does anything.  A read
of released data ends the behaviour with `outcome = "stale data"`.

## Runs

| Run | Instance | Result |
|---|---|---|
| `dyncode` | 3 threads, 2 regions, 2 generations | no code is loaded over a thread that entered by an ordinary head; generations ordered; removal only after every check-in |
| `dyncode_holes` | 3 threads, 1 region | violated: the scan meets an empty slot |
| `dyncode_reopened` | 3 threads, 1 region | violated: a removed range has open heads |
| `dyntext` | 5 bundles of 2 bytes and the halt sled, pages of 4 bytes, 2 mappings, all byte addresses, sizes to 2 bundles | table safe, refinement to a set, every call ends; one cached mapping, which shows what is written |
| `validator` | 2 bundles of 3 bytes, 10 instructions, 1 change | control flow stays safe, also during a replacement; stub-out leaves only allowed code |
| `copycode` | 8 bytes, windows of 4, 2 processors, all new contents | nobody executes a torn instruction |
| `memory` | 14 pages in units of 2, 2 threads, 1 file | refinement of the map to pages, text untouched and host confined to the map, references exact, heap backed, `brk` honest |
| `descs` | 2 threads, 7 numbers, objects and handles, 4 calls | references and handles exact, the descriptors of a message delivered in order |
| `applife` | 3 threads, 2 exit codes, 3 requests | launch guarded, loaded once; exit ends the process with a status passed |
| `ncmutex` | 3 threads, depth 2, every type | exclusion, owner, once, no lost wakeup |
| `ncmutex_timed` | 2 threads, timed waits of every type | violated: the holder is not the owner |
| `threads` | 4 threads, 2 ids above 0, careful | data kept, ids unique, joins and shutdown end |

Why the bounds are enough to be interesting.  `dyncode`: three threads give one
that deletes, one that is inside and one that comes and goes during the scan;
two regions and two generations let a region be deleted, loaded again and
deleted, and let the generation reach its limit.  `dyntext`: five bundles allow
five regions, so the binary search halves the array with a cutoff of 1 and the
linear tail has two elements to choose from, and the buffer grows and shrinks; ranges lie
in one page or across two, aligned and not.  `validator`: two bundles with a third before
and behind, instructions that end inside and across a bundle, a register that
may be masked and one that may not, jumps into the text, behind it and
elsewhere.  `copycode`: instructions inside one window and across two, changed in
every set of bytes.  `memory`: data that ends within a page, read-only data, two free units, a
mapping over one and over two entries, over the text, and inaccessible, a file that ends within a unit, a length
that wraps.  `descs`: a send and a receive against a close of the same number,
with room for the number, the block and the handle to be reused; a channel holds
one message, so the order of messages, which the host guarantees, is not in
question, only that of the descriptors in one.  `applife`:
every pair of racing exits with one thread left, and a request after each of
load, start and a failure.  `ncmutex`: a holder, a sleeper and a thread that
comes first; a counter that would wrap at 4 is reached from 2 only by a mistake.
`threads`: four threads but three ids, so ids run out and are reused while old
threads are still to be joined.

The `memory` run identifies states that differ only in the order of an array
whose `is_sorted` flag is clear (`OrderWhenSorted`): every reader sorts first.

In the `ncmutex` run only fast mutexes are used with timed waits, because the
owner is wrong after a timeout (that is the finding of `ncmutex_timed`), and
only error-checking ones are interrupted, to keep the instance small.

Deadlock is not checked where the system may stop: a process ends (`applife`,
`threads`, `memory`, `ncmutex`), a program may join threads in a circle, a
plugin may stay silent, a validator ends with its verdict.

Fairness is weak fairness of the steps a thread takes *inside* the runtime or
the library once a call has begun and it is not asleep: the operating system
schedules every runnable thread.  Nothing is assumed of the program or of the
plugin: no call ever has to be made, no region left, no mutex unlocked, no
request sent.  `JoinReturns` says therefore that a joiner, asleep or woken for
nothing, returns once its thread is about to leave `pthread_exit`, and `ExitEnds` starts from a thread that is in `exit`.
`OnceReturns` also needs the init routine of `pthread_once` to return.

## Proofs

All theorems hold for every value of the constants that satisfies the `ASSUME`
of the module; the proofs are by induction over steps, one case per action.

* `DynCodeProof!Bookkeeping`, `Removal` and `CodeSafe`, for any number of threads,
  regions and generations and any program, from one inductive invariant (`IInv`
  in `DynCode`).  `Bookkeeping`: generations are ordered and the thread table is
  consistent.  `Removal`: a region is removed only when every thread that was in
  the table at the scan, and still is, has checked in.  `CodeSafe`: `CodeStable`
  and `InsideAllocated`.
  None of these is inductive.  That a removed region is empty needs
  `InsideBehind` (a thread inside a region that waits for deletion has a
  generation below the region's) and `OpenRegions` (a region that can be entered
  is not waiting for deletion, unless it was reopened).  That the minimum can be
  trusted needs `ScanSound`: during the scan every slot passed holds a thread no
  further behind than `scanMin`; after the unlock this stays true of the threads
  that were there, because generations only grow, and a thread that has come
  since is not in the region, because its heads are closed.  The threads the
  theorem excludes are the `strays`, for which the statement is false (see
  Findings).
* `TextProof!ArraySafe`, `BufferSafe` and `ArrayImplementsSet`: the array is
  sorted and disjoint, the search ends at the closest region, the insertion
  scrolls over at most one element and stays inside its buffer, and every step of
  the array is a step or a stutter of `RegionSet`.  The invariant carries the
  bounds of the search from step to step (`SearchRight`).  `ModifySafe`: widened
  to bundles a modification still writes inside one region.  This needs that
  regions begin and end at bundles and that the call found its region before it
  writes (`WriteInv`), and arithmetic on multiples of the bundle size.
* `TextProof!OneMapping` and `WritesRight`: for every page size, text and
  sequence of calls.  The two properties and the type invariant are inductive
  together; the lemma `PagesCover` has the arithmetic of pages.
* `TextProof!TextComponents`: a behaviour of `DynText` is one of `DynRegions` and
  one of `TextMapCache`, so the six theorems above hold of the system calls that
  use both.  What has to be shown is that every range the calls write lies in the
  dynamic text (`CreateInText`, `DeleteInText`, `ModifyInText`), which follows from
  the invariant of the table: `TextMapCache` takes it for granted.
* `TextProof!CopySafe`: no processor executes a mixture of two versions of
  an instruction, and what has been copied is exact.  The invariant says what
  memory holds at each stage of the copy (`MemOK`) and what a processor can have
  fetched by then (`ProcOK`).
* `ValidatorProof!FlowStays`: a thread in accepted text is always at the start
  of a harmless instruction, and at an indirect jump only behind its mask.  The
  invariant relates the tables of the validator to the text decoded so far
  (`CheckOK`), turns them into a fact about the accepted text at the end
  (`TextOK`), and carries it through the pairwise pass (`PairOKSoFar`) and the
  copying (`CopyOK`).  `JumpsKept`: no step changes a masked jump or its mask,
  as an action property from the same invariant.
* `ValidatorProof!StubsHold`: the second pass of the stub-out mode meets nothing
  the first one should have overwritten.  The invariant (`StubInv`) says what each
  pass has left behind it.
* `AppProof!CutPages` and `CutApart`: for every array of disjoint entries and
  every range, the cut leaves each page outside the range mapped as it was,
  offset included, none inside it, and entries that are apart.
* `AppProof!LaunchSafe`, `LoadSafe` and `ExitSafe`, for any set of threads of
  the program.  The invariant says what the load status tells of the loads made
  so far, on either thread (`LoadInv`), where the main thread is when the program
  has been launched (`StartInv`), and that an exit status other than the initial
  one was stored by a thread that passed it (`ExitInv`).
* `DescTableProof!RefsSafe`: every reference count is the number of slots and
  local variables that refer to the object, and the invalid descriptor keeps one
  of its own.  The proof counts pairs (thread, place); `CallsOK` says which
  places a call uses in each stage.
* `DescTransfer!HandlesSafe` and `DeliverySafe`: no handle of the host has two
  owners or, until a constructor failed, none; and the object made of the p-th
  descriptor of a message designates what the sender's p-th descriptor did.  The
  invariant (`HandleInv` in `DescInv`) ties each open handle to the object or the
  call that will close it, and the handles still in `kern_handle` to the entries
  of the message that are still to be internalized.  `DescHandles` has the steps
  that move no handle between the two, `DescTransfer` those of a transfer.
* `NcMutexProof!LockSafe`: mutual exclusion and no lost wakeup of the runtime's
  mutex until an interruption.  `TypeOK`, `MutualExclusion` and `NoLostWakeup`
  are inductive together: a release wakes a sleeper if there is one, and a woken
  thread stays awake until it has seen the mutex free or taken.
* `NcMutexProof!WakeupsKept`, `PthreadExclusion`, `OwnersKnown` and `OnceSafe`: the
  library on top of it, for any set of threads.  `WakeupsKept` follows because
  every step of the library is a step of the runtime's mutex or leaves it alone
  (`RuntimeStep`).  The invariant of the others says where a thread that the
  runtime counts as an owner is in the library (`CallInv`, `SleepInv`), that the
  racing creations settle on one mutex (`CreateInv`), and when the unprotected
  fields can be relied on (`FieldInv`).  `OwnersKnown` assumes that checked
  mutexes are not used for timed waits; without that it is false (see Findings).
* `AppProof!IdsUnique`: ids are unique for every program; below the limit
  because ids in use are below the counter (`IdsBelowCounter`), above it
  because the search looks at the table.
* `AppProof!ShutdownSafe`: `ShutdownWaits` for every program.  The counter is
  the cardinality of the set of live threads (`CountInv`): every action moves at
  most one thread into or out of that set (`LiveStep`), and only an exit that
  leaves it empty ends the process (`ExitStep`).
* `AppProof!CarefulSafe`: for a careful program, `DataKept`.  The invariant
  `DataInv` says in which stages basic data is (`DataStages`), that a thread not
  yet started has one creator (`OneCreator`), and who may release the data
  (`OneCollector`): the thread itself only if it saw itself detached, otherwise
  its only joiner or whoever claims it when it has terminated.

The assumptions are those of the `ASSUME`s: finite sets of threads, sizes that are
positive, arguments of the right type and, in `DescTable`, room for the
descriptors that exist at the start.  `CarefulSafe` and `OwnersKnown` assume in
addition what their bullets say.

Only model-checked:

* liveness (`CallReturns`, `OnceReturns`, `ExitEnds`, `ToldRuns`, `JoinReturns`,
  `LastThreadWakesMain`): fairness and ENABLED are out of the prover's reach; and
  the three violations;
* `MemCalls` apart from the cut: marked entries are removed by a recursion, the
  array is sorted with `SortSeq` and updated up to three times in a call, so what a
  call does to all pages would need an induction over data.  `CutPages` and `CutApart` cover the loop of one update.

## Findings

Three runs are expected to end in a violation.  Each states what a comment, a
header or a test says of the code, and `PROJECT.json` quotes it:

* `dyncode_holes`: the hole in the thread table (`nacl_text.c:400`);
* `dyncode_reopened`: a modification is accepted while a deletion is pending
  (`:787`), although the request is to keep threads out of the region (`:940`) and
  the removal relies on it (`:957`).  `CodeStable` and `CodeSafe` leave out exactly
  the threads that enter through a head reopened in this way;
* `ncmutex_timed`: the owner of a mutex after a timed wait (`nc_condvar.c:96`).
  The comment in the test that it quotes describes the symptom for an untimed
  wait, which sets the owner today; the timed one does not when it times out.

Further places where the code is narrower than its comments, without a run:

* `nacl_text.c:563`: the first page of the dynamic text cannot be mapped, because
  offset 0 stands for an empty cache (`CheckFails` in `TextMapCache`).
* `nacl_text.c:701`, `:718`: a load that is rejected leaves its range in the
  table, so it must be deleted before the address can be used (`CreateRejected`).
* `nccopycode.c:226`: `NCCopyCode` returns 0 although `NCDecodeSegmentPair`
  stopped at an instruction that was overwritten with HLTs because this CPU
  lacks it; `FlowSafe` shows that the text is safe, but the rest is not replaced.
* `nacl_syscall_common.c:1408`, `:1436`: the zero-filled and the inaccessible part
  of a mapping are made without `MAP_FIXED`, so the host puts them elsewhere and
  their place keeps the pages it had, while the map says otherwise (comment at
  `:1205`).  `MmapRest` does what the code does; `MapImplementsPages` is about the
  map, and `HostConfined` therefore says only that the host gives no access to
  pages the map does not hold.
* `nacl_interruptible_mutex.c:94`: an interruption that finds the mutex FREE
  wakes nobody, so sleepers behind the one last woken stay asleep; `:85`: an unlock during an
  interruption turns INTERRUPTED to FREE, after which the reset is fatal
  (`:117`).  Neither function has a caller in the repository.
* `nc_thread.c:530`: `pthread_exit` goes by a copy of `joinable`, so a detach
  after it is lost and the basic data is never freed (`pthread.h:461` promises
  otherwise).  `:627`, `:634`: with two joiners the second uses freed data.
  `:399`: an error path of `pthread_create` uses a pointer that is not set.
* `nc_mutex.c:155`: `pthread_once` ignores the result of its lock.  When the
  mutex cannot be created, the init routine may run twice (`OnceRight` excludes
  this), and the error stays in the handle, since only -1 means "not created".
* `nrd_xfer.c:487`: without memory for `recv_buf` the cleanup code closes what an
  uninitialized `kern_handle` names (`NoBuffer`), against the comment at `:698`.
  `:115`: a descriptor that cannot be internalized is taken for the end of the
  message.  `:591`: a truncation is recorded only in a local header.  `:781`,
  `:793`: if the second socket's constructor fails, the first is released and
  then its block is freed again (`MakeFails` leaves the second free out).
* `sel_main.c:475` says that an error is reported to the plugin before `sel_ldr`
  gives up, and `:726` that reporting is done; but after an error the main thread
  does not wait for `start_module` (`:719`) and may exit before the channel's
  thread has answered.  `:635`: a failing preparation changes the load status
  after `start_module` may have answered that all is well.
* `sel_ldr.c:1043`: `start_module` before `load_module` puts the channel's only
  thread to sleep, so a later load is never served; `:1131`: a channel thread
  that cannot be created is not noticed, and the main thread waits for ever.

## Plan

1. pthread library: the block cache, thread-specific data, semaphores.
2. Compositions: mutex descriptors closed while somebody waits; threads of the
   library over the thread table of the runtime.
3. Proofs: the memory map's refinement on top of `CutPages`.

## Not modelled

The x86-64 and ARM validators and the decoder's tables (instruction semantics,
largely generated), SRPC (marshalling), the plugin and the Pepper and NPAPI
proxies (browser interfaces outside the repository), the launcher, the debug
stub, generic I/O and platform qualification.  They make up most of the
repository's lines; what the modules here cover is a small share of it.

In the modelled parts: log messages, error codes that no property tells apart,
the contents of code beyond its version, weak memory ordering of the processor
between bundle tails and heads (the code orders the writes with a barrier), and
failing calls of the platform's own mutexes.  Further limits by module:

* `MemCalls`: a failing host mapping at a fixed address is fatal in the code and
  left out.  `NaClVmmapFindSpace`, `Visit` and `IterErase` have no caller in the
  system calls.
* `DescTable`: illegal type tags; bytes of messages; a socket pair's objects are
  made one after the other.
* `Validator`: the CPU feature tests of `sel_validate_image.c` are the kind
  "lacking"; prefixes and operands are not modelled.
* `CopyCode`: a fetch does not straddle two calls of `NCCopyCode`.
* `AppLife`: inserting work into the queue and `nacl_bottom_half.c` (no caller);
  the `log` request.
* `NcMutex`: semaphores (they forward to system calls), `pthread_cond_destroy`,
  a wait with a recursive mutex that is held more than once (the code forgets
  the count; POSIX leaves it undefined).
* `NcThread`: the cache of stacks and TLS blocks, thread-specific data.
