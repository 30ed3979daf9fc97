----------------------------- MODULE DescTable -----------------------------
(***************************************************************************)
(* The descriptor table of a NaCl application (sel_ldr.c), the reference   *)
(* counts of the NaClDesc objects in it (nacl_refcount.c), and the system  *)
(* calls that take references: the calls that use one descriptor (read,    *)
(* write, lock, ...), those that use two (cond_wait), close, the calls     *)
(* that make descriptors, and imc_sendmsg and imc_recvmsg, which carry     *)
(* descriptors between processes (nacl_syscall_common.c, nrd_xfer.c).      *)
(*                                                                         *)
(* desc_mu covers one table operation, never a call: between its steps a   *)
(* call holds objects only through the references in its local variables.  *)
(* local[t] is those variables: place 0 is ndp (the channel, cv_desc),     *)
(* places 1..MaxDesc are kern_desc, new_desc, pair or mutex_desc, and      *)
(* place MaxDesc + 1 is invalid_desc.                                      *)
(***************************************************************************)
EXTENDS Integers, Sequences, FiniteSets

CONSTANTS
    Thread,      \* threads of the application
    Slots,       \* number of descriptor numbers in play
    Objects,     \* number of NaClDesc blocks malloc can hand out
    Handles,     \* number of host handles the process can have open
    MaxDesc,     \* NACL_ABI_IMC_DESC_MAX
    MaxQueue,    \* messages a host socket buffers
    MaxCalls,    \* bound on the calls the program makes
    MaxStray,    \* bound on the open handles an unset kern_handle names
    MakeArgs,    \* [kind, res] of the objects the program creates
    SendArgs,    \* descv arrays the program sends
    WaitArgs,    \* <<cond_handle, mutex_handle>> the program waits on
    ConnectArgs, \* descriptors the program connects on
    RecvArgs,    \* desc_lengths the program receives with
    Faults       \* which allocations may fail: "buffer", "object", "ctor"

Slot == 0 .. Slots - 1
Obj == 1 .. Objects
Handle == 1 .. Handles
Place == 0 .. MaxDesc + 1

Null == 0
Invalid == -1       \* the singleton of nacl_desc_invalid.c, and
                    \* kKnownInvalidDescNumber in a descv array
NoHandle == 0
NoRes == "none"

\* The two ends of a connected socket pair, and which is whose peer.
End == {"A", "B"}
Peer(e) == CHOOSE f \in End : f # e

(***************************************************************************)
(* Kinds of object, by what the transfer code does with them: "imc" is     *)
(* NaClDescImcDesc, which carries others and is itself not transferable;   *)
(* "local" is a mutex, condition variable or semaphore; "conn" travels as  *)
(* bytes and owns no handle (NaClDescConnCap); "shm" and "sock" own one    *)
(* handle and differ in when Internalize consumes it (NaClDescImcShm       *)
(* before the constructor runs, NaClDescXferableDataDesc after).           *)
(***************************************************************************)
Kind == {"imc", "local", "conn", "shm", "sock"}
Owns(kind) == kind \in {"imc", "shm", "sock"}
Transferable(kind) == kind \in {"conn", "shm", "sock"}

ASSUME DescAssumption ==
    /\ IsFiniteSet(Thread)
    /\ Slots \in Nat /\ Slots >= 4
    /\ Objects \in Nat /\ Objects >= 4
    /\ Handles \in Nat /\ Handles >= 3
    /\ MaxDesc \in Nat /\ MaxDesc >= 1
    /\ \A v \in SendArgs : v \in Seq(Slot \cup {Invalid}) /\ Len(v) <= MaxDesc
    /\ \A m \in MakeArgs : /\ m \in Seq([kind : Kind, res : STRING \ {NoRes}])
                            /\ Len(m) \in 1 .. MaxDesc
    /\ WaitArgs \subseteq Slot \X Slot
    /\ ConnectArgs \subseteq Slot
    /\ RecvArgs \subseteq Nat

VARIABLES
    desc_tbl,   \* nap->desc_tbl: slot -> object or Null
    refs,       \* nrcp->ref_count of each object (0: the block is free),
                \* and of the invalid descriptor
    obj,        \* kind, handle and, for "conn", the address
    host,       \* handle -> what it designates, NoRes when closed
    queue,      \* messages waiting at each end of the pair
    local,      \* local descriptor variables of each thread's call
    calls,      \* how many calls were made so far
    faulted,    \* history: the faults of Faults that struck so far
    call        \* where each thread's call is, and its other variables

vars == <<desc_tbl, refs, obj, host, queue, local, calls, faulted, call>>

NoObject == [kind |-> "local", h |-> NoHandle, addr |-> NoRes]
Idle == [pc |-> "idle", op |-> "none", descv |-> <<>>, makes |-> <<>>, len |-> 0,
         i |-> 1, msg |-> <<>>, kern |-> <<>>]
NoLocals == [p \in Place |-> Null]

ResOf(o) == IF Owns(obj[o].kind) THEN host[obj[o].h] ELSE obj[o].addr

----------------------------------------------------------------------------
(* Objects and handles.                                                    *)

\* malloc, taking the lowest free block: a block just freed is reused at
\* once, which is the worst case for a stale pointer.
Malloc(o) == refs[o] = 0 /\ \A p \in Obj : p < o => refs[p] # 0

\* The host hands out its lowest free handles, in order.
Lowest(s) ==
    /\ \A i \in DOMAIN s : host[s[i]] = NoRes /\ \A j \in 1 .. i - 1 : s[j] < s[i]
    /\ \A h \in Handle, i \in DOMAIN s :
        (host[h] = NoRes /\ h < s[i]) => \E j \in 1 .. i - 1 : s[j] = h

Ref(o) == refs' = [refs EXCEPT ![o] = @ + 1]

\* Closing the last handle of an end of the pair throws away what waits there.
Closed(hs) == [h \in Handle |-> IF h \in hs THEN NoRes ELSE host[h]]
Drained(hs) == [e \in End |-> IF \E h \in hs : host[h] = e THEN <<>> ELSE queue[e]]

(***************************************************************************)
(* NaClRefCountUnref: the last reference runs the destructor, which closes *)
(* the handle the object owns, and frees the block.                        *)
(***************************************************************************)
Unref(o) ==
    LET hs == {h \in Handle : o # Invalid /\ refs[o] = 1 /\ Owns(obj[o].kind) /\ h = obj[o].h}
    IN /\ refs' = [refs EXCEPT ![o] = @ - 1]
       /\ host' = Closed(hs)
       /\ queue' = Drained(hs)
       /\ obj' = IF o # Invalid /\ refs[o] = 1 THEN [obj EXCEPT ![o] = NoObject] ELSE obj

----------------------------------------------------------------------------
(* Getting a descriptor, using it, and closing it.                         *)

\* Mutant: the reference is taken after desc_mu is dropped, so not at all here.
GetDescNoRef(t, p, d) ==
    /\ desc_tbl[d] # Null
    /\ local' = [local EXCEPT ![t][p] = desc_tbl[d]]
    /\ UNCHANGED refs

\* NaClGetDesc into local variable p of thread t.
GetDesc(t, p, d) ==
    /\ desc_tbl[d] # Null
    /\ local' = [local EXCEPT ![t][p] = desc_tbl[d]]
    /\ Ref(desc_tbl[d])

\* The call jumps to its cleanup code, which uses only the descriptors.
Cleanup(t) == call' = [call EXCEPT ![t] = [Idle EXCEPT !.pc = "drop"]]

(***************************************************************************)
(* Entry of every call that starts with NaClGetDesc(d): "use" stands for   *)
(* the calls that only run a method of the object (read, write, lseek,     *)
(* ioctl, fstat, getdents, mutex_lock, cond_signal, sem_wait, ...),        *)
(* "connect" for imc_connect (and imc_accept), whose method makes a new    *)
(* object.  With no such descriptor the call returns EBADF and has done    *)
(* nothing.                                                                *)
(***************************************************************************)
Enter(t, d, c) ==
    /\ call[t].pc = "idle"
    /\ GetDesc(t, 0, d)
    /\ call' = [call EXCEPT ![t] = c]
    /\ UNCHANGED <<desc_tbl, obj, host, queue>>

EnterUse(t, d) == Enter(t, d, [Idle EXCEPT !.pc = "drop"])
EnterWait(t, d, e) == Enter(t, d, [Idle EXCEPT !.pc = "gather", !.op = "wait", !.descv = <<e>>])
EnterConnect(t, d, a) == Enter(t, d, [Idle EXCEPT !.pc = "make", !.op = "connect", !.makes = <<a>>])
EnterSend(t, d, v) == Enter(t, d, [Idle EXCEPT !.pc = "gather", !.op = "send", !.descv = v])
EnterRecv(t, d, n) == Enter(t, d, [Idle EXCEPT !.pc = "recv", !.op = "recv", !.len = n])

\* The end of a call: NaClDescUnref on its local variables, in order, with
\* the descriptor it was called on last but for invalid_desc.
ReleaseOrder == [i \in 1 .. MaxDesc + 2 |->
                    IF i <= MaxDesc THEN i ELSE IF i = MaxDesc + 1 THEN 0 ELSE MaxDesc + 1]

Release(t) ==
    /\ call[t].pc = "drop"
    /\ \E i \in DOMAIN ReleaseOrder :
        LET p == ReleaseOrder[i] IN
        /\ local[t][p] # Null
        /\ \A j \in 1 .. i - 1 : local[t][ReleaseOrder[j]] = Null
        /\ Unref(local[t][p])
        /\ local' = [local EXCEPT ![t][p] = Null]
        /\ call' = [call EXCEPT ![t] = IF \A q \in Place \ {p} : local[t][q] = Null
                                       THEN Idle ELSE @]
    /\ UNCHANGED desc_tbl

(***************************************************************************)
(* NaClCommonSysClose: under desc_mu it takes a reference and has          *)
(* NaClSetDescMu(d, NULL) drop the table's; its own reference goes after   *)
(* the lock does, so that a destructor never runs under desc_mu.           *)
(***************************************************************************)
Close(t, d) ==
    /\ call[t].pc = "idle"
    /\ desc_tbl[d] # Null
    /\ local' = [local EXCEPT ![t][0] = desc_tbl[d]]
    /\ desc_tbl' = [desc_tbl EXCEPT ![d] = Null]
    /\ call' = [call EXCEPT ![t] = [Idle EXCEPT !.pc = "drop"]]
    /\ UNCHANGED <<refs, obj, host, queue>>     \* one reference more, one less

----------------------------------------------------------------------------
(* Making descriptors, and putting them into the table.                    *)

\* A new object o of the kind and resource a, which takes handle h over.
Construct(o, kind, h, addr) ==
    obj' = [obj EXCEPT ![o] = [kind |-> kind, h |-> h, addr |-> addr]]

(***************************************************************************)
(* The objects a call makes, one after the other: one for open,            *)
(* mem_obj_create, mutex_create and their like, and for the method that    *)
(* accept and connect run; two for socketpair and makeboundsock.  They     *)
(* belong to the call until they are in the table.                         *)
(***************************************************************************)
EnterMake(t, as) ==
    /\ call[t].pc = "idle"
    /\ call' = [call EXCEPT ![t] = [Idle EXCEPT !.pc = "make", !.op = "make", !.makes = as]]
    /\ UNCHANGED <<desc_tbl, refs, obj, host, queue, local>>

Make(t) ==
    LET c == call[t]
        a == c.makes[c.i]
    IN /\ c.pc = "make"
       /\ c.op = "connect" => obj[local[t][0]].kind = "conn"
       /\ \E o \in Obj, s \in [1 .. (IF Owns(a.kind) THEN 1 ELSE 0) -> Handle] :
            /\ Malloc(o)
            /\ Lowest(s)
            /\ Construct(o, a.kind, IF Owns(a.kind) THEN s[1] ELSE NoHandle,
                         IF Owns(a.kind) THEN NoRes ELSE a.res)
            /\ host' = [h \in Handle |-> IF \E i \in DOMAIN s : s[i] = h THEN a.res ELSE host[h]]
            /\ refs' = [refs EXCEPT ![o] = 1]
            /\ local' = [local EXCEPT ![t][c.i] = o]
       /\ call' = [call EXCEPT ![t] = [c EXCEPT !.i = @ + 1,
                                             !.pc = IF c.i = Len(c.makes) THEN "install" ELSE "make"]]
       /\ UNCHANGED <<desc_tbl, queue>>

\* The host refused or memory ran out: what was made so far is dropped.  (When
\* the second constructor of a pair fails, NaClCommonDescSocketPair frees the block
\* of the first socket after Unref has; the second free is left out.)
MakeFails(t) ==
    /\ call[t].pc = "make"
    /\ IF local[t] = NoLocals THEN call' = [call EXCEPT ![t] = Idle] ELSE Cleanup(t)
    /\ UNCHANGED <<desc_tbl, refs, obj, host, queue, local>>

\* DynArrayFirstAvail on the table.
FirstAvail(d) == desc_tbl[d] = Null /\ \A e \in Slot : e < d => desc_tbl[e] # Null

(***************************************************************************)
(* NaClSetAvail on the call's new objects, one lock acquisition each: the  *)
(* local reference becomes the table's.  imc_recvmsg writes                *)
(* kKnownInvalidDescNumber instead when the object is the invalid          *)
(* descriptor, and forgets the reference it received with it.              *)
(***************************************************************************)
Install(t) ==
    /\ call[t].pc = "install"
    /\ \E p \in 1 .. MaxDesc :
        /\ local[t][p] # Null
        /\ \A q \in 1 .. p - 1 : local[t][q] = Null
        /\ IF local[t][p] = Invalid
           THEN UNCHANGED desc_tbl
           ELSE \E d \in Slot : /\ FirstAvail(d)
                                /\ desc_tbl' = [desc_tbl EXCEPT ![d] = local[t][p]]
        /\ local' = [local EXCEPT ![t][p] = Null]
    /\ UNCHANGED <<refs, obj, host, queue, call>>

\* All installed: the call goes on to drop the descriptors it was called on.
Installed(t) ==
    /\ call[t].pc = "install"
    /\ \A p \in 1 .. MaxDesc : local[t][p] = Null
    /\ call' = [call EXCEPT ![t] =
                  IF local[t] = NoLocals THEN Idle ELSE [Idle EXCEPT !.pc = "drop"]]
    /\ UNCHANGED <<desc_tbl, refs, obj, host, queue, local>>

----------------------------------------------------------------------------
(* imc_sendmsg: NaClCommonSysImc_Sendmsg and NaClImcSendTypedMessage.      *)

\* NaClDescInvalidMake, for a kKnownInvalidDescNumber in descv.
InvalidMake(t, p) ==
    /\ local' = [local EXCEPT ![t][p] = Invalid]
    /\ Ref(Invalid)

\* The references to the descriptors of descv (or to mutex_desc), one
\* NaClGetDesc each; one that is not there ends the call with EBADF.
Gather(t) ==
    LET c == call[t] IN
    /\ c.pc = "gather"
    /\ c.i <= Len(c.descv)
    /\ LET d == c.descv[c.i] IN
       \/ /\ IF d = Invalid THEN InvalidMake(t, c.i) ELSE GetDesc(t, c.i, d)
          /\ call' = [call EXCEPT ![t] = [c EXCEPT !.i = @ + 1]]
       \/ /\ d # Invalid
          /\ desc_tbl[d] = Null
          /\ Cleanup(t)
          /\ UNCHANGED <<refs, local>>
    /\ UNCHANGED <<desc_tbl, obj, host, queue>>

\* Externalize: a type tag for each object, and its handle or its bytes.
Entry(o) ==
    IF o = Invalid THEN [tag |-> "invalid", res |-> NoRes]
    ELSE [tag |-> obj[o].kind, res |-> ResOf(o)]

Message(t) == [i \in DOMAIN call[t].descv |-> Entry(local[t][i])]

\* Whether NaClImcSendTypedMessage gets to a SendMsg that is implemented; only an
\* IMC socket carries descriptors.
Sendable(t) ==
    /\ \/ obj[local[t][0]].kind = "imc"
       \/ obj[local[t][0]].kind = "sock" /\ call[t].descv = <<>>
    /\ \A i \in DOMAIN call[t].descv :
        local[t][i] # Invalid => Transferable(obj[local[t][i]].kind)

IsOpen(e) == \E h \in Handle : host[h] = e

(***************************************************************************)
(* The message goes into the peer's queue; the host takes handles of its   *)
(* own on what the message carries.  A socket whose other end is not in    *)
(* this process takes anything.                                            *)
(***************************************************************************)
Send(t) ==
    LET c == call[t]
        e == ResOf(local[t][0])
    IN /\ c.pc = "gather"
       /\ c.op = "send"
       /\ c.i > Len(c.descv)
       /\ Sendable(t)
       /\ IF e \in End
          THEN /\ IsOpen(Peer(e))
               /\ Len(queue[Peer(e)]) < MaxQueue
               /\ queue' = [queue EXCEPT ![Peer(e)] = Append(@, Message(t))]
          ELSE UNCHANGED queue
       /\ Cleanup(t)
       /\ UNCHANGED <<desc_tbl, refs, obj, host, local>>

\* EINVAL before anything is sent, EAGAIN, EMSGSIZE or EIO from the host;
\* and the end of cond_wait's Wait, which also just drops its references.
NotSent(t) ==
    /\ call[t].pc = "gather"
    /\ call[t].i > Len(call[t].descv)
    /\ Cleanup(t)
    /\ UNCHANGED <<desc_tbl, refs, obj, host, queue, local>>

----------------------------------------------------------------------------
(* imc_recvmsg: NaClCommonSysImc_Recvmsg and NaClImcRecvTypedMessage.      *)
(* len is the caller's desc_length.                                        *)

(***************************************************************************)
(* No memory for recv_buf: the jump to cleanup comes before the loop that  *)
(* sets kern_handle to NACL_INVALID_HANDLE, and cleanup closes whatever    *)
(* the stack held there.                                                   *)
(***************************************************************************)
NoBuffer(t) ==
    /\ call[t].pc = "recv"
    /\ "buffer" \in Faults
    /\ \E hs \in SUBSET Handle : /\ Cardinality(hs) <= MaxStray
                                 /\ host' = Closed(hs)
                                 /\ queue' = Drained(hs)
    /\ faulted' = faulted \cup {"buffer"}
    /\ Cleanup(t)
    /\ UNCHANGED <<desc_tbl, refs, obj, local>>

\* w lists the positions of m whose descriptors come with a handle, in order.
WithHandle(m, w) ==
    /\ \A j, k \in DOMAIN w : j < k => w[j] < w[k]
    /\ \A i \in DOMAIN m : Owns(m[i].tag) <=> \E j \in DOMAIN w : w[j] = i

\* RecvMsg took a message: the host has opened a handle for each it carries.
Receive(t) ==
    LET c == call[t]
        e == ResOf(local[t][0])
        m == Head(queue[e])
    IN /\ c.pc = "recv"
       /\ obj[local[t][0]].kind = "imc"
       /\ e \in End
       /\ queue[e] # <<>>
       /\ \E n \in 0 .. Len(m) : \E w \in [1 .. n -> DOMAIN m] :
            /\ WithHandle(m, w)
            /\ \E s \in [1 .. n -> Handle] :
                /\ Lowest(s)
                /\ host' = [h \in Handle |-> IF \E j \in 1 .. n : s[j] = h
                                             THEN m[w[CHOOSE j \in 1 .. n : s[j] = h]].res
                                             ELSE host[h]]
                /\ call' = [call EXCEPT ![t] = [c EXCEPT !.pc = "internalize", !.msg = m, !.kern = s]]
       /\ queue' = [queue EXCEPT ![e] = Tail(@)]
       /\ UNCHANGED <<desc_tbl, refs, obj, local>>

\* RecvMsg failed: not a socket that can receive, would block, peer gone.
NotReceived(t) ==
    /\ call[t].pc = "recv"
    /\ Cleanup(t)
    /\ UNCHANGED <<desc_tbl, refs, obj, host, queue, local>>

\* Mutant: the handles are taken from the back.
TakeLast(kern, tag) == IF Owns(tag) THEN kern[Len(kern)] ELSE NoHandle

\* Which handle an object of a type takes over, *xfer->next_handle.
TakeHandle(kern, tag) == IF Owns(tag) THEN Head(kern) ELSE NoHandle

\* Mutant: the handle stays in kern_handle although the new object owns it.
KeepHandle(kern, tag) == kern

\* *xfer->next_handle++ = NACL_INVALID_HANDLE.
LeftHandles(kern, tag) == IF Owns(tag) THEN Tail(kern) ELSE kern

(***************************************************************************)
(* NaClDescInternalizeFromXferBuffer on the next descriptor.  kern is the  *)
(* part of kern_handle not yet consumed: an object that owns a handle      *)
(* takes the next one, and the entry becomes NACL_INVALID_HANDLE.          *)
(***************************************************************************)
Internalize(t) ==
    LET c == call[t]
        m == c.msg[c.i]
    IN /\ c.pc = "internalize"
       /\ c.i <= Len(c.msg)
       /\ c.i <= MaxDesc            \* beyond it the loop is a LOG_FATAL
       /\ m.tag # "invalid"
       /\ \E o \in Obj :
            /\ Malloc(o)
            /\ Construct(o, m.tag, TakeHandle(c.kern, m.tag),
                         IF Owns(m.tag) THEN NoRes ELSE m.res)
            /\ refs' = [refs EXCEPT ![o] = 1]
            /\ local' = [local EXCEPT ![t][c.i] = o]
       /\ call' = [call EXCEPT ![t] = [c EXCEPT !.i = @ + 1, !.kern = LeftHandles(@, m.tag)]]
       /\ UNCHANGED <<desc_tbl, host, queue>>

InternalizeInvalid(t) ==
    LET c == call[t] IN
    /\ c.pc = "internalize"
    /\ c.i <= Len(c.msg)
    /\ c.i <= MaxDesc
    /\ c.msg[c.i].tag = "invalid"
    /\ InvalidMake(t, c.i)
    /\ call' = [call EXCEPT ![t] = [c EXCEPT !.i = @ + 1]]
    /\ UNCHANGED <<desc_tbl, obj, host, queue>>

(***************************************************************************)
(* The type's Internalize fails, for want of memory or in the constructor  *)
(* (which for shared memory is after it consumed the handle).              *)
(* NaClDescInternalizeFromXferBuffer then returns 0, which the loop takes  *)
(* for the end of the descriptors.                                         *)
(***************************************************************************)
InternalizeFails(t) ==
    LET c == call[t] IN
    /\ c.pc = "internalize"
    /\ c.i <= Len(c.msg)
    /\ c.msg[c.i].tag # "invalid"
    /\ \/ /\ (\E o \in Obj : Malloc(o)) => "object" \in Faults
          /\ call' = [call EXCEPT ![t] = [c EXCEPT !.pc = "close"]]
          /\ UNCHANGED faulted
       \/ /\ "ctor" \in Faults
          /\ faulted' = faulted \cup {"ctor"}
          /\ call' = [call EXCEPT ![t] = [c EXCEPT
                !.pc = "close",
                !.kern = IF c.msg[c.i].tag = "shm" THEN LeftHandles(@, "shm") ELSE @]]
    /\ UNCHANGED <<desc_tbl, refs, obj, host, queue, local>>

\* The end of NaClImcRecvTypedMessage: close what is left in kern_handle.
\* The handles are this call's alone, so closing them is one step.
CloseHandles(t) ==
    LET c == call[t]
        hs == {h \in Handle : \E j \in DOMAIN c.kern : c.kern[j] = h}
    IN /\ \/ c.pc = "close"
          \/ c.pc = "internalize" /\ c.i > Len(c.msg)
       /\ host' = Closed(hs)
       /\ queue' = Drained(hs)
       /\ call' = [call EXCEPT ![t] = [c EXCEPT !.pc = "trunc", !.kern = <<>>]]
       /\ UNCHANGED <<desc_tbl, refs, obj, local>>

\* The caller's array is too short: the descriptors beyond it are dropped.
Truncate(t) ==
    /\ call[t].pc = "trunc"
    /\ \E p \in call[t].len + 1 .. MaxDesc :
        /\ local[t][p] # Null
        /\ \A q \in call[t].len + 1 .. p - 1 : local[t][q] = Null
        /\ Unref(local[t][p])
        /\ local' = [local EXCEPT ![t][p] = Null]
    /\ UNCHANGED <<desc_tbl, call>>

\* invalid_desc, against which the loop over the new descriptors compares.
MakeInvalid(t) ==
    /\ call[t].pc = "trunc"
    /\ \A p \in call[t].len + 1 .. MaxDesc : local[t][p] = Null
    /\ InvalidMake(t, MaxDesc + 1)
    /\ call' = [call EXCEPT ![t] = [@ EXCEPT !.pc = "install"]]
    /\ UNCHANGED <<desc_tbl, obj, host, queue>>

----------------------------------------------------------------------------
\* A program that has connected a socket to itself, and made a shared
\* memory object and a connection capability.
Made == << [kind |-> "imc", h |-> 1, addr |-> NoRes], [kind |-> "imc", h |-> 2, addr |-> NoRes],
           [kind |-> "shm", h |-> 3, addr |-> NoRes], [kind |-> "conn", h |-> NoHandle, addr |-> "N"] >>

Init ==
    /\ desc_tbl = [d \in Slot |-> IF d < 4 THEN d + 1 ELSE Null]
    /\ refs = [o \in Obj \cup {Invalid} |-> IF o <= 4 THEN 1 ELSE 0]
    /\ obj = [o \in Obj |-> IF o <= 4 THEN Made[o] ELSE NoObject]
    /\ host = [h \in Handle |-> CASE h = 1 -> "A" [] h = 2 -> "B" [] h = 3 -> "F" [] OTHER -> NoRes]
    /\ queue = [e \in End |-> <<>>]
    /\ local = [t \in Thread |-> NoLocals]
    /\ calls = 0
    /\ faulted = {}
    /\ call = [t \in Thread |-> Idle]

Start(t) ==
    /\ calls < MaxCalls
    /\ "buffer" \notin faulted        \* after that fault nothing new is followed
    /\ calls' = calls + 1
    /\ \/ \E as \in MakeArgs : EnterMake(t, as)
       \/ \E d \in Slot : \/ EnterUse(t, d)
                          \/ Close(t, d)
                          \/ \E v \in SendArgs : EnterSend(t, d, v)
                          \/ \E n \in RecvArgs : EnterRecv(t, d, n)
       \/ \E w \in WaitArgs : EnterWait(t, w[1], w[2])
       \/ \E d \in ConnectArgs : EnterConnect(t, d, [kind |-> "imc", res |-> "C"])
    /\ UNCHANGED faulted

Step(t) ==
    /\ \/ /\ \/ Release(t) \/ Make(t) \/ MakeFails(t) \/ Install(t) \/ Installed(t)
             \/ Gather(t) \/ Send(t) \/ NotSent(t)
             \/ Receive(t) \/ NotReceived(t)
             \/ Internalize(t) \/ InternalizeInvalid(t)
             \/ CloseHandles(t) \/ Truncate(t) \/ MakeInvalid(t)
          /\ UNCHANGED faulted
       \/ NoBuffer(t)
       \/ InternalizeFails(t)
    /\ UNCHANGED calls

\* The program makes no more calls: any other state without a step is a
\* call that can neither go on nor fail.
Done ==
    /\ "buffer" \notin faulted => calls = MaxCalls
    /\ \A t \in Thread : call[t].pc = "idle"
    /\ UNCHANGED vars

Next == (\E t \in Thread : Start(t) \/ Step(t)) \/ Done

Spec == Init /\ [][Next]_vars

----------------------------------------------------------------------------
(* Properties.                                                             *)

Entries == [tag : Kind \cup {"invalid"}, res : STRING]

TypeOK ==
    /\ desc_tbl \in [Slot -> Obj \cup {Null}]
    /\ refs \in [Obj \cup {Invalid} -> Nat]
    /\ obj \in [Obj -> [kind : Kind, h : Handle \cup {NoHandle}, addr : STRING]]
    /\ host \in [Handle -> STRING]
    /\ local \in [Thread -> [Place -> Obj \cup {Null, Invalid}]]
    /\ \A e \in End : queue[e] \in Seq(Seq(Entries))

\* The variables that hold a reference to o: slots, and locals of calls.
InTable(o) == {d \in Slot : desc_tbl[d] = o}
InLocals(o) == {x \in Thread \X Place : local[x[1]][x[2]] = o}
Held(o) == Cardinality(InTable(o)) + Cardinality(InLocals(o))

(***************************************************************************)
(* The count of a descriptor object is the number of references there are: *)
(* no interleaving of close with calls in progress on the same number,     *)
(* with number reuse, failed sends and truncated receives loses one (the   *)
(* object would never be closed) or drops one too many (a call would use a *)
(* freed object).                                                          *)
(***************************************************************************)
RefsExact == \A o \in Obj : refs[o] = Held(o)

(***************************************************************************)
(* The invalid descriptor always has a reference nobody can drop: its      *)
(* destructor is NaClDescDtorNotImplemented, which is fatal.               *)
(***************************************************************************)
InvalidKept == refs[Invalid] > Held(Invalid)

\* Who will close handle h: objects that own it, and receives that hold it
\* in kern_handle.
Closers(h) ==
    {<<"obj", o>> : o \in {p \in Obj : refs[p] > 0 /\ Owns(obj[p].kind) /\ obj[p].h = h}} \cup
    {<<"kern", x[1], x[2]>> : x \in {y \in Thread \X (1 .. MaxDesc) :
        y[2] <= Len(call[y[1]].kern) /\ call[y[1]].kern[y[2]] = h}}

(***************************************************************************)
(* An open host handle has exactly one owner that will close it, and a     *)
(* closed one has none: nrd_xfer.c:696 asks for this discipline, since     *)
(* otherwise "a NaClHandle might be closed twice".  As far as the code     *)
(* keeps it: until recv_buf could not be allocated nothing is closed twice *)
(* or closed under its owner, and until a shared memory constructor failed *)
(* nothing is left open without one.                                       *)
(***************************************************************************)
HandlesKept ==
    \A h \in Handle :
        LET n == Cardinality(Closers(h)) IN
        "buffer" \notin faulted =>
            /\ n <= (IF host[h] = NoRes THEN 0 ELSE 1)
            /\ "ctor" \notin faulted => n = (IF host[h] = NoRes THEN 0 ELSE 1)

(***************************************************************************)
(* What a receive has built from a message designates, position by         *)
(* position, what the sender's descriptors did, although handles and bytes *)
(* travel in separate arrays and other threads open, close and receive     *)
(* meanwhile.                                                              *)
(***************************************************************************)
DeliveredRight ==
    \A t \in Thread, p \in 1 .. MaxDesc :
        call[t].op = "recv" /\ p <= Len(call[t].msg) /\ local[t][p] # Null /\ "buffer" \notin faulted
            => Entry(local[t][p]) = call[t].msg[p]

============================================================================
