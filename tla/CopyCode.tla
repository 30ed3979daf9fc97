------------------------------ MODULE CopyCode ------------------------------
(***************************************************************************)
(* NCCopyCode (nccopycode.c) replacing validated code byte by byte while   *)
(* other processors execute it.                                            *)
(*                                                                         *)
(* A processor (external) fetches the bytes of an instruction in aligned   *)
(* windows of kInstructionFetchSize bytes, each at once, but the windows   *)
(* one by one and in any order; it keeps what it has fetched until it      *)
(* executes the instruction or is interrupted, which serializes it.        *)
(* kInstructionFetchSize and the store sizes are those of the code in      *)
(* another scale.                                                          *)
(***************************************************************************)
EXTENDS Integers

CONSTANTS
    RangeSize,              \* the range that is replaced is [0, RangeSize)
    Layouts,                \* sets of addresses where instructions begin
    Codes, NewCodes,        \* contents before, and after
    Procs,                  \* the other processors
    kNaClFullStop,          \* hlt
    NoByte,                 \* not fetched
    kInstructionFetchSize,
    kTrustAligned, kTrustUnaligned,
    Store4, Store8          \* sizes of onestore_memmove4 and onestore_memmove8

Addr == 0 .. RangeSize - 1

ASSUME CopyAssumption ==
    /\ RangeSize \in Nat
    /\ \A S \in Layouts : S \subseteq Addr /\ 0 \in S
    /\ \A c \in Codes \cup NewCodes : DOMAIN c = Addr /\ \A a \in Addr : c[a] # NoByte
    /\ kNaClFullStop # NoByte
    /\ kInstructionFetchSize \in Nat \ {0}
    /\ kTrustAligned \in Nat /\ kTrustUnaligned \in Nat
    /\ Store4 \in Nat \ {0} /\ Store8 \in Nat \ {0}

VARIABLES
    starts,     \* where instructions begin, in the old and in the new code
    code,       \* what was there before (history)
    src,        \* the replacement
    mem,        \* the code
    at,         \* mstate_old->inst.maddr, RangeSize when NCCopyCode is done
    step,       \* where CopyInstruction is: first, serial1, rest or serial2
    left,       \* bytes [dst, dst + sz) that memcpy has yet to store
    firstbyte,
    pending,    \* processors SerializeAllProcessors has yet to interrupt
    ip, buf     \* processor -> its instruction, and the bytes it has of it

copier == <<at, step, left, firstbyte>>
given == <<starts, code, src>>
copyVars == <<given, mem, copier, pending, ip, buf>>

\* The bytes of the instruction at a: those that no later one begins before.
Inst(a) == {b \in Addr : a <= b /\ \A s \in starts : s <= b => s <= a}

Window(b) == b \div kInstructionFetchSize
Empty == [b \in Addr |-> NoByte]

----------------------------------------------------------------------------
(* CopyInstruction.                                                        *)

IsAligned(d, size, align) == d \div align = (d + size - 1) \div align

IsTrustedWrite(d, size, writesize) ==
    /\ size <= writesize
    /\ IsAligned(d, size, kInstructionFetchSize)
    /\ \/ writesize <= kTrustAligned /\ IsAligned(d, size, writesize)
       \/ writesize <= kTrustUnaligned

Changed == {b \in Inst(at) : mem[b] # src[b]}

\* What is left after scrolling to the first changed byte d and trimming
\* behind the last, e.
Trimmed(d, e) ==
    /\ d \in Changed /\ e \in Changed
    /\ \A b \in Changed : d <= b /\ b <= e

\* A change that one store can make.
OneStore(d, e) ==
    LET sz == e - d + 1 IN
    sz = 1 \/ IsTrustedWrite(d, sz, Store4) \/ IsTrustedWrite(d, sz, Store8)

\* NCDecodeSegmentPair goes on with the next instruction.
NextInst ==
    /\ at' \in starts \cup {RangeSize}
    /\ at' > at
    /\ \A s \in starts : s > at => at' <= s

\* The instructions are identical.
Same ==
    /\ at < RangeSize /\ step = "first"
    /\ Changed = {}
    /\ NextInst
    /\ UNCHANGED <<given, mem, step, left, firstbyte, pending, ip, buf>>

\* One byte, or onestore_memmove4 or 8.  These store the bytes around the changed
\* ones again, at the offset IsTrustedWrite returns, as they were just read; nobody
\* else writes the text, so the store is modelled by the bytes it changes.
StoreOnce(d, e) ==
    /\ at < RangeSize /\ step = "first"
    /\ Trimmed(d, e)
    /\ OneStore(d, e)
    /\ mem' = [b \in Addr |-> IF d <= b /\ b <= e THEN src[b] ELSE mem[b]]
    /\ NextInst
    /\ UNCHANGED <<given, step, left, firstbyte, pending, ip, buf>>

\* The slow path: hlt goes first.
Halt(d, e) ==
    /\ at < RangeSize /\ step = "first"
    /\ Trimmed(d, e)
    /\ ~OneStore(d, e)
    /\ firstbyte' = mem[at]
    /\ mem' = [mem EXCEPT ![at] = kNaClFullStop]
    /\ left' = d .. e
    /\ step' = "serial1"
    /\ pending' = Procs
    /\ UNCHANGED <<given, at, ip, buf>>

\* SerializeAllProcessors: each processor takes an interrupt.
Interrupt(p) ==
    /\ p \in pending
    /\ pending' = pending \ {p}
    /\ buf' = [buf EXCEPT ![p] = Empty]
    /\ UNCHANGED <<given, mem, copier, ip>>

\* Mutant: memcpy starts without waiting for the other processors.
NoWait ==
    /\ step = "serial1"
    /\ firstbyte' = IF at \in left THEN src[at] ELSE firstbyte
    /\ left' = left \ {at}
    /\ step' = "rest"
    /\ UNCHANGED <<given, mem, at, pending, ip, buf>>

\* It returns; the first byte is kept for later.
Serialized ==
    /\ step = "serial1"
    /\ pending = {}
    /\ firstbyte' = IF at \in left THEN src[at] ELSE firstbyte
    /\ left' = left \ {at}
    /\ step' = "rest"
    /\ UNCHANGED <<given, mem, at, pending, ip, buf>>

\* memcpy stores the bytes in any order.
CopyByte(b) ==
    /\ step = "rest"
    /\ b \in left
    /\ mem' = [mem EXCEPT ![b] = src[b]]
    /\ left' = left \ {b}
    /\ UNCHANGED <<given, at, step, firstbyte, pending, ip, buf>>

SerializeAgain ==
    /\ step = "rest"
    /\ left = {}
    /\ step' = "serial2"
    /\ pending' = Procs
    /\ UNCHANGED <<given, mem, at, left, firstbyte, ip, buf>>

\* The first byte is flipped back.
Flip ==
    /\ step = "serial2"
    /\ pending = {}
    /\ mem' = [mem EXCEPT ![at] = firstbyte]
    /\ step' = "first"
    /\ NextInst
    /\ UNCHANGED <<given, left, firstbyte, pending, ip, buf>>

----------------------------------------------------------------------------
(* The other processors (external).                                        *)

\* A processor fetches a window of its instruction.
Fetch(p, w) ==
    LET W == {b \in Inst(ip[p]) : Window(b) = w} IN
    /\ \E b \in W : buf[p][b] = NoByte
    /\ buf' = [buf EXCEPT ![p] = [b \in Addr |-> IF b \in W THEN mem[b] ELSE @[b]]]
    /\ UNCHANGED <<given, mem, copier, pending, ip>>

Complete(p) == \A b \in Inst(ip[p]) : buf[p][b] # NoByte

\* It has executed it, and is at another one.
Execute(p, a) ==
    /\ Complete(p)
    /\ ip' = [ip EXCEPT ![p] = a]
    /\ buf' = [buf EXCEPT ![p] = Empty]
    /\ UNCHANGED <<given, mem, copier, pending>>

----------------------------------------------------------------------------
CopyInit ==
    /\ starts \in Layouts
    /\ code \in Codes
    /\ src \in NewCodes
    /\ mem = code
    /\ at = 0
    /\ step = "first"
    /\ left = {} /\ firstbyte = NoByte /\ pending = {}
    /\ ip \in [Procs -> starts]
    /\ buf = [p \in Procs |-> Empty]

CopyNext ==
    \/ Same \/ Serialized \/ SerializeAgain \/ Flip
    \/ \E d \in Addr, e \in Addr : StoreOnce(d, e) \/ Halt(d, e)
    \/ \E b \in Addr : CopyByte(b)
    \/ \E p \in Procs : \/ Interrupt(p)
                        \/ \E w \in {Window(b) : b \in Addr} : Fetch(p, w)
                        \/ \E a \in starts : Execute(p, a)

CopySpec == CopyInit /\ [][CopyNext]_copyVars

----------------------------------------------------------------------------
(* Properties.                                                             *)

(***************************************************************************)
(* nccopycode.c:158, "avoiding the possibility of other threads executing  *)
(* a partially changed instruction": a processor that has all bytes of an  *)
(* instruction has the old one, the new one, or one that starts with hlt.  *)
(***************************************************************************)
NotTorn ==
    \A p \in Procs : Complete(p) =>
        \/ \A b \in Inst(ip[p]) : buf[p][b] = code[b]
        \/ \A b \in Inst(ip[p]) : buf[p][b] = src[b]
        \/ buf[p][ip[p]] = kNaClFullStop

(***************************************************************************)
(* An instruction that CopyInstruction is done with is the new one, first  *)
(* byte included, and those it has not come to are the old ones.           *)
(***************************************************************************)
CopiedSoFar ==
    \A b \in Addr : /\ b < at => mem[b] = src[b]
                    /\ \A s \in starts : at < s /\ s <= b => mem[b] = code[b]
=============================================================================
