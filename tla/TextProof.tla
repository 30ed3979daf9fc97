----------------------------- MODULE TextProof -----------------------------
(***************************************************************************)
(* Proofs about the dynamic text: the byte-by-byte copying of CopyCode, the *)
(* table of regions (DynRegions), the cache of the writable view            *)
(* (TextMapCache), and the system calls that use both (DynText).            *)
(***************************************************************************)
EXTENDS CopyCode, DynText, TLAPS

IsCode(c) == DOMAIN c = Addr /\ \A a \in Addr : c[a] # NoByte

Types ==
    /\ starts \subseteq Addr
    /\ IsCode(code) /\ IsCode(src) /\ IsCode(mem)
    /\ at \in starts \cup {RangeSize}
    /\ step \in {"first", "serial1", "rest", "serial2"}
    /\ step # "first" => at \in starts
    /\ pending \subseteq Procs
    /\ step \in {"first", "rest"} => pending = {}
    /\ ip \in [Procs -> starts]
    /\ DOMAIN buf = Procs
    /\ \A p \in Procs : DOMAIN buf[p] = Addr

(***************************************************************************)
(* The code: new before the instruction being copied, old behind it.       *)
(***************************************************************************)
MemOK ==
    /\ \A b \in Addr : b < at => mem[b] = src[b]
    /\ \A b \in Addr : b >= at /\ b \notin Inst(at) => mem[b] = code[b]
    /\ step = "first" => \A b \in Inst(at) : mem[b] = code[b]
    /\ step # "first" => mem[at] = kNaClFullStop /\ left \subseteq Inst(at)
    /\ step = "serial1" =>
        /\ firstbyte = code[at]
        /\ \A b \in Inst(at) : b # at => mem[b] = code[b]
        /\ \A b \in Inst(at) : b \notin left => code[b] = src[b]
    /\ step \in {"rest", "serial2"} =>
        /\ firstbyte = src[at]
        /\ at \notin left
        /\ \A b \in Inst(at) : b # at /\ b \notin left => mem[b] = src[b]
    /\ step = "serial2" => left = {}

\* What is fetched so far of an instruction in one window comes at once.
Whole(p) ==
    \A b, c \in Inst(ip[p]) : Window(b) = Window(c) /\ buf[p][b] = NoByte => buf[p][c] = NoByte

\* The bytes that processor p has are those of code c.
Has(p, c) == \A b \in Inst(ip[p]) : b # ip[p] => buf[p][b] \in {NoByte, c[b]}
First(p, c) == buf[p][ip[p]] \in {NoByte, c[ip[p]]}
Halts(p) == buf[p][ip[p]] \in {NoByte, kNaClFullStop}

\* A processor in an instruction that is not yet, or no longer, changed.
Before(p) == Has(p, code) /\ First(p, code)
After(p) ==
    \/ Has(p, src) /\ First(p, src)
    \/ buf[p][ip[p]] = kNaClFullStop
    \/ \A b \in Inst(ip[p]) : buf[p][b] = code[b] \/ (buf[p][b] = NoByte /\ code[b] = src[b])

\* A processor in the instruction that the slow path is changing.
During(p) ==
    /\ step = "serial1" => Has(p, code)
    /\ step = "serial1" /\ p \in pending => First(p, code) \/ Halts(p)
    /\ step = "serial1" /\ p \notin pending => Halts(p)
    /\ step \in {"rest", "serial2"} => Halts(p)
    /\ step = "serial2" /\ p \notin pending => Has(p, src)

ProcOK(p) ==
    /\ Whole(p)
    /\ ip[p] > at \/ (ip[p] = at /\ step = "first") => Before(p)
    /\ ip[p] < at => After(p)
    /\ ip[p] = at /\ step # "first" => During(p)

CopyInv == Types /\ MemOK /\ \A p \in Procs : ProcOK(p)
-----------------------------------------------------------------------------
(* Addresses.                                                              *)

\* An instruction holds its first byte and bytes behind it.
LEMMA InstBytes ==
    ASSUME starts \subseteq Addr, NEW i \in starts
    PROVE  i \in Inst(i) /\ \A b \in Inst(i) : b \in Addr /\ b \in Int /\ i <= b
  BY CopyAssumption DEF Inst, Addr

\* Instructions do not overlap.
LEMMA InstApart ==
    ASSUME starts \subseteq Addr, NEW i \in starts, NEW j \in starts \cup {RangeSize}, NEW b \in Inst(i)
    PROVE  /\ i < j => b < j
           /\ i > j => b > j /\ b \notin Inst(j)
  BY CopyAssumption DEF Addr, Inst

\* What lies before the next instruction.
LEMMA NextBytes ==
    ASSUME starts \subseteq Addr, at \in starts, NextInst
    PROVE  /\ at' \in starts \cup {RangeSize} /\ at' \in Int /\ at \in Int /\ at < at'
           /\ \A b \in Addr : b < at' => b < at \/ b \in Inst(at)
           /\ \A b \in Addr : b >= at' => b >= at /\ b \notin Inst(at)
           /\ \A i \in starts : i < at' => i <= at
  BY CopyAssumption DEF NextInst, Addr, Inst

\* A change inside a window lies in that window.
LEMMA WindowBetween ==
    ASSUME NEW d \in Nat, NEW e \in Nat, NEW b \in Nat, d <= b, b <= e, Window(d) = Window(e)
    PROVE  Window(b) = Window(d)
  BY CopyAssumption DEF Window

-----------------------------------------------------------------------------
(* The copier.                                                             *)

\* What a processor has does not change while the copier moves.
LEMMA SameBytes ==
    ASSUME NEW p \in Procs, UNCHANGED <<starts, code, src, ip, buf>>
    PROVE  /\ Whole(p) => Whole(p)'
           /\ Before(p) => Before(p)'
           /\ After(p) => After(p)'
           /\ Has(p, code) => Has(p, code)'
           /\ Has(p, src) => Has(p, src)'
           /\ First(p, code) => First(p, code)'
           /\ Halts(p) => Halts(p)'
  BY Zenon DEF Whole, Before, After, Has, First, Halts, Inst

\* The copier goes on with the next instruction.
LEMMA GoOn ==
    ASSUME CopyInv, at \in starts, NextInst, step' = "first", IsCode(mem)', pending = {},
           UNCHANGED <<starts, code, src, ip, buf, pending>>,
           \A b \in Addr : b \notin Inst(at) => mem'[b] = mem[b],
           \A b \in Inst(at) : mem'[b] = src[b],
           \A p \in Procs : ip[p] = at => After(p)
    PROVE  CopyInv'
<1>1. Types /\ MemOK /\ starts \subseteq Addr
  BY Zenon DEF CopyInv, Types
<1>2. /\ at' \in starts \cup {RangeSize} /\ at' \in Int /\ at \in Int /\ at < at'
      /\ \A b \in Addr : b < at' => b < at \/ b \in Inst(at)
      /\ \A b \in Addr : b >= at' => b >= at /\ b \notin Inst(at)
      /\ \A i \in starts : i < at' => i <= at
  BY <1>1, NextBytes, Zenon
<1>3. Types'
  BY <1>1, <1>2, Zenon DEF Types, IsCode
<1>4. \A b \in Addr : b < at => b \notin Inst(at)
  BY <1>2 DEF Inst, Addr
<1>5. MemOK'
    BY <1>1, <1>2 DEF MemOK, Inst
<1>6. ASSUME NEW p \in Procs PROVE ProcOK(p)'
  <2>1. ip[p] \in starts /\ ip[p] \in Int /\ ProcOK(p)
    BY <1>1 DEF CopyInv, Types, Addr
  <2>2. Whole(p)'
    BY <2>1, SameBytes, Zenon DEF ProcOK
  <2>3. ip[p] >= at' => Before(p)'
      BY <1>2, <2>1, SameBytes DEF ProcOK
  <2>4. ip[p] < at' => After(p)'
      BY <1>2, <2>1, SameBytes DEF ProcOK
  <2>5. ip[p] > at' \/ ip[p] = at' => ip[p] >= at'
    BY <1>2, <2>1
  <2>. QED
    BY <2>2, <2>3, <2>4, <2>5, Zenon DEF ProcOK
<1>. QED
  BY <1>3, <1>5, <1>6, Zenon DEF CopyInv

\* While the copier is at an instruction.
LEMMA AtStart == ASSUME Types, at < RangeSize PROVE at \in starts /\ at \in Addr /\ at \in Inst(at)
  BY CopyAssumption, InstBytes DEF Types

\* An instruction that is not changed is passed over.
LEMMA SameIInv == CopyInv /\ Same => CopyInv'
  BY AtStart, GoOn DEF Same, given, CopyInv, Changed, MemOK, ProcOK, Before, After, Has,
      First, Types, IsCode

\* A single store replaces an instruction as a whole.
LEMMA StoreOnceIInv ==
    ASSUME NEW d \in Addr, NEW e \in Addr
    PROVE  CopyInv /\ StoreOnce(d, e) => CopyInv'
<1>. SUFFICES ASSUME CopyInv, StoreOnce(d, e) PROVE CopyInv'
  BY Zenon
<1>1. /\ at < RangeSize /\ step = "first" /\ step' = "first" /\ NextInst
      /\ Trimmed(d, e) /\ OneStore(d, e)
      /\ mem' = [b \in Addr |-> IF d <= b /\ b <= e THEN src[b] ELSE mem[b]]
      /\ UNCHANGED <<starts, code, src, ip, buf, pending>>
  BY Zenon DEF StoreOnce, given
<1>2. Types /\ MemOK /\ at \in starts /\ at \in Inst(at)
  BY <1>1, AtStart, Zenon DEF CopyInv
<1>3. d \in Nat /\ e \in Nat /\ d <= e
  BY <1>1 DEF Addr, Trimmed
<1>4. Window(d) = Window(e)
    BY <1>3, <1>1 DEF IsAligned, Window, OneStore, IsTrustedWrite
<1>5. d \in Inst(at) /\ e \in Inst(at) /\ \A b \in Addr : d <= b /\ b <= e => b \in Inst(at) /\ Window(b) = Window(d)
    BY <1>1, <1>2, <1>4, WindowBetween DEF Trimmed, Changed, Inst, Types, Addr
<1>6. \A b \in Inst(at) : b \in Addr /\ ((d <= b /\ b <= e) \/ (mem[b] = src[b] /\ code[b] = src[b]))
  BY <1>1, <1>2, Zenon DEF Trimmed, Changed, MemOK, Inst
<1>7. ASSUME NEW p \in Procs, ip[p] = at PROVE After(p)
    BY <1>1, <1>7, <1>5, <1>6, <1>2 DEF CopyInv, ProcOK, Whole, Before, Has, First, After
<1>8. IsCode(mem)' /\ pending = {}
  BY <1>1, <1>2, Zenon DEF Types, IsCode
<1>9. /\ \A b \in Addr : b \notin Inst(at) => mem'[b] = mem[b]
      /\ \A b \in Inst(at) : mem'[b] = src[b]
  BY <1>1, <1>5, <1>6, Zenon
<1>. QED
  BY <1>1, <1>2, <1>7, <1>8, <1>9, GoOn, Zenon

\* A step of the slow path, at one instruction.
LEMMA StayAt ==
    ASSUME CopyInv, Types', MemOK', at \in starts, step' # "first",
           UNCHANGED <<starts, code, src, ip, buf, at>>,
           \A p \in Procs : ip[p] = at => During(p)'
    PROVE  CopyInv'
  BY SameBytes, Zenon DEF CopyInv, Types, Addr, ProcOK

\* The halt over the first byte stops whoever gets there.
LEMMA HaltIInv ==
    ASSUME NEW d \in Addr, NEW e \in Addr
    PROVE  CopyInv /\ Halt(d, e) => CopyInv'
<1>. SUFFICES ASSUME CopyInv, Halt(d, e) PROVE CopyInv'
  BY Zenon
<1>1. /\ at < RangeSize /\ step = "first" /\ step' = "serial1" /\ Trimmed(d, e)
      /\ firstbyte' = mem[at] /\ mem' = [mem EXCEPT ![at] = kNaClFullStop]
      /\ left' = d .. e /\ pending' = Procs
      /\ UNCHANGED <<starts, code, src, ip, buf, at>>
  BY Zenon DEF Halt, given
<1>2. Types /\ MemOK /\ at \in starts /\ at \in Addr /\ at \in Inst(at)
  BY <1>1, AtStart, Zenon DEF CopyInv
<1>3. DOMAIN mem = Addr /\ mem'[at] = kNaClFullStop /\ \A b \in Addr : b # at => mem'[b] = mem[b]
  BY <1>1, <1>2, Zenon DEF Types, IsCode
<1>4. Types'
  BY <1>1, <1>2, <1>3, CopyAssumption, Zenon DEF Types, IsCode
<1>5. \A b \in Inst(at) : b \in Addr
  BY Zenon DEF Inst
<1>6. d .. e \subseteq Inst(at)
  <2>1. d \in Inst(at) /\ e \in Inst(at) /\ d \in Int /\ e \in Int /\ at \in Int
    BY <1>1, <1>2 DEF Trimmed, Changed, Addr
  <2>2. at <= d /\ \A x \in starts : x \in Int /\ (x <= e => x <= at)
    <3>1. at <= d /\ \A x \in starts : x <= e => x <= at
      BY <2>1, Zenon DEF Inst
    <3>2. \A x \in starts : x \in Int
      BY <1>2 DEF Types, Addr
    <3>. QED
      BY <3>1, <3>2, Zenon
  <2>3. \A b \in d .. e : b \in Addr /\ at <= b /\ \A x \in starts : x <= b => x <= at
    BY <2>1, <2>2, CopyAssumption DEF Addr
  <2>. QED
    BY <2>3, Zenon DEF Inst
<1>7. \A b \in Inst(at) : b \notin d .. e => code[b] = src[b]
  <2>1. \A b \in Inst(at) : b \notin d .. e => b \notin Changed
    BY <1>1, <1>5 DEF Trimmed, Addr
  <2>. QED
    BY <1>1, <1>2, <2>1, Zenon DEF MemOK, Changed
<1>8. MemOK'
  <2>1. \A b \in Addr : b < at => b # at /\ b \notin Inst(at)
    BY <1>2 DEF Inst, Addr
  <2>2. \A b : b \in Inst(at)' <=> b \in Inst(at)
    BY <1>1, Zenon DEF Inst
  <2>3. /\ \A b \in Addr : b < at => mem'[b] = src[b]
        /\ \A b \in Addr : b >= at /\ b \notin Inst(at) => mem'[b] = code[b]
        /\ \A b \in Inst(at) : b # at => mem'[b] = code[b]
        /\ firstbyte' = code[at]
    BY <1>1, <1>2, <1>3, <1>5, <2>1 DEF MemOK
  <2>. QED
    BY <1>1, <1>3, <1>6, <1>7, <2>2, <2>3 DEF MemOK
<1>9. ASSUME NEW p \in Procs, ip[p] = at PROVE During(p)'
  <2>1. Before(p)
    BY <1>1, <1>9, Zenon DEF CopyInv, ProcOK
  <2>. QED
    BY <1>1, <2>1, SameBytes, Zenon DEF Before, During
<1>. QED
  BY <1>1, <1>2, <1>4, <1>8, <1>9, StayAt, Zenon

\* After the first serialization nobody has fetched the old first byte.
LEMMA SerializedIInv == CopyInv /\ Serialized => CopyInv'
<1>. SUFFICES ASSUME CopyInv, Serialized PROVE CopyInv'
  BY Zenon
<1>1. /\ step = "serial1" /\ step' = "rest" /\ pending = {}
      /\ firstbyte' = IF at \in left THEN src[at] ELSE firstbyte
      /\ left' = left \ {at}
      /\ UNCHANGED <<starts, code, src, mem, ip, buf, at, pending>>
  BY Zenon DEF Serialized, given
<1>2. Types /\ MemOK /\ at \in starts /\ at \in Inst(at)
  BY <1>1, InstBytes, Zenon DEF CopyInv, Types
<1>3. Types'
  BY <1>1, <1>2, Zenon DEF Types, IsCode
<1>4. MemOK'
  BY <1>1, <1>2, Zenon DEF MemOK, Inst
<1>5. ASSUME NEW p \in Procs, ip[p] = at PROVE During(p)'
  <2>1. Halts(p)
    BY <1>1, <1>5, Zenon DEF CopyInv, ProcOK, During
  <2>. QED
    BY <1>1, <2>1, SameBytes, Zenon DEF During
<1>. QED
  BY <1>1, <1>2, <1>3, <1>4, <1>5, StayAt, Zenon

\* The bytes behind a halt may be stored in any order.
LEMMA CopyByteIInv == ASSUME NEW b \in Addr PROVE CopyInv /\ CopyByte(b) => CopyInv'
  BY SameBytes DEF CopyByte, given, CopyInv, Types, IsCode, MemOK, Inst, Addr, ProcOK,
      During

\* A second serialization starts when all of them are stored.
LEMMA SerializeAgainIInv == CopyInv /\ SerializeAgain => CopyInv'
  BY SameBytes, Zenon DEF SerializeAgain, given, CopyInv, Types, IsCode, MemOK, Inst, ProcOK,
      During

\* The first byte makes the new instruction visible.
LEMMA FlipIInv == CopyInv /\ Flip => CopyInv'
<1>. SUFFICES ASSUME CopyInv, Flip PROVE CopyInv'
  BY Zenon
<1>1. /\ step = "serial2" /\ step' = "first" /\ pending = {} /\ NextInst
      /\ mem' = [mem EXCEPT ![at] = firstbyte]
      /\ UNCHANGED <<starts, code, src, ip, buf, pending>>
  BY Zenon DEF Flip, given
<1>2. Types /\ MemOK /\ at \in starts /\ at \in Addr /\ at \in Inst(at) /\ left = {}
  BY <1>1, InstBytes, Zenon DEF CopyInv, Types, MemOK
<1>3. DOMAIN mem = Addr /\ mem'[at] = src[at] /\ \A b \in Addr : b # at => mem'[b] = mem[b]
  BY <1>1, <1>2, Zenon DEF Types, IsCode, MemOK
<1>4. IsCode(mem)'
  BY <1>1, <1>2, <1>3, Zenon DEF Types, IsCode
<1>5. \A b \in Inst(at) : b \in Addr /\ mem'[b] = src[b]
  BY <1>1, <1>2, <1>3, Zenon DEF MemOK, Inst
<1>6. ASSUME NEW p \in Procs, ip[p] = at PROVE After(p)
  BY <1>1, <1>6, Zenon DEF CopyInv, ProcOK, During, Halts, After, First
<1>. QED
  BY <1>1, <1>2, <1>3, <1>4, <1>5, <1>6, GoOn, Zenon

-----------------------------------------------------------------------------
(* The processors.                                                         *)

\* A processor that nothing happens to.
LEMMA SameProc ==
    ASSUME NEW q \in Procs, UNCHANGED <<starts, code, src, at, step>>,
           ip'[q] = ip[q], buf'[q] = buf[q], q \in pending' <=> q \in pending, ProcOK(q)
    PROVE  ProcOK(q)'
  BY DEF Inst, Whole, Has, First, Halts, Before, After, During, ProcOK

\* A processor p moves, the code and the copier stay, and no other
\* processor is waited for any longer.
LEMMA ProcMoves ==
    ASSUME CopyInv, NEW p \in Procs, UNCHANGED <<starts, code, src, mem, at, step, left, firstbyte>>,
           pending' \in {pending, pending \ {p}},
           ip' \in [Procs -> starts], DOMAIN buf' = Procs, DOMAIN buf'[p] = Addr,
           \A q \in Procs : q # p => ip'[q] = ip[q] /\ buf'[q] = buf[q],
           ProcOK(p)'
    PROVE  CopyInv'
  BY SameProc DEF CopyInv, Types, IsCode, MemOK, Inst

\* A processor that has nothing may be anywhere.
LEMMA EmptyOK ==
    ASSUME NEW p \in Procs, buf'[p] = Empty, ip'[p] \in Addr
    PROVE  ProcOK(p)'
  BY Zenon DEF Empty, Inst, Whole, Has, First, Halts, ProcOK, Before, After, During

\* An interrupt discards what a processor has fetched.
LEMMA InterruptIInv == ASSUME NEW p \in Procs PROVE CopyInv /\ Interrupt(p) => CopyInv'
  BY EmptyOK, ProcMoves DEF Interrupt, given, copier, CopyInv, Types, Empty

\* A processor has executed an instruction and is at another one.
LEMMA ExecuteIInv == ASSUME NEW p \in Procs, NEW a \in starts PROVE CopyInv /\ Execute(p, a) => CopyInv'
  BY EmptyOK, ProcMoves DEF Execute, given, copier, CopyInv, Types, Empty

\* A fetch sees old or new bytes of one instruction, never a mixture.
LEMMA FetchIInv == ASSUME NEW p \in Procs, NEW w PROVE CopyInv /\ Fetch(p, w) => CopyInv'
<1>. SUFFICES ASSUME CopyInv, Fetch(p, w) PROVE CopyInv'
  BY Zenon
<1> DEFINE W == {b \in Inst(ip[p]) : Window(b) = w}
<1>1. /\ \E b \in W : buf[p][b] = NoByte
      /\ buf' = [buf EXCEPT ![p] = [b \in Addr |-> IF b \in W THEN mem[b] ELSE buf[p][b]]]
      /\ UNCHANGED <<starts, code, src, mem, at, step, left, firstbyte, pending, ip>>
  BY Zenon DEF Fetch, given, copier
<1>2. Types /\ MemOK /\ ProcOK(p) /\ starts \subseteq Addr
  BY Zenon DEF CopyInv, Types
<1> PICK i : i = ip[p]
  BY Zenon
<1>3. i \in starts /\ i \in Int /\ at \in Int /\ i \in Inst(i) /\ \A b \in Inst(i) : b \in Addr
  <2>1. i \in starts /\ at \in starts \cup {RangeSize}
    BY <1>2, Zenon DEF Types
  <2>2. starts \subseteq Int /\ RangeSize \in Int
    BY <1>2, CopyAssumption DEF Addr
  <2>. QED
    BY <1>2, <2>1, <2>2, InstBytes, Zenon
<1>4. /\ DOMAIN buf' = Procs /\ DOMAIN buf'[p] = Addr
      /\ \A b \in Inst(i) : buf'[p][b] = IF Window(b) = w THEN mem[b] ELSE buf[p][b]
      /\ \A q \in Procs : q # p => buf'[q] = buf[q]
  BY <1>1, <1>2, <1>3, Zenon DEF Types
<1>5. \A b \in Inst(i) : Window(b) = w => buf[p][b] = NoByte
  BY <1>1, <1>2, Zenon DEF ProcOK, Whole
<1> HIDE DEF W
<1>6. \A b : b \in Inst(i)' <=> b \in Inst(i)
  BY <1>1, Zenon DEF Inst
<1>7. Whole(p)'
  <2>1. \A b \in Inst(i) : mem[b] # NoByte
    BY <1>2, <1>3, Zenon DEF Types, IsCode
  <2>2. \A b, c \in Inst(i) : Window(b) = Window(c) /\ buf'[p][b] = NoByte => buf'[p][c] = NoByte
    BY <1>2, <1>4, <2>1 DEF ProcOK, Whole
  <2>. QED
    BY <1>1, <1>6, <2>2 DEF Whole
\* What is kept and what comes in.
<1>8. ASSUME NEW c, NEW b \in Inst(i), buf[p][b] \in {NoByte, c}, mem[b] = c
      PROVE  buf'[p][b] \in {NoByte, c}
  BY <1>4, <1>8, Zenon
<1>9. ASSUME i > at \/ (i = at /\ step = "first") PROVE Before(p)'
  <2>1. \A b \in Inst(i) : mem[b] = code[b]
    <3>1. CASE i > at
      <4>1. \A b \in Inst(i) : b >= at /\ b \notin Inst(at)
        BY <1>2, <1>3, <3>1, InstApart DEF Types, Addr
      <4>2. \A b \in Addr : b >= at /\ b \notin Inst(at) => mem[b] = code[b]
        BY <1>2, Zenon DEF MemOK
      <4>. QED
        BY <1>3, <4>1, <4>2, Zenon
    <3>2. CASE i = at /\ step = "first"
      BY <1>2, <3>2, Zenon DEF MemOK
    <3>. QED
      BY <1>9, <3>1, <3>2, Zenon
  <2>2. \A b \in Inst(i) : buf[p][b] \in {NoByte, code[b]}
    BY <1>2, <1>9, Zenon DEF ProcOK, Before, Has, First
  <2>3. \A b \in Inst(i) : buf'[p][b] \in {NoByte, code[b]}
    BY <1>8, <2>1, <2>2, Zenon
  <2>. QED
    BY <1>1, <1>3, <1>6, <2>3, Zenon DEF Before, Has, First
<1>10. ASSUME i < at PROVE After(p)'
  <2>1. \A b \in Inst(i) : mem[b] = src[b]
    <3>1. \A b \in Inst(i) : b < at
      BY <1>2, <1>3, <1>10, InstApart, Zenon DEF Types
    <3>2. \A b \in Addr : b < at => mem[b] = src[b]
      BY <1>2, Zenon DEF MemOK
    <3>. QED
      BY <1>3, <3>1, <3>2, Zenon
  <2>2. After(p)
    BY <1>2, <1>10, Zenon DEF ProcOK
  <2>3. CASE Has(p, src) /\ First(p, src)
    <3>1. \A b \in Inst(i) : buf'[p][b] \in {NoByte, src[b]}
      BY <1>3, <1>8, <2>1, <2>3, Zenon DEF Has, First
    <3>. QED
      BY <1>1, <1>3, <1>6, <3>1, Zenon DEF After, Has, First
  <2>4. CASE buf[p][i] = kNaClFullStop
    <3>1. buf'[p][i] = kNaClFullStop
      BY <1>3, <1>4, <1>5, <2>4, CopyAssumption, Zenon
    <3>. QED
      BY <1>1, <3>1, Zenon DEF After
  <2>5. CASE \A b \in Inst(i) : buf[p][b] = code[b] \/ (buf[p][b] = NoByte /\ code[b] = src[b])
    <3>1. \A b \in Inst(i) : buf'[p][b] = code[b] \/ (buf'[p][b] = NoByte /\ code[b] = src[b])
      <4>. SUFFICES ASSUME NEW b \in Inst(i)
                    PROVE  buf'[p][b] = code[b] \/ (buf'[p][b] = NoByte /\ code[b] = src[b])
        BY Zenon
      <4>1. CASE Window(b) = w
        <5>1. code[b] # NoByte
          <6>1. IsCode(code)
            BY <1>2, Zenon DEF Types
          <6>. QED
            BY <1>3, <6>1, Zenon DEF IsCode
        <5>2. buf'[p][b] = mem[b]
          BY <1>4, <4>1, Zenon
        <5>3. buf[p][b] = NoByte
          BY <1>5, <4>1, Zenon
        <5>. QED
          BY <2>1, <2>5, <4>1, <5>1, <5>2, <5>3, Zenon
      <4>2. CASE Window(b) # w
        BY <1>4, <2>5, <4>2, Zenon
      <4>. QED
        BY <4>1, <4>2, Zenon
    <3>. QED
      BY <1>1, <1>6, <3>1, Zenon DEF After
  <2>. QED
    BY <2>2, <2>3, <2>4, <2>5, Zenon DEF After
<1>11. ASSUME i = at, step # "first" PROVE During(p)'
  <2>1. During(p) /\ mem[i] = kNaClFullStop
    BY <1>2, <1>11, Zenon DEF ProcOK, MemOK
  <2>2. Halts(p) => Halts(p)'
    BY <1>1, <1>3, <1>8, <2>1, Zenon DEF Halts
  <2>3. First(p, code) => First(p, code)' \/ Halts(p)'
    BY <1>1, <1>3, <1>4, <2>1, Zenon DEF First, Halts
  <2>4. step = "serial1" => Has(p, code)'
    <3>1. step = "serial1" => \A b \in Inst(i) : b # i => mem[b] = code[b]
      BY <1>2, <1>11, Zenon DEF MemOK
    <3>2. step = "serial1" => \A b \in Inst(i) : b # i => buf'[p][b] \in {NoByte, code[b]}
      BY <1>8, <2>1, <3>1, Zenon DEF During, Has
    <3>. QED
      BY <1>1, <1>6, <3>2, Zenon DEF Has
  <2>5. step = "serial2" /\ Has(p, src) => Has(p, src)'
    <3>1. step = "serial2" => \A b \in Inst(i) : b # i => mem[b] = src[b]
      BY <1>2, <1>11, Zenon DEF MemOK
    <3>2. step = "serial2" /\ Has(p, src) => \A b \in Inst(i) : b # i => buf'[p][b] \in {NoByte, src[b]}
      BY <1>8, <3>1, Zenon DEF Has
    <3>. QED
      BY <1>1, <1>6, <3>2, Zenon DEF Has
  <2>. QED
    BY <1>1, <2>1, <2>2, <2>3, <2>4, <2>5, Zenon DEF During
<1>12. ProcOK(p)'
  BY <1>1, <1>7, <1>9, <1>10, <1>11, Zenon DEF ProcOK
<1>. QED
  BY <1>1, <1>2, <1>4, <1>12, ProcMoves, Zenon DEF Types

-----------------------------------------------------------------------------
\* The invariant holds before the copying starts.
LEMMA InitCopyInv == CopyInit => CopyInv
<1>. SUFFICES ASSUME CopyInit PROVE CopyInv
  BY Zenon
<1>1. Types
  BY CopyAssumption, Zenon DEF CopyInit, Types, IsCode, Empty
<1>2. MemOK
  BY CopyAssumption DEF CopyInit, MemOK, Addr
<1>3. ASSUME NEW p \in Procs PROVE ProcOK(p)
  <2>1. ip[p] \in Addr /\ buf[p] = Empty
    <3>1. ip[p] \in starts /\ starts \subseteq Addr
      BY <1>1, Zenon DEF Types
    <3>2. buf[p] = Empty
      BY Zenon DEF CopyInit
    <3>. QED
      BY <3>1, <3>2, Zenon
  <2>2. ip[p] >= at
    BY <2>1 DEF CopyInit, Addr
  <2>3. Whole(p) /\ Before(p)
    BY <2>1, Zenon DEF Whole, Before, Has, First, Empty, Inst
  <2>. QED
    BY <2>1, <2>2, <2>3 DEF ProcOK, CopyInit, Addr
<1>. QED
  BY <1>1, <1>2, <1>3, Zenon DEF CopyInv

\* Every step keeps the invariant of the copying.
LEMMA NextCopyInv == CopyInv /\ [CopyNext]_copyVars => CopyInv'
<1>. SUFFICES ASSUME CopyInv, [CopyNext]_copyVars PROVE CopyInv'
  BY Zenon
<1>1. CASE UNCHANGED copyVars
    BY <1>1, SameProc DEF copyVars, given, copier, CopyInv, Types, IsCode, MemOK, Inst
<1>2. CASE CopyNext
  BY Zenon, <1>2, SameIInv, SerializedIInv, SerializeAgainIInv, FlipIInv, StoreOnceIInv, HaltIInv,
     CopyByteIInv, InterruptIInv, FetchIInv, ExecuteIInv DEF CopyNext
<1>. QED
  BY <1>1, <1>2, Zenon

(***************************************************************************)
(* While NCCopyCode replaces code under other processors, each of them     *)
(* executes an old instruction, a new one, or hlt; and what CopyCode is    *)
(* done with is new, what it has not come to old.                          *)
(***************************************************************************)
THEOREM CopySafe == CopySpec => [](NotTorn /\ CopiedSoFar)
<1>1. CopyInv => NotTorn
  <2>. SUFFICES ASSUME CopyInv, NEW p \in Procs, Complete(p)
                PROVE  \/ \A b \in Inst(ip[p]) : buf[p][b] = code[b]
                       \/ \A b \in Inst(ip[p]) : buf[p][b] = src[b]
                       \/ buf[p][ip[p]] = kNaClFullStop
    BY Zenon DEF NotTorn
  <2>1. ProcOK(p) /\ ip[p] \in Int /\ at \in Int /\ ip[p] \in Inst(ip[p])
    <3>1. ProcOK(p) /\ starts \subseteq Addr /\ ip[p] \in starts /\ at \in starts \cup {RangeSize}
      BY Zenon DEF CopyInv, Types
    <3>2. RangeSize \in Int /\ \A s \in starts : s \in Int
      BY <3>1, CopyAssumption DEF Addr
    <3>. QED
      BY <3>1, <3>2, InstBytes, Zenon
  <2>2. CASE Before(p)
    BY <2>2, Zenon DEF Before, Has, First, Complete
  <2>3. CASE After(p)
    BY <2>3, Zenon DEF After, Has, First, Complete
  <2>4. CASE During(p) /\ step # "first"
      BY <2>4, <2>1, Zenon DEF CopyInv, Types, Halts, Complete, During, Has, First
  <2>. QED
    BY <2>1, <2>2, <2>3, <2>4 DEF ProcOK
<1>2. CopyInv => CopiedSoFar
    BY CopyAssumption DEF CopiedSoFar, CopyInv, Types, Addr, Inst, MemOK
<1>. QED
  BY <1>1, <1>2, InitCopyInv, NextCopyInv, PTL DEF CopySpec

-----------------------------------------------------------------------------
(* Regions *)

USE DynRegionsAssumption

\* The arguments of a call in progress are numbers, and not empty.
LEMMA CallTypes ==
  ASSUME TypeOK, CallState, call # Idle
  PROVE  /\ call.start \in Nat /\ call.size \in Nat \ {0} /\ Ptr \in Nat
         /\ call.op \in {"create", "delete", "modify"}
<1>1. call \in Call
  BY Zenon DEF TypeOK
<1>2. call.start \in Nat /\ call.size \in Nat /\ call.op \in {"create", "delete", "modify"}
  BY <1>1, Zenon DEF Call
<1>3. call.size > 0
  BY Zenon DEF CallState
<1> QED
  BY <1>2, <1>3 DEF Ptr

\* The middle of a range that is still to be bisected lies strictly inside it.
LEMMA MidInside ==
  ASSUME begin \in Nat, end \in Nat, begin + Cutoff + 1 < end
  PROVE  LET mid == begin + (end - begin) \div 2
         IN  mid \in Nat /\ begin < mid /\ mid < end
OBVIOUS

\* Rounding a range out to whole bundles gives a range around it.
LEMMA BundleBounds ==
  ASSUME NEW s \in Nat, NEW z \in Nat \ {0}
  PROVE  /\ BundleDown(s) \in Nat /\ BundleDown(s) <= s
         /\ BundleDown(s + z - 1 + Bundle) \in Nat
         /\ BundleDown(s + z - 1 + Bundle) - BundleDown(s) \in Nat
         /\ s + z <= BundleDown(s + z - 1 + Bundle)
  BY DEF BundleDown

\* Starts grow with the index.
LEMMA StartsSorted ==
  ASSUME TypeOK, SortedDisjoint, CallState,
         NEW i \in 0 .. num - 1, NEW j \in 0 .. num - 1, i < j
  PROVE  /\ regions[i].start < regions[j].start
         /\ regions[i].start + regions[i].size <= regions[j].start
         /\ regions[i].start + regions[i].size < regions[j].start + regions[j].size
BY DEF TypeOK, SortedDisjoint, CallState, Range

-----------------------------------------------------------------------------
\* The initial, empty array satisfies the invariant.
LEMMA InitIInv == Init => IInv
BY DEF Init, IInv, TypeOK, SortedDisjoint, SearchRight, ScrollAtMostOne, BufferFits,
       CallState, Range, Nothing

\* The start of a call makes room for one more region if it may insert one.
LEMMA InvokeStep ==
  ASSUME IInv, NEW c \in Call, Invoke(c)
  PROVE  IInv'
<1> USE DEF IInv, Invoke
<1>1. TypeOK'
  BY DEF TypeOK, Range, Nothing
<1>2. SortedDisjoint' /\ SearchRight' /\ ScrollAtMostOne'
  BY DEF SortedDisjoint, SearchRight, ScrollAtMostOne
<1>3. BufferFits'
    BY DEF TypeOK, BufferFits
<1>4. CallState'
  <2>1. c # Idle
    BY Zenon
  <2>2. c.size \in Nat
    BY Zenon DEF Call
  <2>3. c.size > 0
    BY <2>2
  <2> QED
    BY <2>1, <2>3, Zenon DEF CallState
<1> QED
  BY <1>1, <1>2, <1>3, <1>4, Zenon

\* The shortcuts of the search, and its start.
LEMMA FindStep ==
  ASSUME IInv, FindAtEnds \/ FindBetween
  PROVE  IInv'
<1>1. call # Idle /\ pc = "find"
  BY Zenon DEF IInv, CallState, FindAtEnds, FindBetween
<1>2. Ptr \in Nat
  BY <1>1, CallTypes, Zenon DEF IInv
<1>3. CASE FindAtEnds
  <2> USE <1>3 DEF FindAtEnds, Decide
  <2>1. TypeOK'
    BY DEF IInv, TypeOK, array
  <2>2. SortedDisjoint' /\ BufferFits' /\ ScrollAtMostOne' /\ CallState'
    BY <1>1, Zenon DEF IInv, SortedDisjoint, BufferFits, ScrollAtMostOne, CallState, array
  <2>3. SearchRight'
    <3>1. ASSUME num # 0, Ptr < regions[0].start, NEW j \in 0 .. num - 1
          PROVE  regions[j].start > Ptr
      <4>1. 0 \in 0 .. num - 1 /\ (j = 0 \/ 0 < j)
        BY <3>1 DEF IInv, TypeOK
      <4>2. 0 < j => regions[0].start < regions[j].start
        BY <3>1, <4>1, StartsSorted, Zenon DEF IInv
      <4>3. regions[0].start \in Nat /\ regions[j].start \in Nat
        BY <3>1, <4>1 DEF IInv, TypeOK, Range
      <4> QED
        BY <1>2, <3>1, <4>1, <4>2, <4>3
    <3> QED
      BY <1>2, <3>1 DEF IInv, TypeOK, SearchRight, ClosestLEQ, Ptr, array
  <2> QED
    BY <2>1, <2>2, <2>3, Zenon DEF IInv
<1>4. CASE FindBetween
    BY <1>4 DEF FindBetween, IInv, TypeOK, array, SortedDisjoint, BufferFits,
        ScrollAtMostOne, CallState, SearchRight, Ptr
<1> QED
  BY <1>3, <1>4, Zenon

\* A step of the binary search keeps the pointer between the bounds.
LEMMA BisectStep ==
  ASSUME IInv, Bisect
  PROVE  IInv'
<1> DEFINE mid == begin + (end - begin) \div 2
<1>1. call # Idle /\ pc = "search"
  BY Zenon DEF IInv, CallState, Bisect
<1>2. Ptr \in Nat
  BY <1>1, CallTypes, Zenon DEF IInv
<1>3. mid \in Nat /\ begin < mid /\ mid < end /\ begin \in Nat /\ end \in Nat
  BY MidInside, Zenon DEF IInv, TypeOK, Bisect
<1>4. mid \in 0 .. num - 1 /\ num \in Nat /\ end <= num
  BY <1>1, <1>3 DEF IInv, TypeOK, SearchRight
<1>5. /\ UNCHANGED <<num, regions, allocated, pc, call, found, wrote, ret>>
      /\ \/ regions[mid].start <= Ptr /\ begin' = mid /\ end' = end
         \/ ~(regions[mid].start <= Ptr) /\ end' = mid /\ begin' = begin
  BY Zenon DEF Bisect, array
<1> HIDE DEF mid
<1>6. TypeOK'
  BY <1>3, <1>5 DEF IInv, TypeOK
<1>7. SortedDisjoint' /\ BufferFits' /\ ScrollAtMostOne' /\ CallState'
  BY <1>1, <1>5 DEF IInv, SortedDisjoint, BufferFits, ScrollAtMostOne, CallState
<1>8. SearchRight'
  <2>1. ASSUME ~(regions[mid].start <= Ptr), NEW j \in 0 .. num - 1, j >= mid
        PROVE  regions[j].start > Ptr
    <3>1. mid < j => regions[mid].start < regions[j].start
      BY <1>4, <2>1, StartsSorted, Zenon DEF IInv
    <3>2. regions[mid].start \in Nat /\ regions[j].start \in Nat
      BY <1>4, <2>1 DEF IInv, TypeOK, Range
    <3>3. mid = j \/ mid < j
      BY <1>3, <2>1
    <3> QED
      BY <1>2, <2>1, <3>1, <3>2, <3>3
  <2>2. Ptr' = Ptr
    BY <1>5, Zenon DEF Ptr
  <2> QED
    BY <1>1, <1>2, <1>3, <1>4, <1>5, <2>1, <2>2 DEF IInv, SearchRight
<1> QED
  BY <1>6, <1>7, <1>8, Zenon DEF IInv

\* The linear scan moves up while the next region still starts at or below the
\* pointer.
LEMMA LinearScanStep ==
  ASSUME IInv, LinearScan
  PROVE  IInv'
<1>1. call # Idle /\ pc = "search"
  BY Zenon DEF IInv, CallState, LinearScan
<1>2. Ptr \in Nat
  BY <1>1, CallTypes, Zenon DEF IInv
<1>3. /\ begin \in Nat /\ end \in Nat /\ num \in Nat
      /\ begin < end /\ end <= num /\ regions[begin].start <= Ptr
      /\ \A j \in 0 .. num - 1 : j >= end => regions[j].start > Ptr
  BY <1>1, Zenon DEF IInv, TypeOK, SearchRight
<1>4. UNCHANGED <<num, regions, allocated, call, wrote, ret, end>> /\ Ptr' = Ptr
  BY Zenon DEF LinearScan, Decide, array, Ptr
<1>5. CASE begin + 1 < end /\ regions[begin + 1].start <= Ptr
    BY <1>5, <1>4 DEF LinearScan, IInv, TypeOK, SortedDisjoint, BufferFits,
        ScrollAtMostOne, CallState, SearchRight
<1>6. CASE ~(begin + 1 < end /\ regions[begin + 1].start <= Ptr)
  <2>1. begin' = begin /\ pc' = "decide" /\ found' = begin
    BY <1>6, Zenon DEF LinearScan, Decide
  <2>2. TypeOK'
    BY <1>3, <1>4, <2>1, Zenon DEF IInv, TypeOK
  <2>3. SortedDisjoint' /\ BufferFits' /\ ScrollAtMostOne' /\ CallState'
    BY <1>1, <1>4, <2>1 DEF IInv, SortedDisjoint, BufferFits, ScrollAtMostOne, CallState
  <2>4. ASSUME NEW j \in 0 .. num - 1, j > begin
        PROVE  regions[j].start > Ptr
    <3>1. CASE begin + 1 < end
      <4>1. begin + 1 \in 0 .. num - 1 /\ regions[begin + 1].start > Ptr
        BY <1>2, <1>3, <1>6, <3>1 DEF IInv, TypeOK, Range
      <4>2. j = begin + 1 \/ begin + 1 < j
        BY <1>3, <2>4
      <4>3. begin + 1 < j => regions[begin + 1].start < regions[j].start
        BY <4>1, StartsSorted, Zenon DEF IInv
      <4>4. regions[begin + 1].start \in Nat /\ regions[j].start \in Nat
        BY <4>1, Zenon DEF IInv, TypeOK, Range
      <4> QED
        BY <1>2, <4>1, <4>2, <4>3, <4>4
    <3>2. CASE ~(begin + 1 < end)
      BY <1>3, <2>4, <3>2
    <3> QED
      BY <3>1, <3>2, Zenon
  <2>5. SearchRight'
    BY <1>2, <1>3, <1>4, <2>1, <2>4 DEF SearchRight, ClosestLEQ
  <2> QED
    BY <2>2, <2>3, <2>5, Zenon DEF IInv
<1> QED
  BY <1>5, <1>6, Zenon

\* A call that leaves the array alone and returns keeps the invariant.
LEMMA ReturnStep ==
  ASSUME IInv, pc # "idle", NEW r \in {"ok", "EINVAL", "EFAULT", "EAGAIN"}, Return(r),
         UNCHANGED array, wrote' \in Range
  PROVE  IInv'
  BY DEF array, IInv, TypeOK, Return, SortedDisjoint, SearchRight, ScrollAtMostOne,
      BufferFits, CallState

\* Finding the range free, and scrolling to the insertion point.
LEMMA ScrollStep ==
  ASSUME IInv, CreateFree \/ Scroll
  PROVE  IInv'
<1>1. call # Idle /\ call.op = "create" /\ call.start \in Nat
  BY CallTypes, Zenon DEF IInv, CallState, CreateFree, Scroll
<1>2. UNCHANGED <<num, regions, allocated, call, end, found, wrote, ret>> /\ pc' = "scroll"
  BY Zenon DEF CreateFree, Scroll, array
<1>3. ~Hit /\ ClosestLEQ(found) /\ Hit' = Hit /\ ClosestLEQ(found)' = ClosestLEQ(found)
  BY <1>2, Zenon DEF IInv, CallState, SearchRight, CreateFree, Scroll, Hit, ClosestLEQ, Ptr
<1>4. begin' \in Nat
  BY DEF CreateFree, Scroll, IInv, TypeOK
<1>5. TypeOK'
  BY <1>2, <1>4, Zenon DEF IInv, TypeOK
<1>6. SortedDisjoint' /\ SearchRight' /\ BufferFits' /\ CallState'
  BY <1>1, <1>2, <1>3 DEF IInv, SortedDisjoint, SearchRight, BufferFits, CallState,
                          CreateFree, Scroll
<1>7. ScrollAtMostOne'
  <2>1. found \in -1 .. num - 1 /\ num \in Nat
    BY <1>3, Zenon DEF ClosestLEQ, IInv, TypeOK
  <2>2. CASE CreateFree
    BY <1>2, <2>1, <2>2 DEF CreateFree, ScrollAtMostOne
  <2>3. CASE Scroll
    <3>1. /\ pc = "scroll" /\ begin # num /\ begin' = begin + 1 /\ begin \in Nat
          /\ regions[begin].start < call.start
      BY <2>3, Zenon DEF Scroll, IInv, TypeOK
    <3>2. begin <= num /\ IF found = -1 THEN begin = 0 ELSE begin \in found .. found + 1
      BY <3>1, Zenon DEF IInv, ScrollAtMostOne
    <3>3. begin \in 0 .. num - 1
      BY <2>1, <3>1, <3>2
    <3>4. ~(begin > found)
      <4>1. begin > found => regions[begin].start > Ptr
        BY <1>3, <3>3, Zenon DEF ClosestLEQ
      <4>2. Ptr \in Nat /\ Ptr >= call.start
        BY <1>1, CallTypes DEF IInv, Ptr
      <4>3. regions[begin].start \in Nat
        BY <3>3, Zenon DEF IInv, TypeOK, Range
      <4> QED
        BY <1>1, <3>1, <4>1, <4>2, <4>3
    <3> QED
      BY <1>2, <2>1, <3>1, <3>2, <3>3, <3>4 DEF ScrollAtMostOne
  <2> QED
    BY <2>2, <2>3, Zenon
<1> QED
  BY <1>5, <1>6, <1>7, Zenon DEF IInv

\* A region that overlaps the range of the call lies at or below the region found,
\* and then that one overlaps it too.
LEMMA HitIffOverlap ==
  ASSUME IInv, pc \in {"decide", "scroll"}
  PROVE  /\ \A i \in 0 .. num - 1 : Set!Overlap(regions[i], call) => i <= found /\ Hit
         /\ Hit => found \in 0 .. num - 1 /\ Set!Overlap(regions[found], call)
<1>1. call # Idle
  BY Zenon DEF IInv, CallState
<1>2. call.start \in Nat /\ call.size \in Nat \ {0} /\ Ptr = call.start + call.size - 1
  BY <1>1, CallTypes, Zenon DEF IInv, Ptr
<1>3. ClosestLEQ(found) /\ num \in Nat
  BY Zenon DEF IInv, SearchRight, TypeOK
<1>4. \A i \in 0 .. num - 1 : regions[i].start \in Nat /\ regions[i].size \in Nat
  BY Zenon DEF IInv, TypeOK, Range
<1>5. ASSUME NEW i \in 0 .. num - 1, Set!Overlap(regions[i], call)
      PROVE  i <= found /\ Hit
    BY <1>5, <1>3, <1>2, <1>4, StartsSorted DEF Set!Overlap, ClosestLEQ, IInv, Hit
<1>6. ASSUME Hit
      PROVE  found \in 0 .. num - 1 /\ Set!Overlap(regions[found], call)
    BY <1>3, <1>6, <1>2, <1>4 DEF Hit, ClosestLEQ, Set!Overlap
<1> QED
  BY <1>5, <1>6, Zenon

\* The insertion point separates the regions below the new range from those above.
LEMMA InsertionPoint ==
  ASSUME IInv, CreateInsert
  PROVE  /\ begin \in 0 .. num
         /\ \A i \in 0 .. num - 1 : i < begin =>
              regions[i].start + regions[i].size <= call.start
         /\ \A i \in 0 .. num - 1 : i >= begin =>
              call.start + call.size <= regions[i].start
<1>1. call # Idle /\ pc = "scroll" /\ ~Hit
  BY Zenon DEF IInv, CallState, CreateInsert
<1>2. call.start \in Nat /\ call.size \in Nat \ {0} /\ Ptr = call.start + call.size - 1
  BY <1>1, CallTypes, Zenon DEF IInv, Ptr
<1>3. ClosestLEQ(found) /\ num \in Nat /\ found \in -1 .. num - 1
  BY <1>1, Zenon DEF IInv, SearchRight, TypeOK, ClosestLEQ
<1>4. \A i \in 0 .. num - 1 : regions[i].start \in Nat /\ regions[i].size \in Nat \ {0}
  BY DEF IInv, TypeOK, Range, CallState
<1>5. begin = found + 1
  <2>1. begin <= num /\ IF found = -1 THEN begin = 0 ELSE begin \in found .. found + 1
    BY <1>1, Zenon DEF IInv, ScrollAtMostOne
  <2>2. ASSUME found # -1, begin = found PROVE FALSE
    <3>1. found \in 0 .. num - 1 /\ begin # num
      BY <1>3, <2>2
    <3>2. regions[found].start >= call.start
      BY <2>2, <3>1, Zenon DEF CreateInsert
    <3>3. ~(call.start < regions[found].start + regions[found].size)
      BY <1>1, <2>2, Zenon DEF Hit
    <3> QED
      BY <1>2, <1>4, <3>1, <3>2, <3>3
  <2> QED
    BY <1>3, <2>1, <2>2
<1>6. ASSUME NEW i \in 0 .. num - 1, i < begin
      PROVE  regions[i].start + regions[i].size <= call.start
    BY <1>3, <1>5, <1>6, <1>1, <1>2, <1>4, StartsSorted DEF Hit, IInv
<1>7. ASSUME NEW i \in 0 .. num - 1, i >= begin
      PROVE  call.start + call.size <= regions[i].start
    BY <1>3, <1>5, <1>7, <1>2, <1>4 DEF ClosestLEQ
<1>8. begin \in 0 .. num
  BY <1>3, <1>5
<1> QED
  BY <1>6, <1>7, <1>8, Zenon

\* Inserting at that point keeps the array sorted, disjoint and inside its buffer.
LEMMA InsertStep ==
  ASSUME IInv, CreateInsert
  PROVE  IInv'
<1> DEFINE new == [start |-> call.start, size |-> call.size]
<1>1. call # Idle /\ call.start \in Nat /\ call.size \in Nat \ {0} /\ call.op = "create"
  BY CallTypes, Zenon DEF IInv, CallState, CreateInsert
<1>2. num \in Nat /\ begin \in 0 .. num
  BY InsertionPoint, Zenon DEF IInv, TypeOK
<1>3. /\ num' = num + 1 /\ allocated' = allocated /\ wrote' = wrote
      /\ pc' = "idle" /\ call' = Idle /\ ret' = "ok"
      /\ begin' = 0 /\ end' = 0 /\ found' = -1
      /\ regions' = [i \in 0 .. num |-> IF i < begin THEN regions[i]
                                       ELSE IF i = begin THEN new ELSE regions[i - 1]]
  BY Zenon DEF CreateInsert, Return
<1>4. new \in Range /\ new.size > 0 /\ new.start = call.start /\ new.size = call.size
  BY <1>1 DEF Range
<1> HIDE DEF new
<1>5. ASSUME NEW i \in 0 .. num
      PROVE  /\ i < begin => i \in 0 .. num - 1 /\ regions'[i] = regions[i]
             /\ i = begin => regions'[i] = new
             /\ i > begin => i - 1 \in 0 .. num - 1 /\ i - 1 >= begin
                             /\ regions'[i] = regions[i - 1]
  BY <1>2, <1>3
<1>6. \A i \in 0 .. num - 1 : regions[i] \in Range /\ regions[i].size > 0
  BY Zenon DEF IInv, TypeOK, CallState
<1>7. \A i \in 0 .. num : regions'[i] \in Range /\ regions'[i].size > 0
  BY <1>2, <1>4, <1>5, <1>6
<1>8. TypeOK'
  <2>1. 0 .. num' - 1 = 0 .. num
    BY <1>2, <1>3
  <2>2. regions' \in [0 .. num' - 1 -> Range]
    BY <1>3, <1>7, <2>1, Zenon
  <2>3. /\ num' \in Nat /\ allocated' \in Nat /\ wrote' \in Range
        /\ begin' \in Nat /\ end' \in Nat /\ found' \in Nat \cup {-1}
    BY <1>2, <1>3 DEF IInv, TypeOK
  <2> QED
    BY <1>3, <2>2, <2>3, Zenon DEF TypeOK
<1>9. SortedDisjoint'
  <2>0. 0 .. num' - 1 = 0 .. num
    BY <1>2, <1>3
  <2>1. SUFFICES ASSUME NEW i \in 0 .. num, NEW j \in 0 .. num, i < j
                 PROVE  regions'[i].start + regions'[i].size <= regions'[j].start
    BY <2>0, Zenon DEF SortedDisjoint
  <2>2. CASE j < begin
    BY <1>2, <1>5, <2>1, <2>2 DEF IInv, SortedDisjoint
  <2>3. CASE j = begin
    BY <1>2, <1>4, <1>5, <2>1, <2>3, InsertionPoint
  <2>4. CASE j > begin /\ i = begin
    BY <1>2, <1>4, <1>5, <2>4, InsertionPoint
  <2>5. CASE j > begin /\ i < begin
    <3>1. i \in 0 .. num - 1 /\ j - 1 \in 0 .. num - 1 /\ i < j - 1
      BY <1>2, <1>5, <2>5
    <3> QED
      BY <1>5, <2>5, <3>1 DEF IInv, SortedDisjoint
  <2>6. CASE j > begin /\ i > begin
    <3>1. i - 1 \in 0 .. num - 1 /\ j - 1 \in 0 .. num - 1 /\ i - 1 < j - 1
      BY <1>5, <2>1, <2>6
    <3> QED
      BY <1>5, <2>6, <3>1 DEF IInv, SortedDisjoint
  <2> QED
    BY <1>2, <2>2, <2>3, <2>4, <2>5, <2>6
<1>10. SearchRight' /\ ScrollAtMostOne'
  BY <1>3, Zenon DEF SearchRight, ScrollAtMostOne
<1>11. BufferFits'
  BY <1>1, <1>2, <1>3 DEF IInv, TypeOK, BufferFits, CreateInsert
<1>12. CallState'
  <2>1. 0 .. num' - 1 = 0 .. num
    BY <1>2, <1>3
  <2> QED
    BY <1>3, <1>7, <2>1, Zenon DEF CallState
<1> QED
  BY <1>8, <1>9, <1>10, <1>11, <1>12, Zenon DEF IInv

\* So does removing a region.
LEMMA RemoveStep ==
  ASSUME IInv, DeleteRemove
  PROVE  IInv'
<1>1. num \in Nat /\ allocated \in Nat /\ found \in 0 .. num - 1
  BY HitIffOverlap, Zenon DEF IInv, TypeOK, DeleteRemove, Exact
<1>2. /\ num' = num - 1 /\ wrote' = wrote
      /\ pc' = "idle" /\ call' = Idle /\ ret' = "ok"
      /\ begin' = 0 /\ end' = 0 /\ found' = -1
      /\ regions' = [i \in 0 .. num - 2 |->
                       IF i < found THEN regions[i] ELSE regions[i + 1]]
  BY Zenon DEF DeleteRemove, Return
<1>3. ASSUME NEW i \in 0 .. num - 2
      PROVE  /\ i \in 0 .. num - 1 /\ i + 1 \in 0 .. num - 1
             /\ regions'[i] = IF i < found THEN regions[i] ELSE regions[i + 1]
  BY <1>1, <1>2
<1>4. \A i \in 0 .. num - 1 : regions[i] \in Range /\ regions[i].size > 0
  BY Zenon DEF IInv, TypeOK, CallState
<1>5. \A i \in 0 .. num - 2 : regions'[i] \in Range /\ regions'[i].size > 0
  BY <1>3, <1>4
<1>6. 0 .. num' - 1 = 0 .. num - 2 /\ num' \in Nat
  BY <1>1, <1>2
<1>7. allocated' \in Nat /\ num - 1 <= allocated'
  BY <1>1 DEF DeleteRemove, IInv, BufferFits
<1>8. TypeOK'
    BY <1>2, <1>6, <1>7 DEF IInv, TypeOK
<1>9. SortedDisjoint'
  <2>1. SUFFICES ASSUME NEW i \in 0 .. num - 2, NEW j \in 0 .. num - 2, i < j
                 PROVE  regions'[i].start + regions'[i].size <= regions'[j].start
    BY <1>6, Zenon DEF SortedDisjoint
  <2> QED
    BY <1>1, <1>3, <2>1 DEF IInv, SortedDisjoint
<1>10. SearchRight' /\ ScrollAtMostOne' /\ BufferFits'
  BY <1>2, <1>7, Zenon DEF SearchRight, ScrollAtMostOne, BufferFits
<1>11. CallState'
  BY <1>2, <1>5, <1>6, Zenon DEF CallState
<1> QED
  BY <1>8, <1>9, <1>10, <1>11, Zenon DEF IInv

\* Every step keeps the invariant.
LEMMA NextIInv == IInv /\ [Next]_vars => IInv'
<1>1. ASSUME IInv, [Next]_vars PROVE IInv'
  <2>1. CASE \E c \in Call : Invoke(c)
    BY <1>1, <2>1, InvokeStep, Zenon
  <2>2. CASE FindAtEnds \/ FindBetween
    BY <1>1, <2>2, FindStep, Zenon
  <2>3. CASE Bisect
    BY <1>1, <2>3, BisectStep, Zenon
  <2>4. CASE LinearScan
    BY <1>1, <2>4, LinearScanStep, Zenon
  <2>5. CASE CreateUsed \/ DeleteMiss \/ DeletePending \/ ModifyMiss
      BY <1>1, <2>5, ReturnStep, Zenon DEF IInv, TypeOK, CreateUsed, DeleteMiss, DeletePending,
          ModifyMiss
  <2>6. CASE ModifyWrite
    <3>1. pc # "idle" /\ UNCHANGED array /\ Return("ok")
      BY <2>6, Zenon DEF ModifyWrite
    <3>2. call.start \in Nat /\ call.size \in Nat \ {0}
      BY <1>1, <2>6, CallTypes, Zenon DEF IInv, CallState, ModifyWrite
    <3>3. wrote' \in Range
      BY <2>6, <3>2, BundleBounds, Zenon DEF ModifyWrite, Range
    <3> QED
      BY <1>1, <3>1, <3>3, ReturnStep, Zenon
  <2>7. CASE CreateFree \/ Scroll
    BY <1>1, <2>7, ScrollStep, Zenon
  <2>8. CASE CreateInsert
    BY <1>1, <2>8, InsertStep, Zenon
  <2>9. CASE DeleteRemove
    BY <1>1, <2>9, RemoveStep, Zenon
  <2>10. CASE UNCHANGED vars
    BY <1>1, <2>10 DEF vars, array, IInv, TypeOK, SortedDisjoint, SearchRight,
       ScrollAtMostOne, BufferFits, CallState, Hit, ClosestLEQ, Ptr
  <2> QED
    BY <1>1, <2>1, <2>2, <2>3, <2>4, <2>5, <2>6, <2>7, <2>8, <2>9, <2>10, Zenon
    DEF Next, Step
<1> QED
  BY <1>1, Zenon

\* The array of regions stays sorted and disjoint, the search returns the region
\* its comment promises, and neither it nor the insertion leaves the array.
THEOREM ArraySafe ==
  Spec => [](SortedDisjoint /\ SearchRight /\ ScrollAtMostOne)
<1>1. IInv => SortedDisjoint /\ SearchRight /\ ScrollAtMostOne
  BY Zenon DEF IInv
<1> QED
  BY <1>1, InitIInv, NextIInv, PTL DEF Spec

\* The array fits its buffer, whenever NaClDynamicRegionCreate enlarges it and
\* NaClDynamicRegionDelete shrinks it, and an insertion under way has room.
THEOREM BufferSafe == Spec => []BufferFits
<1>1. IInv => BufferFits
  BY Zenon DEF IInv
<1> QED
  BY <1>1, InitIInv, NextIInv, PTL DEF Spec

-----------------------------------------------------------------------------
(* What a modification writes.  Regions are whole bundles, so widening a   *)
(* range inside a region to whole bundles stays inside the region.         *)

\* A number is the multiple of B below it and the remainder.
LEMMA Quotient ==
  ASSUME NEW B \in Nat \ {0}, NEW x \in Nat
  PROVE  /\ x \div B \in Nat /\ x % B \in 0 .. B - 1
         /\ x = B * (x \div B) + (x % B)
OBVIOUS

\* Different multiples of B are at least B apart.
LEMMA MultiplesApart ==
  ASSUME NEW B \in Nat \ {0}, NEW i \in Nat, NEW j \in Nat, i < j
  PROVE  B * i + B <= B * j
  OBVIOUS

\* A multiple of B on one side of x is on that side of x rounded down.
LEMMA RoundDown ==
  ASSUME NEW B \in Nat \ {0}, NEW a \in Nat, a % B = 0, NEW x \in Nat
  PROVE  /\ a <= x => a <= x - (x % B)
         /\ x < a + B => x - (x % B) <= a
<1>0. a \div B \in Nat /\ a = B * (a \div B)
  BY Quotient
<1>1. x \div B \in Nat /\ x % B \in 0 .. B - 1 /\ x = B * (x \div B) + (x % B)
  BY Quotient, Zenon
<1>2. x \div B < a \div B => B * (x \div B) + B <= a
  BY <1>0, <1>1, MultiplesApart, Zenon
<1>3. a \div B < x \div B => a + B <= B * (x \div B)
  BY <1>0, <1>1, MultiplesApart, Zenon
<1> QED
  BY <1>0, <1>1, <1>2, <1>3

\* The sum of two multiples of B is one.
LEMMA SumOfMultiples ==
  ASSUME NEW B \in Nat \ {0}, NEW a \in Nat, NEW b \in Nat, NEW c \in Nat,
         a % B = 0, b % B = 0, c = a + b
  PROVE  c % B = 0
<1> DEFINE k == (a \div B) + (b \div B)
<1>1. a = B * (a \div B) /\ b = B * (b \div B) /\ a \div B \in Nat /\ b \div B \in Nat
  BY Quotient
<1>2. k \in Nat /\ c = B * k
  BY <1>1
<1>3. c \div B \in Nat /\ c % B \in 0 .. B - 1 /\ c = B * (c \div B) + (c % B)
  BY Quotient, Zenon
<1> HIDE DEF k
<1>4. /\ c \div B < k => B * (c \div B) + B <= B * k
      /\ k < c \div B => B * k + B <= B * (c \div B)
  BY <1>2, <1>3, MultiplesApart, Zenon
<1> QED
  BY <1>2, <1>3, <1>4

\* Regions and the ranges to insert are whole bundles of the text, and the record
\* of the last write is cleared before the array can change again.
WriteInv ==
  /\ \A i \in 0 .. num - 1 :
       /\ regions[i].start % Bundle = 0 /\ regions[i].size % Bundle = 0
       /\ TextStart <= regions[i].start /\ regions[i].start + regions[i].size <= TextEnd
  /\ pc # "idle" /\ call.op = "create" => CreateArgs(call)
  /\ wrote # Nothing => pc = "idle"
  /\ ModifyInRegion

\* The bundles around a range inside a region lie inside that region.
LEMMA WidenedInside ==
  ASSUME NEW r \in Range, r.start % Bundle = 0, r.size % Bundle = 0,
         NEW s \in Nat, NEW z \in Nat \ {0},
         r.start <= s, s + z <= r.start + r.size
  PROVE  /\ r.start <= BundleDown(s)
         /\ BundleDown(s + z - 1 + Bundle) <= r.start + r.size
<1>1. r.start \in Nat /\ r.size \in Nat /\ r.start + r.size \in Nat
      /\ s + z - 1 + Bundle \in Nat /\ s + z - 1 + Bundle < r.start + r.size + Bundle
  BY DEF Range
<1>2. (r.start + r.size) % Bundle = 0
  BY <1>1, SumOfMultiples
<1> QED
  BY <1>1, <1>2, RoundDown, Zenon DEF BundleDown

\* Every step keeps it.
LEMMA WriteStep ==
  ASSUME IInv, WriteInv, [Next]_vars
  PROVE  WriteInv'
<1>1. ASSUME NEW c \in Call, Invoke(c) PROVE WriteInv'
  BY <1>1, Zenon DEF WriteInv, ModifyInRegion, Invoke, CreateArgs
<1>2. CASE FindAtEnds \/ FindBetween \/ Bisect \/ LinearScan \/ CreateFree \/ Scroll
  BY <1>2, Zenon DEF WriteInv, ModifyInRegion, CreateArgs, array, Decide,
     FindAtEnds, FindBetween, Bisect, LinearScan, CreateFree, Scroll
<1>3. CASE CreateUsed \/ DeleteMiss \/ DeletePending \/ ModifyMiss
  BY <1>3, Zenon DEF WriteInv, ModifyInRegion, array, Return,
     CreateUsed, DeleteMiss, DeletePending, ModifyMiss
<1>4. CASE CreateInsert
    BY <1>4, InsertionPoint DEF IInv, TypeOK, CallState, WriteInv, CreateArgs,
        CreateInsert, Return, ModifyInRegion
<1>5. CASE DeleteRemove
    BY <1>5 DEF IInv, TypeOK, WriteInv, DeleteRemove, Return, ModifyInRegion
<1>6. CASE ModifyWrite
  <2>1. /\ found \in 0 .. num - 1 /\ regions[found] \in Range
        /\ call.start \in Nat /\ call.size \in Nat \ {0}
        /\ regions[found].start <= call.start
        /\ call.start + call.size <= regions[found].start + regions[found].size
    BY <1>6, CallTypes, HitIffOverlap, Zenon DEF ModifyWrite, Inside, IInv, TypeOK, CallState, Range
  <2>2. /\ BundleDown(call.start) \in Nat
        /\ BundleDown(call.start + call.size - 1 + Bundle) - BundleDown(call.start) \in Nat
    BY <2>1, BundleBounds, Zenon
  <2>3. /\ regions[found].start <= BundleDown(call.start)
        /\ BundleDown(call.start + call.size - 1 + Bundle)
             <= regions[found].start + regions[found].size
    BY <2>1, WidenedInside, Zenon DEF WriteInv
  <2>4. /\ wrote'.start = BundleDown(call.start)
        /\ wrote'.size = BundleDown(call.start + call.size - 1 + Bundle) - BundleDown(call.start)
    BY <1>6, Zenon DEF ModifyWrite
  <2>5. wrote'.start + wrote'.size = BundleDown(call.start + call.size - 1 + Bundle)
        /\ wrote'.start = BundleDown(call.start)
    <3> DEFINE lo == BundleDown(call.start)
               hi == BundleDown(call.start + call.size - 1 + Bundle)
    <3>1. lo \in Nat /\ hi \in Nat
      BY <2>1, BundleBounds, Zenon
    <3> HIDE DEF lo, hi
    <3>2. wrote'.start = lo /\ wrote'.size = hi - lo
      BY <2>4, Zenon DEF lo, hi
    <3>3. wrote'.start + wrote'.size = hi
      BY <3>1, <3>2
    <3> QED
      BY <2>4, <3>3, Zenon DEF hi
  <2> QED
    BY <1>6, <2>1, <2>2, <2>3, <2>5, Zenon DEF WriteInv, ModifyInRegion, ModifyWrite, Return, array
<1>7. CASE UNCHANGED vars
  BY <1>7, Zenon DEF WriteInv, ModifyInRegion, CreateArgs, vars, array
<1> QED
  BY <1>1, <1>2, <1>3, <1>4, <1>5, <1>6, <1>7, Zenon DEF Next, Step

\* NaClTextSysDyncode_Modify rewrites whole bundles, and yet nothing outside the
\* region that holds the program's range.
THEOREM ModifySafe == Spec => []ModifyInRegion
<1>1. Init => WriteInv
  BY DEF Init, WriteInv, ModifyInRegion, Nothing
<1>2. WriteInv => ModifyInRegion
  BY Zenon DEF WriteInv
<1> QED
  BY <1>1, <1>2, InitIInv, NextIInv, WriteStep, PTL DEF Spec

-----------------------------------------------------------------------------
Used == {regions[i] : i \in 0 .. num - 1}

\* The range of the call is in the set exactly if the region found is that range.
LEMMA ExactIffUsed ==
  ASSUME IInv, pc = "decide"
  PROVE  Exact <=> Set!Range(call) \in Used
<1>1. call # Idle /\ call.start \in Nat /\ call.size \in Nat \ {0}
  BY CallTypes, Zenon DEF IInv, CallState
<1>2. \A i \in 0 .. num - 1 : regions[i] \in Range
  BY Zenon DEF IInv, TypeOK
<1>3. ASSUME Exact PROVE Set!Range(call) \in Used
    BY <1>3, HitIffOverlap, <1>2, Zenon DEF Exact, Range, Used, Set!Range
<1>4. ASSUME NEW i \in 0 .. num - 1, Set!Range(call) = regions[i] PROVE Exact
  <2>1. regions[i].start = call.start /\ regions[i].size = call.size
    BY <1>4 DEF Set!Range
  <2>2. Set!Overlap(regions[i], call)
    BY <1>1, <2>1 DEF Set!Overlap
  <2>3. i <= found /\ Hit /\ found \in 0 .. num - 1
    BY <2>2, HitIffOverlap, Zenon
  <2>4. regions[found].start < call.start + call.size
    BY <2>3, HitIffOverlap, Zenon DEF Set!Overlap
  <2>5. regions[found].start \in Nat /\ num \in Nat
    BY <1>2, <2>3, Zenon DEF Range, IInv, TypeOK
  <2>6. i < found => regions[i].start + regions[i].size <= regions[found].start
    BY <2>3, Zenon DEF IInv, SortedDisjoint
  <2>7. i = found
    BY <1>1, <2>1, <2>3, <2>4, <2>5, <2>6
  <2> QED
    BY <2>1, <2>3, <2>7, Zenon DEF Exact
<1> QED
  BY <1>3, <1>4, Zenon DEF Used

\* A modification finds its region exactly if some region contains its range.
LEMMA InsideIffWithin ==
  ASSUME IInv, pc = "decide"
  PROVE  Inside <=> \E u \in Used : Set!Within(call, u)
<1>1. call # Idle /\ call.start \in Nat /\ call.size \in Nat \ {0}
  BY CallTypes, Zenon DEF IInv, CallState
<1>2. \A i \in 0 .. num - 1 : regions[i].start \in Nat /\ regions[i].size \in Nat
  BY Zenon DEF IInv, TypeOK, Range
<1>3. ASSUME Inside PROVE \E u \in Used : Set!Within(call, u)
    BY <1>3, HitIffOverlap, Zenon DEF Inside, Set!Within, Used
<1>4. ASSUME NEW i \in 0 .. num - 1, Set!Within(call, regions[i]) PROVE Inside
    BY <1>1, <1>2, <1>4, HitIffOverlap DEF Set!Overlap, Set!Within, IInv,
        SortedDisjoint, Inside
<1> QED
  BY <1>3, <1>4, Zenon DEF Used

\* Shifting up and inserting adds the new range to the set.
LEMMA InsertUsed ==
  ASSUME IInv, CreateInsert
  PROVE  Used' = Used \cup {Set!Range(call)}
<1> DEFINE new == [start |-> call.start, size |-> call.size]
<1>1. num \in Nat /\ begin \in 0 .. num
  BY InsertionPoint, Zenon DEF IInv, TypeOK
<1>2. /\ num' = num + 1
      /\ regions' = [i \in 0 .. num |-> IF i < begin THEN regions[i]
                                       ELSE IF i = begin THEN new ELSE regions[i - 1]]
  BY Zenon DEF CreateInsert
<1>3. new = Set!Range(call)
  BY Zenon DEF Set!Range
<1> HIDE DEF new
<1>4. 0 .. num' - 1 = 0 .. num
  BY <1>1, <1>2
<1>5. ASSUME NEW i \in 0 .. num PROVE regions'[i] \in Used \cup {new}
    BY <1>1, <1>2 DEF Used
<1>6. ASSUME NEW i \in 0 .. num - 1 PROVE \E j \in 0 .. num : regions'[j] = regions[i]
  <2>1. CASE i < begin
    BY <1>1, <1>2, <2>1
  <2>2. CASE i >= begin
    <3>1. i + 1 \in 0 .. num /\ regions'[i + 1] = regions[i]
      BY <1>1, <1>2, <2>2
    <3> QED
      BY <3>1, Zenon
  <2> QED
    BY <1>1, <2>1, <2>2
<1>7. regions'[begin] = new
  BY <1>1, <1>2
<1>8. Used' = {regions'[i] : i \in 0 .. num}
  BY <1>4, Zenon DEF Used
<1>9. Used' \subseteq Used \cup {new}
  BY <1>5, <1>8, Zenon
<1>10. Used \subseteq Used'
  BY <1>6, <1>8 DEF Used
<1>11. new \in Used'
  BY <1>1, <1>7, <1>8, Zenon
<1> QED
  BY <1>3, <1>9, <1>10, <1>11, Zenon

\* Shifting down removes exactly the region found.
LEMMA RemoveUsed ==
  ASSUME IInv, DeleteRemove
  PROVE  Used' = Used \ {Set!Range(call)}
<1>1. num \in Nat /\ found \in 0 .. num - 1
  BY HitIffOverlap, Zenon DEF IInv, TypeOK, DeleteRemove, Exact
<1>2. /\ num' = num - 1
      /\ regions' = [i \in 0 .. num - 2 |->
                       IF i < found THEN regions[i] ELSE regions[i + 1]]
  BY Zenon DEF DeleteRemove
<1>3. regions[found] = Set!Range(call)
  BY <1>1, Zenon DEF DeleteRemove, Exact, Set!Range, IInv, TypeOK, Range
<1>4. 0 .. num' - 1 = 0 .. num - 2
  BY <1>1, <1>2
<1>5. Used' = {regions'[i] : i \in 0 .. num - 2}
  BY <1>4, Zenon DEF Used
<1>6. \A i \in 0 .. num - 1 : i # found => regions[i] # regions[found]
    BY StartsSorted, <1>1 DEF IInv, TypeOK, Range
<1>7. ASSUME NEW i \in 0 .. num - 2
      PROVE  regions'[i] \in Used /\ regions'[i] # regions[found]
    BY <1>1, <1>2, <1>6 DEF Used
<1>8. ASSUME NEW i \in 0 .. num - 1, i # found
      PROVE  \E j \in 0 .. num - 2 : regions'[j] = regions[i]
  <2>1. CASE i < found
    BY <1>1, <1>2, <2>1
  <2>2. CASE i > found
    <3>1. i - 1 \in 0 .. num - 2 /\ regions'[i - 1] = regions[i]
      BY <1>1, <1>2, <2>2
    <3> QED
      BY <3>1, Zenon
  <2> QED
    BY <1>1, <1>8, <2>1, <2>2
<1>9. Used' \subseteq Used \ {regions[found]}
  BY <1>5, <1>7, Zenon
<1>10. Used \ {regions[found]} \subseteq Used'
  BY <1>5, <1>8 DEF Used
<1> QED
  BY <1>3, <1>9, <1>10, Zenon

\* Every step of the array is a step of the set, or does not show.
LEMMA StepRefines ==
  ASSUME IInv, [Next]_vars
  PROVE  [Set!Next]_<<Used, call, ret>>
<1>1. CASE \E c \in Call : Invoke(c)
    BY <1>1, Zenon DEF Invoke, IInv, CallState, Used, Set!Next, Set!Invoke
<1>2. CASE FindAtEnds \/ FindBetween \/ Bisect \/ LinearScan \/ CreateFree \/ Scroll
    BY <1>2, Zenon DEF FindAtEnds, Decide, FindBetween, Bisect, LinearScan, CreateFree, Scroll,
        array, Used
<1>3. CASE CreateUsed
    BY <1>3, HitIffOverlap, Zenon DEF CreateUsed, IInv, CallState, array, Used, Set!Create,
        Set!Return, Return, Set!Next
<1>4. CASE CreateInsert
  <2>1. call # Idle /\ call.op = "create" /\ Return("ok") /\ ~Hit /\ pc = "scroll"
    BY <1>4, Zenon DEF CreateInsert, IInv, CallState
  <2>2. ~\E u \in Used : Set!Overlap(u, call)
    BY <2>1, HitIffOverlap, Zenon DEF Used
  <2>3. Used' = Used \cup {Set!Range(call)}
    BY <1>4, InsertUsed, Zenon
  <2>4. Set!Create
    BY <2>1, <2>2, <2>3, Zenon DEF Set!Create, Set!Return, Return, Used
  <2> QED
    BY <2>4, Zenon DEF Set!Next
<1>5. CASE DeleteMiss \/ DeletePending \/ DeleteRemove
    BY <1>5, ExactIffUsed, RemoveUsed, Zenon DEF DeleteMiss, DeletePending, DeleteRemove, IInv,
        CallState, array, Used, Set!Delete, Set!Return, Return, Set!Next
<1>6. CASE ModifyMiss \/ ModifyWrite
    BY <1>6, InsideIffWithin, Zenon DEF ModifyMiss, ModifyWrite, IInv, CallState, array, Used,
        Set!Modify, Set!Return, Return, Set!Next
<1>7. CASE UNCHANGED vars
  BY <1>7, Zenon DEF vars, array, Used
<1> QED
  BY <1>1, <1>2, <1>3, <1>4, <1>5, <1>6, <1>7, Zenon DEF Next, Step

\* The sorted array with its binary search implements the set of disjoint ranges
\* of RegionSet: for every sequence of calls, creation succeeds exactly for free
\* ranges, and deletion and modification find exactly the right region.
THEOREM ArrayImplementsSet == Spec => SetSpec
<1>1. Init => Set!Init
  BY DEF Init, Set!Init
<1>2. IInv /\ [Next]_vars => [Set!Next]_<<Used, call, ret>>
  BY StepRefines, Zenon
<1> QED
  BY <1>1, <1>2, InitIInv, NextIInv, PTL DEF Spec, SetSpec, Set!Spec, Used

-----------------------------------------------------------------------------
(* TextMapCache: the cache of the writable view of the text. *)

\* The inductive invariant: the two properties, and that a cache that is not
\* empty holds a mapping or an error.
CacheInv ==
  /\ CacheTypeOK
  /\ size > 0 => mapcache_ret \in Mapping \cup {MapError}
  /\ CacheOwnsMapping
  /\ WroteAsked

\* Rounding down to a page.
LEMMA PageDownRange ==
  ASSUME NEW a \in Nat
  PROVE  /\ PageDown(a) \in Nat
         /\ PageDown(a) <= a /\ a < PageDown(a) + PageSize
         /\ PageDown(a) + (a % PageSize) = a
  BY TextMapCacheAssumption DEF PageDown

\* The pages that a call maps hold the bytes it is to write.
LEMMA PagesCover ==
  ASSUME NEW dest \in DynTextStart .. DynTextStart + TextSize - 1, NEW n \in 1 .. TextSize
  PROVE  LET o == MapOffset(dest)
             s == MapSize(dest, n)
             w == ShmOffset(dest)
         IN  /\ o \in Nat /\ s \in Nat /\ s > 0 /\ w \in Nat
             /\ o + (w % PageSize) = w
             /\ o <= w /\ w + n <= o + s
<1>. DEFINE w == ShmOffset(dest)
            e == w + n + PageSize - 1
<1>1. w \in Nat /\ e \in Nat /\ n \in Nat /\ n > 0
  BY TextMapCacheAssumption DEF ShmOffset
<1>2. MapOffset(dest) = PageDown(w) /\ MapSize(dest, n) = PageDown(e) - PageDown(w)
  BY Zenon DEF MapOffset, MapSize
<1>3. PageDown(w) \in Nat /\ PageDown(w) <= w /\ PageDown(w) + (w % PageSize) = w
  BY <1>1, PageDownRange, Zenon
<1>4. PageDown(e) \in Nat /\ e < PageDown(e) + PageSize
  BY <1>1, PageDownRange, Zenon
<1>5. w + n <= PageDown(e)
  BY <1>1, <1>4, TextMapCacheAssumption
<1>. HIDE DEF w, e
<1>6. PageDown(e) > PageDown(w)
  BY <1>1, <1>3, <1>4, <1>5
<1>. QED
  BY <1>1, <1>2, <1>3, <1>4, <1>5, <1>6 DEF w

\* The invariant holds with an empty cache.
LEMMA CacheInitInv == CacheInit => CacheInv
  BY TextMapCacheAssumption
  DEF CacheInit, CacheInv, CacheTypeOK, CacheOwnsMapping, WroteAsked, CachedOk,
      NoBytes, Bytes

\* What a write through a mapping of the right pages leaves behind.
LEMMA WriteRight ==
  ASSUME NEW dest \in DynTextStart .. DynTextStart + TextSize - 1, NEW n \in 1 .. TextSize,
         Write(dest, n, [from |-> MapOffset(dest), len |-> MapSize(dest, n)])
  PROVE  /\ asked' \in Bytes /\ written' \in Bytes /\ view' \in Bytes
         /\ WroteAsked'
  BY PagesCover DEF Write, WroteAsked, Bytes

\* A call that cannot map its pages writes nothing.
LEMMA WriteNothingRight ==
  ASSUME NEW dest \in DynTextStart .. DynTextStart + TextSize - 1, NEW n \in 1 .. TextSize,
         WriteNothing(dest, n)
  PROVE  /\ asked' \in Bytes /\ written' \in Bytes /\ view' \in Bytes
         /\ WroteAsked'
  BY PagesCover DEF WriteNothing, WroteAsked, Bytes, NoBytes

\* Dropping the cached mapping leaves none.
LEMMA DroppedNone ==
  ASSUME CacheInv
  PROVE  /\ Dropped \in [Mapping -> Bytes]
         /\ \A m \in Mapping : Dropped[m] = NoBytes
<1>1. CASE CachedOk
  <2>1. Dropped = [live EXCEPT ![mapcache_ret] = NoBytes]
    BY <1>1, Zenon DEF Dropped
  <2>. QED
    BY <1>1, <2>1, Zenon DEF CacheInv, CacheTypeOK, CacheOwnsMapping, Bytes, NoBytes
<1>2. CASE ~CachedOk
  BY <1>2, Zenon DEF Dropped, CacheInv, CacheTypeOK, CacheOwnsMapping
<1>. QED
  BY <1>1, <1>2, Zenon

\* A cache that was emptied, or that holds an error, with no mapping left.
LEMMA NoMapping ==
  ASSUME CacheInv, live' \in [Mapping -> Bytes],
         \A m \in Mapping : live'[m] = NoBytes,
         \/ offset' = 0 /\ size' = 0 /\ mapcache_ret' = 0
         \/ mapcache_ret' = MapError
  PROVE  CacheOwnsMapping'
  BY DEF CacheOwnsMapping, CachedOk

\* Every step keeps the invariant of the cache.
LEMMA CacheNextInv == CacheInv /\ [CacheNext]_cacheVars => CacheInv'
<1>. SUFFICES ASSUME CacheInv, [CacheNext]_cacheVars PROVE CacheInv'
  BY Zenon
<1>1. ASSUME NEW dest \in DynTextStart .. DynTextStart + TextSize - 1, NEW n \in 1 .. TextSize,
             NEW keep \in BOOLEAN, WriteHit(dest, n, keep)
      PROVE  CacheInv'
    BY <1>1, PagesCover, WriteRight DEF WriteHit, CacheInv, CachedOk, CacheOwnsMapping,
        Clear, Fill, CacheTypeOK, Bytes, NoBytes, cache
<1>2. ASSUME NEW dest \in DynTextStart .. DynTextStart + TextSize - 1, NEW n \in 1 .. TextSize,
             NEW keep \in BOOLEAN, WriteMiss(dest, n, keep)
      PROVE  CacheInv'
    BY <1>2, WriteRight, DroppedNone, PagesCover, TextMapCacheAssumption DEF WriteMiss,
        Fill, CacheInv, CacheTypeOK, Bytes, CacheOwnsMapping, CachedOk
<1>3. ASSUME NEW dest \in DynTextStart .. DynTextStart + TextSize - 1, NEW n \in 1 .. TextSize,
             FailHit(dest, n)
      PROVE  CacheInv'
  BY <1>3, WriteNothingRight, Zenon
  DEF CacheInv, CacheTypeOK, FailHit, cache, CacheOwnsMapping, CachedOk
<1>4. ASSUME NEW dest \in DynTextStart .. DynTextStart + TextSize - 1, NEW n \in 1 .. TextSize,
             FailMiss(dest, n)
      PROVE  CacheInv'
    BY <1>4, WriteNothingRight, DroppedNone, PagesCover, NoMapping DEF FailMiss, Fill,
        CacheInv, CacheTypeOK
<1>5. ASSUME NEW dest, NEW n, CheckFails(dest, n) \/ UnmapFails(dest, n)
      PROVE  CacheInv'
  BY <1>5 DEF CacheInv, CacheTypeOK, CheckFails, UnmapFails, cache, lastCall,
              CacheOwnsMapping, CachedOk, WroteAsked
<1>6. CASE UNCHANGED cacheVars
  BY <1>6, Zenon DEF CacheInv, CacheTypeOK, cacheVars, cache, lastCall,
              CacheOwnsMapping, CachedOk, WroteAsked
<1>7. ASSUME Begin PROVE CacheInv'
  BY <1>7 DEF Begin, CacheInv, CacheTypeOK, cache, CacheOwnsMapping, CachedOk,
              WroteAsked, Bytes, NoBytes
<1>. QED
  BY <1>1, <1>2, <1>3, <1>4, <1>5, <1>6, <1>7, Zenon DEF CacheNext, Stopped

\* The cache of the writable view owns the only writable mapping of the text:
\* CachedMapWritableText neither leaks one nor uses or unmaps one twice.
THEOREM OneMapping == CacheSpec => []CacheOwnsMapping
<1>1. CacheInv => CacheOwnsMapping
  BY Zenon DEF CacheInv
<1>. QED
  BY <1>1, CacheInitInv, CacheNextInv, PTL DEF CacheSpec

\* A call writes the bytes it was asked to write and its mapping covers them,
\* for every page size, every range in the text and whatever was cached before.
THEOREM WritesRight == CacheSpec => []WroteAsked
<1>1. CacheInv => WroteAsked
  BY Zenon DEF CacheInv
<1>. QED
  BY <1>1, CacheInitInv, CacheNextInv, PTL DEF CacheSpec

-----------------------------------------------------------------------------
(* The system calls (DynText). *)

\* What the calls write lies in the dynamic text: a new range was checked, ...
LEMMA CreateInText == IInv /\ WriteInv /\ CreateInsert => InText(call.start, call.size)
<1>. SUFFICES ASSUME IInv, WriteInv, CreateInsert PROVE InText(call.start, call.size)
  BY Zenon
<1>1. pc = "scroll" /\ call # Idle /\ call.op = "create"
  BY DEF CreateInsert, IInv, CallState
<1>2. call.start \in Nat /\ call.size \in Nat \ {0} /\ CreateArgs(call)
  BY <1>1, CallTypes DEF IInv, WriteInv
<1>. QED
  BY <1>2, SameText, DynRegionsAssumption, TextMapCacheAssumption DEF CreateArgs, InText

\* ... a range to delete is that of a region, ...
LEMMA DeleteInText ==
  IInv /\ WriteInv /\ (DeletePending \/ DeleteRemove) => InText(call.start, call.size)
<1>. SUFFICES ASSUME IInv, WriteInv, DeletePending \/ DeleteRemove
              PROVE  InText(call.start, call.size)
  BY Zenon
<1>1. pc = "decide" /\ Exact
  BY DEF DeletePending, DeleteRemove
<1>2. found \in 0 .. num - 1 /\ regions[found].start = call.start /\ regions[found].size = call.size
  BY <1>1, HitIffOverlap, Zenon DEF Exact
<1>3. call # Idle
  BY <1>1 DEF IInv, CallState
<1>4. call.start \in Nat /\ call.size \in Nat \ {0}
  BY <1>3, CallTypes DEF IInv
<1>5. TextStart <= call.start /\ call.start + call.size <= TextEnd
  BY <1>2, Zenon DEF WriteInv
<1>. QED
  BY <1>4, <1>5, SameText, DynRegionsAssumption, TextMapCacheAssumption DEF InText

\* ... and the bundles to modify lie inside one.
LEMMA ModifyInText ==
  IInv /\ WriteInv /\ IInv' /\ WriteInv' /\ ModifyWrite => InText(wrote'.start, wrote'.size)
<1>. SUFFICES ASSUME IInv, WriteInv, IInv', WriteInv', ModifyWrite
              PROVE  InText(wrote'.start, wrote'.size)
  BY Zenon
<1>1. pc = "decide" /\ call # Idle
  BY DEF ModifyWrite, IInv, CallState
<1>2. call.start \in Nat /\ call.size \in Nat \ {0}
  BY <1>1, CallTypes DEF IInv
<1>. DEFINE lo == BundleDown(call.start)
            hi == BundleDown(call.start + call.size - 1 + Bundle)
<1>3. lo \in Nat /\ lo <= call.start /\ hi \in Nat /\ call.start + call.size <= hi
  BY <1>2, BundleBounds, Zenon
<1>4. wrote' = [start |-> lo, size |-> hi - lo]
  BY Zenon DEF ModifyWrite
<1>. HIDE DEF lo, hi
<1>5. wrote'.start \in Nat /\ wrote'.size \in Nat \ {0}
  BY <1>2, <1>3, <1>4
<1>6. wrote' # Nothing
  BY <1>5 DEF Nothing
<1>7. PICK i \in 0 .. num' - 1 :
             /\ regions'[i].start <= wrote'.start
             /\ wrote'.start + wrote'.size <= regions'[i].start + regions'[i].size
  BY <1>6, Zenon DEF WriteInv, ModifyInRegion
<1>8. TextStart <= regions'[i].start /\ regions'[i].start + regions'[i].size <= TextEnd
  BY <1>7, Zenon DEF WriteInv
<1>9. regions'[i].start \in Nat /\ regions'[i].size \in Nat
  BY <1>7 DEF IInv, TypeOK, Range
<1>. QED
  BY <1>5, <1>7, <1>8, <1>9, SameText, DynRegionsAssumption, TextMapCacheAssumption DEF InText

\* What a call does to the cache is then a step of the cache.
LEMMA CacheActs ==
  ASSUME NEW dest \in Nat, NEW n \in Nat, InText(dest, n),
         \/ \E keep \in BOOLEAN : Writes(dest, n, keep)
         \/ MapFails(dest, n)
         \/ CheckFails(dest, n)
         \/ UnmapFails(dest, n)
  PROVE  CacheNext
<1>1. dest \in DynTextStart .. DynTextStart + TextSize - 1 /\ n \in 1 .. TextSize
  BY TextMapCacheAssumption DEF InText
<1>. QED
  BY <1>1, Zenon DEF CacheNext, Writes, MapFails

\* A step of the calls is a step of the table of regions, or leaves it alone.
LEMMA TableActs == [TextNext]_textVars => [Next]_vars
  BY Zenon DEF TextNext, TextInvoke, TextStep, TextQuiet, TextCreate, TextModify,
               TextDelete, TextDies, TextStopped, textVars, Next, Step

\* A step of the calls is a step of the cache, or leaves it alone.
LEMMA CallActs ==
  IInv /\ WriteInv /\ IInv' /\ WriteInv' /\ [TextNext]_textVars => [CacheNext]_cacheVars
<1>. SUFFICES ASSUME IInv, WriteInv, IInv', WriteInv', [TextNext]_textVars
              PROVE  [CacheNext]_cacheVars
  BY Zenon
<1>1. ASSUME CreateInsert \/ DeletePending \/ DeleteRemove
      PROVE  call.start \in Nat /\ call.size \in Nat /\ InText(call.start, call.size)
  <2>1. call # Idle
    BY <1>1 DEF IInv, CallState, CreateInsert, DeletePending, DeleteRemove
  <2>2. call.start \in Nat /\ call.size \in Nat
    BY <2>1, CallTypes DEF IInv
  <2>. QED
    BY <1>1, <2>2, CreateInText, DeleteInText, Zenon
<1>2. ASSUME ModifyWrite
      PROVE  wrote'.start \in Nat /\ wrote'.size \in Nat /\ InText(wrote'.start, wrote'.size)
  <2>1. wrote'.start \in Nat /\ wrote'.size \in Nat
    BY DEF IInv, TypeOK, Range
  <2>. QED
    BY <1>2, <2>1, ModifyInText, Zenon
<1>3. ASSUME NEW c \in Call, TextInvoke(c) PROVE CacheNext
  BY <1>3, Zenon DEF TextInvoke, CacheNext
<1>4. ASSUME TextCreate PROVE CacheNext
  BY <1>1, <1>4, CacheActs, Zenon DEF TextCreate
<1>5. ASSUME TextModify PROVE CacheNext
  BY <1>2, <1>5, CacheActs, Zenon DEF TextModify
<1>6. ASSUME TextDelete PROVE CacheNext
  BY <1>1, <1>6, CacheActs, Zenon DEF TextDelete
<1>7. ASSUME TextDies PROVE CacheNext
  <2>1. CASE CreateInsert \/ DeletePending
    <3>1. call.start \in Nat /\ call.size \in Nat /\ InText(call.start, call.size)
      BY <1>1, <2>1, Zenon
    <3>2. CheckFails(call.start, call.size) \/ UnmapFails(call.start, call.size)
                \/ ModifyWrite
      BY <1>7, Zenon DEF TextDies
    <3>3. ~ModifyWrite
      BY <2>1 DEF CreateInsert, DeletePending, ModifyWrite
    <3>. QED
      BY <3>1, <3>2, <3>3, CacheActs, Zenon
  <2>2. CASE ~(CreateInsert \/ DeletePending)
    BY <1>2, <1>7, <2>2, CacheActs, Zenon DEF TextDies
  <2>. QED
    BY <2>1, <2>2, Zenon
<1>8. ASSUME TextQuiet \/ TextStopped \/ UNCHANGED textVars PROVE UNCHANGED cacheVars
  BY <1>8, Zenon DEF TextQuiet, TextStopped, Stopped, textVars
<1>. QED
  BY <1>3, <1>4, <1>5, <1>6, <1>7, <1>8, Zenon DEF TextNext, TextStep

\* The system calls use the table only through its operations and ask the cache
\* only for bytes of the dynamic text, so what the theorems above say of each holds
\* of the two together.
THEOREM TextComponents == TextSpec => Spec /\ CacheSpec
<1>1. TextInit => Init /\ CacheInit
  BY Zenon DEF TextInit
<1>2. Spec => [](IInv /\ WriteInv)
  <2>1. Init => WriteInv
    BY DEF Init, WriteInv, ModifyInRegion, Nothing
  <2>2. IInv /\ WriteInv /\ [Next]_vars => WriteInv'
    BY WriteStep, Zenon
  <2>. QED
    BY <2>1, <2>2, InitIInv, NextIInv, PTL DEF Spec
<1>3. TextSpec => Spec
  BY <1>1, TableActs, PTL DEF TextSpec, Spec
<1>. QED
  BY <1>1, <1>2, <1>3, CallActs, PTL DEF TextSpec, CacheSpec

=============================================================================
