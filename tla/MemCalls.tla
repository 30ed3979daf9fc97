------------------------------- MODULE MemCalls -------------------------------
(***************************************************************************)
(* The memory system calls of the service runtime: brk, mmap and munmap    *)
(* (nacl_syscall_common.c, linux/nacl_syscall_impl.c) over the memory map  *)
(* of the program (sel_mem.c) and the pages the host really gives it.      *)
(*                                                                         *)
(* Threads race.  What a call reads before it takes nap->mu (the break,    *)
(* the descriptor and the size of its file) is one step, what it does      *)
(* under the lock is another.                                              *)
(*                                                                         *)
(* Pages and lengths count host pages (4K); PagesPerMap of them make an    *)
(* allocation unit (64K); PageBytes addresses fall in a page.  SizeT is    *)
(* the number of pages at which a size_t wraps.                            *)
(***************************************************************************)
EXTENDS VmCut, FiniteSetsExt, SequencesExt, TLC

CONSTANTS
    Thread,
    Pages,          \* number of pages of the address space
    PagesPerMap,
    PageBytes,
    SizeT,
    StaticTextEnd,  \* nap->static_text_end, in pages
    DynTextStart,   \* nap->dynamic_text_start and ...
    TextEnd,        \* ... nap->dynamic_text_end, in pages
    RodataStart,    \* nap->rodata_start, in pages; 0 if there is none
    DataStart,      \* nap->data_start, in pages
    DataEnd,        \* nap->data_end, an address
    StackStart,     \* first page of the stack
    BreakArgs,      \* addresses passed to brk
    MapArgs,        \* [start, fixed, len, prot, off]: aligned start page, MAP_FIXED,
                    \* length, protection and offset passed to mmap
    UnmapArgs,      \* [start, len] of munmap
    FileSizes       \* sizes a file may have, in pages

\* A program with a data segment.
ASSUME LayoutAssumption ==
    /\ 1 < StaticTextEnd /\ StaticTextEnd <= DynTextStart /\ DynTextStart <= TextEnd
    /\ RodataStart # 0 => TextEnd <= RodataStart /\ RodataStart < DataStart
    /\ TextEnd <= DataStart /\ DataStart * PageBytes < DataEnd
    /\ DataEnd < StackStart * PageBytes /\ StackStart < Pages

VARIABLES
    mem_map,        \* nap->mem_map: [ents, is_sorted]
    os,             \* the protection the host gives each page
    break_addr,     \* nap->break_addr
    refs,           \* reference count of each file's descriptor
    open,           \* the descriptors in the table
    call,           \* the call each thread is in
    touched,        \* history: did the program itself unmap or map over pages,
                    \* and pages of its heap?  "no", "elsewhere" or "heap"
    dead            \* NaClLog(LOG_FATAL) ended the process

vars == <<mem_map, os, break_addr, refs, open, call, touched, dead>>

Page == 0 .. Pages - 1
Idle == [fn |-> "none"]
Run(p, n) == p .. p + n - 1

-----------------------------------------------------------------------------
(* The memory map of sel_mem.c. *)

DropMarkedTail(s) ==
    LET keep == {i \in DOMAIN s : ~s[i].removed}
    IN  SubSeq(s, 1, IF keep = {} THEN 0 ELSE Max(keep))

\* Move-end-to-front: a marked entry is overwritten by the last one.
RECURSIVE FillFrom(_, _)
FillFrom(s, i) ==
    IF i >= Len(s) THEN s
    ELSE IF ~s[i].removed THEN FillFrom(s, i + 1)
    ELSE FillFrom(DropMarkedTail([Front(s) EXCEPT ![i] = Last(s)]), i + 1)

RemoveMarked(s) == FillFrom(DropMarkedTail(s), 1)

MakeSorted(m) ==
    IF m.is_sorted THEN m
    ELSE [ents |-> SortSeq(RemoveMarked(m.ents), LAMBDA e, f : e.page < f.page),
          is_sorted |-> TRUE]

NewEntry(p, n, prot, f, o) ==
    [page |-> p, n |-> n, prot |-> prot, file |-> f, off |-> o, removed |-> FALSE]

Update(m, p, n, prot, f, o, remove) ==
    LET cut == Cut(MakeSorted(m).ents, p, n)
    IN  [ents |-> RemoveMarked(IF remove THEN cut
                               ELSE Append(cut, NewEntry(p, n, prot, f, o))),
         is_sorted |-> FALSE]

\* Mutant: splitting an entry shares its memory object.
RefsOfUpdateSharing(m, p, n, g, remove, f) ==
    LET cut == Cut(MakeSorted(m).ents, p, n)
    IN  (IF ~remove /\ g = f THEN 1 ELSE 0)
        - Cardinality({i \in DOMAIN cut : cut[i].removed /\ cut[i].file = f})

\* References to f's descriptor that the update takes (NaClMemObjMake for the
\* new entry, NaClMemObjSplit for a split one) less those it drops
\* (NaClVmmapEntryFree of the marked entries).
RefsOfUpdate(m, p, n, g, remove, f) ==
    LET s == MakeSorted(m).ents
        pieces == Pieces(s, p, n)
        cut == Cut(s, p, n)
    IN  (IF ~remove /\ g = f THEN 1 ELSE 0)
        + Cardinality({i \in DOMAIN pieces : pieces[i].file = f})
        - Cardinality({i \in DOMAIN cut : cut[i].removed /\ cut[i].file = f})

FindPage(s, q) == {i \in DOMAIN s : Covers(s[i], q)}

\* What the array s says of page q.
PageIn(s, q) ==
    LET holders == FindPage(s, q)
    IN  IF holders = {} THEN [prot |-> "none", file |-> NoFile, off |-> -1]
        ELSE At(s[CHOOSE i \in holders : TRUE], q)

RoundUp(n) == ((n + PagesPerMap - 1) \div PagesPerMap) * PagesPerMap
TruncDown(n) == (n \div PagesPerMap) * PagesPerMap

\* The gap below entry i, in whole allocation units.
GapStart(s, i) == RoundUp(End(s[i - 1]))
GapEnd(s, i) == TruncDown(s[i].page)
Gaps(s) == {i \in 2 .. Len(s) : GapEnd(s, i) > GapStart(s, i)}

FindMapSpace(s, n) ==
    LET fit == {i \in Gaps(s) : GapEnd(s, i) - GapStart(s, i) >= RoundUp(n)}
    IN  IF fit = {} THEN 0 ELSE GapEnd(s, Max(fit)) - RoundUp(n)

\* Mutant: the size of the gap is measured from its start, not from the hint.
AboveHintWide(s, hint, n) ==
    LET from(i) == IF GapStart(s, i) <= hint /\ hint < GapEnd(s, i) THEN hint ELSE GapStart(s, i)
        fit == {i \in Gaps(s) : hint <= from(i) /\ GapEnd(s, i) - GapStart(s, i) >= RoundUp(n)}
    IN  IF fit = {} THEN 0 ELSE from(Min(fit))

FindMapSpaceAboveHint(s, hint, n) ==
    LET from(i) == IF GapStart(s, i) <= hint /\ hint < GapEnd(s, i) THEN hint ELSE GapStart(s, i)
        fit == {i \in Gaps(s) : hint <= from(i) /\ GapEnd(s, i) - from(i) >= RoundUp(n)}
    IN  IF fit = {} THEN 0 ELSE from(Min(fit))

-----------------------------------------------------------------------------
(* Start-up: NaClMemoryProtection records the guard page, the trampolines    *)
(* and static text, the dynamic text, the read-only data up to the end of the *)
(* allocation unit in which the data starts, the data up to the end of its    *)
(* allocation unit, and the stack.  The shared memory behind the dynamic text *)
(* is not a file of the program.                                              *)

DataPageEnd == (DataEnd + PageBytes - 1) \div PageBytes

InitialEntries ==
    LET rodata == IF RodataStart = 0 THEN 0 ELSE RoundUp(DataStart) - RodataStart
    IN  SelectSeq(
          <<NewEntry(0, 1, "none", NoFile, 0),
            NewEntry(1, StaticTextEnd - 1, "rx", NoFile, 0),
            NewEntry(DynTextStart, TextEnd - DynTextStart, "rx", NoFile, 0),
            NewEntry(RodataStart, rodata, "r", NoFile, 0),
            NewEntry(DataStart, RoundUp(DataPageEnd) - DataStart, "rw", NoFile, 0),
            NewEntry(StackStart, Pages - StackStart, "rw", NoFile, 0)>>,
          LAMBDA e : e.n > 0)

Init ==
    /\ mem_map = [ents |-> InitialEntries, is_sorted |-> FALSE]
    /\ os = [q \in Page |-> PageIn(InitialEntries, q).prot]
    /\ break_addr = DataEnd
    /\ refs = [f \in File |-> 1]
    /\ open = File
    /\ call = [t \in Thread |-> Idle]
    /\ touched = "no"
    /\ dead = FALSE

-----------------------------------------------------------------------------
(* brk *)

LastPage(a) == (a - 1) \div PageBytes

HeapPages == DataStart .. LastPage(break_addr)

Touch(p, n) ==
    IF touched = "heap" \/ Run(p, n) \cap HeapPages # {} THEN "heap" ELSE "elsewhere"

\* NaClSetBreak reads nap->break_addr before it takes nap->mu.
BreakEnter(t) ==
    /\ call[t] = Idle
    /\ call' = [call EXCEPT ![t] = [fn |-> "brk", seen |-> break_addr]]
    /\ UNCHANGED <<mem_map, os, break_addr, refs, open, touched, dead>>

\* The last page of the allocation unit that the new break falls in.
LastInternalPage(a) == RoundUp(LastPage(a) + 1) - 1

\* The entry that holds the last page of the heap.
BreakEntry(s) == CHOOSE i \in DOMAIN s : Covers(s[i], LastPage(break_addr))

\* Mutants: no look at the next entry, and an off-by-one.
OutcomeBlind(s, a) ==
    IF a = 0 \/ a >= Pages * PageBytes \/ a < DataEnd THEN "refused"
    ELSE IF a <= break_addr THEN "freed"
    ELSE IF FindPage(s, LastPage(break_addr)) = {} THEN "fatal"
    ELSE IF LastPage(a) < End(s[BreakEntry(s)]) THEN "bumped"
    ELSE "extended"

OutcomeOffByOne(s, a) ==
    IF a = 0 \/ a >= Pages * PageBytes \/ a < DataEnd THEN "refused"
    ELSE IF a <= break_addr THEN "freed"
    ELSE IF FindPage(s, LastPage(break_addr)) = {} THEN "fatal"
    ELSE IF LastPage(a) <= End(s[BreakEntry(s)]) THEN "bumped"
    ELSE IF \E j \in DOMAIN s : j = BreakEntry(s) + 1 /\ s[j].page <= LastInternalPage(a)
    THEN "runs into next"
    ELSE "extended"

\* What NaClSetBreak does, under nap->mu, with a request for address a; s is the
\* sorted map.
BreakOutcome(s, a) ==
    IF a = 0 \/ a >= Pages * PageBytes \/ a < DataEnd THEN "refused"
    ELSE IF a <= break_addr THEN "freed"
    ELSE IF FindPage(s, LastPage(break_addr)) = {} THEN "fatal"
    ELSE IF LastPage(a) < End(s[BreakEntry(s)]) THEN "bumped"
    ELSE IF \E j \in DOMAIN s : j = BreakEntry(s) + 1 /\ s[j].page <= LastInternalPage(a)
    THEN "runs into next"
    ELSE "extended"

\* Mutant: a smaller break gives the pages above it back to the map.
SetBreakReleases(t, a) ==
    \E m \in {MakeSorted(mem_map)} :
    \E outcome \in {BreakOutcome(m.ents, a)} :
    LET i == BreakEntry(m.ents)
        grown == End(m.ents[i]) .. LastInternalPage(a)
    IN
    /\ call[t].fn = "brk"
    /\ call' = [call EXCEPT ![t] = Idle]
    /\ break_addr' = IF outcome \in {"freed", "bumped", "extended"} THEN a ELSE break_addr
    /\ mem_map' = CASE outcome = "refused" -> mem_map
                    [] outcome = "freed" /\ touched = "no" ->
                         [m EXCEPT !.ents[i].n = LastInternalPage(a) - m.ents[i].page + 1]
                    [] outcome = "extended" ->
                         [m EXCEPT !.ents[i].n = LastInternalPage(a) - m.ents[i].page + 1]
                    [] OTHER -> m
    /\ os' = IF outcome = "extended"
             THEN [q \in Page |-> IF q \in grown THEN "rw" ELSE os[q]]
             ELSE os
    /\ dead' = (outcome = "fatal")
    /\ UNCHANGED <<refs, open, touched>>

\* A call that does not move the break returns the value it saw on entry.
SetBreak(t, a) ==
    \E m \in {MakeSorted(mem_map)} :
    \E outcome \in {BreakOutcome(m.ents, a)} :
    LET i == BreakEntry(m.ents)
        grown == End(m.ents[i]) .. LastInternalPage(a)
    IN
    /\ call[t].fn = "brk"
    /\ call' = [call EXCEPT ![t] = Idle]
    /\ break_addr' = IF outcome \in {"freed", "bumped", "extended"} THEN a ELSE break_addr
    /\ mem_map' = CASE outcome \in {"refused", "freed"} -> mem_map
                    [] outcome = "extended" ->
                         [m EXCEPT !.ents[i].n = LastInternalPage(a) - m.ents[i].page + 1]
                    [] OTHER -> m
    /\ os' = IF outcome = "extended"
             THEN [q \in Page |-> IF q \in grown THEN "rw" ELSE os[q]]
             ELSE os
    /\ dead' = (outcome = "fatal")
    /\ UNCHANGED <<refs, open, touched>>

-----------------------------------------------------------------------------
(* mmap *)

\* NaClGetDesc and Fstat of a file mapping, before nap->mu is taken.  The file
\* may have any size by then, and another thread may change it later.
MmapEnter(t, f, size) ==
    /\ call[t] = Idle
    /\ f \in open
    /\ refs' = [refs EXCEPT ![f] = @ + 1]
    /\ call' = [call EXCEPT ![t] = [fn |-> "mmap", file |-> f, size |-> size]]
    /\ UNCHANGED <<mem_map, os, break_addr, open, touched, dead>>

AllocRounded(n) == RoundUp(n) % SizeT

\* Where a mapping of n pages goes: at start with MAP_FIXED, else in a gap.
Place(s, start, fixed, n) ==
    LET hinted == FindMapSpaceAboveHint(s, start, n)
    IN  CASE fixed -> start
          [] ~fixed /\ start # 0 /\ hinted # 0 -> hinted
          [] OTHER -> FindMapSpace(s, n)

\* Mutant: the text is not kept from the program.
AllowedAnywhere(p, n) == p < Pages /\ p + n <= Pages

Allowed(p, n) ==
    /\ p < Pages
    /\ p + n <= Pages
    /\ p >= TextEnd

\* Apply a sequence of updates [p, n, prot, file, off] of the memory map, the
\* empty ones left out, counting the references to each file.
RECURSIVE Updates(_, _, _)
Updates(m, rc, us) ==
    IF us = <<>> THEN [map |-> m, refs |-> rc]
    ELSE LET u == Head(us)
         IN  IF u.n = 0 THEN Updates(m, rc, Tail(us))
             ELSE Updates(Update(m, u.p, u.n, u.prot, u.file, u.off, FALSE),
                          [f \in File |-> rc[f] + RefsOfUpdate(m, u.p, u.n, u.file, FALSE, f)],
                          Tail(us))

\* The three parts of a mapping of n pages from p on of a file (or of anonymous
\* memory, whose size is the sentinel kMaxUsableFileSize) from page o on.
Parts(p, n, prot, f, o, size) ==
    LET length == IF f = NoFile THEN n ELSE Min({n, size - o})
        inaccessible == IF f = NoFile THEN n ELSE Min({n, RoundUp(size - o)})
        back == IF prot = "none" THEN NoFile ELSE f
    IN  <<[p |-> p, n |-> length, prot |-> prot, file |-> back,
           off |-> IF back = NoFile THEN 0 ELSE o],
          [p |-> p + length, n |-> inaccessible - length, prot |-> prot,
           file |-> NoFile, off |-> 0],
          [p |-> p + inaccessible, n |-> n - inaccessible, prot |-> "none",
           file |-> NoFile, off |-> 0]>>

\* A call is refused early for its length or offset.  It is refused late, when a
\* free place has been searched for and the array is sorted: for want of a place,
\* for a place that is not allowed, or for its flags, which are left open here (not
\* exactly one of MAP_SHARED and MAP_PRIVATE).
\* NaClHostDescMap puts the first part at its place (MAP_FIXED).  It is called
\* without MAP_FIXED for the other two, whose place in the program's address
\* space is never free: the host maps pages elsewhere and the place keeps what
\* it had.  Creating the zero-filled pages may fail.
MmapRest(f, size, start, fixed, len, prot, o, zeroOk) ==
    \E searched \in {IF fixed THEN mem_map ELSE MakeSorted(mem_map)}, n \in {AllocRounded(len)} :
    \E p \in {Place(searched.ents, start, fixed, n)} :
    \E parts \in {Parts(p, n, prot, f, o, size)} :
    LET valid == len # 0 /\ (f # NoFile => size >= o)
        placed == (~fixed => p # 0) /\ Allowed(p, n)
        done == IF zeroOk THEN parts ELSE SubSeq(parts, 1, 1)
        Drop(rc) == IF f = NoFile THEN rc ELSE [rc EXCEPT ![f] = @ - 1]
    IN
    /\ UNCHANGED <<break_addr, open, dead>>
    /\ \/ /\ ~valid /\ zeroOk
          /\ refs' = Drop(refs)
          /\ UNCHANGED <<mem_map, os, touched>>
       \/ /\ valid /\ zeroOk
          /\ mem_map' = searched
          /\ refs' = Drop(refs)
          /\ UNCHANGED <<os, touched>>
       \/ /\ valid /\ placed
          /\ ~zeroOk => parts[2].n > 0
          /\ \E up \in {Updates(searched, refs, done)} :
                mem_map' = up.map /\ refs' = Drop(up.refs)
          /\ os' = [q \in Page |-> IF q \in Run(p, parts[1].n) THEN prot ELSE os[q]]
          /\ touched' = IF fixed THEN Touch(p, n) ELSE touched

MmapFile(t, start, fixed, len, prot, o, zeroOk) ==
    /\ call[t].fn = "mmap"
    /\ call' = [call EXCEPT ![t] = Idle]
    /\ MmapRest(call[t].file, call[t].size, start, fixed, len, prot, o, zeroOk)

MmapAnon(start, fixed, len, prot) ==
    /\ \E t \in Thread : call[t] = Idle
    /\ UNCHANGED call
    /\ MmapRest(NoFile, 0, start, fixed, len, prot, 0, TRUE)

-----------------------------------------------------------------------------
(* munmap, close and open *)

Munmap(start, len) ==
    LET n == AllocRounded(len)
    IN
    /\ \E t \in Thread : call[t] = Idle
    /\ n # 0 /\ start # 0
    /\ start + n < Pages
    /\ start >= TextEnd
    /\ os' = [q \in Page |-> IF q \in Run(start, n) THEN "none" ELSE os[q]]
    /\ mem_map' = Update(mem_map, start, n, "none", NoFile, 0, TRUE)
    /\ refs' = [f \in File |-> refs[f] + RefsOfUpdate(mem_map, start, n, NoFile, TRUE, f)]
    /\ touched' = Touch(start, n)
    /\ UNCHANGED <<break_addr, open, call, dead>>

Close(f) ==
    /\ f \in open
    /\ open' = open \ {f}
    /\ refs' = [refs EXCEPT ![f] = @ - 1]
    /\ UNCHANGED <<mem_map, os, break_addr, call, touched, dead>>

\* A new descriptor, under the name of one that is gone.
Open(f) ==
    /\ refs[f] = 0
    /\ open' = open \cup {f}
    /\ refs' = [refs EXCEPT ![f] = 1]
    /\ UNCHANGED <<mem_map, os, break_addr, call, touched, dead>>

-----------------------------------------------------------------------------

Next ==
    /\ ~dead
    /\ \/ \E t \in Thread :
            \/ BreakEnter(t)
            \/ \E a \in BreakArgs : SetBreak(t, a)
            \/ \E f \in File, size \in FileSizes : MmapEnter(t, f, size)
            \/ \E m \in MapArgs, zeroOk \in BOOLEAN :
                  MmapFile(t, m.start, m.fixed, m.len, m.prot, m.off, zeroOk)
       \/ \E m \in MapArgs : MmapAnon(m.start, m.fixed, m.len, m.prot)
       \/ \E u \in UnmapArgs : Munmap(u.start, u.len)
       \/ \E f \in File : Close(f) \/ Open(f)

Spec == Init /\ [][Next]_vars

-----------------------------------------------------------------------------
(* Properties *)

Ents == mem_map.ents

MappedAt(q) == FindPage(Ents, q) # {}

TypeOK ==
    /\ Ents \in Seq(Entry) /\ mem_map.is_sorted \in BOOLEAN
    /\ \A i \in DOMAIN Ents : End(Ents[i]) <= Pages
    /\ os \in [Page -> Prot]
    /\ break_addr \in DataEnd .. Pages * PageBytes - 1
    /\ refs \in [File -> Nat] /\ open \subseteq File
    /\ touched \in {"no", "elsewhere", "heap"} /\ dead \in BOOLEAN

\* NaClVmmapUpdate and the break's growth keep every page in at most one entry,
\* leave no entry marked, and is_sorted is only set on a sorted array: the
\* binary search of NaClVmmapFindPage relies on it.
EntriesApart ==
    /\ \A i, j \in DOMAIN Ents : i # j => Apart(Ents[i], Ents[j])
    /\ NoneMarked(Ents)
    /\ mem_map.is_sorted => SortedEntries(Ents)

\* The map implements a function from pages to mappings: every system call changes
\* one range of allocation units above the text as it should and no other page,
\* also where NaClVmmapUpdate splits, trims and replaces several entries.
PagesOf == LET s == Ents IN [q \in Page |-> PageIn(s, q)]
Abstract == INSTANCE PageMap WITH pages <- PagesOf, Offset <- 0 .. Pages
MapImplementsPages == Abstract!Spec

\* No call of the program changes a text page: in the map and at the host it stays
\* as NaClMemoryProtection left it, also when mmap and munmap are called with an
\* address in the text.  And the host gives the program no access to a page that
\* the map does not hold.
HostConfined ==
    /\ \A q \in 0 .. TextEnd - 1 :
          /\ PageIn(Ents, q) = PageIn(InitialEntries, q)
          /\ os[q] = PageIn(InitialEntries, q).prot
    /\ \A q \in Page : ~MappedAt(q) => os[q] = "none"

\* A file descriptor lives exactly as long as the table, a mapping or a call that
\* is still mapping it needs it: splitting, trimming and replacing entries
\* neither leaks a reference nor drops one twice.
RefsExact ==
    \A f \in File :
        refs[f] = (IF f \in open THEN 1 ELSE 0)
                  + Cardinality({i \in DOMAIN Ents : Ents[i].file = f})
                  + Cardinality({t \in Thread : call[t].fn = "mmap" /\ call[t].file = f})

\* Every page below the break is mapped and writable, whatever racing calls did,
\* unless the program itself mapped over the heap or unmapped a page of it.
HeapBacked ==
    touched # "heap" => \A q \in HeapPages : MappedAt(q) /\ os[q] = "rw"

\* The process dies of a growing break only when the program took pages of
\* its heap away itself.
DiesOnlyByUnmapping == dead => touched = "heap"

\* A brk that returns what it was asked for has moved the break there.  A failing
\* call returns the break it saw on entry, so a request for that very address
\* must not fail, whatever other threads did to the break since; it cannot, as
\* long as the program neither unmaps pages nor maps over them.
BreakHonest ==
    \A t \in Thread : call[t].fn = "brk" /\ touched = "no" =>
        BreakOutcome(MakeSorted(mem_map).ents, call[t].seen) \in {"freed", "bumped", "extended"}

\* Where mmap without MAP_FIXED would put a mapping, nothing is mapped, the range
\* is inside the address space and above the text, and the hint is honoured
\* when its own pages are free.
PlacementFresh ==
    LET s == MakeSorted(mem_map).ents
    IN  \A len \in {m.len : m \in MapArgs}, start \in {p \in Page : p % PagesPerMap = 0} :
          LET n == AllocRounded(len)
              p == Place(s, start, FALSE, n)
          IN  p # 0 =>
                /\ Allowed(p, n)
                /\ \A q \in Run(p, n) : ~MappedAt(q)
                /\ (start >= TextEnd /\ n > 0 /\ \A q \in Run(start, n) : q \in Page /\ ~MappedAt(q))
                     => p = start

=============================================================================
