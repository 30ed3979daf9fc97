-------------------------------- MODULE VmCut --------------------------------
(***************************************************************************)
(* The loop of NaClVmmapUpdate (sel_mem.c), which makes room for a new     *)
(* mapping of the pages p .. p+n-1 in the sorted array of the others.      *)
(*                                                                         *)
(* An entry covers n pages from page on; file and off are its NaClMemObj:  *)
(* the backing file and the page of it shown at the entry's first page, or *)
(* NoFile for anonymous memory.                                            *)
(***************************************************************************)
EXTENDS Integers, Sequences

CONSTANTS Prot, File, NoFile

ASSUME FileAssumption == NoFile \notin File

Entry == [page : Nat, n : Nat \ {0}, prot : Prot, file : File \cup {NoFile},
          off : Nat, removed : BOOLEAN]

End(e) == e.page + e.n

Covers(e, q) == e.page <= q /\ q < End(e)

\* NaClMemObjIncOffset and NaClMemObjCopyCtorOff: anonymous memory has no
\* memory object and no offset.
Advance(e, k) == IF e.file = NoFile THEN e.off ELSE e.off + k

\* What the map says of page q of entry e.
At(e, q) == [prot |-> e.prot, file |-> e.file, off |-> Advance(e, q - e.page)]

\* The conditions of the loop, in the order in which the code tests them.
SplitsEntry(e, p, n) == e.page < p /\ p + n < End(e)
OverlapsEnd(e, p, n) == e.page < p /\ p < End(e)
OverlapsStart(e, p, n) == e.page < p + n /\ p + n < End(e)
CoversEntry(e, p, n) == p <= e.page /\ End(e) <= p + n

\* The two cases that leave the loop.
Breaks(e, p, n) ==
    \/ SplitsEntry(e, p, n)
    \/ ~OverlapsEnd(e, p, n) /\ OverlapsStart(e, p, n)

\* The entries the loop looks at: up to the first one that ends it.
Visited(s, p, n) == {i \in DOMAIN s : \A j \in 1 .. i - 1 : ~Breaks(s[j], p, n)}

\* Mutant: the rest of an entry keeps the offset of the whole.
RestKeepsOffset(e, p, n) == [e EXCEPT !.page = p + n, !.n = End(e) - (p + n)]

\* The part of e behind the new mapping.
Rest(e, p, n) == [e EXCEPT !.page = p + n,
                           !.n = End(e) - (p + n),
                           !.off = Advance(e, p + n - e.page)]

\* Mutant: an entry that reaches into the new mapping is given up as a whole.
TrimDropsFront(e, p, n) ==
    IF OverlapsEnd(e, p, n) THEN [e EXCEPT !.removed = TRUE]
    ELSE IF OverlapsStart(e, p, n) THEN Rest(e, p, n)
    ELSE IF CoversEntry(e, p, n) THEN [e EXCEPT !.removed = TRUE]
    ELSE e

Trim(e, p, n) ==
    IF OverlapsEnd(e, p, n) THEN [e EXCEPT !.n = p - e.page]
    ELSE IF OverlapsStart(e, p, n) THEN Rest(e, p, n)
    ELSE IF CoversEntry(e, p, n) THEN [e EXCEPT !.removed = TRUE]
    ELSE e

Trimmed(s, p, n) ==
    LET seen == Visited(s, p, n)
    IN  [i \in DOMAIN s |-> IF i \in seen THEN Trim(s[i], p, n) ELSE s[i]]

Split(s, p, n) == {i \in Visited(s, p, n) : SplitsEntry(s[i], p, n)}

Pieces(s, p, n) ==
    IF Split(s, p, n) = {} THEN <<>>
    ELSE <<Rest(s[CHOOSE i \in Split(s, p, n) : TRUE], p, n)>>

\* The array after the loop, with entries marked for removal still in it.
Cut(s, p, n) == Trimmed(s, p, n) \o Pieces(s, p, n)

SortedEntries(s) ==
    \A i, j \in DOMAIN s : i < j => End(s[i]) <= s[j].page

\* What the array says of page q: some entry in it maps q as v.
Maps(s, q, v) ==
    \E i \in DOMAIN s : ~s[i].removed /\ Covers(s[i], q) /\ At(s[i], q) = v

Apart(e, f) == End(e) <= f.page \/ End(f) <= e.page

NoneMarked(s) == \A i \in DOMAIN s : ~s[i].removed

=============================================================================
