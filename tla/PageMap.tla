------------------------------- MODULE PageMap -------------------------------
(***************************************************************************)
(* What the memory map of an untrusted program promises: a function from   *)
(* pages to mappings.  Programs change whole allocation units above the    *)
(* text, and a system call changes one contiguous range and nothing else.  *)
(***************************************************************************)
EXTENDS Integers, FiniteSets

CONSTANTS Page, TextEnd, PagesPerMap, Prot, File, NoFile, Offset

VARIABLE pages

Unmapped == [prot |-> "none", file |-> NoFile, off |-> -1]

Mapping == [prot : Prot, file : File \cup {NoFile}, off : Offset] \cup {Unmapped}

UnitStart(p) == p % PagesPerMap = 0 /\ p >= TextEnd

Anon(prot) == [prot |-> prot, file |-> NoFile, off |-> 0]

\* What mapping v shows k pages further on.
Later(v, k) == IF v.file = NoFile THEN v ELSE [v EXCEPT !.off = @ + k]

Init == pages \in [Page -> Mapping]

\* A mapping of n pages from p on: the first a of them show one file, or
\* anonymous memory, from some page of it on; the pages up to b are anonymous and
\* have the same protection; the rest is inaccessible.
Map(new, p, n, a, b) ==
    /\ UnitStart(p)
    /\ \A q \in p .. p + a - 1 : new[q] = Later(new[p], q - p)
    /\ \E prot \in Prot \ {"rx"} :
         /\ a > 0 => new[p] # Unmapped /\ new[p].prot = prot
         /\ \A q \in p + a .. p + b - 1 : new[q] = Anon(prot)
    /\ \A q \in p + b .. p + n - 1 : new[q] = Anon("none")

Unmap(new, p, n) ==
    /\ UnitStart(p)
    /\ \A q \in p .. p + n - 1 : new[q] = Unmapped

\* The heap grows over unmapped pages only, to the end of an allocation unit.
Grow(old, new, p, n) ==
    /\ (p + n) % PagesPerMap = 0 /\ p > TextEnd
    /\ old[p - 1] # Unmapped
    /\ \A q \in p .. p + n - 1 :
          /\ old[q] = Unmapped
          /\ new[q] = Later(old[p - 1], q - (p - 1))

\* One system call: a relation between the pages before and after it.
Step(old, new) ==
    /\ new # old
    /\ new \in [Page -> Mapping]
    /\ LET changed == {q \in Page : new[q] # old[q]}
       IN  \E p \in Page, n \in 1 .. Cardinality(Page) :
             /\ changed \subseteq p .. p + n - 1
             /\ p .. p + n - 1 \subseteq Page
             /\ \/ Unmap(new, p, n)
                \/ Grow(old, new, p, n)
                \/ \E a, b \in 0 .. n : a <= b /\ Map(new, p, n, a, b)

Next == \E old \in {pages}, new \in {pages'} : Step(old, new)

Spec == Init /\ [][Next]_pages

=============================================================================
