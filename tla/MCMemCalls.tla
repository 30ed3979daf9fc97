----------------------------- MODULE MCMemCalls -----------------------------
(***************************************************************************)
(* Seven allocation units of two pages: the guard page and the static      *)
(* text, the dynamic text, the read-only data, the data (which ends in the *)
(* middle of a page), two free ones and the stack.  A size_t wraps at 16   *)
(* pages.                                                                  *)
(***************************************************************************)
EXTENDS MemCalls

MCProt == {"none", "r", "rx", "rw"}
\* Below the end of the data, that end, an address in the second free unit, and one
\* beyond the address space.
MCBreakArgs == {11, 13, 21, 28}
\* A length that wraps to zero, a free place above a hint from inside the file or
\* from behind its end on, mappings over two units and over one, inaccessible, and
\* one over the text; lengths are not all multiples of the unit.
MCMapArgs == {[start |-> 0, fixed |-> FALSE, len |-> 15, prot |-> "rw", off |-> 0],
              [start |-> 8, fixed |-> FALSE, len |-> 2, prot |-> "rw", off |-> 2],
              [start |-> 8, fixed |-> TRUE, len |-> 3, prot |-> "rw", off |-> 0],
              [start |-> 10, fixed |-> TRUE, len |-> 1, prot |-> "none", off |-> 0],
              [start |-> 2, fixed |-> TRUE, len |-> 2, prot |-> "rw", off |-> 0]}
MCUnmapArgs == {[start |-> 8, len |-> 2], [start |-> 10, len |-> 1],
                [start |-> 2, len |-> 3]}
\* A file that ends within an allocation unit and one that fills two.
MCFileSizes == {1, 4}
Threads == Permutations(Thread)

\* The order of the array matters only while is_sorted says so: every reader
\* sorts it first.
OrderWhenSorted ==
    <<IF mem_map.is_sorted THEN mem_map ELSE {mem_map.ents[i] : i \in DOMAIN mem_map.ents},
      os, break_addr, refs, open, call, touched, dead>>

=============================================================================
