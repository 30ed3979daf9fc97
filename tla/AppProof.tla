---------------------------- MODULE AppProof ----------------------------
(***************************************************************************)
(* Proofs about the cutting of the memory map (VmCut), the life of the     *)
(* application (AppLife) and the threads of the library (NcThread).        *)
(***************************************************************************)
EXTENDS AppLife, VmCut, NcThread, TLAPS

-----------------------------------------------------------------------------
(* VmCut: the memory map. *)

\* The array as NaClVmmapMakeSorted leaves it.
Array(s) == s \in Seq(Entry) /\ SortedEntries(s) /\ NoneMarked(s)

\* The fields of the part of an entry behind the new range.
LEMMA RestFields ==
  ASSUME NEW e \in Entry, NEW p \in Nat, NEW n \in Nat \ {0},
         OverlapsStart(e, p, n)
  PROVE  LET r == Rest(e, p, n)
         IN  /\ r \in Entry
             /\ r.page = p + n
             /\ End(r) = End(e)
             /\ r.removed = e.removed
             /\ r.prot = e.prot
             /\ r.file = e.file
             /\ r.off = Advance(e, p + n - e.page)
  <1>1. Advance(e, p + n - e.page) \in Nat
    BY DEF Advance, Entry, OverlapsStart
  <1>2. End(e) - (p + n) \in Nat \ {0}
    BY DEF Entry, End, OverlapsStart
  <1>3. p + n \in Nat /\ e.page \in Nat /\ e.n \in Nat
    BY DEF Entry
  <1> DEFINE r == Rest(e, p, n)
  <1>4. r = [e EXCEPT !.page = p + n, !.n = End(e) - (p + n),
                      !.off = Advance(e, p + n - e.page)]
    BY Zenon DEF Rest
  <1>5. /\ r \in Entry
        /\ r.page = p + n
        /\ r.n = End(e) - (p + n)
        /\ r.removed = e.removed
        /\ r.prot = e.prot
        /\ r.file = e.file
        /\ r.off = Advance(e, p + n - e.page)
    <2> HIDE DEF r
    <2> QED
      BY <1>1, <1>2, <1>3, <1>4, Zenon DEF Entry
  <1>6. End(r) = End(e)
      BY <1>3, <1>5 DEF End
  <1> QED
    BY <1>5, <1>6, Zenon

\* The fields of a trimmed entry, case by case.
LEMMA TrimFields ==
  ASSUME NEW e \in Entry, NEW p \in Nat, NEW n \in Nat \ {0}
  PROVE  LET t == Trim(e, p, n)
         IN  /\ t \in Entry
             /\ t.prot = e.prot
             /\ t.file = e.file
             /\ OverlapsEnd(e, p, n) =>
                  /\ t.page = e.page
                  /\ End(t) = p
                  /\ t.off = e.off
                  /\ t.removed = e.removed
             /\ ~OverlapsEnd(e, p, n) /\ OverlapsStart(e, p, n) =>
                  t = Rest(e, p, n)
             /\ ~OverlapsEnd(e, p, n) /\ ~OverlapsStart(e, p, n) =>
                  /\ t.page = e.page
                  /\ End(t) = End(e)
                  /\ t.off = e.off
                  /\ (t.removed <=> e.removed \/ CoversEntry(e, p, n))
  <1>1. CASE OverlapsEnd(e, p, n)
      BY <1>1 DEF Trim, OverlapsEnd, Entry, End
  <1>2. CASE ~OverlapsEnd(e, p, n) /\ OverlapsStart(e, p, n)
      BY <1>2, RestFields, Zenon DEF Trim
  <1>3. CASE ~OverlapsEnd(e, p, n) /\ ~OverlapsStart(e, p, n) /\ CoversEntry(e, p, n)
    <2>1. Trim(e, p, n) = [e EXCEPT !.removed = TRUE]
      BY <1>3, Zenon DEF Trim
    <2> QED
      BY <1>3, <2>1, Zenon DEF Entry, End
  <1>4. CASE ~OverlapsEnd(e, p, n) /\ ~OverlapsStart(e, p, n) /\ ~CoversEntry(e, p, n)
      BY <1>4, Zenon DEF Trim, Entry
  <1> QED
    BY <1>1, <1>2, <1>3, <1>4, Zenon

\* Entry e is in the map and says v of page q.
Shows(e, q, v) == ~e.removed /\ Covers(e, q) /\ At(e, q) = v

\* Both parts of a trimmed entry keep what it mapped, and only the pages in the
\* new range are lost.
LEMMA TrimPages ==
  ASSUME NEW e \in Entry, ~e.removed, NEW p \in Nat, NEW n \in Nat \ {0},
         NEW q \in Nat, NEW v
  PROVE  LET t == Trim(e, p, n)
             r == Rest(e, p, n)
         IN  /\ ~SplitsEntry(e, p, n) =>
                  (Shows(t, q, v) <=> Shows(e, q, v) /\ ~(p <= q /\ q < p + n))
             /\ SplitsEntry(e, p, n) =>
                  /\ Shows(t, q, v) <=> Shows(e, q, v) /\ q < p
                  /\ Shows(r, q, v) <=> Shows(e, q, v) /\ p + n <= q
  <1> DEFINE t == Trim(e, p, n)
             r == Rest(e, p, n)
  <1>1. e.page \in Nat /\ e.n \in Nat \ {0} /\ e.off \in Nat /\ End(e) \in Nat
        /\ End(e) > e.page
    BY DEF Entry, End
  <1>2. SplitsEntry(e, p, n) => OverlapsEnd(e, p, n) /\ OverlapsStart(e, p, n)
    BY <1>1 DEF SplitsEntry, OverlapsEnd, OverlapsStart
  <1>3. OverlapsStart(e, p, n) =>
          (Shows(r, q, v) <=> Shows(e, q, v) /\ p + n <= q)
      BY RestFields, <1>1 DEF Advance, Shows, At, Covers, OverlapsStart
  <1>4. OverlapsEnd(e, p, n) => (Shows(t, q, v) <=> Shows(e, q, v) /\ q < p)
    <2>1. OverlapsEnd(e, p, n) =>
            /\ t.page = e.page /\ End(t) = p /\ t.off = e.off /\ ~t.removed
            /\ t.prot = e.prot /\ t.file = e.file
      BY TrimFields
    <2> HIDE DEF t
    <2> QED
      BY <1>1, <2>1 DEF Shows, At, Advance, Covers, OverlapsEnd
  <1>5. ~OverlapsEnd(e, p, n) /\ ~OverlapsStart(e, p, n) =>
          (Shows(t, q, v) <=> Shows(e, q, v) /\ ~(p <= q /\ q < p + n))
    <2>1. ~OverlapsEnd(e, p, n) /\ ~OverlapsStart(e, p, n) =>
            /\ t.page = e.page /\ End(t) = End(e) /\ t.off = e.off
            /\ t.prot = e.prot /\ t.file = e.file
            /\ (t.removed <=> CoversEntry(e, p, n))
      BY TrimFields
    <2> HIDE DEF t
    <2> QED
      BY <1>1, <2>1 DEF Shows, At, Advance, Covers, CoversEntry, OverlapsEnd, OverlapsStart
  <1>6. /\ ~OverlapsEnd(e, p, n) /\ OverlapsStart(e, p, n) => t = r
        /\ Shows(e, q, v) => e.page <= q /\ q < End(e)
    BY TrimFields DEF Shows, Covers
  <1> HIDE DEF t, r
  <1> QED
    BY <1>1, <1>2, <1>3, <1>4, <1>5, <1>6 DEF SplitsEntry, OverlapsEnd, OverlapsStart, t, r

\* Leaving the loop early loses nothing: behind the entry that ends it no entry
\* meets the new range, so the loop does what a full pass would do.
LEMMA EarlyBreak ==
  ASSUME NEW s, Array(s), NEW p \in Nat, NEW n \in Nat \ {0}, NEW i \in DOMAIN s,
         i \notin Visited(s, p, n)
  PROVE  Trim(s[i], p, n) = s[i] /\ ~SplitsEntry(s[i], p, n)
  <1>1. PICK j \in 1 .. i - 1 : Breaks(s[j], p, n)
    BY Zenon DEF Visited
  <1>2. i \in Nat /\ DOMAIN s = 1 .. Len(s) /\ Len(s) \in Nat
    BY DEF Array
  <1>3. j \in DOMAIN s /\ j < i
    BY <1>2
  <1>4. s[i] \in Entry /\ s[j] \in Entry
    BY <1>3 DEF Array
  <1>5. End(s[j]) <= s[i].page
    BY <1>3, Zenon DEF Array, SortedEntries
  <1>6. End(s[j]) > p + n /\ End(s[j]) \in Nat
    BY <1>1, <1>4 DEF Breaks, SplitsEntry, OverlapsStart, End, Entry
  <1>7. s[i].page \in Nat /\ s[i].n \in Nat \ {0} /\ p + n <= s[i].page /\ End(s[i]) > p + n
    BY <1>4, <1>5, <1>6 DEF Entry, End
  <1>8. /\ ~OverlapsEnd(s[i], p, n)
        /\ ~OverlapsStart(s[i], p, n)
        /\ ~CoversEntry(s[i], p, n)
        /\ ~SplitsEntry(s[i], p, n)
      BY <1>7 DEF End, Entry, OverlapsEnd, OverlapsStart, CoversEntry, SplitsEntry
  <1> QED
    BY <1>8, Zenon DEF Trim

\* The folds of the loop are one test per entry.
LEMMA TrimmedIs ==
  ASSUME NEW s, Array(s), NEW p \in Nat, NEW n \in Nat \ {0}
  PROVE  /\ Trimmed(s, p, n) = [i \in DOMAIN s |-> Trim(s[i], p, n)]
         /\ Split(s, p, n) = {i \in DOMAIN s : SplitsEntry(s[i], p, n)}
  BY EarlyBreak DEF Trimmed, Split, Visited

\* An entry begins and ends at pages.
LEMMA EntryEnds ==
  ASSUME NEW e \in Entry
  PROVE  e.page \in Nat /\ End(e) \in Nat
  BY DEF Entry, End

\* At most one entry contains the new range and something on both sides of it.
LEMMA OneSplit ==
  ASSUME NEW s, Array(s), NEW p \in Nat, NEW n \in Nat \ {0},
         NEW i \in DOMAIN s, NEW j \in DOMAIN s,
         SplitsEntry(s[i], p, n), s[j].page < p + n, p < End(s[j])
  PROVE  i = j
  <1> DOMAIN s = 1 .. Len(s) /\ Len(s) \in Nat /\ i \in Nat /\ j \in Nat
    BY DEF Array
  <1>1. s[i] \in Entry /\ s[j] \in Entry
    BY DEF Array
  <1>2. End(s[i]) \in Nat /\ End(s[j]) \in Nat /\ s[i].page \in Nat /\ s[j].page \in Nat
    BY <1>1, EntryEnds, Zenon
  <1>3. ~(i < j)
      BY <1>2 DEF Array, SortedEntries, SplitsEntry
  <1>4. ~(j < i)
      BY <1>2 DEF Array, SortedEntries, SplitsEntry
  <1> QED
    BY <1>3, <1>4

\* The elements of the array after the loop.
LEMMA CutElements ==
  ASSUME NEW s, Array(s), NEW p \in Nat, NEW n \in Nat \ {0}
  PROVE  LET c == Cut(s, p, n)
         IN  /\ DOMAIN s \subseteq DOMAIN c
             /\ \A i \in DOMAIN s : c[i] = Trim(s[i], p, n)
             /\ \A i \in DOMAIN c \ DOMAIN s :
                  \E j \in DOMAIN s : SplitsEntry(s[j], p, n) /\ c[i] = Rest(s[j], p, n)
             /\ \A j \in DOMAIN s : SplitsEntry(s[j], p, n) =>
                  \E i \in DOMAIN c \ DOMAIN s : c[i] = Rest(s[j], p, n)
             /\ \A i, j \in DOMAIN c \ DOMAIN s : i = j
  <1> DEFINE c == Cut(s, p, n)
             t == Trimmed(s, p, n)
             k == CHOOSE i \in Split(s, p, n) : TRUE
  <1>1. s \in Seq(Entry) /\ Len(s) \in Nat /\ DOMAIN s = 1 .. Len(s)
    BY DEF Array
  <1>2. /\ t = [i \in 1 .. Len(s) |-> Trim(s[i], p, n)]
        /\ Split(s, p, n) = {i \in DOMAIN s : SplitsEntry(s[i], p, n)}
    BY <1>1, TrimmedIs
  <1>3. t \in Seq(Entry) /\ Len(t) = Len(s)
      BY <1>1, TrimFields, <1>2
  <1>4. c = t \o IF Split(s, p, n) = {} THEN <<>> ELSE <<Rest(s[k], p, n)>>
    BY Zenon DEF Cut, Pieces
  <1>5. Split(s, p, n) # {} => k \in Split(s, p, n)
    BY Zenon
  <1> HIDE DEF c, t, k
  <1>6. CASE Split(s, p, n) = {}
      BY <1>4, <1>6, <1>2 DEF c
  <1>7. CASE Split(s, p, n) # {}
    <2>1. k \in DOMAIN s /\ SplitsEntry(s[k], p, n)
      BY <1>2, <1>5, <1>7, Zenon
    <2>2. \A j \in DOMAIN s : s[j] \in Entry
      BY <1>1
    <2>3. \A j \in DOMAIN s : SplitsEntry(s[j], p, n) =>
            OverlapsStart(s[j], p, n) /\ s[j].page < p + n /\ p < End(s[j])
      BY <2>2 DEF SplitsEntry, OverlapsStart, Entry, End
    <2>4. Rest(s[k], p, n) \in Entry
      BY <2>1, <2>2, <2>3, RestFields, Zenon
    <2>5. \A j \in DOMAIN s : SplitsEntry(s[j], p, n) => j = k
      BY <2>1, <2>3, OneSplit, Zenon
    <2>6. /\ DOMAIN c = 1 .. Len(s) + 1
          /\ \A i \in 1 .. Len(s) : c[i] = Trim(s[i], p, n)
          /\ c[Len(s) + 1] = Rest(s[k], p, n)
      BY <1>1, <1>2, <1>3, <1>4, <1>7, <2>4
    <2>7. DOMAIN s \subseteq DOMAIN c /\ DOMAIN c \ DOMAIN s = {Len(s) + 1}
      BY <1>1, <2>6
    <2> QED
      BY <1>1, <2>1, <2>5, <2>6, <2>7, Zenon DEF c
  <1> QED
    BY <1>6, <1>7, Zenon

\* NaClVmmapUpdate's loop changes what the array says of the pages of the new
\* range and of no other page: those are no longer mapped by any entry, and every
\* other page keeps its protection and its place in its file, also where an
\* entry was cut in two.
THEOREM CutPages ==
  ASSUME NEW s, Array(s), NEW p \in Nat, NEW n \in Nat \ {0}, NEW q \in Nat, NEW v
  PROVE  Maps(Cut(s, p, n), q, v) <=> Maps(s, q, v) /\ ~(p <= q /\ q < p + n)
  <1> DEFINE c == Cut(s, p, n)
             In == p <= q /\ q < p + n
  <1>1. \A i \in DOMAIN s :
          /\ ~SplitsEntry(s[i], p, n) =>
               (Shows(Trim(s[i], p, n), q, v) <=> Shows(s[i], q, v) /\ ~In)
          /\ SplitsEntry(s[i], p, n) =>
               /\ Shows(Trim(s[i], p, n), q, v) <=> Shows(s[i], q, v) /\ q < p
               /\ Shows(Rest(s[i], p, n), q, v) <=> Shows(s[i], q, v) /\ p + n <= q
      BY TrimPages DEF Array, NoneMarked
  <1>2. /\ DOMAIN s \subseteq DOMAIN c
        /\ \A i \in DOMAIN s : c[i] = Trim(s[i], p, n)
        /\ \A i \in DOMAIN c \ DOMAIN s :
             \E j \in DOMAIN s : SplitsEntry(s[j], p, n) /\ c[i] = Rest(s[j], p, n)
        /\ \A j \in DOMAIN s : SplitsEntry(s[j], p, n) =>
             \E i \in DOMAIN c \ DOMAIN s : c[i] = Rest(s[j], p, n)
    BY CutElements
  <1>3. ~In <=> q < p \/ p + n <= q
    OBVIOUS
  <1>4. /\ Maps(c, q, v) <=> \E i \in DOMAIN c : Shows(c[i], q, v)
        /\ Maps(s, q, v) <=> \E i \in DOMAIN s : Shows(s[i], q, v)
    BY Zenon DEF Maps, Shows
  <1> HIDE DEF c, In
  <1>5. ASSUME NEW i \in DOMAIN c, Shows(c[i], q, v)
        PROVE  ~In /\ \E j \in DOMAIN s : Shows(s[j], q, v)
    BY <1>1, <1>2, <1>3, <1>5
  <1>6. ASSUME NEW i \in DOMAIN s, Shows(s[i], q, v), ~In
        PROVE  \E j \in DOMAIN c : Shows(c[j], q, v)
    BY <1>1, <1>2, <1>3, <1>6
  <1> QED
    BY <1>4, <1>5, <1>6, Zenon DEF c, In

\* An entry of the result comes from one entry of the array: it lies within
\* that entry, on one side of the new range.
Origin(s, p, n, k, m) ==
  LET e == Cut(s, p, n)[k]
  IN  /\ e.page \in Nat /\ End(e) \in Nat /\ s[m].page \in Nat /\ End(s[m]) \in Nat
      /\ s[m].page <= e.page /\ End(e) <= End(s[m])
      /\ End(e) <= p \/ p + n <= e.page
      /\ k \in DOMAIN s => k = m /\ (SplitsEntry(s[m], p, n) => End(e) <= p)
      /\ k \notin DOMAIN s => SplitsEntry(s[m], p, n) /\ e.page = p + n

\* Whatever the cut leaves comes from an entry that was there before.
LEMMA HasOrigin ==
  ASSUME NEW s, Array(s), NEW p \in Nat, NEW n \in Nat \ {0},
         NEW k \in DOMAIN Cut(s, p, n), ~Cut(s, p, n)[k].removed
  PROVE  \E m \in DOMAIN s : Origin(s, p, n, k, m)
  <1> DEFINE c == Cut(s, p, n)
  <1>1. \A m \in DOMAIN s :
          /\ s[m] \in Entry /\ ~s[m].removed
          /\ s[m].page \in Nat /\ End(s[m]) \in Nat /\ s[m].page < End(s[m])
    <2>1. \A m \in DOMAIN s : s[m] \in Entry /\ ~s[m].removed
      BY DEF Array, NoneMarked
    <2> QED
      BY <2>1 DEF Entry, End
  <1>2. CASE k \in DOMAIN s
    <2> DEFINE e == s[k]
               t == Trim(e, p, n)
    <2>1. c[k] = t
      BY <1>2, CutElements
    <2>2. /\ t.page \in Nat /\ End(t) \in Nat
          /\ OverlapsEnd(e, p, n) => t.page = e.page /\ End(t) = p
          /\ ~OverlapsEnd(e, p, n) /\ OverlapsStart(e, p, n) =>
               t.page = p + n /\ End(t) = End(e)
          /\ ~OverlapsEnd(e, p, n) /\ ~OverlapsStart(e, p, n) =>
               t.page = e.page /\ End(t) = End(e) /\ ~CoversEntry(e, p, n)
      <3>1. /\ t \in Entry
            /\ OverlapsEnd(e, p, n) => t.page = e.page /\ End(t) = p
            /\ ~OverlapsEnd(e, p, n) /\ OverlapsStart(e, p, n) => t = Rest(e, p, n)
            /\ ~OverlapsEnd(e, p, n) /\ ~OverlapsStart(e, p, n) =>
                 t.page = e.page /\ End(t) = End(e) /\ (CoversEntry(e, p, n) => t.removed)
        <4>1. e \in Entry /\ ~e.removed
          BY <1>1, <1>2, Zenon
        <4> HIDE DEF e
        <4> QED
          BY <4>1, TrimFields
      <3>2. t.page \in Nat /\ End(t) \in Nat
        BY <3>1 DEF Entry, End
      <3>3. OverlapsStart(e, p, n) =>
              Rest(e, p, n).page = p + n /\ End(Rest(e, p, n)) = End(e)
        BY <1>1, <1>2, RestFields
      <3>4. ~t.removed
        BY <2>1, Zenon
      <3> HIDE DEF e, t
      <3> QED
        BY <3>1, <3>2, <3>3, <3>4, Zenon
    <2> HIDE DEF t
    <2> QED
      BY <1>1, <1>2, <2>1, <2>2
      DEF Origin, OverlapsEnd, OverlapsStart, SplitsEntry, CoversEntry
  <1>3. CASE k \notin DOMAIN s
    <2>1. PICK m \in DOMAIN s : SplitsEntry(s[m], p, n) /\ c[k] = Rest(s[m], p, n)
      BY <1>3, CutElements
    <2>2. OverlapsStart(s[m], p, n)
      BY <1>1, <2>1 DEF OverlapsStart, SplitsEntry
    <2>3. c[k].page = p + n /\ End(c[k]) = End(s[m])
      BY <1>1, <2>1, <2>2, RestFields
    <2> HIDE DEF c
    <2> QED
      BY <1>1, <1>3, <2>1, <2>2, <2>3 DEF Origin, OverlapsStart, c
  <1> QED
    BY <1>2, <1>3, Zenon

\* No page is mapped by two entries that stay in the array: the entries that the
\* loop leaves unmarked are pairwise apart, and apart from the new range.
THEOREM CutApart ==
  ASSUME NEW s, Array(s), NEW p \in Nat, NEW n \in Nat \ {0},
         NEW i \in DOMAIN Cut(s, p, n), NEW j \in DOMAIN Cut(s, p, n), i # j,
         ~Cut(s, p, n)[i].removed, ~Cut(s, p, n)[j].removed
  PROVE  LET e == Cut(s, p, n)[i]
         IN  /\ Apart(e, Cut(s, p, n)[j])
             /\ End(e) <= p \/ p + n <= e.page
  <1> DEFINE c == Cut(s, p, n)
  <1>1. PICK a \in DOMAIN s : Origin(s, p, n, i, a)
    BY HasOrigin, Zenon
  <1>2. PICK b \in DOMAIN s : Origin(s, p, n, j, b)
    BY HasOrigin, Zenon
  <1>3. i \notin DOMAIN s /\ j \notin DOMAIN s => i = j
    BY CutElements, Zenon
  <1>4. a # b => End(s[a]) <= s[b].page \/ End(s[b]) <= s[a].page
    BY DEF Array, SortedEntries
  <1>5. End(c[i]) <= p \/ p + n <= c[i].page
    BY <1>1, Zenon DEF Origin
  <1>6. CASE a # b
    BY <1>1, <1>2, <1>4, <1>5, <1>6 DEF Origin, Apart
  <1>7. CASE a = b
    BY <1>1, <1>2, <1>3, <1>5, <1>7 DEF Origin, Apart
  <1> QED
    BY <1>6, <1>7, Zenon

-----------------------------------------------------------------------------
(* AppLife: the application from main to its exit. *)

\* The stages of the main thread in which the module's load is not decided yet.
Loading == {"qualify", "load", "connect", "waitLoad", "prepare"}

\* The types that the argument needs.
AppTypes ==
  /\ errcode \in Results /\ module_load_status \in Results \cup {"UNKNOWN"}
  /\ loads \in Nat
  /\ DOMAIN thread = AppThread /\ DOMAIN passed = AppThread

\* The load: who may do it, and what its published result says.
LoadInv ==
  /\ rpc_supplies_nexe => main \notin {"load", "prepare"}
  /\ ~rpc_supplies_nexe => main # "waitLoad"
  /\ main \in {"qualify", "load", "connect"} => channel = "none"
  /\ main \in {"qualify", "load"} => loads = 0
  /\ main = "qualify" => errcode = "OK" /\ module_load_status = "UNKNOWN"
  /\ main = "load" /\ errcode = "ERROR" => module_load_status = "ERROR"
  /\ main = "connect" /\ rpc_supplies_nexe => loads = 0 /\ module_load_status # "OK"
  /\ ~rpc_supplies_nexe /\ main \notin {"qualify", "load"} => module_load_status # "UNKNOWN"
  /\ ~rpc_supplies_nexe /\ main \in {"connect", "prepare"} => errcode = module_load_status
  /\ main \notin Loading => module_load_status # "UNKNOWN"
  /\ main \notin Loading /\ errcode = "OK" => module_load_status = "OK"
  /\ unqualified => errcode = "ERROR" /\ module_load_status = "ERROR"
  /\ channel = "prepare" => module_load_status = "UNKNOWN" /\ loads = 1
  /\ LoadedOnce
  /\ loads = 1 => module_load_status # "UNKNOWN" \/ channel = "prepare"
  /\ module_load_status = "OK" =>
       loads = 1 /\ (prepared \/ (~rpc_supplies_nexe /\ main \in {"connect", "prepare"}))

\* The start: the program runs behind the wait for permission only.
StartInv ==
  /\ main = "create" /\ errcode = "OK" /\ hasChannel => module_may_start
  /\ launched <=> main \in {"dequeue", "waitExit", "return"}
  /\ launched => module_load_status = "OK" /\ (hasChannel => module_may_start)

\* The end: a status that was stored is that of a thread that is gone.
Stored == \E t \in AppThread : thread[t] = "gone" /\ passed[t] = exit_status
ExitInv ==
  /\ ~launched => ~running /\ \A t \in AppThread : thread[t] = "none"
  /\ launched /\ ~running => Stored
  /\ main = "return" => ~running
  /\ ExitCodePassed

AppInv == AppTypes /\ LoadInv /\ StartInv /\ ExitInv

\* The invariant holds before the application is loaded.
LEMMA AppInitInv == AppInit => AppInv
  BY DEF AppInit, AppInv, AppTypes, LoadInv, StartInv, ExitInv, LoadedOnce, Loading,
         ExitCodePassed, Results

\* One step per action.
LEMMA AppNextInv == AppInv /\ [AppNext]_appVars => AppInv'
<1>. SUFFICES ASSUME AppInv, [AppNext]_appVars PROVE AppInv'
  BY Zenon
<1>. USE DEF AppInv, AppTypes, Results, LoadInv, Loading, LoadedOnce,
    StartInv, ExitInv, Stored, ExitCodePassed, flags, nap, program, history,
    ended, server
<1>1. Qualify => AppInv'
  BY DEF Qualify, MainAt
<1>2. CannotOpen => AppInv'
  BY DEF CannotOpen, MainAt, ProcessEnds
<1>3. LoadFile => AppInv'
  BY DEF LoadFile, MainAt
<1>4. SecureCommandChannel => AppInv'
  BY DEF SecureCommandChannel, MainAt, ProcessEnds
<1>5. MainWaitsForLoad => AppInv'
  BY DEF MainWaitsForLoad, MainAt
<1>6. MainPrepares => AppInv'
  <2>1. MainPrepares =>
          /\ main = "prepare" /\ main' = "chroot" /\ errcode' \in Results
          /\ errcode = "OK" /\ errcode' = "OK" => prepared'
          /\ module_load_status' \in {module_load_status, errcode'}
          /\ errcode' = "ERROR" => module_load_status' = "ERROR" \/ errcode = "ERROR"
          /\ errcode # "OK" => UNCHANGED <<errcode, module_load_status>>
          /\ UNCHANGED <<hasChannel, rpc_supplies_nexe, channel, loads, unqualified,
                         thread, passed>>
    BY Zenon DEF MainPrepares, MainAt
  <2>2. MainPrepares => AppTypes' /\ LoadInv'
    BY <2>1, Zenon
  <2>3. MainPrepares => StartInv' /\ ExitInv'
    BY DEF MainPrepares, MainAt
  <2>. QED
    BY <2>2, <2>3, Zenon
<1>7. Chroot => AppInv'
  BY DEF Chroot, MainAt, ProcessEnds
<1>8. WaitForStartModule => AppInv'
  BY DEF WaitForStartModule, MainAt
<1>9. StartProgram => AppInv'
  BY DEF StartProgram, MainAt, ProcessEnds, CreateMainThread
<1>10. Dequeue => AppInv'
  BY DEF Dequeue, MainAt
<1>11. WaitForExit => AppInv'
  BY DEF WaitForExit, MainAt
<1>12. ReturnStatus => AppInv'
  BY DEF ReturnStatus, MainAt, ProcessEnds
<1>13. LoadModule => AppInv'
  BY DEF LoadModule, Serving
<1>14. LoadModulePrepares => AppInv'
  <2>1. LoadModulePrepares =>
          /\ channel = "prepare" /\ channel' = "idle" /\ module_load_status' \in Results
          /\ module_load_status' = "OK" => prepared'
          /\ UNCHANGED <<hasChannel, rpc_supplies_nexe, main, errcode, loads, unqualified,
                         thread, passed>>
    BY Zenon DEF LoadModulePrepares, Serving
  <2>2. LoadModulePrepares => AppTypes' /\ LoadInv'
    BY <2>1, Zenon
  <2>3. LoadModulePrepares => StartInv' /\ ExitInv'
    BY DEF LoadModulePrepares, Serving
  <2>. QED
    BY <2>2, <2>3, Zenon
<1>15. StartModule => AppInv'
  BY DEF StartModule, Serving
<1>16. StartModulePermits => AppInv'
  BY DEF StartModulePermits, Serving
<1>17. StartModuleAnswers => AppInv'
  BY DEF StartModuleAnswers, Serving
<1>18. Request => AppInv'
  BY DEF Request
<1>19. Shutdown => AppInv'
  BY DEF Shutdown, ProcessEnds
<1>20. \A t \in AppThread : ThreadCreate(t) => AppInv'
  BY DEF ThreadCreate
<1>21. \A t \in AppThread : ThreadExit(t) => AppInv'
  BY DEF ThreadExit
<1>22. \A t \in AppThread : SysExit(t) => AppInv'
  BY DEF SysExit
<1>23. \A t \in AppThread : SysExitStatus(t) => AppInv'
  BY DEF SysExitStatus
<1>24. UNCHANGED appVars => AppInv'
  BY DEF appVars
<1>. HIDE DEF AppInv
<1>. QED
  BY Zenon, <1>1, <1>2, <1>3, <1>4, <1>5, <1>6, <1>7, <1>8, <1>9, <1>10, <1>11,
      <1>12, <1>13, <1>14, <1>15, <1>16, <1>17, <1>18, <1>19, <1>20, <1>21,
      <1>22, <1>23, <1>24
  DEF AppNext, MainNext, ChannelNext

\* The program is started by NaClCreateMainThread only on a qualified platform,
\* from a module that was loaded and prepared, with the plugin's permission:
\* for any number of threads and requests of the plugin.
THEOREM LaunchSafe == AppSpec => []LaunchGuarded
<1>1. AppInv => LaunchGuarded
  BY DEF AppInv, AppTypes, LoadInv, StartInv, LaunchGuarded
<1>. QED
  BY <1>1, AppInitInv, AppNextInv, PTL DEF AppSpec

\* The command line's file and the plugin's load_module requests fill the
\* NaClApp at most once.
THEOREM LoadSafe == AppSpec => []LoadedOnce
<1>1. AppInv => LoadedOnce
  BY Zenon DEF AppInv, LoadInv
<1>. QED
  BY <1>1, AppInitInv, AppNextInv, PTL DEF AppSpec

\* The code that main returns is one that some thread passed to exit and had
\* stored, although it is read without the lock.
THEOREM ExitSafe == AppSpec => []ExitCodePassed
<1>1. AppInv => ExitCodePassed
  BY Zenon DEF AppInv, ExitInv
<1>. QED
  BY <1>1, AppInitInv, AppNextInv, PTL DEF AppSpec

-----------------------------------------------------------------------------
(* Threads *)

\* A thread that leaves wakes sleepers and moves nobody else.
LEMMA ExitMoves ==
  ASSUME PlacesOK, NEW t \in Thread, ExitFinish(t)
  PROVE  /\ pc' \in [Thread -> Places]
         /\ pc[t] = "counted" /\ pc'[t] = "gone"
         /\ \A u \in Thread \ {t} : \/ pc'[u] = pc[u]
                                    \/ pc[u] = "join" /\ pc'[u] = "joinWoken"
                                    \/ pc[u] = "shutdown" /\ pc'[u] = "shutdownWoken"
  BY DEF ExitFinish, Joiners, LastJoined, Places, Signalled, PlacesOK

\* A thread that leaves gives up its descriptor block, and its basic data if it was
\* detached when it looked.
LEMMA ExitReleases ==
  ASSUME NEW t \in Thread, ExitFinish(t)
  PROVE  /\ tdb' = tdb \ {t}
         /\ terminated' \in {terminated, terminated \cup {t}}
         /\ \/ t \in sawJoinable /\ table' = table /\ freed' = freed
            \/ t \notin sawJoinable /\ table' = table \ {t} /\ freed' = freed \cup {t}
         /\ UNCHANGED <<target, joinable, joinWaiting, sawJoinable, idVars, runningThreads,
                        claimed, outcome>>
  BY Zenon DEF ExitFinish, Release, dataVars

\* A joiner that wakes up sleeps again, or collects the result, or finds stale data.
LEMMA JoinAgainMoves ==
  ASSUME NEW t \in Thread, JoinAgain(t)
  PROVE  /\ pc[t] = "joinWoken"
         /\ UNCHANGED <<tdb, joinable, joinWaiting, terminated, sawJoinable, idVars,
                        runningThreads, claimed>>
         /\ \/ target[t] \in freed /\ UNCHANGED <<pc, target, table, freed>>
            \/ /\ pc' = [pc EXCEPT ![t] = "join"] /\ target[t] \notin terminated
               /\ UNCHANGED <<target, table, freed, outcome>>
            \/ /\ pc' = [pc EXCEPT ![t] = "run"]
               /\ target' = [target EXCEPT ![t] = None]
               /\ target[t] \in terminated
               /\ table' = table \ {target[t]} /\ freed' = freed \cup {target[t]}
               /\ UNCHANGED outcome
  BY Zenon DEF JoinAgain, Release, Goto, dataVars, tdbVars

\* Where the threads are and what there is of their data.
StageInv == PlacesOK /\ DataOK /\ DataStages /\ OneCreator

\* Only pthread_create adds a thread to the table or changes an id.
Created == \E c, t \in Thread, detached \in BOOLEAN : Create(c, t, detached)
IdsKept == Created \/ (UNCHANGED idVars /\ table' \subseteq table)

\* Every step keeps the stages, and the ids unless it creates a thread.
LEMMA StageStep == StageInv /\ [Next]_vars => StageInv' /\ IdsKept
<1>. SUFFICES ASSUME StageInv, [Next]_vars PROVE StageInv' /\ IdsKept
  BY Zenon
<1>. USE DEF StageInv, PlacesOK, Places, InCall, DataOK, DataStages,
    OneCreator, Creating, IdsKept, dataVars, tdbVars
<1>1. \A c, t \in Thread, detached \in BOOLEAN : Create(c, t, detached) => StageInv' /\ IdsKept
  <2>. TAKE c, t \in Thread, detached \in BOOLEAN
  <2>1. Create(c, t, detached) => StageInv'
    BY DEF Create
  <2>. QED
    BY <2>1 DEF Created
<1>2. \A t \in Thread : CreateNoData(t) => StageInv' /\ IdsKept
  BY Zenon DEF CreateNoData
<1>3. \A t \in Thread : CreateStarts(t) => StageInv' /\ IdsKept
  BY DEF CreateStarts
<1>4. \A t \in Thread : CreateFails(t) => StageInv' /\ IdsKept
  BY DEF CreateFails, Goto
<1>5. \A t \in Thread : CreateUndo(t) => StageInv' /\ IdsKept
  BY DEF CreateUndo, Release
<1>6. \A t \in Thread : Exit(t) => StageInv' /\ IdsKept
  BY DEF Exit, Goto
<1>7. \A t \in Thread : ExitCount(t) => StageInv' /\ IdsKept
  BY DEF ExitCount, Goto
<1>8. \A t \in Thread : ExitFinish(t) => StageInv' /\ IdsKept
  BY ExitMoves, ExitReleases
<1>9. \A t \in Thread : PthreadShutdown(t) => StageInv' /\ IdsKept
  BY DEF PthreadShutdown, Goto
<1>10. \A t \in Thread : JoinAgain(t) => StageInv' /\ IdsKept
  BY JoinAgainMoves
<1>11. \A t \in Thread : Spurious(t) => StageInv' /\ IdsKept
  BY DEF Spurious, Goto
<1>12. \A t, s \in Thread : Join(t, s) => StageInv' /\ IdsKept
  BY DEF Join, Find, Goto
<1>13. \A t, s \in Thread : JoinTerminated(t, s) => StageInv' /\ IdsKept
  BY DEF JoinTerminated, Find, Release
<1>14. \A t, s \in Thread : Detach(t, s) => StageInv' /\ IdsKept
  BY DEF Detach, Find
<1>15. \A t, s \in Thread : DetachTerminated(t, s) => StageInv' /\ IdsKept
  BY DEF DetachTerminated, Find, Release
<1>16. UNCHANGED vars => StageInv' /\ IdsKept
  BY Zenon DEF vars
<1>. HIDE DEF StageInv, IdsKept
<1>. QED
  BY Zenon, <1>1, <1>2, <1>3, <1>4, <1>5, <1>6, <1>7, <1>8, <1>9, <1>10, <1>11,
      <1>12, <1>13, <1>14, <1>15, <1>16
  DEF Next, Proceed, Begin

\* The id of a new thread is above all ids handed out in order, or it is one that no
\* thread of the table has.
LEMMA IdStep ==
  ASSUME IdInv, StageInv, [Next]_vars
  PROVE  IdInv' /\ StageInv'
<1>1. StageInv' /\ IdsKept
  BY StageStep, Zenon
<1>2. ASSUME UNCHANGED idVars, table' \subseteq table
      PROVE  IdsOK' /\ UniqueIds' /\ IdsBelowCounter'
  BY <1>2, Zenon DEF IdInv, IdsOK, UniqueIds, IdsBelowCounter, idVars
<1>3. ASSUME NEW c \in Thread, NEW t \in Thread, NEW detached \in BOOLEAN, Create(c, t, detached)
      PROVE  IdsOK' /\ UniqueIds' /\ IdsBelowCounter'
  <2>0. /\ table \subseteq Thread /\ id \in [Thread -> 0 .. MaxThreadId]
        /\ MaxThreadId \in Nat /\ idCounter \in Nat /\ 1 <= idCounter /\ idCounter <= MaxThreadId
    BY NcThreadAssumption DEF IdInv, DataOK, IdsOK
  <2>1. AllocateId(t) /\ table' = table \cup {t}
    BY <1>3, Zenon DEF Create
  <2>2. CASE ~idsUsed
    <3>1. id' = [id EXCEPT ![t] = idCounter]
      BY <2>1, <2>2, Zenon DEF AllocateId
    <3>2. \/ idCounter = MaxThreadId /\ idsUsed' = TRUE /\ idCounter' = idCounter
          \/ idCounter # MaxThreadId /\ idsUsed' = FALSE /\ idCounter' = idCounter + 1
      BY <2>1, <2>2, Zenon DEF AllocateId, IdInv, IdsOK
    <3>3. \A s \in table : id[s] < idCounter
      BY <2>2, Zenon DEF IdInv, IdsBelowCounter
    <3>4. IdsOK'
      <4>1. id' \in [Thread -> 0 .. MaxThreadId]
        BY <2>0, <3>1
      <4>2. idCounter' \in 1 .. MaxThreadId
        BY <2>0, <3>2
      <4> QED
        BY <3>2, <4>1, <4>2, Zenon DEF IdsOK
    <3>5. UniqueIds'
      BY <2>0, <2>1, <3>1, <3>3 DEF IdInv, UniqueIds
    <3>6. IdsBelowCounter'
      BY <2>0, <2>1, <3>1, <3>2, <3>3 DEF IdsBelowCounter
    <3> QED
      BY <3>4, <3>5, <3>6, Zenon
  <2>3. CASE idsUsed
      BY <2>1, <2>3, <2>0 DEF AllocateId, FreeIds, IdInv, IdsOK, UniqueIds,
          IdsBelowCounter
  <2> QED
    BY <2>2, <2>3, Zenon
<1> QED
  BY <1>1, <1>2, <1>3, Zenon DEF IdInv, StageInv, IdsKept, Created

\* The invariant holds when the library has been initialised.
LEMMA InitIds == Init => IdInv /\ StageInv
<1> SUFFICES ASSUME Init PROVE IdInv /\ StageInv
  BY Zenon
<1>1. PlacesOK /\ DataOK
  BY NcThreadAssumption, Zenon DEF Init, PlacesOK, DataOK, Places, InCall
<1>2. IdsOK
  <2>1. MaxThreadId \in Nat /\ 1 <= MaxThreadId
    BY NcThreadAssumption
  <2>2. id \in [Thread -> 0 .. MaxThreadId] /\ idCounter \in 1 .. MaxThreadId
    BY <2>1 DEF Init
  <2> QED
    BY <2>2, Zenon DEF Init, IdsOK
<1>3. UniqueIds /\ IdsBelowCounter
  BY NcThreadAssumption DEF Init, UniqueIds, IdsBelowCounter
<1>4. DataStages /\ OneCreator
  BY NcThreadAssumption, Zenon DEF Init, DataStages, OneCreator, Creating
<1> QED
  BY <1>1, <1>2, <1>3, <1>4, Zenon DEF IdInv, StageInv

\* nc_allocate_thread_id_mu never hands out an id that is in use, before and after
\* the counter has reached its limit.
THEOREM IdsUnique == Spec => []UniqueIds
<1>1. IdInv => UniqueIds
  BY Zenon DEF IdInv
<1> QED
  BY <1>1, InitIds, IdStep, PTL DEF Spec

-----------------------------------------------------------------------------
(* The counter of running threads, whatever the program joins and detaches. *)

\* The threads that __nc_running_threads_counter counts: those in the program, and
\* those about to be started.
Live == {t \in Thread : \/ pc[t] \notin {"unborn", "born", "counted", "gone"}
                        \/ \E c \in Thread : pc[c] = "create" /\ target[c] = t}


\* Main has id 0 and never counts itself out, and a thread that is not yet started
\* has a creator.
MainInv ==
  /\ pc[Main] \notin {"unborn", "born", "counted", "gone"} /\ id[Main] = 0
  /\ \A t \in Thread : pc[t] = "born" => \E c \in Creating : target[c] = t

\* A step that changes the counter changes the set in the same way.
Counted ==
  \/ Live' = Live /\ runningThreads' = runningThreads
  \/ \E t \in Thread \ Live : Live' = Live \cup {t} /\ runningThreads' = runningThreads + 1
  \/ \E t \in Live : Live' = Live \ {t} /\ runningThreads' = runningThreads - 1

\* Every step keeps Main, and counts.
LEMMA LiveStep == IdInv /\ StageInv /\ MainInv /\ [Next]_vars => MainInv' /\ Counted
<1>. SUFFICES ASSUME IdInv, StageInv, MainInv, [Next]_vars PROVE MainInv' /\ Counted
  BY Zenon
<1>. USE NcThreadAssumption DEF StageInv, IdInv, IdsOK, PlacesOK, InCall,
    DataStages, OneCreator, Creating, MainInv, Live, Counted, idVars,
    dataVars, tdbVars
<1>1. \A c, t \in Thread, detached \in BOOLEAN : Create(c, t, detached) => MainInv' /\ Counted
    BY DEF Create, AllocateId
<1>2. \A t \in Thread : CreateNoData(t) => MainInv' /\ Counted
  <2>1. \A t \in Thread : CreateNoData(t) => UNCHANGED <<pc, target, id, runningThreads>>
    BY Zenon DEF CreateNoData
  <2>2. UNCHANGED <<pc, target, id, runningThreads>> => MainInv' /\ Live' = Live
    OBVIOUS
  <2>. HIDE DEF Live, MainInv
  <2>. QED
    BY <2>1, <2>2, Zenon
<1>3. \A t \in Thread : CreateStarts(t) => MainInv' /\ Counted
  BY DEF CreateStarts
<1>4. \A t \in Thread : CreateFails(t) => MainInv' /\ Counted
  BY DEF CreateFails, Goto
<1>5. \A t \in Thread : CreateUndo(t) => MainInv' /\ Counted
  BY DEF CreateUndo, Release
<1>6. \A t \in Thread : Exit(t) => MainInv' /\ Counted
  BY DEF Exit, Goto
<1>7. \A t \in Thread : ExitCount(t) => MainInv' /\ Counted
  BY DEF ExitCount, Goto
<1>8. \A t \in Thread : ExitFinish(t) => MainInv' /\ Counted
  BY ExitMoves, ExitReleases
<1>9. \A t \in Thread : PthreadShutdown(t) => MainInv' /\ Counted
  BY DEF PthreadShutdown, Goto
<1>10. \A t \in Thread : JoinAgain(t) => MainInv' /\ Counted
  BY JoinAgainMoves
<1>11. \A t \in Thread : Spurious(t) => MainInv' /\ Counted
  BY DEF Spurious, Goto
<1>12. \A t, s \in Thread : Join(t, s) => MainInv' /\ Counted
  BY DEF Join, Find, Goto
<1>13. \A t, s \in Thread : JoinTerminated(t, s) => MainInv' /\ Counted
  BY DEF JoinTerminated, Find, Release
<1>14. \A t, s \in Thread : Detach(t, s) => MainInv' /\ Counted
  BY DEF Detach, Find
<1>15. \A t, s \in Thread : DetachTerminated(t, s) => MainInv' /\ Counted
  BY DEF DetachTerminated, Find, Release
<1>16. UNCHANGED vars => MainInv' /\ Counted
  BY DEF vars
<1>. HIDE NcThreadAssumption
     DEF StageInv, IdInv, IdsOK, PlacesOK, InCall, DataStages, OneCreator, Creating,
         MainInv, Live, Counted, idVars, dataVars, tdbVars
<1>17. \A t \in Thread : Proceed(t) => MainInv' /\ Counted
  BY <1>3, <1>4, <1>5, <1>7, <1>8, <1>9, <1>10, Zenon DEF Proceed
<1>18. \A t \in Thread : Begin(t) => MainInv' /\ Counted
  BY <1>1, <1>2, <1>6, <1>11, <1>12, <1>13, <1>14, <1>15, Zenon DEF Begin
<1>. QED
  BY <1>16, <1>17, <1>18, Zenon DEF Next

\* The process ends where __pthread_shutdown finds one thread running.
LEMMA ExitStep ==
  ASSUME [Next]_vars, outcome' = "exited"
  PROVE  /\ UNCHANGED <<pc, target>>
         /\ \/ outcome = "exited"
            \/ runningThreads = 1 /\ \E t \in Thread : pc[t] \in {"exit", "shutdownWoken"}
  BY ZenonT(40) DEF PthreadShutdown, Begin, Create, CreateNoData, Exit, Spurious, Join, JoinTerminated,
      Detach, DetachTerminated, Proceed, CreateStarts, CreateFails, CreateUndo,
      ExitCount, ExitFinish, JoinAgain, vars, Next

-----------------------------------------------------------------------------
(* The basic data of threads, with a careful program. *)

\* An id that a careful program may still use finds the thread it was given for.
LEMMA FindsClaimed ==
  ASSUME IdInv, OneCollector, Careful, NEW t \in Thread, MayClaim(t), NEW b \in Find(id[t])
  PROVE  b = t /\ t \notin claimed /\ pc[t] \notin {"unborn", "born"}
  BY Zenon DEF MayClaim, OneCollector, Find, IdInv, UniqueIds

\* Every step of a careful program leaves one collector.
LEMMA CollectStep == Careful /\ IdInv /\ StageInv /\ OneCollector /\ [Next]_vars => OneCollector'
<1>. SUFFICES ASSUME Careful, IdInv, StageInv, OneCollector, [Next]_vars PROVE OneCollector'
  BY Zenon
<1>. USE DEF StageInv, PlacesOK, InCall, DataOK, DataStages, OneCreator,
    Creating, OneCollector, Joining, dataVars, tdbVars
<1>1. \A c, t \in Thread, detached \in BOOLEAN : Create(c, t, detached) => OneCollector'
  BY SMTT(30) DEF Create
<1>2. \A t \in Thread : CreateNoData(t) => OneCollector'
  BY Zenon DEF CreateNoData
<1>3. \A t \in Thread : CreateStarts(t) => OneCollector'
  BY SMTT(30) DEF CreateStarts
<1>4. \A t \in Thread : CreateFails(t) => OneCollector'
  BY SMTT(30) DEF CreateFails, Goto
<1>5. \A t \in Thread : CreateUndo(t) => OneCollector'
  BY SMTT(30) DEF CreateUndo, Release
<1>6. \A t \in Thread : Exit(t) => OneCollector'
  BY DEF Exit, Goto
<1>7. \A t \in Thread : ExitCount(t) => OneCollector'
  BY DEF ExitCount, Goto
<1>8. \A t \in Thread : ExitFinish(t) => OneCollector'
  BY ExitMoves, ExitReleases
<1>9. \A t \in Thread : PthreadShutdown(t) => OneCollector'
  BY DEF PthreadShutdown, Goto
<1>10. \A t \in Thread : JoinAgain(t) => OneCollector'
  BY JoinAgainMoves
<1>11. \A t \in Thread : Spurious(t) => OneCollector'
  BY DEF Spurious, Goto
<1>12. \A t, s \in Thread : Join(t, s) => OneCollector'
  BY FindsClaimed DEF Join, Goto
<1>13. \A t, s \in Thread : JoinTerminated(t, s) => OneCollector'
  BY FindsClaimed DEF JoinTerminated, Release
<1>14. \A t, s \in Thread : Detach(t, s) => OneCollector'
  BY FindsClaimed DEF Detach, Goto
<1>15. \A t, s \in Thread : DetachTerminated(t, s) => OneCollector'
  BY FindsClaimed DEF DetachTerminated, Release
<1>16. UNCHANGED vars => OneCollector'
  BY Zenon DEF vars
<1>. HIDE DEF StageInv, PlacesOK, InCall, DataOK, DataStages, OneCreator, Creating,
              OneCollector, Joining, dataVars, tdbVars
<1>. QED
  BY <1>1, <1>2, <1>3, <1>4, <1>5, <1>6, <1>7, <1>8, <1>9, <1>10, <1>11,
      <1>12, <1>13, <1>14, <1>15, <1>16, Zenon
  DEF Next, Proceed, Begin

\* A joiner that wakes up finds the basic data of its thread.
LEMMA NoStaleStep ==
  ASSUME DataStages, OneCollector, [Next]_vars, outcome # "stale data"
  PROVE  outcome' # "stale data"
<1>1. ASSUME NEW j \in Thread, JoinAgain(j) PROVE outcome' # "stale data"
  BY <1>1, Zenon DEF JoinAgain, DataStages, OneCollector, Joining
<1> QED
  BY <1>1, ZenonT(40) DEF Next, Proceed, Begin, vars, Create, CreateNoData, CreateStarts, CreateFails,
     CreateUndo, Exit, ExitCount, ExitFinish, PthreadShutdown, Spurious, Join, JoinTerminated, Detach,
     DetachTerminated

\* With a program that joins or detaches each thread at most once, the basic data of
\* a thread is kept until its result has been collected.
THEOREM CarefulSafe ==
  ASSUME Careful
  PROVE  Spec => []DataKept
<1>1. Init => DataInv
  BY InitIds, NcThreadAssumption
     DEF Init, StageInv, DataInv, OneCollector, Joining
<1>2. DataInv /\ [Next]_vars => DataInv'
  BY IdStep, CollectStep, NoStaleStep, Zenon DEF DataInv, StageInv, IdInv
<1>3. DataInv => DataKept
  BY Zenon DEF DataInv, DataStages, OneCollector, DataKept
<1> QED
  BY <1>1, <1>2, <1>3, PTL DEF Spec

-----------------------------------------------------------------------------
(* The count of the threads. *)

INSTANCE FiniteSetTheorems

\* The counter is exact, and the process has ended with Main alone.
CountInv ==
  /\ IdInv /\ StageInv /\ MainInv
  /\ IsFiniteSet(Live) /\ runningThreads = Cardinality(Live)
  /\ ShutdownWaits

\* A thread is counted from its creation to its exit, and no interleaving of
\* creations, failed system calls and exits leaves the counter behind.
LEMMA CountStep ==
  ASSUME CountInv, [Next]_vars
  PROVE  CountInv'
<1>1. IdInv' /\ StageInv' /\ MainInv' /\ Counted
  BY IdStep, LiveStep DEF CountInv
<1>2. IsFiniteSet(Live') /\ runningThreads' = Cardinality(Live')
    BY FS_AddElement, FS_RemoveElement, <1>1 DEF CountInv, Counted
<1>3. Main \in Live
  BY NcThreadAssumption DEF CountInv, MainInv, Live
<1>4. runningThreads = 1 => Live = {Main}
  <2>1. IsFiniteSet(Live) /\ runningThreads = Cardinality(Live)
    BY Zenon DEF CountInv
  <2>2. runningThreads = 1 => \E x : Live = {x}
    BY <2>1, FS_Singleton, Zenon
  <2>. QED
    BY <1>3, <2>2
<1>5. ShutdownWaits'
  BY <1>4, ExitStep DEF CountInv, MainInv, ShutdownWaits, Live, Creating, StageInv, PlacesOK, Places
<1>. QED
  BY <1>1, <1>2, <1>5, Zenon DEF CountInv

\* __pthread_shutdown ends the process only when every other thread has left the
\* program or never entered it, for any number of threads and whatever the program
\* joins or detaches.
THEOREM ShutdownSafe == Spec => []ShutdownWaits
<1>1. Init => CountInv
  <2>. SUFFICES ASSUME Init PROVE CountInv
    BY Zenon
  <2>1. Live = {Main}
    BY NcThreadAssumption, Zenon DEF Init, Live
  <2>2. MainInv /\ ShutdownWaits
    BY NcThreadAssumption, Zenon DEF Init, MainInv, ShutdownWaits
  <2>. QED
    BY <2>1, <2>2, InitIds, FS_Singleton, Zenon DEF Init, CountInv
<1>2. CountInv => ShutdownWaits
  BY Zenon DEF CountInv
<1>. QED
  BY <1>1, <1>2, CountStep, PTL DEF Spec

====
