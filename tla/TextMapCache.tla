---------------------------- MODULE TextMapCache ----------------------------
(***************************************************************************)
(* The writable view of the dynamic text (nacl_text.c).  Dynamic text is   *)
(* shared memory; to write it the runtime maps the pages a second time,    *)
(* writable, and keeps the last mapping between calls.  Everything happens *)
(* under nap->dynamic_load_mutex, so a call is one step.                   *)
(***************************************************************************)
EXTENDS Integers

CONSTANTS
  DynTextStart,  \* nap->dynamic_text_start
  TextSize,      \* bytes of dynamic text
  PageSize,      \* NACL_MAP_PAGESIZE
  Mapping,       \* addresses mmap can return
  MapError       \* a negative errno in place of an address

ASSUME TextMapCacheAssumption ==
  /\ DynTextStart \in Nat /\ TextSize \in Nat /\ PageSize \in Nat \ {0}
  /\ 0 \notin Mapping /\ MapError \notin Mapping /\ MapError # 0

VARIABLES
  offset, size, mapcache_ret, \* nap->dynamic_mapcache_*
  live,               \* the writable mappings the process has
  asked,              \* bytes of the text the last call was to write
  written,            \* bytes of the text it wrote ...
  view,               \* ... and the bytes its mapping covered
  fatal               \* why the process died, or "no"

cache == <<offset, size, mapcache_ret>>
lastCall == <<asked, written, view>>
cacheVars == <<cache, live, lastCall, fatal>>

Bytes == [from : Nat, len : Nat]

CacheTypeOK ==
  /\ offset \in Nat /\ size \in Nat
  /\ mapcache_ret \in Mapping \cup {0, MapError}
  /\ live \in [Mapping -> Bytes]
  /\ asked \in Bytes /\ written \in Bytes /\ view \in Bytes
  /\ fatal \in {"no", "check", "unmap"}

NoBytes == [from |-> 0, len |-> 0]

CacheInit ==
  /\ offset = 0 /\ size = 0 /\ mapcache_ret = 0
  /\ live = [m \in Mapping |-> NoBytes]
  /\ asked = NoBytes /\ written = NoBytes /\ view = NoBytes
  /\ fatal = "no"

PageDown(a) == a - (a % PageSize)

\* NaclTextMapWrapper's address calculation for dest and n bytes.
ShmOffset(dest) == dest - DynTextStart
MapOffset(dest) == PageDown(ShmOffset(dest))

\* Mutant: the end is computed without the offset within the page.
MapSizeFlat(dest, n) == PageDown(n + PageSize - 1)

MapSize(dest, n) == PageDown(ShmOffset(dest) + n + PageSize - 1) - MapOffset(dest)

-----------------------------------------------------------------------------
(* CachedMapWritableText. *)

CachedOk == size > 0 /\ mapcache_ret # MapError

\* Mutant: the old mapping is not unmapped.
DroppedNot == live

\* The mappings left when a miss has dropped the cached one.
Dropped == IF CachedOk THEN [live EXCEPT ![mapcache_ret] = NoBytes] ELSE live

\* The cache after a call that maps [o, o + n) and gets r.
Fill(o, n, r) == offset' = o /\ size' = n /\ mapcache_ret' = r

Clear == Fill(0, 0, 0) /\ live' = [live EXCEPT ![mapcache_ret] = NoBytes]

-----------------------------------------------------------------------------
(* The calls: each maps the pages around [dest, dest + n), writes them, and *)
(* clears the cache if there were several (NaclTextMapClearCacheIfNeeded);  *)
(* keep: a modification whose copying failed does not get that far.         *)

\* A call takes the mutex; it has written nothing yet.
Begin ==
  /\ fatal = "no"
  /\ asked' = NoBytes /\ written' = NoBytes /\ view' = NoBytes
  /\ UNCHANGED <<cache, live, fatal>>

\* The copy through a mapping of the bytes v.
Write(dest, n, v) ==
  /\ asked' = [from |-> ShmOffset(dest), len |-> n]
  /\ written' = [from |-> v.from + (ShmOffset(dest) % PageSize), len |-> n]
  /\ view' = v

WriteNothing(dest, n) ==
  /\ asked' = [from |-> ShmOffset(dest), len |-> n]
  /\ written' = NoBytes /\ view' = NoBytes

WriteHit(dest, n, keep) ==
  /\ fatal = "no"
  /\ offset = MapOffset(dest) /\ size = MapSize(dest, n)
  /\ mapcache_ret # MapError
  /\ Write(dest, n, live[mapcache_ret])
  /\ IF size > PageSize /\ ~keep THEN Clear ELSE UNCHANGED <<cache, live>>
  /\ UNCHANGED fatal

\* The error is cached as well.
FailHit(dest, n) ==
  /\ fatal = "no"
  /\ offset = MapOffset(dest) /\ size = MapSize(dest, n)
  /\ mapcache_ret = MapError
  /\ WriteNothing(dest, n)
  /\ UNCHANGED <<cache, live, fatal>>

Miss(dest, n) ==
  /\ fatal = "no"
  /\ offset # MapOffset(dest) \/ size # MapSize(dest, n)

WriteMiss(dest, n, keep) ==
  /\ Miss(dest, n)
  /\ MapOffset(dest) > 0
  /\ \E r \in {m \in Mapping : Dropped[m] = NoBytes} :
       LET v == [from |-> MapOffset(dest), len |-> MapSize(dest, n)]
       IN /\ Write(dest, n, v)
          /\ IF v.len > PageSize /\ ~keep
             THEN Fill(0, 0, 0) /\ live' = Dropped
             ELSE Fill(v.from, v.len, r) /\ live' = [Dropped EXCEPT ![r] = v]
  /\ UNCHANGED fatal

FailMiss(dest, n) ==
  /\ Miss(dest, n)
  /\ MapOffset(dest) > 0
  /\ Fill(MapOffset(dest), MapSize(dest, n), MapError)
  /\ live' = Dropped
  /\ WriteNothing(dest, n)
  /\ UNCHANGED fatal

\* CHECK(offset > 0).
CheckFails(dest, n) ==
  /\ Miss(dest, n)
  /\ MapOffset(dest) = 0
  /\ fatal' = "check"
  /\ UNCHANGED <<cache, live, lastCall>>

\* "Failed to unmap".
UnmapFails(dest, n) ==
  /\ Miss(dest, n) \/ (fatal = "no" /\ size > PageSize)
  /\ CachedOk
  /\ fatal' = "unmap"
  /\ UNCHANGED <<cache, live, lastCall>>

Stopped == fatal # "no" /\ UNCHANGED cacheVars

\* What the callers ask for: bytes of the dynamic text.
InText(dest, n) ==
  n > 0 /\ dest >= DynTextStart /\ dest + n <= DynTextStart + TextSize

CacheNext ==
  \/ \E dest \in DynTextStart .. DynTextStart + TextSize - 1, n \in 1 .. TextSize :
       /\ InText(dest, n)
       /\ \/ \E keep \in BOOLEAN : WriteHit(dest, n, keep) \/ WriteMiss(dest, n, keep)
          \/ FailHit(dest, n) \/ FailMiss(dest, n)
          \/ CheckFails(dest, n) \/ UnmapFails(dest, n)
  \/ Begin
  \/ Stopped

CacheSpec == CacheInit /\ [][CacheNext]_cacheVars

-----------------------------------------------------------------------------
(* Correctness. *)

\* The cache owns the only writable mapping: none leaks, none is used or unmapped
\* after it was unmapped.
CacheOwnsMapping ==
  \A m \in Mapping :
    live[m] = IF CachedOk /\ m = mapcache_ret THEN [from |-> offset, len |-> size] ELSE NoBytes

\* A call writes the bytes it was asked to write, through a mapping that covers
\* them, whether the mapping is new, cached, or cached by another call.
WroteAsked ==
  written # NoBytes =>
    /\ written = asked
    /\ view.from <= written.from /\ written.from + written.len <= view.from + view.len

=============================================================================
