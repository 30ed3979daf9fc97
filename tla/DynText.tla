------------------------------ MODULE DynText ------------------------------
(***************************************************************************)
(* The dyncode system calls over the table of regions (DynRegions) and the *)
(* writable view of the text (TextMapCache): which bytes a call writes     *)
(* follows from what it found in the table (nacl_text.c).  The thread that *)
(* holds nap->dynamic_load_mutex runs until it returns or the process      *)
(* dies.                                                                   *)
(***************************************************************************)
EXTENDS DynRegions, TextMapCache

ASSUME SameText ==
  TextStart = DynTextStart /\ TextEnd <= DynTextStart + TextSize

textVars == <<vars, cacheVars>>

TextInit == Init /\ CacheInit

TextInvoke(c) == Invoke(c) /\ Begin

Writes(dest, n, keep) == WriteHit(dest, n, keep) \/ WriteMiss(dest, n, keep)

\* NaclTextMapWrapper returns 0: ENOMEM.
MapFails(dest, n) == FailHit(dest, n) \/ FailMiss(dest, n)

\* The steps that write nothing: the search, the refusals, and calls that find
\* their region but whose code is rejected, or whose request is a repetition.
TextQuiet == fatal = "no" /\ Step /\ UNCHANGED cacheVars

\* The region stays in the table when its pages cannot be mapped.
TextCreate ==
  /\ CreateInsert
  /\ Writes(call.start, call.size, FALSE) \/ MapFails(call.start, call.size)

\* keep: the validator of the copy finds fault with the code.
TextModify ==
  /\ ModifyWrite
  /\ \/ \E keep \in BOOLEAN : Writes(wrote'.start, wrote'.size, keep)
     \/ MapFails(wrote'.start, wrote'.size)

\* The first request writes the halts; if the pages cannot be mapped it fails and
\* the region stays.
TextDelete ==
  \/ /\ DeletePending
     /\ Writes(call.start, call.size, FALSE) \/ MapFails(call.start, call.size)
  \/ DeleteRemove /\ Writes(call.start, call.size, FALSE)

\* The process dies in the middle of a call that writes.
TextDies ==
  \/ /\ CreateInsert \/ DeletePending
     /\ CheckFails(call.start, call.size) \/ UnmapFails(call.start, call.size)
  \/ /\ ModifyWrite
     /\ CheckFails(wrote'.start, wrote'.size) \/ UnmapFails(wrote'.start, wrote'.size)

TextStopped == Stopped /\ UNCHANGED vars

TextStep == TextQuiet \/ TextCreate \/ TextModify \/ TextDelete \/ TextDies

TextNext == (\E c \in Call : TextInvoke(c)) \/ TextStep \/ TextStopped

TextSpec == TextInit /\ [][TextNext]_textVars

FairTextSpec == TextSpec /\ WF_textVars(TextStep)

-----------------------------------------------------------------------------
(* Correctness. *)

\* Every call returns, unless the process dies: whatever the array holds, both
\* loops of NaClDynamicRegionFindClosestLEQ and the scroll of the insertion end.
CallReturns == pc # "idle" ~> pc = "idle" \/ fatal # "no"

=============================================================================
