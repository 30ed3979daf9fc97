----------------------------- MODULE Validator -----------------------------
(***************************************************************************)
(* The x86-32 validator (ncvalidate.c) driven by the decoder               *)
(* (ncdecode.c), as NaClValidateCode and NaClValidateCodeReplacement use   *)
(* it (sel_validate_image.c), together with a thread that executes what    *)
(* was accepted, also while NaClCopyCode (nccopycode.c) replaces code      *)
(* under it.                                                               *)
(*                                                                         *)
(* The bytes of a module decode to some instruction at every address.      *)
(* text[a] is the instruction the processor decodes at a; it is None for   *)
(* an address the validator never decoded, where anything may be.  The     *)
(* instruction stream is chosen while it is being decoded.                 *)
(*                                                                         *)
(* nap->ignore_validator_result is off, as it is unless sel_ldr runs with  *)
(* its debugging option; with it the callers go on whatever the verdict.   *)
(***************************************************************************)
EXTENDS Integers, FiniteSets

CONSTANTS
    Base, Limit,    \* iadrbase and iadrlimit of the module's text
    Align,          \* the bundle size
    Space,          \* addresses a jump can reach
    Insts,          \* instructions the text may hold
    NewInsts,       \* instructions a replacement may bring in
    MaxChanges      \* bound on the instructions that replacements change

(***************************************************************************)
(* An instruction is its length and what ValidateInst tells apart:         *)
(*   plain     NACLi_386 and every extension this CPU has                  *)
(*   lacking   an extension this CPU has not ("squashme")                  *)
(*   direct    JMP8 and JMPZ, to address arg                               *)
(*   mask      and $-Align, register arg                                   *)
(*   indirect  jmp or call through register arg, in the one allowed form   *)
(*   bad       everything that is an error by itself: illegal              *)
(*             instructions, ret, wrong prefixes, too long, other forms of *)
(*             indirect jump                                               *)
(*   halt      the one-byte hlt, or an instruction whose first byte is hlt *)
(* call is set for call instructions.                                      *)
(***************************************************************************)
Type == {"plain", "lacking", "direct", "mask", "indirect", "bad", "halt"}
Inst == [len : Nat \ {0}, type : Type, arg : Int, call : BOOLEAN]

None == [len |-> 0, type |-> "none", arg |-> 0, call |-> FALSE]
Hlt(n) == [len |-> n, type |-> "halt", arg |-> 0, call |-> FALSE]

Addr == Base .. Limit - 1
IsBundle(a) == a % Align = 0

ASSUME ValidatorAssumption ==
    /\ Base \in Int /\ Limit \in Int /\ Base < Limit
    /\ Align \in Nat \ {0}
    /\ IsBundle(Base) /\ IsBundle(Limit)
    /\ Addr \subseteq Space /\ Limit \in Space /\ Space \subseteq Int
    /\ Insts \subseteq Inst /\ NewInsts \subseteq Inst

VARIABLES
    stub_out,       \* nap->validator_stub_out_mode
    f_386,          \* cpufeatures.f_386: the CPU has CPUID
    phase,          \* what the service runtime is doing, see Phase
    text,           \* address -> instruction there
    new,            \* code_copy, the replacement of [lo, hi)
    changes,        \* how many instructions were changed so far
    lo, hi,         \* the range being validated or copied
    vpc,            \* mstate->vpc
    prev, prev_old, \* PreviousInst(mstate, -1), for the old code too
    vt, kt,         \* vttable and kttable: instructions seen, targets seen
    failed,         \* vstate->stats.sawfailure
    starts,         \* where instructions begin in the text (history)
    pc, reg         \* the thread: next address, and which register its
                    \* last instruction masked

options == <<stub_out, f_386>>
vstate == <<lo, hi, vpc, prev, prev_old, vt, kt, failed>>
thread == <<pc, reg>>
vars == <<options, phase, text, new, changes, vstate, starts, thread>>

Phase == {"stub", "check", "rejected", "run", "pair", "copy", "halted"}
Running == {"run", "pair", "copy", "halted"}
NoReg == -1

----------------------------------------------------------------------------
(* One pass of the validator.                                              *)

\* NCValidateInit on [l, h), and InitDecodeBuffer.
NCValidateInit(l, h) ==
    /\ lo' = l /\ hi' = h /\ vpc' = l
    /\ prev' = None /\ prev_old' = None
    /\ vt' = {} /\ kt' = {}
    /\ failed' = FALSE

InRange(a) == lo <= a /\ a < hi

\* ValidateIndirect5: the previous instruction masks the register.
Masks(p, i) == p.type = "mask" /\ p.arg = i.arg

\* BadInstructionError: the errors that stub-out mode overwrites with hlt.
BadInstruction(i) == i.type = "bad" \/ (i.type = "indirect" /\ ~Masks(prev, i))

\* RememberTP on a target outside the range.
BadTarget(i) == i.type = "direct" /\ ~InRange(i.arg) /\ ~IsBundle(i.arg)

\* ValidateCallAlignment.
BadCall(i) == i.call /\ ~IsBundle(vpc + i.len)

\* Mutant: the second half of an indirect jump stays a possible target.
SeenIndirect(i) == vt \cup {vpc}

\* RememberIP, and ForgetIP when the instruction is a masked indirect jump.
Seen(i) == IF i.type = "indirect" /\ Masks(prev, i) THEN vt ELSE vt \cup {vpc}

\* Mutant: only the first byte becomes hlt.
SquashedFirst(t, i) == [t EXCEPT ![vpc] = Hlt(1)]

\* memset to kNaClFullStop over the instruction.
Squashed(t, i) ==
    [a \in Addr |-> IF vpc <= a /\ a < vpc + i.len THEN Hlt(1) ELSE t[a]]

Decoded(t, i) == [t EXCEPT ![vpc] = i]

Squashes(i, stubbing) == i.type = "lacking" \/ (stubbing /\ BadInstruction(i))

(***************************************************************************)
(* ValidateInst on instruction i at vpc, in a buffer with contents t       *)
(* before and u after; fails is what else there is to complain about.      *)
(***************************************************************************)
ValidateInst(i, t, u, stubbing, fails) ==
    /\ u = IF Squashes(i, stubbing) THEN Squashed(t, i) ELSE Decoded(t, i)
    /\ vt' = Seen(i)
    /\ kt' = IF i.type = "direct" /\ InRange(i.arg) THEN kt \cup {i.arg} ELSE kt
    /\ failed' = (failed \/ vpc \in vt \/ BadInstruction(i) \/ BadTarget(i) \/ BadCall(i) \/ fails)
    /\ vpc' = vpc + i.len
    /\ prev' = i

\* ErrorSegmentation: the loop of the decoder ends.
ErrorSegmentation ==
    /\ failed' = TRUE
    /\ vpc' = hi
    /\ UNCHANGED <<lo, hi, prev, prev_old, vt, kt>>

(***************************************************************************)
(* NCDecodeSegment: one instruction of the module's text.                  *)
(***************************************************************************)
DecodeInst ==
    /\ phase \in {"stub", "check"}
    /\ f_386 /\ vpc < hi
    /\ \E i \in (IF text[vpc] = None THEN Insts ELSE {text[vpc]}) :
        \/ /\ vpc + i.len > hi
           /\ ErrorSegmentation
           /\ text' = Decoded(text, i)
           /\ UNCHANGED starts
        \/ /\ vpc + i.len <= hi
           /\ ValidateInst(i, text, text', phase = "stub", FALSE)
           /\ starts' = starts \cup (IF Squashes(i, phase = "stub") THEN vpc .. vpc + i.len - 1
                                     ELSE {vpc})
           /\ UNCHANGED <<lo, hi, prev_old>>
    /\ UNCHANGED <<options, phase, new, changes, thread>>

\* NCValidateSegment on a CPU without CPUID checks nothing, and fails.
BadCPU ==
    /\ phase \in {"stub", "check"}
    /\ ~f_386 /\ vpc < hi
    /\ ErrorSegmentation
    /\ UNCHANGED <<options, phase, text, new, changes, starts, thread>>

\* NCValidateFinish: whether the pass fails.
NCValidateFinish ==
    \/ failed
    \/ ~ (kt \subseteq vt)
    \/ \E a \in Addr : InRange(a) /\ IsBundle(a) /\ a \notin vt

\* The second pass of NaClValidateCode in stub-out mode, on the same data.
SecondPass ==
    /\ phase = "stub"
    /\ vpc >= hi
    /\ phase' = "check"
    /\ NCValidateInit(Base, Limit)
    /\ starts' = {}
    /\ UNCHANGED <<options, text, new, changes, thread>>

\* The end of NaClValidateCode: LOAD_OK or LOAD_VALIDATION_FAILED.
Loaded ==
    /\ phase = "check"
    /\ vpc >= hi
    /\ phase' = IF NCValidateFinish THEN "rejected" ELSE "run"
    /\ UNCHANGED <<options, text, new, changes, vstate, starts, thread>>

----------------------------------------------------------------------------
(* Replacing code: NaClTextSysDyncode_Modify.                              *)

(***************************************************************************)
(* NaClTextSysDyncode_Modify rounds the range to whole bundles and         *)
(* validates a copy of them with the change made; not in stub-out mode.    *)
(***************************************************************************)
Modify(l, h) ==
    /\ phase = "run"
    /\ changes < MaxChanges
    /\ ~stub_out
    /\ IsBundle(l) /\ IsBundle(h) /\ l < h
    /\ NCValidateInit(l, h)
    /\ phase' = "pair"
    /\ new' = [a \in Addr |-> None]
    /\ UNCHANGED <<options, text, changes, starts, thread>>

\* Mutant: an indirect jump may replace another instruction.
ReplacesAny(o, i) == FALSE

\* ValidateIndirect5Replacement: an indirect jump, before or after the
\* change, must be the same and have the same mask before it.
BadReplacement(o, i) ==
    /\ o.type = "indirect" \/ i.type = "indirect"
    /\ ~ (o = i /\ prev_old = prev)

(***************************************************************************)
(* NCDecodeSegmentPair and ValidateInstReplacement: one instruction of the *)
(* running code and of its replacement.                                    *)
(***************************************************************************)
DecodePair ==
    /\ phase = "pair"
    /\ vpc < hi
    /\ \E i \in (IF changes < MaxChanges THEN NewInsts ELSE {}) \cup {text[vpc]} :
        LET o == text[vpc] IN
        /\ \/ /\ o.len # i.len \/ vpc + i.len > hi
              /\ ErrorSegmentation
              /\ UNCHANGED new
           \/ /\ o.len = i.len
              /\ vpc + i.len <= hi
              /\ ValidateInst(i, new, new', FALSE, BadReplacement(o, i))
              /\ prev_old' = o
              /\ UNCHANGED <<lo, hi>>
        /\ changes' = IF o = i THEN changes ELSE changes + 1
    /\ UNCHANGED <<options, phase, text, starts, thread>>

\* NaClValidateCodeReplacement returns, and NCCopyCode starts over.
Validated ==
    /\ phase = "pair"
    /\ vpc >= hi
    /\ phase' = IF NCValidateFinish THEN "run" ELSE "copy"
    /\ vpc' = lo
    /\ UNCHANGED <<options, text, new, changes, lo, hi, prev, prev_old, vt, kt, failed, starts, thread>>

(***************************************************************************)
(* CopyInstruction: in one store when the processor fetches the changed    *)
(* bytes at once, else with hlt in the first byte meanwhile (module        *)
(* CopyCode).                                                              *)
(***************************************************************************)
CopyOnce ==
    /\ phase = "copy"
    /\ vpc < hi
    /\ text[vpc].len = new[vpc].len
    /\ text' = [text EXCEPT ![vpc] = new[vpc]]
    /\ vpc' = vpc + text[vpc].len
    /\ UNCHANGED <<options, phase, new, changes, lo, hi, prev, prev_old, vt, kt, failed, starts, thread>>

CopyHalt ==
    /\ phase = "copy"
    /\ vpc < hi
    /\ text[vpc].len = new[vpc].len
    /\ text[vpc] # new[vpc]
    /\ text' = [text EXCEPT ![vpc] = Hlt(@.len)]
    /\ phase' = "halted"
    /\ UNCHANGED <<options, new, changes, vstate, starts, thread>>

CopyRest ==
    /\ phase = "halted"
    /\ text' = [text EXCEPT ![vpc] = new[vpc]]
    /\ vpc' = vpc + text[vpc].len
    /\ phase' = "copy"
    /\ UNCHANGED <<options, new, changes, lo, hi, prev, prev_old, vt, kt, failed, starts, thread>>

\* The end of NCCopyCode, which returns 0 also when NCDecodeSegmentPair
\* stopped at instructions of different lengths.
Copied ==
    /\ phase = "copy"
    /\ vpc < hi => text[vpc].len # new[vpc].len
    /\ phase' = "run"
    /\ UNCHANGED <<options, text, new, changes, vstate, starts, thread>>

----------------------------------------------------------------------------
(* The thread (external: what the processor does with an instruction).     *)

\* It comes back into the text: from other validated code or from the
\* trampolines, so at a bundle.
Reenter(a) ==
    /\ pc \notin Addr
    /\ IsBundle(a)
    /\ pc' = a
    /\ reg' = NoReg

Execute ==
    /\ pc \in Addr
    /\ LET i == text[pc] IN
       \/ /\ i.type \in {"plain", "direct"}
          /\ pc' = pc + i.len
          /\ reg' = NoReg
       \/ /\ i.type = "mask"
          /\ pc' = pc + i.len
          /\ reg' = i.arg
       \/ /\ i.type = "direct"
          /\ pc' = i.arg
          /\ reg' = NoReg
       \/ /\ i.type = "indirect"
          /\ \E a \in Space : (reg = i.arg => IsBundle(a)) /\ pc' = a
          /\ reg' = NoReg

Thread ==
    /\ phase \in Running
    /\ Execute \/ \E a \in Addr : Reenter(a)
    /\ UNCHANGED <<options, phase, text, new, changes, vstate, starts>>

----------------------------------------------------------------------------
Init ==
    /\ stub_out \in BOOLEAN /\ f_386 \in BOOLEAN
    /\ phase = IF stub_out THEN "stub" ELSE "check"
    /\ text = [a \in Addr |-> None]
    /\ new = [a \in Addr |-> None]
    /\ changes = 0
    /\ lo = Base /\ hi = Limit /\ vpc = Base
    /\ prev = None /\ prev_old = None
    /\ vt = {} /\ kt = {} /\ failed = FALSE
    /\ starts = {}
    /\ pc = Limit /\ reg = NoReg

Next ==
    \/ DecodeInst \/ BadCPU \/ SecondPass \/ Loaded
    \/ \E l \in Addr, h \in Addr \cup {Limit} : Modify(l, h)
    \/ DecodePair \/ Validated
    \/ CopyOnce \/ CopyHalt \/ CopyRest \/ Copied
    \/ Thread

Spec == Init /\ [][Next]_vars

----------------------------------------------------------------------------
(* Properties.                                                             *)

TypeOK ==
    /\ phase \in Phase
    /\ \A a \in Addr : text[a] \in Inst \cup {None} /\ new[a] \in Inst \cup {None}
    /\ vpc \in lo .. hi
    /\ vt \subseteq Addr /\ kt \subseteq Addr /\ starts \subseteq Addr

Harmless == Type \ {"bad", "lacking"}

(***************************************************************************)
(* What the validator is for: in accepted text the thread only ever stands *)
(* at the start of an instruction that was decoded and found harmless, and *)
(* at an indirect jump only when its register has just been masked, and it *)
(* leaves the text only to a bundle -- whatever jumps it takes, and while  *)
(* code is being replaced under it, instruction by instruction.            *)
(***************************************************************************)
FlowSafe ==
    phase \in Running =>
        IF pc \in Addr
        THEN /\ pc \in starts
             /\ text[pc].type \in Harmless
             /\ text[pc].type = "indirect" => reg = text[pc].arg
        ELSE IsBundle(pc)

(***************************************************************************)
(* sel_validate_image.c:25: the second pass of stub-out mode finds that    *)
(* "bad instructions were indeed overwritten with allowable HLTs": it      *)
(* meets no instruction that is an error by itself, none to squash, and no *)
(* unmasked indirect jump.                                                 *)
(***************************************************************************)
StubbedOut ==
    stub_out /\ phase = "check" =>
        \A a \in starts : /\ text[a].type \in Harmless
                          /\ text[a].type = "indirect" => a \notin vt

(***************************************************************************)
(* Code replacement leaves masked indirect jumps and the masks before them *)
(* alone, so that a thread between the two is never affected.              *)
(***************************************************************************)
PairsStay ==
    [][\A a \in starts, b \in starts :
         phase \in Running /\ b = a + text[a].len /\ text[b].type = "indirect" /\ text[a].type # "halt"
            => text'[a] = text[a] /\ text'[b] = text[b]]_vars

============================================================================
