--------------------------- MODULE ValidatorProof ---------------------------
(***************************************************************************)
(* Accepted text keeps its threads on the instructions that were checked,  *)
(* for every text, bundle size, instruction set and replacement.           *)
(***************************************************************************)
EXTENDS Validator, TLAPS

Types ==
    /\ phase \in Phase
    /\ text \in [Addr -> Inst \cup {None}]
    /\ new \in [Addr -> Inst \cup {None}]
    /\ lo \in Int /\ hi \in Int /\ vpc \in Int
    /\ phase \in {"stub", "check"} => lo = Base /\ hi = Limit /\ Base <= vpc
    /\ phase \in {"pair", "copy", "halted"} =>
        lo \in Addr /\ lo < hi /\ hi <= Limit /\ IsBundle(lo) /\ IsBundle(hi)
    /\ phase \notin Running => pc = Limit

(***************************************************************************)
(* Instructions tile: where one ends the next begins.  e is where the      *)
(* decoder is, or the end.                                                 *)
(***************************************************************************)
Tiled(e) ==
    /\ starts \subseteq Addr
    /\ \A a \in starts :
        /\ text[a] \in Inst
        /\ text[a].type \in Harmless
        /\ a + text[a].len \in starts \cup {e}
        /\ a < e
    /\ \A a \in starts, b \in starts : a < b => a + text[a].len <= b

\* A masked jump comes right behind its mask.
Masked ==
    \A a \in starts, b \in starts :
        b = a + text[a].len /\ text[b].type = "indirect"
            => text[a].type = "halt" \/ Masks(text[a], text[b])

\* NCDecodeSegment has found nothing wrong so far.
CheckOK ==
    /\ Base <= vpc /\ vpc <= Limit
    /\ Tiled(vpc)
    /\ Masked
    /\ vt \subseteq starts
    /\ \A a \in starts :
        /\ a \in vt => text[a].type # "indirect"
        /\ text[a].type = "direct" => IF text[a].arg \in Addr THEN text[a].arg \in kt
                                                             ELSE IsBundle(text[a].arg)
        /\ a + text[a].len = vpc => text[a].type = "halt" \/ text[a] = prev

\* A target the thread may jump to.
Landing(t) == IF t \in Addr THEN t \in starts /\ text[t].type # "indirect" ELSE IsBundle(t)

\* Text that was accepted.
TextOK ==
    /\ Tiled(Limit)
    /\ Masked
    /\ \A a \in starts : text[a].type = "direct" => Landing(text[a].arg)
    /\ \A a \in Addr : IsBundle(a) => Landing(a)

(***************************************************************************)
(* The replacement at a, seen up to address v: of the same length unless   *)
(* it was squashed, and the same when it or the next is an indirect jump.  *)
(***************************************************************************)
PairOK(a, v) ==
    /\ new[a] \in Inst
    /\ new[a].type \in Harmless
    /\ new[a].type = "halt" \/ new[a].len = text[a].len
    /\ text[a].type = "indirect" \/ new[a].type = "indirect" => new[a] = text[a]
    /\ a + text[a].len < v /\ new[a + text[a].len].type = "indirect" => new[a] = text[a]
    /\ new[a].type = "direct" => IF InRange(new[a].arg) THEN new[a].arg \in kt
                                                       ELSE IsBundle(new[a].arg)
    /\ a \in vt => new[a].type # "indirect"

PairsOK(v) ==
    /\ vt \subseteq starts
    /\ \A a \in vt : lo <= a /\ a < v
    /\ \A a \in starts : lo <= a /\ a < v => PairOK(a, v)

\* Where NCDecodeSegmentPair is in the running code.
PairAt ==
    /\ lo <= vpc /\ vpc <= hi
    /\ vpc < hi => vpc \in starts

\* It has found nothing wrong so far.
PairOKSoFar ==
    /\ PairsOK(vpc)
    /\ vpc = lo => prev = None
    /\ \A a \in starts : lo <= a /\ a + text[a].len = vpc =>
        prev_old = text[a] /\ (prev = new[a] \/ prev.type = "lacking")

\* While NCCopyCode runs.
CopyOK ==
    /\ PairsOK(hi)
    /\ kt \subseteq vt
    /\ lo <= vpc
    /\ vpc < hi => vpc \in starts
    /\ phase = "halted" => /\ vpc < hi
                           /\ text[vpc].type = "halt"
                           /\ text[vpc].len = new[vpc].len

IInv ==
    /\ Types
    /\ phase = "check" /\ ~failed => CheckOK
    /\ phase \in Running => TextOK /\ FlowSafe
    /\ phase = "pair" => PairAt /\ (~failed => PairOKSoFar)
    /\ phase \in {"copy", "halted"} => CopyOK
-----------------------------------------------------------------------------
(* Facts about single instructions and buffers.                            *)

\* hlt is an instruction, and harmless.
LEMMA HltInst == \A n \in Nat \ {0} : Hlt(n) \in Inst /\ Hlt(n).type = "halt" /\ Hlt(n).len = n
  BY DEF Hlt, Inst, Type

\* What an instruction is.
LEMMA InstShape ==
    ASSUME NEW i \in Inst
    PROVE  i.len \in Nat \ {0} /\ i.type \in Type /\ i.arg \in Int /\ i.call \in BOOLEAN /\ i # None
  BY DEF Inst, None

-----------------------------------------------------------------------------
(* Stub-out mode.  The first pass leaves a text in which the second one    *)
(* meets the same instructions, without the ones that were overwritten.    *)

\* Where the first pass has decoded or overwritten something.
Known == {a \in Addr : text[a] # None}
Fits(a) == a + text[a].len <= Limit

\* What the first pass leaves behind up to address e: instructions that tile the
\* text, harmless ones unless the decoder stopped there, and behind their masks.
StubText(e) ==
    /\ IF f_386 THEN e # Base => Base \in Known ELSE Known = {}
    /\ \A a \in Known :
        /\ a < e
        /\ Fits(a) => text[a].type \in Harmless /\ a + text[a].len \in Known \cup {e}
        /\ a = Base /\ Fits(a) => text[a].type # "indirect"
    /\ \A a \in Known, b \in Known :
        /\ a < b => a + text[a].len <= b
        /\ b = a + text[a].len /\ Fits(b) /\ text[b].type = "indirect"
            => Masks(text[a], text[b])

\* The first pass, where the last instruction is a mask only if it is still there.
FirstOK ==
    /\ vpc <= Limit /\ StubText(vpc)
    /\ vpc = Base => prev = None
    /\ vpc < Limit => \A a \in Known : a + text[a].len <= vpc
    /\ prev.type = "mask" => \A a \in Known : a + text[a].len = vpc => text[a] = prev

\* The second pass, which walks along what the first one left.
SecondOK ==
    /\ StubText(Limit)
    /\ \/ vpc = Limit
       \/ vpc = Base /\ starts = {} /\ vt = {}
       \/ \E a \in Known : a + text[a].len = vpc /\ prev = text[a]
    /\ vt \subseteq starts /\ starts \subseteq Known
    /\ \A a \in starts : a < vpc /\ Fits(a) /\ (text[a].type = "indirect" => a \notin vt)

StubInv ==
    stub_out =>
        /\ phase = "stub" => FirstOK
        /\ phase = "check" => SecondOK

\* What is known is instructions of the text.
LEMMA KnownInst ==
    ASSUME Types, NEW a \in Known
    PROVE  /\ a \in Int /\ Base <= a /\ a < Limit
           /\ text[a] \in Inst /\ text[a].len \in Nat \ {0}
  BY InstShape, ValidatorAssumption DEF Known, Types, Addr

\* The next instruction of the first pass is new.
LEMMA FirstNew ==
    ASSUME Types, FirstOK, phase = "stub", vpc < Limit, NEW i \in Insts
    PROVE  /\ i \in Inst /\ i.len \in Nat \ {0} /\ i # None
           /\ Base \in Int /\ Limit \in Int /\ vpc \in Int /\ Base <= vpc /\ vpc \in Addr /\ vpc \notin Known
  BY ValidatorAssumption, InstShape DEF Types, Addr, FirstOK, StubText

\* The first pass decodes one more instruction and keeps it.
LEMMA FirstKeeps ==
    ASSUME Types, FirstOK, phase = "stub", vpc < Limit, NEW i \in Insts, f_386, f_386',
           text' = Decoded(text, i),
           \/ vpc + i.len > Limit /\ vpc' = Limit /\ prev' = prev
           \/ vpc + i.len <= Limit /\ vpc' = vpc + i.len /\ prev' = i /\ i.type # "lacking" /\ ~BadInstruction(i)
    PROVE  FirstOK'
<1>1. /\ i \in Inst /\ i.len \in Nat \ {0} /\ i # None
      /\ Base \in Int /\ Limit \in Int /\ vpc \in Int /\ Base <= vpc /\ vpc \in Addr /\ vpc \notin Known
    BY FirstNew, Zenon
<1>0. /\ vpc < vpc' /\ vpc' <= Limit /\ vpc' \in Int
      /\ vpc + i.len <= Limit => vpc' = vpc + i.len
    BY <1>1
<1>2. \A a \in Known : /\ a \in Int /\ Base <= a /\ a < Limit /\ a < vpc
                       /\ text[a].len \in Nat \ {0}
    BY KnownInst, Zenon DEF FirstOK, StubText
<1>3. Known' = Known \cup {vpc} /\ text'[vpc] = i /\ \A a \in Known : text'[a] = text[a]
    BY <1>1, <1>2, Zenon DEF Decoded, Known, Types
<1>4. vpc + i.len <= Limit =>
        /\ i.type \in Harmless
        /\ i.type = "indirect" => prev.type = "mask" /\ Masks(prev, i)
    BY <1>1 DEF BadInstruction, Harmless, Inst, Masks
<1>5. /\ Base \in Known'
      /\ \A a \in Known :
           /\ a < vpc'
           /\ (Fits(a))' => text'[a].type \in Harmless /\ a + text'[a].len \in Known' \cup {vpc'}
           /\ a = Base /\ (Fits(a))' => text'[a].type # "indirect"
    BY <1>3, <1>1, <1>2 DEF Fits, FirstOK, StubText
<1>6. /\ vpc < vpc'
      /\ vpc + text'[vpc].len <= Limit => text'[vpc].type \in Harmless /\ vpc + text'[vpc].len \in Known' \cup {vpc'}
      /\ vpc = Base /\ vpc + text'[vpc].len <= Limit => text'[vpc].type # "indirect"
    BY <1>0, <1>1, <1>3, <1>4 DEF FirstOK, Masks, None
<1>7. \A a \in Known :
        /\ a + text'[a].len <= vpc
        /\ vpc = a + text'[a].len /\ vpc + text'[vpc].len <= Limit /\ text'[vpc].type = "indirect"
            => Masks(text'[a], text'[vpc])
    BY <1>1, <1>2, <1>3, <1>4 DEF FirstOK, Fits
<1>8. \A a \in Known, b \in Known :
        /\ a < b => a + text'[a].len <= b
        /\ b = a + text'[a].len /\ (Fits(b))' /\ text'[b].type = "indirect"
            => Masks(text'[a], text'[b])
    BY <1>3 DEF FirstOK, StubText, Fits
<1>9. (StubText(vpc))'
    BY <1>1, <1>2, <1>3, <1>7, <1>8, <1>5, <1>6 DEF Fits, StubText
<1>. QED
    BY <1>0, <1>1, <1>2, <1>3, <1>7, <1>9 DEF FirstOK

\* The first pass overwrites an instruction.
LEMMA FirstSquashes ==
    ASSUME Types, FirstOK, phase = "stub", vpc < Limit, NEW i \in Insts, f_386, f_386',
           text' = Squashed(text, i),
           vpc + i.len <= Limit, vpc' = vpc + i.len, prev' = i,
           i.type = "lacking" \/ BadInstruction(i)
    PROVE  FirstOK'
<1>1. /\ i \in Inst /\ i.len \in Nat \ {0} /\ i # None
      /\ Base \in Int /\ Limit \in Int /\ vpc \in Int /\ Base <= vpc /\ vpc \in Addr /\ vpc \notin Known
    BY FirstNew, Zenon
<1>2. \A a \in Known : /\ a \in Int /\ Base <= a /\ a < Limit /\ a < vpc
                       /\ text[a].len \in Nat \ {0}
    BY KnownInst, Zenon DEF FirstOK, StubText
<1>3. Hlt(1).len = 1 /\ Hlt(1).type = "halt" /\ Hlt(1) # None /\ "halt" \in Harmless
    BY Zenon DEF Hlt, None, Harmless, Type
<1>4. /\ Known' = Known \cup (vpc .. vpc' - 1)
      /\ \A a \in vpc .. vpc' - 1 : text'[a] = Hlt(1)
      /\ \A a \in Known : text'[a] = text[a]
  <2>1. /\ vpc .. vpc' - 1 \subseteq Addr
        /\ \A a \in Addr : a \in vpc .. vpc' - 1 <=> vpc <= a /\ a < vpc + i.len
    BY <1>1 DEF Addr
  <2>2. \A a \in Known : a \in Addr /\ a \notin vpc .. vpc' - 1
    BY <1>1, <1>2 DEF Known
  <2>3. /\ \A a \in vpc .. vpc' - 1 : text'[a] = Hlt(1)
        /\ \A a \in Addr \ (vpc .. vpc' - 1) : text'[a] = text[a]
    BY <2>1, Zenon DEF Squashed
  <2>4. Known' = Known \cup (vpc .. vpc' - 1)
    BY <1>3, <2>1, <2>2, <2>3, Zenon DEF Known
  <2>. QED
    BY <2>2, <2>3, <2>4, Zenon
<1>5. i.type # "mask"
    BY Zenon DEF BadInstruction
<1>6. /\ Base \in Known'
      /\ \A a \in Known :
           /\ a < vpc'
           /\ (Fits(a))' => text'[a].type \in Harmless /\ a + text'[a].len \in Known' \cup {vpc'}
           /\ a = Base /\ (Fits(a))' => text'[a].type # "indirect"
      /\ \A a \in vpc .. vpc' - 1 :
           /\ a < vpc'
           /\ text'[a].type \in Harmless /\ a + text'[a].len \in Known' \cup {vpc'}
           /\ text'[a].type # "indirect"
    BY <1>1, <1>2, <1>3, <1>4 DEF FirstOK, StubText, Fits
<1>7. \A a \in Known, b \in Known :
        /\ a < b => a + text'[a].len <= b
        /\ b = a + text'[a].len /\ (Fits(b))' /\ text'[b].type = "indirect"
            => Masks(text'[a], text'[b])
    BY <1>4, Zenon DEF FirstOK, StubText, Fits
<1>8. \A a \in Known' : \A b \in vpc .. vpc' - 1 :
        /\ a < b => a + text'[a].len <= b
        /\ b < a => b + text'[b].len <= a
    BY <1>1, <1>2, <1>3, <1>4 DEF FirstOK
<1>9. \A a \in Known : a + text'[a].len <= vpc
    BY <1>1, <1>2, <1>3, <1>4, Zenon DEF FirstOK
<1>10. (StubText(vpc))'
    <2>1. \A a \in Known', b \in Known' :
            b = a + text'[a].len /\ text'[b].type = "indirect" => a \in Known /\ b \in Known
        BY <1>1, <1>2, <1>3, <1>4, <1>9
    <2>2. \A a \in Known', b \in Known' : a < b => a + text'[a].len <= b
        BY <1>4, <1>7, <1>8
    <2>. QED
        BY <1>4, <1>6, <1>7, <2>1, <2>2 DEF StubText
<1>. QED
    BY <1>1, <1>5, <1>2, <1>3, <1>4, <1>10 DEF FirstOK

\* The second pass meets the instruction that the first one left, behind its mask.
LEMMA SecondMeets ==
    ASSUME Types, SecondOK, phase = "check", f_386, vpc < Limit
    PROVE  /\ vpc \in Known
           /\ Fits(vpc) => /\ text[vpc].type \in Harmless
                           /\ text[vpc].type = "indirect" => Masks(prev, text[vpc])
  BY ValidatorAssumption DEF Types, SecondOK, StubText, Fits

\* The second pass takes one more instruction.
LEMMA SecondStep ==
    ASSUME Types, SecondOK, phase = "check", f_386, f_386', vpc < Limit, Fits(vpc),
           text' = text, vpc' = vpc + text[vpc].len, prev' = text[vpc],
           vt' = Seen(text[vpc]), starts' = starts \cup {vpc}
    PROVE  SecondOK'
  BY SecondMeets, KnownInst DEF SecondOK, StubText, Known, Fits, Seen

\* Every step keeps the invariant of the two passes.
LEMMA StubStep ==
    ASSUME Types, StubInv, [Next]_vars
    PROVE  StubInv'
<1>1. CASE DecodeInst /\ stub_out
    <2>1. /\ stub_out' = stub_out /\ f_386' = f_386 /\ phase' = phase /\ f_386 /\ vpc < Limit
          /\ phase \in {"stub", "check"} /\ hi = Limit
        BY <1>1, Zenon DEF DecodeInst, options, Types
    <2>2. PICK i \in (IF text[vpc] = None THEN Insts ELSE {text[vpc]}) :
            \/ /\ vpc + i.len > hi
               /\ ErrorSegmentation
               /\ text' = Decoded(text, i)
               /\ UNCHANGED starts
            \/ /\ vpc + i.len <= hi
               /\ ValidateInst(i, text, text', phase = "stub", FALSE)
               /\ starts' = starts \cup (IF Squashes(i, phase = "stub") THEN vpc .. vpc + i.len - 1
                                         ELSE {vpc})
        BY <1>1, Zenon DEF DecodeInst
    <2>3. CASE phase = "stub"
        BY <2>3, <2>1, <2>2, FirstKeeps, FirstSquashes, SMTT(30) DEF StubInv, Known, Addr,
            FirstOK, StubText, Types, ErrorSegmentation, ValidateInst, Squashes
    <2>4. CASE phase = "check"
        <3>1. SecondOK
            BY <1>1, <2>4, Zenon DEF StubInv
        <3>2. /\ vpc \in Known /\ i = text[vpc] /\ Decoded(text, i) = text
              /\ vpc + i.len <= Limit => Fits(vpc) /\ i.type # "lacking"
            BY <2>1, <2>2, <2>4, <3>1, SecondMeets, Zenon
            DEF Known, Types, Decoded, Fits, Harmless
        <3>3. CASE vpc + i.len > hi
            <4>1. text' = text /\ vpc' = Limit /\ vt' = vt /\ starts' = starts
                <5>1. ~(vpc + i.len <= hi)
                    BY <2>1, <3>2, <3>3, KnownInst, ValidatorAssumption
                <5>. QED
                    BY <2>1, <2>2, <3>2, <5>1, Zenon DEF ErrorSegmentation
            <4>2. \A a \in starts : a < Limit
                BY <3>1, KnownInst, Zenon DEF SecondOK
            <4>. QED
                BY <2>1, <2>4, <3>1, <4>1, <4>2, Zenon DEF StubInv, SecondOK, StubText, Known, Fits
        <3>4. CASE vpc + i.len <= hi
            <4>1. /\ text' = text /\ vpc' = vpc + i.len /\ prev' = i /\ vt' = Seen(i)
                  /\ starts' = starts \cup {vpc} /\ Fits(vpc)
                BY <2>1, <3>2, <3>4, KnownInst, ValidatorAssumption, <2>4, <2>2 DEF
                    Squashes, ValidateInst
            <4>. QED
                BY <2>1, <2>4, <3>1, <3>2, <4>1, SecondStep DEF StubInv
        <3>. QED
            BY <2>1, <2>2, <3>3, <3>4, Zenon
    <2>. QED
        BY <2>1, <2>3, <2>4, Zenon
<1>2. CASE BadCPU
    BY <1>2 DEF BadCPU, ErrorSegmentation, options, Types, StubInv, FirstOK, SecondOK,
        StubText, Known
<1>3. CASE SecondPass
    BY <1>3 DEF SecondPass, StubInv, FirstOK, StubText, Known, Fits, NCValidateInit,
        options, Types, SecondOK
<1>4. CASE UNCHANGED vars
    BY <1>4, Zenon DEF StubInv, FirstOK, SecondOK, StubText, Known, Fits, vars, options, vstate
<1>5. ASSUME ~DecodeInst, ~BadCPU, ~SecondPass, Next
      PROVE  stub_out' = stub_out /\ phase' \notin {"stub", "check"}
    BY <1>5, Zenon DEF Next, Loaded, Modify, DecodePair, Validated, CopyOnce, CopyHalt, CopyRest, Copied,
                Thread, options, Running
<1>6. DecodeInst => stub_out' = stub_out
    BY Zenon DEF DecodeInst, options
<1>. QED
    BY <1>1, <1>2, <1>3, <1>4, <1>5, <1>6, Zenon DEF StubInv

\* ValidateInst leaves a buffer of instructions, with i or hlt at vpc.
LEMMA BufferType ==
    ASSUME NEW t \in [Addr -> Inst \cup {None}], NEW i \in Inst, vpc \in Addr
    PROVE  /\ Squashed(t, i) \in [Addr -> Inst \cup {None}]
           /\ Decoded(t, i) \in [Addr -> Inst \cup {None}]
           /\ Decoded(t, i)[vpc] = i
           /\ \A a \in Addr : vpc <= a /\ a < vpc + i.len => Squashed(t, i)[a] = Hlt(1)
           /\ \A a \in Addr : a < vpc \/ a >= vpc + i.len => Squashed(t, i)[a] = t[a]
           /\ \A a \in Addr : a # vpc => Decoded(t, i)[a] = t[a]
  BY HltInst, InstShape DEF Addr, Squashed, Decoded

-----------------------------------------------------------------------------
(* The decoder.                                                            *)

\* Nothing of accepted or replaced text is claimed before the text runs.
LEMMA NotRunning ==
    ASSUME Types', phase' \in {"stub", "check", "rejected"},
           phase' = "check" /\ ~failed' => CheckOK'
    PROVE  IInv'
  BY Zenon DEF IInv, Running

\* The invariant holds before anything was validated.
LEMMA InitIInv == Init => IInv
  BY ValidatorAssumption DEF Init, Types, Phase, Running, Addr, CheckOK, Tiled, Masked,
      IInv

\* Without CPUID nothing is checked, and the verdict is failure.
LEMMA BadCPUIInv == IInv /\ BadCPU => IInv'
  BY NotRunning DEF IInv, Types, BadCPU, ErrorSegmentation, Running, thread, Addr

\* The second pass of the stub-out mode starts on the same data.
LEMMA SecondPassIInv == IInv /\ SecondPass => IInv'
  BY ValidatorAssumption DEF IInv, Types, SecondPass, NCValidateInit, Phase, Running,
      thread, Addr, CheckOK, Tiled, Masked

\* One more instruction, accepted as it is.
LEMMA CheckDecoded ==
    ASSUME Types, CheckOK, phase = "check", vpc < hi, NEW i \in Inst, vpc + i.len <= hi,
           text' = Decoded(text, i), starts' = starts \cup {vpc},
           i.type # "lacking", ~BadInstruction(i), ~BadTarget(i), vpc \notin vt,
           vt' = Seen(i), vpc' = vpc + i.len, prev' = i,
           kt' = IF i.type = "direct" /\ InRange(i.arg) THEN kt \cup {i.arg} ELSE kt
    PROVE  CheckOK'
<1>1. /\ lo = Base /\ hi = Limit /\ vpc \in Addr /\ vpc \in Int /\ Addr \subseteq Int
      /\ Base \in Int /\ Limit \in Int
      /\ \A a : a \in Addr <=> a \in Int /\ Base <= a /\ a < Limit
      /\ \A a : a \in Addr => InRange(a)
  BY ValidatorAssumption DEF Types, CheckOK, Addr, InRange
<1>2. i.len \in Nat \ {0} /\ i.arg \in Int /\ i.type \in Harmless
  BY InstShape, Zenon DEF BadInstruction, Harmless
<1>3. /\ text'[vpc] = i
      /\ \A a \in starts : a < vpc /\ a \in Addr /\ text'[a] = text[a]
      /\ vpc \notin starts
  BY <1>1, BufferType DEF Types, CheckOK, Tiled
<1>4. \A a \in starts : /\ text[a] \in Inst /\ text[a].len \in Nat \ {0} /\ text[a].arg \in Int
                        /\ text[a].type \in Harmless
                        /\ a + text[a].len \in starts \cup {vpc}
                        /\ a + text[a].len <= vpc
  BY <1>1, <1>3, InstShape DEF CheckOK, Tiled
<1>5. Tiled(vpc)'
  <2>1. \A a \in starts' : text'[a] \in Inst /\ text'[a].type \in Harmless /\ a < vpc'
    BY <1>1, <1>2, <1>3, <1>4
  <2>2. \A a \in starts' : a + text'[a].len \in starts' \cup {vpc'}
    BY <1>1, <1>2, <1>3, <1>4, Zenon
  <2>3. \A a \in starts', b \in starts' : a < b => a + text'[a].len <= b
    BY <1>1, <1>2, <1>3, <1>4 DEF CheckOK, Tiled
  <2>. QED
    BY <1>1, <1>3, <2>1, <2>2, <2>3, Zenon DEF Tiled
<1>6. Masked'
  <2>. SUFFICES ASSUME NEW a \in starts', NEW b \in starts',
                       b = a + text'[a].len, text'[b].type = "indirect"
                PROVE  text'[a].type = "halt" \/ Masks(text'[a], text'[b])
    BY DEF Masked
  <2>1. a \in starts
    BY <1>1, <1>2, <1>3
  <2>2. CASE b \in starts
    BY <1>3, <2>1, <2>2 DEF CheckOK, Masked
  <2>3. CASE b = vpc
    <3>1. text[a].type = "halt" \/ text[a] = prev
      BY <1>3, <2>1, <2>3, Zenon DEF CheckOK
    <3>2. Masks(prev, i)
      BY <1>3, <2>3, Zenon DEF BadInstruction
    <3>. QED
      BY <1>3, <2>1, <2>3, <3>1, <3>2, Zenon
  <2>. QED
    BY <2>2, <2>3, Zenon
<1>7. vt' \subseteq starts'
  BY Zenon DEF Seen, CheckOK
<1>8. ASSUME NEW a \in starts'
      PROVE  /\ a \in vt' => text'[a].type # "indirect"
             /\ text'[a].type = "direct" => IF text'[a].arg \in Addr THEN text'[a].arg \in kt'
                                                                   ELSE IsBundle(text'[a].arg)
             /\ a + text'[a].len = vpc' => text'[a].type = "halt" \/ text'[a] = prev'
    BY <1>3, <1>1, <1>2, <1>4 DEF Seen, BadInstruction, BadTarget, InRange, CheckOK
<1>. QED
  BY <1>1, <1>2, <1>5, <1>6, <1>7, <1>8 DEF CheckOK, IsBundle, Addr

\* One more instruction, of an extension the processor lacks.
LEMMA CheckSquashed ==
    ASSUME Types, CheckOK, phase = "check", vpc < hi, NEW i \in Inst, vpc + i.len <= hi,
           text' = Squashed(text, i), starts' = starts \cup (vpc .. vpc + i.len - 1),
           i.type = "lacking", vt' = Seen(i), vpc' = vpc + i.len, prev' = i, kt' = kt
    PROVE  CheckOK'
<1>1. /\ lo = Base /\ hi = Limit /\ vpc \in Addr /\ vpc \in Int /\ Addr \subseteq Int
      /\ Base \in Int /\ Limit \in Int
      /\ \A a : a \in Addr <=> a \in Int /\ Base <= a /\ a < Limit
  BY ValidatorAssumption DEF Types, CheckOK, Addr
<1>2. i.len \in Nat \ {0}
  BY InstShape, Zenon
<1> DEFINE S == vpc .. vpc + i.len - 1
<1>3. \A a \in S : a \in Addr /\ text'[a] = Hlt(1) /\ vpc <= a /\ a < vpc + i.len
    BY <1>1, <1>2, BufferType DEF Types
<1>4. \A a \in starts : a < vpc /\ a \in Addr /\ text'[a] = text[a]
  BY <1>1, BufferType DEF Types, CheckOK, Tiled
<1>5. \A a \in starts : /\ text[a] \in Inst /\ text[a].len \in Nat \ {0}
                        /\ text[a].type \in Harmless
                        /\ a + text[a].len \in starts \cup {vpc}
                        /\ a + text[a].len <= vpc
  BY <1>1, <1>4, InstShape DEF CheckOK, Tiled
<1>6. Hlt(1) \in Inst /\ Hlt(1).type = "halt" /\ Hlt(1).len = 1 /\ Hlt(1).type \in Harmless
  BY HltInst DEF Harmless, Type
<1>7. vpc \in S
  BY <1>1, <1>2
<1>8. Tiled(vpc)'
  <2>1. \A a \in starts' : text'[a] \in Inst /\ text'[a].type \in Harmless /\ a < vpc'
    BY <1>1, <1>2, <1>3, <1>4, <1>5, <1>6
  <2>2. \A a \in starts' : a + text'[a].len \in starts' \cup {vpc'}
      BY <1>2, <1>3, <1>4, <1>5, <1>6, <1>7
  <2>3. \A a \in starts', b \in starts' : a < b => a + text'[a].len <= b
    BY <1>1, <1>2, <1>3, <1>4, <1>5, <1>6 DEF CheckOK, Tiled
  <2>. QED
    BY <1>1, <1>3, <1>4, <2>1, <2>2, <2>3 DEF Tiled
<1>9. Masked'
  <2>. SUFFICES ASSUME NEW a \in starts', NEW b \in starts',
                       b = a + text'[a].len, text'[b].type = "indirect"
                PROVE  text'[a].type = "halt" \/ Masks(text'[a], text'[b])
    BY Zenon DEF Masked
  <2>1. b \in starts
    BY <1>3, <1>6, Zenon
  <2>2. CASE a \in starts
    BY <1>4, <2>1, <2>2 DEF Masked, CheckOK
  <2>3. CASE a \in S
    BY <1>3, <1>6, <2>3, Zenon
  <2>. QED
    BY <2>2, <2>3, Zenon
<1>10. vt' \subseteq starts'
  BY <1>7, Zenon DEF Seen, CheckOK
<1>11. \A a \in S : text'[a].type = "halt"
  BY <1>3, <1>6, Zenon
<1>12. \A a \in starts : a \in vt' => a \in vt
  BY <1>1, <1>4 DEF Seen
<1>13. \A a \in starts : a + text'[a].len # vpc'
  BY <1>1, <1>2, <1>4, <1>5
<1>14. \A a \in starts' :
         /\ a \in vt' => text'[a].type # "indirect"
         /\ text'[a].type = "direct" => IF text'[a].arg \in Addr THEN text'[a].arg \in kt'
                                                               ELSE IsBundle(text'[a].arg)
         /\ a + text'[a].len = vpc' => text'[a].type = "halt" \/ text'[a] = prev'
  BY <1>4, <1>11, <1>12, <1>13 DEF CheckOK
<1>. QED
  BY <1>1, <1>2, <1>8, <1>9, <1>10, <1>14 DEF CheckOK, IsBundle, Addr

\* Decoding an instruction extends the part that was checked.
LEMMA DecodeInstIInv == IInv /\ DecodeInst => IInv'
<1>. SUFFICES ASSUME IInv, DecodeInst PROVE IInv'
  BY Zenon
<1>1. Types /\ phase \in {"stub", "check"} /\ lo = Base /\ hi = Limit /\ vpc < hi
  BY Zenon DEF IInv, Types, DecodeInst
<1>2. PICK i \in (IF text[vpc] = None THEN Insts ELSE {text[vpc]}) :
        \/ /\ vpc + i.len > hi
           /\ ErrorSegmentation
           /\ text' = Decoded(text, i)
           /\ UNCHANGED starts
        \/ /\ vpc + i.len <= hi
           /\ ValidateInst(i, text, text', phase = "stub", FALSE)
           /\ starts' = starts \cup (IF Squashes(i, phase = "stub") THEN vpc .. vpc + i.len - 1
                                     ELSE {vpc})
           /\ UNCHANGED <<lo, hi, prev_old>>
  BY Zenon DEF DecodeInst
<1>3. vpc \in Addr /\ vpc \in Int /\ Base \in Int /\ Limit \in Int /\ Base < Limit
  BY <1>1, ValidatorAssumption DEF Types, Addr
<1>4. i \in Inst
  BY <1>1, <1>2, <1>3, ValidatorAssumption, Zenon DEF Types
<1>5. i.len \in Nat \ {0}
  BY <1>4, InstShape, Zenon
<1>6. text' = Squashed(text, i) \/ text' = Decoded(text, i)
  BY <1>2, Zenon DEF ValidateInst
<1>7. text' \in [Addr -> Inst \cup {None}]
  BY <1>1, <1>3, <1>4, <1>6, BufferType DEF Types
<1>8. vpc' \in Int /\ Base <= vpc' /\ lo' = lo /\ hi' = hi
    BY <1>1, <1>2, <1>5 DEF Types, ValidateInst, ErrorSegmentation
<1>9. Types'
  BY <1>1, <1>7, <1>8 DEF Types, DecodeInst, thread, Running
<1>10. ASSUME phase' = "check", ~failed' PROVE CheckOK'
  <2>1. /\ vpc + i.len <= hi
        /\ ValidateInst(i, text, text', phase = "stub", FALSE)
        /\ starts' = starts \cup (IF Squashes(i, phase = "stub") THEN vpc .. vpc + i.len - 1
                                   ELSE {vpc})
    BY <1>2, <1>10, Zenon DEF ErrorSegmentation
  <2>2. phase = "check" /\ ~failed /\ CheckOK
    BY <1>10, <2>1, Zenon DEF DecodeInst, ValidateInst, IInv
  <2>3. /\ ~ (vpc \in vt) /\ ~BadInstruction(i) /\ ~BadTarget(i)
        /\ vt' = Seen(i) /\ vpc' = vpc + i.len /\ prev' = i
        /\ kt' = IF i.type = "direct" /\ InRange(i.arg) THEN kt \cup {i.arg} ELSE kt
    BY <1>10, <2>1, Zenon DEF ValidateInst
  <2>4. CASE i.type = "lacking"
      BY <2>1, <2>4, <1>1, <1>4, <2>2, CheckSquashed, Zenon DEF ValidateInst, Squashes
  <2>5. CASE i.type # "lacking"
      BY <2>1, <2>2, <2>5, <1>1, <1>4, <2>3, CheckDecoded, Zenon DEF ValidateInst, Squashes
  <2>. QED
    BY <2>4, <2>5, Zenon
<1>. QED
  BY <1>1, <1>9, <1>10, NotRunning, Zenon DEF DecodeInst

\* NCValidateFinish is satisfied: the text may run.
LEMMA LoadedIInv == IInv /\ Loaded => IInv'
  BY ValidatorAssumption DEF IInv, Types, Loaded, Running, vstate, thread, Phase,
      NCValidateFinish, CheckOK, Addr, InRange, Tiled, Landing, TextOK, Masked, FlowSafe

-----------------------------------------------------------------------------
(* Replacing code.                                                         *)

\* What runs stays as it is while the text and the thread do.
LEMMA Frame ==
    ASSUME IInv, phase \in Running, UNCHANGED <<text, starts, pc, reg>>
    PROVE  TextOK' /\ (phase' \in Running => FlowSafe')
  BY Zenon DEF IInv, TextOK, Tiled, Masked, Landing, FlowSafe

\* A bundle in accepted text is the start of an instruction, and where one
\* before it ends at the latest.
LEMMA BundleStart ==
    ASSUME TextOK, NEW b \in Addr \cup {Limit}, IsBundle(b)
    PROVE  /\ b # Limit => b \in starts /\ text[b].type # "indirect"
           /\ \A a \in starts : a < b => a + text[a].len <= b
<1>1. b # Limit => b \in starts /\ text[b].type # "indirect"
  BY Zenon DEF TextOK, Landing
<1>2. \A a \in starts : a < b => a + text[a].len <= b
  <2>1. CASE b # Limit
    BY <1>1, <2>1, Zenon DEF TextOK, Tiled
  <2>2. CASE b = Limit
    <3>1. \A a \in starts : a + text[a].len \in Addr \cup {Limit}
      BY Zenon DEF TextOK, Tiled
    <3>. QED
      BY <2>2, <3>1, ValidatorAssumption DEF Addr
  <2>. QED
    BY <2>1, <2>2, Zenon
<1>. QED
  BY <1>1, <1>2, Zenon

\* The instructions of accepted text.
LEMMA TextInst ==
    ASSUME TextOK
    PROVE  \A a \in starts : /\ a \in Addr /\ a \in Int /\ Base <= a /\ a < Limit
                             /\ text[a] \in Inst
                             /\ text[a].len \in Nat \ {0}
                             /\ a + text[a].len \in starts \cup {Limit}
  BY InstShape, ValidatorAssumption DEF TextOK, Tiled, Addr

\* A request for a replacement starts the comparison.
LEMMA ModifyIInv == ASSUME NEW l \in Addr, NEW h \in Addr \cup {Limit}
                    PROVE  IInv /\ Modify(l, h) => IInv'
<1>. SUFFICES ASSUME IInv, Modify(l, h) PROVE IInv'
  BY Zenon
<1>1. /\ phase = "run" /\ phase' = "pair" /\ lo' = l /\ hi' = h /\ vpc' = l
      /\ vt' = {} /\ kt' = {} /\ prev' = None /\ IsBundle(l) /\ IsBundle(h) /\ l < h
      /\ UNCHANGED <<text, starts, pc, reg>>
  BY Zenon DEF Modify, NCValidateInit, thread
<1>2. l \in Int /\ h \in Int /\ h <= Limit /\ l # Limit
  BY ValidatorAssumption DEF Addr
<1>3. TextOK /\ Types
  BY <1>1, Zenon DEF IInv, Running
<1>4. Types'
  BY <1>1, <1>2, <1>3, Zenon DEF Types, Modify, Phase, Running, IsBundle
<1>5. l \in starts
  BY <1>1, <1>2, <1>3, BundleStart, Zenon
<1>6. PairAt' /\ PairOKSoFar'
  <2>1. PairsOK(vpc)'
    BY <1>1, <1>2, <1>3, TextInst DEF PairsOK
  <2>2. \A a \in starts : ~ (l <= a /\ a + text[a].len = l)
    BY <1>2, <1>3, TextInst
  <2>. QED
    BY <1>1, <1>2, <1>5, <2>1, <2>2 DEF PairOKSoFar, PairAt
<1>. QED
  BY <1>1, <1>4, <1>6, Frame, Zenon DEF IInv, Running

\* The verdict of the two passes.
LEMMA ValidatedIInv == IInv /\ Validated => IInv'
<1>. SUFFICES ASSUME IInv, Validated PROVE IInv'
  BY Zenon
<1>1. /\ phase = "pair" /\ vpc >= hi /\ vpc' = lo /\ phase' \in {"run", "copy"}
      /\ UNCHANGED <<text, new, lo, hi, vt, kt, starts, pc, reg>>
  BY Zenon DEF Validated, thread
<1>2. Types /\ TextOK /\ lo \in Addr /\ IsBundle(lo) /\ lo \in Int /\ hi \in Int /\ vpc \in Int
      /\ lo # Limit
  BY <1>1, ValidatorAssumption DEF IInv, Running, Types, Addr
<1>3. Types'
  BY <1>1, <1>2, Zenon DEF Types, Phase, Running, IsBundle
<1>4. ASSUME phase' = "copy" PROVE CopyOK'
    BY <1>4, <1>2 DEF Validated, NCValidateFinish, IInv, PairAt, PairOKSoFar, PairsOK,
        PairOK, InRange, CopyOK
<1>. QED
  BY <1>1, <1>3, <1>4, Frame DEF IInv, Running

\* One more pair of instructions, found to be exchangeable.
LEMMA PairDecoded ==
    ASSUME Types, TextOK, phase = "pair", PairAt, PairOKSoFar, vpc < hi,
           NEW i \in Inst, text[vpc].len = i.len, vpc + i.len <= hi,
           new' = IF i.type = "lacking" THEN Squashed(new, i) ELSE Decoded(new, i),
           vpc \notin vt, ~BadInstruction(i), ~BadTarget(i), ~BadReplacement(text[vpc], i),
           vt' = Seen(i), vpc' = vpc + i.len, prev' = i, prev_old' = text[vpc],
           kt' = IF i.type = "direct" /\ InRange(i.arg) THEN kt \cup {i.arg} ELSE kt,
           UNCHANGED <<lo, hi, text, starts>>
    PROVE  PairOKSoFar'
<1>1. /\ lo \in Int /\ hi \in Int /\ vpc \in Int /\ lo <= vpc /\ vpc \in starts /\ hi <= Limit
      /\ Limit \in Int /\ i.len \in Nat \ {0} /\ i.arg \in Int
  BY InstShape, ValidatorAssumption, Zenon DEF Types, PairAt
<1>2. \A a \in starts : /\ a \in Addr /\ a \in Int
                        /\ text[a] \in Inst /\ text[a].len \in Nat \ {0}
                        /\ a + text[a].len \in starts \cup {Limit}
                        /\ a < vpc => a + text[a].len <= vpc
                        /\ a > vpc => a >= vpc + i.len
  BY <1>1, TextInst, Zenon DEF TextOK, Tiled
<1>3. /\ \A a \in Addr : a < vpc => new'[a] = new[a]
      /\ i.type # "lacking" => new'[vpc] = i
      /\ i.type = "lacking" => new'[vpc] = Hlt(1)
  <2>1. new \in [Addr -> Inst \cup {None}] /\ vpc \in Addr
    BY <1>1, <1>2, Zenon DEF Types
  <2>2. CASE i.type = "lacking"
    BY <1>1, <2>1, <2>2, BufferType
  <2>3. CASE i.type # "lacking"
    BY <1>1, <2>1, <2>3, BufferType
  <2>. QED
    BY <2>2, <2>3
<1>4. Hlt(1) \in Inst /\ Hlt(1).type = "halt" /\ Hlt(1).type \in Harmless
  BY HltInst DEF Harmless, Type
<1>5. kt \subseteq kt' /\ (\A a \in starts : a # vpc /\ a \in vt' => a \in vt)
  BY Zenon DEF Seen
<1> PICK c, e : c = vpc /\ e = vpc + i.len
  BY Zenon
<1>6. PairOK(c, e)'
    BY <1>3, <1>4, InstShape DEF BadReplacement, PairOK, BadInstruction, Harmless,
        BadTarget, InRange, Seen
<1>7. ASSUME NEW a \in starts, lo <= a, a < vpc
      PROVE  PairOK(a, e)'
  <2>1. PairOK(a, vpc)
    BY <1>7, Zenon DEF PairOKSoFar, PairsOK
  <2>2. new'[a] = new[a]
    BY <1>2, <1>3, <1>7, Zenon
  <2>3. ASSUME new'[a + text[a].len].type = "indirect" PROVE new[a] = text[a]
    <3>1. CASE a + text[a].len < vpc
      <4>1. a + text[a].len \in Addr
        <5>1. vpc < Limit /\ a + text[a].len # Limit
          BY <1>1, <1>2, <3>1
        <5>. QED
          BY <1>2, <5>1, Zenon
      <4>. QED
        BY <1>3, <2>1, <2>3, <3>1, <4>1, Zenon DEF PairOK
    <3>2. CASE a + text[a].len = vpc
      <4>1. i.type = "indirect"
        BY <1>3, <1>4, <2>3, <3>2
      <4>2. Masks(prev, i) /\ prev_old = prev
        BY <4>1, Zenon DEF BadInstruction, BadReplacement
      <4>3. prev_old = text[a] /\ (prev = new[a] \/ prev.type = "lacking")
        BY <1>7, <3>2, Zenon DEF PairOKSoFar
      <4>. QED
        BY <4>2, <4>3, Zenon DEF Masks
    <3>3. a + text[a].len < vpc \/ a + text[a].len = vpc
      BY <1>1, <1>2, <1>7
    <3>. QED
      BY <3>1, <3>2, <3>3, Zenon
  <2>4. a \in vt' => a \in vt
    BY <1>1, <1>2, <1>5, <1>7
  <2>5. \A x : InRange(x)' <=> InRange(x)
    BY Zenon DEF InRange
  <2>. QED
    BY <1>5, <2>1, <2>2, <2>3, <2>4, <2>5, Zenon DEF PairOK
<1>8. PairsOK(vpc)'
  <2>1. vt' \subseteq starts' /\ \A a \in vt' : lo' <= a /\ a < vpc'
    BY <1>1, <1>2 DEF Seen, PairOKSoFar, PairsOK
  <2>2. \A a \in starts : lo <= a /\ a < e => a = c \/ a < vpc
    BY <1>1, <1>2
  <2>3. \A a \in starts : lo <= a /\ a < e => PairOK(a, e)'
    BY <1>6, <1>7, <2>2, Zenon
  <2>4. PairsOK(e)'
    BY <2>1, <2>3, Zenon DEF PairsOK
  <2>. QED
    BY <2>4
<1>9. \A a \in starts : lo <= a /\ a + text[a].len = vpc' => a = vpc
  BY <1>1, <1>2
<1>10. i = new'[vpc] \/ i.type = "lacking"
  BY <1>3, Zenon
<1>. QED
  BY <1>1, <1>8, <1>9, <1>10 DEF PairOKSoFar

\* Decoding a pair of instructions extends the part that was compared.
LEMMA DecodePairIInv == IInv /\ DecodePair => IInv'
<1>. SUFFICES ASSUME IInv, DecodePair PROVE IInv'
  BY Zenon
<1>1. /\ phase = "pair" /\ phase' = "pair" /\ vpc < hi
      /\ UNCHANGED <<text, starts, pc, reg>>
  BY Zenon DEF DecodePair, thread
<1>2. Types /\ TextOK /\ PairAt
  BY <1>1, Zenon DEF IInv, Running
<1>3. PICK i \in (IF changes < MaxChanges THEN NewInsts ELSE {}) \cup {text[vpc]} :
        \/ /\ ErrorSegmentation
           /\ UNCHANGED new
        \/ /\ text[vpc].len = i.len
           /\ vpc + i.len <= hi
           /\ ValidateInst(i, new, new', FALSE, BadReplacement(text[vpc], i))
           /\ prev_old' = text[vpc]
           /\ UNCHANGED <<lo, hi>>
  BY Zenon DEF DecodePair
<1>4. /\ vpc \in starts /\ vpc \in Addr /\ vpc \in Int /\ text[vpc] \in Inst
      /\ vpc + text[vpc].len \in starts \cup {Limit}
      /\ lo \in Int /\ hi \in Int /\ lo <= vpc /\ hi <= Limit /\ Limit \in Int
  BY <1>1, <1>2, TextInst, ValidatorAssumption DEF PairAt, Types
<1>5. CASE ErrorSegmentation /\ UNCHANGED new
    BY <1>1, <1>5, Frame DEF Types, ErrorSegmentation, Running, IsBundle, PairAt, IInv
<1>6. CASE /\ text[vpc].len = i.len
           /\ vpc + i.len <= hi
           /\ ValidateInst(i, new, new', FALSE, BadReplacement(text[vpc], i))
           /\ prev_old' = text[vpc]
           /\ UNCHANGED <<lo, hi>>
  <2>1. i \in Inst /\ i.len \in Nat \ {0}
    BY <1>3, <1>4, ValidatorAssumption, InstShape, Zenon
  <2>2. /\ new' = IF i.type = "lacking" THEN Squashed(new, i) ELSE Decoded(new, i)
        /\ vt' = Seen(i) /\ vpc' = vpc + i.len /\ prev' = i
        /\ kt' = IF i.type = "direct" /\ InRange(i.arg) THEN kt \cup {i.arg} ELSE kt
    BY <1>6, Zenon DEF ValidateInst, Squashes
  <2>3. new' \in [Addr -> Inst \cup {None}]
    BY <1>2, <1>4, <2>1, <2>2, BufferType, Zenon DEF Types
  <2>4. Types'
    BY <1>1, <1>2, <1>4, <1>6, <2>1, <2>2, <2>3 DEF Types, Running, IsBundle
  <2>5. PairAt'
    <3>1. /\ vpc' = vpc + i.len /\ text[vpc].len = i.len /\ vpc + i.len <= hi
          /\ lo' = lo /\ hi' = hi
      BY <1>6, <2>2, Zenon
    <3>2. vpc' \in Int /\ lo <= vpc' /\ vpc' <= hi
      BY <1>4, <2>1, <3>1
    <3>. QED
      BY <1>1, <1>4, <3>1, <3>2 DEF PairAt
  <2>6. ASSUME ~failed' PROVE PairOKSoFar'
    <3>1. /\ ~failed /\ vpc \notin vt /\ ~BadInstruction(i) /\ ~BadTarget(i)
          /\ ~BadReplacement(text[vpc], i)
      BY <1>6, <2>6, Zenon DEF ValidateInst
    <3>2. PairOKSoFar
      BY <1>1, <3>1 DEF IInv
    <3>. QED
      BY <1>1, <1>2, <1>6, <2>1, <2>2, <3>1, <3>2, PairDecoded, Zenon
  <2>. QED
    BY <1>1, <2>4, <2>5, <2>6, Frame, Zenon DEF IInv, Running
<1>. QED
  BY <1>3, <1>5, <1>6, Zenon

\* An indirect jump and the instruction before it have no other replacement.
LEMMA PairKept ==
    ASSUME Types, TextOK, PairsOK(hi), phase \in {"copy", "halted"},
           vpc \in starts, lo <= vpc, vpc < hi,
           NEW a \in starts, NEW b \in starts, b = a + text[a].len, text[b].type = "indirect"
    PROVE  a = vpc \/ b = vpc => new[vpc] = text[vpc]
  BY TextInst, ValidatorAssumption, BundleStart DEF Types, Addr, PairsOK, PairOK

\* One instruction of the text replaced, by the new one or by hlt.
LEMMA Replace ==
    ASSUME Types, TextOK, FlowSafe, PairsOK(hi), kt \subseteq vt,
           phase \in {"copy", "halted"}, phase' \in Running,
           vpc \in starts, lo <= vpc, vpc < hi, NEW x \in Inst, x.len = text[vpc].len,
           x = new[vpc] \/ (x.type = "halt" /\ text[vpc] # new[vpc]),
           text' = [text EXCEPT ![vpc] = x],
           UNCHANGED <<starts, new, lo, hi, vt, kt, pc, reg>>
    PROVE  TextOK' /\ FlowSafe' /\ PairsOK(hi)'
<1>1. \A a \in starts : /\ a \in Addr /\ a \in Int
                        /\ text[a] \in Inst /\ text[a].len \in Nat \ {0}
                        /\ a + text[a].len \in starts \cup {Limit}
  BY TextInst
<1>2. /\ lo \in Int /\ hi \in Int /\ vpc \in Int /\ vpc \in Addr
      /\ hi \in Addr \cup {Limit} /\ IsBundle(hi)
  BY <1>1, ValidatorAssumption DEF Types, Addr
<1>3. /\ text'[vpc] = x
      /\ \A a \in starts : a # vpc => text'[a] = text[a]
      /\ \A a \in starts : text'[a].len = text[a].len
  BY <1>1, <1>2, Zenon DEF Types
<1>4. PairOK(vpc, hi)
  BY Zenon DEF PairsOK
<1>5. x.type \in Harmless
  BY <1>4 DEF PairOK, Harmless, Type
<1>6. x.type = "indirect" \/ text[vpc].type = "indirect" => x = text[vpc]
  BY <1>4, Zenon DEF PairOK
<1>7. \A a \in starts : text'[a].type = "indirect" <=> text[a].type = "indirect"
  BY <1>3, <1>6
<1>8. Tiled(Limit)'
  BY <1>3, <1>5 DEF TextOK, Tiled
<1>9. Masked'
    BY <1>6, PairKept DEF Masked, TextOK
<1>10. ASSUME NEW t, Landing(t) PROVE Landing(t)'
  BY <1>7, <1>10, Zenon DEF Landing
<1>11. \A a \in Addr : IsBundle(a) => Landing(a)
  BY Zenon DEF TextOK
<1>12. x.type = "direct" => Landing(x.arg)
    BY <1>1, <1>11 DEF PairOK, PairsOK, Landing
<1>13. TextOK'
    BY <1>12, <1>10, <1>8, <1>9 DEF TextOK
<1>14. FlowSafe'
  BY <1>3, <1>5, <1>6 DEF FlowSafe, Running
<1>15. PairsOK(hi)'
    BY DEF PairsOK, InRange, PairOK
<1>. QED
  BY <1>13, <1>14, <1>15, Zenon

\* What the copying steps start from.
LEMMA Copying ==
    ASSUME IInv, phase \in {"copy", "halted"}, vpc < hi
    PROVE  /\ Types /\ TextOK /\ FlowSafe /\ CopyOK /\ PairsOK(hi) /\ kt \subseteq vt
           /\ lo <= vpc /\ lo \in Int /\ hi \in Int /\ vpc \in Int /\ hi <= Limit /\ Limit \in Int
           /\ vpc \in starts /\ text[vpc] \in Inst /\ new[vpc] \in Inst
           /\ text[vpc].len \in Nat \ {0}
           /\ vpc + text[vpc].len \in starts \cup {Limit}
  BY ValidatorAssumption, TextInst, Zenon DEF IInv, Running, CopyOK, Types, PairsOK, PairOK

\* An accepted instruction is stored at once.
LEMMA CopyOnceIInv == IInv /\ CopyOnce => IInv'
<1>. SUFFICES ASSUME IInv, CopyOnce PROVE IInv'
  BY Zenon
<1>1. /\ phase = "copy" /\ phase' = "copy" /\ vpc < hi /\ text[vpc].len = new[vpc].len
      /\ text' = [text EXCEPT ![vpc] = new[vpc]] /\ vpc' = vpc + text[vpc].len
      /\ UNCHANGED <<starts, new, lo, hi, vt, kt, pc, reg>>
  BY Zenon DEF CopyOnce, thread
<1>2. TextOK' /\ FlowSafe' /\ PairsOK(hi)'
  BY <1>1, Copying, Replace, Zenon DEF Running
<1>3. Types'
  <2>1. Types /\ text' \in [Addr -> Inst \cup {None}]
    BY <1>1, Copying, Zenon DEF Types
  <2>2. vpc' \in Int
    BY <1>1, Copying
  <2>. QED
    BY <1>1, <2>1, <2>2, Zenon DEF Types, Running, IsBundle
<1>4. CopyOK'
  BY <1>1, <1>2, Copying DEF CopyOK
<1>. QED
  BY <1>1, <1>2, <1>3, <1>4, Zenon DEF IInv

\* Or a halt goes over it first.
LEMMA CopyHaltIInv == IInv /\ CopyHalt => IInv'
<1>. SUFFICES ASSUME IInv, CopyHalt PROVE IInv'
  BY Zenon
<1>1. /\ phase = "copy" /\ phase' = "halted" /\ vpc < hi /\ text[vpc].len = new[vpc].len
      /\ text[vpc] # new[vpc]
      /\ text' = [text EXCEPT ![vpc] = Hlt(text[vpc].len)] /\ vpc' = vpc
      /\ UNCHANGED <<starts, new, lo, hi, vt, kt, pc, reg>>
  BY Zenon DEF CopyHalt, thread, vstate
<1> DEFINE x == Hlt(text[vpc].len)
<1>2. x \in Inst /\ x.type = "halt" /\ x.len = text[vpc].len
  BY <1>1, Copying, HltInst
<1> HIDE DEF x
<1>3. text' = [text EXCEPT ![vpc] = x]
  BY <1>1 DEF x
<1>4. TextOK' /\ FlowSafe' /\ PairsOK(hi)'
  BY <1>1, <1>2, <1>3, Copying, Replace, Zenon DEF Running
<1>5. Types' /\ text'[vpc] = x
  BY <1>1, <1>2, <1>3, Copying, TextInst DEF Types, Running, Phase, IsBundle
<1>6. CopyOK'
  BY <1>1, <1>2, <1>4, <1>5, Copying, Zenon DEF CopyOK
<1>. QED
  BY <1>1, <1>4, <1>5, <1>6 DEF IInv

\* Then the rest of it.
LEMMA CopyRestIInv == IInv /\ CopyRest => IInv'
<1>. SUFFICES ASSUME IInv, CopyRest PROVE IInv'
  BY Zenon
<1>1. /\ phase = "halted" /\ phase' = "copy"
      /\ text' = [text EXCEPT ![vpc] = new[vpc]] /\ vpc' = vpc + text[vpc].len
      /\ UNCHANGED <<starts, new, lo, hi, vt, kt, pc, reg>>
  BY Zenon DEF CopyRest, thread
<1>2. vpc < hi /\ text[vpc].len = new[vpc].len
  BY <1>1, Zenon DEF IInv, CopyOK
<1>3. TextOK' /\ FlowSafe' /\ PairsOK(hi)'
  BY <1>1, <1>2, Copying, Replace, Zenon DEF Running
<1>4. Types'
  <2>1. Types /\ text' \in [Addr -> Inst \cup {None}]
    BY <1>1, <1>2, Copying, Zenon DEF Types
  <2>2. vpc' \in Int
    BY <1>1, <1>2, Copying
  <2>. QED
    BY <1>1, <2>1, <2>2 DEF Types, Running, Phase, IsBundle
<1>5. CopyOK'
  BY <1>1, <1>2, <1>3, Copying DEF CopyOK
<1>. QED
  BY <1>1, <1>3, <1>4, <1>5, Zenon DEF IInv

\* The copying ends at the end of the range, or where the lengths differ.
LEMMA CopiedIInv == IInv /\ Copied => IInv'
  BY Frame DEF Copied, vstate, thread, IInv, Types, Running, Phase

-----------------------------------------------------------------------------
(* The thread.                                                             *)

\* The instruction behind one that falls through.
LEMMA FallThrough ==
    ASSUME TextOK, NEW a \in starts, text[a].type # "halt"
    PROVE  LET b == a + text[a].len IN
           IF b \in Addr
           THEN b \in starts /\ text[b].type \in Harmless
                /\ (text[b].type = "indirect" => Masks(text[a], text[b]))
           ELSE IsBundle(b)
  BY TextInst, ValidatorAssumption DEF Addr, TextOK, Tiled, Masked

\* A thread that runs checked text stays on checked instructions.
LEMMA ThreadFlow ==
    ASSUME TextOK, FlowSafe, phase \in Running, Thread
    PROVE  FlowSafe'
  BY FallThrough DEF Thread, FlowSafe, IsBundle, Landing, TextOK, Tiled, Reenter,
      Execute, Masks

\* Nothing changes but the thread.
LEMMA OnlyThread ==
    ASSUME IInv, phase \in Running => FlowSafe', phase \notin Running => pc' = pc,
           UNCHANGED <<phase, text, new, lo, hi, vpc, prev, prev_old, vt, kt, failed, starts>>
    PROVE  IInv'
  BY ZenonT(40) DEF IInv, Types, TextOK, Tiled, Masked, Landing, CheckOK, PairAt, PairsOK,
      PairOK, InRange, PairOKSoFar, CopyOK

\* The step of a thread keeps the invariant.
LEMMA ThreadIInv == IInv /\ Thread => IInv'
  BY ThreadFlow, OnlyThread, Zenon DEF Thread, vstate, IInv

-----------------------------------------------------------------------------
\* Every step keeps the invariant.
LEMMA NextIInv == IInv /\ [Next]_vars => IInv'
<1>. SUFFICES ASSUME IInv, [Next]_vars PROVE IInv'
  BY Zenon
<1>1. CASE UNCHANGED vars
    BY <1>1, Frame, OnlyThread, Zenon DEF vars, vstate, thread
<1>2. CASE Next
  BY Zenon, <1>2, DecodeInstIInv, BadCPUIInv, SecondPassIInv, LoadedIInv, ModifyIInv, DecodePairIInv,
     ValidatedIInv, CopyOnceIInv, CopyHaltIInv, CopyRestIInv, CopiedIInv, ThreadIInv DEF Next
<1>. QED
  BY <1>1, <1>2

(***************************************************************************)
(* Whatever text NaClValidateCode accepts, a thread in it executes only    *)
(* instructions that were decoded and found harmless, jumps through a      *)
(* register only right behind its mask, and leaves only to bundles -- also *)
(* while NaClTextSysDyncode_Modify replaces code under it.                 *)
(***************************************************************************)
THEOREM FlowStays == Spec => []FlowSafe
<1>1. IInv => FlowSafe
  BY Zenon DEF IInv, FlowSafe
<1>. QED
  BY <1>1, InitIInv, NextIInv, PTL DEF Spec

(***************************************************************************)
(* No replacement changes a masked indirect jump or its mask.              *)
(***************************************************************************)
THEOREM JumpsKept == Spec => PairsStay
<1>1. ASSUME IInv, [Next]_vars, NEW a \in starts, NEW b \in starts,
             phase \in Running, b = a + text[a].len, text[b].type = "indirect", text[a].type # "halt"
      PROVE  text'[a] = text[a] /\ text'[b] = text[b]
  <2>1. a \in Addr /\ b \in Addr /\ text \in [Addr -> Inst \cup {None}]
    BY <1>1, TextInst DEF IInv, Types
  <2>2. CASE text' = text
    BY <2>2, Zenon
  <2>3. CASE CopyOnce
      BY <2>3, <1>1, Copying, PairKept DEF CopyOnce
  <2>4. CASE CopyHalt
      BY <2>4, <1>1, Copying, PairKept DEF CopyHalt
  <2>5. CASE CopyRest
      BY <1>1, <2>5 DEF CopyRest, IInv, CopyOK
  <2>6. [Next]_vars => text' = text \/ CopyOnce \/ CopyHalt \/ CopyRest
    BY <1>1, Zenon DEF Next, vars, Running, DecodeInst, BadCPU, SecondPass, Loaded, Modify, DecodePair,
                Validated, Copied, Thread
  <2>. QED
    BY <1>1, <2>2, <2>3, <2>4, <2>5, <2>6, Zenon
<1>2. IInv /\ [Next]_vars =>
        [\A a \in starts, b \in starts :
           phase \in Running /\ b = a + text[a].len /\ text[b].type = "indirect" /\ text[a].type # "halt"
              => text'[a] = text[a] /\ text'[b] = text[b]]_vars
  BY <1>1, Zenon
<1>. QED
  BY <1>2, InitIInv, NextIInv, PTL DEF Spec, PairsStay

(***************************************************************************)
(* The second pass of NaClValidateCode in stub-out mode meets nothing that *)
(* the first one should have overwritten, whatever the text.               *)
(***************************************************************************)
THEOREM StubsHold == Spec => []StubbedOut
<1>1. Init => StubInv
    BY ValidatorAssumption DEF Init, StubInv, FirstOK, StubText, Known, None
<1>2. StubInv => StubbedOut
    BY Zenon DEF StubInv, SecondOK, StubText, StubbedOut
<1>3. IInv /\ StubInv /\ [Next]_vars => StubInv'
    BY StubStep, Zenon DEF IInv
<1>. QED
    BY <1>1, <1>2, <1>3, InitIInv, NextIInv, PTL DEF Spec

=============================================================================
