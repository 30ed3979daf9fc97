----------------------------- MODULE DescHandles -----------------------------
(***************************************************************************)
(* The handles of the host: every step of DescTable but those of a         *)
(* transfer keeps each open handle owned by one object or one call.        *)
(***************************************************************************)
EXTENDS DescInv, TLAPS

\* No handle, object or place is confused with the values that mean none.
LEMMA Kinds ==
  /\ 0 \notin Handle /\ NoHandle = 0
  /\ Invalid \notin Obj /\ Null \notin Obj /\ Invalid # Null
  /\ \A o \in Obj : o # Invalid
  /\ 0 \in Place /\ 1 .. MaxDesc \subseteq Place
BY DescAssumption DEF Handle, NoHandle, Invalid, Null, Obj, Place

\* The entries of a message are a kind with a resource.
LEMMA MessageEntry ==
  ASSUME NEW m \in Messages, NEW i \in Nat, i >= 1, i <= Len(m)
  PROVE  /\ Len(m) \in Nat /\ Len(m) <= MaxDesc /\ m \in Seq(Tagged)
         /\ m[i] = [tag |-> m[i].tag, res |-> m[i].res]
         /\ m[i].tag \in Kind \cup {"invalid"} /\ m[i].res \in Res \cup {NoRes}
         /\ Owns(m[i].tag) => m[i].res # NoRes
         /\ m[i].tag = "invalid" => m[i].res = NoRes
<1>1. m \in Seq(Tagged) /\ m[i] \in Tagged
  BY DEF Messages
<1>2. /\ m[i] = [tag |-> m[i].tag, res |-> m[i].res]
      /\ m[i].tag \in Kind \cup {"invalid"} /\ m[i].res \in Res \cup {NoRes}
  BY <1>1, Zenon DEF Tagged
<1> QED
  BY <1>1, <1>2 DEF Messages

\* A reference that was in place before the step still designates the same.
LEMMA EntryKept ==
  ASSUME Good, Kept, ObjectsKept, NEW u \in Thread, NEW p \in Place,
         local[u][p] # Null, local'[u][p] = local[u][p]
  PROVE  Entry(local[u][p])' = Entry(local[u][p])
<1>1. local[u][p] \in Obj \cup {Invalid}
  BY DEF Good, IInv, TypeInv
<1>2. CASE local[u][p] = Invalid
  BY <1>2, Zenon DEF Entry
<1>3. CASE local[u][p] \in Obj
  <2>1. refs[local[u][p]] > 0 /\ refs'[local[u][p]] > 0
    BY <1>3, Zenon DEF Good, Kept, Alive
  <2>2. /\ obj'[local[u][p]] = obj[local[u][p]]
        /\ Owns(obj[local[u][p]].kind) =>
             host'[obj[local[u][p]].h] = host[obj[local[u][p]].h]
    BY <1>3, <2>1, Zenon DEF ObjectsKept
  <2> QED
    BY <2>2, Zenon DEF Entry, ResOf
<1> QED
  BY <1>1, <1>2, <1>3, Zenon

\* A step of one thread leaves the calls of the others right.
LEMMA OthersRight ==
  ASSUME Good, Kept, ObjectsKept, NEW t \in Thread, Only(t), WaitingKept(t), CallRight(t)'
  PROVE  \A u \in Thread : CallRight(u)'
<1> SUFFICES ASSUME NEW u \in Thread, u # t PROVE CallRight(u)'
  BY Zenon
<1>1. call'[u] = call[u] /\ local'[u] = local[u] /\ CallRight(u)
  BY DEF Only, Good
<1>2. FieldsOK(call[u], local[u])'
  BY <1>1, Zenon DEF CallRight, FieldsOK
<1>3. HandlesMatch(u)'
  <2> SUFFICES ASSUME call[u].pc = "internalize"
               PROVE  \E w \in [1 .. Len(call[u].kern) -> 1 .. Len(call[u].msg)] :
                        /\ InOrder(call[u], w)
                        /\ \A j \in 1 .. Len(call[u].kern) :
                             host'[call[u].kern[j]] = call[u].msg[w[j]].res
    BY <1>1 DEF HandlesMatch
  <2>1. PICK w \in [1 .. Len(call[u].kern) -> 1 .. Len(call[u].msg)] :
          /\ InOrder(call[u], w)
          /\ \A j \in 1 .. Len(call[u].kern) : host[call[u].kern[j]] = call[u].msg[w[j]].res
    BY <1>1, Zenon DEF CallRight, HandlesMatch
  <2>2. \A j \in 1 .. Len(call[u].kern) : host'[call[u].kern[j]] = host[call[u].kern[j]]
    BY Zenon DEF WaitingKept, Waiting, Kern
  <2> QED
    BY <2>1, <2>2
<1>4. MadeRight(u)'
  <2> SUFFICES ASSUME NEW p \in 1 .. MaxDesc, p <= Len(call[u].msg), local[u][p] # Null
               PROVE  Entry(local[u][p])' = call[u].msg[p]
    BY <1>1, Zenon DEF MadeRight
  <2>1. p \in Place
    BY Kinds
  <2>2. Entry(local[u][p]) = call[u].msg[p]
    BY <1>1, Zenon DEF CallRight, MadeRight
  <2> QED
    BY <1>1, <2>1, <2>2, EntryKept, Zenon
<1> QED
  BY <1>2, <1>3, <1>4, Zenon DEF CallRight

\* A step that touches neither objects nor handles, nor another thread's call.
LEMMA QuietGood ==
  ASSUME Good, Kept, NEW t \in Thread, Only(t), SameOwners,
         call'[t].kern = call[t].kern, CallRight(t)'
  PROVE  Good'
<1>1. \A u \in Thread : Kern(u)' = Kern(u) /\ Waiting(u)' = Waiting(u)
  BY Zenon DEF Only, Kern, Waiting
<1>2. \A o \in Obj : Owner(o)' <=> Owner(o)
  BY Zenon DEF SameOwners, Owner
<1>3. HostTypes'
  BY Zenon DEF Good, HostTypes, SameOwners
<1>4. OwnedOpen' /\ OwnedOnce'
  BY <1>2, Zenon DEF Good, OwnersOK, OwnedOpen, OwnedOnce, SameOwners
<1>5. KernOpen' /\ KernOnce'
  BY <1>1 DEF Good, OwnersOK, KernOpen, KernOnce, SameOwners
<1>6. KernApart' /\ AllOwned'
  BY <1>1, <1>2 DEF Good, OwnersOK, KernApart, AllOwned, SameOwners
<1>7. \A u \in Thread : CallRight(u)'
  BY OthersRight, Zenon DEF ObjectsKept, WaitingKept, SameOwners
<1> QED
  BY <1>3, <1>4, <1>5, <1>6, <1>7 DEF Good, Kept, OwnersOK

\* Calls without a message.
LEMMA PlainGood ==
  ASSUME Good, Kept, NEW t \in Thread, NEW c,
         call' = [call EXCEPT ![t] = c],
         \A u \in Thread \ {t} : local'[u] = local[u],
         SameOwners, call[t].pc \notin {"internalize", "close"},
         c.pc # "internalize", c.kern = <<>>, c.msg = <<>>, FieldsOK(c, local'[t])
  PROVE  Good'
<1>1. DOMAIN call = Thread /\ FieldsOK(call[t], local[t])
  BY Zenon DEF Good, IInv, CallsOK, CallRight
<1>2. Only(t) /\ call'[t] = c
  BY <1>1, Zenon DEF Only
<1>3. call'[t].kern = call[t].kern
  BY <1>1, <1>2, Zenon DEF FieldsOK
<1>4. CallRight(t)'
  BY <1>2, DescAssumption DEF CallRight, HandlesMatch, MadeRight
<1> QED
  BY <1>2, <1>3, <1>4, QuietGood, Zenon

\* The call record of every stage without a message.
LEMMA Records ==
  /\ Idle.kern = <<>> /\ Idle.msg = <<>> /\ Idle.pc = "idle" /\ Idle.i = 1
  /\ <<>> \in Seq(Handle) /\ Len(<<>>) = 0 /\ <<>> \in Messages
  /\ \A l : FieldsOK(Idle, l) /\ FieldsOK([Idle EXCEPT !.pc = "drop"], l)
<1>1. <<>> \in Seq(Handle) /\ Len(<<>>) = 0 /\ <<>> \in Messages /\ Len(<<>>) <= MaxDesc
  BY DescAssumption DEF Messages
<1>2. Idle.kern = <<>> /\ Idle.msg = <<>> /\ Idle.pc = "idle" /\ Idle.i = 1
  BY Zenon DEF Idle
<1>3. \A l : FieldsOK(Idle, l)
  BY <1>1, <1>2 DEF FieldsOK
<1>4. \A l : FieldsOK([Idle EXCEPT !.pc = "drop"], l)
  BY <1>1, <1>2 DEF FieldsOK, Idle
<1> QED
  BY <1>1, <1>2, <1>3, <1>4

\* One reference more to an object that has one.
LEMMA OneMore ==
  ASSUME Good, NEW x \in Obj \cup {Invalid}, x \in Obj => refs[x] > 0,
         refs' = [refs EXCEPT ![x] = refs[x] + 1]
  PROVE  \A o \in Obj : refs'[o] > 0 <=> refs[o] > 0
BY DEF Good, IInv, TypeInv

\* The start of a call that looks up a descriptor.
LEMMA EnterGood ==
  ASSUME Good, Kept, NEW t \in Thread, NEW d \in Slot, NEW c, Enter(t, d, c),
         UNCHANGED faulted, c.pc # "internalize", c.kern = <<>>, c.msg = <<>>,
         \A l : FieldsOK(c, l)
  PROVE  Good'
<1>1. desc_tbl[d] \in Obj /\ refs[desc_tbl[d]] > 0
  BY Zenon DEF Enter, GetDesc, Good, IInv, TypeInv, Alive
<1>2. \A o \in Obj : refs'[o] > 0 <=> refs[o] > 0
  BY <1>1, OneMore, Zenon DEF Enter, GetDesc, Ref
<1>3. SameOwners
  BY <1>2, Zenon DEF SameOwners, Enter, Good, HostTypes
<1>4. \A u \in Thread \ {t} : local'[u] = local[u]
  BY Zenon DEF Enter, GetDesc, Good, IInv, TypeInv
<1> QED
  BY <1>3, <1>4, PlainGood, Zenon DEF Enter

\* The same, for every system call that starts with a descriptor.
LEMMA EntersGood ==
  ASSUME Good, Kept, NEW t \in Thread, NEW d \in Slot, UNCHANGED faulted,
         \/ EnterUse(t, d)
         \/ \E v \in SendArgs : EnterSend(t, d, v)
         \/ \E n \in RecvArgs : EnterRecv(t, d, n)
         \/ \E e \in Slot : EnterWait(t, d, e)
         \/ EnterConnect(t, d, [kind |-> "imc", res |-> "C"])
  PROVE  Good'
<1>1. CASE EnterUse(t, d)
  BY <1>1, Records, EnterGood, Zenon DEF EnterUse, Idle
<1>2. ASSUME NEW v \in SendArgs, EnterSend(t, d, v) PROVE Good'
  <2> DEFINE c == [Idle EXCEPT !.pc = "gather", !.op = "send", !.descv = v]
  <2>1. c.pc = "gather" /\ c.kern = <<>> /\ c.msg = <<>> /\ c.i = 1 /\ c.descv = v
    BY Zenon DEF Idle
  <2>2. v \in Seq(Slot \cup {Invalid})
    BY DescAssumption, Zenon
  <2>3. Enter(t, d, c)
    BY <1>2, Zenon DEF EnterSend
  <2> HIDE DEF c
  <2>4. \A l : FieldsOK(c, l)
    BY <2>1, <2>2, Records, DescAssumption DEF FieldsOK
  <2> QED
    BY <2>1, <2>3, <2>4, EnterGood, Zenon
<1>3. ASSUME NEW n \in RecvArgs, EnterRecv(t, d, n) PROVE Good'
  <2> DEFINE c == [Idle EXCEPT !.pc = "recv", !.op = "recv", !.len = n]
  <2>1. c.pc = "recv" /\ c.kern = <<>> /\ c.msg = <<>> /\ c.i = 1
    BY Zenon DEF Idle
  <2>2. Enter(t, d, c)
    BY <1>3, Zenon DEF EnterRecv
  <2> HIDE DEF c
  <2>3. \A l : FieldsOK(c, l)
    BY <2>1, Records, DescAssumption, Zenon DEF FieldsOK
  <2> QED
    BY <2>1, <2>2, <2>3, EnterGood, Zenon
<1>4. ASSUME NEW e \in Slot, EnterWait(t, d, e) PROVE Good'
  <2> DEFINE c == [Idle EXCEPT !.pc = "gather", !.op = "wait", !.descv = <<e>>]
  <2>1. c.pc = "gather" /\ c.kern = <<>> /\ c.msg = <<>> /\ c.i = 1 /\ c.descv = <<e>>
    BY Zenon DEF Idle
  <2>2. <<e>> \in Seq(Slot \cup {Invalid})
    OBVIOUS
  <2>3. Enter(t, d, c)
    BY <1>4, Zenon DEF EnterWait
  <2> HIDE DEF c
  <2>4. \A l : FieldsOK(c, l)
    BY <2>1, <2>2, Records, DescAssumption DEF FieldsOK
  <2> QED
    BY <2>1, <2>3, <2>4, EnterGood, Zenon
<1>5. CASE EnterConnect(t, d, [kind |-> "imc", res |-> "C"])
  <2> DEFINE a == [kind |-> "imc", res |-> "C"]
             c == [Idle EXCEPT !.pc = "make", !.op = "connect", !.makes = <<a>>]
  <2>1. c.pc = "make" /\ c.kern = <<>> /\ c.msg = <<>> /\ c.makes = <<a>>
    BY Zenon DEF Idle
  <2>2. <<a>> \in Seq(Product)
    <3>1. a \in Product
      BY Zenon DEF Product, Kind, Res, NoRes
    <3> QED
      BY <3>1
  <2>3. Enter(t, d, c)
    BY <1>5, Zenon DEF EnterConnect
  <2> HIDE DEF c
  <2>4. \A l : FieldsOK(c, l)
    BY <2>1, <2>2, Records, DescAssumption, Zenon DEF FieldsOK
  <2> QED
    BY <2>1, <2>3, <2>4, EnterGood, Zenon
<1> QED
  BY <1>1, <1>2, <1>3, <1>4, <1>5

\* The start of a call that makes descriptors.
LEMMA EnterMakeGood ==
  ASSUME Good, Kept, NEW t \in Thread, NEW a \in MakeArgs, EnterMake(t, a), UNCHANGED faulted
  PROVE  Good'
<1> DEFINE c == [Idle EXCEPT !.pc = "make", !.op = "make", !.makes = a]
<1>1. c.pc = "make" /\ c.kern = <<>> /\ c.msg = <<>> /\ c.makes = a
  BY Zenon DEF Idle
<1>2. a \in Seq(Product)
  <2> DEFINE S == [kind : Kind, res : STRING \ {NoRes}]
  <2>1. a \in Seq(S)
    BY DescAssumption, Zenon
  <2>2. \A b \in S : b.res \in Res => b \in Product
    BY Zenon DEF Product
  <2> HIDE DEF S
  <2>3. \A i \in 1 .. Len(a) : a[i] \in S /\ a[i].res \in Res
    BY <2>1 DEF Res
  <2> QED
    BY <2>1, <2>2, <2>3
<1>3. SameOwners /\ call[t].pc = "idle" /\ local' = local /\ call' = [call EXCEPT ![t] = c]
  BY Zenon DEF EnterMake, SameOwners, Good, HostTypes
<1> HIDE DEF c
<1>4. FieldsOK(c, local'[t])
  BY <1>1, <1>2, Records, DescAssumption DEF FieldsOK
<1> QED
  BY <1>1, <1>3, <1>4, PlainGood, Zenon

\* Close empties a slot; the object goes when its last reference does.
LEMMA CloseGood ==
  ASSUME Good, Kept, NEW t \in Thread, NEW d \in Slot, Close(t, d), UNCHANGED faulted
  PROVE  Good'
<1>1. SameOwners /\ call[t].pc = "idle"
  BY Zenon DEF Close, SameOwners, Good, HostTypes
<1>2. \A u \in Thread \ {t} : local'[u] = local[u]
  BY Zenon DEF Close, Good, IInv, TypeInv
<1> QED
  BY <1>1, <1>2, Records, PlainGood, Zenon DEF Close, Idle

\* Steps that only jump to the cleanup code, or to the end of the call.
LEMMA LeaveGood ==
  ASSUME Good, Kept, NEW t \in Thread, SameOwners,
         \A u \in Thread \ {t} : local'[u] = local[u],
         call[t].pc \notin {"internalize", "close"},
         Cleanup(t) \/ call' = [call EXCEPT ![t] = Idle]
  PROVE  Good'
BY Records, PlainGood DEF Cleanup, Idle

\* What a descriptor is sent as.
LEMMA EntryType ==
  ASSUME Good, NEW t \in Thread, NEW p \in Place, local[t][p] # Null
  PROVE  LET e == Entry(local[t][p])
         IN  /\ e \in Tagged
             /\ Owns(e.tag) => e.res # NoRes
             /\ e.tag = "invalid" => e.res = NoRes
<1>1. local[t][p] \in Obj \cup {Invalid}
  BY DEF Good, IInv, TypeInv
<1>2. CASE local[t][p] = Invalid
  BY <1>2, Zenon DEF Entry, Owns, Tagged
<1>3. CASE local[t][p] \in Obj
  <2> DEFINE o == local[t][p]
  <2>1. refs[o] > 0 /\ o # Invalid
    BY <1>3, Kinds DEF Good, Alive
  <2>2. obj[o].kind \in Kind /\ obj[o].addr \in Res \cup {NoRes}
    BY <1>3, Zenon DEF Good, HostTypes
  <2>3. Owns(obj[o].kind) => host[obj[o].h] \in Res \cup {NoRes} /\ host[obj[o].h] # NoRes
    BY <1>3, <2>1, Zenon DEF Good, HostTypes, OwnersOK, OwnedOpen, Owner
  <2> QED
    BY <2>1, <2>2, <2>3, Zenon DEF Entry, ResOf, Kind, Tagged
<1> QED
  BY <1>1, <1>2, <1>3, Zenon

\* What the sender gathered is a message.
LEMMA MessageType ==
  ASSUME Good, NEW t \in Thread, call[t].pc = "gather", call[t].i > Len(call[t].descv)
  PROVE  Message(t) \in Messages
<1> DEFINE v == call[t].descv
<1>1. /\ v \in Seq(Slot \cup {Invalid}) /\ Len(v) <= MaxDesc
      /\ \A j \in 1 .. Len(v) : local[t][j] # Null
  BY DEF Good, IInv, CallsOK, CallOK, IsCall, CallRight, FieldsOK
<1>2. DOMAIN v = 1 .. Len(v) /\ Len(v) \in Nat
  BY <1>1
<1>3. \A j \in 1 .. Len(v) : j \in Place
  BY <1>1, <1>2, DescAssumption DEF Place
<1>4. Message(t) = [j \in 1 .. Len(v) |-> Entry(local[t][j])]
  BY <1>2, Zenon DEF Message
<1>5. \A j \in 1 .. Len(v) :
        /\ Entry(local[t][j]) \in Tagged
        /\ Owns(Entry(local[t][j]).tag) => Entry(local[t][j]).res # NoRes
        /\ Entry(local[t][j]).tag = "invalid" => Entry(local[t][j]).res = NoRes
  BY <1>1, <1>3, EntryType, Zenon
<1> DEFINE m == [j \in 1 .. Len(v) |-> Entry(local[t][j])]
<1>6. m \in Seq(Tagged) /\ Len(m) = Len(v) /\ \A j \in 1 .. Len(v) : m[j] = Entry(local[t][j])
  BY <1>2, <1>5
<1> QED
  BY <1>1, <1>4, <1>5, <1>6 DEF Messages

\* Sending puts a message on the channel.
LEMMA SendGood ==
  ASSUME Good, Kept, NEW t \in Thread, Send(t), UNCHANGED faulted
  PROVE  Good'
<1>1. Message(t) \in Messages
  BY MessageType, Zenon DEF Send
<1>2. queue' \in [End -> Seq(Messages)]
  <2>1. CASE ResOf(local[t][0]) \in End
    <3> DEFINE f == Peer(ResOf(local[t][0]))
    <3>1. queue' = [queue EXCEPT ![f] = Append(queue[f], Message(t))]
      BY <2>1, Zenon DEF Send
    <3>2. queue \in [End -> Seq(Messages)]
      BY DEF Good, HostTypes
    <3>3. f \in End
      BY <2>1 DEF Peer, End
    <3>4. Append(queue[f], Message(t)) \in Seq(Messages)
      BY <1>1, <3>2, <3>3
    <3> QED
      BY <3>1, <3>2, <3>4, Zenon
  <2>2. CASE ResOf(local[t][0]) \notin End
    BY <2>2, Zenon DEF Send, Good, HostTypes
  <2> QED
    BY <2>1, <2>2
<1>3. SameOwners
  BY <1>2, Zenon DEF Send, SameOwners
<1> QED
  BY <1>3, LeaveGood, Zenon DEF Send

\* The end of a call.
LEMMA LeavesGood ==
  ASSUME Good, Kept, NEW t \in Thread, UNCHANGED faulted,
         NotSent(t) \/ NotReceived(t) \/ MakeFails(t) \/ Installed(t)
  PROVE  Good'
<1>1. SameOwners /\ local' = local /\ call[t].pc \notin {"internalize", "close"}
  BY Zenon DEF NotSent, NotReceived, MakeFails, Installed, SameOwners, Good, HostTypes
<1>2. Cleanup(t) \/ call' = [call EXCEPT ![t] = Idle]
  BY Zenon DEF NotSent, NotReceived, MakeFails, Installed, Cleanup
<1> QED
  BY <1>1, <1>2, LeaveGood, Zenon

\* The sender looks up one more descriptor.
LEMMA GatherGood ==
  ASSUME Good, Kept, NEW t \in Thread, Gather(t), UNCHANGED faulted
  PROVE  Good'
<1> DEFINE c == call[t]
           d == c.descv[c.i]
           k == [c EXCEPT !.i = @ + 1]
<1>1. /\ CallOK(c, local[t]) /\ FieldsOK(c, local[t])
      /\ c.pc = "gather" /\ c.i <= Len(c.descv)
      /\ UNCHANGED <<obj, host>> /\ queue' \in [End -> Seq(Messages)]
  BY Zenon DEF Gather, Good, HostTypes, IInv, CallsOK, CallRight
<1>2. c.i \in 1 .. MaxDesc /\ c.i \in Place /\ d \in Slot \cup {Invalid}
  BY <1>1, Kinds, DescAssumption DEF CallOK, IsCall
<1>3. CASE Cleanup(t) /\ UNCHANGED <<refs, local>>
  BY <1>1, <1>3, LeaveGood, Zenon DEF SameOwners
<1>4. ASSUME call' = [call EXCEPT ![t] = k],
             IF d = Invalid THEN InvalidMake(t, c.i) ELSE GetDesc(t, c.i, d)
      PROVE  Good'
  <2>1. PICK x \in Obj \cup {Invalid} : /\ local' = [local EXCEPT ![t][c.i] = x]
                                        /\ refs' = [refs EXCEPT ![x] = refs[x] + 1]
                                        /\ x \in Obj => refs[x] > 0
    BY <1>2, <1>4, Kinds, Zenon DEF InvalidMake, GetDesc, Ref, Good, IInv, TypeInv, Alive
  <2>2. SameOwners
    BY <1>1, <2>1, OneMore, Zenon DEF SameOwners
  <2>3. /\ k.pc = "gather" /\ k.kern = c.kern /\ k.msg = c.msg /\ k.descv = c.descv
        /\ k.i = c.i + 1
    BY <1>1, Zenon DEF CallOK, IsCall
  <2>4. \A u \in Thread \ {t} : local'[u] = local[u]
    BY <2>1, Zenon DEF Good, IInv, TypeInv
  <2>5. \A j \in 1 .. c.i : local'[t][j] # Null
    <3>1. local'[t] = [local[t] EXCEPT ![c.i] = x] /\ local[t] \in [Place -> Obj \cup {Null, Invalid}]
      BY <2>1, Zenon DEF Good, IInv, TypeInv
    <3>2. \A j \in 1 .. c.i - 1 : local[t][j] # Null
      BY <1>1, Zenon DEF FieldsOK
    <3>3. \A j \in 1 .. c.i : j \in Place /\ j \in Int /\ c.i \in Int
      BY <1>2, DescAssumption DEF Place
    <3>4. \A j \in 1 .. c.i : j = c.i \/ j \in 1 .. c.i - 1
      BY <1>2
    <3> QED
      BY <3>1, <3>2, <3>3, <3>4, Kinds, Zenon
  <2> HIDE DEF k
  <2>6. FieldsOK(k, local'[t]) /\ k.kern = <<>> /\ k.msg = <<>>
    BY <1>1, <1>2, <2>3, <2>5 DEF FieldsOK
  <2> QED
    BY <1>1, <1>4, <2>2, <2>3, <2>4, <2>6, PlainGood, Zenon
<1> QED
  BY <1>3, <1>4, Zenon DEF Gather

\* A step of a receive that removes local variables or adds one beyond them.
LEMMA FewerGood ==
  ASSUME Good, Kept, NEW t \in Thread, Only(t), ObjectsKept,
         \A p \in 1 .. MaxDesc : local'[t][p] = local[t][p] \/ local'[t][p] = Null,
         call'[t].msg = call[t].msg
  PROVE  MadeRight(t)'
<1> SUFFICES ASSUME NEW p \in 1 .. MaxDesc, p <= Len(call[t].msg), local'[t][p] # Null
             PROVE  Entry(local[t][p])' = call[t].msg[p]
  BY Zenon DEF MadeRight
<1>1. p \in Place /\ local'[t][p] = local[t][p] /\ local[t][p] # Null
  BY Kinds, Zenon
<1>2. Entry(local[t][p]) = call[t].msg[p]
  BY <1>1, Zenon DEF Good, CallRight, MadeRight
<1> QED
  BY <1>1, <1>2, EntryKept, Zenon

\* A descriptor is installed in a slot.
LEMMA InstallGood ==
  ASSUME Good, Kept, NEW t \in Thread, Install(t), UNCHANGED faulted
  PROVE  Good'
<1>1. call' = call /\ call[t].pc = "install" /\ SameOwners /\ ObjectsKept
  BY Zenon DEF Install, SameOwners, ObjectsKept, Good, HostTypes
<1>2. PICK p \in 1 .. MaxDesc : local' = [local EXCEPT ![t][p] = Null]
  BY Zenon DEF Install
<1>3. Only(t) /\ \A q \in 1 .. MaxDesc : local'[t][q] = local[t][q] \/ local'[t][q] = Null
  BY <1>1, <1>2, Kinds, Zenon DEF Only, Good, IInv, TypeInv, CallsOK
<1>4. FieldsOK(call[t], local[t])' /\ HandlesMatch(t)'
  BY <1>1, Zenon DEF FieldsOK, HandlesMatch, Good, CallRight
<1>5. CallRight(t)'
  BY <1>1, <1>3, <1>4, FewerGood DEF CallRight
<1> QED
  BY <1>1, <1>3, <1>5, QuietGood, Zenon

\* The invalid descriptor takes part without a handle.
LEMMA MakeInvalidGood ==
  ASSUME Good, Kept, NEW t \in Thread, MakeInvalid(t), UNCHANGED faulted
  PROVE  Good'
<1> DEFINE k == [call[t] EXCEPT !.pc = "install"]
<1>1. /\ call' = [call EXCEPT ![t] = k] /\ call[t].pc = "trunc"
      /\ local' = [local EXCEPT ![t][MaxDesc + 1] = Invalid]
      /\ refs' = [refs EXCEPT ![Invalid] = refs[Invalid] + 1]
      /\ UNCHANGED <<obj, host>> /\ queue' \in [End -> Seq(Messages)]
  BY Zenon DEF MakeInvalid, InvalidMake, Ref, Good, HostTypes
<1>2. SameOwners /\ ObjectsKept
  BY <1>1, Kinds, OneMore, Zenon DEF SameOwners, ObjectsKept
<1>3. k.pc = "install" /\ k.kern = call[t].kern /\ k.msg = call[t].msg
  BY Zenon DEF Good, IInv, CallsOK, CallOK, IsCall
<1>4. Only(t) /\ call'[t] = k
  BY <1>1, Zenon DEF Only, Good, IInv, TypeInv, CallsOK
<1> HIDE DEF k
<1>5. \A q \in 1 .. MaxDesc : local'[t][q] = local[t][q]
  BY <1>1, Kinds, DescAssumption DEF Good, IInv, TypeInv
<1>6. FieldsOK(call[t], local[t])' /\ HandlesMatch(t)'
  BY <1>1, <1>3, <1>4 DEF FieldsOK, HandlesMatch, Good, CallRight
<1>7. CallRight(t)'
  BY <1>2, <1>3, <1>4, <1>5, <1>6, FewerGood, Zenon DEF CallRight
<1> QED
  BY <1>2, <1>3, <1>4, <1>7, QuietGood

\* The handles that wait, after an entry without one.
LEMMA SkipOrder ==
  ASSUME NEW c, NEW k, NEW w, InOrder(c, w), ~Owns(c.msg[c.i].tag), c.i \in Nat,
         Len(c.msg) \in Nat, k.kern = c.kern, k.msg = c.msg, k.i = c.i + 1
  PROVE  InOrder(k, w)
<1>1. \A j \in 1 .. Len(c.kern) : w[j] \in c.i .. Len(c.msg) /\ w[j] # c.i
  BY Zenon DEF InOrder
<1>2. w \in [1 .. Len(c.kern) -> c.i + 1 .. Len(c.msg)]
  BY <1>1 DEF InOrder
<1>3. \A i \in c.i + 1 .. Len(c.msg) : i \in c.i .. Len(c.msg)
  OBVIOUS
<1>4. \A i \in c.i + 1 .. Len(c.msg) :
        Owns(c.msg[i].tag) => \E j \in 1 .. Len(c.kern) : w[j] = i
  BY <1>3, Zenon DEF InOrder
<1> QED
  BY <1>2, <1>4, Zenon DEF InOrder

\* An entry for the invalid descriptor takes no handle.
LEMMA InternalizeInvalidGood ==
  ASSUME Good, Kept, NEW t \in Thread, InternalizeInvalid(t), UNCHANGED faulted
  PROVE  Good'
<1> DEFINE c == call[t]
           k == [c EXCEPT !.i = @ + 1]
<1>1. /\ call' = [call EXCEPT ![t] = k] /\ c.pc = "internalize"
      /\ c.i <= Len(c.msg) /\ c.i <= MaxDesc /\ c.msg[c.i].tag = "invalid"
      /\ local' = [local EXCEPT ![t][c.i] = Invalid]
      /\ refs' = [refs EXCEPT ![Invalid] = refs[Invalid] + 1]
      /\ UNCHANGED <<obj, host>> /\ queue' \in [End -> Seq(Messages)]
  BY Zenon DEF InternalizeInvalid, InvalidMake, Ref, Good, HostTypes
<1>2. SameOwners /\ ObjectsKept
  BY <1>1, Kinds, OneMore, Zenon DEF SameOwners, ObjectsKept
<1>3. CallOK(c, local[t]) /\ CallRight(t)
  BY Zenon DEF Good, IInv, CallsOK
<1>4. /\ k.pc = "internalize" /\ k.kern = c.kern /\ k.msg = c.msg /\ k.i = c.i + 1
      /\ c.i \in 1 .. MaxDesc
  BY <1>1, <1>3, DescAssumption DEF CallOK, IsCall
<1>5. Only(t) /\ call'[t] = k
  BY <1>1, Zenon DEF Only, Good, IInv, TypeInv, CallsOK
<1> HIDE DEF k
<1>6. FieldsOK(call[t], local[t])'
  BY <1>1, <1>3, <1>4, <1>5, Zenon DEF FieldsOK, CallRight
<1>7. HandlesMatch(t)'
  <2>1. PICK w \in [1 .. Len(c.kern) -> 1 .. Len(c.msg)] :
          /\ InOrder(c, w)
          /\ \A j \in 1 .. Len(c.kern) : host[c.kern[j]] = c.msg[w[j]].res
    BY <1>1, <1>3, Zenon DEF CallRight, HandlesMatch
  <2>2. Len(c.msg) \in Nat /\ c.i \in Nat /\ ~Owns(c.msg[c.i].tag)
    BY <1>1, <1>3, <1>4 DEF CallRight, FieldsOK, Messages, Owns
  <2>3. InOrder(k, w)
    BY <1>4, <2>1, <2>2, SkipOrder, Zenon
  <2> QED
    BY <1>2, <1>4, <1>5, <2>1, <2>3, Zenon DEF HandlesMatch, SameOwners
<1>8. MadeRight(t)'
  <2> SUFFICES ASSUME NEW p \in 1 .. MaxDesc, p <= Len(c.msg), local'[t][p] # Null
               PROVE  Entry(local[t][p])' = c.msg[p]
    BY <1>4, <1>5 DEF MadeRight
  <2>1. p \in Place /\ c.i \in Place /\ c.msg \in Messages
    BY <1>3, <1>4, Kinds, Zenon DEF CallRight, FieldsOK
  <2>2. CASE p = c.i
    <3>1. local'[t][p] = Invalid
      BY <1>1, <2>1, <2>2 DEF Good, IInv, TypeInv
    <3>2. p \in Nat /\ p >= 1 /\ p <= Len(c.msg) /\ c.msg[p].tag = "invalid"
      BY <1>1, <1>4, <2>2, DescAssumption
    <3>3. c.msg[p] = [tag |-> "invalid", res |-> NoRes]
      BY <2>1, <3>2, MessageEntry, Zenon
    <3> QED
      BY <3>1, <3>3, Zenon DEF Entry
  <2>3. CASE p # c.i
    <3>1. local'[t][p] = local[t][p]
      BY <1>1, <2>1, <2>3, Zenon DEF Good, IInv, TypeInv
    <3>2. Entry(local[t][p]) = c.msg[p]
      BY <1>3, <3>1, Zenon DEF CallRight, MadeRight
    <3> QED
      BY <1>2, <2>1, <3>1, <3>2, EntryKept
  <2> QED
    BY <2>2, <2>3, Zenon
<1>9. CallRight(t)'
  BY <1>6, <1>7, <1>8 DEF CallRight
<1> QED
  BY <1>2, <1>4, <1>5, <1>9, QuietGood

----------------------------------------------------------------------------
(* Steps that open, close or pass on handles.                              *)

\* What a step that changes handles has to show.
LEMMA ChangeGood ==
  ASSUME Good, Kept, NEW t \in Thread, Only(t), HostTypes', OwnersOK',
         ObjectsKept, WaitingKept(t), CallRight(t)'
  PROVE  Good'
BY OthersRight, Zenon DEF Good, Kept

\* A new object takes over a handle that the host has just opened for it, or none.
LEMMA NewOwner ==
  ASSUME Good, NEW o \in Obj, NEW b \in Objects_, refs[o] = 0,
         refs' = [refs EXCEPT ![o] = 1], obj' = [obj EXCEPT ![o] = b],
         UNCHANGED <<queue, faulted>>,
         \A u \in Thread : Kern(u)' = Kern(u),
         host' \in [Handle -> Res \cup {NoRes}],
         \A h \in Handle : h # b.h => host'[h] = host[h],
         Owns(b.kind) => b.h \in Handle /\ host[b.h] = NoRes /\ host'[b.h] # NoRes,
         ~Owns(b.kind) => b.h \notin Handle
  PROVE  HostTypes' /\ OwnersOK' /\ ObjectsKept /\ \A t \in Thread : WaitingKept(t)
<1>1. /\ obj \in [Obj -> Objects_] /\ refs \in [Obj \cup {Invalid} -> Nat]
      /\ queue \in [End -> Seq(Messages)]
  BY Zenon DEF Good, HostTypes, IInv, TypeInv, Objects_
<1>2. \A u \in Thread : Waiting(u)' = Waiting(u) /\ Waiting(u) = 1 .. Len(Kern(u))
  BY Zenon DEF Waiting, Kern
<1>3. HostTypes'
  BY <1>1, Zenon DEF HostTypes, Objects_
<1>4. /\ \A p \in Obj : p # o => (Owner(p)' <=> Owner(p)) /\ obj'[p] = obj[p]
      /\ ~Owner(o) /\ obj'[o] = b /\ (Owner(o)' <=> Owns(b.kind))
  BY <1>1 DEF Owner
<1>5. \A p \in Obj : Owner(p) => obj[p].h \in Handle /\ host[obj[p].h] # NoRes
  BY DEF Good, OwnersOK, OwnedOpen
<1>6. \A u \in Thread : \A j \in Waiting(u) : Kern(u)[j] \in Handle /\ host[Kern(u)[j]] # NoRes
  BY DEF Good, OwnersOK, KernOpen, CallRight, FieldsOK, Waiting, Kern
<1>7. /\ \A p \in Obj : Owner(p) => obj[p].h # b.h /\ host'[obj[p].h] = host[obj[p].h]
      /\ \A u \in Thread : \A j \in Waiting(u) :
           Kern(u)[j] # b.h /\ host'[Kern(u)[j]] = host[Kern(u)[j]]
  BY <1>5, <1>6
<1>8. OwnedOpen' /\ OwnedOnce'
  BY <1>4, <1>5, <1>7 DEF OwnedOpen, OwnedOnce, Good, OwnersOK
<1>9. KernOpen' /\ KernOnce'
  BY <1>2, <1>6, <1>7 DEF KernOpen, KernOnce, Good, OwnersOK
<1>10. KernApart'
  BY <1>2, <1>4, <1>7 DEF KernApart, Good, OwnersOK
<1>11. AllOwned'
  <2> SUFFICES ASSUME "ctor" \notin faulted, NEW h \in Handle, host'[h] # NoRes
               PROVE  \/ \E p \in Obj : Owner(p)' /\ obj'[p].h = h
                      \/ \E u \in Thread : \E j \in Waiting(u) : Kern(u)[j] = h
    BY <1>2 DEF AllOwned
  <2>1. CASE h = b.h
    BY <1>4, <2>1
  <2>2. CASE h # b.h
    <3>1. \/ \E p \in Obj : Owner(p) /\ obj[p].h = h
          \/ \E u \in Thread : \E j \in Waiting(u) : Kern(u)[j] = h
      BY <2>2, Zenon DEF Good, OwnersOK, AllOwned
    <3> QED
      BY <1>4, <3>1
  <2> QED
    BY <2>1, <2>2, Zenon
<1>12. ObjectsKept /\ \A t \in Thread : WaitingKept(t)
  BY <1>4, <1>7 DEF ObjectsKept, WaitingKept, Owner
<1> QED
  BY <1>3, <1>8, <1>9, <1>10, <1>11, <1>12 DEF OwnersOK

\* A constructor opens the handle of its object.
LEMMA MakeGood ==
  ASSUME Good, Kept, NEW t \in Thread, Make(t), UNCHANGED faulted
  PROVE  Good'
<1> DEFINE c == call[t]
           a == c.makes[c.i]
           k == [c EXCEPT !.i = @ + 1,
                          !.pc = IF c.i = Len(c.makes) THEN "install" ELSE "make"]
<1>1. /\ CallOK(c, local[t]) /\ FieldsOK(c, local[t]) /\ c.pc = "make"
      /\ call' = [call EXCEPT ![t] = k] /\ queue' = queue
  BY Zenon DEF Make, Good, IInv, CallsOK, CallRight
<1>2. a \in Product
  BY <1>1 DEF FieldsOK, CallOK, IsCall
<1>3. PICK o \in Obj, s \in [1 .. (IF Owns(a.kind) THEN 1 ELSE 0) -> Handle] :
        /\ Malloc(o)
        /\ Lowest(s)
        /\ obj' = [obj EXCEPT ![o] = [kind |-> a.kind, h |-> IF Owns(a.kind) THEN s[1] ELSE NoHandle,
                                      addr |-> IF Owns(a.kind) THEN NoRes ELSE a.res]]
        /\ host' = [h \in Handle |-> IF \E i \in DOMAIN s : s[i] = h THEN a.res ELSE host[h]]
        /\ refs' = [refs EXCEPT ![o] = 1]
        /\ local' = [local EXCEPT ![t][c.i] = o]
  BY Zenon DEF Make, Construct
<1> DEFINE b == [kind |-> a.kind, h |-> IF Owns(a.kind) THEN s[1] ELSE NoHandle,
                 addr |-> IF Owns(a.kind) THEN NoRes ELSE a.res]
<1>4. /\ k.kern = c.kern /\ k.msg = c.msg /\ k.makes = c.makes
      /\ k.pc \in {"install", "make"}
  BY <1>1, Zenon DEF CallOK, IsCall
<1>5. /\ Only(t) /\ call'[t] = k
      /\ \A u \in Thread : Kern(u)' = Kern(u)
  BY <1>1, <1>3, <1>4, Zenon DEF Only, Kern, Good, IInv, TypeInv, CallsOK
<1>6. /\ a.kind \in Kind /\ a.res \in Res /\ a.res # NoRes
      /\ Owns(a.kind) => s[1] \in Handle /\ DOMAIN s = {1}
      /\ ~Owns(a.kind) => DOMAIN s = {}
  <2>1. a.kind \in Kind /\ a.res \in Res /\ a.res # NoRes
    BY <1>2, Zenon DEF Product
  <2>2. 1 .. 1 = {1} /\ 1 .. 0 = {}
    OBVIOUS
  <2>3. ASSUME Owns(a.kind) PROVE s[1] \in Handle /\ DOMAIN s = {1}
    <3>1. s \in [{1} -> Handle]
      BY <1>3, <2>2, <2>3, Zenon
    <3> QED
      BY <3>1, Zenon
  <2>4. ASSUME ~Owns(a.kind) PROVE DOMAIN s = {}
    BY <1>3, <2>2, <2>4, Zenon
  <2> QED
    BY <2>1, <2>3, <2>4, Zenon
<1>7. /\ b \in Objects_
      /\ b.kind = a.kind /\ b.h = (IF Owns(a.kind) THEN s[1] ELSE NoHandle)
      /\ Owns(b.kind) => b.h \in Handle /\ host[b.h] = NoRes /\ host'[b.h] # NoRes
      /\ ~Owns(b.kind) => b.h \notin Handle
      /\ \A h \in Handle : h # b.h => host'[h] = host[h]
      /\ host' \in [Handle -> Res \cup {NoRes}]
  <2>1. b \in Objects_
    BY <1>6, Zenon DEF Objects_
  <2>2. b.kind = a.kind /\ b.h = (IF Owns(a.kind) THEN s[1] ELSE NoHandle)
    BY Zenon
  <2>3. host \in [Handle -> Res \cup {NoRes}]
    BY Zenon DEF Good, HostTypes
  <2>4. Owns(a.kind) => host[s[1]] = NoRes
    BY <1>3, <1>6, Zenon DEF Lowest
  <2> HIDE DEF b
  <2> QED
    BY <1>3, <1>6, <2>1, <2>2, <2>3, <2>4, Kinds, Zenon
<1>8. refs[o] = 0 /\ refs' = [refs EXCEPT ![o] = 1] /\ obj' = [obj EXCEPT ![o] = b]
  BY <1>3, Zenon DEF Malloc
<1> HIDE DEF b, k
<1>9. HostTypes' /\ OwnersOK' /\ ObjectsKept /\ WaitingKept(t)
  BY <1>1, <1>5, <1>7, <1>8, NewOwner, Zenon
<1>10. CallRight(t)'
  <2>1. FieldsOK(k, local'[t]) /\ k.msg = <<>> /\ k.pc # "internalize"
    BY <1>1, <1>4, Zenon DEF FieldsOK
  <2> QED
    BY <1>5, <2>1, Records, DescAssumption DEF CallRight, HandlesMatch, MadeRight
<1> QED
  BY <1>5, <1>9, <1>10, ChangeGood

\* Closing handles: what survives has none of them.
LEMMA Closing ==
  ASSUME Good, NEW hs \in SUBSET Handle, host' = Closed(hs), queue' = Drained(hs),
         UNCHANGED faulted, obj' \in [Obj -> Objects_],
         \A o \in Obj : Owner(o)' <=> Owner(o) /\ obj[o].h \notin hs,
         \A o \in Obj : Owner(o)' => obj'[o].h = obj[o].h,
         \A u \in Thread : Kern(u)' = Kern(u) \/ Kern(u)' = <<>>,
         \A u \in Thread : \A j \in Waiting(u) : Kern(u)[j] \in Handle,
         \A u \in Thread : \A j \in Waiting(u) : Kern(u)[j] \notin hs <=> Kern(u)' = Kern(u)
  PROVE  HostTypes' /\ OwnersOK'
<1>1. /\ host \in [Handle -> Res \cup {NoRes}] /\ queue \in [End -> Seq(Messages)]
  BY Zenon DEF Good, HostTypes
<1>2. \A h \in Handle : host'[h] = (IF h \in hs THEN NoRes ELSE host[h])
  BY Zenon DEF Closed
<1>3. HostTypes'
  BY <1>1 DEF HostTypes, Objects_, Closed, Drained
<1>4. \A u \in Thread : \A j \in Waiting(u)' :
        j \in Waiting(u) /\ Kern(u)' = Kern(u) /\ Kern(u)[j] \notin hs
  BY DEF Waiting, Kern
<1>5. OwnedOpen' /\ OwnedOnce'
  BY <1>2 DEF Good, OwnersOK, OwnedOpen, OwnedOnce
<1>6. KernOpen' /\ KernOnce'
  BY <1>2, <1>4 DEF Good, OwnersOK, KernOpen, KernOnce
<1>7. KernApart'
  BY <1>4 DEF Good, OwnersOK, KernApart
<1>8. AllOwned'
  <2> SUFFICES ASSUME "ctor" \notin faulted, NEW h \in Handle, host'[h] # NoRes
               PROVE  \/ \E p \in Obj : Owner(p)' /\ obj'[p].h = h
                      \/ \E u \in Thread : \E j \in Waiting(u)' : Kern(u)'[j] = h
    BY Zenon DEF AllOwned
  <2>1. host[h] # NoRes /\ h \notin hs
    BY <1>2, Zenon
  <2>2. CASE \E p \in Obj : Owner(p) /\ obj[p].h = h
    BY <2>1, <2>2
  <2>3. ASSUME NEW u \in Thread, NEW j \in Waiting(u), Kern(u)[j] = h
        PROVE  Kern(u)' = Kern(u) /\ Waiting(u)' = Waiting(u)
    BY <2>1, <2>3, Zenon DEF Waiting, Kern
  <2> QED
    BY <2>1, <2>2, <2>3 DEF Good, OwnersOK, AllOwned
<1> QED
  BY <1>3, <1>5, <1>6, <1>7, <1>8, Zenon DEF OwnersOK

\* The handles that wait in a call are open.
LEMMA WaitingHandles ==
  ASSUME Good, NEW u \in Thread, NEW j \in Waiting(u)
  PROVE  Kern(u)[j] \in Handle /\ host[Kern(u)[j]] # NoRes
BY DEF Good, OwnersOK, KernOpen, CallRight, FieldsOK, Waiting, Kern

\* NaClRefCountUnref, of a reference that a call holds.
LEMMA UnrefGood ==
  ASSUME Good, NEW x \in Obj \cup {Invalid}, x \in Obj => refs[x] > 0, Unref(x),
         UNCHANGED faulted, \A u \in Thread : Kern(u)' = Kern(u)
  PROVE  HostTypes' /\ OwnersOK' /\ ObjectsKept /\ \A t \in Thread : WaitingKept(t)
<1> DEFINE hs == {h \in Handle : x # Invalid /\ refs[x] = 1 /\ Owns(obj[x].kind) /\ h = obj[x].h}
<1>1. /\ refs' = [refs EXCEPT ![x] = refs[x] - 1]
      /\ host' = Closed(hs) /\ queue' = Drained(hs)
      /\ obj' = IF x # Invalid /\ refs[x] = 1 THEN [obj EXCEPT ![x] = NoObject] ELSE obj
  BY Zenon DEF Unref
<1>2. obj \in [Obj -> Objects_] /\ refs \in [Obj \cup {Invalid} -> Nat]
  BY Zenon DEF Good, HostTypes, IInv, TypeInv, Objects_
<1>3. \A h \in Handle : h \in hs <=> Owner(x) /\ x \in Obj /\ refs[x] = 1 /\ h = obj[x].h
  BY Kinds DEF Owner
<1>4. hs \in SUBSET Handle
  BY Zenon
<1>5. NoObject \in Objects_ /\ ~Owns(NoObject.kind)
  BY Zenon DEF NoObject, Objects_, Kind, Owns
<1>6. obj' \in [Obj -> Objects_]
  BY <1>1, <1>2, <1>5, Zenon
<1>7. \A o \in Obj : o # x \/ refs[x] # 1 => obj'[o] = obj[o] /\ (refs'[o] > 0 <=> refs[o] > 0)
  BY <1>1, <1>2
<1>8. x \in Obj /\ refs[x] = 1 => refs'[x] = 0
  BY <1>1, <1>2
<1> HIDE DEF hs
<1>9. \A o \in Obj : Owner(o) => obj[o].h \in Handle
  BY DEF Good, OwnersOK, OwnedOpen
<1>10. \A o \in Obj : Owner(o)' <=> Owner(o) /\ obj[o].h \notin hs
  <2> TAKE o \in Obj
  <2>1. CASE o = x /\ refs[x] = 1
    BY <1>3, <1>8, <1>9, <2>1 DEF Owner
  <2>2. CASE o # x \/ refs[x] # 1
    <3>1. Owner(o)' <=> Owner(o)
      BY <1>7, <2>2 DEF Owner
    <3>2. Owner(o) => obj[o].h \notin hs
      BY <1>3, <1>9, <2>2, Zenon DEF Good, OwnersOK, OwnedOnce
    <3> QED
      BY <3>1, <3>2, Zenon
  <2> QED
    BY <2>1, <2>2, Zenon
<1>11. \A o \in Obj : Owner(o)' => obj'[o].h = obj[o].h
  BY <1>7, <1>8 DEF Owner
<1>12. \A u \in Thread : \A j \in Waiting(u) : Kern(u)[j] \in Handle /\ Kern(u)[j] \notin hs
  BY <1>3, WaitingHandles DEF Good, OwnersOK, KernApart
<1>13. HostTypes' /\ OwnersOK'
  BY <1>1, <1>4, <1>6, <1>10, <1>11, <1>12, Closing, Zenon
<1>14. \A h \in Handle : h \notin hs => host'[h] = host[h]
  BY <1>1, Zenon DEF Closed
<1>15. ObjectsKept
  BY <1>7, <1>8, <1>9, <1>10, <1>14 DEF ObjectsKept, Owner
<1>16. \A t \in Thread : WaitingKept(t)
  BY <1>12, <1>14, Zenon DEF WaitingKept
<1> QED
  BY <1>13, <1>15, <1>16, Zenon

\* The last reference closes the handle of the object.
LEMMA ReleaseGood ==
  ASSUME Good, Kept, NEW t \in Thread, Release(t), UNCHANGED faulted
  PROVE  Good'
<1>1. /\ FieldsOK(call[t], local[t]) /\ call[t].pc = "drop" /\ DOMAIN call = Thread
      /\ local \in [Thread -> [Place -> Obj \cup {Null, Invalid}]]
  BY Zenon DEF Release, Good, CallRight, IInv, CallsOK, TypeInv
<1>2. PICK i \in DOMAIN ReleaseOrder :
        /\ local[t][ReleaseOrder[i]] # Null
        /\ Unref(local[t][ReleaseOrder[i]])
        /\ local' = [local EXCEPT ![t][ReleaseOrder[i]] = Null]
        /\ \/ call' = [call EXCEPT ![t] = Idle]
           \/ call' = [call EXCEPT ![t] = call[t]]
  BY Zenon DEF Release
<1> DEFINE p == ReleaseOrder[i]
<1>3. p \in Place
  BY DescAssumption DEF ReleaseOrder, Place
<1>4. /\ Only(t) /\ (call'[t] = Idle \/ call'[t] = call[t])
      /\ call[t].kern = <<>> /\ call[t].msg = <<>>
  BY <1>1, <1>2, Zenon DEF Only, FieldsOK
<1>5. call'[t].kern = <<>> /\ call'[t].msg = <<>> /\ call'[t].pc \in {"drop", "idle"}
  BY <1>1, <1>4, Records
<1>6. \A u \in Thread : Kern(u)' = Kern(u)
  BY <1>4, <1>5 DEF Kern, Only
<1>7. local[t][p] \in Obj \cup {Invalid} /\ (local[t][p] \in Obj => refs[local[t][p]] > 0)
  BY <1>1, <1>2, <1>3 DEF Good, Alive
<1>8. HostTypes' /\ OwnersOK' /\ ObjectsKept /\ WaitingKept(t)
  BY <1>2, <1>6, <1>7, UnrefGood
<1>9. FieldsOK(call[t], local[t])'
  BY <1>5, Records, DescAssumption, Zenon DEF FieldsOK
<1>10. CallRight(t)'
  BY <1>5, <1>9, Records, DescAssumption DEF CallRight, HandlesMatch, MadeRight
<1> QED
  BY <1>4, <1>8, <1>10, ChangeGood, Zenon

\* So does releasing what the receiver has no room for.
LEMMA TruncateGood ==
  ASSUME Good, Kept, NEW t \in Thread, Truncate(t), UNCHANGED faulted
  PROVE  Good'
<1>1. /\ call[t].pc = "trunc" /\ call' = call /\ DOMAIN call = Thread /\ call[t].len \in Nat
      /\ local \in [Thread -> [Place -> Obj \cup {Null, Invalid}]]
  BY Zenon DEF Truncate, Good, IInv, CallsOK, CallOK, IsCall, TypeInv
<1>2. PICK p \in call[t].len + 1 .. MaxDesc :
        /\ local[t][p] # Null /\ Unref(local[t][p])
        /\ local' = [local EXCEPT ![t][p] = Null]
  BY Zenon DEF Truncate
<1>3. p \in Place /\ Only(t) /\ \A u \in Thread : Kern(u)' = Kern(u)
  BY <1>1, <1>2, DescAssumption DEF Only, Kern, Place
<1>4. \A q \in 1 .. MaxDesc : local'[t][q] = local[t][q] \/ local'[t][q] = Null
  BY <1>1, <1>2, Kinds, Zenon
<1>5. local[t][p] \in Obj \cup {Invalid} /\ (local[t][p] \in Obj => refs[local[t][p]] > 0)
  BY <1>1, <1>2, <1>3, Zenon DEF Good, Alive
<1>6. HostTypes' /\ OwnersOK' /\ ObjectsKept /\ WaitingKept(t)
  BY <1>2, <1>3, <1>5, UnrefGood, Zenon
<1>7. FieldsOK(call[t], local[t])' /\ HandlesMatch(t)'
  BY <1>1, Zenon DEF FieldsOK, HandlesMatch, Good, CallRight
<1>8. CallRight(t)'
  BY <1>1, <1>3, <1>4, <1>6, <1>7, FewerGood, Zenon DEF CallRight
<1> QED
  BY <1>3, <1>6, <1>8, ChangeGood, Zenon

\* The handles no entry took are closed.
LEMMA CloseHandlesGood ==
  ASSUME Good, Kept, NEW t \in Thread, CloseHandles(t), UNCHANGED faulted
  PROVE  Good'
<1> DEFINE c == call[t]
           hs == {h \in Handle : \E j \in DOMAIN c.kern : c.kern[j] = h}
           k == [c EXCEPT !.pc = "trunc", !.kern = <<>>]
<1>1. /\ host' = Closed(hs) /\ queue' = Drained(hs)
      /\ call' = [call EXCEPT ![t] = k] /\ UNCHANGED <<refs, obj, local>>
      /\ c.pc \in {"close", "internalize"} /\ hs \in SUBSET Handle
  BY Zenon DEF CloseHandles
<1>2. CallOK(c, local[t]) /\ CallRight(t) /\ DOMAIN call = Thread
  BY Zenon DEF Good, IInv, CallsOK
<1>3. k.pc = "trunc" /\ k.kern = <<>> /\ k.msg = c.msg
  BY <1>2, Zenon DEF CallOK, IsCall
<1>4. Only(t) /\ call'[t] = k
  BY <1>1, <1>2, Zenon DEF Only
<1> HIDE DEF k
<1>5. \A h \in hs : \E j \in Waiting(t) : Kern(t)[j] = h
  BY <1>2 DEF Waiting, Kern, CallRight, FieldsOK
<1>6. \A j \in Waiting(t) : Kern(t)[j] \in hs
  BY <1>2 DEF Waiting, Kern, CallRight, FieldsOK
<1> HIDE DEF hs
<1>7. obj' \in [Obj -> Objects_] /\ obj' = obj /\ refs' = refs
  BY <1>1, Zenon DEF Good, HostTypes, Objects_
<1>8. \A o \in Obj : (Owner(o)' <=> Owner(o)) /\ (Owner(o) => obj[o].h \notin hs)
  BY <1>5, <1>7 DEF Owner, Good, OwnersOK, KernApart
<1>9. \A u \in Thread \ {t} : Kern(u)' = Kern(u) /\ \A j \in Waiting(u) : Kern(u)[j] \notin hs
  BY <1>4, <1>5 DEF Only, Kern, Good, OwnersOK, KernOnce
<1>10. Kern(t)' = <<>> /\ (Waiting(t) # {} => Kern(t)' # Kern(t))
  BY <1>3, <1>4 DEF Kern, Waiting
<1>11. HostTypes' /\ OwnersOK'
  <2>1. \A u \in Thread : \A j \in Waiting(u) : Kern(u)[j] \in Handle
    BY WaitingHandles
  <2>2. \A u \in Thread : \A j \in Waiting(u) : Kern(u)[j] \notin hs <=> Kern(u)' = Kern(u)
    BY <1>6, <1>9, <1>10
  <2>3. \A u \in Thread : Kern(u)' = Kern(u) \/ Kern(u)' = <<>>
    BY <1>9, <1>10
  <2> QED
    BY <1>1, <1>7, <1>8, <2>1, <2>2, <2>3, Closing, Zenon
<1>12. \A h \in Handle : h \notin hs => host'[h] = host[h]
  BY <1>1, Zenon DEF Closed
<1>13. ObjectsKept /\ WaitingKept(t)
  <2>1. \A o \in Obj : Owner(o) => obj[o].h \in Handle
    BY Zenon DEF Good, OwnersOK, OwnedOpen
  <2> QED
    BY <1>7, <1>8, <1>9, <1>12, <2>1, WaitingHandles, Zenon DEF ObjectsKept, WaitingKept, Owner
<1>14. FieldsOK(call[t], local[t])' /\ HandlesMatch(t)'
  BY <1>2, <1>3, <1>4, Records, DescAssumption, Zenon DEF FieldsOK, HandlesMatch, CallRight
<1>15. CallRight(t)'
  BY <1>1, <1>3, <1>4, <1>13, <1>14, FewerGood, Zenon DEF CallRight
<1> QED
  BY <1>4, <1>11, <1>13, <1>15, ChangeGood, Zenon

\* Taking the first of the waiting handles.
LEMMA TailFacts ==
  ASSUME NEW S, NEW s \in Seq(S), Len(s) >= 1
  PROVE  /\ Tail(s) \in Seq(S) /\ Len(Tail(s)) = Len(s) - 1 /\ Len(s) \in Nat
         /\ Head(s) = s[1] /\ s[1] \in S
         /\ \A j \in 1 .. Len(s) - 1 : Tail(s)[j] = s[j + 1]
OBVIOUS

\* The first handle that waits in a call goes: its other handles move up.
LEMMA MoveUp ==
  ASSUME Good, NEW t \in Thread, Len(Kern(t)) >= 1,
         \A u \in Thread \ {t} : Kern(u)' = Kern(u),
         Kern(t)' = Tail(Kern(t))
  PROVE  /\ 1 \in Waiting(t)
         /\ \A u \in Thread \ {t} : Waiting(u)' = Waiting(u)
         /\ \A j \in Waiting(t)' : j + 1 \in Waiting(t) /\ Kern(t)'[j] = Kern(t)[j + 1] /\ j + 1 # 1
         /\ \A j \in Waiting(t) : j # 1 => j - 1 \in Waiting(t)' /\ Kern(t)'[j - 1] = Kern(t)[j]
         /\ KernOnce'
         /\ host' = host => KernOpen'
<1>1. Kern(t) \in Seq(Handle)
  BY Zenon DEF Good, CallRight, FieldsOK, Kern
<1>2. /\ Len(Kern(t)') = Len(Kern(t)) - 1 /\ Len(Kern(t)) \in Nat
      /\ \A j \in 1 .. Len(Kern(t)) - 1 : Kern(t)'[j] = Kern(t)[j + 1]
  BY <1>1, TailFacts
<1>3. \A u \in Thread : Waiting(u) = 1 .. Len(Kern(u)) /\ Waiting(u)' = 1 .. Len(Kern(u)')
  BY DEF Waiting, Kern
<1>4. 1 \in Waiting(t) /\ \A u \in Thread \ {t} : Waiting(u)' = Waiting(u)
  BY <1>2, <1>3
<1>5. \A j \in Waiting(t)' : j + 1 \in Waiting(t) /\ Kern(t)'[j] = Kern(t)[j + 1] /\ j + 1 # 1
  BY <1>2, <1>3
<1>6. \A j \in Waiting(t) : j # 1 => j - 1 \in Waiting(t)' /\ Kern(t)'[j - 1] = Kern(t)[j]
  BY <1>2, <1>3
<1>7. \A u \in Thread : \A j \in Waiting(u)' : j \in Int
  BY <1>3
<1>8. KernOnce'
  <2> SUFFICES ASSUME NEW u \in Thread, NEW v \in Thread,
                      NEW j \in Waiting(u)', NEW k \in Waiting(v)', Kern(u)'[j] = Kern(v)'[k]
               PROVE  u = v /\ j = k
    BY DEF KernOnce
  <2> DEFINE a == IF u = t THEN j + 1 ELSE j
             b == IF v = t THEN k + 1 ELSE k
  <2>1. a \in Waiting(u) /\ Kern(u)'[j] = Kern(u)[a]
    BY <1>4, <1>5, Zenon
  <2>2. b \in Waiting(v) /\ Kern(v)'[k] = Kern(v)[b]
    BY <1>4, <1>5, Zenon
  <2>3. \A x \in Waiting(u), y \in Waiting(v) : Kern(u)[x] = Kern(v)[y] => u = v /\ x = y
    BY DEF Good, OwnersOK, KernOnce
  <2> HIDE DEF a, b
  <2>4. u = v /\ a = b
    BY <2>1, <2>2, <2>3, Zenon
  <2> QED
    BY <1>7, <2>4 DEF a, b
<1>9. host' = host => KernOpen'
  <2> SUFFICES ASSUME host' = host, NEW u \in Thread, NEW j \in Waiting(u)'
               PROVE  host[Kern(u)'[j]] # NoRes
    BY Zenon DEF KernOpen
  <2>1. CASE u = t
    BY <1>5, <2>1, WaitingHandles, Zenon
  <2>2. CASE u # t
    BY <1>4, <2>2, WaitingHandles, Zenon
  <2> QED
    BY <2>1, <2>2, Zenon
<1> QED
  BY <1>4, <1>5, <1>6, <1>8, <1>9, Zenon

\* A new object takes over the first handle that waits in its call.
LEMMA TakesOver ==
  ASSUME Good, NEW t \in Thread, NEW o \in Obj, NEW b \in Objects_, refs[o] = 0,
         Len(Kern(t)) >= 1, Owns(b.kind), b.h = Kern(t)[1],
         refs' = [refs EXCEPT ![o] = 1], obj' = [obj EXCEPT ![o] = b],
         UNCHANGED <<host, queue, faulted>>,
         \A u \in Thread \ {t} : Kern(u)' = Kern(u),
         Kern(t)' = Tail(Kern(t))
  PROVE  HostTypes' /\ OwnersOK' /\ ObjectsKept /\ WaitingKept(t)
<1>1. /\ obj \in [Obj -> Objects_] /\ refs \in [Obj \cup {Invalid} -> Nat]
  BY Zenon DEF Good, HostTypes, IInv, TypeInv, Objects_
<1>2. /\ \A p \in Obj : p # o => (Owner(p)' <=> Owner(p)) /\ obj'[p] = obj[p]
      /\ ~Owner(o) /\ obj'[o] = b /\ Owner(o)'
  BY <1>1 DEF Owner
<1>3. HostTypes'
  BY <1>1, Zenon DEF HostTypes, Objects_, Good
<1>4. 1 \in Waiting(t) /\ KernOnce' /\ KernOpen'
  BY MoveUp, Zenon
<1>5. b.h \in Handle /\ host[b.h] # NoRes /\ \A p \in Obj : Owner(p) => obj[p].h # b.h
  BY <1>4, WaitingHandles, Zenon DEF Good, OwnersOK, KernApart
<1>6. OwnedOpen' /\ OwnedOnce'
  BY <1>2, <1>5 DEF OwnedOpen, OwnedOnce, Good, OwnersOK
<1>7. KernApart'
  <2> SUFFICES ASSUME NEW p \in Obj, NEW u \in Thread, NEW j \in Waiting(u)', Owner(p)'
               PROVE  obj'[p].h # Kern(u)'[j]
    BY Zenon DEF KernApart
  <2>1. PICK q \in Waiting(u) : Kern(u)'[j] = Kern(u)[q] /\ (u = t => q # 1)
    <3>1. CASE u = t
      BY <3>1, MoveUp
    <3>2. CASE u # t
      BY <3>2, MoveUp
    <3> QED
      BY <3>1, <3>2, Zenon
  <2>2. CASE p = o
    BY <1>2, <1>4, <2>1, <2>2 DEF Good, OwnersOK, KernOnce
  <2>3. CASE p # o
    BY <1>2, <2>1, <2>3 DEF Good, OwnersOK, KernApart
  <2> QED
    BY <2>2, <2>3, Zenon
<1>8. AllOwned'
  <2> SUFFICES ASSUME "ctor" \notin faulted, NEW h \in Handle, host[h] # NoRes
               PROVE  \/ \E p \in Obj : Owner(p)' /\ obj'[p].h = h
                      \/ \E u \in Thread : \E j \in Waiting(u)' : Kern(u)'[j] = h
    BY Zenon DEF AllOwned
  <2>1. CASE \E p \in Obj : Owner(p) /\ obj[p].h = h
    BY <1>2, <2>1, Zenon
  <2>2. ASSUME NEW u \in Thread, NEW j \in Waiting(u), Kern(u)[j] = h
        PROVE  \/ Owner(o)' /\ obj'[o].h = h
               \/ \E q \in Waiting(u)' : Kern(u)'[q] = h
    <3>1. CASE u = t /\ j = 1
      BY <1>2, <2>2, <3>1, Zenon
    <3>2. CASE u = t /\ j # 1
      BY <2>2, <3>2, MoveUp
    <3>3. CASE u # t
      BY <2>2, <3>3, MoveUp
    <3> QED
      BY <3>1, <3>2, <3>3, Zenon
  <2> QED
    BY <2>1, <2>2, Zenon DEF Good, OwnersOK, AllOwned
<1>9. ObjectsKept /\ WaitingKept(t)
  BY <1>2 DEF ObjectsKept, WaitingKept, Owner
<1> QED
  BY <1>3, <1>4, <1>6, <1>7, <1>8, <1>9 DEF OwnersOK

\* The handles that wait, after an entry with one.
LEMMA TakeOrder ==
  ASSUME NEW c, NEW k, NEW w, InOrder(c, w), Owns(c.msg[c.i].tag), c.i \in Nat,
         Len(c.msg) \in Nat, c.i <= Len(c.msg), c.kern \in Seq(Handle),
         k.kern = Tail(c.kern), k.msg = c.msg, k.i = c.i + 1
  PROVE  /\ Len(c.kern) >= 1 /\ w[1] = c.i
         /\ InOrder(k, [j \in 1 .. Len(c.kern) - 1 |-> w[j + 1]])
<1> DEFINE n == Len(c.kern)
           v == [j \in 1 .. n - 1 |-> w[j + 1]]
<1>1. n \in Nat /\ \A j \in 1 .. n : w[j] \in Int /\ w[j] >= c.i /\ w[j] <= Len(c.msg)
  BY DEF InOrder
<1>2. PICK j \in 1 .. n : w[j] = c.i
  <2>1. c.i \in c.i .. Len(c.msg)
    OBVIOUS
  <2> QED
    BY <2>1, Zenon DEF InOrder
<1>3. n >= 1 /\ 1 \in 1 .. n /\ j = 1
  <2>1. n >= 1 /\ 1 \in 1 .. n
    BY <1>1, <1>2
  <2>2. j # 1 => w[1] < w[j]
    BY <1>1, <1>2, <2>1 DEF InOrder
  <2> QED
    BY <1>1, <1>2, <2>1, <2>2
<1>4. Len(k.kern) = n - 1
  BY <1>3, TailFacts
<1>5. \A q \in 1 .. n - 1 : q + 1 \in 1 .. n /\ w[1] < w[q + 1] /\ v[q] = w[q + 1]
  BY <1>1, <1>3 DEF InOrder
<1>6. v \in [1 .. n - 1 -> c.i + 1 .. Len(c.msg)]
  <2>1. \A q \in 1 .. n - 1 : w[q + 1] \in c.i + 1 .. Len(c.msg)
    <3> TAKE q \in 1 .. n - 1
    <3>1. q + 1 \in 1 .. n /\ w[1] < w[q + 1] /\ w[1] = c.i
      BY <1>2, <1>3, <1>5, Zenon
    <3>2. w[q + 1] \in Int /\ w[q + 1] <= Len(c.msg)
      BY <1>1, <3>1, Zenon
    <3> QED
      BY <3>1, <3>2
  <2> QED
    BY <2>1, Zenon
<1>7. \A p, q \in 1 .. n - 1 : p < q => v[p] < v[q]
  <2> TAKE p, q \in 1 .. n - 1
  <2> HAVE p < q
  <2>1. p + 1 < q + 1 /\ p + 1 \in 1 .. n /\ q + 1 \in 1 .. n
    BY <1>1
  <2> QED
    BY <1>5, <2>1, Zenon DEF InOrder
<1>8. \A q \in 1 .. n - 1 : Owns(c.msg[v[q]].tag)
  BY <1>5, Zenon DEF InOrder
<1>9. ASSUME NEW i \in c.i + 1 .. Len(c.msg), Owns(c.msg[i].tag)
      PROVE  \E q \in 1 .. n - 1 : v[q] = i
  <2>1. i \in c.i .. Len(c.msg) /\ i # c.i
    OBVIOUS
  <2>2. PICK q \in 1 .. n : w[q] = i
    BY <1>9, <2>1, Zenon DEF InOrder
  <2>3. q - 1 \in 1 .. n - 1 /\ (q - 1) + 1 = q
    BY <1>1, <1>2, <1>3, <2>1, <2>2
  <2> QED
    BY <2>2, <2>3, Zenon
<1> HIDE DEF v
<1>10. InOrder(k, v)
  BY <1>4, <1>6, <1>7, <1>8, <1>9, Zenon DEF InOrder
<1> QED
  BY <1>2, <1>3, <1>10, Zenon DEF v

\* The host opens the handles s for a call that had none.
Opens(t, n, s) ==
    /\ s \in [1 .. n -> Handle] /\ Len(s) = n /\ Kern(t) = <<>> /\ Kern(t)' = s
    /\ \A u \in Thread \ {t} : Kern(u)' = Kern(u)
    /\ UNCHANGED <<obj, refs, faulted>>
    /\ \A j \in 1 .. n : host[s[j]] = NoRes /\ host'[s[j]] # NoRes
    /\ \A i, j \in 1 .. n : s[i] = s[j] => i = j
    /\ \A h \in Handle : (\A j \in 1 .. n : s[j] # h) => host'[h] = host[h]

\* Handles opened for a call belong to nobody else.
LEMMA Opening ==
  ASSUME Good, NEW t \in Thread, NEW n \in Nat, NEW s, Opens(t, n, s)
  PROVE  OwnersOK' /\ ObjectsKept /\ WaitingKept(t)
<1> USE DEF Opens
<1>1. /\ \A u \in Thread \ {t} : Waiting(u)' = Waiting(u)
      /\ Waiting(t)' = 1 .. n /\ Waiting(t) = {}
  BY DEF Waiting, Kern
<1>2. \A o \in Obj : (Owner(o)' <=> Owner(o)) /\ obj'[o] = obj[o]
  BY Zenon DEF Owner
<1>3. \A o \in Obj : Owner(o) => obj[o].h \in Handle /\ host[obj[o].h] # NoRes
  BY Zenon DEF Good, OwnersOK, OwnedOpen
<1>4. \A o \in Obj : Owner(o) => /\ host'[obj[o].h] = host[obj[o].h]
                                 /\ \A j \in 1 .. n : obj[o].h # s[j]
  BY <1>3
<1>5. \A u \in Thread : \A j \in Waiting(u) :
        /\ Kern(u)[j] \in Handle /\ host[Kern(u)[j]] # NoRes
        /\ host'[Kern(u)[j]] = host[Kern(u)[j]]
        /\ \A i \in 1 .. n : Kern(u)[j] # s[i]
  BY WaitingHandles
<1>6. OwnedOpen' /\ OwnedOnce'
  BY <1>2, <1>3, <1>4 DEF Good, OwnersOK, OwnedOpen, OwnedOnce
<1>7. KernOpen'
  <2> SUFFICES ASSUME NEW u \in Thread, NEW j \in Waiting(u)' PROVE host'[Kern(u)'[j]] # NoRes
    BY Zenon DEF KernOpen
  <2>1. CASE u = t
    BY <1>1, <2>1, Zenon
  <2>2. CASE u # t
    BY <1>1, <1>5, <2>2
  <2> QED
    BY <2>1, <2>2, Zenon
<1>8. KernOnce'
  <2> SUFFICES ASSUME NEW u \in Thread, NEW v \in Thread,
                      NEW j \in Waiting(u)', NEW k \in Waiting(v)', Kern(u)'[j] = Kern(v)'[k]
               PROVE  u = v /\ j = k
    BY Zenon DEF KernOnce
  <2>1. CASE u = t /\ v = t
    BY <1>1, <2>1
  <2>2. CASE u = t /\ v # t
    BY <1>1, <1>5, <2>2
  <2>3. CASE u # t /\ v = t
    BY <1>1, <1>5, <2>3
  <2>4. CASE u # t /\ v # t
    BY <1>1, <2>4 DEF Good, OwnersOK, KernOnce
  <2> QED
    BY <2>1, <2>2, <2>3, <2>4, Zenon
<1>9. KernApart'
  <2> SUFFICES ASSUME NEW p \in Obj, NEW u \in Thread, NEW j \in Waiting(u)', Owner(p)
               PROVE  obj[p].h # Kern(u)'[j]
    BY <1>2 DEF KernApart
  <2>1. CASE u = t
    BY <1>1, <1>4, <2>1
  <2>2. CASE u # t
    BY <1>1, <2>2 DEF Good, OwnersOK, KernApart
  <2> QED
    BY <2>1, <2>2, Zenon
<1>10. AllOwned'
  <2> SUFFICES ASSUME "ctor" \notin faulted, NEW h \in Handle, host'[h] # NoRes
               PROVE  \/ \E p \in Obj : Owner(p) /\ obj[p].h = h
                      \/ \E u \in Thread : \E j \in Waiting(u)' : Kern(u)'[j] = h
    BY <1>2 DEF AllOwned
  <2>1. CASE \E j \in 1 .. n : s[j] = h
    BY <1>1, <2>1
  <2>2. CASE \A j \in 1 .. n : s[j] # h
    <3>1. \/ \E p \in Obj : Owner(p) /\ obj[p].h = h
          \/ \E u \in Thread : \E j \in Waiting(u) : Kern(u)[j] = h
      BY <2>2 DEF Good, OwnersOK, AllOwned
    <3> QED
      BY <1>1, <3>1
  <2> QED
    BY <2>1, <2>2, Zenon
<1>11. ObjectsKept /\ WaitingKept(t)
  BY <1>4, <1>5 DEF ObjectsKept, WaitingKept, Owner
<1> QED
  BY <1>6, <1>7, <1>8, <1>9, <1>10, <1>11, Zenon DEF OwnersOK

=============================================================================
