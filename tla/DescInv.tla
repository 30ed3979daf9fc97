------------------------------- MODULE DescInv -------------------------------
(***************************************************************************)
(* The inductive invariants of DescTable: of the reference counts          *)
(* (DescTableProof) and of the handles of the host that the objects own    *)
(* and that travel with messages (DescHandles, DescTransfer).              *)
(***************************************************************************)
EXTENDS DescTable

TypeInv ==
    /\ desc_tbl \in [Slot -> Obj \cup {Null}]
    /\ refs \in [Obj \cup {Invalid} -> Nat]
    /\ local \in [Thread -> [Place -> Obj \cup {Null, Invalid}]]

\* A call record has the fields of Idle.
IsCall(c) ==
    /\ DOMAIN c = {"pc", "op", "descv", "makes", "len", "i", "msg", "kern"}
    /\ c.i \in Nat /\ c.i >= 1
    /\ c.len \in Nat

(***************************************************************************)
(* Where a call c with locals l will put its next reference is empty: an   *)
(* idle thread holds none, and a call that is still collecting has filled  *)
(* its places in order.                                                    *)
(***************************************************************************)
CallOK(c, l) ==
    /\ IsCall(c)
    /\ c.pc = "idle" => l = NoLocals
    /\ c.pc \in {"make", "gather", "recv", "internalize"} =>
        \A p \in Place : p >= c.i => l[p] = Null
    /\ c.pc \in {"recv", "internalize"} => c.i <= MaxDesc + 1
    /\ c.pc \in {"close", "trunc"} => l[MaxDesc + 1] = Null
    /\ c.pc = "make" => Len(c.makes) \in Nat /\ c.i <= Len(c.makes) /\ Len(c.makes) <= MaxDesc
    /\ c.pc = "gather" => /\ Len(c.descv) \in Nat /\ Len(c.descv) <= MaxDesc
                          /\ \A j \in 1 .. Len(c.descv) : c.descv[j] \in Slot \cup {Invalid}

CallsOK == DOMAIN call = Thread /\ \A t \in Thread : CallOK(call[t], local[t])

IInv == TypeInv /\ CallsOK /\ RefsExact /\ InvalidKept

----------------------------------------------------------------------------
(* Host handles and messages, as long as recv_buf could be allocated.      *)

\* What handles and addresses designate: what there is at first, the connection
\* that connect makes, and what the program creates.
Res == {"A", "B", "F", "N", "C"} \cup UNION {{m[i].res : i \in 1 .. Len(m)} : m \in MakeArgs}
Product == [kind : Kind, res : Res \ {NoRes}]

\* What a message can be: handles in it designate something.
Tagged == [tag : Kind \cup {"invalid"}, res : Res \cup {NoRes}]
Messages == {m \in Seq(Tagged) :
    /\ Len(m) <= MaxDesc
    /\ \A i \in 1 .. Len(m) : /\ Owns(m[i].tag) => m[i].res # NoRes
                              /\ m[i].tag = "invalid" => m[i].res = NoRes}

HostTypes ==
    /\ obj \in [Obj -> [kind : Kind, h : Handle \cup {NoHandle}, addr : Res \cup {NoRes}]]
    /\ host \in [Handle -> Res \cup {NoRes}]
    /\ queue \in [End -> Seq(Messages)]

Owner(o) == refs[o] > 0 /\ Owns(obj[o].kind)
Kern(t) == call[t].kern
Waiting(t) == 1 .. Len(call[t].kern)

(***************************************************************************)
(* Who closes a handle: one object or one entry of a kern_handle, never    *)
(* two, and unless a constructor failed there is one for each open handle. *)
(***************************************************************************)
OwnedOpen == \A o \in Obj : Owner(o) => obj[o].h \in Handle /\ host[obj[o].h] # NoRes
OwnedOnce == \A o, p \in Obj : Owner(o) /\ Owner(p) /\ obj[o].h = obj[p].h => o = p
KernOpen == \A t \in Thread : \A j \in Waiting(t) : host[Kern(t)[j]] # NoRes
KernOnce == \A t, u \in Thread : \A j \in Waiting(t), k \in Waiting(u) :
                Kern(t)[j] = Kern(u)[k] => t = u /\ j = k
KernApart == \A o \in Obj, t \in Thread : \A j \in Waiting(t) : Owner(o) => obj[o].h # Kern(t)[j]
AllOwned == "ctor" \notin faulted =>
    \A h \in Handle : host[h] # NoRes =>
        \/ \E o \in Obj : Owner(o) /\ obj[o].h = h
        \/ \E t \in Thread : \E j \in Waiting(t) : Kern(t)[j] = h

OwnersOK == OwnedOpen /\ OwnedOnce /\ KernOpen /\ KernOnce /\ KernApart /\ AllOwned

\* The variables of a call c with locals l.
FieldsOK(c, l) ==
    /\ c.kern \in Seq(Handle) /\ Len(c.kern) <= MaxDesc
    /\ c.msg \in Messages
    /\ c.pc \notin {"internalize", "close"} => c.kern = <<>>
    /\ c.pc \notin {"internalize", "close", "trunc", "install"} => c.msg = <<>>
    /\ c.pc = "gather" => /\ c.descv \in Seq(Slot \cup {Invalid})
                          /\ c.i <= Len(c.descv) + 1
                          /\ \A j \in 1 .. c.i - 1 : l[j] # Null
    /\ c.pc = "make" => c.makes \in Seq(Product)
    /\ c.pc = "recv" => c.i = 1

\* The handles that wait are, in order, those of the entries still to come.
InOrder(c, w) ==
    /\ w \in [1 .. Len(c.kern) -> c.i .. Len(c.msg)]
    /\ \A j, k \in 1 .. Len(c.kern) : j < k => w[j] < w[k]
    /\ \A j \in 1 .. Len(c.kern) : Owns(c.msg[w[j]].tag)
    /\ \A i \in c.i .. Len(c.msg) : Owns(c.msg[i].tag) => \E j \in 1 .. Len(c.kern) : w[j] = i

HandlesMatch(t) == call[t].pc = "internalize" =>
    \E w \in [1 .. Len(call[t].kern) -> 1 .. Len(call[t].msg)] :
        /\ InOrder(call[t], w)
        /\ \A j \in 1 .. Len(call[t].kern) : host[call[t].kern[j]] = call[t].msg[w[j]].res

\* What was made of the entries so far is what they say.
MadeRight(t) == \A p \in 1 .. MaxDesc :
    p <= Len(call[t].msg) /\ local[t][p] # Null => Entry(local[t][p]) = call[t].msg[p]

CallRight(t) == FieldsOK(call[t], local[t]) /\ HandlesMatch(t) /\ MadeRight(t)

HandleInv ==
    "buffer" \notin faulted => HostTypes /\ OwnersOK /\ \A t \in Thread : CallRight(t)

\* An object that a slot or a local variable refers to has not been freed.
Alive ==
    /\ \A d \in Slot : desc_tbl[d] # Null => refs[desc_tbl[d]] > 0
    /\ \A t \in Thread, p \in Place : local[t][p] \in Obj => refs[local[t][p]] > 0

\* The state before a step and after it.
Good == IInv /\ Alive /\ HostTypes /\ OwnersOK /\ \A t \in Thread : CallRight(t)
Kept == IInv' /\ Alive'

\* Objects that live before and after the step, and handles that wait in other
\* calls, designate what they did.
ObjectsKept == \A o \in Obj : refs[o] > 0 /\ refs'[o] > 0 =>
    obj'[o] = obj[o] /\ (Owns(obj[o].kind) => host'[obj[o].h] = host[obj[o].h])
WaitingKept(t) == \A u \in Thread \ {t} : \A j \in Waiting(u) : host'[Kern(u)[j]] = host[Kern(u)[j]]

\* What a step may do to the calls of the other threads: nothing.
Only(t) == /\ DOMAIN call' = Thread
           /\ \A u \in Thread \ {t} : call'[u] = call[u] /\ local'[u] = local[u]

\* Steps that leave objects and handles alone.
SameOwners == /\ UNCHANGED <<obj, host, faulted>>
              /\ queue' \in [End -> Seq(Messages)]
              /\ \A o \in Obj : refs'[o] > 0 <=> refs[o] > 0

Objects_ == [kind : Kind, h : Handle \cup {NoHandle}, addr : Res \cup {NoRes}]

=============================================================================
