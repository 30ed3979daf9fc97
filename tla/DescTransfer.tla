----------------------------- MODULE DescTransfer -----------------------------
(***************************************************************************)
(* Descriptors received in a message designate what was sent, and no       *)
(* handle of the host is lost or shared, for every number of threads,      *)
(* descriptors and messages, and whatever fails.                           *)
(***************************************************************************)
EXTENDS DescHandles, DescTableProof

\* An entry takes the next of the handles that came with the message.
LEMMA InternalizeGood ==
  ASSUME Good, Kept, NEW t \in Thread, Internalize(t), UNCHANGED faulted
  PROVE  Good'
<1> DEFINE c == call[t]
           m == c.msg[c.i]
           k == [c EXCEPT !.i = @ + 1, !.kern = LeftHandles(@, m.tag)]
<1>1. /\ c.pc = "internalize" /\ c.i <= Len(c.msg) /\ c.i <= MaxDesc /\ m.tag # "invalid"
      /\ call' = [call EXCEPT ![t] = k] /\ UNCHANGED <<host, queue>>
  BY Zenon DEF Internalize
<1>2. CallOK(c, local[t]) /\ CallRight(t) /\ FieldsOK(c, local[t]) /\ DOMAIN call = Thread
  BY Zenon DEF Good, IInv, CallsOK, CallRight
<1>3. c.i \in Nat /\ c.i >= 1 /\ c.i \in 1 .. MaxDesc /\ c.msg \in Messages /\ c.kern \in Seq(Handle)
  BY <1>1, <1>2, DescAssumption DEF CallOK, IsCall, FieldsOK
<1>4. /\ Len(c.msg) \in Nat /\ m = [tag |-> m.tag, res |-> m.res]
      /\ m.tag \in Kind /\ m.res \in Res \cup {NoRes}
  BY <1>1, <1>3, MessageEntry, Zenon
<1>5. /\ k.pc = "internalize" /\ k.kern = LeftHandles(c.kern, m.tag) /\ k.msg = c.msg
      /\ k.i = c.i + 1
  BY <1>1, <1>2, Zenon DEF CallOK, IsCall
<1>6. Only(t) /\ call'[t] = k
  <2>1. DOMAIN call' = Thread /\ call'[t] = k /\ \A u \in Thread \ {t} : call'[u] = call[u]
    BY <1>1, <1>2
  <2>2. \A u \in Thread \ {t} : local'[u] = local[u]
    BY Zenon DEF Internalize, Good, IInv, TypeInv
  <2> QED
    BY <2>1, <2>2 DEF Only
<1> DEFINE b == [kind |-> m.tag, h |-> TakeHandle(c.kern, m.tag),
                 addr |-> IF Owns(m.tag) THEN NoRes ELSE m.res]
<1>7. PICK o \in Obj : /\ refs[o] = 0 /\ refs' = [refs EXCEPT ![o] = 1]
                       /\ obj' = [obj EXCEPT ![o] = b]
                       /\ local' = [local EXCEPT ![t][c.i] = o]
  BY Zenon DEF Internalize, Construct, Malloc
<1>8. PICK w \in [1 .. Len(c.kern) -> 1 .. Len(c.msg)] :
        /\ InOrder(c, w)
        /\ \A j \in 1 .. Len(c.kern) : host[c.kern[j]] = c.msg[w[j]].res
  BY <1>1, <1>2, Zenon DEF CallRight, HandlesMatch
<1>9. /\ b.kind = m.tag /\ b.h = TakeHandle(c.kern, m.tag)
      /\ b.addr = (IF Owns(m.tag) THEN NoRes ELSE m.res)
      /\ b = [kind |-> b.kind, h |-> b.h, addr |-> b.addr]
  OBVIOUS
<1> HIDE DEF b, k
\* Whether the entry has a handle or not, the owners and the order are right.
<1>10. /\ HostTypes' /\ OwnersOK' /\ ObjectsKept /\ WaitingKept(t)
       /\ k.kern \in Seq(Handle) /\ Len(k.kern) <= MaxDesc
       /\ \E v \in [1 .. Len(k.kern) -> 1 .. Len(k.msg)] :
            /\ InOrder(k, v)
            /\ \A j \in 1 .. Len(k.kern) : host[k.kern[j]] = k.msg[v[j]].res
       /\ Owns(m.tag) => host[b.h] = m.res
  <2>1. CASE Owns(m.tag)
    <3> DEFINE n == Len(c.kern)
               v == [j \in 1 .. n - 1 |-> w[j + 1]]
    <3>1. k.kern = Tail(c.kern)
      BY <1>5, <2>1, Zenon DEF LeftHandles
    <3>2. n >= 1 /\ w[1] = c.i /\ InOrder(k, v)
      BY <1>1, <1>3, <1>4, <1>5, <1>8, <2>1, <3>1, TakeOrder, Zenon
    <3>3. /\ k.kern \in Seq(Handle) /\ Len(k.kern) = n - 1 /\ n \in Nat
          /\ b.h = c.kern[1] /\ c.kern[1] \in Handle
          /\ \A j \in 1 .. n - 1 : k.kern[j] = c.kern[j + 1]
      BY <1>3, <1>9, <2>1, <3>1, <3>2, TailFacts DEF TakeHandle
    <3>4. b \in Objects_
      BY <1>4, <1>9, <2>1, <3>3, Zenon DEF Objects_
    <3>5. /\ \A u \in Thread \ {t} : Kern(u)' = Kern(u)
          /\ Kern(t)' = Tail(Kern(t)) /\ Kern(t) = c.kern
      BY <1>6, <3>1 DEF Kern, Only
    <3>6. HostTypes' /\ OwnersOK' /\ ObjectsKept /\ WaitingKept(t)
      BY <1>1, <1>7, <1>9, <2>1, <3>2, <3>3, <3>4, <3>5, TakesOver, Zenon
    <3>7. host[b.h] = m.res
      BY <1>8, <3>2, <3>3
    <3>8. \A j \in 1 .. n - 1 : /\ v[j] = w[j + 1] /\ j + 1 \in 1 .. n
                                /\ w[j + 1] \in 1 .. Len(c.msg)
      <4>1. \A j \in 1 .. n - 1 : j + 1 \in 1 .. n
        BY <3>3
      <4> QED
        BY <1>8, <4>1, Zenon
    <3>9. v \in [1 .. n - 1 -> 1 .. Len(c.msg)]
      BY <3>8, Zenon
    <3> HIDE DEF v
    <3>10. \A j \in 1 .. n - 1 : host[k.kern[j]] = c.msg[v[j]].res
      BY <1>8, <3>3, <3>8, Zenon
    <3>11. Len(k.kern) <= MaxDesc
      BY <1>2, <3>3, DescAssumption DEF FieldsOK
    <3>12. /\ v \in [1 .. Len(k.kern) -> 1 .. Len(k.msg)]
           /\ \A j \in 1 .. Len(k.kern) : host[k.kern[j]] = k.msg[v[j]].res
      BY <1>5, <3>3, <3>9, <3>10, Zenon
    <3> QED
      BY <3>2, <3>3, <3>6, <3>7, <3>11, <3>12, Zenon
  <2>2. CASE ~Owns(m.tag)
    <3>1. k.kern = c.kern
      BY <1>5, <2>2 DEF LeftHandles
    <3>2. InOrder(k, w)
      BY <1>3, <1>4, <1>5, <1>8, <2>2, <3>1, SkipOrder, Zenon
    <3>3. b \in Objects_ /\ b.h \notin Handle
      BY <1>4, <1>9, <2>2, Kinds, Zenon DEF TakeHandle, Objects_
    <3>4. \A u \in Thread : Kern(u)' = Kern(u)
      BY <1>6, <3>1, Zenon DEF Kern, Only
    <3>5. HostTypes' /\ OwnersOK' /\ ObjectsKept /\ WaitingKept(t)
      BY <1>1, <1>7, <1>9, <2>2, <3>3, <3>4, NewOwner, Zenon DEF Good, HostTypes
    <3>6. Len(k.kern) <= MaxDesc
      BY <1>2, <3>1 DEF FieldsOK
    <3> QED
      BY <1>3, <1>5, <1>8, <2>2, <3>1, <3>2, <3>5, <3>6, Zenon
  <2> QED
    BY <2>1, <2>2, Zenon
<1>11. FieldsOK(call[t], local[t])'
  BY <1>3, <1>5, <1>6, <1>10, Zenon DEF FieldsOK
<1>12. HandlesMatch(t)'
  <2>1. call'[t] = k /\ host' = host
    BY <1>1, <1>6, Zenon
  <2>2. \E v \in [1 .. Len(call'[t].kern) -> 1 .. Len(call'[t].msg)] :
          /\ InOrder(call'[t], v)
          /\ \A j \in 1 .. Len(call'[t].kern) : host'[call'[t].kern[j]] = call'[t].msg[v[j]].res
    BY <1>10, <2>1, Zenon
  <2> QED
    BY <2>2, Zenon DEF HandlesMatch
<1>13. MadeRight(t)'
  <2> SUFFICES ASSUME NEW p \in 1 .. MaxDesc, p <= Len(c.msg), local'[t][p] # Null
               PROVE  Entry(local[t][p])' = c.msg[p]
    BY <1>5, <1>6 DEF MadeRight
  <2>1. p \in Place /\ c.i \in Place
    BY <1>3, Kinds, Zenon
  <2>2. CASE p = c.i
    <3>1. local'[t][p] = o /\ o # Invalid
      BY <1>7, <2>1, <2>2, Kinds, Zenon DEF Good, IInv, TypeInv
    <3>2. obj'[o] = b
      BY <1>7, Zenon DEF Good, HostTypes
    <3>3. ResOf(o)' = m.res
      BY <1>1, <1>9, <1>10, <3>2, Zenon DEF ResOf
    <3> QED
      BY <1>4, <1>9, <2>2, <3>1, <3>2, <3>3, Zenon DEF Entry
  <2>3. CASE p # c.i
    <3>1. local'[t][p] = local[t][p]
      BY <1>7, <2>1, <2>3, Zenon DEF Good, IInv, TypeInv
    <3>2. Entry(local[t][p]) = c.msg[p]
      BY <1>2, <3>1, Zenon DEF CallRight, MadeRight
    <3> QED
      BY <1>10, <2>1, <3>1, <3>2, EntryKept, Zenon
  <2> QED
    BY <2>2, <2>3, Zenon
<1>14. CallRight(t)'
  BY <1>11, <1>12, <1>13, Zenon DEF CallRight
<1> QED
  BY <1>6, <1>10, <1>14, ChangeGood, Zenon

\* A message given up leaves its handles to be closed.
LEMMA InternalizeFailsGood ==
  ASSUME Good, Kept, NEW t \in Thread, InternalizeFails(t)
  PROVE  Good'
<1> DEFINE c == call[t]
<1>1. /\ c.pc = "internalize" /\ c.i <= Len(c.msg)
      /\ UNCHANGED <<refs, obj, host, queue, local>>
  BY Zenon DEF InternalizeFails
<1>2. CallOK(c, local[t]) /\ CallRight(t) /\ FieldsOK(c, local[t]) /\ DOMAIN call = Thread
  BY Zenon DEF Good, IInv, CallsOK, CallRight
<1>3. PICK kern : /\ call' = [call EXCEPT ![t] = [c EXCEPT !.pc = "close", !.kern = kern]]
                  /\ \/ kern = c.kern /\ (faulted' = faulted \/ faulted' = faulted \cup {"ctor"})
                     \/ /\ kern = LeftHandles(c.kern, "shm") /\ c.msg[c.i].tag = "shm"
                        /\ faulted' = faulted \cup {"ctor"}
  <2>1. [c EXCEPT !.pc = "close"] = [c EXCEPT !.pc = "close", !.kern = c.kern]
    BY <1>2, Zenon DEF CallOK, IsCall
  <2>2. CASE call' = [call EXCEPT ![t] = [c EXCEPT !.pc = "close"]] /\ faulted' = faulted
    BY <2>1, <2>2, Zenon
  <2>3. CASE /\ faulted' = faulted \cup {"ctor"}
             /\ call' = [call EXCEPT ![t] = [c EXCEPT
                  !.pc = "close",
                  !.kern = IF c.msg[c.i].tag = "shm" THEN LeftHandles(@, "shm") ELSE @]]
    BY <1>2, <2>3, Zenon
  <2> QED
    BY <2>2, <2>3, Zenon DEF InternalizeFails
<1> DEFINE k == [c EXCEPT !.pc = "close", !.kern = kern]
<1>4. k.pc = "close" /\ k.kern = kern /\ k.msg = c.msg
  BY <1>2 DEF CallOK, IsCall
<1>5. Only(t) /\ call'[t] = k
  BY <1>1, <1>2, <1>3 DEF Only
<1> HIDE DEF k
<1>6. ObjectsKept /\ WaitingKept(t) /\ HostTypes'
  BY <1>1 DEF ObjectsKept, WaitingKept, Good, HostTypes
<1>7. \A o \in Obj : Owner(o)' <=> Owner(o)
  BY <1>1 DEF Owner
<1>8. OwnedOpen' /\ OwnedOnce'
  BY <1>1, <1>7 DEF Good, OwnersOK, OwnedOpen, OwnedOnce
<1>9. /\ kern \in Seq(Handle) /\ Len(kern) <= MaxDesc
      /\ KernOpen' /\ KernOnce' /\ KernApart' /\ AllOwned'
  <2>1. CASE kern = c.kern
    <3>1. \A u \in Thread : Kern(u)' = Kern(u) /\ Waiting(u)' = Waiting(u)
      BY <1>4, <1>5, <2>1 DEF Kern, Waiting, Only
    <3>2. kern \in Seq(Handle) /\ Len(kern) <= MaxDesc
      BY <1>2, <2>1 DEF FieldsOK
    <3>3. faulted \subseteq faulted'
      BY <1>3
    <3> QED
      BY <1>1, <1>7, <3>1, <3>2, <3>3 DEF Good, OwnersOK, KernOpen, KernOnce, KernApart, AllOwned
  <2>2. CASE /\ kern = LeftHandles(c.kern, "shm") /\ c.msg[c.i].tag = "shm"
             /\ faulted' = faulted \cup {"ctor"}
    <3>1. kern = Tail(c.kern)
      BY <2>2 DEF LeftHandles, Owns
    <3>2. PICK w \in [1 .. Len(c.kern) -> 1 .. Len(c.msg)] : InOrder(c, w)
      BY <1>1, <1>2 DEF CallRight, HandlesMatch
    <3>3. Len(c.kern) >= 1 /\ c.kern \in Seq(Handle) /\ Len(c.kern) \in Nat
      <4>1. c.i \in c.i .. Len(c.msg) /\ Owns(c.msg[c.i].tag) /\ c.kern \in Seq(Handle)
        BY <1>1, <1>2, <2>2 DEF CallOK, IsCall, FieldsOK, Messages, Owns
      <4>2. \E j \in 1 .. Len(c.kern) : w[j] = c.i
        BY <3>2, <4>1, Zenon DEF InOrder
      <4> QED
        BY <4>1, <4>2
    <3>4. /\ \A u \in Thread \ {t} : Kern(u)' = Kern(u)
          /\ Kern(t)' = Tail(Kern(t)) /\ Kern(t) = c.kern
      BY <1>4, <1>5, <3>1, Zenon DEF Kern, Only
    <3>5. KernOpen' /\ KernOnce'
      BY <1>1, <3>3, <3>4, MoveUp, Zenon
    <3>6. KernApart'
      <4> SUFFICES ASSUME NEW p \in Obj, NEW u \in Thread, NEW j \in Waiting(u)', Owner(p)
                   PROVE  obj[p].h # Kern(u)'[j]
        BY <1>1, <1>7 DEF KernApart
      <4>1. \E q \in Waiting(u) : Kern(u)'[j] = Kern(u)[q]
        <5>1. CASE u = t
          BY <3>3, <3>4, <5>1, MoveUp, Zenon
        <5>2. CASE u # t
          BY <3>3, <3>4, <5>2, MoveUp, Zenon
        <5> QED
          BY <5>1, <5>2, Zenon
      <4> QED
        BY <4>1, Zenon DEF Good, OwnersOK, KernApart
    <3>7. kern \in Seq(Handle) /\ Len(kern) <= MaxDesc
      <4>1. kern \in Seq(Handle) /\ Len(kern) = Len(c.kern) - 1
        BY <3>1, <3>3, TailFacts, Zenon
      <4> QED
        BY <1>2, <3>3, <4>1, DescAssumption DEF FieldsOK
    <3> QED
      BY <2>2, <3>5, <3>6, <3>7, Zenon DEF AllOwned
  <2> QED
    BY <1>3, <2>1, <2>2, Zenon
<1>10. FieldsOK(call[t], local[t])' /\ HandlesMatch(t)'
  BY <1>2, <1>4, <1>5, <1>9, Zenon DEF FieldsOK, HandlesMatch
<1>11. CallRight(t)'
  BY <1>1, <1>4, <1>5, <1>6, <1>10, FewerGood DEF CallRight
<1> QED
  BY <1>5, <1>6, <1>8, <1>9, <1>11, ChangeGood, Zenon DEF OwnersOK

\* The handles of a message are opened in the order of its entries.
LEMMA ReceiveGood ==
  ASSUME Good, Kept, NEW t \in Thread, Receive(t), UNCHANGED faulted
  PROVE  Good'
<1> DEFINE c == call[t]
           e == ResOf(local[t][0])
           m == Head(queue[e])
<1>1. /\ c.pc = "recv" /\ e \in End /\ queue[e] # <<>>
      /\ queue' = [queue EXCEPT ![e] = Tail(queue[e])]
      /\ UNCHANGED <<refs, obj, local>>
  BY Zenon DEF Receive
<1>2. CallOK(c, local[t]) /\ FieldsOK(c, local[t]) /\ DOMAIN call = Thread
  BY Zenon DEF Good, IInv, CallsOK, CallRight
<1>3. queue \in [End -> Seq(Messages)] /\ host \in [Handle -> Res \cup {NoRes}]
  BY Zenon DEF Good, HostTypes
<1>4. m \in Messages /\ queue' \in [End -> Seq(Messages)]
  <2>1. queue[e] \in Seq(Messages)
    BY <1>1, <1>3, Zenon
  <2>2. Head(queue[e]) \in Messages /\ Tail(queue[e]) \in Seq(Messages)
    BY <1>1, <2>1
  <2> QED
    BY <1>1, <1>3, <2>2, Zenon
<1>5. Len(m) \in Nat /\ Len(m) <= MaxDesc /\ DOMAIN m = 1 .. Len(m)
  BY <1>4 DEF Messages
<1> DEFINE Rec(s) == [c EXCEPT !.pc = "internalize", !.msg = m, !.kern = s]
<1>6. PICK n \in 0 .. Len(m) : \E w \in [1 .. n -> DOMAIN m] :
        /\ WithHandle(m, w)
        /\ \E s \in [1 .. n -> Handle] :
            /\ Lowest(s)
            /\ host' = [h \in Handle |-> IF \E j \in 1 .. n : s[j] = h
                                         THEN m[w[CHOOSE j \in 1 .. n : s[j] = h]].res
                                         ELSE host[h]]
            /\ call' = [call EXCEPT ![t] = Rec(s)]
  BY Zenon DEF Receive
<1>7. PICK w \in [1 .. n -> DOMAIN m], s \in [1 .. n -> Handle] :
        /\ WithHandle(m, w)
        /\ Lowest(s)
        /\ host' = [h \in Handle |-> IF \E j \in 1 .. n : s[j] = h
                                     THEN m[w[CHOOSE j \in 1 .. n : s[j] = h]].res
                                     ELSE host[h]]
        /\ call' = [call EXCEPT ![t] = Rec(s)]
  BY <1>6, Zenon
<1> DEFINE k == Rec(s)
<1>8. k.pc = "internalize" /\ k.msg = m /\ k.kern = s /\ k.i = c.i /\ c.i = 1
  BY <1>1, <1>2, Zenon DEF CallOK, IsCall, FieldsOK
<1>9. Only(t) /\ call'[t] = k
  BY <1>1, <1>2, <1>7, Zenon DEF Only
<1> HIDE DEF m, k
<1>10. n \in Nat /\ n <= MaxDesc /\ s \in Seq(Handle) /\ Len(s) = n /\ DOMAIN s = 1 .. n
  BY <1>5, DescAssumption
<1>11. \A i, j \in 1 .. n : s[i] = s[j] => i = j
  <2>1. \A i \in 1 .. n : \A j \in 1 .. i - 1 : s[j] < s[i]
    BY <1>7, <1>10, Zenon DEF Lowest
  <2>2. \A i, j \in 1 .. n : i < j => s[i] < s[j]
    BY <1>10, <2>1
  <2>3. \A i \in 1 .. n : s[i] \in Int
    BY DescAssumption DEF Handle
  <2> QED
    BY <1>10, <2>2, <2>3
<1>12. \A j \in 1 .. n : /\ s[j] \in Handle /\ host[s[j]] = NoRes
                         /\ host'[s[j]] = m[w[j]].res
                         /\ w[j] \in 1 .. Len(m) /\ Owns(m[w[j]].tag)
                         /\ m[w[j]].res # NoRes /\ m[w[j]].res \in Res
  <2> TAKE j \in 1 .. n
  <2>1. s[j] \in Handle /\ host[s[j]] = NoRes
    BY <1>7, <1>10 DEF Lowest
  <2>2. (CHOOSE i \in 1 .. n : s[i] = s[j]) = j
    BY <1>11
  <2>3. host'[s[j]] = m[w[j]].res
    BY <1>7, <2>1, <2>2
  <2>4. w[j] \in 1 .. Len(m) /\ Owns(m[w[j]].tag)
    BY <1>5, <1>7, Zenon DEF WithHandle
  <2>5. m[w[j]].res # NoRes /\ m[w[j]].res \in Res
    <3>1. w[j] \in Nat /\ w[j] >= 1 /\ w[j] <= Len(m)
      BY <1>5, <2>4
    <3> QED
      BY <1>4, <2>4, <3>1, MessageEntry, Zenon
  <2> QED
    BY <2>1, <2>3, <2>4, <2>5
<1>13. \A h \in Handle : (\A j \in 1 .. n : s[j] # h) => host'[h] = host[h]
  BY <1>7
<1>14. HostTypes'
  <2>1. \A h \in Handle : host'[h] \in Res \cup {NoRes}
    BY <1>3, <1>12, <1>13, Zenon
  <2>2. DOMAIN host' = Handle /\ host' = [h \in Handle |-> host'[h]]
    BY <1>7
  <2>3. host' \in [Handle -> Res \cup {NoRes}]
    BY <2>1, <2>2
  <2> QED
    BY <1>1, <1>4, <2>3 DEF HostTypes, Good
<1>15. /\ Kern(t) = <<>> /\ Kern(t)' = s
       /\ \A u \in Thread \ {t} : Kern(u)' = Kern(u)
  BY <1>1, <1>2, <1>8, <1>9, Zenon DEF Kern, Only, FieldsOK
<1>16. OwnersOK' /\ ObjectsKept /\ WaitingKept(t)
  <2>1. Opens(t, n, s)
    BY <1>1, <1>10, <1>11, <1>12, <1>13, <1>15 DEF Opens
  <2> QED
    BY <1>10, <2>1, Opening
<1>17. FieldsOK(call[t], local[t])'
  BY <1>4, <1>8, <1>9, <1>10 DEF FieldsOK
<1>18. InOrder(k, w)
  <2>1. w \in [1 .. n -> 1 .. Len(m)] /\ DOMAIN w = 1 .. n
    BY <1>5
  <2>2. /\ \A i, j \in 1 .. n : i < j => w[i] < w[j]
        /\ \A i \in 1 .. Len(m) : Owns(m[i].tag) => \E j \in 1 .. n : w[j] = i
    BY <1>5, <1>7, <2>1 DEF WithHandle
  <2> QED
    BY <1>8, <1>10, <1>12, <2>1, <2>2, Zenon DEF InOrder
<1>19. HandlesMatch(t)'
  <2>1. w \in [1 .. Len(k.kern) -> 1 .. Len(k.msg)]
    BY <1>5, <1>8, <1>10
  <2>2. \A j \in 1 .. Len(k.kern) : host'[k.kern[j]] = k.msg[w[j]].res
    BY <1>8, <1>10, <1>12
  <2> QED
    BY <1>9, <1>18, <2>1, <2>2, Zenon DEF HandlesMatch
<1>20. MadeRight(t)'
  <2>1. \A p \in 1 .. MaxDesc : local[t][p] = Null
    BY <1>1, <1>2, <1>8, Kinds, DescAssumption DEF CallOK
  <2> QED
    BY <1>1, <2>1 DEF MadeRight
<1>21. CallRight(t)'
  BY <1>17, <1>19, <1>20 DEF CallRight
<1> QED
  BY <1>9, <1>14, <1>16, <1>21, ChangeGood, Zenon

\* Exact counts mean that nothing in use was freed.
LEMMA HeldAlive == IInv => Alive
<1> SUFFICES ASSUME IInv PROVE Alive
  OBVIOUS
<1>1. ASSUME NEW o \in Obj, InTable(o) # {} \/ InLocals(o) # {}
      PROVE  refs[o] > 0
  <2>1. IsFiniteSet(InTable(o)) /\ IsFiniteSet(InLocals(o))
    BY Finite, FS_Subset, Zenon DEF InTable, InLocals
  <2>2. /\ Cardinality(InTable(o)) \in Nat /\ Cardinality(InLocals(o)) \in Nat
        /\ Cardinality(InTable(o)) > 0 \/ Cardinality(InLocals(o)) > 0
    BY <1>1, <2>1, FS_CardinalityType, FS_EmptySet
  <2> QED
    BY <2>2 DEF IInv, RefsExact, Held
<1>2. ASSUME NEW d \in Slot, desc_tbl[d] # Null
      PROVE  refs[desc_tbl[d]] > 0
  BY <1>1, <1>2 DEF InTable, IInv, TypeInv
<1>3. ASSUME NEW t \in Thread, NEW p \in Place, local[t][p] \in Obj
      PROVE  refs[local[t][p]] > 0
  <2>1. <<t, p>> \in InLocals(local[t][p])
    BY Zenon DEF InLocals
  <2> QED
    BY <1>1, <1>3, <2>1
<1> QED
  BY <1>2, <1>3 DEF Alive


----------------------------------------------------------------------------
(* Every step, and what follows.                                           *)

\* The invariant holds with nothing open.
LEMMA InitHandles == Init => HandleInv
<1> SUFFICES ASSUME Init PROVE HandleInv
  OBVIOUS
<1>1. /\ Handles \in Nat /\ Handles >= 3 /\ Objects \in Nat /\ Objects >= 4
      /\ 1 \in Handle /\ 2 \in Handle /\ 3 \in Handle
  BY DescAssumption DEF Handle
<1>2. /\ \A o \in Obj : o <= 4 => o \in {1, 2, 3, 4}
      /\ \A h \in Handle : h \in Nat /\ h >= 1
  BY <1>1 DEF Obj, Handle
<1>3. \A o \in Obj : obj[o] = IF o <= 4 THEN Made[o] ELSE NoObject
  BY DEF Init
<1>4. \A o \in Obj : Owner(o) <=> o \in {1, 2, 3}
  BY <1>2, <1>3 DEF Owner, Init, Made, Owns, NoObject, Obj
<1>5. \A o \in {1, 2, 3} : o \in Obj /\ obj[o].h = o
  BY <1>1, <1>3 DEF Made, Obj
<1>6. host[1] = "A" /\ host[2] = "B" /\ host[3] = "F" /\ \A h \in Handle : h > 3 => host[h] = NoRes
  BY <1>1, <1>2 DEF Init
<1>7. \A t \in Thread : call[t] = Idle /\ local[t] = NoLocals
  BY DEF Init
<1>8. \A t \in Thread : Kern(t) = <<>> /\ Waiting(t) = {}
  BY <1>7, Records DEF Kern, Waiting
<1>9. HostTypes
  <2>1. \A o \in Obj : obj[o] \in Objects_
    BY <1>1, <1>2, <1>3 DEF Made, NoObject, Objects_, Kind, Res
  <2>2. \A h \in Handle : host[h] \in Res \cup {NoRes}
    <3>1. \A h \in Handle : h \in {1, 2, 3} \/ h > 3
      BY <1>2
    <3> QED
      BY <1>6, <3>1 DEF Res
  <2>3. DOMAIN obj = Obj /\ DOMAIN host = Handle
    BY DEF Init
  <2>4. obj \in [Obj -> Objects_]
    <3>1. obj = [o \in Obj |-> obj[o]]
      BY DEF Init
    <3> QED
      BY <2>1, <3>1
  <2>5. host \in [Handle -> Res \cup {NoRes}]
    <3>1. host = [h \in Handle |-> host[h]]
      BY DEF Init
    <3> QED
      BY <2>2, <3>1
  <2>6. queue \in [End -> Seq(Messages)]
    BY DEF Init
  <2> QED
    BY <2>4, <2>5, <2>6 DEF HostTypes, Objects_
<1>10. OwnedOpen /\ OwnedOnce /\ KernOpen /\ KernOnce /\ KernApart
  BY <1>1, <1>4, <1>5, <1>6, <1>8 DEF OwnedOpen, OwnedOnce, KernOpen, KernOnce, KernApart, NoRes
<1>11. AllOwned
  <2>1. \A h \in Handle : host[h] # NoRes => h \in {1, 2, 3}
    BY <1>2, <1>6
  <2> QED
    BY <1>4, <1>5, <2>1 DEF AllOwned
<1>12. \A t \in Thread : CallRight(t)
  BY <1>7, Records, DescAssumption DEF CallRight, HandlesMatch, MadeRight
<1> QED
  BY <1>9, <1>10, <1>11, <1>12 DEF HandleInv, OwnersOK

\* Every way to start a call keeps the invariant.
LEMMA StartGood ==
  ASSUME Good, Kept, NEW t \in Thread, Start(t)
  PROVE  Good'
<1>1. CASE \E a \in MakeArgs : EnterMake(t, a)
  BY <1>1, EnterMakeGood DEF Start
<1>2. CASE \E d \in Slot : \/ EnterUse(t, d)
                           \/ \E v \in SendArgs : EnterSend(t, d, v)
                           \/ \E n \in RecvArgs : EnterRecv(t, d, n)
  BY <1>2, EntersGood DEF Start
<1>3. CASE \E d \in Slot : Close(t, d)
  BY <1>3, CloseGood DEF Start
<1>4. CASE \E w \in WaitArgs : EnterWait(t, w[1], w[2])
  <2>1. PICK w \in WaitArgs : EnterWait(t, w[1], w[2])
    BY <1>4
  <2>2. w[1] \in Slot /\ w[2] \in Slot
    BY DescAssumption
  <2> QED
    BY <2>1, <2>2, EntersGood DEF Start
<1>5. CASE \E d \in ConnectArgs : EnterConnect(t, d, [kind |-> "imc", res |-> "C"])
  BY <1>5, EntersGood, DescAssumption, Zenon DEF Start
<1> QED
  BY <1>1, <1>2, <1>3, <1>4, <1>5 DEF Start

\* Every step of a call keeps the invariant.
LEMMA StepGood ==
  ASSUME Good, Kept, NEW t \in Thread, Step(t), "buffer" \notin faulted'
  PROVE  Good'
<1>1. CASE Release(t) /\ UNCHANGED faulted
  BY <1>1, ReleaseGood
<1>2. CASE Make(t) /\ UNCHANGED faulted
  BY <1>2, MakeGood
<1>3. CASE (NotSent(t) \/ NotReceived(t) \/ MakeFails(t) \/ Installed(t)) /\ UNCHANGED faulted
  BY <1>3, LeavesGood
<1>4. CASE Install(t) /\ UNCHANGED faulted
  BY <1>4, InstallGood, Zenon
<1>5. CASE Gather(t) /\ UNCHANGED faulted
  BY <1>5, GatherGood, Zenon
<1>6. CASE Send(t) /\ UNCHANGED faulted
  BY <1>6, SendGood
<1>7. CASE Receive(t) /\ UNCHANGED faulted
  BY <1>7, ReceiveGood
<1>8. CASE Internalize(t) /\ UNCHANGED faulted
  BY <1>8, InternalizeGood, Zenon
<1>9. CASE InternalizeInvalid(t) /\ UNCHANGED faulted
  BY <1>9, InternalizeInvalidGood
<1>10. CASE CloseHandles(t) /\ UNCHANGED faulted
  BY <1>10, CloseHandlesGood
<1>11. CASE Truncate(t) /\ UNCHANGED faulted
  BY <1>11, TruncateGood
<1>12. CASE MakeInvalid(t) /\ UNCHANGED faulted
  BY <1>12, MakeInvalidGood, Zenon
<1>13. CASE InternalizeFails(t)
  BY <1>13, InternalizeFailsGood
<1>14. CASE NoBuffer(t)
  BY <1>14, Zenon DEF NoBuffer
<1> QED
  BY <1>1, <1>2, <1>3, <1>4, <1>5, <1>6, <1>7, <1>8, <1>9, <1>10, <1>11, <1>12, <1>13, <1>14, Zenon
     DEF Step

\* A fault that struck stays on record.
LEMMA FaultsStay == [Next]_vars => faulted \subseteq faulted'
BY Zenon DEF Next, Start, Step, NoBuffer, InternalizeFails, Done, vars

\* Every step does.
LEMMA StepHandles == IInv /\ HandleInv /\ [Next]_vars => HandleInv'
<1> SUFFICES ASSUME IInv, HandleInv, [Next]_vars, "buffer" \notin faulted'
             PROVE  (HostTypes /\ OwnersOK /\ \A t \in Thread : CallRight(t))'
  BY DEF HandleInv
<1>1. Good
  BY HeldAlive, FaultsStay DEF Good, HandleInv
<1>2. IInv'
  BY StepInv, Zenon
<1>3. (IInv => Alive)'
  BY HeldAlive, PTL
<1>4. Kept
  BY <1>2, <1>3 DEF Kept
<1>5. ASSUME NEW t \in Thread, Start(t) PROVE Good'
  BY <1>1, <1>4, <1>5, StartGood, Zenon
<1>6. ASSUME NEW t \in Thread, Step(t) PROVE Good'
  BY <1>1, <1>4, <1>6, StepGood
<1>7. CASE UNCHANGED vars
  <2>1. HostTypes' /\ OwnersOK'
    BY <1>1, <1>7 DEF vars, Good, HostTypes, OwnersOK, OwnedOpen, OwnedOnce, KernOpen, KernOnce,
                      KernApart, AllOwned, Owner, Kern, Waiting
  <2>2. \A t \in Thread : CallRight(t)'
    BY <1>1, <1>7 DEF vars, Good, CallRight, FieldsOK, HandlesMatch, MadeRight, Entry, ResOf
  <2> QED
    BY <2>1, <2>2
<1> QED
  BY <1>5, <1>6, <1>7 DEF Next, Done, Good

\* At most one closer of a handle, and one of each open one.
LEMMA OneCloser ==
  ASSUME HostTypes, OwnersOK, \A t \in Thread : CallRight(t), NEW h \in Handle
  PROVE  /\ host[h] = NoRes => Closers(h) = {}
         /\ \A x, y \in Closers(h) : x = y
         /\ host[h] # NoRes /\ "ctor" \notin faulted => Closers(h) # {}
<1>1. \A x \in Closers(h) :
        \/ \E o \in Obj : x = <<"obj", o>> /\ Owner(o) /\ obj[o].h = h
        \/ \E t \in Thread : \E j \in Waiting(t) : x = <<"kern", t, j>> /\ Kern(t)[j] = h
  BY DEF Closers, Owner, Waiting, Kern, CallRight, FieldsOK
<1>2. host[h] = NoRes => Closers(h) = {}
  BY <1>1 DEF OwnersOK, OwnedOpen, KernOpen
<1>3. \A x, y \in Closers(h) : x = y
  <2> TAKE x, y \in Closers(h)
  <2>1. CASE \E o \in Obj : x = <<"obj", o>> /\ Owner(o) /\ obj[o].h = h
    BY <1>1, <2>1 DEF OwnersOK, OwnedOnce, KernApart
  <2>2. CASE \E t \in Thread : \E j \in Waiting(t) : x = <<"kern", t, j>> /\ Kern(t)[j] = h
    BY <1>1, <2>2 DEF OwnersOK, KernOnce, KernApart
  <2> QED
    BY <1>1, <2>1, <2>2
<1>4. ASSUME host[h] # NoRes, "ctor" \notin faulted PROVE Closers(h) # {}
  <2>1. CASE \E o \in Obj : Owner(o) /\ obj[o].h = h
    BY <2>1, Zenon DEF Closers, Owner
  <2>2. ASSUME NEW t \in Thread, NEW j \in Waiting(t), Kern(t)[j] = h PROVE Closers(h) # {}
    <3>1. j \in 1 .. MaxDesc /\ j <= Len(call[t].kern) /\ call[t].kern[j] = h
      BY <2>2, DescAssumption DEF Waiting, Kern, CallRight, FieldsOK
    <3>2. <<t, j>> \in Thread \X (1 .. MaxDesc) /\ <<t, j>>[1] = t /\ <<t, j>>[2] = j
      BY <3>1, Zenon
    <3>3. <<"kern", <<t, j>>[1], <<t, j>>[2]>> \in Closers(h)
      BY <3>1, <3>2, Zenon DEF Closers
    <3> QED
      BY <3>3, Zenon
  <2> QED
    BY <1>4, <2>1, <2>2, Zenon DEF OwnersOK, AllOwned
<1> QED
  BY <1>2, <1>3, <1>4

\* What the invariant says of the open handles.
LEMMA HandlesCounted == HandleInv => HandlesKept
<1> SUFFICES ASSUME HandleInv, "buffer" \notin faulted, NEW h \in Handle
             PROVE  LET n == Cardinality(Closers(h)) IN
                    /\ n <= (IF host[h] = NoRes THEN 0 ELSE 1)
                    /\ "ctor" \notin faulted => n = (IF host[h] = NoRes THEN 0 ELSE 1)
  BY DEF HandlesKept
<1>1. /\ host[h] = NoRes => Closers(h) = {}
      /\ \A x, y \in Closers(h) : x = y
      /\ host[h] # NoRes /\ "ctor" \notin faulted => Closers(h) # {}
  BY OneCloser DEF HandleInv
<1>2. CASE Closers(h) = {}
  BY <1>1, <1>2, FS_EmptySet
<1>3. ASSUME NEW x \in Closers(h)
      PROVE  Cardinality(Closers(h)) = 1
  <2>1. Closers(h) = {x}
    BY <1>1
  <2> QED
    BY <2>1, FS_Singleton
<1> QED
  BY <1>1, <1>2, <1>3

\* What the two theorems rest on: IInv and HandleInv hold together.
THEOREM HandlesInvariant == Spec => [](IInv /\ HandleInv)
<1>1. Init => IInv /\ HandleInv
  BY InitInv, InitHandles
<1>2. IInv /\ HandleInv /\ [Next]_vars => (IInv /\ HandleInv)'
  BY StepInv, StepHandles, Zenon
<1> QED
  BY <1>1, <1>2, PTL DEF Spec

(***************************************************************************)
(* However many threads, objects, handles and messages there are, a host   *)
(* handle is closed by one owner and by no other: NaClRefCountUnref of the *)
(* object that took it over, or the end of NaClImcRecvTypedMessage for one *)
(* still in kern_handle.  Until a constructor failed every open handle has *)
(* such an owner, so that none leaks.                                      *)
(***************************************************************************)
THEOREM HandlesSafe == Spec => []HandlesKept
BY HandlesInvariant, HandlesCounted, PTL

(***************************************************************************)
(* Whatever other calls close, open, send and receive meanwhile, the       *)
(* object NaClImcRecvTypedMessage made of the p-th descriptor of a message *)
(* designates what the sender's p-th descriptor did.                       *)
(***************************************************************************)
THEOREM DeliverySafe == Spec => []DeliveredRight
<1>1. HandleInv => DeliveredRight
  BY DEF HandleInv, CallRight, MadeRight, DeliveredRight
<1> QED
  BY <1>1, HandlesInvariant, PTL

=============================================================================
