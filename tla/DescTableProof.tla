--------------------------- MODULE DescTableProof ---------------------------
(***************************************************************************)
(* The reference counts of DescTable are exact for every number of         *)
(* threads, descriptors, objects and calls, and whatever fails.            *)
(***************************************************************************)
EXTENDS DescInv, FiniteSetTheorems, TLAPS

----------------------------------------------------------------------------
(* Counting.                                                               *)

\* The places that can hold a reference form finite sets.
LEMMA Finite == IsFiniteSet(Slot) /\ IsFiniteSet(Thread \X Place)
<1>1. IsFiniteSet(Slot)
  BY DescAssumption, FS_Interval DEF Slot
<1>2. IsFiniteSet(Place)
  BY DescAssumption, FS_Interval DEF Place
<1>3. QED
  BY <1>1, <1>2, DescAssumption, FS_Product

\* The null and the invalid descriptor are no objects, and the places are there.
LEMMA Sets ==
  /\ 0 \notin Obj /\ -1 \notin Obj /\ Obj \subseteq Nat
  /\ 0 \in Place /\ MaxDesc + 1 \in Place
  /\ Null = 0 /\ Invalid = -1
BY DescAssumption DEF Obj, Place, Null, Invalid

\* Setting one slot changes the number of slots that hold o by at most one.
LEMMA TblPut ==
  ASSUME desc_tbl \in [Slot -> Obj \cup {Null}],
         NEW d \in Slot, NEW b \in Obj \cup {Null}, NEW o \in Obj \cup {Invalid},
         desc_tbl' = [desc_tbl EXCEPT ![d] = b]
  PROVE  /\ Cardinality(InTable(o)) \in Nat
         /\ (b = o /\ desc_tbl[d] # o) => Cardinality(InTable(o)') = Cardinality(InTable(o)) + 1
         /\ (b # o /\ desc_tbl[d] = o) => /\ Cardinality(InTable(o)') = Cardinality(InTable(o)) - 1
                                          /\ Cardinality(InTable(o)) >= 1
         /\ (b = o <=> desc_tbl[d] = o) => Cardinality(InTable(o)') = Cardinality(InTable(o))
<1>1. IsFiniteSet(InTable(o))
  BY Finite, FS_Subset DEF InTable
<1>2. Cardinality(InTable(o)) \in Nat
  BY <1>1, FS_CardinalityType
<1>3. CASE b = o /\ desc_tbl[d] # o
    BY <1>3, <1>1, <1>2, FS_AddElement DEF InTable
<1>4. CASE b # o /\ desc_tbl[d] = o
  <2>1. InTable(o)' = InTable(o) \ {d} /\ d \in InTable(o)
    BY <1>4 DEF InTable
  <2>2. Cardinality(InTable(o)) >= 1
    BY <2>1, <1>1, <1>2, FS_EmptySet
  <2>3. QED
    BY <2>1, <2>2, <1>1, <1>2, <1>4, FS_RemoveElement
<1>5. CASE b = o <=> desc_tbl[d] = o
    BY <1>5, <1>2, Zenon DEF InTable
<1>6. QED
  BY <1>3, <1>4, <1>5, Zenon

\* The same for one local variable.
LEMMA LocalPut ==
  ASSUME local \in [Thread -> [Place -> Obj \cup {Null, Invalid}]],
         NEW t \in Thread, NEW p \in Place,
         NEW b \in Obj \cup {Null, Invalid}, NEW o \in Obj \cup {Invalid},
         local' = [local EXCEPT ![t][p] = b]
  PROVE  /\ Cardinality(InLocals(o)) \in Nat
         /\ (b = o /\ local[t][p] # o) => Cardinality(InLocals(o)') = Cardinality(InLocals(o)) + 1
         /\ (b # o /\ local[t][p] = o) => /\ Cardinality(InLocals(o)') = Cardinality(InLocals(o)) - 1
                                          /\ Cardinality(InLocals(o)) >= 1
         /\ (b = o <=> local[t][p] = o) => Cardinality(InLocals(o)') = Cardinality(InLocals(o))
<1>1. IsFiniteSet(InLocals(o))
  BY Finite, FS_Subset, Zenon DEF InLocals
<1>2. Cardinality(InLocals(o)) \in Nat
  BY <1>1, FS_CardinalityType
<1>a. \A u \in Thread, q \in Place :
        local'[u][q] = IF u = t /\ q = p THEN b ELSE local[u][q]
  BY Zenon
<1>3. CASE b = o /\ local[t][p] # o
  <2>1. InLocals(o)' = InLocals(o) \cup {<<t, p>>} /\ <<t, p>> \notin InLocals(o)
    BY <1>3, <1>a DEF InLocals
  <2>2. QED
    BY <2>1, <1>1, <1>2, <1>3, FS_AddElement, Zenon
<1>4. CASE b # o /\ local[t][p] = o
  <2>1. InLocals(o)' = InLocals(o) \ {<<t, p>>} /\ <<t, p>> \in InLocals(o)
    BY <1>4, <1>a DEF InLocals
  <2>2. Cardinality(InLocals(o)) >= 1
    BY <2>1, <1>1, <1>2, FS_EmptySet
  <2>3. Cardinality(InLocals(o)') = Cardinality(InLocals(o)) - 1
    BY <2>1, <1>1, FS_RemoveElement, Zenon
  <2>4. QED
    BY <2>2, <2>3, <1>2, <1>4, Zenon
<1>5. CASE b = o <=> local[t][p] = o
  <2>1. InLocals(o)' = InLocals(o)
    BY <1>5, <1>a DEF InLocals
  <2>2. QED
    BY <2>1, <1>2, <1>5
<1>6. QED
  BY <1>3, <1>4, <1>5, Zenon

----------------------------------------------------------------------------
(* The ways in which references move.                                      *)

Counts == RefsExact /\ InvalidKept
LocalType == local \in [Thread -> [Place -> Obj \cup {Null, Invalid}]]
RefsType == refs \in [Obj \cup {Invalid} -> Nat]

\* NaClGetDesc, NaClDescInvalidMake, or a constructor: one more reference.
LEMMA Acquire ==
  ASSUME TypeInv, Counts, NEW t \in Thread, NEW p \in Place, NEW x \in Obj \cup {Invalid},
         local[t][p] = Null,
         local' = [local EXCEPT ![t][p] = x],
         refs' = [refs EXCEPT ![x] = refs[x] + 1],
         desc_tbl' = desc_tbl
  PROVE  Counts' /\ LocalType' /\ RefsType'
<1>1. LocalType' /\ RefsType'
  BY DEF TypeInv, LocalType, RefsType
<1>2. ASSUME NEW o \in Obj \cup {Invalid}
      PROVE  /\ Held(o) \in Nat
             /\ Held(o)' = IF o = x THEN Held(o) + 1 ELSE Held(o)
             /\ refs'[o] = IF o = x THEN refs[o] + 1 ELSE refs[o]
             /\ refs[o] \in Nat
  <2>1. Cardinality(InTable(o)) \in Nat
    BY Finite, FS_Subset, FS_CardinalityType DEF InTable
  <2>2. InTable(o)' = InTable(o)
    BY Zenon DEF InTable
  <2>3. x \in Obj \cup {Null, Invalid} /\ o # Null
    BY Sets
  <2>4. /\ Cardinality(InLocals(o)) \in Nat
        /\ Cardinality(InLocals(o)') = IF o = x THEN Cardinality(InLocals(o)) + 1
                                                ELSE Cardinality(InLocals(o))
    BY <2>3, LocalPut, Zenon DEF TypeInv
  <2>5. Held(o)' = Cardinality(InTable(o)) + Cardinality(InLocals(o)')
    BY <2>2, Zenon DEF Held
  <2>6. /\ refs'[o] = IF o = x THEN refs[o] + 1 ELSE refs[o]
        /\ refs[o] \in Nat
    BY Zenon DEF TypeInv
  <2>7. QED
    BY <2>1, <2>4, <2>5, <2>6 DEF Held
<1>3. RefsExact'
  BY <1>2 DEF Counts, RefsExact
<1>4. Invalid \in Obj \cup {Invalid}
  BY Zenon
<1>5. InvalidKept'
  BY <1>2, <1>4 DEF Counts, InvalidKept
<1>6. QED
  BY <1>1, <1>3, <1>5, Zenon DEF Counts

\* NaClDescUnref on a local variable: one reference less, and there was one.
LEMMA Drop ==
  ASSUME TypeInv, Counts, NEW t \in Thread, NEW p \in Place,
         NEW x \in Obj \cup {Invalid}, local[t][p] = x,
         local' = [local EXCEPT ![t][p] = Null],
         refs' = [refs EXCEPT ![x] = refs[x] - 1],
         desc_tbl' = desc_tbl
  PROVE  Counts' /\ LocalType' /\ RefsType'
<1>2. ASSUME NEW o \in Obj \cup {Invalid}
      PROVE  /\ Held(o) \in Nat
             /\ Held(o)' = IF o = x THEN Held(o) - 1 ELSE Held(o)
             /\ o = x => Held(o) >= 1
             /\ refs'[o] = IF o = x THEN refs[o] - 1 ELSE refs[o]
             /\ refs[o] \in Nat
  <2>1. Cardinality(InTable(o)) \in Nat
    BY Finite, FS_Subset, FS_CardinalityType, Zenon DEF InTable
  <2>2. InTable(o)' = InTable(o)
    BY Zenon DEF InTable
  <2>3. Null \in Obj \cup {Null, Invalid} /\ o # Null
    BY Sets
  <2>4. /\ Cardinality(InLocals(o)) \in Nat
        /\ Cardinality(InLocals(o)') = IF o = x THEN Cardinality(InLocals(o)) - 1
                                                ELSE Cardinality(InLocals(o))
        /\ o = x => Cardinality(InLocals(o)) >= 1
    BY <2>3, LocalPut, Zenon DEF TypeInv
  <2>5. Held(o)' = Cardinality(InTable(o)) + Cardinality(InLocals(o)')
    BY <2>2, Zenon DEF Held
  <2>6. /\ refs'[o] = IF o = x THEN refs[o] - 1 ELSE refs[o]
        /\ refs[o] \in Nat
    BY Zenon DEF TypeInv
  <2>7. QED
    BY <2>1, <2>4, <2>5, <2>6 DEF Held
<1>3. RefsExact'
  BY <1>2 DEF Counts, RefsExact
<1>4. Invalid \in Obj \cup {Invalid}
  BY Zenon
<1>5. InvalidKept'
  BY <1>2, <1>4 DEF Counts, InvalidKept
<1>6. refs[x] >= 1
  BY <1>2 DEF Counts, RefsExact, InvalidKept
<1>7. LocalType'
  BY Zenon DEF TypeInv, LocalType
<1>8. RefsType'
  BY <1>6 DEF TypeInv, RefsType
<1>9. QED
  BY <1>3, <1>5, <1>7, <1>8, Zenon DEF Counts

\* NaClCommonSysClose: the table's reference becomes the call's.
LEMMA TakeOut ==
  ASSUME TypeInv, Counts, NEW t \in Thread, NEW p \in Place, NEW d \in Slot,
         NEW x \in Obj, desc_tbl[d] = x, local[t][p] = Null,
         local' = [local EXCEPT ![t][p] = x],
         desc_tbl' = [desc_tbl EXCEPT ![d] = Null],
         refs' = refs
  PROVE  Counts' /\ LocalType' /\ desc_tbl' \in [Slot -> Obj \cup {Null}]
<1>1. LocalType' /\ desc_tbl' \in [Slot -> Obj \cup {Null}]
  BY DEF TypeInv, LocalType
<1>2. ASSUME NEW o \in Obj \cup {Invalid}
      PROVE  Held(o)' = Held(o)
  <2>1. x \in Obj \cup {Null, Invalid} /\ Null \in Obj \cup {Null} /\ o # Null
    BY Sets
  <2>2. /\ Cardinality(InLocals(o)) \in Nat
        /\ Cardinality(InLocals(o)') = IF o = x THEN Cardinality(InLocals(o)) + 1
                                                ELSE Cardinality(InLocals(o))
    BY <2>1, LocalPut, Zenon DEF TypeInv
  <2>3. /\ Cardinality(InTable(o)) \in Nat
        /\ Cardinality(InTable(o)') = IF o = x THEN Cardinality(InTable(o)) - 1
                                               ELSE Cardinality(InTable(o))
    BY <2>1, TblPut, Zenon DEF TypeInv
  <2>4. Held(o)' = Cardinality(InTable(o)') + Cardinality(InLocals(o)')
    BY Zenon DEF Held
  <2>5. QED
    BY <2>2, <2>3, <2>4 DEF Held
<1>3. RefsExact'
  BY <1>2, Zenon DEF Counts, RefsExact
<1>4. InvalidKept'
  BY <1>2, Zenon DEF Counts, InvalidKept
<1>5. QED
  BY <1>1, <1>3, <1>4 DEF Counts

\* NaClSetAvail: the call's reference becomes the table's.
LEMMA PutIn ==
  ASSUME TypeInv, Counts, NEW t \in Thread, NEW p \in Place, NEW d \in Slot,
         NEW x \in Obj, desc_tbl[d] = Null, local[t][p] = x,
         local' = [local EXCEPT ![t][p] = Null],
         desc_tbl' = [desc_tbl EXCEPT ![d] = x],
         refs' = refs
  PROVE  Counts' /\ LocalType' /\ desc_tbl' \in [Slot -> Obj \cup {Null}]
<1>1. LocalType' /\ desc_tbl' \in [Slot -> Obj \cup {Null}]
  BY Zenon DEF TypeInv, LocalType
<1>2. ASSUME NEW o \in Obj \cup {Invalid}
      PROVE  Held(o)' = Held(o)
  <2>1. Null \in Obj \cup {Null, Invalid} /\ x \in Obj \cup {Null} /\ o # Null
    BY Sets
  <2>2. /\ Cardinality(InLocals(o)) \in Nat
        /\ Cardinality(InLocals(o)') = IF o = x THEN Cardinality(InLocals(o)) - 1
                                                ELSE Cardinality(InLocals(o))
    BY <2>1, LocalPut, Zenon DEF TypeInv
  <2>3. /\ Cardinality(InTable(o)) \in Nat
        /\ Cardinality(InTable(o)') = IF o = x THEN Cardinality(InTable(o)) + 1
                                               ELSE Cardinality(InTable(o))
    BY <2>1, TblPut, Zenon DEF TypeInv
  <2>4. Held(o)' = Cardinality(InTable(o)') + Cardinality(InLocals(o)')
    BY Zenon DEF Held
  <2>5. QED
    BY <2>2, <2>3, <2>4 DEF Held
<1>3. RefsExact'
  BY <1>2, Zenon DEF Counts, RefsExact
<1>4. InvalidKept'
  BY <1>2, Zenon DEF Counts, InvalidKept
<1>5. QED
  BY <1>1, <1>3, <1>4 DEF Counts

\* imc_recvmsg forgets its reference to the invalid descriptor.
LEMMA Forget ==
  ASSUME TypeInv, Counts, NEW t \in Thread, NEW p \in Place,
         local[t][p] = Invalid,
         local' = [local EXCEPT ![t][p] = Null],
         desc_tbl' = desc_tbl,
         refs' = refs
  PROVE  Counts' /\ LocalType'
<1>1. LocalType'
  BY Zenon DEF TypeInv, LocalType
<1>2. ASSUME NEW o \in Obj \cup {Invalid}
      PROVE  Held(o)' = (IF o = Invalid THEN Held(o) - 1 ELSE Held(o)) /\ Held(o) \in Nat
  <2>1. Cardinality(InTable(o)) \in Nat
    BY Finite, FS_Subset, FS_CardinalityType, Zenon DEF InTable
  <2>2. InTable(o)' = InTable(o)
    BY Zenon DEF InTable
  <2>3. Null \in Obj \cup {Null, Invalid} /\ o # Null
    BY Sets
  <2>4. /\ Cardinality(InLocals(o)) \in Nat
        /\ Cardinality(InLocals(o)') = IF o = Invalid THEN Cardinality(InLocals(o)) - 1
                                                      ELSE Cardinality(InLocals(o))
        /\ o = Invalid => Cardinality(InLocals(o)) >= 1
    BY <2>3, LocalPut, Zenon DEF TypeInv
  <2>5. Held(o)' = Cardinality(InTable(o)) + Cardinality(InLocals(o)')
    BY <2>2, Zenon DEF Held
  <2>6. QED
    BY <2>1, <2>4, <2>5 DEF Held
<1>3. RefsExact'
  BY <1>2, Sets, Zenon DEF Counts, RefsExact
<1>4. InvalidKept'
    BY <1>2 DEF TypeInv, Counts, InvalidKept
<1>5. QED
  BY <1>1, <1>3, <1>4, Zenon DEF Counts

----------------------------------------------------------------------------
(* One step of thread t.                                                   *)

\* It is enough to look at the call and the locals of the thread that moved.
LEMMA Frame ==
  ASSUME CallsOK, TypeInv, NEW t \in Thread, LocalType',
         DOMAIN call' = Thread,
         \A u \in Thread \ {t} : call'[u] = call[u] /\ local'[u] = local[u],
         CallOK(call'[t], local'[t])
  PROVE  CallsOK'
BY Zenon DEF CallsOK

\* The cleanup code accepts whatever the locals hold.
LEMMA DropOK ==
  ASSUME NEW l
  PROVE  CallOK([Idle EXCEPT !.pc = "drop"], l)
BY DEF CallOK, IsCall, Idle

\* A thread between calls is in order.
LEMMA IdleOK == CallOK(Idle, NoLocals)
BY DEF CallOK, IsCall, Idle

\* A step that moves no reference.
LEMMA QuietStep ==
  ASSUME IInv, NEW t \in Thread, NEW c,
         UNCHANGED <<desc_tbl, refs, local>>,
         call' = [call EXCEPT ![t] = c],
         CallOK(c, local[t])
  PROVE  IInv'
  BY Frame DEF IInv, TypeInv, LocalType, Counts, RefsExact, InvalidKept, Held, InTable,
      InLocals, CallsOK

\* A step that puts a new reference to x into place p.
LEMMA AcquireStep ==
  ASSUME IInv, NEW t \in Thread, NEW p \in Place, NEW x \in Obj \cup {Invalid}, NEW c,
         local[t][p] = Null,
         local' = [local EXCEPT ![t][p] = x],
         refs' = [refs EXCEPT ![x] = refs[x] + 1],
         desc_tbl' = desc_tbl,
         call' = [call EXCEPT ![t] = c],
         CallOK(c, [local[t] EXCEPT ![p] = x])
  PROVE  IInv'
<1>1. Counts' /\ LocalType' /\ RefsType'
  BY Acquire, Zenon DEF IInv, Counts
<1>2. CallOK(call'[t], local'[t])
  BY Zenon DEF IInv, CallsOK, TypeInv
<1>3. CallsOK'
  BY <1>1, <1>2, Frame, Zenon DEF IInv, CallsOK, TypeInv
<1>4. QED
  BY <1>1, <1>3, Zenon DEF IInv, Counts, TypeInv, LocalType, RefsType

\* A step that drops the reference in place p.
LEMMA DropStep ==
  ASSUME IInv, NEW t \in Thread, NEW p \in Place, NEW c,
         local[t][p] # Null,
         local' = [local EXCEPT ![t][p] = Null],
         Unref(local[t][p]),
         desc_tbl' = desc_tbl,
         call' = [call EXCEPT ![t] = c],
         CallOK(c, [local[t] EXCEPT ![p] = Null])
  PROVE  IInv'
<1>1. PICK x \in Obj \cup {Invalid} : x = local[t][p]
  BY DEF IInv, TypeInv
<1>2. refs' = [refs EXCEPT ![x] = refs[x] - 1]
  BY <1>1, Zenon DEF Unref
<1>3. Counts' /\ LocalType' /\ RefsType'
  BY <1>1, <1>2, Drop, Zenon DEF IInv, Counts
<1>4. CallOK(call'[t], local'[t])
  BY Zenon DEF IInv, CallsOK, TypeInv
<1>5. CallsOK'
  BY <1>3, <1>4, Frame DEF IInv, CallsOK, TypeInv
<1>6. QED
  BY <1>3, <1>5, Zenon DEF IInv, Counts, TypeInv, LocalType, RefsType

----------------------------------------------------------------------------
(* The actions.                                                            *)

\* NaClGetDesc at the start of a call takes a reference that the call owns.
LEMMA EnterKeeps ==
  ASSUME IInv, NEW t \in Thread, NEW d \in Slot, NEW c, Enter(t, d, c),
         \A x \in Obj : CallOK(c, [NoLocals EXCEPT ![0] = x])
  PROVE  IInv'
<1>1. PICK x \in Obj : x = desc_tbl[d]
  BY Zenon DEF Enter, GetDesc, IInv, TypeInv
<1>2. local[t] = NoLocals /\ local[t][0] = Null /\ 0 \in Place
  BY Sets DEF Enter, IInv, CallsOK, CallOK, NoLocals
<1>3. /\ local' = [local EXCEPT ![t][0] = x]
      /\ refs' = [refs EXCEPT ![x] = refs[x] + 1]
      /\ desc_tbl' = desc_tbl
      /\ call' = [call EXCEPT ![t] = c]
  BY <1>1 DEF Enter, GetDesc, Ref
<1>4. CallOK(c, [local[t] EXCEPT ![0] = x])
  BY <1>2
<1>5. QED
  BY <1>2, <1>3, <1>4, AcquireStep, Zenon

\* The same, for every system call that starts with a descriptor.
LEMMA EntersKeep ==
  ASSUME IInv, NEW t \in Thread, NEW d \in Slot
  PROVE  /\ EnterUse(t, d) => IInv'
         /\ \A v \in SendArgs : EnterSend(t, d, v) => IInv'
         /\ \A n \in RecvArgs : EnterRecv(t, d, n) => IInv'
         /\ \A e \in Slot : EnterWait(t, d, e) => IInv'
         /\ \A a : EnterConnect(t, d, a) => IInv'
<1>1. ASSUME NEW x \in Obj, NEW p \in Place, p >= 1
      PROVE  [NoLocals EXCEPT ![0] = x][p] = Null
    BY <1>1 DEF Place, NoLocals
<1>2. EnterUse(t, d) => IInv'
    BY DropOK, EnterKeeps, Zenon DEF EnterUse
<1>3. ASSUME NEW v \in SendArgs, EnterSend(t, d, v)
      PROVE  IInv'
  <2> DEFINE c == [Idle EXCEPT !.pc = "gather", !.op = "send", !.descv = v]
  <2>1. v \in Seq(Slot \cup {Invalid}) /\ Len(v) <= MaxDesc
    BY DescAssumption
  <2>a. c.pc = "gather" /\ c.descv = v /\ c.i = 1 /\ IsCall(c)
    BY <2>1 DEF Idle, IsCall
  <2>2. ASSUME NEW x \in Obj
        PROVE  CallOK(c, [NoLocals EXCEPT ![0] = x])
      BY <1>1, <2>1, <2>a DEF CallOK
  <2>3. QED
    BY <1>3, <2>2, EnterKeeps DEF EnterSend
<1>4. ASSUME NEW n \in RecvArgs, EnterRecv(t, d, n)
      PROVE  IInv'
  <2> DEFINE c == [Idle EXCEPT !.pc = "recv", !.op = "recv", !.len = n]
  <2>1. n \in Nat /\ MaxDesc \in Nat
    BY DescAssumption
  <2>a. c.pc = "recv" /\ c.i = 1 /\ IsCall(c)
    BY <2>1 DEF Idle, IsCall
  <2>2. ASSUME NEW x \in Obj
        PROVE  CallOK(c, [NoLocals EXCEPT ![0] = x])
    <3> HIDE DEF c
    <3>1. QED
      BY <1>1, <2>1, <2>a DEF CallOK
  <2>3. QED
    BY <1>4, <2>2, EnterKeeps DEF EnterRecv
<1>5. ASSUME NEW e \in Slot, EnterWait(t, d, e)
      PROVE  IInv'
  <2> DEFINE c == [Idle EXCEPT !.pc = "gather", !.op = "wait", !.descv = <<e>>]
  <2>1. <<e>> \in Seq(Slot \cup {Invalid}) /\ Len(<<e>>) = 1 /\ MaxDesc \in Nat /\ MaxDesc >= 1
    BY DescAssumption
  <2>a. c.pc = "gather" /\ c.descv = <<e>> /\ c.i = 1 /\ IsCall(c)
    BY <2>1 DEF Idle, IsCall
  <2>2. ASSUME NEW x \in Obj
        PROVE  CallOK(c, [NoLocals EXCEPT ![0] = x])
    <3> HIDE DEF c
    <3>1. QED
      BY <1>1, <2>1, <2>a DEF CallOK
  <2>3. QED
    BY <1>5, <2>2, EnterKeeps, Zenon DEF EnterWait
<1>6. ASSUME NEW a, EnterConnect(t, d, a)
      PROVE  IInv'
  <2> DEFINE c == [Idle EXCEPT !.pc = "make", !.op = "connect", !.makes = <<a>>]
  <2>1. Len(<<a>>) = 1 /\ MaxDesc \in Nat /\ MaxDesc >= 1
    BY DescAssumption, Zenon
  <2>a. c.pc = "make" /\ c.makes = <<a>> /\ c.i = 1 /\ IsCall(c)
    BY <2>1 DEF Idle, IsCall
  <2>2. ASSUME NEW x \in Obj
        PROVE  CallOK(c, [NoLocals EXCEPT ![0] = x])
    <3> HIDE DEF c
    <3>1. QED
      BY <1>1, <2>1, <2>a DEF CallOK
  <2>3. QED
    BY <1>6, <2>2, EnterKeeps DEF EnterConnect
<1>7. QED
  BY <1>2, <1>3, <1>4, <1>5, <1>6

\* Close gives back the reference of the slot.
LEMMA CloseKeeps ==
  ASSUME IInv, NEW t \in Thread, NEW d \in Slot, Close(t, d)
  PROVE  IInv'
<1>1. PICK x \in Obj : x = desc_tbl[d]
  BY Zenon DEF Close, IInv, TypeInv
<1>2. local[t][0] = Null /\ 0 \in Place
  BY Sets DEF Close, IInv, CallsOK, CallOK, NoLocals
<1>3. /\ local' = [local EXCEPT ![t][0] = x]
      /\ desc_tbl' = [desc_tbl EXCEPT ![d] = Null]
      /\ refs' = refs
      /\ call' = [call EXCEPT ![t] = [Idle EXCEPT !.pc = "drop"]]
  BY <1>1, Zenon DEF Close
<1>4. Counts' /\ LocalType' /\ desc_tbl' \in [Slot -> Obj \cup {Null}]
  BY <1>1, <1>2, <1>3, TakeOut, Zenon DEF IInv, Counts
<1>5. CallOK(call'[t], local'[t])
  BY <1>3, DropOK DEF IInv, CallsOK
<1>6. CallsOK'
  BY <1>3, <1>4, <1>5, Frame, Zenon DEF IInv, CallsOK, TypeInv
<1>7. QED
  BY <1>3, <1>4, <1>6, Zenon DEF IInv, Counts, TypeInv, LocalType

\* A call that will make descriptors starts with none.
LEMMA EnterMakeKeeps ==
  ASSUME IInv, NEW t \in Thread, NEW as \in MakeArgs, EnterMake(t, as)
  PROVE  IInv'
<1> DEFINE c == [Idle EXCEPT !.pc = "make", !.op = "make", !.makes = as]
<1>1. Len(as) \in Nat /\ 1 <= Len(as) /\ Len(as) <= MaxDesc
  <2>1. PICK n \in 1 .. MaxDesc : Len(as) = n
    BY DescAssumption, Zenon
  <2>2. n \in Nat /\ 1 <= n /\ n <= MaxDesc
    BY DescAssumption
  <2>3. QED
    BY <2>1, <2>2
<1>2. c.pc = "make" /\ c.makes = as /\ c.i = 1 /\ IsCall(c)
  BY DEF Idle, IsCall
<1>3. call' = [call EXCEPT ![t] = c]
  BY Zenon DEF EnterMake
<1> HIDE DEF c
<1>4. local[t] = NoLocals
  BY Zenon DEF EnterMake, IInv, CallsOK, CallOK
<1>a. \A p \in Place : local[t][p] = Null
  BY <1>4, Zenon DEF NoLocals
<1>5. CallOK(c, local[t])
  BY <1>1, <1>2, <1>a, Zenon DEF CallOK
<1>6. UNCHANGED <<desc_tbl, refs, local>>
  BY Zenon DEF EnterMake
<1>7. QED
  BY <1>3, <1>5, <1>6, QuietStep, Zenon

\* NaClDescUnref at the end of a call gives back one reference of the call.
LEMMA ReleaseKeeps ==
  ASSUME IInv, NEW t \in Thread, Release(t)
  PROVE  IInv'
<1>1. PICK i \in DOMAIN ReleaseOrder :
        LET p == ReleaseOrder[i] IN
        /\ local[t][p] # Null
        /\ Unref(local[t][p])
        /\ local' = [local EXCEPT ![t][p] = Null]
        /\ call' = [call EXCEPT ![t] = IF \A q \in Place \ {p} : local[t][q] = Null
                                       THEN Idle ELSE @]
  BY Zenon DEF Release
<1> DEFINE p == ReleaseOrder[i]
<1>2. p \in Place
  BY DescAssumption DEF ReleaseOrder, Place
<1>3. /\ local[t][p] # Null
      /\ Unref(local[t][p])
      /\ local' = [local EXCEPT ![t][p] = Null]
      /\ desc_tbl' = desc_tbl
  BY <1>1, Zenon DEF Release
<1>4. call' = [call EXCEPT ![t] = IF \A q \in Place \ {p} : local[t][q] = Null
                                  THEN Idle ELSE call[t]]
  BY <1>1, Zenon
<1> HIDE DEF p
<1>5. CASE \A q \in Place \ {p} : local[t][q] = Null
  <2>1. [local[t] EXCEPT ![p] = Null] = NoLocals
    BY <1>2, <1>5, Zenon DEF IInv, TypeInv, NoLocals
  <2>2. CallOK(Idle, [local[t] EXCEPT ![p] = Null])
    BY <2>1, IdleOK, Zenon
  <2>3. call' = [call EXCEPT ![t] = Idle]
    BY <1>4, <1>5, Zenon
  <2>4. QED
    BY <1>2, <1>3, <2>2, <2>3, DropStep, Zenon
<1>6. CASE ~ \A q \in Place \ {p} : local[t][q] = Null
  <2>1. call' = [call EXCEPT ![t] = call[t]]
    BY <1>4, <1>6, Zenon
  <2>2. call[t].pc = "drop" /\ IsCall(call[t])
    BY DEF Release, IInv, CallsOK, CallOK
  <2>3. CallOK(call[t], [local[t] EXCEPT ![p] = Null])
    BY <2>2, Zenon DEF CallOK
  <2>4. QED
    BY <1>2, <1>3, <2>1, <2>3, DropStep, Zenon
<1>7. QED
  BY <1>5, <1>6, Zenon

\* Steps that only jump to the cleanup code.
LEMMA CleanupKeeps ==
  ASSUME IInv, NEW t \in Thread, UNCHANGED <<desc_tbl, refs, local>>, Cleanup(t)
  PROVE  IInv'
BY DropOK, QuietStep, Zenon DEF Cleanup

\* A new descriptor object starts with the one reference of its call.
LEMMA MakeKeeps ==
  ASSUME IInv, NEW t \in Thread, Make(t)
  PROVE  IInv'
<1> DEFINE c == call[t]
           k == [c EXCEPT !.i = @ + 1,
                          !.pc = IF c.i = Len(c.makes) THEN "install" ELSE "make"]
<1>1. PICK o \in Obj : /\ Malloc(o)
                       /\ refs' = [refs EXCEPT ![o] = 1]
                       /\ local' = [local EXCEPT ![t][c.i] = o]
  BY Zenon DEF Make
<1>2. c.pc = "make" /\ CallOK(c, local[t]) /\ desc_tbl' = desc_tbl
  BY Zenon DEF Make, IInv, CallsOK
<1>3. call' = [call EXCEPT ![t] = k]
  BY Zenon DEF Make
<1>4. c.i \in Place /\ local[t][c.i] = Null
  BY <1>2, DescAssumption DEF CallOK, IsCall, Place
<1>5. refs' = [refs EXCEPT ![o] = refs[o] + 1]
  BY <1>1 DEF Malloc, IInv, TypeInv
<1>6. /\ k.i = c.i + 1 /\ k.len = c.len /\ k.makes = c.makes
      /\ k.pc = IF c.i = Len(c.makes) THEN "install" ELSE "make"
      /\ DOMAIN k = DOMAIN c
  BY <1>2 DEF CallOK, IsCall
<1>7. ASSUME NEW q \in Place, q >= c.i + 1
      PROVE  [local[t] EXCEPT ![c.i] = o][q] = Null
    BY <1>2, <1>7 DEF CallOK, IsCall, Place, IInv, TypeInv
<1>8. CallOK(k, [local[t] EXCEPT ![c.i] = o])
    BY <1>2, <1>7 DEF CallOK, IsCall
<1>9. QED
  <2> HIDE DEF k, c
  <2>1. local' = [local EXCEPT ![t][c.i] = o] /\ desc_tbl' = desc_tbl
    BY <1>1, <1>2, Zenon
  <2>2. QED
    BY <1>3, <1>4, <1>5, <1>8, <2>1, AcquireStep, Zenon

\* A constructor that fails leaves the references as they are.
LEMMA MakeFailsKeeps ==
  ASSUME IInv, NEW t \in Thread, MakeFails(t)
  PROVE  IInv'
  BY IdleOK, QuietStep, CleanupKeeps, Zenon DEF MakeFails

\* A call hands its reference over to the slot it installs.
LEMMA InstallKeeps ==
  ASSUME IInv, NEW t \in Thread, Install(t)
  PROVE  IInv'
<1>1. PICK p \in 1 .. MaxDesc :
        /\ local[t][p] # Null
        /\ IF local[t][p] = Invalid
           THEN UNCHANGED desc_tbl
           ELSE \E d \in Slot : /\ FirstAvail(d)
                                /\ desc_tbl' = [desc_tbl EXCEPT ![d] = local[t][p]]
        /\ local' = [local EXCEPT ![t][p] = Null]
  BY Zenon DEF Install
<1>2. p \in Place
  BY DescAssumption DEF Place
<1>3. refs' = refs /\ call' = call /\ call[t].pc = "install" /\ DOMAIN call = Thread
  BY DEF Install, IInv, CallsOK
<1>4. Counts' /\ LocalType' /\ desc_tbl' \in [Slot -> Obj \cup {Null}]
  <2>1. CASE local[t][p] = Invalid
    <3>1. desc_tbl' = desc_tbl
      BY <1>1, <2>1, Zenon
    <3>2. QED
      BY <1>1, <1>2, <1>3, <2>1, <3>1, Forget, Zenon DEF IInv, Counts, TypeInv
  <2>2. CASE local[t][p] # Invalid
    <3>1. PICK d \in Slot : FirstAvail(d) /\ desc_tbl' = [desc_tbl EXCEPT ![d] = local[t][p]]
      BY <1>1, <2>2, Zenon
    <3>2. PICK x \in Obj : x = local[t][p]
      BY <1>1, <1>2, <2>2 DEF IInv, TypeInv
    <3>3. QED
      BY <1>1, <1>2, <1>3, <3>1, <3>2, PutIn, Zenon DEF IInv, Counts, FirstAvail
  <2>3. QED
    BY <2>1, <2>2, Zenon
<1>5. CallOK(call'[t], local'[t])
  BY <1>3 DEF IInv, CallsOK, CallOK
<1>6. CallsOK'
  BY <1>1, <1>3, <1>4, <1>5, Frame, Zenon DEF IInv, CallsOK, TypeInv
<1>7. QED
  BY <1>3, <1>4, <1>6 DEF IInv, Counts, TypeInv, LocalType

\* When all is installed the call returns or goes on to drop what it was called on.
LEMMA InstalledKeeps ==
  ASSUME IInv, NEW t \in Thread, Installed(t)
  PROVE  IInv'
<1>1. UNCHANGED <<desc_tbl, refs, local>>
  BY Zenon DEF Installed
<1>2. CASE local[t] = NoLocals
  BY <1>1, <1>2, IdleOK, QuietStep, Zenon DEF Installed
<1>3. CASE local[t] # NoLocals
  BY <1>1, <1>3, DropOK, QuietStep, Zenon DEF Installed
<1>4. QED
  BY <1>2, <1>3, Zenon

\* A call that puts its next reference into place c.i and goes on.
LEMMA NextPlace ==
  ASSUME IInv, NEW t \in Thread, NEW x \in Obj \cup {Invalid}, NEW k,
         local' = [local EXCEPT ![t][call[t].i] = x],
         refs' = [refs EXCEPT ![x] = refs[x] + 1],
         desc_tbl' = desc_tbl,
         call' = [call EXCEPT ![t] = k],
         call[t].i <= MaxDesc,
         \/ call[t].pc = "gather" /\ k.descv = call[t].descv
         \/ call[t].pc = "internalize",
         DOMAIN k = DOMAIN call[t],
         k.pc = call[t].pc, k.i = call[t].i + 1, k.len = call[t].len
  PROVE  IInv'
<1> DEFINE c == call[t]
<1>1. CallOK(c, local[t])
  BY DEF IInv, CallsOK
<1>2. c.i \in Nat /\ c.i >= 1 /\ c.i \in Place /\ local[t][c.i] = Null
  BY <1>1, DescAssumption DEF CallOK, IsCall, Place
<1>3. ASSUME NEW q \in Place, q >= c.i + 1
      PROVE  [local[t] EXCEPT ![c.i] = x][q] = Null
  <2>1. q \in Nat
    BY DescAssumption DEF Place
  <2>2. q >= c.i /\ q # c.i /\ local[t] \in [Place -> Obj \cup {Null, Invalid}]
    BY <1>2, <1>3, <2>1 DEF IInv, TypeInv
  <2>3. QED
    BY <1>1, <2>2 DEF CallOK
<1>4. CallOK(k, [local[t] EXCEPT ![c.i] = x])
  <2>1. IsCall(k)
    BY <1>1, <1>2 DEF CallOK, IsCall
  <2>2. k.i <= MaxDesc + 1
    BY <1>2, DescAssumption
  <2>3. QED
    BY <1>1, <1>3, <2>1, <2>2 DEF CallOK
<1>5. QED
  BY <1>2, <1>4, AcquireStep

\* The sender takes a reference to each descriptor it sends.
LEMMA GatherKeeps ==
  ASSUME IInv, NEW t \in Thread, Gather(t)
  PROVE  IInv'
<1> DEFINE c == call[t]
           d == c.descv[c.i]
           k == [c EXCEPT !.i = @ + 1]
<1>1. CallOK(c, local[t]) /\ c.pc = "gather" /\ c.i <= Len(c.descv) /\ desc_tbl' = desc_tbl
  BY Zenon DEF Gather, IInv, CallsOK
<1>2. d \in Slot \cup {Invalid} /\ c.i <= MaxDesc
  BY <1>1, DescAssumption DEF CallOK, IsCall
<1>3. ASSUME call' = [call EXCEPT ![t] = k],
             IF d = Invalid THEN InvalidMake(t, c.i) ELSE GetDesc(t, c.i, d)
      PROVE  IInv'
  <2>1. PICK x \in Obj \cup {Invalid} : /\ local' = [local EXCEPT ![t][c.i] = x]
                                        /\ refs' = [refs EXCEPT ![x] = refs[x] + 1]
      BY <1>3, <1>2, Zenon DEF InvalidMake, Ref, GetDesc, IInv, TypeInv
  <2>2. DOMAIN k = DOMAIN c /\ k.pc = c.pc /\ k.i = c.i + 1 /\ k.len = c.len /\ k.descv = c.descv
    BY <1>1 DEF CallOK, IsCall
  <2>3. QED
    <3> HIDE DEF k
    <3>1. QED
      BY <1>1, <1>2, <1>3, <2>1, <2>2, NextPlace, Zenon
<1>4. ASSUME Cleanup(t), UNCHANGED <<refs, local>>
      PROVE  IInv'
  BY <1>1, <1>4, CleanupKeeps, Zenon
<1>5. QED
  BY <1>3, <1>4 DEF Gather

\* Each entry of a message becomes an object, or the invalid descriptor.
LEMMA InternalizeKeeps ==
  ASSUME IInv, NEW t \in Thread, Internalize(t) \/ InternalizeInvalid(t)
  PROVE  IInv'
<1> DEFINE c == call[t]
<1>1. /\ CallOK(c, local[t]) /\ c.pc = "internalize" /\ c.i <= MaxDesc
      /\ desc_tbl' = desc_tbl
  BY Zenon DEF Internalize, InternalizeInvalid, IInv, CallsOK
<1>2. CASE Internalize(t)
  <2> DEFINE k == [c EXCEPT !.i = @ + 1, !.kern = LeftHandles(@, c.msg[c.i].tag)]
  <2>1. PICK o \in Obj : /\ Malloc(o)
                         /\ refs' = [refs EXCEPT ![o] = 1]
                         /\ local' = [local EXCEPT ![t][c.i] = o]
    BY <1>2, Zenon DEF Internalize
  <2>2. refs' = [refs EXCEPT ![o] = refs[o] + 1]
    BY <2>1 DEF Malloc, IInv, TypeInv
  <2>3. call' = [call EXCEPT ![t] = k]
    BY <1>2, Zenon DEF Internalize
  <2>4. DOMAIN k = DOMAIN c /\ k.pc = c.pc /\ k.i = c.i + 1 /\ k.len = c.len
    BY <1>1 DEF CallOK, IsCall
  <2>5. QED
    <3> HIDE DEF k
    <3>1. QED
      BY <1>1, <2>1, <2>2, <2>3, <2>4, NextPlace, Zenon
<1>3. CASE InternalizeInvalid(t)
  <2> DEFINE k == [c EXCEPT !.i = @ + 1]
  <2>1. /\ local' = [local EXCEPT ![t][c.i] = Invalid]
        /\ refs' = [refs EXCEPT ![Invalid] = refs[Invalid] + 1]
        /\ call' = [call EXCEPT ![t] = k]
    BY <1>3, Zenon DEF InternalizeInvalid, InvalidMake, Ref
  <2>2. DOMAIN k = DOMAIN c /\ k.pc = c.pc /\ k.i = c.i + 1 /\ k.len = c.len
    BY <1>1 DEF CallOK, IsCall
  <2>3. QED
    <3> HIDE DEF k
    <3>1. QED
      BY <1>1, <2>1, <2>2, NextPlace, Zenon
<1>4. QED
  BY <1>2, <1>3, Zenon

\* Taking a message off the channel changes no reference.
LEMMA ReceiveKeeps ==
  ASSUME IInv, NEW t \in Thread, Receive(t)
  PROVE  IInv'
<1> DEFINE c == call[t]
<1>1. /\ CallOK(c, local[t]) /\ c.pc = "recv"
      /\ UNCHANGED <<desc_tbl, refs, local>>
  BY Zenon DEF Receive, IInv, CallsOK
<1>2. ASSUME NEW m, NEW s,
             call' = [call EXCEPT ![t] = [c EXCEPT !.pc = "internalize", !.msg = m, !.kern = s]]
      PROVE  IInv'
  <2> DEFINE k == [c EXCEPT !.pc = "internalize", !.msg = m, !.kern = s]
  <2>1. DOMAIN k = DOMAIN c /\ k.pc = "internalize" /\ k.i = c.i /\ k.len = c.len
    BY <1>1, Zenon DEF CallOK, IsCall
  <2>2. call' = [call EXCEPT ![t] = k]
    BY <1>2
  <2> HIDE DEF k
  <2>3. CallOK(k, local[t])
    BY <1>1, <2>1, Zenon DEF CallOK, IsCall
  <2>4. QED
    BY <1>1, <2>2, <2>3, QuietStep, Zenon
<1>3. QED
  BY <1>2, Zenon DEF Receive

\* A message that cannot be internalized is given up.
LEMMA InternalizeFailsKeeps ==
  ASSUME IInv, NEW t \in Thread, InternalizeFails(t)
  PROVE  IInv'
<1> DEFINE c == call[t]
<1>1. /\ CallOK(c, local[t]) /\ c.pc = "internalize"
      /\ UNCHANGED <<desc_tbl, refs, local>>
  BY DEF InternalizeFails, IInv, CallsOK
<1>2. local[t][MaxDesc + 1] = Null
  BY <1>1, DescAssumption, Sets DEF CallOK, IsCall
<1>3. ASSUME NEW k, DOMAIN k = DOMAIN c, k.pc = "close", k.i = c.i, k.len = c.len,
             call' = [call EXCEPT ![t] = k]
      PROVE  IInv'
  <2>1. CallOK(k, local[t])
    BY <1>1, <1>2, <1>3, Zenon DEF CallOK, IsCall
  <2>2. QED
    BY <1>1, <1>3, <2>1, QuietStep, Zenon
<1>4. ASSUME NEW s, call' = [call EXCEPT ![t] = [c EXCEPT !.pc = "close", !.kern = s]]
      PROVE  IInv'
  <2> DEFINE k == [c EXCEPT !.pc = "close", !.kern = s]
  <2>1. DOMAIN k = DOMAIN c /\ k.pc = "close" /\ k.i = c.i /\ k.len = c.len
    BY <1>1, Zenon DEF CallOK, IsCall
  <2>2. QED
    BY <1>3, <1>4, <2>1, Zenon
<1>5. ASSUME call' = [call EXCEPT ![t] = [c EXCEPT !.pc = "close"]]
      PROVE  IInv'
  <2> DEFINE k == [c EXCEPT !.pc = "close"]
  <2>1. DOMAIN k = DOMAIN c /\ k.pc = "close" /\ k.i = c.i /\ k.len = c.len
    BY <1>1, Zenon DEF CallOK, IsCall
  <2>2. QED
    BY <1>3, <1>5, <2>1, Zenon
<1>6. QED
  BY <1>4, <1>5, Zenon DEF InternalizeFails

\* Closing the handles nobody took changes no reference.
LEMMA CloseHandlesKeeps ==
  ASSUME IInv, NEW t \in Thread, CloseHandles(t)
  PROVE  IInv'
<1> DEFINE c == call[t]
           k == [c EXCEPT !.pc = "trunc", !.kern = <<>>]
<1>1. /\ CallOK(c, local[t]) /\ c.pc \in {"close", "internalize"}
      /\ UNCHANGED <<desc_tbl, refs, local>>
      /\ call' = [call EXCEPT ![t] = k]
  BY Zenon DEF CloseHandles, IInv, CallsOK
<1>2. local[t][MaxDesc + 1] = Null
  BY <1>1, DescAssumption, Sets, Zenon DEF CallOK, IsCall
<1>3. DOMAIN k = DOMAIN c /\ k.pc = "trunc" /\ k.i = c.i /\ k.len = c.len
  BY <1>1 DEF CallOK, IsCall
<1> HIDE DEF k
<1>4. CallOK(k, local[t])
  BY <1>1, <1>2, <1>3, Zenon DEF CallOK, IsCall
<1>5. QED
  BY <1>1, <1>4, QuietStep, Zenon

\* The descriptors that do not fit the receiver's array are released.
LEMMA TruncateKeeps ==
  ASSUME IInv, NEW t \in Thread, Truncate(t)
  PROVE  IInv'
<1> DEFINE c == call[t]
<1>1. CallOK(c, local[t]) /\ c.pc = "trunc" /\ desc_tbl' = desc_tbl /\ call' = call
  BY Zenon DEF Truncate, IInv, CallsOK
<1>2. PICK p \in c.len + 1 .. MaxDesc : /\ local[t][p] # Null
                                        /\ Unref(local[t][p])
                                        /\ local' = [local EXCEPT ![t][p] = Null]
  BY Zenon DEF Truncate
<1>3. p \in Place
  BY <1>1, DescAssumption DEF CallOK, IsCall, Place
<1>4. PICK x \in Obj \cup {Invalid} : x = local[t][p]
  BY <1>2, <1>3 DEF IInv, TypeInv
<1>5. refs' = [refs EXCEPT ![x] = refs[x] - 1]
  BY <1>2, <1>4, Zenon DEF Unref
<1>6. Counts' /\ LocalType' /\ RefsType'
  BY <1>1, <1>2, <1>3, <1>4, <1>5, Drop, Zenon DEF IInv, Counts
<1>7. CallOK(call'[t], local'[t])
  BY <1>1, <1>2, <1>3, Sets, Zenon DEF CallOK, IInv, TypeInv
<1>8. CallsOK'
  BY <1>1, <1>2, <1>6, <1>7, Frame DEF IInv, CallsOK, TypeInv
<1>9. QED
  BY <1>1, <1>6, <1>8, Zenon DEF IInv, Counts, TypeInv, LocalType, RefsType

\* The invalid descriptor is counted like any other.
LEMMA MakeInvalidKeeps ==
  ASSUME IInv, NEW t \in Thread, MakeInvalid(t)
  PROVE  IInv'
<1> DEFINE c == call[t]
           k == [c EXCEPT !.pc = "install"]
           p == MaxDesc + 1
<1>1. /\ CallOK(c, local[t]) /\ c.pc = "trunc" /\ desc_tbl' = desc_tbl
      /\ call' = [call EXCEPT ![t] = k]
      /\ local' = [local EXCEPT ![t][p] = Invalid]
      /\ refs' = [refs EXCEPT ![Invalid] = refs[Invalid] + 1]
  BY Zenon DEF MakeInvalid, InvalidMake, Ref, IInv, CallsOK
<1>2. p \in Place /\ local[t][p] = Null
  BY <1>1, Sets, Zenon DEF CallOK
<1>3. DOMAIN k = DOMAIN c /\ k.pc = "install" /\ k.i = c.i /\ k.len = c.len
  BY <1>1 DEF CallOK, IsCall
<1> HIDE DEF k, p
<1>4. CallOK(k, [local[t] EXCEPT ![p] = Invalid])
  BY <1>1, <1>3, Zenon DEF CallOK, IsCall
<1>5. QED
  BY <1>1, <1>2, <1>4, AcquireStep, Zenon

----------------------------------------------------------------------------
(* The theorem.                                                            *)

\* The invariant holds with an empty table.
LEMMA InitInv == Init => IInv
<1> SUFFICES ASSUME Init PROVE IInv
  OBVIOUS
<1>1. TypeInv
  BY DescAssumption DEF Init, TypeInv, NoLocals, Slot, Obj, Null, Invalid, Place
<1>2. CallsOK
  BY IdleOK DEF Init, CallsOK
<1>3. ASSUME NEW o \in Obj \cup {Invalid}
      PROVE  /\ Cardinality(InLocals(o)) = 0
             /\ o \in 1 .. 4 => Cardinality(InTable(o)) = 1
             /\ o \notin 1 .. 4 => Cardinality(InTable(o)) = 0
  <2>1. InLocals(o) = {}
    BY Sets DEF Init, NoLocals, InLocals
  <2>2. o \in Int /\ o # 0
    BY Sets, DescAssumption DEF Obj
  <2>3. o \in 1 .. 4 => InTable(o) = {o - 1}
    BY <2>2, DescAssumption DEF Init, InTable, Slot, Null
  <2>4. o \notin 1 .. 4 => InTable(o) = {}
    BY <2>2, DescAssumption DEF Init, InTable, Slot, Null
  <2>5. QED
    BY <2>1, <2>3, <2>4, FS_EmptySet, FS_Singleton, Zenon
<1>4. RefsExact
    BY <1>3 DEF RefsExact, Obj, Init, Held
<1>5. InvalidKept
    BY Sets, <1>3 DEF Init, Held, InvalidKept
<1>6. QED
  BY <1>1, <1>2, <1>4, <1>5 DEF IInv

\* Every step keeps the invariant.
LEMMA StepInv == IInv /\ [Next]_vars => IInv'
<1> SUFFICES ASSUME IInv, [Next]_vars PROVE IInv'
  OBVIOUS
<1>1. ASSUME NEW t \in Thread, Start(t)
      PROVE  IInv'
    BY DescAssumption, EntersKeep, <1>1, EnterMakeKeeps, CloseKeeps DEF Start
<1>2. ASSUME NEW t \in Thread, Step(t)
      PROVE  IInv'
  <2>1. CASE Send(t) \/ NotSent(t) \/ NotReceived(t) \/ NoBuffer(t)
    BY <2>1, CleanupKeeps, Zenon DEF Send, NotSent, NotReceived, NoBuffer
  <2>2. QED
    BY Zenon, <1>2, <2>1, ReleaseKeeps, MakeKeeps, MakeFailsKeeps, InstallKeeps, InstalledKeeps,
       GatherKeeps, ReceiveKeeps, InternalizeKeeps, InternalizeFailsKeeps,
       CloseHandlesKeeps, TruncateKeeps, MakeInvalidKeeps DEF Step
<1>3. CASE UNCHANGED vars
  BY <1>3, Zenon DEF vars, IInv, TypeInv, CallsOK, RefsExact, InvalidKept, Held, InTable, InLocals
<1>4. QED
  BY <1>1, <1>2, <1>3 DEF Next, Done

(***************************************************************************)
(* With any number of threads, descriptors, objects and calls, and with    *)
(* any of the allocations failing, the count of every NaClDesc is the      *)
(* number of table entries and local variables that refer to it, so it is  *)
(* freed exactly when the last of them goes; and the invalid descriptor's  *)
(* fatal destructor never runs.                                            *)
(***************************************************************************)
THEOREM RefsSafe == Spec => [](RefsExact /\ InvalidKept)
<1>1. IInv => RefsExact /\ InvalidKept
  BY Zenon DEF IInv
<1>2. QED
  BY <1>1, InitInv, StepInv, PTL DEF Spec

=============================================================================
