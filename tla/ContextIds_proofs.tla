-------------------------- MODULE ContextIds_proofs --------------------------
(***************************************************************************)
(* The ids of contexts and spaces are unique and resolve, for any number of *)
(* objects and any history, as long as indices and the time stamp stay      *)
(* within their bit fields.  The hypothesis is needed: beyond it the  *)
(* code lets indices and stamps wrap, and both properties fail.             *)
(***************************************************************************)
EXTENDS ContextIds, FiniteSetTheorems, WellFoundedInduction, TLAPS

\* The bit fields are wide enough for this run of the server.
FieldsSuffice ==
  /\ MaxIndex < NIndex
  /\ MaxIndex < NGen
  /\ MaxTime \in 1 .. NGen - 1

\* The index NewContextID takes.
TakenIndex == IF nextFreeID = 0 THEN nextID ELSE nextFreeID

-----------------------------------------------------------------------------
(* The bit fields lose nothing.                                             *)

LEMMA ModSmall ==
  ASSUME NEW a \in Nat, NEW b \in Nat \ {0}, a < b
  PROVE  a % b = a
  BY Z3

LEMMA StampRead ==
  ASSUME FieldsSuffice, NEW n \in Index
  PROVE  Stamp(n) \in GenericID /\ Unstamp(Stamp(n)) = n
<1>1. n \in Nat /\ NGen \in Nat \ {0} /\ NIndex \in Nat \ {0} /\ n < NGen
  BY IdAssumption DEF FieldsSuffice, Index
<1>2. n % NGen = n
  BY <1>1, ModSmall
<1>3. Stamp(n) = [index |-> 0, generation |-> n]
  BY <1>2 DEF Stamp
<1> QED BY <1>1, <1>3 DEF Unstamp, GenericID

LEMMA MadeID ==
  ASSUME FieldsSuffice, NEW i \in Index, gTimestamp \in 1 .. MaxTime
  PROVE  /\ MakeID(i) = [index |-> i, generation |-> gTimestamp]
         /\ MakeID(i) \in GenericID
<1>1. /\ i \in Nat /\ NIndex \in Nat \ {0} /\ i < NIndex
      /\ gTimestamp \in Nat /\ NGen \in Nat \ {0} /\ gTimestamp < NGen
  BY IdAssumption DEF FieldsSuffice, Index
<1>2. i % NIndex = i /\ gTimestamp % NGen = gTimestamp
  BY <1>1, ModSmall
<1> QED BY <1>1, <1>2 DEF MakeID, GenericID

-----------------------------------------------------------------------------
(***************************************************************************)
(* The invariant.  A recycled index is not a live one only because the free *)
(* list, threaded through the table's own stamps, repeats nothing and holds *)
(* no live index; so the list itself is part of the invariant.              *)
(***************************************************************************)

\* fl is the free list, of n indices.
IsFreeList(fl, n) ==
  /\ nextFreeID = IF n = 0 THEN 0 ELSE fl[1]
  /\ \A k \in 1 .. n :
       /\ ctx[fl[k]] = NIL
       /\ timestamp[fl[k]] = Stamp(IF k = n THEN 0 ELSE fl[k + 1])
       /\ \A j \in 1 .. n : fl[j] = fl[k] => j = k
  /\ \A i \in 1 .. nextID - 1 : ctx[i] = NIL => \E k \in 1 .. n : fl[k] = i

FreeListExists ==
  \E n \in Nat : \E fl \in [1 .. n -> 1 .. nextID - 1] : IsFreeList(fl, n)

LiveEntries ==
  \A o \in live : /\ id[o].index \in 1 .. nextID - 1
                  /\ ctx[id[o].index] = o
                  /\ timestamp[id[o].index] = id[o]

OnlyLiveEntries ==
  \A i \in Index : ctx[i] # NIL => ctx[i] \in live /\ id[ctx[i]].index = i

IssuedBefore ==
  \A t \in issued : /\ t.generation <= gTimestamp
                    /\ t.generation = gTimestamp => \E o \in live : id[o] = t

IdInv ==
  /\ TypeOK
  /\ gTimestamp \in 1 .. MaxTime
  /\ FreeListExists
  /\ LiveEntries
  /\ OnlyLiveEntries
  /\ IssuedBefore

LEMMA IdInit == FieldsSuffice /\ Init => IdInv
<1> SUFFICES ASSUME FieldsSuffice, Init PROVE IdInv
  OBVIOUS
<1>1. TypeOK
  BY IdAssumption DEF FieldsSuffice, Init, TypeOK, GenericID, NoID, Index, Entry
<1>2. FreeListExists
  <2>1. [k \in 1 .. 0 |-> 0] \in [1 .. 0 -> 1 .. nextID - 1]
    OBVIOUS
  <2>2. IsFreeList([k \in 1 .. 0 |-> 0], 0)
    BY DEF Init, IsFreeList
  <2> QED BY <2>1, <2>2 DEF FreeListExists
<1>3. LiveEntries /\ OnlyLiveEntries /\ IssuedBefore
  BY DEF Init, LiveEntries, OnlyLiveEntries, IssuedBefore
<1> QED
  BY <1>1, <1>2, <1>3, IdAssumption DEF FieldsSuffice, Init, IdInv

\* The index taken is that of an empty entry.
LEMMA FreshIndex ==
  ASSUME IdInv, TakenIndex <= MaxIndex
  PROVE  /\ TakenIndex \in 1 .. MaxIndex
         /\ ctx[TakenIndex] = NIL
<1> USE DEF TakenIndex
<1>1. nextID \in Nat \ {0} /\ MaxIndex \in Nat /\ nextID <= MaxIndex + 1
  BY IdAssumption DEF IdInv, TypeOK, Entry
<1>2. CASE nextFreeID = 0
  <2>1. nextID \in Index
    BY <1>1, <1>2 DEF Index
  <2>2. ASSUME ctx[nextID] # NIL PROVE FALSE
    <3>1. ctx[nextID] \in live /\ id[ctx[nextID]].index = nextID
      BY <2>1, <2>2 DEF IdInv, OnlyLiveEntries
    <3>2. nextID \in 1 .. nextID - 1
      BY <3>1 DEF IdInv, LiveEntries
    <3> QED BY <1>1, <3>2
  <2> QED BY <1>1, <1>2, <2>2
<1>3. CASE nextFreeID # 0
  <2>0. PICK n \in Nat : \E fl \in [1 .. n -> 1 .. nextID - 1] : IsFreeList(fl, n)
    BY DEF IdInv, FreeListExists
  <2>1. PICK fl \in [1 .. n -> 1 .. nextID - 1] : IsFreeList(fl, n)
    BY <2>0
  <2>2. n # 0 /\ nextFreeID = fl[1]
    BY <1>3, <2>1 DEF IsFreeList
  <2>3. 1 \in 1 .. n
    BY <2>2
  <2>4. nextFreeID \in 1 .. nextID - 1 /\ ctx[nextFreeID] = NIL
    BY <2>1, <2>2, <2>3 DEF IsFreeList
  <2> QED BY <1>1, <1>3, <2>4
<1> QED BY <1>2, <1>3

-----------------------------------------------------------------------------
(* NewContextID and NewSpaceID.                                             *)

LEMMA NewKeepsFreeList ==
  ASSUME FieldsSuffice, IdInv, NEW o \in Obj, NewID(o)
  PROVE  /\ FreeListExists'
         /\ nextID' \in Entry /\ nextID' \in Nat /\ nextID <= nextID'
         /\ TakenIndex \in 1 .. nextID' - 1
         /\ nextFreeID' \in Index
<1> DEFINE i == TakenIndex
<1>1. i \in 1 .. MaxIndex /\ ctx[i] = NIL
  BY FreshIndex DEF NewID, TakenIndex
<1>2. /\ TakeIndex
      /\ timestamp' = [timestamp EXCEPT ![i] = MakeID(i)]
      /\ ctx' = [ctx EXCEPT ![i] = o]
  BY DEF NewID, TakenIndex
<1>3. nextID \in Nat \ {0} /\ MaxIndex \in Nat /\ nextID <= MaxIndex + 1
  BY IdAssumption DEF IdInv, TypeOK, Entry
<1>4. PICK n \in Nat : \E fl \in [1 .. n -> 1 .. nextID - 1] : IsFreeList(fl, n)
  BY DEF IdInv, FreeListExists
<1>5. PICK fl \in [1 .. n -> 1 .. nextID - 1] : IsFreeList(fl, n)
  BY <1>4
<1>6. /\ ctx \in [Index -> Obj \cup {NIL}] /\ timestamp \in [Index -> GenericID]
      /\ 1 .. nextID - 1 \subseteq Index
  BY <1>3 DEF IdInv, TypeOK, Index
<1>7. CASE nextFreeID = 0
  <2>1. /\ i = nextID /\ nextID' = nextID + 1 /\ nextFreeID' = 0
        /\ n = 0
    <3>1. n # 0 => 1 \in 1 .. n /\ nextFreeID = fl[1]
      BY <1>5 DEF IsFreeList
    <3> QED BY <1>2, <1>5, <1>7, <3>1 DEF TakeIndex, TakenIndex
  <2>2. fl \in [1 .. n -> 1 .. nextID' - 1]
    BY <2>1
  <2>3. ASSUME NEW j \in 1 .. nextID' - 1, ctx'[j] = NIL PROVE FALSE
    <3>1. o # NIL /\ j \in Index /\ i \in Index
      BY <1>1, <1>3, <2>1, IdAssumption DEF Index
    <3>2. j # i /\ ctx[j] = NIL
      BY <1>2, <1>6, <2>3, <3>1
    <3>3. j \in 1 .. nextID - 1
      BY <1>3, <2>1, <3>2
    <3> QED BY <1>5, <2>1, <3>2, <3>3 DEF IsFreeList
  <2>5. IsFreeList(fl, n)'
    BY <2>1, <2>3 DEF IsFreeList
  <2>4. FreeListExists'
    BY <2>2, <2>5 DEF FreeListExists
  <2> QED BY <1>1, <1>3, <2>1, <2>4 DEF Entry, Index
<1>8. CASE nextFreeID # 0
  <2>1. /\ n # 0 /\ 1 \in 1 .. n /\ i = fl[1]
        /\ nextID' = nextID /\ nextFreeID' = Unstamp(timestamp[i])
    BY <1>2, <1>5, <1>8 DEF IsFreeList, TakeIndex, TakenIndex
  <2> DEFINE m == n - 1
             tl == [k \in 1 .. m |-> fl[k + 1]]
  <2>2. m \in Nat /\ \A k \in 1 .. m : k \in 1 .. n /\ k + 1 \in 1 .. n /\ k + 1 # 1
    BY <2>1
  <2>3. tl \in [1 .. m -> 1 .. nextID - 1]
    BY <2>2
  <2>4. nextFreeID' = IF m = 0 THEN 0 ELSE tl[1]
    <3>1. timestamp[i] = Stamp(IF 1 = n THEN 0 ELSE fl[2])
      BY <1>5, <2>1 DEF IsFreeList
    <3>2. (IF 1 = n THEN 0 ELSE fl[2]) \in Index
      <4>1. CASE n = 1
        BY <1>3, <4>1 DEF Index
      <4>2. CASE n # 1
        <5>1. 2 \in 1 .. n
          BY <2>1, <4>2
        <5> QED BY <1>6, <4>2, <5>1
      <4> QED BY <4>1, <4>2
    <3>3. nextFreeID' = IF 1 = n THEN 0 ELSE fl[2]
      BY <2>1, <3>1, <3>2, StampRead
    <3>4. m # 0 => tl[1] = fl[2]
      BY <2>2
    <3> QED BY <2>1, <2>2, <3>3, <3>4
  <2>5. ASSUME NEW k \in 1 .. m
        PROVE  /\ ctx'[tl[k]] = NIL
               /\ timestamp'[tl[k]] = Stamp(IF k = m THEN 0 ELSE tl[k + 1])
               /\ \A j \in 1 .. m : tl[j] = tl[k] => j = k
    <3>1. tl[k] = fl[k + 1] /\ k + 1 \in 1 .. n /\ k + 1 # 1
      BY <2>2
    <3>2. fl[k + 1] # i
      BY <1>5, <2>1, <3>1 DEF IsFreeList
    <3>3. ctx'[tl[k]] = ctx[fl[k + 1]] /\ timestamp'[tl[k]] = timestamp[fl[k + 1]]
      BY <1>2, <1>6, <3>1, <3>2
    <3>4. timestamp[fl[k + 1]] = Stamp(IF k + 1 = n THEN 0 ELSE fl[k + 1 + 1])
          /\ ctx[fl[k + 1]] = NIL
      BY <1>5, <3>1 DEF IsFreeList
    <3>5. (IF k + 1 = n THEN 0 ELSE fl[k + 1 + 1]) = IF k = m THEN 0 ELSE tl[k + 1]
      OBVIOUS
    <3>6. ASSUME NEW j \in 1 .. m, tl[j] = tl[k] PROVE j = k
      <4>1. fl[j + 1] = fl[k + 1] /\ j + 1 \in 1 .. n
        BY <2>2, <3>6
      <4>2. j + 1 = k + 1
        BY <1>5, <3>1, <4>1 DEF IsFreeList
      <4> QED BY <4>2
    <3> HIDE DEF tl, m
    <3> QED BY <3>3, <3>4, <3>5, <3>6
  <2>9. ASSUME NEW j \in 1 .. nextID - 1, ctx'[j] = NIL PROVE \E k \in 1 .. m : tl[k] = j
    <3>1. j # i /\ ctx[j] = NIL
      <4>1. o # NIL /\ j \in Index /\ i \in Index
        BY <1>1, <1>6, IdAssumption DEF Index
      <4> QED BY <1>2, <1>6, <2>9, <4>1
    <3>2. PICK k \in 1 .. n : fl[k] = j
      BY <1>5, <3>1 DEF IsFreeList
    <3>3. k # 1
      BY <2>1, <3>1, <3>2
    <3>4. k - 1 \in 1 .. m /\ (k - 1) + 1 = k
      BY <3>3
    <3>5. tl[k - 1] = j
      BY <3>2, <3>4
    <3> QED BY <3>4, <3>5
  <2>6. FreeListExists'
    <3> HIDE DEF tl, m
    <3>1. IsFreeList(tl, m)'
      BY <2>1, <2>4, <2>5, <2>9 DEF IsFreeList
    <3>2. tl \in [1 .. m -> 1 .. nextID' - 1]
      BY <2>1, <2>3
    <3> QED BY <2>2, <3>1, <3>2 DEF FreeListExists
  <2>7. nextFreeID' \in Index
    <3>1. m # 0 => tl[1] \in 1 .. nextID - 1
      BY <2>2, <2>3
    <3> HIDE DEF tl, m
    <3> QED BY <1>3, <1>6, <2>4, <3>1 DEF Index
  <2>8. i \in 1 .. nextID - 1
    BY <2>1
  <2> QED BY <1>3, <2>1, <2>6, <2>7, <2>8 DEF IdInv, TypeOK
<1> QED BY <1>7, <1>8

\* The id NewID hands out: its bits, and that nobody ever had it.
LEMMA NewIsFresh ==
  ASSUME FieldsSuffice, IdInv, NEW o \in Obj, NewID(o)
  PROVE  /\ id' = [id EXCEPT ![o] = MakeID(TakenIndex)]
         /\ MakeID(TakenIndex) = [index |-> TakenIndex, generation |-> gTimestamp]
         /\ MakeID(TakenIndex) \in GenericID
         /\ MakeID(TakenIndex) \notin issued
<1> DEFINE t == MakeID(TakenIndex)
<1>1. TakenIndex \in 1 .. MaxIndex /\ ctx[TakenIndex] = NIL
  BY FreshIndex DEF NewID, TakenIndex
<1>2. id' = [id EXCEPT ![o] = t]
  BY DEF NewID, TakenIndex
<1>3. t = [index |-> TakenIndex, generation |-> gTimestamp] /\ t \in GenericID
  BY <1>1, MadeID DEF IdInv, Index
<1>4. ASSUME t \in issued PROVE FALSE
  <2>1. PICK d \in live : id[d] = t
    BY <1>3, <1>4 DEF IdInv, IssuedBefore
  <2>2. ctx[TakenIndex] = d
    BY <1>3, <2>1 DEF IdInv, LiveEntries
  <2> QED BY <1>1, <2>1, <2>2, IdAssumption DEF IdInv, TypeOK
<1> QED BY <1>2, <1>3, <1>4

LEMMA NewKeepsInv ==
  ASSUME FieldsSuffice, IdInv, NEW o \in Obj, NewID(o)
  PROVE  IdInv'
<1> DEFINE i == TakenIndex
           t == MakeID(i)
<1>1. i \in 1 .. MaxIndex /\ i \in Index /\ ctx[i] = NIL
  BY FreshIndex DEF NewID, TakenIndex, Index
<1>2. /\ o \notin live /\ live' = live \cup {o}
      /\ id' = [id EXCEPT ![o] = t]
      /\ timestamp' = [timestamp EXCEPT ![i] = t]
      /\ ctx' = [ctx EXCEPT ![i] = o]
      /\ issued' = issued \cup {t}
      /\ gTimestamp' = gTimestamp
  BY DEF NewID, TakenIndex
<1>3. /\ t.index = i /\ t.generation = gTimestamp /\ t \in GenericID
  BY NewIsFresh
<1>4. /\ FreeListExists' /\ nextID' \in Entry /\ nextID' \in Nat
      /\ nextID <= nextID' /\ i \in 1 .. nextID' - 1 /\ nextFreeID' \in Index
  BY NewKeepsFreeList
<1>5. nextID \in Nat /\ MaxIndex \in Nat /\ TypeOK /\ live \subseteq Obj
  BY IdAssumption DEF IdInv, TypeOK, Entry
<1> HIDE DEF i, t
<1>6. TypeOK'
  <2>1. ctxTabSize' \in Nat
    BY IdAssumption DEF NewID, TakeIndex, IdInv, TypeOK
  <2>2. nextID' # 0
    BY <1>4, <1>5 DEF TypeOK
  <2> QED BY <1>1, <1>2, <1>3, <1>4, <1>5, <2>1, <2>2 DEF TypeOK
<1>7. LiveEntries'
  <2>1. ASSUME NEW d \in live
        PROVE  /\ id'[d].index \in 1 .. nextID' - 1
               /\ ctx'[id'[d].index] = d
               /\ timestamp'[id'[d].index] = id'[d]
    <3>1. /\ id[d].index \in 1 .. nextID - 1 /\ ctx[id[d].index] = d
          /\ timestamp[id[d].index] = id[d]
      BY DEF IdInv, LiveEntries
    <3>2. id'[d] = id[d] /\ d # NIL
      BY <1>2, <1>5, IdAssumption DEF TypeOK
    <3>3. id[d].index # i
      BY <1>1, <3>1, <3>2
    <3>4. id[d].index \in Index
      BY <1>5, <3>1 DEF Index, TypeOK, Entry
    <3> QED BY <1>2, <1>4, <1>5, <3>1, <3>2, <3>3, <3>4 DEF TypeOK
  <2>2. /\ id'[o].index \in 1 .. nextID' - 1
        /\ ctx'[id'[o].index] = o
        /\ timestamp'[id'[o].index] = id'[o]
    BY <1>1, <1>2, <1>3, <1>4, <1>5 DEF TypeOK
  <2> QED BY <1>2, <2>1, <2>2 DEF LiveEntries
<1>8. OnlyLiveEntries'
  <2>1. ASSUME NEW j \in Index, ctx'[j] # NIL
        PROVE  ctx'[j] \in live' /\ id'[ctx'[j]].index = j
    <3>1. CASE j = i
      BY <1>1, <1>2, <1>3, <1>5, <3>1 DEF TypeOK
    <3>2. CASE j # i
      <4>1. ctx'[j] = ctx[j]
        BY <1>2, <1>5, <3>2 DEF TypeOK
      <4>2. ctx[j] \in live /\ id[ctx[j]].index = j
        BY <2>1, <4>1 DEF IdInv, OnlyLiveEntries
      <4>3. id'[ctx[j]] = id[ctx[j]]
        BY <1>2, <1>5, <4>2 DEF TypeOK
      <4> QED BY <1>2, <4>1, <4>2, <4>3
    <3> QED BY <3>1, <3>2
  <2> QED BY <2>1 DEF OnlyLiveEntries
<1>9. IssuedBefore'
  <2>1. gTimestamp \in Int
    BY DEF IdInv
  <2>2. \A d \in live : id'[d] = id[d]
    BY <1>2, <1>5 DEF TypeOK
  <2>3. id'[o] = t /\ o \in live'
    BY <1>2, <1>5 DEF TypeOK
  <2> QED BY <1>2, <1>3, <2>1, <2>2, <2>3 DEF IdInv, IssuedBefore
<1> QED BY <1>2, <1>4, <1>6, <1>7, <1>8, <1>9 DEF IdInv

-----------------------------------------------------------------------------
(* RecycleID.                                                               *)

LEMMA RecycleKeepsInv ==
  ASSUME FieldsSuffice, IdInv, NEW o \in Obj, RecycleID(o)
  PROVE  IdInv'
<1>0. PICK i : i = id[o].index
  OBVIOUS
<1>1. /\ o \in live /\ gTimestamp < MaxTime
      /\ ctx' = [ctx EXCEPT ![i] = NIL]
      /\ timestamp' = [timestamp EXCEPT ![i] = Stamp(nextFreeID)]
      /\ nextFreeID' = i
      /\ gTimestamp' = gTimestamp + 1
      /\ live' = live \ {o}
      /\ UNCHANGED <<id, nextID, ctxTabSize, issued>>
  BY <1>0 DEF RecycleID
<1>2. /\ TypeOK /\ live \subseteq Obj
      /\ nextID \in Nat /\ MaxIndex \in Nat /\ nextID <= MaxIndex + 1
      /\ nextFreeID \in Index
      /\ ctx \in [Index -> Obj \cup {NIL}] /\ timestamp \in [Index -> GenericID]
      /\ 1 .. nextID - 1 \subseteq Index
  BY IdAssumption DEF IdInv, TypeOK, Entry, Index
<1>3. i \in 1 .. nextID - 1 /\ i \in Index /\ ctx[i] = o
  BY <1>0, <1>1, <1>2 DEF IdInv, LiveEntries
<1>4. Stamp(nextFreeID) \in GenericID
  BY <1>2, StampRead
<1>5. gTimestamp \in 1 .. MaxTime /\ gTimestamp' \in 1 .. MaxTime
  BY <1>1 DEF IdInv, FieldsSuffice
<1>6. TypeOK'
  BY <1>1, <1>2, <1>3, <1>4, <1>5 DEF TypeOK
<1>7. LiveEntries'
  <2>1. ASSUME NEW d \in live'
        PROVE  /\ id[d].index \in 1 .. nextID - 1
               /\ ctx'[id[d].index] = d
               /\ timestamp'[id[d].index] = id[d]
    <3>1. /\ d \in live /\ d # o /\ id[d].index \in 1 .. nextID - 1
          /\ ctx[id[d].index] = d /\ timestamp[id[d].index] = id[d]
      BY <1>1 DEF IdInv, LiveEntries
    <3>2. id[d].index # i /\ id[d].index \in Index
      BY <1>2, <1>3, <3>1
    <3> QED BY <1>1, <1>2, <3>1, <3>2
  <2> QED BY <1>1, <2>1 DEF LiveEntries
<1>8. OnlyLiveEntries'
  <2>1. ASSUME NEW j \in Index, ctx'[j] # NIL
        PROVE  ctx'[j] \in live' /\ id[ctx'[j]].index = j
    <3>1. j # i /\ ctx'[j] = ctx[j]
      BY <1>1, <1>2, <1>3, <2>1
    <3>2. ctx[j] \in live /\ id[ctx[j]].index = j
      BY <2>1, <3>1 DEF IdInv, OnlyLiveEntries
    <3>3. ctx[j] # o
      BY <1>0, <3>1, <3>2
    <3> QED BY <1>1, <3>1, <3>2, <3>3
  <2> QED BY <1>1, <2>1 DEF OnlyLiveEntries
<1>9. IssuedBefore'
  <2>1. \A t \in issued : t.generation \in Int
    BY DEF IdInv, TypeOK, GenericID
  <2> QED BY <1>1, <1>5, <2>1 DEF IdInv, IssuedBefore
<1>10. FreeListExists'
  <2>1. PICK n \in Nat : \E fl \in [1 .. n -> 1 .. nextID - 1] : IsFreeList(fl, n)
    BY DEF IdInv, FreeListExists
  <2>2. PICK fl \in [1 .. n -> 1 .. nextID - 1] : IsFreeList(fl, n)
    BY <2>1
  <2> DEFINE m == n + 1
             longer == [k \in 1 .. m |-> IF k = 1 THEN i ELSE fl[k - 1]]
  <2>3. m \in Nat /\ \A k \in 1 .. m : k # 1 => k - 1 \in 1 .. n
    OBVIOUS
  <2>4. longer \in [1 .. m -> 1 .. nextID - 1]
    BY <1>3, <2>3
  <2>5. m # 0 /\ longer[1] = i
    BY <2>3
  <2>6. \A k \in 1 .. n : fl[k] # i /\ ctx[fl[k]] = NIL /\ fl[k] \in Index
    <3>1. o # NIL
      BY IdAssumption
    <3> QED BY <1>2, <1>3, <2>2, <3>1 DEF IsFreeList
  <2>7. ASSUME NEW k \in 1 .. m
        PROVE  /\ ctx'[longer[k]] = NIL
               /\ timestamp'[longer[k]] = Stamp(IF k = m THEN 0 ELSE longer[k + 1])
               /\ \A j \in 1 .. m : longer[j] = longer[k] => j = k
    <3>1. CASE k = 1
      <4>1. longer[k] = i
        BY <3>1
      <4>2. nextFreeID = IF k = m THEN 0 ELSE longer[k + 1]
        <5>1. nextFreeID = IF n = 0 THEN 0 ELSE fl[1]
          BY <2>2 DEF IsFreeList
        <5> QED BY <3>1, <5>1
      <4>3. \A j \in 1 .. m : longer[j] = longer[k] => j = k
        BY <2>3, <2>6, <3>1, <4>1
      <4> HIDE DEF longer, m
      <4> QED BY <1>1, <1>2, <1>3, <4>1, <4>2, <4>3
    <3>2. CASE k # 1
      <4>1. longer[k] = fl[k - 1] /\ k - 1 \in 1 .. n
        BY <2>3, <3>2
      <4>2. ctx'[longer[k]] = ctx[fl[k - 1]] /\ timestamp'[longer[k]] = timestamp[fl[k - 1]]
        BY <1>1, <1>2, <2>6, <4>1
      <4>3. timestamp[fl[k - 1]] = Stamp(IF k - 1 = n THEN 0 ELSE fl[k - 1 + 1])
        BY <2>2, <4>1 DEF IsFreeList
      <4>4. (IF k - 1 = n THEN 0 ELSE fl[k - 1 + 1]) = IF k = m THEN 0 ELSE longer[k + 1]
        BY <3>2
      <4>5. ASSUME NEW j \in 1 .. m, longer[j] = longer[k] PROVE j = k
        <5>1. j # 1
          BY <2>6, <4>1, <4>5
        <5>2. fl[j - 1] = fl[k - 1] /\ j - 1 \in 1 .. n
          BY <2>3, <4>1, <4>5, <5>1
        <5>3. j - 1 = k - 1
          BY <2>2, <4>1, <5>2 DEF IsFreeList
        <5> QED BY <5>3
      <4>6. ctx[fl[k - 1]] = NIL
        BY <2>6, <4>1
      <4> HIDE DEF longer, m
      <4> QED BY <4>2, <4>3, <4>4, <4>5, <4>6
    <3> QED BY <3>1, <3>2
  <2>9. ASSUME NEW j \in 1 .. nextID - 1, ctx'[j] = NIL PROVE \E k \in 1 .. m : longer[k] = j
    <3>1. CASE j = i
      <4>1. 1 \in 1 .. m /\ longer[1] = j
        BY <2>3, <2>5, <3>1
      <4> HIDE DEF longer, m
      <4> QED BY <4>1
    <3>2. CASE j # i
      <4>1. ctx[j] = NIL
        BY <1>1, <1>2, <2>9, <3>2
      <4>2. PICK k \in 1 .. n : fl[k] = j
        BY <2>2, <4>1 DEF IsFreeList
      <4>3. k + 1 \in 1 .. m /\ k + 1 # 1 /\ (k + 1) - 1 = k
        OBVIOUS
      <4>4. longer[k + 1] = j
        BY <4>2, <4>3
      <4> QED BY <4>3, <4>4
    <3> QED BY <3>1, <3>2
  <2> HIDE DEF longer, m
  <2>8. IsFreeList(longer, m)'
    BY <1>1, <2>5, <2>7, <2>9 DEF IsFreeList
  <2> QED BY <1>1, <2>3, <2>4, <2>8 DEF FreeListExists
<1> QED BY <1>5, <1>6, <1>7, <1>8, <1>9, <1>10 DEF IdInv

-----------------------------------------------------------------------------
LEMMA IdNext == FieldsSuffice /\ IdInv /\ [Next]_vars => IdInv'
<1> SUFFICES ASSUME FieldsSuffice, IdInv, [Next]_vars PROVE IdInv'
  OBVIOUS
<1>1. CASE UNCHANGED vars
  <2>1. FreeListExists'
    <3>1. \A fl, n : IsFreeList(fl, n) => IsFreeList(fl, n)'
      BY <1>1 DEF vars, IsFreeList
    <3>2. nextID' = nextID /\ FreeListExists
      BY <1>1 DEF vars, IdInv
    <3> QED BY <3>1, <3>2 DEF FreeListExists
  <2>2. TypeOK'
    BY <1>1 DEF vars, IdInv, TypeOK
  <2>3. LiveEntries' /\ OnlyLiveEntries' /\ IssuedBefore'
    BY <1>1 DEF vars, IdInv, LiveEntries, OnlyLiveEntries, IssuedBefore
  <2> QED BY <1>1, <2>1, <2>2, <2>3 DEF vars, IdInv
<1>2. CASE Next
  <2>1. PICK o \in Obj : NewID(o) \/ RecycleID(o)
    BY <1>2 DEF Next
  <2> QED BY <2>1, NewKeepsInv, RecycleKeepsInv
<1> QED BY <1>1, <1>2

LEMMA IdAlways ==
  ASSUME FieldsSuffice
  PROVE  Spec => []IdInv
<1>1. Init => IdInv
  BY IdInit
<1>2. IdInv /\ [Next]_vars => IdInv'
  BY IdNext
<1> QED BY <1>1, <1>2, PTL DEF Spec

(* The walk along the list.                                                  *)

LEMMA Least ==
  ASSUME NEW T, T \subseteq Nat, T # {}
  PROVE  \E n \in T : \A m \in T : ~ (m < n)
<1> DEFINE R == OpToRel(<, Nat)
<1>1. IsWellFoundedOn(R, Nat)
  BY NatLessThanWellFounded
<1>2. \A m, n \in Nat : m < n => <<m, n>> \in R
  BY DEF OpToRel
<1> HIDE DEF R
<1>3. \E n \in T : \A m \in T : ~ (<<m, n>> \in R)
  BY <1>1, WFMin
<1> QED BY <1>2, <1>3

LEMMA SetInduction ==
  ASSUME NEW S, 0 \in S, \A n \in Nat : n \in S => n + 1 \in S
  PROVE  Nat \subseteq S
<1> SUFFICES ASSUME Nat \ S # {} PROVE FALSE
  OBVIOUS
<1>1. PICK n \in Nat \ S : \A m \in Nat \ S : ~ (m < n)
  BY Least
<1>2. n # 0 /\ n - 1 \in Nat
  BY <1>1
<1>3. n - 1 \in S
  BY <1>1, <1>2
<1> QED BY <1>1, <1>2, <1>3

\* A list that repeats nothing is no longer than the indices there are.
LEMMA ShortList ==
  ASSUME NEW n \in Nat, NEW m \in Nat, NEW fl \in [1 .. n -> 1 .. m],
         \A j, k \in 1 .. n : fl[j] = fl[k] => j = k
  PROVE  n <= m
<1>1. /\ IsFiniteSet(1 .. n) /\ IsFiniteSet(1 .. m)
      /\ Cardinality(1 .. n) = n /\ Cardinality(1 .. m) = m
  <2>1. \A k \in Nat : IsFiniteSet(1 .. k) /\ Cardinality(1 .. k) = k
    <3> TAKE k \in Nat
    <3>1. 1 \in Int /\ k \in Int
      OBVIOUS
    <3>2. IsFiniteSet(1 .. k) /\ Cardinality(1 .. k) = IF 1 > k THEN 0 ELSE k - 1 + 1
      BY <3>1, FS_Interval
    <3> QED BY <3>2
  <2> QED BY <2>1
<1>2. fl \in Injection(1 .. n, 1 .. m)
  BY DEF Injection, IsInjective
<1>3. Cardinality(1 .. n) <= Cardinality(1 .. m)
  BY <1>1, <1>2, FS_Injection
<1> QED BY <1>1, <1>3

\* One step of the walk.
After(i) == IF i \in 1 .. MaxIndex THEN Unstamp(timestamp[i]) ELSE i

\* What the walk meets on a list fl of n indices, and 0 ever after.
Walk(w) == w = [k \in Index |-> IF k = 0 THEN nextFreeID
                               ELSE IF w[k - 1] \in 1 .. MaxIndex
                                    THEN Unstamp(timestamp[w[k - 1]]) ELSE w[k - 1]]
Listed(fl, n) == [k \in Index |-> IF k < n THEN fl[k + 1] ELSE 0]

LEMMA WalkListed ==
  ASSUME FieldsSuffice, IdInv, NEW n \in Nat, NEW fl \in [1 .. n -> 1 .. nextID - 1], IsFreeList(fl, n)
  PROVE  /\ nextFreeID = Listed(fl, n)[0]
         /\ \A k \in Index \ {0} : k - 1 \in Index /\ Listed(fl, n)[k] = After(Listed(fl, n)[k - 1])
<1>1. nextID \in Nat /\ nextID # 0 /\ MaxIndex \in Nat /\ nextID <= MaxIndex + 1
  BY IdAssumption DEF IdInv, TypeOK, Entry
<1> DEFINE f == Listed(fl, n)
<1>2. \A k \in Index : f[k] = IF k < n THEN fl[k + 1] ELSE 0
  BY DEF Listed
<1> HIDE DEF f
<1>3. nextFreeID = f[0]
  <2>1. 0 \in Index /\ (n # 0 => 0 < n /\ 0 + 1 = 1)
    BY <1>1 DEF Index
  <2> QED BY <1>2, <2>1 DEF IsFreeList
<1>4. ASSUME NEW k \in Index \ {0} PROVE k - 1 \in Index /\ f[k] = After(f[k - 1])
  <2>1. k - 1 \in Index /\ k \in Nat \ {0} /\ (k - 1) + 1 = k
    BY <1>1 DEF Index
  <2>2. CASE k - 1 < n
    <3>1. k \in 1 .. n /\ f[k - 1] = fl[k] /\ fl[k] \in 1 .. nextID - 1
      BY <1>2, <2>1, <2>2
    <3>2. timestamp[fl[k]] = Stamp(IF k = n THEN 0 ELSE fl[k + 1])
      BY <3>1 DEF IsFreeList
    <3>3. (IF k = n THEN 0 ELSE fl[k + 1]) \in Index
      <4>1. CASE k = n
        BY <1>1, <4>1 DEF Index
      <4>2. CASE k # n
        <5>1. k + 1 \in 1 .. n
          BY <3>1, <4>2
        <5>2. fl[k + 1] \in 1 .. nextID - 1
          BY <5>1
        <5> QED BY <1>1, <4>2, <5>2 DEF Index
      <4> QED BY <4>1, <4>2
    <3>4. After(f[k - 1]) = IF k = n THEN 0 ELSE fl[k + 1]
      <4>1. f[k - 1] \in 1 .. MaxIndex
        BY <1>1, <3>1
      <4> QED BY <3>1, <3>2, <3>3, <4>1, StampRead DEF After
    <3>5. f[k] = IF k = n THEN 0 ELSE fl[k + 1]
      BY <1>2, <2>1, <3>1
    <3> QED BY <2>1, <3>4, <3>5
  <2>3. CASE ~ (k - 1 < n)
    <3>1. f[k - 1] = 0 /\ f[k] = 0
      BY <1>2, <2>1, <2>3
    <3> QED BY <2>1, <3>1 DEF After
  <2> QED BY <2>2, <2>3
<1> QED BY <1>3, <1>4 DEF f

LEMMA WalkIs ==
  ASSUME FieldsSuffice, IdInv, NEW n \in Nat, NEW fl \in [1 .. n -> 1 .. nextID - 1], IsFreeList(fl, n)
  PROVE  Walk(Listed(fl, n)) /\ \A w : Walk(w) => w = Listed(fl, n)
<1> DEFINE f == Listed(fl, n)
<1>1. /\ nextFreeID = f[0]
      /\ \A k \in Index \ {0} : k - 1 \in Index /\ f[k] = After(f[k - 1])
  BY WalkListed
<1>2. f = [k \in Index |-> f[k]]
  BY DEF Listed
<1>3. \A k \in Index : k \in Nat
  BY DEF Index
<1> HIDE DEF f
<1>4. Walk(f)
  BY <1>1, <1>2 DEF Walk, After
<1>5. ASSUME NEW w, Walk(w) PROVE w = f
  <2>1. w[0] = nextFreeID /\ \A k \in Index \ {0} : w[k] = After(w[k - 1])
    <3>1. 0 \in Index
      BY IdAssumption DEF Index
    <3> QED BY <1>5, <3>1 DEF Walk, After
  <2>2. w = [k \in Index |-> w[k]]
    BY <1>5 DEF Walk
  <2> DEFINE S == {k \in Nat : k \in Index => w[k] = f[k]}
  <2>3. 0 \in S
    BY <1>1, <2>1
  <2>4. ASSUME NEW k \in Nat, k \in S PROVE k + 1 \in S
    <3> SUFFICES ASSUME k + 1 \in Index PROVE w[k + 1] = f[k + 1]
      OBVIOUS
    <3>1. k + 1 \in Index \ {0} /\ (k + 1) - 1 = k
      OBVIOUS
    <3>2. k \in Index
      BY <1>1, <3>1
    <3> QED BY <1>1, <2>1, <2>4, <3>1, <3>2
  <2>5. Nat \subseteq S
    <3> HIDE DEF S
    <3> QED BY <2>3, <2>4, SetInduction
  <2>6. \A k \in Index : w[k] = f[k]
    BY <1>3, <2>5
  <2>7. [k \in Index |-> w[k]] = [k \in Index |-> f[k]]
    BY <2>6
  <2> QED BY <1>2, <2>2, <2>7
<1> QED BY <1>4, <1>5 DEF f

(* The free list, threaded through the stamps of the table, ends and holds       *)
(* exactly the indices that were handed out and returned (RecycleID,            *)
(* NewContextID, NewSpaceID).                                                *)
THEOREM FreeListSoundAlways ==
  ASSUME FieldsSuffice
  PROVE  Spec => []FreeListSound
<1>1. IdInv => FreeListSound
  <2> SUFFICES ASSUME IdInv PROVE FreeListSound
    OBVIOUS
  <2>1. PICK n \in Nat : \E fl \in [1 .. n -> 1 .. nextID - 1] : IsFreeList(fl, n)
    BY DEF IdInv, FreeListExists
  <2>2. PICK fl \in [1 .. n -> 1 .. nextID - 1] : IsFreeList(fl, n)
    BY <2>1
  <2>3. nextID \in Nat /\ nextID # 0 /\ MaxIndex \in Nat /\ nextID <= MaxIndex + 1 /\ TypeOK
    BY IdAssumption DEF IdInv, TypeOK, Entry
  <2>4. n <= nextID - 1 /\ n <= MaxIndex
    <3>1. nextID - 1 \in Nat /\ \A j, k \in 1 .. n : fl[j] = fl[k] => j = k
      BY <2>2, <2>3 DEF IsFreeList
    <3>2. n <= nextID - 1
      BY <3>1, ShortList
    <3> QED BY <2>3, <3>2
  <2> DEFINE walk == CHOOSE w : w = [k \in Index |-> IF k = 0 THEN nextFreeID
                                     ELSE IF w[k - 1] \in 1 .. MaxIndex
                                          THEN Unstamp(timestamp[w[k - 1]]) ELSE w[k - 1]]
             free == {walk[k] : k \in Index} \ {0}
  <2>5. walk = Listed(fl, n)
    <3>1. Walk(Listed(fl, n)) /\ \A w : Walk(w) => w = Listed(fl, n)
      BY <2>2, WalkIs
    <3>2. walk = CHOOSE w : Walk(w)
      BY DEF Walk
    <3> HIDE DEF walk
    <3> QED BY <3>1, <3>2
  <2>6. FreeListSound <=> TypeOK /\ walk[MaxIndex] = 0
                          /\ free = (1 .. nextID - 1) \ {id[o].index : o \in live}
    BY DEF FreeListSound
  <2> HIDE DEF walk
  <2>7. \A k \in Index : walk[k] = IF k < n THEN fl[k + 1] ELSE 0
    BY <2>5 DEF Listed
  <2>8. walk[MaxIndex] = 0
    BY <2>3, <2>4, <2>7 DEF Index
  <2>9. ASSUME NEW i \in free PROVE i \in (1 .. nextID - 1) \ {id[o].index : o \in live}
    <3>1. PICK k \in Index : i = walk[k] /\ i # 0
      OBVIOUS
    <3>2. k + 1 \in 1 .. n /\ i = fl[k + 1]
      BY <2>7, <3>1 DEF Index
    <3>3. i \in 1 .. nextID - 1 /\ ctx[i] = NIL
      BY <2>2, <3>2 DEF IsFreeList
    <3>4. ASSUME NEW o \in live, id[o].index = i PROVE FALSE
      <4>1. ctx[i] = o /\ o # NIL
        BY <3>4, IdAssumption DEF IdInv, LiveEntries, TypeOK
      <4> QED BY <3>3, <4>1
    <3> QED BY <3>3, <3>4
  <2>10. ASSUME NEW i \in 1 .. nextID - 1, \A o \in live : id[o].index # i PROVE i \in free
    <3>1. i \in Index /\ i # 0
      BY <2>3 DEF Index
    <3>2. ctx[i] = NIL
      BY <2>10, <3>1 DEF IdInv, OnlyLiveEntries
    <3>3. PICK k \in 1 .. n : fl[k] = i
      BY <2>2, <3>2 DEF IsFreeList
    <3>4. k - 1 \in Index /\ k - 1 < n /\ (k - 1) + 1 = k
      BY <2>3, <2>4, <3>3 DEF Index
    <3>5. walk[k - 1] = i
      BY <2>7, <3>3, <3>4
    <3> QED BY <3>1, <3>4, <3>5
  <2>11. free = (1 .. nextID - 1) \ {id[o].index : o \in live}
    <3> HIDE DEF free
    <3> QED BY <2>9, <2>10
  <2> QED BY <2>3, <2>6, <2>8, <2>11
<1> QED BY <1>1, IdAlways, PTL

-----------------------------------------------------------------------------
(* While indices fit in BitsInGenericIndex and the time stamp in              *)
(* BitsInGenericGeneration, every live context and space is found under its    *)
(* own id (NewContextID, NewSpaceID, RecycleID, IDToPSContext).               *)
THEOREM LiveIdsResolveAlways ==
  ASSUME FieldsSuffice
  PROVE  Spec => []LiveIdsResolve
<1>1. IdInv => LiveIdsResolve
  <2> SUFFICES ASSUME IdInv, NEW o \in live
               PROVE  IDToObject(id[o]) = o
    BY DEF LiveIdsResolve
  <2>1. /\ id[o].index \in 1 .. nextID - 1 /\ ctx[id[o].index] = o
        /\ timestamp[id[o].index] = id[o]
    BY DEF IdInv, LiveEntries
  <2>2. nextID \in Nat /\ nextID <= MaxIndex + 1 /\ MaxIndex \in Nat /\ o # NIL
    BY IdAssumption DEF IdInv, TypeOK, Entry
  <2> QED BY <2>1, <2>2 DEF IDToObject
<1> QED BY <1>1, IdAlways, PTL

(* An id whose object was destroyed finds nothing, however often its index    *)
(* was recycled since: the entry is emptied, or names an object of another id. *)
THEOREM StaleIdsFindNothingAlways ==
  ASSUME FieldsSuffice
  PROVE  Spec => []StaleIdsFindNothing
<1>1. IdInv => StaleIdsFindNothing
  <2> SUFFICES ASSUME IdInv, NEW t \in issued, \A o \in live : id[o] # t
               PROVE  IDToObject(t) = NIL
    BY DEF StaleIdsFindNothing
  <2>1. CASE t.index > nextID \/ t.index > MaxIndex
    BY <2>1 DEF IDToObject
  <2>2. CASE ~ (t.index > nextID \/ t.index > MaxIndex)
    <3>1. t.index \in Index
      BY <2>2, IdAssumption DEF IdInv, TypeOK, GenericID, Index
    <3>2. ctx[t.index] = NIL \/ id[ctx[t.index]] # t
      BY <3>1 DEF IdInv, OnlyLiveEntries
    <3> QED BY <2>2, <3>2 DEF IDToObject
  <2> QED BY <2>1, <2>2
<1> QED BY <1>1, IdAlways, PTL

(* The generation is non-reusable, as publictypes.h says, as long as it does   *)
(* not wrap: no id is ever given to a second object, although the time stamp   *)
(* moves only when an object is destroyed, so that many ids share it.         *)
THEOREM NeverReissuedAlways ==
  ASSUME FieldsSuffice
  PROVE  Spec => NeverReissued
<1> DEFINE Fresh == \A o \in Obj : o \in live' \ live => id'[o] \notin issued
<1>1. IdInv /\ [Next]_vars => [Fresh]_vars
  <2> SUFFICES ASSUME IdInv, Next PROVE Fresh
    OBVIOUS
  <2>1. ASSUME NEW o \in Obj, NewID(o) PROVE Fresh
    <3>1. /\ id' = [id EXCEPT ![o] = MakeID(TakenIndex)]
          /\ MakeID(TakenIndex) \notin issued
      BY <2>1, NewIsFresh
    <3>2. live' \ live \subseteq {o} /\ id \in [Obj -> GenericID]
      BY <2>1 DEF NewID, IdInv, TypeOK
    <3> QED BY <3>1, <3>2
  <2>2. ASSUME NEW o \in Obj, RecycleID(o) PROVE Fresh
    BY <2>2 DEF RecycleID
  <2> QED BY <2>1, <2>2 DEF Next
<1> QED BY <1>1, IdAlways, PTL DEF Spec, NeverReissued
=============================================================================
