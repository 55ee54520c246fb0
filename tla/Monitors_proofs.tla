--------------------------- MODULE Monitors_proofs ---------------------------
(***************************************************************************)
(* Theorems about Monitors for every set of contexts, spaces and locks,     *)
(* every bound on save levels and frames, and every set of notifications:   *)
(* its types, which the other proofs take their typing facts from; who may   *)
(* move exclusion and locks; and its safety invariants: lists and marks,     *)
(* semaphores, and what a waiting saver waits for; and from them that        *)
(* monitors implement AbstractMonitor, and so exclude each other.            *)
(***************************************************************************)
EXTENDS Monitors, FiniteSetTheorems, SequenceTheorems, WellFoundedInduction, TLAPS

\* TypeOK alone is not inductive: a suspended AcquireLock or PSWait names the
\* lock it goes on with.
LockNamed == \A c \in Context : at[c] \in Locking \cup {"wait"} => pl[c] \in Lock

TypeInv == TypeOK /\ LockNamed

-----------------------------------------------------------------------------
(* The operators on frames and queues.                                      *)

LEMMA CountType ==
  ASSUME NEW S, NEW fs \in Seq(S), NEW f
  PROVE  Count(fs, f) \in Nat
<1>1. IsFiniteSet(1 .. Len(fs))
  BY FS_Interval
<1>2. IsFiniteSet({i \in 1 .. Len(fs) : fs[i] = f})
  BY <1>1, FS_Subset
<1> QED BY <1>2, FS_CardinalityType DEF Count

LEMMA SubSeqType ==
  ASSUME NEW S, NEW s \in Seq(S), NEW m \in Int, NEW n \in Int,
         m >= 1, n <= Len(s)
  PROVE  SubSeq(s, m, n) \in Seq(S)
<1>1. \A i \in m .. n : s[i] \in S
  BY ElementOfSeq
<1> QED BY <1>1, SubSeqProperties

\* A set of positions has a greatest one: the sets i .. n are well-founded.
LEMMA GreatestPosition ==
  ASSUME NEW n \in Nat, NEW T, T \subseteq 1 .. n, T # {}
  PROVE  \E i \in T : \A j \in T : j <= i
<1> DEFINE S == 1 .. n
           U == {i .. n : i \in T}
<1>1. IsWellFoundedOn(StrictSubsetOrdering(S), SUBSET S)
  <2>1. IsFiniteSet(S)
    BY FS_Interval
  <2> HIDE DEF S
  <2> QED BY <2>1, FS_FiniteSubsetsOfFinite, FS_StrictSubsetOrderingWellFounded
<1>2. U \subseteq SUBSET S /\ U # {}
  <2>1. \A i \in T : i .. n \in SUBSET S
    OBVIOUS
  <2> QED BY <2>1
<1>3. PICK u \in U : \A v \in U : <<v, u>> \notin StrictSubsetOrdering(S)
  <2> HIDE DEF S, U
  <2> QED BY <1>1, <1>2, WFMin
<1>4. PICK i \in T : u = i .. n
  BY <1>3
<1>5. ASSUME NEW j \in T, i < j PROVE FALSE
  <2>1. j .. n \subseteq i .. n /\ i \in i .. n /\ i \notin j .. n
    BY <1>5
  <2>2. <<j .. n, i .. n>> \in StrictSubsetOrdering(S)
    BY <2>1 DEF StrictSubsetOrdering
  <2> QED BY <2>2, <1>3, <1>4
<1> QED BY <1>5

LEMMA DepthType ==
  ASSUME NEW S, NEW fs \in Seq(S)
  PROVE  /\ Depth(fs) \in 0 .. Len(fs)
         /\ Stopped(fs) => fs[Depth(fs)] = "stopped"
         /\ \A j \in 1 .. Len(fs) : fs[j] = "stopped" => j <= Depth(fs)
<1> DEFINE stops == {i \in 1 .. Len(fs) : fs[i] = "stopped"}
           last == CHOOSE i \in stops : \A j \in stops : j <= i
<1>1. Len(fs) \in Nat
  BY LenProperties
<1>2. CASE stops = {}
  <2>1. Depth(fs) = 0
    BY <1>2 DEF Depth
  <2> QED BY <1>1, <1>2, <2>1 DEF Stopped
<1>3. CASE stops # {}
  <2>1. \E i \in stops : \A j \in stops : j <= i
    BY <1>1, <1>3, GreatestPosition
  <2>2. last \in stops /\ \A j \in stops : j <= last
    BY <2>1
  <2>3. Depth(fs) = last
    BY <1>3 DEF Depth
  <2> HIDE DEF last
  <2> QED BY <1>1, <2>2, <2>3 DEF Stopped
<1> QED BY <1>2, <1>3

LEMMA UnwindType ==
  ASSUME NEW S, NEW fs \in Seq(S)
  PROVE  Kept(fs) \in Seq(S) /\ Unwound(fs) \in Seq(S)
  BY DepthType, SubSeqType DEF Kept, Unwound

LEMMA WithoutType ==
  ASSUME NEW S, NEW q \in Seq(S), NEW c
  PROVE  Without(q, c) \in Seq(S)
<1>1. \A i \in 1 .. Len(q) : SubSeq(q, 1, i - 1) \in Seq(S)
                              /\ SubSeq(q, i + 1, Len(q)) \in Seq(S)
  BY SubSeqType
<1> QED BY <1>1, ConcatProperties DEF Without

LEMMA BreakLooseType ==
  ASSUME TypeOK, NEW c \in Context
  PROVE  /\ BreakLooseLK(c) \in [Lock -> Seq(Context)]
         /\ BreakLooseCV(c) \in [Cond -> SUBSET Context]
  BY WithoutType DEF TypeOK, BreakLooseLK, BreakLooseCV

LEMMA WokenType ==
  ASSUME NEW q \in [Lock -> Seq(Context)], NEW L \in SUBSET Lock
  PROVE  Woken(L, q) \in SUBSET Context
  BY HeadTailProperties DEF Woken

-----------------------------------------------------------------------------
(* Counting frames.                                                         *)

LEMMA CountOccurs ==
  ASSUME NEW S, NEW fs \in Seq(S), NEW f
  PROVE  Count(fs, f) > 0 <=> \E i \in 1 .. Len(fs) : fs[i] = f
<1> DEFINE P == {i \in 1 .. Len(fs) : fs[i] = f}
<1>0. Len(fs) \in Nat /\ Count(fs, f) = Cardinality(P)
  BY LenProperties DEF Count
<1>1. IsFiniteSet(1 .. Len(fs)) /\ P \subseteq 1 .. Len(fs)
  BY FS_Interval
<1>2. IsFiniteSet(P)
  BY <1>1, FS_Subset
<1>3. Cardinality(P) \in Nat /\ (Cardinality(P) = 0 <=> P = {})
  <2> HIDE DEF P
  <2> QED BY <1>2, FS_CardinalityType, FS_EmptySet
<1>4. P # {} <=> \E i \in 1 .. Len(fs) : fs[i] = f
  OBVIOUS
<1> HIDE DEF P
<1> QED BY <1>0, <1>3, <1>4

LEMMA CountAppend ==
  ASSUME NEW S, NEW fs \in Seq(S), NEW e \in S, NEW f
  PROVE  Count(Append(fs, e), f) = Count(fs, f) + (IF e = f THEN 1 ELSE 0)
<1> DEFINE n == Len(fs)
           P == {i \in 1 .. n : fs[i] = f}
           Q == {i \in 1 .. Len(Append(fs, e)) : Append(fs, e)[i] = f}
<1>1. /\ n \in Nat /\ Len(Append(fs, e)) = n + 1 /\ Append(fs, e)[n + 1] = e
      /\ \A i \in 1 .. n : Append(fs, e)[i] = fs[i]
  BY LenProperties, AppendProperties
<1>5. Count(fs, f) = Cardinality(P) /\ Count(Append(fs, e), f) = Cardinality(Q)
  BY DEF Count
<1>2. IsFiniteSet(P) /\ Cardinality(P) \in Nat
  <2>1. IsFiniteSet(1 .. n) /\ P \subseteq 1 .. n
    BY FS_Interval
  <2> QED BY <2>1, FS_Subset, FS_CardinalityType
<1>3. CASE e = f
  <2>1. Q = P \cup {n + 1} /\ n + 1 \notin P
    BY <1>1, <1>3
  <2> HIDE DEF P, Q
  <2>2. Cardinality(Q) = Cardinality(P) + 1
    BY <1>2, <2>1, FS_AddElement
  <2> QED BY <1>2, <1>3, <1>5, <2>2
<1>4. CASE e # f
  <2>1. Q = P
    BY <1>1, <1>4
  <2> HIDE DEF P, Q
  <2> QED BY <1>2, <1>4, <1>5, <2>1
<1> QED BY <1>3, <1>4

LEMMA CountPop ==
  ASSUME NEW S, NEW fs \in Seq(S), fs # <<>>, NEW f
  PROVE  Count(fs, f) = Count(SubSeq(fs, 1, Len(fs) - 1), f)
                          + (IF fs[Len(fs)] = f THEN 1 ELSE 0)
<1> DEFINE n == Len(fs)
           t == SubSeq(fs, 1, n - 1)
<1>1. n \in Nat \ {0} /\ fs[n] \in S
  BY EmptySeq, ElementOfSeq
<1>2. t \in Seq(S)
  BY <1>1, SubSeqType
<1>3. Len(t) = n - 1 /\ \A i \in 1 .. n - 1 : t[i] = fs[i]
  <2>1. \A i \in 1 .. n - 1 : fs[i] \in S
    BY <1>1, ElementOfSeq
  <2>2. /\ Len(t) = IF 1 <= n - 1 THEN (n - 1) - 1 + 1 ELSE 0
        /\ \A i \in 1 .. (n - 1) - 1 + 1 : t[i] = fs[1 + i - 1]
    BY <1>1, <2>1, SubSeqProperties
  <2> QED BY <1>1, <2>2
<1>4. fs = Append(t, fs[n])
  <2> HIDE DEF t
  <2>1. /\ Append(t, fs[n]) \in Seq(S) /\ Len(Append(t, fs[n])) = n
        /\ \A i \in 1 .. n : Append(t, fs[n])[i] = fs[i]
    BY <1>1, <1>2, <1>3, AppendProperties
  <2> QED BY <2>1, SeqEqual
<1> HIDE DEF t, n
<1>5. Count(Append(t, fs[n]), f) = Count(t, f) + (IF fs[n] = f THEN 1 ELSE 0)
  BY <1>1, <1>2, CountAppend
<1> QED BY <1>4, <1>5 DEF t, n

LEMMA CountOne ==
  ASSUME NEW e, NEW f
  PROVE  Count(<<e>>, f) = IF e = f THEN 1 ELSE 0
<1>1. {i \in 1 .. Len(<<e>>) : <<e>>[i] = f} = IF e = f THEN {1} ELSE {}
  OBVIOUS
<1> QED BY <1>1, FS_Singleton, FS_EmptySet DEF Count

LEMMA CountEmpty ==
  ASSUME NEW f PROVE Count(<<>>, f) = 0
<1>1. {i \in 1 .. Len(<<>>) : <<>>[i] = f} = {}
  OBVIOUS
<1> QED BY <1>1, FS_EmptySet DEF Count

LEMMA CountSplit ==
  ASSUME NEW S, NEW fs \in Seq(S), NEW m \in 0 .. Len(fs), NEW f
  PROVE  Count(fs, f) = Count(SubSeq(fs, 1, m), f) + Count(SubSeq(fs, m + 1, Len(fs)), f)
<1> DEFINE n == Len(fs)
           lo == SubSeq(fs, 1, m)
           hi == SubSeq(fs, m + 1, n)
           A == {i \in 1 .. n : fs[i] = f}
           L == {i \in 1 .. m : fs[i] = f}
           H == {i \in m + 1 .. n : fs[i] = f}
           B == {i \in 1 .. n - m : fs[m + i] = f}
<1>1. n \in Nat /\ m \in Nat /\ m <= n
  BY LenProperties
<1>2. \A i \in 1 .. n : fs[i] \in S
  BY ElementOfSeq
<1>3. Len(lo) = m /\ \A i \in 1 .. m : lo[i] = fs[i]
  BY <1>1, <1>2, SubSeqProperties
<1>4. Len(hi) = n - m /\ \A i \in 1 .. n - m : hi[i] = fs[m + i]
  <2>1. \A i \in m + 1 .. n : fs[i] \in S
    BY <1>1, <1>2
  <2>2. /\ Len(hi) = IF m + 1 <= n THEN n - (m + 1) + 1 ELSE 0
        /\ \A i \in 1 .. n - (m + 1) + 1 : hi[i] = fs[m + 1 + i - 1]
    BY <1>1, <2>1, SubSeqProperties
  <2> QED BY <1>1, <2>2
<1>5. {i \in 1 .. Len(lo) : lo[i] = f} = L /\ {i \in 1 .. Len(hi) : hi[i] = f} = B
  BY <1>3, <1>4
<1>6. IsFiniteSet(A) /\ IsFiniteSet(L) /\ IsFiniteSet(H) /\ IsFiniteSet(B)
  <2>1. A \subseteq 1 .. n /\ L \subseteq 1 .. n /\ H \subseteq 1 .. n /\ B \subseteq 1 .. n
    BY <1>1
  <2>2. IsFiniteSet(1 .. n)
    BY <1>1, FS_Interval
  <2> HIDE DEF A, L, H, B
  <2> QED BY <2>1, <2>2, FS_Subset
<1>7. Cardinality(B) = Cardinality(H)
  <2> DEFINE g == [i \in B |-> m + i]
  <2>1. g \in Bijection(B, H)
    <3>1. g \in [B -> H]
      BY <1>1
    <3>2. \A i, j \in B : g[i] = g[j] => i = j
      BY <1>1
    <3>3. \A k \in H : \E i \in B : g[i] = k
      <4> TAKE k \in H
      <4>1. k - m \in B /\ g[k - m] = k
        BY <1>1
      <4> QED BY <4>1
    <3> HIDE DEF g, B, H
    <3> QED BY <3>1, <3>2, <3>3 DEF Bijection, Injection, Surjection, IsInjective
  <2> HIDE DEF g, B, H
  <2> QED BY <1>6, <2>1, FS_Bijection DEF ExistsBijection
<1>8. Cardinality(A) = Cardinality(L) + Cardinality(H)
  <2>1. A = L \cup H /\ L \cap H = {}
    BY <1>1
  <2> HIDE DEF A, L, H
  <2>2. Cardinality(L) \in Nat /\ Cardinality(H) \in Nat
    BY <1>6, FS_CardinalityType
  <2>3. Cardinality(A) = Cardinality(L) + Cardinality(H) - Cardinality(L \cap H)
    BY <1>6, <2>1, FS_Union
  <2>4. Cardinality(L \cap H) = 0
    BY <2>1, FS_EmptySet
  <2> QED BY <2>2, <2>3, <2>4
<1> HIDE DEF A, L, H, B, lo, hi, n
<1> QED BY <1>5, <1>7, <1>8 DEF Count, A, lo, hi, n

\* What unwinding keeps and what it drops, the "stopped" itself aside.
LEMMA CountUnwind ==
  ASSUME NEW S, NEW fs \in Seq(S), Stopped(fs), NEW f, f # "stopped"
  PROVE  Count(fs, f) = Count(Kept(fs), f) + Count(Unwound(fs), f)
<1> DEFINE d == Depth(fs)
           lo == SubSeq(fs, 1, d)
<1>1. d \in 1 .. Len(fs) /\ fs[d] = "stopped" /\ Len(fs) \in Nat
  BY DepthType, LenProperties DEF Stopped
<1>2. Count(fs, f) = Count(lo, f) + Count(Unwound(fs), f)
  BY <1>1, CountSplit DEF Unwound
<1>3. lo \in Seq(S) /\ Len(lo) = d /\ lo[d] = "stopped"
  <2>1. \A i \in 1 .. d : fs[i] \in S
    BY <1>1, ElementOfSeq
  <2> QED BY <1>1, <2>1, SubSeqProperties
<1>4. SubSeq(lo, 1, d - 1) = Kept(fs)
  <2>1. SubSeq(lo, 1, d - 1) = SubSeq(fs, 1, d - 1)
    <3>1. \A i \in 1 .. d : fs[i] \in S
      BY <1>1, ElementOfSeq
    <3>2. \A i \in 1 .. d : lo[i] = fs[i]
      BY <1>1, <3>1, SubSeqProperties
    <3>3. /\ SubSeq(lo, 1, d - 1) \in Seq(S) /\ Len(SubSeq(lo, 1, d - 1)) = d - 1
          /\ \A i \in 1 .. d - 1 : SubSeq(lo, 1, d - 1)[i] = fs[i]
      <4> HIDE DEF lo
      <4>1. \A i \in 1 .. d - 1 : lo[i] \in S
        BY <1>1, <3>1, <3>2
      <4> QED BY <1>1, <3>2, <4>1, SubSeqProperties
    <3>4. /\ SubSeq(fs, 1, d - 1) \in Seq(S) /\ Len(SubSeq(fs, 1, d - 1)) = d - 1
          /\ \A i \in 1 .. d - 1 : SubSeq(fs, 1, d - 1)[i] = fs[i]
      BY <1>1, <3>1, SubSeqProperties
    <3> QED BY <3>3, <3>4, SeqEqual
  <2> QED BY <2>1 DEF Kept
<1> HIDE DEF lo, d
<1>5. lo # <<>>
  BY <1>1, <1>3, EmptySeq
<1>6. Count(lo, f) = Count(Kept(fs), f)
  <2>1. Count(lo, f) = Count(SubSeq(lo, 1, Len(lo) - 1), f)
                         + (IF lo[Len(lo)] = f THEN 1 ELSE 0)
    BY <1>3, <1>5, CountPop
  <2>2. Count(Kept(fs), f) \in Nat
    BY UnwindType, CountType
  <2>3. SubSeq(lo, 1, Len(lo) - 1) = Kept(fs) /\ lo[Len(lo)] = "stopped"
    BY <1>3, <1>4
  <2>4. (IF lo[Len(lo)] = f THEN 1 ELSE 0) = 0
    BY <2>3
  <2>5. Count(lo, f) = Count(SubSeq(lo, 1, Len(lo) - 1), f) + 0
    BY <2>1, <2>4, Zenon
  <2>6. Count(lo, f) = Count(Kept(fs), f) + 0
    BY <2>3, <2>5, Zenon
  <2> QED BY <2>2, <2>6
<1> QED BY <1>2, <1>6

-----------------------------------------------------------------------------
(* Queues.                                                                  *)

Members(q) == {q[i] : i \in 1 .. Len(q)}
NoRepeat(q) == \A i, j \in 1 .. Len(q) : q[i] = q[j] => i = j

LEMMA WithoutMembers ==
  ASSUME NEW S, NEW q \in Seq(S), NoRepeat(q), NEW c
  PROVE  NoRepeat(Without(q, c)) /\ Members(Without(q, c)) \subseteq Members(q) \ {c}
<1>1. CASE \E i \in 1 .. Len(q) : q[i] = c
  <2> DEFINE k == CHOOSE i \in 1 .. Len(q) : q[i] = c
  <2>1. k \in 1 .. Len(q) /\ q[k] = c
    BY <1>1
  <2>2. Without(q, c) = SubSeq(q, 1, k - 1) \o SubSeq(q, k + 1, Len(q))
    BY <1>1 DEF Without
  <2> HIDE DEF k
  <2>3. Len(q) \in Nat /\ \A i \in 1 .. Len(q) : q[i] \in S
    BY LenProperties, ElementOfSeq
  <2>4. /\ SubSeq(q, 1, k - 1) \in Seq(S) /\ Len(SubSeq(q, 1, k - 1)) = k - 1
        /\ \A i \in 1 .. k - 1 : SubSeq(q, 1, k - 1)[i] = q[i]
    <3>1. \A i \in 1 .. k - 1 : q[i] \in S
      BY <2>1, <2>3
    <3>2. /\ SubSeq(q, 1, k - 1) \in Seq(S)
          /\ Len(SubSeq(q, 1, k - 1)) = IF 1 <= k - 1 THEN (k - 1) - 1 + 1 ELSE 0
          /\ \A i \in 1 .. (k - 1) - 1 + 1 : SubSeq(q, 1, k - 1)[i] = q[1 + i - 1]
      BY <2>1, <2>3, <3>1, SubSeqProperties
    <3> QED BY <2>1, <3>2
  <2>5. /\ SubSeq(q, k + 1, Len(q)) \in Seq(S)
        /\ Len(SubSeq(q, k + 1, Len(q))) = Len(q) - k
        /\ \A i \in 1 .. Len(q) - k : SubSeq(q, k + 1, Len(q))[i] = q[k + i]
    <3>1. \A i \in k + 1 .. Len(q) : q[i] \in S
      BY <2>1, <2>3
    <3>2. /\ SubSeq(q, k + 1, Len(q)) \in Seq(S)
          /\ Len(SubSeq(q, k + 1, Len(q)))
               = IF k + 1 <= Len(q) THEN Len(q) - (k + 1) + 1 ELSE 0
          /\ \A i \in 1 .. Len(q) - (k + 1) + 1 :
               SubSeq(q, k + 1, Len(q))[i] = q[(k + 1) + i - 1]
      BY <2>1, <2>3, <3>1, SubSeqProperties
    <3> QED BY <2>1, <2>3, <3>2
  <2>6. /\ Len(Without(q, c)) = Len(q) - 1
        /\ \A i \in 1 .. Len(q) - 1 :
             Without(q, c)[i] = q[IF i < k THEN i ELSE i + 1]
    <3> DEFINE a == SubSeq(q, 1, k - 1)
               b == SubSeq(q, k + 1, Len(q))
    <3> HIDE DEF a, b
    <3>1. /\ Len(a \o b) = Len(a) + Len(b)
          /\ \A i \in 1 .. Len(a) + Len(b) :
               (a \o b)[i] = IF i <= Len(a) THEN a[i] ELSE b[i - Len(a)]
      BY <2>4, <2>5, ConcatProperties DEF a, b
    <3>2. /\ Len(a) = k - 1 /\ Len(b) = Len(q) - k
          /\ \A i \in 1 .. k - 1 : a[i] = q[i]
          /\ \A i \in 1 .. Len(q) - k : b[i] = q[k + i]
      BY <2>4, <2>5 DEF a, b
    <3>3. Without(q, c) = a \o b
      BY <2>2 DEF a, b
    <3>4. Len(a \o b) = Len(q) - 1
      BY <2>1, <2>3, <3>1, <3>2
    <3>5. ASSUME NEW i \in 1 .. Len(q) - 1
          PROVE  (a \o b)[i] = q[IF i < k THEN i ELSE i + 1]
      <4>1. (a \o b)[i] = IF i <= Len(a) THEN a[i] ELSE b[i - Len(a)]
        BY <2>1, <2>3, <3>1, <3>2
      <4>2. CASE i < k
        BY <2>1, <2>3, <3>2, <4>1, <4>2
      <4>3. CASE ~ (i < k)
        <5>1. b[i - Len(a)] = q[k + (i - Len(a))] /\ k + (i - Len(a)) = i + 1
          BY <2>1, <2>3, <3>2, <4>3
        <5> QED BY <2>1, <3>2, <4>1, <4>3, <5>1
      <4> QED BY <4>2, <4>3
    <3> QED BY <3>3, <3>4, <3>5
  <2> QED BY <2>1, <2>3, <2>6 DEF NoRepeat, Members
<1>2. CASE ~ \E i \in 1 .. Len(q) : q[i] = c
  BY <1>2 DEF Without, Members
<1> QED BY <1>1, <1>2

LEMMA TailMembers ==
  ASSUME NEW S, NEW q \in Seq(S), NoRepeat(q), q # <<>>
  PROVE  /\ NoRepeat(Tail(q)) /\ Members(Tail(q)) \subseteq Members(q) \ {Head(q)}
         /\ Head(q) \in Members(q)
<1>1. /\ Len(q) \in Nat \ {0} /\ Len(Tail(q)) = Len(q) - 1
      /\ \A i \in 1 .. Len(q) - 1 : Tail(q)[i] = q[i + 1]
  BY EmptySeq, HeadTailProperties
<1>2. Head(q) = q[1]
  OBVIOUS
<1> QED BY <1>1, <1>2 DEF NoRepeat, Members

LEMMA AppendMembers ==
  ASSUME NEW S, NEW q \in Seq(S), NoRepeat(q), NEW c \in S, c \notin Members(q)
  PROVE  NoRepeat(Append(q, c)) /\ Members(Append(q, c)) = Members(q) \cup {c}
<1>1. /\ Len(q) \in Nat /\ Len(Append(q, c)) = Len(q) + 1
      /\ \A i \in 1 .. Len(q) : Append(q, c)[i] = q[i]
      /\ Append(q, c)[Len(q) + 1] = c
  BY LenProperties, AppendProperties
<1> QED BY <1>1 DEF NoRepeat, Members

-----------------------------------------------------------------------------
(* The parts of a step.                                                     *)

ListTypes ==
  /\ holder \in [Lock -> Context \cup {NIL}]
  /\ waiters \in [Lock -> Seq(Context)]
  /\ lk \in [Context -> Lock \cup {NIL}]

ControlTypes ==
  /\ live \subseteq Context
  /\ cur \in Context \cup {NIL}
  /\ running \in BOOLEAN
  /\ runnable \subseteq Context
  /\ at \in [Context -> Point]
  /\ fault \in {"none", "escape", "null"}

ExclusionTypes ==
  /\ sem \in [Space -> Int]
  /\ exclusive \in [Space -> Context \cup {NIL}]
  /\ totalSem \in Int
  /\ totalExcl \in Context \cup {NIL}

LEMMA ReleaseTypes ==
  ASSUME TypeOK, NEW q \in [Lock -> Seq(Context)], NEW L \in SUBSET Lock,
         ReleaseLocks(L, q)
  PROVE  ListTypes'
  BY HeadTailProperties DEF TypeOK, ListTypes, ReleaseLocks

LEMMA ProceedTypes ==
  ASSUME TypeOK, NEW c \in Context, NEW woken \in SUBSET Context, Proceed(c, woken)
  PROVE  ControlTypes' /\ at' = [at EXCEPT ![c] = "ready"]
  BY DEF TypeOK, ControlTypes, Proceed, Point

LEMMA YieldTypes ==
  ASSUME TypeOK, NEW c \in Context, NEW woken \in SUBSET Context,
         NEW point \in Point, NEW again \in BOOLEAN, Yield(c, point, woken, again)
  PROVE  ControlTypes' /\ at' = [at EXCEPT ![c] = point]
  BY DEF TypeOK, ControlTypes, Yield

LEMMA SetSemTypes ==
  ASSUME TypeOK, NEW c \in Context, NEW n \in Int, SetSem(c, n)
  PROVE  /\ sem' \in [Space -> Int]
         /\ exclusive' \in [Space -> Context \cup {NIL}]
  BY DEF TypeOK, SetSem

LEMMA DropTypes ==
  ASSUME TypeOK, NEW c \in Context, NEW fs \in Seq(Frame), NEW rs \in Int,
         DropExclusion(c, fs, rs)
  PROVE  ExclusionTypes'
<1>1. Count(fs, "font") \in Nat /\ Count(fs, "stroke") \in Nat
  BY CountType
<1>2. sem[SpaceOf[c]] \in Int
  BY ContextAssumption DEF TypeOK
<1>3. /\ sem' \in [Space -> Int]
      /\ exclusive' \in [Space -> Context \cup {NIL}]
  <2> DEFINE given == Count(fs, "font") + Count(fs, "stroke") + rs
  <2>1. CASE SetSem(c, sem[SpaceOf[c]] - given)
    BY <1>1, <1>2, <2>1, SetSemTypes
  <2>2. CASE UNCHANGED <<sem, exclusive>>
    BY <2>2 DEF TypeOK
  <2> QED BY <2>1, <2>2 DEF DropExclusion
<1>4. totalSem' \in Int /\ totalExcl' \in Context \cup {NIL}
  BY <1>1 DEF TypeOK, DropExclusion, SetTotal
<1> QED BY <1>3, <1>4 DEF ExclusionTypes

LEMMA AcquireTypes ==
  ASSUME TypeInv, NEW c \in Context, NEW l \in Lock, NEW point \in Locking,
         NEW q \in [Lock -> Seq(Context)], AcquireLock(c, l, point, q)
  PROVE  /\ ListTypes' /\ ControlTypes'
         /\ frames' \in [Context -> Seq(Frame)]
         /\ pl' \in [Context -> Lock \cup {NIL}]
         /\ LockNamed'
<1>1. CASE TakeLock(c, l, point, q)
  <2>1. ControlTypes' /\ at' = [at EXCEPT ![c] = "ready"]
    BY <1>1, ProceedTypes DEF TakeLock, TypeInv
  <2>2. Append(frames[c], l) \in Seq(Frame)
    BY AppendProperties DEF TypeInv, TypeOK, Frame
  <2>3. frames' \in [Context -> Seq(Frame)]
    BY <1>1, <2>2 DEF TakeLock, Push, TypeInv, TypeOK
  <2> QED
    BY <1>1, <2>1, <2>3 DEF TakeLock, TypeInv, TypeOK, ListTypes, LockNamed, Locking
<1>2. CASE QueueForLock(c, l, point, q)
  <2>1. ControlTypes' /\ at' = [at EXCEPT ![c] = point]
    BY <1>2, YieldTypes DEF QueueForLock, TypeInv, Point
  <2>2. waiters' \in [Lock -> Seq(Context)]
    BY <1>2, AppendProperties DEF QueueForLock
  <2> QED
    BY <1>2, <2>1, <2>2 DEF QueueForLock, TypeInv, TypeOK, ListTypes, LockNamed
<1>3. CASE RefuseLock(c, l, q)
  <2>1. ControlTypes' /\ at' = [at EXCEPT ![c] = "ready"]
    BY <1>3, ProceedTypes DEF RefuseLock, TypeInv
  <2> QED
    BY <1>3, <2>1 DEF RefuseLock, TypeInv, TypeOK, ListTypes, LockNamed, Locking
<1> QED BY <1>1, <1>2, <1>3 DEF AcquireLock

\* The rest of TypeOK.
OtherTypes ==
  /\ pend \in [Context -> {"none", "request_yield", "interrupt", "terminate"}]
  /\ frames \in [Context -> Seq(Frame)]
  /\ level \in [Space -> 0 .. MaxLevel]
  /\ condWaiters \in [Cond -> SUBSET Context]
  /\ waitee \in [Context -> Cond \cup {NIL}]
  /\ pl \in [Context -> Lock \cup {NIL}]

LEMMA Parts ==
  /\ TypeOK <=> ControlTypes /\ ExclusionTypes /\ ListTypes /\ OtherTypes
  /\ TypeOK' <=> (ControlTypes /\ ExclusionTypes /\ ListTypes /\ OtherTypes)'
  BY DEF TypeOK, ControlTypes, ExclusionTypes, ListTypes, OtherTypes

\* What c leaves alone keeps its type.
LEMMA SameTypes ==
  ASSUME TypeOK
  PROVE  /\ UNCHANGED exclVars => ExclusionTypes' /\ level' = level
         /\ UNCHANGED <<holder, waiters, lk>> => ListTypes'
         /\ UNCHANGED <<pend, frames, level, condWaiters, waitee, pl>> => OtherTypes'
  BY DEF TypeOK, ExclusionTypes, ListTypes, OtherTypes, exclVars

\* A context that is not suspended on a lock has none to name.
LEMMA NamedAfter ==
  ASSUME TypeInv, NEW c \in Context, NEW point,
         at' = [at EXCEPT ![c] = point], \A d \in Context \ {c} : pl'[d] = pl[d],
         point \notin Locking \cup {"wait"} \/ pl'[c] \in Lock
  PROVE  LockNamed'
  BY DEF TypeInv, TypeOK, LockNamed

-----------------------------------------------------------------------------
(* The steps.                                                               *)

LEMMA TypesInit == Init => TypeInv
<1> SUFFICES ASSUME Init PROVE TypeInv
  OBVIOUS
<1>1. \A S : <<>> \in Seq(S)
  BY EmptySeq
<1>2. ControlTypes /\ LockNamed
  BY DEF Init, BaseInit, ControlTypes, LockNamed, Point, Locking
<1>3. ExclusionTypes
  BY DEF Init, BaseInit, ExclusionTypes
<1>4. ListTypes
  BY <1>1 DEF Init, ListTypes
<1>5. OtherTypes
  BY <1>1, ContextAssumption DEF Init, BaseInit, OtherTypes
<1> QED BY <1>2, <1>3, <1>4, <1>5, Parts DEF TypeInv

LEMMA TypesDispatch ==
  ASSUME TypeInv, NEW c \in Context, Dispatch(c) \/ Signal(c)
  PROVE  TypeInv'
<1>1. CASE Dispatch(c)
  BY <1>1 DEF Dispatch, Schedule, TypeInv, TypeOK, LockNamed, exclVars, monitorVars
<1>2. CASE Signal(c)
  <2>1. PICK r \in Reason : Notify(c, r)
    BY <1>2 DEF Signal
  <2>2. Override(pend[c], r) \in {"none", "request_yield", "interrupt", "terminate"}
    BY ContextAssumption DEF Override, TypeInv, TypeOK
  <2> QED
    BY <1>2, <2>1, <2>2
       DEF Signal, Notify, TypeInv, TypeOK, LockNamed, exclVars, monitorVars
<1> QED BY <1>1, <1>2

LEMMA TypesBase ==
  ASSUME TypeInv, NEW c \in Context, BaseOp(c)
  PROVE  TypeInv'
<1> USE DEF TypeInv
<1>1. UNCHANGED monitorVars
  BY DEF BaseOp
<1>2. level[SpaceOf[c]] \in 0 .. MaxLevel /\ sem[SpaceOf[c]] \in Int
  BY ContextAssumption DEF TypeOK
<1>3. CASE Save(c) \/ Restore(c)
  <2>1. level' \in [Space -> 0 .. MaxLevel]
    <3>1. CASE Save(c)
      <4>1. level[SpaceOf[c]] + 1 \in 0 .. MaxLevel
        BY <1>2, <3>1, ContextAssumption DEF Save
      <4> QED BY <3>1, <4>1 DEF Save, TypeOK
    <3>2. CASE Restore(c)
      BY <3>2 DEF Restore, TypeOK
    <3> QED BY <1>3, <3>1, <3>2
  <2>2. \E n \in Int : SetSem(c, n)
    <3>1. CASE Save(c)
      BY <1>2, <3>1 DEF Save
    <3>2. CASE Restore(c)
      BY <1>2, <3>2, ContextAssumption DEF Restore
    <3> QED BY <1>3, <3>1, <3>2
  <2>3. /\ sem' \in [Space -> Int]
        /\ exclusive' \in [Space -> Context \cup {NIL}]
    BY <2>2, SetSemTypes
  <2> QED
    BY <1>1, <1>3, <2>1, <2>3 DEF Save, Restore, TypeOK, LockNamed, monitorVars
<1>4. CASE EnterStopped(c) \/ EnterFont(c) \/ EnterStroke(c)
  <2>1. \A f \in {"stopped", "font", "stroke"} : Append(frames[c], f) \in Seq(Frame)
    BY AppendProperties DEF TypeOK, Frame
  <2>2. frames' \in [Context -> Seq(Frame)]
    BY <1>4, <2>1 DEF EnterStopped, EnterFont, EnterStroke, Push, TypeOK
  <2>3. /\ sem' \in [Space -> Int]
        /\ exclusive' \in [Space -> Context \cup {NIL}]
    <3>1. CASE EnterStopped(c)
      BY <3>1 DEF EnterStopped, exclVars, TypeOK
    <3>2. CASE EnterFont(c) \/ EnterStroke(c)
      BY <1>2, <3>2, SetSemTypes DEF EnterFont, EnterStroke
    <3> QED BY <1>4, <3>1, <3>2
  <2>4. totalSem' \in Int /\ totalExcl' \in Context \cup {NIL}
    BY <1>4 DEF EnterStopped, EnterFont, EnterStroke, exclVars, SetTotal, TypeOK
  <2> QED
    BY <1>1, <1>4, <2>2, <2>3, <2>4
       DEF EnterStopped, EnterFont, EnterStroke, exclVars, TypeOK, LockNamed,
           monitorVars
<1>5. CASE LeaveFrame(c)
  <2>1. Len(frames[c]) \in Nat /\ frames[c] # <<>>
    BY <1>5, LenProperties DEF LeaveFrame, TypeOK
  <2>2. SubSeq(frames[c], 1, Len(frames[c]) - 1) \in Seq(Frame)
    BY <2>1, SubSeqType DEF TypeOK
  <2>3. frames' \in [Context -> Seq(Frame)]
    BY <1>5, <2>2 DEF LeaveFrame, Pop, TypeOK
  <2>4. <<Top(c)>> \in Seq(Frame)
    <3>1. Top(c) \in Frame
      BY <2>1, ElementOfSeq DEF Top, TypeOK
    <3> QED BY <3>1
  <2>5. ExclusionTypes'
    <3>1. DropExclusion(c, <<Top(c)>>, 0)
      BY <1>5 DEF LeaveFrame
    <3>2. PICK fs \in Seq(Frame), rs \in Int : DropExclusion(c, fs, rs)
      BY <2>4, <3>1, 0 \in Int, Zenon
    <3> QED BY <3>2, DropTypes
  <2> QED
    BY <1>1, <1>5, <2>3, <2>5
       DEF LeaveFrame, ExclusionTypes, TypeOK, LockNamed, monitorVars
<1>6. CASE YieldSlice(c)
  <2>1. ControlTypes' /\ at' = [at EXCEPT ![c] = "slice"]
    BY <1>6, YieldTypes DEF YieldSlice, Point
  <2> QED
    BY <1>1, <1>6, <2>1
       DEF YieldSlice, ControlTypes, exclVars, TypeOK, LockNamed, monitorVars, Locking
<1> QED BY <1>3, <1>4, <1>5, <1>6 DEF BaseOp

LEMMA TypesMonitor ==
  ASSUME TypeInv, NEW c \in Context, Monitor(c) \/ PSAcquireLock(c)
  PROVE  TypeInv'
<1>1. PICK l \in Lock, point \in Locking : AcquireLock(c, l, point, waiters)
  BY DEF Monitor, PSAcquireLock, Locking
<1>2. waiters \in [Lock -> Seq(Context)]
  BY DEF TypeInv, TypeOK
<1>3. /\ ListTypes' /\ ControlTypes' /\ LockNamed'
      /\ frames' \in [Context -> Seq(Frame)]
      /\ pl' \in [Context -> Lock \cup {NIL}]
  BY <1>1, <1>2, AcquireTypes
<1>4. UNCHANGED <<pend, exclVars, condWaiters, waitee>>
  BY DEF Monitor, PSAcquireLock
<1>5. ExclusionTypes' /\ OtherTypes'
  BY <1>3, <1>4 DEF exclVars, ExclusionTypes, OtherTypes, TypeInv, TypeOK
<1> QED BY <1>3, <1>5, Parts DEF TypeInv

LEMMA TypesMonitorExit ==
  ASSUME TypeInv, NEW c \in Context, MonitorExit(c) \/ PSReleaseLock(c)
  PROVE  TypeInv'
<1>1. PICK L \in SUBSET Lock : ReleaseLocks(L, waiters) /\ Proceed(c, Woken(L, waiters))
  BY DEF MonitorExit, PSReleaseLock
<1>2. waiters \in [Lock -> Seq(Context)]
  BY DEF TypeInv, TypeOK
<1>3. ListTypes' /\ ControlTypes' /\ at' = [at EXCEPT ![c] = "ready"]
  BY <1>1, <1>2, ReleaseTypes, WokenType, ProceedTypes DEF TypeInv
<1>4. UNCHANGED <<pend, exclVars, condWaiters, waitee, pl>>
  BY DEF MonitorExit, PSReleaseLock
<1>5. frames' \in [Context -> Seq(Frame)]
  <2>1. CASE MonitorExit(c)
    <3>1. frames[c] \in Seq(Frame) /\ frames[c] # <<>>
      BY <2>1 DEF MonitorExit, TypeInv, TypeOK
    <3>2. Len(frames[c]) \in Nat
      BY <3>1, LenProperties
    <3>3. SubSeq(frames[c], 1, Len(frames[c]) - 1) \in Seq(Frame)
      BY <3>1, <3>2, SubSeqType
    <3> QED BY <2>1, <3>3 DEF MonitorExit, Pop, TypeInv, TypeOK
  <2>2. CASE PSReleaseLock(c)
    BY <2>2 DEF PSReleaseLock, TypeInv, TypeOK
  <2> QED BY <2>1, <2>2
<1>6. ExclusionTypes' /\ OtherTypes'
  BY <1>4, <1>5 DEF exclVars, ExclusionTypes, OtherTypes, TypeInv, TypeOK
<1>7. LockNamed'
  BY <1>3, <1>4, NamedAfter DEF Locking
<1> QED BY <1>3, <1>6, <1>7, Parts DEF TypeInv

LEMMA TypesWait ==
  ASSUME TypeInv, NEW c \in Context, PSWait(c)
  PROVE  TypeInv'
<1>1. PICK l \in Lock, v \in Cond :
        /\ ReleaseLocks({l}, waiters)
        /\ condWaiters' = [condWaiters EXCEPT ![v] = @ \cup {c}]
        /\ waitee' = [waitee EXCEPT ![c] = v]
        /\ pl' = [pl EXCEPT ![c] = l]
        /\ Yield(c, "wait", Woken({l}, waiters), FALSE)
  BY DEF PSWait
<1>2. waiters \in [Lock -> Seq(Context)]
  BY DEF TypeInv, TypeOK
<1>3. ListTypes' /\ Woken({l}, waiters) \in SUBSET Context
  BY <1>1, <1>2, ReleaseTypes, WokenType DEF TypeInv
<1>4. ControlTypes' /\ at' = [at EXCEPT ![c] = "wait"]
  BY <1>1, <1>3, YieldTypes DEF TypeInv, Point
<1>5. UNCHANGED <<pend, frames, exclVars>>
  BY DEF PSWait
<1>6. ExclusionTypes' /\ OtherTypes'
  BY <1>1, <1>5 DEF exclVars, ExclusionTypes, OtherTypes, TypeInv, TypeOK
<1>7. LockNamed'
  BY <1>1, <1>4, NamedAfter DEF TypeInv, TypeOK
<1> QED BY <1>3, <1>4, <1>6, <1>7, Parts DEF TypeInv

LEMMA TypesNotify ==
  ASSUME TypeInv, NEW c \in Context, PSNotify(c)
  PROVE  TypeInv'
<1>1. PICK v \in Cond :
        /\ condWaiters' = [condWaiters EXCEPT ![v] = {}]
        /\ waitee' = [d \in Context |->
                        IF d \in condWaiters[v] THEN NIL ELSE waitee[d]]
        /\ Proceed(c, condWaiters[v])
  BY DEF PSNotify
<1>2. UNCHANGED <<pend, frames, exclVars, holder, waiters, lk, pl>>
  BY DEF PSNotify
<1>3. ControlTypes' /\ at' = [at EXCEPT ![c] = "ready"]
  BY <1>1, ProceedTypes DEF TypeInv, TypeOK
<1>4. ExclusionTypes' /\ ListTypes' /\ OtherTypes'
  BY <1>1, <1>2
     DEF exclVars, ExclusionTypes, ListTypes, OtherTypes, TypeInv, TypeOK
<1>5. LockNamed'
  BY <1>2, <1>3, NamedAfter DEF Locking
<1> QED BY <1>3, <1>4, <1>5, Parts DEF TypeInv

LEMMA TypesDestroy ==
  ASSUME TypeInv, NEW c \in Context, Destroy(c)
  PROVE  TypeInv'
<1> DEFINE q == BreakLooseLK(c)
           L == {l \in Marks(c) : holder[l] = c}
<1>1. q \in [Lock -> Seq(Context)] /\ L \in SUBSET Lock
  BY BreakLooseType DEF TypeInv, Marks, LocksOf
<1>2. /\ ReleaseLocks(L, q)
      /\ condWaiters' = BreakLooseCV(c)
      /\ pl' = [pl EXCEPT ![c] = NIL]
      /\ DestroyBase(c, Woken(L, q))
      /\ UNCHANGED waitee
  BY DEF Destroy
<1> HIDE DEF q, L
<1>3. ListTypes' /\ Woken(L, q) \in SUBSET Context
  BY <1>1, <1>2, ReleaseTypes, WokenType DEF TypeInv
<1>4. ControlTypes' /\ at' = [at EXCEPT ![c] = "dead"]
  BY <1>2, <1>3 DEF DestroyBase, ControlTypes, TypeInv, TypeOK, Point
<1>5. level[SpaceOf[c]] \in Int /\ frames[c] \in Seq(Frame)
  BY ContextAssumption DEF TypeInv, TypeOK
<1>6. ExclusionTypes'
  BY <1>2, <1>5, DropTypes DEF DestroyBase, TypeInv
<1>7. OtherTypes'
  <2>1. level' \in [Space -> 0 .. MaxLevel]
    <3>1. level' = [level EXCEPT ![SpaceOf[c]] = 0]
      BY <1>2 DEF DestroyBase
    <3>2. level \in [Space -> 0 .. MaxLevel] /\ 0 \in 0 .. MaxLevel
      BY ContextAssumption DEF TypeInv, TypeOK
    <3> QED BY <3>1, <3>2
  <2>2. <<>> \in Seq(Frame)
    BY EmptySeq
  <2>3. frames' \in [Context -> Seq(Frame)]
    BY <1>2, <2>2 DEF DestroyBase, TypeInv, TypeOK
  <2>4. condWaiters' \in [Cond -> SUBSET Context]
    BY <1>2, BreakLooseType DEF TypeInv
  <2> QED
    BY <1>2, <2>1, <2>3, <2>4 DEF DestroyBase, OtherTypes, TypeInv, TypeOK
<1>8. LockNamed'
  BY <1>2, <1>4, NamedAfter DEF TypeInv, TypeOK, Locking
<1> QED BY <1>3, <1>4, <1>6, <1>7, <1>8, Parts DEF TypeInv

LEMMA TypesStop ==
  ASSUME TypeInv, NEW c \in Context, StopContext(c)
  PROVE  TypeInv'
<1>1. CASE Escape /\ UNCHANGED monitorVars
  BY <1>1 DEF Escape, exclVars, monitorVars, TypeInv, TypeOK, LockNamed
<1>2. CASE Destroy(c)
  BY <1>2, TypesDestroy
<1>3. CASE UnwindToStopped(c) /\ ~ (Escape /\ UNCHANGED monitorVars)
  <2> DEFINE q == BreakLooseLK(c)
             fs == Unwound(frames[c])
             L == LocksOf(fs)
  <2>1. q \in [Lock -> Seq(Context)] /\ L \in SUBSET Lock
    BY BreakLooseType DEF TypeInv, LocksOf
  <2>2. fs \in Seq(Frame) /\ Kept(frames[c]) \in Seq(Frame)
    BY UnwindType DEF TypeInv, TypeOK
  <2>3. /\ ReleaseLocks(L, q)
        /\ condWaiters' = BreakLooseCV(c)
        /\ frames' = [frames EXCEPT ![c] = Kept(@)]
        /\ DropExclusion(c, fs, 0)
        /\ pend' = [pend EXCEPT ![c] = IF at[c] = "ready" THEN @ ELSE "none"]
        /\ pl' = [pl EXCEPT ![c] = NIL]
        /\ Proceed(c, Woken(L, q))
        /\ UNCHANGED <<level, waitee>>
    BY <1>3 DEF UnwindToStopped
  <2> HIDE DEF q, fs, L
  <2>4. ListTypes' /\ Woken(L, q) \in SUBSET Context
    BY <2>1, <2>3, ReleaseTypes, WokenType DEF TypeInv
  <2>5. ControlTypes' /\ at' = [at EXCEPT ![c] = "ready"]
    BY <2>3, <2>4, ProceedTypes DEF TypeInv
  <2>6. ExclusionTypes'
    BY <2>2, <2>3, DropTypes DEF TypeInv
  <2>7. OtherTypes'
    BY <2>2, <2>3, BreakLooseType DEF OtherTypes, TypeInv, TypeOK
  <2>8. LockNamed'
    BY <2>3, <2>5, NamedAfter DEF TypeInv, TypeOK, Locking
  <2> QED BY <2>4, <2>5, <2>6, <2>7, <2>8, Parts DEF TypeInv
<1> QED BY <1>1, <1>2, <1>3 DEF StopContext

LEMMA TypesContinue ==
  ASSUME TypeInv, NEW c \in Context, Continue(c)
  PROVE  TypeInv'
<1>1. CASE Begin(c)
  <2>1. ControlTypes' /\ at' = [at EXCEPT ![c] = "ready"]
    BY <1>1, ProceedTypes DEF Begin, TypeInv
  <2> QED
    BY <1>1, <2>1
       DEF Begin, ControlTypes, exclVars, monitorVars, TypeInv, TypeOK, LockNamed,
           Locking
<1>2. CASE Raised(c)
  BY <1>2, TypesDestroy, TypesStop DEF Raised
<1>3. CASE Resume(c)
  <2>1. pend' \in [Context -> {"none", "request_yield", "interrupt", "terminate"}]
    BY <1>3 DEF Resume, TypeInv, TypeOK
  <2>2. UNCHANGED exclVars /\ UNCHANGED waitee
    BY <1>3 DEF Resume, monitorVars
  <2>3. condWaiters' \in [Cond -> SUBSET Context]
    BY <1>3, BreakLooseType DEF Resume, monitorVars, TypeInv, TypeOK
  <2>4. CASE at[c] = "slice" /\ Proceed(c, {}) /\ UNCHANGED <<frames, monitorVars>>
    <3>1. ControlTypes' /\ at' = [at EXCEPT ![c] = "ready"]
      BY <2>4, ProceedTypes DEF TypeInv
    <3> QED
      BY <2>1, <2>2, <2>4, <3>1
         DEF ControlTypes, exclVars, monitorVars, TypeInv, TypeOK, LockNamed, Locking
  <2>5. CASE at[c] \in Locking \cup {"wait"}
    <3>1. pl[c] \in Lock
      BY <2>5 DEF TypeInv, LockNamed
    <3>2. PICK point \in Locking, q \in [Lock -> Seq(Context)] :
            AcquireLock(c, pl[c], point, q)
      <4>1. BreakLooseLK(c) \in [Lock -> Seq(Context)]
        BY BreakLooseType DEF TypeInv
      <4>2. waiters \in [Lock -> Seq(Context)]
        BY DEF TypeInv, TypeOK
      <4> QED BY <1>3, <2>5, <4>1, <4>2 DEF Resume, Locking
    <3>3. /\ ListTypes' /\ ControlTypes' /\ LockNamed'
          /\ frames' \in [Context -> Seq(Frame)]
          /\ pl' \in [Context -> Lock \cup {NIL}]
      BY <3>1, <3>2, AcquireTypes
    <3>4. ExclusionTypes' /\ OtherTypes'
      BY <2>1, <2>2, <2>3, <3>3
         DEF exclVars, ExclusionTypes, OtherTypes, TypeInv, TypeOK
    <3> QED BY <3>3, <3>4, Parts DEF TypeInv
  <2> QED BY <1>3, <2>4, <2>5 DEF Resume
<1> QED BY <1>1, <1>2, <1>3 DEF Continue

LEMMA TypesNext == TypeInv /\ [Next]_vars => TypeInv'
<1> SUFFICES ASSUME TypeInv, [Next]_vars PROVE TypeInv'
  OBVIOUS
<1>1. CASE UNCHANGED vars
  BY <1>1 DEF vars, baseVars, monitorVars, TypeInv, TypeOK, LockNamed
<1>2. ASSUME NEW c \in Context, Operator(c) PROVE TypeInv'
  BY <1>2, TypesBase, TypesMonitor, TypesMonitorExit, TypesWait, TypesNotify,
     TypesStop, TypesDestroy DEF Operator, Stop, Quit
<1> QED BY <1>1, <1>2, TypesDispatch, TypesContinue DEF Next

(* Every variable keeps its type: the save levels stay within MAXlevel, and a *)
(* context that is blocked in AcquireLock or PSWait names a lock to go on     *)
(* with (the ctx->pl that the resumed coroutine reads).                      *)
THEOREM TypesCorrect == Spec => []TypeInv
<1> QED BY TypesInit, TypesNext, PTL DEF Spec

(* The type invariant that the runs check.                                   *)
THEOREM TypeOKAlways == Spec => []TypeOK
<1>1. TypeInv => TypeOK
  BY DEF TypeInv
<1> QED BY <1>1, TypesCorrect, PTL

-----------------------------------------------------------------------------
(***************************************************************************)
(* How far one step may reach.  A step is the scheduler's choice, a          *)
(* notification, or an operator of the context that runs, which may claim or *)
(* give up exclusion of its own space, and of the interpreter, for itself.   *)
(***************************************************************************)
OwnExclusion(c) ==
  /\ running /\ cur = c
  /\ exclusive' \in {exclusive, [exclusive EXCEPT ![SpaceOf[c]] = NIL],
                     [exclusive EXCEPT ![SpaceOf[c]] = c]}
  /\ totalExcl' \in {totalExcl, NIL, c}
  /\ cur' \in {c, NIL}
  /\ running' => cur' = c

\* DropExclusion stays within the context's own exclusion.
LEMMA DropIsOwn ==
  ASSUME NEW c \in Context, NEW fs, NEW rs, DropExclusion(c, fs, rs)
  PROVE  /\ exclusive' \in {exclusive, [exclusive EXCEPT ![SpaceOf[c]] = NIL],
                            [exclusive EXCEPT ![SpaceOf[c]] = c]}
         /\ totalExcl' \in {totalExcl, NIL, c}
  BY DEF DropExclusion, SetSem, SetTotal

\* One turn of AcquireLock's loop touches no exclusion.
LEMMA AcquireIsOwn ==
  ASSUME NEW c \in Context, NEW l, NEW point, NEW q,
         running, cur = c, AcquireLock(c, l, point, q)
  PROVE  cur' = c
  BY DEF AcquireLock, TakeLock, QueueForLock, RefuseLock, Proceed, Yield

LEMMA BaseOpIsOwn ==
  ASSUME NEW c \in Context, BaseOp(c)
  PROVE  OwnExclusion(c)
<1>1. CASE LeaveFrame(c)
  BY <1>1, DropIsOwn DEF LeaveFrame, At, OwnExclusion
<1>2. CASE Save(c) \/ Restore(c) \/ EnterStopped(c) \/ EnterFont(c)
           \/ EnterStroke(c) \/ YieldSlice(c)
  BY <1>2 DEF Save, Restore, EnterStopped, EnterFont, EnterStroke, YieldSlice,
              Yield, Ready, At, SetSem, SetTotal, exclVars, OwnExclusion
<1> QED BY <1>1, <1>2 DEF BaseOp

LEMMA DestroyIsOwn ==
  ASSUME NEW c \in Context, running, cur = c, Destroy(c)
  PROVE  OwnExclusion(c)
  BY DropIsOwn DEF Destroy, DestroyBase, OwnExclusion

LEMMA StopIsOwn ==
  ASSUME NEW c \in Context, running, cur = c, StopContext(c)
  PROVE  OwnExclusion(c)
<1>1. CASE Destroy(c)
  BY <1>1, DestroyIsOwn
<1>2. CASE Escape
  BY <1>2 DEF Escape, exclVars, OwnExclusion
<1>3. CASE UnwindToStopped(c) /\ ~Escape
  BY <1>3, DropIsOwn DEF UnwindToStopped, Proceed, OwnExclusion
<1> QED BY <1>1, <1>2, <1>3 DEF StopContext

LEMMA MonitorOpIsOwn ==
  ASSUME NEW c \in Context,
         Monitor(c) \/ MonitorExit(c) \/ PSAcquireLock(c) \/ PSReleaseLock(c)
           \/ PSWait(c) \/ PSNotify(c)
  PROVE  OwnExclusion(c)
<1>1. running /\ cur = c
  BY DEF Monitor, MonitorExit, PSAcquireLock, PSReleaseLock, PSWait, PSNotify,
         Ready, At
<1>2. UNCHANGED exclVars
  BY DEF Monitor, MonitorExit, PSAcquireLock, PSReleaseLock, PSWait, PSNotify
<1>3. cur' = c
  BY <1>1, AcquireIsOwn
     DEF Monitor, MonitorExit, PSAcquireLock, PSReleaseLock, PSWait, PSNotify,
         Proceed, Yield
<1> QED BY <1>1, <1>2, <1>3 DEF exclVars, OwnExclusion

LEMMA ContinueIsOwn ==
  ASSUME NEW c \in Context, Continue(c)
  PROVE  OwnExclusion(c)
<1>1. CASE Begin(c)
  BY <1>1 DEF Begin, At, Proceed, exclVars, OwnExclusion
<1>2. CASE Raised(c)
  BY <1>2, DestroyIsOwn, StopIsOwn DEF Raised, Suspended
<1>3. CASE Resume(c)
  <2>1. running /\ cur = c /\ UNCHANGED exclVars
    BY <1>3 DEF Resume, Suspended
  <2>2. cur' = c
    BY <1>3, <2>1, AcquireIsOwn DEF Resume, Proceed
  <2> QED BY <2>1, <2>2 DEF exclVars, OwnExclusion
<1> QED BY <1>1, <1>2, <1>3 DEF Continue

LEMMA StepIsConfined ==
  ASSUME NEW c \in Context, Dispatch(c) \/ Signal(c) \/ Continue(c) \/ Operator(c)
  PROVE  \/ Schedule(c)
         \/ UNCHANGED <<cur, running, exclusive, totalExcl>>
         \/ OwnExclusion(c)
<1>1. CASE Dispatch(c)
  BY <1>1 DEF Dispatch
<1>2. CASE Signal(c)
  BY <1>2 DEF Signal, Notify, exclVars
<1>3. CASE Stop(c) \/ Quit(c)
  BY <1>3, StopIsOwn, DestroyIsOwn DEF Stop, Quit, Ready, At
<1> QED
  BY <1>1, <1>2, <1>3, ContinueIsOwn, BaseOpIsOwn, MonitorOpIsOwn DEF Operator

-----------------------------------------------------------------------------
(***************************************************************************)
(* ExclusionObeyed.  It is not inductive: a context that gives up the whole  *)
(* interpreter must be found to have a right to its space as well.           *)
(***************************************************************************)
ExclusionInv ==
  /\ cur \in Context \cup {NIL}
  /\ totalExcl \in Context \cup {NIL}
  /\ exclusive \in [Space -> Context \cup {NIL}]
  /\ running => cur # NIL
  /\ cur # NIL => /\ totalExcl \in {NIL, cur}
                  /\ exclusive[SpaceOf[cur]] \in {NIL, cur}
  /\ totalExcl # NIL => exclusive[SpaceOf[totalExcl]] \in {NIL, totalExcl}

LEMMA ExclusionInit == Init => ExclusionInv
  BY ContextAssumption DEF Init, BaseInit, ExclusionInv

LEMMA ExclusionSchedule ==
  ASSUME NEW c \in Context, ExclusionInv, Schedule(c)
  PROVE  ExclusionInv'
  BY ContextAssumption
     DEF ExclusionInv, Schedule, MaySwitch, ExclusivePSContext, exclVars

LEMMA ExclusionOwn ==
  ASSUME NEW c \in Context, ExclusionInv, OwnExclusion(c)
  PROVE  ExclusionInv'
  BY ContextAssumption DEF ExclusionInv, OwnExclusion

LEMMA ExclusionNext == ExclusionInv /\ [Next]_vars => ExclusionInv'
<1> SUFFICES ASSUME ExclusionInv, [Next]_vars PROVE ExclusionInv'
  OBVIOUS
<1>1. ASSUME UNCHANGED <<cur, running, exclusive, totalExcl>>
      PROVE  ExclusionInv'
  BY <1>1 DEF ExclusionInv
<1>2. CASE UNCHANGED vars
  BY <1>2, <1>1 DEF vars, baseVars
<1>3. CASE Next
  BY <1>1, <1>3, StepIsConfined, ExclusionSchedule, ExclusionOwn DEF Next
<1> QED BY <1>2, <1>3

(* A context that executes has the right to: nobody else has exclusive use   *)
(* of its space or of the interpreter, whatever the saves, BuildChars,        *)
(* strokes, stops and terminations that came before (SwitchPSContext, and     *)
(* NSLoadPS, which goes on with the loaded context when it is refused).       *)
THEOREM ExclusionObeyedAlways == Spec => []ExclusionObeyed
<1>1. ExclusionInv => ExclusionObeyed
  BY DEF ExclusionInv, ExclusionObeyed, MaySwitch, ExclusivePSContext
<1> QED BY <1>1, ExclusionInit, ExclusionNext, PTL DEF Spec

-----------------------------------------------------------------------------
(***************************************************************************)
(* OnlyOwnerReleases.  Every step leaves the locks alone, takes a free one,  *)
(* or frees locks of the context that runs.                                 *)
(***************************************************************************)
LocksKept ==
  \A l \in Lock : \/ holder[l] \in {NIL, holder'[l]}
                  \/ running /\ cur = holder[l] /\ holder'[l] = NIL

LEMMA ReleaseOwn ==
  ASSUME TypeOK, NEW c \in Context, running, cur = c,
         NEW L \in SUBSET Lock, \A l \in L : holder[l] = c,
         NEW q, ReleaseLocks(L, q)
  PROVE  LocksKept
  BY DEF TypeOK, ReleaseLocks, LocksKept

LEMMA AcquireFree ==
  ASSUME TypeOK, NEW c \in Context, NEW l, NEW point, NEW q,
         AcquireLock(c, l, point, q)
  PROVE  LocksKept
  BY DEF TypeOK, AcquireLock, TakeLock, QueueForLock, RefuseLock, LocksKept

LEMMA DestroyReleasesOwn ==
  ASSUME TypeOK, NEW c \in Context, running, cur = c, Destroy(c)
  PROVE  LocksKept
<1> DEFINE L == {l \in Marks(c) : holder[l] = c}
<1>1. L \in SUBSET Lock /\ \A l \in L : holder[l] = c
  BY DEF Marks, LocksOf
<1>2. ReleaseLocks(L, BreakLooseLK(c))
  BY DEF Destroy
<1> HIDE DEF L
<1> QED BY <1>1, <1>2, ReleaseOwn

LEMMA StopReleasesOwn ==
  ASSUME TypeOK, NEW c \in Context, running, cur = c, StopContext(c)
  PROVE  LocksKept
<1>1. CASE UNCHANGED monitorVars
  BY <1>1 DEF monitorVars, LocksKept
<1>2. CASE Destroy(c)
  BY <1>2, DestroyReleasesOwn
<1>3. CASE UnwindToStopped(c) /\ ~UNCHANGED monitorVars
  <2> DEFINE L == LocksOf(Unwound(frames[c]))
  <2>1. L \in SUBSET Lock /\ \A l \in L : holder[l] = c
    BY <1>3 DEF UnwindToStopped, LocksOf
  <2>2. ReleaseLocks(L, BreakLooseLK(c))
    BY <1>3 DEF UnwindToStopped
  <2> HIDE DEF L
  <2> QED BY <2>1, <2>2, ReleaseOwn
<1> QED BY <1>1, <1>2, <1>3 DEF StopContext

LEMMA OperatorKeepsLocks ==
  ASSUME TypeOK, NEW c \in Context, Operator(c)
  PROVE  LocksKept
<1>1. CASE BaseOp(c) \/ PSNotify(c)
  BY <1>1 DEF BaseOp, PSNotify, monitorVars, LocksKept
<1>2. CASE Monitor(c) \/ PSAcquireLock(c)
  BY <1>2, AcquireFree DEF Monitor, PSAcquireLock
<1>3. CASE MonitorExit(c) \/ PSReleaseLock(c) \/ PSWait(c)
  <2>1. PICK L \in SUBSET Lock :
          ReleaseLocks(L, waiters) /\ \A l \in L : holder[l] = c
    <3>1. CASE MonitorExit(c)
      <4> DEFINE L == {Top(c)} \cap {l \in Lock : holder[l] = c}
      <4>1. L \in SUBSET Lock /\ \A l \in L : holder[l] = c
        OBVIOUS
      <4>2. ReleaseLocks(L, waiters)
        BY <3>1 DEF MonitorExit
      <4> HIDE DEF L
      <4> QED BY <4>1, <4>2
    <3>2. CASE PSReleaseLock(c) \/ PSWait(c)
      <4>1. PICK l \in Lock : holder[l] = c /\ ReleaseLocks({l}, waiters)
        BY <3>2 DEF PSReleaseLock, PSWait
      <4>2. {l} \in SUBSET Lock /\ \A k \in {l} : holder[k] = c
        BY <4>1
      <4> QED BY <4>1, <4>2
    <3> QED BY <1>3, <3>1, <3>2
  <2>2. running /\ cur = c
    BY <1>3 DEF MonitorExit, PSReleaseLock, PSWait, Ready, At
  <2> QED BY <2>1, <2>2, ReleaseOwn
<1>4. CASE Stop(c) \/ Quit(c)
  BY <1>4, StopReleasesOwn, DestroyReleasesOwn DEF Stop, Quit, Ready, At
<1> QED BY <1>1, <1>2, <1>3, <1>4 DEF Operator

LEMMA ContinueKeepsLocks ==
  ASSUME TypeOK, NEW c \in Context, Continue(c)
  PROVE  LocksKept
<1>1. CASE Begin(c)
  BY <1>1 DEF Begin, monitorVars, LocksKept
<1>2. CASE Raised(c)
  BY <1>2, StopReleasesOwn, DestroyReleasesOwn DEF Raised, Suspended
<1>3. CASE Resume(c)
  <2>1. CASE UNCHANGED monitorVars
    BY <2>1 DEF monitorVars, LocksKept
  <2> QED BY <1>3, <2>1, AcquireFree DEF Resume
<1> QED BY <1>1, <1>2, <1>3 DEF Continue

LEMMA NextKeepsLocks == TypeOK /\ [Next]_vars => LocksKept
<1> SUFFICES ASSUME TypeOK, [Next]_vars PROVE LocksKept
  OBVIOUS
<1>1. CASE UNCHANGED monitorVars
  BY <1>1 DEF monitorVars, LocksKept
<1> QED
  BY <1>1, OperatorKeepsLocks, ContinueKeepsLocks DEF Next, Dispatch, Signal, vars

(* A lock leaves its owner only to become free, and only in a step of the     *)
(* owner's own: no stop, exit, destruction or wake-up of another context      *)
(* takes a lock away (ReleaseLock's first test and the `terminating'          *)
(* exception to it, over all callers).                                       *)
THEOREM OnlyOwnerReleasesAlways == Spec => OnlyOwnerReleases
<1>1. TypeOK /\ [Next]_vars => [LocksKept]_vars
  BY NextKeepsLocks
<1> QED BY <1>1, TypeOKAlways, PTL DEF Spec, OnlyOwnerReleases, LocksKept

-----------------------------------------------------------------------------
(***************************************************************************)
(* The links.  A context is on a queue only while it is suspended on that    *)
(* lock, and on a condition only while it is parked there: what the handlers *)
(* that call BreakLooseLK and BreakLooseCV are for.                          *)
(***************************************************************************)
Queued(c, l) == c \in live /\ at[c] \in Locking /\ pl[c] = l /\ lk[c] = l
Parked(c, v) == c \in live /\ at[c] = "wait" /\ waitee[c] = v

LinkInv ==
  /\ cur \in live \cup {NIL}
  /\ runnable \subseteq live
  /\ \A l \in Lock : /\ NoRepeat(waiters[l])
                     /\ \A c \in Members(waiters[l]) : Queued(c, l)
  /\ \A v \in Cond : \A c \in condWaiters[v] : Parked(c, v)

\* q holds the queues, and c is on none of them.
Loose(c, q) ==
  \A l \in Lock : NoRepeat(q[l]) /\ Members(q[l]) \subseteq Members(waiters[l]) \ {c}

LEMMA LooseAlready ==
  ASSUME LinkInv, NEW c, at[c] \notin Locking
  PROVE  Loose(c, waiters)
  BY DEF LinkInv, Loose, Queued

LEMMA LooseBroken ==
  ASSUME TypeOK, LinkInv, NEW c \in Context
  PROVE  Loose(c, BreakLooseLK(c))
<1> SUFFICES ASSUME NEW l \in Lock
             PROVE  LET q == BreakLooseLK(c) IN
                    /\ NoRepeat(q[l])
                    /\ Members(q[l]) \subseteq Members(waiters[l]) \ {c}
  BY DEF Loose
<1>1. waiters \in [Lock -> Seq(Context)] /\ NoRepeat(waiters[l])
  BY DEF TypeOK, LinkInv
<1>2. CASE c \in Members(waiters[l])
  <2>1. at[c] \in Locking /\ lk[c] = l
    BY <1>2 DEF LinkInv, Queued
  <2>2. BreakLooseLK(c)[l] = Without(waiters[l], c)
    BY <1>1, <2>1, MonitorAssumption DEF BreakLooseLK
  <2> QED BY <1>1, <2>2, WithoutMembers
<1>3. CASE c \notin Members(waiters[l])
  <2>1. \/ BreakLooseLK(c)[l] = waiters[l]
        \/ BreakLooseLK(c)[l] = Without(waiters[l], c)
    BY <1>1 DEF BreakLooseLK
  <2>2. /\ NoRepeat(Without(waiters[l], c))
        /\ Members(Without(waiters[l], c)) \subseteq Members(waiters[l]) \ {c}
    BY <1>1, WithoutMembers
  <2> QED BY <1>1, <1>3, <2>1, <2>2
<1> QED BY <1>2, <1>3

LEMMA ParkedBroken ==
  ASSUME TypeOK, LinkInv, NEW c \in Context, NEW v \in Cond
  PROVE  BreakLooseCV(c)[v] \subseteq condWaiters[v] \ {c}
<1>1. c \in condWaiters[v] => at[c] = "wait" /\ waitee[c] = v /\ v # NIL
  BY MonitorAssumption DEF LinkInv, Parked
<1> QED BY <1>1 DEF TypeOK, BreakLooseCV

\* The step of c left every list a part of what it was, c itself aside.
QueuesMoved(c) ==
  \A l \in Lock :
    /\ NoRepeat(waiters'[l])
    /\ \A d \in Members(waiters'[l]) :
         IF d = c THEN Queued(c, l)' ELSE d \in Members(waiters[l]) /\ lk'[d] = lk[d]

ParkedMoved(c) ==
  \A v \in Cond : \A d \in condWaiters'[v] :
    IF d = c THEN Parked(c, v)' ELSE d \in condWaiters[v] /\ waitee'[d] = waitee[d]

ControlMoved(c) ==
  /\ live' \in {live, live \ {c}}
  /\ cur' \in live' \cup {NIL}
  /\ runnable' \subseteq live'
  /\ \A d \in Context \ {c} : at'[d] = at[d] /\ pl'[d] = pl[d]

LEMMA LinksKept ==
  ASSUME TypeOK, LinkInv, NEW c \in Context,
         ControlMoved(c), QueuesMoved(c), ParkedMoved(c)
  PROVE  LinkInv'
<1>1. live \subseteq Context
  BY DEF TypeOK
<1>2. ASSUME NEW l \in Lock, NEW d \in Members(waiters'[l]) PROVE Queued(d, l)'
  <2>1. CASE d = c
    BY <2>1, <1>2 DEF QueuesMoved
  <2>2. CASE d # c
    <3>1. d \in Members(waiters[l]) /\ lk'[d] = lk[d]
      BY <2>2, <1>2 DEF QueuesMoved
    <3>2. Queued(d, l)
      BY <3>1 DEF LinkInv
    <3> QED BY <1>1, <2>2, <3>1, <3>2 DEF Queued, ControlMoved
  <2> QED BY <2>1, <2>2
<1>3. ASSUME NEW v \in Cond, NEW d \in condWaiters'[v] PROVE Parked(d, v)'
  <2>1. CASE d = c
    BY <2>1, <1>3 DEF ParkedMoved
  <2>2. CASE d # c
    <3>1. d \in condWaiters[v] /\ waitee'[d] = waitee[d]
      BY <2>2, <1>3 DEF ParkedMoved
    <3>2. Parked(d, v)
      BY <3>1 DEF LinkInv
    <3> QED BY <1>1, <2>2, <3>1, <3>2 DEF Parked, ControlMoved
  <2> QED BY <2>1, <2>2
<1>4. \A l \in Lock : NoRepeat(waiters'[l])
  BY DEF QueuesMoved
<1> QED BY <1>2, <1>3, <1>4 DEF LinkInv, ControlMoved

LEMMA ReleaseMoves ==
  ASSUME TypeOK, LinkInv, NEW c \in Context, NEW q \in [Lock -> Seq(Context)],
         Loose(c, q), NEW L \in SUBSET Lock, ReleaseLocks(L, q)
  PROVE  QueuesMoved(c) /\ Woken(L, q) \subseteq live
<1>1. ASSUME NEW l \in Lock, q[l] # <<>>
      PROVE  /\ NoRepeat(Tail(q[l])) /\ Members(Tail(q[l])) \subseteq Members(q[l]) \ {Head(q[l])}
             /\ Head(q[l]) \in Members(q[l])
  BY <1>1, TailMembers DEF Loose
<1>2. ASSUME NEW l \in Lock, NEW d \in Members(q[l])
      PROVE  d # c /\ d \in Members(waiters[l]) /\ Queued(d, l)
  BY <1>2 DEF Loose, LinkInv
<1>3. ASSUME NEW l \in Lock
      PROVE  /\ NoRepeat(waiters'[l]) /\ Members(waiters'[l]) \subseteq Members(q[l])
             /\ l \in L /\ q[l] # <<>> => Head(q[l]) \notin Members(waiters'[l])
  <2>1. waiters'[l] = IF l \in L /\ q[l] # <<>> THEN Tail(q[l]) ELSE q[l]
    BY DEF ReleaseLocks
  <2> QED BY <1>1, <2>1 DEF Loose
<1>4. ASSUME NEW l \in Lock, NEW d \in Members(waiters'[l])
      PROVE  d # c /\ d \in Members(waiters[l]) /\ lk'[d] = lk[d]
  <2>1. d \in Members(q[l])
    BY <1>3, <1>4
  <2>2. d # c /\ d \in Members(waiters[l]) /\ Queued(d, l)
    BY <1>2, <2>1
  <2>3. d \notin Woken(L, q)
    <3> SUFFICES ASSUME NEW k \in L, q[k] # <<>>, d = Head(q[k]) PROVE FALSE
      BY DEF Woken
    <3>1. d \in Members(q[k])
      BY <1>1
    <3>2. k = l
      BY <1>2, <2>2, <3>1 DEF Queued
    <3> QED BY <1>3, <1>4, <3>2
  <2>4. d \in Context
    BY <2>2 DEF Queued, TypeOK
  <2> QED BY <2>2, <2>3, <2>4 DEF ReleaseLocks
<1>5. Woken(L, q) \subseteq live
  BY <1>1, <1>2 DEF Woken, Queued
<1> QED BY <1>3, <1>4, <1>5 DEF QueuesMoved

LEMMA AcquireMoves ==
  ASSUME TypeOK, LinkInv, NEW c \in live, cur = c,
         NEW l \in Lock, NEW point \in Locking,
         NEW q \in [Lock -> Seq(Context)], Loose(c, q), AcquireLock(c, l, point, q)
  PROVE  ControlMoved(c) /\ QueuesMoved(c)
<1>1. c \in Context
  BY DEF TypeOK
<1>2. \A k \in Lock : \A d \in Members(q[k]) : d # c /\ d \in Members(waiters[k])
  BY DEF Loose
<1>3. CASE TakeLock(c, l, point, q) \/ RefuseLock(c, l, q)
  <2>1. waiters' = q /\ lk' = lk /\ Proceed(c, {}) /\ pl' = [pl EXCEPT ![c] = NIL]
    BY <1>3 DEF TakeLock, RefuseLock
  <2>2. ControlMoved(c)
    BY <2>1 DEF Proceed, ControlMoved, LinkInv, TypeOK
  <2>3. QueuesMoved(c)
    BY <1>2, <2>1 DEF QueuesMoved, Loose
  <2> QED BY <2>2, <2>3
<1>4. CASE QueueForLock(c, l, point, q)
  <2>1. /\ waiters' = [q EXCEPT ![l] = Append(@, c)]
        /\ lk' = [lk EXCEPT ![c] = l]
        /\ pl' = [pl EXCEPT ![c] = l]
        /\ Yield(c, point, {}, FALSE)
    BY <1>4 DEF QueueForLock
  <2>2. ControlMoved(c)
    BY <2>1 DEF Yield, ControlMoved, LinkInv, TypeOK
  <2>3. Queued(c, l)'
    BY <1>1, <2>1 DEF Queued, Yield, TypeOK
  <2>4. NoRepeat(Append(q[l], c)) /\ Members(Append(q[l], c)) = Members(q[l]) \cup {c}
    BY <1>1, <1>2, AppendMembers DEF Loose
  <2>5. ASSUME NEW k \in Lock
        PROVE  /\ NoRepeat(waiters'[k])
               /\ \A d \in Members(waiters'[k]) :
                    d \in Members(q[k]) \/ (d = c /\ k = l)
    BY <2>1, <2>4 DEF Loose
  <2>6. \A k \in Lock : \A d \in Members(q[k]) : lk'[d] = lk[d]
    BY <1>2, <2>1 DEF LinkInv, Queued, TypeOK
  <2> QED BY <1>2, <2>2, <2>3, <2>5, <2>6 DEF QueuesMoved
<1> QED BY <1>3, <1>4 DEF AcquireLock

\* A step that leaves the conditions alone, or takes c out of them.
LEMMA StaysParked ==
  ASSUME TypeOK, LinkInv, NEW c \in Context, waitee' = waitee,
         \/ condWaiters' = BreakLooseCV(c)
         \/ condWaiters' = condWaiters /\ at[c] # "wait"
  PROVE  ParkedMoved(c)
<1>1. \A v \in Cond : condWaiters'[v] \subseteq condWaiters[v] \ {c}
  BY ParkedBroken DEF LinkInv, Parked
<1> QED BY <1>1 DEF ParkedMoved

\* A step that leaves the queues alone, of a context that is on none.
LEMMA StaysQueued ==
  ASSUME LinkInv, NEW c \in Context, lk' = lk, waiters' = waiters, at[c] \notin Locking
  PROVE  QueuesMoved(c)
<1>1. \A l \in Lock : c \notin Members(waiters[l])
  BY DEF LinkInv, Queued
<1> QED BY <1>1 DEF QueuesMoved, LinkInv

\* The context that runs exists.
LEMMA RunningLives ==
  ASSUME TypeOK, LinkInv, NEW c \in Context, cur = c
  PROVE  c \in live
  BY ContextAssumption DEF LinkInv

LEMMA ProceedMoves ==
  ASSUME TypeOK, LinkInv, NEW c \in live, cur = c, NEW woken, woken \subseteq live,
         Proceed(c, woken), \A d \in Context \ {c} : pl'[d] = pl[d]
  PROVE  ControlMoved(c)
  BY DEF Proceed, ControlMoved, LinkInv, TypeOK

LEMMA YieldMoves ==
  ASSUME TypeOK, LinkInv, NEW c \in live, cur = c, NEW woken, woken \subseteq live,
         NEW point, NEW again \in BOOLEAN,
         Yield(c, point, woken, again), \A d \in Context \ {c} : pl'[d] = pl[d]
  PROVE  ControlMoved(c)
  BY DEF Yield, ControlMoved, LinkInv, TypeOK

LEMMA LinksBase ==
  ASSUME TypeOK, LinkInv, NEW c \in Context, BaseOp(c)
  PROVE  LinkInv'
<1>1. cur = c /\ at[c] = "ready" /\ UNCHANGED monitorVars
  BY DEF BaseOp, Save, Restore, EnterStopped, EnterFont, EnterStroke, LeaveFrame,
         YieldSlice, Ready, At
<1>2. ControlMoved(c)
  <2>1. CASE YieldSlice(c)
    BY <1>1, <2>1, RunningLives, YieldMoves DEF YieldSlice, monitorVars
  <2>2. CASE UNCHANGED <<live, cur, runnable, at>>
    BY <1>1, <2>2 DEF ControlMoved, LinkInv, monitorVars
  <2> QED
    BY <2>1, <2>2
       DEF BaseOp, Save, Restore, EnterStopped, EnterFont, EnterStroke, LeaveFrame
<1>3. QueuesMoved(c) /\ ParkedMoved(c)
  BY <1>1, StaysQueued, StaysParked DEF monitorVars, Locking
<1> QED BY <1>2, <1>3, LinksKept

LEMMA LinksAcquire ==
  ASSUME TypeOK, LinkInv, NEW c \in Context, Monitor(c) \/ PSAcquireLock(c)
  PROVE  LinkInv'
<1>1. cur = c /\ at[c] = "ready" /\ UNCHANGED <<condWaiters, waitee>>
  BY DEF Monitor, PSAcquireLock, Ready, At
<1>2. PICK l \in Lock, point \in Locking : AcquireLock(c, l, point, waiters)
  BY DEF Monitor, PSAcquireLock, Locking
<1>3. Loose(c, waiters) /\ c \in live /\ waiters \in [Lock -> Seq(Context)]
  BY <1>1, LooseAlready, RunningLives DEF Locking, TypeOK
<1>4. ControlMoved(c) /\ QueuesMoved(c)
  BY <1>1, <1>2, <1>3, AcquireMoves
<1>5. ParkedMoved(c)
  BY <1>1, StaysParked
<1> QED BY <1>4, <1>5, LinksKept

LEMMA LinksRelease ==
  ASSUME TypeOK, LinkInv, NEW c \in Context,
         MonitorExit(c) \/ PSReleaseLock(c) \/ PSWait(c)
  PROVE  LinkInv'
<1>1. cur = c /\ at[c] = "ready"
  BY DEF MonitorExit, PSReleaseLock, PSWait, Ready, At
<1>2. Loose(c, waiters) /\ c \in live /\ waiters \in [Lock -> Seq(Context)]
  BY <1>1, LooseAlready, RunningLives DEF Locking, TypeOK
<1>3. CASE MonitorExit(c) \/ PSReleaseLock(c)
  <2>1. PICK L \in SUBSET Lock : ReleaseLocks(L, waiters) /\ Proceed(c, Woken(L, waiters))
    BY <1>3 DEF MonitorExit, PSReleaseLock
  <2>2. QueuesMoved(c) /\ Woken(L, waiters) \subseteq live
    BY <1>2, <2>1, ReleaseMoves
  <2>3. UNCHANGED <<condWaiters, waitee, pl>>
    BY <1>3 DEF MonitorExit, PSReleaseLock
  <2>4. ControlMoved(c) /\ ParkedMoved(c)
    BY <1>1, <1>2, <2>1, <2>2, <2>3, ProceedMoves, StaysParked
  <2> QED BY <2>2, <2>4, LinksKept
<1>4. CASE PSWait(c)
  <2>1. PICK l \in Lock, v \in Cond :
          /\ ReleaseLocks({l}, waiters)
          /\ condWaiters' = [condWaiters EXCEPT ![v] = @ \cup {c}]
          /\ waitee' = [waitee EXCEPT ![c] = v]
          /\ pl' = [pl EXCEPT ![c] = l]
          /\ Yield(c, "wait", Woken({l}, waiters), FALSE)
    BY <1>4 DEF PSWait
  <2>2. QueuesMoved(c) /\ Woken({l}, waiters) \subseteq live
    BY <1>2, <2>1, ReleaseMoves
  <2>3. ControlMoved(c)
    <3>1. \A d \in Context \ {c} : pl'[d] = pl[d]
      BY <2>1 DEF TypeOK
    <3> QED BY <1>1, <1>2, <2>1, <2>2, <3>1, YieldMoves
  <2>4. ParkedMoved(c)
    <3>1. Parked(c, v)'
      BY <1>2, <2>1 DEF Parked, Yield, TypeOK
    <3>2. \A k \in Cond : c \notin condWaiters[k]
      BY <1>1 DEF LinkInv, Parked
    <3>3. \A k \in Cond : \A d \in condWaiters'[k] :
            d \in condWaiters[k] \/ (d = c /\ k = v)
      BY <2>1 DEF TypeOK
    <3>4. \A k \in Cond : \A d \in condWaiters[k] : waitee'[d] = waitee[d]
      BY <2>1, <3>2 DEF TypeOK
    <3> QED BY <3>1, <3>2, <3>3, <3>4 DEF ParkedMoved
  <2> QED BY <2>2, <2>3, <2>4, LinksKept
<1> QED BY <1>3, <1>4

LEMMA LinksNotify ==
  ASSUME TypeOK, LinkInv, NEW c \in Context, PSNotify(c)
  PROVE  LinkInv'
<1>1. cur = c /\ at[c] = "ready" /\ UNCHANGED <<waiters, lk, pl>>
  BY DEF PSNotify, Ready, At
<1>2. c \in live
  BY <1>1, RunningLives
<1>3. PICK v \in Cond :
        /\ condWaiters' = [condWaiters EXCEPT ![v] = {}]
        /\ waitee' = [d \in Context |-> IF d \in condWaiters[v] THEN NIL ELSE waitee[d]]
        /\ Proceed(c, condWaiters[v])
  BY DEF PSNotify
<1>4. condWaiters[v] \subseteq live
  BY DEF LinkInv, Parked
<1>5. ControlMoved(c) /\ QueuesMoved(c)
  BY <1>1, <1>2, <1>3, <1>4, ProceedMoves, StaysQueued DEF Locking
<1>6. ParkedMoved(c)
  <2> SUFFICES ASSUME NEW k \in Cond, NEW d \in condWaiters'[k]
               PROVE  d # c /\ d \in condWaiters[k] /\ waitee'[d] = waitee[d]
    BY DEF ParkedMoved
  <2>1. d \in condWaiters[k] /\ k # v
    BY <1>3 DEF TypeOK
  <2>2. Parked(d, k)
    BY <2>1 DEF LinkInv
  <2>3. d \notin condWaiters[v]
    BY <2>1, <2>2 DEF LinkInv, Parked
  <2> QED BY <1>1, <1>3, <2>1, <2>2, <2>3 DEF Parked, TypeOK
<1> QED BY <1>5, <1>6, LinksKept

LEMMA LinksDestroy ==
  ASSUME TypeOK, LinkInv, NEW c \in Context, cur = c, Destroy(c)
  PROVE  LinkInv'
<1> DEFINE q == BreakLooseLK(c)
           L == {l \in Marks(c) : holder[l] = c}
<1>1. q \in [Lock -> Seq(Context)] /\ Loose(c, q) /\ L \in SUBSET Lock
  BY BreakLooseType, LooseBroken DEF Marks, LocksOf
<1>2. /\ ReleaseLocks(L, q) /\ condWaiters' = BreakLooseCV(c) /\ waitee' = waitee
      /\ pl' = [pl EXCEPT ![c] = NIL] /\ DestroyBase(c, Woken(L, q))
  BY DEF Destroy
<1> HIDE DEF q, L
<1>3. QueuesMoved(c) /\ Woken(L, q) \subseteq live
  BY <1>1, <1>2, ReleaseMoves
<1>4. ControlMoved(c)
  BY <1>2, <1>3 DEF DestroyBase, ControlMoved, LinkInv, TypeOK
<1>5. ParkedMoved(c)
  BY <1>2, StaysParked
<1> QED BY <1>3, <1>4, <1>5, LinksKept

LEMMA LinksStop ==
  ASSUME TypeOK, LinkInv, NEW c \in Context, cur = c, StopContext(c)
  PROVE  LinkInv'
<1>1. CASE Destroy(c)
  BY <1>1, LinksDestroy
<1>2. CASE Escape /\ UNCHANGED monitorVars
  BY <1>2 DEF Escape, monitorVars, LinkInv, Queued, Parked
<1>3. CASE UnwindToStopped(c) /\ ~ (Escape /\ UNCHANGED monitorVars)
  <2> DEFINE q == BreakLooseLK(c)
             L == LocksOf(Unwound(frames[c]))
  <2>1. q \in [Lock -> Seq(Context)] /\ Loose(c, q) /\ L \in SUBSET Lock
    BY BreakLooseType, LooseBroken DEF LocksOf
  <2>2. /\ ReleaseLocks(L, q) /\ condWaiters' = BreakLooseCV(c) /\ waitee' = waitee
        /\ pl' = [pl EXCEPT ![c] = NIL] /\ Proceed(c, Woken(L, q))
    BY <1>3 DEF UnwindToStopped
  <2> HIDE DEF q, L
  <2>3. QueuesMoved(c) /\ Woken(L, q) \subseteq live
    BY <2>1, <2>2, ReleaseMoves
  <2>4. ControlMoved(c) /\ ParkedMoved(c)
    <3>1. \A d \in Context \ {c} : pl'[d] = pl[d]
      BY <2>2 DEF TypeOK
    <3>2. c \in live
      BY RunningLives
    <3> QED BY <2>2, <2>3, <3>1, <3>2, ProceedMoves, StaysParked
  <2> QED BY <2>3, <2>4, LinksKept
<1> QED BY <1>1, <1>2, <1>3 DEF StopContext

\* Where a suspended context goes on: it is in no list any more.
LEMMA ResumeAcquires ==
  ASSUME TypeInv, LinkInv, NEW c \in Context, Resume(c), at[c] # "slice"
  PROVE  /\ at[c] \in Locking \cup {"wait"} /\ pl[c] \in Lock
         /\ \E point \in Locking, q \in [Lock -> Seq(Context)] :
              /\ Loose(c, q) /\ AcquireLock(c, pl[c], point, q)
              /\ point = IF at[c] = "wait" THEN "reacquire" ELSE at[c]
         /\ waitee' = waitee
         /\ \/ condWaiters' = BreakLooseCV(c)
            \/ condWaiters' = condWaiters /\ at[c] # "wait"
<1> USE DEF TypeInv
<1>1. CASE at[c] \in Locking
  <2>1. AcquireLock(c, pl[c], at[c], BreakLooseLK(c)) /\ UNCHANGED <<condWaiters, waitee>>
    BY <1>1 DEF Resume, Locking
  <2>2. BreakLooseLK(c) \in [Lock -> Seq(Context)] /\ Loose(c, BreakLooseLK(c))
    BY BreakLooseType, LooseBroken
  <2> QED BY <1>1, <2>1, <2>2 DEF Locking, LockNamed
<1>2. CASE at[c] = "wait"
  <2>1. /\ AcquireLock(c, pl[c], "reacquire", waiters)
        /\ condWaiters' = BreakLooseCV(c) /\ waitee' = waitee
    BY <1>2 DEF Resume, Locking
  <2>2. waiters \in [Lock -> Seq(Context)] /\ Loose(c, waiters)
    BY <1>2, LooseAlready DEF TypeOK, Locking
  <2> QED BY <1>2, <2>1, <2>2 DEF Locking, LockNamed
<1> QED BY <1>1, <1>2 DEF Resume

LEMMA LinksContinue ==
  ASSUME TypeInv, LinkInv, NEW c \in Context, Continue(c)
  PROVE  LinkInv'
<1> USE DEF TypeInv
<1>1. cur = c /\ c \in live
  BY RunningLives DEF Continue, Begin, Raised, Resume, Suspended, At
<1>2. CASE Raised(c)
  BY <1>1, <1>2, LinksDestroy, LinksStop DEF Raised
<1>3. CASE Begin(c) \/ (Resume(c) /\ at[c] = "slice")
  <2>1. at[c] \notin Locking \cup {"wait"}
    BY <1>3 DEF Begin, At, Locking
  <2>2. Proceed(c, {}) /\ UNCHANGED monitorVars
    BY <1>3, <2>1 DEF Begin, Resume
  <2>3. ControlMoved(c)
    BY <1>1, <2>2, ProceedMoves DEF monitorVars
  <2>4. QueuesMoved(c) /\ ParkedMoved(c)
    BY <2>1, <2>2, StaysQueued, StaysParked DEF monitorVars
  <2> QED BY <2>3, <2>4, LinksKept
<1>4. CASE Resume(c) /\ at[c] # "slice"
  <2>1. ControlMoved(c) /\ QueuesMoved(c)
    BY <1>1, <1>4, ResumeAcquires, AcquireMoves
  <2>2. ParkedMoved(c)
    BY <1>4, ResumeAcquires, StaysParked
  <2> QED BY <2>1, <2>2, LinksKept
<1> QED BY <1>2, <1>3, <1>4 DEF Continue

LEMMA LinksInit == Init => LinkInv
<1>1. Len(<<>>) = 0 /\ Members(<<>>) = {} /\ NoRepeat(<<>>)
  BY DEF Members, NoRepeat
<1> QED BY <1>1 DEF Init, BaseInit, LinkInv

LEMMA LinksNext == TypeInv /\ LinkInv /\ [Next]_vars => LinkInv'
<1> SUFFICES ASSUME TypeInv, LinkInv, [Next]_vars PROVE LinkInv'
  OBVIOUS
<1> USE DEF TypeInv
<1>1. CASE UNCHANGED vars
  BY <1>1 DEF vars, baseVars, monitorVars, LinkInv, Queued, Parked
<1>2. ASSUME NEW c \in Context, Dispatch(c) PROVE LinkInv'
  BY <1>2 DEF Dispatch, Schedule, monitorVars, LinkInv, Queued, Parked
<1>3. ASSUME NEW c \in Context, Signal(c) PROVE LinkInv'
  BY <1>3 DEF Signal, Notify, monitorVars, LinkInv, Queued, Parked
<1>4. ASSUME NEW c \in Context, Operator(c) PROVE LinkInv'
  <2>1. CASE Stop(c) \/ Quit(c)
    BY <2>1, LinksStop, LinksDestroy DEF Stop, Quit, Ready, At
  <2> QED
    BY <1>4, <2>1, LinksBase, LinksAcquire, LinksRelease, LinksNotify DEF Operator
<1> QED BY <1>1, <1>2, <1>3, <1>4, LinksContinue DEF Next

-----------------------------------------------------------------------------
(***************************************************************************)
(* The semaphores.  Whoever runs is the only context that may hold frames    *)
(* and save levels in its space, so its own balance is all a step can move.  *)
(***************************************************************************)
Strokes(c) == Count(frames[c], "stroke")
Levels(c) == Count(frames[c], "font") + Strokes(c)

SpaceInv(s) ==
  LET o == exclusive[s] IN
  /\ o = NIL => sem[s] = 0 /\ level[s] = 0
  /\ o # NIL => /\ o \in live /\ SpaceOf[o] = s
                /\ sem[s] # 0 /\ sem[s] = level[s] + Levels(o)
  /\ \A c \in live : SpaceOf[c] = s /\ c # o => Levels(c) = 0

TotalInv ==
  /\ totalExcl = NIL => totalSem = 0
  /\ totalExcl # NIL => /\ totalExcl \in live
                        /\ totalSem # 0 /\ totalSem = Strokes(totalExcl)
  /\ \A c \in live : c # totalExcl => Strokes(c) = 0

SemInv == (\A s \in Space : SpaceInv(s)) /\ TotalInv

\* What the semaphores say while c runs.
Balance(c) ==
  LET s == SpaceOf[c] IN
  /\ sem[s] = level[s] + Levels(c)
  /\ exclusive[s] = IF sem[s] = 0 THEN NIL ELSE c
  /\ totalSem = Strokes(c)
  /\ totalExcl = IF totalSem = 0 THEN NIL ELSE c

LEMMA LevelsType ==
  ASSUME TypeOK, NEW c \in Context
  PROVE  Levels(c) \in Nat /\ Strokes(c) \in Nat
<1>1. frames[c] \in Seq(Frame)
  BY DEF TypeOK
<1>2. Count(frames[c], "font") \in Nat /\ Count(frames[c], "stroke") \in Nat
  BY <1>1, CountType
<1> QED BY <1>2 DEF Levels, Strokes

LEMMA Balanced ==
  ASSUME TypeOK, ExclusionInv, SemInv, NEW c \in live, cur = c
  PROVE  Balance(c)
<1>1. c \in Context /\ c # NIL /\ SpaceOf[c] \in Space
  BY ContextAssumption DEF TypeOK
<1>2. exclusive[SpaceOf[c]] \in {NIL, c} /\ totalExcl \in {NIL, c}
  BY <1>1 DEF ExclusionInv
<1>3. SpaceInv(SpaceOf[c]) /\ TotalInv
  BY <1>1 DEF SemInv
<1>4. Levels(c) \in Nat /\ Strokes(c) \in Nat
  BY <1>1, LevelsType
<1> QED BY <1>1, <1>2, <1>3, <1>4 DEF SpaceInv, TotalInv, Balance

\* What a step of c may do to the others.
OthersKeep(c) ==
  /\ \A d \in Context \ {c} : frames'[d] = frames[d]
  /\ \A s \in Space \ {SpaceOf[c]} :
       sem'[s] = sem[s] /\ level'[s] = level[s] /\ exclusive'[s] = exclusive[s]
  /\ live' \ {c} = live \ {c}

LEMMA SemOthers ==
  ASSUME TypeOK, ExclusionInv, SemInv, NEW c \in live, cur = c, OthersKeep(c)
  PROVE  /\ \A s \in Space \ {SpaceOf[c]} : SpaceInv(s)'
         /\ \A d \in live' \ {c} : /\ SpaceOf[d] = SpaceOf[c] => Levels(d)' = 0
                                   /\ Strokes(d)' = 0
<1>1. c \in Context /\ c # NIL /\ SpaceOf[c] \in Space /\ live \subseteq Context
  BY ContextAssumption DEF TypeOK
<1>2. \A d \in live \ {c} : Levels(d)' = Levels(d) /\ Strokes(d)' = Strokes(d)
  BY <1>1 DEF OthersKeep, Levels, Strokes
<1>3. exclusive[SpaceOf[c]] \in {NIL, c} /\ totalExcl \in {NIL, c}
  BY <1>1 DEF ExclusionInv
<1>4. NIL \notin live
  BY <1>1, ContextAssumption
<1>5. \A d \in live \ {c} : /\ SpaceOf[d] = SpaceOf[c] => Levels(d) = 0
                            /\ Strokes(d) = 0
  BY <1>1, <1>3, <1>4 DEF SemInv, SpaceInv, TotalInv
<1>6. ASSUME NEW s \in Space \ {SpaceOf[c]} PROVE SpaceInv(s)'
  <2>1. SpaceInv(s)
    BY DEF SemInv
  <2>2. exclusive[s] # NIL => exclusive[s] \in live \ {c}
    BY <2>1 DEF SpaceInv
  <2> QED BY <1>2, <2>1, <2>2 DEF SpaceInv, OthersKeep
<1> QED BY <1>2, <1>5, <1>6 DEF OthersKeep

LEMMA SemStays ==
  ASSUME TypeOK, TypeOK', ExclusionInv, SemInv, NEW c \in live, cur = c,
         OthersKeep(c), c \in live', Balance(c)'
  PROVE  SemInv'
<1>1. c \in Context /\ c # NIL /\ SpaceOf[c] \in Space
  BY ContextAssumption DEF TypeOK
<1>2. /\ \A s \in Space \ {SpaceOf[c]} : SpaceInv(s)'
      /\ \A d \in live' \ {c} : /\ SpaceOf[d] = SpaceOf[c] => Levels(d)' = 0
                                /\ Strokes(d)' = 0
  BY SemOthers
<1>3. Levels(c)' \in Nat /\ Strokes(c)' \in Nat /\ level'[SpaceOf[c]] \in Nat
  <2>1. frames'[c] \in Seq(Frame)
    BY <1>1 DEF TypeOK
  <2>2. Count(frames'[c], "font") \in Nat /\ Count(frames'[c], "stroke") \in Nat
    BY <2>1, CountType
  <2>3. level'[SpaceOf[c]] \in 0 .. MaxLevel
    BY <1>1 DEF TypeOK
  <2> QED BY <2>2, <2>3, ContextAssumption DEF Levels, Strokes
<1>4. SpaceInv(SpaceOf[c])'
  BY <1>1, <1>2, <1>3 DEF Balance, SpaceInv
<1>5. TotalInv'
  BY <1>1, <1>2, <1>3 DEF Balance, TotalInv
<1> QED BY <1>2, <1>4, <1>5 DEF SemInv

LEMMA SemGone ==
  ASSUME TypeOK, ExclusionInv, SemInv, NEW c \in live, cur = c,
         OthersKeep(c), c \notin live',
         sem'[SpaceOf[c]] = 0, level'[SpaceOf[c]] = 0, exclusive'[SpaceOf[c]] = NIL,
         totalSem' = 0, totalExcl' = NIL
  PROVE  SemInv'
<1>1. /\ \A s \in Space \ {SpaceOf[c]} : SpaceInv(s)'
      /\ \A d \in live' \ {c} : /\ SpaceOf[d] = SpaceOf[c] => Levels(d)' = 0
                                /\ Strokes(d)' = 0
  BY SemOthers
<1>2. SpaceInv(SpaceOf[c])' /\ TotalInv'
  BY <1>1 DEF SpaceInv, TotalInv
<1> QED BY <1>1, <1>2 DEF SemInv

\* A step that moves neither the semaphores nor what they count.
LEMMA SemSame ==
  ASSUME TypeOK, TypeOK', ExclusionInv, SemInv, NEW c \in live, cur = c,
         UNCHANGED <<live, exclVars>>, \A d \in Context \ {c} : frames'[d] = frames[d],
         Levels(c)' = Levels(c), Strokes(c)' = Strokes(c)
  PROVE  SemInv'
<1>1. Balance(c)
  BY Balanced
<1>2. Balance(c)' /\ OthersKeep(c)
  BY <1>1 DEF Balance, OthersKeep, exclVars
<1> QED BY <1>2, SemStays

LEMMA PushLevels ==
  ASSUME TypeOK, NEW c \in Context, NEW f \in Frame, Push(c, f)
  PROVE  /\ \A d \in Context \ {c} : frames'[d] = frames[d]
         /\ Strokes(c)' = Strokes(c) + (IF f = "stroke" THEN 1 ELSE 0)
         /\ Levels(c)' = Levels(c) + (IF f \in {"font", "stroke"} THEN 1 ELSE 0)
<1>1. frames[c] \in Seq(Frame) /\ frames'[c] = Append(frames[c], f)
  BY DEF Push, TypeOK
<1>2. /\ Count(frames'[c], "font") = Count(frames[c], "font") + (IF f = "font" THEN 1 ELSE 0)
      /\ Count(frames'[c], "stroke")
           = Count(frames[c], "stroke") + (IF f = "stroke" THEN 1 ELSE 0)
  BY <1>1, CountAppend
<1>3. Count(frames[c], "font") \in Nat /\ Count(frames[c], "stroke") \in Nat
  BY <1>1, CountType
<1> QED BY <1>2, <1>3 DEF Strokes, Levels, Push, TypeOK

LEMMA PopLevels ==
  ASSUME TypeOK, NEW c \in Context, frames[c] # <<>>, Pop(c)
  PROVE  /\ \A d \in Context \ {c} : frames'[d] = frames[d]
         /\ Strokes(c) = Strokes(c)' + (IF Top(c) = "stroke" THEN 1 ELSE 0)
         /\ Levels(c) = Levels(c)' + (IF Top(c) \in {"font", "stroke"} THEN 1 ELSE 0)
         /\ Strokes(c)' \in Nat /\ Levels(c)' \in Nat
<1>1. frames[c] \in Seq(Frame) /\ frames'[c] = SubSeq(frames[c], 1, Len(frames[c]) - 1)
  BY DEF Pop, TypeOK
<1>2. /\ Count(frames[c], "font")
           = Count(frames'[c], "font") + (IF Top(c) = "font" THEN 1 ELSE 0)
      /\ Count(frames[c], "stroke")
           = Count(frames'[c], "stroke") + (IF Top(c) = "stroke" THEN 1 ELSE 0)
  BY <1>1, CountPop DEF Top
<1>3. frames'[c] \in Seq(Frame)
  <2>1. Len(frames[c]) \in Nat \ {0}
    BY <1>1, EmptySeq
  <2> QED BY <1>1, <2>1, SubSeqType
<1>4. Count(frames'[c], "font") \in Nat /\ Count(frames'[c], "stroke") \in Nat
  BY <1>3, CountType
<1> QED BY <1>2, <1>4 DEF Strokes, Levels, Pop, TypeOK

\* What a drop of the frames fs and rs save levels leaves of c's balance.
LEMMA DropBalance ==
  ASSUME TypeOK, NEW c \in Context, Balance(c), NEW fs \in Seq(Frame),
         NEW rs \in Nat, DropExclusion(c, fs, rs)
  PROVE  LET s == SpaceOf[c] IN
         /\ sem'[s] = sem[s] - (Count(fs, "font") + Count(fs, "stroke") + rs)
         /\ exclusive'[s] = IF sem'[s] = 0 THEN NIL ELSE c
         /\ totalSem' = totalSem - Count(fs, "stroke")
         /\ totalExcl' = IF totalSem' = 0 THEN NIL ELSE c
         /\ \A t \in Space \ {s} : sem'[t] = sem[t] /\ exclusive'[t] = exclusive[t]
<1>1. Count(fs, "font") \in Nat /\ Count(fs, "stroke") \in Nat
  BY CountType
<1>2. SpaceOf[c] \in Space /\ sem[SpaceOf[c]] \in Int /\ totalSem \in Int
  BY ContextAssumption DEF TypeOK
<1> DEFINE given == Count(fs, "font") + Count(fs, "stroke") + rs
<1>3. CASE given > 0
  <2>1. SetSem(c, sem[SpaceOf[c]] - given)
    BY <1>3 DEF DropExclusion
  <2>2. /\ totalSem' = totalSem - Count(fs, "stroke")
        /\ totalExcl' = IF totalSem' = 0 THEN NIL ELSE c
    BY <1>1, <1>2 DEF DropExclusion, SetTotal, Balance
  <2> QED BY <1>2, <2>1, <2>2 DEF SetSem, TypeOK
<1>4. CASE ~ (given > 0)
  <2>1. Count(fs, "font") = 0 /\ Count(fs, "stroke") = 0 /\ rs = 0
    BY <1>1, <1>4
  <2>2. UNCHANGED <<sem, exclusive, totalSem, totalExcl>>
    BY <1>4, <2>1 DEF DropExclusion
  <2> QED BY <1>2, <2>1, <2>2 DEF Balance
<1> QED BY <1>3, <1>4

LEMMA SemBase ==
  ASSUME TypeOK, TypeOK', LinkInv, ExclusionInv, SemInv, NEW c \in Context, BaseOp(c)
  PROVE  SemInv'
<1> DEFINE s == SpaceOf[c]
<1>1. cur = c /\ c \in live /\ live' = live
  BY RunningLives
     DEF BaseOp, Save, Restore, EnterStopped, EnterFont, EnterStroke, LeaveFrame,
         YieldSlice, Yield, Ready, At
<1>2. Balance(c)
  BY <1>1, Balanced
<1>3. s \in Space /\ level[s] \in Nat /\ sem[s] \in Int /\ totalSem \in Int
  BY ContextAssumption DEF TypeOK
<1>4. Levels(c) \in Nat /\ Strokes(c) \in Nat
  BY LevelsType
<1>5. SUFFICES Balance(c)' /\ OthersKeep(c)
  BY <1>1, SemStays
<1>6. CASE Save(c)
  <2>1. Balance(c)'
    BY <1>2, <1>3, <1>4, <1>6 DEF Save, SetSem, Balance, Levels, Strokes, TypeOK
  <2> QED BY <1>1, <1>6, <2>1 DEF Save, SetSem, OthersKeep, TypeOK
<1>7. CASE Restore(c)
  <2>1. PICK n \in 0 .. MaxLevel :
          /\ level' = [level EXCEPT ![s] = n]
          /\ SetSem(c, sem[s] - (level[s] - n))
    BY <1>7 DEF Restore
  <2>2. UNCHANGED <<live, frames, totalSem, totalExcl>>
    BY <1>7 DEF Restore
  <2>3. n \in Nat
    BY ContextAssumption
  <2>4. Balance(c)'
    BY <1>2, <1>3, <1>4, <2>1, <2>2, <2>3 DEF SetSem, Balance, Levels, Strokes, TypeOK
  <2> QED BY <1>1, <2>1, <2>2, <2>4 DEF SetSem, OthersKeep, TypeOK
<1>8. CASE EnterStopped(c) \/ EnterFont(c) \/ EnterStroke(c)
  <2>1. PICK f \in Frame :
          /\ Push(c, f)
          /\ IF f \in {"font", "stroke"} THEN SetSem(c, sem[s] + 1)
                                         ELSE UNCHANGED <<sem, exclusive>>
          /\ IF f = "stroke" THEN SetTotal(c, totalSem + 1)
                             ELSE UNCHANGED <<totalSem, totalExcl>>
    BY <1>8 DEF EnterStopped, EnterFont, EnterStroke, exclVars, Frame
  <2>2. level' = level
    BY <1>8 DEF EnterStopped, EnterFont, EnterStroke, exclVars
  <2>3. /\ \A d \in Context \ {c} : frames'[d] = frames[d]
        /\ Strokes(c)' = Strokes(c) + (IF f = "stroke" THEN 1 ELSE 0)
        /\ Levels(c)' = Levels(c) + (IF f \in {"font", "stroke"} THEN 1 ELSE 0)
    BY <2>1, PushLevels
  <2>4. Balance(c)'
    <3>1. /\ sem'[s] = sem[s] + (IF f \in {"font", "stroke"} THEN 1 ELSE 0)
          /\ exclusive'[s] = IF sem'[s] = 0 THEN NIL ELSE c
      BY <1>2, <1>3, <2>1 DEF SetSem, Balance, TypeOK
    <3>2. /\ totalSem' = totalSem + (IF f = "stroke" THEN 1 ELSE 0)
          /\ totalExcl' = IF totalSem' = 0 THEN NIL ELSE c
      BY <1>2, <1>3, <2>1 DEF SetTotal, Balance
    <3>3. sem'[s] = level'[s] + Levels(c)'
      BY <1>2, <1>3, <1>4, <2>2, <2>3, <3>1 DEF Balance
    <3>4. totalSem' = Strokes(c)'
      BY <1>2, <1>3, <1>4, <2>3, <3>2 DEF Balance
    <3> QED BY <3>1, <3>2, <3>3, <3>4 DEF Balance
  <2> QED BY <1>1, <2>1, <2>2, <2>3, <2>4 DEF SetSem, OthersKeep, TypeOK
<1>9. CASE LeaveFrame(c)
  <2>1. /\ frames[c] # <<>> /\ Pop(c) /\ DropExclusion(c, <<Top(c)>>, 0)
        /\ level' = level
    BY <1>9 DEF LeaveFrame
  <2>2. <<Top(c)>> \in Seq(Frame)
    <3>1. frames[c] \in Seq(Frame)
      BY DEF TypeOK
    <3>2. Len(frames[c]) \in Nat \ {0}
      BY <2>1, <3>1, EmptySeq
    <3>3. Top(c) \in Frame
      BY <3>1, <3>2, ElementOfSeq DEF Top
    <3> QED BY <3>3
  <2>3. /\ \A d \in Context \ {c} : frames'[d] = frames[d]
        /\ Strokes(c) = Strokes(c)' + (IF Top(c) = "stroke" THEN 1 ELSE 0)
        /\ Levels(c) = Levels(c)' + (IF Top(c) \in {"font", "stroke"} THEN 1 ELSE 0)
        /\ Strokes(c)' \in Nat /\ Levels(c)' \in Nat
    BY <2>1, PopLevels
  <2>4. /\ Count(<<Top(c)>>, "font") = IF Top(c) = "font" THEN 1 ELSE 0
        /\ Count(<<Top(c)>>, "stroke") = IF Top(c) = "stroke" THEN 1 ELSE 0
    BY CountOne
  <2>5. \E fs \in Seq(Frame), rs \in Nat :
          /\ DropExclusion(c, fs, rs) /\ rs = 0
          /\ Count(fs, "font") = IF Top(c) = "font" THEN 1 ELSE 0
          /\ Count(fs, "stroke") = IF Top(c) = "stroke" THEN 1 ELSE 0
    BY <2>1, <2>2, <2>4, 0 \in Nat, Zenon
  <2>6. PICK fs \in Seq(Frame), rs \in Nat :
          /\ DropExclusion(c, fs, rs) /\ rs = 0
          /\ Count(fs, "font") = IF Top(c) = "font" THEN 1 ELSE 0
          /\ Count(fs, "stroke") = IF Top(c) = "stroke" THEN 1 ELSE 0
    BY <2>5
  <2>7. /\ sem'[s] = sem[s] - (Count(fs, "font") + Count(fs, "stroke") + rs)
        /\ exclusive'[s] = IF sem'[s] = 0 THEN NIL ELSE c
        /\ totalSem' = totalSem - Count(fs, "stroke")
        /\ totalExcl' = IF totalSem' = 0 THEN NIL ELSE c
        /\ \A t \in Space \ {s} : sem'[t] = sem[t] /\ exclusive'[t] = exclusive[t]
    BY <1>2, <2>6, DropBalance
  <2>8. Balance(c)'
    <3>1. sem[s] = level[s] + Levels(c) /\ totalSem = Strokes(c)
      BY <1>2 DEF Balance
    <3>2. sem'[s] = level'[s] + Levels(c)'
      BY <1>3, <2>1, <2>3, <2>6, <2>7, <3>1
    <3>3. totalSem' = Strokes(c)'
      BY <2>3, <2>6, <2>7, <3>1
    <3> QED BY <2>7, <3>2, <3>3 DEF Balance
  <2> QED BY <1>1, <2>1, <2>3, <2>7, <2>8 DEF OthersKeep
<1>10. CASE YieldSlice(c)
  BY <1>1, <1>2, <1>10 DEF YieldSlice, exclVars, OthersKeep, Balance, Levels, Strokes
<1> QED BY <1>6, <1>7, <1>8, <1>9, <1>10 DEF BaseOp

\* A monitor's mark is no frame that counts.
LEMMA MarkLevels ==
  ASSUME TypeOK, NEW c \in Context, NEW l \in Lock,
         \/ Push(c, l)
         \/ frames[c] # <<>> /\ Top(c) = l /\ Pop(c)
         \/ UNCHANGED frames
  PROVE  /\ \A d \in Context \ {c} : frames'[d] = frames[d]
         /\ Strokes(c)' = Strokes(c) /\ Levels(c)' = Levels(c)
<1>1. l \in Frame /\ l \notin {"font", "stroke"}
  BY ContextAssumption DEF Frame
<1>2. Levels(c) \in Nat /\ Strokes(c) \in Nat
  BY LevelsType
<1>3. CASE Push(c, l)
  BY <1>1, <1>2, <1>3, PushLevels
<1>4. CASE frames[c] # <<>> /\ Top(c) = l /\ Pop(c)
  BY <1>1, <1>4, PopLevels
<1>5. CASE UNCHANGED frames
  BY <1>5 DEF Strokes, Levels
<1> QED BY <1>3, <1>4, <1>5

LEMMA SemOps ==
  ASSUME TypeOK, TypeOK', LinkInv, ExclusionInv, SemInv, NEW c \in Context,
         \/ Monitor(c) \/ MonitorExit(c) \/ PSAcquireLock(c) \/ PSReleaseLock(c)
         \/ PSWait(c) \/ PSNotify(c)
  PROVE  SemInv'
<1>1. cur = c /\ c \in live /\ UNCHANGED <<live, exclVars>>
  BY RunningLives
     DEF Monitor, MonitorExit, PSAcquireLock, PSReleaseLock, PSWait, PSNotify, Ready,
         At, Proceed, Yield, AcquireLock, TakeLock, QueueForLock, RefuseLock
<1>2. \/ UNCHANGED frames
      \/ \E l \in Lock : \/ Push(c, l)
                         \/ frames[c] # <<>> /\ Top(c) = l /\ Pop(c)
  BY DEF Monitor, MonitorExit, PSAcquireLock, PSReleaseLock, PSWait, PSNotify,
         AcquireLock, TakeLock, QueueForLock, RefuseLock
<1>3. CASE UNCHANGED frames
  BY <1>1, <1>3, SemSame DEF Levels, Strokes
<1>4. ASSUME NEW l \in Lock, Push(c, l) \/ (frames[c] # <<>> /\ Top(c) = l /\ Pop(c))
      PROVE  SemInv'
  BY <1>1, <1>4, MarkLevels, SemSame
<1> QED BY <1>2, <1>3, <1>4

LEMMA SemDestroy ==
  ASSUME TypeOK, TypeOK', LinkInv, ExclusionInv, SemInv, NEW c \in Context, cur = c,
         Destroy(c)
  PROVE  SemInv'
<1> DEFINE s == SpaceOf[c]
<1>1. c \in live /\ Balance(c)
  BY RunningLives, Balanced
<1>2. s \in Space /\ level[s] \in Nat /\ frames[c] \in Seq(Frame)
  BY ContextAssumption DEF TypeOK
<1>3. /\ live' = live \ {c} /\ frames' = [frames EXCEPT ![c] = <<>>]
      /\ level' = [level EXCEPT ![s] = 0] /\ DropExclusion(c, frames[c], level[s])
  BY DEF Destroy, DestroyBase
<1>4. /\ sem'[s] = sem[s] - (Count(frames[c], "font") + Count(frames[c], "stroke") + level[s])
      /\ exclusive'[s] = IF sem'[s] = 0 THEN NIL ELSE c
      /\ totalSem' = totalSem - Count(frames[c], "stroke")
      /\ totalExcl' = IF totalSem' = 0 THEN NIL ELSE c
      /\ \A t \in Space \ {s} : sem'[t] = sem[t] /\ exclusive'[t] = exclusive[t]
  BY <1>1, <1>2, <1>3, DropBalance
<1>5. Count(frames[c], "font") \in Nat /\ Count(frames[c], "stroke") \in Nat
  BY <1>2, CountType
<1>6. sem'[s] = 0 /\ totalSem' = 0
  BY <1>1, <1>2, <1>4, <1>5 DEF Balance, Levels, Strokes
<1>7. OthersKeep(c) /\ level'[s] = 0
  BY <1>2, <1>3, <1>4 DEF OthersKeep, TypeOK
<1> QED BY <1>1, <1>3, <1>4, <1>6, <1>7, SemGone

LEMMA SemStop ==
  ASSUME TypeOK, TypeOK', LinkInv, ExclusionInv, SemInv, NEW c \in Context, cur = c,
         StopContext(c)
  PROVE  SemInv'
<1>1. c \in live /\ Balance(c)
  BY RunningLives, Balanced
<1>2. CASE Destroy(c)
  BY <1>2, SemDestroy
<1>3. CASE Escape
  BY <1>1, <1>3, SemSame DEF Escape, Levels, Strokes
<1>4. CASE UnwindToStopped(c) /\ Stopped(frames[c]) /\ ~ Escape
  <2> DEFINE s == SpaceOf[c]
             fs == Unwound(frames[c])
             ks == Kept(frames[c])
  <2>1. /\ frames' = [frames EXCEPT ![c] = Kept(@)] /\ DropExclusion(c, fs, 0)
        /\ UNCHANGED <<live, level>>
    BY <1>4 DEF UnwindToStopped, Proceed
  <2>2. fs \in Seq(Frame) /\ ks \in Seq(Frame) /\ frames[c] \in Seq(Frame) /\ s \in Space
    BY UnwindType, ContextAssumption DEF TypeOK
  <2>3. frames'[c] = ks
    BY <2>1 DEF TypeOK
  <2>4. /\ Count(frames[c], "font") = Count(ks, "font") + Count(fs, "font")
        /\ Count(frames[c], "stroke") = Count(ks, "stroke") + Count(fs, "stroke")
    BY <1>4, <2>2, CountUnwind
  <2>5. /\ Count(ks, "font") \in Nat /\ Count(fs, "font") \in Nat
        /\ Count(ks, "stroke") \in Nat /\ Count(fs, "stroke") \in Nat
    BY <2>2, CountType
  <2> HIDE DEF fs, ks
  <2>6. PICK rs \in Nat : rs = 0 /\ DropExclusion(c, fs, rs)
    BY <2>1, 0 \in Nat, Zenon
  <2>7. /\ sem'[s] = sem[s] - (Count(fs, "font") + Count(fs, "stroke") + rs)
        /\ exclusive'[s] = IF sem'[s] = 0 THEN NIL ELSE c
        /\ totalSem' = totalSem - Count(fs, "stroke")
        /\ totalExcl' = IF totalSem' = 0 THEN NIL ELSE c
        /\ \A t \in Space \ {s} : sem'[t] = sem[t] /\ exclusive'[t] = exclusive[t]
    BY <1>1, <2>2, <2>6, DropBalance
  <2>8. level[s] \in Nat
    BY <2>2, ContextAssumption DEF TypeOK
  <2>9. Balance(c)'
    <3>1. /\ sem[s] = level[s] + (Count(frames[c], "font") + Count(frames[c], "stroke"))
          /\ totalSem = Count(frames[c], "stroke")
      BY <1>1 DEF Balance, Levels, Strokes
    <3>2. sem'[s] = level'[s] + (Count(ks, "font") + Count(ks, "stroke"))
      <4>1. level'[s] = level[s]
        BY <2>1
      <4>2. sem'[s] = sem[s] - (Count(fs, "font") + Count(fs, "stroke"))
        BY <2>5, <2>6, <2>7
      <4> QED BY <2>4, <2>5, <2>8, <3>1, <4>1, <4>2
    <3>3. totalSem' = Count(ks, "stroke")
      BY <2>4, <2>5, <2>7, <3>1
    <3> QED BY <2>3, <2>7, <3>2, <3>3 DEF Balance, Levels, Strokes
  <2>10. OthersKeep(c)
    BY <2>1, <2>7 DEF OthersKeep, TypeOK
  <2> QED BY <1>1, <2>1, <2>9, <2>10, SemStays
<1> QED BY <1>2, <1>3, <1>4 DEF StopContext, UnwindToStopped

LEMMA SemContinue ==
  ASSUME TypeInv, TypeOK', LinkInv, ExclusionInv, SemInv, NEW c \in Context, Continue(c)
  PROVE  SemInv'
<1> USE DEF TypeInv
<1>1. cur = c /\ c \in live
  BY RunningLives DEF Continue, Begin, Raised, Resume, Suspended, At
<1>2. CASE Raised(c)
  BY <1>1, <1>2, SemDestroy, SemStop DEF Raised
<1>3. CASE Begin(c) \/ (Resume(c) /\ at[c] = "slice")
  <2>1. UNCHANGED <<live, frames, exclVars>>
    BY <1>3 DEF Begin, Resume, Proceed, Locking
  <2> QED BY <1>1, <2>1, SemSame DEF Levels, Strokes
<1>4. CASE Resume(c) /\ at[c] # "slice"
  <2>1. PICK l \in Lock : \E point \in Locking : \E q : AcquireLock(c, l, point, q)
    BY <1>4, ResumeAcquires
  <2>2. UNCHANGED <<live, exclVars>>
    BY <1>4, <2>1
       DEF Resume, AcquireLock, TakeLock, QueueForLock, RefuseLock, Proceed, Yield
  <2>3. Push(c, l) \/ UNCHANGED frames
    BY <2>1 DEF AcquireLock, TakeLock, QueueForLock, RefuseLock
  <2> QED BY <1>1, <2>2, <2>3, MarkLevels, SemSame
<1> QED BY <1>2, <1>3, <1>4 DEF Continue

LEMMA SemInit == Init => SemInv
<1> SUFFICES ASSUME Init PROVE SemInv
  OBVIOUS
<1>1. \A c \in Context : Levels(c) = 0 /\ Strokes(c) = 0
  <2>1. \A c \in Context : frames[c] = <<>>
    BY DEF Init, BaseInit
  <2> QED BY <2>1, CountEmpty DEF Levels, Strokes
<1> QED BY <1>1, ContextAssumption DEF Init, BaseInit, SemInv, SpaceInv, TotalInv

LEMMA SemNext ==
  TypeInv /\ TypeInv' /\ LinkInv /\ ExclusionInv /\ SemInv /\ [Next]_vars => SemInv'
<1> SUFFICES ASSUME TypeInv, TypeInv', LinkInv, ExclusionInv, SemInv, [Next]_vars
             PROVE  SemInv'
  OBVIOUS
<1> USE DEF TypeInv
<1>1. CASE UNCHANGED <<live, frames, exclVars>>
  BY <1>1 DEF exclVars, SemInv, SpaceInv, TotalInv, Levels, Strokes
<1>2. CASE UNCHANGED vars
  BY <1>1, <1>2 DEF vars, baseVars, exclVars
<1>3. ASSUME NEW c \in Context, Dispatch(c) \/ Signal(c) PROVE SemInv'
  BY <1>1, <1>3 DEF Dispatch, Signal, Schedule, Notify
<1>4. ASSUME NEW c \in Context, Operator(c) PROVE SemInv'
  <2>1. CASE Stop(c) \/ Quit(c)
    BY <2>1, SemStop, SemDestroy DEF Stop, Quit, Ready, At
  <2> QED BY <1>4, <2>1, SemBase, SemOps DEF Operator
<1> QED BY <1>2, <1>3, <1>4, SemContinue DEF Next

-----------------------------------------------------------------------------
(***************************************************************************)
(* How far an operator of the running context reaches, for all invariants    *)
(* that follow.                                                             *)
(***************************************************************************)
StaysOwn(c) ==
  /\ cur = c
  /\ live' \in {live, live \ {c}}
  /\ \A d \in Context \ {c} :
       frames'[d] = frames[d] /\ at'[d] = at[d] /\ pl'[d] = pl[d]
  /\ \A s \in Space \ {SpaceOf[c]} : level'[s] = level[s] /\ exclusive'[s] = exclusive[s]
  /\ exclusive'[SpaceOf[c]] \in {exclusive[SpaceOf[c]], NIL, c}
  /\ \A l \in Lock : holder'[l] \in {holder[l], NIL, c}

LEMMA OwnSpaceOnly ==
  ASSUME TypeOK, NEW c \in Context, OwnExclusion(c)
  PROVE  /\ \A s \in Space \ {SpaceOf[c]} : exclusive'[s] = exclusive[s]
         /\ exclusive'[SpaceOf[c]] \in {exclusive[SpaceOf[c]], NIL, c}
  BY ContextAssumption DEF OwnExclusion, TypeOK

LEMMA AcquireStays ==
  ASSUME TypeOK, NEW c \in Context, cur = c, NEW l \in Lock, NEW point, NEW q,
         AcquireLock(c, l, point, q), UNCHANGED exclVars
  PROVE  StaysOwn(c)
  BY DEF AcquireLock, TakeLock, QueueForLock, RefuseLock, Proceed, Yield, Push,
         StaysOwn, TypeOK, exclVars

LEMMA DestroyStays ==
  ASSUME TypeOK, NEW c \in Context, running, cur = c, Destroy(c)
  PROVE  StaysOwn(c)
<1>1. /\ \A s \in Space \ {SpaceOf[c]} : exclusive'[s] = exclusive[s]
      /\ exclusive'[SpaceOf[c]] \in {exclusive[SpaceOf[c]], NIL, c}
  BY DestroyIsOwn, OwnSpaceOnly
<1>2. \A l \in Lock : holder'[l] \in {holder[l], NIL}
  BY DEF Destroy, ReleaseLocks
<1> QED BY <1>1, <1>2 DEF Destroy, DestroyBase, StaysOwn, TypeOK

LEMMA StopStays ==
  ASSUME TypeOK, NEW c \in Context, running, cur = c, StopContext(c)
  PROVE  StaysOwn(c)
<1>1. /\ \A s \in Space \ {SpaceOf[c]} : exclusive'[s] = exclusive[s]
      /\ exclusive'[SpaceOf[c]] \in {exclusive[SpaceOf[c]], NIL, c}
  BY StopIsOwn, OwnSpaceOnly
<1>2. CASE Destroy(c)
  BY <1>2, DestroyStays
<1>3. CASE Escape /\ UNCHANGED monitorVars
  BY <1>3 DEF Escape, exclVars, monitorVars, StaysOwn
<1>4. CASE UnwindToStopped(c) /\ ~ (Escape /\ UNCHANGED monitorVars)
  <2>1. \A l \in Lock : holder'[l] \in {holder[l], NIL}
    BY <1>4 DEF UnwindToStopped, ReleaseLocks
  <2>2. /\ frames' = [frames EXCEPT ![c] = Kept(@)] /\ level' = level
        /\ pl' = [pl EXCEPT ![c] = NIL]
        /\ \E woken : Proceed(c, woken)
    BY <1>4 DEF UnwindToStopped
  <2> QED BY <1>1, <2>1, <2>2 DEF Proceed, StaysOwn, TypeOK
<1> QED BY <1>2, <1>3, <1>4 DEF StopContext

LEMMA OperatorStays ==
  ASSUME TypeOK, NEW c \in Context, Operator(c)
  PROVE  StaysOwn(c)
<1>1. CASE BaseOp(c)
  <2>1. /\ \A s \in Space \ {SpaceOf[c]} : exclusive'[s] = exclusive[s]
        /\ exclusive'[SpaceOf[c]] \in {exclusive[SpaceOf[c]], NIL, c}
    BY <1>1, BaseOpIsOwn, OwnSpaceOnly
  <2>2. /\ cur = c /\ live' = live /\ UNCHANGED monitorVars
        /\ \A d \in Context \ {c} : frames'[d] = frames[d] /\ at'[d] = at[d]
        /\ \A s \in Space \ {SpaceOf[c]} : level'[s] = level[s]
    BY <1>1
       DEF BaseOp, Save, Restore, EnterStopped, EnterFont, EnterStroke, LeaveFrame,
           YieldSlice, Ready, At, Push, Pop, Yield, exclVars, TypeOK
  <2> QED BY <2>1, <2>2 DEF StaysOwn, monitorVars
<1>2. CASE Monitor(c) \/ PSAcquireLock(c)
  BY <1>2, AcquireStays DEF Monitor, PSAcquireLock, Ready, At
<1>3. CASE MonitorExit(c) \/ PSReleaseLock(c) \/ PSWait(c) \/ PSNotify(c)
  <2>1. cur = c /\ live' = live /\ UNCHANGED exclVars
    BY <1>3
       DEF MonitorExit, PSReleaseLock, PSWait, PSNotify, Ready, At, Proceed, Yield
  <2>2. \A l \in Lock : holder'[l] \in {holder[l], NIL}
    BY <1>3 DEF MonitorExit, PSReleaseLock, PSWait, PSNotify, ReleaseLocks
  <2>3. \A d \in Context \ {c} : frames'[d] = frames[d] /\ at'[d] = at[d] /\ pl'[d] = pl[d]
    BY <1>3
       DEF MonitorExit, PSReleaseLock, PSWait, PSNotify, Proceed, Yield, Pop, TypeOK
  <2> QED BY <2>1, <2>2, <2>3 DEF StaysOwn, exclVars
<1>4. CASE Stop(c) \/ Quit(c)
  BY <1>4, StopStays, DestroyStays DEF Stop, Quit, Ready, At
<1> QED BY <1>1, <1>2, <1>3, <1>4 DEF Operator

LEMMA ContinueStays ==
  ASSUME TypeInv, NEW c \in Context, Continue(c)
  PROVE  StaysOwn(c)
<1> USE DEF TypeInv
<1>1. running /\ cur = c
  BY DEF Continue, Begin, Raised, Resume, Suspended, At
<1>2. CASE Raised(c)
  BY <1>1, <1>2, StopStays, DestroyStays DEF Raised
<1>3. CASE Begin(c) \/ (Resume(c) /\ at[c] = "slice")
  BY <1>1, <1>3
     DEF Begin, Resume, Proceed, Locking, monitorVars, exclVars, StaysOwn, TypeOK
<1>4. CASE Resume(c) /\ at[c] # "slice"
  <2>1. UNCHANGED exclVars
    BY <1>4 DEF Resume
  <2>2. PICK point \in Locking, q \in {waiters, BreakLooseLK(c)} :
          AcquireLock(c, pl[c], point, q)
    BY <1>4 DEF Resume, Locking
  <2>3. pl[c] \in Lock
    BY <1>4 DEF Resume, LockNamed
  <2> QED BY <1>1, <2>1, <2>2, <2>3, AcquireStays
<1> QED BY <1>2, <1>3, <1>4 DEF Continue

-----------------------------------------------------------------------------
(***************************************************************************)
(* What a waiting context waits for.                                        *)
(***************************************************************************)
Waits(c) == at[c] \in Locking \cup {"wait"}

WaitsWell(c) ==
  /\ holder[pl[c]] # c
  /\ level[SpaceOf[c]] > 0 /\ exclusive[SpaceOf[c]] = c /\ holder[pl[c]] # NIL
       => SpaceOf[holder[pl[c]]] # SpaceOf[c]

SaverInv == \A c \in live : Waits(c) => WaitsWell(c)

\* The others: only c takes locks, and c has its space to itself if anybody has.
LEMMA SaverOthers ==
  ASSUME TypeInv, ExclusionInv, SaverInv, NEW c \in Context, StaysOwn(c),
         NEW d \in live' \ {c}, Waits(d)'
  PROVE  WaitsWell(d)'
<1> USE DEF TypeInv
<1>1. d \in live /\ d \in Context /\ d # NIL /\ c # NIL /\ at'[d] = at[d] /\ pl'[d] = pl[d]
  BY ContextAssumption DEF StaysOwn, TypeOK
<1>2. Waits(d) /\ WaitsWell(d) /\ pl[d] \in Lock
  BY <1>1 DEF Waits, SaverInv, LockNamed
<1>3. holder'[pl[d]] \in {holder[pl[d]], NIL, c}
  BY <1>2 DEF StaysOwn
<1>4. /\ SpaceOf[c] = SpaceOf[d] => exclusive'[SpaceOf[d]] # d
      /\ SpaceOf[c] # SpaceOf[d] => /\ exclusive'[SpaceOf[d]] = exclusive[SpaceOf[d]]
                                    /\ level'[SpaceOf[d]] = level[SpaceOf[d]]
  <2>1. SpaceOf[d] \in Space
    BY <1>1, ContextAssumption
  <2>2. exclusive[SpaceOf[c]] \in {NIL, c}
    BY <1>1 DEF ExclusionInv, StaysOwn
  <2> QED BY <1>1, <2>1, <2>2 DEF StaysOwn
<1> QED BY <1>1, <1>2, <1>3, <1>4 DEF WaitsWell

LEMMA AcquireWaits ==
  ASSUME TypeOK, NEW c \in Context, NEW l \in Lock, NEW point, NEW q,
         AcquireLock(c, l, point, q), UNCHANGED exclVars, Waits(c)'
  PROVE  WaitsWell(c)'
<1>1. CASE TakeLock(c, l, point, q) \/ RefuseLock(c, l, q)
  <2>1. at'[c] = "ready"
    BY <1>1 DEF TakeLock, RefuseLock, Proceed, TypeOK
  <2> QED BY <2>1 DEF Waits, Locking
<1>2. CASE QueueForLock(c, l, point, q)
  <2>1. pl'[c] = l /\ holder' = holder /\ UNCHANGED <<level, exclusive>>
    BY <1>2 DEF QueueForLock, TypeOK, exclVars
  <2> QED BY <1>2, <2>1 DEF QueueForLock, WaitsWell
<1> QED BY <1>1, <1>2 DEF AcquireLock

LEMMA StopWaits ==
  ASSUME TypeOK, SaverInv, NEW c \in live, StopContext(c) \/ Destroy(c), Waits(c)'
  PROVE  WaitsWell(c)'
<1>1. c \in Context
  BY DEF TypeOK
<1>2. CASE Escape /\ UNCHANGED monitorVars
  BY <1>2 DEF Escape, exclVars, monitorVars, SaverInv, Waits, WaitsWell
<1>3. CASE Destroy(c)
  BY <1>1, <1>3 DEF Destroy, DestroyBase, Waits, Locking, TypeOK
<1>4. CASE UnwindToStopped(c) /\ ~ (Escape /\ UNCHANGED monitorVars)
  <2>1. at'[c] = "ready"
    BY <1>1, <1>4 DEF UnwindToStopped, Proceed, TypeOK
  <2> QED BY <2>1 DEF Waits, Locking
<1> QED BY <1>2, <1>3, <1>4 DEF StopContext

LEMMA OwnWaits ==
  ASSUME TypeInv, LinkInv, SaverInv, NEW c \in Context, Operator(c) \/ Continue(c), Waits(c)'
  PROVE  WaitsWell(c)'
<1> USE DEF TypeInv
<1>1. c \in live
  BY OperatorStays, ContinueStays, RunningLives DEF StaysOwn
<1>2. CASE BaseOp(c)
  <2>1. at'[c] \in {"ready", "slice"}
    BY <1>2
       DEF BaseOp, Save, Restore, EnterStopped, EnterFont, EnterStroke, LeaveFrame,
           YieldSlice, Yield, Ready, At, TypeOK
  <2> QED BY <2>1 DEF Waits, Locking
<1>3. CASE Monitor(c) \/ PSAcquireLock(c)
  BY <1>3, AcquireWaits DEF Monitor, PSAcquireLock
<1>4. CASE MonitorExit(c) \/ PSReleaseLock(c) \/ PSNotify(c) \/ Begin(c)
           \/ (Resume(c) /\ at[c] = "slice")
  <2>1. \E woken : Proceed(c, woken)
    BY <1>4 DEF MonitorExit, PSReleaseLock, PSNotify, Begin, Resume, Locking
  <2>2. at'[c] = "ready"
    BY <2>1 DEF Proceed, TypeOK
  <2> QED BY <2>2 DEF Waits, Locking
<1>5. CASE PSWait(c)
  <2>1. PICK l \in Lock : ReleaseLocks({l}, waiters) /\ pl' = [pl EXCEPT ![c] = l]
    BY <1>5 DEF PSWait
  <2>2. holder'[pl'[c]] = NIL /\ c # NIL
    BY <2>1, ContextAssumption DEF ReleaseLocks, TypeOK
  <2> QED BY <2>2 DEF WaitsWell
<1>6. CASE Stop(c) \/ Quit(c) \/ Raised(c)
  BY <1>1, <1>6, StopWaits DEF Stop, Quit, Raised
<1>7. CASE Resume(c) /\ at[c] # "slice"
  <2>1. pl[c] \in Lock /\ \E point, q : AcquireLock(c, pl[c], point, q)
    BY <1>7, ResumeAcquires
  <2>2. UNCHANGED exclVars
    BY <1>7 DEF Resume
  <2> QED BY <2>1, <2>2, AcquireWaits
<1> QED
  BY <1>2, <1>3, <1>4, <1>5, <1>6, <1>7 DEF Operator, Continue

LEMMA SaverNext ==
  TypeInv /\ LinkInv /\ ExclusionInv /\ SaverInv /\ [Next]_vars => SaverInv'
<1> SUFFICES ASSUME TypeInv, LinkInv, ExclusionInv, SaverInv, [Next]_vars
             PROVE  SaverInv'
  OBVIOUS
<1>1. CASE UNCHANGED <<live, at, pl, holder, level, exclusive>>
  BY <1>1 DEF SaverInv, Waits, WaitsWell
<1>2. CASE UNCHANGED vars
  BY <1>1, <1>2 DEF vars, baseVars, monitorVars
<1>3. ASSUME NEW c \in Context, Dispatch(c) \/ Signal(c) PROVE SaverInv'
  BY <1>1, <1>3 DEF Dispatch, Signal, Schedule, Notify, exclVars, monitorVars
<1>4. ASSUME NEW c \in Context, Operator(c) \/ Continue(c) PROVE SaverInv'
  <2>1. StaysOwn(c)
    BY <1>4, OperatorStays, ContinueStays DEF TypeInv
  <2> QED BY <1>4, <2>1, SaverOthers, OwnWaits DEF SaverInv
<1> QED BY <1>2, <1>3, <1>4 DEF Next

LEMMA SaverInit == Init => SaverInv
  BY DEF Init, BaseInit, SaverInv, Waits, Locking

\* The invariant that holds whatever the contexts and custom operators do.
SafetyInv == TypeInv /\ ExclusionInv /\ LinkInv /\ SemInv /\ SaverInv

LEMMA SafetyNext == SafetyInv /\ [Next]_vars => SafetyInv'
  BY TypesNext, ExclusionNext, LinksNext, SemNext, SaverNext DEF SafetyInv

LEMMA SafetyAlways == Spec => []SafetyInv
<1>1. Init => SafetyInv
  BY TypesInit, ExclusionInit, LinksInit, SemInit, SaverInit DEF SafetyInv
<1> QED BY <1>1, SafetyNext, PTL DEF Spec

(* Nobody who made a save queues behind a context that its save keeps from    *)
(* running: AcquireLock tests this once, when it queues, and no later save,   *)
(* hand-over of the lock or resumption makes it true (contextimpl.c,          *)
(* AcquireLock; SpaceExclusionSemaphore).                                    *)
THEOREM SaverNeverBehindExcludedAlways == Spec => []SaverNeverBehindExcluded
<1>1. SafetyInv => SaverNeverBehindExcluded
  <2> SUFFICES ASSUME SafetyInv, NEW l \in Lock, NEW i \in 1 .. Len(waiters[l]),
                      NEW c, c = waiters[l][i]
               PROVE  level[SpaceOf[c]] > 0 /\ exclusive[SpaceOf[c]] = c
                        /\ holder[l] # NIL => SpaceOf[holder[l]] # SpaceOf[c]
    BY DEF SaverNeverBehindExcluded
  <2>1. Queued(c, l)
    BY DEF SafetyInv, LinkInv, Members
  <2> QED BY <2>1 DEF Queued, SafetyInv, SaverInv, Waits, WaitsWell
<1> QED BY <1>1, SafetyAlways, PTL

-----------------------------------------------------------------------------
(***************************************************************************)
(* Marks and locks.  What breaks the agreement of the two is an interrupt    *)
(* whose handler stops while the context is in wait: PSWait's handler raises *)
(* again without having the lock back, and the unwinding meets the mark.     *)
(***************************************************************************)
WaitsUninterrupted == "interrupt" \notin Reason \/ Cond = {}

BodyOf(c) ==
  \A l \in Lock :
    l \in Marks(c) => Count(frames[c], l) = 1 /\ (GaveUp(c, l) \/ holder[l] = c)

InWait(c) == at[c] \in {"wait", "reacquire"}

BodyInv ==
  /\ \A c \in live : BodyOf(c)
  /\ "interrupt" \notin Reason => \A c \in Context : pend[c] # "interrupt"
  /\ Cond = {} => \A c \in Context : ~ InWait(c)

\* A context that resumes is never refused the lock it waits for.
LEMMA NoRefusal ==
  ASSUME SafetyInv, NEW c \in live, cur = c, Waits(c), NEW q
  PROVE  ~ RefuseLock(c, pl[c], q)
<1> USE DEF SafetyInv, TypeInv
<1>1. c \in Context /\ c # NIL /\ SpaceOf[c] \in Space
  BY ContextAssumption DEF TypeOK
<1>2. WaitsWell(c)
  BY DEF SaverInv
<1>3. level[SpaceOf[c]] > 0 => exclusive[SpaceOf[c]] = c
  <2>1. exclusive[SpaceOf[c]] \in {NIL, c}
    BY <1>1 DEF ExclusionInv
  <2>2. exclusive[SpaceOf[c]] = NIL => level[SpaceOf[c]] = 0
    BY <1>1 DEF SemInv, SpaceInv
  <2> QED BY <2>1, <2>2
<1> QED BY <1>2, <1>3 DEF WaitsWell, RefuseLock

LEMMA BodyOthers ==
  ASSUME TypeOK, NEW c \in Context, StaysOwn(c), LocksKept, BodyInv,
         NEW d \in live' \ {c}
  PROVE  BodyOf(d)'
<1>1. d \in live /\ d \in Context
  BY DEF StaysOwn, TypeOK
<1>2. frames'[d] = frames[d] /\ at'[d] = at[d] /\ pl'[d] = pl[d] /\ cur = c
  BY <1>1 DEF StaysOwn
<1>3. \A l \in Lock : holder[l] = d => holder'[l] = d
  BY <1>1, <1>2, ContextAssumption DEF LocksKept
<1> QED BY <1>1, <1>2, <1>3 DEF BodyInv, BodyOf, Marks, LocksOf, GaveUp

\* How the marks of c change.
LEMMA PushMark ==
  ASSUME TypeOK, NEW c \in Context, NEW f \in Frame, Push(c, f)
  PROVE  \A l \in Lock : /\ Count(frames'[c], l) = Count(frames[c], l) + (IF f = l THEN 1 ELSE 0)
                         /\ Count(frames[c], l) \in Nat
<1>1. frames[c] \in Seq(Frame) /\ frames'[c] = Append(frames[c], f)
  BY DEF Push, TypeOK
<1> QED BY <1>1, CountAppend, CountType

LEMMA PopMark ==
  ASSUME TypeOK, NEW c \in Context, frames[c] # <<>>, Pop(c)
  PROVE  \A l \in Lock : /\ Count(frames[c], l) = Count(frames'[c], l) + (IF Top(c) = l THEN 1 ELSE 0)
                         /\ Count(frames'[c], l) \in Nat
<1>1. frames[c] \in Seq(Frame) /\ frames'[c] = SubSeq(frames[c], 1, Len(frames[c]) - 1)
  BY DEF Pop, TypeOK
<1>2. Len(frames[c]) \in Nat \ {0}
  BY <1>1, EmptySeq
<1>3. frames'[c] \in Seq(Frame)
  BY <1>1, <1>2, SubSeqType
<1> QED BY <1>1, <1>3, CountPop, CountType DEF Top

LEMMA KeptMark ==
  ASSUME TypeOK, NEW c \in Context, Stopped(frames[c])
  PROVE  \A l \in Lock : /\ Count(frames[c], l) = Count(Kept(frames[c]), l)
                                                   + Count(Unwound(frames[c]), l)
                         /\ Count(Kept(frames[c]), l) \in Nat
                         /\ Count(Unwound(frames[c]), l) \in Nat
<1>1. frames[c] \in Seq(Frame)
  BY DEF TypeOK
<1>2. Kept(frames[c]) \in Seq(Frame) /\ Unwound(frames[c]) \in Seq(Frame)
  BY <1>1, UnwindType
<1>3. \A l \in Lock : l # "stopped"
  BY ContextAssumption
<1> QED BY <1>1, <1>2, <1>3, CountUnwind, CountType

LEMMA BaseMarks ==
  ASSUME TypeOK, NEW c \in Context, BaseOp(c)
  PROVE  \A l \in Lock : Count(frames'[c], l) = Count(frames[c], l)
<1>1. \A l \in Lock : Count(frames[c], l) \in Nat
  BY CountType DEF TypeOK
<1>2. CASE UNCHANGED frames
  BY <1>2
<1>3. CASE EnterStopped(c) \/ EnterFont(c) \/ EnterStroke(c)
  <2>1. PICK f \in {"stopped", "font", "stroke"} : Push(c, f)
    BY <1>3 DEF EnterStopped, EnterFont, EnterStroke
  <2>2. f \in Frame /\ f \notin Lock
    BY ContextAssumption DEF Frame
  <2> QED BY <1>1, <2>1, <2>2, PushMark
<1>4. CASE LeaveFrame(c)
  BY <1>4, PopMark DEF LeaveFrame
<1> QED BY <1>2, <1>3, <1>4 DEF BaseOp, Save, Restore, YieldSlice

\* A context outside wait owns what it marked; that is all a step keeps of it.
LEMMA BodyReady ==
  ASSUME NEW c, BodyOf(c), ~ InWait(c), NEW l \in Lock
  PROVE  Count(frames[c], l) > 0 => Count(frames[c], l) = 1 /\ holder[l] = c
  BY DEF BodyOf, Marks, LocksOf, GaveUp, InWait

LEMMA BodySame ==
  ASSUME NEW c, BodyOf(c), ~ InWait(c),
         \A l \in Lock : Count(frames'[c], l) > 0 =>
           Count(frames'[c], l) = Count(frames[c], l) /\ holder'[l] = holder[l]
  PROVE  BodyOf(c)'
<1> SUFFICES ASSUME NEW l \in Lock, Count(frames'[c], l) > 0
             PROVE  Count(frames'[c], l) = 1 /\ holder'[l] = c
  BY DEF BodyOf, Marks, LocksOf
<1> QED BY BodyReady

LEMMA BodyAcquire ==
  ASSUME TypeOK, NEW c \in Context, BodyOf(c), NEW l \in Lock, NEW point, NEW q,
         AcquireLock(c, l, point, q),
         \A k \in Lock : GaveUp(c, k) => k = l /\ point = "reacquire",
         RefuseLock(c, l, q) => ~ InWait(c)
  PROVE  BodyOf(c)'
<1>1. CASE TakeLock(c, l, point, q)
  <2>1. holder[l] = NIL /\ holder' = [holder EXCEPT ![l] = c] /\ c # NIL
    BY <1>1, ContextAssumption DEF TakeLock
  <2>2. \A k \in Lock : k \in Marks(c) => Count(frames[c], k) = 1 /\ holder'[k] = c
    BY <2>1 DEF BodyOf, TypeOK
  <2>3. CASE point = "acquire"
    <3>1. Push(c, l) /\ l \in Frame
      BY <1>1, <2>3 DEF TakeLock, Frame
    <3>2. l \notin Marks(c)
      BY <2>1, <2>3 DEF BodyOf
    <3>3. \A k \in Lock : /\ Count(frames'[c], k)
                                = Count(frames[c], k) + (IF l = k THEN 1 ELSE 0)
                          /\ Count(frames[c], k) \in Nat
      BY <3>1, PushMark
    <3>4. Count(frames'[c], l) = 1
      BY <3>2, <3>3 DEF Marks, LocksOf
    <3>5. ASSUME NEW k \in Lock, k # l
          PROVE  Count(frames'[c], k) = Count(frames[c], k)
      BY <3>3, <3>5
    <3>6. holder'[l] = c
      BY <2>1 DEF TypeOK
    <3> QED BY <2>2, <3>4, <3>5, <3>6 DEF BodyOf, Marks, LocksOf
  <2>4. CASE point # "acquire"
    <3>1. UNCHANGED frames
      BY <1>1, <2>4 DEF TakeLock
    <3> QED BY <2>2, <3>1 DEF BodyOf, Marks, LocksOf
  <2> QED BY <2>3, <2>4
<1>2. CASE QueueForLock(c, l, point, q)
  <2>1. at'[c] = point /\ pl'[c] = l /\ UNCHANGED <<holder, frames>>
    BY <1>2 DEF QueueForLock, Yield, TypeOK
  <2>2. \A k \in Lock : GaveUp(c, k) => GaveUp(c, k)'
    BY <2>1 DEF GaveUp
  <2> QED BY <2>1, <2>2 DEF BodyOf, Marks, LocksOf
<1>3. CASE RefuseLock(c, l, q)
  <2>1. UNCHANGED <<holder, frames>>
    BY <1>3 DEF RefuseLock
  <2> QED BY <1>3, <2>1, BodySame
<1> QED BY <1>1, <1>2, <1>3 DEF AcquireLock

LEMMA BodyRelease ==
  ASSUME TypeOK, NEW c \in Context, BodyOf(c),
         MonitorExit(c) \/ PSReleaseLock(c) \/ PSWait(c)
  PROVE  BodyOf(c)'
<1>1. at[c] = "ready"
  BY DEF MonitorExit, PSReleaseLock, PSWait, Ready, At
<1>2. ~ InWait(c)
  BY <1>1 DEF InWait
<1>3. CASE MonitorExit(c)
  <2>1. /\ frames[c] # <<>> /\ Top(c) \in Lock /\ Pop(c)
        /\ \A l \in Lock \ {Top(c)} : holder'[l] = holder[l]
    BY <1>3 DEF MonitorExit, ReleaseLocks
  <2>2. \A l \in Lock : /\ Count(frames[c], l) = Count(frames'[c], l)
                                                   + (IF Top(c) = l THEN 1 ELSE 0)
                        /\ Count(frames'[c], l) \in Nat
    BY <2>1, PopMark
  <2>3. Count(frames'[c], Top(c)) = 0
    <3>1. /\ Count(frames[c], Top(c)) = Count(frames'[c], Top(c)) + 1
          /\ Count(frames'[c], Top(c)) \in Nat
      BY <2>1, <2>2
    <3>2. Count(frames[c], Top(c)) > 0 => Count(frames[c], Top(c)) = 1
      BY <1>2, <2>1, BodyReady
    <3> QED BY <3>1, <3>2
  <2>4. \A l \in Lock \ {Top(c)} : Count(frames'[c], l) = Count(frames[c], l)
    BY <2>2
  <2> QED BY <1>2, <2>1, <2>3, <2>4, BodySame
<1>4. CASE PSReleaseLock(c)
  <2>1. PICK l \in Lock \ Marks(c) : ReleaseLocks({l}, waiters)
    BY <1>4 DEF PSReleaseLock
  <2>2. UNCHANGED frames /\ \A k \in Lock \ {l} : holder'[k] = holder[k]
    BY <1>4, <2>1 DEF PSReleaseLock, ReleaseLocks
  <2> QED BY <1>2, <2>1, <2>2, BodySame DEF Marks, LocksOf
<1>5. CASE PSWait(c)
  <2>1. PICK l \in Lock : /\ ReleaseLocks({l}, waiters)
                          /\ pl' = [pl EXCEPT ![c] = l]
                          /\ \E woken : Yield(c, "wait", woken, FALSE)
    BY <1>5 DEF PSWait
  <2>2. /\ UNCHANGED frames /\ \A k \in Lock \ {l} : holder'[k] = holder[k]
        /\ pl'[c] = l /\ at'[c] = "wait"
    BY <1>5, <2>1 DEF PSWait, ReleaseLocks, Yield, TypeOK
  <2>3. GaveUp(c, l)'
    BY <2>2 DEF GaveUp
  <2> QED BY <1>2, <2>2, <2>3, BodyReady DEF BodyOf, Marks, LocksOf
<1> QED BY <1>3, <1>4, <1>5

LEMMA BodyStop ==
  ASSUME TypeOK, NEW c \in Context, BodyOf(c), ~ InWait(c), StopContext(c) \/ Destroy(c),
         c \in live'
  PROVE  BodyOf(c)'
<1>1. CASE Destroy(c)
  BY <1>1 DEF Destroy, DestroyBase
<1>2. CASE Escape /\ UNCHANGED monitorVars
  BY <1>2 DEF Escape, monitorVars, BodyOf, Marks, LocksOf, GaveUp
<1>3. CASE UnwindToStopped(c) /\ Stopped(frames[c]) /\ ~ (Escape /\ UNCHANGED monitorVars)
  <2> DEFINE fs == Unwound(frames[c])
  <2>1. ReleaseLocks(LocksOf(fs), BreakLooseLK(c)) /\ frames'[c] = Kept(frames[c])
    BY <1>3 DEF UnwindToStopped, TypeOK
  <2>2. \A l \in Lock : /\ Count(frames[c], l) = Count(frames'[c], l) + Count(fs, l)
                        /\ Count(frames'[c], l) \in Nat /\ Count(fs, l) \in Nat
    BY <1>3, <2>1, KeptMark
  <2> HIDE DEF fs
  <2>3. ASSUME NEW l \in Lock, Count(frames'[c], l) > 0
        PROVE  Count(frames'[c], l) = Count(frames[c], l) /\ holder'[l] = holder[l]
    <3>1. Count(frames[c], l) > 0
      BY <2>2, <2>3
    <3>2. Count(frames[c], l) = 1
      BY <3>1, BodyReady
    <3>3. Count(fs, l) = 0 /\ Count(frames'[c], l) = 1
      BY <2>2, <2>3, <3>2
    <3> QED BY <2>1, <3>2, <3>3 DEF ReleaseLocks, LocksOf
  <2> QED BY <2>3, BodySame
<1> QED BY <1>1, <1>2, <1>3 DEF StopContext

LEMMA BodyOwn ==
  ASSUME WaitsUninterrupted, SafetyInv, BodyInv, NEW c \in Context,
         Operator(c) \/ Continue(c), c \in live'
  PROVE  BodyOf(c)'
<1> USE DEF SafetyInv, TypeInv
<1>1. c \in live /\ cur = c /\ BodyOf(c)
  BY OperatorStays, ContinueStays, RunningLives DEF StaysOwn, BodyInv
<1>2. CASE BaseOp(c)
  <2>1. at[c] = "ready" /\ UNCHANGED monitorVars
    BY <1>2
       DEF BaseOp, Save, Restore, EnterStopped, EnterFont, EnterStroke, LeaveFrame,
           YieldSlice, Ready, At
  <2> QED BY <1>1, <1>2, <2>1, BaseMarks, BodySame DEF InWait, monitorVars
<1>3. CASE Monitor(c) \/ PSAcquireLock(c)
  <2>1. at[c] = "ready" /\ \E l \in Lock : \E point : AcquireLock(c, l, point, waiters)
    BY <1>3 DEF Monitor, PSAcquireLock, Ready, At
  <2> QED BY <1>1, <2>1, BodyAcquire DEF InWait, GaveUp
<1>4. CASE MonitorExit(c) \/ PSReleaseLock(c) \/ PSWait(c)
  BY <1>1, <1>4, BodyRelease
<1>5. CASE PSNotify(c) \/ Begin(c) \/ (Resume(c) /\ at[c] = "slice")
  <2>1. at[c] \in {"ready", "start", "slice"} /\ UNCHANGED <<frames, holder>>
    BY <1>5 DEF PSNotify, Begin, Resume, Ready, At, monitorVars, Locking
  <2> QED BY <1>1, <2>1, BodySame DEF InWait
<1>6. CASE Stop(c) \/ Quit(c)
  BY <1>1, <1>6, BodyStop DEF Stop, Quit, Ready, At, InWait
<1>7. CASE Raised(c)
  <2>1. CASE Destroy(c)
    BY <2>1 DEF Destroy, DestroyBase
  <2>2. CASE pend[c] = "interrupt" /\ StopContext(c)
    BY <1>1, <2>2, BodyStop DEF BodyInv, WaitsUninterrupted
  <2> QED BY <1>7, <2>1, <2>2 DEF Raised
<1>8. CASE Resume(c) /\ at[c] # "slice"
  <2>1. /\ Waits(c) /\ pl[c] \in Lock
        /\ \E point \in Locking, q \in [Lock -> Seq(Context)] :
             /\ AcquireLock(c, pl[c], point, q)
             /\ point = IF at[c] = "wait" THEN "reacquire" ELSE at[c]
    BY <1>8, ResumeAcquires DEF Waits
  <2>2. \A q : ~ RefuseLock(c, pl[c], q)
    BY <1>1, <2>1, NoRefusal
  <2> QED BY <1>1, <2>1, <2>2, BodyAcquire DEF GaveUp
<1> QED
  BY <1>2, <1>3, <1>4, <1>5, <1>6, <1>7, <1>8 DEF Operator, Continue

\* Only PSWait begins a wait.
LEMMA WaitBegins ==
  ASSUME TypeInv, LinkInv, NEW c \in Context, Operator(c) \/ Continue(c), InWait(c)'
  PROVE  InWait(c) \/ PSWait(c)
<1> USE DEF TypeInv
<1>1. ASSUME NEW point, at'[c] = point, point \notin {"wait", "reacquire"} PROVE FALSE
  BY <1>1 DEF InWait
<1>2. CASE at'[c] = at[c]
  BY <1>2 DEF InWait
<1>3. ASSUME NEW l, NEW point \in Locking, NEW q, AcquireLock(c, l, point, q)
      PROVE  at'[c] \in {"ready", point}
  BY <1>3 DEF AcquireLock, TakeLock, QueueForLock, RefuseLock, Proceed, Yield, TypeOK
<1>4. CASE BaseOp(c)
  <2>1. at'[c] \in {"ready", "slice"}
    BY <1>4
       DEF BaseOp, Save, Restore, EnterStopped, EnterFont, EnterStroke, LeaveFrame,
           YieldSlice, Yield, Ready, At, TypeOK
  <2> QED BY <1>1, <2>1
<1>5. CASE Monitor(c) \/ PSAcquireLock(c)
  <2>1. PICK l \in Lock, point \in {"acquire", "custom"} : AcquireLock(c, l, point, waiters)
    BY <1>5 DEF Monitor, PSAcquireLock
  <2>2. at'[c] \in {"ready", "acquire", "custom"}
    BY <1>3, <2>1 DEF Locking
  <2> QED BY <1>1, <2>2
<1>6. CASE MonitorExit(c) \/ PSReleaseLock(c) \/ PSNotify(c) \/ Begin(c)
           \/ (Resume(c) /\ at[c] = "slice")
  <2>1. \E woken : Proceed(c, woken)
    BY <1>6 DEF MonitorExit, PSReleaseLock, PSNotify, Begin, Resume, Locking
  <2>2. at'[c] = "ready"
    BY <2>1 DEF Proceed, TypeOK
  <2> QED BY <1>1, <2>2
<1>7. CASE Stop(c) \/ Quit(c) \/ Raised(c)
  <2>1. CASE Destroy(c)
    <3>1. at'[c] = "dead"
      BY <2>1 DEF Destroy, DestroyBase, TypeOK
    <3> QED BY <1>1, <3>1
  <2>2. CASE Escape
    BY <1>2, <2>2 DEF Escape
  <2>3. CASE UnwindToStopped(c) /\ ~ Escape
    <3>1. \E woken : Proceed(c, woken)
      BY <2>3 DEF UnwindToStopped
    <3>2. at'[c] = "ready"
      BY <3>1 DEF Proceed, TypeOK
    <3> QED BY <1>1, <3>2
  <2> QED BY <1>7, <2>1, <2>2, <2>3 DEF Stop, Quit, Raised, StopContext
<1>8. CASE Resume(c) /\ at[c] # "slice"
  <2>1. PICK point \in Locking : \E q :
          /\ AcquireLock(c, pl[c], point, q)
          /\ point = IF at[c] = "wait" THEN "reacquire" ELSE at[c]
    BY <1>8, ResumeAcquires
  <2>2. at'[c] \in {"ready", point}
    BY <1>3, <2>1
  <2> QED BY <1>1, <2>1, <2>2 DEF InWait
<1> QED
  BY <1>4, <1>5, <1>6, <1>7, <1>8 DEF Operator, Continue

\* What is pending was sent.
LEMMA PendingSent ==
  ASSUME TypeInv, [Next]_vars, "interrupt" \notin Reason,
         \A c \in Context : pend[c] # "interrupt"
  PROVE  \A c \in Context : pend'[c] # "interrupt"
<1> USE DEF TypeInv
<1>1. CASE pend' = pend
  BY <1>1
<1>2. ASSUME NEW c \in Context, pend' = [pend EXCEPT ![c] = "none"]
             \/ pend' = [pend EXCEPT ![c] = IF at[c] = "ready" THEN @ ELSE "none"]
      PROVE  \A d \in Context : pend'[d] # "interrupt"
  BY <1>2 DEF TypeOK
<1>3. ASSUME NEW c \in Context, Signal(c)
      PROVE  \A d \in Context : pend'[d] # "interrupt"
  BY <1>3 DEF Signal, Notify, Override, TypeOK
<1>4. ASSUME NEW c \in Context, StopContext(c) \/ Destroy(c)
      PROVE  \A d \in Context : pend'[d] # "interrupt"
  BY <1>1, <1>2, <1>4 DEF StopContext, UnwindToStopped, Destroy, DestroyBase, Escape
<1>5. ASSUME NEW c \in Context, Operator(c)
      PROVE  \A d \in Context : pend'[d] # "interrupt"
  <2>1. CASE Stop(c) \/ Quit(c)
    BY <1>4, <2>1 DEF Stop, Quit
  <2>2. CASE BaseOp(c)
    BY <1>1, <2>2
       DEF BaseOp, Save, Restore, EnterStopped, EnterFont, EnterStroke, LeaveFrame,
           YieldSlice
  <2> QED
    BY <1>1, <1>5, <2>1, <2>2
       DEF Operator, Monitor, MonitorExit, PSAcquireLock, PSReleaseLock, PSWait, PSNotify
<1>6. ASSUME NEW c \in Context, Continue(c)
      PROVE  \A d \in Context : pend'[d] # "interrupt"
  BY <1>1, <1>2, <1>4, <1>6 DEF Continue, Begin, Resume, Raised
<1>7. ASSUME NEW c \in Context, Dispatch(c)
      PROVE  \A d \in Context : pend'[d] # "interrupt"
  BY <1>1, <1>7 DEF Dispatch, Schedule
<1>8. CASE UNCHANGED vars
  BY <1>1, <1>8 DEF vars, baseVars
<1> QED BY <1>3, <1>5, <1>6, <1>7, <1>8 DEF Next

LEMMA BodyNext ==
  WaitsUninterrupted /\ SafetyInv /\ BodyInv /\ [Next]_vars => BodyInv'
<1> SUFFICES ASSUME WaitsUninterrupted, SafetyInv, BodyInv, [Next]_vars PROVE BodyInv'
  OBVIOUS
<1> USE DEF SafetyInv, TypeInv
<1>1. "interrupt" \notin Reason => \A c \in Context : pend'[c] # "interrupt"
  BY PendingSent DEF BodyInv
<1>2. CASE UNCHANGED <<live, frames, at, pl, holder>>
  BY <1>1, <1>2 DEF BodyInv, BodyOf, Marks, LocksOf, GaveUp, InWait
<1>3. CASE UNCHANGED vars
  BY <1>2, <1>3 DEF vars, baseVars, monitorVars
<1>4. ASSUME NEW c \in Context, Dispatch(c) \/ Signal(c) PROVE BodyInv'
  BY <1>2, <1>4 DEF Dispatch, Signal, Schedule, Notify, monitorVars
<1>5. ASSUME NEW c \in Context, Operator(c) \/ Continue(c) PROVE BodyInv'
  <2>1. StaysOwn(c) /\ LocksKept
    BY <1>5, OperatorStays, ContinueStays, OperatorKeepsLocks, ContinueKeepsLocks
  <2>2. \A d \in live' : BodyOf(d)'
    BY <1>5, <2>1, BodyOthers, BodyOwn
  <2>3. Cond = {} => \A d \in Context : ~ InWait(d)'
    <3> SUFFICES ASSUME Cond = {}, NEW d \in Context, InWait(d)' PROVE FALSE
      OBVIOUS
    <3>1. ~ InWait(d)
      BY DEF BodyInv
    <3>2. d = c
      BY <2>1, <3>1 DEF StaysOwn, InWait
    <3>3. PSWait(c)
      BY <1>5, <3>1, <3>2, WaitBegins
    <3> QED BY <3>3 DEF PSWait
  <2> QED BY <1>1, <2>2, <2>3 DEF BodyInv
<1> QED BY <1>3, <1>4, <1>5 DEF Next

LEMMA BodyInit == Init => BodyInv
<1> SUFFICES ASSUME Init PROVE BodyInv
  OBVIOUS
<1>1. \A c \in Context : frames[c] = <<>> /\ at[c] = "start" /\ pend[c] = "none"
  BY DEF Init, BaseInit
<1>2. \A c \in Context : Marks(c) = {}
  BY <1>1, CountEmpty DEF Marks, LocksOf
<1> QED BY <1>1, <1>2 DEF BodyInv, BodyOf, InWait, Init, BaseInit

LEMMA BodyAlways ==
  ASSUME WaitsUninterrupted
  PROVE  Spec => [](SafetyInv /\ BodyInv)
<1>1. SafetyInv /\ BodyInv /\ [Next]_vars => BodyInv'
  BY BodyNext
<1> QED BY <1>1, BodyInit, SafetyAlways, PTL DEF Spec

(* Locks, marks and lists agree at all times, as long as no interrupt can      *)
(* stop a context inside wait: whoever executes the body of a monitor owns    *)
(* its lock and entered it once, and every list link is a live context that   *)
(* is suspended on that very object, so that a context which is destroyed     *)
(* leaves no link behind (PSMonitor, PSWait, MonitorExit, BreakLooseLK,       *)
(* BreakLooseCV).                                                           *)
THEOREM ListsSoundAlways ==
  ASSUME WaitsUninterrupted
  PROVE  Spec => []ListsSound
<1>1. SafetyInv /\ BodyInv => ListsSound
  <2> SUFFICES ASSUME SafetyInv, BodyInv PROVE ListsSound
    OBVIOUS
  <2>1. BodyOwnsLock
    BY DEF BodyInv, BodyOf, BodyOwnsLock
  <2>2. ASSUME NEW l \in Lock, NEW i \in 1 .. Len(waiters[l])
        PROVE  LET c == waiters[l][i] IN
                 /\ c \in live /\ at[c] \in Locking /\ pl[c] = l /\ lk[c] = l
                 /\ holder[l] # c
                 /\ \A j \in 1 .. Len(waiters[l]) : waiters[l][j] = c => i = j
    <3>1. Queued(waiters[l][i], l) /\ NoRepeat(waiters[l])
      BY DEF SafetyInv, LinkInv, Members
    <3>2. holder[l] # waiters[l][i]
      BY <3>1 DEF Queued, SafetyInv, SaverInv, Waits, WaitsWell
    <3> QED BY <3>1, <3>2 DEF Queued, NoRepeat
  <2>3. \A v \in Cond : \A c \in condWaiters[v] :
          c \in live /\ at[c] = "wait" /\ waitee[c] = v
    BY DEF SafetyInv, LinkInv, Parked
  <2> QED BY <2>1, <2>2, <2>3 DEF ListsSound
<1> QED BY <1>1, BodyAlways, PTL

-----------------------------------------------------------------------------
(***************************************************************************)
(* The refinement.  Every step is an entry of a monitor that nobody is in,    *)
(* or takes one context out of the monitors it was in, perhaps out of none.   *)
(***************************************************************************)
InsideLocks == [l \in Lock |-> Inside(l)]

AbstractEnter(c, l) ==
  /\ Inside(l) = {}
  /\ InsideLocks' = [InsideLocks EXCEPT ![l] = {c}]

AbstractLeave(c, L) ==
  /\ \A l \in L : c \in Inside(l)
  /\ InsideLocks' = [l \in Lock |-> IF l \in L THEN Inside(l) \ {c} ELSE Inside(l)]

LEMMA AbstractStep ==
  ASSUME NEW c \in Context,
         \/ \E l \in Lock : AbstractEnter(c, l)
         \/ \E L \in SUBSET Lock : AbstractLeave(c, L)
  PROVE  Abstract!Next
<1>1. ASSUME NEW l \in Lock, AbstractEnter(c, l) PROVE Abstract!Enter(c, l)
  BY <1>1 DEF AbstractEnter, InsideLocks, Abstract!Enter
<1>2. ASSUME NEW L \in SUBSET Lock, AbstractLeave(c, L) PROVE Abstract!Leave(c, L)
  BY <1>2 DEF AbstractLeave, InsideLocks, Abstract!Leave
<1> QED BY <1>1, <1>2 DEF Abstract!Next

\* The others stay where they are.
LEMMA OthersInside ==
  ASSUME TypeOK, NEW c \in Context, StaysOwn(c), NEW l \in Lock
  PROVE  Inside(l)' \ {c} = Inside(l) \ {c}
<1>1. \A d \in Context \ {c} : d \in live' <=> d \in live
  BY DEF StaysOwn
<1>2. live \subseteq Context /\ live' \subseteq Context
  BY DEF StaysOwn, TypeOK
<1>3. \A d \in Context \ {c} : /\ Count(frames'[d], l) > 0 <=> Count(frames[d], l) > 0
                               /\ GaveUp(d, l)' <=> GaveUp(d, l)
  BY DEF StaysOwn, GaveUp
<1> QED BY <1>1, <1>2, <1>3 DEF Inside, Marks, LocksOf

\* A step in which c enters nothing is a leave.
LEMMA LeaveStep ==
  ASSUME TypeOK, NEW c \in Context, StaysOwn(c),
         \A l \in Lock : c \in Inside(l)' => c \in Inside(l)
  PROVE  \E L \in SUBSET Lock : AbstractLeave(c, L)
<1> DEFINE L == {l \in Lock : c \in Inside(l) /\ c \notin Inside(l)'}
<1>1. ASSUME NEW l \in Lock
      PROVE  Inside(l)' = IF l \in L THEN Inside(l) \ {c} ELSE Inside(l)
  BY OthersInside
<1>2. L \in SUBSET Lock /\ \A l \in L : c \in Inside(l)
  OBVIOUS
<1> HIDE DEF L
<1>3. AbstractLeave(c, L)
  BY <1>1, <1>2 DEF AbstractLeave, InsideLocks
<1> QED BY <1>2, <1>3

\* Whoever takes a free lock finds nobody inside.
LEMMA EnterStep ==
  ASSUME TypeOK, BodyInv, NEW c \in Context, StaysOwn(c), NEW l \in Lock,
         holder[l] = NIL, c \in Inside(l)',
         \A k \in Lock \ {l} : c \in Inside(k)' <=> c \in Inside(k)
  PROVE  AbstractEnter(c, l)
<1>1. Inside(l) = {}
  BY ContextAssumption DEF BodyInv, BodyOf, Inside, TypeOK
<1>2. Inside(l)' = {c}
  BY <1>1, OthersInside
<1>3. \A k \in Lock \ {l} : Inside(k)' = Inside(k)
  BY OthersInside
<1> QED BY <1>1, <1>2, <1>3 DEF AbstractEnter, InsideLocks

\* One turn of AcquireLock's loop.
LEMMA AcquireStep ==
  ASSUME TypeOK, BodyInv, NEW c \in live, cur = c, StaysOwn(c), NEW l \in Lock,
         NEW point, NEW q, AcquireLock(c, l, point, q), live' = live,
         \A k \in Lock : GaveUp(c, k) => k = l /\ point = "reacquire",
         point = "reacquire" => InWait(c) /\ pl[c] = l,
         RefuseLock(c, l, q) => ~ InWait(c)
  PROVE  \/ \E k \in Lock : AbstractEnter(c, k)
         \/ \E L \in SUBSET Lock : AbstractLeave(c, L)
<1>0. c \in Context /\ c \in live'
  BY DEF TypeOK
<1>1. CASE TakeLock(c, l, point, q)
  <2>1. at'[c] = "ready" /\ \A k \in Lock : ~ GaveUp(c, k)'
    BY <1>0, <1>1 DEF TakeLock, Proceed, GaveUp, TypeOK
  <2>2. holder[l] = NIL
    BY <1>1 DEF TakeLock
  <2>3. CASE point = "acquire"
    <3>1. Push(c, l) /\ l \in Frame
      BY <1>1, <2>3 DEF TakeLock, Frame
    <3>2. \A k \in Lock : /\ Count(frames'[c], k)
                                = Count(frames[c], k) + (IF l = k THEN 1 ELSE 0)
                          /\ Count(frames[c], k) \in Nat
      BY <1>0, <3>1, PushMark
    <3>3. Count(frames'[c], l) > 0
      BY <3>2
    <3>4. \A k \in Lock \ {l} : Count(frames'[c], k) = Count(frames[c], k)
      BY <3>2
    <3>5. \A k \in Lock : ~ GaveUp(c, k)
      BY <2>3
    <3>6. c \in Inside(l)' /\ \A k \in Lock \ {l} : c \in Inside(k)' <=> c \in Inside(k)
      BY <1>0, <2>1, <3>3, <3>4, <3>5 DEF Inside, Marks, LocksOf
    <3> QED BY <1>0, <2>2, <3>6, EnterStep
  <2>4. CASE point # "acquire" /\ l \in Marks(c)
    <3>1. UNCHANGED frames
      BY <1>1, <2>4 DEF TakeLock
    <3>2. c \in Inside(l)' /\ \A k \in Lock \ {l} : c \in Inside(k)' <=> c \in Inside(k)
      BY <1>0, <2>1, <2>4, <3>1 DEF Inside, Marks, LocksOf
    <3> QED BY <1>0, <2>2, <3>2, EnterStep
  <2>5. CASE point # "acquire" /\ l \notin Marks(c)
    <3>1. UNCHANGED frames
      BY <1>1, <2>5 DEF TakeLock
    <3>2. \A k \in Lock : c \in Inside(k)' => c \in Inside(k)
      BY <1>0, <2>1, <2>5, <3>1 DEF Inside, Marks, LocksOf
    <3> QED BY <1>0, <3>2, LeaveStep
  <2> QED BY <2>3, <2>4, <2>5
<1>2. CASE QueueForLock(c, l, point, q)
  <2>1. at'[c] = point /\ pl'[c] = l /\ UNCHANGED frames
    BY <1>0, <1>2 DEF QueueForLock, Yield, TypeOK
  <2>2. \A k \in Lock : GaveUp(c, k) => GaveUp(c, k)'
    BY <2>1 DEF GaveUp
  <2>3. \A k \in Lock : c \in Inside(k)' => c \in Inside(k)
    BY <2>1, <2>2 DEF Inside, Marks, LocksOf
  <2> QED BY <1>0, <2>3, LeaveStep
<1>3. CASE RefuseLock(c, l, q)
  <2>1. UNCHANGED frames /\ \A k \in Lock : ~ GaveUp(c, k)
    BY <1>3 DEF RefuseLock, InWait, GaveUp
  <2>2. \A k \in Lock : c \in Inside(k)' => c \in Inside(k)
    BY <2>1 DEF Inside, Marks, LocksOf
  <2> QED BY <1>0, <2>2, LeaveStep
<1> QED BY <1>1, <1>2, <1>3 DEF AcquireLock

\* Marks that only go, of a context that gave none up.
LEMMA MarksGo ==
  ASSUME TypeOK, NEW c \in live, StaysOwn(c), ~ InWait(c),
         \A l \in Lock : Count(frames'[c], l) > 0 => Count(frames[c], l) > 0
  PROVE  \E L \in SUBSET Lock : AbstractLeave(c, L)
<1>1. \A l \in Lock : c \in Inside(l)' => c \in Inside(l)
  BY DEF Inside, Marks, LocksOf, GaveUp, InWait
<1> QED BY <1>1, LeaveStep DEF TypeOK

LEMMA StopLeaves ==
  ASSUME TypeOK, NEW c \in live, StaysOwn(c), StopContext(c) \/ Destroy(c),
         InWait(c) => Destroy(c)
  PROVE  \E L \in SUBSET Lock : AbstractLeave(c, L)
<1>1. c \in Context
  BY DEF TypeOK
<1>2. CASE Destroy(c)
  <2>1. \A l \in Lock : c \notin Inside(l)'
    BY <1>2 DEF Destroy, DestroyBase, Inside
  <2> QED BY <1>1, <2>1, LeaveStep
<1>3. CASE Escape /\ UNCHANGED monitorVars
  <2>1. \A l \in Lock : c \in Inside(l)' => c \in Inside(l)
    BY <1>3 DEF Escape, monitorVars, Inside, Marks, LocksOf, GaveUp
  <2> QED BY <1>1, <2>1, LeaveStep
<1>4. CASE UnwindToStopped(c) /\ Stopped(frames[c]) /\ ~ (Escape /\ UNCHANGED monitorVars)
           /\ ~ Destroy(c)
  <2>1. frames'[c] = Kept(frames[c])
    BY <1>1, <1>4 DEF UnwindToStopped, TypeOK
  <2>2. \A l \in Lock : Count(frames'[c], l) > 0 => Count(frames[c], l) > 0
    <3>1. \A l \in Lock : /\ Count(frames[c], l) = Count(frames'[c], l)
                                                     + Count(Unwound(frames[c]), l)
                          /\ Count(frames'[c], l) \in Nat
                          /\ Count(Unwound(frames[c]), l) \in Nat
      BY <1>1, <1>4, <2>1, KeptMark
    <3> QED BY <3>1
  <2> QED BY <1>4, <2>2, MarksGo
<1> QED BY <1>2, <1>3, <1>4 DEF StopContext

LEMMA StepRefines ==
  ASSUME WaitsUninterrupted, SafetyInv, BodyInv, NEW c \in Context,
         Operator(c) \/ Continue(c)
  PROVE  \/ \E l \in Lock : AbstractEnter(c, l)
         \/ \E L \in SUBSET Lock : AbstractLeave(c, L)
<1> USE DEF SafetyInv, TypeInv
<1>1. StaysOwn(c) /\ c \in live /\ cur = c
  BY OperatorStays, ContinueStays, RunningLives DEF StaysOwn
<1>2. CASE BaseOp(c)
  <2>1. ~ InWait(c)
    BY <1>2
       DEF BaseOp, Save, Restore, EnterStopped, EnterFont, EnterStroke, LeaveFrame,
           YieldSlice, Ready, At, InWait
  <2> QED BY <1>1, <1>2, <2>1, BaseMarks, MarksGo
<1>3. CASE Monitor(c) \/ PSAcquireLock(c)
  <2>1. /\ at[c] = "ready"
        /\ \E l \in Lock, point \in {"acquire", "custom"} : AcquireLock(c, l, point, waiters)
    BY <1>3 DEF Monitor, PSAcquireLock, Ready, At
  <2>2. ~ InWait(c) /\ \A k \in Lock : ~ GaveUp(c, k)
    BY <2>1 DEF InWait, GaveUp
  <2>3. live' = live
    BY <2>1 DEF AcquireLock, TakeLock, QueueForLock, RefuseLock, Proceed, Yield
  <2> QED BY <1>1, <2>1, <2>2, <2>3, AcquireStep
<1>4. CASE MonitorExit(c) \/ PSReleaseLock(c) \/ PSWait(c) \/ PSNotify(c) \/ Begin(c)
           \/ (Resume(c) /\ at[c] = "slice")
  <2>1. ~ InWait(c)
    BY <1>4
       DEF MonitorExit, PSReleaseLock, PSWait, PSNotify, Begin, Ready, At, InWait
  <2>2. CASE UNCHANGED frames
    BY <1>1, <2>1, <2>2, MarksGo
  <2>3. CASE MonitorExit(c)
    <3>1. \A l \in Lock : /\ Count(frames[c], l) = Count(frames'[c], l)
                                                     + (IF Top(c) = l THEN 1 ELSE 0)
                          /\ Count(frames'[c], l) \in Nat
      BY <2>3, PopMark DEF MonitorExit
    <3>2. \A l \in Lock : Count(frames'[c], l) > 0 => Count(frames[c], l) > 0
      BY <3>1
    <3> QED BY <1>1, <2>1, <3>2, MarksGo
  <2> QED
    BY <1>4, <2>2, <2>3 DEF PSReleaseLock, PSWait, PSNotify, Begin, Resume, Locking
<1>5. CASE Stop(c) \/ Quit(c)
  BY <1>1, <1>5, StopLeaves DEF Stop, Quit, Ready, At, InWait
<1>6. CASE Raised(c)
  <2>1. InWait(c) => Destroy(c)
    BY <1>6 DEF Raised, BodyInv, WaitsUninterrupted
  <2> QED BY <1>1, <1>6, <2>1, StopLeaves DEF Raised
<1>7. CASE Resume(c) /\ at[c] # "slice"
  <2>1. /\ Waits(c) /\ pl[c] \in Lock
        /\ \E point \in Locking, q \in [Lock -> Seq(Context)] :
             /\ AcquireLock(c, pl[c], point, q)
             /\ point = IF at[c] = "wait" THEN "reacquire" ELSE at[c]
    BY <1>7, ResumeAcquires DEF Waits
  <2>2. \A q : ~ RefuseLock(c, pl[c], q)
    BY <1>1, <2>1, NoRefusal
  <2>3. live' = live
    BY <2>1 DEF AcquireLock, TakeLock, QueueForLock, RefuseLock, Proceed, Yield
  <2> QED BY <1>1, <2>1, <2>2, <2>3, AcquireStep DEF GaveUp, InWait
<1> QED
  BY <1>2, <1>3, <1>4, <1>5, <1>6, <1>7 DEF Operator, Continue

LEMMA NextRefines ==
  ASSUME WaitsUninterrupted, SafetyInv, BodyInv, [Next]_vars
  PROVE  Abstract!Next \/ UNCHANGED InsideLocks
<1>1. ASSUME UNCHANGED <<live, frames, at, pl>> PROVE UNCHANGED InsideLocks
  BY <1>1 DEF InsideLocks, Inside, Marks, LocksOf, GaveUp
<1>2. CASE UNCHANGED vars
  BY <1>1, <1>2 DEF vars, baseVars, monitorVars
<1>3. ASSUME NEW c \in Context, Dispatch(c) \/ Signal(c) PROVE UNCHANGED InsideLocks
  BY <1>1, <1>3 DEF Dispatch, Signal, Schedule, Notify, monitorVars
<1>4. ASSUME NEW c \in Context, Operator(c) \/ Continue(c) PROVE Abstract!Next
  BY <1>4, StepRefines, AbstractStep
<1> QED BY <1>2, <1>3, <1>4 DEF Next

(* The monitor operators keep the promise of AbstractMonitor: the body of a   *)
(* monitor is entered only while nobody executes it, and left only by the      *)
(* context that is in it, through every end, exit, wait, stop and destruction  *)
(* (PSMonitor, MonitorExit, PSWait, the handlers of AcquireLock).             *)
THEOREM ImplementsMonitorAlways ==
  ASSUME WaitsUninterrupted
  PROVE  Spec => ImplementsMonitor
<1>1. Init => Abstract!Init
  <2> SUFFICES ASSUME Init PROVE Abstract!Init
    OBVIOUS
  <2>1. \A c \in Context : frames[c] = <<>>
    BY DEF Init, BaseInit
  <2>2. \A c \in Context : Marks(c) = {}
    BY <2>1, CountEmpty DEF Marks, LocksOf
  <2>3. \A l \in Lock : Inside(l) = {}
    BY <2>2 DEF Inside, Init, BaseInit
  <2> QED BY <2>3 DEF Abstract!Init
<1>2. SafetyInv /\ BodyInv /\ [Next]_vars => [Abstract!Next]_InsideLocks
  BY NextRefines
<1> QED BY <1>1, <1>2, BodyAlways, PTL DEF Spec, ImplementsMonitor, Abstract!Spec, InsideLocks

(* Two contexts never execute the body of monitors on one lock, through        *)
(* every wait, notification, stop and destruction: each would own it           *)
(* (contextimpl.c, PSMonitor).  The wake-ups hand nothing over, so this rests   *)
(* on every waiter testing the owner again when it runs (AcquireLock).          *)
THEOREM MutualExclusion ==
  ASSUME WaitsUninterrupted
  PROVE  Spec => []Abstract!OneInside
<1>1. BodyInv => Abstract!OneInside
  <2> SUFFICES ASSUME BodyInv, NEW l \in Lock, NEW c \in Inside(l), NEW d \in Inside(l)
               PROVE  c = d
    BY DEF Abstract!OneInside
  <2>1. ASSUME NEW e \in Inside(l) PROVE holder[l] = e
    BY <2>1 DEF Inside, BodyInv, BodyOf
  <2> QED BY <2>1
<1> QED BY <1>1, BodyAlways, PTL

-----------------------------------------------------------------------------
(***************************************************************************)
(* Nothing dangles.  A lock that is held has a mark on its owner's exec       *)
(* stack, which is what the destruction of the owner goes by; a lock that a   *)
(* custom operator took has none, so this needs ~ CustomOps.                  *)
(***************************************************************************)
HeldMarked(c) == \A l \in Lock : holder[l] = c => l \in Marks(c)

WaitMarked(c) == at[c] # "custom" /\ (InWait(c) => pl[c] \in Marks(c))

HolderInv ==
  /\ \A l \in Lock : holder[l] # NIL => holder[l] \in live
  /\ \A c \in live : HeldMarked(c) /\ WaitMarked(c)

LEMMA HeldAcquire ==
  ASSUME TypeOK, NEW c \in Context, HeldMarked(c), NEW l \in Lock,
         NEW point \in Locking \ {"custom"}, NEW q, AcquireLock(c, l, point, q),
         point = "reacquire" => l \in Marks(c)
  PROVE  HeldMarked(c)' /\ WaitMarked(c)'
<1>1. \A k \in Lock : Count(frames[c], k) \in Nat
  BY CountType DEF TypeOK
<1>2. CASE TakeLock(c, l, point, q)
  <2>1. at'[c] = "ready" /\ holder' = [holder EXCEPT ![l] = c]
    BY <1>2 DEF TakeLock, Proceed, TypeOK
  <2>2. \A k \in Lock : k \in Marks(c) \/ k = l => k \in Marks(c)'
    <3>1. CASE point = "acquire"
      <4>1. Push(c, l) /\ l \in Frame
        BY <1>2, <3>1 DEF TakeLock, Frame
      <4>2. \A k \in Lock : Count(frames'[c], k)
                              = Count(frames[c], k) + (IF l = k THEN 1 ELSE 0)
        BY <4>1, PushMark
      <4> QED BY <1>1, <4>2 DEF Marks, LocksOf
    <3>2. CASE point = "reacquire"
      <4>1. UNCHANGED frames
        BY <1>2, <3>2 DEF TakeLock
      <4> QED BY <3>2, <4>1 DEF Marks, LocksOf
    <3> QED BY <3>1, <3>2 DEF Locking
  <2> QED BY <2>1, <2>2 DEF HeldMarked, WaitMarked, InWait, TypeOK
<1>3. CASE QueueForLock(c, l, point, q)
  <2>1. at'[c] = point /\ pl'[c] = l /\ UNCHANGED <<holder, frames>>
    BY <1>3 DEF QueueForLock, Yield, TypeOK
  <2> QED BY <2>1 DEF HeldMarked, WaitMarked, InWait, Marks, LocksOf, Locking
<1>4. CASE RefuseLock(c, l, q)
  <2>1. at'[c] = "ready" /\ UNCHANGED <<holder, frames>>
    BY <1>4 DEF RefuseLock, Proceed, TypeOK
  <2> QED BY <2>1 DEF HeldMarked, WaitMarked, InWait, Marks, LocksOf
<1> QED BY <1>2, <1>3, <1>4 DEF AcquireLock

LEMMA HeldStop ==
  ASSUME TypeOK, NEW c \in Context, HeldMarked(c), WaitMarked(c),
         StopContext(c) \/ Destroy(c)
  PROVE  \/ c \notin live' /\ \A l \in Lock : holder'[l] # c
         \/ HeldMarked(c)' /\ WaitMarked(c)'
<1>0. c # NIL
  BY ContextAssumption
<1>1. CASE Destroy(c)
  BY <1>0, <1>1 DEF Destroy, DestroyBase, ReleaseLocks, HeldMarked
<1>2. CASE Escape /\ UNCHANGED monitorVars
  BY <1>2 DEF Escape, monitorVars, HeldMarked, WaitMarked, InWait, Marks, LocksOf
<1>3. CASE UnwindToStopped(c) /\ Stopped(frames[c]) /\ ~ (Escape /\ UNCHANGED monitorVars)
           /\ ~ Destroy(c)
  <2> DEFINE fs == Unwound(frames[c])
  <2>1. /\ ReleaseLocks(LocksOf(fs), BreakLooseLK(c)) /\ frames'[c] = Kept(frames[c])
        /\ at'[c] = "ready"
    BY <1>3 DEF UnwindToStopped, Proceed, TypeOK
  <2>2. \A l \in Lock : /\ Count(frames[c], l) = Count(frames'[c], l) + Count(fs, l)
                        /\ Count(frames'[c], l) \in Nat /\ Count(fs, l) \in Nat
    BY <1>3, <2>1, KeptMark
  <2> HIDE DEF fs
  <2>3. ASSUME NEW l \in Lock, holder'[l] = c PROVE Count(frames'[c], l) > 0
    <3>1. l \notin LocksOf(fs) /\ holder[l] = c
      BY <1>0, <2>1, <2>3 DEF ReleaseLocks
    <3>2. Count(frames[c], l) > 0 /\ ~ (Count(fs, l) > 0)
      BY <3>1 DEF HeldMarked, Marks, LocksOf
    <3> QED BY <2>2, <3>2
  <2> QED BY <2>1, <2>3 DEF HeldMarked, WaitMarked, InWait, Marks, LocksOf
<1> QED BY <1>1, <1>2, <1>3 DEF StopContext

LEMMA HeldOwn ==
  ASSUME ~ CustomOps, SafetyInv, HolderInv, NEW c \in Context, Operator(c) \/ Continue(c)
  PROVE  \/ c \notin live' /\ \A l \in Lock : holder'[l] # c
         \/ HeldMarked(c)' /\ WaitMarked(c)'
<1> USE DEF SafetyInv, TypeInv
<1>1. c \in live /\ HeldMarked(c) /\ WaitMarked(c) /\ c # NIL
  BY OperatorStays, ContinueStays, RunningLives, ContextAssumption
     DEF StaysOwn, HolderInv
<1>2. CASE BaseOp(c)
  <2>1. UNCHANGED monitorVars /\ at'[c] \in {"ready", "slice"}
    BY <1>2
       DEF BaseOp, Save, Restore, EnterStopped, EnterFont, EnterStroke, LeaveFrame,
           YieldSlice, Yield, Ready, At, TypeOK
  <2> QED
    BY <1>1, <1>2, <2>1, BaseMarks
       DEF HeldMarked, WaitMarked, InWait, Marks, LocksOf, monitorVars
<1>3. CASE Monitor(c)
  <2>1. PICK l \in Lock : AcquireLock(c, l, "acquire", waiters)
    BY <1>3 DEF Monitor
  <2> QED BY <1>1, <2>1, HeldAcquire DEF Locking
<1>4. CASE MonitorExit(c)
  <2>1. /\ frames[c] # <<>> /\ Top(c) \in Lock /\ Pop(c) /\ at'[c] = "ready"
        /\ \A l \in Lock : holder'[l] = c => holder[l] = c /\ l # Top(c)
    BY <1>1, <1>4 DEF MonitorExit, ReleaseLocks, Proceed, TypeOK
  <2>2. \A l \in Lock : /\ Count(frames[c], l) = Count(frames'[c], l)
                                                   + (IF Top(c) = l THEN 1 ELSE 0)
                        /\ Count(frames'[c], l) \in Nat
    BY <2>1, PopMark
  <2>3. \A l \in Lock \ {Top(c)} : Count(frames'[c], l) = Count(frames[c], l)
    BY <2>2
  <2> QED BY <1>1, <2>1, <2>3 DEF HeldMarked, WaitMarked, InWait, Marks, LocksOf
<1>5. CASE PSWait(c)
  <2>1. PICK l \in Lock : /\ holder[l] = c /\ ReleaseLocks({l}, waiters)
                          /\ pl' = [pl EXCEPT ![c] = l]
                          /\ \E woken : Yield(c, "wait", woken, FALSE)
    BY <1>5 DEF PSWait
  <2>2. /\ UNCHANGED frames /\ pl'[c] = l /\ at'[c] = "wait"
        /\ \A k \in Lock : holder'[k] = c => holder[k] = c
    BY <1>1, <1>5, <2>1 DEF PSWait, ReleaseLocks, Yield, TypeOK
  <2> QED BY <1>1, <2>1, <2>2 DEF HeldMarked, WaitMarked, InWait, Marks, LocksOf
<1>6. CASE PSNotify(c) \/ Begin(c) \/ (Resume(c) /\ at[c] = "slice")
  <2>1. UNCHANGED <<frames, holder>> /\ at'[c] = "ready"
    BY <1>6 DEF PSNotify, Begin, Resume, Proceed, monitorVars, Locking, TypeOK
  <2> QED BY <1>1, <2>1 DEF HeldMarked, WaitMarked, InWait, Marks, LocksOf
<1>7. CASE Stop(c) \/ Quit(c) \/ Raised(c)
  BY <1>1, <1>7, HeldStop DEF Stop, Quit, Raised
<1>8. CASE Resume(c) /\ at[c] # "slice"
  <2>1. /\ pl[c] \in Lock
        /\ \E point \in Locking, q \in [Lock -> Seq(Context)] :
             /\ AcquireLock(c, pl[c], point, q)
             /\ point = IF at[c] = "wait" THEN "reacquire" ELSE at[c]
    BY <1>8, ResumeAcquires
  <2> QED BY <1>1, <2>1, HeldAcquire DEF WaitMarked, InWait
<1>9. ~ PSAcquireLock(c) /\ ~ PSReleaseLock(c)
  BY DEF PSAcquireLock, PSReleaseLock
<1> QED
  BY <1>2, <1>3, <1>4, <1>5, <1>6, <1>7, <1>8, <1>9 DEF Operator, Continue

\* Only Destroy ends a context.
LEMMA EndsDestroyed ==
  ASSUME TypeInv, LinkInv, NEW c \in live, Operator(c) \/ Continue(c), c \notin live'
  PROVE  Destroy(c)
<1>1. ASSUME NEW l, NEW point, NEW q, AcquireLock(c, l, point, q) PROVE live' = live
  BY <1>1 DEF AcquireLock, TakeLock, QueueForLock, RefuseLock, Proceed, Yield
<1>2. CASE StopContext(c)
  BY <1>2 DEF StopContext, UnwindToStopped, Proceed, Escape
<1>3. CASE BaseOp(c)
  BY <1>3
     DEF BaseOp, Save, Restore, EnterStopped, EnterFont, EnterStroke, LeaveFrame,
         YieldSlice, Yield
<1>4. CASE Resume(c)
  BY <1>1, <1>4 DEF Resume, Proceed
<1> QED
  BY <1>1, <1>2, <1>3, <1>4
     DEF Operator, Continue, Monitor, MonitorExit, PSAcquireLock, PSReleaseLock, PSWait,
         PSNotify, Stop, Quit, Begin, Raised, Proceed, Yield

LEMMA HolderNext == ~ CustomOps /\ SafetyInv /\ HolderInv /\ [Next]_vars => HolderInv'
<1> SUFFICES ASSUME ~ CustomOps, SafetyInv, HolderInv, [Next]_vars PROVE HolderInv'
  OBVIOUS
<1> USE DEF SafetyInv, TypeInv
<1>1. CASE UNCHANGED <<live, frames, at, pl, holder>>
  BY <1>1 DEF HolderInv, HeldMarked, WaitMarked, Marks, LocksOf, InWait
<1>2. CASE UNCHANGED vars
  BY <1>1, <1>2 DEF vars, baseVars, monitorVars
<1>3. ASSUME NEW c \in Context, Dispatch(c) \/ Signal(c) PROVE HolderInv'
  BY <1>1, <1>3 DEF Dispatch, Signal, Schedule, Notify, monitorVars
<1>4. ASSUME NEW c \in Context, Operator(c) \/ Continue(c) PROVE HolderInv'
  <2>1. StaysOwn(c) /\ c \in live /\ c # NIL
    BY <1>4, OperatorStays, ContinueStays, RunningLives, ContextAssumption DEF StaysOwn
  <2>2. \/ c \notin live' /\ \A l \in Lock : holder'[l] # c
        \/ HeldMarked(c)' /\ WaitMarked(c)'
    BY <1>4, HeldOwn
  <2>3. ASSUME NEW l \in Lock, holder'[l] # NIL PROVE holder'[l] \in live'
    <3>1. c \notin live' => holder'[l] # c
      <4> SUFFICES ASSUME c \notin live' PROVE holder'[l] # c
        OBVIOUS
      <4>1. Destroy(c) /\ HeldMarked(c)
        BY <1>4, <2>1, EndsDestroyed DEF HolderInv
      <4> QED BY <2>1, <4>1 DEF Destroy, ReleaseLocks, HeldMarked
    <3> QED BY <2>1, <2>3, <3>1 DEF StaysOwn, HolderInv
  <2>4. ASSUME NEW d \in live' \ {c} PROVE HeldMarked(d)' /\ WaitMarked(d)'
    <3>1. d \in live /\ d \in Context /\ HeldMarked(d) /\ WaitMarked(d) /\ d # NIL
      BY <2>1, ContextAssumption DEF StaysOwn, HolderInv, TypeOK
    <3>2. \A l \in Lock : holder'[l] = d => holder[l] = d
      BY <2>1, <3>1 DEF StaysOwn
    <3>3. frames'[d] = frames[d] /\ at'[d] = at[d] /\ pl'[d] = pl[d]
      BY <2>1, <3>1 DEF StaysOwn
    <3> QED BY <3>1, <3>2, <3>3 DEF HeldMarked, WaitMarked, Marks, LocksOf, InWait
  <2> QED BY <2>2, <2>3, <2>4 DEF HolderInv
<1> QED BY <1>2, <1>3, <1>4 DEF Next

(* The semaphore of a space counts its save levels and the BuildChars and      *)
(* strokes in progress there, all of the one context that has the space to     *)
(* itself; and nothing that outlives a context names it: no lock, no exclusion *)
(* and no loaded statics, as long as custom operators take no locks           *)
(* (SpaceExclusionSemaphore, TotalExclusionSemaphore, DestroyPSContext).      *)
THEOREM SemaphoreBalancedAlways ==
  ASSUME ~ CustomOps
  PROVE  Spec => []SemaphoreBalanced
<1>1. Init => HolderInv
  <2> SUFFICES ASSUME Init PROVE HolderInv
    OBVIOUS
  <2>1. \A c \in Context : at[c] = "start" /\ c # NIL
    BY ContextAssumption DEF Init, BaseInit
  <2> QED BY <2>1 DEF Init, BaseInit, HolderInv, HeldMarked, WaitMarked, InWait
<1>2. SafetyInv /\ HolderInv /\ [Next]_vars => HolderInv'
  BY HolderNext
<1>3. SafetyInv /\ HolderInv => SemaphoreBalanced
  <2> SUFFICES ASSUME SafetyInv, HolderInv PROVE SemaphoreBalanced
    OBVIOUS
  <2>1. NothingDangles
    BY DEF NothingDangles, SafetyInv, LinkInv, SemInv, SpaceInv, TotalInv, HolderInv
  <2>2. ASSUME NEW s \in Space
        PROVE  /\ exclusive[s] = NIL <=> sem[s] = 0
               /\ exclusive[s] # NIL =>
                    /\ SpaceOf[exclusive[s]] = s
                    /\ sem[s] = level[s] + Count(frames[exclusive[s]], "font")
                                         + Count(frames[exclusive[s]], "stroke")
               /\ \A c \in live : SpaceOf[c] = s /\ c # exclusive[s] =>
                    Count(frames[c], "font") + Count(frames[c], "stroke") = 0
    <3>1. SpaceInv(s)
      BY DEF SafetyInv, SemInv
    <3>2. live \subseteq Context /\ level[s] \in Nat
      BY ContextAssumption DEF SafetyInv, TypeInv, TypeOK
    <3>3. \A c \in live : /\ Count(frames[c], "font") \in Nat
                          /\ Count(frames[c], "stroke") \in Nat
      BY <3>2, CountType DEF SafetyInv, TypeInv, TypeOK
    <3>4. /\ exclusive[s] = NIL <=> sem[s] = 0
          /\ exclusive[s] # NIL =>
               exclusive[s] \in live /\ SpaceOf[exclusive[s]] = s
      BY <3>1 DEF SpaceInv
    <3>5. ASSUME exclusive[s] # NIL
          PROVE  sem[s] = level[s] + Count(frames[exclusive[s]], "font")
                                   + Count(frames[exclusive[s]], "stroke")
      <4>1. sem[s] = level[s] + (Count(frames[exclusive[s]], "font")
                                  + Count(frames[exclusive[s]], "stroke"))
        BY <3>1, <3>5 DEF SpaceInv, Levels, Strokes
      <4> QED BY <3>2, <3>3, <3>4, <3>5, <4>1
    <3>6. \A c \in live : SpaceOf[c] = s /\ c # exclusive[s] =>
            Count(frames[c], "font") + Count(frames[c], "stroke") = 0
      BY <3>1 DEF SpaceInv, Levels, Strokes
    <3> QED BY <3>4, <3>5, <3>6
  <2> QED BY <2>1, <2>2 DEF SemaphoreBalanced
<1> QED BY <1>1, <1>2, <1>3, SafetyAlways, PTL DEF Spec
=============================================================================
