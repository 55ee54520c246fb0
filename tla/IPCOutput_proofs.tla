-------------------------- MODULE IPCOutput_proofs --------------------------
(***************************************************************************)
(* The proofs about the output stream of IPCOutput, for every set of contexts, *)
(* size of the buffer and limit of the kernel, and without hypotheses.          *)
(*                                                                         *)
(* IInv is inductive.  Its heart is StreamInv: as long as the client can get    *)
(* what is written, what it read, each message in its queue and the buffer are   *)
(* consecutive pieces (Span) of 1 .. written, and the stream's flag agrees with  *)
(* the kernel (Truth).  Neither holds without the other: with a wrong flag a     *)
(* message would be refused, and its items would be lost.  The pieces are given  *)
(* by a function of cuts, so a step is proved without a recursive definition;    *)
(* what Joined makes of them follows by an induction on their number, which is   *)
(* taken from the order of the naturals being well founded (SetInduction).       *)
(***************************************************************************)
EXTENDS IPCOutput, FiniteSetTheorems, SequenceTheorems, WellFoundedInduction, TLAPS

\* A message holds the items after a, up to b.
Span(a, b) == [i \in 1 .. b - a |-> a + i]

\* The client read r, q is queued, b in the buffer: together, the first n items.
InOrder(r, q, b, n) ==
  \E cut \in [1 .. Len(q) + 1 -> 0 .. n] :
    /\ r = Span(0, cut[1])
    /\ \A k \in 1 .. Len(q) : cut[k] <= cut[k + 1] /\ q[k] = Span(cut[k], cut[k + 1])
    /\ b = Span(cut[Len(q) + 1], n)

Accepted(ns) == {i \in DOMAIN ns : ns[i] = "accepted"}

\* The flag of a stream t, and the kernel's port p with the notices ns.
Truth(t, p, ns) ==
  /\ p.promised \/ Accepted(ns) # {} => t.notifyInProgress
  /\ Main \in alive /\ t.notifyInProgress => p.promised \/ Accepted(ns) # {}
  /\ p.promised => Accepted(ns) = {}
  /\ \A i, j \in Accepted(ns) : i = j
  /\ ~ t.error

Stream == [buf : Seq(Item), notifyInProgress : BOOLEAN, error : BOOLEAN, write : BOOLEAN]
Port == [queue : Seq(Seq(Item)), promised : BOOLEAN]

\* A stream t and a port p after n writes.
Good(t, p, n, ns, spoilt) ==
  /\ t \in Stream /\ Len(t.buf) <= BufSize
  /\ p \in Port /\ Len(p.queue) <= Backlog + IF p.promised THEN 1 ELSE 0
  /\ ~ clientGone /\ t.write /\ ~ spoilt =>
       Truth(t, p, ns) /\ InOrder(received, p.queue, t.buf, n)

StreamInv == Good(stm, port, written, notices, overtaken)

ProcInv ==
  /\ alive \in SUBSET Context
  /\ notified \cup waitNotify \cup wannaRun \subseteq alive
  /\ at \in [Context -> {"run", "blocked", "dead"}]
  /\ doing \in [Context -> {NIL, "flush", "put", "big", "events", "sent"}]
  /\ \A c \in Context : /\ c \notin alive => at[c] = "dead"
                        /\ at[c] # "blocked" => doing[c] = NIL
  /\ notices \in Seq({"accepted", "deleted"})
  /\ clientGone \in BOOLEAN /\ overtaken \in BOOLEAN

\* Every write that was begun has its number.
WriteInv == written \in Nat /\ written + Cardinality(Writing) <= MaxWrite

\* Every context of the stream has a reference.
RefInv ==
  /\ stmRef \in 0 .. MaxRef /\ Cardinality(alive \cap Programs) <= stmRef
  /\ stmRef > 0 => stm.write

-----------------------------------------------------------------------------
(* Sequences of items.                                                       *)

LEMMA SpanIs ==
  ASSUME NEW a \in Nat, NEW b \in Nat, a <= b
  PROVE  /\ Span(a, b) \in Seq(Nat) /\ Len(Span(a, b)) = b - a
         /\ \A i \in 1 .. b - a : Span(a, b)[i] = a + i
<1> DEFINE n == b - a
<1>1. n \in Nat
  OBVIOUS
<1> HIDE DEF n
<1>2. Span(a, b) = [i \in 1 .. n |-> a + i]
  BY DEF Span, n
<1>3. Span(a, b) \in [1 .. n -> Nat]
  BY <1>2
<1>4. Span(a, b) \in Seq(Nat) /\ Len(Span(a, b)) = n
  BY <1>1, <1>3
<1> QED BY <1>2, <1>4 DEF n

LEMMA SpanJoins ==
  ASSUME NEW a \in Nat, NEW b \in Nat, NEW c \in Nat, a <= b, b <= c
  PROVE  Span(a, b) \o Span(b, c) = Span(a, c)
<1> DEFINE s == Span(a, b)
           t == Span(b, c)
           u == Span(a, c)
<1>1. s \in Seq(Nat) /\ Len(s) = b - a /\ \A i \in 1 .. b - a : s[i] = a + i
  BY SpanIs
<1>2. t \in Seq(Nat) /\ Len(t) = c - b /\ \A i \in 1 .. c - b : t[i] = b + i
  BY SpanIs
<1>3. u \in Seq(Nat) /\ Len(u) = c - a /\ \A i \in 1 .. c - a : u[i] = a + i
  <2>1. a <= c
    OBVIOUS
  <2> QED BY <2>1, SpanIs
<1> HIDE DEF s, t, u
<1>4. /\ s \o t \in Seq(Nat) /\ Len(s \o t) = c - a
      /\ \A i \in 1 .. c - a : (s \o t)[i] = IF i <= b - a THEN s[i] ELSE t[i - (b - a)]
  <2>1. Len(s) + Len(t) = c - a
    BY <1>1, <1>2
  <2>2. /\ s \o t \in Seq(Nat) /\ Len(s \o t) = Len(s) + Len(t)
        /\ \A i \in 1 .. Len(s) + Len(t) : (s \o t)[i] = IF i <= Len(s) THEN s[i] ELSE t[i - Len(s)]
    BY <1>1, <1>2, ConcatProperties
  <2> QED BY <1>1, <2>1, <2>2
<1>5. ASSUME NEW i \in 1 .. c - a PROVE (s \o t)[i] = u[i]
  <2>1. CASE i <= b - a
    BY <1>1, <1>3, <1>4, <2>1
  <2>2. CASE ~ (i <= b - a)
    <3>1. i - (b - a) \in 1 .. c - b /\ b + (i - (b - a)) = a + i
      BY <2>2
    <3> QED BY <1>2, <1>3, <1>4, <2>2, <3>1
  <2> QED BY <2>1, <2>2
<1>6. s \o t = u
  BY <1>3, <1>4, <1>5, SeqEqual
<1> QED BY <1>6 DEF s, t, u

LEMMA SpanOne == ASSUME NEW a \in Nat PROVE <<a + 1>> = Span(a, a + 1) /\ <<>> = Span(a, a)
  BY DEF Span

\* The messages of q, from cut to cut.
Cuts(cut, q, n) ==
  /\ cut \in [1 .. Len(q) + 1 -> 0 .. n]
  /\ \A k \in 1 .. Len(q) : cut[k] <= cut[k + 1] /\ q[k] = Span(cut[k], cut[k + 1])

LEMMA InOrderSend ==
  ASSUME NEW r, NEW q, NEW b, NEW n \in Nat, q \in Seq(Seq(Item)), b \in Seq(Item), InOrder(r, q, b, n)
  PROVE  InOrder(r, Append(q, b), <<>>, n)
<1>1. PICK cut : Cuts(cut, q, n) /\ r = Span(0, cut[1]) /\ b = Span(cut[Len(q) + 1], n)
  BY DEF InOrder, Cuts
<1> DEFINE l == Len(q)
           f == [k \in 1 .. l + 2 |-> IF k = l + 2 THEN n ELSE cut[k]]
           p == Append(q, b)
<1>2. l \in Nat /\ Len(p) = l + 1 /\ p[l + 1] = b /\ \A k \in 1 .. l : p[k] = q[k]
  BY AppendProperties
<1>3. /\ cut \in [1 .. l + 1 -> 0 .. n] /\ r = Span(0, cut[1]) /\ b = Span(cut[l + 1], n)
      /\ \A k \in 1 .. l : cut[k] <= cut[k + 1] /\ q[k] = Span(cut[k], cut[k + 1])
  BY <1>1 DEF Cuts
<1>4. f \in [1 .. l + 2 -> 0 .. n] /\ f[l + 2] = n /\ \A k \in 1 .. l + 1 : f[k] = cut[k]
  BY <1>2, <1>3
<1> HIDE DEF f, p, l
<1>5. r = Span(0, f[1])
  BY <1>2, <1>3, <1>4
<1>6. ASSUME NEW k \in 1 .. l + 1 PROVE f[k] <= f[k + 1] /\ p[k] = Span(f[k], f[k + 1])
  <2>1. CASE k = l + 1
    <3>1. k + 1 = l + 2 /\ f[k] = cut[l + 1] /\ cut[l + 1] \in 0 .. n
      BY <1>2, <1>3, <1>4, <2>1
    <3> QED BY <1>2, <1>3, <1>4, <2>1, <3>1
  <2>2. CASE k \in 1 .. l
    <3>1. f[k] = cut[k] /\ f[k + 1] = cut[k + 1]
      BY <1>2, <1>4, <2>2
    <3> QED BY <1>2, <1>3, <2>2, <3>1
  <2> QED BY <1>2, <2>1, <2>2
<1>7. <<>> = Span(f[l + 2], n)
  BY <1>4, SpanOne
<1>8. Len(p) + 1 = l + 2
  BY <1>2
<1>9. InOrder(r, p, <<>>, n)
  BY <1>2, <1>4, <1>5, <1>6, <1>7, <1>8 DEF InOrder
<1> QED BY <1>9 DEF p

LEMMA InOrderPut ==
  ASSUME NEW r, NEW q, NEW b, NEW n \in Nat, q \in Seq(Seq(Item)), b \in Seq(Item), InOrder(r, q, b, n),
         n + 1 \in Item
  PROVE  InOrder(r, q, Append(b, n + 1), n + 1)
<1>1. PICK cut : Cuts(cut, q, n) /\ r = Span(0, cut[1]) /\ b = Span(cut[Len(q) + 1], n)
  BY DEF InOrder, Cuts
<1>2. Cuts(cut, q, n + 1) /\ cut[Len(q) + 1] \in 0 .. n
  <2>1. Len(q) + 1 \in 1 .. Len(q) + 1 /\ 0 .. n \subseteq 0 .. n + 1
    BY LenProperties
  <2>2. cut \in [1 .. Len(q) + 1 -> 0 .. n]
    BY <1>1 DEF Cuts
  <2>3. cut \in [1 .. Len(q) + 1 -> 0 .. n + 1]
    BY <2>1, <2>2
  <2> QED BY <1>1, <2>1, <2>2, <2>3 DEF Cuts
<1>3. PICK a \in Nat : a = cut[Len(q) + 1] /\ a <= n
  BY <1>2
<1>4. Append(b, n + 1) = b \o <<n + 1>>
  BY AppendIsConcat
<1>5. Span(a, n) \o Span(n, n + 1) = Span(a, n + 1)
  <2>1. n <= n + 1 /\ n + 1 \in Nat
    OBVIOUS
  <2> QED BY <1>3, <2>1, SpanJoins
<1>6. Append(b, n + 1) = Span(a, n + 1)
  BY <1>1, <1>3, <1>4, <1>5, SpanOne
<1> QED BY <1>1, <1>2, <1>3, <1>6 DEF InOrder, Cuts

LEMMA InOrderRead ==
  ASSUME NEW r, NEW q, NEW b, NEW n \in Nat, q \in Seq(Seq(Item)), q # <<>>, InOrder(r, q, b, n)
  PROVE  InOrder(r \o Head(q), Tail(q), b, n)
<1>1. PICK cut : Cuts(cut, q, n) /\ r = Span(0, cut[1]) /\ b = Span(cut[Len(q) + 1], n)
  BY DEF InOrder, Cuts
<1> DEFINE l == Len(q)
           t == Tail(q)
           f == [k \in 1 .. l |-> cut[k + 1]]
<1>2. l \in Nat \ {0} /\ Len(t) = l - 1 /\ (\A k \in 1 .. l - 1 : t[k] = q[k + 1]) /\ Head(q) = q[1]
  BY HeadTailProperties, LenProperties
<1>3. /\ cut \in [1 .. l + 1 -> 0 .. n] /\ r = Span(0, cut[1]) /\ b = Span(cut[l + 1], n)
      /\ \A k \in 1 .. l : cut[k] <= cut[k + 1] /\ q[k] = Span(cut[k], cut[k + 1])
  BY <1>1 DEF Cuts
<1>4. f \in [1 .. l -> 0 .. n] /\ \A k \in 1 .. l : f[k] = cut[k + 1]
  BY <1>2, <1>3
<1> HIDE DEF f, t, l
<1>5. r \o Head(q) = Span(0, f[1])
  <2>1. /\ 1 \in 1 .. l /\ 1 \in 1 .. l + 1 /\ 2 \in 1 .. l + 1 /\ 1 + 1 = 2
    BY <1>2
  <2>2. PICK a \in Nat, c \in Nat : a = cut[1] /\ c = cut[2]
    BY <1>3, <2>1
  <2>3. f[1] = c /\ a <= c /\ Head(q) = Span(a, c) /\ r = Span(0, a)
    BY <1>2, <1>3, <1>4, <2>1, <2>2
  <2>4. 0 \in Nat /\ 0 <= a
    BY <2>2
  <2>5. Span(0, a) \o Span(a, c) = Span(0, c)
    BY <2>3, <2>4, SpanJoins
  <2> QED BY <2>3, <2>5
<1>6. ASSUME NEW k \in 1 .. l - 1 PROVE f[k] <= f[k + 1] /\ t[k] = Span(f[k], f[k + 1])
  <2>1. k + 1 \in 1 .. l /\ k \in 1 .. l
    BY <1>2
  <2>2. f[k] = cut[k + 1] /\ f[k + 1] = cut[(k + 1) + 1] /\ t[k] = q[k + 1]
    BY <1>2, <1>4, <2>1
  <2> QED BY <1>3, <2>1, <2>2
<1>7. b = Span(f[l], n)
  BY <1>2, <1>3, <1>4
<1>8. Len(t) + 1 = l
  BY <1>2
<1>9. InOrder(r \o Head(q), t, b, n)
  BY <1>2, <1>4, <1>5, <1>6, <1>7, <1>8 DEF InOrder
<1> QED BY <1>9 DEF t

-----------------------------------------------------------------------------
(* What a recursive function computes: by induction, which is taken from the   *)
(* order of the naturals being well founded.                                 *)

LEMMA Least ==
  ASSUME NEW T, T \subseteq Nat, T # {}
  PROVE  \E n \in T : \A m \in T : ~ (m < n)
<1> DEFINE R == OpToRel(<, Nat)
<1>1. IsWellFoundedOn(R, Nat)
  BY NatLessThanWellFounded
<1>2. \A m, n \in Nat : m < n => <<m, n>> \in R
  BY DEF OpToRel
<1> HIDE DEF R
<1>3. \E n \in T : \A m \in T : ~ (<<m, n>> \in R)
  BY <1>1, WFMin
<1> QED BY <1>2, <1>3

LEMMA SetInduction ==
  ASSUME NEW S, 0 \in S, \A n \in Nat : n \in S => n + 1 \in S
  PROVE  Nat \subseteq S
<1> SUFFICES ASSUME Nat \ S # {} PROVE FALSE
  OBVIOUS
<1>1. PICK n \in Nat \ S : \A m \in Nat \ S : ~ (m < n)
  BY Least
<1>2. n # 0 /\ n - 1 \in Nat
  BY <1>1
<1>3. n - 1 \in S
  BY <1>1, <1>2
<1> QED BY <1>1, <1>2, <1>3

\* The function that Joined is defined by, up to the message l.
Joins(f, q, l) == f = [i \in 0 .. l |-> IF i = 0 THEN <<>> ELSE f[i - 1] \o q[i]]

LEMMA JoinsExists == \A q : \A l \in Nat : \E f : Joins(f, q, l)
<1> SUFFICES ASSUME NEW q PROVE \A l \in Nat : \E f : Joins(f, q, l)
  OBVIOUS
<1> DEFINE S == {l \in Nat : \E f : Joins(f, q, l)}
<1>1. 0 \in S
  <2> DEFINE f == [i \in 0 .. 0 |-> <<>>]
  <2>1. Joins(f, q, 0)
    BY DEF Joins
  <2> QED BY <2>1
<1>2. ASSUME NEW l \in Nat, l \in S PROVE l + 1 \in S
  <2>1. PICK f : Joins(f, q, l)
    BY <1>2
  <2> DEFINE g == [i \in 0 .. l + 1 |-> IF i = l + 1 THEN f[l] \o q[l + 1] ELSE f[i]]
  <2>2. ASSUME NEW i \in 0 .. l + 1 PROVE g[i] = IF i = 0 THEN <<>> ELSE g[i - 1] \o q[i]
    <3>1. CASE i = l + 1
      <4>1. l \in 0 .. l + 1 /\ l # l + 1 /\ i - 1 = l /\ i # 0
        BY <3>1
      <4>2. g[l] = f[l] /\ g[i] = f[l] \o q[l + 1]
        BY <3>1, <4>1
      <4> HIDE DEF g
      <4> QED BY <3>1, <4>1, <4>2
    <3>2. CASE i \in 0 .. l
      <4>1. g[i] = f[i]
        BY <3>2
      <4>2. i # 0 => g[i - 1] = f[i - 1]
        BY <3>2
      <4>3. f[i] = IF i = 0 THEN <<>> ELSE f[i - 1] \o q[i]
        BY <2>1, <3>2 DEF Joins
      <4> HIDE DEF g
      <4> QED BY <4>1, <4>2, <4>3
    <3> QED BY <3>1, <3>2
  <2>3. g = [i \in 0 .. l + 1 |-> g[i]]
    OBVIOUS
  <2> HIDE DEF g
  <2>4. Joins(g, q, l + 1)
    BY <2>2, <2>3 DEF Joins
  <2> QED BY <2>4
<1> HIDE DEF S
<1>3. Nat \subseteq S
  BY <1>1, <1>2, SetInduction
<1> QED BY <1>3 DEF S

LEMMA JoinedIs ==
  ASSUME NEW q, Len(q) \in Nat
  PROVE  \E f : Joins(f, q, Len(q)) /\ Joined(q) = f[Len(q)]
<1> DEFINE first == CHOOSE f : f = [i \in 0 .. Len(q) |-> IF i = 0 THEN <<>> ELSE f[i - 1] \o q[i]]
<1>1. \E f : f = [i \in 0 .. Len(q) |-> IF i = 0 THEN <<>> ELSE f[i - 1] \o q[i]]
  BY JoinsExists DEF Joins
<1>2. first = [i \in 0 .. Len(q) |-> IF i = 0 THEN <<>> ELSE first[i - 1] \o q[i]]
  BY <1>1
<1>3. Joined(q) = first[Len(q)]
  BY DEF Joined
<1> HIDE DEF first
<1> QED BY <1>2, <1>3 DEF Joins

LEMMA JoinedSpan ==
  ASSUME NEW q, Len(q) \in Nat, NEW n \in Nat, NEW cut, Cuts(cut, q, n)
  PROVE  cut[1] <= cut[Len(q) + 1] /\ Joined(q) = Span(cut[1], cut[Len(q) + 1])
<1> DEFINE l == Len(q)
<1>1. PICK f : Joins(f, q, l) /\ Joined(q) = f[l]
  BY JoinedIs
<1>2. /\ l \in Nat /\ cut \in [1 .. l + 1 -> 0 .. n]
      /\ \A k \in 1 .. l : cut[k] <= cut[k + 1] /\ q[k] = Span(cut[k], cut[k + 1])
  BY DEF Cuts
<1> HIDE DEF l
<1> DEFINE S == {k \in Nat : k <= l => cut[1] <= cut[k + 1] /\ f[k] = Span(cut[1], cut[k + 1])}
<1>3. 0 \in S
  <2>1. f[0] = <<>> /\ cut[1] \in Nat
    BY <1>1, <1>2 DEF Joins
  <2> QED BY <2>1, SpanOne
<1>4. ASSUME NEW k \in Nat, k \in S, k + 1 <= l
      PROVE  cut[1] <= cut[(k + 1) + 1] /\ f[k + 1] = Span(cut[1], cut[(k + 1) + 1])
  <2>1. k + 1 \in 0 .. l /\ k + 1 # 0 /\ (k + 1) - 1 = k
    BY <1>2, <1>4
  <2>2. f[k + 1] = f[k] \o q[k + 1]
    BY <1>1, <2>1 DEF Joins
  <2>3. PICK a \in Nat, b \in Nat, c \in Nat : a = cut[1] /\ b = cut[k + 1] /\ c = cut[(k + 1) + 1]
    BY <1>2, <1>4
  <2>4. a <= b /\ f[k] = Span(a, b)
    BY <1>2, <1>4, <2>3
  <2>5. b <= c /\ q[k + 1] = Span(b, c)
    BY <1>2, <1>4, <2>3
  <2>6. Span(a, b) \o Span(b, c) = Span(a, c)
    BY <2>4, <2>5, SpanJoins
  <2>7. a <= c
    BY <2>4, <2>5
  <2> QED BY <2>2, <2>3, <2>4, <2>5, <2>6, <2>7
<1>5. \A k \in Nat : k \in S => k + 1 \in S
  BY <1>4
<1>6. Nat \subseteq S
  <2> HIDE DEF S
  <2> QED BY <1>3, <1>5, SetInduction
<1>7. l \in S
  BY <1>2, <1>6
<1>8. cut[1] <= cut[l + 1] /\ f[l] = Span(cut[1], cut[l + 1])
  BY <1>2, <1>7
<1> QED BY <1>1, <1>8 DEF l

LEMMA InOrderIs ==
  ASSUME NEW r, NEW q, Len(q) \in Nat, NEW b, NEW n \in Nat, InOrder(r, q, b, n)
  PROVE  (r \o Joined(q)) \o b = [i \in 1 .. n |-> i]
<1>1. PICK cut : Cuts(cut, q, n) /\ r = Span(0, cut[1]) /\ b = Span(cut[Len(q) + 1], n)
  BY DEF InOrder, Cuts
<1>2. PICK a \in Nat, c \in Nat : a = cut[1] /\ c = cut[Len(q) + 1] /\ c <= n
  BY <1>1 DEF Cuts
<1>3. a <= c /\ Joined(q) = Span(a, c)
  BY <1>1, <1>2, JoinedSpan
<1>4. 0 \in Nat /\ 0 <= a /\ 0 <= c /\ a <= c /\ c <= n
  BY <1>2, <1>3
<1>5. Span(0, a) \o Span(a, c) = Span(0, c) /\ Span(0, c) \o Span(c, n) = Span(0, n)
  BY <1>4, SpanJoins
<1>6. Span(0, n) = [i \in 1 .. n |-> i]
  BY DEF Span
<1> QED BY <1>1, <1>2, <1>3, <1>5, <1>6

-----------------------------------------------------------------------------
(* The stream and the kernel's port.                                         *)

View == [ret : {"done", "yield", "failed"}, stm : Stream, port : Port]

\* p with what is sent to it: it is accepted, perhaps with a promise.
Takes(p, q, msg) ==
  /\ ~ clientGone /\ q.queue = Append(p.queue, msg)
  /\ \/ Len(p.queue) < Backlog /\ q.promised = p.promised
     \/ Len(p.queue) >= Backlog /\ ~ p.promised /\ q.promised

LEMMA TakenIs ==
  ASSUME NEW p \in Port, NEW msg \in Seq(Item), clientGone \in BOOLEAN
  PROVE  /\ Taken(p, msg) \in Port
         /\ Answer(p) = "success" => Takes(p, Taken(p, msg), msg) /\ Len(p.queue) < Backlog
                                     /\ Taken(p, msg).promised = p.promised
         /\ Answer(p) = "will_notify" => Takes(p, Taken(p, msg), msg) /\ Taken(p, msg).promised
         /\ Answer(p) \notin {"success", "will_notify"} =>
              Taken(p, msg) = p /\ (clientGone \/ p.promised)
<1> USE OutputAssumption
<1>1. p.queue \in Seq(Seq(Item)) /\ Len(p.queue) \in Nat
  BY LenProperties DEF Port
<1>2. Append(p.queue, msg) \in Seq(Seq(Item))
  BY <1>1, AppendProperties
<1>3. CASE ~ clientGone /\ Len(p.queue) < Backlog
  <2>1. Answer(p) = "success"
    BY <1>3 DEF Answer
  <2> DEFINE m == Append(p.queue, msg)
             q == [p EXCEPT !.queue = m]
  <2>2. Taken(p, msg) = q
    BY <2>1 DEF Taken
  <2> HIDE DEF m
  <2>3. q \in Port /\ q.queue = m /\ q.promised = p.promised
    BY <1>2 DEF Port, m
  <2> HIDE DEF q
  <2> QED BY <1>3, <2>1, <2>2, <2>3 DEF Takes, m
<1>4. CASE ~ clientGone /\ ~ (Len(p.queue) < Backlog) /\ ~ p.promised
  <2>0. Len(p.queue) >= Backlog
    BY <1>1, <1>4
  <2>1. Answer(p) = "will_notify"
    BY <1>1, <1>4 DEF Answer
  <2>2. Taken(p, msg) = [queue |-> Append(p.queue, msg), promised |-> TRUE]
    BY <2>1 DEF Taken
  <2> DEFINE m == Append(p.queue, msg)
             q == [queue |-> m, promised |-> TRUE]
  <2> HIDE DEF m
  <2>3. q \in Port /\ q.queue = m /\ q.promised = TRUE
    BY <1>2 DEF Port, m
  <2>4. Taken(p, msg) = q
    BY <2>2 DEF m
  <2> HIDE DEF q, OutputAssumption
  <2>5. Takes(p, q, msg)
    BY <1>4, <2>0, <2>3 DEF Takes, m
  <2> QED BY <2>1, <2>3, <2>4, <2>5
<1>5. CASE clientGone \/ (~ (Len(p.queue) < Backlog) /\ p.promised)
  <2>1. Answer(p) \in {"dead", "in_progress"}
    BY <1>1, <1>5 DEF Answer
  <2>2. Taken(p, msg) = p
    BY <2>1 DEF Taken
  <2>3. clientGone \/ p.promised
    BY <1>5
  <2>4. Answer(p) # "success" /\ Answer(p) # "will_notify"
    BY <2>1
  <2> HIDE OutputAssumption
  <2> QED BY <2>2, <2>3, <2>4
<1> HIDE OutputAssumption
<1> QED BY <1>3, <1>4, <1>5

\* IPCFlushOutput does nothing, sends the buffer, or finds an error.
LEMMA FlushedIs ==
  ASSUME NEW s \in View, NEW y \in BOOLEAN, clientGone \in BOOLEAN
  PROVE  LET r == Flushed(s, y) t == s.stm u == r.stm IN
         /\ r \in View
         /\ u.write = t.write
         /\ \/ /\ u = t /\ r.port = s.port
               /\ ~ t.write \/ t.buf = <<>> \/ (t.notifyInProgress /\ r.ret # "done")
            \/ /\ t.write /\ ~ t.notifyInProgress /\ u.buf = <<>> /\ u.error = t.error
               /\ Takes(s.port, r.port, t.buf)
               /\ \/ ~ u.notifyInProgress /\ r.port.promised = s.port.promised
                  \/ u.notifyInProgress /\ r.port.promised /\ (y => r.ret = "yield")
            \/ /\ t.write /\ ~ t.notifyInProgress /\ u.buf = t.buf
               /\ r.port = s.port /\ r.ret = "failed" /\ (clientGone \/ s.port.promised)
<1> DEFINE r == Flushed(s, y)
           t == s.stm
<1>1. t \in Stream /\ s.port \in Port /\ s.ret \in {"done", "yield", "failed"}
  BY DEF View
<1>2. CASE ~ t.write \/ t.buf = <<>>
  <2>1. r = [s EXCEPT !.ret = "done"]
    BY <1>2 DEF Flushed
  <2> QED BY <1>2, <2>1 DEF View
<1>3. CASE t.write /\ t.buf # <<>> /\ t.notifyInProgress
  <2> DEFINE w == IF y THEN "yield" ELSE "failed"
  <2>1. r = [s EXCEPT !.ret = w]
    BY <1>3 DEF Flushed
  <2>2. w \in {"yield", "failed"}
    OBVIOUS
  <2> HIDE DEF w
  <2>3. r \in View /\ r.stm = t /\ r.port = s.port /\ r.ret # "done"
    BY <2>1, <2>2 DEF View
  <2> QED BY <1>3, <2>3
<1>4. ASSUME t.write, t.buf # <<>>, ~ t.notifyInProgress
      PROVE  /\ r \in View /\ r.stm.write = t.write
             /\ \/ /\ r.stm.buf = <<>> /\ r.stm.error = t.error /\ Takes(s.port, r.port, t.buf)
                   /\ \/ ~ r.stm.notifyInProgress /\ r.port.promised = s.port.promised
                      \/ r.stm.notifyInProgress /\ r.port.promised /\ (y => r.ret = "yield")
                \/ /\ r.stm.buf = t.buf /\ r.port = s.port /\ r.ret = "failed"
                   /\ clientGone \/ s.port.promised
  <2> DEFINE p == Taken(s.port, t.buf)
             a == [t EXCEPT !.buf = <<>>]
             b == [t EXCEPT !.buf = <<>>, !.notifyInProgress = TRUE]
             w == IF y THEN "yield" ELSE "done"
             c == [t EXCEPT !.error = TRUE]
  <2>0. t.buf \in Seq(Item) /\ <<>> \in Seq(Item)
    BY <1>1 DEF Stream
  <2>1. p \in Port
    BY <1>1, <2>0, TakenIs
  <2>2. /\ a \in Stream /\ a.buf = <<>> /\ a.error = t.error /\ a.write = t.write
        /\ a.notifyInProgress = t.notifyInProgress
    BY <1>1, <2>0 DEF Stream
  <2>3. /\ b \in Stream /\ b.buf = <<>> /\ b.error = t.error /\ b.write = t.write /\ b.notifyInProgress
    BY <1>1, <2>0 DEF Stream
  <2>4. c \in Stream /\ c.buf = t.buf /\ c.write = t.write
    BY <1>1, <2>0 DEF Stream
  <2>5. CASE Answer(s.port) = "success"
    <3>1. r = [ret |-> "done", stm |-> a, port |-> p]
      BY <1>4, <2>5 DEF Flushed
    <3>2. Takes(s.port, p, t.buf) /\ p.promised = s.port.promised
      BY <1>1, <2>0, <2>5, TakenIs
    <3> HIDE DEF a, p, r
    <3>3. r.stm = a /\ r.port = p /\ r.ret = "done" /\ r \in View
      BY <2>1, <2>2, <3>1 DEF View
    <3> QED BY <1>4, <2>2, <3>2, <3>3
  <2>6. CASE Answer(s.port) = "will_notify"
    <3>1. r = [ret |-> w, stm |-> b, port |-> p]
      BY <1>4, <2>6 DEF Flushed
    <3>2. Takes(s.port, p, t.buf) /\ p.promised
      BY <1>1, <2>0, <2>6, TakenIs
    <3>3. w \in {"done", "yield"} /\ (y => w = "yield")
      OBVIOUS
    <3> HIDE DEF b, p, w, r
    <3>4. r.stm = b /\ r.port = p /\ r.ret = w /\ r \in View
      BY <2>1, <2>3, <3>1, <3>3 DEF View
    <3> QED BY <1>4, <2>3, <3>2, <3>3, <3>4
  <2>7. CASE Answer(s.port) \notin {"success", "will_notify"}
    <3>1. r = [s EXCEPT !.ret = "failed", !.stm.error = TRUE]
      BY <1>4, <2>7 DEF Flushed
    <3>2. r.ret = "failed" /\ r.stm = c /\ r.port = s.port /\ r \in View
      <4>1. r = [s EXCEPT !.ret = "failed", !.stm = c]
        BY <3>1
      <4> HIDE DEF c, r
      <4> QED BY <2>4, <4>1 DEF View
    <3>3. clientGone \/ s.port.promised
      BY <1>1, <2>0, <2>7, TakenIs
    <3> HIDE DEF c, r
    <3> QED BY <2>4, <3>2, <3>3
  <2> QED BY <2>5, <2>6, <2>7
<1> HIDE DEF r
<1> QED BY <1>2, <1>3, <1>4 DEF r

\* Flushing keeps the order, and finds no error as long as the flag is right.
LEMMA FlushedGood ==
  ASSUME NEW s \in View, NEW y \in BOOLEAN, NEW n \in Nat, NEW ns, NEW o \in BOOLEAN, clientGone \in BOOLEAN,
         Good(s.stm, s.port, n, ns, o)
  PROVE  /\ Flushed(s, y) \in View
         /\ Good(Flushed(s, y).stm, Flushed(s, y).port, n, ns, o)
         /\ Flushed(s, y).stm.write = s.stm.write
         /\ Flushed(s, y).ret = "done" /\ s.stm.write => Flushed(s, y).stm.buf = <<>>
<1> DEFINE r == Flushed(s, y)
           t == s.stm
           u == r.stm
           p == s.port
           q == r.port
<1>1. /\ r \in View /\ u.write = t.write
      /\ \/ /\ u = t /\ q = p
            /\ ~ t.write \/ t.buf = <<>> \/ (t.notifyInProgress /\ r.ret # "done")
         \/ /\ t.write /\ ~ t.notifyInProgress /\ u.buf = <<>> /\ u.error = t.error
            /\ Takes(p, q, t.buf)
            /\ \/ ~ u.notifyInProgress /\ q.promised = p.promised
               \/ u.notifyInProgress /\ q.promised /\ (y => r.ret = "yield")
         \/ /\ t.write /\ ~ t.notifyInProgress /\ u.buf = t.buf
            /\ q = p /\ r.ret = "failed" /\ (clientGone \/ p.promised)
  BY FlushedIs
<1>2. t \in Stream /\ p \in Port /\ u \in Stream /\ q \in Port
  BY <1>1 DEF View
<1> HIDE DEF r, t, p, u, q
<1>3. /\ Len(t.buf) <= BufSize /\ Len(p.queue) <= Backlog + IF p.promised THEN 1 ELSE 0
      /\ ~ clientGone /\ t.write /\ ~ o => Truth(t, p, ns) /\ InOrder(received, p.queue, t.buf, n)
  BY DEF Good, t, p
<1>4. Good(t, p, n, ns, o)
  BY DEF t, p
<1>5. CASE /\ t.write /\ ~ t.notifyInProgress /\ u.buf = <<>> /\ u.error = t.error
           /\ Takes(p, q, t.buf)
           /\ \/ ~ u.notifyInProgress /\ q.promised = p.promised
              \/ u.notifyInProgress /\ q.promised
  <2>1. p.queue \in Seq(Seq(Item)) /\ t.buf \in Seq(Item) /\ Len(p.queue) \in Nat
    BY <1>2, LenProperties DEF Stream, Port
  <2>2. q.queue = Append(p.queue, t.buf) /\ Len(q.queue) = Len(p.queue) + 1
    BY <1>5, <2>1, AppendProperties DEF Takes
  <2>3. Len(u.buf) <= BufSize /\ Len(q.queue) <= Backlog + IF q.promised THEN 1 ELSE 0
    <3>1. Len(u.buf) = 0 /\ Backlog \in Nat /\ BufSize \in Nat
      BY <1>5, OutputAssumption
    <3>2. CASE Len(p.queue) < Backlog
      BY <2>1, <2>2, <3>1, <3>2
    <3>3. CASE Len(p.queue) >= Backlog /\ ~ p.promised /\ q.promised
      BY <1>3, <2>1, <2>2, <3>1, <3>3
    <3> QED BY <1>5, <3>2, <3>3 DEF Takes
  <2>4. ASSUME ~ clientGone, t.write, ~ o PROVE Truth(u, q, ns) /\ InOrder(received, q.queue, u.buf, n)
    <3>1. Truth(t, p, ns) /\ InOrder(received, p.queue, t.buf, n)
      BY <1>3, <2>4
    <3>2. InOrder(received, Append(p.queue, t.buf), <<>>, n)
      BY <2>1, <3>1, InOrderSend
    <3>3. ~ p.promised /\ Accepted(ns) = {}
      BY <1>5, <3>1 DEF Truth
    <3>4. Truth(u, q, ns)
      BY <1>5, <3>1, <3>3 DEF Truth
    <3> QED BY <1>5, <2>2, <3>2, <3>4
  <2>5. Good(u, q, n, ns, o)
    BY <1>1, <1>2, <1>5, <2>3, <2>4 DEF Good
  <2> QED BY <1>1, <1>5, <2>5 DEF r, t, p, u, q
<1>6. CASE /\ t.write /\ ~ t.notifyInProgress /\ u.buf = t.buf
           /\ q = p /\ r.ret = "failed" /\ (clientGone \/ p.promised)
  <2>1. clientGone \/ o
    BY <1>3, <1>6 DEF Truth
  <2>2. u.write = t.write /\ Len(u.buf) <= BufSize /\ ~ (~ clientGone /\ u.write /\ ~ o)
    BY <1>1, <1>3, <1>6, <2>1
  <2>3. Len(q.queue) <= Backlog + IF q.promised THEN 1 ELSE 0
    BY <1>3, <1>6
  <2>4. ~ clientGone /\ u.write /\ ~ o => Truth(u, q, ns) /\ InOrder(received, q.queue, u.buf, n)
    BY <2>2
  <2>5. Good(u, q, n, ns, o)
    BY <1>2, <2>2, <2>3, <2>4 DEF Good
  <2> QED BY <1>1, <1>6, <2>5 DEF r, t, p, u, q
<1>7. CASE u = t /\ q = p /\ (~ t.write \/ t.buf = <<>> \/ (t.notifyInProgress /\ r.ret # "done"))
  <2>1. Good(u, q, n, ns, o)
    BY <1>4, <1>7
  <2>2. r.ret = "done" /\ t.write => u.buf = <<>>
    BY <1>7
  <2>3. r \in View /\ u.write = t.write
    BY <1>1
  <2> QED BY <2>1, <2>2, <2>3 DEF r, t, p, u, q
<1>8. \/ u = t /\ q = p /\ (~ t.write \/ t.buf = <<>> \/ (t.notifyInProgress /\ r.ret # "done"))
      \/ /\ t.write /\ ~ t.notifyInProgress /\ u.buf = <<>> /\ u.error = t.error
         /\ Takes(p, q, t.buf)
         /\ \/ ~ u.notifyInProgress /\ q.promised = p.promised
            \/ u.notifyInProgress /\ q.promised
      \/ /\ t.write /\ ~ t.notifyInProgress /\ u.buf = t.buf
         /\ q = p /\ r.ret = "failed" /\ (clientGone \/ p.promised)
  BY <1>1
<1> QED BY <1>5, <1>6, <1>7, <1>8

LEMMA PutGood ==
  ASSUME NEW s \in View, NEW n \in Nat, NEW ns, NEW o \in BOOLEAN, n + 1 \in Item,
         Good(s.stm, s.port, n, ns, o), Len(s.stm.buf) < BufSize
  PROVE  /\ Put(s, n + 1) \in View /\ Put(s, n + 1).port = s.port
         /\ Put(s, n + 1).stm.write = s.stm.write
         /\ Good(Put(s, n + 1).stm, s.port, n + 1, ns, o)
<1> DEFINE r == Put(s, n + 1)
           t == s.stm
           b == Append(t.buf, n + 1)
           u == [t EXCEPT !.buf = b]
           p == s.port
<1>1. t \in Stream /\ p \in Port /\ t.buf \in Seq(Item) /\ p.queue \in Seq(Seq(Item))
  BY DEF View, Stream, Port
<1>2. b \in Seq(Item) /\ Len(b) = Len(t.buf) + 1 /\ Len(t.buf) \in Nat
  BY <1>1, AppendProperties, LenProperties
<1>3. r = [s EXCEPT !.stm = u]
  BY DEF Put
<1> HIDE DEF b
<1>4. /\ u \in Stream /\ u.buf = b /\ u.error = t.error /\ u.write = t.write
      /\ u.notifyInProgress = t.notifyInProgress
  BY <1>1, <1>2 DEF Stream
<1> HIDE DEF u, r
<1>5. r \in View /\ r.stm = u /\ r.port = p
  BY <1>3, <1>4 DEF View
<1>6. Len(b) <= BufSize
  BY <1>2, OutputAssumption
<1> HIDE DEF p, t
<1>7. /\ Len(p.queue) <= Backlog + IF p.promised THEN 1 ELSE 0
      /\ ~ clientGone /\ t.write /\ ~ o => Truth(t, p, ns) /\ InOrder(received, p.queue, t.buf, n)
  BY DEF Good, t, p
<1>8. ASSUME ~ clientGone, t.write, ~ o PROVE Truth(u, p, ns) /\ InOrder(received, p.queue, u.buf, n + 1)
  <2>1. Truth(t, p, ns) /\ InOrder(received, p.queue, t.buf, n)
    BY <1>7, <1>8
  <2>2. InOrder(received, p.queue, Append(t.buf, n + 1), n + 1)
    BY <1>1, <2>1, InOrderPut
  <2>3. Truth(u, p, ns)
    BY <1>4, <2>1 DEF Truth
  <2> QED BY <1>4, <2>2, <2>3 DEF b
<1>9. Good(u, p, n + 1, ns, o)
  BY <1>1, <1>4, <1>6, <1>7, <1>8 DEF Good
<1> QED BY <1>4, <1>5, <1>9 DEF r, p, t

\* The large message on an empty buffer: it is out of order only behind the flag.
LEMMA LargeGood ==
  ASSUME NEW t, NEW p, NEW n \in Nat, NEW ns, NEW o \in BOOLEAN, n + 1 \in Item, clientGone \in BOOLEAN,
         Good(t, p, n, ns, o), t.buf = <<>>,
         NEW u, u = IF Answer(p) = "will_notify" THEN [t EXCEPT !.notifyInProgress = TRUE] ELSE t
  PROVE  u.write = t.write /\ Good(u, Taken(p, <<n + 1>>), n + 1, ns, o \/ t.notifyInProgress)
<1> DEFINE q == Taken(p, <<n + 1>>)
           a == Answer(p)
<1>1. t \in Stream /\ p \in Port /\ p.queue \in Seq(Seq(Item)) /\ <<n + 1>> \in Seq(Item)
  BY DEF Good, Port
<1>2. /\ q \in Port
      /\ a = "success" => Takes(p, q, <<n + 1>>) /\ Len(p.queue) < Backlog /\ q.promised = p.promised
      /\ a = "will_notify" => Takes(p, q, <<n + 1>>) /\ q.promised
      /\ a \notin {"success", "will_notify"} => q = p /\ (clientGone \/ p.promised)
  BY <1>1, TakenIs
<1>3. /\ Len(t.buf) <= BufSize /\ Len(p.queue) <= Backlog + IF p.promised THEN 1 ELSE 0
      /\ ~ clientGone /\ t.write /\ ~ o => Truth(t, p, ns) /\ InOrder(received, p.queue, t.buf, n)
  BY DEF Good
<1> HIDE DEF q, a
<1>4. /\ u \in Stream /\ u.buf = <<>> /\ u.error = t.error /\ u.write = t.write
      /\ u.notifyInProgress = (a = "will_notify" \/ t.notifyInProgress)
  BY <1>1 DEF Stream, a
<1>5. Len(q.queue) <= Backlog + IF q.promised THEN 1 ELSE 0
  <2>1. Len(p.queue) \in Nat /\ Backlog \in Nat
    BY <1>1, LenProperties, OutputAssumption
  <2>2. Takes(p, q, <<n + 1>>) => Len(q.queue) = Len(p.queue) + 1
    BY <1>1, AppendProperties DEF Takes
  <2>3. CASE Takes(p, q, <<n + 1>>)
    <3>1. CASE Len(p.queue) < Backlog
      BY <2>1, <2>2, <2>3, <3>1
    <3>2. CASE Len(p.queue) >= Backlog /\ ~ p.promised /\ q.promised
      BY <1>3, <2>1, <2>2, <2>3, <3>2
    <3> QED BY <2>3, <3>1, <3>2 DEF Takes
  <2>4. CASE q = p
    BY <1>3, <2>4
  <2> QED BY <1>2, <2>3, <2>4
<1>6. ASSUME ~ clientGone, t.write, ~ o, ~ t.notifyInProgress
      PROVE  Truth(u, q, ns) /\ InOrder(received, q.queue, u.buf, n + 1)
  <2>1. Truth(t, p, ns) /\ InOrder(received, p.queue, <<>>, n)
    BY <1>3, <1>6
  <2>2. ~ p.promised /\ Accepted(ns) = {}
    BY <1>6, <2>1 DEF Truth
  <2>3. Takes(p, q, <<n + 1>>) /\ (a = "success" \/ a = "will_notify")
    BY <1>2, <1>6, <2>2
  <2>4. InOrder(received, p.queue, Append(<<>>, n + 1), n + 1)
    <3>1. <<>> \in Seq(Item)
      OBVIOUS
    <3> QED BY <1>1, <2>1, <3>1, InOrderPut
  <2>5. Append(<<>>, n + 1) = <<n + 1>>
    OBVIOUS
  <2>6. InOrder(received, Append(p.queue, <<n + 1>>), <<>>, n + 1)
    <3>1. n + 1 \in Nat /\ InOrder(received, p.queue, <<n + 1>>, n + 1)
      BY <2>4, <2>5
    <3> QED BY <1>1, <3>1, InOrderSend
  <2>7. InOrder(received, q.queue, u.buf, n + 1)
    BY <1>4, <2>3, <2>6 DEF Takes
  <2>8. CASE a = "success"
    <3>1. ~ u.notifyInProgress /\ ~ q.promised
      BY <1>2, <1>4, <1>6, <2>2, <2>8
    <3>2. Truth(u, q, ns)
      BY <1>4, <2>1, <2>2, <3>1 DEF Truth
    <3> QED BY <2>7, <3>2
  <2>9. CASE a = "will_notify"
    <3>1. u.notifyInProgress /\ q.promised
      BY <1>2, <1>4, <2>9
    <3>2. Truth(u, q, ns)
      BY <1>4, <2>1, <2>2, <3>1 DEF Truth
    <3> QED BY <2>7, <3>2
  <2> QED BY <2>3, <2>8, <2>9
<1>7. Good(u, q, n + 1, ns, o \/ t.notifyInProgress)
  BY <1>1, <1>2, <1>3, <1>4, <1>5, <1>6 DEF Good
<1> QED BY <1>4, <1>7 DEF q

LEMMA RaisedGood ==
  ASSUME NEW t, NEW p, NEW n, NEW ns, NEW o, NEW w, NEW u \in Raised(t, w), Good(t, p, n, ns, o)
  PROVE  u.write = t.write /\ Good(u, p, n, ns, o)
<1>1. CASE u = t
  BY <1>1
<1>2. CASE u = [t EXCEPT !.error = FALSE]
  <2>1. t \in Stream
    BY DEF Good
  <2>2. /\ u \in Stream /\ u.buf = t.buf /\ u.write = t.write /\ u.error = FALSE
        /\ u.notifyInProgress = t.notifyInProgress
    BY <1>2, <2>1 DEF Stream
  <2>3. Truth(t, p, ns) => Truth(u, p, ns)
    BY <2>2 DEF Truth
  <2> QED BY <2>2, <2>3 DEF Good
<1> QED BY <1>1, <1>2 DEF Raised

-----------------------------------------------------------------------------
(* The steps of the writers.                                                 *)

IInv == ProcInv /\ StreamInv /\ WriteInv /\ RefInv

\* The stream after a step that leaves the client, and who is alive, alone.
StreamStep == Good(stm', port', written', notices', overtaken')

LEMMA NowIs == IInv => Now \in View /\ Now.stm = stm /\ Now.port = port /\ Now.ret = "done"
                       /\ Good(Now.stm, Now.port, written, notices, overtaken)
  BY DEF IInv, StreamInv, Good, Now, View

\* What c is doing after its step, and whether its write was accepted.
FlushEffect(c, what) ==
  \/ Block(c, what) /\ written' = written
  \/ /\ Return(c) \/ Block(c, "sent")
     /\ written' = written \/ (what \in {"put", "big"} /\ written' = written + 1)

LEMMA FlushAndGood ==
  ASSUME IInv, NEW c \in Context, NEW what, FlushAnd(c, what), notices' = notices,
         what \in {"put", "big"} => written + 1 \in Item
  PROVE  StreamStep /\ stm'.write = stm.write /\ FlushEffect(c, what) /\ overtaken' \in BOOLEAN
<1> DEFINE s == Flushed(Now, TRUE)
<1>1. /\ clientGone \in BOOLEAN /\ overtaken \in BOOLEAN /\ written \in Nat
  BY DEF IInv, ProcInv, WriteInv
<1>2. /\ s \in View /\ Good(s.stm, s.port, written, notices, overtaken)
      /\ s.stm.write = stm.write
      /\ s.ret = "done" /\ stm.write => s.stm.buf = <<>>
  <2>1. Now \in View /\ Now.stm = stm /\ Good(Now.stm, Now.port, written, notices, overtaken)
    BY NowIs
  <2>2. /\ s \in View /\ Good(s.stm, s.port, written, notices, overtaken)
        /\ s.stm.write = Now.stm.write
        /\ s.ret = "done" /\ Now.stm.write => s.stm.buf = <<>>
    BY <1>1, <2>1, FlushedGood
  <2> QED BY <2>1, <2>2
<1> DEFINE Yields == s.ret = "yield"
           Puts == s.ret = "done" /\ what = "put" /\ s.stm.write
           Sends == s.ret = "done" /\ what = "big" /\ s.stm.write
<1>3. CASE Yields
  <2>1. /\ Block(c, what) /\ stm' = s.stm /\ port' = s.port /\ written' = written
        /\ overtaken' = overtaken
    BY <1>3 DEF FlushAnd
  <2> HIDE DEF s
  <2> QED BY <1>1, <1>2, <2>1 DEF StreamStep, FlushEffect
<1>4. CASE ~ Yields /\ Puts
  <2>1. /\ Return(c) /\ stm' = Put(s, written + 1).stm /\ port' = s.port /\ written' = written + 1
        /\ overtaken' = overtaken
    BY <1>4 DEF FlushAnd, NextItem, Accept
  <2> HIDE DEF s
  <2>2. Len(s.stm.buf) < BufSize
    <3>1. s.stm.buf = <<>>
      BY <1>2, <1>4
    <3>2. 0 < BufSize
      BY OutputAssumption
    <3> QED BY <3>1, <3>2
  <2>3. Good(Put(s, written + 1).stm, s.port, written + 1, notices, overtaken)
        /\ Put(s, written + 1).stm.write = s.stm.write
    BY <1>1, <1>2, <1>4, <2>2, PutGood
  <2> QED BY <1>1, <1>2, <1>4, <2>1, <2>3 DEF StreamStep, FlushEffect
<1>5. CASE ~ Yields /\ ~ Puts /\ Sends
  <2>1. SendLarge(c, s)
    BY <1>5 DEF FlushAnd
  <2> HIDE DEF s
  <2>2. /\ port' = Taken(s.port, <<written + 1>>) /\ written' = written + 1
        /\ overtaken' = (overtaken \/ s.stm.notifyInProgress)
        /\ stm' = IF Answer(s.port) = "will_notify" THEN [s.stm EXCEPT !.notifyInProgress = TRUE]
                  ELSE s.stm
        /\ Return(c) \/ Block(c, "sent")
    BY <2>1 DEF SendLarge, NextItem, Accept
  <2>3. s.stm.buf = <<>> /\ written + 1 \in Item
    BY <1>2, <1>5
  <2>4. /\ stm'.write = s.stm.write
        /\ Good(stm', Taken(s.port, <<written + 1>>), written + 1, notices,
                overtaken \/ s.stm.notifyInProgress)
    BY <1>1, <1>2, <2>2, <2>3, LargeGood
  <2>5. (overtaken \/ s.stm.notifyInProgress) \in BOOLEAN
    BY <1>1, <1>2 DEF Good, Stream
  <2> QED BY <1>2, <1>5, <2>2, <2>4, <2>5 DEF StreamStep, FlushEffect
<1>6. CASE ~ Yields /\ ~ Puts /\ ~ Sends
  <2>1. /\ Return(c) /\ port' = s.port /\ written' = written /\ overtaken' = overtaken
        /\ stm' \in IF s.ret = "failed" THEN Raised(s.stm, what) ELSE {s.stm}
    BY <1>6 DEF FlushAnd
  <2> HIDE DEF s
  <2>2. stm'.write = s.stm.write /\ Good(stm', s.port, written, notices, overtaken)
    <3>1. CASE stm' \in Raised(s.stm, what)
      BY <1>2, <3>1, RaisedGood
    <3>2. CASE stm' = s.stm
      BY <1>2, <3>2
    <3> QED BY <2>1, <3>1, <3>2
  <2> QED BY <1>1, <1>2, <2>1, <2>2 DEF StreamStep, FlushEffect
<1> QED BY <1>3, <1>4, <1>5, <1>6

\* StreamStep is what StreamInv' says.
LEMMA StreamNext ==
  ASSUME StreamStep, clientGone' = clientGone, received' = received,
         Main \in alive' => Main \in alive
  PROVE  StreamInv'
<1>1. Truth(stm', port', notices') => Truth(stm, port, notices)'
  BY DEF Truth, Accepted
<1>2. InOrder(received, port'.queue, stm'.buf, written') => InOrder(received, port.queue, stm.buf, written)'
  BY DEF InOrder
<1>3. /\ stm' \in Stream /\ Len(stm'.buf) <= BufSize
      /\ port' \in Port /\ Len(port'.queue) <= Backlog + IF port'.promised THEN 1 ELSE 0
      /\ ~ clientGone /\ stm'.write /\ ~ overtaken' =>
           Truth(stm', port', notices') /\ InOrder(received, port'.queue, stm'.buf, written')
  BY DEF StreamStep, Good
<1>4. Stream' = Stream /\ Port' = Port
  BY DEF Stream, Port
<1> QED BY <1>1, <1>2, <1>3, <1>4 DEF StreamInv, Good

-----------------------------------------------------------------------------
(* The bounds on writes and references.                                      *)

Work == {NIL, "flush", "put", "big", "events", "sent"}

\* c may still have a write accepted.
Room(c) == written + Cardinality(Writing \ {c}) < MaxWrite

LEMMA WritingFinite ==
  /\ IsFiniteSet(Writing) /\ Cardinality(Writing) \in Nat
  /\ \A c : IsFiniteSet(Writing \ {c}) /\ Cardinality(Writing \ {c}) \in Nat
<1>1. IsFiniteSet(Writing)
  BY OutputAssumption, FS_Subset DEF Writing
<1>2. ASSUME NEW c PROVE IsFiniteSet(Writing \ {c})
  BY <1>1, FS_Subset
<1> QED BY <1>1, <1>2, FS_CardinalityType

LEMMA RoomItem == ASSUME IInv, NEW c, Room(c) PROVE written + 1 \in Item
<1>1. written \in Nat /\ MaxWrite \in Nat /\ Cardinality(Writing \ {c}) \in Nat
  BY WritingFinite, OutputAssumption DEF IInv, WriteInv
<1> QED BY <1>1 DEF Room, Item

LEMMA RoomRunning == ASSUME IInv, NEW c, Running(c), CanWrite PROVE Room(c)
<1>1. c \notin Writing
  BY OutputAssumption DEF IInv, ProcInv, Running, Writing
<1>2. Writing \ {c} = Writing
  BY <1>1
<1> QED BY <1>2 DEF CanWrite, Room

LEMMA RoomResume ==
  ASSUME IInv, NEW c \in Context, doing[c] \in {"put", "big"} PROVE Room(c)
<1>1. c \in Writing
  BY DEF Writing
<1>2. Cardinality(Writing \ {c}) = Cardinality(Writing) - 1
  BY <1>1, WritingFinite, FS_RemoveElement
<1>3. written \in Nat /\ MaxWrite \in Nat /\ Cardinality(Writing) \in Nat
      /\ written + Cardinality(Writing) <= MaxWrite
  BY WritingFinite, OutputAssumption DEF IInv, WriteInv
<1> QED BY <1>2, <1>3 DEF Room

LEMMA RoomAlways == ASSUME IInv, NEW c PROVE written + Cardinality(Writing \ {c}) <= MaxWrite
<1>1. Cardinality(Writing \ {c}) <= Cardinality(Writing)
  BY WritingFinite, FS_Subset
<1>2. written \in Nat /\ MaxWrite \in Nat /\ Cardinality(Writing) \in Nat
      /\ written + Cardinality(Writing) <= MaxWrite /\ Cardinality(Writing \ {c}) \in Nat
  BY WritingFinite, OutputAssumption DEF IInv, WriteInv
<1> QED BY <1>1, <1>2

LEMMA EffectProc ==
  ASSUME IInv, NEW c \in alive, NEW what \in Work, FlushEffect(c, what), overtaken' \in BOOLEAN,
         alive' = alive, notified' = notified, wannaRun' \subseteq wannaRun,
         notices' = notices, clientGone' = clientGone
  PROVE  ProcInv'
<1>1. ProcInv
  BY DEF IInv
<1>2. /\ waitNotify' \subseteq alive
      /\ \E a \in {"run", "blocked"} :
           \E w \in Work :
             at' = [at EXCEPT ![c] = a] /\ doing' = [doing EXCEPT ![c] = w] /\ (a # "blocked" => w = NIL)
  BY <1>1 DEF ProcInv, FlushEffect, Return, Block, Work
<1>a. PICK a \in {"run", "blocked"} :
        \E w \in Work :
          at' = [at EXCEPT ![c] = a] /\ doing' = [doing EXCEPT ![c] = w] /\ (a # "blocked" => w = NIL)
  BY <1>2
<1>3. PICK w \in Work :
        at' = [at EXCEPT ![c] = a] /\ doing' = [doing EXCEPT ![c] = w] /\ (a # "blocked" => w = NIL)
  BY <1>a
<1>b. /\ at \in [Context -> {"run", "blocked", "dead"}] /\ doing \in [Context -> Work]
      /\ alive \in SUBSET Context /\ c \in Context
      /\ \A d \in Context : (d \notin alive => at[d] = "dead") /\ (at[d] # "blocked" => doing[d] = NIL)
  BY <1>1 DEF ProcInv, Work
<1>c. a \in {"run", "blocked", "dead"} /\ w \in Work
  OBVIOUS
<1>4. at' \in [Context -> {"run", "blocked", "dead"}]
  BY <1>b, <1>c, <1>3
<1>5. doing' \in [Context -> Work]
  BY <1>b, <1>c, <1>3
<1>6. ASSUME NEW d \in Context
      PROVE  (d \notin alive => at'[d] = "dead") /\ (at'[d] # "blocked" => doing'[d] = NIL)
  <2>1. CASE d = c
    <3>1. at'[d] = a /\ doing'[d] = w
      BY <1>b, <1>3, <2>1
    <3>2. d \in alive
      BY <2>1
    <3> QED BY <1>3, <3>1, <3>2
  <2>2. CASE d # c
    <3>1. at'[d] = at[d] /\ doing'[d] = doing[d]
      BY <1>b, <1>3, <2>2
    <3> QED BY <1>b, <3>1
  <2> QED BY <2>1, <2>2
<1> QED BY <1>1, <1>2, <1>4, <1>5, <1>6 DEF ProcInv, Work

LEMMA EffectWrite ==
  ASSUME IInv, NEW c \in Context, NEW what \in Work, FlushEffect(c, what),
         what \in {"put", "big"} => Room(c)
  PROVE  WriteInv'
<1> DEFINE rest == Writing \ {c}
<1>1. /\ IsFiniteSet(rest) /\ Cardinality(rest) \in Nat /\ written \in Nat /\ MaxWrite \in Nat
      /\ c \notin rest
  BY WritingFinite, OutputAssumption DEF IInv, WriteInv
<1>2. doing \in [Context -> Work]
  BY DEF IInv, ProcInv, Work
<1>3. ASSUME NEW w, w \notin {"put", "big"}, doing' = [doing EXCEPT ![c] = w] PROVE Writing' = rest
  BY <1>2, <1>3 DEF Writing
<1>4. ASSUME NEW w, w \in {"put", "big"}, doing' = [doing EXCEPT ![c] = w] PROVE Writing' = rest \cup {c}
  BY <1>2, <1>4 DEF Writing
<1>5. written + Cardinality(rest) <= MaxWrite
  BY RoomAlways
<1>6. what \in {"put", "big"} => written + Cardinality(rest) < MaxWrite
  BY DEF Room
<1> HIDE DEF rest
<1>7. CASE Block(c, what) /\ written' = written
  <2>1. CASE what \in {"put", "big"}
    <3>1. Writing' = rest \cup {c}
      BY <1>4, <1>7, <2>1 DEF Block
    <3>2. Cardinality(rest \cup {c}) = Cardinality(rest) + 1
      BY <1>1, FS_AddElement
    <3> QED BY <1>1, <1>6, <1>7, <2>1, <3>1, <3>2 DEF WriteInv
  <2>2. CASE what \notin {"put", "big"}
    <3>1. Writing' = rest
      BY <1>3, <1>7, <2>2 DEF Block
    <3> QED BY <1>1, <1>5, <1>7, <3>1 DEF WriteInv
  <2> QED BY <2>1, <2>2
<1>8. CASE /\ Return(c) \/ Block(c, "sent")
           /\ written' = written \/ (what \in {"put", "big"} /\ written' = written + 1)
  <2>1. Writing' = rest
    <3>1. CASE Return(c)
      <4>1. NIL \notin {"put", "big"}
        BY OutputAssumption
      <4> QED BY <1>3, <3>1, <4>1 DEF Return
    <3>2. CASE Block(c, "sent")
      BY <1>3, <3>2 DEF Block
    <3> QED BY <1>8, <3>1, <3>2
  <2> QED BY <1>1, <1>5, <1>6, <1>8, <2>1 DEF WriteInv
<1> QED BY <1>7, <1>8 DEF FlushEffect

\* Whatever the operator, emptying the buffer and going on keeps the invariant.
LEMMA FlushStep ==
  ASSUME IInv, NEW c \in alive, NEW what \in Work, FlushAnd(c, what),
         what \in {"put", "big"} => Room(c), wannaRun' \subseteq wannaRun,
         UNCHANGED <<alive, notified, stmRef, env, received>>
  PROVE  IInv'
<1>1. c \in Context
  BY DEF IInv, ProcInv
<1>2. notices' = notices /\ clientGone' = clientGone /\ received' = received /\ alive' = alive
      /\ notified' = notified /\ stmRef' = stmRef
  BY DEF env
<1>3. what \in {"put", "big"} => written + 1 \in Item
  BY RoomItem
<1>4. StreamStep /\ stm'.write = stm.write /\ FlushEffect(c, what) /\ overtaken' \in BOOLEAN
  BY <1>1, <1>2, <1>3, FlushAndGood
<1>5. StreamInv'
  BY <1>2, <1>4, StreamNext
<1>6. ProcInv'
  BY <1>2, <1>4, EffectProc
<1>7. WriteInv'
  BY <1>1, <1>4, EffectWrite
<1>8. RefInv'
  <2>1. Programs' = Programs
    BY DEF Programs
  <2> QED BY <1>2, <1>4, <2>1 DEF IInv, RefInv
<1> QED BY <1>5, <1>6, <1>7, <1>8 DEF IInv

\* A step that moves no context.
LEMMA CalmStep ==
  ASSUME IInv, StreamStep, stm'.write = stm.write, overtaken' = overtaken,
         written' = written \/ (CanWrite /\ written' = written + 1),
         UNCHANGED <<procs, stmRef, env, received>>
  PROVE  IInv'
<1>1. /\ notices' = notices /\ clientGone' = clientGone /\ received' = received /\ alive' = alive
      /\ notified' = notified /\ stmRef' = stmRef /\ at' = at /\ doing' = doing
      /\ waitNotify' = waitNotify /\ wannaRun' = wannaRun
  BY DEF env, procs
<1>2. StreamInv'
  BY <1>1, StreamNext
<1>3. ProcInv'
  BY <1>1 DEF IInv, ProcInv
<1>4. WriteInv'
  <2>1. Writing' = Writing
    BY <1>1 DEF Writing
  <2>2. /\ Cardinality(Writing) \in Nat /\ written \in Nat /\ MaxWrite \in Nat
        /\ written + Cardinality(Writing) <= MaxWrite
    BY WritingFinite, OutputAssumption DEF IInv, WriteInv
  <2> QED BY <2>1, <2>2 DEF CanWrite, WriteInv
<1>5. RefInv'
  <2>1. Programs' = Programs
    BY DEF Programs
  <2> QED BY <1>1, <2>1 DEF IInv, RefInv
<1> QED BY <1>2, <1>3, <1>4, <1>5 DEF IInv

LEMMA WriteItem == ASSUME IInv, CanWrite PROVE written + 1 \in Item
<1>1. written \in Nat /\ MaxWrite \in Nat /\ Cardinality(Writing) \in Nat
  BY WritingFinite, OutputAssumption DEF IInv, WriteInv
<1> QED BY <1>1 DEF CanWrite, Item

LEMMA RunningAlive == ASSUME IInv, NEW c, Running(c) PROVE c \in alive /\ c \in Context
  BY DEF IInv, ProcInv, Running

LEMMA WriteStep == ASSUME IInv, NEW c \in Context, Write(c) PROVE IInv'
<1>1. c \in alive /\ Running(c) /\ CanWrite
  BY RunningAlive DEF Write
<1>2. UNCHANGED <<alive, notified, wannaRun, stmRef, env, received>>
  BY DEF Write, quiet
<1>3. Good(stm, port, written, notices, overtaken) /\ written \in Nat /\ overtaken \in BOOLEAN
  BY DEF IInv, StreamInv, WriteInv, ProcInv
<1>4. CASE stm.error
  <2>1. /\ stm' \in Raised(stm, "put")
        /\ UNCHANGED <<at, doing, waitNotify, port, deferred, written, overtaken>>
    BY <1>4 DEF Write
  <2>2. stm'.write = stm.write /\ Good(stm', port, written, notices, overtaken)
    BY <1>3, <2>1, RaisedGood
  <2>3. StreamStep
    BY <1>2, <2>1, <2>2 DEF StreamStep, env
  <2>4. UNCHANGED <<procs, stmRef, env, received>>
    BY <1>2, <2>1 DEF procs
  <2> QED BY <2>1, <2>2, <2>3, <2>4, CalmStep
<1>5. CASE ~ stm.error /\ Len(stm.buf) < BufSize
  <2>1. /\ stm' = Put(Now, written + 1).stm /\ written' = written + 1
        /\ UNCHANGED <<at, doing, waitNotify, port, deferred, overtaken>>
    BY <1>5 DEF Write, Accept, NextItem
  <2>2. /\ Now \in View /\ Now.stm = stm /\ Now.port = port
        /\ Good(Now.stm, Now.port, written, notices, overtaken)
    BY NowIs
  <2>3. written + 1 \in Item
    BY <1>1, WriteItem
  <2>4. stm'.write = stm.write /\ Good(stm', port, written + 1, notices, overtaken)
    <3>1. /\ Put(Now, written + 1).stm.write = Now.stm.write
          /\ Good(Put(Now, written + 1).stm, Now.port, written + 1, notices, overtaken)
      BY <1>3, <1>5, <2>2, <2>3, PutGood
    <3> QED BY <2>1, <2>2, <3>1
  <2>5. StreamStep
    BY <1>2, <2>1, <2>4 DEF StreamStep, env
  <2>6. UNCHANGED <<procs, stmRef, env, received>>
    BY <1>2, <2>1 DEF procs
  <2> QED BY <1>1, <2>1, <2>4, <2>5, <2>6, CalmStep
<1>6. CASE ~ stm.error /\ ~ (Len(stm.buf) < BufSize)
  <2>1. FlushAnd(c, "put")
    BY <1>6 DEF Write
  <2>2. Room(c)
    BY <1>1, RoomRunning
  <2>3. "put" \in Work /\ wannaRun' \subseteq wannaRun
    BY <1>2 DEF Work
  <2> QED BY <1>1, <1>2, <2>1, <2>2, <2>3, FlushStep
<1> QED BY <1>4, <1>5, <1>6

LEMMA FlushingStep ==
  ASSUME IInv, NEW c \in Context, WriteLarge(c) \/ Flush(c) \/ EndFlush(c) PROVE IInv'
<1>1. c \in alive /\ Running(c)
  BY RunningAlive DEF WriteLarge, Flush, EndFlush
<1>2. UNCHANGED <<alive, notified, wannaRun, stmRef, env, received>> /\ wannaRun' \subseteq wannaRun
  BY DEF WriteLarge, Flush, EndFlush, quiet
<1>3. CASE WriteLarge(c)
  <2>1. FlushAnd(c, "big") /\ CanWrite
    BY <1>3 DEF WriteLarge
  <2>2. Room(c) /\ "big" \in Work
    BY <1>1, <2>1, RoomRunning DEF Work
  <2> QED BY <1>1, <1>2, <2>1, <2>2, FlushStep
<1>4. CASE Flush(c)
  <2>1. FlushAnd(c, "flush") /\ "flush" \in Work
    BY <1>4 DEF Flush, Work
  <2> QED BY <1>1, <1>2, <2>1, FlushStep
<1>5. CASE EndFlush(c)
  <2>1. FlushAnd(c, "events") /\ "events" \in Work
    BY <1>5 DEF EndFlush, Work
  <2> QED BY <1>1, <1>2, <2>1, FlushStep
<1> QED BY <1>3, <1>4, <1>5

LEMMA ResumeStep == ASSUME IInv, NEW c \in Context, Resume(c) PROVE IInv'
<1>1. c \in alive /\ doing[c] \in Work
  BY DEF IInv, ProcInv, Resume, Work
<1>2. UNCHANGED <<alive, notified, stmRef, env, received>> /\ wannaRun' \subseteq wannaRun
  BY DEF Resume
<1>3. CASE doing[c] = "sent"
  <2>1. Return(c) /\ UNCHANGED <<stm, port, deferred, written, overtaken>>
    BY <1>3 DEF Resume
  <2>2. FlushEffect(c, doing[c])
    BY <2>1 DEF FlushEffect
  <2>3. notices' = notices /\ clientGone' = clientGone /\ received' = received
    BY <1>2 DEF env
  <2>4. StreamStep
    BY <2>1, <2>3 DEF StreamStep, IInv, StreamInv
  <2>5. StreamInv'
    BY <1>2, <2>3, <2>4, StreamNext
  <2>6. overtaken' \in BOOLEAN
    BY <2>1 DEF IInv, ProcInv
  <2>7. ProcInv'
    BY <1>1, <1>2, <2>2, <2>3, <2>6, EffectProc
  <2>8. WriteInv'
    BY <1>1, <1>3, <2>2, EffectWrite
  <2>9. RefInv'
    BY <1>2, <2>1 DEF IInv, RefInv, Programs
  <2> QED BY <2>5, <2>7, <2>8, <2>9 DEF IInv
<1>4. CASE doing[c] # "sent"
  <2>1. FlushAnd(c, doing[c])
    BY <1>4 DEF Resume
  <2>2. doing[c] \in {"put", "big"} => Room(c)
    BY RoomResume
  <2> QED BY <1>1, <1>2, <2>1, <2>2, FlushStep
<1> QED BY <1>3, <1>4

LEMMA PostEventStep == ASSUME IInv, NEW c \in Context, PostEvent(c) PROVE IInv'
<1> DEFINE first == IF Len(stm.buf) < BufSize THEN Now ELSE Flushed(Now, FALSE)
           room == Len(first.stm.buf) < BufSize
           full == IF first.stm.error THEN first ELSE Put(first, NextItem)
           last == IF c = EventContext THEN full ELSE Flushed(full, FALSE)
           kept == Good(first.stm, first.port, written, notices, overtaken)
           more == written + 1
<1>1. /\ CanWrite /\ overtaken' = overtaken
      /\ IF room THEN stm' = last.stm /\ port' = last.port ELSE stm' = first.stm /\ port' = first.port
      /\ written' = IF room /\ ~ first.stm.error THEN more ELSE written
      /\ UNCHANGED <<procs, stmRef, env, received>>
  BY DEF PostEvent, quiet, procs, Accept
<1>2. written \in Nat /\ more \in Nat /\ more \in Item /\ overtaken \in BOOLEAN /\ clientGone \in BOOLEAN
  BY <1>1, WriteItem DEF IInv, WriteInv, ProcInv
<1>3. first \in View /\ kept /\ first.stm.write = stm.write
  <2>1. /\ Now \in View /\ Now.stm = stm /\ Now.port = port
        /\ Good(Now.stm, Now.port, written, notices, overtaken)
    BY NowIs
  <2>2. /\ Flushed(Now, FALSE) \in View /\ Flushed(Now, FALSE).stm.write = Now.stm.write
        /\ Good(Flushed(Now, FALSE).stm, Flushed(Now, FALSE).port, written, notices, overtaken)
    BY <1>2, <2>1, FlushedGood
  <2>3. CASE Len(stm.buf) < BufSize
    BY <2>1, <2>3
  <2>4. CASE ~ (Len(stm.buf) < BufSize)
    BY <2>1, <2>2, <2>4
  <2> QED BY <2>3, <2>4
<1>4. notices' = notices /\ NextItem = more
  BY <1>1 DEF env, NextItem
<1> HIDE DEF first
<1>5. CASE ~ room
  <2>1. stm' = first.stm /\ port' = first.port /\ written' = written
    BY <1>1, <1>5
  <2>2. StreamStep
    BY <1>1, <1>3, <1>4, <2>1 DEF StreamStep
  <2> QED BY <1>1, <1>3, <2>1, <2>2, CalmStep
<1>6. CASE room
  <2>1. stm' = last.stm /\ port' = last.port
    BY <1>1, <1>6
  <2>2. /\ full \in View /\ full.stm.write = stm.write
        /\ Good(full.stm, full.port, written', notices, overtaken)
    <3>1. CASE first.stm.error
      BY <1>1, <1>3, <3>1
    <3>2. CASE ~ first.stm.error
      <4>1. /\ Put(first, more) \in View /\ Put(first, more).port = first.port
            /\ Put(first, more).stm.write = first.stm.write
            /\ Good(Put(first, more).stm, first.port, more, notices, overtaken)
        BY <1>2, <1>3, <1>6, PutGood
      <4>2. full = Put(first, more) /\ written' = more
        BY <1>1, <1>4, <1>6, <3>2
      <4> HIDE DEF full
      <4> QED BY <1>3, <4>1, <4>2
    <3> QED BY <3>1, <3>2
  <2> HIDE DEF full, room
  <2>3. written' \in Nat /\ (written' = written \/ written' = written + 1)
    BY <1>1, <1>2
  <2>4. last.stm.write = stm.write /\ Good(last.stm, last.port, written', notices, overtaken)
    <3>1. CASE c = EventContext
      BY <2>2, <3>1
    <3>2. CASE c # EventContext
      <4>1. /\ Flushed(full, FALSE).stm.write = full.stm.write
            /\ Good(Flushed(full, FALSE).stm, Flushed(full, FALSE).port, written', notices, overtaken)
        BY <1>2, <2>2, <2>3, FlushedGood
      <4> QED BY <2>2, <3>2, <4>1
    <3> QED BY <3>1, <3>2
  <2> HIDE DEF last
  <2>5. StreamStep
    BY <1>1, <1>4, <2>1, <2>4 DEF StreamStep
  <2> QED BY <1>1, <2>1, <2>3, <2>4, <2>5, CalmStep
<1> QED BY <1>5, <1>6

-----------------------------------------------------------------------------
(* The steps that end or start a context.                                    *)

LEMMA ProgramsFinite ==
  \A A \in SUBSET Context : IsFiniteSet(A \cap Programs) /\ Cardinality(A \cap Programs) \in Nat
<1> SUFFICES ASSUME NEW A \in SUBSET Context
             PROVE  IsFiniteSet(A \cap Programs) /\ Cardinality(A \cap Programs) \in Nat
  OBVIOUS
<1>1. IsFiniteSet(A \cap Programs)
  BY OutputAssumption, FS_Subset
<1> QED BY <1>1, FS_CardinalityType

LEMMA DieStep == ASSUME IInv, NEW c \in alive, Die(c) PROVE IInv'
<1>1. ProcInv /\ c \in Context /\ c \in Programs /\ written \in Nat
  BY DEF IInv, ProcInv, WriteInv, Die
<1>2. /\ alive' = alive \ {c} /\ notices' = notices /\ clientGone' = clientGone /\ port' = port
      /\ written' = written /\ received' = received /\ overtaken' = overtaken
      /\ stmRef' = stmRef - 1
      /\ stm' = IF stmRef > 1 THEN stm ELSE [stm EXCEPT !.write = FALSE, !.buf = <<>>]
      /\ at' = [at EXCEPT ![c] = "dead"] /\ doing' = [doing EXCEPT ![c] = NIL]
      /\ notified' = notified \ {c} /\ waitNotify' = waitNotify \ {c} /\ wannaRun' = wannaRun \ {c}
  BY DEF Die, IPCClose, env, hist
<1>3. Good(stm, port, written, notices, overtaken)
  BY DEF IInv, StreamInv
<1>4. StreamStep
  <2>1. CASE stmRef > 1
    BY <1>2, <1>3, <2>1 DEF StreamStep
  <2>2. CASE ~ (stmRef > 1)
    <3> DEFINE u == [stm EXCEPT !.write = FALSE, !.buf = <<>>]
    <3>1. stm \in Stream /\ <<>> \in Seq(Item)
      BY <1>3 DEF Good
    <3>2. u \in Stream /\ u.buf = <<>> /\ u.write = FALSE
      BY <3>1 DEF Stream
    <3> HIDE DEF u
    <3>3. Len(u.buf) <= BufSize
      <4>1. Len(<<>>) = 0 /\ 0 <= BufSize
        BY OutputAssumption
      <4> QED BY <3>2, <4>1
    <3>4. Good(u, port, written, notices, overtaken)
      BY <1>3, <3>2, <3>3 DEF Good
    <3>5. stm' = u
      BY <1>2, <2>2 DEF u
    <3> QED BY <1>2, <3>4, <3>5 DEF StreamStep
  <2> QED BY <2>1, <2>2
<1>5. StreamInv'
  BY <1>2, <1>4, StreamNext
<1>6. ProcInv'
  BY <1>1, <1>2 DEF ProcInv
<1>7. WriteInv'
  <2>1. Writing' \subseteq Writing
    BY <1>1, <1>2, OutputAssumption DEF Writing, ProcInv
  <2>2. Cardinality(Writing') <= Cardinality(Writing) /\ Cardinality(Writing') \in Nat
    <3>1. IsFiniteSet(Writing')
      BY <2>1, WritingFinite, FS_Subset
    <3> QED BY <2>1, <3>1, WritingFinite, FS_Subset, FS_CardinalityType
  <2>3. Cardinality(Writing) \in Nat /\ MaxWrite \in Nat /\ written + Cardinality(Writing) <= MaxWrite
    BY WritingFinite, OutputAssumption DEF IInv, WriteInv
  <2> QED BY <1>1, <1>2, <2>2, <2>3 DEF WriteInv
<1>8. RefInv'
  <2> DEFINE used == alive \cap Programs
             left == alive' \cap Programs
  <2>1. left = used \ {c} /\ c \in used
    BY <1>1, <1>2
  <2>2. IsFiniteSet(used) /\ Cardinality(used) \in Nat /\ Cardinality(left) \in Nat
    <3>1. alive \in SUBSET Context /\ alive' \in SUBSET Context
      BY <1>1, <1>2 DEF ProcInv
    <3> QED BY <3>1, ProgramsFinite
  <2>3. Cardinality(left) = Cardinality(used) - 1
    BY <2>1, <2>2, FS_RemoveElement
  <2>4. stmRef \in 0 .. MaxRef /\ Cardinality(used) <= stmRef /\ (stmRef > 0 => stm.write)
    BY DEF IInv, RefInv
  <2>5. Cardinality(left) <= stmRef - 1 /\ stmRef - 1 \in 0 .. MaxRef
    <3>1. MaxRef \in Nat
      BY OutputAssumption
    <3> HIDE DEF left, used
    <3> QED BY <2>2, <2>3, <2>4, <3>1
  <2>6. stmRef - 1 > 0 => stm'.write
    BY <1>2, <2>4
  <2>7. (alive \cap Programs)' = left /\ MaxRef' = MaxRef
    BY DEF Programs
  <2> QED BY <1>2, <2>5, <2>6, <2>7 DEF RefInv
<1> QED BY <1>5, <1>6, <1>7, <1>8 DEF IInv

LEMMA ForkStep == ASSUME IInv, NEW c \in Context, NEW d \in Context, Fork(c, d) PROVE IInv'
<1>1. ProcInv /\ RefInv /\ d \in Programs /\ d \notin alive /\ d # Main /\ stmRef < MaxRef
  BY DEF IInv, Fork
<1>2. /\ alive' = alive \cup {d} /\ notices' = notices /\ clientGone' = clientGone /\ port' = port
      /\ written' = written /\ received' = received /\ overtaken' = overtaken
      /\ stmRef' = stmRef + 1 /\ stm' = stm
      /\ at' = [at EXCEPT ![d] = "run"] /\ doing' = doing
      /\ notified' = notified /\ waitNotify' = waitNotify /\ wannaRun' = wannaRun
  BY DEF Fork, Reference, env, hist
<1>3. StreamStep
  BY <1>2 DEF StreamStep, IInv, StreamInv
<1>4. StreamInv'
  BY <1>1, <1>2, <1>3, StreamNext
<1>5. ProcInv'
  BY <1>1, <1>2 DEF ProcInv
<1>6. WriteInv'
  BY <1>2 DEF IInv, WriteInv, Writing
<1>7. RefInv'
  <2> DEFINE used == alive \cap Programs
             more == alive' \cap Programs
  <2>1. more = used \cup {d} /\ d \notin used
    BY <1>1, <1>2
  <2>2. IsFiniteSet(used) /\ Cardinality(used) \in Nat
    BY <1>1, ProgramsFinite DEF ProcInv
  <2>3. Cardinality(more) = Cardinality(used) + 1
    BY <2>1, <2>2, FS_AddElement
  <2>4. stmRef \in 0 .. MaxRef /\ Cardinality(used) <= stmRef /\ (stmRef > 0 => stm.write)
    BY <1>1 DEF RefInv
  <2>5. (alive \cap Programs)' = more
    BY DEF Programs
  <2> HIDE DEF used, more
  <2>6. Cardinality(more) <= stmRef + 1 /\ stmRef + 1 \in 0 .. MaxRef
    BY <1>1, <2>2, <2>3, <2>4, OutputAssumption
  <2>7. stm.write
    <3>1. Cardinality(alive \cap Programs) >= 1
      <4>1. c \in alive \cap Programs
        BY DEF Fork, Running
      <4>2. Cardinality(used) # 0
        BY <2>2, <4>1, FS_EmptySet DEF used
      <4> QED BY <2>2, <4>2 DEF used
    <3> QED BY <2>2, <2>4, <3>1 DEF used
  <2> QED BY <1>2, <2>5, <2>6, <2>7 DEF RefInv
<1> QED BY <1>4, <1>5, <1>6, <1>7 DEF IInv

LEMMA ForkFailsStep == ASSUME IInv, NEW c \in Context, ForkFails(c) PROVE IInv'
<1>1. /\ Running(c) /\ c \in Programs /\ stmRef < MaxRef /\ stmRef' = stmRef + 1
      /\ UNCHANGED <<procs, stm, port, env, deferred, hist>>
  BY DEF ForkFails, Reference
<1>2. /\ alive' = alive /\ notices' = notices /\ clientGone' = clientGone /\ port' = port
      /\ written' = written /\ received' = received /\ overtaken' = overtaken /\ stm' = stm
      /\ at' = at /\ doing' = doing
      /\ notified' = notified /\ waitNotify' = waitNotify /\ wannaRun' = wannaRun
  BY <1>1 DEF procs, env, hist
<1>3. StreamStep
  BY <1>2 DEF StreamStep, IInv, StreamInv
<1>4. StreamInv'
  BY <1>2, <1>3, StreamNext
<1>5. ProcInv'
  BY <1>2 DEF IInv, ProcInv
<1>6. WriteInv'
  BY <1>2 DEF IInv, WriteInv, Writing
<1>7. RefInv'
  <2> DEFINE used == alive \cap Programs
  <2>1. IsFiniteSet(used) /\ Cardinality(used) \in Nat
    BY ProgramsFinite DEF IInv, ProcInv
  <2>2. stmRef \in 0 .. MaxRef /\ Cardinality(used) <= stmRef /\ (stmRef > 0 => stm.write)
    BY DEF IInv, RefInv
  <2>3. c \in used
    BY <1>1 DEF Running
  <2>4. Cardinality(used) # 0
    BY <2>1, <2>3, FS_EmptySet
  <2>5. (alive \cap Programs)' = used
    BY <1>2 DEF Programs
  <2> HIDE DEF used
  <2>6. stm.write /\ Cardinality(used) <= stmRef + 1 /\ stmRef + 1 \in 0 .. MaxRef
    BY <1>1, <2>1, <2>2, <2>4, OutputAssumption
  <2> QED BY <1>1, <1>2, <2>5, <2>6 DEF RefInv
<1> QED BY <1>4, <1>5, <1>6, <1>7 DEF IInv

-----------------------------------------------------------------------------
(* The steps of the client, the kernel and the scheduler.                    *)

LEMMA AcceptedTail ==
  ASSUME NEW ns \in Seq({"accepted", "deleted"}), ns # <<>>
  PROVE  /\ Tail(ns) \in Seq({"accepted", "deleted"})
         /\ \A i \in Accepted(Tail(ns)) : i + 1 \in Accepted(ns) /\ i \in Nat \ {0}
         /\ Head(ns) = "accepted" => 1 \in Accepted(ns)
         /\ Head(ns) = "deleted" /\ Accepted(ns) # {} => Accepted(Tail(ns)) # {}
<1> DEFINE l == Len(ns)
           t == Tail(ns)
<1>1. l \in Nat \ {0} /\ DOMAIN ns = 1 .. l /\ Head(ns) = ns[1]
  BY LenProperties, HeadTailProperties
<1>2. /\ t \in Seq({"accepted", "deleted"}) /\ Len(t) = l - 1 /\ DOMAIN t = 1 .. l - 1
      /\ \A i \in 1 .. l - 1 : t[i] = ns[i + 1]
  BY <1>1, HeadTailProperties, LenProperties
<1> HIDE DEF t, l
<1>3. ASSUME NEW i \in Accepted(t) PROVE i + 1 \in Accepted(ns) /\ i \in Nat \ {0}
  BY <1>1, <1>2 DEF Accepted
<1>4. Head(ns) = "accepted" => 1 \in Accepted(ns)
  BY <1>1 DEF Accepted
<1>5. ASSUME Head(ns) = "deleted", NEW i \in Accepted(ns) PROVE i - 1 \in Accepted(t)
  <2>1. i \in 1 .. l /\ i # 1 /\ ns[i] = "accepted"
    BY <1>1, <1>5 DEF Accepted
  <2>2. i - 1 \in 1 .. l - 1 /\ (i - 1) + 1 = i
    BY <1>1, <2>1
  <2> QED BY <1>2, <2>1, <2>2 DEF Accepted
<1> QED BY <1>2, <1>3, <1>4, <1>5 DEF t

LEMMA AcceptedAppend ==
  ASSUME NEW ns \in Seq({"accepted", "deleted"}), NEW m \in {"accepted", "deleted"}
  PROVE  /\ Append(ns, m) \in Seq({"accepted", "deleted"})
         /\ Accepted(Append(ns, m)) = Accepted(ns) \cup (IF m = "accepted" THEN {Len(ns) + 1} ELSE {})
<1> DEFINE l == Len(ns)
           t == Append(ns, m)
<1>1. l \in Nat /\ DOMAIN ns = 1 .. l
  BY LenProperties
<1>2. /\ t \in Seq({"accepted", "deleted"}) /\ DOMAIN t = 1 .. l + 1 /\ t[l + 1] = m
      /\ \A i \in 1 .. l : t[i] = ns[i]
  BY AppendProperties, LenProperties
<1> HIDE DEF t, l
<1>3. ASSUME NEW i PROVE i \in Accepted(t) <=> i \in Accepted(ns) \/ (i = l + 1 /\ m = "accepted")
  BY <1>1, <1>2 DEF Accepted
<1>4. Accepted(t) = Accepted(ns) \cup (IF m = "accepted" THEN {l + 1} ELSE {})
  BY <1>3
<1> QED BY <1>2, <1>4 DEF t, l

LEMMA ClientReadsStep == ASSUME IInv, ClientReads PROVE IInv'
<1>1. /\ ~ clientGone /\ port.queue # <<>> /\ received' = received \o Head(port.queue)
      /\ port' = [queue |-> Tail(port.queue), promised |-> FALSE]
      /\ notices' = IF port.promised THEN Append(notices, "accepted") ELSE notices
      /\ clientGone' = clientGone /\ stm' = stm /\ stmRef' = stmRef
      /\ written' = written /\ overtaken' = overtaken
      /\ alive' = alive /\ at' = at /\ doing' = doing
      /\ notified' = notified /\ waitNotify' = waitNotify /\ wannaRun' = wannaRun
  BY DEF ClientReads, procs
<1>2. /\ stm \in Stream /\ Len(stm.buf) <= BufSize /\ port \in Port /\ written \in Nat
      /\ Len(port.queue) <= Backlog + IF port.promised THEN 1 ELSE 0
      /\ ~ clientGone /\ stm.write /\ ~ overtaken =>
           Truth(stm, port, notices) /\ InOrder(received, port.queue, stm.buf, written)
  BY DEF IInv, StreamInv, WriteInv, Good
<1>3. /\ port.queue \in Seq(Seq(Item)) /\ Tail(port.queue) \in Seq(Seq(Item))
      /\ Len(Tail(port.queue)) = Len(port.queue) - 1 /\ Len(port.queue) \in Nat
  <2>1. port.queue \in Seq(Seq(Item))
    BY <1>2 DEF Port
  <2> QED BY <1>1, <2>1, HeadTailProperties, LenProperties
<1> DEFINE q == Tail(port.queue)
<1>4. port'.queue = q /\ port'.promised = FALSE /\ port' \in Port
  BY <1>1, <1>3 DEF Port
<1>5. Len(q) <= Backlog + 0
  BY <1>2, <1>3, OutputAssumption
<1> HIDE DEF q
<1>6. notices \in Seq({"accepted", "deleted"})
  BY DEF IInv, ProcInv
<1>7. /\ notices' \in Seq({"accepted", "deleted"})
      /\ port.promised => Accepted(notices') = Accepted(notices) \cup {Len(notices) + 1}
      /\ ~ port.promised => notices' = notices
  <2>1. CASE port.promised
    <3>1. /\ Append(notices, "accepted") \in Seq({"accepted", "deleted"})
          /\ Accepted(Append(notices, "accepted")) = Accepted(notices) \cup {Len(notices) + 1}
      BY <1>6, AcceptedAppend
    <3> QED BY <1>1, <2>1, <3>1
  <2>2. CASE ~ port.promised
    BY <1>1, <1>6, <2>2
  <2> QED BY <2>1, <2>2
<1>8. ASSUME stm.write, ~ overtaken
      PROVE  Truth(stm', port', notices') /\ InOrder(received', port'.queue, stm'.buf, written')
  <2>1. Truth(stm, port, notices) /\ InOrder(received, port.queue, stm.buf, written)
    BY <1>1, <1>2, <1>8
  <2>2. InOrder(received', q, stm.buf, written)
    BY <1>1, <1>2, <1>3, <2>1, InOrderRead DEF q
  <2>3. CASE port.promised
    <3>1. Accepted(notices) = {} /\ stm.notifyInProgress /\ ~ stm.error
      BY <2>1, <2>3 DEF Truth
    <3>2. Accepted(notices') = {Len(notices) + 1}
      BY <1>7, <2>3, <3>1
    <3>3. Truth(stm, port', notices')
      BY <1>4, <3>1, <3>2 DEF Truth
    <3> QED BY <1>1, <1>4, <2>2, <3>3
  <2>4. CASE ~ port.promised
    <3>1. Truth(stm, port', notices)
      BY <1>4, <2>1, <2>4 DEF Truth
    <3> QED BY <1>1, <1>4, <1>7, <2>2, <2>4, <3>1
  <2> QED BY <2>3, <2>4
<1>9. StreamInv'
  <2>1. Truth(stm', port', notices') => Truth(stm, port, notices)'
    BY <1>1 DEF Truth, Accepted
  <2>2. InOrder(received', port'.queue, stm'.buf, written') => InOrder(received, port.queue, stm.buf, written)'
    BY DEF InOrder
  <2>3. Stream' = Stream /\ Port' = Port
    BY DEF Stream, Port
  <2>4. Len(port'.queue) <= Backlog + IF port'.promised THEN 1 ELSE 0
    BY <1>4, <1>5
  <2> QED BY <1>1, <1>2, <1>4, <1>8, <2>1, <2>2, <2>3, <2>4 DEF StreamInv, Good
<1>10. ProcInv'
  BY <1>1, <1>7 DEF IInv, ProcInv
<1>11. WriteInv' /\ RefInv'
  BY <1>1 DEF IInv, WriteInv, Writing, RefInv, Programs
<1> QED BY <1>9, <1>10, <1>11 DEF IInv

LEMMA ClientDiesStep == ASSUME IInv, ClientDies PROVE IInv'
<1>1. /\ clientGone' = TRUE /\ port' = [queue |-> <<>>, promised |-> FALSE]
      /\ notices' = Append(notices, "deleted")
      /\ stm' = stm /\ stmRef' = stmRef /\ received' = received
      /\ written' = written /\ overtaken' = overtaken
      /\ alive' = alive /\ at' = at /\ doing' = doing
      /\ notified' = notified /\ waitNotify' = waitNotify /\ wannaRun' = wannaRun
  BY DEF ClientDies, procs, hist
<1>2. stm \in Stream /\ Len(stm.buf) <= BufSize
  BY DEF IInv, StreamInv, Good
<1>3. port'.queue = <<>> /\ port'.promised = FALSE /\ port' \in Port
  <2>1. <<>> \in Seq(Seq(Item))
    OBVIOUS
  <2> QED BY <1>1, <2>1 DEF Port
<1>4. Len(port'.queue) <= Backlog + IF port'.promised THEN 1 ELSE 0
  <2>1. Len(<<>>) = 0 /\ 0 <= Backlog + 0
    BY OutputAssumption
  <2> QED BY <1>3, <2>1
<1>5. StreamInv'
  <2>1. Stream' = Stream /\ Port' = Port
    BY DEF Stream, Port
  <2> QED BY <1>1, <1>2, <1>3, <1>4, <2>1 DEF StreamInv, Good
<1>6. notices' \in Seq({"accepted", "deleted"})
  <2>1. notices \in Seq({"accepted", "deleted"})
    BY DEF IInv, ProcInv
  <2> QED BY <1>1, <2>1, AcceptedAppend
<1>7. ProcInv'
  BY <1>1, <1>6 DEF IInv, ProcInv
<1>8. WriteInv' /\ RefInv'
  BY <1>1 DEF IInv, WriteInv, Writing, RefInv, Programs
<1> QED BY <1>5, <1>7, <1>8 DEF IInv

\* The scheduler's part of a notification, which it takes from the queue.
LEMMA NoticeStep ==
  ASSUME IInv, StreamStep, stm'.write = stm.write, notices # <<>>, notices' = Tail(notices),
         UNCHANGED <<alive, at, doing, stmRef, clientGone, hist>>,
         (notified' \cup waitNotify') \cup wannaRun' \subseteq alive
  PROVE  IInv'
<1>1. /\ clientGone' = clientGone /\ stmRef' = stmRef /\ received' = received
      /\ written' = written /\ overtaken' = overtaken
      /\ alive' = alive /\ at' = at /\ doing' = doing
  BY DEF hist
<1>2. StreamInv'
  BY <1>1, StreamNext
<1>3. notices' \in Seq({"accepted", "deleted"})
  <2>1. notices \in Seq({"accepted", "deleted"})
    BY DEF IInv, ProcInv
  <2> QED BY <2>1, AcceptedTail
<1>4. ProcInv'
  BY <1>1, <1>3 DEF IInv, ProcInv
<1>5. WriteInv' /\ RefInv'
  BY <1>1 DEF IInv, WriteInv, Writing, RefInv, Programs
<1> QED BY <1>2, <1>4, <1>5 DEF IInv

LEMMA MsgAcceptedStep == ASSUME IInv, MsgAccepted PROVE IInv'
<1> DEFINE ns == Tail(notices)
           z == [Now EXCEPT !.stm.notifyInProgress = FALSE]
           u == [stm EXCEPT !.notifyInProgress = FALSE]
<1>1. /\ notices # <<>> /\ Head(notices) = "accepted" /\ notices' = ns
      /\ stm' = (IF Main \in alive THEN IPCNotifyReceived(Now) ELSE Now).stm
      /\ port' = (IF Main \in alive THEN IPCNotifyReceived(Now) ELSE Now).port
      /\ wannaRun' = wannaRun \cup waitNotify /\ waitNotify' = {} /\ notified' = notified
      /\ UNCHANGED <<alive, at, doing, stmRef, clientGone, hist>>
  BY DEF MsgAccepted, Woken
<1>2. /\ written \in Nat /\ overtaken \in BOOLEAN /\ clientGone \in BOOLEAN
      /\ notices \in Seq({"accepted", "deleted"}) /\ written' = written /\ overtaken' = overtaken
  BY <1>1 DEF IInv, WriteInv, ProcInv, hist
<1>3. /\ Now \in View /\ Now.stm = stm /\ Now.port = port
      /\ stm \in Stream /\ Len(stm.buf) <= BufSize /\ port \in Port
      /\ Len(port.queue) <= Backlog + IF port.promised THEN 1 ELSE 0
      /\ ~ clientGone /\ stm.write /\ ~ overtaken =>
           Truth(stm, port, notices) /\ InOrder(received, port.queue, stm.buf, written)
  BY NowIs DEF IInv, StreamInv, Good
<1>4. /\ 1 \in Accepted(notices)
      /\ \A i \in Accepted(ns) : i + 1 \in Accepted(notices) /\ i \in Nat \ {0}
  BY <1>1, <1>2, AcceptedTail
<1>5. /\ u \in Stream /\ u.buf = stm.buf /\ u.error = stm.error /\ u.write = stm.write
      /\ u.notifyInProgress = FALSE
  BY <1>3 DEF Stream
<1>6. z \in View /\ z.stm = u /\ z.port = port
  <2>1. z = [Now EXCEPT !.stm = u]
    BY <1>3
  <2> HIDE DEF z, u
  <2> QED BY <1>3, <1>5, <2>1 DEF View
<1> HIDE DEF u, z, ns
<1>7. ASSUME Truth(stm, port, notices)
      PROVE  /\ stm.notifyInProgress /\ ~ port.promised /\ Accepted(ns) = {}
             /\ Truth(u, port, ns) /\ (Main \notin alive => Truth(stm, port, ns))
  <2>1. stm.notifyInProgress /\ ~ port.promised
    BY <1>4, <1>7 DEF Truth
  <2>2. Accepted(ns) = {}
    <3>1. ASSUME NEW i \in Accepted(ns) PROVE FALSE
      <4>1. i + 1 = 1 /\ i \in Nat \ {0}
        BY <1>4, <1>7 DEF Truth
      <4> QED BY <4>1
    <3> QED BY <3>1
  <2>3. Truth(u, port, ns)
    BY <1>5, <1>7, <2>1, <2>2 DEF Truth
  <2>4. Main \notin alive => Truth(stm, port, ns)
    BY <1>7, <2>1, <2>2 DEF Truth
  <2> QED BY <2>1, <2>2, <2>3, <2>4
<1>8. Good(u, port, written, ns, overtaken)
  BY <1>3, <1>5, <1>7 DEF Good
<1>9. Good(stm', port', written, ns, overtaken) /\ stm'.write = stm.write
  <2>1. CASE Main \notin alive
    <3>1. stm' = stm /\ port' = port
      BY <1>1, <1>3, <2>1
    <3>2. Good(stm, port, written, ns, overtaken)
      BY <1>3, <1>7, <2>1 DEF Good
    <3> QED BY <3>1, <3>2
  <2>2. CASE Main \in alive /\ (~ stm.write \/ ~ stm.notifyInProgress)
    <3>1. IPCNotifyReceived(Now) = Now
      BY <1>3, <2>2 DEF IPCNotifyReceived
    <3>2. stm' = stm /\ port' = port
      BY <1>1, <1>3, <2>2, <3>1
    <3>3. ~ (~ clientGone /\ stm.write /\ ~ overtaken)
      BY <1>3, <1>7, <2>2
    <3>4. Good(stm, port, written, ns, overtaken)
      BY <1>3, <3>3 DEF Good
    <3> QED BY <3>2, <3>4
  <2>3. CASE Main \in alive /\ stm.write /\ stm.notifyInProgress
    <3>1. IPCNotifyReceived(Now) = Flushed(z, FALSE)
      BY <1>3, <2>3 DEF IPCNotifyReceived, z
    <3>2. /\ Good(Flushed(z, FALSE).stm, Flushed(z, FALSE).port, written, ns, overtaken)
          /\ Flushed(z, FALSE).stm.write = z.stm.write
      BY <1>2, <1>6, <1>8, FlushedGood
    <3> QED BY <1>1, <1>5, <1>6, <2>3, <3>1, <3>2
  <2> QED BY <2>1, <2>2, <2>3
<1>10. StreamStep
  BY <1>1, <1>2, <1>9 DEF StreamStep
<1>11. (notified' \cup waitNotify') \cup wannaRun' \subseteq alive
  BY <1>1 DEF IInv, ProcInv
<1> QED BY <1>1, <1>9, <1>10, <1>11, NoticeStep DEF ns

LEMMA PortDeletedStep == ASSUME IInv, PortDeleted PROVE IInv'
<1> DEFINE ns == Tail(notices)
<1>1. /\ notices # <<>> /\ Head(notices) = "deleted" /\ notices' = ns
      /\ stm' = stm /\ port' = port
      /\ notified' \subseteq notified \cup alive
      /\ wannaRun' \subseteq wannaRun \cup waitNotify \cup alive /\ waitNotify' \subseteq waitNotify
      /\ UNCHANGED <<alive, at, doing, stmRef, clientGone, hist>>
  BY DEF PortDeleted, Woken
<1>2. written' = written /\ overtaken' = overtaken /\ notices \in Seq({"accepted", "deleted"})
  BY <1>1 DEF hist, IInv, ProcInv
<1>3. /\ \A i \in Accepted(ns) : i + 1 \in Accepted(notices) /\ i \in Nat \ {0}
      /\ Accepted(notices) # {} => Accepted(ns) # {}
  BY <1>1, <1>2, AcceptedTail
<1> HIDE DEF ns
<1>4. ASSUME Truth(stm, port, notices) PROVE Truth(stm, port, ns)
  <2>1. ASSUME NEW i \in Accepted(ns), NEW j \in Accepted(ns) PROVE i = j
    <3>1. i + 1 = j + 1 /\ i \in Nat /\ j \in Nat
      BY <1>3, <1>4 DEF Truth
    <3> QED BY <3>1
  <2>2. Accepted(ns) # {} <=> Accepted(notices) # {}
    BY <1>3
  <2> QED BY <1>4, <2>1, <2>2 DEF Truth
<1>5. Good(stm, port, written, ns, overtaken)
  BY <1>4 DEF IInv, StreamInv, Good
<1>6. StreamStep /\ stm'.write = stm.write
  BY <1>1, <1>2, <1>5 DEF StreamStep
<1>7. (notified' \cup waitNotify') \cup wannaRun' \subseteq alive
  BY <1>1 DEF IInv, ProcInv
<1> QED BY <1>1, <1>6, <1>7, NoticeStep DEF ns

-----------------------------------------------------------------------------
(* The theorems.                                                            *)

LEMMA InitSound == ASSUME Init PROVE IInv
<1>1. /\ alive = {Main} \cup ({EventContext} \ {NIL}) /\ notified = {} /\ waitNotify = {} /\ wannaRun = {}
      /\ at = [c \in Context |-> IF c \in alive THEN "run" ELSE "dead"]
      /\ doing = [c \in Context |-> NIL]
      /\ stm = [buf |-> <<>>, notifyInProgress |-> FALSE, error |-> FALSE, write |-> TRUE]
      /\ stmRef = 1 /\ port = [queue |-> <<>>, promised |-> FALSE]
      /\ notices = <<>> /\ clientGone = FALSE /\ written = 0 /\ received = <<>> /\ overtaken = FALSE
  BY DEF Init
<1>2. /\ Main \in Context /\ EventContext \in Context \cup {NIL} /\ EventContext # Main /\ NIL # Main
      /\ BufSize \in Nat /\ Backlog \in Nat /\ MaxWrite \in Nat /\ MaxRef \in Nat \ {0}
      /\ NIL \notin {"put", "big"}
  BY OutputAssumption
<1>3. ProcInv
  <2>1. alive \in SUBSET Context /\ (notified \cup waitNotify) \cup wannaRun \subseteq alive
    BY <1>1, <1>2
  <2>2. at \in [Context -> {"run", "blocked", "dead"}] /\ doing \in [Context -> {NIL}]
    BY <1>1
  <2>3. \A c \in Context : (c \notin alive => at[c] = "dead") /\ doing[c] = NIL
    BY <1>1
  <2>4. notices \in Seq({"accepted", "deleted"}) /\ clientGone \in BOOLEAN /\ overtaken \in BOOLEAN
    <3>1. <<>> \in Seq({"accepted", "deleted"})
      OBVIOUS
    <3>2. notices = <<>> /\ clientGone = FALSE /\ overtaken = FALSE
      BY <1>1
    <3> QED BY <3>1, <3>2
  <2>5. doing \in [Context -> {NIL, "flush", "put", "big", "events", "sent"}]
    BY <2>2
  <2> QED BY <2>1, <2>2, <2>3, <2>4, <2>5 DEF ProcInv
<1>4. StreamInv
  <2>1. stm \in Stream /\ port \in Port
    <3>1. <<>> \in Seq(Item) /\ <<>> \in Seq(Seq(Item))
      OBVIOUS
    <3> QED BY <1>1, <3>1 DEF Stream, Port
  <2>2. stm.buf = <<>> /\ port.queue = <<>> /\ ~ port.promised /\ ~ stm.notifyInProgress /\ ~ stm.error
    BY <1>1
  <2>3. Len(stm.buf) <= BufSize /\ Len(port.queue) <= Backlog + IF port.promised THEN 1 ELSE 0
    BY <1>2, <2>2
  <2>4. Accepted(notices) = {}
    BY <1>1 DEF Accepted
  <2>5. Truth(stm, port, notices)
    BY <2>2, <2>4 DEF Truth
  <2>6. InOrder(<<>>, <<>>, <<>>, 0)
    <3> DEFINE cut == [k \in 1 .. 1 |-> 0]
    <3>1. cut \in [1 .. Len(<<>>) + 1 -> 0 .. 0] /\ cut[1] = 0 /\ cut[Len(<<>>) + 1] = 0
      OBVIOUS
    <3> HIDE DEF cut
    <3>2. <<>> = Span(0, 0)
      BY SpanOne
    <3>3. <<>> = Span(0, cut[1]) /\ <<>> = Span(cut[Len(<<>>) + 1], 0)
      BY <3>1, <3>2
    <3>4. \A k \in 1 .. Len(<<>>) : cut[k] <= cut[k + 1] /\ <<>>[k] = Span(cut[k], cut[k + 1])
      OBVIOUS
    <3> QED BY <3>1, <3>3, <3>4 DEF InOrder
  <2>7. InOrder(received, port.queue, stm.buf, written)
    BY <1>1, <2>2, <2>6
  <2> QED BY <2>1, <2>3, <2>5, <2>7 DEF StreamInv, Good
<1>5. WriteInv
  <2>1. Writing = {}
    BY <1>1, <1>2 DEF Writing
  <2> QED BY <1>1, <1>2, <2>1, FS_EmptySet DEF WriteInv
<1>6. RefInv
  <2>1. alive \cap Programs = {Main}
    BY <1>1, <1>2 DEF Programs
  <2>2. Cardinality({Main}) = 1
    BY FS_Singleton
  <2>3. stmRef = 1 /\ stm.write = TRUE /\ 1 \in 0 .. MaxRef
    BY <1>1, <1>2
  <2> QED BY <2>1, <2>2, <2>3 DEF RefInv
<1> QED BY <1>3, <1>4, <1>5, <1>6 DEF IInv

LEMMA StepSound == ASSUME IInv, [Next]_vars PROVE IInv'
<1>1. CASE Next
  <2>1. ASSUME NEW c \in Context, Operator(c) PROVE IInv'
    <3>1. CASE Write(c)
      BY <3>1, WriteStep
    <3>2. CASE WriteLarge(c) \/ Flush(c) \/ EndFlush(c)
      BY <3>2, FlushingStep
    <3>3. CASE PostEvent(c)
      BY <3>3, PostEventStep
    <3>4. CASE Quit(c)
      BY <3>4, RunningAlive, DieStep DEF Quit
    <3>5. CASE ForkFails(c)
      BY <3>5, ForkFailsStep
    <3>6. CASE \E d \in Context : Fork(c, d)
      BY <3>6, ForkStep
    <3> QED BY <2>1, <3>1, <3>2, <3>3, <3>4, <3>5, <3>6 DEF Operator
  <2>2. ASSUME NEW c \in Context, Resume(c) PROVE IInv'
    BY <2>2, ResumeStep
  <2>3. ASSUME NEW c \in Context, Terminated(c) PROVE IInv'
    <3>1. c \in alive /\ Die(c)
      BY <2>3 DEF Terminated, IInv, ProcInv
    <3> QED BY <3>1, DieStep
  <2> QED BY <1>1, <2>1, <2>2, <2>3, ClientReadsStep, ClientDiesStep, MsgAcceptedStep,
             PortDeletedStep DEF Next
<1>2. CASE UNCHANGED vars
  <2>1. UNCHANGED <<procs, stm, port, stmRef, env, hist>>
    BY <1>2 DEF vars
  <2>2. StreamStep
    BY <2>1 DEF StreamStep, IInv, StreamInv, env, hist
  <2>3. overtaken' = overtaken /\ written' = written /\ stm'.write = stm.write
        /\ UNCHANGED <<procs, stmRef, env, received>>
    BY <2>1 DEF hist
  <2> QED BY <2>2, <2>3, CalmStep
<1> QED BY <1>1, <1>2

LEMMA Sound == Spec => []IInv
<1>1. Init => IInv
  BY InitSound
<1>2. IInv /\ [Next]_vars => IInv'
  BY StepSound
<1> QED BY <1>1, <1>2, PTL DEF Spec

(* OutputInOrder: what the writers were told is written is what the client gets, *)
(* all of it, once, in the order of the writes, whoever shares the stream,       *)
(* wherever they block and whatever waits behind a full queue.                   *)
THEOREM OutputInOrderAlways == Spec => []OutputInOrder
<1>1. IInv => OutputInOrder
  <2> SUFFICES ASSUME IInv, Served PROVE InFlight = [i \in 1 .. written |-> i]
    BY DEF OutputInOrder
  <2>1. InOrder(received, port.queue, stm.buf, written) /\ written \in Nat
    BY DEF IInv, StreamInv, Good, Served, WriteInv
  <2>2. Len(port.queue) \in Nat
    BY LenProperties DEF IInv, StreamInv, Good, Port
  <2> QED BY <2>1, <2>2, InOrderIs DEF InFlight
<1> QED BY <1>1, Sound, PTL

(* FlagTellsTruth: a notification is in progress exactly when the kernel has     *)
(* promised one or one is waiting to be received, so msg_send is never refused.   *)
THEOREM FlagTellsTruthAlways == Spec => []FlagTellsTruth
<1>1. IInv => TypeOK
  <2> SUFFICES ASSUME IInv PROVE TypeOK
    OBVIOUS
  <2>1. /\ alive \subseteq Context /\ (notified \cup waitNotify) \cup wannaRun \subseteq alive
        /\ at \in [Context -> {"run", "blocked", "dead"}]
        /\ doing \in [Context -> {NIL, "flush", "put", "big", "events", "sent"}]
        /\ stmRef \in 0 .. MaxRef
    BY DEF IInv, ProcInv, RefInv
  <2>2. /\ stm.buf \in Seq(Item) /\ Len(stm.buf) <= BufSize
        /\ {stm.notifyInProgress, stm.error, stm.write} \subseteq BOOLEAN
    BY DEF IInv, StreamInv, Good, Stream
  <2>3. port.queue \in Seq(Seq(Item)) /\ Len(port.queue) <= Backlog + 1
    <3>1. port.queue \in Seq(Seq(Item)) /\ Len(port.queue) <= Backlog + IF port.promised THEN 1 ELSE 0
      BY DEF IInv, StreamInv, Good, Port
    <3>2. Len(port.queue) \in Nat /\ Backlog \in Nat
      BY <3>1, LenProperties, OutputAssumption
    <3> QED BY <3>1, <3>2
  <2>4. \A i \in DOMAIN notices : notices[i] \in {"accepted", "deleted"}
    <3>1. notices \in Seq({"accepted", "deleted"})
      BY DEF IInv, ProcInv
    <3> QED BY <3>1, ElementOfSeq, LenProperties
  <2> QED BY <2>1, <2>2, <2>3, <2>4 DEF TypeOK
<1>2. IInv => FlagTellsTruth
  <2> SUFFICES ASSUME IInv, Served, Main \in alive
               PROVE  /\ stm.notifyInProgress <=>
                           port.promised \/ \E i \in DOMAIN notices : notices[i] = "accepted"
                      /\ ~ stm.error
    BY <1>1 DEF FlagTellsTruth
  <2>1. Truth(stm, port, notices)
    BY DEF IInv, StreamInv, Good, Served
  <2> QED BY <2>1 DEF Truth, Accepted
<1> QED BY <1>2, Sound, PTL

(* OpenWhileUsed: the stream is not freed while a context has it for its output,  *)
(* however many forks shared it, ended, were terminated or failed.               *)
THEOREM OpenWhileUsedAlways == Spec => []OpenWhileUsed
<1>1. IInv => OpenWhileUsed
  <2> SUFFICES ASSUME IInv, alive \cap Programs # {} PROVE stm.write
    BY DEF OpenWhileUsed
  <2>1. IsFiniteSet(alive \cap Programs) /\ Cardinality(alive \cap Programs) \in Nat
    BY ProgramsFinite DEF IInv, ProcInv
  <2>2. Cardinality(alive \cap Programs) # 0
    BY <2>1, FS_EmptySet
  <2> QED BY <2>1, <2>2 DEF IInv, RefInv
<1> QED BY <1>1, Sound, PTL
=============================================================================
