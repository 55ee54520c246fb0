------------------------ MODULE Dictionaries_proofs ------------------------
(***************************************************************************)
(* What holds of dictionaries, the name cache, save and restore, for any      *)
(* contexts, names and dictionaries, any lengths, hashes and bit vectors, any   *)
(* depth of saves and any programs.                                          *)
(*                                                                         *)
(* A state of the heap (bodies, cache and records) is described level by      *)
(* level.  The records of a place are its log, and what the place held at      *)
(* level k is what the first record above k says (KeyAt, HeaderAt).  The       *)
(* invariant says that the logs are chains, that a table can be searched now   *)
(* and as it was at every level a restore may go back to, that a binding in    *)
(* the cache is right, and that a name stamped by a context is topmost for it  *)
(* at every level it may find itself at.                                      *)
(*                                                                         *)
(* A write changes the present and leaves the past (Kept); a save makes the    *)
(* present a past; a restore makes a past the present.                        *)
(***************************************************************************)
EXTENDS Dictionaries, TLAPS, FiniteSetTheorems, WellFoundedInduction, NaturalsInduction

-----------------------------------------------------------------------------
(* The invariant.                                                           *)

OnWay(home, j, i) == IF home <= i THEN home <= j /\ j < i ELSE home <= j \/ j < i

Searchable(t, s) ==
  \A i, j \in 0 .. s - 1 :
    t[i] # NIL /\ OnWay(Home(t[i], s), j, i) => t[j] # NIL /\ t[j] # t[i]

Filled(t, s) == {i \in 0 .. s - 1 : t[i] # NIL}

At(f, cur, k) ==
  IF \E l \in DOMAIN f : k < l
  THEN f[CHOOSE l \in DOMAIN f : k < l /\ \A m \in DOMAIN f : k < m => l <= m]
  ELSE cur

Chain(f, field, cur, b) ==
  /\ b <= cur
  /\ cur = b \/ cur \in DOMAIN f
  /\ \A l \in DOMAIN f :
       /\ l <= cur /\ b <= f[l][field] /\ f[l][field] < l
       /\ f[l][field] = b \/ f[l][field] \in DOMAIN f
       /\ \A m \in DOMAIN f : m < l => m <= f[l][field]

\* The records of one kind about one place, as a function of their level.
Log(sr, kind, p) == [l \in {m \in DOMAIN sr : p \in DOMAIN sr[m][kind]} |-> sr[l][kind][p]]

KeyOf(o) == [key |-> o.key, klevel |-> o.klevel]
ValueOf(o) == [value |-> o.value, vlevel |-> o.vlevel]
HeaderOf(b) == [curlength |-> b.curlength, access |-> b.access, level |-> b.level]

\* What slot i and the header of d were at level k.
KeyAt(h, d, i, k) == At(Log(h.sr, "keys", <<d, i>>), KeyOf(h.body[d].table[i]), k)
ValueAt(h, d, i, k) == At(Log(h.sr, "values", <<d, i>>), ValueOf(h.body[d].table[i]), k)
HeaderAt(h, d, k) == At(Log(h.sr, "dbs", d), HeaderOf(h.body[d]), k)

IsFcn(f) == f = [x \in DOMAIN f |-> f[x]]
KeyRecord == [key : Name \cup {NIL}, klevel : Nat]
ValueRecord == [value : Value \cup {NIL}, vlevel : Nat]
HeaderRecord == [curlength : Nat, access : SUBSET {"r", "w"}, level : Nat]
Kinds == {"keys", "values", "dbs"}
PlacesOf(kind) == IF kind = "dbs" THEN Dict \ Shared ELSE (Dict \ Shared) \X Nat
RecordsOf(kind) ==
  IF kind = "keys" THEN KeyRecord ELSE IF kind = "values" THEN ValueRecord ELSE HeaderRecord

Undo(u) ==
  /\ u = [keys |-> u.keys, values |-> u.values, dbs |-> u.dbs]
  /\ \A kind \in Kinds :
       /\ IsFcn(u[kind]) /\ DOMAIN u[kind] \subseteq PlacesOf(kind)
       /\ \A p \in DOMAIN u[kind] : u[kind][p] \in RecordsOf(kind)

Binding == [loc : Nat \cup {NIL}, dict : Dict \cup {NIL}, ts : (Context \X Nat) \cup {NIL},
            vec : SUBSET {Bit[d] : d \in Dict}]

Typed(h) ==
  /\ h = [body |-> h.body, cache |-> h.cache, sr |-> h.sr]
  /\ IsFcn(h.body) /\ DOMAIN h.body = Dict
  /\ h.cache \in [Name -> Binding]
  /\ IsFcn(h.sr) /\ DOMAIN h.sr = 1 .. level
  /\ \A l \in 1 .. level : Undo(h.sr[l])

\* The sizes of a body.
Sized(d, b) ==
  /\ b \in DictBody(b.size) /\ b.size \in 1 .. 2 * MaxLen[d]
  /\ b.curmax \in CurMax[d] .. MaxLen[d] /\ b.curmax < b.size /\ b.curlength <= b.curmax
  /\ d \notin Shared => b.curmax = MaxLen[d]

\* Every change since d was made has left its record.
Logged(h, d) ==
  LET b == h.body[d] IN
  /\ birth[d] \in 0 .. level
  /\ b.level <= level
  /\ Chain(Log(h.sr, "dbs", d), "level", b.level, birth[d])
  /\ \A i \in 0 .. b.size - 1 :
       /\ b.table[i].klevel <= level /\ b.table[i].vlevel <= level
       /\ Chain(Log(h.sr, "keys", <<d, i>>), "klevel", b.table[i].klevel, birth[d])
       /\ Chain(Log(h.sr, "values", <<d, i>>), "vlevel", b.table[i].vlevel, birth[d])
  /\ d \in Shared => birth[d] = 0

\* Only places of private dictionaries that are there are recorded.
Recording(h) ==
  \A l \in 1 .. level :
    /\ \A p \in DOMAIN h.sr[l].keys \cup DOMAIN h.sr[l].values :
         h.body[p[1]] # NIL /\ p[2] \in 0 .. h.body[p[1]].size - 1
    /\ \A d \in DOMAIN h.sr[l].dbs : h.body[d] # NIL

Formed(h) ==
  /\ Typed(h)
  /\ \A d \in Dict : h.body[d] # NIL => Sized(d, h.body[d]) /\ Logged(h, d)
  /\ Recording(h)

KeysNow(h, d) == [i \in 0 .. h.body[d].size - 1 |-> h.body[d].table[i].key]
KeysAt(h, d, k) == [i \in 0 .. h.body[d].size - 1 |-> KeyAt(h, d, i, k).key]

Good(t, s, n) == Searchable(t, s) /\ Cardinality(Filled(t, s)) = n

NowGood(h) ==
  \A d \in Dict : h.body[d] # NIL =>
    Good(KeysNow(h, d), h.body[d].size, h.body[d].curlength)
PastGood(h) ==
  \A d \in Dict \ Shared : h.body[d] # NIL =>
    \A k \in birth[d] .. level - 1 :
      /\ Good(KeysAt(h, d, k), h.body[d].size, HeaderAt(h, d, k).curlength)
      /\ HeaderAt(h, d, k).curlength <= MaxLen[d]

CacheOK(h) ==
  \A n \in Name : h.cache[n].dict # NIL =>
    LET e == h.cache[n] IN
    /\ h.body[e.dict] # NIL /\ e.loc \in 0 .. h.body[e.dict].size - 1
    /\ h.body[e.dict].table[e.loc].key = n

\* d has the key n, or had it.
Seen(h, d, n) ==
  \/ h.body[d] # NIL /\ \E i \in 0 .. h.body[d].size - 1 : h.body[d].table[i].key = n
  \/ \E l \in 1 .. level : \E p \in DOMAIN h.sr[l].keys : p[1] = d /\ h.sr[l].keys[p].key = n

VecOK(h) ==
  \A d \in Dict, n \in Name :
    Seen(h, d, n) \/ h.cache[n].dict = d => Bit[d] \in h.cache[n].vec

HeapInv == Formed(Heap) /\ NowGood(Heap) /\ PastGood(Heap) /\ CacheOK(Heap) /\ VecOK(Heap)

\* d is where c finds n at level k.
TopAt(c, n, k, d) ==
  \E i \in DOMAIN dstack[c] :
    /\ dstack[c][i] = d /\ n \in {KeyAt(Heap, d, x, k).key : x \in 0 .. body[d].size - 1}
    /\ \A j \in DOMAIN dstack[c] : i < j =>
         n \notin {KeyAt(Heap, dstack[c][j], x, k).key : x \in 0 .. body[dstack[c][j]].size - 1}

StackInv ==
  /\ dstack \in [Context -> Seq(Dict)]
  /\ \A c \in Context :
       /\ Len(Base[c]) <= Len(dstack[c])
       /\ \A d \in OnStack(c) : body[d] # NIL /\ birth[d] <= (IF c = saver THEN level ELSE 0)

StampInv ==
  /\ gen \in [Context -> 1 .. MaxGen]
  /\ \A n \in Name, c \in Context : cache[n].ts # NIL /\ cache[n].ts[1] = c => cache[n].ts[2] <= gen[c]
  /\ \A n \in Name, c \in Context, k \in 0 .. level :
       cache[n].ts = stamp(c) /\ <<c, n>> \notin returned /\ (k = level \/ c # saver)
       => TopAt(c, n, k, cache[n].dict)

Ground ==
  /\ birth \in [Dict -> Nat \cup {NIL}]
  /\ \A d \in Shared : body[d] # NIL
  /\ \A d \in Dict : IF body[d] = NIL THEN birth[d] = NIL ELSE birth[d] \in Nat
  /\ level \in 0 .. MaxLevel /\ program \in Programs
  /\ saver \in Context \cup {NIL} /\ (saver = NIL <=> level = 0)
  /\ returned \subseteq Context \X Name

IInv == Ground /\ HeapInv /\ StackInv /\ StampInv

-----------------------------------------------------------------------------
(* Tables.  Where the search for a name goes, from its home on round the end.*)

\* A set of natural numbers has a least one.
LEMMA Least1 ==
  ASSUME NEW T, T \subseteq Nat, T # {}
  PROVE  \E n \in T : \A m \in T : n <= m
<1> DEFINE R == OpToRel(<, Nat)
<1>1. IsWellFoundedOn(R, Nat)
  BY NatLessThanWellFounded
<1>2. \A m, n \in Nat : m < n => <<m, n>> \in R
  BY DEF OpToRel
<1> HIDE DEF R
<1>3. \E n \in T : \A m \in T : ~ (<<m, n>> \in R)
  BY <1>1, WFMin
<1>4. PICK n \in T : \A m \in T : ~ (<<m, n>> \in R)
  BY <1>3
<1>5. ASSUME NEW m \in T PROVE n <= m
  <2>1. ~ (m < n) /\ m \in Nat /\ n \in Nat
    BY <1>2, <1>4
  <2> QED BY <2>1
<1> QED BY <1>5

LEMMA SetInduction ==
  ASSUME NEW S, 0 \in S, \A n \in Nat : n \in S => n + 1 \in S
  PROVE  Nat \subseteq S
<1> SUFFICES ASSUME Nat \ S # {} PROVE FALSE
  OBVIOUS
<1>1. PICK n \in Nat \ S : \A m \in Nat \ S : n <= m
  BY Least1
<1>2. n # 0 /\ n - 1 \in Nat
  BY <1>1
<1>3. n - 1 \in S
  BY <1>1, <1>2
<1> QED BY <1>1, <1>2, <1>3

LEMMA HomeSlot ==
  ASSUME NEW n \in Name, NEW s \in Nat \ {0}
  PROVE  Home(n, s) \in 0 .. s - 1
<1>1. HashRange \in Nat \ {0} /\ Hash[n] \in 0 .. HashRange - 1
  BY DictAssumption
<1> DEFINE x == Hash[n] r == HashRange
<1>2. ASSUME NEW a, NEW b \in Nat \ {0}, a \in 0 .. b - 1 PROVE (a * s) \div b \in 0 .. s - 1
  BY <1>2
<1> QED BY <1>1, <1>2 DEF Home

\* Going x slots on from slot a of a table of s slots, round its end.
LEMMA GoOn ==
  ASSUME NEW s \in Nat \ {0}, NEW a \in 0 .. s - 1, NEW x \in 0 .. s
  PROVE  /\ (a + x) % s \in 0 .. s - 1
         /\ (a + x) % s = IF a + x < s THEN a + x ELSE IF a + x < 2 * s THEN a + x - s ELSE a + x - 2 * s
<1>1. ASSUME NEW y \in 0 .. s - 1 PROVE y % s = y
  OBVIOUS
<1>2. ASSUME NEW y \in s .. 2 * s - 1 PROVE y % s = y - s
  OBVIOUS
<1> QED BY <1>1, <1>2

\* The distance from slot a on to slot i.
From(a, i, s) == IF a <= i THEN i - a ELSE i - a + s

LEMMA FromSlot ==
  ASSUME NEW s \in Nat \ {0}, NEW a \in 0 .. s - 1, NEW i \in 0 .. s - 1
  PROVE  /\ From(a, i, s) \in 0 .. s - 1
         /\ (a + From(a, i, s)) % s = i
<1>1. From(a, i, s) \in 0 .. s - 1
  BY DEF From
<1>2. (a + From(a, i, s)) % s = i
  BY <1>1, GoOn DEF From
<1> QED BY <1>1, <1>2

LEMMA FromOnWay ==
  ASSUME NEW s \in Nat \ {0}, NEW a \in 0 .. s - 1, NEW i \in 0 .. s - 1, NEW j \in 0 .. s - 1
  PROVE  OnWay(a, j, i) <=> From(a, j, s) < From(a, i, s)
  BY DEF From, OnWay

LEMMA FromGone ==
  ASSUME NEW s \in Nat \ {0}, NEW a \in 0 .. s - 1, NEW x \in 0 .. s - 1
  PROVE  From(a, (a + x) % s, s) = x
  BY GoOn DEF From


EndsAt(t, s, n, i) ==
  /\ i \in 0 .. s - 1 /\ t[i] \in {n, NIL}
  /\ \A j \in 0 .. s - 1 : OnWay(Home(n, s), j, i) => t[j] \notin {n, NIL}

LEMMA OneEnd ==
  ASSUME NEW s \in Nat \ {0}, NEW t, NEW n \in Name, NEW i, NEW j,
         EndsAt(t, s, n, i), EndsAt(t, s, n, j)
  PROVE  i = j
<1> DEFINE a == Home(n, s)
<1>1. a \in 0 .. s - 1
  BY HomeSlot
<1>2. i \in 0 .. s - 1 /\ j \in 0 .. s - 1
  BY DEF EndsAt
<1>3. ~ OnWay(a, i, j) /\ ~ OnWay(a, j, i)
  BY DEF EndsAt
<1> HIDE DEF a
<1> QED BY <1>1, <1>2, <1>3 DEF OnWay

\* SearchDict stops where it should if some slot stops it.
LEMMA PlaceEnds ==
  ASSUME NEW b, NEW s \in Nat \ {0}, b.size = s, NEW n \in Name,
         NEW z \in 0 .. s - 1, b.table[z].key \in {n, NIL}
  PROVE  EndsAt([i \in 0 .. s - 1 |-> b.table[i].key], s, n, Place(b, n))
<1> DEFINE a == Home(n, s)
           at(i) == b.table[(a + i) % s].key
           X == {i \in 0 .. s - 1 : at(i) \in {n, NIL}}
           P(i) == at(i) \in {n, NIL} /\ \A j \in 0 .. i - 1 : at(j) \notin {n, NIL}
           x == CHOOSE i \in 0 .. s - 1 : P(i)
<1>1. a \in 0 .. s - 1
  BY HomeSlot
<1>2. X # {}
  <2> HIDE DEF a
  <2>1. From(a, z, s) \in 0 .. s - 1 /\ (a + From(a, z, s)) % s = z
    BY <1>1, FromSlot
  <2> QED BY <2>1
<1>3. \E i \in 0 .. s - 1 : P(i)
  <2>1. X \subseteq Nat
    OBVIOUS
  <2>2. PICK i \in X : \A m \in X : i <= m
    <3> HIDE DEF X
    <3> QED BY <1>2, <2>1, Least1
  <2>3. i \in 0 .. s - 1 /\ at(i) \in {n, NIL}
    OBVIOUS
  <2>4. ASSUME NEW j \in 0 .. i - 1 PROVE at(j) \notin {n, NIL}
    <3>1. j \in 0 .. s - 1 /\ ~ (i <= j)
      BY <2>3
    <3>2. j \notin X
      BY <2>2, <3>1
    <3> HIDE DEF a
    <3> QED BY <3>1, <3>2
  <2> HIDE DEF a, at
  <2> QED BY <2>3, <2>4
<1>4. x \in 0 .. s - 1 /\ P(x)
  <2> HIDE DEF P
  <2> QED BY <1>3
<1>5. Place(b, n) = (a + x) % s
  BY DEF Place, Distance, Slots
<1> DEFINE p == (a + x) % s
           t == [i \in 0 .. s - 1 |-> b.table[i].key]
<1>6. p \in 0 .. s - 1 /\ From(a, p, s) = x
  <2> HIDE DEF a, x
  <2> QED BY <1>1, <1>4, GoOn, FromGone
<1>7. t[p] \in {n, NIL}
  BY <1>4, <1>6
<1>8. ASSUME NEW j \in 0 .. s - 1, OnWay(a, j, p) PROVE t[j] \notin {n, NIL}
  <2> HIDE DEF a, x, p
  <2>1. From(a, j, s) < x /\ From(a, j, s) \in 0 .. s - 1 /\ (a + From(a, j, s)) % s = j
    BY <1>1, <1>6, <1>8, FromSlot, FromOnWay
  <2>2. From(a, j, s) \in 0 .. x - 1
    BY <1>4, <2>1
  <2> QED BY <1>4, <2>1, <2>2
<1> HIDE DEF a, x, t, P
<1> QED BY <1>5, <1>6, <1>7, <1>8 DEF EndsAt, a, t

-----------------------------------------------------------------------------
(* What a search finds, and a table with one more key.                      *)

KeyTable(s) == [0 .. s - 1 -> Name \cup {NIL}]

LEMMA NilNot == NIL \notin Name /\ NIL \notin Dict /\ NIL \notin Value /\ NIL \notin Context
  BY DictAssumption

LEMMA FilledFinite ==
  ASSUME NEW s \in Nat, NEW t
  PROVE  /\ IsFiniteSet(Filled(t, s)) /\ Cardinality(Filled(t, s)) \in Nat
         /\ Cardinality(Filled(t, s)) <= s
<1>1. IsFiniteSet(0 .. s - 1) /\ Cardinality(0 .. s - 1) = s
  BY FS_Interval
<1>2. Filled(t, s) \subseteq 0 .. s - 1
  BY DEF Filled
<1> QED BY <1>1, <1>2, FS_Subset, FS_CardinalityType

\* A table with fewer keys than slots has an empty slot.
LEMMA SomeNull ==
  ASSUME NEW s \in Nat \ {0}, NEW t, Cardinality(Filled(t, s)) < s
  PROVE  \E z \in 0 .. s - 1 : t[z] = NIL
<1> SUFFICES ASSUME ~ \E z \in 0 .. s - 1 : t[z] = NIL PROVE FALSE
  OBVIOUS
<1>1. Filled(t, s) = 0 .. s - 1
  BY DEF Filled
<1>2. Cardinality(0 .. s - 1) = s
  BY FS_Interval
<1> QED BY <1>1, <1>2

LEMMA Found ==
  ASSUME NEW s \in Nat \ {0}, NEW t, Searchable(t, s), NEW i \in 0 .. s - 1, t[i] # NIL
  PROVE  EndsAt(t, s, t[i], i)
  BY DEF Searchable, EndsAt

\* No key is there twice.
LEMMA Once ==
  ASSUME NEW s \in Nat \ {0}, NEW t, Searchable(t, s),
         NEW i \in 0 .. s - 1, NEW j \in 0 .. s - 1, t[i] \in Name, t[i] = t[j]
  PROVE  i = j
  BY Found, OneEnd, NilNot

\* If the search for n ends at an empty slot n is nowhere.
LEMMA NotThere ==
  ASSUME NEW s \in Nat \ {0}, NEW t, Searchable(t, s), NEW n \in Name, NEW p,
         EndsAt(t, s, n, p), t[p] = NIL
  PROVE  \A i \in 0 .. s - 1 : t[i] # n
<1> SUFFICES ASSUME NEW i \in 0 .. s - 1, t[i] = n PROVE FALSE
  OBVIOUS
<1>1. EndsAt(t, s, n, i)
  BY Found, NilNot
<1> QED BY <1>1, OneEnd, NilNot

LEMMA InsertSearchable ==
  ASSUME NEW s \in Nat \ {0}, NEW t \in KeyTable(s), Searchable(t, s), NEW n \in Name, NEW p,
         EndsAt(t, s, n, p), t[p] = NIL
  PROVE  Searchable([t EXCEPT ![p] = n], s)
<1> DEFINE u == [t EXCEPT ![p] = n]
<1>1. p \in 0 .. s - 1 /\ \A i \in 0 .. s - 1 : u[i] = IF i = p THEN n ELSE t[i]
  BY DEF EndsAt, KeyTable
<1>2. \A i \in 0 .. s - 1 : t[i] # n
  BY NotThere
<1> HIDE DEF u
<1>3. ASSUME NEW i \in 0 .. s - 1, NEW j \in 0 .. s - 1, u[i] # NIL, OnWay(Home(u[i], s), j, i)
      PROVE  u[j] # NIL /\ u[j] # u[i]
  <2>1. CASE i = p
    <3>1. u[i] = n /\ ~ OnWay(Home(n, s), p, p)
      <4>1. Home(n, s) \in 0 .. s - 1
        BY HomeSlot
      <4> QED BY <1>1, <2>1, <4>1 DEF OnWay
    <3>2. j # p /\ t[j] \notin {n, NIL}
      BY <1>3, <2>1, <3>1 DEF EndsAt
    <3> QED BY <1>1, <3>1, <3>2
  <2>2. CASE i # p
    <3>1. u[i] = t[i] /\ t[j] # NIL /\ t[j] # t[i]
      BY <1>1, <1>3, <2>2 DEF Searchable
    <3> QED BY <1>1, <1>2, <3>1, NilNot
  <2> QED BY <2>1, <2>2
<1> QED BY <1>3 DEF Searchable, u

LEMMA InsertFilled ==
  ASSUME NEW s \in Nat \ {0}, NEW t \in KeyTable(s), NEW n \in Name,
         NEW p \in 0 .. s - 1, t[p] = NIL
  PROVE  Cardinality(Filled([t EXCEPT ![p] = n], s)) = Cardinality(Filled(t, s)) + 1
<1>1. Filled([t EXCEPT ![p] = n], s) = Filled(t, s) \cup {p} /\ p \notin Filled(t, s)
  BY NilNot DEF Filled, KeyTable
<1> QED BY <1>1, FilledFinite, FS_AddElement

\* The keys of a body.
KeysIn(b) == [i \in 0 .. b.size - 1 |-> b.table[i].key]

\* What the search of a searchable table finds.
LEMMA Search ==
  ASSUME NEW b, NEW s \in Nat \ {0}, b.size = s, NEW n \in Name, NEW t, t = KeysIn(b),
         Searchable(t, s), Cardinality(Filled(t, s)) < s
  PROVE  /\ EndsAt(t, s, n, Place(b, n))
         /\ Place(b, n) \in 0 .. s - 1
         /\ Known(b, n) <=> \E i \in 0 .. s - 1 : t[i] = n
         /\ Known(b, n) <=> t[Place(b, n)] = n
         /\ ~ Known(b, n) <=> t[Place(b, n)] = NIL
         /\ \A i \in 0 .. s - 1 : t[i] = n => Place(b, n) = i
<1>1. PICK z \in 0 .. s - 1 : t[z] = NIL
  BY SomeNull
<1>2. b.table[z].key \in {n, NIL}
  BY <1>1 DEF KeysIn
<1> DEFINE p == Place(b, n)
<1>3. EndsAt(t, s, n, p)
  BY <1>2, PlaceEnds DEF KeysIn
<1> HIDE DEF p
<1>4. p \in 0 .. s - 1 /\ t[p] \in {n, NIL} /\ t[p] = b.table[p].key
  BY <1>3 DEF EndsAt, KeysIn
<1>5. \A i \in 0 .. s - 1 : t[i] = n => p = i
  <2> SUFFICES ASSUME NEW i \in 0 .. s - 1, t[i] = n PROVE p = i
    OBVIOUS
  <2>1. EndsAt(t, s, n, i)
    BY Found, NilNot
  <2> QED BY <1>3, <2>1, OneEnd
<1>6. Known(b, n) <=> t[p] = n
  BY <1>4 DEF Known, p
<1> QED BY <1>3, <1>4, <1>5, <1>6, NilNot DEF p

-----------------------------------------------------------------------------
(* UnDef: the table between two moves of algorithm R, with a hole at one slot*)
(* and everything right but for what the hole hides.                        *)

Alone(t, s) == \A i, j \in 0 .. s - 1 : t[i] # NIL /\ t[i] = t[j] => i = j

HoleInv(t, s, at, hole, x) ==
  /\ hole \in 0 .. s - 1 /\ t[hole] = NIL /\ From(at, hole, s) <= x
  /\ \A i, j \in 0 .. s - 1 :
       t[i] # NIL /\ OnWay(Home(t[i], s), j, i) /\ j # hole => t[j] # NIL
  /\ \A i \in 0 .. s - 1 :
       t[i] # NIL /\ From(at, i, s) <= x => ~ OnWay(Home(t[i], s), hole, i)
  /\ Alone(t, s)
  /\ \E z \in 0 .. s - 1 : t[z] = NIL /\ From(at, z, s) > x

LEMMA SearchableAlone ==
  ASSUME NEW s \in Nat \ {0}, NEW t \in KeyTable(s), Searchable(t, s)
  PROVE  Alone(t, s)
  BY Once DEF Alone, KeyTable

\* The first hole.
LEMMA HoleMade ==
  ASSUME NEW s \in Nat \ {0}, NEW t \in KeyTable(s), Searchable(t, s),
         NEW at \in 0 .. s - 1, t[at] # NIL, NEW z \in 0 .. s - 1, t[z] = NIL
  PROVE  HoleInv([t EXCEPT ![at] = NIL], s, at, at, 0)
<1> DEFINE u == [t EXCEPT ![at] = NIL]
<1>1. \A i \in 0 .. s - 1 : u[i] = IF i = at THEN NIL ELSE t[i]
  BY DEF KeyTable
<1> HIDE DEF u
<1>2. u[at] = NIL /\ From(at, at, s) <= 0
  BY <1>1 DEF From
<1>3. ASSUME NEW i \in 0 .. s - 1, NEW j \in 0 .. s - 1, u[i] # NIL, OnWay(Home(u[i], s), j, i), j # at
      PROVE  u[j] # NIL
  BY <1>1, <1>3 DEF Searchable
<1>4. ASSUME NEW i \in 0 .. s - 1, u[i] # NIL, From(at, i, s) <= 0 PROVE FALSE
  <2>1. i = at
    BY <1>4 DEF From
  <2> QED BY <1>2, <1>4, <2>1
<1>5. Alone(u, s)
  <2>1. Alone(t, s)
    BY SearchableAlone
  <2> QED BY <1>1, <2>1 DEF Alone
<1>6. u[z] = NIL /\ From(at, z, s) > 0
  BY <1>1 DEF From
<1> QED BY <1>2, <1>3, <1>4, <1>5, <1>6 DEF HoleInv, u

\* The slot after those that were looked at.
LEMMA NextSlot ==
  ASSUME NEW s \in Nat \ {0}, NEW t, NEW at \in 0 .. s - 1, NEW hole, NEW x \in Nat,
         HoleInv(t, s, at, hole, x)
  PROVE  /\ x + 1 \in 1 .. s - 1
         /\ (at + x + 1) % s \in 0 .. s - 1
         /\ From(at, (at + x + 1) % s, s) = x + 1
         /\ (at + x + 1) % s # hole
<1>1. PICK z \in 0 .. s - 1 : From(at, z, s) > x
  BY DEF HoleInv
<1>2. From(at, z, s) \in 0 .. s - 1
  BY FromSlot
<1>3. x + 1 \in 0 .. s - 1 /\ at + x + 1 = at + (x + 1)
  BY <1>1, <1>2
<1>4. ASSUME NEW y \in 0 .. s - 1
      PROVE  (at + y) % s \in 0 .. s - 1 /\ From(at, (at + y) % s, s) = y
  <2>1. (at + y) % s \in 0 .. s - 1
    BY GoOn
  <2>2. From(at, (at + y) % s, s) = y
    BY FromGone
  <2> QED BY <2>1, <2>2
<1>5. From(at, hole, s) <= x
  BY DEF HoleInv
<1> DEFINE y == x + 1 i == (at + y) % s
<1>6. i \in 0 .. s - 1 /\ From(at, i, s) = y
  <2> HIDE DEF y
  <2> QED BY <1>3, <1>4 DEF y
<1>7. i = (at + x + 1) % s
  BY <1>3
<1> HIDE DEF i
<1> QED BY <1>3, <1>5, <1>6, <1>7

LEMMA HoleStays ==
  ASSUME NEW s \in Nat \ {0}, NEW t \in KeyTable(s), NEW at \in 0 .. s - 1, NEW hole, NEW x \in Nat,
         HoleInv(t, s, at, hole, x), NEW i \in 0 .. s - 1, From(at, i, s) = x + 1,
         t[i] # NIL, ~ Passes(Home(t[i], s), hole, i)
  PROVE  HoleInv(t, s, at, hole, x + 1)
<1>1. hole \in 0 .. s - 1 /\ From(at, hole, s) <= x
  BY DEF HoleInv
<1>2. Home(t[i], s) \in 0 .. s - 1
  BY HomeSlot DEF KeyTable
<1>3. ~ OnWay(Home(t[i], s), hole, i)
  BY <1>1, <1>2 DEF Passes, OnWay, From
<1>4. \A j \in 0 .. s - 1 : From(at, j, s) \in 0 .. s - 1 /\ (From(at, j, s) = From(at, i, s) => i = j)
  BY DEF From
<1>5. ASSUME NEW j \in 0 .. s - 1, t[j] # NIL, From(at, j, s) <= x + 1
      PROVE  ~ OnWay(Home(t[j], s), hole, j)
  <2>1. CASE From(at, j, s) <= x
    BY <1>5, <2>1 DEF HoleInv
  <2>2. CASE From(at, j, s) = x + 1
    BY <1>3, <1>4, <2>2
  <2> QED BY <1>4, <1>5, <2>1, <2>2
<1>6. PICK z \in 0 .. s - 1 : t[z] = NIL /\ From(at, z, s) > x
  BY DEF HoleInv
<1>7. From(at, z, s) > x + 1
  BY <1>4, <1>6
<1>8. From(at, hole, s) <= x + 1
  BY <1>1, <1>4
<1> QED BY <1>1, <1>5, <1>6, <1>7, <1>8 DEF HoleInv

LEMMA HoleMoves ==
  ASSUME NEW s \in Nat \ {0}, NEW t \in KeyTable(s), NEW at \in 0 .. s - 1, NEW hole, NEW x \in Nat,
         HoleInv(t, s, at, hole, x), NEW i \in 0 .. s - 1, From(at, i, s) = x + 1,
         t[i] # NIL, Passes(Home(t[i], s), hole, i)
  PROVE  HoleInv([t EXCEPT ![hole] = t[i], ![i] = NIL], s, at, i, x + 1)
<1> DEFINE u == [t EXCEPT ![hole] = t[i], ![i] = NIL]
<1>1. hole \in 0 .. s - 1 /\ From(at, hole, s) <= x /\ t[hole] = NIL /\ hole # i
  BY DEF HoleInv
<1>2. \A j \in 0 .. s - 1 : u[j] = IF j = i THEN NIL ELSE IF j = hole THEN t[i] ELSE t[j]
  BY <1>1 DEF KeyTable
<1> HIDE DEF u
<1>3. Home(t[i], s) \in 0 .. s - 1
  BY HomeSlot DEF KeyTable
<1>4. OnWay(Home(t[i], s), hole, i)
  BY <1>1, <1>3 DEF Passes, OnWay, From
<1>5. \A j \in 0 .. s - 1 : From(at, j, s) \in 0 .. s - 1 /\ (From(at, j, s) = From(at, i, s) => i = j)
  BY DEF From
<1>6. PICK z \in 0 .. s - 1 : t[z] = NIL /\ From(at, z, s) > x
  BY DEF HoleInv
<1>7. z # i /\ z # hole /\ u[z] = NIL /\ From(at, z, s) > x + 1
  BY <1>1, <1>2, <1>5, <1>6
<1>8. ASSUME NEW j \in 0 .. s - 1, NEW k \in 0 .. s - 1, u[j] # NIL, OnWay(Home(u[j], s), k, j), k # i
      PROVE  u[k] # NIL
  <2>1. CASE k = hole
    BY <1>1, <1>2, <1>8, <2>1
  <2>2. CASE k # hole /\ j = hole
    <3>1. u[j] = t[i]
      BY <1>1, <1>2, <2>2
    <3>2. OnWay(Home(t[i], s), k, i)
      BY <1>3, <1>4, <1>8, <2>2, <3>1 DEF OnWay
    <3> QED BY <1>2, <1>8, <2>2, <3>2 DEF HoleInv
  <2>3. CASE k # hole /\ j # hole
    <3>1. j # i /\ u[j] = t[j]
      BY <1>2, <1>8, <2>3
    <3> QED BY <1>2, <1>8, <2>3, <3>1 DEF HoleInv
  <2> QED BY <2>1, <2>2, <2>3
<1>9. ASSUME NEW j \in 0 .. s - 1, u[j] # NIL, From(at, j, s) <= x + 1, OnWay(Home(u[j], s), i, j)
      PROVE  FALSE
  <2>1. j # i
    BY <1>2, <1>9
  <2>2. CASE j = hole
    <3>1. u[j] = t[i]
      BY <1>1, <1>2, <2>2
    <3> QED BY <1>3, <1>4, <1>9, <2>1, <2>2, <3>1 DEF OnWay
  <2>3. CASE j # hole
    <3>1. u[j] = t[j] /\ t[j] # NIL
      BY <1>2, <1>9, <2>1, <2>3
    <3>2. Home(t[j], s) \in 0 .. s - 1
      BY <3>1, HomeSlot DEF KeyTable
    <3>3. From(at, j, s) < x + 1
      BY <1>5, <1>9, <2>1
    <3>4. OnWay(Home(t[j], s), z, j)
      BY <1>5, <1>7, <1>9, <3>1, <3>2, <3>3 DEF OnWay, From
    <3> QED BY <1>6, <1>7, <3>1, <3>4 DEF HoleInv
  <2> QED BY <2>2, <2>3
<1>10. Alone(u, s)
  BY <1>1, <1>2 DEF Alone, HoleInv
<1>11. u[i] = NIL /\ From(at, i, s) <= x + 1
  BY <1>2
<1> QED BY <1>7, <1>8, <1>9, <1>10, <1>11 DEF HoleInv, u

LEMMA HoleDone ==
  ASSUME NEW s \in Nat \ {0}, NEW t \in KeyTable(s), NEW at \in 0 .. s - 1, NEW hole, NEW x \in Nat,
         HoleInv(t, s, at, hole, x), NEW i \in 0 .. s - 1, From(at, i, s) = x + 1, t[i] = NIL
  PROVE  Searchable(t, s)
<1>1. hole \in 0 .. s - 1 /\ From(at, hole, s) <= x /\ t[hole] = NIL /\ hole # i
  BY DEF HoleInv
<1>2. ASSUME NEW j \in 0 .. s - 1, t[j] # NIL PROVE ~ OnWay(Home(t[j], s), hole, j)
  <2>1. CASE From(at, j, s) <= x
    BY <1>2, <2>1 DEF HoleInv
  <2>2. CASE ~ (From(at, j, s) <= x)
    <3>1. Home(t[j], s) \in 0 .. s - 1
      BY <1>2, HomeSlot DEF KeyTable
    <3>2. j # i
      BY <1>2
    <3>3. ~ OnWay(Home(t[j], s), i, j)
      BY <1>1, <1>2 DEF HoleInv
    <3> QED BY <1>1, <2>2, <3>1, <3>2, <3>3 DEF OnWay, From
  <2> QED BY <2>1, <2>2
<1>3. ASSUME NEW j \in 0 .. s - 1, NEW k \in 0 .. s - 1, t[j] # NIL, OnWay(Home(t[j], s), k, j)
      PROVE  t[k] # NIL /\ t[k] # t[j]
  <2>1. k # hole
    BY <1>2, <1>3
  <2>2. k # j
    <3>1. Home(t[j], s) \in 0 .. s - 1
      BY <1>3, HomeSlot DEF KeyTable
    <3> QED BY <1>3, <3>1 DEF OnWay
  <2> QED BY <1>3, <2>1, <2>2 DEF HoleInv, Alone
<1> QED BY <1>3 DEF Searchable

LEMMA EmptyFilled ==
  ASSUME NEW s \in Nat \ {0}, NEW t \in KeyTable(s), NEW p \in 0 .. s - 1, t[p] # NIL
  PROVE  Cardinality(Filled([t EXCEPT ![p] = NIL], s)) = Cardinality(Filled(t, s)) - 1
<1>1. Filled([t EXCEPT ![p] = NIL], s) = Filled(t, s) \ {p} /\ p \in Filled(t, s)
  BY DEF Filled, KeyTable
<1> QED BY <1>1, FilledFinite, FS_RemoveElement

LEMMA MoveFilled ==
  ASSUME NEW s \in Nat \ {0}, NEW t \in KeyTable(s), NEW p \in 0 .. s - 1, NEW i \in 0 .. s - 1,
         t[p] = NIL, t[i] # NIL
  PROVE  Cardinality(Filled([t EXCEPT ![p] = t[i], ![i] = NIL], s)) = Cardinality(Filled(t, s))
<1>1. t[i] \in Name /\ p # i
  BY DEF KeyTable
<1> DEFINE u == [t EXCEPT ![p] = t[i]]
<1>2. u \in KeyTable(s) /\ u[i] # NIL /\ [t EXCEPT ![p] = t[i], ![i] = NIL] = [u EXCEPT ![i] = NIL]
  BY <1>1 DEF KeyTable
<1>3. Cardinality(Filled(u, s)) = Cardinality(Filled(t, s)) + 1
  BY <1>1, InsertFilled
<1> HIDE DEF u
<1>4. Cardinality(Filled([u EXCEPT ![i] = NIL], s)) = Cardinality(Filled(u, s)) - 1
  BY <1>2, EmptyFilled
<1>5. Cardinality(Filled(t, s)) \in Nat
  BY FilledFinite
<1> QED BY <1>2, <1>3, <1>4, <1>5

-----------------------------------------------------------------------------
(* Logs.  The records of one place, a function of their levels, form a chain:*)
(* each says of which level the place was before.                           *)

LEMMA AtLeast ==
  ASSUME NEW f, DOMAIN f \subseteq Nat, NEW cur, NEW k \in Nat, NEW l \in DOMAIN f, k < l,
         \A m \in DOMAIN f : k < m => l <= m
  PROVE  At(f, cur, k) = f[l]
<1> DEFINE P(x) == k < x /\ \A m \in DOMAIN f : k < m => x <= m
           y == CHOOSE x \in DOMAIN f : P(x)
<1>1. y \in DOMAIN f /\ P(y)
  <2>1. P(l)
    OBVIOUS
  <2> HIDE DEF P
  <2> QED BY <2>1
<1>2. y = l
  <2> HIDE DEF y
  <2> QED BY <1>1
<1>3. At(f, cur, k) = f[y]
  BY DEF At
<1> QED BY <1>2, <1>3

LEMMA AtNone ==
  ASSUME NEW f, NEW cur, NEW k, ~ \E l \in DOMAIN f : k < l
  PROVE  At(f, cur, k) = cur
  BY DEF At

LEMMA LeastAfter ==
  ASSUME NEW f, DOMAIN f \subseteq Nat, NEW k \in Nat, \E l \in DOMAIN f : k < l
  PROVE  \E l \in DOMAIN f : k < l /\ \A m \in DOMAIN f : k < m => l <= m
<1> DEFINE T == {m \in DOMAIN f : k < m}
<1>1. PICK l \in T : \A m \in T : l <= m
  BY Least1
<1> QED BY <1>1

\* f is a log up to level L.
LogTo(f, L, field) == DOMAIN f \subseteq 1 .. L /\ \A l \in DOMAIN f : f[l][field] \in Nat

\* g is f with a record at level L, where it had none.
OneMore(f, g, L, old) ==
  /\ \A l : l \in DOMAIN g <=> l \in DOMAIN f \/ l = L
  /\ \A l \in DOMAIN f : g[l] = f[l]
  /\ L \notin DOMAIN f => g[L] = old

\* The first write at a level leaves a record ...
LEMMA ChainWrite ==
  ASSUME NEW L \in Nat, NEW f, NEW field, LogTo(f, L, field),
         NEW b \in Nat, b <= L, NEW cur \in Nat, cur <= L, cur # L, Chain(f, field, cur, b),
         NEW old, old[field] = cur,
         NEW g, OneMore(f, g, L, old)
  PROVE  /\ Chain(g, field, L, b)
         /\ \A k \in b .. L - 1 : \A new : At(g, new, k) = At(f, old, k)
<1>0. DOMAIN f \subseteq 1 .. L /\ \A l \in DOMAIN f : f[l][field] \in Nat
  BY DEF LogTo
<1>1. L \notin DOMAIN f /\ \A l \in DOMAIN f : l <= cur /\ l < L
  BY <1>0 DEF Chain
<1>2. /\ g[L] = old
      /\ \A l : l \in DOMAIN g <=> l \in DOMAIN f \/ l = L
      /\ \A l \in DOMAIN f : g[l] = f[l]
  BY <1>0, <1>1 DEF OneMore
<1>3. Chain(g, field, L, b)
  <2>1. ASSUME NEW l \in DOMAIN g
        PROVE  /\ l <= L /\ b <= g[l][field] /\ g[l][field] < l
               /\ g[l][field] = b \/ g[l][field] \in DOMAIN g
               /\ \A m \in DOMAIN g : m < l => m <= g[l][field]
    <3>1. CASE l = L
      <4>1. g[l][field] = cur
        BY <1>0, <1>2, <3>1
      <4>2. \A m \in DOMAIN g : m < l => m <= cur
        BY <1>0, <1>1, <1>2, <3>1
      <4> QED BY <1>0, <1>2, <3>1, <4>1, <4>2 DEF Chain
    <3>2. CASE l \in DOMAIN f
      BY <1>0, <1>1, <1>2, <3>2 DEF Chain
    <3> QED BY <1>0, <1>2, <3>1, <3>2
  <2>2. b <= L /\ L \in DOMAIN g
    BY <1>0, <1>2
  <2> QED BY <1>0, <2>1, <2>2 DEF Chain
<1>4. ASSUME NEW k \in b .. L - 1, NEW new PROVE At(g, new, k) = At(f, old, k)
  <2>1. DOMAIN f \subseteq Nat /\ DOMAIN g \subseteq Nat /\ k \in Nat
    BY <1>0, <1>2
  <2>2. CASE \E l \in DOMAIN f : k < l
    <3>1. PICK l \in DOMAIN f : k < l /\ \A m \in DOMAIN f : k < m => l <= m
      BY <1>0, <2>1, <2>2, LeastAfter
    <3>2. At(f, old, k) = f[l]
      BY <1>0, <2>1, <3>1, AtLeast
    <3>3. l \in DOMAIN g /\ \A m \in DOMAIN g : k < m => l <= m
      BY <1>0, <1>1, <1>2, <3>1
    <3>4. At(g, new, k) = g[l]
      BY <1>0, <2>1, <3>1, <3>3, AtLeast
    <3> QED BY <1>0, <1>2, <3>2, <3>4
  <2>3. CASE ~ \E l \in DOMAIN f : k < l
    <3>1. At(f, old, k) = old
      BY <1>0, <2>3, AtNone
    <3>2. L \in DOMAIN g /\ k < L /\ \A m \in DOMAIN g : k < m => L <= m
      BY <1>0, <1>2, <2>3
    <3>3. At(g, new, k) = g[L]
      BY <1>0, <2>1, <3>2, AtLeast
    <3> QED BY <1>0, <1>2, <3>1, <3>3
  <2> QED BY <1>0, <2>2, <2>3
<1> QED BY <1>0, <1>3, <1>4

\* ... and what is written after it is forgotten by a restore.
LEMMA ChainRewrite ==
  ASSUME NEW L \in Nat, NEW f, NEW field, LogTo(f, L, field),
         NEW b \in Nat, Chain(f, field, L, b), NEW k \in b .. L - 1, NEW old, NEW new
  PROVE  At(f, new, k) = At(f, old, k)
<1>0. DOMAIN f \subseteq 1 .. L /\ \A l \in DOMAIN f : f[l][field] \in Nat
  BY DEF LogTo
<1>1. \E l \in DOMAIN f : k < l
  BY <1>0 DEF Chain
<1>2. PICK l \in DOMAIN f : k < l /\ \A m \in DOMAIN f : k < m => l <= m
  BY <1>0, <1>1, LeastAfter
<1> QED BY <1>0, <1>2, AtLeast

\* Of the records above level k the one that goes back to k is the first.
LEMMA ChainUndone ==
  ASSUME NEW L \in Nat, NEW f, NEW field, LogTo(f, L, field),
         NEW b \in Nat, NEW c \in Nat, NEW cur, cur[field] = c, Chain(f, field, c, b),
         NEW k \in b .. L
  PROVE  /\ \A l \in DOMAIN f : k < l /\ f[l][field] <= k =>
              f[l] = At(f, cur, k) /\ \A m \in DOMAIN f : k < m /\ f[m][field] <= k => m = l
         /\ (\A l \in DOMAIN f : k < l => ~ (f[l][field] <= k)) => At(f, cur, k) = cur
<1>0. DOMAIN f \subseteq 1 .. L /\ \A l \in DOMAIN f : f[l][field] \in Nat
  BY DEF LogTo
<1>1. DOMAIN f \subseteq Nat
  BY <1>0
<1>2. ASSUME NEW l \in DOMAIN f, k < l, f[l][field] <= k, NEW m \in DOMAIN f, k < m PROVE l <= m
  BY <1>0, <1>1, <1>2 DEF Chain
<1>3. ASSUME NEW l \in DOMAIN f, k < l, f[l][field] <= k PROVE f[l] = At(f, cur, k)
  <2>1. \A m \in DOMAIN f : k < m => l <= m
    BY <1>0, <1>2, <1>3
  <2> QED BY <1>0, <1>1, <1>3, <2>1, AtLeast
<1>4. ASSUME NEW l \in DOMAIN f, k < l, f[l][field] <= k,
             NEW m \in DOMAIN f, k < m, f[m][field] <= k PROVE m = l
  BY <1>0, <1>1, <1>2, <1>4
<1>5. ASSUME \A l \in DOMAIN f : k < l => ~ (f[l][field] <= k) PROVE At(f, cur, k) = cur
  <2>1. CASE \E l \in DOMAIN f : k < l
    <3>1. PICK l \in DOMAIN f : k < l /\ \A m \in DOMAIN f : k < m => l <= m
      BY <1>0, <1>1, <2>1, LeastAfter
    <3>2. f[l][field] <= k
      BY <1>0, <1>1, <3>1 DEF Chain
    <3> QED BY <1>0, <1>5, <3>1, <3>2
  <2>2. CASE ~ \E l \in DOMAIN f : k < l
    BY <1>0, <2>2, AtNone
  <2> QED BY <1>0, <2>1, <2>2
<1> QED BY <1>0, <1>3, <1>4, <1>5

\* What is left of a chain when all after level k is given up.
LEMMA ChainCut ==
  ASSUME NEW L \in Nat, NEW f, NEW field, LogTo(f, L, field),
         NEW b \in Nat, NEW c \in Nat, NEW cur, cur[field] = c, c <= L, Chain(f, field, c, b),
         NEW k \in b .. L, NEW g, DOMAIN g = DOMAIN f \cap (1 .. k), \A l \in DOMAIN g : g[l] = f[l],
         NEW now, now = At(f, cur, k)
  PROVE  /\ now[field] \in Nat /\ now[field] <= k
         /\ Chain(g, field, now[field], b)
         /\ \A j \in b .. k : At(g, now, j) = At(f, cur, j)
<1>0. DOMAIN f \subseteq 1 .. L /\ \A l \in DOMAIN f : f[l][field] \in Nat
  BY DEF LogTo
<1>1. DOMAIN f \subseteq Nat /\ DOMAIN g \subseteq Nat /\ k \in Nat
  BY <1>0
<1>2. CASE \E l \in DOMAIN f : k < l
  <2>1. PICK l \in DOMAIN f : k < l /\ \A m \in DOMAIN f : k < m => l <= m
    BY <1>0, <1>1, <1>2, LeastAfter
  <2>2. now = f[l] /\ now[field] \in Nat
    BY <1>0, <1>1, <2>1, AtLeast
  <2>3. now[field] <= k
    BY <1>0, <1>1, <2>1, <2>2 DEF Chain
  <2>4. ASSUME NEW m \in DOMAIN g PROVE m \in DOMAIN f /\ m <= now[field]
    BY <1>0, <1>1, <2>1, <2>2 DEF Chain
  <2>5. now[field] = b \/ now[field] \in DOMAIN g
    <3>1. now[field] = b \/ now[field] \in DOMAIN f
      BY <1>0, <2>1, <2>2 DEF Chain
    <3>2. now[field] \in DOMAIN f => now[field] \in 1 .. k
      BY <1>0, <2>3
    <3> QED BY <1>0, <3>1, <3>2
  <2>6. ASSUME NEW m \in DOMAIN g
        PROVE  /\ m <= now[field] /\ b <= g[m][field] /\ g[m][field] < m
               /\ g[m][field] = b \/ g[m][field] \in DOMAIN g
               /\ \A x \in DOMAIN g : x < m => x <= g[m][field]
    <3>1. g[m] = f[m] /\ m \in DOMAIN f /\ m <= k /\ g[m][field] \in Nat
      BY <1>0, <2>4
    <3>2. b <= g[m][field] /\ g[m][field] < m /\ (g[m][field] = b \/ g[m][field] \in DOMAIN f)
      BY <1>0, <3>1 DEF Chain
    <3>3. g[m][field] \in DOMAIN f => g[m][field] \in DOMAIN g
      BY <1>0, <1>1, <3>1, <3>2
    <3>4. \A x \in DOMAIN g : x < m => x <= g[m][field]
      BY <1>0, <3>1 DEF Chain
    <3> QED BY <1>0, <2>4, <3>2, <3>3, <3>4
  <2>7. b <= now[field]
    BY <1>0, <2>1, <2>2 DEF Chain
  <2>8. Chain(g, field, now[field], b)
    BY <1>0, <2>5, <2>6, <2>7 DEF Chain
  <2>9. ASSUME NEW j \in b .. k PROVE At(g, now, j) = At(f, cur, j)
    <3>1. j \in Nat /\ j <= k
      BY <1>0
    <3>2. CASE \E m \in DOMAIN g : j < m
      <4>1. PICK m \in DOMAIN g : j < m /\ \A x \in DOMAIN g : j < x => m <= x
        BY <1>0, <1>1, <3>1, <3>2, LeastAfter
      <4>2. m \in DOMAIN f /\ m <= k /\ g[m] = f[m] /\ \A x \in DOMAIN f : j < x => m <= x
        BY <1>0, <1>1, <4>1
      <4>3. At(g, now, j) = g[m]
        BY <1>0, <1>1, <3>1, <4>1, AtLeast
      <4>4. At(f, cur, j) = f[m]
        BY <1>0, <1>1, <3>1, <4>1, <4>2, AtLeast
      <4> QED BY <1>0, <4>2, <4>3, <4>4
    <3>3. CASE ~ \E m \in DOMAIN g : j < m
      <4>1. At(g, now, j) = now
        BY <1>0, <3>3, AtNone
      <4>2. j < l /\ \A x \in DOMAIN f : j < x => l <= x
        BY <1>0, <1>1, <2>1, <3>1, <3>3
      <4>3. At(f, cur, j) = f[l]
        BY <1>0, <1>1, <3>1, <4>2, AtLeast
      <4> QED BY <1>0, <2>2, <4>1, <4>3
    <3> QED BY <1>0, <3>2, <3>3
  <2> QED BY <1>0, <2>2, <2>3, <2>8, <2>9
<1>3. CASE ~ \E l \in DOMAIN f : k < l
  <2>1. now = cur
    BY <1>0, <1>3, AtNone
  <2>2. DOMAIN g = DOMAIN f
    BY <1>0, <1>1, <1>3
  <2>3. c <= k
    BY <1>0, <1>1, <1>3 DEF Chain
  <2>4. Chain(g, field, c, b)
    BY <1>0, <2>2 DEF Chain
  <2>5. ASSUME NEW j \in b .. k PROVE At(g, now, j) = At(f, cur, j)
    <3>1. j \in Nat
      BY <1>0
    <3>2. CASE \E m \in DOMAIN f : j < m
      <4>1. PICK m \in DOMAIN f : j < m /\ \A x \in DOMAIN f : j < x => m <= x
        BY <1>0, <1>1, <3>1, <3>2, LeastAfter
      <4>2. At(f, cur, j) = f[m]
        BY <1>0, <1>1, <3>1, <4>1, AtLeast
      <4>3. At(g, now, j) = g[m]
        BY <1>0, <1>1, <2>2, <3>1, <4>1, AtLeast
      <4> QED BY <1>0, <2>2, <4>1, <4>2, <4>3
    <3>3. CASE ~ \E m \in DOMAIN f : j < m
      BY <1>0, <2>1, <2>2, <3>3, AtNone
    <3> QED BY <1>0, <3>2, <3>3
  <2> QED BY <1>0, <2>1, <2>3, <2>4, <2>5
<1> QED BY <1>0, <1>2, <1>3

-----------------------------------------------------------------------------
(* A record is made.                                                        *)

\* What a first record does to a log.
Grown(f, g, cur, old) ==
  IF cur = level THEN g = f ELSE OneMore(f, g, level, old)

LEMMA WithRecordIs ==
  ASSUME NEW f, NEW p, NEW v
  PROVE  /\ \A x : x \in DOMAIN WithRecord(f, p, v) <=> x \in DOMAIN f \/ x = p
         /\ \A x \in DOMAIN f : WithRecord(f, p, v)[x] = f[x]
         /\ p \notin DOMAIN f => WithRecord(f, p, v)[p] = v
         /\ IsFcn(WithRecord(f, p, v))
  BY DEF WithRecord, IsFcn

LEMMA RecordMade ==
  ASSUME level \in Nat \ {0}, NEW h, Typed(h), NEW kind \in Kinds, NEW p \in PlacesOf(kind),
         NEW old \in RecordsOf(kind), NEW g, g = Recorded(h, kind, p, old)
  PROVE  /\ Typed(g) /\ g.body = h.body /\ g.cache = h.cache
         /\ \A l \in 1 .. level : \A k \in Kinds :
              g.sr[l][k] = IF l = level /\ k = kind THEN WithRecord(h.sr[l][k], p, old) ELSE h.sr[l][k]
<1> DEFINE L == level
           w == WithRecord(h.sr[L][kind], p, old)
           u == [h.sr[L] EXCEPT ![kind] = WithRecord(@, p, old)]
<1>1. L \in 1 .. level /\ DOMAIN h.sr = 1 .. level /\ Undo(h.sr[L])
  BY DEF Typed
<1>2. /\ g.sr = [h.sr EXCEPT ![L] = u] /\ g.body = h.body /\ g.cache = h.cache
      /\ g = [body |-> g.body, cache |-> g.cache, sr |-> g.sr]
  BY DEF Typed, Recorded
<1>3. /\ \A k \in Kinds : u[k] = IF k = kind THEN w ELSE h.sr[L][k]
      /\ u = [keys |-> u.keys, values |-> u.values, dbs |-> u.dbs]
  BY <1>1 DEF Undo, Kinds
<1>4. Undo(u)
  <2>1. IsFcn(w) /\ DOMAIN w \subseteq PlacesOf(kind) /\ \A q \in DOMAIN w : w[q] \in RecordsOf(kind)
    <3>1. DOMAIN h.sr[L][kind] \subseteq PlacesOf(kind)
          /\ \A q \in DOMAIN h.sr[L][kind] : h.sr[L][kind][q] \in RecordsOf(kind)
      BY <1>1 DEF Undo
    <3> QED BY <3>1, WithRecordIs
  <2> HIDE DEF u, w
  <2> QED BY <1>1, <1>3, <2>1 DEF Undo
<1> HIDE DEF u
<1>5. DOMAIN g.sr = 1 .. level /\ IsFcn(g.sr) /\ \A l \in 1 .. level : g.sr[l] = IF l = L THEN u ELSE h.sr[l]
  BY <1>1, <1>2 DEF Typed, IsFcn
<1>6. Typed(g)
  BY <1>2, <1>4, <1>5 DEF Typed
<1> HIDE DEF L
<1> QED BY <1>2, <1>3, <1>5, <1>6 DEF L

\* What the logs are when a record is made.
RecordAdded(new, sr, L, kind, p, old) ==
  /\ DOMAIN sr = 1 .. L /\ DOMAIN new = 1 .. L
  /\ \A l \in 1 .. L :
       new[l][kind] = IF l = L THEN WithRecord(sr[l][kind], p, old) ELSE sr[l][kind]

LEMMA LogGrows ==
  ASSUME NEW L \in Nat, L # 0, NEW sr, NEW new, NEW kind, NEW p, NEW old,
         RecordAdded(new, sr, L, kind, p, old)
  PROVE  /\ \A q : q # p => Log(new, kind, q) = Log(sr, kind, q)
         /\ OneMore(Log(sr, kind, p), Log(new, kind, p), L, old)
<1>1. L \in 1 .. L /\ DOMAIN sr = 1 .. L /\ DOMAIN new = 1 .. L
  BY DEF RecordAdded
<1>2. \A l \in 1 .. L : \A q : q # p =>
        (q \in DOMAIN new[l][kind] <=> q \in DOMAIN sr[l][kind]) /\
        (q \in DOMAIN sr[l][kind] => new[l][kind][q] = sr[l][kind][q])
  BY WithRecordIs DEF RecordAdded
<1>3. \A l \in 1 .. L :
        (p \in DOMAIN new[l][kind] <=> p \in DOMAIN sr[l][kind] \/ l = L) /\
        (p \in DOMAIN sr[l][kind] => new[l][kind][p] = sr[l][kind][p])
  BY WithRecordIs DEF RecordAdded
<1>4. p \notin DOMAIN sr[L][kind] => new[L][kind][p] = old
  BY <1>1, WithRecordIs DEF RecordAdded
<1>5. ASSUME NEW q, q # p PROVE Log(new, kind, q) = Log(sr, kind, q)
  <2>1. {m \in DOMAIN new : q \in DOMAIN new[m][kind]} = {m \in DOMAIN sr : q \in DOMAIN sr[m][kind]}
    BY <1>1, <1>2, <1>5
  <2>2. \A m \in {x \in DOMAIN sr : q \in DOMAIN sr[x][kind]} : new[m][kind][q] = sr[m][kind][q]
    BY <1>1, <1>2, <1>5
  <2> QED BY <2>1, <2>2 DEF Log
<1>6. \A l : l \in DOMAIN Log(new, kind, p) <=> l \in DOMAIN Log(sr, kind, p) \/ l = L
  BY <1>1, <1>3 DEF Log
<1>7. \A l \in DOMAIN Log(sr, kind, p) : Log(new, kind, p)[l] = Log(sr, kind, p)[l]
  BY <1>1, <1>3 DEF Log
<1>8. L \notin DOMAIN Log(sr, kind, p) => Log(new, kind, p)[L] = old
  BY <1>1, <1>3, <1>4 DEF Log
<1> QED BY <1>5, <1>6, <1>7, <1>8 DEF OneMore

LEMMA LogSame ==
  ASSUME NEW sr, NEW new, DOMAIN sr = DOMAIN new, NEW kind, \A l \in DOMAIN sr : new[l][kind] = sr[l][kind]
  PROVE  \A q : Log(new, kind, q) = Log(sr, kind, q)
<1> SUFFICES ASSUME NEW q PROVE Log(new, kind, q) = Log(sr, kind, q)
  OBVIOUS
<1>1. {m \in DOMAIN new : q \in DOMAIN new[m][kind]} = {m \in DOMAIN sr : q \in DOMAIN sr[m][kind]}
  OBVIOUS
<1> QED BY <1>1 DEF Log

\* A change of a place, whose level was cur and which held old: its log grows and no other.
Noted(h, g, kind, p, cur, old) ==
  /\ Typed(g) /\ g.body = h.body /\ g.cache = h.cache
  /\ \A k \in Kinds : \A q : k # kind \/ q # p => Log(g.sr, k, q) = Log(h.sr, k, q)
  /\ Grown(Log(h.sr, kind, p), Log(g.sr, kind, p), cur, old)
  /\ \A l \in 1 .. level : \A k \in Kinds : \A q \in DOMAIN g.sr[l][k] :
       \/ q \in DOMAIN h.sr[l][k] /\ g.sr[l][k][q] = h.sr[l][k][q]
       \/ k = kind /\ q = p /\ g.sr[l][k][q] = old

LEMMA RecordNoted ==
  ASSUME level \in Nat, NEW h, Typed(h), NEW kind \in Kinds, NEW p \in PlacesOf(kind),
         NEW old \in RecordsOf(kind), NEW cur \in Nat, cur <= level,
         NEW g, g = IF cur = level THEN h ELSE Recorded(h, kind, p, old)
  PROVE  Noted(h, g, kind, p, cur, old)
<1>1. CASE cur = level
  BY <1>1 DEF Noted, Grown
<1>2. CASE cur # level
  <2>1. level \in Nat \ {0} /\ g = Recorded(h, kind, p, old)
    BY <1>2
  <2>2. /\ Typed(g) /\ g.body = h.body /\ g.cache = h.cache
        /\ \A l \in 1 .. level : \A k \in Kinds :
             g.sr[l][k] = IF l = level /\ k = kind THEN WithRecord(h.sr[l][k], p, old) ELSE h.sr[l][k]
    BY <2>1, RecordMade
  <2>3. DOMAIN g.sr = 1 .. level /\ DOMAIN h.sr = 1 .. level
    BY <2>2 DEF Typed
  <2>4. \A k \in Kinds : k # kind => \A q : Log(g.sr, k, q) = Log(h.sr, k, q)
    BY <2>2, <2>3, LogSame
  <2>5. \A l \in 1 .. level :
          g.sr[l][kind] = IF l = level THEN WithRecord(h.sr[l][kind], p, old) ELSE h.sr[l][kind]
    BY <2>2
  <2>6. /\ \A q : q # p => Log(g.sr, kind, q) = Log(h.sr, kind, q)
        /\ Grown(Log(h.sr, kind, p), Log(g.sr, kind, p), cur, old)
    <3>1. RecordAdded(g.sr, h.sr, level, kind, p, old)
      BY <2>3, <2>5 DEF RecordAdded
    <3>2. /\ \A q : q # p => Log(g.sr, kind, q) = Log(h.sr, kind, q)
          /\ OneMore(Log(h.sr, kind, p), Log(g.sr, kind, p), level, old)
      BY <2>1, <3>1, LogGrows
    <3> QED BY <1>2, <3>2 DEF Grown
  <2>7. ASSUME NEW l \in 1 .. level, NEW k \in Kinds, NEW q \in DOMAIN g.sr[l][k]
        PROVE  \/ q \in DOMAIN h.sr[l][k] /\ g.sr[l][k][q] = h.sr[l][k][q]
               \/ k = kind /\ q = p /\ g.sr[l][k][q] = old
    <3>1. CASE l = level /\ k = kind
      <4>1. g.sr[l][k] = WithRecord(h.sr[l][k], p, old)
        BY <2>2, <3>1
      <4> QED BY <3>1, <4>1, WithRecordIs
    <3>2. CASE ~ (l = level /\ k = kind)
      BY <2>2, <3>2
    <3> QED BY <3>1, <3>2
  <2> QED BY <2>2, <2>4, <2>6, <2>7 DEF Noted
<1> QED BY <1>1, <1>2

-----------------------------------------------------------------------------
(* The records of a write, and what a restore would find.                   *)

FieldOf(kind) == IF kind = "keys" THEN "klevel" ELSE IF kind = "values" THEN "vlevel" ELSE "level"

LEMMA LogTyped ==
  ASSUME level \in Nat, NEW h, Typed(h), NEW kind \in Kinds, NEW p
  PROVE  /\ DOMAIN Log(h.sr, kind, p) \subseteq 1 .. level
         /\ \A l \in DOMAIN Log(h.sr, kind, p) :
              /\ p \in DOMAIN h.sr[l][kind] /\ Log(h.sr, kind, p)[l] = h.sr[l][kind][p]
              /\ Log(h.sr, kind, p)[l] \in RecordsOf(kind)
              /\ Log(h.sr, kind, p)[l][FieldOf(kind)] \in Nat
         /\ p \notin PlacesOf(kind) => DOMAIN Log(h.sr, kind, p) = {}
<1>1. DOMAIN h.sr = 1 .. level /\ \A l \in 1 .. level : Undo(h.sr[l])
  BY DEF Typed
<1>2. DOMAIN Log(h.sr, kind, p) = {m \in 1 .. level : p \in DOMAIN h.sr[m][kind]}
      /\ \A l \in DOMAIN Log(h.sr, kind, p) : Log(h.sr, kind, p)[l] = h.sr[l][kind][p]
  BY <1>1 DEF Log
<1>3. \A l \in 1 .. level : DOMAIN h.sr[l][kind] \subseteq PlacesOf(kind)
         /\ \A q \in DOMAIN h.sr[l][kind] : h.sr[l][kind][q] \in RecordsOf(kind)
  BY <1>1 DEF Undo
<1>4. ASSUME NEW r \in RecordsOf(kind) PROVE r[FieldOf(kind)] \in Nat
  BY DEF RecordsOf, FieldOf, Kinds, KeyRecord, ValueRecord, HeaderRecord
<1> QED BY <1>2, <1>3, <1>4

\* A write of what the log is about.
LEMMA ChainStep ==
  ASSUME level \in Nat, NEW f, NEW g, NEW field, LogTo(f, level, field),
         NEW b \in Nat, b <= level, NEW cur \in Nat, cur <= level, Chain(f, field, cur, b),
         NEW old, old[field] = cur, Grown(f, g, cur, old)
  PROVE  /\ Chain(g, field, level, b)
         /\ \A k \in b .. level - 1 : \A new : At(g, new, k) = At(f, old, k)
<1>1. CASE cur = level
  <2>1. g = f
    BY <1>1 DEF Grown
  <2> QED BY <1>1, <2>1, ChainRewrite
<1>2. CASE cur # level
  <2>1. OneMore(f, g, level, old)
    BY <1>2 DEF Grown
  <2> QED BY <1>2, <2>1, ChainWrite
<1> QED BY <1>1, <1>2

\* What a restore would give back stays what it was.
Kept(h, g) ==
  \A e \in Dict :
    /\ g.body[e] = NIL <=> h.body[e] = NIL
    /\ h.body[e] # NIL /\ e \notin Shared =>
         /\ g.body[e].size = h.body[e].size
         /\ \A k \in birth[e] .. level - 1 :
              /\ HeaderAt(g, e, k) = HeaderAt(h, e, k)
              /\ \A i \in 0 .. h.body[e].size - 1 :
                   KeyAt(g, e, i, k) = KeyAt(h, e, i, k) /\ ValueAt(g, e, i, k) = ValueAt(h, e, i, k)

LEMMA KeptStays == \A h : Kept(h, h)
  BY DEF Kept

LEMMA KeptOn ==
  ASSUME NEW h, NEW g, NEW f, Kept(h, g), Kept(g, f)
  PROVE  Kept(h, f)
  BY DEF Kept

LEMMA EntryIs ==
  ASSUME NEW h, NEW d \in Dict, Sized(d, h.body[d]), NEW i \in 0 .. h.body[d].size - 1
  PROVE  LET o == h.body[d].table[i] IN
         /\ o \in Entry
         /\ o = [key |-> o.key, klevel |-> o.klevel, value |-> o.value, vlevel |-> o.vlevel]
         /\ KeyOf(o) \in KeyRecord /\ ValueOf(o) \in ValueRecord
         /\ o.klevel \in Nat /\ o.vlevel \in Nat
         /\ o.key \in Name \cup {NIL} /\ o.value \in Value \cup {NIL}
<1> DEFINE o == h.body[d].table[i]
<1>1. h.body[d].table \in [0 .. h.body[d].size - 1 -> Entry]
  BY DEF Sized, DictBody
<1>2. o \in Entry
  BY <1>1
<1> HIDE DEF o
<1>3. /\ o = [key |-> o.key, klevel |-> o.klevel, value |-> o.value, vlevel |-> o.vlevel]
      /\ KeyOf(o) \in KeyRecord /\ ValueOf(o) \in ValueRecord
      /\ o.klevel \in Nat /\ o.vlevel \in Nat
      /\ o.key \in Name \cup {NIL} /\ o.value \in Value \cup {NIL}
  BY <1>2 DEF Entry, KeyOf, ValueOf, KeyRecord, ValueRecord
<1> QED BY <1>2, <1>3 DEF o

LEMMA SaveValueNoted ==
  ASSUME level \in Nat, NEW h, Typed(h), NEW d \in Dict \ Shared, Sized(d, h.body[d]),
         NEW i \in 0 .. h.body[d].size - 1, h.body[d].table[i].vlevel <= level
  PROVE  Noted(h, SaveValue(h, d, i), "values", <<d, i>>, h.body[d].table[i].vlevel,
               ValueOf(h.body[d].table[i]))
<1>1. ValueOf(h.body[d].table[i]) \in ValueRecord /\ h.body[d].table[i].vlevel \in Nat
  BY EntryIs
<1>2. h.body[d].size \in Nat
  BY DictAssumption DEF Sized
<1>3. "values" \in Kinds /\ <<d, i>> \in PlacesOf("values")
  BY <1>2 DEF Kinds, PlacesOf
<1>4. ValueOf(h.body[d].table[i]) \in RecordsOf("values")
  BY <1>1 DEF RecordsOf
<1>5. SaveValue(h, d, i) = IF h.body[d].table[i].vlevel = level THEN h
                           ELSE Recorded(h, "values", <<d, i>>, ValueOf(h.body[d].table[i]))
  BY DEF SaveValue, ValueOf
<1> QED BY <1>1, <1>3, <1>4, <1>5, RecordNoted

LEMMA SaveKeyNoted ==
  ASSUME level \in Nat, NEW h, Typed(h), NEW d \in Dict \ Shared, Sized(d, h.body[d]),
         NEW i \in 0 .. h.body[d].size - 1, h.body[d].table[i].klevel <= level
  PROVE  Noted(h, SaveKey(h, d, i), "keys", <<d, i>>, h.body[d].table[i].klevel,
               KeyOf(h.body[d].table[i]))
<1>1. KeyOf(h.body[d].table[i]) \in KeyRecord /\ h.body[d].table[i].klevel \in Nat
  BY EntryIs
<1>2. h.body[d].size \in Nat
  BY DictAssumption DEF Sized
<1>3. "keys" \in Kinds /\ <<d, i>> \in PlacesOf("keys")
  BY <1>2 DEF Kinds, PlacesOf
<1>4. KeyOf(h.body[d].table[i]) \in RecordsOf("keys")
  BY <1>1 DEF RecordsOf
<1>5. SaveKey(h, d, i) = IF h.body[d].table[i].klevel = level THEN h
                         ELSE Recorded(h, "keys", <<d, i>>, KeyOf(h.body[d].table[i]))
  BY DEF SaveKey, KeyOf
<1> QED BY <1>1, <1>3, <1>4, <1>5, RecordNoted

LEMMA SaveHeaderNoted ==
  ASSUME level \in Nat, NEW h, Typed(h), NEW d \in Dict \ Shared, Sized(d, h.body[d]),
         h.body[d].level <= level
  PROVE  Noted(h, SaveHeader(h, d), "dbs", d, h.body[d].level, HeaderOf(h.body[d]))
<1>1. HeaderOf(h.body[d]) \in HeaderRecord /\ h.body[d].level \in Nat
  BY DEF Sized, DictBody, HeaderOf, HeaderRecord
<1>3. "dbs" \in Kinds /\ d \in PlacesOf("dbs")
  BY DEF Kinds, PlacesOf
<1>4. HeaderOf(h.body[d]) \in RecordsOf("dbs")
  BY <1>1 DEF RecordsOf
<1>5. SaveHeader(h, d) = IF h.body[d].level = level THEN h
                         ELSE Recorded(h, "dbs", d, HeaderOf(h.body[d]))
  BY DEF SaveHeader, HeaderOf
<1> QED BY <1>1, <1>3, <1>4, <1>5, RecordNoted

-----------------------------------------------------------------------------
(* A slot is overwritten.                                                   *)

LEMMA NotedChain ==
  ASSUME level \in Nat, NEW h, Typed(h), NEW g, NEW kind \in Kinds, NEW p,
         NEW b \in Nat, b <= level, NEW cur \in Nat, cur <= level,
         Chain(Log(h.sr, kind, p), FieldOf(kind), cur, b),
         NEW old, old[FieldOf(kind)] = cur, Noted(h, g, kind, p, cur, old)
  PROVE  /\ Chain(Log(g.sr, kind, p), FieldOf(kind), level, b)
         /\ \A k \in b .. level - 1 : \A new :
              At(Log(g.sr, kind, p), new, k) = At(Log(h.sr, kind, p), old, k)
<1>1. LogTo(Log(h.sr, kind, p), level, FieldOf(kind))
  BY LogTyped DEF LogTo
<1>2. Grown(Log(h.sr, kind, p), Log(g.sr, kind, p), cur, old)
  BY DEF Noted
<1> QED BY <1>1, <1>2, ChainStep

\* A slot is overwritten.
SetSlot(h, d, i, e) == [h EXCEPT !.body[d].table[i] = e]
Over(t, i, e) == [t EXCEPT ![i] = e]

LEMMA SlotSet ==
  ASSUME NEW h, Typed(h), NEW d \in Dict, Sized(d, h.body[d]),
         NEW i \in 0 .. h.body[d].size - 1, NEW e \in Entry,
         NEW g, g = SetSlot(h, d, i, e)
  PROVE  /\ Typed(g) /\ g.cache = h.cache /\ g.sr = h.sr
         /\ \A x \in Dict : x # d => g.body[x] = h.body[x]
         /\ Sized(d, g.body[d])
         /\ g.body[d].size = h.body[d].size
         /\ g.body[d].table = Over(h.body[d].table, i, e)
         /\ HeaderOf(g.body[d]) = HeaderOf(h.body[d]) /\ g.body[d].curmax = h.body[d].curmax
         /\ g.body[d].curlength = h.body[d].curlength /\ g.body[d].level = h.body[d].level
         /\ g.body[d].access = h.body[d].access
<1> DEFINE b == h.body[d]
           t == [b.table EXCEPT ![i] = e]
           c == [b EXCEPT !.table = t]
<1>1. g.body = [h.body EXCEPT ![d] = c] /\ g.cache = h.cache /\ g.sr = h.sr
      /\ g = [body |-> g.body, cache |-> g.cache, sr |-> g.sr]
  BY DEF Typed, SetSlot
<1>2. \A x \in Dict : g.body[x] = IF x = d THEN c ELSE h.body[x]
  BY <1>1 DEF Typed, IsFcn
<1>3. b \in DictBody(b.size) /\ b.table \in [0 .. b.size - 1 -> Entry]
  BY DEF Sized, DictBody
<1>4. t \in [0 .. b.size - 1 -> Entry]
  BY <1>3
<1> HIDE DEF b, t
<1>5. /\ c \in DictBody(b.size) /\ c.size = b.size /\ c.table = t /\ c.curmax = b.curmax
      /\ c.curlength = b.curlength /\ c.level = b.level /\ c.access = b.access
  BY <1>3, <1>4 DEF DictBody
<1> HIDE DEF c
<1>6. Sized(d, c)
  BY <1>5 DEF Sized, b
<1>7. Typed(g)
  BY <1>1 DEF Typed, IsFcn
<1>8. HeaderOf(c) = HeaderOf(b)
  BY <1>5 DEF HeaderOf
<1>9. g.body[d] = c /\ \A x \in Dict : x # d => g.body[x] = h.body[x]
  BY <1>2
<1>11. b = h.body[d] /\ t = Over(h.body[d].table, i, e)
  BY DEF b, t, Over
<1> QED BY <1>1, <1>5, <1>6, <1>7, <1>8, <1>9, <1>11

\* The records of a write to slot p of d, where o was and e comes: those of other
\* places stay, a restore finds what it would have found, and the new ones are p's.
OthersLogged(h, g, p) ==
  \A k \in Kinds : \A q : k = "dbs" \/ q # p => Log(g.sr, k, q) = Log(h.sr, k, q)
PastLeft(h, g, d, p, o, e) ==
  d \notin Shared => \A k \in birth[d] .. level - 1 :
    /\ At(Log(g.sr, "keys", p), KeyOf(e), k) = At(Log(h.sr, "keys", p), KeyOf(o), k)
    /\ At(Log(g.sr, "values", p), ValueOf(e), k) = At(Log(h.sr, "values", p), ValueOf(o), k)
NewRecords(h, g, d, p, o) ==
  \A l \in 1 .. level : \A k \in Kinds : \A q \in DOMAIN g.sr[l][k] :
    \/ q \in DOMAIN h.sr[l][k] /\ g.sr[l][k][q] = h.sr[l][k][q]
    \/ q = p /\ k # "dbs" /\ d \notin Shared /\ (k = "keys" => g.sr[l][k][q].key = o.key)

\* All is recorded for e to be written to slot i of d.
SlotReady(h, g, d, i, e) ==
  /\ Typed(g) /\ g.body = h.body /\ g.cache = h.cache
  /\ e \in Entry /\ e.klevel <= level /\ e.vlevel <= level
  /\ OthersLogged(h, g, <<d, i>>)
  /\ Chain(Log(g.sr, "keys", <<d, i>>), "klevel", e.klevel, birth[d])
  /\ Chain(Log(g.sr, "values", <<d, i>>), "vlevel", e.vlevel, birth[d])
  /\ PastLeft(h, g, d, <<d, i>>, h.body[d].table[i], e)
  /\ NewRecords(h, g, d, <<d, i>>, h.body[d].table[i])

\* A write of a slot: what it changes, and what it leaves to a restore.
SlotPut(h, g, d, i, e) ==
  /\ Formed(g) /\ Kept(h, g) /\ g.cache = h.cache
  /\ \A x \in Dict : x # d => g.body[x] = h.body[x]
  /\ g.body[d] # NIL /\ g.body[d].size = h.body[d].size
  /\ g.body[d].table = Over(h.body[d].table, i, e)
  /\ HeaderOf(g.body[d]) = HeaderOf(h.body[d]) /\ g.body[d].curmax = h.body[d].curmax
  /\ \A x \in Dict, n \in Name : Seen(g, x, n) => Seen(h, x, n) \/ (x = d /\ n = e.key)

LEMMA SizedLive ==
  ASSUME NEW d \in Dict, NEW b, Sized(d, b)
  PROVE  b # NIL /\ b.size \in Nat \ {0}
<1>1. b \in DictBody(b.size) /\ b.size \in 1 .. 2 * MaxLen[d] /\ MaxLen[d] \in Nat
  BY DictAssumption DEF Sized
<1> QED BY <1>1, DictAssumption

LEMMA SlotWritten ==
  ASSUME level \in Nat, NEW h, Formed(h), NEW d \in Dict, h.body[d] # NIL,
         NEW i \in 0 .. h.body[d].size - 1, NEW e, NEW f, SlotReady(h, f, d, i, e),
         NEW g, g = SetSlot(f, d, i, e)
  PROVE  SlotPut(h, g, d, i, e)
<1> DEFINE p == <<d, i>>
<1>1. /\ Typed(f) /\ f.body = h.body /\ f.cache = h.cache
      /\ e \in Entry /\ e.klevel <= level /\ e.vlevel <= level
  BY DEF SlotReady
<1>2. Sized(d, h.body[d]) /\ Logged(h, d)
  BY DEF Formed
<1>3. /\ Typed(g) /\ g.cache = h.cache /\ g.sr = f.sr
      /\ \A x \in Dict : x # d => g.body[x] = h.body[x]
      /\ Sized(d, g.body[d])
      /\ g.body[d].size = h.body[d].size
      /\ g.body[d].table = Over(h.body[d].table, i, e)
      /\ HeaderOf(g.body[d]) = HeaderOf(h.body[d]) /\ g.body[d].curmax = h.body[d].curmax
      /\ g.body[d].curlength = h.body[d].curlength /\ g.body[d].level = h.body[d].level
  <2>1. Sized(d, f.body[d]) /\ i \in 0 .. f.body[d].size - 1
    BY <1>1, <1>2
  <2>2. /\ Typed(g) /\ g.cache = f.cache /\ g.sr = f.sr
        /\ \A x \in Dict : x # d => g.body[x] = f.body[x]
        /\ Sized(d, g.body[d])
        /\ g.body[d].size = f.body[d].size
        /\ g.body[d].table = Over(f.body[d].table, i, e)
        /\ HeaderOf(g.body[d]) = HeaderOf(f.body[d]) /\ g.body[d].curmax = f.body[d].curmax
        /\ g.body[d].curlength = f.body[d].curlength /\ g.body[d].level = f.body[d].level
    BY <1>1, <2>1, SlotSet
  <2> QED BY <1>1, <2>2
<1>4. g.body[d] # NIL
  BY <1>3, SizedLive
<1>5. \A k \in Kinds : \A q : k = "dbs" \/ q # p => Log(g.sr, k, q) = Log(h.sr, k, q)
  BY <1>3 DEF SlotReady, OthersLogged
<1>6. /\ Chain(Log(g.sr, "keys", p), "klevel", e.klevel, birth[d])
      /\ Chain(Log(g.sr, "values", p), "vlevel", e.vlevel, birth[d])
      /\ d \notin Shared => \A k \in birth[d] .. level - 1 :
           /\ At(Log(g.sr, "keys", p), KeyOf(e), k) = At(Log(h.sr, "keys", p), KeyOf(h.body[d].table[i]), k)
           /\ At(Log(g.sr, "values", p), ValueOf(e), k) = At(Log(h.sr, "values", p), ValueOf(h.body[d].table[i]), k)
  BY <1>3 DEF SlotReady, PastLeft
<1>7. \A l \in 1 .. level : \A k \in Kinds : \A q \in DOMAIN g.sr[l][k] :
          \/ q \in DOMAIN h.sr[l][k] /\ g.sr[l][k][q] = h.sr[l][k][q]
          \/ q = p /\ k # "dbs" /\ d \notin Shared /\ (k = "keys" => g.sr[l][k][q].key = h.body[d].table[i].key)
  BY <1>3 DEF SlotReady, NewRecords
<1>8. \A j \in 0 .. h.body[d].size - 1 : g.body[d].table[j] = IF j = i THEN e ELSE h.body[d].table[j]
  <2>1. h.body[d].table \in [0 .. h.body[d].size - 1 -> Entry]
    BY <1>2 DEF Sized, DictBody
  <2>2. \A j \in 0 .. h.body[d].size - 1 :
          Over(h.body[d].table, i, e)[j] = IF j = i THEN e ELSE h.body[d].table[j]
    BY <2>1 DEF Over
  <2> QED BY <1>3, <2>2
<1>9. "keys" \in Kinds /\ "values" \in Kinds /\ "dbs" \in Kinds
  BY DEF Kinds
<1> HIDE DEF p
<1>10. Logged(g, d)
  <2>1. ASSUME NEW j \in 0 .. g.body[d].size - 1
        PROVE  /\ g.body[d].table[j].klevel <= level /\ g.body[d].table[j].vlevel <= level
               /\ Chain(Log(g.sr, "keys", <<d, j>>), "klevel", g.body[d].table[j].klevel, birth[d])
               /\ Chain(Log(g.sr, "values", <<d, j>>), "vlevel", g.body[d].table[j].vlevel, birth[d])
    <3>1. CASE j = i
      BY <1>1, <1>3, <1>6, <1>8, <3>1 DEF p
    <3>2. CASE j # i
      <4>1. <<d, j>> # p
        BY <3>2 DEF p
      <4>2. Log(g.sr, "keys", <<d, j>>) = Log(h.sr, "keys", <<d, j>>)
            /\ Log(g.sr, "values", <<d, j>>) = Log(h.sr, "values", <<d, j>>)
        BY <1>5, <1>9, <4>1
      <4>3. g.body[d].table[j] = h.body[d].table[j]
        BY <1>3, <1>8, <3>2
      <4> QED BY <1>2, <1>3, <4>2, <4>3 DEF Logged
    <3> QED BY <3>1, <3>2
  <2>2. Log(g.sr, "dbs", d) = Log(h.sr, "dbs", d)
    BY <1>5, <1>9
  <2> QED BY <1>2, <1>3, <2>1, <2>2 DEF Logged
<1>11. ASSUME NEW x \in Dict, x # d, h.body[x] # NIL PROVE Sized(x, g.body[x]) /\ Logged(g, x)
  <2>1. Sized(x, h.body[x]) /\ Logged(h, x) /\ g.body[x] = h.body[x]
    BY <1>3, <1>11 DEF Formed
  <2>2. \A j : <<x, j>> # p
    BY <1>11 DEF p
  <2>3. /\ \A j : Log(g.sr, "keys", <<x, j>>) = Log(h.sr, "keys", <<x, j>>)
        /\ \A j : Log(g.sr, "values", <<x, j>>) = Log(h.sr, "values", <<x, j>>)
        /\ Log(g.sr, "dbs", x) = Log(h.sr, "dbs", x)
    BY <1>5, <1>9, <2>2
  <2> QED BY <2>1, <2>3 DEF Logged
<1>12. Recording(g)
  <2>1. p[1] = d /\ p[2] = i
    BY DEF p
  <2>2. \A x \in Dict : g.body[x] = NIL <=> h.body[x] = NIL
    BY <1>3, <1>4
  <2>3. ASSUME NEW l \in 1 .. level, NEW q \in DOMAIN g.sr[l].keys \cup DOMAIN g.sr[l].values
        PROVE  g.body[q[1]] # NIL /\ q[2] \in 0 .. g.body[q[1]].size - 1
    <3>1. CASE q \in DOMAIN h.sr[l].keys \cup DOMAIN h.sr[l].values
      <4>1. h.body[q[1]] # NIL /\ q[2] \in 0 .. h.body[q[1]].size - 1
        BY <3>1 DEF Formed, Recording
      <4>2. q[1] \in Dict
        <5>1. Undo(h.sr[l])
          BY DEF Formed, Typed
        <5>2. q \in (Dict \ Shared) \X Nat
          BY <3>1, <5>1, <1>9 DEF Undo, PlacesOf
        <5> QED BY <5>2
      <4> QED BY <1>3, <1>4, <4>1, <4>2
    <3>2. CASE q = p
      BY <1>3, <1>4, <2>1, <3>2
    <3> QED BY <1>7, <1>9, <2>3, <3>1, <3>2
  <2>4. ASSUME NEW l \in 1 .. level, NEW x \in DOMAIN g.sr[l].dbs PROVE g.body[x] # NIL
    <3>1. x \in DOMAIN h.sr[l].dbs
      BY <1>7, <1>9
    <3>2. h.body[x] # NIL
      BY <3>1 DEF Formed, Recording
    <3>3. x \in Dict
      <4>1. Undo(h.sr[l])
        BY DEF Formed, Typed
      <4> QED BY <3>1, <4>1, <1>9 DEF Undo, PlacesOf
    <3> QED BY <2>2, <3>2, <3>3
  <2> QED BY <2>3, <2>4 DEF Recording
<1>13. Formed(g)
  <2>1. \A x \in Dict : g.body[x] # NIL => Sized(x, g.body[x]) /\ Logged(g, x)
    BY <1>3, <1>10, <1>11
  <2> QED BY <1>3, <1>12, <2>1 DEF Formed
<1>14. Kept(h, g)
  <2>1. ASSUME NEW x \in Dict, h.body[x] # NIL, x \notin Shared, NEW k \in birth[x] .. level - 1
        PROVE  /\ HeaderAt(g, x, k) = HeaderAt(h, x, k)
               /\ \A j \in 0 .. h.body[x].size - 1 :
                    KeyAt(g, x, j, k) = KeyAt(h, x, j, k) /\ ValueAt(g, x, j, k) = ValueAt(h, x, j, k)
    <3>1. Log(g.sr, "dbs", x) = Log(h.sr, "dbs", x) /\ HeaderOf(g.body[x]) = HeaderOf(h.body[x])
      BY <1>3, <1>5, <1>9
    <3>2. ASSUME NEW j \in 0 .. h.body[x].size - 1
          PROVE  KeyAt(g, x, j, k) = KeyAt(h, x, j, k) /\ ValueAt(g, x, j, k) = ValueAt(h, x, j, k)
      <4>1. CASE x = d /\ j = i
        BY <1>6, <1>8, <2>1, <4>1 DEF KeyAt, ValueAt, p
      <4>2. CASE ~ (x = d /\ j = i)
        <5>1. <<x, j>> # p
          BY <4>2 DEF p
        <5>2. Log(g.sr, "keys", <<x, j>>) = Log(h.sr, "keys", <<x, j>>)
              /\ Log(g.sr, "values", <<x, j>>) = Log(h.sr, "values", <<x, j>>)
          BY <1>5, <1>9, <5>1
        <5>3. g.body[x].table[j] = h.body[x].table[j]
          BY <1>3, <1>8, <4>2
        <5> QED BY <5>2, <5>3 DEF KeyAt, ValueAt
      <4> QED BY <4>1, <4>2
    <3> QED BY <3>1, <3>2 DEF HeaderAt
  <2> QED BY <1>3, <1>4, <2>1 DEF Kept
<1>15. ASSUME NEW x \in Dict, NEW n \in Name, Seen(g, x, n)
       PROVE  Seen(h, x, n) \/ (x = d /\ n = e.key)
  <2>1. CASE g.body[x] # NIL /\ \E j \in 0 .. g.body[x].size - 1 : g.body[x].table[j].key = n
    BY <1>3, <1>8, <2>1 DEF Seen
  <2>2. CASE \E l \in 1 .. level : \E q \in DOMAIN g.sr[l].keys : q[1] = x /\ g.sr[l].keys[q].key = n
    <3>0. PICK l \in 1 .. level : \E q \in DOMAIN g.sr[l].keys : q[1] = x /\ g.sr[l].keys[q].key = n
      BY <2>2
    <3>1. PICK q \in DOMAIN g.sr[l].keys : q[1] = x /\ g.sr[l].keys[q].key = n
      BY <3>0
    <3>2. CASE q \in DOMAIN h.sr[l].keys /\ g.sr[l].keys[q] = h.sr[l].keys[q]
      BY <3>1, <3>2 DEF Seen
    <3>3. CASE q = p /\ g.sr[l].keys[q].key = h.body[d].table[i].key
      <4>1. x = d /\ h.body[d].table[i].key = n
        BY <3>1, <3>3 DEF p
      <4> QED BY <4>1 DEF Seen
    <3> QED BY <1>7, <1>9, <3>2, <3>3
  <2> QED BY <1>15, <2>1, <2>2 DEF Seen
<1> QED BY <1>3, <1>4, <1>13, <1>14, <1>15 DEF SlotPut

-----------------------------------------------------------------------------
(* VMPutDKeyVal and VMPutDValue keep the logs in order.                     *)

NewEntry(d, n, v) == [key |-> n, klevel |-> LevelOf(d), value |-> v, vlevel |-> LevelOf(d)]
NewValue(d, o, v) == [key |-> o.key, klevel |-> o.klevel, value |-> v, vlevel |-> LevelOf(d)]

LEMMA PutKeyValSets ==
  ASSUME NEW h, NEW d, NEW i, NEW n, NEW v
  PROVE  PutKeyVal(h, d, i, n, v) = SetSlot(SaveKey(SaveValue(h, d, i), d, i), d, i, NewEntry(d, n, v))
  BY DEF PutKeyVal, SetSlot, NewEntry

LEMMA EntryChanged ==
  ASSUME NEW o \in Entry, NEW v, NEW l
  PROVE  [[o EXCEPT !.value = v] EXCEPT !.vlevel = l]
         = [key |-> o.key, klevel |-> o.klevel, value |-> v, vlevel |-> l]
<1> DEFINE x == [o EXCEPT !.value = v]
<1>1. o = [key |-> o.key, klevel |-> o.klevel, value |-> o.value, vlevel |-> o.vlevel]
  BY DEF Entry
<1>2. x = [key |-> o.key, klevel |-> o.klevel, value |-> v, vlevel |-> o.vlevel]
  BY <1>1
<1> HIDE DEF x
<1>3. [x EXCEPT !.vlevel = l] = [key |-> o.key, klevel |-> o.klevel, value |-> v, vlevel |-> l]
  BY <1>2
<1> QED BY <1>3 DEF x

LEMMA PutValueSets ==
  ASSUME NEW h, NEW d \in Dict, NEW i, NEW v, NEW f, f = SaveValue(h, d, i),
         Typed(f), Sized(d, f.body[d]), i \in 0 .. f.body[d].size - 1
  PROVE  PutValue(h, d, i, v) = SetSlot(f, d, i, NewValue(d, f.body[d].table[i], v))
<1> DEFINE b == f.body[d]
           o == b.table[i]
           e == NewValue(d, o, v)
           e2 == [[o EXCEPT !.value = v] EXCEPT !.vlevel = LevelOf(d)]
           b1 == [b EXCEPT !.table = [b.table EXCEPT ![i] = [b.table[i] EXCEPT !.value = v]]]
           b2 == [b1 EXCEPT !.table = [b1.table EXCEPT ![i] = [b1.table[i] EXCEPT !.vlevel = LevelOf(d)]]]
           c == [b EXCEPT !.table = [b.table EXCEPT ![i] = e]]
<1>1. b.table \in [0 .. b.size - 1 -> Entry] /\ b \in DictBody(b.size)
  BY DEF Sized, DictBody
<1>2. o \in Entry
  BY <1>1
<1>3. e2 = e
  BY <1>2, EntryChanged DEF NewValue
<1>4. b1.table = [b.table EXCEPT ![i] = [o EXCEPT !.value = v]] /\ b1.table[i] = [o EXCEPT !.value = v]
  BY <1>1 DEF DictBody
<1>5. b2 = [b1 EXCEPT !.table = [b1.table EXCEPT ![i] = e]]
  BY <1>3, <1>4
<1> HIDE DEF o, e
<1>6. [b1.table EXCEPT ![i] = e] = [b.table EXCEPT ![i] = e]
  BY <1>1, <1>4
<1>7. [b1 EXCEPT !.table = [b.table EXCEPT ![i] = e]] = c
  BY <1>1 DEF DictBody
<1>8. b2 = c
  BY <1>5, <1>6, <1>7
<1> HIDE DEF b, b1, b2, c
<1>9. DOMAIN f.body = Dict /\ f = [body |-> f.body, cache |-> f.cache, sr |-> f.sr]
  BY DEF Typed
<1> DEFINE f1 == [f EXCEPT !.body[d].table[i].value = v]
<1>10. f1 = [f EXCEPT !.body = [f.body EXCEPT ![d] = b1]]
  BY <1>9 DEF b1, b
<1>11. PutValue(h, d, i, v) = [f1 EXCEPT !.body[d].table[i].vlevel = LevelOf(d)]
  BY DEF PutValue
<1> HIDE DEF f1
<1>12. f1.body[d] = b1 /\ f1 = [body |-> [f.body EXCEPT ![d] = b1], cache |-> f.cache, sr |-> f.sr]
  BY <1>9, <1>10
<1>13. [f1 EXCEPT !.body[d].table[i].vlevel = LevelOf(d)] = [f1 EXCEPT !.body = [f1.body EXCEPT ![d] = b2]]
  BY <1>12 DEF b2
<1>14. [f1 EXCEPT !.body = [f1.body EXCEPT ![d] = c]] = [f EXCEPT !.body = [f.body EXCEPT ![d] = c]]
  BY <1>9, <1>12
<1>15. SetSlot(f, d, i, e) = [f EXCEPT !.body = [f.body EXCEPT ![d] = c]]
  BY DEF SetSlot, c, b
<1> QED BY <1>8, <1>11, <1>13, <1>14, <1>15 DEF e, o, b

LEMMA NoChain ==
  ASSUME NEW f, DOMAIN f = {}, NEW field, NEW b \in Nat
  PROVE  Chain(f, field, b, b)
  BY DEF Chain

LEMMA SharedUnlogged ==
  ASSUME level \in Nat, NEW h, Typed(h), NEW d \in Shared, NEW i
  PROVE  /\ DOMAIN Log(h.sr, "keys", <<d, i>>) = {} /\ DOMAIN Log(h.sr, "values", <<d, i>>) = {}
         /\ DOMAIN Log(h.sr, "dbs", d) = {}
<1>1. "keys" \in Kinds /\ "values" \in Kinds /\ "dbs" \in Kinds
  BY DEF Kinds
<1>2. /\ <<d, i>> \notin PlacesOf("keys") /\ <<d, i>> \notin PlacesOf("values")
      /\ d \notin PlacesOf("dbs")
  BY DEF PlacesOf
<1> QED BY <1>1, <1>2, LogTyped

LEMMA NewEntryIs ==
  ASSUME level \in Nat, NEW d, NEW n \in Name \cup {NIL}, NEW v \in Value \cup {NIL}
  PROVE  /\ NewEntry(d, n, v) \in Entry /\ NewEntry(d, n, v).key = n /\ NewEntry(d, n, v).value = v
         /\ NewEntry(d, n, v).klevel = LevelOf(d) /\ NewEntry(d, n, v).vlevel = LevelOf(d)
         /\ LevelOf(d) \in 0 .. level /\ LevelOf(d) = IF d \in Shared THEN 0 ELSE level
  BY DEF NewEntry, Entry, LevelOf

LEMMA NewValueIs ==
  ASSUME level \in Nat, NEW d, NEW o \in Entry, NEW v \in Value \cup {NIL}
  PROVE  /\ NewValue(d, o, v) \in Entry /\ NewValue(d, o, v).key = o.key /\ NewValue(d, o, v).value = v
         /\ NewValue(d, o, v).klevel = o.klevel /\ NewValue(d, o, v).vlevel = LevelOf(d)
         /\ KeyOf(NewValue(d, o, v)) = KeyOf(o)
         /\ LevelOf(d) \in 0 .. level /\ LevelOf(d) = IF d \in Shared THEN 0 ELSE level
  BY DEF NewValue, Entry, LevelOf, KeyOf

LEMMA LoggedSlot ==
  ASSUME NEW h, Formed(h), NEW d \in Dict, h.body[d] # NIL, NEW i \in 0 .. h.body[d].size - 1
  PROVE  /\ Typed(h) /\ Sized(d, h.body[d]) /\ birth[d] \in 0 .. level
         /\ d \in Shared => birth[d] = 0
         /\ h.body[d].table[i] \in Entry
         /\ h.body[d].table[i].klevel <= level /\ h.body[d].table[i].vlevel <= level
         /\ h.body[d].table[i].klevel \in Nat /\ h.body[d].table[i].vlevel \in Nat
         /\ Chain(Log(h.sr, "keys", <<d, i>>), "klevel", h.body[d].table[i].klevel, birth[d])
         /\ Chain(Log(h.sr, "values", <<d, i>>), "vlevel", h.body[d].table[i].vlevel, birth[d])
<1>1. Typed(h) /\ Sized(d, h.body[d]) /\ Logged(h, d)
  BY DEF Formed
<1>2. /\ h.body[d].table[i] \in Entry
      /\ h.body[d].table[i].klevel \in Nat /\ h.body[d].table[i].vlevel \in Nat
  BY <1>1, EntryIs
<1> QED BY <1>1, <1>2 DEF Logged

\* The log f of a place, which held old, is now g, up to the current level.
LogKept(f, g, field, b, old) ==
  /\ Chain(g, field, level, b)
  /\ \A k \in b .. level - 1 : \A new : At(g, new, k) = At(f, old, k)

\* Before the note.
LogBefore(f, field, b, cur, old) ==
  /\ b \in Nat /\ b <= level /\ cur \in Nat /\ cur <= level
  /\ Chain(f, field, cur, b) /\ old[field] = cur

LEMMA NotedLog ==
  ASSUME level \in Nat, NEW h, Typed(h), NEW g, NEW kind \in Kinds, NEW p, NEW b, NEW cur, NEW old,
         LogBefore(Log(h.sr, kind, p), FieldOf(kind), b, cur, old), Noted(h, g, kind, p, cur, old)
  PROVE  LogKept(Log(h.sr, kind, p), Log(g.sr, kind, p), FieldOf(kind), b, old)
<1>1. b \in Nat /\ b <= level /\ cur \in Nat /\ cur <= level
      /\ Chain(Log(h.sr, kind, p), FieldOf(kind), cur, b) /\ old[FieldOf(kind)] = cur
  BY DEF LogBefore
<1>2. /\ Chain(Log(g.sr, kind, p), FieldOf(kind), level, b)
      /\ \A k \in b .. level - 1 : \A new :
           At(Log(g.sr, kind, p), new, k) = At(Log(h.sr, kind, p), old, k)
  BY <1>1, NotedChain
<1> QED BY <1>2 DEF LogKept

LEMMA NotedValues ==
  ASSUME level \in Nat, NEW h, Typed(h), NEW g, NEW p, NEW b \in 0 .. level,
         NEW o, o.vlevel \in Nat, o.vlevel <= level,
         Chain(Log(h.sr, "values", p), "vlevel", o.vlevel, b),
         Noted(h, g, "values", p, o.vlevel, ValueOf(o))
  PROVE  LogKept(Log(h.sr, "values", p), Log(g.sr, "values", p), "vlevel", b, ValueOf(o))
<1>1. "values" \in Kinds /\ FieldOf("values") = "vlevel"
  BY DEF Kinds, FieldOf
<1>2. LogBefore(Log(h.sr, "values", p), FieldOf("values"), b, o.vlevel, ValueOf(o))
  BY <1>1 DEF LogBefore, ValueOf
<1>3. LogKept(Log(h.sr, "values", p), Log(g.sr, "values", p), FieldOf("values"), b, ValueOf(o))
  BY <1>1, <1>2, NotedLog
<1> QED BY <1>1, <1>3

LEMMA NotedKeys ==
  ASSUME level \in Nat, NEW h, Typed(h), NEW g, NEW p, NEW b \in 0 .. level,
         NEW o, o.klevel \in Nat, o.klevel <= level,
         Chain(Log(h.sr, "keys", p), "klevel", o.klevel, b),
         Noted(h, g, "keys", p, o.klevel, KeyOf(o))
  PROVE  LogKept(Log(h.sr, "keys", p), Log(g.sr, "keys", p), "klevel", b, KeyOf(o))
<1>1. "keys" \in Kinds /\ FieldOf("keys") = "klevel"
  BY DEF Kinds, FieldOf
<1>2. LogBefore(Log(h.sr, "keys", p), FieldOf("keys"), b, o.klevel, KeyOf(o))
  BY <1>1 DEF LogBefore, KeyOf
<1>3. LogKept(Log(h.sr, "keys", p), Log(g.sr, "keys", p), FieldOf("keys"), b, KeyOf(o))
  BY <1>1, <1>2, NotedLog
<1> QED BY <1>1, <1>3

LEMMA PutKeyValReady ==
  ASSUME level \in Nat, NEW h, Formed(h), NEW d \in Dict, h.body[d] # NIL,
         NEW i \in 0 .. h.body[d].size - 1, NEW n \in Name \cup {NIL}, NEW v \in Value \cup {NIL}
  PROVE  SlotReady(h, SaveKey(SaveValue(h, d, i), d, i), d, i, NewEntry(d, n, v))
<1> DEFINE o == h.body[d].table[i]
           p == <<d, i>>
           e == NewEntry(d, n, v)
           f == SaveValue(h, d, i)
           g == SaveKey(f, d, i)
<1>1. /\ Typed(h) /\ Sized(d, h.body[d]) /\ birth[d] \in 0 .. level /\ o \in Entry
      /\ o.klevel <= level /\ o.vlevel <= level /\ o.klevel \in Nat /\ o.vlevel \in Nat
      /\ Chain(Log(h.sr, "keys", p), "klevel", o.klevel, birth[d])
      /\ Chain(Log(h.sr, "values", p), "vlevel", o.vlevel, birth[d])
      /\ d \in Shared => birth[d] = 0
  BY LoggedSlot
<1>2. /\ e \in Entry /\ e.key = n /\ e.value = v
      /\ e.klevel = LevelOf(d) /\ e.vlevel = LevelOf(d)
      /\ LevelOf(d) \in 0 .. level /\ LevelOf(d) = IF d \in Shared THEN 0 ELSE level
  BY NewEntryIs
<1>3. "keys" \in Kinds /\ "values" \in Kinds /\ "dbs" \in Kinds
      /\ FieldOf("keys") = "klevel" /\ FieldOf("values") = "vlevel"
  BY DEF Kinds, FieldOf
<1>4. CASE d \in Shared
  <2>1. f = h /\ g = h
    BY <1>4 DEF SaveValue, SaveKey
  <2>2. DOMAIN Log(h.sr, "keys", p) = {} /\ DOMAIN Log(h.sr, "values", p) = {}
    BY <1>1, <1>4, SharedUnlogged
  <2>3. Chain(Log(h.sr, "keys", p), "klevel", 0, 0) /\ Chain(Log(h.sr, "values", p), "vlevel", 0, 0)
    BY <2>2, NoChain
  <2>4. /\ Chain(Log(g.sr, "keys", p), "klevel", e.klevel, birth[d])
        /\ Chain(Log(g.sr, "values", p), "vlevel", e.vlevel, birth[d])
    <3> HIDE DEF e, g, p, o
    <3> QED BY <1>1, <1>2, <1>4, <2>1, <2>3
  <2>5. e \in Entry /\ e.klevel <= level /\ e.vlevel <= level
    <3> HIDE DEF e, g, p, o
    <3> QED BY <1>1, <1>2
  <2>6. SlotReady(h, g, d, i, e)
    <3> HIDE DEF e, g
    <3>1. OthersLogged(h, g, p) /\ NewRecords(h, g, d, p, o)
      BY <2>1 DEF OthersLogged, NewRecords
    <3>2. PastLeft(h, g, d, p, o, e)
      BY <1>4 DEF PastLeft
    <3> QED BY <1>1, <2>1, <2>4, <2>5, <3>1, <3>2 DEF SlotReady
  <2> QED BY <2>6
<1>5. CASE d \notin Shared
  <2> HIDE DEF e, p, f, g, o
  <2>1. Noted(h, f, "values", p, o.vlevel, ValueOf(o))
    BY <1>1, <1>5, SaveValueNoted DEF p, f, o
  <2>2. Typed(f) /\ f.body = h.body /\ f.cache = h.cache
    BY <2>1 DEF Noted
  <2>3. Noted(f, g, "keys", p, o.klevel, KeyOf(o))
    BY <1>1, <1>5, <2>2, SaveKeyNoted DEF p, g, o
  <2>4. Typed(g) /\ g.body = h.body /\ g.cache = h.cache
    BY <2>2, <2>3 DEF Noted
  <2>5. ValueOf(o).vlevel = o.vlevel /\ KeyOf(o).klevel = o.klevel
    BY DEF ValueOf, KeyOf
  <2>6. /\ Chain(Log(f.sr, "values", p), "vlevel", level, birth[d])
        /\ \A k \in birth[d] .. level - 1 : \A new :
             At(Log(f.sr, "values", p), new, k) = At(Log(h.sr, "values", p), ValueOf(o), k)
    <3>1. LogKept(Log(h.sr, "values", p), Log(f.sr, "values", p), "vlevel", birth[d], ValueOf(o))
      BY <1>1, <2>1, NotedValues
    <3> QED BY <3>1 DEF LogKept
  <2>7. Log(f.sr, "keys", p) = Log(h.sr, "keys", p) /\ Log(g.sr, "values", p) = Log(f.sr, "values", p)
    BY <1>3, <2>1, <2>3 DEF Noted
  <2>8. /\ Chain(Log(g.sr, "keys", p), "klevel", level, birth[d])
        /\ \A k \in birth[d] .. level - 1 : \A new :
             At(Log(g.sr, "keys", p), new, k) = At(Log(f.sr, "keys", p), KeyOf(o), k)
    <3>1. Chain(Log(f.sr, "keys", p), "klevel", o.klevel, birth[d])
      BY <1>1, <2>7
    <3>2. LogKept(Log(f.sr, "keys", p), Log(g.sr, "keys", p), "klevel", birth[d], KeyOf(o))
      BY <1>1, <2>2, <2>3, <3>1, NotedKeys
    <3> QED BY <3>2 DEF LogKept
  <2>9. \A k \in Kinds : \A q : k = "dbs" \/ q # p => Log(g.sr, k, q) = Log(h.sr, k, q)
    BY <2>1, <2>3 DEF Noted
  <2>10. ASSUME NEW l \in 1 .. level, NEW k \in Kinds, NEW q \in DOMAIN g.sr[l][k]
         PROVE  \/ q \in DOMAIN h.sr[l][k] /\ g.sr[l][k][q] = h.sr[l][k][q]
                \/ q = p /\ k # "dbs" /\ d \notin Shared /\ (k = "keys" => g.sr[l][k][q].key = o.key)
    <3>1. CASE k = "keys" /\ q = p /\ g.sr[l][k][q] = KeyOf(o)
      BY <1>5, <3>1 DEF KeyOf
    <3>2. CASE q \in DOMAIN f.sr[l][k] /\ g.sr[l][k][q] = f.sr[l][k][q]
      BY <1>5, <2>1, <3>2 DEF Noted
    <3> QED BY <2>3, <3>1, <3>2 DEF Noted
  <2>11. e.klevel = level /\ e.vlevel = level
    BY <1>2, <1>5
  <2>12. SlotReady(h, g, d, i, e)
    <3>1. OthersLogged(h, g, p)
      BY <2>9 DEF OthersLogged
    <3>2. NewRecords(h, g, d, p, o)
      BY <2>10 DEF NewRecords
    <3>3. PastLeft(h, g, d, p, o, e)
      <4>1. ASSUME NEW k \in birth[d] .. level - 1
            PROVE  /\ At(Log(g.sr, "keys", p), KeyOf(e), k) = At(Log(h.sr, "keys", p), KeyOf(o), k)
                   /\ At(Log(g.sr, "values", p), ValueOf(e), k) = At(Log(h.sr, "values", p), ValueOf(o), k)
        BY <2>6, <2>7, <2>8
      <4> QED BY <4>1 DEF PastLeft
    <3>4. /\ Chain(Log(g.sr, "keys", p), "klevel", e.klevel, birth[d])
          /\ Chain(Log(g.sr, "values", p), "vlevel", e.vlevel, birth[d])
      BY <2>6, <2>7, <2>8, <2>11
    <3>5. e \in Entry /\ e.klevel <= level /\ e.vlevel <= level
      BY <1>1, <1>2, <2>11
    <3>6. Typed(g) /\ g.body = h.body /\ g.cache = h.cache
      BY <2>4
    <3> QED BY <3>1, <3>2, <3>3, <3>4, <3>5, <3>6 DEF SlotReady, p, o
  <2> QED BY <2>12 DEF g, f, e
<1> QED BY <1>4, <1>5

LEMMA PutKeyValPuts ==
  ASSUME level \in Nat, NEW h, Formed(h), NEW d \in Dict, h.body[d] # NIL,
         NEW i \in 0 .. h.body[d].size - 1, NEW n \in Name \cup {NIL}, NEW v \in Value \cup {NIL}
  PROVE  SlotPut(h, PutKeyVal(h, d, i, n, v), d, i, NewEntry(d, n, v))
  BY PutKeyValReady, PutKeyValSets, SlotWritten

LEMMA PutValueReady ==
  ASSUME level \in Nat, NEW h, Formed(h), NEW d \in Dict, h.body[d] # NIL,
         NEW i \in 0 .. h.body[d].size - 1, NEW v \in Value \cup {NIL}
  PROVE  SlotReady(h, SaveValue(h, d, i), d, i, NewValue(d, h.body[d].table[i], v))
<1> DEFINE o == h.body[d].table[i]
           p == <<d, i>>
           e == NewValue(d, o, v)
           g == SaveValue(h, d, i)
<1>1. /\ Typed(h) /\ Sized(d, h.body[d]) /\ birth[d] \in 0 .. level /\ o \in Entry
      /\ o.klevel <= level /\ o.vlevel <= level /\ o.klevel \in Nat /\ o.vlevel \in Nat
      /\ Chain(Log(h.sr, "keys", p), "klevel", o.klevel, birth[d])
      /\ Chain(Log(h.sr, "values", p), "vlevel", o.vlevel, birth[d])
      /\ d \in Shared => birth[d] = 0
  BY LoggedSlot
<1>2. /\ e \in Entry /\ e.key = o.key /\ e.value = v
      /\ e.klevel = o.klevel /\ e.vlevel = LevelOf(d) /\ KeyOf(e) = KeyOf(o)
      /\ LevelOf(d) \in 0 .. level /\ LevelOf(d) = IF d \in Shared THEN 0 ELSE level
  <2> HIDE DEF o
  <2> QED BY <1>1, NewValueIs
<1>3. "keys" \in Kinds /\ "values" \in Kinds /\ "dbs" \in Kinds
      /\ FieldOf("keys") = "klevel" /\ FieldOf("values") = "vlevel"
  BY DEF Kinds, FieldOf
<1>4. CASE d \in Shared
  <2>1. g = h
    BY <1>4 DEF SaveValue, SaveKey
  <2>2. DOMAIN Log(h.sr, "values", p) = {}
    BY <1>1, <1>4, SharedUnlogged
  <2>3. Chain(Log(h.sr, "values", p), "vlevel", 0, 0)
    BY <2>2, NoChain
  <2>4. /\ Chain(Log(g.sr, "keys", p), "klevel", e.klevel, birth[d])
        /\ Chain(Log(g.sr, "values", p), "vlevel", e.vlevel, birth[d])
    <3> HIDE DEF e, g, p, o
    <3> QED BY <1>1, <1>2, <1>4, <2>1, <2>3
  <2>5. e \in Entry /\ e.klevel <= level /\ e.vlevel <= level
    <3> HIDE DEF e, g, p, o
    <3> QED BY <1>1, <1>2
  <2>6. SlotReady(h, g, d, i, e)
    <3> HIDE DEF e, g
    <3>1. OthersLogged(h, g, p) /\ NewRecords(h, g, d, p, o)
      BY <2>1 DEF OthersLogged, NewRecords
    <3>2. PastLeft(h, g, d, p, o, e)
      BY <1>4 DEF PastLeft
    <3> QED BY <1>1, <2>1, <2>4, <2>5, <3>1, <3>2 DEF SlotReady
  <2> QED BY <2>6
<1>5. CASE d \notin Shared
  <2> HIDE DEF e, p, g, o
  <2>1. Noted(h, g, "values", p, o.vlevel, ValueOf(o))
    BY <1>1, <1>5, SaveValueNoted DEF p, g, o
  <2>2. Typed(g) /\ g.body = h.body /\ g.cache = h.cache
    BY <2>1 DEF Noted
  <2>5. ValueOf(o).vlevel = o.vlevel
    BY DEF ValueOf
  <2>6. /\ Chain(Log(g.sr, "values", p), "vlevel", level, birth[d])
        /\ \A k \in birth[d] .. level - 1 : \A new :
             At(Log(g.sr, "values", p), new, k) = At(Log(h.sr, "values", p), ValueOf(o), k)
    <3>1. LogKept(Log(h.sr, "values", p), Log(g.sr, "values", p), "vlevel", birth[d], ValueOf(o))
      BY <1>1, <2>1, NotedValues
    <3> QED BY <3>1 DEF LogKept
  <2>7. Log(g.sr, "keys", p) = Log(h.sr, "keys", p)
    BY <1>3, <2>1 DEF Noted
  <2>9. \A k \in Kinds : \A q : k = "dbs" \/ q # p => Log(g.sr, k, q) = Log(h.sr, k, q)
    BY <2>1 DEF Noted
  <2>10. ASSUME NEW l \in 1 .. level, NEW k \in Kinds, NEW q \in DOMAIN g.sr[l][k]
         PROVE  \/ q \in DOMAIN h.sr[l][k] /\ g.sr[l][k][q] = h.sr[l][k][q]
                \/ q = p /\ k # "dbs" /\ d \notin Shared /\ (k = "keys" => g.sr[l][k][q].key = o.key)
    BY <1>5, <2>1 DEF Noted
  <2>11. e.vlevel = level
    BY <1>2, <1>5
  <2>12. SlotReady(h, g, d, i, e)
    <3>1. OthersLogged(h, g, p)
      BY <2>9 DEF OthersLogged
    <3>2. NewRecords(h, g, d, p, o)
      BY <2>10 DEF NewRecords
    <3>3. PastLeft(h, g, d, p, o, e)
      <4>1. ASSUME NEW k \in birth[d] .. level - 1
            PROVE  /\ At(Log(g.sr, "keys", p), KeyOf(e), k) = At(Log(h.sr, "keys", p), KeyOf(o), k)
                   /\ At(Log(g.sr, "values", p), ValueOf(e), k) = At(Log(h.sr, "values", p), ValueOf(o), k)
        BY <1>2, <2>6, <2>7
      <4> QED BY <4>1 DEF PastLeft
    <3>4. /\ Chain(Log(g.sr, "keys", p), "klevel", e.klevel, birth[d])
          /\ Chain(Log(g.sr, "values", p), "vlevel", e.vlevel, birth[d])
      BY <1>1, <1>2, <2>6, <2>7, <2>11
    <3>5. e \in Entry /\ e.klevel <= level /\ e.vlevel <= level
      BY <1>1, <1>2, <2>11
    <3> QED BY <2>2, <3>1, <3>2, <3>3, <3>4, <3>5 DEF SlotReady, p, o
  <2> QED BY <2>12 DEF g, e, o
<1> QED BY <1>4, <1>5

LEMMA PutValuePuts ==
  ASSUME level \in Nat, NEW h, Formed(h), NEW d \in Dict, h.body[d] # NIL,
         NEW i \in 0 .. h.body[d].size - 1, NEW v \in Value \cup {NIL}
  PROVE  SlotPut(h, PutValue(h, d, i, v), d, i, NewValue(d, h.body[d].table[i], v))
<1> DEFINE f == SaveValue(h, d, i)
           e == NewValue(d, h.body[d].table[i], v)
<1>1. SlotReady(h, f, d, i, e)
  BY PutValueReady
<1>2. Typed(f) /\ f.body = h.body
  BY <1>1 DEF SlotReady
<1>3. Sized(d, f.body[d]) /\ i \in 0 .. f.body[d].size - 1
  BY <1>2 DEF Formed
<1> HIDE DEF f
<1>4. PutValue(h, d, i, v) = SetSlot(f, d, i, NewValue(d, f.body[d].table[i], v))
  BY <1>2, <1>3, PutValueSets DEF f
<1>5. PutValue(h, d, i, v) = SetSlot(f, d, i, e)
  BY <1>2, <1>4
<1> HIDE DEF e
<1>6. SlotPut(h, PutValue(h, d, i, v), d, i, e)
  BY <1>1, <1>5, SlotWritten
<1> QED BY <1>6 DEF e

-----------------------------------------------------------------------------
(* VMPutDict does.                                                          *)

\* The header of d is overwritten.
NewHeader(b, len, acc, l) ==
  [size |-> b.size, curmax |-> b.curmax, curlength |-> len, access |-> acc, level |-> l, table |-> b.table]
SetHeader(f, d, len, acc, l) ==
  [f EXCEPT !.body = [f.body EXCEPT ![d] = NewHeader(f.body[d], len, acc, l)]]

LEMMA PutHeaderSets ==
  ASSUME NEW h, NEW d \in Dict, NEW len, NEW acc, NEW f, f = SaveHeader(h, d),
         Typed(f), Sized(d, f.body[d])
  PROVE  PutHeader(h, d, len, acc) = SetHeader(f, d, len, acc, LevelOf(d))
<1> DEFINE b == f.body[d]
           l == LevelOf(d)
           b1 == [b EXCEPT !.curlength = len]
           b2 == [b1 EXCEPT !.access = acc]
           b3 == [b2 EXCEPT !.level = l]
           f1 == [f EXCEPT !.body[d].curlength = len]
           f2 == [f1 EXCEPT !.body[d].access = acc]
           f3 == [f2 EXCEPT !.body[d].level = l]
<1>1. b3 = NewHeader(b, len, acc, l)
  <2>1. b \in DictBody(b.size)
    BY DEF Sized
  <2> HIDE DEF b
  <2>2. b = [size |-> b.size, curmax |-> b.curmax, curlength |-> b.curlength, access |-> b.access,
             level |-> b.level, table |-> b.table]
    BY <2>1 DEF DictBody
  <2>3. b1 = [size |-> b.size, curmax |-> b.curmax, curlength |-> len, access |-> b.access,
              level |-> b.level, table |-> b.table]
    BY <2>2
  <2> HIDE DEF b1
  <2>4. b2 = [size |-> b.size, curmax |-> b.curmax, curlength |-> len, access |-> acc,
              level |-> b.level, table |-> b.table]
    BY <2>3
  <2> HIDE DEF b2
  <2> QED BY <2>4 DEF NewHeader
<1>2. DOMAIN f.body = Dict /\ f = [body |-> f.body, cache |-> f.cache, sr |-> f.sr]
  BY DEF Typed
<1>3. f1.body[d] = b1 /\ f1 = [body |-> [f.body EXCEPT ![d] = b1], cache |-> f.cache, sr |-> f.sr]
  BY <1>2
<1>4. f2.body[d] = b2 /\ f2 = [body |-> [f.body EXCEPT ![d] = b2], cache |-> f.cache, sr |-> f.sr]
  <2> HIDE DEF f1, b1
  <2>1. DOMAIN f1.body = Dict
    BY <1>2, <1>3
  <2>2. f2 = [body |-> [f1.body EXCEPT ![d] = b2], cache |-> f.cache, sr |-> f.sr]
    BY <1>3
  <2>3. [f1.body EXCEPT ![d] = b2] = [f.body EXCEPT ![d] = b2]
    BY <1>2, <1>3
  <2> HIDE DEF b2, f2
  <2> QED BY <1>2, <2>2, <2>3
<1>5. f3 = [body |-> [f.body EXCEPT ![d] = b3], cache |-> f.cache, sr |-> f.sr]
  <2> HIDE DEF f2, b2
  <2>1. DOMAIN f2.body = Dict
    BY <1>2, <1>4
  <2>2. f3 = [body |-> [f2.body EXCEPT ![d] = b3], cache |-> f.cache, sr |-> f.sr]
    BY <1>4
  <2>3. [f2.body EXCEPT ![d] = b3] = [f.body EXCEPT ![d] = b3]
    BY <1>2, <1>4
  <2> HIDE DEF b3, f3
  <2> QED BY <2>2, <2>3
<1>6. PutHeader(h, d, len, acc) = f3
  BY DEF PutHeader, LevelOf
<1> HIDE DEF f3, b3
<1> QED BY <1>1, <1>2, <1>5, <1>6 DEF SetHeader

\* What has been recorded when the header of d is about to be overwritten.
HeaderReady(h, g, d) ==
  /\ Typed(g) /\ g.body = h.body /\ g.cache = h.cache
  /\ \A k \in Kinds : \A q : k # "dbs" \/ q # d => Log(g.sr, k, q) = Log(h.sr, k, q)
  /\ Chain(Log(g.sr, "dbs", d), "level", LevelOf(d), birth[d])
  /\ d \notin Shared => \A k \in birth[d] .. level - 1 : \A new :
       At(Log(g.sr, "dbs", d), new, k) = At(Log(h.sr, "dbs", d), HeaderOf(h.body[d]), k)
  /\ \A l \in 1 .. level : \A k \in Kinds : \A q \in DOMAIN g.sr[l][k] :
       \/ q \in DOMAIN h.sr[l][k] /\ g.sr[l][k][q] = h.sr[l][k][q]
       \/ q = d /\ k = "dbs"

LEMMA SaveHeaderReady ==
  ASSUME level \in Nat, NEW h, Formed(h), NEW d \in Dict, h.body[d] # NIL
  PROVE  HeaderReady(h, SaveHeader(h, d), d)
<1> DEFINE b == h.body[d]
           g == SaveHeader(h, d)
<1>1. Typed(h) /\ Sized(d, b) /\ Logged(h, d)
  BY DEF Formed
<1>2. /\ birth[d] \in 0 .. level /\ b.level <= level /\ b.level \in Nat
      /\ Chain(Log(h.sr, "dbs", d), "level", b.level, birth[d])
      /\ d \in Shared => birth[d] = 0
  BY <1>1 DEF Logged, Sized, DictBody
<1>3. "keys" \in Kinds /\ "values" \in Kinds /\ "dbs" \in Kinds /\ FieldOf("dbs") = "level"
  BY DEF Kinds, FieldOf
<1> HIDE DEF b, g
<1>4. CASE d \in Shared
  <2>1. g = h
    BY <1>4 DEF SaveHeader, g
  <2>2. DOMAIN Log(h.sr, "dbs", d) = {}
    BY <1>1, <1>4, SharedUnlogged
  <2>3. Chain(Log(h.sr, "dbs", d), "level", 0, 0)
    BY <2>2, NoChain
  <2>4. HeaderReady(h, g, d)
    BY <1>1, <1>2, <1>4, <2>1, <2>3 DEF HeaderReady, LevelOf
  <2> QED BY <2>4 DEF g
<1>5. CASE d \notin Shared
  <2>1. Noted(h, g, "dbs", d, b.level, HeaderOf(b))
    BY <1>1, <1>2, <1>5, SaveHeaderNoted DEF b, g
  <2>2. LogBefore(Log(h.sr, "dbs", d), FieldOf("dbs"), birth[d], b.level, HeaderOf(b))
    BY <1>2, <1>3 DEF LogBefore, HeaderOf
  <2>3. LogKept(Log(h.sr, "dbs", d), Log(g.sr, "dbs", d), FieldOf("dbs"), birth[d], HeaderOf(b))
    BY <1>1, <1>3, <2>1, <2>2, NotedLog
  <2>4. Typed(g) /\ g.body = h.body /\ g.cache = h.cache
    BY <2>1 DEF Noted
  <2>5. LevelOf(d) = level
    BY <1>5 DEF LevelOf
  <2>6. /\ Chain(Log(g.sr, "dbs", d), "level", LevelOf(d), birth[d])
        /\ \A k \in birth[d] .. level - 1 : \A new :
             At(Log(g.sr, "dbs", d), new, k) = At(Log(h.sr, "dbs", d), HeaderOf(b), k)
    BY <1>3, <2>3, <2>5 DEF LogKept
  <2>7. \A k \in Kinds : \A q : k # "dbs" \/ q # d => Log(g.sr, k, q) = Log(h.sr, k, q)
    BY <2>1 DEF Noted
  <2>8. \A l \in 1 .. level : \A k \in Kinds : \A q \in DOMAIN g.sr[l][k] :
          \/ q \in DOMAIN h.sr[l][k] /\ g.sr[l][k][q] = h.sr[l][k][q]
          \/ q = d /\ k = "dbs"
    BY <2>1 DEF Noted
  <2>9. HeaderReady(h, g, d)
    BY <2>4, <2>6, <2>7, <2>8 DEF HeaderReady, b
  <2> QED BY <2>9 DEF g
<1> QED BY <1>4, <1>5

\* A write of a header: what it changes, and what it leaves to a restore.
HeaderPut(h, g, d, len, acc) ==
  /\ Formed(g) /\ Kept(h, g) /\ g.cache = h.cache
  /\ \A x \in Dict : x # d => g.body[x] = h.body[x]
  /\ g.body[d] # NIL /\ g.body[d].size = h.body[d].size /\ g.body[d].table = h.body[d].table
  /\ g.body[d].curmax = h.body[d].curmax
  /\ g.body[d].curlength = len /\ g.body[d].access = acc
  /\ \A x \in Dict, n \in Name : Seen(g, x, n) => Seen(h, x, n)

LEMMA HeaderSet ==
  ASSUME NEW f, Typed(f), NEW d \in Dict, Sized(d, f.body[d]), NEW len \in Nat, len <= f.body[d].curmax,
         NEW acc \in SUBSET {"r", "w"}, NEW l \in Nat,
         NEW g, g = SetHeader(f, d, len, acc, l)
  PROVE  /\ Typed(g) /\ g.cache = f.cache /\ g.sr = f.sr
         /\ \A x \in Dict : x # d => g.body[x] = f.body[x]
         /\ Sized(d, g.body[d])
         /\ g.body[d] = NewHeader(f.body[d], len, acc, l)
<1> DEFINE b == f.body[d]
           c == NewHeader(b, len, acc, l)
<1>1. g.body = [f.body EXCEPT ![d] = c] /\ g.cache = f.cache /\ g.sr = f.sr
      /\ g = [body |-> g.body, cache |-> g.cache, sr |-> g.sr]
  BY DEF Typed, SetHeader
<1>2. \A x \in Dict : g.body[x] = IF x = d THEN c ELSE f.body[x]
  BY <1>1 DEF Typed, IsFcn
<1>3. b \in DictBody(b.size)
  BY DEF Sized
<1>4. /\ c \in DictBody(b.size) /\ c.size = b.size /\ c.curmax = b.curmax /\ c.curlength = len
  <2> HIDE DEF b
  <2> QED BY <1>3 DEF DictBody, NewHeader
<1> HIDE DEF c
<1>5. Sized(d, c)
  BY <1>4 DEF Sized
<1>6. Typed(g)
  BY <1>1 DEF Typed, IsFcn
<1> QED BY <1>1, <1>2, <1>5, <1>6 DEF c

LEMMA PutHeaderPuts ==
  ASSUME level \in Nat, NEW h, Formed(h), NEW d \in Dict, h.body[d] # NIL,
         NEW len \in Nat, len <= h.body[d].curmax, NEW acc \in SUBSET {"r", "w"}
  PROVE  HeaderPut(h, PutHeader(h, d, len, acc), d, len, acc)
<1> DEFINE f == SaveHeader(h, d)
           g == PutHeader(h, d, len, acc)
           c == NewHeader(h.body[d], len, acc, LevelOf(d))
<1>1. HeaderReady(h, f, d)
  BY SaveHeaderReady
<1>2. Sized(d, h.body[d]) /\ Logged(h, d) /\ Typed(h)
  BY DEF Formed
<1>3. /\ Typed(f) /\ f.body = h.body /\ f.cache = h.cache
      /\ \A k \in Kinds : \A q : k # "dbs" \/ q # d => Log(f.sr, k, q) = Log(h.sr, k, q)
      /\ Chain(Log(f.sr, "dbs", d), "level", LevelOf(d), birth[d])
      /\ d \notin Shared => \A k \in birth[d] .. level - 1 : \A new :
           At(Log(f.sr, "dbs", d), new, k) = At(Log(h.sr, "dbs", d), HeaderOf(h.body[d]), k)
      /\ \A l \in 1 .. level : \A k \in Kinds : \A q \in DOMAIN f.sr[l][k] :
           \/ q \in DOMAIN h.sr[l][k] /\ f.sr[l][k][q] = h.sr[l][k][q]
           \/ q = d /\ k = "dbs"
  BY <1>1 DEF HeaderReady
<1> HIDE DEF f
<1>4. g = SetHeader(f, d, len, acc, LevelOf(d))
  BY <1>2, <1>3, PutHeaderSets DEF f
<1>5. LevelOf(d) \in Nat /\ LevelOf(d) <= level
  BY DEF LevelOf
<1> HIDE DEF g, c
<1>6. /\ Typed(g) /\ g.cache = h.cache /\ g.sr = f.sr
      /\ \A x \in Dict : x # d => g.body[x] = h.body[x]
      /\ Sized(d, g.body[d])
      /\ g.body[d] = c
  <2>1. Sized(d, f.body[d]) /\ len <= f.body[d].curmax
    BY <1>2, <1>3
  <2>2. /\ Typed(g) /\ g.cache = f.cache /\ g.sr = f.sr
        /\ \A x \in Dict : x # d => g.body[x] = f.body[x]
        /\ Sized(d, g.body[d])
        /\ g.body[d] = NewHeader(f.body[d], len, acc, LevelOf(d))
    BY <1>3, <1>4, <1>5, <2>1, HeaderSet
  <2> QED BY <1>3, <2>2 DEF c
<1>7. /\ g.body[d].size = h.body[d].size /\ g.body[d].table = h.body[d].table
      /\ g.body[d].curmax = h.body[d].curmax
      /\ g.body[d].curlength = len /\ g.body[d].access = acc /\ g.body[d].level = LevelOf(d)
  BY <1>6 DEF c, NewHeader
<1>8. g.body[d] # NIL
  BY <1>6, SizedLive
<1>9. "keys" \in Kinds /\ "values" \in Kinds /\ "dbs" \in Kinds
  BY DEF Kinds
<1>10. /\ \A p : Log(g.sr, "keys", p) = Log(h.sr, "keys", p)
       /\ \A p : Log(g.sr, "values", p) = Log(h.sr, "values", p)
       /\ \A x : x # d => Log(g.sr, "dbs", x) = Log(h.sr, "dbs", x)
  BY <1>3, <1>6, <1>9
<1>11. Logged(g, d)
  BY <1>2, <1>3, <1>5, <1>6, <1>7, <1>10 DEF Logged
<1>12. ASSUME NEW x \in Dict, x # d, h.body[x] # NIL PROVE Sized(x, g.body[x]) /\ Logged(g, x)
  <2>1. Sized(x, h.body[x]) /\ Logged(h, x) /\ g.body[x] = h.body[x]
    BY <1>6, <1>12 DEF Formed
  <2> QED BY <1>10, <1>12, <2>1 DEF Logged
<1>13. \A l \in 1 .. level :
         /\ \A q \in DOMAIN g.sr[l].keys : q \in DOMAIN h.sr[l].keys /\ g.sr[l].keys[q] = h.sr[l].keys[q]
         /\ \A q \in DOMAIN g.sr[l].values : q \in DOMAIN h.sr[l].values
         /\ \A q \in DOMAIN g.sr[l].dbs : q \in DOMAIN h.sr[l].dbs \/ q = d
  <2> SUFFICES ASSUME NEW l \in 1 .. level
        PROVE /\ \A q \in DOMAIN g.sr[l].keys : q \in DOMAIN h.sr[l].keys /\ g.sr[l].keys[q] = h.sr[l].keys[q]
              /\ \A q \in DOMAIN g.sr[l].values : q \in DOMAIN h.sr[l].values
              /\ \A q \in DOMAIN g.sr[l].dbs : q \in DOMAIN h.sr[l].dbs \/ q = d
    OBVIOUS
  <2>1. \A k \in Kinds : \A q \in DOMAIN g.sr[l][k] :
           \/ q \in DOMAIN h.sr[l][k] /\ g.sr[l][k][q] = h.sr[l][k][q]
           \/ q = d /\ k = "dbs"
    BY <1>3, <1>6
  <2> QED BY <1>9, <2>1
<1>14. Recording(g)
  <2>1. \A x \in Dict : g.body[x] = NIL <=> h.body[x] = NIL
    BY <1>6, <1>8
  <2>2. \A x \in Dict : g.body[x].size = h.body[x].size
    BY <1>6, <1>7
  <2>3. ASSUME NEW l \in 1 .. level PROVE Undo(h.sr[l])
    BY <1>2 DEF Typed
  <2>4. ASSUME NEW l \in 1 .. level, NEW q \in DOMAIN g.sr[l].keys \cup DOMAIN g.sr[l].values
        PROVE  g.body[q[1]] # NIL /\ q[2] \in 0 .. g.body[q[1]].size - 1
    <3>1. q \in DOMAIN h.sr[l].keys \cup DOMAIN h.sr[l].values
      BY <1>13
    <3>2. h.body[q[1]] # NIL /\ q[2] \in 0 .. h.body[q[1]].size - 1
      BY <3>1 DEF Formed, Recording
    <3>3. q \in (Dict \ Shared) \X Nat
      BY <3>1, <2>3, <1>9 DEF Undo, PlacesOf
    <3>4. q[1] \in Dict
      BY <3>3
    <3> QED BY <2>1, <2>2, <3>2, <3>4
  <2>5. ASSUME NEW l \in 1 .. level, NEW x \in DOMAIN g.sr[l].dbs PROVE g.body[x] # NIL
    <3>1. x \in DOMAIN h.sr[l].dbs \/ x = d
      BY <1>13
    <3>2. CASE x \in DOMAIN h.sr[l].dbs
      <4>1. h.body[x] # NIL
        BY <3>2 DEF Formed, Recording
      <4>2. x \in Dict
        BY <3>2, <2>3, <1>9 DEF Undo, PlacesOf
      <4> QED BY <2>1, <4>1, <4>2
    <3> QED BY <1>8, <3>1, <3>2
  <2> QED BY <2>4, <2>5 DEF Recording
<1>15. Formed(g)
  <2>1. \A x \in Dict : g.body[x] # NIL => Sized(x, g.body[x]) /\ Logged(g, x)
    BY <1>6, <1>11, <1>12
  <2> QED BY <1>6, <1>14, <2>1 DEF Formed
<1>16. Kept(h, g)
  <2>1. ASSUME NEW x \in Dict, h.body[x] # NIL, x \notin Shared, NEW k \in birth[x] .. level - 1
        PROVE  /\ HeaderAt(g, x, k) = HeaderAt(h, x, k)
               /\ \A j \in 0 .. h.body[x].size - 1 :
                    KeyAt(g, x, j, k) = KeyAt(h, x, j, k) /\ ValueAt(g, x, j, k) = ValueAt(h, x, j, k)
    <3>1. g.body[x].table = h.body[x].table
      BY <1>6, <1>7
    <3>2. HeaderAt(g, x, k) = HeaderAt(h, x, k)
      <4>1. CASE x = d
        BY <1>3, <1>6, <2>1, <4>1 DEF HeaderAt
      <4>2. CASE x # d
        BY <1>6, <1>10, <4>2 DEF HeaderAt
      <4> QED BY <4>1, <4>2
    <3> QED BY <1>10, <3>1, <3>2 DEF KeyAt, ValueAt
  <2> QED BY <1>6, <1>7, <1>8, <2>1 DEF Kept
<1>17. ASSUME NEW x \in Dict, NEW n \in Name, Seen(g, x, n) PROVE Seen(h, x, n)
  <2>1. CASE g.body[x] # NIL /\ \E j \in 0 .. g.body[x].size - 1 : g.body[x].table[j].key = n
    BY <1>6, <1>7, <2>1 DEF Seen
  <2>2. CASE \E l \in 1 .. level : \E q \in DOMAIN g.sr[l].keys : q[1] = x /\ g.sr[l].keys[q].key = n
    BY <1>13, <2>2 DEF Seen
  <2> QED BY <1>17, <2>1, <2>2 DEF Seen
<1>18. HeaderPut(h, g, d, len, acc)
  BY <1>6, <1>7, <1>8, <1>15, <1>16, <1>17 DEF HeaderPut
<1> QED BY <1>18 DEF g

-----------------------------------------------------------------------------
(* The heap.  What a dictionary has, now and at a level that can be restored.*)

HeapOK(h) == Formed(h) /\ NowGood(h) /\ PastGood(h) /\ CacheOK(h) /\ VecOK(h)

\* d has the key n, now and at level k.
Has(h, d, n) == \E i \in 0 .. h.body[d].size - 1 : h.body[d].table[i].key = n
HasAt(h, d, n, k) == \E i \in 0 .. h.body[d].size - 1 : KeyAt(h, d, i, k).key = n

LEMMA KeyOfKey == \A o : KeyOf(o).key = o.key
  BY DEF KeyOf

LEMMA HasNow ==
  ASSUME level \in Nat, NEW h, Typed(h), NEW d, NEW n
  PROVE  HasAt(h, d, n, level) <=> Has(h, d, n)
<1>1. ASSUME NEW i PROVE KeyAt(h, d, i, level) = KeyOf(h.body[d].table[i])
  <2>1. DOMAIN Log(h.sr, "keys", <<d, i>>) \subseteq 1 .. level
    BY LogTyped DEF Kinds
  <2>2. ~ \E l \in DOMAIN Log(h.sr, "keys", <<d, i>>) : level < l
    BY <2>1
  <2> QED BY <2>2, AtNone DEF KeyAt
<1> QED BY <1>1, KeyOfKey DEF HasAt, Has

LEMMA HasShared ==
  ASSUME level \in Nat, NEW h, Typed(h), NEW d \in Shared, NEW n, NEW k
  PROVE  HasAt(h, d, n, k) <=> Has(h, d, n)
<1>1. ASSUME NEW i PROVE KeyAt(h, d, i, k) = KeyOf(h.body[d].table[i])
  <2>1. ~ \E l \in DOMAIN Log(h.sr, "keys", <<d, i>>) : k < l
    BY SharedUnlogged
  <2> QED BY <2>1, AtNone DEF KeyAt
<1> QED BY <1>1, KeyOfKey DEF HasAt, Has

LEMMA PastStays ==
  ASSUME NEW h, PastGood(h), NEW g, Kept(h, g)
  PROVE  PastGood(g)
<1> SUFFICES ASSUME NEW d \in Dict \ Shared, g.body[d] # NIL, NEW k \in birth[d] .. level - 1
             PROVE  /\ Good(KeysAt(g, d, k), g.body[d].size, HeaderAt(g, d, k).curlength)
                    /\ HeaderAt(g, d, k).curlength <= MaxLen[d]
  BY DEF PastGood
<1>1. /\ h.body[d] # NIL /\ g.body[d].size = h.body[d].size
      /\ HeaderAt(g, d, k) = HeaderAt(h, d, k)
      /\ \A i \in 0 .. h.body[d].size - 1 : KeyAt(g, d, i, k) = KeyAt(h, d, i, k)
  BY DEF Kept
<1>2. KeysAt(g, d, k) = KeysAt(h, d, k)
  BY <1>1 DEF KeysAt
<1>3. /\ Good(KeysAt(h, d, k), h.body[d].size, HeaderAt(h, d, k).curlength)
      /\ HeaderAt(h, d, k).curlength <= MaxLen[d]
  BY <1>1 DEF PastGood
<1> QED BY <1>1, <1>2, <1>3

\* The names of a private dictionary at an earlier level stay with it.
LEMMA KeptHas ==
  ASSUME NEW h, NEW g, Kept(h, g), NEW d \in Dict \ Shared, h.body[d] # NIL,
         NEW k \in birth[d] .. level - 1, NEW n
  PROVE  HasAt(g, d, n, k) <=> HasAt(h, d, n, k)
<1>1. /\ g.body[d].size = h.body[d].size
      /\ \A i \in 0 .. h.body[d].size - 1 : KeyAt(g, d, i, k) = KeyAt(h, d, i, k)
  BY DEF Kept
<1> QED BY <1>1 DEF HasAt

\* Only the cache differs.
LEMMA SameMemory ==
  ASSUME NEW h, Formed(h), NEW g, Typed(g), g.body = h.body, g.sr = h.sr
  PROVE  /\ Formed(g) /\ Kept(h, g)
         /\ NowGood(h) => NowGood(g)
         /\ PastGood(h) => PastGood(g)
         /\ \A d, n : (Seen(g, d, n) <=> Seen(h, d, n)) /\ (Has(g, d, n) <=> Has(h, d, n))
<1>1. \A d : Logged(h, d) => Logged(g, d)
  BY DEF Logged
<1>2. Recording(g)
  BY DEF Formed, Recording
<1>3. Formed(g)
  BY <1>1, <1>2 DEF Formed
<1>4. NowGood(h) => NowGood(g)
  BY DEF NowGood, KeysNow
<1>5. /\ \A d, i, k : KeyAt(g, d, i, k) = KeyAt(h, d, i, k) /\ ValueAt(g, d, i, k) = ValueAt(h, d, i, k)
      /\ \A d, k : HeaderAt(g, d, k) = HeaderAt(h, d, k)
  BY DEF KeyAt, ValueAt, HeaderAt
<1>6. Kept(h, g)
  BY <1>5 DEF Kept
<1>7. PastGood(h) => PastGood(g)
  BY <1>6, PastStays
<1> QED BY <1>3, <1>4, <1>6, <1>7 DEF Seen, Has

\* The table of a dictionary can be searched.
LEMMA TableGood ==
  ASSUME NEW h, Formed(h), NowGood(h), NEW d \in Dict, h.body[d] # NIL
  PROVE  /\ h.body[d].size \in Nat \ {0} /\ h.body[d].curlength \in Nat
         /\ h.body[d].curlength < h.body[d].size
         /\ KeysNow(h, d) \in KeyTable(h.body[d].size)
         /\ Searchable(KeysNow(h, d), h.body[d].size)
         /\ Cardinality(Filled(KeysNow(h, d), h.body[d].size)) = h.body[d].curlength
<1>1. Sized(d, h.body[d])
  BY DEF Formed
<1>2. h.body[d].size \in Nat \ {0}
  BY <1>1, SizedLive
<1>3. h.body[d].curlength \in Nat /\ h.body[d].curlength < h.body[d].size
  BY <1>1, <1>2 DEF Sized, DictBody
<1>4. \A i \in 0 .. h.body[d].size - 1 : h.body[d].table[i].key \in Name \cup {NIL}
  BY <1>1, EntryIs
<1>5. KeysNow(h, d) \in KeyTable(h.body[d].size)
  BY <1>4 DEF KeysNow, KeyTable
<1> QED BY <1>2, <1>3, <1>5 DEF NowGood, Good

LEMMA SearchNow ==
  ASSUME NEW h, Formed(h), NowGood(h), NEW d \in Dict, h.body[d] # NIL, NEW n \in Name
  PROVE  /\ EndsAt(KeysNow(h, d), h.body[d].size, n, Place(h.body[d], n))
         /\ Place(h.body[d], n) \in 0 .. h.body[d].size - 1
         /\ Known(h.body[d], n) <=> Has(h, d, n)
         /\ Known(h.body[d], n) <=> h.body[d].table[Place(h.body[d], n)].key = n
         /\ ~ Known(h.body[d], n) <=> h.body[d].table[Place(h.body[d], n)].key = NIL
         /\ \A i \in 0 .. h.body[d].size - 1 : h.body[d].table[i].key = n => Place(h.body[d], n) = i
<1> DEFINE b == h.body[d] s == b.size t == KeysIn(b)
<1>1. KeysNow(h, d) = t
  BY DEF KeysNow, KeysIn
<1>2. s \in Nat \ {0} /\ Searchable(t, s) /\ Cardinality(Filled(t, s)) < s
  BY <1>1, TableGood
<1>3. \A i \in 0 .. s - 1 : t[i] = b.table[i].key
  BY DEF KeysIn
<1> HIDE DEF t
<1>4. /\ EndsAt(t, s, n, Place(b, n))
      /\ Place(b, n) \in 0 .. s - 1
      /\ Known(b, n) <=> \E i \in 0 .. s - 1 : t[i] = n
      /\ Known(b, n) <=> t[Place(b, n)] = n
      /\ ~ Known(b, n) <=> t[Place(b, n)] = NIL
      /\ \A i \in 0 .. s - 1 : t[i] = n => Place(b, n) = i
  BY <1>2, Search DEF t
<1> HIDE DEF s
<1>5. Known(b, n) <=> \E i \in 0 .. s - 1 : b.table[i].key = n
  BY <1>3, <1>4
<1> QED BY <1>1, <1>3, <1>4, <1>5 DEF Has, s

-----------------------------------------------------------------------------
(* The name cache over a changed body.                                      *)

\* What the name caches is replaced.
SetCache(h, n, e) == [h EXCEPT !.cache[n] = e]

LEMMA CacheSet ==
  ASSUME NEW h, Typed(h), NEW n \in Name, NEW e \in Binding, NEW g, g = SetCache(h, n, e)
  PROVE  /\ Typed(g) /\ g.body = h.body /\ g.sr = h.sr
         /\ \A m \in Name : g.cache[m] = IF m = n THEN e ELSE h.cache[m]
<1>1. g.body = h.body /\ g.sr = h.sr /\ g.cache = [h.cache EXCEPT ![n] = e]
      /\ g = [body |-> g.body, cache |-> g.cache, sr |-> g.sr]
  BY DEF Typed, SetCache
<1>2. h.cache \in [Name -> Binding]
  BY DEF Typed
<1>3. g.cache \in [Name -> Binding] /\ \A m \in Name : g.cache[m] = IF m = n THEN e ELSE h.cache[m]
  BY <1>1, <1>2
<1> QED BY <1>1, <1>3 DEF Typed

\* The names of the dictionaries, and what a restore would find, are the same.
Same(h, g) ==
  /\ Kept(h, g)
  /\ \A x \in Dict, m \in Name : Has(g, x, m) <=> Has(h, x, m)

LEMMA ValuePut ==
  ASSUME level \in Nat, NEW h, HeapOK(h), NEW d \in Dict, h.body[d] # NIL,
         NEW i \in 0 .. h.body[d].size - 1, NEW v \in Value \cup {NIL},
         NEW g, g = PutValue(h, d, i, v)
  PROVE  HeapOK(g) /\ Same(h, g) /\ g.cache = h.cache
<1> DEFINE o == h.body[d].table[i]
           e == NewValue(d, o, v)
<1>0. Formed(h) /\ NowGood(h) /\ PastGood(h) /\ CacheOK(h) /\ VecOK(h)
  BY DEF HeapOK
<1>1. SlotPut(h, g, d, i, e)
  BY <1>0, PutValuePuts
<1>2. e.key = o.key
  BY DEF NewValue
<1> HIDE DEF e
<1>3. /\ Formed(g) /\ Kept(h, g) /\ g.cache = h.cache
      /\ \A x \in Dict : x # d => g.body[x] = h.body[x]
      /\ g.body[d] # NIL /\ g.body[d].size = h.body[d].size
      /\ g.body[d].table = Over(h.body[d].table, i, e)
      /\ HeaderOf(g.body[d]) = HeaderOf(h.body[d])
      /\ \A x \in Dict, n \in Name : Seen(g, x, n) => Seen(h, x, n) \/ (x = d /\ n = e.key)
  BY <1>1 DEF SlotPut
<1>4. Sized(d, h.body[d])
  BY <1>0 DEF Formed
<1>5. g.body[d].curlength = h.body[d].curlength
  BY <1>3 DEF HeaderOf
<1>6. \A j \in 0 .. h.body[d].size - 1 : g.body[d].table[j].key = h.body[d].table[j].key
  <2>1. h.body[d].table \in [0 .. h.body[d].size - 1 -> Entry]
    BY <1>4 DEF Sized, DictBody
  <2>2. \A j \in 0 .. h.body[d].size - 1 : g.body[d].table[j] = IF j = i THEN e ELSE h.body[d].table[j]
    BY <1>3, <2>1 DEF Over
  <2> QED BY <1>2, <2>2
<1>7. \A x \in Dict : /\ g.body[x] = NIL <=> h.body[x] = NIL
                      /\ g.body[x].size = h.body[x].size
                      /\ g.body[x].curlength = h.body[x].curlength
                      /\ \A j \in 0 .. h.body[x].size - 1 : g.body[x].table[j].key = h.body[x].table[j].key
  BY <1>3, <1>5, <1>6
<1>8. NowGood(g)
  <2>1. \A x \in Dict : KeysNow(g, x) = KeysNow(h, x)
    BY <1>7 DEF KeysNow
  <2> QED BY <1>0, <1>7, <2>1 DEF NowGood
<1>9. PastGood(g)
  BY <1>0, <1>3, PastStays
<1>10. CacheOK(g)
  <2>1. h.cache \in [Name -> Binding]
    BY <1>0 DEF Formed, Typed
  <2>2. \A n \in Name : h.cache[n].dict # NIL => h.cache[n].dict \in Dict
    BY <2>1 DEF Binding
  <2> SUFFICES ASSUME NEW n \in Name, g.cache[n].dict # NIL
               PROVE  /\ g.body[g.cache[n].dict] # NIL
                      /\ g.cache[n].loc \in 0 .. g.body[g.cache[n].dict].size - 1
                      /\ g.body[g.cache[n].dict].table[g.cache[n].loc].key = n
    BY DEF CacheOK
  <2> DEFINE x == h.cache[n].dict l == h.cache[n].loc
  <2>3. g.cache[n].dict = x /\ g.cache[n].loc = l /\ x # NIL
    BY <1>3
  <2>4. x \in Dict
    BY <2>2, <2>3
  <2>5. h.body[x] # NIL /\ l \in 0 .. h.body[x].size - 1 /\ h.body[x].table[l].key = n
    BY <1>0, <2>3 DEF CacheOK
  <2> HIDE DEF x, l
  <2> QED BY <1>7, <2>3, <2>4, <2>5
<1>11. ASSUME NEW x \in Dict, NEW n \in Name, Seen(g, x, n) PROVE Seen(h, x, n)
  BY <1>2, <1>3, <1>11 DEF Seen
<1>12. VecOK(g)
  BY <1>0, <1>3, <1>11 DEF VecOK
<1>13. \A x \in Dict, m \in Name : Has(g, x, m) <=> Has(h, x, m)
  BY <1>7 DEF Has
<1> QED BY <1>3, <1>8, <1>9, <1>10, <1>12, <1>13 DEF HeapOK, Same

\* All is well but that the name n need not know d yet.
VecBut(h, d, n) ==
  \A x \in Dict, m \in Name :
    Seen(h, x, m) \/ h.cache[m].dict = x => Bit[x] \in h.cache[m].vec \/ (x = d /\ m = n)
AlmostOK(h, d, n) == Formed(h) /\ NowGood(h) /\ PastGood(h) /\ CacheOK(h) /\ VecBut(h, d, n)

LEMMA AlmostIs ==
  ASSUME NEW h, HeapOK(h), NEW d, NEW n
  PROVE  AlmostOK(h, d, n)
  BY DEF HeapOK, AlmostOK, VecOK, VecBut

\* A binding of n that is right.
RightBinding(h, n, e) ==
  /\ e \in Binding
  /\ e.dict # NIL =>
       /\ h.body[e.dict] # NIL /\ e.loc \in 0 .. h.body[e.dict].size - 1
       /\ h.body[e.dict].table[e.loc].key = n
       /\ Bit[e.dict] \in e.vec

NewBinding(h, d, n, e) ==
  /\ RightBinding(h, n, e) /\ h.cache[n].vec \subseteq e.vec
  /\ AlmostOK(h, d, n) /\ (Bit[d] \in e.vec \/ HeapOK(h))

Recached(h, g, n, e) ==
  /\ HeapOK(g) /\ Same(h, g)
  /\ \A m \in Name : g.cache[m] = IF m = n THEN e ELSE h.cache[m]
  /\ g.body = h.body /\ g.sr = h.sr

LEMMA RecacheGood ==
  ASSUME NEW h, NEW d \in Dict, NEW n \in Name, NEW e, NewBinding(h, d, n, e)
  PROVE  Recached(h, SetCache(h, n, e), n, e)
<1> DEFINE g == SetCache(h, n, e)
<1>0. /\ AlmostOK(h, d, n) /\ RightBinding(h, n, e) /\ h.cache[n].vec \subseteq e.vec
      /\ Bit[d] \in e.vec \/ HeapOK(h)
  BY DEF NewBinding
<1>1. Formed(h) /\ NowGood(h) /\ PastGood(h) /\ CacheOK(h) /\ VecBut(h, d, n) /\ Typed(h)
  BY <1>0 DEF AlmostOK, Formed
<1>2. /\ Typed(g) /\ g.body = h.body /\ g.sr = h.sr
      /\ \A m \in Name : g.cache[m] = IF m = n THEN e ELSE h.cache[m]
  BY <1>0, <1>1, CacheSet DEF RightBinding
<1> HIDE DEF g
<1>3. /\ Formed(g) /\ Kept(h, g) /\ NowGood(g) /\ PastGood(g)
      /\ \A x, m : (Seen(g, x, m) <=> Seen(h, x, m)) /\ (Has(g, x, m) <=> Has(h, x, m))
  BY <1>1, <1>2, SameMemory
<1>4. CacheOK(g)
  <2> SUFFICES ASSUME NEW m \in Name, g.cache[m].dict # NIL
               PROVE  /\ g.body[g.cache[m].dict] # NIL
                      /\ g.cache[m].loc \in 0 .. g.body[g.cache[m].dict].size - 1
                      /\ g.body[g.cache[m].dict].table[g.cache[m].loc].key = m
    BY DEF CacheOK
  <2>1. CASE m = n
    <3>1. g.cache[m] = e
      BY <1>2, <2>1
    <3> QED BY <1>0, <1>2, <2>1, <3>1 DEF RightBinding
  <2>2. CASE m # n
    <3>1. g.cache[m] = h.cache[m]
      BY <1>2, <2>2
    <3> QED BY <1>1, <1>2, <3>1 DEF CacheOK
  <2> QED BY <2>1, <2>2
<1>5. VecOK(g)
  <2> SUFFICES ASSUME NEW x \in Dict, NEW m \in Name, Seen(g, x, m) \/ g.cache[m].dict = x
               PROVE  Bit[x] \in g.cache[m].vec
    BY DEF VecOK
  <2>1. CASE m = n
    <3>1. g.cache[m] = e
      BY <1>2, <2>1
    <3>2. CASE g.cache[m].dict = x
      BY <1>0, <3>1, <3>2, NilNot DEF RightBinding
    <3>3. CASE Seen(g, x, m)
      <4>1. Seen(h, x, n)
        BY <1>3, <2>1, <3>3
      <4>2. Bit[x] \in h.cache[n].vec \/ x = d
        BY <1>1, <4>1 DEF VecBut
      <4>3. HeapOK(h) => Bit[x] \in h.cache[n].vec
        BY <4>1 DEF HeapOK, VecOK
      <4> QED BY <1>0, <3>1, <4>2, <4>3
    <3> QED BY <3>2, <3>3
  <2>2. CASE m # n
    <3>1. g.cache[m] = h.cache[m]
      BY <1>2, <2>2
    <3> QED BY <1>1, <1>3, <2>2, <3>1 DEF VecBut
  <2> QED BY <2>1, <2>2
<1>6. Recached(h, g, n, e)
  BY <1>2, <1>3, <1>4, <1>5 DEF HeapOK, Same, Recached
<1> QED BY <1>6 DEF g

LEMMA BindingIs ==
  ASSUME NEW h, Typed(h), NEW n \in Name
  PROVE  /\ h.cache[n] \in Binding
         /\ h.cache[n] = [loc |-> h.cache[n].loc, dict |-> h.cache[n].dict,
                          ts |-> h.cache[n].ts, vec |-> h.cache[n].vec]
         /\ h.cache[n].dict \in Dict \cup {NIL}
<1>1. h.cache[n] \in Binding
  BY DEF Typed
<1> QED BY <1>1 DEF Binding

LEMMA StampIs ==
  ASSUME NEW c \in Context, gen[c] \in Nat, NEW h, NEW d, NEW top, NEW ts \in (Context \X Nat) \cup {NIL}
  PROVE  /\ Stamp(h, c, d, top, ts) \in (Context \X Nat) \cup {NIL}
         /\ Stamp(h, c, d, top, ts) = ts \/ (top /\ Stamp(h, c, d, top, ts) = stamp(c))
  BY DEF Stamp, stamp

LEMMA BoundGood ==
  ASSUME NEW h, NEW d \in Dict, NEW n \in Name, AlmostOK(h, d, n), h.body[d] # NIL, Has(h, d, n),
         NEW c \in Context, gen[c] \in Nat, NEW top, NEW g, g = Bound(h, c, d, n, top)
  PROVE  /\ HeapOK(g) /\ Same(h, g)
         /\ \A m \in Name : m # n => g.cache[m] = h.cache[m]
         /\ g.cache[n].dict = d
         /\ g.cache[n].ts = NIL \/ (top /\ g.cache[n].ts = stamp(c))
<1> DEFINE e == [loc |-> Place(h.body[d], n), dict |-> d, ts |-> Stamp(h, c, d, top, NIL),
                 vec |-> h.cache[n].vec \cup {Bit[d]}]
<1>1. Formed(h) /\ NowGood(h) /\ Typed(h)
  BY DEF AlmostOK, Formed
<1>2. g = SetCache(h, n, e)
  <2>1. h.cache \in [Name -> Binding]
    BY <1>1 DEF Typed
  <2> QED BY <2>1 DEF Bound, SetCache
<1>3. /\ Place(h.body[d], n) \in 0 .. h.body[d].size - 1
      /\ h.body[d].table[Place(h.body[d], n)].key = n
      /\ h.body[d].size \in Nat
  BY <1>1, SearchNow, TableGood
<1>4. h.cache[n].vec \in SUBSET {Bit[x] : x \in Dict}
  BY <1>1, BindingIs DEF Binding
<1>5. /\ Stamp(h, c, d, top, NIL) \in (Context \X Nat) \cup {NIL}
      /\ Stamp(h, c, d, top, NIL) = NIL \/ (top /\ Stamp(h, c, d, top, NIL) = stamp(c))
  BY StampIs
<1>6. e \in Binding
  BY <1>3, <1>4, <1>5 DEF Binding
<1>7. e.dict = d /\ e.loc = Place(h.body[d], n) /\ e.ts = Stamp(h, c, d, top, NIL)
      /\ Bit[d] \in e.vec /\ h.cache[n].vec \subseteq e.vec
  OBVIOUS
<1> HIDE DEF e
<1>8. RightBinding(h, n, e)
  BY <1>3, <1>6, <1>7 DEF RightBinding
<1>9. NewBinding(h, d, n, e)
  BY <1>7, <1>8 DEF NewBinding
<1>10. Recached(h, g, n, e)
  BY <1>2, <1>9, RecacheGood
<1> QED BY <1>5, <1>7, <1>10 DEF Recached


\* The time stamp of a name is renewed; f is what was written before.
Restamped(h, f, c, d, n, top) == [h EXCEPT !.cache[n].ts = Stamp(f, c, d, top, @)]

LEMMA RestampedGood ==
  ASSUME NEW h, NEW d \in Dict, NEW n \in Name, HeapOK(h),
         NEW c \in Context, gen[c] \in Nat, NEW top, NEW f, NEW g,
         g = Restamped(h, f, c, d, n, top)
  PROVE  /\ HeapOK(g) /\ Same(h, g)
         /\ \A m \in Name : m # n => g.cache[m] = h.cache[m]
         /\ g.cache[n].dict = h.cache[n].dict
         /\ g.cache[n].ts = h.cache[n].ts \/ (top /\ g.cache[n].ts = stamp(c))
<1> DEFINE o == h.cache[n]
           ts == Stamp(f, c, d, top, o.ts)
           e == [loc |-> o.loc, dict |-> o.dict, ts |-> ts, vec |-> o.vec]
<1>1. Formed(h) /\ CacheOK(h) /\ VecOK(h) /\ Typed(h)
  BY DEF HeapOK, Formed
<1>2. o \in Binding /\ o = [loc |-> o.loc, dict |-> o.dict, ts |-> o.ts, vec |-> o.vec]
  BY <1>1, BindingIs
<1>3. g = SetCache(h, n, e)
  <2>1. h.cache \in [Name -> Binding] /\ h = [body |-> h.body, cache |-> h.cache, sr |-> h.sr]
    BY <1>1 DEF Typed
  <2>2. [o EXCEPT !.ts = ts] = e
    <3> HIDE DEF o, ts
    <3> QED BY <1>2
  <2>3. g = SetCache(h, n, [o EXCEPT !.ts = ts])
    BY <2>1 DEF SetCache, Restamped
  <2> HIDE DEF e
  <2> QED BY <2>2, <2>3
<1>4. /\ ts \in (Context \X Nat) \cup {NIL}
      /\ ts = o.ts \/ (top /\ ts = stamp(c))
  <2>1. o.ts \in (Context \X Nat) \cup {NIL}
    <3> HIDE DEF o
    <3> QED BY <1>2 DEF Binding
  <2> HIDE DEF o
  <2> QED BY <2>1, StampIs
<1>5. e \in Binding /\ e.dict = o.dict /\ e.loc = o.loc /\ e.ts = ts /\ e.vec = o.vec
  <2> HIDE DEF o, ts
  <2> QED BY <1>2, <1>4 DEF Binding
<1> HIDE DEF e
<1>6. RightBinding(h, n, e)
  <2>1. o.dict # NIL => /\ h.body[o.dict] # NIL /\ o.loc \in 0 .. h.body[o.dict].size - 1
                        /\ h.body[o.dict].table[o.loc].key = n
    BY <1>1 DEF CacheOK
  <2>2. o.dict # NIL => Bit[o.dict] \in o.vec
    <3>1. o.dict \in Dict \cup {NIL}
      BY <1>1, BindingIs
    <3> QED BY <1>1, <3>1 DEF VecOK
  <2> HIDE DEF o
  <2> QED BY <1>5, <2>1, <2>2 DEF RightBinding
<1>7. NewBinding(h, d, n, e)
  BY <1>5, <1>6, AlmostIs DEF NewBinding
<1>8. Recached(h, g, n, e)
  BY <1>3, <1>7, RecacheGood
<1> QED BY <1>4, <1>5, <1>8 DEF Recached

-----------------------------------------------------------------------------
(* A key is added, where the body has room.                                 *)

\* What the write of a slot does to the keys.
KeysPut(h, g, d, i, n) ==
  /\ \A x \in Dict : x # d => g.body[x] = h.body[x]
  /\ \A x \in Dict : g.body[x] = NIL <=> h.body[x] = NIL
  /\ \A j \in 0 .. h.body[d].size - 1 :
       g.body[d].table[j].key = IF j = i THEN n ELSE h.body[d].table[j].key
  /\ KeysNow(g, d) = Over(KeysNow(h, d), i, n)
  /\ g.body[d].size = h.body[d].size /\ g.body[d].curlength = h.body[d].curlength
  /\ g.body[d].curmax = h.body[d].curmax /\ g.body[d].access = h.body[d].access

LEMMA SlotKeys ==
  ASSUME NEW h, NEW g, NEW d \in Dict, Sized(d, h.body[d]),
         NEW i \in 0 .. h.body[d].size - 1, NEW e, SlotPut(h, g, d, i, e)
  PROVE  KeysPut(h, g, d, i, e.key)
<1>1. /\ \A x \in Dict : x # d => g.body[x] = h.body[x]
      /\ g.body[d] # NIL /\ g.body[d].size = h.body[d].size
      /\ g.body[d].table = Over(h.body[d].table, i, e)
      /\ HeaderOf(g.body[d]) = HeaderOf(h.body[d]) /\ g.body[d].curmax = h.body[d].curmax
  BY DEF SlotPut
<1>2. h.body[d] # NIL
  BY SizedLive
<1>3. \A j \in 0 .. h.body[d].size - 1 :
        g.body[d].table[j].key = IF j = i THEN e.key ELSE h.body[d].table[j].key
  <2>1. h.body[d].table \in [0 .. h.body[d].size - 1 -> Entry]
    BY DEF Sized, DictBody
  <2>2. \A j \in 0 .. h.body[d].size - 1 : g.body[d].table[j] = IF j = i THEN e ELSE h.body[d].table[j]
    BY <1>1, <2>1 DEF Over
  <2> QED BY <2>2
<1>4. KeysNow(g, d) = Over(KeysNow(h, d), i, e.key)
  BY <1>1, <1>3 DEF KeysNow, Over
<1>5. g.body[d].curlength = h.body[d].curlength /\ g.body[d].access = h.body[d].access
  BY <1>1 DEF HeaderOf
<1> QED BY <1>1, <1>2, <1>3, <1>4, <1>5 DEF KeysPut

InsertedIn(h, d, n, v) ==
  PutHeader(PutKeyVal(h, d, Place(h.body[d], n), n, v), d, h.body[d].curlength + 1, h.body[d].access)

\* h with the key n in d.
Added(h, g, d, n) ==
  /\ Kept(h, g) /\ g.cache = h.cache
  /\ \A x \in Dict, m \in Name : Has(g, x, m) <=> Has(h, x, m) \/ (x = d /\ m = n)

LEMMA InsertGood ==
  ASSUME level \in Nat, NEW h, HeapOK(h), NEW d \in Dict, h.body[d] # NIL,
         NEW n \in Name, NEW v \in Value \cup {NIL},
         ~ Known(h.body[d], n), ~ Full(h.body[d])
  PROVE  AlmostOK(InsertedIn(h, d, n, v), d, n) /\ Added(h, InsertedIn(h, d, n, v), d, n)
<1> DEFINE p == Place(h.body[d], n)
           f == PutKeyVal(h, d, p, n, v)
           g == InsertedIn(h, d, n, v)
           s == h.body[d].size
           len == h.body[d].curlength
<1>1. Formed(h) /\ NowGood(h) /\ PastGood(h) /\ CacheOK(h) /\ VecOK(h) /\ Sized(d, h.body[d])
  BY DEF HeapOK, Formed
<1>2. /\ s \in Nat \ {0} /\ len \in Nat
      /\ KeysNow(h, d) \in KeyTable(s) /\ Searchable(KeysNow(h, d), s)
      /\ Cardinality(Filled(KeysNow(h, d), s)) = len
  BY <1>1, TableGood
<1>3. /\ EndsAt(KeysNow(h, d), s, n, p) /\ p \in 0 .. s - 1
      /\ h.body[d].table[p].key = NIL
      /\ \A i \in 0 .. s - 1 : h.body[d].table[i].key # n
  BY <1>1, SearchNow DEF Has
<1>4. len + 1 \in Nat /\ len + 1 <= h.body[d].curmax /\ h.body[d].access \in SUBSET {"r", "w"}
  BY <1>1 DEF Full, Sized, DictBody
<1>5. KeysNow(h, d)[p] = NIL
  BY <1>3 DEF KeysNow
<1> DEFINE e == NewEntry(d, n, v)
<1>6. e.key = n
  BY DEF NewEntry
<1> HIDE DEF p, s, e, len
<1>7. SlotPut(h, f, d, p, e)
  BY <1>1, <1>3, PutKeyValPuts DEF e, s
<1>8. KeysPut(h, f, d, p, n)
  BY <1>1, <1>3, <1>6, <1>7, SlotKeys DEF s
<1>9. /\ Formed(f) /\ Kept(h, f) /\ f.cache = h.cache /\ f.body[d] # NIL
      /\ \A x \in Dict, m \in Name : Seen(f, x, m) => Seen(h, x, m) \/ (x = d /\ m = n)
  BY <1>6, <1>7 DEF SlotPut
<1>10. g = PutHeader(f, d, len + 1, h.body[d].access)
  BY DEF InsertedIn, p, len
<1> HIDE DEF f, g
<1>11. len + 1 <= f.body[d].curmax
  BY <1>4, <1>8 DEF KeysPut
<1>12. HeaderPut(f, g, d, len + 1, h.body[d].access)
  BY <1>4, <1>9, <1>10, <1>11, PutHeaderPuts
<1>13. /\ Formed(g) /\ Kept(f, g) /\ g.cache = h.cache
       /\ \A x \in Dict : x # d => g.body[x] = h.body[x]
       /\ g.body[d] # NIL /\ g.body[d].size = s /\ g.body[d].table = f.body[d].table
       /\ g.body[d].curlength = len + 1
       /\ \A x \in Dict, m \in Name : Seen(g, x, m) => Seen(h, x, m) \/ (x = d /\ m = n)
  BY <1>8, <1>9, <1>12 DEF HeaderPut, KeysPut, s
<1>14. Kept(h, g)
  BY <1>9, <1>13, KeptOn
<1>15. PastGood(g)
  BY <1>1, <1>14, PastStays
<1>16. \A j \in 0 .. s - 1 : g.body[d].table[j].key = IF j = p THEN n ELSE h.body[d].table[j].key
  BY <1>8, <1>13 DEF KeysPut, s
<1>17. KeysNow(g, d) = [KeysNow(h, d) EXCEPT ![p] = n]
  BY <1>16, <1>13 DEF KeysNow, s
<1>18. Good(KeysNow(g, d), s, len + 1)
  <2>1. Searchable([KeysNow(h, d) EXCEPT ![p] = n], s)
    BY <1>2, <1>3, <1>5, InsertSearchable
  <2>2. Cardinality(Filled([KeysNow(h, d) EXCEPT ![p] = n], s)) = len + 1
    BY <1>2, <1>3, <1>5, InsertFilled
  <2> QED BY <1>17, <2>1, <2>2 DEF Good
<1>19. NowGood(g)
  <2> SUFFICES ASSUME NEW x \in Dict, g.body[x] # NIL
               PROVE  Good(KeysNow(g, x), g.body[x].size, g.body[x].curlength)
    BY DEF NowGood
  <2>1. CASE x = d
    BY <1>13, <1>18, <2>1
  <2>2. CASE x # d
    <3>1. KeysNow(g, x) = KeysNow(h, x) /\ g.body[x] = h.body[x]
      BY <1>13, <2>2 DEF KeysNow
    <3> QED BY <1>1, <3>1 DEF NowGood
  <2> QED BY <2>1, <2>2
<1>20. CacheOK(g)
  <2> SUFFICES ASSUME NEW m \in Name, h.cache[m].dict # NIL
               PROVE  /\ g.body[h.cache[m].dict] # NIL
                      /\ h.cache[m].loc \in 0 .. g.body[h.cache[m].dict].size - 1
                      /\ g.body[h.cache[m].dict].table[h.cache[m].loc].key = m
    BY <1>13 DEF CacheOK
  <2> DEFINE x == h.cache[m].dict l == h.cache[m].loc
  <2>1. x \in Dict
    BY <1>1, BindingIs DEF Formed
  <2>2. h.body[x] # NIL /\ l \in 0 .. h.body[x].size - 1 /\ h.body[x].table[l].key = m
    BY <1>1 DEF CacheOK
  <2> HIDE DEF x, l
  <2>3. CASE x = d
    <3>1. l # p
      BY <1>3, <2>2, <2>3, NilNot
    <3> QED BY <1>13, <1>16, <2>2, <2>3, <3>1 DEF x, l, s
  <2>4. CASE x # d
    BY <1>13, <2>1, <2>2, <2>4 DEF x, l
  <2> QED BY <2>3, <2>4
<1>21. VecBut(g, d, n)
  BY <1>1, <1>13 DEF VecBut, VecOK
<1>22. \A x \in Dict, m \in Name : Has(g, x, m) <=> Has(h, x, m) \/ (x = d /\ m = n)
  <2> SUFFICES ASSUME NEW x \in Dict, NEW m \in Name
               PROVE  Has(g, x, m) <=> Has(h, x, m) \/ (x = d /\ m = n)
    OBVIOUS
  <2>1. CASE x = d
    <3>1. Has(g, d, m) <=> \E j \in 0 .. s - 1 : g.body[d].table[j].key = m
      BY <1>13 DEF Has
    <3>2. Has(h, d, m) <=> \E j \in 0 .. s - 1 : h.body[d].table[j].key = m
      BY DEF Has, s
    <3> QED BY <1>3, <1>16, <2>1, <3>1, <3>2, NilNot
  <2>2. CASE x # d
    BY <1>13, <2>2 DEF Has
  <2> QED BY <2>1, <2>2
<1>23. AlmostOK(g, d, n) /\ Added(h, g, d, n)
  BY <1>13, <1>14, <1>15, <1>19, <1>20, <1>21, <1>22 DEF AlmostOK, Added
<1> QED BY <1>23 DEF g

-----------------------------------------------------------------------------
(* VMExpandDict.  The larger table after the first entries of the old one.  *)

NullEntry == [key |-> NIL, klevel |-> 0, value |-> NIL, vlevel |-> 0]

\* The larger table of VMExpandDict, after the first i entries of the old one.
LargerSize(d, b) == Least(MaxLen[d] + MaxLen[d] \div 4, b.size * 2)
LargerMax(d, b) == Least(MaxLen[d], b.curmax * 2)
Bare(d, b) ==
  [b EXCEPT !.size = LargerSize(d, b), !.curmax = LargerMax(d, b),
            !.table = [i \in 0 .. LargerSize(d, b) - 1 |-> NullEntry]]
PutIn(new, kv) ==
  IF kv.key = NIL THEN new
  ELSE LET at == Place(new, kv.key) IN [new EXCEPT !.table = [@ EXCEPT ![at] = kv]]
Grows(f, d, b, l) == f = [i \in 0 .. l |-> IF i = 0 THEN Bare(d, b) ELSE PutIn(f[i - 1], b.table[i - 1])]

LEMMA GrowsExists == \A d, b : \A l \in Nat : \E f : Grows(f, d, b, l)
<1> SUFFICES ASSUME NEW d, NEW b PROVE \A l \in Nat : \E f : Grows(f, d, b, l)
  OBVIOUS
<1> DEFINE S == {l \in Nat : \E f : Grows(f, d, b, l)}
<1>1. 0 \in S
  <2> DEFINE f == [i \in 0 .. 0 |-> Bare(d, b)]
  <2>1. Grows(f, d, b, 0)
    BY DEF Grows
  <2> QED BY <2>1
<1>2. ASSUME NEW l \in Nat, l \in S PROVE l + 1 \in S
  <2>1. PICK f : Grows(f, d, b, l)
    BY <1>2
  <2> DEFINE g == [i \in 0 .. l + 1 |-> IF i = l + 1 THEN PutIn(f[l], b.table[l]) ELSE f[i]]
  <2>2. ASSUME NEW i \in 0 .. l + 1
        PROVE  g[i] = IF i = 0 THEN Bare(d, b) ELSE PutIn(g[i - 1], b.table[i - 1])
    <3>1. CASE i = l + 1
      <4>1. l \in 0 .. l + 1 /\ l # l + 1 /\ i - 1 = l /\ i # 0
        BY <3>1
      <4>2. g[l] = f[l] /\ g[i] = PutIn(f[l], b.table[l])
        BY <3>1, <4>1
      <4> HIDE DEF g
      <4> QED BY <3>1, <4>1, <4>2
    <3>2. CASE i \in 0 .. l
      <4>1. g[i] = f[i]
        BY <3>2
      <4>2. i # 0 => g[i - 1] = f[i - 1]
        BY <3>2
      <4>3. f[i] = IF i = 0 THEN Bare(d, b) ELSE PutIn(f[i - 1], b.table[i - 1])
        BY <2>1, <3>2 DEF Grows
      <4> HIDE DEF g
      <4> QED BY <4>1, <4>2, <4>3
    <3> QED BY <3>1, <3>2
  <2>3. g = [i \in 0 .. l + 1 |-> g[i]]
    OBVIOUS
  <2> HIDE DEF g
  <2>4. Grows(g, d, b, l + 1)
    BY <2>2, <2>3 DEF Grows
  <2> QED BY <2>4
<1> HIDE DEF S
<1>3. Nat \subseteq S
  BY <1>1, <1>2, SetInduction
<1> QED BY <1>3 DEF S

\* What holds of it.
Rehashed(d, b, new, i) ==
  /\ new \in DictBody(new.size) /\ new.size = LargerSize(d, b) /\ new.curmax = LargerMax(d, b)
  /\ new.curlength = b.curlength /\ new.access = b.access /\ new.level = b.level
  /\ \A x \in 0 .. new.size - 1 : new.table[x].klevel = 0 /\ new.table[x].vlevel = 0
  /\ Searchable(KeysIn(new), new.size)
  /\ Cardinality(Filled(KeysIn(new), new.size)) = Cardinality(Filled(KeysIn(b), i))
  /\ \A m \in Name : (\E x \in 0 .. new.size - 1 : new.table[x].key = m)
                     <=> \E j \in 0 .. i - 1 : b.table[j].key = m

\* A dictionary that is full but may grow.
MayGrow(d, b) ==
  /\ Sized(d, b) /\ Searchable(KeysIn(b), b.size)
  /\ Cardinality(Filled(KeysIn(b), b.size)) = b.curlength
  /\ \A x \in 0 .. b.size - 1 : b.table[x].klevel = 0 /\ b.table[x].vlevel = 0
  /\ Full(b) /\ b.curlength < MaxLen[d]

LEMMA LargerIs ==
  ASSUME NEW d \in Dict, NEW b, MayGrow(d, b)
  PROVE  /\ d \in Shared
         /\ LargerSize(d, b) \in 1 .. 2 * MaxLen[d] /\ LargerMax(d, b) \in CurMax[d] .. MaxLen[d]
         /\ b.curlength \in Nat /\ b.curlength < LargerMax(d, b) /\ LargerMax(d, b) < LargerSize(d, b)
<1>1. /\ b.size \in 1 .. 2 * MaxLen[d] /\ b.curmax \in CurMax[d] .. MaxLen[d] /\ b.curmax < b.size
      /\ b.curlength <= b.curmax /\ b.curlength \in Nat /\ (d \notin Shared => b.curmax = MaxLen[d])
      /\ b.curlength >= b.curmax /\ b.curlength < MaxLen[d]
  BY DEF MayGrow, Sized, DictBody, Full
<1>2. MaxLen[d] \in Nat \ {0} /\ CurMax[d] \in 1 .. MaxLen[d] /\ (CurMax[d] < MaxLen[d] => MaxLen[d] >= 4)
  BY DictAssumption
<1> DEFINE M == MaxLen[d] s == b.size c == b.curmax n == b.curlength m == CurMax[d]
<1>3. /\ M \in Nat \ {0} /\ m \in 1 .. M /\ (m < M => M >= 4)
      /\ s \in 1 .. 2 * M /\ c \in m .. M /\ c < s
      /\ n <= c /\ n \in Nat /\ (d \notin Shared => c = M) /\ n >= c /\ n < M
  BY <1>1, <1>2
<1>4. LargerSize(d, b) = (IF M + M \div 4 < s * 2 THEN M + M \div 4 ELSE s * 2)
      /\ LargerMax(d, b) = IF M < c * 2 THEN M ELSE c * 2
  BY DEF LargerSize, LargerMax, Least
<1> DEFINE S == LargerSize(d, b) C == LargerMax(d, b)
<1> SUFFICES d \in Shared /\ S \in 1 .. 2 * M /\ C \in m .. M /\ n \in Nat /\ n < C /\ C < S
  OBVIOUS
<1> HIDE DEF M, s, c, n, m, S, C
<1>5. n = c /\ d \in Shared /\ M >= 4
  BY <1>3
<1>6. M \div 4 \in 1 .. M
  BY <1>3, <1>5
<1> QED BY <1>3, <1>4, <1>5, <1>6 DEF S, C

LEMMA BareRehashed ==
  ASSUME NEW d \in Dict, NEW b, MayGrow(d, b)
  PROVE  Rehashed(d, b, Bare(d, b), 0)
<1> DEFINE new == Bare(d, b) s == LargerSize(d, b) t == [i \in 0 .. s - 1 |-> NullEntry]
<1>1. s \in Nat \ {0} /\ LargerMax(d, b) \in Nat
  BY LargerIs, DictAssumption
<1>2. b \in DictBody(b.size)
  BY DEF MayGrow, Sized
<1>3. NullEntry \in Entry
  BY DEF NullEntry, Entry
<1>4. t \in [0 .. s - 1 -> Entry]
  BY <1>3
<1> HIDE DEF t
<1>5. /\ new \in DictBody(s) /\ new.size = s /\ new.curmax = LargerMax(d, b) /\ new.table = t
      /\ new.curlength = b.curlength /\ new.access = b.access /\ new.level = b.level
  <2>1. new = [b EXCEPT !.size = s, !.curmax = LargerMax(d, b), !.table = t]
    BY DEF Bare, t
  <2> HIDE DEF s, new
  <2> QED BY <1>1, <1>2, <1>4, <2>1 DEF DictBody
<1>6. \A x \in 0 .. s - 1 : t[x] = NullEntry
  BY DEF t
<1> HIDE DEF new, s
<1>7. \A x \in 0 .. s - 1 : /\ new.table[x].klevel = 0 /\ new.table[x].vlevel = 0
                           /\ new.table[x].key = NIL
  BY <1>5, <1>6 DEF NullEntry
<1>8. \A x \in 0 .. s - 1 : KeysIn(new)[x] = NIL
  BY <1>5, <1>7 DEF KeysIn
<1>9. Searchable(KeysIn(new), s)
  BY <1>8 DEF Searchable
<1>10. Filled(KeysIn(new), s) = {} /\ Filled(KeysIn(b), 0) = {}
  BY <1>8 DEF Filled
<1>11. \A m \in Name : (\E x \in 0 .. s - 1 : new.table[x].key = m)
                      <=> \E j \in 0 .. 0 - 1 : b.table[j].key = m
  BY <1>7, NilNot
<1>12. Rehashed(d, b, new, 0)
  BY <1>5, <1>7, <1>9, <1>10, <1>11 DEF Rehashed, s
<1> QED BY <1>12 DEF new

LEMMA FilledNext ==
  ASSUME NEW t, NEW i \in Nat
  PROVE  /\ t[i] = NIL => Filled(t, i + 1) = Filled(t, i)
         /\ t[i] # NIL => Cardinality(Filled(t, i + 1)) = Cardinality(Filled(t, i)) + 1
<1>1. 0 .. (i + 1) - 1 = (0 .. i - 1) \cup {i} /\ i \notin 0 .. i - 1
  OBVIOUS
<1>2. t[i] = NIL => Filled(t, i + 1) = Filled(t, i)
  BY <1>1 DEF Filled
<1>3. ASSUME t[i] # NIL PROVE Cardinality(Filled(t, i + 1)) = Cardinality(Filled(t, i)) + 1
  <2>1. Filled(t, i + 1) = Filled(t, i) \cup {i} /\ i \notin Filled(t, i)
    BY <1>1, <1>3 DEF Filled
  <2> QED BY <2>1, FilledFinite, FS_AddElement
<1> QED BY <1>2, <1>3

\* At most as many keys as the whole table has.
LEMMA FilledPart ==
  ASSUME NEW t, NEW s \in Nat, NEW i \in 0 .. s
  PROVE  Cardinality(Filled(t, i)) <= Cardinality(Filled(t, s))
<1>1. Filled(t, i) \subseteq Filled(t, s)
  BY DEF Filled
<1> QED BY <1>1, FilledFinite, FS_Subset

LEMMA PutInRehashed ==
  ASSUME NEW d \in Dict, NEW b, MayGrow(d, b), NEW i \in 0 .. b.size - 1,
         NEW old, Rehashed(d, b, old, i)
  PROVE  Rehashed(d, b, PutIn(old, b.table[i]), i + 1)
<1> DEFINE kv == b.table[i]
           n == kv.key
           s == old.size
           t == KeysIn(old)
           p == Place(old, n)
           new == PutIn(old, kv)
<1>1. /\ old \in DictBody(s) /\ s = LargerSize(d, b) /\ old.curmax = LargerMax(d, b)
      /\ old.curlength = b.curlength /\ old.access = b.access /\ old.level = b.level
      /\ \A x \in 0 .. s - 1 : old.table[x].klevel = 0 /\ old.table[x].vlevel = 0
      /\ Searchable(t, s)
      /\ Cardinality(Filled(t, s)) = Cardinality(Filled(KeysIn(b), i))
      /\ \A m \in Name : (\E x \in 0 .. s - 1 : old.table[x].key = m) <=> \E j \in 0 .. i - 1 : b.table[j].key = m
  BY DEF Rehashed
<1>2. /\ b \in DictBody(b.size) /\ b.size \in Nat \ {0} /\ Searchable(KeysIn(b), b.size)
      /\ Cardinality(Filled(KeysIn(b), b.size)) = b.curlength
      /\ kv.klevel = 0 /\ kv.vlevel = 0
  BY SizedLive DEF MayGrow, Sized
<1>3. kv \in Entry /\ n \in Name \cup {NIL}
  BY <1>2 DEF DictBody, Entry
<1>4. s \in Nat \ {0} /\ b.curlength \in Nat /\ b.curlength < s
  BY <1>1, LargerIs, DictAssumption
<1>5. \A j \in 0 .. b.size - 1 : KeysIn(b)[j] = b.table[j].key
  BY DEF KeysIn
<1>6. KeysIn(b)[i] = n /\ i \in Nat
  BY <1>2, <1>5
<1> HIDE DEF kv, n, s, t, p, new
<1>7. CASE n = NIL
  <2>1. new = old
    BY <1>7 DEF new, PutIn, n
  <2>2. Filled(KeysIn(b), i + 1) = Filled(KeysIn(b), i)
    BY <1>6, <1>7, FilledNext
  <2>3. \A m \in Name : (\E j \in 0 .. (i + 1) - 1 : b.table[j].key = m) <=> \E j \in 0 .. i - 1 : b.table[j].key = m
    <3>1. 0 .. (i + 1) - 1 = (0 .. i - 1) \cup {i}
      BY <1>6
    <3>2. b.table[i].key = NIL
      BY <1>7 DEF n, kv
    <3> QED BY <3>1, <3>2, NilNot
  <2>4. Rehashed(d, b, new, i + 1)
    BY <2>1, <2>2, <2>3 DEF Rehashed
  <2> QED BY <2>4 DEF new, kv
<1>8. CASE n # NIL
  <2>0. n \in Name
    BY <1>3, <1>8
  <2>1. \A j \in 0 .. i - 1 : b.table[j].key # n
    <3> SUFFICES ASSUME NEW j \in 0 .. i - 1, b.table[j].key = n PROVE FALSE
      OBVIOUS
    <3>1. j \in 0 .. b.size - 1 /\ j # i
      BY <1>2
    <3>2. KeysIn(b)[j] = n
      BY <1>5, <3>1
    <3> QED BY <1>2, <1>6, <2>0, <3>1, <3>2, Once
  <2>2. \A x \in 0 .. s - 1 : old.table[x].key # n
    BY <1>1, <2>0, <2>1
  <2>3. Cardinality(Filled(t, s)) < s
    <3>1. Cardinality(Filled(KeysIn(b), i)) <= Cardinality(Filled(KeysIn(b), b.size))
      BY <1>2, FilledPart
    <3>2. Cardinality(Filled(KeysIn(b), i)) \in Nat
      BY <1>6, FilledFinite
    <3> QED BY <1>1, <1>2, <1>4, <3>1, <3>2
  <2>4. \A x \in 0 .. s - 1 : t[x] = old.table[x].key
    BY DEF t, KeysIn, s
  <2>5. EndsAt(t, s, n, p) /\ p \in 0 .. s - 1 /\ (Known(old, n) <=> t[p] = n) /\ (~ Known(old, n) <=> t[p] = NIL)
    BY <1>1, <1>4, <2>0, <2>3, Search DEF t, s, p
  <2>6. t[p] = NIL
    BY <2>2, <2>4, <2>5
  <2>7. t \in KeyTable(s)
    <3>1. \A x \in 0 .. s - 1 : old.table[x].key \in Name \cup {NIL}
      BY <1>1 DEF DictBody, Entry
    <3> QED BY <3>1 DEF KeyTable, t, KeysIn, s
  <2> DEFINE u == [old.table EXCEPT ![p] = kv]
  <2>8. old.table \in [0 .. s - 1 -> Entry]
    BY <1>1 DEF DictBody
  <2>9. u \in [0 .. s - 1 -> Entry] /\ \A x \in 0 .. s - 1 : u[x] = IF x = p THEN kv ELSE old.table[x]
    BY <1>3, <2>5, <2>8
  <2>10. new = [old EXCEPT !.table = u]
    BY <1>8 DEF new, PutIn, n, p
  <2> HIDE DEF u
  <2>11. /\ new \in DictBody(s) /\ new.size = s /\ new.curmax = old.curmax /\ new.table = u
         /\ new.curlength = old.curlength /\ new.access = old.access /\ new.level = old.level
    BY <1>1, <2>9, <2>10 DEF DictBody
  <2>12. KeysIn(new) = [t EXCEPT ![p] = n]
    <3>1. \A x \in 0 .. s - 1 : new.table[x].key = IF x = p THEN n ELSE t[x]
      BY <2>4, <2>9, <2>11 DEF n
    <3> QED BY <2>7, <2>11, <3>1 DEF KeysIn, KeyTable
  <2>13. Searchable(KeysIn(new), s)
    <3>1. Searchable([t EXCEPT ![p] = n], s)
      BY <1>1, <1>4, <2>0, <2>5, <2>6, <2>7, InsertSearchable
    <3> QED BY <2>12, <3>1
  <2>14. Cardinality(Filled(KeysIn(new), s)) = Cardinality(Filled(KeysIn(b), i + 1))
    <3>1. Cardinality(Filled(KeysIn(new), s)) = Cardinality(Filled(t, s)) + 1
      BY <1>4, <2>0, <2>5, <2>6, <2>7, <2>12, InsertFilled
    <3>2. Cardinality(Filled(KeysIn(b), i + 1)) = Cardinality(Filled(KeysIn(b), i)) + 1
      BY <1>6, <1>8, FilledNext
    <3> QED BY <1>1, <3>1, <3>2
  <2>15. \A x \in 0 .. s - 1 : new.table[x].klevel = 0 /\ new.table[x].vlevel = 0
    BY <1>1, <1>2, <2>9, <2>11 DEF kv
  <2>16. \A m \in Name : (\E x \in 0 .. s - 1 : new.table[x].key = m) <=> \E j \in 0 .. (i + 1) - 1 : b.table[j].key = m
    <3>1. 0 .. (i + 1) - 1 = (0 .. i - 1) \cup {i} /\ b.table[i].key = n
      BY <1>6 DEF n, kv
    <3>2. \A x \in 0 .. s - 1 : new.table[x].key = IF x = p THEN n ELSE old.table[x].key
      BY <2>9, <2>11 DEF n
    <3>3. old.table[p].key = NIL
      BY <2>4, <2>5, <2>6
    <3> QED BY <1>1, <2>5, <3>1, <3>2, <3>3, NilNot
  <2>17. Rehashed(d, b, new, i + 1)
    BY <1>1, <2>11, <2>13, <2>14, <2>15, <2>16 DEF Rehashed
  <2> QED BY <2>17 DEF new, kv
<1> QED BY <1>7, <1>8

-----------------------------------------------------------------------------
(* The larger table in its place, and the bindings with it.                 *)

\* The table at the end.
Regrown(d, b, new) == Rehashed(d, b, new, b.size)

LEMMA GrownTable ==
  ASSUME NEW d \in Dict, NEW b, MayGrow(d, b), NEW f, Grows(f, d, b, b.size)
  PROVE  Regrown(d, b, f[b.size])
<1> DEFINE s == b.size S == {i \in Nat : i <= s => Rehashed(d, b, f[i], i)}
<1>1. s \in Nat
  BY SizedLive DEF MayGrow
<1>2. 0 \in S
  <2>1. f[0] = Bare(d, b)
    BY <1>1 DEF Grows
  <2> QED BY <2>1, BareRehashed
<1>3. ASSUME NEW i \in Nat, i \in S PROVE i + 1 \in S
  <2>1. CASE i + 1 <= s
    <3>1. i \in 0 .. s - 1 /\ i + 1 \in 0 .. s /\ i + 1 # 0 /\ (i + 1) - 1 = i
      BY <1>1, <2>1
    <3>2. f[i + 1] = PutIn(f[i], b.table[i])
      BY <3>1 DEF Grows
    <3>3. Rehashed(d, b, f[i], i)
      <4>1. i <= s => Rehashed(d, b, f[i], i)
        BY <1>3
      <4>2. i <= s
        BY <1>1, <2>1
      <4> QED BY <4>1, <4>2
    <3>4. Rehashed(d, b, PutIn(f[i], b.table[i]), i + 1)
      BY <3>1, <3>3, PutInRehashed
    <3> QED BY <3>2, <3>4
  <2>2. CASE ~ (i + 1 <= s)
    BY <2>2
  <2> QED BY <2>1, <2>2
<1> HIDE DEF S
<1>4. Nat \subseteq S
  BY <1>2, <1>3, SetInduction
<1>5. s \in S
  BY <1>1, <1>4
<1> QED BY <1>1, <1>5 DEF S, Regrown

\* The heap with a larger d.
Larger(h, d, new) ==
  [h EXCEPT !.body[d] = new,
            !.cache = [n \in Name |-> IF @[n].dict = d
                                      THEN [@[n] EXCEPT !.loc = Place(new, n)] ELSE @[n]]]

LEMMA ExpandedIs ==
  ASSUME NEW h, NEW d \in Dict, MayGrow(d, h.body[d])
  PROVE  \E new : Regrown(d, h.body[d], new) /\ Expanded(h, d) = Larger(h, d, new)
<1> DEFINE b == h.body[d]
           size == Least(MaxLen[d] + MaxLen[d] \div 4, b.size * 2)
           bare == [b EXCEPT !.size = size, !.curmax = Least(MaxLen[d], b.curmax * 2),
                        !.table = [i \in 0 .. size - 1 |->
                                     [key |-> NIL, klevel |-> 0, value |-> NIL, vlevel |-> 0]]]
           grown == CHOOSE f : f = [i \in 0 .. b.size |->
             IF i = 0 THEN bare
             ELSE LET kv == b.table[i - 1] IN
                  IF kv.key = NIL THEN f[i - 1]
                  ELSE LET at == Place(f[i - 1], kv.key) IN
                       [f[i - 1] EXCEPT !.table = [@ EXCEPT ![at] = kv]]]
<1>1. bare = Bare(d, b)
  BY DEF Bare, LargerSize, LargerMax, NullEntry
<1>2. Expanded(h, d) = Larger(h, d, grown[b.size])
  BY DEF Expanded, Larger
<1>3. b.size \in Nat
  BY SizedLive DEF MayGrow
<1>4. \E f : Grows(f, d, b, b.size)
  BY <1>3, GrowsExists
<1>5. Grows(grown, d, b, b.size)
  <2> HIDE DEF bare
  <2>1. \A f : Grows(f, d, b, b.size) <=> f = [i \in 0 .. b.size |->
             IF i = 0 THEN bare
             ELSE LET kv == b.table[i - 1] IN
                  IF kv.key = NIL THEN f[i - 1]
                  ELSE LET at == Place(f[i - 1], kv.key) IN
                       [f[i - 1] EXCEPT !.table = [@ EXCEPT ![at] = kv]]]
    BY <1>1 DEF Grows, PutIn
  <2>2. \E f : f = [i \in 0 .. b.size |->
             IF i = 0 THEN bare
             ELSE LET kv == b.table[i - 1] IN
                  IF kv.key = NIL THEN f[i - 1]
                  ELSE LET at == Place(f[i - 1], kv.key) IN
                       [f[i - 1] EXCEPT !.table = [@ EXCEPT ![at] = kv]]]
    BY <1>4, <2>1
  <2>3. grown = [i \in 0 .. b.size |->
             IF i = 0 THEN bare
             ELSE LET kv == b.table[i - 1] IN
                  IF kv.key = NIL THEN grown[i - 1]
                  ELSE LET at == Place(grown[i - 1], kv.key) IN
                       [grown[i - 1] EXCEPT !.table = [@ EXCEPT ![at] = kv]]]
    BY <2>2
  <2> HIDE DEF grown
  <2> QED BY <2>1, <2>3
<1> HIDE DEF grown
<1>6. Regrown(d, b, grown[b.size])
  BY <1>5, GrownTable
<1> QED BY <1>2, <1>6

LEMMA FullMayGrow ==
  ASSUME level \in Nat, NEW h, HeapOK(h), NEW d \in Dict, h.body[d] # NIL,
         Full(h.body[d]), h.body[d].curlength < MaxLen[d]
  PROVE  MayGrow(d, h.body[d]) /\ d \in Shared
<1> DEFINE b == h.body[d]
<1>1. Formed(h) /\ NowGood(h) /\ Typed(h) /\ Sized(d, b) /\ Logged(h, d)
  BY DEF HeapOK, Formed
<1>2. KeysNow(h, d) = KeysIn(b)
  BY DEF KeysNow, KeysIn
<1>3. Searchable(KeysIn(b), b.size) /\ Cardinality(Filled(KeysIn(b), b.size)) = b.curlength
  BY <1>1, <1>2, TableGood
<1>4. d \in Shared
  <2>1. b.curlength \in Nat /\ b.curmax \in Nat /\ MaxLen[d] \in Nat
    BY <1>1, DictAssumption DEF Sized, DictBody
  <2>2. b.curmax <= b.curlength
    BY <2>1 DEF Full
  <2>3. b.curmax # MaxLen[d]
    BY <2>1, <2>2
  <2> QED BY <1>1, <2>3 DEF Sized
<1>5. ASSUME NEW i \in 0 .. b.size - 1 PROVE b.table[i].klevel = 0 /\ b.table[i].vlevel = 0
  <2>1. DOMAIN Log(h.sr, "keys", <<d, i>>) = {} /\ DOMAIN Log(h.sr, "values", <<d, i>>) = {}
    BY <1>1, <1>4, SharedUnlogged
  <2>2. /\ Chain(Log(h.sr, "keys", <<d, i>>), "klevel", b.table[i].klevel, birth[d])
        /\ Chain(Log(h.sr, "values", <<d, i>>), "vlevel", b.table[i].vlevel, birth[d])
        /\ birth[d] = 0
    BY <1>1, <1>4 DEF Logged
  <2> QED BY <2>1, <2>2 DEF Chain
<1> QED BY <1>1, <1>3, <1>4, <1>5 DEF MayGrow

\* A shared dictionary is replaced by a larger one with the same keys.
LEMMA LargerGood ==
  ASSUME level \in Nat, NEW h, HeapOK(h), NEW d \in Shared, h.body[d] # NIL,
         MayGrow(d, h.body[d]), NEW new, Regrown(d, h.body[d], new),
         NEW g, g = Larger(h, d, new)
  PROVE  /\ HeapOK(g) /\ Same(h, g)
         /\ \A m \in Name : g.cache[m].dict = h.cache[m].dict /\ g.cache[m].ts = h.cache[m].ts
         /\ g.body[d] # NIL /\ g.body[d].curlength = h.body[d].curlength
         /\ g.body[d].access = h.body[d].access
         /\ ~ Full(g.body[d])
<1> DEFINE b == h.body[d]
<1>0. d \in Dict
  BY DictAssumption
<1>1. Formed(h) /\ NowGood(h) /\ PastGood(h) /\ CacheOK(h) /\ VecOK(h) /\ Typed(h) /\ Logged(h, d) /\ Recording(h)
  BY <1>0 DEF HeapOK, Formed
<1>2. /\ LargerSize(d, b) \in 1 .. 2 * MaxLen[d] /\ LargerMax(d, b) \in CurMax[d] .. MaxLen[d]
      /\ b.curlength \in Nat /\ b.curlength < LargerMax(d, b) /\ LargerMax(d, b) < LargerSize(d, b)
      /\ Cardinality(Filled(KeysIn(b), b.size)) = b.curlength
      /\ CurMax[d] \in Nat /\ MaxLen[d] \in Nat
  <2>1. MayGrow(d, b)
    OBVIOUS
  <2>2. /\ LargerSize(d, b) \in 1 .. 2 * MaxLen[d] /\ LargerMax(d, b) \in CurMax[d] .. MaxLen[d]
        /\ b.curlength \in Nat /\ b.curlength < LargerMax(d, b) /\ LargerMax(d, b) < LargerSize(d, b)
    <3> HIDE DEF b
    <3> QED BY <1>0, <2>1, LargerIs
  <2>3. Cardinality(Filled(KeysIn(b), b.size)) = b.curlength
    BY <2>1 DEF MayGrow
  <2> QED BY <1>0, <2>2, <2>3, DictAssumption
<1>3. /\ new \in DictBody(new.size) /\ new.size = LargerSize(d, b) /\ new.curmax = LargerMax(d, b)
      /\ new.curlength = b.curlength /\ new.access = b.access /\ new.level = b.level
      /\ \A x \in 0 .. new.size - 1 : new.table[x].klevel = 0 /\ new.table[x].vlevel = 0
      /\ Searchable(KeysIn(new), new.size)
      /\ Cardinality(Filled(KeysIn(new), new.size)) = b.curlength
      /\ \A m \in Name : (\E x \in 0 .. new.size - 1 : new.table[x].key = m)
                         <=> \E j \in 0 .. b.size - 1 : b.table[j].key = m
  BY <1>2 DEF Regrown, Rehashed
<1>4. Sized(d, new)
  BY <1>2, <1>3 DEF Sized
<1>5. new # NIL /\ new.size \in Nat \ {0}
  BY <1>0, <1>4, SizedLive
<1>6. \A n \in Name : Place(new, n) \in 0 .. new.size - 1
        /\ ((\E x \in 0 .. new.size - 1 : new.table[x].key = n) => new.table[Place(new, n)].key = n)
  <2> SUFFICES ASSUME NEW n \in Name
               PROVE  Place(new, n) \in 0 .. new.size - 1
                      /\ ((\E x \in 0 .. new.size - 1 : new.table[x].key = n) => new.table[Place(new, n)].key = n)
    OBVIOUS
  <2> DEFINE s == new.size t == KeysIn(new)
  <2>1. Cardinality(Filled(t, s)) < s /\ s \in Nat \ {0} /\ Searchable(t, s)
    BY <1>2, <1>3, <1>5
  <2> HIDE DEF s, t
  <2>2. /\ Place(new, n) \in 0 .. s - 1
        /\ Known(new, n) <=> \E i \in 0 .. s - 1 : t[i] = n
        /\ Known(new, n) <=> t[Place(new, n)] = n
    BY <2>1, Search DEF s, t
  <2>3. \A x \in 0 .. s - 1 : t[x] = new.table[x].key
    BY DEF s, t, KeysIn
  <2> QED BY <2>2, <2>3 DEF s
<1>7. /\ g = [body |-> g.body, cache |-> g.cache, sr |-> g.sr] /\ g.sr = h.sr
      /\ DOMAIN g.body = Dict /\ IsFcn(g.body)
      /\ \A x \in Dict : g.body[x] = IF x = d THEN new ELSE h.body[x]
  BY <1>0, <1>1 DEF Typed, Larger, IsFcn
<1>8. g.cache = [n \in Name |-> IF h.cache[n].dict = d
                                THEN [h.cache[n] EXCEPT !.loc = Place(new, n)] ELSE h.cache[n]]
  BY <1>1 DEF Typed, Larger
<1>9. \A n \in Name : /\ g.cache[n] \in Binding
                     /\ g.cache[n].dict = h.cache[n].dict /\ g.cache[n].ts = h.cache[n].ts
                     /\ g.cache[n].vec = h.cache[n].vec
                     /\ g.cache[n].loc = IF h.cache[n].dict = d THEN Place(new, n) ELSE h.cache[n].loc
  <2> SUFFICES ASSUME NEW n \in Name
      PROVE  /\ g.cache[n] \in Binding
             /\ g.cache[n].dict = h.cache[n].dict /\ g.cache[n].ts = h.cache[n].ts
             /\ g.cache[n].vec = h.cache[n].vec
             /\ g.cache[n].loc = IF h.cache[n].dict = d THEN Place(new, n) ELSE h.cache[n].loc
    OBVIOUS
  <2>1. h.cache[n] \in Binding
    BY <1>1, BindingIs
  <2>2. Place(new, n) \in Nat
    BY <1>5, <1>6
  <2>3. g.cache[n] = IF h.cache[n].dict = d
                     THEN [h.cache[n] EXCEPT !.loc = Place(new, n)] ELSE h.cache[n]
    BY <1>8
  <2> QED BY <2>1, <2>2, <2>3 DEF Binding
<1>10. Typed(g)
  <2>1. g.cache \in [Name -> Binding]
    <3>1. DOMAIN g.cache = Name /\ IsFcn(g.cache)
      BY <1>8 DEF IsFcn
    <3> QED BY <1>9, <3>1 DEF IsFcn
  <2> QED BY <1>1, <1>7, <2>1 DEF Typed
<1>11. g.body[d] = new /\ \A x \in Dict : x # d => g.body[x] = h.body[x]
  BY <1>0, <1>7
<1>12. Logged(g, d)
  <2>1. /\ birth[d] \in 0 .. level /\ b.level <= level /\ birth[d] = 0
        /\ Chain(Log(h.sr, "dbs", d), "level", b.level, birth[d])
    BY <1>1 DEF Logged
  <2>2. ASSUME NEW i \in 0 .. new.size - 1
        PROVE  /\ Chain(Log(h.sr, "keys", <<d, i>>), "klevel", 0, 0)
               /\ Chain(Log(h.sr, "values", <<d, i>>), "vlevel", 0, 0)
    <3>1. DOMAIN Log(h.sr, "keys", <<d, i>>) = {} /\ DOMAIN Log(h.sr, "values", <<d, i>>) = {}
      BY <1>1, SharedUnlogged
    <3> QED BY <3>1, NoChain
  <2> QED BY <1>3, <1>7, <1>11, <2>1, <2>2 DEF Logged
<1>13. ASSUME NEW x \in Dict, x # d, h.body[x] # NIL PROVE Sized(x, g.body[x]) /\ Logged(g, x)
  <2>1. Sized(x, h.body[x]) /\ Logged(h, x) /\ g.body[x] = h.body[x]
    BY <1>1, <1>11, <1>13 DEF Formed
  <2> QED BY <1>7, <2>1 DEF Logged
<1>14. Recording(g)
  <2> SUFFICES ASSUME NEW l \in 1 .. level
        PROVE /\ \A p \in DOMAIN h.sr[l].keys \cup DOMAIN h.sr[l].values :
                   g.body[p[1]] # NIL /\ p[2] \in 0 .. g.body[p[1]].size - 1
              /\ \A x \in DOMAIN h.sr[l].dbs : g.body[x] # NIL
    BY <1>7 DEF Recording
  <2>1. Undo(h.sr[l]) /\ "keys" \in Kinds /\ "values" \in Kinds /\ "dbs" \in Kinds
    BY <1>1 DEF Typed, Kinds
  <2>2. /\ DOMAIN h.sr[l].keys \subseteq (Dict \ Shared) \X Nat
        /\ DOMAIN h.sr[l].values \subseteq (Dict \ Shared) \X Nat
        /\ DOMAIN h.sr[l].dbs \subseteq Dict \ Shared
    BY <2>1 DEF Undo, PlacesOf
  <2>3. ASSUME NEW p \in DOMAIN h.sr[l].keys \cup DOMAIN h.sr[l].values
        PROVE  g.body[p[1]] # NIL /\ p[2] \in 0 .. g.body[p[1]].size - 1
    <3>1. p[1] \in Dict \ Shared
      BY <2>2
    <3>2. h.body[p[1]] # NIL /\ p[2] \in 0 .. h.body[p[1]].size - 1
      BY <1>1 DEF Recording
    <3> QED BY <1>11, <3>1, <3>2
  <2>4. ASSUME NEW x \in DOMAIN h.sr[l].dbs PROVE g.body[x] # NIL
    <3>1. x \in Dict \ Shared
      BY <2>2
    <3>2. h.body[x] # NIL
      BY <1>1 DEF Recording
    <3> QED BY <1>11, <3>1, <3>2
  <2> QED BY <2>3, <2>4
<1>15. Formed(g)
  <2>1. \A x \in Dict : g.body[x] # NIL => Sized(x, g.body[x]) /\ Logged(g, x)
    BY <1>4, <1>11, <1>12, <1>13
  <2> QED BY <1>10, <1>14, <2>1 DEF Formed
<1>16. Kept(h, g)
  <2>1. ASSUME NEW x \in Dict, x \notin Shared, NEW k
        PROVE  /\ HeaderAt(g, x, k) = HeaderAt(h, x, k)
               /\ \A j : KeyAt(g, x, j, k) = KeyAt(h, x, j, k) /\ ValueAt(g, x, j, k) = ValueAt(h, x, j, k)
    <3>1. g.body[x] = h.body[x]
      BY <1>11, <2>1
    <3> QED BY <1>7, <3>1 DEF HeaderAt, KeyAt, ValueAt
  <2> QED BY <1>5, <1>11, <2>1 DEF Kept
<1>17. PastGood(g)
  BY <1>1, <1>16, PastStays
<1>18. NowGood(g)
  <2> SUFFICES ASSUME NEW x \in Dict, g.body[x] # NIL
               PROVE  Good(KeysNow(g, x), g.body[x].size, g.body[x].curlength)
    BY DEF NowGood
  <2>1. CASE x = d
    <3>1. KeysNow(g, d) = KeysIn(new)
      BY <1>11 DEF KeysNow, KeysIn
    <3> QED BY <1>3, <1>11, <2>1, <3>1 DEF Good
  <2>2. CASE x # d
    <3>1. KeysNow(g, x) = KeysNow(h, x) /\ g.body[x] = h.body[x]
      BY <1>11, <2>2 DEF KeysNow
    <3> QED BY <1>1, <3>1 DEF NowGood
  <2> QED BY <2>1, <2>2
<1>19. \A x \in Dict, m \in Name : Has(g, x, m) <=> Has(h, x, m)
  <2> SUFFICES ASSUME NEW x \in Dict, NEW m \in Name PROVE Has(g, x, m) <=> Has(h, x, m)
    OBVIOUS
  <2>1. CASE x = d
    BY <1>3, <1>11, <2>1 DEF Has
  <2>2. CASE x # d
    BY <1>11, <2>2 DEF Has
  <2> QED BY <2>1, <2>2
<1>20. CacheOK(g)
  <2> SUFFICES ASSUME NEW m \in Name, g.cache[m].dict # NIL
               PROVE  /\ g.body[g.cache[m].dict] # NIL
                      /\ g.cache[m].loc \in 0 .. g.body[g.cache[m].dict].size - 1
                      /\ g.body[g.cache[m].dict].table[g.cache[m].loc].key = m
    BY DEF CacheOK
  <2> DEFINE x == h.cache[m].dict l == h.cache[m].loc
  <2>1. x \in Dict /\ g.cache[m].dict = x
    BY <1>1, <1>9, BindingIs
  <2>2. h.body[x] # NIL /\ l \in 0 .. h.body[x].size - 1 /\ h.body[x].table[l].key = m
    BY <1>1, <1>9 DEF CacheOK
  <2>3. CASE x = d
    <3>1. Has(h, d, m)
      BY <2>2, <2>3 DEF Has
    <3>2. Has(g, d, m)
      BY <1>0, <1>19, <3>1
    <3>3. new.table[Place(new, m)].key = m
      BY <1>6, <1>11, <3>2 DEF Has
    <3>4. g.cache[m].loc = Place(new, m)
      BY <1>9, <2>3
    <3> QED BY <1>5, <1>6, <1>11, <2>1, <2>3, <3>3, <3>4
  <2>4. CASE x # d
    <3>1. g.cache[m].loc = l
      BY <1>9, <2>4
    <3> HIDE DEF x, l
    <3> QED BY <1>11, <2>1, <2>2, <2>4, <3>1
  <2> QED BY <2>3, <2>4
<1>21. VecOK(g)
  <2>1. ASSUME NEW x \in Dict, NEW m \in Name, Seen(g, x, m) PROVE Seen(h, x, m)
    <3>1. CASE g.body[x] # NIL /\ \E j \in 0 .. g.body[x].size - 1 : g.body[x].table[j].key = m
      <4>1. Has(g, x, m)
        BY <3>1 DEF Has
      <4>2. Has(h, x, m) /\ h.body[x] # NIL
        BY <1>11, <1>19, <3>1, <4>1
      <4> QED BY <4>2 DEF Has, Seen
    <3>2. CASE \E l \in 1 .. level : \E p \in DOMAIN g.sr[l].keys : p[1] = x /\ g.sr[l].keys[p].key = m
      BY <1>7, <3>2 DEF Seen
    <3> QED BY <2>1, <3>1, <3>2 DEF Seen
  <2> QED BY <1>1, <1>9, <2>1 DEF VecOK
<1>22. ~ Full(g.body[d])
  <2>1. g.body[d].curmax = LargerMax(d, b) /\ g.body[d].curlength = b.curlength
    BY <1>3, <1>11
  <2> HIDE DEF b
  <2> QED BY <1>2, <2>1 DEF Full
<1> QED BY <1>3, <1>5, <1>9, <1>11, <1>15, <1>16, <1>17, <1>18, <1>19, <1>20, <1>21, <1>22 DEF HeapOK, Same

LEMMA ExpandedGood ==
  ASSUME level \in Nat, NEW h, HeapOK(h), NEW d \in Dict, h.body[d] # NIL,
         Full(h.body[d]), h.body[d].curlength < MaxLen[d], NEW g, g = Expanded(h, d)
  PROVE  /\ HeapOK(g) /\ Same(h, g)
         /\ \A m \in Name : g.cache[m].dict = h.cache[m].dict /\ g.cache[m].ts = h.cache[m].ts
         /\ g.body[d] # NIL /\ g.body[d].curlength = h.body[d].curlength
         /\ g.body[d].access = h.body[d].access
         /\ ~ Full(g.body[d])
<1>1. MayGrow(d, h.body[d]) /\ d \in Shared
  BY FullMayGrow
<1>2. PICK new : Regrown(d, h.body[d], new) /\ g = Larger(h, d, new)
  BY <1>1, ExpandedIs
<1> QED BY <1>1, <1>2, LargerGood

-----------------------------------------------------------------------------
(* PutInDict.                                                               *)

\* n is in d, and the cache tells who may say so.
PutDone(h, g, c, d, n, top) ==
  /\ HeapOK(g) /\ Kept(h, g)
  /\ \A x \in Dict, m \in Name : Has(g, x, m) <=> Has(h, x, m) \/ (x = d /\ m = n)
  /\ \A m \in Name : m # n => g.cache[m].dict = h.cache[m].dict /\ g.cache[m].ts = h.cache[m].ts
  /\ g.cache[n].dict = d
  /\ \/ g.cache[n].ts = NIL
     \/ h.cache[n].dict = d /\ g.cache[n].ts = h.cache[n].ts
     \/ top /\ g.cache[n].ts = stamp(c)

LEMMA CachedHas ==
  ASSUME NEW h, HeapOK(h), NEW n \in Name, h.cache[n].dict # NIL
  PROVE  /\ h.cache[n].dict \in Dict /\ h.body[h.cache[n].dict] # NIL
         /\ h.cache[n].loc \in 0 .. h.body[h.cache[n].dict].size - 1
         /\ h.body[h.cache[n].dict].table[h.cache[n].loc].key = n
         /\ Has(h, h.cache[n].dict, n)
<1>1. CacheOK(h) /\ Typed(h)
  BY DEF HeapOK, Formed
<1>2. h.cache[n].dict \in Dict
  BY <1>1, BindingIs
<1>3. /\ h.body[h.cache[n].dict] # NIL
      /\ h.cache[n].loc \in 0 .. h.body[h.cache[n].dict].size - 1
      /\ h.body[h.cache[n].dict].table[h.cache[n].loc].key = n
  BY <1>1 DEF CacheOK
<1> QED BY <1>2, <1>3 DEF Has

LEMMA PutInDictGood ==
  ASSUME level \in Nat, NEW h, HeapOK(h), NEW d \in Dict, h.body[d] # NIL, NEW n \in Name,
         CanPut(h, d, n), NEW v \in Value, NEW c \in Context, gen[c] \in Nat, NEW top
  PROVE  PutDone(h, PutInDict(h, c, d, n, v, top), c, d, n, top)
<1> DEFINE g == PutInDict(h, c, d, n, v, top)
<1>0. Formed(h) /\ NowGood(h) /\ Sized(d, h.body[d])
  BY DEF HeapOK, Formed
<1>1. CASE h.cache[n].dict = d
  <2> DEFINE f == PutValue(h, d, h.cache[n].loc, v)
  <2>1. h.cache[n].loc \in 0 .. h.body[d].size - 1 /\ Has(h, d, n)
    BY <1>1, NilNot, CachedHas
  <2>2. HeapOK(f) /\ Same(h, f) /\ f.cache = h.cache
    BY <2>1, ValuePut
  <2>3. g = Restamped(f, h, c, d, n, top)
    BY <1>1 DEF PutInDict, Restamped
  <2> HIDE DEF f, g
  <2>4. /\ HeapOK(g) /\ Same(f, g)
        /\ \A m \in Name : m # n => g.cache[m] = f.cache[m]
        /\ g.cache[n].dict = f.cache[n].dict
        /\ g.cache[n].ts = f.cache[n].ts \/ (top /\ g.cache[n].ts = stamp(c))
    BY <2>2, <2>3, RestampedGood
  <2>5. Kept(h, g)
    BY <2>2, <2>4, KeptOn DEF Same
  <2>6. \A x \in Dict, m \in Name : Has(g, x, m) <=> Has(h, x, m) \/ (x = d /\ m = n)
    BY <2>1, <2>2, <2>4 DEF Same
  <2>7. PutDone(h, g, c, d, n, top)
    BY <1>1, <2>2, <2>4, <2>5, <2>6 DEF PutDone
  <2> QED BY <2>7 DEF g
<1>2. CASE h.cache[n].dict # d /\ Known(h.body[d], n)
  <2> DEFINE f == PutValue(h, d, Place(h.body[d], n), v)
  <2>1. Place(h.body[d], n) \in 0 .. h.body[d].size - 1 /\ Has(h, d, n)
    BY <1>0, <1>2, SearchNow
  <2>2. HeapOK(f) /\ Same(h, f) /\ f.cache = h.cache
    BY <2>1, ValuePut
  <2>3. g = Bound(f, c, d, n, top)
    BY <1>2 DEF PutInDict
  <2> HIDE DEF f, g
  <2>4. AlmostOK(f, d, n) /\ Has(f, d, n) /\ f.body[d] # NIL
    BY <2>1, <2>2, AlmostIs DEF Same, Kept
  <2>5. /\ HeapOK(g) /\ Same(f, g)
        /\ \A m \in Name : m # n => g.cache[m] = f.cache[m]
        /\ g.cache[n].dict = d
        /\ g.cache[n].ts = NIL \/ (top /\ g.cache[n].ts = stamp(c))
    BY <2>3, <2>4, BoundGood
  <2>6. Kept(h, g)
    BY <2>2, <2>5, KeptOn DEF Same
  <2>7. \A x \in Dict, m \in Name : Has(g, x, m) <=> Has(h, x, m) \/ (x = d /\ m = n)
    BY <2>1, <2>2, <2>5 DEF Same
  <2>8. PutDone(h, g, c, d, n, top)
    BY <2>2, <2>5, <2>6, <2>7 DEF PutDone
  <2> QED BY <2>8 DEF g
<1>3. CASE h.cache[n].dict # d /\ ~ Known(h.body[d], n)
  <2> DEFINE e == IF Full(h.body[d]) THEN Expanded(h, d) ELSE h
             f == InsertedIn(e, d, n, v)
  <2>1. h.body[d].curlength < MaxLen[d]
    BY <1>3 DEF CanPut
  <2>2. /\ HeapOK(e) /\ Same(h, e)
        /\ \A m \in Name : e.cache[m].dict = h.cache[m].dict /\ e.cache[m].ts = h.cache[m].ts
        /\ e.body[d] # NIL /\ ~ Full(e.body[d])
    <3>1. CASE Full(h.body[d])
      <4>1. e = Expanded(h, d)
        BY <3>1
      <4> HIDE DEF e
      <4> QED BY <2>1, <3>1, <4>1, ExpandedGood
    <3>2. CASE ~ Full(h.body[d])
      <4>1. e = h
        BY <3>2
      <4> QED BY <3>2, <4>1, KeptStays DEF Same
    <3> QED BY <3>1, <3>2
  <2>3. g = Bound(f, c, d, n, top)
    <3>1. f = Inserted(h, d, n, v)
      BY DEF Inserted, InsertedIn
    <3> HIDE DEF f
    <3> QED BY <1>3, <3>1 DEF PutInDict
  <2> HIDE DEF e
  <2>4. ~ Has(h, d, n)
    BY <1>0, <1>3, SearchNow
  <2>5. ~ Known(e.body[d], n)
    <3>1. Formed(e) /\ NowGood(e) /\ ~ Has(e, d, n)
      BY <2>2, <2>4 DEF HeapOK, Same
    <3> QED BY <2>2, <3>1, SearchNow
  <2>6. AlmostOK(f, d, n) /\ Added(e, f, d, n)
    BY <2>2, <2>5, InsertGood
  <2> HIDE DEF f, g
  <2>7. /\ Kept(e, f) /\ f.cache = e.cache
        /\ \A x \in Dict, m \in Name : Has(f, x, m) <=> Has(e, x, m) \/ (x = d /\ m = n)
    BY <2>6 DEF Added
  <2>8. Has(f, d, n) /\ f.body[d] # NIL
    BY <2>2, <2>7 DEF Kept
  <2>9. /\ HeapOK(g) /\ Same(f, g)
        /\ \A m \in Name : m # n => g.cache[m] = f.cache[m]
        /\ g.cache[n].dict = d
        /\ g.cache[n].ts = NIL \/ (top /\ g.cache[n].ts = stamp(c))
    BY <2>3, <2>6, <2>8, BoundGood
  <2>10. Kept(h, g)
    <3>1. Kept(h, f)
      BY <2>2, <2>7, KeptOn DEF Same
    <3> QED BY <2>9, <3>1, KeptOn DEF Same
  <2>11. \A x \in Dict, m \in Name : Has(g, x, m) <=> Has(h, x, m) \/ (x = d /\ m = n)
    BY <2>2, <2>7, <2>9 DEF Same
  <2>12. PutDone(h, g, c, d, n, top)
    BY <2>2, <2>7, <2>9, <2>10, <2>11 DEF PutDone
  <2> QED BY <2>12 DEF g
<1> QED BY <1>1, <1>2, <1>3

-----------------------------------------------------------------------------
(* Looking up: what trytoload finds and what it leaves.                     *)

LEMMA Greatest ==
  ASSUME NEW N \in Nat, NEW T, T \subseteq 1 .. N, T # {}
  PROVE  \E i \in T : \A j \in T : j <= i
<1> DEFINE S == {N - i : i \in T}
<1>1. S \subseteq Nat /\ S # {}
  <2>1. S \subseteq Nat
    OBVIOUS
  <2>2. PICK i \in T : TRUE
    OBVIOUS
  <2>3. N - i \in S
    OBVIOUS
  <2> QED BY <2>1, <2>3
<1>2. PICK x \in S : \A y \in S : x <= y
  <2> HIDE DEF S
  <2> QED BY <1>1, Least1
<1>3. PICK i \in T : x = N - i
  BY <1>2
<1>4. ASSUME NEW j \in T PROVE j <= i
  <2>1. N - j \in S
    OBVIOUS
  <2>2. N - i <= N - j
    BY <1>2, <1>3, <2>1
  <2> QED BY <2>2
<1> QED BY <1>4

\* A dictionary stack on which every dictionary is there.
StackOf(h, c) == dstack[c] \in Seq(Dict) /\ \A i \in DOMAIN dstack[c] : h.body[dstack[c][i]] # NIL

\* The topmost dictionary of c that has n.
TopHas(h, c, n, d) ==
  \E i \in DOMAIN dstack[c] :
    /\ dstack[c][i] = d /\ Has(h, d, n)
    /\ \A j \in DOMAIN dstack[c] : i < j => ~ Has(h, dstack[c][j], n)

Hits(h, c, n) == {i \in DOMAIN dstack[c] : Has(h, dstack[c][i], n)}
Uppermost(h, c, n) ==
  IF Hits(h, c, n) = {} THEN NIL
  ELSE dstack[c][CHOOSE i \in Hits(h, c, n) : \A j \in Hits(h, c, n) : j <= i]

LEMMA StopsAtIs ==
  ASSUME NEW h, HeapOK(h), NEW c, StackOf(h, c), NEW n \in Name
  PROVE  StopsAt(h, c, n) = Uppermost(h, c, n)
<1>1. Formed(h) /\ NowGood(h) /\ VecOK(h)
  BY DEF HeapOK
<1>2. ASSUME NEW i \in DOMAIN dstack[c]
      PROVE  Has(h, dstack[c][i], n)
             <=> MayHold(h, dstack[c][i], n) /\ (h.cache[n].dict = dstack[c][i] \/ Known(h.body[dstack[c][i]], n))
  <2> DEFINE d == dstack[c][i]
  <2>1. d \in Dict /\ h.body[d] # NIL
    BY DEF StackOf
  <2> HIDE DEF d
  <2>2. Known(h.body[d], n) <=> Has(h, d, n)
    BY <1>1, <2>1, SearchNow
  <2>3. h.cache[n].dict = d => Has(h, d, n)
    <3>1. ASSUME h.cache[n].dict = d PROVE Has(h, d, n)
      <4>1. h.cache[n].dict # NIL
        BY <2>1, <3>1, NilNot
      <4>2. Has(h, h.cache[n].dict, n)
        BY <4>1, CachedHas
      <4> QED BY <3>1, <4>2
    <3> QED BY <3>1
  <2>4. Has(h, d, n) => MayHold(h, d, n)
    BY <1>1, <2>1 DEF VecOK, Has, Seen, MayHold
  <2>5. Has(h, d, n) <=> MayHold(h, d, n) /\ (h.cache[n].dict = d \/ Known(h.body[d], n))
    BY <2>2, <2>3, <2>4
  <2> QED BY <2>5 DEF d
<1> DEFINE H == {i \in DOMAIN dstack[c] : LET d == dstack[c][i]
                 IN MayHold(h, d, n) /\ (h.cache[n].dict = d \/ Known(h.body[d], n))}
<1>3. H = Hits(h, c, n)
  BY <1>2 DEF Hits
<1>4. StopsAt(h, c, n) = IF H = {} THEN NIL ELSE dstack[c][CHOOSE i \in H : \A j \in H : j <= i]
  BY DEF StopsAt
<1> HIDE DEF H
<1> QED BY <1>3, <1>4 DEF Uppermost

LEMMA UppermostTop ==
  ASSUME NEW h, NEW c, StackOf(h, c), NEW n \in Name
  PROVE  /\ Uppermost(h, c, n) # NIL => TopHas(h, c, n, Uppermost(h, c, n))
         /\ \A d \in Dict : TopHas(h, c, n, d) => Uppermost(h, c, n) = d
<1> DEFINE S == dstack[c] N == Len(S) H == Hits(h, c, n)
           P(i) == \A j \in H : j <= i
           t == CHOOSE i \in H : P(i)
<1>1. S \in Seq(Dict) /\ N \in Nat /\ DOMAIN S = 1 .. N
  BY DEF StackOf
<1>2. H \subseteq 1 .. N /\ \A i \in 1 .. N : i \in H <=> Has(h, S[i], n)
  BY <1>1 DEF Hits
<1>3. Uppermost(h, c, n) = IF H = {} THEN NIL ELSE S[t]
  BY DEF Uppermost
<1> HIDE DEF H
<1>4. H # {} => t \in H /\ \A j \in H : j <= t
  <2>1. H # {} => \E i \in H : P(i)
    BY <1>1, <1>2, Greatest
  <2> HIDE DEF P
  <2>2. H # {} => t \in H /\ P(t)
    BY <2>1
  <2> QED BY <2>2 DEF P
<1> HIDE DEF t, N
<1>5. ASSUME H # {} PROVE TopHas(h, c, n, S[t])
  <2>1. t \in 1 .. N /\ Has(h, S[t], n)
    BY <1>2, <1>4, <1>5
  <2>2. ASSUME NEW j \in 1 .. N, t < j PROVE ~ Has(h, S[j], n)
    BY <1>1, <1>2, <1>4, <1>5, <2>1, <2>2
  <2> QED BY <1>1, <2>1, <2>2 DEF TopHas
<1>6. ASSUME NEW d \in Dict, TopHas(h, c, n, d) PROVE Uppermost(h, c, n) = d
  <2>1. PICK i \in 1 .. N : S[i] = d /\ Has(h, d, n) /\ \A j \in 1 .. N : i < j => ~ Has(h, S[j], n)
    BY <1>1, <1>6 DEF TopHas
  <2>2. i \in H /\ \A j \in H : ~ (i < j)
    BY <1>2, <2>1
  <2>3. t = i
    <3>1. t \in H /\ i <= t
      BY <1>4, <2>2
    <3>2. t \in Nat /\ i \in Nat /\ ~ (i < t)
      BY <1>1, <1>2, <2>2, <3>1
    <3> QED BY <3>1, <3>2
  <2> QED BY <1>3, <2>1, <2>2, <2>3
<1> QED BY <1>3, <1>5, <1>6

\* What a lookup leaves.
LoadDone(h, g, c, n) ==
  /\ HeapOK(g) /\ Same(h, g) /\ g.body = h.body
  /\ \A m \in Name : m # n => g.cache[m].dict = h.cache[m].dict /\ g.cache[m].ts = h.cache[m].ts
  /\ \/ g.cache[n].dict = h.cache[n].dict /\ g.cache[n].ts = h.cache[n].ts
     \/ TopHas(h, c, n, g.cache[n].dict) /\ g.cache[n].ts = stamp(c)

LEMMA LoadedGood ==
  ASSUME level \in Nat, NEW h, HeapOK(h), NEW c \in Context, StackOf(h, c), gen[c] \in Nat, NEW n \in Name
  PROVE  LoadDone(h, Loaded(h, c, n), c, n)
<1> DEFINE g == Loaded(h, c, n)
           d == StopsAt(h, c, n)
           loc == IF h.cache[n].dict = d THEN h.cache[n].loc ELSE Place(h.body[d], n)
           e == [loc |-> loc, dict |-> d, ts |-> stamp(c), vec |-> h.cache[n].vec]
<1>1. CASE Current(h, c, n) \/ d = NIL \/ "r" \notin h.body[d].access
  <2>1. g = h
    BY <1>1 DEF Loaded
  <2> HIDE DEF g
  <2>2. LoadDone(h, g, c, n)
    BY <2>1, KeptStays DEF LoadDone, Same
  <2> QED BY <2>2 DEF g
<1>2. CASE ~ (Current(h, c, n) \/ d = NIL \/ "r" \notin h.body[d].access)
  <2>1. Formed(h) /\ NowGood(h) /\ Typed(h) /\ VecOK(h)
    BY DEF HeapOK, Formed
  <2>2. g = SetCache(h, n, e)
    <3>1. h.cache \in [Name -> Binding] /\ h = [body |-> h.body, cache |-> h.cache, sr |-> h.sr]
      BY <2>1 DEF Typed
    <3>2. g = [h EXCEPT !.cache[n] = e]
      <4> HIDE DEF d
      <4> QED BY <1>2, <3>1 DEF Loaded, d
    <3> QED BY <3>2 DEF SetCache
  <2>3. TopHas(h, c, n, d)
    BY <1>2, StopsAtIs, UppermostTop
  <2>4. d \in Dict /\ h.body[d] # NIL /\ Has(h, d, n)
    BY <2>3 DEF TopHas, StackOf
  <2> HIDE DEF d
  <2>5. loc \in 0 .. h.body[d].size - 1 /\ h.body[d].table[loc].key = n
    <3>1. h.cache[n].dict = d => h.cache[n].loc \in 0 .. h.body[d].size - 1 /\ h.body[d].table[h.cache[n].loc].key = n
      BY <2>4, NilNot, CachedHas
    <3>2. Place(h.body[d], n) \in 0 .. h.body[d].size - 1 /\ h.body[d].table[Place(h.body[d], n)].key = n
      BY <2>1, <2>4, SearchNow
    <3> QED BY <3>1, <3>2
  <2> HIDE DEF loc
  <2>6. Bit[d] \in h.cache[n].vec
    BY <2>1, <2>4 DEF VecOK, Seen, Has
  <2>7. e \in Binding
    <3>1. loc \in Nat
      BY <2>1, <2>4, <2>5, TableGood
    <3>2. h.cache[n].vec \in SUBSET {Bit[x] : x \in Dict}
      BY <2>1, BindingIs DEF Binding
    <3>3. stamp(c) \in Context \X Nat
      BY DEF stamp
    <3> QED BY <2>4, <3>1, <3>2, <3>3 DEF Binding
  <2>8. e.dict = d /\ e.loc = loc /\ e.ts = stamp(c) /\ e.vec = h.cache[n].vec
    OBVIOUS
  <2> HIDE DEF e, g
  <2>9. NewBinding(h, d, n, e)
    <3>1. RightBinding(h, n, e)
      BY <2>4, <2>5, <2>6, <2>7, <2>8 DEF RightBinding
    <3> QED BY <2>8, <3>1, AlmostIs DEF NewBinding
  <2>10. Recached(h, g, n, e)
    BY <2>2, <2>4, <2>9, RecacheGood
  <2>11. LoadDone(h, g, c, n)
    BY <2>3, <2>8, <2>10 DEF LoadDone, Recached
  <2> QED BY <2>11 DEF g
<1> QED BY <1>1, <1>2

-----------------------------------------------------------------------------
(* UnDef over the heap: the key is taken out of the table and of the cache. *)

\* The cached place of a name is changed.
SetLoc(h, n, l) == [h EXCEPT !.cache[n].loc = l]
Shifted(h, g, d, n, l) ==
  /\ Typed(g) /\ g.body = h.body /\ g.sr = h.sr
  /\ \A m \in Name : /\ g.cache[m].dict = h.cache[m].dict /\ g.cache[m].ts = h.cache[m].ts
                     /\ g.cache[m].vec = h.cache[m].vec
                     /\ g.cache[m].loc = IF m = n /\ h.cache[n].dict = d THEN l ELSE h.cache[m].loc

LEMMA LocSet ==
  ASSUME NEW h, Typed(h), NEW n \in Name, NEW l \in Nat, NEW g, g = SetLoc(h, n, l)
  PROVE  Shifted(h, g, h.cache[n].dict, n, l)
<1> DEFINE o == h.cache[n]
           e == [loc |-> l, dict |-> o.dict, ts |-> o.ts, vec |-> o.vec]
<1>1. o \in Binding /\ o = [loc |-> o.loc, dict |-> o.dict, ts |-> o.ts, vec |-> o.vec]
  BY BindingIs
<1>2. g = SetCache(h, n, e)
  <2>1. h.cache \in [Name -> Binding] /\ h = [body |-> h.body, cache |-> h.cache, sr |-> h.sr]
    BY DEF Typed
  <2>2. [o EXCEPT !.loc = l] = e
    <3> HIDE DEF o
    <3> QED BY <1>1
  <2>3. g = SetCache(h, n, [o EXCEPT !.loc = l])
    BY <2>1 DEF SetCache, SetLoc
  <2> HIDE DEF e
  <2> QED BY <2>2, <2>3
<1>3. e \in Binding
  BY <1>1 DEF Binding
<1>4. e.loc = l /\ e.dict = o.dict /\ e.ts = o.ts /\ e.vec = o.vec
  OBVIOUS
<1> HIDE DEF e
<1>5. /\ Typed(g) /\ g.body = h.body /\ g.sr = h.sr
      /\ \A m \in Name : g.cache[m] = IF m = n THEN e ELSE h.cache[m]
  BY <1>2, <1>3, CacheSet
<1> QED BY <1>4, <1>5 DEF Shifted

\* d while its key n is taken out; x slots after at have been looked at.
Emptying(h, q, d, at, n, x) ==
  /\ q = [h |-> q.h, hole |-> q.hole, done |-> q.done] /\ q.done \in BOOLEAN
  /\ Formed(q.h) /\ Kept(h, q.h) /\ CacheOK(q.h) /\ VecOK(q.h)
  /\ \A y \in Dict : y # d => q.h.body[y] = h.body[y]
  /\ q.h.body[d] # NIL /\ q.h.body[d].size = h.body[d].size
  /\ q.h.body[d].curlength = h.body[d].curlength /\ q.h.body[d].access = h.body[d].access
  /\ \A m \in Name : q.h.cache[m].dict = h.cache[m].dict /\ q.h.cache[m].ts = h.cache[m].ts
  /\ \A m \in Name : Has(q.h, d, m) <=> Has(h, d, m) /\ m # n
  /\ Cardinality(Filled(KeysNow(q.h, d), h.body[d].size)) = h.body[d].curlength - 1
  /\ ~ q.done => HoleInv(KeysNow(q.h, d), h.body[d].size, at, q.hole, x)
  /\ q.done => Searchable(KeysNow(q.h, d), h.body[d].size)

\* A dictionary with a key n that no name caches there.
ToEmpty(h, d, at, n) ==
  /\ HeapOK(h) /\ h.body[d] # NIL /\ at \in 0 .. h.body[d].size - 1
  /\ h.body[d].table[at].key = n /\ h.cache[n].dict # d

Hole(h, d, i) == PutKeyVal(h, d, i, NIL, NIL)

LEMMA KeysTyped ==
  ASSUME NEW h, NEW d \in Dict, Formed(h), h.body[d] # NIL
  PROVE  /\ h.body[d].size \in Nat \ {0} /\ KeysNow(h, d) \in KeyTable(h.body[d].size)
         /\ Sized(d, h.body[d])
         /\ \A i \in 0 .. h.body[d].size - 1 : KeysNow(h, d)[i] = h.body[d].table[i].key
<1>1. Sized(d, h.body[d])
  BY DEF Formed
<1>2. h.body[d].size \in Nat \ {0}
  BY <1>1, SizedLive
<1>3. \A i \in 0 .. h.body[d].size - 1 : h.body[d].table[i].key \in Name \cup {NIL}
  BY <1>1, EntryIs
<1>4. KeysNow(h, d) \in KeyTable(h.body[d].size)
  BY <1>3 DEF KeysNow, KeyTable
<1> QED BY <1>1, <1>2, <1>4 DEF KeysNow

\* The key of a slot of d is replaced by n.
Keyed(h, g, d, i, n) ==
  /\ Formed(g) /\ Kept(h, g) /\ g.cache = h.cache
  /\ KeysPut(h, g, d, i, n) /\ g.body[d] # NIL
  /\ \A x \in Dict, m \in Name : Seen(g, x, m) => Seen(h, x, m) \/ (x = d /\ m = n)

LEMMA SlotKeyed ==
  ASSUME level \in Nat, NEW h, Formed(h), NEW d \in Dict, h.body[d] # NIL,
         NEW i \in 0 .. h.body[d].size - 1, NEW n \in Name \cup {NIL}, NEW v \in Value \cup {NIL},
         NEW g, g = PutKeyVal(h, d, i, n, v)
  PROVE  Keyed(h, g, d, i, n)
<1> DEFINE e == NewEntry(d, n, v)
<1>1. e.key = n
  BY DEF NewEntry
<1>2. SlotPut(h, g, d, i, e)
  BY PutKeyValPuts
<1>3. Sized(d, h.body[d])
  BY KeysTyped
<1> HIDE DEF e
<1>4. KeysPut(h, g, d, i, n)
  BY <1>1, <1>2, <1>3, SlotKeys
<1> QED BY <1>1, <1>2, <1>4 DEF SlotPut, Keyed

LEMMA FirstHole ==
  ASSUME level \in Nat, NEW h, NEW d \in Dict, NEW at, NEW n \in Name, ToEmpty(h, d, at, n),
         NEW q, q = [h |-> Hole(h, d, at), hole |-> at, done |-> FALSE]
  PROVE  Emptying(h, q, d, at, n, 0)
<1> DEFINE g == Hole(h, d, at)
           s == h.body[d].size
           t == KeysNow(h, d)
<1>1. /\ Formed(h) /\ NowGood(h) /\ CacheOK(h) /\ VecOK(h) /\ h.body[d] # NIL /\ at \in 0 .. s - 1
      /\ h.body[d].table[at].key = n /\ h.cache[n].dict # d /\ HeapOK(h)
  BY DEF ToEmpty, HeapOK
<1>2. /\ s \in Nat \ {0} /\ h.body[d].curlength \in Nat /\ h.body[d].curlength < s
      /\ t \in KeyTable(s) /\ Searchable(t, s) /\ Cardinality(Filled(t, s)) = h.body[d].curlength
  BY <1>1, TableGood
<1>3. \A i \in 0 .. s - 1 : t[i] = h.body[d].table[i].key
  BY <1>1, KeysTyped
<1> HIDE DEF g, s, t
<1>4. /\ Formed(g) /\ Kept(h, g) /\ g.cache = h.cache /\ KeysPut(h, g, d, at, NIL) /\ g.body[d] # NIL
      /\ \A x \in Dict, m \in Name : Seen(g, x, m) => Seen(h, x, m) \/ (x = d /\ m = NIL)
  BY <1>1, SlotKeyed DEF g, s, Hole, Keyed
<1>5. /\ \A y \in Dict : y # d => g.body[y] = h.body[y]
      /\ g.body[d].size = s /\ g.body[d].curlength = h.body[d].curlength /\ g.body[d].access = h.body[d].access
      /\ \A j \in 0 .. s - 1 : g.body[d].table[j].key = IF j = at THEN NIL ELSE h.body[d].table[j].key
      /\ KeysNow(g, d) = [t EXCEPT ![at] = NIL]
  BY <1>4 DEF KeysPut, Over, s, t
<1>6. t[at] = n /\ n # NIL
  BY <1>1, <1>3, NilNot
<1>7. PICK z \in 0 .. s - 1 : t[z] = NIL
  BY <1>2, SomeNull
<1>8. HoleInv([t EXCEPT ![at] = NIL], s, at, at, 0)
  BY <1>1, <1>2, <1>6, <1>7, HoleMade
<1>9. Cardinality(Filled([t EXCEPT ![at] = NIL], s)) = h.body[d].curlength - 1
  BY <1>1, <1>2, <1>6, EmptyFilled
<1>10. CacheOK(g)
  <2> SUFFICES ASSUME NEW m \in Name, h.cache[m].dict # NIL
               PROVE  /\ g.body[h.cache[m].dict] # NIL
                      /\ h.cache[m].loc \in 0 .. g.body[h.cache[m].dict].size - 1
                      /\ g.body[h.cache[m].dict].table[h.cache[m].loc].key = m
    BY <1>4 DEF CacheOK
  <2> DEFINE x == h.cache[m].dict l == h.cache[m].loc
  <2>1. x \in Dict /\ h.body[x] # NIL /\ l \in 0 .. h.body[x].size - 1 /\ h.body[x].table[l].key = m
    BY <1>1, CachedHas
  <2>2. x = d => m # n
    BY <1>1
  <2> HIDE DEF x, l
  <2>3. CASE x = d
    <3>1. l # at
      BY <1>1, <2>1, <2>2, <2>3
    <3> QED BY <1>4, <1>5, <2>1, <2>3, <3>1 DEF x, l, s
  <2>4. CASE x # d
    BY <1>5, <2>1, <2>4 DEF x, l
  <2> QED BY <2>3, <2>4
<1>11. VecOK(g)
  BY <1>1, <1>4, NilNot DEF VecOK
<1>12. \A m \in Name : Has(g, d, m) <=> Has(h, d, m) /\ m # n
  <2> SUFFICES ASSUME NEW m \in Name PROVE Has(g, d, m) <=> Has(h, d, m) /\ m # n
    OBVIOUS
  <2>1. Has(g, d, m) <=> \E j \in 0 .. s - 1 : g.body[d].table[j].key = m
    BY <1>5 DEF Has
  <2>2. Has(h, d, m) <=> \E j \in 0 .. s - 1 : h.body[d].table[j].key = m
    BY DEF Has, s
  <2>3. \A j \in 0 .. s - 1 : h.body[d].table[j].key = n => j = at
    BY <1>1, <1>2, <1>3, <1>6, Once
  <2> QED BY <1>1, <1>5, <2>1, <2>2, <2>3, NilNot
<1>13. /\ q.h = g /\ q.hole = at /\ q.done = FALSE
       /\ q = [h |-> q.h, hole |-> q.hole, done |-> q.done]
  BY DEF g
<1> QED BY <1>4, <1>5, <1>8, <1>9, <1>10, <1>11, <1>12, <1>13 DEF Emptying, s

\* A key is moved into the hole and leaves one.
Moved(q, d, i) == Hole(PutKeyVal(q.h, d, q.hole, q.h.body[d].table[i].key, q.h.body[d].table[i].value), d, i)
Relocated(g, d, m, l) == IF g.cache[m].dict = d THEN SetLoc(g, m, l) ELSE g

\* What the loop of UnDef does with the entry at slot i.
Looked(q, d, s, i) ==
  IF q.done \/ q.h.body[d].table[i].key = NIL THEN [q EXCEPT !.done = TRUE]
  ELSE IF ~ Passes(Home(q.h.body[d].table[i].key, s), q.hole, i) THEN q
  ELSE [h |-> Relocated(Moved(q, d, i), d, q.h.body[d].table[i].key, q.hole), hole |-> i, done |-> FALSE]

\* The key m is put at p and slot i is emptied.
PutTwo(f, f2, d, p, i, m) ==
  /\ Formed(f2) /\ Kept(f, f2) /\ f2.cache = f.cache /\ f2.body[d] # NIL
  /\ \A y \in Dict : y # d => f2.body[y] = f.body[y]
  /\ f2.body[d].size = f.body[d].size
  /\ f2.body[d].curlength = f.body[d].curlength /\ f2.body[d].access = f.body[d].access
  /\ \A j \in 0 .. f.body[d].size - 1 :
       f2.body[d].table[j].key = IF j = i THEN NIL ELSE IF j = p THEN m ELSE f.body[d].table[j].key
  /\ KeysNow(f2, d) = [KeysNow(f, d) EXCEPT ![p] = m, ![i] = NIL]
  /\ \A y \in Dict, k \in Name : Seen(f2, y, k) => Seen(f, y, k) \/ (y = d /\ k = m)

LEMMA TwoPut ==
  ASSUME level \in Nat, NEW f, Formed(f), NEW d \in Dict, f.body[d] # NIL,
         NEW p \in 0 .. f.body[d].size - 1, NEW i \in 0 .. f.body[d].size - 1,
         NEW m \in Name, NEW v \in Value \cup {NIL},
         NEW f2, f2 = Hole(PutKeyVal(f, d, p, m, v), d, i)
  PROVE  PutTwo(f, f2, d, p, i, m)
<1>0. PICK f1 : f1 = PutKeyVal(f, d, p, m, v)
  OBVIOUS
<1>1. /\ Formed(f1) /\ Kept(f, f1) /\ f1.cache = f.cache /\ KeysPut(f, f1, d, p, m) /\ f1.body[d] # NIL
      /\ \A y \in Dict, k \in Name : Seen(f1, y, k) => Seen(f, y, k) \/ (y = d /\ k = m)
  BY <1>0, SlotKeyed DEF Keyed
<1>2. f2 = PutKeyVal(f1, d, i, NIL, NIL)
  BY <1>0 DEF Hole
<1>3. f1.body[d].size = f.body[d].size
  BY <1>1 DEF KeysPut
<1>4. i \in 0 .. f1.body[d].size - 1 /\ NIL \in Name \cup {NIL} /\ NIL \in Value \cup {NIL}
  BY <1>3
<1>5. /\ Formed(f2) /\ Kept(f1, f2) /\ f2.cache = f1.cache /\ KeysPut(f1, f2, d, i, NIL) /\ f2.body[d] # NIL
      /\ \A y \in Dict, k \in Name : Seen(f2, y, k) => Seen(f1, y, k) \/ (y = d /\ k = NIL)
  <2>1. Keyed(f1, f2, d, i, NIL)
    BY <1>1, <1>2, <1>4, SlotKeyed
  <2> QED BY <2>1 DEF Keyed
<1>6. Kept(f, f2)
  BY <1>1, <1>5, KeptOn
<1>7. /\ \A y \in Dict : y # d => f2.body[y] = f.body[y]
      /\ f2.body[d].size = f.body[d].size
      /\ f2.body[d].curlength = f.body[d].curlength /\ f2.body[d].access = f.body[d].access
      /\ \A j \in 0 .. f.body[d].size - 1 :
           f2.body[d].table[j].key = IF j = i THEN NIL ELSE IF j = p THEN m ELSE f.body[d].table[j].key
  BY <1>1, <1>3, <1>5 DEF KeysPut
<1>8. KeysNow(f2, d) = [KeysNow(f, d) EXCEPT ![p] = m, ![i] = NIL]
  BY <1>1, <1>5 DEF KeysPut, Over
<1> QED BY <1>1, <1>5, <1>6, <1>7, <1>8, NilNot DEF PutTwo

LEMMA RelocatedIs ==
  ASSUME NEW f, Typed(f), NEW d, NEW m \in Name, NEW l \in Nat, NEW g, g = Relocated(f, d, m, l)
  PROVE  Shifted(f, g, d, m, l)
<1>1. CASE f.cache[m].dict = d
  <2>1. g = SetLoc(f, m, l)
    BY <1>1 DEF Relocated
  <2>2. Shifted(f, g, f.cache[m].dict, m, l)
    BY <2>1, LocSet
  <2> QED BY <1>1, <2>2
<1>2. CASE f.cache[m].dict # d
  BY <1>2 DEF Relocated, Shifted
<1> QED BY <1>1, <1>2

LEMMA MovedGood ==
  ASSUME level \in Nat, NEW h, NEW d \in Dict, NEW at \in 0 .. h.body[d].size - 1, NEW n \in Name, NEW x \in Nat,
         NEW q, Emptying(h, q, d, at, n, x), ~ q.done,
         NEW i \in 0 .. h.body[d].size - 1, From(at, i, h.body[d].size) = x + 1,
         q.h.body[d].table[i].key # NIL,
         Passes(Home(q.h.body[d].table[i].key, h.body[d].size), q.hole, i)
  PROVE  Emptying(h, Looked(q, d, h.body[d].size, i), d, at, n, x + 1)
<1> DEFINE s == h.body[d].size
           f == q.h
           t == KeysNow(f, d)
           m == f.body[d].table[i].key
           v == f.body[d].table[i].value
           p == q.hole
<1>0. PICK f2 : f2 = Moved(q, d, i)
  OBVIOUS
<1>00. PICK g : g = Relocated(f2, d, m, p)
  OBVIOUS
<1>1. /\ Formed(f) /\ Kept(h, f) /\ CacheOK(f) /\ VecOK(f)
      /\ f.body[d] # NIL /\ f.body[d].size = s
      /\ HoleInv(t, s, at, p, x)
      /\ Cardinality(Filled(t, s)) = h.body[d].curlength - 1
  BY DEF Emptying
<1>2. /\ s \in Nat \ {0} /\ t \in KeyTable(s) /\ Sized(d, f.body[d])
      /\ \A j \in 0 .. s - 1 : t[j] = f.body[d].table[j].key
  <2>1. Formed(f) /\ f.body[d] # NIL /\ f.body[d].size = s
    BY <1>1
  <2>2. t = KeysNow(f, d)
    OBVIOUS
  <2> HIDE DEF f, s, t
  <2>3. /\ f.body[d].size \in Nat \ {0} /\ KeysNow(f, d) \in KeyTable(f.body[d].size)
        /\ Sized(d, f.body[d])
        /\ \A j \in 0 .. f.body[d].size - 1 : KeysNow(f, d)[j] = f.body[d].table[j].key
    BY <2>1, KeysTyped
  <2> QED BY <2>1, <2>2, <2>3
<1>3. p \in 0 .. s - 1 /\ t[p] = NIL /\ Alone(t, s)
  BY <1>1 DEF HoleInv
<1>4. m \in Name /\ v \in Value \cup {NIL} /\ t[i] = m /\ i # p
  <2>1. i \in 0 .. f.body[d].size - 1
    BY <1>1
  <2>2. m \in Name \cup {NIL} /\ v \in Value \cup {NIL} /\ m # NIL
    BY <1>2, <2>1, EntryIs
  <2>3. t[i] = m
    BY <1>2
  <2> HIDE DEF t, m, v
  <2> QED BY <1>3, <2>2, <2>3
<1>5. Looked(q, d, s, i) = [h |-> g, hole |-> i, done |-> FALSE]
  BY <1>0, <1>00 DEF Looked
<1>6. f2 = Hole(PutKeyVal(f, d, p, m, v), d, i)
  BY <1>0 DEF Moved
<1>7. /\ HoleInv([t EXCEPT ![p] = m, ![i] = NIL], s, at, i, x + 1)
      /\ Cardinality(Filled([t EXCEPT ![p] = m, ![i] = NIL], s)) = h.body[d].curlength - 1
  <2>1. Passes(Home(m, s), p, i) /\ m # NIL /\ at \in 0 .. s - 1 /\ i \in 0 .. s - 1 /\ From(at, i, s) = x + 1
    OBVIOUS
  <2> HIDE DEF t, m, s, p
  <2>2. Passes(Home(t[i], s), p, i) /\ t[i] # NIL
    BY <2>1, <1>4
  <2>3. HoleInv([t EXCEPT ![p] = t[i], ![i] = NIL], s, at, i, x + 1)
    BY <1>1, <1>2, <2>1, <2>2, HoleMoves
  <2>4. Cardinality(Filled([t EXCEPT ![p] = t[i], ![i] = NIL], s)) = Cardinality(Filled(t, s))
    <3>1. /\ s \in Nat \ {0} /\ t \in KeyTable(s) /\ p \in 0 .. s - 1 /\ i \in 0 .. s - 1
          /\ t[p] = NIL /\ t[i] # NIL
      BY <1>2, <1>3, <2>1, <2>2
    <3> QED BY <3>1, MoveFilled
  <2> QED BY <2>3, <2>4, <1>1, <1>4
<1>8. q = [h |-> f, hole |-> p, done |-> q.done]
  BY DEF Emptying
<1> HIDE DEF s, f, t, m, v, p
<1>9. /\ p \in 0 .. f.body[d].size - 1 /\ i \in 0 .. f.body[d].size - 1
      /\ s = f.body[d].size /\ t = KeysNow(f, d)
  BY <1>1, <1>3 DEF s, t
<1>12. /\ Formed(f2) /\ Kept(f, f2) /\ f2.cache = f.cache /\ f2.body[d] # NIL
       /\ \A y \in Dict : y # d => f2.body[y] = f.body[y]
       /\ f2.body[d].size = f.body[d].size
       /\ f2.body[d].curlength = f.body[d].curlength /\ f2.body[d].access = f.body[d].access
       /\ \A j \in 0 .. f.body[d].size - 1 :
            f2.body[d].table[j].key = IF j = i THEN NIL ELSE IF j = p THEN m ELSE f.body[d].table[j].key
       /\ KeysNow(f2, d) = [KeysNow(f, d) EXCEPT ![p] = m, ![i] = NIL]
       /\ \A y \in Dict, k \in Name : Seen(f2, y, k) => Seen(f, y, k) \/ (y = d /\ k = m)
  <2>1. PutTwo(f, f2, d, p, i, m)
    BY <1>1, <1>4, <1>6, <1>9, TwoPut
  <2> QED BY <2>1 DEF PutTwo
<1>13. /\ \A y \in Dict : y # d => f2.body[y] = f.body[y]
       /\ f2.body[d].size = s /\ f2.body[d].curlength = f.body[d].curlength /\ f2.body[d].access = f.body[d].access
       /\ \A j \in 0 .. s - 1 :
            f2.body[d].table[j].key = IF j = i THEN NIL ELSE IF j = p THEN m ELSE f.body[d].table[j].key
       /\ KeysNow(f2, d) = [t EXCEPT ![p] = m, ![i] = NIL]
  BY <1>9, <1>12
<1>14. Typed(f2) /\ p \in Nat
  <2>1. Formed(f2)
    BY <1>12
  <2>2. Typed(f2)
    BY <2>1 DEF Formed
  <2>3. p \in Nat
    BY <1>2, <1>3
  <2> QED BY <2>2, <2>3
<1>15. /\ Typed(g) /\ g.body = f2.body /\ g.sr = f2.sr
       /\ \A k \in Name : /\ g.cache[k].dict = f.cache[k].dict /\ g.cache[k].ts = f.cache[k].ts
                          /\ g.cache[k].vec = f.cache[k].vec
                          /\ g.cache[k].loc = IF k = m /\ f.cache[m].dict = d THEN p ELSE f.cache[k].loc
  <2>1. g = Relocated(f2, d, m, p)
    BY <1>00
  <2>2. /\ Typed(g) /\ g.body = f2.body /\ g.sr = f2.sr
        /\ \A k \in Name : /\ g.cache[k].dict = f2.cache[k].dict /\ g.cache[k].ts = f2.cache[k].ts
                           /\ g.cache[k].vec = f2.cache[k].vec
                           /\ g.cache[k].loc = IF k = m /\ f2.cache[m].dict = d THEN p ELSE f2.cache[k].loc
    <3>1. Shifted(f2, g, d, m, p)
      BY <2>1, <1>4, <1>14, RelocatedIs
    <3> QED BY <3>1 DEF Shifted
  <2>3. f2.cache = f.cache
    BY <1>12
  <2> QED BY <2>2, <2>3
<1>16. /\ Formed(g) /\ Kept(f2, g)
       /\ \A y, k : (Seen(g, y, k) <=> Seen(f2, y, k)) /\ (Has(g, y, k) <=> Has(f2, y, k))
  BY <1>12, <1>15, SameMemory
<1>17. Kept(h, g)
  BY <1>1, <1>12, <1>16, KeptOn
<1>18. CacheOK(g)
  <2> SUFFICES ASSUME NEW k \in Name, f.cache[k].dict # NIL
               PROVE  /\ f2.body[f.cache[k].dict] # NIL
                      /\ g.cache[k].loc \in 0 .. f2.body[f.cache[k].dict].size - 1
                      /\ f2.body[f.cache[k].dict].table[g.cache[k].loc].key = k
    BY <1>15 DEF CacheOK
  <2> DEFINE y == f.cache[k].dict l == f.cache[k].loc
  <2>1. y \in Dict /\ f.body[y] # NIL /\ l \in 0 .. f.body[y].size - 1 /\ f.body[y].table[l].key = k
    <3>1. f.body[y] # NIL /\ l \in 0 .. f.body[y].size - 1 /\ f.body[y].table[l].key = k
      BY <1>1 DEF CacheOK
    <3>2. Typed(f)
      BY <1>1 DEF Formed
    <3>3. y \in Dict
      BY <3>2, BindingIs
    <3> QED BY <3>1, <3>3
  <2>2. g.cache[k].loc = IF k = m /\ f.cache[m].dict = d THEN p ELSE l
    BY <1>15
  <2> HIDE DEF y, l
  <2>3. CASE y # d
    <3>1. g.cache[k].loc = l /\ f2.body[y] = f.body[y]
      BY <2>1, <2>2, <2>3, <1>13 DEF y
    <3> QED BY <3>1, <2>1 DEF y
  <2>4. CASE y = d /\ k = m
    <3>1. g.cache[k].loc = p
      BY <2>2, <2>4 DEF y
    <3> QED BY <3>1, <2>4, <1>3, <1>4, <1>12, <1>13 DEF y
  <2>5. CASE y = d /\ k # m
    <3>1. g.cache[k].loc = l /\ l \in 0 .. s - 1
      BY <2>1, <2>2, <2>5, <1>1
    <3>2. l # i /\ l # p
      BY <3>1, <2>1, <2>5, <1>2, <1>3, <1>4, NilNot
    <3> QED BY <3>1, <3>2, <2>1, <2>5, <1>12, <1>13 DEF y
  <2> QED BY <2>3, <2>4, <2>5
<1>19. Seen(f, d, m)
  <2>1. i \in 0 .. f.body[d].size - 1
    BY <1>1 DEF s
  <2> QED BY <2>1, <1>1 DEF Seen, m
<1>20. \A y \in Dict, k \in Name : Seen(g, y, k) => Seen(f, y, k)
  BY <1>12, <1>16, <1>19
<1>21. VecOK(g)
  BY <1>1, <1>15, <1>20 DEF VecOK
<1>22. \A k \in Name : Has(g, d, k) <=> Has(f, d, k)
  <2> SUFFICES ASSUME NEW k \in Name PROVE Has(f2, d, k) <=> Has(f, d, k)
    BY <1>16
  <2>1. Has(f2, d, k) <=> \E j \in 0 .. s - 1 : f2.body[d].table[j].key = k
    BY <1>13 DEF Has
  <2>2. Has(f, d, k) <=> \E j \in 0 .. s - 1 : f.body[d].table[j].key = k
    BY <1>1 DEF Has
  <2>3. f.body[d].table[p].key = NIL /\ f.body[d].table[i].key = m /\ i \in 0 .. s - 1
    BY <1>2, <1>3 DEF m, s
  <2>4. k # NIL
    BY NilNot
  <2>5. /\ \A j \in 0 .. s - 1 :
             f2.body[d].table[j].key = IF j = i THEN NIL ELSE IF j = p THEN m ELSE f.body[d].table[j].key
        /\ p \in 0 .. s - 1 /\ i # p
    BY <1>3, <1>4, <1>13
  <2>6. ASSUME NEW j \in 0 .. s - 1, f2.body[d].table[j].key = k
        PROVE  \E l \in 0 .. s - 1 : f.body[d].table[l].key = k
    <3>1. j # i
      BY <2>4, <2>5, <2>6
    <3>2. CASE j = p
      BY <2>3, <2>5, <2>6, <3>1, <3>2
    <3>3. CASE j # p
      BY <2>5, <2>6, <3>1, <3>3
    <3> QED BY <3>2, <3>3
  <2>7. ASSUME NEW j \in 0 .. s - 1, f.body[d].table[j].key = k
        PROVE  \E l \in 0 .. s - 1 : f2.body[d].table[l].key = k
    <3>1. j # p
      BY <2>3, <2>4, <2>7
    <3>2. CASE j = i
      <4>1. f2.body[d].table[p].key = k
        BY <2>3, <2>5, <2>7, <3>2
      <4> QED BY <2>5, <4>1
    <3>3. CASE j # i
      BY <2>5, <2>7, <3>1, <3>3
    <3> QED BY <3>2, <3>3
  <2> QED BY <2>1, <2>2, <2>6, <2>7
<1>23. \A k \in Name : Has(f, d, k) <=> Has(h, d, k) /\ k # n
  BY DEF Emptying, f
<1>24. /\ \A y \in Dict : y # d => f.body[y] = h.body[y]
       /\ f.body[d].curlength = h.body[d].curlength /\ f.body[d].access = h.body[d].access
       /\ \A k \in Name : f.cache[k].dict = h.cache[k].dict /\ f.cache[k].ts = h.cache[k].ts
  BY DEF Emptying, f
<1>25. KeysNow(g, d) = KeysNow(f2, d)
  BY <1>15 DEF KeysNow
<1> DEFINE r == [h |-> g, hole |-> i, done |-> FALSE]
<1>26. r = [h |-> r.h, hole |-> r.hole, done |-> r.done] /\ r.done = FALSE /\ r.h = g /\ r.hole = i
  OBVIOUS
<1> HIDE DEF r
<1>27. Emptying(h, r, d, at, n, x + 1)
  <2>1. /\ HoleInv(KeysNow(g, d), s, at, i, x + 1)
        /\ Cardinality(Filled(KeysNow(g, d), s)) = h.body[d].curlength - 1
    BY <1>7, <1>13, <1>25
  <2>2. /\ \A y \in Dict : y # d => g.body[y] = h.body[y]
        /\ g.body[d] # NIL /\ g.body[d].size = s
        /\ g.body[d].curlength = h.body[d].curlength /\ g.body[d].access = h.body[d].access
    <3>1. g.body = f2.body
      BY <1>15
    <3>2. f2.body[d] # NIL
      BY <1>12
    <3>3. /\ \A y \in Dict : y # d => f2.body[y] = f.body[y]
          /\ f2.body[d].size = s
          /\ f2.body[d].curlength = f.body[d].curlength /\ f2.body[d].access = f.body[d].access
      BY <1>13
    <3>4. /\ \A y \in Dict : y # d => f.body[y] = h.body[y]
          /\ f.body[d].curlength = h.body[d].curlength /\ f.body[d].access = h.body[d].access
      BY <1>24
    <3> HIDE DEF s
    <3> QED BY <3>1, <3>2, <3>3, <3>4
  <2>3. \A k \in Name : g.cache[k].dict = h.cache[k].dict /\ g.cache[k].ts = h.cache[k].ts
    BY <1>15, <1>24
  <2>4. \A k \in Name : Has(g, d, k) <=> Has(h, d, k) /\ k # n
    BY <1>22, <1>23
  <2> HIDE DEF s
  <2>5. Formed(g) /\ Kept(h, g) /\ CacheOK(g) /\ VecOK(g)
    BY <1>16, <1>17, <1>18, <1>21
  <2> QED BY <2>1, <2>2, <2>3, <2>4, <2>5, <1>26 DEF Emptying, s
<1> QED BY <1>5, <1>27 DEF r, s

LEMMA LookedGood ==
  ASSUME level \in Nat, NEW h, NEW d \in Dict, NEW at \in 0 .. h.body[d].size - 1, NEW n \in Name, NEW x \in Nat,
         NEW q, Emptying(h, q, d, at, n, x)
  PROVE  Emptying(h, Looked(q, d, h.body[d].size, (at + x + 1) % h.body[d].size), d, at, n, x + 1)
<1> DEFINE s == h.body[d].size
           i == (at + x + 1) % s
           t == KeysNow(q.h, d)
           r == Looked(q, d, s, i)
<1>1. /\ Formed(q.h) /\ q.h.body[d] # NIL /\ q.h.body[d].size = s
      /\ q = [h |-> q.h, hole |-> q.hole, done |-> q.done] /\ q.done \in BOOLEAN
      /\ ~ q.done => HoleInv(t, s, at, q.hole, x)
      /\ q.done => Searchable(t, s)
  BY DEF Emptying
<1>2. /\ s \in Nat \ {0} /\ t \in KeyTable(s)
      /\ \A j \in 0 .. s - 1 : t[j] = q.h.body[d].table[j].key
  BY <1>1, KeysTyped
<1>3. ~ q.done => i \in 0 .. s - 1 /\ From(at, i, s) = x + 1
  <2> HIDE DEF t, s, i
  <2>1. at \in 0 .. s - 1
    BY DEF s
  <2> SUFFICES ASSUME ~ q.done PROVE i \in 0 .. s - 1 /\ From(at, i, s) = x + 1
    OBVIOUS
  <2>2. HoleInv(t, s, at, q.hole, x)
    BY <1>1
  <2> QED BY <2>1, <2>2, <1>2, NextSlot DEF i
<1>4. ASSUME r = [q EXCEPT !.done = TRUE], Searchable(t, s) PROVE Emptying(h, r, d, at, n, x + 1)
  <2>1. r.h = q.h /\ r.done = TRUE /\ r = [h |-> r.h, hole |-> r.hole, done |-> r.done]
    <3> HIDE DEF r
    <3> QED BY <1>1, <1>4
  <2> HIDE DEF r
  <2> QED BY <1>4, <2>1 DEF Emptying
<1>5. CASE q.done
  BY <1>1, <1>4, <1>5 DEF Looked
<1>6. CASE ~ q.done /\ q.h.body[d].table[i].key = NIL
  <2>1. t[i] = NIL /\ i \in 0 .. s - 1 /\ From(at, i, s) = x + 1 /\ HoleInv(t, s, at, q.hole, x)
    BY <1>1, <1>2, <1>3, <1>6
  <2>2. r = [q EXCEPT !.done = TRUE]
    BY <1>6 DEF Looked
  <2> HIDE DEF i, t, r, s
  <2>3. Searchable(t, s)
    BY <1>2, <2>1, HoleDone DEF s
  <2> QED BY <1>4, <2>2, <2>3 DEF r, i, s
<1>7. CASE ~ q.done /\ q.h.body[d].table[i].key # NIL /\ ~ Passes(Home(q.h.body[d].table[i].key, s), q.hole, i)
  <2>1. t[i] # NIL /\ i \in 0 .. s - 1 /\ From(at, i, s) = x + 1 /\ HoleInv(t, s, at, q.hole, x)
        /\ ~ Passes(Home(t[i], s), q.hole, i)
    BY <1>1, <1>2, <1>3, <1>7
  <2>2. r = q
    BY <1>7 DEF Looked
  <2> HIDE DEF i, t, r, s
  <2>3. HoleInv(t, s, at, q.hole, x + 1)
    BY <1>2, <2>1, HoleStays DEF s
  <2>4. Emptying(h, q, d, at, n, x + 1)
    BY <1>7, <2>3 DEF Emptying, t, s
  <2> QED BY <2>2, <2>4 DEF r, i, s
<1>8. CASE ~ q.done /\ q.h.body[d].table[i].key # NIL /\ Passes(Home(q.h.body[d].table[i].key, s), q.hole, i)
  BY <1>3, <1>8, MovedGood
<1> QED BY <1>1, <1>5, <1>6, <1>7, <1>8

-----------------------------------------------------------------------------
(* The loop of UnDef.                                                       *)

\* The loop of UnDef after l slots.
FirstLook(h, d, at) == [h |-> Hole(h, d, at), hole |-> at, done |-> FALSE]
NextLook(q, h, d, at, i) == Looked(q, d, h.body[d].size, (at + i) % h.body[d].size)
Looks(f, h, d, at, l) ==
  f = [i \in 0 .. l |-> IF i = 0 THEN FirstLook(h, d, at) ELSE NextLook(f[i - 1], h, d, at, i)]

LEMMA LooksExists ==
  ASSUME NEW h, NEW d, NEW at
  PROVE  \A l \in Nat : \E f : Looks(f, h, d, at, l)
<1> DEFINE S == {l \in Nat : \E f : Looks(f, h, d, at, l)}
<1>1. 0 \in S
  <2> DEFINE f == [i \in 0 .. 0 |-> FirstLook(h, d, at)]
  <2>1. Looks(f, h, d, at, 0)
    BY DEF Looks
  <2> QED BY <2>1
<1>2. ASSUME NEW l \in Nat, l \in S PROVE l + 1 \in S
  <2>1. PICK f : Looks(f, h, d, at, l)
    BY <1>2
  <2> DEFINE g == [i \in 0 .. l + 1 |-> IF i = l + 1 THEN NextLook(f[l], h, d, at, l + 1) ELSE f[i]]
  <2>2. ASSUME NEW i \in 0 .. l + 1
        PROVE  g[i] = IF i = 0 THEN FirstLook(h, d, at) ELSE NextLook(g[i - 1], h, d, at, i)
    <3>1. CASE i = l + 1
      <4>1. l \in 0 .. l + 1 /\ l # l + 1 /\ i - 1 = l /\ i # 0
        BY <3>1
      <4>2. g[l] = f[l] /\ g[i] = NextLook(f[l], h, d, at, l + 1)
        BY <3>1, <4>1
      <4> HIDE DEF g
      <4> QED BY <3>1, <4>1, <4>2
    <3>2. CASE i \in 0 .. l
      <4>1. g[i] = f[i]
        BY <3>2
      <4>2. i # 0 => g[i - 1] = f[i - 1]
        BY <3>2
      <4>3. f[i] = IF i = 0 THEN FirstLook(h, d, at) ELSE NextLook(f[i - 1], h, d, at, i)
        BY <2>1, <3>2 DEF Looks
      <4> HIDE DEF g
      <4> QED BY <4>1, <4>2, <4>3
    <3> QED BY <3>1, <3>2
  <2>3. g = [i \in 0 .. l + 1 |-> g[i]]
    OBVIOUS
  <2> HIDE DEF g
  <2>4. Looks(g, h, d, at, l + 1)
    BY <2>2, <2>3 DEF Looks
  <2> QED BY <2>4
<1> HIDE DEF S
<1>3. Nat \subseteq S
  BY <1>1, <1>2, SetInduction
<1> QED BY <1>3 DEF S

LEMMA LooksGood ==
  ASSUME level \in Nat, NEW h, NEW d \in Dict, NEW at, NEW n \in Name, ToEmpty(h, d, at, n),
         NEW L \in Nat, NEW f, Looks(f, h, d, at, L)
  PROVE  Emptying(h, f[L], d, at, n, L)
<1> DEFINE S == {i \in Nat : i <= L => Emptying(h, f[i], d, at, n, i)}
<1>0. at \in 0 .. h.body[d].size - 1
  BY DEF ToEmpty
<1>1. 0 \in S
  <2>1. f[0] = [h |-> Hole(h, d, at), hole |-> at, done |-> FALSE]
    BY DEF Looks, FirstLook
  <2>2. Emptying(h, f[0], d, at, n, 0)
    BY <2>1, FirstHole
  <2> QED BY <2>2
<1>2. ASSUME NEW i \in Nat, i \in S PROVE i + 1 \in S
  <2>1. CASE i + 1 <= L
    <3>1. i + 1 \in 0 .. L /\ i + 1 # 0 /\ (i + 1) - 1 = i /\ i <= L /\ at + (i + 1) = at + i + 1
      BY <2>1, <1>0
    <3>2. f[i + 1] = NextLook(f[i], h, d, at, i + 1)
      BY <3>1 DEF Looks
    <3>3. NextLook(f[i], h, d, at, i + 1) = Looked(f[i], d, h.body[d].size, (at + i + 1) % h.body[d].size)
      BY <3>1 DEF NextLook
    <3>4. Emptying(h, f[i], d, at, n, i)
      BY <1>2, <3>1
    <3>5. Emptying(h, Looked(f[i], d, h.body[d].size, (at + i + 1) % h.body[d].size), d, at, n, i + 1)
      BY <1>0, <3>4, LookedGood
    <3> QED BY <3>2, <3>3, <3>5
  <2>2. CASE ~ (i + 1 <= L)
    BY <2>2
  <2> QED BY <2>1, <2>2
<1> HIDE DEF S
<1>3. Nat \subseteq S
  BY <1>1, <1>2, SetInduction
<1>4. L \in S /\ L <= L
  BY <1>3
<1> QED BY <1>4 DEF S

LEMMA EmptiedIs ==
  ASSUME level \in Nat, NEW h, NEW d \in Dict, NEW at, NEW n \in Name, ToEmpty(h, d, at, n)
  PROVE  \E q : Emptying(h, q, d, at, n, h.body[d].size) /\ Emptied(h, d, at) = q.h
<1> DEFINE size == h.body[d].size
           step == CHOOSE f : f = [i \in 0 .. size |->
             IF i = 0 THEN [h |-> PutKeyVal(h, d, at, NIL, NIL), hole |-> at, done |-> FALSE]
             ELSE LET p == f[i - 1]
                      o == p.h.body[d].table[(at + i) % size]
                      moved == PutKeyVal(PutKeyVal(p.h, d, p.hole, o.key, o.value), d, (at + i) % size, NIL, NIL)
                  IN IF p.done \/ o.key = NIL THEN [p EXCEPT !.done = TRUE]
                     ELSE IF ~Passes(Home(o.key, size), p.hole, (at + i) % size) THEN p
                     ELSE [h |-> IF moved.cache[o.key].dict = d
                                 THEN [moved EXCEPT !.cache[o.key].loc = p.hole] ELSE moved,
                           hole |-> (at + i) % size, done |-> FALSE]]
<1>1. Emptied(h, d, at) = step[size].h
  BY DEF Emptied
<1>2. size \in Nat
  BY KeysTyped DEF ToEmpty, HeapOK
<1>3. \E f : Looks(f, h, d, at, size)
  BY <1>2, LooksExists
<1>4. Looks(step, h, d, at, size)
  <2>1. \A f : Looks(f, h, d, at, size) <=> f = [i \in 0 .. size |->
             IF i = 0 THEN [h |-> PutKeyVal(h, d, at, NIL, NIL), hole |-> at, done |-> FALSE]
             ELSE LET p == f[i - 1]
                      o == p.h.body[d].table[(at + i) % size]
                      moved == PutKeyVal(PutKeyVal(p.h, d, p.hole, o.key, o.value), d, (at + i) % size, NIL, NIL)
                  IN IF p.done \/ o.key = NIL THEN [p EXCEPT !.done = TRUE]
                     ELSE IF ~Passes(Home(o.key, size), p.hole, (at + i) % size) THEN p
                     ELSE [h |-> IF moved.cache[o.key].dict = d
                                 THEN [moved EXCEPT !.cache[o.key].loc = p.hole] ELSE moved,
                           hole |-> (at + i) % size, done |-> FALSE]]
    BY Zenon DEF Looks, FirstLook, NextLook, Looked, Relocated, Moved, Hole, SetLoc
  <2>2. \E f : f = [i \in 0 .. size |->
             IF i = 0 THEN [h |-> PutKeyVal(h, d, at, NIL, NIL), hole |-> at, done |-> FALSE]
             ELSE LET p == f[i - 1]
                      o == p.h.body[d].table[(at + i) % size]
                      moved == PutKeyVal(PutKeyVal(p.h, d, p.hole, o.key, o.value), d, (at + i) % size, NIL, NIL)
                  IN IF p.done \/ o.key = NIL THEN [p EXCEPT !.done = TRUE]
                     ELSE IF ~Passes(Home(o.key, size), p.hole, (at + i) % size) THEN p
                     ELSE [h |-> IF moved.cache[o.key].dict = d
                                 THEN [moved EXCEPT !.cache[o.key].loc = p.hole] ELSE moved,
                           hole |-> (at + i) % size, done |-> FALSE]]
    BY <1>3, <2>1
  <2>3. step = [i \in 0 .. size |->
             IF i = 0 THEN [h |-> PutKeyVal(h, d, at, NIL, NIL), hole |-> at, done |-> FALSE]
             ELSE LET p == step[i - 1]
                      o == p.h.body[d].table[(at + i) % size]
                      moved == PutKeyVal(PutKeyVal(p.h, d, p.hole, o.key, o.value), d, (at + i) % size, NIL, NIL)
                  IN IF p.done \/ o.key = NIL THEN [p EXCEPT !.done = TRUE]
                     ELSE IF ~Passes(Home(o.key, size), p.hole, (at + i) % size) THEN p
                     ELSE [h |-> IF moved.cache[o.key].dict = d
                                 THEN [moved EXCEPT !.cache[o.key].loc = p.hole] ELSE moved,
                           hole |-> (at + i) % size, done |-> FALSE]]
    BY <2>2, Zenon
  <2> HIDE DEF step
  <2> QED BY <2>1, <2>3
<1> HIDE DEF step, size
<1>5. Emptying(h, step[size], d, at, n, size)
  BY <1>2, <1>4, LooksGood
<1> QED BY <1>1, <1>5 DEF size

-----------------------------------------------------------------------------
(* UnDef as a whole.                                                        *)

\* A heap in which d no longer has n.
Removed(h, g, d, n) ==
  /\ HeapOK(g) /\ Kept(h, g)
  /\ \A x \in Dict, m \in Name : Has(g, x, m) <=> Has(h, x, m) /\ ~ (x = d /\ m = n)
  /\ \A m \in Name : g.cache[m].dict = h.cache[m].dict /\ g.cache[m].ts = h.cache[m].ts

LEMMA UnboundRecord ==
  ASSUME NEW o \in Binding
  PROVE  Unbound(o) = [loc |-> NIL, dict |-> NIL, ts |-> NIL, vec |-> o.vec]
<1>1. o = [loc |-> o.loc, dict |-> o.dict, ts |-> o.ts, vec |-> o.vec]
  BY DEF Binding
<1>2. DOMAIN o = {"loc", "dict", "ts", "vec"}
  BY <1>1
<1>3. PICK p : p = [o EXCEPT !.loc = NIL]
  OBVIOUS
<1>4. p = [loc |-> NIL, dict |-> o.dict, ts |-> o.ts, vec |-> o.vec]
  BY <1>1, <1>3
<1>5. PICK q : q = [p EXCEPT !.dict = NIL]
  OBVIOUS
<1>6. q = [loc |-> NIL, dict |-> NIL, ts |-> o.ts, vec |-> o.vec]
  BY <1>4, <1>5
<1>7. [q EXCEPT !.ts = NIL] = [loc |-> NIL, dict |-> NIL, ts |-> NIL, vec |-> o.vec]
  BY <1>6
<1> QED BY <1>3, <1>5, <1>7 DEF Unbound

LEMMA UnboundIs ==
  ASSUME NEW h, Typed(h), NEW n \in Name
  PROVE  /\ Unbound(h.cache[n]) \in Binding
         /\ Unbound(h.cache[n]).dict = NIL /\ Unbound(h.cache[n]).ts = NIL
         /\ Unbound(h.cache[n]).vec = h.cache[n].vec
<1> DEFINE o == h.cache[n] e == [loc |-> NIL, dict |-> NIL, ts |-> NIL, vec |-> o.vec]
<1>1. o \in Binding /\ o = [loc |-> o.loc, dict |-> o.dict, ts |-> o.ts, vec |-> o.vec]
  BY BindingIs
<1> HIDE DEF o
<1>2. Unbound(o) = e
  BY <1>1, UnboundRecord
<1>3. e \in Binding
  BY <1>1 DEF Binding
<1> QED BY <1>2, <1>3 DEF o

\* The binding of a name is given up.
Released(h, g, n) ==
  /\ HeapOK(g) /\ Same(h, g) /\ g.body = h.body
  /\ \A m \in Name : m # n => g.cache[m] = h.cache[m]
  /\ g.cache[n].dict = NIL /\ g.cache[n].ts = NIL

LEMMA UnboundGood ==
  ASSUME NEW h, HeapOK(h), NEW n \in Name, NEW d \in Dict,
         NEW g, g = SetCache(h, n, Unbound(h.cache[n]))
  PROVE  Released(h, g, n)
<1> DEFINE e == Unbound(h.cache[n])
<1>1. Typed(h)
  BY DEF HeapOK, Formed
<1>2. e \in Binding /\ e.dict = NIL /\ e.ts = NIL /\ e.vec = h.cache[n].vec
  BY <1>1, UnboundIs
<1> HIDE DEF e
<1>3. AlmostOK(h, d, n)
  BY AlmostIs
<1>4. NewBinding(h, d, n, e)
  BY <1>2, <1>3 DEF NewBinding, RightBinding
<1>5. Recached(h, SetCache(h, n, e), n, e)
  BY <1>4, RecacheGood
<1>6. SetCache(h, n, e) = g
  BY DEF e
<1>7. Recached(h, g, n, e)
  BY <1>5, <1>6
<1> QED BY <1>2, <1>7 DEF Recached, Released

SameTables(h, g) ==
  \A x \in Dict : /\ g.body[x] = NIL <=> h.body[x] = NIL
                  /\ g.body[x].size = h.body[x].size /\ g.body[x].table = h.body[x].table

LEMMA CacheStays ==
  ASSUME NEW h, Typed(h), CacheOK(h), NEW g, g.cache = h.cache, SameTables(h, g)
  PROVE  CacheOK(g)
<1> SUFFICES ASSUME NEW m \in Name, h.cache[m].dict # NIL
             PROVE  /\ g.body[h.cache[m].dict] # NIL
                    /\ h.cache[m].loc \in 0 .. g.body[h.cache[m].dict].size - 1
                    /\ g.body[h.cache[m].dict].table[h.cache[m].loc].key = m
  BY DEF CacheOK
<1>1. h.cache[m].dict \in Dict
  BY BindingIs
<1>2. /\ h.body[h.cache[m].dict] # NIL
      /\ h.cache[m].loc \in 0 .. h.body[h.cache[m].dict].size - 1
      /\ h.body[h.cache[m].dict].table[h.cache[m].loc].key = m
  BY DEF CacheOK
<1> QED BY <1>1, <1>2 DEF SameTables

LEMMA EmptiedGood ==
  ASSUME level \in Nat, NEW h, NEW d \in Dict, NEW at, NEW n \in Name, ToEmpty(h, d, at, n),
         NEW e, e = Emptied(h, d, at),
         NEW g, g = PutHeader(e, d, e.body[d].curlength - 1, e.body[d].access)
  PROVE  Removed(h, g, d, n)
<1> DEFINE s == h.body[d].size
<1>1. PICK q : Emptying(h, q, d, at, n, s) /\ Emptied(h, d, at) = q.h
  BY EmptiedIs
<1>2. q.h = e
  BY <1>1
<1>3. /\ HeapOK(h) /\ h.body[d] # NIL
      /\ Formed(h) /\ NowGood(h) /\ PastGood(h) /\ s \in Nat \ {0} /\ h.body[d].access \in SUBSET {"r", "w"}
      /\ h.body[d].curlength \in Nat
  <2>1. HeapOK(h) /\ h.body[d] # NIL
    BY DEF ToEmpty
  <2>2. Formed(h) /\ NowGood(h) /\ PastGood(h)
    BY <2>1 DEF HeapOK
  <2>3. s \in Nat \ {0} /\ Sized(d, h.body[d])
    BY <2>1, <2>2, KeysTyped
  <2> HIDE DEF s
  <2>4. h.body[d].access \in SUBSET {"r", "w"} /\ h.body[d].curlength \in Nat
    BY <2>3 DEF Sized, DictBody
  <2> QED BY <2>1, <2>2, <2>3, <2>4
<1>4. /\ Formed(e) /\ Kept(h, e) /\ CacheOK(e) /\ VecOK(e)
      /\ \A y \in Dict : y # d => e.body[y] = h.body[y]
      /\ e.body[d] # NIL /\ e.body[d].size = s
      /\ e.body[d].curlength = h.body[d].curlength /\ e.body[d].access = h.body[d].access
      /\ \A m \in Name : e.cache[m].dict = h.cache[m].dict /\ e.cache[m].ts = h.cache[m].ts
      /\ \A m \in Name : Has(e, d, m) <=> Has(h, d, m) /\ m # n
      /\ Cardinality(Filled(KeysNow(e, d), s)) = h.body[d].curlength - 1
  BY <1>1, <1>2 DEF Emptying
<1>5. Searchable(KeysNow(e, d), s)
  <2>1. q.done => Searchable(KeysNow(e, d), s)
    BY <1>1, <1>2 DEF Emptying
  <2>2. ~ q.done => HoleInv(KeysNow(e, d), s, at, q.hole, s)
    BY <1>1, <1>2 DEF Emptying
  <2>3. at \in 0 .. s - 1
    BY DEF ToEmpty
  <2> HIDE DEF s
  <2>4. ASSUME ~ q.done PROVE FALSE
    <3>1. s + 1 \in 1 .. s - 1
      BY <1>3, <2>2, <2>3, <2>4, NextSlot
    <3> QED BY <1>3, <3>1
  <2> QED BY <2>1, <2>4
<1> DEFINE len == h.body[d].curlength - 1
<1>6. len \in Nat
  <2> HIDE DEF s
  <2>1. Cardinality(Filled(KeysNow(e, d), s)) \in Nat
    BY <1>3, FilledFinite
  <2> QED BY <1>4, <2>1
<1>7. g = PutHeader(e, d, len, h.body[d].access)
  BY <1>4
<1> HIDE DEF s, len
<1>8. len <= e.body[d].curmax
  <2>1. Sized(d, e.body[d])
    BY <1>4, KeysTyped
  <2>2. e.body[d].curlength <= e.body[d].curmax /\ e.body[d].curmax \in Nat
    BY <2>1 DEF Sized, DictBody
  <2> QED BY <1>3, <1>4, <2>2 DEF len
<1>9. HeaderPut(e, g, d, len, h.body[d].access)
  BY <1>3, <1>4, <1>6, <1>7, <1>8, PutHeaderPuts
<1>10. /\ Formed(g) /\ Kept(e, g) /\ g.cache = e.cache
       /\ \A x \in Dict : x # d => g.body[x] = h.body[x]
       /\ g.body[d] # NIL /\ g.body[d].size = s /\ g.body[d].table = e.body[d].table
       /\ g.body[d].curlength = len
       /\ \A x \in Dict, m \in Name : Seen(g, x, m) => Seen(e, x, m)
  <2>1. /\ Formed(g) /\ Kept(e, g) /\ g.cache = e.cache
        /\ \A x \in Dict : x # d => g.body[x] = e.body[x]
        /\ g.body[d] # NIL /\ g.body[d].size = e.body[d].size /\ g.body[d].table = e.body[d].table
        /\ g.body[d].curlength = len
        /\ \A x \in Dict, m \in Name : Seen(g, x, m) => Seen(e, x, m)
    BY <1>9 DEF HeaderPut
  <2>2. e.body[d].size = s /\ \A y \in Dict : y # d => e.body[y] = h.body[y]
    BY <1>4
  <2> QED BY <2>1, <2>2
<1>11. Kept(h, g)
  BY <1>4, <1>10, KeptOn
<1>12. PastGood(g)
  BY <1>3, <1>11, PastStays
<1>13. KeysNow(g, d) = KeysNow(e, d)
  BY <1>4, <1>10 DEF KeysNow
<1>14. NowGood(g)
  <2> SUFFICES ASSUME NEW x \in Dict, g.body[x] # NIL
               PROVE  Good(KeysNow(g, x), g.body[x].size, g.body[x].curlength)
    BY DEF NowGood
  <2>1. CASE x = d
    BY <2>1, <1>4, <1>5, <1>10, <1>13 DEF Good, len
  <2>2. CASE x # d
    <3>1. g.body[x] = h.body[x] /\ KeysNow(g, x) = KeysNow(h, x)
      BY <2>2, <1>10 DEF KeysNow
    <3> QED BY <3>1, <1>3 DEF NowGood
  <2> QED BY <2>1, <2>2
<1>15. \A x \in Dict : /\ g.body[x] = NIL <=> e.body[x] = NIL
                       /\ g.body[x].size = e.body[x].size /\ g.body[x].table = e.body[x].table
  <2>1. /\ \A y \in Dict : y # d => e.body[y] = h.body[y]
        /\ e.body[d] # NIL /\ e.body[d].size = s
    BY <1>4
  <2>2. /\ \A x \in Dict : x # d => g.body[x] = h.body[x]
        /\ g.body[d] # NIL /\ g.body[d].size = s /\ g.body[d].table = e.body[d].table
    BY <1>10
  <2> QED BY <2>1, <2>2
<1>16. CacheOK(g)
  <2>1. Typed(e) /\ CacheOK(e) /\ g.cache = e.cache
    BY <1>4, <1>10 DEF Formed
  <2>2. SameTables(e, g)
    BY <1>15 DEF SameTables
  <2> QED BY <2>1, <2>2, CacheStays
<1>17. VecOK(g)
  <2>1. VecOK(e)
    BY <1>4
  <2>2. g.cache = e.cache /\ \A x \in Dict, m \in Name : Seen(g, x, m) => Seen(e, x, m)
    BY <1>10
  <2> QED BY <2>1, <2>2 DEF VecOK
<1>18. \A x \in Dict, m \in Name : Has(g, x, m) <=> Has(h, x, m) /\ ~ (x = d /\ m = n)
  <2> SUFFICES ASSUME NEW x \in Dict, NEW m \in Name
               PROVE  Has(g, x, m) <=> Has(h, x, m) /\ ~ (x = d /\ m = n)
    OBVIOUS
  <2>1. CASE x = d
    <3>1. Has(g, d, m) <=> Has(e, d, m)
      BY <1>15 DEF Has
    <3> QED BY <2>1, <3>1, <1>4
  <2>2. CASE x # d
    <3>1. g.body[x] = h.body[x]
      BY <2>2, <1>10
    <3> QED BY <2>2, <3>1 DEF Has
  <2> QED BY <2>1, <2>2
<1>19. \A m \in Name : g.cache[m].dict = h.cache[m].dict /\ g.cache[m].ts = h.cache[m].ts
  <2>1. \A m \in Name : e.cache[m].dict = h.cache[m].dict /\ e.cache[m].ts = h.cache[m].ts
    BY <1>4
  <2>2. g.cache = e.cache
    BY <1>10
  <2> QED BY <2>1, <2>2
<1>20. HeapOK(g)
  BY <1>10, <1>12, <1>14, <1>16, <1>17 DEF HeapOK
<1> QED BY <1>11, <1>18, <1>19, <1>20 DEF Removed

\* What UnDef leaves.
UndefDone(h, g, d, n) ==
  /\ HeapOK(g) /\ Kept(h, g)
  /\ \A x \in Dict, m \in Name : Has(g, x, m) <=> Has(h, x, m) /\ ~ (x = d /\ m = n)
  /\ \A m \in Name : m # n => g.cache[m].dict = h.cache[m].dict /\ g.cache[m].ts = h.cache[m].ts
  /\ \/ g.cache[n].dict = NIL /\ g.cache[n].ts = NIL
     \/ h.cache[n].dict # d /\ g.cache[n].dict = h.cache[n].dict /\ g.cache[n].ts = h.cache[n].ts

LEMMA UnDefinedGood ==
  ASSUME level \in Nat, NEW h, HeapOK(h), NEW d \in Dict, h.body[d] # NIL, NEW n \in Name,
         h.cache[n].dict = d \/ Known(h.body[d], n),
         NEW g, g = UnDefined(h, d, n)
  PROVE  UndefDone(h, g, d, n)
<1>1. CASE h.cache[n].dict = d
  <2>1. PICK f : f = SetCache(h, n, Unbound(h.cache[n]))
    OBVIOUS
  <2>2. Released(h, f, n)
    BY <2>1, UnboundGood
  <2>3. /\ HeapOK(f) /\ Same(h, f) /\ f.body = h.body
        /\ \A m \in Name : m # n => f.cache[m] = h.cache[m]
        /\ f.cache[n].dict = NIL /\ f.cache[n].ts = NIL
    BY <2>2 DEF Released
  <2>4. PICK at : at = h.cache[n].loc
    OBVIOUS
  <2>5. at \in 0 .. h.body[d].size - 1 /\ h.body[d].table[at].key = n
    BY <1>1, <2>4, CachedHas, NilNot
  <2>6. ToEmpty(f, d, at, n)
    BY <2>3, <2>5, NilNot DEF ToEmpty
  <2>7. PICK e : e = Emptied(f, d, at)
    OBVIOUS
  <2>8. g = PutHeader(e, d, e.body[d].curlength - 1, e.body[d].access)
    BY <1>1, <2>1, <2>4, <2>7 DEF UnDefined, SetCache
  <2>9. Removed(f, g, d, n)
    BY <2>6, <2>7, <2>8, EmptiedGood
  <2>10. /\ HeapOK(g) /\ Kept(f, g)
         /\ \A x \in Dict, m \in Name : Has(g, x, m) <=> Has(f, x, m) /\ ~ (x = d /\ m = n)
         /\ \A m \in Name : g.cache[m].dict = f.cache[m].dict /\ g.cache[m].ts = f.cache[m].ts
    BY <2>9 DEF Removed
  <2>11. Kept(h, f) /\ \A x \in Dict, m \in Name : Has(f, x, m) <=> Has(h, x, m)
    BY <2>3 DEF Same
  <2>12. Kept(h, g)
    BY <2>10, <2>11, KeptOn
  <2> QED BY <2>3, <2>10, <2>11, <2>12 DEF UndefDone
<1>2. CASE h.cache[n].dict # d
  <2>4. PICK at : at = Place(h.body[d], n)
    OBVIOUS
  <2>5. at \in 0 .. h.body[d].size - 1 /\ h.body[d].table[at].key = n
    <3>1. Formed(h) /\ NowGood(h) /\ Known(h.body[d], n)
      BY <1>2 DEF HeapOK
    <3> QED BY <2>4, <3>1, SearchNow
  <2>6. ToEmpty(h, d, at, n)
    BY <1>2, <2>5 DEF ToEmpty
  <2>7. PICK e : e = Emptied(h, d, at)
    OBVIOUS
  <2>8. g = PutHeader(e, d, e.body[d].curlength - 1, e.body[d].access)
    BY <1>2, <2>4, <2>7 DEF UnDefined
  <2>9. Removed(h, g, d, n)
    BY <2>6, <2>7, <2>8, EmptiedGood
  <2> QED BY <1>2, <2>9 DEF UndefDone, Removed
<1> QED BY <1>1, <1>2

-----------------------------------------------------------------------------
(* SetDictAccess and DictFinalize.                                          *)

LEMMA HeaderOnly ==
  ASSUME NEW h, HeapOK(h), NEW d \in Dict, h.body[d] # NIL, NEW acc,
         NEW g, HeaderPut(h, g, d, h.body[d].curlength, acc)
  PROVE  HeapOK(g) /\ Same(h, g) /\ g.cache = h.cache
<1>1. Formed(h) /\ NowGood(h) /\ PastGood(h) /\ CacheOK(h) /\ VecOK(h)
  BY DEF HeapOK
<1>2. /\ Formed(g) /\ Kept(h, g) /\ g.cache = h.cache
      /\ \A x \in Dict : x # d => g.body[x] = h.body[x]
      /\ g.body[d] # NIL /\ g.body[d].size = h.body[d].size /\ g.body[d].table = h.body[d].table
      /\ g.body[d].curlength = h.body[d].curlength
      /\ \A x \in Dict, n \in Name : Seen(g, x, n) => Seen(h, x, n)
  BY DEF HeaderPut
<1>3. SameTables(h, g) /\ \A x \in Dict : g.body[x].curlength = h.body[x].curlength
  BY <1>2 DEF SameTables
<1>4. NowGood(g)
  <2> SUFFICES ASSUME NEW x \in Dict, g.body[x] # NIL
               PROVE  Good(KeysNow(g, x), g.body[x].size, g.body[x].curlength)
    BY DEF NowGood
  <2>1. KeysNow(g, x) = KeysNow(h, x) /\ h.body[x] # NIL
    BY <1>3 DEF SameTables, KeysNow
  <2> QED BY <2>1, <1>1, <1>3 DEF NowGood, SameTables
<1>5. PastGood(g)
  BY <1>1, <1>2, PastStays
<1>6. CacheOK(g)
  <2>1. Typed(h)
    BY <1>1 DEF Formed
  <2> QED BY <2>1, <1>1, <1>2, <1>3, CacheStays
<1>7. VecOK(g)
  BY <1>1, <1>2 DEF VecOK
<1>8. \A x \in Dict, m \in Name : Has(g, x, m) <=> Has(h, x, m)
  BY <1>3 DEF SameTables, Has
<1> QED BY <1>2, <1>4, <1>5, <1>6, <1>7, <1>8 DEF HeapOK, Same

\* The bindings of the names in X are given up.
UnbindAll(h, X) == [h EXCEPT !.cache = [n \in Name |-> IF n \in X THEN Unbound(h.cache[n]) ELSE h.cache[n]]]

\* What it leaves.
Loosened(h, g, X) ==
  /\ HeapOK(g) /\ Same(h, g) /\ g.body = h.body /\ g.sr = h.sr
  /\ \A m \in Name : m \notin X => g.cache[m] = h.cache[m]
  /\ \A m \in Name : m \in X => g.cache[m].dict = NIL /\ g.cache[m].ts = NIL

LEMMA UnbindTyped ==
  ASSUME NEW h, Typed(h), NEW X, NEW g, g = UnbindAll(h, X)
  PROVE  /\ Typed(g) /\ g.body = h.body /\ g.sr = h.sr
         /\ \A m \in Name : g.cache[m] = IF m \in X THEN Unbound(h.cache[m]) ELSE h.cache[m]
<1> DEFINE C == [n \in Name |-> IF n \in X THEN Unbound(h.cache[n]) ELSE h.cache[n]]
<1>1. h = [body |-> h.body, cache |-> h.cache, sr |-> h.sr]
  BY DEF Typed
<1>2. g = [h EXCEPT !.cache = C]
  BY DEF UnbindAll
<1>3. C \in [Name -> Binding]
  BY UnboundIs DEF Typed
<1>4. \A m \in Name : C[m] = IF m \in X THEN Unbound(h.cache[m]) ELSE h.cache[m]
  OBVIOUS
<1> HIDE DEF C
<1>5. g = [body |-> h.body, cache |-> C, sr |-> h.sr]
  BY <1>1, <1>2
<1> QED BY <1>3, <1>4, <1>5 DEF Typed

LEMMA UnbindGood ==
  ASSUME NEW h, HeapOK(h), NEW X, NEW g, g = UnbindAll(h, X)
  PROVE  Loosened(h, g, X)
<1>1. Formed(h) /\ NowGood(h) /\ PastGood(h) /\ CacheOK(h) /\ VecOK(h) /\ Typed(h)
  BY DEF HeapOK, Formed
<1>2. /\ Typed(g) /\ g.body = h.body /\ g.sr = h.sr
      /\ \A m \in Name : g.cache[m] = IF m \in X THEN Unbound(h.cache[m]) ELSE h.cache[m]
  BY <1>1, UnbindTyped
<1>3. /\ Formed(g) /\ Kept(h, g) /\ NowGood(g) /\ PastGood(g)
      /\ \A x, m : (Seen(g, x, m) <=> Seen(h, x, m)) /\ (Has(g, x, m) <=> Has(h, x, m))
  BY <1>1, <1>2, SameMemory
<1>4. \A m \in Name : /\ m \notin X => g.cache[m] = h.cache[m]
                      /\ m \in X => g.cache[m].dict = NIL /\ g.cache[m].ts = NIL /\ g.cache[m].vec = h.cache[m].vec
  <2> SUFFICES ASSUME NEW m \in Name
               PROVE  /\ m \notin X => g.cache[m] = h.cache[m]
                      /\ m \in X => g.cache[m].dict = NIL /\ g.cache[m].ts = NIL /\ g.cache[m].vec = h.cache[m].vec
    OBVIOUS
  <2>1. g.cache[m] = IF m \in X THEN Unbound(h.cache[m]) ELSE h.cache[m]
    BY <1>2
  <2>2. Unbound(h.cache[m]).dict = NIL /\ Unbound(h.cache[m]).ts = NIL /\ Unbound(h.cache[m]).vec = h.cache[m].vec
    BY <1>1, UnboundIs
  <2> QED BY <2>1, <2>2
<1>5. CacheOK(g)
  <2> SUFFICES ASSUME NEW m \in Name, g.cache[m].dict # NIL
               PROVE  /\ h.body[g.cache[m].dict] # NIL
                      /\ g.cache[m].loc \in 0 .. h.body[g.cache[m].dict].size - 1
                      /\ h.body[g.cache[m].dict].table[g.cache[m].loc].key = m
    BY <1>2 DEF CacheOK
  <2>1. g.cache[m] = h.cache[m]
    BY <1>4
  <2>2. h.cache[m].dict # NIL
    BY <2>1
  <2>3. /\ h.body[h.cache[m].dict] # NIL
        /\ h.cache[m].loc \in 0 .. h.body[h.cache[m].dict].size - 1
        /\ h.body[h.cache[m].dict].table[h.cache[m].loc].key = m
    BY <2>2, <1>1 DEF CacheOK
  <2> QED BY <2>1, <2>3
<1>6. VecOK(g)
  <2> SUFFICES ASSUME NEW d \in Dict, NEW m \in Name, Seen(g, d, m) \/ g.cache[m].dict = d
               PROVE  Bit[d] \in g.cache[m].vec
    BY DEF VecOK
  <2>1. g.cache[m].vec = h.cache[m].vec
    BY <1>4
  <2>2. Seen(h, d, m) \/ h.cache[m].dict = d
    BY <1>3, <1>4, NilNot
  <2> QED BY <2>1, <2>2, <1>1 DEF VecOK
<1> QED BY <1>2, <1>3, <1>4, <1>5, <1>6 DEF Loosened, HeapOK, Same

\* The names that DictFinalize looks at.
CachedIn(h, d) == {n \in Name : n \in KeysOf(h.body[d]) /\ h.cache[n].dict = d}

LEMMA DictFinalizeIs ==
  ASSUME NEW h, Typed(h), NEW d
  PROVE  DictFinalize(h, d) = UnbindAll(h, CachedIn(h, d))
<1>1. h = [body |-> h.body, cache |-> h.cache, sr |-> h.sr]
  BY DEF Typed
<1> DEFINE C1 == [n \in Name |-> IF n \in KeysOf(h.body[d]) /\ h.cache[n].dict = d
                                      THEN Unbound(h.cache[n]) ELSE h.cache[n]]
           C2 == [n \in Name |-> IF n \in CachedIn(h, d) THEN Unbound(h.cache[n]) ELSE h.cache[n]]
<1>2. C1 = C2
  BY DEF CachedIn
<1>3. DictFinalize(h, d) = [h EXCEPT !.cache = C1]
  BY DEF DictFinalize
<1>4. UnbindAll(h, CachedIn(h, d)) = [h EXCEPT !.cache = C2]
  BY DEF UnbindAll
<1> QED BY <1>2, <1>3, <1>4

\* What changes no name of a dictionary, and leaves a binding or gives it up.
Settled(h, g) ==
  /\ HeapOK(g) /\ Same(h, g)
  /\ \A m \in Name : \/ g.cache[m].dict = h.cache[m].dict /\ g.cache[m].ts = h.cache[m].ts
                     \/ g.cache[m].dict = NIL /\ g.cache[m].ts = NIL

LEMMA AccessGood ==
  ASSUME level \in Nat, NEW h, HeapOK(h), NEW d \in Dict, h.body[d] # NIL, NEW acc \in SUBSET {"r", "w"},
         NEW f, f = PutHeader(h, d, h.body[d].curlength, acc),
         NEW g, g = f \/ g = DictFinalize(f, d)
  PROVE  Settled(h, g)
<1>1. HeaderPut(h, f, d, h.body[d].curlength, acc)
  <2>1. Formed(h)
    BY DEF HeapOK
  <2>2. Sized(d, h.body[d])
    BY <2>1 DEF Formed
  <2>3. h.body[d].curlength \in Nat /\ h.body[d].curlength <= h.body[d].curmax
    BY <2>2 DEF Sized, DictBody
  <2> QED BY <2>1, <2>3, PutHeaderPuts
<1>2. HeapOK(f) /\ Same(h, f) /\ f.cache = h.cache
  BY <1>1, HeaderOnly
<1>3. CASE g = f
  BY <1>2, <1>3 DEF Settled
<1>4. CASE g = DictFinalize(f, d)
  <2>1. Typed(f)
    BY <1>2 DEF HeapOK, Formed
  <2>2. PICK X : X = CachedIn(f, d)
    OBVIOUS
  <2>3. g = UnbindAll(f, X)
    BY <1>4, <2>1, <2>2, DictFinalizeIs
  <2>4. Loosened(f, g, X)
    BY <1>2, <2>3, UnbindGood
  <2>5. /\ HeapOK(g) /\ Same(f, g)
        /\ \A m \in Name : g.cache[m] = f.cache[m] \/ (g.cache[m].dict = NIL /\ g.cache[m].ts = NIL)
    BY <2>4 DEF Loosened
  <2>6. Kept(h, g)
    BY <1>2, <2>5, KeptOn DEF Same
  <2>7. Same(h, g)
    BY <1>2, <2>5, <2>6 DEF Same
  <2> QED BY <1>2, <2>5, <2>7 DEF Settled
<1> QED BY <1>3, <1>4

-----------------------------------------------------------------------------
(* Restore.  What of a log has gone back when the levels above l are undone.*)

\* What of the log f a restore to level k has put back when levels above l are undone.
Part(f, field, cur, k, l) ==
  IF \E m \in DOMAIN f : l < m /\ f[m][field] <= k
  THEN f[CHOOSE m \in DOMAIN f : l < m /\ f[m][field] <= k]
  ELSE cur

\* At most one record above level k goes back to k.
OneBack(f, field, k) ==
  \A l, m \in DOMAIN f : k < l /\ f[l][field] <= k /\ k < m /\ f[m][field] <= k => l = m

LEMMA PartNone ==
  ASSUME NEW L \in Nat, NEW f, NEW field, LogTo(f, L, field), NEW cur, NEW k
  PROVE  Part(f, field, cur, k, L) = cur
<1>1. \A m \in DOMAIN f : ~ (L < m)
  BY DEF LogTo
<1> QED BY <1>1 DEF Part

LEMMA PartNext ==
  ASSUME NEW L \in Nat, NEW f, NEW field, LogTo(f, L, field), NEW cur, NEW k \in Nat, OneBack(f, field, k),
         NEW l \in Nat, k <= l
  PROVE  Part(f, field, cur, k, l) =
           IF l + 1 \in DOMAIN f /\ f[l + 1][field] <= k THEN f[l + 1] ELSE Part(f, field, cur, k, l + 1)
<1>1. DOMAIN f \subseteq Nat
  BY DEF LogTo
<1>2. CASE l + 1 \in DOMAIN f /\ f[l + 1][field] <= k
  <2>1. l < l + 1 /\ k < l + 1
    OBVIOUS
  <2>2. \A m \in DOMAIN f : l < m /\ f[m][field] <= k => m = l + 1
    BY <1>1, <1>2, <2>1 DEF OneBack
  <2>3. (CHOOSE m \in DOMAIN f : l < m /\ f[m][field] <= k) = l + 1
    BY <1>2, <2>1, <2>2
  <2> QED BY <1>2, <2>1, <2>3 DEF Part
<1>3. CASE ~ (l + 1 \in DOMAIN f /\ f[l + 1][field] <= k)
  <2>1. \A m \in DOMAIN f : l < m /\ f[m][field] <= k <=> l + 1 < m /\ f[m][field] <= k
    BY <1>1, <1>3
  <2>2. (CHOOSE m \in DOMAIN f : l < m /\ f[m][field] <= k)
          = CHOOSE m \in DOMAIN f : l + 1 < m /\ f[m][field] <= k
    BY <2>1
  <2> QED BY <1>3, <2>1, <2>2 DEF Part
<1> QED BY <1>2, <1>3

\* All of it.
LEMMA PartAll ==
  ASSUME NEW L \in Nat, NEW f, NEW field, LogTo(f, L, field),
         NEW b \in Nat, NEW c \in Nat, NEW cur, cur[field] = c, Chain(f, field, c, b),
         NEW k \in b .. L
  PROVE  OneBack(f, field, k) /\ Part(f, field, cur, k, k) = At(f, cur, k)
<1>1. /\ \A l \in DOMAIN f : k < l /\ f[l][field] <= k =>
              f[l] = At(f, cur, k) /\ \A m \in DOMAIN f : k < m /\ f[m][field] <= k => m = l
      /\ (\A l \in DOMAIN f : k < l => ~ (f[l][field] <= k)) => At(f, cur, k) = cur
  BY ChainUndone
<1>2. OneBack(f, field, k)
  BY <1>1 DEF OneBack
<1>3. CASE \E m \in DOMAIN f : k < m /\ f[m][field] <= k
  <2> DEFINE x == CHOOSE m \in DOMAIN f : k < m /\ f[m][field] <= k
  <2>1. x \in DOMAIN f /\ k < x /\ f[x][field] <= k
    BY <1>3
  <2>2. Part(f, field, cur, k, k) = f[x]
    BY <1>3 DEF Part
  <2> HIDE DEF x
  <2> QED BY <1>1, <1>2, <2>1, <2>2
<1>4. CASE ~ \E m \in DOMAIN f : k < m /\ f[m][field] <= k
  <2>1. Part(f, field, cur, k, k) = cur
    BY <1>4 DEF Part
  <2> QED BY <1>1, <1>2, <1>4, <2>1
<1> QED BY <1>3, <1>4

\* Nothing goes back to before a dictionary was made.
LEMMA PartLate ==
  ASSUME NEW L \in Nat, NEW f, NEW field, LogTo(f, L, field),
         NEW b \in Nat, NEW c, Chain(f, field, c, b), NEW k \in Nat, k < b
  PROVE  OneBack(f, field, k)
<1>1. \A m \in DOMAIN f : ~ (f[m][field] <= k)
  BY DEF LogTo, Chain
<1> QED BY <1>1 DEF OneBack

\* A record is what it was or one of the log.
LEMMA PartOf ==
  ASSUME NEW f, NEW field, NEW cur, NEW k, NEW l
  PROVE  \/ Part(f, field, cur, k, l) = cur
         \/ \E m \in DOMAIN f : Part(f, field, cur, k, l) = f[m]
<1>1. CASE \E m \in DOMAIN f : l < m /\ f[m][field] <= k
  BY <1>1 DEF Part
<1>2. CASE ~ \E m \in DOMAIN f : l < m /\ f[m][field] <= k
  BY <1>2 DEF Part
<1> QED BY <1>1, <1>2

-----------------------------------------------------------------------------
(* One level goes back: the objects (RstrObj), the headers (RstrDB), and the*)
(* memory (PerformFinalization).                                            *)

\* What slot i of b was if the records sr of one level go back to k.
KeyBack(b, d, i, sr, k) ==
  IF <<d, i>> \in DOMAIN sr.keys /\ sr.keys[<<d, i>>].klevel <= k THEN sr.keys[<<d, i>>]
  ELSE KeyOf(b.table[i])
ValueBack(b, d, i, sr, k) ==
  IF <<d, i>> \in DOMAIN sr.values /\ sr.values[<<d, i>>].vlevel <= k THEN sr.values[<<d, i>>]
  ELSE ValueOf(b.table[i])
HeaderBack(b, d, sr, k) ==
  IF d \in DOMAIN sr.dbs /\ sr.dbs[d].level <= k THEN sr.dbs[d] ELSE HeaderOf(b)
Both(x, y) == [key |-> x.key, klevel |-> x.klevel, value |-> y.value, vlevel |-> y.vlevel]

\* A heap between two levels.
Sound(h) ==
  /\ h = [body |-> h.body, cache |-> h.cache, sr |-> h.sr]
  /\ IsFcn(h.body) /\ DOMAIN h.body = Dict
  /\ h.cache \in [Name -> Binding] /\ CacheOK(h)
  /\ \A d \in Dict : h.body[d] # NIL =>
       h.body[d].size \in 1 .. 2 * MaxLen[d] /\ h.body[d] \in DictBody(h.body[d].size)

TableBack(b, d, sr, k) == [i \in 0 .. b.size - 1 |-> Both(KeyBack(b, d, i, sr, k), ValueBack(b, d, i, sr, k))]
BodyOf(b, t) ==
  [size |-> b.size, curmax |-> b.curmax, curlength |-> b.curlength, access |-> b.access,
   level |-> b.level, table |-> t]

LEMMA BackTyped ==
  ASSUME NEW d \in Dict, NEW b, b.size \in 1 .. 2 * MaxLen[d], b \in DictBody(b.size),
         NEW sr, Undo(sr), NEW k, NEW i \in 0 .. b.size - 1
  PROVE  /\ KeyBack(b, d, i, sr, k) \in KeyRecord
         /\ ValueBack(b, d, i, sr, k) \in ValueRecord
         /\ b.table[i] \in Entry
<1>1. b.table[i] \in Entry
  BY DEF DictBody
<1>2. KeyOf(b.table[i]) \in KeyRecord /\ ValueOf(b.table[i]) \in ValueRecord
  BY <1>1 DEF KeyOf, ValueOf, KeyRecord, ValueRecord, Entry
<1>3. /\ \A p \in DOMAIN sr.keys : sr.keys[p] \in KeyRecord
      /\ \A p \in DOMAIN sr.values : sr.values[p] \in ValueRecord
  BY DEF Undo, Kinds, RecordsOf
<1> QED BY <1>1, <1>2, <1>3 DEF KeyBack, ValueBack

LEMMA BothIs ==
  ASSUME NEW x \in KeyRecord, NEW y \in ValueRecord
  PROVE  Both(x, y) \in Entry /\ KeyOf(Both(x, y)) = x /\ ValueOf(Both(x, y)) = y
  BY DEF Both, Entry, KeyRecord, ValueRecord, KeyOf, ValueOf

\* The objects of a body that went back.
ObjBack(b, g, d, sr, k) ==
  /\ g \in DictBody(b.size) /\ g.size = b.size /\ g.curmax = b.curmax
  /\ HeaderOf(g) = HeaderOf(b)
  /\ \A i \in 0 .. b.size - 1 : KeyOf(g.table[i]) = KeyBack(b, d, i, sr, k)
                               /\ ValueOf(g.table[i]) = ValueBack(b, d, i, sr, k)

LEMMA TableGoesBack ==
  ASSUME NEW d \in Dict, NEW b, b.size \in 1 .. 2 * MaxLen[d], b \in DictBody(b.size),
         NEW sr, Undo(sr), NEW k, NEW g, g = BodyOf(b, TableBack(b, d, sr, k))
  PROVE  ObjBack(b, g, d, sr, k)
<1> DEFINE t == TableBack(b, d, sr, k)
<1>1. ASSUME NEW i \in 0 .. b.size - 1
      PROVE  t[i] \in Entry /\ KeyOf(t[i]) = KeyBack(b, d, i, sr, k) /\ ValueOf(t[i]) = ValueBack(b, d, i, sr, k)
  <2>1. KeyBack(b, d, i, sr, k) \in KeyRecord /\ ValueBack(b, d, i, sr, k) \in ValueRecord
    BY BackTyped
  <2>2. t[i] = Both(KeyBack(b, d, i, sr, k), ValueBack(b, d, i, sr, k))
    BY DEF TableBack
  <2> HIDE DEF t
  <2> QED BY <2>1, <2>2, BothIs
<1>2. t \in [0 .. b.size - 1 -> Entry]
  BY <1>1 DEF TableBack
<1>3. g = BodyOf(b, t)
  OBVIOUS
<1> HIDE DEF t
<1>4. g.table = t /\ g.size = b.size /\ g.curmax = b.curmax /\ HeaderOf(g) = HeaderOf(b)
  BY <1>3 DEF BodyOf, HeaderOf
<1>5. g \in DictBody(b.size)
  BY <1>2, <1>3 DEF BodyOf, DictBody
<1> QED BY <1>1, <1>4, <1>5 DEF ObjBack

LEMMA TableBackIs ==
  ASSUME NEW d \in Dict, NEW b, b.size \in 1 .. 2 * MaxLen[d], b \in DictBody(b.size), NEW sr, NEW k,
         NEW t, t = TableBack(b, d, sr, k)
  PROVE  [b EXCEPT !.table = t] = BodyOf(b, t)
<1>1. b = [size |-> b.size, curmax |-> b.curmax, curlength |-> b.curlength, access |-> b.access,
           level |-> b.level, table |-> b.table]
  BY DEF DictBody
<1> QED BY <1>1 DEF BodyOf

PlacesBack(sr, k) == {p \in DOMAIN sr.keys : sr.keys[p].klevel <= k}
BodiesBack(h, sr, k) ==
  [d \in Dict |-> IF h.body[d] = NIL THEN NIL ELSE BodyOf(h.body[d], TableBack(h.body[d], d, sr, k))]
CacheBut(h, X) == [n \in Name |-> IF n \in X THEN Unbound(h.cache[n]) ELSE h.cache[n]]
With(b, c, s) == [body |-> b, cache |-> c, sr |-> s]

\* An entry of RstrObj.
OldIs(b, d, i, sr, keys, values) ==
  [key    |-> IF <<d, i>> \in keys THEN sr.keys[<<d, i>>].key ELSE b.table[i].key,
   klevel |-> IF <<d, i>> \in keys THEN sr.keys[<<d, i>>].klevel ELSE b.table[i].klevel,
   value  |-> IF <<d, i>> \in values THEN sr.values[<<d, i>>].value ELSE b.table[i].value,
   vlevel |-> IF <<d, i>> \in values THEN sr.values[<<d, i>>].vlevel ELSE b.table[i].vlevel]

LEMMA OldBoth ==
  ASSUME NEW b, NEW d, NEW i, NEW sr, NEW k, NEW keys, NEW values,
         keys = {p \in DOMAIN sr.keys : sr.keys[p].klevel <= k},
         values = {p \in DOMAIN sr.values : sr.values[p].vlevel <= k}
  PROVE  OldIs(b, d, i, sr, keys, values) = Both(KeyBack(b, d, i, sr, k), ValueBack(b, d, i, sr, k))
<1>1. CASE <<d, i>> \in keys /\ <<d, i>> \in values
  BY <1>1 DEF OldIs, Both, KeyBack, ValueBack
<1>2. CASE <<d, i>> \in keys /\ <<d, i>> \notin values
  BY <1>2 DEF OldIs, Both, KeyBack, ValueBack, ValueOf
<1>3. CASE <<d, i>> \notin keys /\ <<d, i>> \in values
  BY <1>3 DEF OldIs, Both, KeyBack, ValueBack, KeyOf
<1>4. CASE <<d, i>> \notin keys /\ <<d, i>> \notin values
  BY <1>4 DEF OldIs, Both, KeyBack, ValueBack, KeyOf, ValueOf
<1> QED BY <1>1, <1>2, <1>3, <1>4

OldTab(b, d, sr, keys, values) == [i \in 0 .. b.size - 1 |-> OldIs(b, d, i, sr, keys, values)]

LEMMA OldTable ==
  ASSUME NEW b, NEW d, NEW sr, NEW k, NEW keys, NEW values,
         keys = {p \in DOMAIN sr.keys : sr.keys[p].klevel <= k},
         values = {p \in DOMAIN sr.values : sr.values[p].vlevel <= k}
  PROVE  OldTab(b, d, sr, keys, values) = TableBack(b, d, sr, k)
<1>1. ASSUME NEW i \in 0 .. b.size - 1
      PROVE  OldIs(b, d, i, sr, keys, values) = Both(KeyBack(b, d, i, sr, k), ValueBack(b, d, i, sr, k))
  BY OldBoth
<1> QED BY <1>1 DEF TableBack, OldTab

LEMMA WithIs ==
  ASSUME NEW h, h = [body |-> h.body, cache |-> h.cache, sr |-> h.sr], NEW B, NEW C
  PROVE  /\ [h EXCEPT !.body = B, !.cache = C] = With(B, C, h.sr)
         /\ [h EXCEPT !.body = B] = With(B, h.cache, h.sr)
<1>1. PICK p : p = [h EXCEPT !.body = B]
  OBVIOUS
<1>2. p = [body |-> B, cache |-> h.cache, sr |-> h.sr]
  BY <1>1
<1>3. [p EXCEPT !.cache = C] = [body |-> B, cache |-> C, sr |-> h.sr]
  BY <1>2
<1> QED BY <1>1, <1>2, <1>3 DEF With

LEMMA RstrObjIs ==
  ASSUME NEW h, Sound(h), NEW sr, NEW k
  PROVE  RstrObj(h, sr, k) = With(BodiesBack(h, sr, k), CacheBut(h, Displaced(h, PlacesBack(sr, k))), h.sr)
<1>0. PICK keys : keys = {p \in DOMAIN sr.keys : sr.keys[p].klevel <= k}
  OBVIOUS
<1>00. PICK values : values = {p \in DOMAIN sr.values : sr.values[p].vlevel <= k}
  OBVIOUS
<1> DEFINE B == [d \in Dict |-> IF h.body[d] = NIL THEN NIL
                   ELSE [h.body[d] EXCEPT !.table = [i \in 0 .. h.body[d].size - 1 |-> OldIs(h.body[d], d, i, sr, keys, values)]]]
           C == [n \in Name |-> IF n \in Displaced(h, keys) THEN Unbound(h.cache[n]) ELSE h.cache[n]]
<1>1. RstrObj(h, sr, k) = [h EXCEPT !.body = B, !.cache = C]
  BY <1>0, <1>00 DEF RstrObj, OldIs, Slots
<1>2. C = CacheBut(h, Displaced(h, PlacesBack(sr, k)))
  BY <1>0 DEF CacheBut, PlacesBack
<1>3. B = BodiesBack(h, sr, k)
  <2>1. ASSUME NEW d \in Dict, h.body[d] # NIL
        PROVE  [h.body[d] EXCEPT !.table = [i \in 0 .. h.body[d].size - 1 |-> OldIs(h.body[d], d, i, sr, keys, values)]]
               = BodyOf(h.body[d], TableBack(h.body[d], d, sr, k))
    <3>0. PICK b : b = h.body[d]
      OBVIOUS
    <3>1. PICK t : t = TableBack(b, d, sr, k)
      OBVIOUS
    <3>2. OldTab(b, d, sr, keys, values) = t
      BY <1>0, <1>00, <3>1, OldTable
    <3>3. b.size \in 1 .. 2 * MaxLen[d] /\ b \in DictBody(b.size)
      BY <2>1, <3>0 DEF Sound
    <3>4. [b EXCEPT !.table = t] = BodyOf(b, t)
      BY <3>1, <3>3, TableBackIs
    <3> QED BY <3>0, <3>1, <3>2, <3>4 DEF OldTab
  <2> QED BY <2>1 DEF BodiesBack
<1>4. h = [body |-> h.body, cache |-> h.cache, sr |-> h.sr]
  BY DEF Sound
<1> HIDE DEF B, C
<1>5. [h EXCEPT !.body = B, !.cache = C] = With(B, C, h.sr)
  BY <1>4, WithIs
<1> QED BY <1>1, <1>2, <1>3, <1>5

\* Headers.
HeadersBack(h, sr, k) ==
  [d \in Dict |-> IF d \in DOMAIN sr.dbs /\ sr.dbs[d].level <= k
                  THEN NewHeader(h.body[d], sr.dbs[d].curlength, sr.dbs[d].access, sr.dbs[d].level)
                  ELSE h.body[d]]

HeaderChange(b, len, acc, l) == [b EXCEPT !.curlength = len, !.access = acc, !.level = l]

LEMMA HeaderChanged ==
  ASSUME NEW b, NEW s, b \in DictBody(s), NEW len, NEW acc, NEW l
  PROVE  HeaderChange(b, len, acc, l) = NewHeader(b, len, acc, l)
<1>1. b = [size |-> b.size, curmax |-> b.curmax, curlength |-> b.curlength, access |-> b.access,
           level |-> b.level, table |-> b.table]
  BY DEF DictBody
<1>2. PICK p : p = [b EXCEPT !.curlength = len]
  OBVIOUS
<1>3. p = [size |-> b.size, curmax |-> b.curmax, curlength |-> len, access |-> b.access,
           level |-> b.level, table |-> b.table]
  BY <1>1, <1>2
<1>4. PICK q : q = [p EXCEPT !.access = acc]
  OBVIOUS
<1>5. q = [size |-> b.size, curmax |-> b.curmax, curlength |-> len, access |-> acc,
           level |-> b.level, table |-> b.table]
  BY <1>3, <1>4
<1>6. [q EXCEPT !.level = l] = [size |-> b.size, curmax |-> b.curmax, curlength |-> len, access |-> acc,
                                level |-> l, table |-> b.table]
  BY <1>5
<1> QED BY <1>2, <1>4, <1>6 DEF NewHeader, HeaderChange

LEMMA RstrDBIs ==
  ASSUME NEW h, Sound(h), NEW sr, NEW k,
         \A d \in DOMAIN sr.dbs : d \in Dict /\ (sr.dbs[d].level <= k => h.body[d] # NIL)
  PROVE  RstrDB(h, sr, k) = With(HeadersBack(h, sr, k), h.cache, h.sr)
<1> DEFINE B == [d \in Dict |-> IF d \in DOMAIN sr.dbs /\ sr.dbs[d].level <= k
                     THEN [h.body[d] EXCEPT !.curlength = sr.dbs[d].curlength,
                                       !.access = sr.dbs[d].access,
                                       !.level = sr.dbs[d].level]
                     ELSE h.body[d]]
<1>1. RstrDB(h, sr, k) = [h EXCEPT !.body = B]
  BY DEF RstrDB
<1>2. B = HeadersBack(h, sr, k)
  <2>1. ASSUME NEW d \in Dict, d \in DOMAIN sr.dbs, sr.dbs[d].level <= k
        PROVE  [h.body[d] EXCEPT !.curlength = sr.dbs[d].curlength, !.access = sr.dbs[d].access,
                                 !.level = sr.dbs[d].level]
               = NewHeader(h.body[d], sr.dbs[d].curlength, sr.dbs[d].access, sr.dbs[d].level)
    <3>0. PICK b : b = h.body[d]
      OBVIOUS
    <3>1. b \in DictBody(b.size)
      BY <2>1, <3>0 DEF Sound
    <3>2. PICK u : u = sr.dbs[d]
      OBVIOUS
    <3>3. HeaderChange(b, u.curlength, u.access, u.level) = NewHeader(b, u.curlength, u.access, u.level)
      BY <3>1, HeaderChanged
    <3> QED BY <3>0, <3>2, <3>3 DEF HeaderChange
  <2> QED BY <2>1 DEF HeadersBack
<1>3. h = [body |-> h.body, cache |-> h.cache, sr |-> h.sr]
  BY DEF Sound
<1> HIDE DEF B
<1>4. [h EXCEPT !.body = B] = With(B, h.cache, h.sr)
  BY <1>3, WithIs
<1> QED BY <1>1, <1>2, <1>4

\* Memory.
GoneAt(l) == {d \in Dict \ Shared : birth[d] = l}
LostAt(h, l) == {n \in Name : \E d \in GoneAt(l) : h.cache[n].dict = d /\ n \in KeysOf(h.body[d])}
BodiesBut(h, X) == [d \in Dict |-> IF d \in X THEN NIL ELSE h.body[d]]

LEMMA FinalizedIs ==
  ASSUME NEW h, Sound(h), NEW l
  PROVE  Finalized(h, l) = With(BodiesBut(h, GoneAt(l)), CacheBut(h, LostAt(h, l)), h.sr)
<1>1. PICK gone : gone = GoneAt(l)
  OBVIOUS
<1> DEFINE B == [d \in Dict |-> IF d \in gone THEN NIL ELSE h.body[d]]
           C == [n \in Name |-> IF \E d \in gone : h.cache[n].dict = d /\ n \in KeysOf(h.body[d])
                         THEN Unbound(h.cache[n]) ELSE h.cache[n]]
<1>2. Finalized(h, l) = [h EXCEPT !.body = B, !.cache = C]
  BY <1>1 DEF Finalized, GoneAt
<1>3. B = BodiesBut(h, GoneAt(l))
  BY <1>1 DEF BodiesBut
<1>4. C = CacheBut(h, LostAt(h, l))
  BY <1>1 DEF CacheBut, LostAt
<1>5. h = [body |-> h.body, cache |-> h.cache, sr |-> h.sr]
  BY DEF Sound
<1> HIDE DEF B, C
<1>6. [h EXCEPT !.body = B, !.cache = C] = With(B, C, h.sr)
  BY <1>5, WithIs
<1> QED BY <1>2, <1>3, <1>4, <1>6

-----------------------------------------------------------------------------
(* What each of them leaves of the heap.                                    *)

\* A binding is what it was or has been given up.
Trimmed(h, g) ==
  \A n \in Name :
    /\ g.cache[n].vec = h.cache[n].vec
    /\ g.cache[n] = h.cache[n] \/ (g.cache[n].dict = NIL /\ g.cache[n].ts = NIL)

LEMMA TrimmedOn ==
  ASSUME NEW h, NEW g, NEW f, Trimmed(h, g), Trimmed(g, f)
  PROVE  Trimmed(h, f)
  BY DEF Trimmed

LEMMA CacheButIs ==
  ASSUME NEW h, h.cache \in [Name -> Binding], NEW X, NEW g, g.cache = CacheBut(h, X)
  PROVE  /\ g.cache \in [Name -> Binding] /\ Trimmed(h, g)
         /\ \A n \in Name : g.cache[n].dict # NIL => n \notin X /\ g.cache[n] = h.cache[n]
<1>1. ASSUME NEW n \in Name
      PROVE  /\ g.cache[n] \in Binding
             /\ g.cache[n] = IF n \in X THEN Unbound(h.cache[n]) ELSE h.cache[n]
             /\ n \in X => g.cache[n].dict = NIL /\ g.cache[n].ts = NIL /\ g.cache[n].vec = h.cache[n].vec
  <2>1. PICK o : o = h.cache[n]
    OBVIOUS
  <2>2. o \in Binding
    BY <2>1
  <2>3. Unbound(o) = [loc |-> NIL, dict |-> NIL, ts |-> NIL, vec |-> o.vec]
    BY <2>2, UnboundRecord
  <2>4. Unbound(o) \in Binding
    BY <2>2, <2>3 DEF Binding
  <2>5. Unbound(o).dict = NIL /\ Unbound(o).ts = NIL /\ Unbound(o).vec = o.vec
    BY <2>3
  <2>6. g.cache[n] = IF n \in X THEN Unbound(o) ELSE o
    BY <2>1 DEF CacheBut
  <2> QED BY <2>1, <2>2, <2>4, <2>5, <2>6
<1>2. g.cache = [n \in Name |-> g.cache[n]]
  BY DEF CacheBut
<1> QED BY <1>1, <1>2 DEF Trimmed

\* The objects of one level went back.
ObjDone(h, g, sr, k) ==
  /\ Sound(g) /\ g.sr = h.sr /\ Trimmed(h, g)
  /\ \A d \in Dict : g.body[d] = NIL <=> h.body[d] = NIL
  /\ \A d \in Dict : h.body[d] # NIL => ObjBack(h.body[d], g.body[d], d, sr, k)

LEMMA WithHas ==
  ASSUME NEW b, NEW c, NEW s, NEW g, g = With(b, c, s)
  PROVE  /\ g.body = b /\ g.cache = c /\ g.sr = s
         /\ g = [body |-> g.body, cache |-> g.cache, sr |-> g.sr]
  BY DEF With

LEMMA BodyLive ==
  ASSUME NEW d \in Dict, NEW s \in 1 .. 2 * MaxLen[d], NEW b \in DictBody(s)
  PROVE  b # NIL /\ b.size = s
  BY DictAssumption DEF DictBody

LEMMA RstrObjGood ==
  ASSUME NEW h, Sound(h), NEW sr, Undo(sr), NEW k, NEW g, g = RstrObj(h, sr, k)
  PROVE  ObjDone(h, g, sr, k)
<1>1. PICK X : X = Displaced(h, PlacesBack(sr, k))
  OBVIOUS
<1>2. g = With(BodiesBack(h, sr, k), CacheBut(h, X), h.sr)
  BY <1>1, RstrObjIs
<1>3. /\ g.body = BodiesBack(h, sr, k) /\ g.cache = CacheBut(h, X) /\ g.sr = h.sr
      /\ g = [body |-> g.body, cache |-> g.cache, sr |-> g.sr]
  BY <1>2, WithHas
<1>4. /\ h.cache \in [Name -> Binding] /\ CacheOK(h)
      /\ \A d \in Dict : h.body[d] # NIL =>
           h.body[d].size \in 1 .. 2 * MaxLen[d] /\ h.body[d] \in DictBody(h.body[d].size)
  BY DEF Sound
<1>5. /\ g.cache \in [Name -> Binding] /\ Trimmed(h, g)
      /\ \A n \in Name : g.cache[n].dict # NIL => n \notin X /\ g.cache[n] = h.cache[n]
  BY <1>3, <1>4, CacheButIs
<1>6. ASSUME NEW d \in Dict, h.body[d] # NIL
      PROVE  /\ g.body[d] # NIL /\ ObjBack(h.body[d], g.body[d], d, sr, k)
             /\ g.body[d].size \in 1 .. 2 * MaxLen[d] /\ g.body[d] \in DictBody(g.body[d].size)
  <2>1. PICK b : b = h.body[d]
    OBVIOUS
  <2>2. PICK b2 : b2 = g.body[d]
    OBVIOUS
  <2>3. b2 = BodyOf(b, TableBack(b, d, sr, k))
    BY <1>3, <1>6, <2>1, <2>2 DEF BodiesBack
  <2>4. b.size \in 1 .. 2 * MaxLen[d] /\ b \in DictBody(b.size)
    BY <1>4, <1>6, <2>1
  <2>5. ObjBack(b, b2, d, sr, k)
    BY <2>3, <2>4, TableGoesBack
  <2>6. b2 \in DictBody(b.size) /\ b2.size = b.size
    BY <2>5 DEF ObjBack
  <2>7. b2 # NIL
    BY <2>4, <2>6, BodyLive
  <2> QED BY <2>1, <2>2, <2>4, <2>5, <2>6, <2>7
<1>7. ASSUME NEW d \in Dict, h.body[d] = NIL PROVE g.body[d] = NIL
  BY <1>3, <1>7 DEF BodiesBack
<1>8. IsFcn(g.body) /\ DOMAIN g.body = Dict
  BY <1>3 DEF BodiesBack, IsFcn
<1>9. CacheOK(g)
  <2> SUFFICES ASSUME NEW n \in Name, g.cache[n].dict # NIL
               PROVE  /\ g.body[g.cache[n].dict] # NIL
                      /\ g.cache[n].loc \in 0 .. g.body[g.cache[n].dict].size - 1
                      /\ g.body[g.cache[n].dict].table[g.cache[n].loc].key = n
    BY DEF CacheOK
  <2>1. PICK d : d = h.cache[n].dict
    OBVIOUS
  <2>2. PICK l : l = h.cache[n].loc
    OBVIOUS
  <2>3. g.cache[n] = h.cache[n] /\ n \notin X /\ d # NIL
    BY <1>5, <2>1
  <2>4. d \in Dict
    BY <1>4, <2>1, <2>3 DEF Binding
  <2>5. h.body[d] # NIL /\ l \in 0 .. h.body[d].size - 1 /\ h.body[d].table[l].key = n
    BY <1>4, <2>1, <2>2, <2>3 DEF CacheOK
  <2>6. <<d, l>> \notin PlacesBack(sr, k)
    BY <1>1, <2>1, <2>2, <2>3, <2>5 DEF Displaced
  <2>7. KeyBack(h.body[d], d, l, sr, k) = KeyOf(h.body[d].table[l])
    BY <2>6 DEF KeyBack, PlacesBack
  <2>8. g.body[d] # NIL /\ ObjBack(h.body[d], g.body[d], d, sr, k)
    BY <1>6, <2>4, <2>5
  <2>9. g.body[d].size = h.body[d].size /\ KeyOf(g.body[d].table[l]) = KeyOf(h.body[d].table[l])
    BY <2>5, <2>7, <2>8 DEF ObjBack
  <2>10. g.body[d].table[l].key = n
    BY <2>5, <2>9, KeyOfKey
  <2> QED BY <2>1, <2>2, <2>3, <2>5, <2>8, <2>9, <2>10
<1>10. Sound(g)
  BY <1>3, <1>5, <1>6, <1>7, <1>8, <1>9 DEF Sound
<1> QED BY <1>3, <1>5, <1>6, <1>7, <1>10 DEF ObjDone

\* The headers of one level went back.
DBDone(h, g, sr, k) ==
  /\ Sound(g) /\ g.sr = h.sr /\ g.cache = h.cache
  /\ \A d \in Dict : g.body[d] = NIL <=> h.body[d] = NIL
  /\ \A d \in Dict : h.body[d] # NIL =>
       /\ g.body[d].size = h.body[d].size /\ g.body[d].curmax = h.body[d].curmax
       /\ g.body[d].table = h.body[d].table
       /\ HeaderOf(g.body[d]) = HeaderBack(h.body[d], d, sr, k)

LEMMA HeaderGoesBack ==
  ASSUME NEW d \in Dict, NEW s \in 1 .. 2 * MaxLen[d], NEW b \in DictBody(s), NEW u \in HeaderRecord,
         NEW g, g = NewHeader(b, u.curlength, u.access, u.level)
  PROVE  /\ g \in DictBody(s) /\ g # NIL /\ g.size = b.size /\ g.curmax = b.curmax /\ g.table = b.table
         /\ HeaderOf(g) = u
<1>1. g \in DictBody(s)
  BY DEF NewHeader, DictBody, HeaderRecord
<1>2. g # NIL
  BY <1>1, BodyLive
<1>3. u = [curlength |-> u.curlength, access |-> u.access, level |-> u.level]
  BY DEF HeaderRecord
<1> QED BY <1>1, <1>2, <1>3 DEF NewHeader, HeaderOf

LEMMA RstrDBGood ==
  ASSUME NEW h, Sound(h), NEW sr, Undo(sr), NEW k,
         \A d \in DOMAIN sr.dbs : d \in Dict /\ (sr.dbs[d].level <= k => h.body[d] # NIL),
         NEW g, g = RstrDB(h, sr, k)
  PROVE  DBDone(h, g, sr, k)
<1>1. g = With(HeadersBack(h, sr, k), h.cache, h.sr)
  BY RstrDBIs
<1>2. /\ g.body = HeadersBack(h, sr, k) /\ g.cache = h.cache /\ g.sr = h.sr
      /\ g = [body |-> g.body, cache |-> g.cache, sr |-> g.sr]
  BY <1>1, WithHas
<1>3. /\ h.cache \in [Name -> Binding] /\ CacheOK(h)
      /\ \A d \in Dict : h.body[d] # NIL =>
           h.body[d].size \in 1 .. 2 * MaxLen[d] /\ h.body[d] \in DictBody(h.body[d].size)
  BY DEF Sound
<1>4. ASSUME NEW d \in Dict, h.body[d] # NIL
      PROVE  /\ g.body[d] # NIL
             /\ g.body[d].size = h.body[d].size /\ g.body[d].curmax = h.body[d].curmax
             /\ g.body[d].table = h.body[d].table
             /\ HeaderOf(g.body[d]) = HeaderBack(h.body[d], d, sr, k)
             /\ g.body[d] \in DictBody(h.body[d].size)
  <2>1. PICK b : b = h.body[d]
    OBVIOUS
  <2>2. b.size \in 1 .. 2 * MaxLen[d] /\ b \in DictBody(b.size)
    BY <1>3, <1>4, <2>1
  <2>3. CASE d \in DOMAIN sr.dbs /\ sr.dbs[d].level <= k
    <3>1. PICK u : u = sr.dbs[d]
      OBVIOUS
    <3>2. u \in HeaderRecord
      BY <2>3, <3>1 DEF Undo, Kinds, RecordsOf
    <3>3. PICK c : c = NewHeader(b, u.curlength, u.access, u.level)
      OBVIOUS
    <3>4. g.body[d] = c
      BY <1>2, <2>1, <2>3, <3>1, <3>3 DEF HeadersBack
    <3>5. /\ c \in DictBody(b.size) /\ c # NIL /\ c.size = b.size /\ c.curmax = b.curmax /\ c.table = b.table
          /\ HeaderOf(c) = u
      BY <2>2, <3>2, <3>3, HeaderGoesBack
    <3>6. HeaderBack(b, d, sr, k) = u
      BY <2>3, <3>1 DEF HeaderBack
    <3> QED BY <2>1, <3>4, <3>5, <3>6
  <2>4. CASE ~ (d \in DOMAIN sr.dbs /\ sr.dbs[d].level <= k)
    <3>1. g.body[d] = b
      BY <1>2, <2>1, <2>4 DEF HeadersBack
    <3>2. HeaderBack(b, d, sr, k) = HeaderOf(b)
      BY <2>4 DEF HeaderBack
    <3> QED BY <1>4, <2>1, <2>2, <3>1, <3>2
  <2> QED BY <2>3, <2>4
<1>5. ASSUME NEW d \in Dict, h.body[d] = NIL PROVE g.body[d] = NIL
  BY <1>2, <1>5 DEF HeadersBack
<1>6. IsFcn(g.body) /\ DOMAIN g.body = Dict
  BY <1>2 DEF HeadersBack, IsFcn
<1>7. CacheOK(g)
  <2> SUFFICES ASSUME NEW n \in Name, h.cache[n].dict # NIL
               PROVE  /\ g.body[h.cache[n].dict] # NIL
                      /\ h.cache[n].loc \in 0 .. g.body[h.cache[n].dict].size - 1
                      /\ g.body[h.cache[n].dict].table[h.cache[n].loc].key = n
    BY <1>2 DEF CacheOK
  <2>1. PICK d : d = h.cache[n].dict
    OBVIOUS
  <2>2. d \in Dict
    BY <1>3, <2>1 DEF Binding
  <2>3. h.body[d] # NIL /\ h.cache[n].loc \in 0 .. h.body[d].size - 1
        /\ h.body[d].table[h.cache[n].loc].key = n
    BY <1>3, <2>1 DEF CacheOK
  <2>4. g.body[d] # NIL /\ g.body[d].size = h.body[d].size /\ g.body[d].table = h.body[d].table
    BY <1>4, <2>2, <2>3
  <2> QED BY <2>1, <2>3, <2>4
<1>8. Sound(g)
  BY <1>2, <1>3, <1>4, <1>5, <1>6, <1>7 DEF Sound
<1> QED BY <1>2, <1>4, <1>5, <1>8 DEF DBDone

\* The memory of one level was given back.
FinDone(h, g, l) ==
  /\ Sound(g) /\ g.sr = h.sr /\ Trimmed(h, g)
  /\ \A d \in Dict : g.body[d] = IF d \in GoneAt(l) THEN NIL ELSE h.body[d]

LEMMA FinalizedGood ==
  ASSUME NEW h, Sound(h), NEW l, NEW g, g = Finalized(h, l)
  PROVE  FinDone(h, g, l)
<1>1. PICK X : X = LostAt(h, l)
  OBVIOUS
<1>2. g = With(BodiesBut(h, GoneAt(l)), CacheBut(h, X), h.sr)
  BY <1>1, FinalizedIs
<1>3. /\ g.body = BodiesBut(h, GoneAt(l)) /\ g.cache = CacheBut(h, X) /\ g.sr = h.sr
      /\ g = [body |-> g.body, cache |-> g.cache, sr |-> g.sr]
  BY <1>2, WithHas
<1>4. /\ h.cache \in [Name -> Binding] /\ CacheOK(h)
      /\ \A d \in Dict : h.body[d] # NIL =>
           h.body[d].size \in 1 .. 2 * MaxLen[d] /\ h.body[d] \in DictBody(h.body[d].size)
  BY DEF Sound
<1>5. /\ g.cache \in [Name -> Binding] /\ Trimmed(h, g)
      /\ \A n \in Name : g.cache[n].dict # NIL => n \notin X /\ g.cache[n] = h.cache[n]
  BY <1>3, <1>4, CacheButIs
<1>6. \A d \in Dict : g.body[d] = IF d \in GoneAt(l) THEN NIL ELSE h.body[d]
  BY <1>3 DEF BodiesBut
<1>7. IsFcn(g.body) /\ DOMAIN g.body = Dict
  BY <1>3 DEF BodiesBut, IsFcn
<1>8. CacheOK(g)
  <2> SUFFICES ASSUME NEW n \in Name, g.cache[n].dict # NIL
               PROVE  /\ g.body[g.cache[n].dict] # NIL
                      /\ g.cache[n].loc \in 0 .. g.body[g.cache[n].dict].size - 1
                      /\ g.body[g.cache[n].dict].table[g.cache[n].loc].key = n
    BY DEF CacheOK
  <2>1. PICK d : d = h.cache[n].dict
    OBVIOUS
  <2>3. g.cache[n] = h.cache[n] /\ n \notin X /\ d # NIL
    BY <1>5, <2>1
  <2>4. d \in Dict
    BY <1>4, <2>1, <2>3 DEF Binding
  <2>5. h.body[d] # NIL /\ h.cache[n].loc \in 0 .. h.body[d].size - 1 /\ h.body[d].table[h.cache[n].loc].key = n
    BY <1>4, <2>1, <2>3 DEF CacheOK
  <2>6. n \in KeysOf(h.body[d])
    BY <2>5, NilNot DEF KeysOf, Slots
  <2>7. d \notin GoneAt(l)
    BY <1>1, <2>1, <2>3, <2>6 DEF LostAt
  <2> QED BY <1>6, <2>1, <2>3, <2>4, <2>5, <2>7
<1>9. Sound(g)
  <2>1. \A d \in Dict : g.body[d] # NIL =>
           g.body[d].size \in 1 .. 2 * MaxLen[d] /\ g.body[d] \in DictBody(g.body[d].size)
    BY <1>4, <1>6
  <2> QED BY <1>3, <1>5, <1>7, <1>8, <2>1 DEF Sound
<1> QED BY <1>3, <1>5, <1>6, <1>9 DEF FinDone

-----------------------------------------------------------------------------
(* All levels above l have gone back.                                       *)

\* A body when the levels above l are undone.
BodyBack(h, b, d, k, l) ==
  /\ b.size = h.body[d].size /\ b.curmax = h.body[d].curmax
  /\ HeaderOf(b) = Part(Log(h.sr, "dbs", d), "level", HeaderOf(h.body[d]), k, l)
  /\ \A i \in 0 .. h.body[d].size - 1 :
       /\ KeyOf(b.table[i]) = Part(Log(h.sr, "keys", <<d, i>>), "klevel", KeyOf(h.body[d].table[i]), k, l)
       /\ ValueOf(b.table[i]) = Part(Log(h.sr, "values", <<d, i>>), "vlevel", ValueOf(h.body[d].table[i]), k, l)

Down(h, g, k, l) ==
  /\ Sound(g) /\ g.sr = h.sr /\ Trimmed(h, g)
  /\ \A d \in Dict : g.body[d] # NIL <=> h.body[d] # NIL /\ birth[d] <= l
  /\ \A d \in Dict : g.body[d] # NIL => BodyBack(h, g.body[d], d, k, l)

LEMMA LogAt ==
  ASSUME NEW sr, NEW kind, NEW p, NEW m
  PROVE  /\ m \in DOMAIN Log(sr, kind, p) <=> m \in DOMAIN sr /\ p \in DOMAIN sr[m][kind]
         /\ m \in DOMAIN Log(sr, kind, p) => Log(sr, kind, p)[m] = sr[m][kind][p]
  BY DEF Log

\* The three logs of a dictionary.
LogsTo(h, d) ==
  /\ LogTo(Log(h.sr, "dbs", d), level, "level")
  /\ \A i : LogTo(Log(h.sr, "keys", <<d, i>>), level, "klevel")
            /\ LogTo(Log(h.sr, "values", <<d, i>>), level, "vlevel")
LogsBack(h, d, k) ==
  /\ OneBack(Log(h.sr, "dbs", d), "level", k)
  /\ \A i \in 0 .. h.body[d].size - 1 : OneBack(Log(h.sr, "keys", <<d, i>>), "klevel", k)
                                       /\ OneBack(Log(h.sr, "values", <<d, i>>), "vlevel", k)

LEMMA LogsTyped ==
  ASSUME level \in Nat, NEW h, Typed(h), NEW d
  PROVE  LogsTo(h, d)
<1>1. LogTo(Log(h.sr, "dbs", d), level, "level")
  BY LogTyped DEF LogTo, Kinds, FieldOf
<1>2. ASSUME NEW i PROVE LogTo(Log(h.sr, "keys", <<d, i>>), level, "klevel")
  BY LogTyped DEF LogTo, Kinds, FieldOf
<1>3. ASSUME NEW i PROVE LogTo(Log(h.sr, "values", <<d, i>>), level, "vlevel")
  BY LogTyped DEF LogTo, Kinds, FieldOf
<1> QED BY <1>1, <1>2, <1>3 DEF LogsTo

LEMMA OneGoesBack ==
  ASSUME level \in Nat, NEW f, NEW field, LogTo(f, level, field),
         NEW b \in 0 .. level, NEW c \in Nat, NEW cur, cur[field] = c, Chain(f, field, c, b),
         NEW k \in 0 .. level
  PROVE  OneBack(f, field, k)
<1>1. CASE k < b
  BY <1>1, PartLate
<1>2. CASE ~ (k < b)
  <2>1. k \in b .. level /\ b \in Nat
    BY <1>2
  <2> QED BY <2>1, PartAll
<1> QED BY <1>1, <1>2

LEMMA LoggedHeader ==
  ASSUME NEW h, Formed(h), NEW d \in Dict, h.body[d] # NIL
  PROVE  /\ Sized(d, h.body[d]) /\ h.body[d].level \in Nat /\ h.body[d].level <= level
         /\ birth[d] \in 0 .. level
         /\ Chain(Log(h.sr, "dbs", d), "level", h.body[d].level, birth[d])
  BY DEF Formed, Logged, Sized, DictBody

LEMMA LogsGoBack ==
  ASSUME level \in Nat, NEW h, Formed(h), NEW d \in Dict, h.body[d] # NIL, NEW k \in 0 .. level
  PROVE  LogsTo(h, d) /\ LogsBack(h, d, k)
<1>1. LogsTo(h, d)
  BY LogsTyped DEF Formed
<1>2. OneBack(Log(h.sr, "dbs", d), "level", k)
  <2>1. PICK c : c = h.body[d].level
    OBVIOUS
  <2>2. PICK cur : cur = HeaderOf(h.body[d])
    OBVIOUS
  <2>3. PICK f : f = Log(h.sr, "dbs", d)
    OBVIOUS
  <2>4. c \in Nat /\ birth[d] \in 0 .. level /\ Chain(f, "level", c, birth[d])
    BY <2>1, <2>3, LoggedHeader
  <2>5. cur["level"] = c
    BY <2>1, <2>2 DEF HeaderOf
  <2>6. LogTo(f, level, "level")
    BY <1>1, <2>3 DEF LogsTo
  <2>7. OneBack(f, "level", k)
    BY <2>4, <2>5, <2>6, OneGoesBack
  <2> QED BY <2>3, <2>7
<1>3. ASSUME NEW i \in 0 .. h.body[d].size - 1
      PROVE  OneBack(Log(h.sr, "keys", <<d, i>>), "klevel", k) /\ OneBack(Log(h.sr, "values", <<d, i>>), "vlevel", k)
  <2>1. PICK o : o = h.body[d].table[i]
    OBVIOUS
  <2>2. PICK f : f = Log(h.sr, "keys", <<d, i>>)
    OBVIOUS
  <2>3. PICK e : e = Log(h.sr, "values", <<d, i>>)
    OBVIOUS
  <2>4. /\ birth[d] \in 0 .. level /\ o.klevel \in Nat /\ o.vlevel \in Nat
        /\ Chain(f, "klevel", o.klevel, birth[d]) /\ Chain(e, "vlevel", o.vlevel, birth[d])
    BY <2>1, <2>2, <2>3, LoggedSlot
  <2>5. PICK x : x = KeyOf(o)
    OBVIOUS
  <2>6. PICK y : y = ValueOf(o)
    OBVIOUS
  <2>7. x["klevel"] = o.klevel /\ y["vlevel"] = o.vlevel
    BY <2>5, <2>6 DEF KeyOf, ValueOf
  <2>8. LogTo(f, level, "klevel") /\ LogTo(e, level, "vlevel")
    BY <1>1, <2>2, <2>3 DEF LogsTo
  <2>9. OneBack(f, "klevel", k)
    BY <2>4, <2>7, <2>8, OneGoesBack
  <2>10. OneBack(e, "vlevel", k)
    BY <2>4, <2>7, <2>8, OneGoesBack
  <2> QED BY <2>2, <2>3, <2>9, <2>10
<1> QED BY <1>1, <1>2, <1>3 DEF LogsBack

LEMMA HeapSound ==
  ASSUME NEW h, HeapOK(h)
  PROVE  Sound(h)
<1>1. Formed(h) /\ CacheOK(h) /\ Typed(h)
  BY DEF HeapOK, Formed
<1>2. \A d \in Dict : h.body[d] # NIL => Sized(d, h.body[d])
  BY <1>1 DEF Formed
<1> QED BY <1>1, <1>2 DEF Typed, Sized, Sound

LEMMA DownFirst ==
  ASSUME level \in Nat, NEW h, HeapOK(h), NEW k
  PROVE  Down(h, h, k, level)
<1>1. Formed(h) /\ Typed(h) /\ Sound(h)
  BY HeapSound DEF HeapOK, Formed
<1>2. Trimmed(h, h)
  BY DEF Trimmed
<1>3. \A d \in Dict : h.body[d] # NIL => birth[d] \in 0 .. level
  BY <1>1, LoggedHeader
<1>4. ASSUME NEW d \in Dict PROVE BodyBack(h, h.body[d], d, k, level)
  <2>1. LogsTo(h, d)
    BY <1>1, LogsTyped
  <2> QED BY <2>1, PartNone DEF LogsTo, BodyBack
<1> QED BY <1>1, <1>2, <1>3, <1>4 DEF Down

OneDown(g, k, l) == Finalized(RstrDB(RstrObj(g, g.sr[l], k), g.sr[l], k), l)

\* One level more of the records of a body.
LevelBack(b, c, d, sr, k) ==
  /\ c.size = b.size /\ c.curmax = b.curmax
  /\ HeaderOf(c) = HeaderBack(b, d, sr, k)
  /\ \A i \in 0 .. b.size - 1 : KeyOf(c.table[i]) = KeyBack(b, d, i, sr, k)
                               /\ ValueOf(c.table[i]) = ValueBack(b, d, i, sr, k)

LEMMA BodyNext ==
  ASSUME level \in Nat, NEW h, Formed(h), NEW d \in Dict, h.body[d] # NIL, NEW k \in 0 .. level,
         NEW l \in Nat, k <= l, l + 1 <= level, NEW b, BodyBack(h, b, d, k, l + 1),
         NEW c, LevelBack(b, c, d, h.sr[l + 1], k)
  PROVE  BodyBack(h, c, d, k, l)
<1>1. LogsTo(h, d) /\ LogsBack(h, d, k) /\ k \in Nat /\ level \in Nat
  BY LogsGoBack
<1>2. DOMAIN h.sr = 1 .. level /\ l + 1 \in DOMAIN h.sr
  BY DEF Formed, Typed
<1>3. c.size = h.body[d].size /\ c.curmax = h.body[d].curmax /\ b.size = h.body[d].size
  BY DEF LevelBack, BodyBack
<1>4. HeaderOf(c) = Part(Log(h.sr, "dbs", d), "level", HeaderOf(h.body[d]), k, l)
  <2>1. PICK f : f = Log(h.sr, "dbs", d)
    OBVIOUS
  <2>2. PICK cur : cur = HeaderOf(h.body[d])
    OBVIOUS
  <2>3. LogTo(f, level, "level") /\ OneBack(f, "level", k)
    BY <1>1, <2>1 DEF LogsTo, LogsBack
  <2>4. Part(f, "level", cur, k, l) =
          IF l + 1 \in DOMAIN f /\ f[l + 1]["level"] <= k THEN f[l + 1] ELSE Part(f, "level", cur, k, l + 1)
    <3>1. PICK field : field = "level"
      OBVIOUS
    <3>2. LogTo(f, level, field) /\ OneBack(f, field, k)
      BY <2>3, <3>1
    <3>3. Part(f, field, cur, k, l) =
            IF l + 1 \in DOMAIN f /\ f[l + 1][field] <= k THEN f[l + 1] ELSE Part(f, field, cur, k, l + 1)
      BY <1>1, <3>2, PartNext
    <3> QED BY <3>1, <3>3
  <2>5. HeaderOf(b) = Part(f, "level", cur, k, l + 1)
    BY <2>1, <2>2 DEF BodyBack
  <2>6. /\ l + 1 \in DOMAIN f <=> d \in DOMAIN h.sr[l + 1].dbs
        /\ l + 1 \in DOMAIN f => f[l + 1] = h.sr[l + 1].dbs[d]
    BY <1>2, <2>1, LogAt
  <2>7. HeaderOf(c) = IF d \in DOMAIN h.sr[l + 1].dbs /\ h.sr[l + 1].dbs[d].level <= k
                      THEN h.sr[l + 1].dbs[d] ELSE HeaderOf(b)
    BY DEF LevelBack, HeaderBack
  <2> QED BY <2>1, <2>2, <2>4, <2>5, <2>6, <2>7
<1>5. ASSUME NEW i \in 0 .. h.body[d].size - 1
      PROVE  KeyOf(c.table[i]) = Part(Log(h.sr, "keys", <<d, i>>), "klevel", KeyOf(h.body[d].table[i]), k, l)
  <2>1. PICK f : f = Log(h.sr, "keys", <<d, i>>)
    OBVIOUS
  <2>2. PICK cur : cur = KeyOf(h.body[d].table[i])
    OBVIOUS
  <2>3. LogTo(f, level, "klevel") /\ OneBack(f, "klevel", k)
    BY <1>1, <2>1 DEF LogsTo, LogsBack
  <2>4. Part(f, "klevel", cur, k, l) =
          IF l + 1 \in DOMAIN f /\ f[l + 1]["klevel"] <= k THEN f[l + 1] ELSE Part(f, "klevel", cur, k, l + 1)
    <3>1. PICK field : field = "klevel"
      OBVIOUS
    <3>2. LogTo(f, level, field) /\ OneBack(f, field, k)
      BY <2>3, <3>1
    <3>3. Part(f, field, cur, k, l) =
            IF l + 1 \in DOMAIN f /\ f[l + 1][field] <= k THEN f[l + 1] ELSE Part(f, field, cur, k, l + 1)
      BY <1>1, <3>2, PartNext
    <3> QED BY <3>1, <3>3
  <2>5. KeyOf(b.table[i]) = Part(f, "klevel", cur, k, l + 1)
    BY <2>1, <2>2 DEF BodyBack
  <2>6. /\ l + 1 \in DOMAIN f <=> <<d, i>> \in DOMAIN h.sr[l + 1].keys
        /\ l + 1 \in DOMAIN f => f[l + 1] = h.sr[l + 1].keys[<<d, i>>]
    BY <1>2, <2>1, LogAt
  <2>7. KeyOf(c.table[i]) = IF <<d, i>> \in DOMAIN h.sr[l + 1].keys /\ h.sr[l + 1].keys[<<d, i>>].klevel <= k
                      THEN h.sr[l + 1].keys[<<d, i>>] ELSE KeyOf(b.table[i])
    BY <1>3 DEF LevelBack, KeyBack
  <2> QED BY <2>1, <2>2, <2>4, <2>5, <2>6, <2>7
<1>6. ASSUME NEW i \in 0 .. h.body[d].size - 1
      PROVE  ValueOf(c.table[i]) = Part(Log(h.sr, "values", <<d, i>>), "vlevel", ValueOf(h.body[d].table[i]), k, l)
  <2>1. PICK f : f = Log(h.sr, "values", <<d, i>>)
    OBVIOUS
  <2>2. PICK cur : cur = ValueOf(h.body[d].table[i])
    OBVIOUS
  <2>3. LogTo(f, level, "vlevel") /\ OneBack(f, "vlevel", k)
    BY <1>1, <2>1 DEF LogsTo, LogsBack
  <2>4. Part(f, "vlevel", cur, k, l) =
          IF l + 1 \in DOMAIN f /\ f[l + 1]["vlevel"] <= k THEN f[l + 1] ELSE Part(f, "vlevel", cur, k, l + 1)
    <3>1. PICK field : field = "vlevel"
      OBVIOUS
    <3>2. LogTo(f, level, field) /\ OneBack(f, field, k)
      BY <2>3, <3>1
    <3>3. Part(f, field, cur, k, l) =
            IF l + 1 \in DOMAIN f /\ f[l + 1][field] <= k THEN f[l + 1] ELSE Part(f, field, cur, k, l + 1)
      BY <1>1, <3>2, PartNext
    <3> QED BY <3>1, <3>3
  <2>5. ValueOf(b.table[i]) = Part(f, "vlevel", cur, k, l + 1)
    BY <2>1, <2>2 DEF BodyBack
  <2>6. /\ l + 1 \in DOMAIN f <=> <<d, i>> \in DOMAIN h.sr[l + 1].values
        /\ l + 1 \in DOMAIN f => f[l + 1] = h.sr[l + 1].values[<<d, i>>]
    BY <1>2, <2>1, LogAt
  <2>7. ValueOf(c.table[i]) = IF <<d, i>> \in DOMAIN h.sr[l + 1].values /\ h.sr[l + 1].values[<<d, i>>].vlevel <= k
                      THEN h.sr[l + 1].values[<<d, i>>] ELSE ValueOf(b.table[i])
    BY <1>3 DEF LevelBack, ValueBack
  <2> QED BY <2>1, <2>2, <2>4, <2>5, <2>6, <2>7
<1> QED BY <1>3, <1>4, <1>5, <1>6 DEF BodyBack

LEMMA DownNext ==
  ASSUME level \in Nat, NEW h, HeapOK(h), NEW k \in 0 .. level,
         NEW l \in Nat, k <= l, l + 1 <= level, NEW g, Down(h, g, k, l + 1),
         NEW f, f = OneDown(g, k, l + 1)
  PROVE  Down(h, f, k, l)
<1>0. PICK sr : sr = h.sr[l + 1]
  OBVIOUS
<1>1. Formed(h) /\ Typed(h) /\ Recording(h)
  BY DEF HeapOK, Formed
<1>2. /\ Sound(g) /\ g.sr = h.sr /\ Trimmed(h, g)
      /\ \A d \in Dict : g.body[d] # NIL <=> h.body[d] # NIL /\ birth[d] <= l + 1
      /\ \A d \in Dict : g.body[d] # NIL => BodyBack(h, g.body[d], d, k, l + 1)
  BY DEF Down
<1>3. l + 1 \in 1 .. level /\ Undo(sr) /\ DOMAIN h.sr = 1 .. level
  BY <1>0, <1>1 DEF Typed
<1>4. \A d \in Dict : h.body[d] # NIL => birth[d] \in 0 .. level /\ (d \in Shared => birth[d] = 0)
  BY <1>1 DEF Formed, Logged
<1>5. PICK r1 : r1 = RstrObj(g, sr, k)
  OBVIOUS
<1>6. PICK r2 : r2 = RstrDB(r1, sr, k)
  OBVIOUS
<1>7. f = Finalized(r2, l + 1)
  BY <1>0, <1>2, <1>5, <1>6 DEF OneDown
<1>8. ObjDone(g, r1, sr, k)
  BY <1>2, <1>3, <1>5, RstrObjGood
<1>9. /\ Sound(r1) /\ r1.sr = h.sr /\ Trimmed(g, r1)
      /\ \A d \in Dict : r1.body[d] = NIL <=> g.body[d] = NIL
      /\ \A d \in Dict : g.body[d] # NIL => ObjBack(g.body[d], r1.body[d], d, sr, k)
  BY <1>2, <1>8 DEF ObjDone
<1>10. ASSUME NEW d \in DOMAIN sr.dbs PROVE d \in Dict /\ (sr.dbs[d].level <= k => r1.body[d] # NIL)
  <2>1. d \in Dict
    BY <1>3 DEF Undo, Kinds, PlacesOf
  <2>2. h.body[d] # NIL
    BY <1>0, <1>1, <1>3 DEF Recording
  <2>3. PICK e : e = Log(h.sr, "dbs", d)
    OBVIOUS
  <2>4. l + 1 \in DOMAIN e /\ e[l + 1] = sr.dbs[d]
    BY <1>0, <1>3, <2>3, LogAt
  <2>5. Chain(e, "level", h.body[d].level, birth[d])
    BY <1>1, <2>1, <2>2, <2>3, LoggedHeader
  <2>6. birth[d] <= e[l + 1]["level"]
    BY <2>4, <2>5 DEF Chain
  <2>7. birth[d] \in Nat
    BY <1>4, <2>1, <2>2
  <2>8. sr.dbs[d].level \in Nat
    BY <1>3 DEF Undo, Kinds, RecordsOf, HeaderRecord
  <2>9. sr.dbs[d].level <= k => birth[d] <= l + 1
    BY <2>4, <2>6, <2>7, <2>8
  <2> QED BY <1>2, <1>9, <2>1, <2>2, <2>9
<1>11. DBDone(r1, r2, sr, k)
  BY <1>3, <1>6, <1>9, <1>10, RstrDBGood
<1>12. /\ Sound(r2) /\ r2.sr = h.sr /\ r2.cache = r1.cache
       /\ \A d \in Dict : r2.body[d] = NIL <=> r1.body[d] = NIL
       /\ \A d \in Dict : r1.body[d] # NIL =>
            /\ r2.body[d].size = r1.body[d].size /\ r2.body[d].curmax = r1.body[d].curmax
            /\ r2.body[d].table = r1.body[d].table
            /\ HeaderOf(r2.body[d]) = HeaderBack(r1.body[d], d, sr, k)
  BY <1>9, <1>11 DEF DBDone
<1>13. FinDone(r2, f, l + 1)
  BY <1>7, <1>12, FinalizedGood
<1>14. /\ Sound(f) /\ f.sr = h.sr /\ Trimmed(r2, f)
       /\ \A d \in Dict : f.body[d] = IF d \in GoneAt(l + 1) THEN NIL ELSE r2.body[d]
  BY <1>12, <1>13 DEF FinDone
<1>15. Trimmed(h, f)
  <2>1. Trimmed(g, r2)
    BY <1>9, <1>12 DEF Trimmed
  <2>2. Trimmed(g, f)
    BY <1>14, <2>1, TrimmedOn
  <2> QED BY <1>2, <2>2, TrimmedOn
<1>16. ASSUME NEW d \in Dict PROVE f.body[d] # NIL <=> h.body[d] # NIL /\ birth[d] <= l
  <2>1. r2.body[d] # NIL <=> h.body[d] # NIL /\ birth[d] <= l + 1
    BY <1>2, <1>9, <1>12
  <2>2. f.body[d] = IF d \in GoneAt(l + 1) THEN NIL ELSE r2.body[d]
    BY <1>14
  <2>3. h.body[d] # NIL => birth[d] \in 0 .. level /\ (d \in Shared => birth[d] = 0)
    BY <1>4
  <2> QED BY <2>1, <2>2, <2>3 DEF GoneAt
<1>17. ASSUME NEW d \in Dict, f.body[d] # NIL PROVE BodyBack(h, f.body[d], d, k, l)
  <2>1. f.body[d] = r2.body[d] /\ r2.body[d] # NIL /\ r1.body[d] # NIL /\ g.body[d] # NIL /\ h.body[d] # NIL
    BY <1>2, <1>9, <1>12, <1>14, <1>17
  <2>2. PICK b : b = g.body[d]
    OBVIOUS
  <2>3. PICK c : c = f.body[d]
    OBVIOUS
  <2>4. PICK b1 : b1 = r1.body[d]
    OBVIOUS
  <2>5. ObjBack(b, b1, d, sr, k)
    BY <1>9, <2>1, <2>2, <2>4
  <2>6. /\ c.size = b1.size /\ c.curmax = b1.curmax /\ c.table = b1.table
        /\ HeaderOf(c) = HeaderBack(b1, d, sr, k)
    BY <1>12, <2>1, <2>3, <2>4
  <2>7. HeaderBack(b1, d, sr, k) = HeaderBack(b, d, sr, k)
    BY <2>5 DEF ObjBack, HeaderBack
  <2>8. LevelBack(b, c, d, sr, k)
    BY <2>5, <2>6, <2>7 DEF ObjBack, LevelBack
  <2>9. BodyBack(h, b, d, k, l + 1)
    BY <1>2, <2>1, <2>2
  <2>10. BodyBack(h, c, d, k, l)
    BY <1>0, <1>1, <2>1, <2>8, <2>9, BodyNext
  <2> QED BY <2>3, <2>10
<1> QED BY <1>14, <1>15, <1>16, <1>17 DEF Down

-----------------------------------------------------------------------------
(* The levels one after the other, down to the one restored to.             *)

\* The levels undone one after the other, down to level l0.
Downs(f, h, k, l0) == f = [l \in l0 .. level |-> IF l = level THEN h ELSE OneDown(f[l + 1], k, l + 1)]

LEMMA DownsExists ==
  ASSUME level \in Nat, NEW h, NEW k
  PROVE  \A j \in Nat : \E f : Downs(f, h, k, level - j)
<1> DEFINE S == {j \in Nat : \E f : Downs(f, h, k, level - j)}
<1>1. 0 \in S
  <2> DEFINE f == [l \in level - 0 .. level |-> h]
  <2>1. \A l \in level - 0 .. level : l = level
    OBVIOUS
  <2>2. Downs(f, h, k, level - 0)
    BY <2>1 DEF Downs
  <2> QED BY <2>2
<1>2. ASSUME NEW j \in Nat, j \in S PROVE j + 1 \in S
  <2>1. PICK f : Downs(f, h, k, level - j)
    BY <1>2
  <2>0. PICK m : m = level - (j + 1)
    OBVIOUS
  <2>m. m \in Int /\ m + 1 = level - j /\ m + 1 <= level /\ m # level
    BY <2>0
  <2> DEFINE g == [l \in m .. level |-> IF l = m THEN OneDown(f[m + 1], k, m + 1) ELSE f[l]]
  <2>2. ASSUME NEW l \in m .. level
        PROVE  g[l] = IF l = level THEN h ELSE OneDown(g[l + 1], k, l + 1)
    <3>1. CASE l = m
      <4>1. m + 1 \in m .. level /\ m + 1 # m
        BY <2>m
      <4>2. g[m + 1] = f[m + 1] /\ g[l] = OneDown(f[m + 1], k, m + 1)
        BY <3>1, <4>1
      <4> HIDE DEF g
      <4> QED BY <3>1, <4>2, <2>m
    <3>2. CASE l # m
      <4>1. l \in m + 1 .. level /\ (l # level => l + 1 \in m .. level /\ l + 1 # m)
        BY <2>m, <3>2
      <4>2. g[l] = f[l] /\ (l # level => g[l + 1] = f[l + 1])
        BY <3>2, <4>1
      <4>3. f[l] = IF l = level THEN h ELSE OneDown(f[l + 1], k, l + 1)
        BY <2>1, <2>m, <4>1 DEF Downs
      <4> HIDE DEF g
      <4> QED BY <4>2, <4>3
    <3> QED BY <3>1, <3>2
  <2>3. g = [l \in m .. level |-> g[l]]
    OBVIOUS
  <2> HIDE DEF g
  <2>4. Downs(g, h, k, m)
    BY <2>2, <2>3 DEF Downs
  <2> QED BY <2>0, <2>4
<1> HIDE DEF S
<1>3. Nat \subseteq S
  BY <1>1, <1>2, SetInduction
<1> QED BY <1>3 DEF S

LEMMA DownsGood ==
  ASSUME level \in Nat, NEW h, HeapOK(h), NEW k \in 0 .. level, NEW f, Downs(f, h, k, k)
  PROVE  Down(h, f[k], k, k)
<1> DEFINE S == {j \in Nat : j <= level - k => Down(h, f[level - j], k, level - j)}
<1>1. 0 \in S
  <2>1. level - 0 = level /\ level \in k .. level
    OBVIOUS
  <2>2. f[level] = h
    BY <2>1 DEF Downs
  <2>3. Down(h, h, k, level)
    BY DownFirst
  <2> QED BY <2>1, <2>2, <2>3
<1>2. ASSUME NEW j \in Nat, j \in S PROVE j + 1 \in S
  <2>1. CASE j + 1 <= level - k
    <3>1. PICK l : l = level - (j + 1)
      OBVIOUS
    <3>2. l \in Nat /\ k <= l /\ l + 1 <= level /\ l + 1 = level - j /\ l \in k .. level /\ l # level /\ j <= level - k
      BY <2>1, <3>1
    <3>3. Down(h, f[l + 1], k, l + 1)
      BY <1>2, <3>2
    <3>4. PICK g : g = f[l + 1]
      OBVIOUS
    <3>5. f[l] = OneDown(g, k, l + 1)
      BY <3>2, <3>4 DEF Downs
    <3>6. Down(h, f[l], k, l)
      BY <3>2, <3>3, <3>4, <3>5, DownNext
    <3> QED BY <3>1, <3>6
  <2>2. CASE ~ (j + 1 <= level - k)
    BY <2>2
  <2> QED BY <2>1, <2>2
<1> HIDE DEF S
<1>3. Nat \subseteq S
  BY <1>1, <1>2, SetInduction
<1>4. level - k \in Nat /\ level - (level - k) = k
  OBVIOUS
<1>5. level - k \in S
  BY <1>3, <1>4
<1> QED BY <1>4, <1>5 DEF S

Went(h, g, k) == \E f : Down(h, f, k, k) /\ g = With(f.body, f.cache, SubSeq(h.sr, 1, k))

LEMMA WentIs ==
  ASSUME level \in Nat, HeapOK(Heap), NEW k \in 0 .. level
  PROVE  Went(Heap, RstrToLevel(k), k)
<1> DEFINE down == CHOOSE f : f = [l \in k .. level |-> IF l = level THEN Heap
             ELSE Finalized(RstrDB(RstrObj(f[l + 1], f[l + 1].sr[l + 1], k), f[l + 1].sr[l + 1], k), l + 1)]
<1>1. RstrToLevel(k) = [down[k] EXCEPT !.sr = SubSeq(@, 1, k)]
  BY DEF RstrToLevel
<1>2. \E f : Downs(f, Heap, k, k)
  <2>1. level - k \in Nat /\ level - (level - k) = k
    OBVIOUS
  <2>2. \E f : Downs(f, Heap, k, level - (level - k))
    BY <2>1, DownsExists
  <2> QED BY <2>1, <2>2
<1>3. Downs(down, Heap, k, k)
  <2>1. \A f : Downs(f, Heap, k, k) <=> f = [l \in k .. level |-> IF l = level THEN Heap
             ELSE Finalized(RstrDB(RstrObj(f[l + 1], f[l + 1].sr[l + 1], k), f[l + 1].sr[l + 1], k), l + 1)]
    BY Zenon DEF Downs, OneDown
  <2>2. \E f : f = [l \in k .. level |-> IF l = level THEN Heap
             ELSE Finalized(RstrDB(RstrObj(f[l + 1], f[l + 1].sr[l + 1], k), f[l + 1].sr[l + 1], k), l + 1)]
    BY <1>2, <2>1
  <2>3. down = [l \in k .. level |-> IF l = level THEN Heap
             ELSE Finalized(RstrDB(RstrObj(down[l + 1], down[l + 1].sr[l + 1], k), down[l + 1].sr[l + 1], k), l + 1)]
    BY <2>2, Zenon
  <2> HIDE DEF down
  <2> QED BY <2>1, <2>3
<1> HIDE DEF down
<1>4. PICK f : f = down[k]
  OBVIOUS
<1>5. PICK h : h = Heap
  OBVIOUS
<1>6. Down(h, f, k, k)
  BY <1>3, <1>4, <1>5, DownsGood
<1>7. f = [body |-> f.body, cache |-> f.cache, sr |-> f.sr] /\ f.sr = h.sr
  BY <1>6 DEF Down, Sound
<1>8. [f EXCEPT !.sr = SubSeq(@, 1, k)] = With(f.body, f.cache, SubSeq(h.sr, 1, k))
  <2>1. PICK b, c, u : b = f.body /\ c = f.cache /\ u = SubSeq(f.sr, 1, k)
    OBVIOUS
  <2>2. f = [body |-> b, cache |-> c, sr |-> f.sr] /\ u = SubSeq(h.sr, 1, k)
    BY <1>7, <2>1
  <2>3. [f EXCEPT !.sr = SubSeq(@, 1, k)] = [f EXCEPT !.sr = u]
    BY <2>1
  <2>4. [f EXCEPT !.sr = u] = [body |-> b, cache |-> c, sr |-> u]
    <3>1. PICK t : t = f.sr
      OBVIOUS
    <3>2. f = [body |-> b, cache |-> c, sr |-> t]
      BY <2>2, <3>1
    <3>3. [[body |-> b, cache |-> c, sr |-> t] EXCEPT !.sr = u] = [body |-> b, cache |-> c, sr |-> u]
      OBVIOUS
    <3> QED BY <3>2, <3>3, Zenon
  <2> QED BY <2>1, <2>2, <2>3, <2>4 DEF With
<1> QED BY <1>1, <1>4, <1>5, <1>6, <1>8 DEF Went

-----------------------------------------------------------------------------
(* From the heap an operator computes to the next state.                    *)

LEMMA LenIs ==
  ASSUME NEW s, IsFcn(s), NEW n \in Nat, DOMAIN s = 1 .. n
  PROVE  Len(s) = n /\ s \in Seq({s[i] : i \in 1 .. n})
<1> DEFINE S == {s[i] : i \in 1 .. n}
<1>1. s \in [1 .. n -> S]
  BY DEF IsFcn
<1>2. s \in Seq(S)
  BY <1>1
<1> QED BY <1>2

\* The invariant of the heap speaks of the level and of the births, which most operators leave alone.
LEMMA TypedStays ==
  ASSUME NEW h, level' = level
  PROVE  Typed(h)' <=> Typed(h)
  BY DEF Typed

LEMMA LoggedStays ==
  ASSUME NEW h, NEW d, level' = level, birth' = birth
  PROVE  Logged(h, d)' <=> Logged(h, d)
  BY DEF Logged

LEMMA FormedStays ==
  ASSUME NEW h, level' = level, birth' = birth
  PROVE  Formed(h)' <=> Formed(h)
<1>1. Recording(h)' <=> Recording(h)
  BY DEF Recording
<1>2. \A d : Logged(h, d)' <=> Logged(h, d)
  BY LoggedStays
<1> QED BY <1>1, <1>2, TypedStays DEF Formed

LEMMA VecStays ==
  ASSUME NEW h, level' = level
  PROVE  VecOK(h)' <=> VecOK(h)
<1>1. \A d, n : Seen(h, d, n)' <=> Seen(h, d, n)
  BY DEF Seen
<1> QED BY <1>1 DEF VecOK

LEMMA HeapStays ==
  ASSUME NEW h, level' = level, birth' = birth, HeapOK(h)
  PROVE  HeapOK(h)'
<1>1. NowGood(h)' <=> NowGood(h)
  BY DEF NowGood
<1>2. PastGood(h)' <=> PastGood(h)
  BY DEF PastGood
<1>3. CacheOK(h)' <=> CacheOK(h)
  BY DEF CacheOK
<1> QED BY <1>1, <1>2, <1>3, FormedStays, VecStays DEF HeapOK

\* The state that an operator leaves.
LEMMA FormedBecomes ==
  ASSUME NEW g, Heap' = g, Formed(g)'
  PROVE  Formed(Heap)'
<1>1. Typed(Heap)' <=> Typed(g)'
  BY DEF Typed
<1>2. Recording(Heap)' <=> Recording(g)'
  BY DEF Recording
<1>3. \A d : Logged(Heap, d)' <=> Logged(g, d)'
  BY DEF Logged
<1> QED BY <1>1, <1>2, <1>3 DEF Formed

LEMMA HeapBecomes ==
  ASSUME NEW g, Heap' = g, HeapOK(g)'
  PROVE  HeapOK(Heap)'
<1>1. NowGood(Heap)' <=> NowGood(g)'
  BY DEF NowGood
<1>2. PastGood(Heap)' <=> PastGood(g)'
  BY DEF PastGood
<1>3. CacheOK(Heap)' <=> CacheOK(g)'
  BY DEF CacheOK
<1>4. \A d, n : Seen(Heap, d, n)' <=> Seen(g, d, n)'
  BY DEF Seen
<1>5. VecOK(Heap)' <=> VecOK(g)'
  BY <1>4 DEF VecOK
<1> QED BY <1>1, <1>2, <1>3, <1>5, FormedBecomes DEF HeapOK

\* An operator that keeps to its level.
LEMMA OpHeap ==
  ASSUME level \in Nat, NEW g, HeapOK(g), Becomes(g), birth' = birth
  PROVE  level' = level /\ Heap' = g /\ HeapOK(Heap)'
<1>1. g = [body |-> g.body, cache |-> g.cache, sr |-> g.sr] /\ IsFcn(g.sr) /\ DOMAIN g.sr = 1 .. level
  BY DEF HeapOK, Formed, Typed
<1>2. Len(g.sr) = level
  BY <1>1, LenIs
<1>3. level' = level
  <2>1. level' = Len(srList')
    BY DEF level
  <2> QED BY <1>2, <2>1 DEF Becomes
<1>4. Heap' = g
  <2>1. Heap' = [body |-> body', cache |-> cache', sr |-> srList']
    BY DEF Heap
  <2>2. body' = g.body /\ cache' = g.cache /\ srList' = g.sr
    BY DEF Becomes
  <2> QED BY <1>1, <2>1, <2>2
<1> QED BY <1>3, <1>4, HeapStays, HeapBecomes

-----------------------------------------------------------------------------
(* A restore as a whole: each body is what it was, and each log ends at its *)
(* level.                                                                   *)

\* The records below level k stay.
Cut(h, g, k) == DOMAIN g.sr = 1 .. k /\ IsFcn(g.sr) /\ \A l \in 1 .. k : g.sr[l] = h.sr[l]

\* A body is what it was at level k.
BackAt(h, b, d, k) ==
  /\ b.size = h.body[d].size /\ b.curmax = h.body[d].curmax
  /\ HeaderOf(b) = HeaderAt(h, d, k)
  /\ \A i \in 0 .. h.body[d].size - 1 : KeyOf(b.table[i]) = KeyAt(h, d, i, k)
                                       /\ ValueOf(b.table[i]) = ValueAt(h, d, i, k)

Restored(h, g, k) ==
  /\ Sound(g) /\ Cut(h, g, k) /\ Trimmed(h, g)
  /\ \A d \in Dict : g.body[d] # NIL <=> h.body[d] # NIL /\ birth[d] <= k
  /\ \A d \in Dict : g.body[d] # NIL => BackAt(h, g.body[d], d, k)

\* What a restore finds in a log is what the log says of level k.
LEMMA PartAt ==
  ASSUME NEW L \in Nat, NEW f, NEW field, LogTo(f, L, field),
         NEW b \in 0 .. L, NEW c \in Nat, NEW cur, cur[field] = c, Chain(f, field, c, b),
         NEW k \in 0 .. L, b <= k
  PROVE  Part(f, field, cur, k, k) = At(f, cur, k)
<1>1. b \in Nat /\ k \in b .. L
  OBVIOUS
<1> QED BY <1>1, PartAll

LEMMA BackIs ==
  ASSUME level \in Nat, NEW h, Formed(h), NEW d \in Dict, h.body[d] # NIL,
         NEW k \in 0 .. level, birth[d] <= k, NEW b, BodyBack(h, b, d, k, k)
  PROVE  BackAt(h, b, d, k)
<1>1. LogsTo(h, d)
  BY LogsGoBack
<1>2. HeaderOf(b) = HeaderAt(h, d, k)
  <2>1. PICK c : c = h.body[d].level
    OBVIOUS
  <2>2. PICK cur : cur = HeaderOf(h.body[d])
    OBVIOUS
  <2>3. PICK f : f = Log(h.sr, "dbs", d)
    OBVIOUS
  <2>4. PICK field : field = "level"
    OBVIOUS
  <2>5. c \in Nat /\ birth[d] \in 0 .. level /\ Chain(f, field, c, birth[d])
    BY <2>1, <2>3, <2>4, LoggedHeader
  <2>6. cur[field] = c
    BY <2>1, <2>2, <2>4 DEF HeaderOf
  <2>7. LogTo(f, level, field)
    BY <1>1, <2>3, <2>4 DEF LogsTo
  <2>8. Part(f, field, cur, k, k) = At(f, cur, k)
    BY <2>5, <2>6, <2>7, PartAt
  <2> QED BY <2>2, <2>3, <2>4, <2>8 DEF BodyBack, HeaderAt
<1>3. ASSUME NEW i \in 0 .. h.body[d].size - 1
      PROVE  KeyOf(b.table[i]) = KeyAt(h, d, i, k) /\ ValueOf(b.table[i]) = ValueAt(h, d, i, k)
  <2>1. PICK o : o = h.body[d].table[i]
    OBVIOUS
  <2>2. PICK f : f = Log(h.sr, "keys", <<d, i>>)
    OBVIOUS
  <2>3. PICK e : e = Log(h.sr, "values", <<d, i>>)
    OBVIOUS
  <2>4. /\ birth[d] \in 0 .. level /\ o.klevel \in Nat /\ o.vlevel \in Nat
        /\ Chain(f, "klevel", o.klevel, birth[d]) /\ Chain(e, "vlevel", o.vlevel, birth[d])
    BY <2>1, <2>2, <2>3, LoggedSlot
  <2>5. PICK x : x = KeyOf(o)
    OBVIOUS
  <2>6. PICK y : y = ValueOf(o)
    OBVIOUS
  <2>7. x["klevel"] = o.klevel /\ y["vlevel"] = o.vlevel
    BY <2>5, <2>6 DEF KeyOf, ValueOf
  <2>8. LogTo(f, level, "klevel") /\ LogTo(e, level, "vlevel")
    BY <1>1, <2>2, <2>3 DEF LogsTo
  <2>9. Part(f, "klevel", x, k, k) = At(f, x, k)
    BY <2>4, <2>7, <2>8, PartAt
  <2>10. Part(e, "vlevel", y, k, k) = At(e, y, k)
    BY <2>4, <2>7, <2>8, PartAt
  <2> QED BY <2>1, <2>2, <2>3, <2>5, <2>6, <2>9, <2>10 DEF BodyBack, KeyAt, ValueAt
<1> QED BY <1>2, <1>3 DEF BodyBack, BackAt

Begins(s, t, k) == IsFcn(t) /\ DOMAIN t = 1 .. k /\ \A l \in 1 .. k : t[l] = s[l]

LEMMA SubSeqIs ==
  ASSUME NEW s, IsFcn(s), NEW n \in Nat, DOMAIN s = 1 .. n, NEW k \in 0 .. n, NEW t, t = SubSeq(s, 1, k)
  PROVE  Begins(s, t, k)
<1>1. PICK S : s \in Seq(S) /\ Len(s) = n
  BY LenIs
<1>2. t = [l \in 1 .. k |-> s[l]]
  BY <1>1
<1> QED BY <1>2 DEF IsFcn, Begins

LEMMA RestoredIs ==
  ASSUME level \in Nat, NEW h, HeapOK(h), NEW k \in 0 .. level, NEW g, Went(h, g, k)
  PROVE  Restored(h, g, k)
<1>1. PICK f : Down(h, f, k, k) /\ g = With(f.body, f.cache, SubSeq(h.sr, 1, k))
  BY DEF Went
<1>2. g.body = f.body /\ g.cache = f.cache /\ g.sr = SubSeq(h.sr, 1, k)
      /\ g = [body |-> g.body, cache |-> g.cache, sr |-> g.sr]
  BY <1>1 DEF With
<1>3. Formed(h) /\ IsFcn(h.sr) /\ DOMAIN h.sr = 1 .. level
  BY DEF HeapOK, Formed, Typed
<1>4. Cut(h, g, k)
  <2>1. PICK s : s = h.sr
    OBVIOUS
  <2>2. PICK t : t = g.sr
    OBVIOUS
  <2>3. IsFcn(s) /\ DOMAIN s = 1 .. level /\ t = SubSeq(s, 1, k)
    BY <1>2, <1>3, <2>1, <2>2
  <2>4. Begins(s, t, k)
    BY <2>3, SubSeqIs
  <2> QED BY <2>1, <2>2, <2>4 DEF Cut, Begins
<1>5. Sound(g)
  <2>1. Sound(f)
    BY <1>1 DEF Down
  <2>2. CacheOK(g) <=> CacheOK(f)
    BY <1>2 DEF CacheOK
  <2> QED BY <1>2, <2>1, <2>2 DEF Sound
<1>6. Trimmed(h, g)
  BY <1>1, <1>2 DEF Down, Trimmed
<1>7. \A d \in Dict : g.body[d] # NIL <=> h.body[d] # NIL /\ birth[d] <= k
  BY <1>1, <1>2 DEF Down
<1>8. ASSUME NEW d \in Dict, g.body[d] # NIL PROVE BackAt(h, g.body[d], d, k)
  <2>1. PICK b : b = g.body[d]
    OBVIOUS
  <2>2. BodyBack(h, b, d, k, k)
    BY <1>1, <1>2, <1>8, <2>1 DEF Down
  <2>3. h.body[d] # NIL /\ birth[d] <= k
    BY <1>7, <1>8
  <2>4. BackAt(h, b, d, k)
    BY <1>3, <2>2, <2>3, BackIs
  <2> QED BY <2>1, <2>4
<1> QED BY <1>4, <1>5, <1>6, <1>7, <1>8 DEF Restored

\* A log cut at level k.
LogCut(f, e, field, b, cur, now, k) ==
  /\ now[field] \in Nat /\ now[field] <= k /\ Chain(e, field, now[field], b)
  /\ \A j \in b .. k : At(e, now, j) = At(f, cur, j)

CutOf(f, e, k) == DOMAIN e = DOMAIN f \cap (1 .. k) /\ \A l \in DOMAIN e : e[l] = f[l]

LEMMA CutLog ==
  ASSUME level \in Nat, NEW h, DOMAIN h.sr = 1 .. level, NEW k \in 0 .. level, NEW g, Cut(h, g, k),
         NEW kind, NEW p, NEW f, f = Log(h.sr, kind, p), NEW e, e = Log(g.sr, kind, p)
  PROVE  CutOf(f, e, k)
  BY DEF Log, Cut, CutOf

LEMMA LogCutIs ==
  ASSUME NEW L \in Nat, NEW f, NEW field, LogTo(f, L, field),
         NEW b \in 0 .. L, NEW c \in Nat, NEW cur, cur[field] = c, c <= L, Chain(f, field, c, b),
         NEW k \in 0 .. L, b <= k,
         NEW e, CutOf(f, e, k), NEW now, now = At(f, cur, k)
  PROVE  LogCut(f, e, field, b, cur, now, k)
<1>1. b \in Nat /\ k \in b .. L
  OBVIOUS
<1>2. /\ now[field] \in Nat /\ now[field] <= k
      /\ Chain(e, field, now[field], b)
      /\ \A j \in b .. k : At(e, now, j) = At(f, cur, j)
  <2>1. DOMAIN e = DOMAIN f \cap (1 .. k) /\ \A l \in DOMAIN e : e[l] = f[l]
    BY DEF CutOf
  <2> QED BY <1>1, <2>1, ChainCut
<1> QED BY <1>2 DEF LogCut

\* The logs of a body that goes back.
LogsCut(h, g, d, k) ==
  /\ LogCut(Log(h.sr, "dbs", d), Log(g.sr, "dbs", d), "level", birth[d],
            HeaderOf(h.body[d]), HeaderOf(g.body[d]), k)
  /\ \A i \in 0 .. h.body[d].size - 1 :
       /\ LogCut(Log(h.sr, "keys", <<d, i>>), Log(g.sr, "keys", <<d, i>>), "klevel", birth[d],
                 KeyOf(h.body[d].table[i]), KeyOf(g.body[d].table[i]), k)
       /\ LogCut(Log(h.sr, "values", <<d, i>>), Log(g.sr, "values", <<d, i>>), "vlevel", birth[d],
                 ValueOf(h.body[d].table[i]), ValueOf(g.body[d].table[i]), k)

LEMMA LogsCutIs ==
  ASSUME level \in Nat, NEW h, Formed(h), NEW k \in 0 .. level, NEW g, Cut(h, g, k),
         NEW d \in Dict, h.body[d] # NIL, birth[d] <= k, BackAt(h, g.body[d], d, k)
  PROVE  LogsCut(h, g, d, k)
<1>1. LogsTo(h, d) /\ DOMAIN h.sr = 1 .. level
  BY LogsGoBack DEF Formed, Typed
<1>2. LogCut(Log(h.sr, "dbs", d), Log(g.sr, "dbs", d), "level", birth[d],
             HeaderOf(h.body[d]), HeaderOf(g.body[d]), k)
  <2>1. PICK c : c = h.body[d].level
    OBVIOUS
  <2>2. PICK cur : cur = HeaderOf(h.body[d])
    OBVIOUS
  <2>3. PICK f : f = Log(h.sr, "dbs", d)
    OBVIOUS
  <2>4. PICK field : field = "level"
    OBVIOUS
  <2>5. c \in Nat /\ c <= level /\ birth[d] \in 0 .. level /\ Chain(f, field, c, birth[d])
    BY <2>1, <2>3, <2>4, LoggedHeader
  <2>6. cur[field] = c
    BY <2>1, <2>2, <2>4 DEF HeaderOf
  <2>7. LogTo(f, level, field)
    BY <1>1, <2>3, <2>4 DEF LogsTo
  <2>8. PICK e : e = Log(g.sr, "dbs", d)
    OBVIOUS
  <2>9. CutOf(f, e, k)
    BY <1>1, <2>3, <2>8, CutLog
  <2>10. PICK now : now = HeaderOf(g.body[d])
    OBVIOUS
  <2>11. now = At(f, cur, k)
    BY <2>2, <2>3, <2>10 DEF BackAt, HeaderAt
  <2>12. LogCut(f, e, field, birth[d], cur, now, k)
    BY <2>5, <2>6, <2>7, <2>9, <2>11, LogCutIs
  <2> QED BY <2>2, <2>3, <2>4, <2>8, <2>10, <2>12
<1>3. ASSUME NEW i \in 0 .. h.body[d].size - 1
      PROVE  /\ LogCut(Log(h.sr, "keys", <<d, i>>), Log(g.sr, "keys", <<d, i>>), "klevel", birth[d],
                       KeyOf(h.body[d].table[i]), KeyOf(g.body[d].table[i]), k)
             /\ LogCut(Log(h.sr, "values", <<d, i>>), Log(g.sr, "values", <<d, i>>), "vlevel", birth[d],
                       ValueOf(h.body[d].table[i]), ValueOf(g.body[d].table[i]), k)
  <2>1. PICK o : o = h.body[d].table[i]
    OBVIOUS
  <2>2. PICK f1 : f1 = Log(h.sr, "keys", <<d, i>>)
    OBVIOUS
  <2>3. PICK f2 : f2 = Log(h.sr, "values", <<d, i>>)
    OBVIOUS
  <2>4. /\ birth[d] \in 0 .. level /\ o.klevel \in Nat /\ o.vlevel \in Nat
        /\ o.klevel <= level /\ o.vlevel <= level
        /\ Chain(f1, "klevel", o.klevel, birth[d]) /\ Chain(f2, "vlevel", o.vlevel, birth[d])
    BY <2>1, <2>2, <2>3, LoggedSlot
  <2>5. PICK x : x = KeyOf(o)
    OBVIOUS
  <2>6. PICK y : y = ValueOf(o)
    OBVIOUS
  <2>7. x["klevel"] = o.klevel /\ y["vlevel"] = o.vlevel
    BY <2>5, <2>6 DEF KeyOf, ValueOf
  <2>8. LogTo(f1, level, "klevel") /\ LogTo(f2, level, "vlevel")
    BY <1>1, <2>2, <2>3 DEF LogsTo
  <2>9. PICK e1 : e1 = Log(g.sr, "keys", <<d, i>>)
    OBVIOUS
  <2>10. PICK e2 : e2 = Log(g.sr, "values", <<d, i>>)
    OBVIOUS
  <2>11. CutOf(f1, e1, k)
    BY <1>1, <2>2, <2>9, CutLog
  <2>12. CutOf(f2, e2, k)
    BY <1>1, <2>3, <2>10, CutLog
  <2>13. PICK now1 : now1 = KeyOf(g.body[d].table[i])
    OBVIOUS
  <2>14. PICK now2 : now2 = ValueOf(g.body[d].table[i])
    OBVIOUS
  <2>15. now1 = At(f1, x, k) /\ now2 = At(f2, y, k)
    BY <2>1, <2>2, <2>3, <2>5, <2>6, <2>13, <2>14 DEF BackAt, KeyAt, ValueAt
  <2>16. LogCut(f1, e1, "klevel", birth[d], x, now1, k)
    BY <2>4, <2>7, <2>8, <2>11, <2>15, LogCutIs
  <2>17. LogCut(f2, e2, "vlevel", birth[d], y, now2, k)
    BY <2>4, <2>7, <2>8, <2>12, <2>15, LogCutIs
  <2> QED BY <2>1, <2>2, <2>3, <2>5, <2>6, <2>9, <2>10, <2>13, <2>14, <2>16, <2>17
<1> QED BY <1>2, <1>3 DEF LogsCut

\* A restore from level to k leaves h as g.
Restoring(h, g, k) == level \in Nat /\ k \in 0 .. level - 1 /\ HeapOK(h) /\ Restored(h, g, k)

LEMMA RestoringIs ==
  ASSUME NEW h, NEW g, NEW k, Restoring(h, g, k)
  PROVE  /\ level \in Nat /\ k \in Nat /\ k \in 0 .. level /\ k < level
         /\ Formed(h) /\ Typed(h) /\ Recording(h) /\ NowGood(h) /\ PastGood(h) /\ VecOK(h)
         /\ Sound(g) /\ Cut(h, g, k) /\ Trimmed(h, g)
  BY DEF Restoring, Restored, HeapOK, Formed

LEMMA RestoringBody ==
  ASSUME NEW h, NEW g, NEW k, Restoring(h, g, k), NEW d \in Dict, g.body[d] # NIL
  PROVE  /\ h.body[d] # NIL /\ birth[d] \in Nat /\ birth[d] <= k /\ birth[d] \in 0 .. level
         /\ d \in Shared => birth[d] = 0
         /\ Sized(d, h.body[d]) /\ BackAt(h, g.body[d], d, k) /\ LogsCut(h, g, d, k)
         /\ g.body[d].size = h.body[d].size
<1>1. h.body[d] # NIL /\ birth[d] <= k /\ BackAt(h, g.body[d], d, k)
  BY DEF Restoring, Restored
<1>2. Sized(d, h.body[d]) /\ birth[d] \in 0 .. level /\ (d \in Shared => birth[d] = 0)
  BY <1>1, RestoringIs DEF Formed, Logged
<1>3. LogsCut(h, g, d, k)
  BY <1>1, RestoringIs, LogsCutIs
<1> QED BY <1>1, <1>2, <1>3 DEF BackAt

LEMMA SharedBack ==
  ASSUME NEW h, NEW g, NEW k, Restoring(h, g, k), NEW d \in Shared, d \in Dict, g.body[d] # NIL
  PROVE  /\ HeaderOf(g.body[d]) = HeaderOf(h.body[d])
         /\ \A i \in 0 .. h.body[d].size - 1 : KeyOf(g.body[d].table[i]) = KeyOf(h.body[d].table[i])
<1>1. level \in Nat /\ Typed(h) /\ BackAt(h, g.body[d], d, k)
  BY RestoringIs, RestoringBody
<1>2. DOMAIN Log(h.sr, "dbs", d) = {}
  BY <1>1, SharedUnlogged
<1>3. HeaderAt(h, d, k) = HeaderOf(h.body[d])
  BY <1>2 DEF HeaderAt, At
<1>4. ASSUME NEW i PROVE KeyAt(h, d, i, k) = KeyOf(h.body[d].table[i])
  <2>1. DOMAIN Log(h.sr, "keys", <<d, i>>) = {}
    BY <1>1, SharedUnlogged
  <2> QED BY <2>1 DEF KeyAt, At
<1> QED BY <1>1, <1>3, <1>4 DEF BackAt

LEMMA SizedBack ==
  ASSUME NEW h, NEW g, NEW k, Restoring(h, g, k), NEW d \in Dict, g.body[d] # NIL
  PROVE  Sized(d, g.body[d])
<1>1. PICK b : b = g.body[d]
  OBVIOUS
<1>2. PICK a : a = h.body[d]
  OBVIOUS
<1>3. Sized(d, a) /\ b.size = a.size /\ b.curmax = a.curmax /\ HeaderOf(b) = HeaderAt(h, d, k)
  BY <1>1, <1>2, RestoringBody DEF BackAt
<1>4. b \in DictBody(b.size)
  BY <1>1, RestoringIs DEF Sound
<1>5. b.curlength <= b.curmax
  <2>1. CASE d \in Shared
    <3>1. HeaderOf(b) = HeaderOf(a)
      BY <2>1, <1>1, <1>2, SharedBack
    <3>2. b.curlength = a.curlength
      BY <3>1 DEF HeaderOf
    <3> QED BY <1>3, <3>2 DEF Sized
  <2>2. CASE d \notin Shared
    <3>1. k \in birth[d] .. level - 1 /\ h.body[d] # NIL
      <4>1. birth[d] \in Nat /\ birth[d] <= k /\ h.body[d] # NIL
        BY RestoringBody
      <4>2. k \in Nat /\ k < level /\ level \in Nat
        BY RestoringIs
      <4> QED BY <4>1, <4>2
    <3>2. HeaderAt(h, d, k).curlength <= MaxLen[d]
      BY <2>2, <3>1, RestoringIs DEF PastGood
    <3>3. a.curmax = MaxLen[d]
      BY <1>3, <2>2 DEF Sized
    <3>4. b.curlength = HeaderAt(h, d, k).curlength
      BY <1>3 DEF HeaderOf
    <3> QED BY <1>3, <3>2, <3>3, <3>4
  <2> QED BY <2>1, <2>2
<1> QED BY <1>1, <1>3, <1>4, <1>5 DEF Sized

LEMMA KeysBack ==
  ASSUME NEW h, NEW g, NEW k, Restoring(h, g, k), NEW d \in Dict, g.body[d] # NIL
  PROVE  /\ KeysNow(g, d) = KeysAt(h, d, k)
         /\ d \in Shared => KeysNow(g, d) = KeysNow(h, d)
         /\ \A j \in birth[d] .. k : KeysAt(g, d, j) = KeysAt(h, d, j)
         /\ \A j \in birth[d] .. k : HeaderAt(g, d, j) = HeaderAt(h, d, j)
<1>1. g.body[d].size = h.body[d].size /\ BackAt(h, g.body[d], d, k) /\ LogsCut(h, g, d, k)
  BY RestoringBody
<1>2. ASSUME NEW i \in 0 .. h.body[d].size - 1
      PROVE  /\ g.body[d].table[i].key = KeyAt(h, d, i, k).key
             /\ d \in Shared => g.body[d].table[i].key = h.body[d].table[i].key
             /\ \A j \in birth[d] .. k : KeyAt(g, d, i, j) = KeyAt(h, d, i, j)
  <2>1. KeyOf(g.body[d].table[i]) = KeyAt(h, d, i, k)
    BY <1>1 DEF BackAt
  <2>2. d \in Shared => KeyOf(g.body[d].table[i]) = KeyOf(h.body[d].table[i])
    BY SharedBack
  <2>3. \A j \in birth[d] .. k : KeyAt(g, d, i, j) = KeyAt(h, d, i, j)
    BY <1>1 DEF LogsCut, LogCut, KeyAt
  <2> QED BY <2>1, <2>2, <2>3, KeyOfKey
<1>3. \A j \in birth[d] .. k : HeaderAt(g, d, j) = HeaderAt(h, d, j)
  BY <1>1 DEF LogsCut, LogCut, HeaderAt
<1> QED BY <1>1, <1>2, <1>3 DEF KeysNow, KeysAt

\* What is left is a heap of level k.
AtLevel(g, k) ==
  level' = k /\ \A d \in Dict : birth'[d] = IF g.body[d] = NIL THEN NIL ELSE birth[d]

LEMMA TypedBack ==
  ASSUME NEW h, NEW g, NEW k, Restoring(h, g, k), level' = k
  PROVE  Typed(g)'
<1>1. \A l \in 1 .. k : Undo(g.sr[l])
  <2>1. \A l \in 1 .. k : l \in 1 .. level /\ g.sr[l] = h.sr[l]
    BY RestoringIs DEF Cut
  <2> QED BY <2>1, RestoringIs DEF Typed
<1>2. IsFcn(g.sr) /\ DOMAIN g.sr = 1 .. k
  BY RestoringIs DEF Cut
<1>3. /\ g = [body |-> g.body, cache |-> g.cache, sr |-> g.sr]
      /\ IsFcn(g.body) /\ DOMAIN g.body = Dict /\ g.cache \in [Name -> Binding]
  BY RestoringIs DEF Sound
<1> QED BY <1>1, <1>2, <1>3 DEF Typed

LEMMA LoggedBack ==
  ASSUME NEW h, NEW g, NEW k, Restoring(h, g, k), AtLevel(g, k), NEW d \in Dict, g.body[d] # NIL
  PROVE  Logged(g, d)'
<1>1. level' = k /\ birth'[d] = birth[d]
  BY DEF AtLevel
<1>2. /\ birth[d] \in Nat /\ birth[d] <= k /\ (d \in Shared => birth[d] = 0)
      /\ g.body[d].size = h.body[d].size /\ LogsCut(h, g, d, k) /\ k \in Nat
  BY RestoringBody, RestoringIs
<1>3. /\ g.body[d].level <= k
      /\ Chain(Log(g.sr, "dbs", d), "level", g.body[d].level, birth[d])
  <2>1. PICK x : x = HeaderOf(g.body[d])
    OBVIOUS
  <2>2. x["level"] <= k /\ Chain(Log(g.sr, "dbs", d), "level", x["level"], birth[d])
    BY <1>2, <2>1 DEF LogsCut, LogCut
  <2>3. x["level"] = g.body[d].level
    BY <2>1 DEF HeaderOf
  <2> QED BY <2>2, <2>3
<1>4. ASSUME NEW i \in 0 .. g.body[d].size - 1
      PROVE  /\ g.body[d].table[i].klevel <= k /\ g.body[d].table[i].vlevel <= k
             /\ Chain(Log(g.sr, "keys", <<d, i>>), "klevel", g.body[d].table[i].klevel, birth[d])
             /\ Chain(Log(g.sr, "values", <<d, i>>), "vlevel", g.body[d].table[i].vlevel, birth[d])
  <2>1. PICK x : x = KeyOf(g.body[d].table[i])
    OBVIOUS
  <2>2. PICK y : y = ValueOf(g.body[d].table[i])
    OBVIOUS
  <2>3. x["klevel"] <= k /\ Chain(Log(g.sr, "keys", <<d, i>>), "klevel", x["klevel"], birth[d])
    BY <1>2, <2>1 DEF LogsCut, LogCut
  <2>4. y["vlevel"] <= k /\ Chain(Log(g.sr, "values", <<d, i>>), "vlevel", y["vlevel"], birth[d])
    BY <1>2, <2>2 DEF LogsCut, LogCut
  <2>5. x["klevel"] = g.body[d].table[i].klevel /\ y["vlevel"] = g.body[d].table[i].vlevel
    BY <2>1, <2>2 DEF KeyOf, ValueOf
  <2> QED BY <2>3, <2>4, <2>5
<1>5. birth[d] \in 0 .. k
  BY <1>2
<1> QED BY <1>1, <1>2, <1>3, <1>4, <1>5 DEF Logged

\* No record below level k is about a dictionary made later.
LEMMA RecordsOld ==
  ASSUME NEW h, NEW g, NEW k, Restoring(h, g, k), NEW l \in 1 .. k
  PROVE  /\ \A p \in DOMAIN g.sr[l].keys \cup DOMAIN g.sr[l].values :
              g.body[p[1]] # NIL /\ p[2] \in 0 .. g.body[p[1]].size - 1
         /\ \A d \in DOMAIN g.sr[l].dbs : g.body[d] # NIL
<1>1. l \in 1 .. level /\ l \in Nat /\ k \in Nat /\ g.sr[l] = h.sr[l] /\ DOMAIN h.sr = 1 .. level /\ Undo(h.sr[l])
  BY RestoringIs DEF Cut, Typed
<1>2. ASSUME NEW d \in Dict, h.body[d] # NIL, birth[d] < l
      PROVE  g.body[d] # NIL /\ g.body[d].size = h.body[d].size
  <2>1. birth[d] \in Nat
    BY <1>2, RestoringIs DEF Formed, Logged
  <2>2. birth[d] <= k
    BY <1>1, <1>2, <2>1
  <2>3. g.body[d] # NIL
    BY <1>2, <2>2 DEF Restoring, Restored
  <2> QED BY <2>3, RestoringBody
<1>3. ASSUME NEW f, NEW field, NEW c, NEW d \in Dict, h.body[d] # NIL, LogTo(f, level, field), Chain(f, field, c, birth[d]), l \in DOMAIN f
      PROVE  birth[d] < l
  <2>1. birth[d] \in Nat
    BY <1>3, RestoringIs DEF Formed, Logged
  <2>2. birth[d] <= f[l][field] /\ f[l][field] < l /\ f[l][field] \in Nat
    BY <1>3 DEF LogTo, Chain
  <2> QED BY <1>1, <2>1, <2>2
<1>4. ASSUME NEW p \in DOMAIN g.sr[l].keys \cup DOMAIN g.sr[l].values
      PROVE  g.body[p[1]] # NIL /\ p[2] \in 0 .. g.body[p[1]].size - 1
  <2>1. h.body[p[1]] # NIL /\ p[2] \in 0 .. h.body[p[1]].size - 1
    BY <1>1, <1>4, RestoringIs DEF Recording
  <2>2. p \in (Dict \ Shared) \X Nat
    BY <1>1, <1>4 DEF Undo, Kinds, PlacesOf
  <2>3. PICK d : d = p[1]
    OBVIOUS
  <2>4. PICK i : i = p[2]
    OBVIOUS
  <2>5. p = <<d, i>> /\ d \in Dict
    BY <2>2, <2>3, <2>4
  <2>6. LogsTo(h, d) /\ Formed(h)
    BY RestoringIs, LogsTyped
  <2>7. /\ Chain(Log(h.sr, "keys", <<d, i>>), "klevel", h.body[d].table[i].klevel, birth[d])
        /\ Chain(Log(h.sr, "values", <<d, i>>), "vlevel", h.body[d].table[i].vlevel, birth[d])
    BY <2>1, <2>3, <2>4, <2>5, <2>6, LoggedSlot
  <2>8. l \in DOMAIN Log(h.sr, "keys", <<d, i>>) \/ l \in DOMAIN Log(h.sr, "values", <<d, i>>)
    BY <1>1, <1>4, <2>5, LogAt
  <2>9. birth[d] < l
    <3>1. CASE l \in DOMAIN Log(h.sr, "keys", <<d, i>>)
      <4>1. PICK f : f = Log(h.sr, "keys", <<d, i>>)
        OBVIOUS
      <4>2. LogTo(f, level, "klevel")
        BY <2>6, <4>1 DEF LogsTo
      <4>3. PICK c : c = h.body[d].table[i].klevel
        OBVIOUS
      <4>4. Chain(f, "klevel", c, birth[d])
        BY <2>7, <4>1, <4>3
      <4> QED BY <1>3, <2>1, <2>3, <2>5, <3>1, <4>1, <4>2, <4>4
    <3>2. CASE l \in DOMAIN Log(h.sr, "values", <<d, i>>)
      <4>1. PICK f : f = Log(h.sr, "values", <<d, i>>)
        OBVIOUS
      <4>2. LogTo(f, level, "vlevel")
        BY <2>6, <4>1 DEF LogsTo
      <4>3. PICK c : c = h.body[d].table[i].vlevel
        OBVIOUS
      <4>4. Chain(f, "vlevel", c, birth[d])
        BY <2>7, <4>1, <4>3
      <4> QED BY <1>3, <2>1, <2>3, <2>5, <3>2, <4>1, <4>2, <4>4
    <3> QED BY <2>8, <3>1, <3>2
  <2> QED BY <1>2, <2>1, <2>3, <2>4, <2>5, <2>9
<1>5. ASSUME NEW d \in DOMAIN g.sr[l].dbs PROVE g.body[d] # NIL
  <2>1. d \in Dict /\ h.body[d] # NIL
    BY <1>1, <1>5, RestoringIs DEF Undo, Kinds, PlacesOf, Recording
  <2>2. PICK f : f = Log(h.sr, "dbs", d)
    OBVIOUS
  <2>3. PICK c : c = h.body[d].level
    OBVIOUS
  <2>4. PICK field : field = "level"
    OBVIOUS
  <2>5. LogTo(f, level, field)
    BY <2>2, <2>4, RestoringIs, LogsTyped DEF LogsTo
  <2>6. Chain(f, field, c, birth[d])
    BY <2>1, <2>2, <2>3, <2>4, RestoringIs, LoggedHeader
  <2>7. l \in DOMAIN f
    BY <1>1, <1>5, <2>2, LogAt
  <2>8. birth[d] < l
    BY <1>3, <2>1, <2>5, <2>6, <2>7
  <2> QED BY <1>2, <2>1, <2>8
<1> QED BY <1>4, <1>5

LEMMA AtOf ==
  ASSUME NEW f, DOMAIN f \subseteq Nat, NEW cur, NEW k \in Nat
  PROVE  At(f, cur, k) = cur \/ \E m \in DOMAIN f : At(f, cur, k) = f[m]
<1>1. CASE \E l \in DOMAIN f : k < l
  <2>1. PICK l \in DOMAIN f : k < l /\ \A m \in DOMAIN f : k < m => l <= m
    BY <1>1, LeastAfter
  <2>2. At(f, cur, k) = f[l]
    BY <2>1, AtLeast
  <2> QED BY <2>2
<1>2. CASE ~ \E l \in DOMAIN f : k < l
  BY <1>2, AtNone
<1> QED BY <1>1, <1>2

\* What a dictionary has now, or once had.
Knew(h, d, n, L) ==
  \/ h.body[d] # NIL /\ \E i \in 0 .. h.body[d].size - 1 : h.body[d].table[i].key = n
  \/ \E l \in 1 .. L : \E p \in DOMAIN h.sr[l].keys : p[1] = d /\ h.sr[l].keys[p].key = n

LEMMA SeenBack ==
  ASSUME NEW h, NEW g, NEW k, Restoring(h, g, k), NEW d \in Dict, NEW n, Knew(g, d, n, k)
  PROVE  Seen(h, d, n)
<1>1. CASE g.body[d] # NIL /\ \E i \in 0 .. g.body[d].size - 1 : g.body[d].table[i].key = n
  <2>1. h.body[d] # NIL /\ g.body[d].size = h.body[d].size /\ BackAt(h, g.body[d], d, k)
    BY <1>1, RestoringBody
  <2>2. PICK i \in 0 .. h.body[d].size - 1 : g.body[d].table[i].key = n
    BY <1>1, <2>1
  <2>3. PICK f : f = Log(h.sr, "keys", <<d, i>>)
    OBVIOUS
  <2>4. PICK cur : cur = KeyOf(h.body[d].table[i])
    OBVIOUS
  <2>5. KeyOf(g.body[d].table[i]) = At(f, cur, k)
    BY <2>1, <2>3, <2>4 DEF BackAt, KeyAt
  <2>6. At(f, cur, k).key = n
    BY <2>2, <2>5, KeyOfKey
  <2>7. LogTo(f, level, "klevel")
    BY <2>3, RestoringIs, LogsTyped DEF LogsTo
  <2>8. At(f, cur, k) = cur \/ \E m \in DOMAIN f : At(f, cur, k) = f[m]
    BY <2>7, AtOf, RestoringIs DEF LogTo
  <2>9. CASE At(f, cur, k) = cur
    <3>1. h.body[d].table[i].key = n
      BY <2>4, <2>6, <2>9, KeyOfKey
    <3> QED BY <2>1, <3>1 DEF Seen
  <2>10. CASE \E m \in DOMAIN f : At(f, cur, k) = f[m]
    <3>1. PICK m \in DOMAIN f : f[m].key = n
      BY <2>6, <2>10
    <3>2. m \in DOMAIN h.sr /\ <<d, i>> \in DOMAIN h.sr[m].keys /\ f[m] = h.sr[m].keys[<<d, i>>]
      BY <2>3, <3>1, LogAt
    <3>3. m \in 1 .. level
      BY <3>2, RestoringIs DEF Typed
    <3>4. <<d, i>>[1] = d
      OBVIOUS
    <3> QED BY <3>1, <3>2, <3>3, <3>4 DEF Seen
  <2> QED BY <2>8, <2>9, <2>10
<1>2. CASE \E l \in 1 .. k : \E p \in DOMAIN g.sr[l].keys : p[1] = d /\ g.sr[l].keys[p].key = n
  <2>1. PICK l \in 1 .. k : \E p \in DOMAIN g.sr[l].keys : p[1] = d /\ g.sr[l].keys[p].key = n
    BY <1>2
  <2>2. l \in 1 .. level /\ g.sr[l] = h.sr[l]
    BY RestoringIs DEF Cut
  <2> QED BY <2>1, <2>2 DEF Seen
<1> QED BY <1>1, <1>2 DEF Knew

LEMMA FormedBack ==
  ASSUME NEW h, NEW g, NEW k, Restoring(h, g, k), AtLevel(g, k)
  PROVE  Formed(g)'
<1>1. Typed(g)'
  BY TypedBack DEF AtLevel
<1>2. \A d \in Dict : g.body[d] # NIL => Sized(d, g.body[d]) /\ Logged(g, d)'
  BY SizedBack, LoggedBack
<1>3. Recording(g)'
  BY RecordsOld DEF AtLevel, Recording
<1> QED BY <1>1, <1>2, <1>3 DEF Formed

LEMMA GoodBack ==
  ASSUME NEW h, NEW g, NEW k, Restoring(h, g, k), NEW d \in Dict, g.body[d] # NIL
  PROVE  /\ Good(KeysNow(g, d), g.body[d].size, g.body[d].curlength)
         /\ d \notin Shared => \A j \in birth[d] .. k - 1 :
              /\ Good(KeysAt(g, d, j), g.body[d].size, HeaderAt(g, d, j).curlength)
              /\ HeaderAt(g, d, j).curlength <= MaxLen[d]
<1>1. /\ h.body[d] # NIL /\ birth[d] \in Nat /\ birth[d] <= k /\ g.body[d].size = h.body[d].size
      /\ k \in Nat /\ k < level /\ level \in Nat /\ PastGood(h) /\ NowGood(h)
      /\ HeaderOf(g.body[d]) = HeaderAt(h, d, k)
  BY RestoringBody, RestoringIs DEF BackAt
<1>2. CASE d \in Shared
  <2>1. KeysNow(g, d) = KeysNow(h, d) /\ HeaderOf(g.body[d]) = HeaderOf(h.body[d])
    BY <1>2, KeysBack, SharedBack
  <2>2. g.body[d].curlength = h.body[d].curlength
    BY <2>1 DEF HeaderOf
  <2> QED BY <1>1, <1>2, <2>1, <2>2 DEF NowGood
<1>3. CASE d \notin Shared
  <2>1. \A j \in birth[d] .. k : /\ Good(KeysAt(h, d, j), h.body[d].size, HeaderAt(h, d, j).curlength)
                                /\ HeaderAt(h, d, j).curlength <= MaxLen[d]
    <3>1. \A j \in birth[d] .. k : j \in birth[d] .. level - 1
      BY <1>1
    <3> QED BY <1>1, <1>3, <3>1 DEF PastGood
  <2>2. k \in birth[d] .. k /\ \A j \in birth[d] .. k - 1 : j \in birth[d] .. k
    BY <1>1
  <2>3. g.body[d].curlength = HeaderAt(h, d, k).curlength
    BY <1>1 DEF HeaderOf
  <2>4. KeysNow(g, d) = KeysAt(h, d, k)
    BY KeysBack
  <2>5. \A j \in birth[d] .. k : KeysAt(g, d, j) = KeysAt(h, d, j) /\ HeaderAt(g, d, j) = HeaderAt(h, d, j)
    BY KeysBack
  <2> QED BY <1>1, <2>1, <2>2, <2>3, <2>4, <2>5
<1> QED BY <1>2, <1>3

LEMMA HeapBack ==
  ASSUME NEW h, NEW g, NEW k, Restoring(h, g, k), AtLevel(g, k)
  PROVE  HeapOK(g)'
<1>1. Formed(g)'
  BY FormedBack
<1>2. NowGood(g)'
  BY GoodBack DEF NowGood
<1>3. PastGood(g)'
  <2>1. \A d \in Dict : g.body[d] # NIL => birth'[d] = birth[d]
    BY DEF AtLevel
  <2> QED BY <2>1, GoodBack DEF PastGood, AtLevel
<1>4. CacheOK(g)'
  <2>1. CacheOK(g)
    BY RestoringIs DEF Sound
  <2> QED BY <2>1 DEF CacheOK
<1>5. VecOK(g)'
  <2>1. ASSUME NEW d \in Dict, NEW n \in Name, Knew(g, d, n, k) \/ g.cache[n].dict = d
        PROVE  Bit[d] \in g.cache[n].vec
    <3>1. Seen(h, d, n) \/ h.cache[n].dict = d
      <4>1. d # NIL
        BY NilNot
      <4>2. g.cache[n].dict = d => h.cache[n].dict = d
        BY <4>1, RestoringIs DEF Trimmed
      <4> QED BY <2>1, <4>2, SeenBack
    <3>2. Bit[d] \in h.cache[n].vec
      BY <3>1, RestoringIs DEF VecOK
    <3> QED BY <3>2, RestoringIs DEF Trimmed
  <2>2. \A d, n : Seen(g, d, n)' <=> Knew(g, d, n, k)
    BY DEF AtLevel, Seen, Knew
  <2> QED BY <2>1, <2>2 DEF VecOK
<1> QED BY <1>1, <1>2, <1>3, <1>4, <1>5 DEF HeapOK

-----------------------------------------------------------------------------
(* Save.                                                                    *)

NoRecords == [keys |-> <<>>, values |-> <<>>, dbs |-> <<>>]

\* A save adds a level without records.
Saved(h, g) ==
  /\ g = [body |-> h.body, cache |-> h.cache, sr |-> g.sr]
  /\ IsFcn(g.sr) /\ DOMAIN g.sr = 1 .. level + 1 /\ g.sr[level + 1] = NoRecords
  /\ \A l \in 1 .. level : g.sr[l] = h.sr[l]

LEMMA NoRecordsUndo == Undo(NoRecords)
  BY DEF NoRecords, Undo, Kinds, IsFcn

LEMMA SavedLog ==
  ASSUME level \in Nat, NEW h, Typed(h), NEW g, Saved(h, g), NEW kind \in Kinds, NEW p
  PROVE  Log(g.sr, kind, p) = Log(h.sr, kind, p)
<1>1. DOMAIN h.sr = 1 .. level /\ DOMAIN g.sr = 1 .. level + 1 /\ level + 1 \notin 1 .. level
  BY DEF Typed, Saved
<1>2. DOMAIN NoRecords[kind] = {}
  BY DEF NoRecords, Kinds
<1>3. \A m : m \in DOMAIN g.sr /\ p \in DOMAIN g.sr[m][kind] <=> m \in DOMAIN h.sr /\ p \in DOMAIN h.sr[m][kind]
  <2>1. ASSUME NEW m PROVE m \in 1 .. level + 1 <=> m \in 1 .. level \/ m = level + 1
    OBVIOUS
  <2> QED BY <1>1, <1>2, <2>1 DEF Saved
<1>4. {m \in DOMAIN g.sr : p \in DOMAIN g.sr[m][kind]} = {m \in DOMAIN h.sr : p \in DOMAIN h.sr[m][kind]}
  BY <1>3
<1>5. \A m \in DOMAIN h.sr : g.sr[m] = h.sr[m]
  BY <1>1 DEF Saved
<1> QED BY <1>4, <1>5 DEF Log

LEMMA SavedAt ==
  ASSUME level \in Nat, NEW h, Typed(h), NEW g, Saved(h, g), NEW d, NEW k
  PROVE  /\ HeaderAt(g, d, k) = HeaderAt(h, d, k)
         /\ \A i : KeyAt(g, d, i, k) = KeyAt(h, d, i, k)
<1>1. g.body = h.body
  BY DEF Saved
<1>2. Log(g.sr, "dbs", d) = Log(h.sr, "dbs", d)
  BY SavedLog DEF Kinds
<1>3. \A i : Log(g.sr, "keys", <<d, i>>) = Log(h.sr, "keys", <<d, i>>)
  BY SavedLog DEF Kinds
<1> QED BY <1>1, <1>2, <1>3 DEF HeaderAt, KeyAt

LEMMA NowAt ==
  ASSUME level \in Nat, NEW h, Typed(h), NEW d
  PROVE  /\ HeaderAt(h, d, level) = HeaderOf(h.body[d])
         /\ \A i : KeyAt(h, d, i, level) = KeyOf(h.body[d].table[i])
<1>1. LogsTo(h, d)
  BY LogsTyped
<1>2. ASSUME NEW f, NEW field, LogTo(f, level, field), NEW cur PROVE At(f, cur, level) = cur
  <2>1. ~ \E l \in DOMAIN f : level < l
    BY <1>2 DEF LogTo
  <2> QED BY <2>1, AtNone
<1> QED BY <1>1, <1>2 DEF LogsTo, HeaderAt, KeyAt

LEMMA SavedGood ==
  ASSUME level \in Nat, NEW h, HeapOK(h), NEW g, Saved(h, g), level' = level + 1, birth' = birth
  PROVE  HeapOK(g)'
<1>1. Formed(h) /\ Typed(h) /\ Recording(h) /\ NowGood(h) /\ PastGood(h) /\ CacheOK(h) /\ VecOK(h)
  BY DEF HeapOK, Formed
<1>2. /\ g.body = h.body /\ g.cache = h.cache /\ IsFcn(g.sr) /\ DOMAIN g.sr = 1 .. level + 1
      /\ g.sr[level + 1] = NoRecords /\ \A l \in 1 .. level : g.sr[l] = h.sr[l]
      /\ g = [body |-> g.body, cache |-> g.cache, sr |-> g.sr]
  BY DEF Saved
<1>3. \A l \in 1 .. level + 1 : l \in 1 .. level \/ l = level + 1
  OBVIOUS
<1>4. Typed(g)'
  <2>1. \A l \in 1 .. level + 1 : Undo(g.sr[l])
    BY <1>1, <1>2, <1>3, NoRecordsUndo DEF Typed
  <2> QED BY <1>1, <1>2, <2>1 DEF Typed
<1>5. ASSUME NEW d \in Dict, g.body[d] # NIL PROVE Logged(g, d)'
  <2>1. Logged(h, d) /\ Sized(d, h.body[d])
    BY <1>1, <1>2, <1>5 DEF Formed
  <2>2. Log(g.sr, "dbs", d) = Log(h.sr, "dbs", d)
    BY <1>1, SavedLog DEF Kinds
  <2>3. \A i : /\ Log(g.sr, "keys", <<d, i>>) = Log(h.sr, "keys", <<d, i>>)
               /\ Log(g.sr, "values", <<d, i>>) = Log(h.sr, "values", <<d, i>>)
    BY <1>1, SavedLog DEF Kinds
  <2>4. birth[d] \in 0 .. level + 1 /\ h.body[d].level <= level + 1
    <3>1. h.body[d].level \in Nat
      BY <2>1 DEF Sized, DictBody
    <3> QED BY <2>1, <3>1 DEF Logged
  <2>5. \A i \in 0 .. h.body[d].size - 1 : h.body[d].table[i].klevel <= level + 1 /\ h.body[d].table[i].vlevel <= level + 1
    <3>1. \A i \in 0 .. h.body[d].size - 1 :
            /\ h.body[d].table[i].klevel <= level /\ h.body[d].table[i].vlevel <= level
            /\ h.body[d].table[i].klevel \in Nat /\ h.body[d].table[i].vlevel \in Nat
      BY <1>1, <1>2, <1>5, LoggedSlot
    <3>2. \A x \in Nat : x <= level => x <= level + 1
      OBVIOUS
    <3> QED BY <3>1, <3>2
  <2> QED BY <1>2, <2>1, <2>2, <2>3, <2>4, <2>5 DEF Logged
<1>6. Recording(g)'
  <2>1. DOMAIN NoRecords.keys = {} /\ DOMAIN NoRecords.values = {} /\ DOMAIN NoRecords.dbs = {}
    BY DEF NoRecords
  <2> QED BY <1>1, <1>2, <1>3, <2>1 DEF Recording
<1>7. Formed(g)'
  BY <1>1, <1>2, <1>4, <1>5, <1>6 DEF Formed
<1>8. NowGood(g)'
  <2>1. \A d : KeysNow(g, d) = KeysNow(h, d)
    BY <1>2 DEF KeysNow
  <2> QED BY <1>1, <1>2, <2>1 DEF NowGood
<1>9. PastGood(g)'
  <2>1. ASSUME NEW d \in Dict \ Shared, h.body[d] # NIL, NEW k \in birth[d] .. level
        PROVE  /\ Good(KeysAt(g, d, k), h.body[d].size, HeaderAt(g, d, k).curlength)
               /\ HeaderAt(g, d, k).curlength <= MaxLen[d]
    <3>1. KeysAt(g, d, k) = KeysAt(h, d, k) /\ HeaderAt(g, d, k) = HeaderAt(h, d, k)
      BY <1>1, <1>2, SavedAt DEF KeysAt
    <3>2. CASE k = level
      <4>1. KeysAt(h, d, k) = KeysNow(h, d) /\ HeaderAt(h, d, k) = HeaderOf(h.body[d])
        BY <1>1, <3>2, NowAt, KeyOfKey DEF KeysAt, KeysNow
      <4>2. HeaderOf(h.body[d]).curlength = h.body[d].curlength
        BY DEF HeaderOf
      <4>3. h.body[d].curlength <= MaxLen[d]
        BY <1>1, <2>1 DEF Formed, Sized
      <4> QED BY <1>1, <2>1, <3>1, <4>1, <4>2, <4>3 DEF NowGood
    <3>3. CASE k # level
      <4>1. birth[d] \in Nat
        BY <1>1, <2>1 DEF Formed, Logged
      <4>2. k \in birth[d] .. level - 1
        BY <3>3, <4>1
      <4> QED BY <1>1, <2>1, <3>1, <4>2 DEF PastGood
    <3> QED BY <3>2, <3>3
  <2>2. (level + 1) - 1 = level
    OBVIOUS
  <2> QED BY <1>2, <2>1, <2>2 DEF PastGood
<1>10. CacheOK(g)'
  BY <1>1, <1>2 DEF CacheOK
<1>11. VecOK(g)'
  <2>1. DOMAIN NoRecords.keys = {}
    BY DEF NoRecords
  <2>2. \A d, n : Seen(g, d, n)' => Seen(h, d, n)
    BY <1>2, <1>3, <2>1 DEF Seen
  <2> QED BY <1>1, <1>2, <2>2 DEF VecOK
<1> QED BY <1>7, <1>8, <1>9, <1>10, <1>11 DEF HeapOK

-----------------------------------------------------------------------------
(* A new dictionary.                                                        *)

\* An empty body, as of level l.
Fresh(d, b, l) ==
  /\ Sized(d, b) /\ b # NIL /\ b.curlength = 0 /\ b.level = l
  /\ \A i \in 0 .. b.size - 1 : b.table[i].key = NIL /\ b.table[i].klevel = l /\ b.table[i].vlevel = l

LEMMA NewBodyIs ==
  ASSUME level \in Nat, NEW d \in Dict, NEW b, b = NewBody(d)
  PROVE  Fresh(d, b, LevelOf(d))
<1>1. MaxLen[d] \in Nat \ {0} /\ CurMax[d] \in 1 .. MaxLen[d] /\ (d \notin Shared => CurMax[d] = MaxLen[d])
  BY DictAssumption
<1>2. PICK o : o = [key |-> NIL, klevel |-> LevelOf(d), value |-> NIL, vlevel |-> LevelOf(d)]
  OBVIOUS
<1>3. (IF d \in Shared THEN [Null EXCEPT !.klevel = 0, !.vlevel = 0] ELSE Null) = o
  <2>1. PICK x : x = Null
    OBVIOUS
  <2>2. x = [key |-> NIL, klevel |-> level, value |-> NIL, vlevel |-> level]
    BY <2>1 DEF Null
  <2>3. [x EXCEPT !.klevel = 0, !.vlevel = 0] = [key |-> NIL, klevel |-> 0, value |-> NIL, vlevel |-> 0]
    <3>1. PICK y : y = [x EXCEPT !.klevel = 0]
      OBVIOUS
    <3>2. y = [key |-> NIL, klevel |-> 0, value |-> NIL, vlevel |-> level]
      BY <2>2, <3>1
    <3>3. [y EXCEPT !.vlevel = 0] = [key |-> NIL, klevel |-> 0, value |-> NIL, vlevel |-> 0]
      BY <3>2
    <3> QED BY <3>1, <3>3
  <2>4. CASE d \in Shared
    BY <1>2, <2>1, <2>3, <2>4 DEF LevelOf
  <2>5. CASE d \notin Shared
    BY <1>2, <2>1, <2>2, <2>5 DEF LevelOf
  <2> QED BY <2>4, <2>5
<1>4. LevelOf(d) \in Nat
  BY DEF LevelOf
<1>5. o \in Entry
  BY <1>2, <1>4 DEF Entry
<1>6. b = [size |-> CurMax[d] + 1, curmax |-> CurMax[d], curlength |-> 0, access |-> {"r", "w"},
           level |-> LevelOf(d), table |-> [i \in 0 .. CurMax[d] |-> o]]
  BY <1>3 DEF NewBody, LevelOf
<1>7. b.size = CurMax[d] + 1 /\ b.curmax = CurMax[d] /\ b.curlength = 0 /\ b.level = LevelOf(d)
      /\ b.table = [i \in 0 .. CurMax[d] |-> o]
  BY <1>6
<1>8. CurMax[d] \in Nat /\ CurMax[d] + 1 \in 1 .. 2 * MaxLen[d] /\ (CurMax[d] + 1) - 1 = CurMax[d]
  BY <1>1
<1>9. b \in DictBody(CurMax[d] + 1)
  BY <1>4, <1>5, <1>6, <1>8 DEF DictBody
<1>10. Sized(d, b)
  BY <1>1, <1>7, <1>8, <1>9 DEF Sized
<1> QED BY <1>2, <1>7, <1>8, <1>10, SizedLive DEF Fresh

LEMMA EmptyGood ==
  ASSUME NEW s \in Nat, NEW t, \A i \in 0 .. s - 1 : t[i] = NIL
  PROVE  Good(t, s, 0)
<1>1. Filled(t, s) = {}
  BY DEF Filled
<1>2. Cardinality(Filled(t, s)) = 0
  BY <1>1, FS_EmptySet
<1>3. Searchable(t, s)
  BY DEF Searchable
<1> QED BY <1>2, <1>3 DEF Good

\* d is made.
Made(h, g, d) ==
  /\ g = [body |-> g.body, cache |-> h.cache, sr |-> h.sr]
  /\ IsFcn(g.body) /\ DOMAIN g.body = Dict
  /\ \A x \in Dict : g.body[x] = IF x = d THEN NewBody(d) ELSE h.body[x]

\* The births after d is made.
Born(d) == level' = level /\ \A x \in Dict : birth'[x] = IF x = d THEN level ELSE birth[x]

LEMMA Unrecorded ==
  ASSUME level \in Nat, NEW h, Formed(h), NEW d \in Dict, h.body[d] = NIL
  PROVE  /\ DOMAIN Log(h.sr, "dbs", d) = {}
         /\ \A i : DOMAIN Log(h.sr, "keys", <<d, i>>) = {} /\ DOMAIN Log(h.sr, "values", <<d, i>>) = {}
         /\ \A l \in 1 .. level : \A p \in DOMAIN h.sr[l].keys : p[1] # d
<1>1. Recording(h) /\ DOMAIN h.sr = 1 .. level
  BY DEF Formed, Typed
<1>2. \A i : <<d, i>>[1] = d
  OBVIOUS
<1>3. DOMAIN Log(h.sr, "dbs", d) = {m \in DOMAIN h.sr : d \in DOMAIN h.sr[m].dbs}
  BY DEF Log
<1>4. \A i : /\ DOMAIN Log(h.sr, "keys", <<d, i>>) = {m \in DOMAIN h.sr : <<d, i>> \in DOMAIN h.sr[m].keys}
             /\ DOMAIN Log(h.sr, "values", <<d, i>>) = {m \in DOMAIN h.sr : <<d, i>> \in DOMAIN h.sr[m].values}
  BY DEF Log
<1>5. \A l \in 1 .. level : \A p \in DOMAIN h.sr[l].keys \cup DOMAIN h.sr[l].values : p[1] # d
  BY <1>1 DEF Recording
<1>6. \A l \in 1 .. level : d \notin DOMAIN h.sr[l].dbs
  BY <1>1 DEF Recording
<1>7. DOMAIN Log(h.sr, "dbs", d) = {}
  BY <1>1, <1>3, <1>6
<1>8. ASSUME NEW i
      PROVE  DOMAIN Log(h.sr, "keys", <<d, i>>) = {} /\ DOMAIN Log(h.sr, "values", <<d, i>>) = {}
  <2>1. ASSUME NEW m \in DOMAIN h.sr
        PROVE  <<d, i>> \notin DOMAIN h.sr[m].keys /\ <<d, i>> \notin DOMAIN h.sr[m].values
    BY <1>1, <1>2, <1>5, <2>1
  <2> QED BY <1>4, <2>1
<1> QED BY <1>5, <1>7, <1>8

LEMMA MadeGood ==
  ASSUME level \in Nat, NEW h, HeapOK(h), NEW d \in Dict \ Shared, h.body[d] = NIL,
         NEW g, Made(h, g, d), Born(d)
  PROVE  HeapOK(g)'
<1>1. Formed(h) /\ Typed(h) /\ Recording(h) /\ NowGood(h) /\ PastGood(h) /\ CacheOK(h) /\ VecOK(h)
  BY DEF HeapOK, Formed
<1>2. /\ g.cache = h.cache /\ g.sr = h.sr /\ g.body[d] = NewBody(d)
      /\ \A x \in Dict : x # d => g.body[x] = h.body[x]
      /\ g = [body |-> g.body, cache |-> g.cache, sr |-> g.sr] /\ IsFcn(g.body) /\ DOMAIN g.body = Dict
  BY DEF Made
<1>3. level' = level /\ birth'[d] = level /\ \A x \in Dict : x # d => birth'[x] = birth[x]
  BY DEF Born
<1>4. Typed(g)'
  BY <1>1, <1>2, <1>3 DEF Typed
<1>5. PICK b : b = g.body[d]
  OBVIOUS
<1>6. /\ Sized(d, b) /\ b # NIL /\ b.curlength = 0 /\ b.level = level
      /\ \A i \in 0 .. b.size - 1 : /\ b.table[i].key = NIL
                                    /\ b.table[i].klevel = level /\ b.table[i].vlevel = level
  <2>1. LevelOf(d) = level
    BY DEF LevelOf
  <2>2. Fresh(d, b, level)
    BY <1>2, <1>5, <2>1, NewBodyIs
  <2> QED BY <2>2 DEF Fresh
<1>7. Logged(g, d)'
  <2>1. DOMAIN Log(g.sr, "dbs", d) = {}
    BY <1>1, <1>2, Unrecorded
  <2>2. \A i : DOMAIN Log(g.sr, "keys", <<d, i>>) = {} /\ DOMAIN Log(g.sr, "values", <<d, i>>) = {}
    BY <1>1, <1>2, Unrecorded
  <2>3. Chain(Log(g.sr, "dbs", d), "level", level, level)
    BY <2>1, NoChain
  <2>4. \A i : /\ Chain(Log(g.sr, "keys", <<d, i>>), "klevel", level, level)
               /\ Chain(Log(g.sr, "values", <<d, i>>), "vlevel", level, level)
    BY <2>2, NoChain
  <2>5. level \in 0 .. level /\ level <= level
    OBVIOUS
  <2> QED BY <1>3, <1>5, <1>6, <2>3, <2>4, <2>5 DEF Logged
<1>8. ASSUME NEW x \in Dict, x # d, g.body[x] # NIL PROVE Sized(x, g.body[x]) /\ Logged(g, x)'
  <2>1. g.body[x] = h.body[x] /\ birth'[x] = birth[x] /\ Sized(x, h.body[x]) /\ Logged(h, x)
    BY <1>1, <1>2, <1>3, <1>8 DEF Formed
  <2> QED BY <1>2, <1>3, <2>1 DEF Logged
<1>9. Recording(g)'
  <2>1. ASSUME NEW l \in 1 .. level, NEW p \in DOMAIN h.sr[l].keys \cup DOMAIN h.sr[l].values
        PROVE  g.body[p[1]] # NIL /\ p[2] \in 0 .. g.body[p[1]].size - 1
    <3>1. h.body[p[1]] # NIL /\ p[2] \in 0 .. h.body[p[1]].size - 1
      BY <1>1, <2>1 DEF Recording
    <3>2. p \in (Dict \ Shared) \X Nat
      BY <1>1, <2>1 DEF Typed, Undo, Kinds, PlacesOf
    <3>3. p[1] \in Dict /\ p[1] # d
      BY <3>1, <3>2
    <3> QED BY <1>2, <3>1, <3>3
  <2>2. ASSUME NEW l \in 1 .. level, NEW x \in DOMAIN h.sr[l].dbs PROVE g.body[x] # NIL
    <3>1. h.body[x] # NIL /\ x \in Dict
      BY <1>1, <2>2 DEF Recording, Typed, Undo, Kinds, PlacesOf
    <3> QED BY <1>2, <3>1
  <2> QED BY <1>2, <1>3, <2>1, <2>2 DEF Recording
<1>10. Formed(g)'
  BY <1>4, <1>5, <1>6, <1>7, <1>8, <1>9 DEF Formed
<1>11. ASSUME NEW x \in Dict, g.body[x] # NIL
       PROVE  Good(KeysNow(g, x), g.body[x].size, g.body[x].curlength)
  <2>1. CASE x = d
    <3>1. b.size \in Nat
      BY <1>6, SizedLive
    <3>2. \A i \in 0 .. b.size - 1 : KeysNow(g, d)[i] = NIL
      BY <1>5, <1>6 DEF KeysNow
    <3>3. Good(KeysNow(g, d), b.size, 0)
      BY <3>1, <3>2, EmptyGood
    <3> QED BY <1>5, <1>6, <2>1, <3>3
  <2>2. CASE x # d
    <3>1. KeysNow(g, x) = KeysNow(h, x)
      BY <1>2, <2>2 DEF KeysNow
    <3> QED BY <1>1, <1>2, <1>11, <2>2, <3>1 DEF NowGood
  <2> QED BY <2>1, <2>2
<1>12. PastGood(g)'
  <2>1. ASSUME NEW x \in Dict \ Shared, g.body[x] # NIL, NEW k \in birth'[x] .. level - 1
        PROVE  /\ Good(KeysAt(g, x, k), g.body[x].size, HeaderAt(g, x, k).curlength)
               /\ HeaderAt(g, x, k).curlength <= MaxLen[x]
    <3>1. x # d
      BY <1>3, <2>1
    <3>2. /\ KeysAt(g, x, k) = KeysAt(h, x, k) /\ HeaderAt(g, x, k) = HeaderAt(h, x, k)
          /\ g.body[x] = h.body[x] /\ birth'[x] = birth[x]
      BY <1>2, <1>3, <3>1 DEF KeysAt, HeaderAt, KeyAt
    <3> QED BY <1>1, <2>1, <3>2 DEF PastGood
  <2> QED BY <1>3, <2>1 DEF PastGood
<1>13. CacheOK(g)'
  <2>1. ASSUME NEW n \in Name, h.cache[n].dict # NIL
        PROVE  h.cache[n].dict \in Dict /\ h.cache[n].dict # d
    BY <2>1, CachedHas
  <2> SUFFICES ASSUME NEW n \in Name, g.cache[n].dict # NIL
               PROVE  /\ g.body[g.cache[n].dict] # NIL
                      /\ g.cache[n].loc \in 0 .. g.body[g.cache[n].dict].size - 1
                      /\ g.body[g.cache[n].dict].table[g.cache[n].loc].key = n
    BY DEF CacheOK
  <2>2. g.cache = h.cache
    BY <1>2
  <2>3. g.body[h.cache[n].dict] = h.body[h.cache[n].dict]
    BY <1>2, <2>1, <2>2
  <2>4. /\ h.body[h.cache[n].dict] # NIL
        /\ h.cache[n].loc \in 0 .. h.body[h.cache[n].dict].size - 1
        /\ h.body[h.cache[n].dict].table[h.cache[n].loc].key = n
    <3>1. h.cache[n].dict # NIL
      BY <2>2
    <3> QED BY <3>1, CachedHas
  <2> QED BY <2>2, <2>3, <2>4
<1>14. VecOK(g)'
  <2>1. ASSUME NEW x \in Dict, NEW n \in Name, Seen(g, x, n)' PROVE Seen(h, x, n)
    <3>1. CASE g.body[x] # NIL /\ \E i \in 0 .. g.body[x].size - 1 : g.body[x].table[i].key = n
      <4>1. x # d
        <5>1. n # NIL
          BY NilNot
        <5> QED BY <1>5, <1>6, <3>1, <5>1
      <4> QED BY <1>2, <3>1, <4>1 DEF Seen
    <3>2. CASE \E l \in 1 .. level : \E p \in DOMAIN h.sr[l].keys : p[1] = x /\ h.sr[l].keys[p].key = n
      BY <3>2 DEF Seen
    <3>3. \/ g.body[x] # NIL /\ \E i \in 0 .. g.body[x].size - 1 : g.body[x].table[i].key = n
          \/ \E l \in 1 .. level : \E p \in DOMAIN g.sr[l].keys : p[1] = x /\ g.sr[l].keys[p].key = n
      BY <1>3, <2>1 DEF Seen
    <3>4. g.sr = h.sr
      BY <1>2
    <3> QED BY <3>1, <3>2, <3>3, <3>4
  <2>2. g.cache = h.cache /\ VecOK(h)
    BY <1>1, <1>2
  <2> QED BY <2>1, <2>2 DEF VecOK
<1> QED BY <1>10, <1>11, <1>12, <1>13, <1>14 DEF HeapOK, NowGood

-----------------------------------------------------------------------------
(* The initial heap.                                                        *)

LEMMA InitLevel ==
  ASSUME Init
  PROVE  level = 0 /\ IsFcn(srList) /\ DOMAIN srList = 1 .. 0
  BY DEF Init, level, IsFcn

LEMMA InitFacts ==
  ASSUME Init
  PROVE  /\ \A d \in Dict : body[d] = IF d \in Initial THEN NewBody(d) ELSE NIL
         /\ \A d \in Dict : birth[d] = IF d \in Initial THEN 0 ELSE NIL
         /\ \A n \in Name : cache[n] = [loc |-> NIL, dict |-> NIL, ts |-> NIL, vec |-> {}]
         /\ IsFcn(body) /\ DOMAIN body = Dict /\ birth = [d \in Dict |-> birth[d]]
         /\ cache \in [Name -> Binding]
  BY DEF Init, IsFcn, Binding

LEMMA InitBodies ==
  ASSUME Init, NEW d \in Dict
  PROVE  /\ d \in Initial => Fresh(d, body[d], 0) /\ birth[d] = 0
         /\ d \notin Initial => body[d] = NIL /\ birth[d] = NIL
<1>1. level = 0 /\ level \in Nat
  BY InitLevel
<1>2. LevelOf(d) = 0
  BY <1>1 DEF LevelOf
<1>3. PICK b : b = NewBody(d)
  OBVIOUS
<1>4. Fresh(d, b, 0)
  BY <1>1, <1>2, <1>3, NewBodyIs
<1> QED BY <1>3, <1>4, InitFacts

LEMMA InitHeap ==
  ASSUME Init
  PROVE  HeapOK(Heap)
<1>1. level = 0 /\ IsFcn(srList) /\ DOMAIN srList = 1 .. 0 /\ level \in Nat
  BY InitLevel
<1>2. PICK h : h = Heap
  OBVIOUS
<1>3. h.body = body /\ h.cache = cache /\ h.sr = srList /\ h = [body |-> h.body, cache |-> h.cache, sr |-> h.sr]
  BY <1>2 DEF Heap
<1>4. \A l \in 1 .. level : FALSE
  BY <1>1
<1>5. Typed(h)
  BY <1>1, <1>3, <1>4, InitFacts DEF Typed
<1>6. \A d \in Dict : h.body[d] # NIL => Fresh(d, h.body[d], 0) /\ birth[d] = 0
  BY <1>3, InitBodies
<1>7. \A kind, p : DOMAIN Log(h.sr, kind, p) = {}
  BY <1>1, <1>3 DEF Log
<1>8. ASSUME NEW d \in Dict, h.body[d] # NIL PROVE Logged(h, d)
  <2>1. Fresh(d, h.body[d], 0) /\ birth[d] = 0
    BY <1>6, <1>8
  <2>2. \A kind, p, field : Chain(Log(h.sr, kind, p), field, 0, 0)
    BY <1>7, NoChain
  <2>3. 0 \in 0 .. level /\ 0 <= level
    BY <1>1
  <2> QED BY <2>1, <2>2, <2>3 DEF Logged, Fresh
<1>9. Recording(h)
  BY <1>4 DEF Recording
<1>10. Formed(h)
  BY <1>5, <1>6, <1>8, <1>9 DEF Formed, Fresh
<1>11. NowGood(h)
  <2>1. ASSUME NEW d \in Dict, h.body[d] # NIL
        PROVE  Good(KeysNow(h, d), h.body[d].size, h.body[d].curlength)
    <3>1. Fresh(d, h.body[d], 0)
      BY <1>6, <2>1
    <3>2. h.body[d].size \in Nat /\ h.body[d].curlength = 0
      BY <3>1, SizedLive DEF Fresh
    <3>3. \A i \in 0 .. h.body[d].size - 1 : KeysNow(h, d)[i] = NIL
      BY <3>1 DEF Fresh, KeysNow
    <3>4. PICK t : t = KeysNow(h, d)
      OBVIOUS
    <3>5. PICK s : s = h.body[d].size
      OBVIOUS
    <3>6. Good(t, s, 0)
      BY <3>2, <3>3, <3>4, <3>5, EmptyGood
    <3> QED BY <3>2, <3>4, <3>5, <3>6
  <2> QED BY <2>1 DEF NowGood
<1>12. PastGood(h)
  <2>1. \A d \in Dict : h.body[d] # NIL => \A k \in birth[d] .. level - 1 : FALSE
    BY <1>1, <1>6
  <2> QED BY <2>1 DEF PastGood
<1>13. \A n \in Name : h.cache[n].dict = NIL
  BY <1>3, InitFacts
<1>14. CacheOK(h)
  BY <1>13 DEF CacheOK
<1>15. VecOK(h)
  <2>1. ASSUME NEW d \in Dict, NEW n \in Name PROVE ~ Seen(h, d, n) /\ h.cache[n].dict # d
    <3>1. n # NIL /\ d # NIL
      BY NilNot
    <3>2. h.body[d] # NIL => \A i \in 0 .. h.body[d].size - 1 : h.body[d].table[i].key = NIL
      BY <1>6 DEF Fresh
    <3> QED BY <1>4, <1>13, <3>1, <3>2 DEF Seen
  <2> QED BY <2>1 DEF VecOK
<1> QED BY <1>2, <1>10, <1>11, <1>12, <1>14, <1>15 DEF HeapOK

-----------------------------------------------------------------------------
(* Where a name is topmost on a stack, now and at an earlier level.         *)

\* d is the uppermost of stack that had n at level k.
AtTop(h, stack, n, k, d) ==
  \E i \in DOMAIN stack :
    /\ stack[i] = d /\ HasAt(h, d, n, k)
    /\ \A j \in DOMAIN stack : i < j => ~ HasAt(h, stack[j], n, k)

LEMMA TopAtIs ==
  ASSUME NEW c, NEW n, NEW k, NEW d
  PROVE  TopAt(c, n, k, d) <=> AtTop(Heap, dstack[c], n, k, d)
<1>1. \A x : n \in {KeyAt(Heap, x, i, k).key : i \in 0 .. body[x].size - 1} <=> HasAt(Heap, x, n, k)
  <2>1. Heap.body = body
    BY DEF Heap
  <2> QED BY <2>1 DEF HasAt
<1> QED BY <1>1 DEF TopAt, AtTop

LEMMA TopAtNext ==
  ASSUME NEW c, NEW n, NEW k
  PROVE  TopAt(c, n, k, cache[n].dict)' <=> AtTop(Heap', dstack'[c], n, k, cache'[n].dict)
<1>1. \A x : n \in {KeyAt(Heap', x, i, k).key : i \in 0 .. body'[x].size - 1} <=> HasAt(Heap', x, n, k)
  <2>1. Heap'.body = body'
    BY DEF Heap
  <2> QED BY <2>1 DEF HasAt
<1> QED BY <1>1 DEF TopAt, AtTop

LEMMA AtTopNow ==
  ASSUME level \in Nat, NEW h, Typed(h), NEW c, NEW n, NEW d
  PROVE  AtTop(h, dstack[c], n, level, d) <=> TopHas(h, c, n, d)
  BY HasNow DEF AtTop, TopHas

LEMMA AtTopStays ==
  ASSUME NEW h, NEW g, NEW s, NEW n, NEW k, NEW d, AtTop(h, s, n, k, d), HasAt(g, d, n, k),
         \A i \in DOMAIN s : HasAt(g, s[i], n, k) => HasAt(h, s[i], n, k)
  PROVE  AtTop(g, s, n, k, d)
  BY DEF AtTop

\* What a dictionary has at a level an operator may change is what it has now.
LEMMA HasMoves ==
  ASSUME level \in Nat, NEW h, HeapOK(h), NEW g, HeapOK(g), Kept(h, g), NEW d \in Dict, h.body[d] # NIL,
         NEW k \in 0 .. level, k = level \/ birth[d] <= k, NEW n
  PROVE  \/ HasAt(g, d, n, k) <=> HasAt(h, d, n, k)
         \/ (HasAt(g, d, n, k) <=> Has(g, d, n)) /\ (HasAt(h, d, n, k) <=> Has(h, d, n))
<1>1. Typed(h) /\ Typed(g) /\ Formed(h)
  BY DEF HeapOK, Formed
<1>2. CASE k = level
  BY <1>1, <1>2, HasNow
<1>3. CASE d \in Shared
  BY <1>1, <1>3, HasShared
<1>4. CASE k # level /\ d \notin Shared
  <2>1. birth[d] \in Nat
    BY <1>1 DEF Formed, Logged
  <2>2. k \in birth[d] .. level - 1
    BY <1>4, <2>1
  <2> QED BY <1>4, <2>2, KeptHas
<1> QED BY <1>2, <1>3, <1>4

\* Where a dictionary may be while another context saves.
Within(c, k) == k \in 0 .. level /\ (k = level \/ c # saver)

LEMMA StackBirths ==
  ASSUME Ground, HeapInv, StackInv, NEW c \in Context, NEW k, Within(c, k), NEW i \in DOMAIN dstack[c]
  PROVE  /\ dstack[c][i] \in Dict /\ body[dstack[c][i]] # NIL /\ birth[dstack[c][i]] \in Nat
         /\ k = level \/ birth[dstack[c][i]] <= k
<1>1. PICK d : d = dstack[c][i]
  OBVIOUS
<1>2. dstack[c] \in Seq(Dict)
  BY DEF StackInv
<1>3. d \in Dict /\ d \in OnStack(c)
  BY <1>1, <1>2 DEF OnStack
<1>4. body[d] # NIL /\ birth[d] <= (IF c = saver THEN level ELSE 0)
  BY <1>3 DEF StackInv
<1>5. birth[d] \in Nat
  BY <1>3, <1>4 DEF Ground
<1>6. k = level \/ birth[d] <= k
  BY <1>4, <1>5 DEF Within
<1> QED BY <1>1, <1>3, <1>4, <1>5, <1>6

-----------------------------------------------------------------------------
(* Operators that write the heap: the stamps that they leave are true.      *)

LEMMA GroundLevel ==
  ASSUME Ground
  PROVE  level \in Nat /\ level <= MaxLevel
  BY DictAssumption DEF Ground

LEMMA HeapIs ==
  /\ Heap.body = body /\ Heap.cache = cache /\ Heap.sr = srList
  /\ HeapInv <=> HeapOK(Heap)
  BY DEF Heap, HeapInv, HeapOK

LEMMA StampSame ==
  ASSUME gen \in [Context -> 1 .. MaxGen], NEW c \in Context, NEW e \in Context, stamp(c) = stamp(e)
  PROVE  c = e
  BY DEF stamp

LEMMA StampNot ==
  ASSUME gen \in [Context -> 1 .. MaxGen], NEW c \in Context
  PROVE  stamp(c) # NIL /\ stamp(c)[1] = c /\ stamp(c)[2] = gen[c] /\ stamp(c) \in Context \X Nat
<1>1. gen[c] \in Nat
  OBVIOUS
<1>2. <<c, gen[c]>> \in Context \X Nat
  BY <1>1
<1> QED BY <1>2, DictAssumption DEF stamp

\* What an operator may make of the binding of n: it gives it up, or keeps it and no dictionary
\* has gained n, or it is the topmost for the context that runs.
StampOK(h, g, n) ==
  \/ g.cache[n].ts = NIL
  \/ /\ g.cache[n].ts = h.cache[n].ts /\ g.cache[n].dict = h.cache[n].dict
     /\ \A x \in Dict : Has(g, x, n) => Has(h, x, n)
  \/ \E c \in Context : /\ Runs(c) /\ g.cache[n].ts = stamp(c)
                        /\ <<c, n>> \in returned \/ TopHas(g, c, n, g.cache[n].dict)

\* An operator that keeps to the heap.
HeapStep(h, g) ==
  /\ h = Heap /\ HeapOK(g) /\ Kept(h, g) /\ \A n \in Name : StampOK(h, g, n)
  /\ Becomes(g) /\ UNCHANGED same

LEMMA KeptTop ==
  ASSUME Ground, HeapInv, StackInv, NEW h, h = Heap, NEW g, HeapOK(g), Kept(h, g), NEW n \in Name,
         g.cache[n].dict = h.cache[n].dict, \A x \in Dict : Has(g, x, n) => Has(h, x, n),
         NEW c \in Context, NEW k, Within(c, k), AtTop(h, dstack[c], n, k, h.cache[n].dict)
  PROVE  AtTop(g, dstack[c], n, k, g.cache[n].dict)
<1>1. level \in Nat /\ HeapOK(h) /\ h.body = body /\ k \in 0 .. level
  BY GroundLevel, HeapIs DEF Within
<1>2. PICK s : s = dstack[c]
  OBVIOUS
<1>3. PICK d : d = h.cache[n].dict
  OBVIOUS
<1>4. PICK i \in DOMAIN s : s[i] = d /\ HasAt(h, d, n, k)
  BY <1>2, <1>3 DEF AtTop
<1>5. \A j \in DOMAIN s : /\ s[j] \in Dict /\ h.body[s[j]] # NIL
                          /\ k = level \/ birth[s[j]] <= k
  BY <1>1, <1>2, StackBirths
<1>6. \A j \in DOMAIN s :
        \/ HasAt(g, s[j], n, k) <=> HasAt(h, s[j], n, k)
        \/ (HasAt(g, s[j], n, k) <=> Has(g, s[j], n)) /\ (HasAt(h, s[j], n, k) <=> Has(h, s[j], n))
  BY <1>1, <1>5, HasMoves
<1>7. d \in Dict /\ d # NIL
  BY <1>4, <1>5, NilNot
<1>8. Has(g, d, n)
  BY <1>3, <1>7, CachedHas
<1>9. HasAt(g, d, n, k)
  BY <1>4, <1>6, <1>8
<1>10. \A j \in DOMAIN s : HasAt(g, s[j], n, k) => HasAt(h, s[j], n, k)
  BY <1>5, <1>6
<1>11. AtTop(h, s, n, k, d)
  BY <1>2, <1>3
<1>12. AtTop(g, s, n, k, d)
  BY <1>9, <1>10, <1>11, AtTopStays
<1> QED BY <1>2, <1>3, <1>12

LEMMA HeapStepTop ==
  ASSUME Ground, HeapInv, StackInv, StampInv, NEW h, NEW g, HeapStep(h, g),
         NEW n \in Name, NEW c \in Context, NEW k, Within(c, k),
         g.cache[n].ts = stamp(c), <<c, n>> \notin returned
  PROVE  AtTop(g, dstack[c], n, k, g.cache[n].dict)
<1>1. level \in Nat /\ HeapOK(h) /\ h = Heap /\ HeapOK(g) /\ Kept(h, g) /\ StampOK(h, g, n) /\ Typed(g)
  BY GroundLevel, HeapIs DEF HeapStep, HeapOK, Formed
<1>2. gen \in [Context -> 1 .. MaxGen] /\ stamp(c) # NIL
  BY StampNot DEF StampInv
<1>3. CASE /\ g.cache[n].ts = h.cache[n].ts /\ g.cache[n].dict = h.cache[n].dict
           /\ \A x \in Dict : Has(g, x, n) => Has(h, x, n)
  <2>1. cache[n].ts = stamp(c) /\ k \in 0 .. level /\ (k = level \/ c # saver)
    BY <1>1, <1>3, HeapIs DEF Within
  <2>2. TopAt(c, n, k, cache[n].dict)
    BY <2>1 DEF StampInv
  <2>3. AtTop(h, dstack[c], n, k, h.cache[n].dict)
    BY <1>1, <2>2, TopAtIs, HeapIs
  <2> QED BY <1>1, <1>3, <2>3, KeptTop
<1>4. CASE \E e \in Context : /\ Runs(e) /\ g.cache[n].ts = stamp(e)
                              /\ <<e, n>> \in returned \/ TopHas(g, e, n, g.cache[n].dict)
  <2>1. Runs(c) /\ TopHas(g, c, n, g.cache[n].dict)
    BY <1>2, <1>4, StampSame
  <2>2. k = level
    BY <1>1, <2>1 DEF Runs, Within
  <2> QED BY <1>1, <2>1, <2>2, AtTopNow
<1> QED BY <1>1, <1>2, <1>3, <1>4 DEF StampOK

LEMMA HeapStepGood ==
  ASSUME Ground, HeapInv, StackInv, StampInv, NEW h, NEW g, HeapStep(h, g)
  PROVE  IInv'
<1>1. /\ level \in Nat /\ HeapOK(h) /\ h = Heap /\ HeapOK(g) /\ Kept(h, g) /\ Becomes(g)
      /\ birth' = birth /\ dstack' = dstack /\ gen' = gen /\ saver' = saver
      /\ returned' = returned /\ program' = program
  BY GroundLevel, HeapIs DEF HeapStep, same
<1>2. level' = level /\ Heap' = g /\ HeapOK(Heap)'
  BY <1>1, OpHeap
<1>3. HeapInv'
  BY <1>2 DEF HeapInv, HeapOK
<1>4. body' = g.body /\ cache' = g.cache /\ h.body = body /\ h.cache = cache
  BY <1>1, HeapIs DEF Becomes
<1>5. \A d \in Dict : body'[d] = NIL <=> body[d] = NIL
  BY <1>1, <1>4 DEF Kept
<1>6. Ground'
  BY <1>1, <1>2, <1>5, DictAssumption DEF Ground
<1>7. StackInv'
  <2>1. \A c \in Context : \A d \in OnStack(c) : d \in Dict
    BY DEF StackInv, OnStack
  <2> QED BY <1>1, <1>2, <1>5, <2>1 DEF StackInv, OnStack
<1>8. StampInv'
  <2>1. gen' \in [Context -> 1 .. MaxGen]
    BY <1>1 DEF StampInv
  <2>2. ASSUME NEW n \in Name, NEW c \in Context, cache'[n].ts # NIL, cache'[n].ts[1] = c
        PROVE  cache'[n].ts[2] <= gen[c]
    <3>1. StampOK(h, g, n) /\ g.cache[n].ts # NIL /\ g.cache[n].ts[1] = c
      BY <1>4, <2>2 DEF HeapStep
    <3>2. CASE g.cache[n].ts = h.cache[n].ts
      BY <1>4, <2>2, <3>2 DEF StampInv
    <3>3. CASE \E e \in Context : g.cache[n].ts = stamp(e)
      <4>1. PICK e \in Context : g.cache[n].ts = stamp(e)
        BY <3>3
      <4>2. gen \in [Context -> 1 .. MaxGen]
        BY DEF StampInv
      <4>3. stamp(e)[1] = e /\ stamp(e)[2] = gen[e] /\ gen[e] \in Nat
        BY <4>2, StampNot
      <4>4. e = c
        BY <3>1, <4>1, <4>3
      <4> QED BY <1>4, <4>1, <4>3, <4>4
    <3> QED BY <3>1, <3>2, <3>3 DEF StampOK
  <2>3. ASSUME NEW n \in Name, NEW c \in Context, NEW k \in 0 .. level, cache'[n].ts = stamp(c),
               <<c, n>> \notin returned, k = level \/ c # saver
        PROVE  TopAt(c, n, k, cache[n].dict)'
    <3>1. Within(c, k) /\ g.cache[n].ts = stamp(c)
      BY <1>4, <2>3 DEF Within
    <3>2. AtTop(g, dstack[c], n, k, g.cache[n].dict)
      BY <2>3, <3>1, HeapStepTop
    <3> QED BY <1>1, <1>2, <1>4, <3>2, TopAtNext
  <2>4. \A c \in Context : stamp(c)' = stamp(c)
    BY <1>1 DEF stamp
  <2> QED BY <1>1, <1>2, <2>1, <2>2, <2>3, <2>4 DEF StampInv
<1> QED BY <1>3, <1>6, <1>7, <1>8 DEF IInv

-----------------------------------------------------------------------------
(* def, put, load, undef and the access operators preserve the invariant.   *)

\* What the operators rest on.
Ready == Ground /\ HeapInv /\ StackInv /\ StampInv

LEMMA ReadyIs ==
  ASSUME Ready
  PROVE  /\ level \in Nat /\ HeapOK(Heap) /\ Heap.body = body /\ Heap.cache = cache
         /\ gen \in [Context -> 1 .. MaxGen] /\ \A c \in Context : gen[c] \in Nat
         /\ \A c \in Context : StackOf(Heap, c)
<1>1. level \in Nat /\ HeapOK(Heap) /\ Heap.body = body /\ Heap.cache = cache
  BY GroundLevel, HeapIs DEF Ready
<1>2. gen \in [Context -> 1 .. MaxGen]
  BY DEF Ready, StampInv
<1>3. \A c \in Context : StackOf(Heap, c)
  BY <1>1 DEF Ready, StackInv, StackOf, OnStack
<1> QED BY <1>1, <1>2, <1>3

LEMMA TopIs ==
  ASSUME Ready, NEW c \in Context
  PROVE  /\ Len(dstack[c]) \in DOMAIN dstack[c] /\ Top(c) \in Dict /\ body[Top(c)] # NIL
         /\ \A i \in DOMAIN dstack[c] : i <= Len(dstack[c])
<1>1. dstack[c] \in Seq(Dict) /\ Len(Base[c]) <= Len(dstack[c])
  BY DEF Ready, StackInv
<1>2. Base[c] \in Seq(Dict) /\ Base[c] # <<>>
  BY DictAssumption
<1>3. Len(Base[c]) > 0
  BY <1>2
<1>4. Len(dstack[c]) \in DOMAIN dstack[c] /\ \A i \in DOMAIN dstack[c] : i <= Len(dstack[c])
  BY <1>1, <1>2, <1>3
<1>5. Top(c) \in Dict /\ Top(c) \in OnStack(c)
  BY <1>1, <1>4 DEF Top, OnStack
<1> QED BY <1>4, <1>5 DEF Ready, StackInv

LEMMA TopOfAll ==
  ASSUME Ready, NEW c \in Context, NEW g, NEW n, Has(g, Top(c), n)
  PROVE  TopHas(g, c, n, Top(c))
<1>1. PICK i : i = Len(dstack[c])
  OBVIOUS
<1>2. i \in DOMAIN dstack[c] /\ dstack[c][i] = Top(c) /\ \A j \in DOMAIN dstack[c] : j <= i
  BY <1>1, TopIs DEF Top
<1>3. dstack[c] \in Seq(Dict)
  BY DEF Ready, StackInv
<1>4. \A j \in DOMAIN dstack[c] : ~ (i < j)
  BY <1>2, <1>3
<1> QED BY <1>2, <1>4 DEF TopHas

LEMMA TopHasOn ==
  ASSUME NEW h, NEW g, NEW c, NEW n, NEW d, TopHas(h, c, n, d),
         \A i \in DOMAIN dstack[c] : Has(g, dstack[c][i], n) <=> Has(h, dstack[c][i], n)
  PROVE  TopHas(g, c, n, d)
  BY DEF TopHas

\* The put that an operator of c makes where it may say that n is topmost.
PutRight(g, c, d, n, top) == Runs(c) /\ (top => <<c, n>> \in returned \/ TopHas(g, c, n, d))

\* Two steps of one operator.
LEMMA PutStamps ==
  ASSUME NEW h, HeapOK(h), NEW d \in Dict, NEW n \in Name, NEW c \in Context, NEW top,
         NEW g, PutDone(h, g, c, d, n, top), PutRight(g, c, d, n, top),
         NEW m \in Name
  PROVE  StampOK(h, g, m)
<1>1. CASE m # n
  BY <1>1 DEF PutDone, StampOK
<1>2. CASE m = n
  <2>1. CASE g.cache[n].ts = NIL
    BY <1>2, <2>1 DEF StampOK
  <2>2. CASE h.cache[n].dict = d /\ g.cache[n].ts = h.cache[n].ts
    <3>1. d # NIL
      BY NilNot
    <3>2. Has(h, d, n)
      BY <2>2, <3>1, CachedHas
    <3> QED BY <1>2, <2>2, <3>2 DEF PutDone, StampOK
  <2>3. CASE top /\ g.cache[n].ts = stamp(c)
    BY <1>2, <2>3 DEF PutDone, PutRight, StampOK
  <2> QED BY <2>1, <2>2, <2>3 DEF PutDone
<1> QED BY <1>1, <1>2

LEMMA DefStep ==
  ASSUME Ready, NEW c \in Context, NEW n \in Name, NEW v \in Value, Def(c, n, v)
  PROVE  IInv'
<1>1. PICK h : h = Heap
  OBVIOUS
<1>2. PICK d : d = Top(c)
  OBVIOUS
<1>3. PICK g : g = PutInDict(h, c, d, n, v, TRUE)
  OBVIOUS
<1>4. level \in Nat /\ HeapOK(h) /\ h.body = body /\ gen[c] \in Nat /\ d \in Dict /\ h.body[d] # NIL
  BY <1>1, <1>2, ReadyIs, TopIs
<1>5. CanPut(h, d, n) /\ Runs(c) /\ Becomes(g) /\ UNCHANGED same
  BY <1>1, <1>2, <1>3 DEF Def, Uses
<1>6. PutDone(h, g, c, d, n, TRUE)
  BY <1>3, <1>4, <1>5, PutInDictGood
<1>7. Has(g, Top(c), n)
  BY <1>2, <1>4, <1>6 DEF PutDone
<1>8. PutRight(g, c, d, n, TRUE)
  BY <1>2, <1>5, <1>7, TopOfAll DEF PutRight
<1>9. \A m \in Name : StampOK(h, g, m)
  BY <1>4, <1>6, <1>8, PutStamps
<1>10. HeapStep(h, g)
  BY <1>1, <1>5, <1>6, <1>9 DEF HeapStep, PutDone
<1> QED BY <1>10, HeapStepGood DEF Ready

LEMMA DictPutStep ==
  ASSUME Ready, NEW c \in Context, NEW d \in Dict, NEW n \in Name, NEW v \in Value, DictPut(c, d, n, v)
  PROVE  IInv'
<1>1. PICK h : h = Heap
  OBVIOUS
<1>3. PICK g : g = PutInDict(h, c, d, n, v, FALSE)
  OBVIOUS
<1>4. level \in Nat /\ HeapOK(h) /\ h.body = body /\ gen[c] \in Nat
  BY <1>1, ReadyIs
<1>5. h.body[d] # NIL /\ CanPut(h, d, n) /\ Runs(c) /\ Becomes(g) /\ UNCHANGED same
  BY <1>1, <1>3, <1>4 DEF DictPut, Uses, Alive
<1>6. PutDone(h, g, c, d, n, FALSE)
  BY <1>3, <1>4, <1>5, PutInDictGood
<1>8. PutRight(g, c, d, n, FALSE)
  BY <1>5 DEF PutRight
<1>9. \A m \in Name : StampOK(h, g, m)
  BY <1>4, <1>6, <1>8, PutStamps
<1>10. HeapStep(h, g)
  BY <1>1, <1>5, <1>6, <1>9 DEF HeapStep, PutDone
<1> QED BY <1>10, HeapStepGood DEF Ready

LEMMA LoadStamps ==
  ASSUME NEW h, NEW c \in Context, NEW n, NEW g, LoadDone(h, g, c, n), Runs(c), NEW m \in Name
  PROVE  StampOK(h, g, m)
<1>1. \A x \in Dict : Has(g, x, m) => Has(h, x, m)
  BY DEF LoadDone, Same
<1>2. CASE m # n \/ (g.cache[n].dict = h.cache[n].dict /\ g.cache[n].ts = h.cache[n].ts)
  <2>1. g.cache[m].dict = h.cache[m].dict /\ g.cache[m].ts = h.cache[m].ts
    BY <1>2 DEF LoadDone
  <2> QED BY <1>1, <2>1 DEF StampOK
<1>3. CASE m = n /\ TopHas(h, c, n, g.cache[n].dict) /\ g.cache[n].ts = stamp(c)
  <2>1. \A d : Has(g, d, n) <=> Has(h, d, n)
    BY DEF LoadDone, Has
  <2>2. TopHas(g, c, n, g.cache[n].dict)
    BY <1>3, <2>1, TopHasOn
  <2> QED BY <1>3, <2>2 DEF StampOK
<1> QED BY <1>2, <1>3 DEF LoadDone

LEMMA LoadStep ==
  ASSUME Ready, NEW c \in Context, NEW n \in Name, Load(c, n)
  PROVE  IInv'
<1>1. PICK h : h = Heap
  OBVIOUS
<1>2. PICK g : g = Loaded(h, c, n)
  OBVIOUS
<1>3. level \in Nat /\ HeapOK(h) /\ StackOf(h, c) /\ gen[c] \in Nat
  BY <1>1, ReadyIs
<1>4. Runs(c) /\ Becomes(g) /\ UNCHANGED same
  BY <1>1, <1>2 DEF Load, Uses
<1>5. LoadDone(h, g, c, n)
  BY <1>2, <1>3, LoadedGood
<1>6. \A m \in Name : StampOK(h, g, m)
  BY <1>4, <1>5, LoadStamps
<1>7. HeapStep(h, g)
  BY <1>1, <1>4, <1>5, <1>6 DEF HeapStep, LoadDone, Same
<1> QED BY <1>7, HeapStepGood DEF Ready

LEMMA UnDefStep ==
  ASSUME Ready, NEW c \in Context, NEW d \in Dict, NEW n \in Name, UnDef(c, d, n)
  PROVE  IInv'
<1>1. PICK h : h = Heap
  OBVIOUS
<1>2. PICK g : g = UnDefined(h, d, n)
  OBVIOUS
<1>3. level \in Nat /\ HeapOK(h) /\ h.body = body /\ h.cache = cache
  BY <1>1, ReadyIs
<1>4. /\ h.body[d] # NIL /\ (h.cache[n].dict = d \/ Known(h.body[d], n))
      /\ Becomes(g) /\ UNCHANGED same
  BY <1>1, <1>2, <1>3 DEF UnDef, Alive
<1>5. UndefDone(h, g, d, n)
  BY <1>2, <1>3, <1>4, UnDefinedGood
<1>6. ASSUME NEW m \in Name PROVE StampOK(h, g, m)
  <2>1. \A x \in Dict : Has(g, x, m) => Has(h, x, m)
    BY <1>5 DEF UndefDone
  <2> QED BY <1>5, <2>1 DEF UndefDone, StampOK
<1>7. HeapStep(h, g)
  BY <1>1, <1>4, <1>5, <1>6 DEF HeapStep, UndefDone
<1> QED BY <1>7, HeapStepGood DEF Ready

LEMMA AccessStep ==
  ASSUME Ready, NEW c \in Context, NEW d \in Dict, NEW a \in SUBSET {"r", "w"}, SetDictAccess(c, d, a)
  PROVE  IInv'
<1>1. PICK h : h = Heap
  OBVIOUS
<1>2. PICK acc : acc = body[d].access \cap a
  OBVIOUS
<1>3. PICK f : f = PutHeader(h, d, h.body[d].curlength, acc)
  OBVIOUS
<1>4. PICK g : g = IF "r" \in a THEN f ELSE DictFinalize(f, d)
  OBVIOUS
<1>5. level \in Nat /\ HeapOK(h) /\ h.body = body
  BY <1>1, ReadyIs
<1>6. h.body[d] # NIL /\ Becomes(g) /\ UNCHANGED same
  BY <1>1, <1>2, <1>3, <1>4, <1>5 DEF SetDictAccess, Alive
<1>7. acc \in SUBSET {"r", "w"}
  BY <1>2
<1>8. Settled(h, g)
  BY <1>3, <1>4, <1>5, <1>6, <1>7, AccessGood
<1>9. ASSUME NEW m \in Name PROVE StampOK(h, g, m)
  BY <1>8 DEF Settled, Same, StampOK
<1>10. HeapStep(h, g)
  BY <1>1, <1>6, <1>8, <1>9 DEF HeapStep, Settled, Same
<1> QED BY <1>10, HeapStepGood DEF Ready

-----------------------------------------------------------------------------
(* store does.                                                              *)

\* Where a name is found, or the current dictionary.
StoresIn(h, c, n) == IF Resolved(h, c, n) = NIL THEN Top(c) ELSE Resolved(h, c, n)

\* A context finds n at its topmost, unless a restore gave n back.
LEMMA ResolvedIs ==
  ASSUME Ready, NEW c \in Context, Runs(c), NEW n \in Name, NEW h, h = Heap
  PROVE  /\ <<c, n>> \notin returned => Resolved(h, c, n) = Uppermost(h, c, n)
         /\ Resolved(h, c, n) # NIL => /\ Resolved(h, c, n) \in Dict /\ h.body[Resolved(h, c, n)] # NIL
                                       /\ <<c, n>> \in returned \/ TopHas(h, c, n, Resolved(h, c, n))
<1>1. level \in Nat /\ HeapOK(h) /\ h.cache = cache /\ StackOf(h, c) /\ Typed(h)
  BY ReadyIs DEF HeapOK, Formed
<1>2. CASE Current(h, c, n)
  <2>1. Resolved(h, c, n) = h.cache[n].dict /\ h.cache[n].ts = stamp(c)
    BY <1>2 DEF Resolved, Current
  <2>2. ASSUME <<c, n>> \notin returned PROVE TopHas(h, c, n, h.cache[n].dict)
    <3>1. TopAt(c, n, level, cache[n].dict)
      <4>1. level \in 0 .. level
        BY <1>1
      <4> QED BY <1>1, <2>1, <2>2, <4>1 DEF Ready, StampInv
    <3>2. AtTop(h, dstack[c], n, level, h.cache[n].dict)
      BY <1>1, <3>1, TopAtIs
    <3> QED BY <1>1, <3>2, AtTopNow
  <2>3. h.cache[n].dict # NIL => h.cache[n].dict \in Dict /\ h.body[h.cache[n].dict] # NIL
    BY <1>1, CachedHas
  <2>4. \A d : TopHas(h, c, n, d) => d \in Dict
    BY <1>1 DEF TopHas, StackOf
  <2>5. <<c, n>> \notin returned => Uppermost(h, c, n) = h.cache[n].dict
    BY <1>1, <2>2, <2>4, UppermostTop
  <2> QED BY <2>1, <2>2, <2>3, <2>5
<1>3. CASE ~ Current(h, c, n)
  <2>1. Resolved(h, c, n) = Uppermost(h, c, n)
    BY <1>1, <1>3, StopsAtIs DEF Resolved
  <2>2. Uppermost(h, c, n) # NIL => TopHas(h, c, n, Uppermost(h, c, n))
    BY <1>1, UppermostTop
  <2>3. \A d : TopHas(h, c, n, d) => d \in Dict /\ h.body[d] # NIL
    BY <1>1 DEF TopHas, StackOf
  <2> QED BY <2>1, <2>2, <2>3
<1> QED BY <1>2, <1>3

LEMMA FoundIs ==
  ASSUME Ready, NEW c \in Context, Runs(c), NEW n \in Name, NEW h, h = Heap, NEW d, d = StoresIn(h, c, n)
  PROVE  /\ d \in Dict /\ h.body[d] # NIL
         /\ d = Top(c) \/ <<c, n>> \in returned \/ TopHas(h, c, n, d)
<1>1. h.body = body
  BY ReadyIs
<1> QED BY <1>1, ResolvedIs, TopIs DEF StoresIn

\* The lookup and the put of a store.
Stores(h, f, g, c, d, n) ==
  /\ LoadDone(h, f, c, n) /\ HeapOK(h) /\ HeapOK(f) /\ d \in Dict
  /\ PutDone(f, g, c, d, n, TRUE) /\ Runs(c)
  /\ d = Top(c) \/ <<c, n>> \in returned \/ TopHas(h, c, n, d)

LEMMA StoredHas ==
  ASSUME NEW h, NEW f, NEW g, NEW c \in Context, NEW d, NEW n \in Name, Stores(h, f, g, c, d, n)
  PROVE  /\ Kept(h, g)
         /\ \A x \in Dict, m \in Name : Has(g, x, m) <=> Has(h, x, m) \/ (x = d /\ m = n)
<1>1. Kept(h, f) /\ Kept(f, g)
  BY DEF Stores, LoadDone, Same, PutDone
<1>2. Kept(h, g)
  BY <1>1, KeptOn
<1>3. \A x \in Dict, m \in Name : Has(g, x, m) <=> Has(f, x, m) \/ (x = d /\ m = n)
  BY DEF Stores, PutDone
<1>4. \A x \in Dict, m \in Name : Has(f, x, m) <=> Has(h, x, m)
  BY DEF Stores, LoadDone, Same
<1> QED BY <1>2, <1>3, <1>4

LEMMA StoredTop ==
  ASSUME Ready, NEW h, NEW f, NEW g, NEW c \in Context, NEW d, NEW n \in Name, Stores(h, f, g, c, d, n)
  PROVE  <<c, n>> \in returned \/ TopHas(g, c, n, d)
<1>1. d \in Dict
  BY DEF Stores
<1>2. Has(g, d, n)
  BY <1>1, StoredHas
<1>3. CASE d = Top(c)
  BY <1>2, <1>3, TopOfAll
<1>4. CASE TopHas(h, c, n, d)
  <2>1. \A x \in Dict : Has(g, x, n) <=> Has(h, x, n) \/ x = d
    BY StoredHas
  <2>2. Has(h, d, n)
    BY <1>4 DEF TopHas
  <2>3. \A i \in DOMAIN dstack[c] : dstack[c][i] \in Dict
    BY DEF Ready, StackInv
  <2>4. \A i \in DOMAIN dstack[c] : Has(g, dstack[c][i], n) <=> Has(h, dstack[c][i], n)
    BY <2>1, <2>2, <2>3
  <2> QED BY <1>4, <2>4, TopHasOn
<1> QED BY <1>3, <1>4 DEF Stores

LEMMA StoreStamps ==
  ASSUME Ready, NEW h, NEW f, NEW g, NEW c \in Context, NEW d, NEW n \in Name, Stores(h, f, g, c, d, n),
         NEW m \in Name
  PROVE  StampOK(h, g, m)
<1>1. LoadDone(h, f, c, n) /\ PutDone(f, g, c, d, n, TRUE) /\ Runs(c) /\ HeapOK(f) /\ d \in Dict
  BY DEF Stores
<1>2. \A x \in Dict : Has(g, x, m) <=> Has(h, x, m) \/ (x = d /\ m = n)
  BY StoredHas
<1>3. CASE m # n
  <2>1. g.cache[m].dict = h.cache[m].dict /\ g.cache[m].ts = h.cache[m].ts
    BY <1>1, <1>3 DEF LoadDone, PutDone
  <2> QED BY <1>2, <1>3, <2>1 DEF StampOK
<1>4. CASE m = n
  <2>1. <<c, n>> \in returned \/ TopHas(g, c, n, d)
    BY StoredTop
  <2>2. g.cache[n].dict = d
    BY <1>1 DEF PutDone
  <2>3. CASE g.cache[n].ts = NIL
    BY <1>4, <2>3 DEF StampOK
  <2>4. CASE g.cache[n].ts = stamp(c)
    BY <1>1, <1>4, <2>1, <2>2, <2>4 DEF StampOK
  <2>5. CASE f.cache[n].dict = d /\ g.cache[n].ts = f.cache[n].ts
    <3>1. d # NIL
      BY <1>1, NilNot
    <3>2. Has(f, d, n)
      BY <1>1, <2>5, <3>1, CachedHas
    <3>3. Has(h, d, n)
      BY <1>1, <3>2 DEF LoadDone, Same
    <3>4. CASE f.cache[n].dict = h.cache[n].dict /\ f.cache[n].ts = h.cache[n].ts
      BY <1>2, <1>4, <2>2, <2>5, <3>3, <3>4 DEF StampOK
    <3>5. CASE f.cache[n].ts = stamp(c)
      BY <1>1, <1>4, <2>1, <2>2, <2>5, <3>5 DEF StampOK
    <3> QED BY <1>1, <3>4, <3>5 DEF LoadDone
  <2> QED BY <1>1, <2>3, <2>4, <2>5 DEF PutDone
<1> QED BY <1>3, <1>4

LEMMA StoreStep ==
  ASSUME Ready, NEW c \in Context, NEW n \in Name, NEW v \in Value, Store(c, n, v)
  PROVE  IInv'
<1>1. PICK h : h = Heap
  OBVIOUS
<1>2. PICK f : f = Loaded(h, c, n)
  OBVIOUS
<1>3. PICK d : d = StoresIn(h, c, n)
  OBVIOUS
<1>4. PICK g : g = PutInDict(f, c, d, n, v, TRUE)
  OBVIOUS
<1>5. level \in Nat /\ HeapOK(h) /\ StackOf(h, c) /\ gen[c] \in Nat
  BY <1>1, ReadyIs
<1>6. Runs(c) /\ UNCHANGED same /\ ((CanPut(f, d, n) /\ Becomes(g)) \/ Becomes(f))
  BY <1>1, <1>2, <1>3, <1>4 DEF Store, Uses, StoresIn
<1>7. LoadDone(h, f, c, n)
  BY <1>2, <1>5, LoadedGood
<1>8. CASE Becomes(f)
  <2>1. \A m \in Name : StampOK(h, f, m)
    BY <1>6, <1>7, LoadStamps
  <2>2. HeapStep(h, f)
    BY <1>1, <1>6, <1>7, <1>8, <2>1 DEF HeapStep, LoadDone, Same
  <2> QED BY <2>2, HeapStepGood DEF Ready
<1>9. CASE CanPut(f, d, n) /\ Becomes(g)
  <2>1. /\ d \in Dict /\ h.body[d] # NIL
        /\ d = Top(c) \/ <<c, n>> \in returned \/ TopHas(h, c, n, d)
    BY <1>1, <1>3, <1>6, FoundIs
  <2>2. HeapOK(f) /\ f.body = h.body
    BY <1>7 DEF LoadDone
  <2>3. PutDone(f, g, c, d, n, TRUE)
    BY <1>4, <1>5, <1>9, <2>1, <2>2, PutInDictGood
  <2>4. Stores(h, f, g, c, d, n)
    BY <1>5, <1>6, <1>7, <2>1, <2>2, <2>3 DEF Stores
  <2>5. \A m \in Name : StampOK(h, g, m)
    BY <2>4, StoreStamps
  <2>6. HeapStep(h, g)
    BY <1>1, <1>6, <1>9, <2>3, <2>4, <2>5, StoredHas DEF HeapStep, PutDone
  <2> QED BY <2>6, HeapStepGood DEF Ready
<1> QED BY <1>6, <1>8, <1>9

-----------------------------------------------------------------------------
(* The initial state; begin and end, which change a stack and its stamp.    *)

LEMMA InitReady ==
  ASSUME Init
  PROVE  IInv
<1>1. level = 0 /\ level \in Nat
  BY InitLevel
<1>2. HeapInv
  BY InitHeap DEF HeapInv, HeapOK
<1>3. Ground
  <2>1. birth \in [Dict -> Nat \cup {NIL}]
    BY InitFacts
  <2>2. \A d \in Dict : IF body[d] = NIL THEN birth[d] = NIL ELSE birth[d] \in Nat
    <3>1. ASSUME NEW d \in Dict, d \in Initial PROVE body[d] # NIL /\ birth[d] = 0
      BY <3>1, InitBodies DEF Fresh
    <3>2. ASSUME NEW d \in Dict, d \notin Initial PROVE body[d] = NIL /\ birth[d] = NIL
      BY <3>2, InitBodies
    <3> QED BY <3>1, <3>2
  <2>3. \A d \in Shared : body[d] # NIL
    BY InitBodies, DictAssumption DEF Initial, Fresh
  <2>4. level \in 0 .. MaxLevel
    BY <1>1, DictAssumption
  <2> QED BY <1>1, <2>1, <2>2, <2>3, <2>4 DEF Init, Ground
<1>4. StackInv
  <2>1. dstack = Base /\ dstack \in [Context -> Seq(Dict)]
    BY DictAssumption DEF Init
  <2>2. ASSUME NEW c \in Context, NEW d \in OnStack(c)
        PROVE  body[d] # NIL /\ birth[d] <= (IF c = saver THEN level ELSE 0)
    <3>1. d \in Initial /\ d \in Dict
      BY <2>1 DEF OnStack, Initial
    <3>2. body[d] # NIL /\ birth[d] = 0
      BY <3>1, InitBodies DEF Fresh
    <3> QED BY <1>1, <3>2
  <2>3. \A c \in Context : Len(Base[c]) <= Len(dstack[c])
    <3>1. ASSUME NEW c \in Context PROVE Len(Base[c]) \in Nat
      BY <2>1
    <3> QED BY <2>1, <3>1
  <2> QED BY <2>1, <2>2, <2>3 DEF StackInv
<1>5. StampInv
  <2>1. gen \in [Context -> 1 .. MaxGen]
    BY DictAssumption DEF Init
  <2>2. \A n \in Name : cache[n].ts = NIL
    BY InitFacts
  <2>3. \A c \in Context : stamp(c) # NIL
    BY <2>1, StampNot
  <2> QED BY <2>1, <2>2, <2>3 DEF StampInv
<1> QED BY <1>2, <1>3, <1>4, <1>5 DEF IInv

\* Bindings that keep their place.
LEMMA CacheOnly ==
  ASSUME NEW h, HeapOK(h), NEW C, C \in [Name -> Binding], NEW g, g = With(h.body, C, h.sr),
         \A n \in Name : C[n].loc = h.cache[n].loc /\ C[n].dict = h.cache[n].dict /\ C[n].vec = h.cache[n].vec
  PROVE  HeapOK(g) /\ g.body = h.body /\ g.sr = h.sr /\ g.cache = C
<1>1. /\ g.body = h.body /\ g.cache = C /\ g.sr = h.sr
      /\ g = [body |-> g.body, cache |-> g.cache, sr |-> g.sr]
  BY DEF With
<1>2. Formed(h) /\ Typed(h) /\ NowGood(h) /\ PastGood(h) /\ CacheOK(h) /\ VecOK(h)
  BY DEF HeapOK, Formed
<1>3. Typed(g)
  BY <1>1, <1>2 DEF Typed
<1>4. Formed(g) /\ NowGood(g) /\ PastGood(g) /\ \A d, n : Seen(g, d, n) <=> Seen(h, d, n)
  BY <1>1, <1>2, <1>3, SameMemory
<1>5. CacheOK(g)
  <2> SUFFICES ASSUME NEW n \in Name, g.cache[n].dict # NIL
               PROVE  /\ g.body[g.cache[n].dict] # NIL
                      /\ g.cache[n].loc \in 0 .. g.body[g.cache[n].dict].size - 1
                      /\ g.body[g.cache[n].dict].table[g.cache[n].loc].key = n
    BY DEF CacheOK
  <2>1. g.cache[n].dict = h.cache[n].dict /\ g.cache[n].loc = h.cache[n].loc /\ g.body = h.body
    BY <1>1
  <2>2. /\ h.body[h.cache[n].dict] # NIL
        /\ h.cache[n].loc \in 0 .. h.body[h.cache[n].dict].size - 1
        /\ h.body[h.cache[n].dict].table[h.cache[n].loc].key = n
    BY <2>1, CachedHas
  <2> QED BY <2>1, <2>2
<1>6. VecOK(g)
  BY <1>1, <1>2, <1>4 DEF VecOK
<1> QED BY <1>1, <1>4, <1>5, <1>6 DEF HeapOK

\* A time stamp that no name has.
Bumped(c) ==
  /\ gen' \in [Context -> 1 .. MaxGen] /\ \A e \in Context : e # c => gen'[e] = gen[e]
  /\ cache' \in [Name -> Binding]
  /\ \A n \in Name :
       /\ cache'[n].loc = cache[n].loc /\ cache'[n].dict = cache[n].dict /\ cache'[n].vec = cache[n].vec
       /\ cache'[n].ts = NIL \/ cache'[n].ts = cache[n].ts
       /\ cache'[n].ts # NIL /\ cache'[n].ts[1] = c => cache'[n].ts[2] < gen'[c]

Unstamped(e) == [e EXCEPT !.ts = NIL]

LEMMA UnstampedIs ==
  ASSUME NEW e \in Binding
  PROVE  /\ Unstamped(e) \in Binding /\ Unstamped(e).ts = NIL
         /\ Unstamped(e).loc = e.loc /\ Unstamped(e).dict = e.dict /\ Unstamped(e).vec = e.vec
<1>1. Unstamped(e) = [loc |-> e.loc, dict |-> e.dict, ts |-> NIL, vec |-> e.vec]
  BY DEF Unstamped, Binding
<1>2. Unstamped(e) \in Binding
  BY <1>1 DEF Binding
<1> QED BY <1>1, <1>2

LEMMA BumpGood ==
  ASSUME Ready, NEW c \in Context, BumpCETimeStamp(c)
  PROVE  Bumped(c)
<1>1. /\ gen \in [Context -> 1 .. MaxGen] /\ MaxGen \in Nat /\ MaxGen # 0 /\ gen[c] \in 1 .. MaxGen
      /\ \A n \in Name, e \in Context : cache[n].ts # NIL /\ cache[n].ts[1] = e => cache[n].ts[2] <= gen[e]
  BY DictAssumption DEF Ready, StampInv
<1>2. cache \in [Name -> Binding]
  BY ReadyIs DEF HeapOK, Formed, Typed
<1>3. CASE gen[c] = MaxGen
  <2>1. /\ gen' = [gen EXCEPT ![c] = 1]
        /\ cache' = [n \in Name |-> IF cache[n].ts # NIL /\ cache[n].ts[1] = c
                                    THEN Unstamped(cache[n]) ELSE cache[n]]
    BY <1>3 DEF BumpCETimeStamp, Unstamped
  <2>2. gen' \in [Context -> 1 .. MaxGen] /\ \A e \in Context : e # c => gen'[e] = gen[e]
    BY <1>1, <2>1
  <2>3. ASSUME NEW n \in Name
        PROVE  /\ cache'[n] \in Binding
               /\ cache'[n].loc = cache[n].loc /\ cache'[n].dict = cache[n].dict /\ cache'[n].vec = cache[n].vec
               /\ cache'[n].ts = NIL \/ cache'[n].ts = cache[n].ts
               /\ cache'[n].ts # NIL => cache'[n].ts[1] # c
    <3>1. PICK e : e = cache[n]
      OBVIOUS
    <3>2. e \in Binding
      BY <1>2, <3>1
    <3>3. cache'[n] = IF e.ts # NIL /\ e.ts[1] = c THEN Unstamped(e) ELSE e
      BY <2>1, <3>1
    <3>4. /\ Unstamped(e) \in Binding /\ Unstamped(e).ts = NIL
          /\ Unstamped(e).loc = e.loc /\ Unstamped(e).dict = e.dict /\ Unstamped(e).vec = e.vec
      BY <3>2, UnstampedIs
    <3> QED BY <3>1, <3>2, <3>3, <3>4
  <2>4. cache' \in [Name -> Binding]
    BY <2>1, <2>3
  <2> QED BY <2>2, <2>3, <2>4 DEF Bumped
<1>4. CASE gen[c] # MaxGen
  <2>1. gen' = [gen EXCEPT ![c] = @ + 1] /\ cache' = cache
    BY <1>4 DEF BumpCETimeStamp
  <2>2. gen' \in [Context -> 1 .. MaxGen] /\ \A e \in Context : e # c => gen'[e] = gen[e]
    BY <1>1, <1>4, <2>1
  <2>3. gen'[c] = gen[c] + 1
    BY <1>1, <2>1
  <2>4. ASSUME NEW n \in Name, cache[n].ts # NIL, cache[n].ts[1] = c PROVE cache[n].ts[2] < gen'[c]
    <3>1. cache[n].ts \in Context \X Nat
      BY <1>2, <2>4 DEF Binding
    <3>2. cache[n].ts[2] \in Nat /\ cache[n].ts[2] <= gen[c] /\ gen[c] \in Nat
      BY <1>1, <2>4, <3>1
    <3> QED BY <2>3, <3>2
  <2> QED BY <1>2, <2>1, <2>2, <2>4 DEF Bumped
<1> QED BY <1>3, <1>4

\* A begin or an end: the stack of c changes, and its time stamp.
Restacked(c, stack) ==
  /\ Bumped(c) /\ stack \in Seq(Dict) /\ Len(Base[c]) <= Len(stack)
  /\ \A i \in DOMAIN stack : /\ body[stack[i]] # NIL
                             /\ birth[stack[i]] <= (IF c = saver THEN level ELSE 0)
  /\ dstack' = [dstack EXCEPT ![c] = stack]
  /\ returned' = {x \in returned : x[1] # c}
  /\ UNCHANGED <<body, birth, srList, saver, snaps, program>>

LEMMA RestackHeap ==
  ASSUME Ready, NEW c \in Context, NEW stack, Restacked(c, stack)
  PROVE  level' = level /\ HeapOK(Heap)' /\ Heap'.body = Heap.body /\ Heap'.sr = Heap.sr
<1>1. PICK h : h = Heap
  OBVIOUS
<1>2. PICK C : C = cache'
  OBVIOUS
<1>3. PICK g : g = With(h.body, C, h.sr)
  OBVIOUS
<1>4. level \in Nat /\ HeapOK(h) /\ h.body = body /\ h.cache = cache /\ h.sr = srList
  BY <1>1, ReadyIs DEF Heap
<1>5. C \in [Name -> Binding] /\ \A n \in Name : C[n].loc = h.cache[n].loc /\ C[n].dict = h.cache[n].dict /\ C[n].vec = h.cache[n].vec
  BY <1>2, <1>4 DEF Restacked, Bumped
<1>6. HeapOK(g) /\ g.body = h.body /\ g.sr = h.sr /\ g.cache = C
  BY <1>3, <1>4, <1>5, CacheOnly
<1>7. Becomes(g) /\ birth' = birth
  BY <1>2, <1>4, <1>6 DEF Becomes, Restacked
<1>8. level' = level /\ Heap' = g /\ HeapOK(Heap)'
  BY <1>4, <1>6, <1>7, OpHeap
<1> QED BY <1>1, <1>6, <1>8

LEMMA SameAt ==
  ASSUME NEW h, NEW g, NEW s, NEW n, NEW k, NEW d,
         \A i \in DOMAIN s : HasAt(g, s[i], n, k) <=> HasAt(h, s[i], n, k), AtTop(h, s, n, k, d)
  PROVE  AtTop(g, s, n, k, d)
  BY DEF AtTop

LEMMA RestackGood ==
  ASSUME Ready, NEW c \in Context, NEW stack, Restacked(c, stack)
  PROVE  IInv'
<1>1. /\ level' = level /\ HeapOK(Heap)' /\ Heap'.body = Heap.body /\ Heap'.sr = Heap.sr
      /\ body' = body /\ birth' = birth /\ saver' = saver /\ program' = program
      /\ dstack' = [dstack EXCEPT ![c] = stack] /\ returned' = {x \in returned : x[1] # c}
      /\ stack \in Seq(Dict) /\ Bumped(c)
  BY RestackHeap DEF Restacked
<1>2. HeapInv'
  BY <1>1 DEF HeapInv, HeapOK
<1>3. Ground'
  BY <1>1 DEF Ready, Ground
<1>4. dstack \in [Context -> Seq(Dict)]
  BY DEF Ready, StackInv
<1>5. \A e \in Context : dstack'[e] = IF e = c THEN stack ELSE dstack[e]
  BY <1>1, <1>4
<1>6. StackInv'
  <2>1. dstack' \in [Context -> Seq(Dict)]
    BY <1>1, <1>4
  <2>2. ASSUME NEW e \in Context
        PROVE  /\ Len(Base[e]) <= Len(dstack'[e])
               /\ \A i \in DOMAIN dstack'[e] : /\ body[dstack'[e][i]] # NIL
                                              /\ birth[dstack'[e][i]] <= (IF e = saver THEN level ELSE 0)
    <3>1. CASE e = c
      BY <1>5, <3>1 DEF Restacked
    <3>2. CASE e # c
      BY <1>5, <3>2 DEF Ready, StackInv, OnStack
    <3> QED BY <3>1, <3>2
  <2> QED BY <1>1, <2>1, <2>2 DEF StackInv, OnStack
<1>7. StampInv'
  <2>1. /\ gen' \in [Context -> 1 .. MaxGen] /\ \A e \in Context : e # c => gen'[e] = gen[e]
        /\ gen \in [Context -> 1 .. MaxGen]
        /\ cache' \in [Name -> Binding]
    BY <1>1 DEF Bumped, Ready, StampInv
  <2>2. ASSUME NEW n \in Name
        PROVE  /\ cache'[n].dict = cache[n].dict /\ (cache'[n].ts = NIL \/ cache'[n].ts = cache[n].ts)
               /\ cache'[n].ts # NIL /\ cache'[n].ts[1] = c => cache'[n].ts[2] < gen'[c]
    BY <1>1 DEF Bumped
  <2>3. ASSUME NEW n \in Name, NEW e \in Context, cache'[n].ts # NIL, cache'[n].ts[1] = e
        PROVE  cache'[n].ts[2] <= gen'[e]
    <3>1. CASE e = c
      <4>1. cache'[n].ts \in Context \X Nat
        BY <2>1, <2>3 DEF Binding
      <4>2. cache'[n].ts[2] \in Nat /\ gen'[c] \in Nat /\ cache'[n].ts[2] < gen'[c]
        BY <2>1, <2>2, <2>3, <3>1, <4>1
      <4> QED BY <3>1, <4>2
    <3>2. CASE e # c
      BY <2>1, <2>2, <2>3, <3>2 DEF Ready, StampInv
    <3> QED BY <3>1, <3>2
  <2>4. ASSUME NEW n \in Name, NEW e \in Context, NEW k \in 0 .. level, cache'[n].ts = <<e, gen'[e]>>,
               <<e, n>> \notin returned', k = level \/ e # saver
        PROVE  TopAt(e, n, k, cache[n].dict)'
    <3>1. cache'[n].ts # NIL /\ cache'[n].ts[1] = e /\ cache'[n].ts[2] = gen'[e] /\ gen'[e] \in Nat
      <4>1. gen'[e] \in Nat
        BY <2>1
      <4>2. <<e, gen'[e]>> \in Context \X Nat
        BY <4>1
      <4> QED BY <2>4, <4>1, <4>2, DictAssumption
    <3>2. e # c
      BY <2>2, <3>1
    <3>3. cache[n].ts = stamp(e) /\ <<e, n>> \notin returned
      BY <1>1, <2>1, <2>2, <2>4, <3>1, <3>2 DEF stamp
    <3>4. TopAt(e, n, k, cache[n].dict)
      BY <2>4, <3>3 DEF Ready, StampInv
    <3>5. AtTop(Heap, dstack[e], n, k, cache[n].dict)
      BY <3>4, TopAtIs
    <3>6. \A x : HasAt(Heap', x, n, k) <=> HasAt(Heap, x, n, k)
      BY <1>1 DEF HasAt, KeyAt
    <3>7. PICK h : h = Heap
      OBVIOUS
    <3>8. PICK g : g = Heap'
      OBVIOUS
    <3>9. PICK s : s = dstack[e]
      OBVIOUS
    <3>10. PICK d : d = cache[n].dict
      OBVIOUS
    <3>11. AtTop(h, s, n, k, d) /\ \A x : HasAt(g, x, n, k) <=> HasAt(h, x, n, k)
      BY <3>5, <3>6, <3>7, <3>8, <3>9, <3>10
    <3>12. AtTop(g, s, n, k, d)
      BY <3>11, SameAt
    <3>13. AtTop(Heap', dstack'[e], n, k, cache'[n].dict)
      BY <1>5, <2>2, <3>2, <3>8, <3>9, <3>10, <3>12
    <3> QED BY <3>13, TopAtNext
  <2> QED BY <1>1, <2>1, <2>3, <2>4 DEF StampInv, stamp
<1> QED BY <1>2, <1>3, <1>6, <1>7 DEF IInv

LEMMA RunsBirth ==
  ASSUME Ready, NEW c \in Context, Runs(c), NEW d \in Dict, body[d] # NIL
  PROVE  birth[d] <= (IF c = saver THEN level ELSE 0)
<1>1. birth[d] \in 0 .. level /\ level \in Nat
  BY ReadyIs DEF HeapOK, Formed, Logged
<1> QED BY <1>1 DEF Runs

LEMMA BeginStep ==
  ASSUME Ready, NEW c \in Context, NEW d \in Dict, Begin(c, d)
  PROVE  IInv'
<1>1. PICK s : s = dstack[c]
  OBVIOUS
<1>2. PICK stack : stack = Append(s, d)
  OBVIOUS
<1>3. /\ s \in Seq(Dict) /\ Len(Base[c]) <= Len(s) /\ Len(Base[c]) \in Nat
      /\ \A i \in DOMAIN s : body[s[i]] # NIL /\ birth[s[i]] <= (IF c = saver THEN level ELSE 0)
  BY <1>1, DictAssumption DEF Ready, StackInv, OnStack
<1>4. body[d] # NIL /\ birth[d] <= (IF c = saver THEN level ELSE 0)
  BY RunsBirth DEF Begin, Uses, Alive
<1>5. stack \in Seq(Dict) /\ Len(Base[c]) <= Len(stack)
  BY <1>2, <1>3
<1>6. \A i \in DOMAIN stack : stack[i] = d \/ (i \in DOMAIN s /\ stack[i] = s[i])
  BY <1>2, <1>3
<1>7. /\ Bumped(c) /\ dstack' = [dstack EXCEPT ![c] = stack] /\ returned' = {x \in returned : x[1] # c}
      /\ UNCHANGED <<body, birth, srList, saver, snaps, program>>
  BY <1>1, <1>2, BumpGood DEF Begin, Noticed
<1>8. Restacked(c, stack)
  BY <1>3, <1>4, <1>5, <1>6, <1>7 DEF Restacked
<1> QED BY <1>8, RestackGood

LEMMA EndStep ==
  ASSUME Ready, NEW c \in Context, End(c)
  PROVE  IInv'
<1>1. PICK s : s = dstack[c]
  OBVIOUS
<1>2. PICK stack : stack = SubSeq(s, 1, Len(s) - 1)
  OBVIOUS
<1>3. /\ s \in Seq(Dict) /\ Len(Base[c]) < Len(s) /\ Len(Base[c]) \in Nat
      /\ \A i \in DOMAIN s : body[s[i]] # NIL /\ birth[s[i]] <= (IF c = saver THEN level ELSE 0)
  BY <1>1, DictAssumption DEF Ready, StackInv, OnStack, End
<1>4. stack \in Seq(Dict) /\ Len(Base[c]) <= Len(stack)
  BY <1>2, <1>3
<1>5. \A i \in DOMAIN stack : i \in DOMAIN s /\ stack[i] = s[i]
  BY <1>2, <1>3
<1>6. /\ Bumped(c) /\ dstack' = [dstack EXCEPT ![c] = stack] /\ returned' = {x \in returned : x[1] # c}
      /\ UNCHANGED <<body, birth, srList, saver, snaps, program>>
  BY <1>1, <1>2, BumpGood DEF End, Noticed
<1>7. Restacked(c, stack)
  BY <1>3, <1>4, <1>5, <1>6 DEF Restacked
<1> QED BY <1>7, RestackGood

-----------------------------------------------------------------------------
(* dict.                                                                    *)

\* The heap that is left and the stamps of the context.
LEMMA ReadyAgain ==
  ASSUME Ready, NEW g, Heap' = g
  PROVE  body' = g.body /\ cache' = g.cache /\ srList' = g.sr
  BY DEF Heap

\* A new dictionary is on no stack.
LEMMA NewOnNone ==
  ASSUME Ready, NEW d \in Dict, body[d] = NIL, NEW c \in Context, NEW i \in DOMAIN dstack[c]
  PROVE  dstack[c][i] # d /\ dstack[c][i] \in Dict /\ body[dstack[c][i]] # NIL
<1>1. dstack[c] \in Seq(Dict) /\ \A x \in OnStack(c) : body[x] # NIL
  BY DEF Ready, StackInv
<1>2. dstack[c][i] \in OnStack(c) /\ dstack[c][i] \in Dict
  BY <1>1 DEF OnStack
<1> QED BY <1>1, <1>2

LEMMA DictPHeap ==
  ASSUME Ready, NEW c \in Context, NEW d \in Dict, DictP(c, d), NEW h, h = Heap, NEW g, g = Heap'
  PROVE  /\ d \notin Shared /\ h.body[d] = NIL /\ level' = level
         /\ Made(h, g, d) /\ Born(d) /\ HeapOK(Heap)'
<1>1. level \in Nat /\ HeapOK(h) /\ h.body = body /\ h.cache = cache /\ h.sr = srList /\ Typed(h)
  BY ReadyIs, HeapIs DEF HeapOK, Formed
<1>2. /\ body[d] = NIL /\ d \notin Shared /\ UNCHANGED <<cache, srList>>
      /\ body' = [body EXCEPT ![d] = NewBody(d)] /\ birth' = [birth EXCEPT ![d] = level]
  BY DEF DictP, Alive
<1>3. g.body = body' /\ g.cache = cache' /\ g.sr = srList' /\ g = [body |-> g.body, cache |-> g.cache, sr |-> g.sr]
  BY DEF Heap
<1>4. level' = level
  BY <1>2 DEF level
<1>5. IsFcn(body) /\ DOMAIN body = Dict
  BY <1>1 DEF Typed
<1>6. Made(h, g, d)
  <2>1. PICK b : b = body
    OBVIOUS
  <2>2. PICK e : e = NewBody(d)
    OBVIOUS
  <2>3. PICK f : f = [b EXCEPT ![d] = e]
    OBVIOUS
  <2>4. IsFcn(f) /\ DOMAIN f = Dict /\ \A x \in Dict : f[x] = IF x = d THEN e ELSE b[x]
    BY <1>5, <2>1, <2>3 DEF IsFcn
  <2>5. g.body = f
    BY <1>2, <1>3, <2>1, <2>2, <2>3
  <2> QED BY <1>1, <1>2, <1>3, <2>1, <2>2, <2>4, <2>5 DEF Made
<1>7. Born(d)
  <2>1. DOMAIN birth = Dict
    BY DEF Ready, Ground
  <2> QED BY <1>2, <1>4, <2>1 DEF Born
<1>8. HeapOK(g)'
  BY <1>1, <1>2, <1>6, <1>7, MadeGood
<1> QED BY <1>1, <1>2, <1>4, <1>6, <1>7, <1>8, HeapBecomes

LEMMA DictPStep ==
  ASSUME Ready, NEW c \in Context, NEW d \in Dict, DictP(c, d)
  PROVE  IInv'
<1>1. PICK h : h = Heap
  OBVIOUS
<1>2. PICK g : g = Heap'
  OBVIOUS
<1>3. /\ d \notin Shared /\ h.body[d] = NIL /\ level' = level
      /\ Made(h, g, d) /\ Born(d) /\ HeapOK(Heap)'
  BY <1>1, <1>2, DictPHeap
<1>4. /\ cache' = cache /\ dstack' = dstack /\ gen' = gen /\ srList' = srList /\ saver' = saver
      /\ returned' = returned /\ program' = program /\ birth' = [birth EXCEPT ![d] = level]
  BY DEF DictP
<1>5. level \in Nat /\ h.body = body /\ g.body = body' /\ g.sr = h.sr
  BY <1>1, <1>2, <1>3, <1>4, ReadyIs, HeapIs DEF Heap
<1>6. body'[d] # NIL /\ birth'[d] = level /\ \A x \in Dict : x # d => body'[x] = body[x] /\ birth'[x] = birth[x]
  <2>1. PICK b : b = NewBody(d)
    OBVIOUS
  <2>2. b # NIL
    BY <1>5, <2>1, NewBodyIs DEF Fresh
  <2> QED BY <1>3, <1>5, <2>1, <2>2 DEF Made, Born
<1>7. Ground'
  <2>1. birth' \in [Dict -> Nat \cup {NIL}]
    BY <1>4, <1>5 DEF Ready, Ground
  <2>2. \A x \in Dict : IF body'[x] = NIL THEN birth'[x] = NIL ELSE birth'[x] \in Nat
    BY <1>5, <1>6 DEF Ready, Ground
  <2>3. \A x \in Shared : body'[x] # NIL
    BY <1>6, DictAssumption DEF Ready, Ground
  <2> QED BY <1>3, <1>4, <2>1, <2>2, <2>3 DEF Ready, Ground
<1>8. StackInv'
  <2>1. ASSUME NEW e \in Context, NEW x \in OnStack(e)
        PROVE  body'[x] # NIL /\ birth'[x] = birth[x]
    <3>1. x # d /\ x \in Dict /\ body[x] # NIL
      BY <1>3, <1>5, <2>1, NewOnNone DEF OnStack
    <3> QED BY <1>6, <3>1
  <2> QED BY <1>3, <1>4, <2>1 DEF Ready, StackInv, OnStack
<1>9. StampInv'
  <2>1. \A e : stamp(e)' = stamp(e)
    BY <1>4 DEF stamp
  <2>2. ASSUME NEW n \in Name, NEW e \in Context, NEW k \in 0 .. level, cache[n].ts = stamp(e),
               <<e, n>> \notin returned, k = level \/ e # saver
        PROVE  TopAt(e, n, k, cache[n].dict)'
    <3>1. PICK s : s = dstack[e]
      OBVIOUS
    <3>2. PICK x : x = cache[n].dict
      OBVIOUS
    <3>3. TopAt(e, n, k, cache[n].dict)
      BY <2>2 DEF Ready, StampInv
    <3>4. AtTop(h, s, n, k, x)
      BY <1>1, <3>1, <3>2, <3>3, TopAtIs
    <3>5. \A i \in DOMAIN s : g.body[s[i]] = h.body[s[i]]
      BY <1>3, <1>5, <1>6, <3>1, NewOnNone
    <3>6. \A i \in DOMAIN s : HasAt(g, s[i], n, k) <=> HasAt(h, s[i], n, k)
      BY <1>5, <3>5 DEF HasAt, KeyAt
    <3>7. AtTop(g, s, n, k, x)
      BY <3>4, <3>6, SameAt
    <3>8. AtTop(Heap', dstack'[e], n, k, cache'[n].dict)
      BY <1>2, <1>4, <3>1, <3>2, <3>7
    <3> QED BY <3>8, TopAtNext
  <2>3. /\ gen \in [Context -> 1 .. MaxGen]
        /\ \A n \in Name, e \in Context : cache[n].ts # NIL /\ cache[n].ts[1] = e => cache[n].ts[2] <= gen[e]
    BY DEF Ready, StampInv
  <2> QED BY <1>3, <1>4, <2>1, <2>2, <2>3 DEF StampInv
<1>10. HeapInv'
  BY <1>3 DEF HeapInv, HeapOK
<1> QED BY <1>7, <1>8, <1>9, <1>10 DEF IInv

-----------------------------------------------------------------------------
(* save.                                                                    *)

\* A sequence with one more entry.
Longer(s, t, n, x) ==
  /\ IsFcn(t) /\ DOMAIN t = 1 .. n + 1 /\ Len(t) = n + 1 /\ t[n + 1] = x
  /\ \A l \in 1 .. n : t[l] = s[l]

LEMMA LongerIs ==
  ASSUME NEW s, IsFcn(s), NEW n \in Nat, DOMAIN s = 1 .. n, NEW x, NEW t, t = Append(s, x)
  PROVE  Longer(s, t, n, x)
<1>1. PICK S : s \in Seq(S) /\ Len(s) = n
  BY LenIs
<1>2. PICK R : R = S \cup {x}
  OBVIOUS
<1>3. s \in Seq(R) /\ x \in R
  BY <1>1, <1>2
<1>4. t \in Seq(R) /\ Len(t) = n + 1 /\ t[n + 1] = x /\ \A l \in 1 .. n : t[l] = s[l]
  BY <1>1, <1>3
<1>5. t \in [1 .. n + 1 -> R]
  <2>1. \A q \in Seq(R) : q \in [1 .. Len(q) -> R]
    OBVIOUS
  <2>2. t \in [1 .. Len(t) -> R]
    BY <1>4, <2>1
  <2> QED BY <1>4, <2>2
<1>6. IsFcn(t) /\ DOMAIN t = 1 .. n + 1
  BY <1>5 DEF IsFcn
<1> QED BY <1>4, <1>6 DEF Longer

LEMMA SaveHeap ==
  ASSUME Ready, NEW c \in Context, Save(c), NEW h, h = Heap, NEW g, g = Heap'
  PROVE  level' = level + 1 /\ Saved(h, g) /\ HeapOK(Heap)' /\ Typed(h) /\ level \in Nat
<1>1. level \in Nat /\ HeapOK(h) /\ h.body = body /\ h.cache = cache /\ h.sr = srList /\ Typed(h)
  BY ReadyIs, HeapIs DEF HeapOK, Formed
<1>2. srList' = Append(srList, NoRecords) /\ body' = body /\ cache' = cache /\ birth' = birth
  BY DEF Save, NoRecords
<1>3. PICK s : s = srList
  OBVIOUS
<1>4. PICK t : t = srList'
  OBVIOUS
<1>5. PICK x : x = NoRecords
  OBVIOUS
<1>6. IsFcn(s) /\ DOMAIN s = 1 .. level
  BY <1>1, <1>3 DEF Typed
<1>7. Longer(s, t, level, x)
  BY <1>1, <1>2, <1>3, <1>4, <1>5, <1>6, LongerIs
<1>8. level' = level + 1
  BY <1>4, <1>7 DEF Longer, level
<1>9. g = [body |-> g.body, cache |-> g.cache, sr |-> g.sr] /\ g.body = body' /\ g.cache = cache' /\ g.sr = srList'
  BY DEF Heap
<1>10. Saved(h, g)
  BY <1>1, <1>2, <1>3, <1>4, <1>5, <1>7, <1>9 DEF Saved, Longer
<1>11. HeapOK(g)'
  BY <1>1, <1>2, <1>8, <1>10, SavedGood
<1> QED BY <1>1, <1>8, <1>10, <1>11, HeapBecomes DEF HeapOK, Formed

\* What a dictionary has at level k after a save, k may be the new level.
LEMMA SavedHas ==
  ASSUME level \in Nat, NEW h, Typed(h), NEW g, Saved(h, g), NEW x, NEW n, NEW k \in 0 .. level + 1
  PROVE  HasAt(g, x, n, k) <=> HasAt(h, x, n, IF k = level + 1 THEN level ELSE k)
<1>1. g.body = h.body
  BY DEF Saved
<1>2. \A i : KeyAt(g, x, i, k) = KeyAt(h, x, i, k)
  BY SavedAt
<1>3. CASE k # level + 1
  BY <1>1, <1>2, <1>3 DEF HasAt
<1>4. CASE k = level + 1
  <2>1. \A i : KeyAt(h, x, i, k) = KeyAt(h, x, i, level)
    <3>1. ASSUME NEW i PROVE KeyAt(h, x, i, k) = KeyAt(h, x, i, level)
      <4>1. DOMAIN Log(h.sr, "keys", <<x, i>>) \subseteq 1 .. level
        BY LogTyped DEF Kinds
      <4>2. ~ \E l \in DOMAIN Log(h.sr, "keys", <<x, i>>) : level < l
        BY <4>1
      <4>3. ~ \E l \in DOMAIN Log(h.sr, "keys", <<x, i>>) : k < l
        BY <4>1, <1>4
      <4> QED BY <4>2, <4>3, AtNone DEF KeyAt
    <3> QED BY <3>1
  <2> QED BY <1>1, <1>2, <1>4, <2>1 DEF HasAt
<1> QED BY <1>3, <1>4

LEMMA SaveStep ==
  ASSUME Ready, NEW c \in Context, Save(c)
  PROVE  IInv'
<1>1. PICK h : h = Heap
  OBVIOUS
<1>2. PICK g : g = Heap'
  OBVIOUS
<1>3. level' = level + 1 /\ Saved(h, g) /\ HeapOK(Heap)' /\ Typed(h) /\ level \in Nat
  BY <1>1, <1>2, SaveHeap
<1>4. /\ body' = body /\ birth' = birth /\ cache' = cache /\ dstack' = dstack /\ gen' = gen
      /\ saver' = c /\ returned' = returned /\ program' = program
      /\ Runs(c) /\ level < program[c].levels
  BY DEF Save, Uses
<1>5. level' \in 0 .. MaxLevel
  <2>1. program[c].levels \in 0 .. MaxLevel /\ MaxLevel \in Nat
    BY DictAssumption DEF Ready, Ground
  <2> QED BY <1>3, <1>4, <2>1
<1>6. Ground'
  <2>1. c # NIL /\ level + 1 # 0
    BY <1>3, NilNot
  <2> QED BY <1>3, <1>4, <1>5, <2>1 DEF Ready, Ground
<1>7. \A e \in Context : e # c => e # saver
  <2>1. saver = c \/ saver = NIL
    BY <1>4 DEF Ready, Ground, Runs
  <2> QED BY <2>1, NilNot
<1>8. StackInv'
  <2>1. ASSUME NEW e \in Context, NEW d \in OnStack(e)
        PROVE  body[d] # NIL /\ birth[d] <= (IF e = c THEN level + 1 ELSE 0)
    <3>1. body[d] # NIL /\ birth[d] <= (IF e = saver THEN level ELSE 0) /\ d \in Dict
      BY DEF Ready, StackInv, OnStack
    <3>2. birth[d] \in Nat
      BY <3>1 DEF Ready, Ground
    <3>3. birth[d] <= level + 1
      BY <1>3, <3>1, <3>2
    <3> QED BY <1>7, <3>1, <3>3
  <2> QED BY <1>3, <1>4, <2>1 DEF Ready, StackInv, OnStack
<1>9. StampInv'
  <2>1. \A e : stamp(e)' = stamp(e)
    BY <1>4 DEF stamp
  <2>2. ASSUME NEW n \in Name, NEW e \in Context, NEW k \in 0 .. level + 1, cache[n].ts = stamp(e),
               <<e, n>> \notin returned, k = level + 1 \/ e # c
        PROVE  TopAt(e, n, k, cache[n].dict)'
    <3>1. PICK s : s = dstack[e]
      OBVIOUS
    <3>2. PICK x : x = cache[n].dict
      OBVIOUS
    <3>3. PICK j : j = IF k = level + 1 THEN level ELSE k
      OBVIOUS
    <3>4. j \in 0 .. level /\ (j = level \/ e # saver)
      BY <1>3, <1>7, <2>2, <3>3
    <3>5. TopAt(e, n, j, cache[n].dict)
      BY <2>2, <3>4 DEF Ready, StampInv
    <3>6. AtTop(h, s, n, j, x)
      BY <1>1, <3>1, <3>2, <3>5, TopAtIs
    <3>7. \A y : HasAt(g, y, n, k) <=> HasAt(h, y, n, j)
      BY <1>3, <3>3, SavedHas
    <3>8. AtTop(g, s, n, k, x)
      BY <3>6, <3>7 DEF AtTop
    <3>9. AtTop(Heap', dstack'[e], n, k, cache'[n].dict)
      BY <1>2, <1>4, <3>1, <3>2, <3>8
    <3> QED BY <3>9, TopAtNext
  <2>3. /\ gen \in [Context -> 1 .. MaxGen]
        /\ \A n \in Name, e \in Context : cache[n].ts # NIL /\ cache[n].ts[1] = e => cache[n].ts[2] <= gen[e]
    BY DEF Ready, StampInv
  <2> QED BY <1>3, <1>4, <2>1, <2>2, <2>3 DEF StampInv
<1>10. HeapInv'
  BY <1>3 DEF HeapInv, HeapOK
<1> QED BY <1>6, <1>8, <1>9, <1>10 DEF IInv

-----------------------------------------------------------------------------
(* restore, at the context that makes it and at the others.                 *)

LEMMA HoldsIs ==
  ASSUME NEW h, NEW d, NEW n \in Name
  PROVE  Holds(h.body[d], n) <=> h.body[d] # NIL /\ Has(h, d, n)
<1>1. n # NIL
  BY NilNot
<1> QED BY <1>1 DEF Holds, KeysOf, Slots, Has

\* A restore gave n back to a dictionary.
GivesBack(h, g, n) == \E d \in Dict : Holds(g.body[d], n) /\ ~ Holds(h.body[d], n)

LEMMA RestoreHeap ==
  ASSUME Ready, NEW c \in Context, NEW k \in Nat, Restore(c, k), NEW h, h = Heap, NEW g, g = Heap'
  PROVE  /\ Restoring(h, g, k) /\ AtLevel(g, k) /\ HeapOK(Heap)' /\ saver = c
         /\ \A d \in OnStack(c) : birth[d] <= k
         /\ \A n \in Name : GivesBack(h, g, n) => <<c, n>> \in returned'
<1>1. level \in Nat /\ HeapOK(h) /\ HeapOK(Heap) /\ h.body = body /\ h.cache = cache /\ h.sr = srList
  BY ReadyIs, HeapIs
<1>2. PICK f : f = RstrToLevel(k)
  OBVIOUS
<1>3. /\ Runs(c) /\ k < level /\ Becomes(f) /\ \A d \in OnStack(c) : birth[d] <= k
      /\ birth' = [d \in Dict |-> IF f.body[d] = NIL THEN NIL ELSE birth[d]]
  BY <1>2 DEF Restore
<1>4. k \in 0 .. level - 1 /\ k \in 0 .. level
  BY <1>1, <1>3
<1>5. Went(h, f, k)
  BY <1>1, <1>2, <1>4, WentIs
<1>6. Restored(h, f, k)
  BY <1>1, <1>4, <1>5, RestoredIs
<1>7. Restoring(h, f, k)
  BY <1>1, <1>4, <1>6 DEF Restoring
<1>8. Sound(f) /\ Cut(h, f, k)
  BY <1>7, RestoringIs
<1>9. Len(f.sr) = k
  BY <1>8, LenIs DEF Cut
<1>10. level' = k
  <2>1. level' = Len(srList')
    BY DEF level
  <2> QED BY <1>3, <1>9, <2>1 DEF Becomes
<1>11. g = f
  <2>1. Heap' = [body |-> body', cache |-> cache', sr |-> srList']
    BY DEF Heap
  <2>2. body' = f.body /\ cache' = f.cache /\ srList' = f.sr
    BY <1>3 DEF Becomes
  <2> QED BY <1>8, <2>1, <2>2 DEF Sound
<1>12. AtLevel(f, k)
  BY <1>3, <1>10 DEF AtLevel
<1>13. HeapOK(f)'
  BY <1>7, <1>12, HeapBack
<1>14. saver = c
  BY <1>1, <1>3 DEF Runs
<1>15. ASSUME NEW n \in Name, GivesBack(h, f, n) PROVE <<c, n>> \in returned'
  BY <1>1, <1>2, <1>15 DEF Restore, GivesBack
<1> QED BY <1>3, <1>7, <1>11, <1>12, <1>13, <1>14, <1>15, HeapBecomes

LEMMA ReturnedIs ==
  ASSUME Ready, NEW c \in Context, NEW k, Restore(c, k)
  PROVE  returned \subseteq returned' /\ returned' \subseteq Context \X Name
  BY DEF Restore, Ready, Ground

\* What a dictionary on a stack has at an earlier level.
LEMMA BackHas ==
  ASSUME NEW h, NEW g, NEW k, Restoring(h, g, k), NEW d \in Dict, g.body[d] # NIL, NEW n, NEW j \in birth[d] .. k
  PROVE  /\ HasAt(g, d, n, j) <=> HasAt(h, d, n, j)
         /\ j = k => (HasAt(g, d, n, k) <=> Has(g, d, n))
<1>1. /\ KeysAt(g, d, j) = KeysAt(h, d, j) /\ KeysNow(g, d) = KeysAt(h, d, k)
  BY KeysBack
<1>2. g.body[d].size = h.body[d].size
  BY RestoringBody
<1>3. PICK s : s = g.body[d].size
  OBVIOUS
<1>4. /\ HasAt(g, d, n, j) <=> \E i \in 0 .. s - 1 : KeysAt(g, d, j)[i] = n
      /\ HasAt(h, d, n, j) <=> \E i \in 0 .. s - 1 : KeysAt(h, d, j)[i] = n
      /\ Has(g, d, n) <=> \E i \in 0 .. s - 1 : KeysNow(g, d)[i] = n
  BY <1>2, <1>3 DEF HasAt, Has, KeysAt, KeysNow
<1> QED BY <1>1, <1>4

LEMMA RestoreStack ==
  ASSUME Ready, NEW c \in Context, NEW k \in Nat, Restore(c, k), NEW h, h = Heap, NEW g, g = Heap',
         NEW e \in Context, NEW i \in DOMAIN dstack[e]
  PROVE  /\ dstack[e][i] \in Dict /\ body[dstack[e][i]] # NIL /\ g.body[dstack[e][i]] # NIL
         /\ birth'[dstack[e][i]] = birth[dstack[e][i]] /\ birth[dstack[e][i]] \in Nat
         /\ birth[dstack[e][i]] <= (IF e = c THEN k ELSE 0)
<1>1. PICK d : d = dstack[e][i]
  OBVIOUS
<1>2. Restoring(h, g, k) /\ AtLevel(g, k) /\ saver = c /\ \A x \in OnStack(c) : birth[x] <= k
  BY RestoreHeap
<1>3. d \in Dict /\ d \in OnStack(e)
  BY <1>1 DEF Ready, StackInv, OnStack
<1>4. body[d] # NIL /\ birth[d] <= (IF e = saver THEN level ELSE 0) /\ h.body = body
  BY <1>3, HeapIs DEF Ready, StackInv
<1>5. birth[d] \in Nat
  BY <1>3, <1>4 DEF Ready, Ground
<1>6. birth[d] <= (IF e = c THEN k ELSE 0)
  BY <1>2, <1>3, <1>4
<1>7. birth[d] <= k
  BY <1>5, <1>6
<1>8. g.body[d] # NIL
  BY <1>2, <1>3, <1>4, <1>7 DEF Restoring, Restored
<1>9. birth'[d] = birth[d]
  BY <1>2, <1>3, <1>8 DEF AtLevel
<1> QED BY <1>1, <1>3, <1>4, <1>5, <1>6, <1>8, <1>9

\* Of another context, whose dictionaries are older than any save.
LEMMA RestoreOther ==
  ASSUME Ready, NEW c \in Context, NEW k \in Nat, Restore(c, k), NEW h, h = Heap, NEW g, g = Heap',
         NEW e \in Context, e # c, NEW n \in Name, NEW j \in 0 .. k, NEW x,
         AtTop(h, dstack[e], n, j, x)
  PROVE  AtTop(g, dstack[e], n, j, x)
<1>1. PICK s : s = dstack[e]
  OBVIOUS
<1>2. Restoring(h, g, k)
  BY RestoreHeap
<1>3. \A i \in DOMAIN s : s[i] \in Dict /\ g.body[s[i]] # NIL /\ birth[s[i]] \in Nat /\ birth[s[i]] <= 0
  BY <1>1, RestoreStack
<1>4. \A i \in DOMAIN s : j \in birth[s[i]] .. k
  BY <1>3
<1>5. \A i \in DOMAIN s : HasAt(g, s[i], n, j) <=> HasAt(h, s[i], n, j)
  BY <1>2, <1>3, <1>4, BackHas
<1>6. AtTop(h, s, n, j, x)
  BY <1>1
<1>7. AtTop(g, s, n, j, x)
  BY <1>5, <1>6, SameAt
<1> QED BY <1>1, <1>7

\* Of the context that restores: what was topmost is, unless the restore gave n back.
LEMMA RestoreOwn ==
  ASSUME Ready, NEW c \in Context, NEW k \in Nat, Restore(c, k), NEW h, h = Heap, NEW g, g = Heap',
         NEW n \in Name, NEW x, AtTop(h, dstack[c], n, level, x), g.cache[n].dict = x, <<c, n>> \notin returned'
  PROVE  AtTop(g, dstack[c], n, k, x)
<1>1. PICK s : s = dstack[c]
  OBVIOUS
<1>2. /\ Restoring(h, g, k) /\ level \in Nat /\ Typed(h) /\ Sound(g) /\ h.body = body
      /\ ~ GivesBack(h, g, n)
  BY RestoreHeap, RestoringIs, HeapIs
<1>3. \A i \in DOMAIN s : /\ s[i] \in Dict /\ h.body[s[i]] # NIL /\ g.body[s[i]] # NIL
                          /\ k \in birth[s[i]] .. k
  <2>1. \A i \in DOMAIN s : /\ s[i] \in Dict /\ body[s[i]] # NIL /\ g.body[s[i]] # NIL
                            /\ birth[s[i]] \in Nat /\ birth[s[i]] <= k
    BY <1>1, RestoreStack
  <2> QED BY <1>2, <2>1
<1>4. \A i \in DOMAIN s : HasAt(g, s[i], n, k) <=> Has(g, s[i], n)
  BY <1>2, <1>3, BackHas
<1>5. \A i \in DOMAIN s : Has(g, s[i], n) => Has(h, s[i], n)
  BY <1>2, <1>3, HoldsIs DEF GivesBack
<1>6. PICK i \in DOMAIN s : s[i] = x /\ \A j \in DOMAIN s : i < j => ~ HasAt(h, s[j], n, level)
  BY <1>1 DEF AtTop
<1>7. \A j \in DOMAIN s : i < j => ~ HasAt(g, s[j], n, k)
  BY <1>2, <1>4, <1>5, <1>6, HasNow
<1>8. Has(g, x, n)
  <2>1. x # NIL
    BY <1>3, <1>6, NilNot
  <2>2. /\ g.cache[n].loc \in 0 .. g.body[x].size - 1
        /\ g.body[x].table[g.cache[n].loc].key = n
    BY <1>2, <2>1 DEF Sound, CacheOK
  <2> QED BY <2>2 DEF Has
<1>9. HasAt(g, x, n, k)
  BY <1>4, <1>6, <1>8
<1>10. AtTop(g, s, n, k, x)
  BY <1>6, <1>7, <1>9 DEF AtTop
<1> QED BY <1>1, <1>10

LEMMA RestoreStamps ==
  ASSUME Ready, NEW c \in Context, NEW k \in Nat, Restore(c, k)
  PROVE  StampInv'
<1>1. PICK h : h = Heap
  OBVIOUS
<1>2. PICK g : g = Heap'
  OBVIOUS
<1>3. Restoring(h, g, k) /\ AtLevel(g, k) /\ saver = c /\ returned \subseteq returned'
  BY <1>1, <1>2, RestoreHeap, ReturnedIs
<1>4. gen' = gen /\ dstack' = dstack /\ level' = k /\ saver' = (IF k = 0 THEN NIL ELSE saver)
  BY <1>3 DEF Restore, AtLevel
<1>5. level \in Nat /\ h.cache = cache /\ g.cache = cache' /\ Trimmed(h, g) /\ k < level
  BY <1>1, <1>2, <1>3, HeapIs, RestoringIs DEF Heap
<1>6. gen \in [Context -> 1 .. MaxGen] /\ \A e \in Context : stamp(e) # NIL
  BY StampNot DEF Ready, StampInv
<1>7. ASSUME NEW n \in Name, cache'[n].ts # NIL PROVE cache'[n] = cache[n]
  BY <1>5, <1>7 DEF Trimmed
<1>8. ASSUME NEW n \in Name, NEW e \in Context, NEW j \in 0 .. k, cache'[n].ts = stamp(e),
             <<e, n>> \notin returned', j = k \/ e # saver'
      PROVE  TopAt(e, n, j, cache[n].dict)'
  <2>1. cache'[n] = cache[n] /\ cache[n].ts = stamp(e) /\ <<e, n>> \notin returned
    BY <1>3, <1>6, <1>7, <1>8
  <2>2. PICK x : x = cache[n].dict
    OBVIOUS
  <2>3. g.cache[n].dict = x
    BY <1>5, <2>1, <2>2
  <2>4. ASSUME e # c PROVE AtTop(g, dstack[e], n, j, x)
    <3>1. j \in 0 .. level
      BY <1>5
    <3>2. TopAt(e, n, j, cache[n].dict)
      BY <1>3, <2>1, <2>4, <3>1 DEF Ready, StampInv
    <3>3. AtTop(h, dstack[e], n, j, x)
      BY <1>1, <2>2, <3>2, TopAtIs
    <3> QED BY <1>1, <1>2, <2>4, <3>3, RestoreOther
  <2>5. ASSUME e = c PROVE AtTop(g, dstack[e], n, j, x)
    <3>1. j = k
      BY <1>3, <1>4, <1>8, <2>5
    <3>2. level \in 0 .. level
      BY <1>5
    <3>3. TopAt(e, n, level, cache[n].dict)
      BY <2>1, <3>2 DEF Ready, StampInv
    <3>4. AtTop(h, dstack[c], n, level, x)
      BY <1>1, <2>2, <2>5, <3>3, TopAtIs
    <3>5. AtTop(g, dstack[c], n, k, x)
      BY <1>1, <1>2, <1>8, <2>3, <2>5, <3>4, RestoreOwn
    <3> QED BY <2>5, <3>1, <3>5
  <2>6. AtTop(Heap', dstack'[e], n, j, cache'[n].dict)
    BY <1>2, <1>4, <2>1, <2>2, <2>4, <2>5
  <2> QED BY <2>6, TopAtNext
<1>9. ASSUME NEW n \in Name, NEW e \in Context, cache'[n].ts # NIL, cache'[n].ts[1] = e
      PROVE  cache'[n].ts[2] <= gen[e]
  BY <1>7, <1>9 DEF Ready, StampInv
<1>10. \A e : stamp(e)' = stamp(e)
  BY <1>4 DEF stamp
<1> QED BY <1>4, <1>6, <1>8, <1>9, <1>10 DEF StampInv

LEMMA RestoreStep ==
  ASSUME Ready, NEW c \in Context, NEW k \in Nat, Restore(c, k)
  PROVE  IInv'
<1>1. PICK h : h = Heap
  OBVIOUS
<1>2. PICK g : g = Heap'
  OBVIOUS
<1>3. Restoring(h, g, k) /\ AtLevel(g, k) /\ HeapOK(Heap)' /\ saver = c
  BY <1>1, <1>2, RestoreHeap
<1>4. /\ dstack' = dstack /\ level' = k /\ saver' = (IF k = 0 THEN NIL ELSE saver) /\ program' = program
      /\ birth' = [d \in Dict |-> IF g.body[d] = NIL THEN NIL ELSE birth[d]]
      /\ returned' \subseteq Context \X Name /\ body' = g.body /\ h.body = body
  <2>1. g.body = RstrToLevel(k).body
    BY <1>2 DEF Restore, Becomes, Heap
  <2> QED BY <1>1, <1>3, <2>1, ReturnedIs, HeapIs DEF Restore, AtLevel, Becomes
<1>5. \A d \in Dict : g.body[d] # NIL <=> h.body[d] # NIL /\ birth[d] <= k
  BY <1>3 DEF Restoring, Restored
<1>6. Ground'
  <2>1. birth' \in [Dict -> Nat \cup {NIL}]
    <3>1. \A d \in Dict : birth[d] \in Nat \cup {NIL}
      BY DEF Ready, Ground
    <3> QED BY <1>4, <3>1
  <2>2. \A d \in Dict : IF body'[d] = NIL THEN birth'[d] = NIL ELSE birth'[d] \in Nat
    BY <1>4, <1>5 DEF Ready, Ground
  <2>3. \A d \in Shared : body'[d] # NIL
    <3>1. ASSUME NEW d \in Shared PROVE birth[d] = 0 /\ h.body[d] # NIL /\ d \in Dict
      <4>1. d \in Dict /\ h.body[d] # NIL /\ Formed(h)
        BY <1>3, <1>4, RestoringIs, DictAssumption DEF Ready, Ground
      <4> QED BY <4>1 DEF Formed, Logged
    <3> QED BY <1>4, <1>5, <3>1
  <2>4. k \in 0 .. MaxLevel
    <3>1. level \in Nat /\ level <= MaxLevel /\ k < level
      BY <1>3, GroundLevel, RestoringIs DEF Ready
    <3> QED BY <3>1, DictAssumption
  <2>5. saver' \in Context \cup {NIL} /\ (saver' = NIL <=> k = 0)
    BY <1>3, <1>4, NilNot
  <2> QED BY <1>4, <2>1, <2>2, <2>3, <2>4, <2>5 DEF Ready, Ground
<1>7. StackInv'
  <2>1. ASSUME NEW e \in Context, NEW i \in DOMAIN dstack[e]
        PROVE  body'[dstack[e][i]] # NIL /\ birth'[dstack[e][i]] <= (IF e = saver' THEN k ELSE 0)
    <3>1. /\ g.body[dstack[e][i]] # NIL /\ birth'[dstack[e][i]] = birth[dstack[e][i]]
          /\ birth[dstack[e][i]] <= (IF e = c THEN k ELSE 0)
      BY <1>1, <1>2, RestoreStack
    <3>2. (IF e = saver' THEN k ELSE 0) = (IF e = c THEN k ELSE 0)
      BY <1>3, <1>4, NilNot
    <3> QED BY <1>4, <3>1, <3>2
  <2> QED BY <1>4, <2>1 DEF Ready, StackInv, OnStack
<1>8. HeapInv'
  BY <1>3 DEF HeapInv, HeapOK
<1> QED BY <1>6, <1>7, <1>8, RestoreStamps DEF IInv

-----------------------------------------------------------------------------
(* The theorems.                                                            *)

LEMMA Stutter ==
  ASSUME Ready, UNCHANGED vars
  PROVE  IInv'
<1>1. /\ body' = body /\ birth' = birth /\ cache' = cache /\ dstack' = dstack /\ gen' = gen
      /\ srList' = srList /\ saver' = saver /\ returned' = returned /\ program' = program
  BY DEF vars
<1>2. PICK h : h = Heap
  OBVIOUS
<1>3. level' = level /\ Heap' = h /\ \A e : stamp(e)' = stamp(e)
  BY <1>1, <1>2 DEF level, Heap, stamp
<1>4. HeapOK(h)
  BY <1>2, ReadyIs
<1>5. HeapOK(Heap)'
  BY <1>1, <1>3, <1>4, HeapStays, HeapBecomes
<1>6. HeapInv'
  BY <1>5 DEF HeapInv, HeapOK
<1>7. Ground' /\ StackInv'
  BY <1>1, <1>3 DEF Ready, Ground, StackInv, OnStack
<1>8. StampInv'
  <2>1. \A n \in Name, e \in Context : \A k : TopAt(e, n, k, cache[n].dict)' <=> TopAt(e, n, k, cache[n].dict)
    BY <1>1, <1>2, <1>3, TopAtIs, TopAtNext
  <2> QED BY <1>1, <1>3, <2>1 DEF Ready, StampInv
<1> QED BY <1>6, <1>7, <1>8 DEF IInv

LEMMA UsedIs ==
  ASSUME Ready, NEW c \in Context
  PROVE  /\ program[c].names \subseteq Name /\ program[c].dicts \subseteq Dict
         /\ program[c].values \subseteq Value
  BY DictAssumption DEF Ready, Ground

LEMMA OperatorStep ==
  ASSUME Ready, NEW c \in Context, Operator(c)
  PROVE  IInv'
<1>1. /\ program[c].names \subseteq Name /\ program[c].dicts \subseteq Dict
      /\ program[c].values \subseteq Value
  BY UsedIs
<1>2. CASE \E n \in program[c].names, v \in program[c].values : Def(c, n, v) \/ Store(c, n, v)
  BY <1>1, <1>2, DefStep, StoreStep
<1>3. CASE \E n \in program[c].names : Load(c, n)
  BY <1>1, <1>3, LoadStep
<1>4. CASE \E d \in program[c].dicts, n \in program[c].names :
             UnDef(c, d, n) \/ \E v \in program[c].values : DictPut(c, d, n, v)
  BY <1>1, <1>4, UnDefStep, DictPutStep
<1>5. CASE \E d \in program[c].dicts, a \in {{"r"}, {}} : SetDictAccess(c, d, a)
  <2>1. {{"r"}, {}} \subseteq SUBSET {"r", "w"}
    OBVIOUS
  <2> QED BY <1>1, <1>5, <2>1, AccessStep
<1>6. CASE \E d \in program[c].dicts : DictP(c, d) \/ Begin(c, d)
  BY <1>1, <1>6, DictPStep, BeginStep
<1>7. CASE End(c)
  BY <1>7, EndStep
<1>8. CASE Save(c)
  BY <1>8, SaveStep
<1>9. CASE \E k \in 0 .. MaxLevel - 1 : Restore(c, k)
  BY <1>9, RestoreStep, DictAssumption
<1> QED BY <1>2, <1>3, <1>4, <1>5, <1>6, <1>7, <1>8, <1>9 DEF Operator

(* Every table, log, binding and stamp is as the operators need it: the          *)
(* strengthening of the theorems that follow (dict.c, saverestore.c).          *)
THEOREM IInvAlways == Spec => []IInv
<1>1. Init => IInv
  BY InitReady
<1>2. IInv /\ [Next]_vars => IInv'
  <2>1. IInv /\ Next => IInv'
    BY OperatorStep DEF Next, IInv, Ready
  <2>2. IInv /\ UNCHANGED vars => IInv'
    BY Stutter DEF IInv, Ready
  <2> QED BY <2>1, <2>2
<1> QED BY <1>1, <1>2, PTL DEF Spec

\* The types, from the invariant.
LEMMA BodyTyped ==
  ASSUME Ready, NEW d \in Dict, body[d] # NIL
  PROVE  /\ body[d].curlength \in 0 .. MaxLen[d] /\ body[d].curmax \in 1 .. MaxLen[d]
         /\ body[d].access \subseteq {"r", "w"} /\ body[d].level \in 0 .. level
         /\ birth[d] \in 0 .. level /\ body[d].curlength < body[d].size
         /\ \A i \in Slots(body[d]) :
              /\ body[d].table[i].key \in Name \cup {NIL} /\ body[d].table[i].value \in Value \cup {NIL}
              /\ {body[d].table[i].klevel, body[d].table[i].vlevel} \subseteq 0 .. level
<1>1. PICK h : h = Heap
  OBVIOUS
<1>2. level \in Nat /\ h.body = body /\ Formed(h)
  BY <1>1, ReadyIs DEF HeapOK
<1>3. PICK b : b = body[d]
  OBVIOUS
<1>4. Sized(d, b) /\ b.level <= level /\ birth[d] \in 0 .. level
  BY <1>2, <1>3 DEF Formed, Logged
<1>5. b.curmax \in Nat /\ b.curlength \in Nat /\ b.access \in SUBSET {"r", "w"} /\ b.level \in Nat /\ b.size \in Nat
  BY <1>4, SizedLive DEF Sized, DictBody
<1>6. MaxLen[d] \in Nat \ {0} /\ CurMax[d] \in 1 .. MaxLen[d]
  BY DictAssumption
<1>7. b.curmax \in 1 .. MaxLen[d] /\ b.curlength \in 0 .. MaxLen[d] /\ b.curlength < b.size /\ b.level \in 0 .. level
  <2>1. b.curmax \in CurMax[d] .. MaxLen[d] /\ b.curmax < b.size /\ b.curlength <= b.curmax
    BY <1>4 DEF Sized
  <2> QED BY <1>2, <1>4, <1>5, <1>6, <2>1
<1>8. ASSUME NEW i \in 0 .. b.size - 1
      PROVE  /\ b.table[i].key \in Name \cup {NIL} /\ b.table[i].value \in Value \cup {NIL}
             /\ {b.table[i].klevel, b.table[i].vlevel} \subseteq 0 .. level
  <2>1. b.table[i] \in Entry /\ b.table[i].klevel <= level /\ b.table[i].vlevel <= level
    BY <1>2, <1>3, <1>8, LoggedSlot
  <2> QED BY <1>2, <2>1 DEF Entry
<1> QED BY <1>3, <1>4, <1>5, <1>7, <1>8 DEF Slots

LEMMA TypesHold ==
  ASSUME IInv
  PROVE  TypeOK
<1>1. Ready
  BY DEF IInv, Ready
<1>2. level \in Nat /\ HeapOK(Heap) /\ Heap.cache = cache
  BY <1>1, ReadyIs
<1>3. \A d \in Dict : birth[d] \in 0 .. level \cup {NIL}
  <2>1. \A d \in Dict : body[d] # NIL => birth[d] \in 0 .. level
    BY <1>1, BodyTyped
  <2>2. \A d \in Dict : body[d] = NIL => birth[d] = NIL
    BY <1>1 DEF Ready, Ground
  <2> QED BY <2>1, <2>2
<1>4. \A n \in Name : cache[n].dict \in Dict \cup {NIL}
  BY <1>2, BindingIs DEF HeapOK, Formed
<1>5. \A c \in Context : gen[c] \in 1 .. MaxGen /\ dstack[c] \in Seq(Dict)
  BY <1>1 DEF Ready, StackInv, StampInv
<1>6. level <= MaxLevel /\ saver \in Context \cup {NIL}
  BY <1>1, GroundLevel DEF Ready, Ground
<1> QED BY <1>1, <1>3, <1>4, <1>5, <1>6, BodyTyped DEF TypeOK

LEMMA TablesHold ==
  ASSUME IInv
  PROVE  TableSound
<1>1. Ready
  BY DEF IInv, Ready
<1>2. PICK h : h = Heap
  OBVIOUS
<1>3. h.body = body /\ Formed(h) /\ NowGood(h)
  BY <1>1, <1>2, ReadyIs DEF HeapOK
<1>4. ASSUME NEW d \in Dict, body[d] # NIL, NEW b, b = body[d]
      PROVE  /\ Cardinality({i \in Slots(b) : b.table[i].key # NIL}) = b.curlength
             /\ b.curlength < b.size
             /\ \A i \in Slots(b) : b.table[i].key # NIL => Place(b, b.table[i].key) = i
  <2>1. Good(KeysNow(h, d), b.size, b.curlength)
    BY <1>3, <1>4 DEF NowGood
  <2>2. Filled(KeysNow(h, d), b.size) = {i \in Slots(b) : b.table[i].key # NIL}
    BY <1>3, <1>4 DEF Filled, KeysNow, Slots
  <2>3. Cardinality({i \in Slots(b) : b.table[i].key # NIL}) = b.curlength
    BY <2>1, <2>2 DEF Good
  <2>4. /\ b.curlength < b.size
        /\ \A i \in Slots(b) : b.table[i].key \in Name \cup {NIL}
    BY <1>1, <1>4, BodyTyped
  <2>5. ASSUME NEW i \in Slots(b), b.table[i].key # NIL PROVE Place(b, b.table[i].key) = i
    <3>1. PICK n : n = b.table[i].key
      OBVIOUS
    <3>2. n \in Name /\ i \in 0 .. h.body[d].size - 1 /\ h.body[d] # NIL /\ h.body[d].table[i].key = n
      BY <1>3, <1>4, <2>4, <2>5, <3>1 DEF Slots
    <3>3. Place(h.body[d], n) = i
      BY <1>3, <3>2, SearchNow
    <3> QED BY <1>3, <1>4, <3>1, <3>3
  <2> QED BY <2>3, <2>4, <2>5
<1> QED BY <1>4, TypesHold DEF TableSound

(* A table can be searched whatever was inserted, moved by UnDef, copied to a    *)
(* larger table or undone by a restore: it has a null slot, curlength counts    *)
(* its keys, and each key is found from its home (dict.c, saverestore.c).       *)
THEOREM TableSoundAlways == Spec => []TableSound
<1>1. IInv => TableSound
  BY TablesHold
<1> QED BY <1>1, IInvAlways, PTL

LEMMA CacheHolds ==
  ASSUME IInv
  PROVE  CacheSound
<1>1. PICK h : h = Heap
  OBVIOUS
<1>2. h.body = body /\ h.cache = cache /\ HeapOK(h)
  BY <1>1, ReadyIs DEF IInv, Ready
<1>3. ASSUME NEW n \in Name, cache[n].dict # NIL
      PROVE  /\ Alive(cache[n].dict) /\ cache[n].loc \in Slots(body[cache[n].dict])
             /\ body[cache[n].dict].table[cache[n].loc].key = n
             /\ Bit[cache[n].dict] \in cache[n].vec
  <2>1. /\ h.cache[n].dict \in Dict /\ h.body[h.cache[n].dict] # NIL
        /\ h.cache[n].loc \in 0 .. h.body[h.cache[n].dict].size - 1
        /\ h.body[h.cache[n].dict].table[h.cache[n].loc].key = n
    BY <1>2, <1>3, CachedHas
  <2>2. Bit[h.cache[n].dict] \in h.cache[n].vec
    BY <1>2, <2>1 DEF HeapOK, VecOK
  <2> QED BY <1>2, <2>1, <2>2 DEF Alive, Slots
<1> QED BY <1>3 DEF CacheSound

LEMMA TopmostIs ==
  ASSUME Ready, NEW c \in Context, NEW n \in Name
  PROVE  Uppermost(Heap, c, n) = Topmost(c, n)
<1>1. Heap.body = body
  BY HeapIs
<1>2. n # NIL
  BY NilNot
<1>3. \A d : n \in KeysOf(body[d]) <=> Has(Heap, d, n)
  BY <1>1, <1>2 DEF KeysOf, Slots, Has
<1>4. Hits(Heap, c, n) = {i \in DOMAIN dstack[c] : n \in KeysOf(body[dstack[c][i]])}
  BY <1>3 DEF Hits
<1> QED BY <1>4 DEF Uppermost, Topmost

(* A binding in the name cache is right, and who looks a name up finds its       *)
(* topmost binding, through time stamps, bit vectors and the bindings that      *)
(* others cached, unless a restore gave the name back (dict.c).                *)
THEOREM LookupRightAlways == Spec => []LookupRight
<1>1. IInv => LookupRight
  <2>1. ASSUME IInv, NEW c \in Context, NEW n \in Name, Runs(c), <<c, n>> \notin returned
        PROVE  Resolved(Heap, c, n) = Topmost(c, n)
    BY <2>1, ResolvedIs, TopmostIs DEF IInv, Ready
  <2> QED BY <2>1, CacheHolds DEF LookupRight
<1> QED BY <1>1, IInvAlways, PTL
=============================================================================
