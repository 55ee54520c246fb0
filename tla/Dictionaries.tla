--------------------------- MODULE Dictionaries ---------------------------
(***************************************************************************)
(* Dictionaries (dict.c), the name cache in the names, and the undo records   *)
(* of save and restore (saverestore.c).                                      *)
(*                                                                         *)
(* A dictionary body has a hash table with linear probing.  A name caches one *)
(* binding: kvloc in dict, topmost for the context whose time stamp is in ts. *)
(* Keys and values carry the save level they were written at; the first write *)
(* at a deeper level leaves a record in the list of that level.               *)
(*                                                                         *)
(* An operator runs without a switch.  While a save is in force its context    *)
(* has exclusive use of the space (Monitors.tla).                             *)
(***************************************************************************)
EXTENDS Naturals, Sequences, FiniteSets

CONSTANTS
  Context, Name, Value, NIL,
  Dict,        \* addresses of dictionary bodies
  Shared,      \* those in shared VM
  MaxLen,      \* MaxLen[d]: maxlength
  CurMax,      \* CurMax[d]: the curmax a dictionary starts with
  Bit,         \* Bit[d]: the bit of its bitvector
  Hash,        \* Hash[n] in 0 .. HashRange - 1: HashObject before the scaling
  HashRange,
  Base,        \* Base[c]: the permanent part of c's dictionary stack
  MaxStack,    \* bound: entries above it
  MaxLevel,    \* MAXlevel
  MaxGen,      \* MAXGenericIDGeneration
  Programs     \* what programs use: [Context -> [ops, dicts, names, values, levels]]

\* A slot of a table, and a DictBody with a table of size slots.
Entry == [key : Name \cup {NIL}, klevel : Nat, value : Value \cup {NIL}, vlevel : Nat]
DictBody(size) ==
  [size : {size}, curmax : Nat, curlength : Nat, access : SUBSET {"r", "w"}, level : Nat,
   table : [0 .. size - 1 -> Entry]]

ASSUME DictAssumption ==
  /\ Shared \subseteq Dict /\ NIL \notin Dict \cup Name \cup Value \cup Context
  /\ NIL \notin Context \X Nat
  /\ \A d \in Dict : \A size \in 1 .. 2 * MaxLen[d] : NIL \notin DictBody(size)
  /\ HashRange \in Nat \ {0}
  \* the permanent part of a dictionary stack is not empty
  /\ Base \in [Context -> Seq(Dict)] /\ \A c \in Context : Base[c] # <<>>
  /\ \A d \in Dict : MaxLen[d] \in Nat \ {0} /\ CurMax[d] \in 1 .. MaxLen[d]
  /\ \A n \in Name : Hash[n] \in 0 .. HashRange - 1
  /\ MaxLevel \in Nat /\ MaxGen \in Nat \ {0} /\ MaxStack \in Nat
  \* only dictionaries in shared VM are made smaller than they may become
  /\ \A d \in Dict \ Shared : CurMax[d] = MaxLen[d]
  \* and those are not tiny: a quarter of the length is more than nothing
  /\ \A d \in Dict : CurMax[d] < MaxLen[d] => MaxLen[d] >= 4
  /\ \A p \in Programs, c \in Context :
       /\ p[c].dicts \subseteq Dict /\ p[c].names \subseteq Name /\ p[c].values \subseteq Value
       /\ p[c].levels \in 0 .. MaxLevel

VARIABLES
  body,      \* body[d]: the DictBody with its table, NIL if free
  birth,     \* the level in d's object on the finalize chain
  cache,     \* cache[n]: kvloc, dict, ts and vec of the NameEntry
  dstack,    \* dstack[c]: dictStk
  gen,       \* gen[c]: the generation of c's time stamp
  srList,    \* the undo records of each level, the innermost last
  saver,     \* who has exclusive use
  returned,  \* history: a restore gave a name back to a dictionary, and the
             \* context's time stamp has not changed since
  snaps,     \* history: what private dictionaries held when each save was made
  program    \* what each context uses; it never changes

vars == <<body, birth, cache, dstack, gen, srList, saver, returned, snaps, program>>

level == Len(srList)
stamp(c) == <<c, gen[c]>>
Null == [key |-> NIL, klevel |-> level, value |-> NIL, vlevel |-> level]
Unbound(e) == [e EXCEPT !.loc = NIL, !.dict = NIL, !.ts = NIL]

-----------------------------------------------------------------------------
(* Tables.                                                                  *)

Home(n, size) == (Hash[n] * size) \div HashRange
Slots(b) == 0 .. b.size - 1

\* How far from its home the search for n goes before it meets n or a null.
Distance(b, n) ==
  LET at(i) == b.table[(Home(n, b.size) + i) % b.size].key
  IN CHOOSE i \in Slots(b) :
       at(i) \in {n, NIL} /\ \A j \in 0 .. i - 1 : at(j) \notin {n, NIL}

\* SearchDict: where n is, or where it goes.
Place(b, n) == (Home(n, b.size) + Distance(b, n)) % b.size
Known(b, n) == b.table[Place(b, n)].key = n
Full(b) == b.curlength >= b.curmax

\* AllocPDict; an expansion is no larger than what a new one would have.
NewBody(d) ==
  [size |-> CurMax[d] + 1, curmax |-> CurMax[d], curlength |-> 0,
   access |-> {"r", "w"}, level |-> IF d \in Shared THEN 0 ELSE level,
   table |-> [i \in 0 .. CurMax[d] |->
                IF d \in Shared THEN [Null EXCEPT !.klevel = 0, !.vlevel = 0] ELSE Null]]

-----------------------------------------------------------------------------
(* Writing.  h is a state of the heap: bodies, cache and undo records.        *)

Heap == [body |-> body, cache |-> cache, sr |-> srList]

\* A record is made once for each place and level; older ones are kept.
WithRecord(f, p, v) == [x \in DOMAIN f \cup {p} |-> IF x \in DOMAIN f THEN f[x] ELSE v]

\* saveobj, and the records of VMPutDict.
Recorded(h, kind, place, old) == [h EXCEPT !.sr[level][kind] = WithRecord(@, place, old)]

SaveHeader(h, d) ==
  LET b == h.body[d] IN
  IF d \in Shared \/ b.level = level THEN h
  ELSE Recorded(h, "dbs", d, [curlength |-> b.curlength, access |-> b.access,
                              level |-> b.level])

\* VMPutDict.
PutHeader(h, d, curlength, access) ==
  [SaveHeader(h, d) EXCEPT !.body[d].curlength = curlength, !.body[d].access = access,
                           !.body[d].level = IF d \in Shared THEN 0 ELSE level]

SaveValue(h, d, i) ==
  LET o == h.body[d].table[i] IN
  IF d \in Shared \/ o.vlevel = level THEN h
  ELSE Recorded(h, "values", <<d, i>>, [value |-> o.value, vlevel |-> o.vlevel])

SaveKey(h, d, i) ==
  LET o == h.body[d].table[i] IN
  IF d \in Shared \/ o.klevel = level THEN h
  ELSE Recorded(h, "keys", <<d, i>>, [key |-> o.key, klevel |-> o.klevel])

LevelOf(d) == IF d \in Shared THEN 0 ELSE level

\* Mutant of PutValue: a value that is overwritten is not recorded.
PutValueUnsaved(h, d, i, v) ==
  [h EXCEPT !.body[d].table[i].value = v]

\* VMPutDValue.
PutValue(h, d, i, v) ==
  [SaveValue(h, d, i) EXCEPT !.body[d].table[i].value = v,
                             !.body[d].table[i].vlevel = LevelOf(d)]

\* VMPutDKeyVal.
PutKeyVal(h, d, i, n, v) ==
  [SaveKey(SaveValue(h, d, i), d, i) EXCEPT
     !.body[d].table[i] = [key |-> n, klevel |-> LevelOf(d),
                           value |-> v, vlevel |-> LevelOf(d)]]

Least(a, b) == IF a < b THEN a ELSE b

\* VMExpandDict: the keys go to a larger table, and their bindings with them.
\* Only shared dictionaries grow, so that no table is undone.
Expanded(h, d) ==
  LET b == h.body[d]
      size == Least(MaxLen[d] + MaxLen[d] \div 4, b.size * 2)
      bare == [b EXCEPT !.size = size, !.curmax = Least(MaxLen[d], b.curmax * 2),
                        !.table = [i \in 0 .. size - 1 |->
                                     [key |-> NIL, klevel |-> 0, value |-> NIL, vlevel |-> 0]]]
      grown[i \in 0 .. b.size] ==   \* after the first i entries
        IF i = 0 THEN bare
        ELSE LET kv == b.table[i - 1] IN
             IF kv.key = NIL THEN grown[i - 1]
             ELSE LET at == Place(grown[i - 1], kv.key) IN
                  [grown[i - 1] EXCEPT !.table = [@ EXCEPT ![at] = kv]]
      new == grown[b.size]
  IN [h EXCEPT !.body[d] = new,
               !.cache = [n \in Name |-> IF @[n].dict = d
                                         THEN [@[n] EXCEPT !.loc = Place(new, n)] ELSE @[n]]]

-----------------------------------------------------------------------------
(* Looking up.                                                              *)

OnStack(c) == {dstack[c][i] : i \in DOMAIN dstack[c]}
Top(c) == dstack[c][Len(dstack[c])]

\* The dictionary in which the loop of trytoload stops, which looks only at
\* those whose bitvector meets that of the name.
MayHold(h, d, n) == Bit[d] \in h.cache[n].vec
StopsAt(h, c, n) ==
  LET hits == {i \in DOMAIN dstack[c] :
                 LET d == dstack[c][i]
                 IN MayHold(h, d, n) /\ (h.cache[n].dict = d \/ Known(h.body[d], n))}
  IN IF hits = {} THEN NIL
     ELSE dstack[c][CHOOSE i \in hits : \A j \in hits : j <= i]

Current(h, c, n) == h.cache[n].ts = stamp(c)
Resolved(h, c, n) == IF Current(h, c, n) THEN h.cache[n].dict ELSE StopsAt(h, c, n)

\* trytoload, with what it leaves in the name.
Loaded(h, c, n) ==
  LET d == StopsAt(h, c, n)
      loc == IF h.cache[n].dict = d THEN h.cache[n].loc ELSE Place(h.body[d], n)
  IN IF Current(h, c, n) \/ d = NIL \/ "r" \notin h.body[d].access THEN h
     ELSE [h EXCEPT !.cache[n] = [loc |-> loc, dict |-> d, ts |-> stamp(c), vec |-> @.vec]]

-----------------------------------------------------------------------------
(* PutInDict.                                                               *)

\* What trytoload or a definition at the top may say of its binding.
Stamp(h, c, d, top, ts) == IF top /\ "r" \in h.body[d].access THEN stamp(c) ELSE ts

\* The name caches the place just written.
Bound(h, c, d, n, top) ==
  [h EXCEPT !.cache[n] = [loc |-> Place(h.body[d], n), dict |-> d,
                          ts |-> Stamp(h, c, d, top, NIL), vec |-> @.vec \cup {Bit[d]}]]

Inserted(h, d, n, v) ==
  LET g == IF Full(h.body[d]) THEN Expanded(h, d) ELSE h
  IN PutHeader(PutKeyVal(g, d, Place(g.body[d], n), n, v), d,
               g.body[d].curlength + 1, g.body[d].access)

CanPut(h, d, n) ==
  /\ "w" \in h.body[d].access
  /\ \/ h.cache[n].dict = d \/ Known(h.body[d], n)
     \/ h.body[d].curlength < MaxLen[d]

PutInDict(h, c, d, n, v, top) ==
  IF h.cache[n].dict = d
  THEN [PutValue(h, d, h.cache[n].loc, v) EXCEPT
          !.cache[n].ts = Stamp(h, c, d, top, @)]
  ELSE IF Known(h.body[d], n)
  THEN Bound(PutValue(h, d, Place(h.body[d], n), v), c, d, n, top)
  ELSE Bound(Inserted(h, d, n, v), c, d, n, top)

-----------------------------------------------------------------------------
(* UnDef.  Knuth's algorithm R: the entries after the hole whose search would   *)
(* pass through it are moved into it, one after the other.                     *)

\* Mutant of Passes: a key whose home is the hole stays.
PassesStrictly(home, hole, i) ==
  IF i < hole THEN home > i /\ home < hole ELSE home < hole \/ home > i

\* Whether the search that ends at slot i passes the hole.
Passes(home, hole, i) ==
  IF i < hole THEN home > i /\ home <= hole
  ELSE home <= hole \/ home > i

Emptied(h, d, at) ==
  LET size == h.body[d].size
      slot(i) == (at + i) % size
      Hole(g, i) == PutKeyVal(g, d, i, NIL, NIL)
      step[i \in 0 .. size] ==
        IF i = 0 THEN [h |-> Hole(h, at), hole |-> at, done |-> FALSE]
        ELSE LET p == step[i - 1]
                 o == p.h.body[d].table[slot(i)]
                 moved == Hole(PutKeyVal(p.h, d, p.hole, o.key, o.value), slot(i))
             IN IF p.done \/ o.key = NIL THEN [p EXCEPT !.done = TRUE]
                ELSE IF ~Passes(Home(o.key, size), p.hole, slot(i)) THEN p
                ELSE [h |-> IF moved.cache[o.key].dict = d
                            THEN [moved EXCEPT !.cache[o.key].loc = p.hole] ELSE moved,
                      hole |-> slot(i), done |-> FALSE]
  IN step[size].h

UnDefined(h, d, n) ==
  LET at == IF h.cache[n].dict = d THEN h.cache[n].loc ELSE Place(h.body[d], n)
      g == IF h.cache[n].dict = d THEN [h EXCEPT !.cache[n] = Unbound(@)] ELSE h
      e == Emptied(g, d, at)
  IN PutHeader(e, d, e.body[d].curlength - 1, e.body[d].access)

-----------------------------------------------------------------------------
(* What a dictionary leaves in the name cache when it goes, or when it becomes  *)
(* unreadable (DictFinalize).                                                 *)
KeysOf(b) == {b.table[i].key : i \in Slots(b)} \ {NIL}

DictFinalize(h, d) ==
  [h EXCEPT !.cache = [n \in Name |-> IF n \in KeysOf(h.body[d]) /\ @[n].dict = d
                                      THEN Unbound(@[n]) ELSE @[n]]]

-----------------------------------------------------------------------------
(* Restore to level k, one level at a time from the innermost.                 *)

\* Mutant of Displaced: no name is looked at.
DisplacedNone(h, places) == {}

\* The names whose cached binding is at one of these places.
Displaced(h, places) ==
  {n \in Name : /\ <<h.cache[n].dict, h.cache[n].loc>> \in places
                /\ h.body[h.cache[n].dict].table[h.cache[n].loc].key = n}

\* RstrObj, over keys and values that were there at level k.
RstrObj(h, sr, k) ==
  LET keys == {p \in DOMAIN sr.keys : sr.keys[p].klevel <= k}
      values == {p \in DOMAIN sr.values : sr.values[p].vlevel <= k}
      Old(d, i) ==
        [key    |-> IF <<d, i>> \in keys THEN sr.keys[<<d, i>>].key ELSE h.body[d].table[i].key,
         klevel |-> IF <<d, i>> \in keys THEN sr.keys[<<d, i>>].klevel ELSE h.body[d].table[i].klevel,
         value  |-> IF <<d, i>> \in values THEN sr.values[<<d, i>>].value ELSE h.body[d].table[i].value,
         vlevel |-> IF <<d, i>> \in values THEN sr.values[<<d, i>>].vlevel ELSE h.body[d].table[i].vlevel]
  IN [h EXCEPT
        !.body = [d \in Dict |-> IF @[d] = NIL THEN NIL
                                 ELSE [@[d] EXCEPT !.table = [i \in Slots(h.body[d]) |-> Old(d, i)]]],
        !.cache = [n \in Name |-> IF n \in Displaced(h, keys) THEN Unbound(@[n]) ELSE @[n]]]

\* RstrDB.
RstrDB(h, sr, k) ==
  [h EXCEPT !.body =
     [d \in Dict |-> IF d \in DOMAIN sr.dbs /\ sr.dbs[d].level <= k
                     THEN [@[d] EXCEPT !.curlength = sr.dbs[d].curlength,
                                       !.access = sr.dbs[d].access,
                                       !.level = sr.dbs[d].level]
                     ELSE @[d]]]

\* PerformFinalization, and the memory is given back.
Finalized(h, l) ==
  LET gone == {d \in Dict \ Shared : birth[d] = l} IN
  [h EXCEPT !.body = [d \in Dict |-> IF d \in gone THEN NIL ELSE @[d]],
            !.cache = [n \in Name |->
                         IF \E d \in gone : @[n].dict = d /\ n \in KeysOf(h.body[d])
                         THEN Unbound(@[n]) ELSE @[n]]]

RstrToLevel(k) ==
  LET down[l \in k .. level] ==
        IF l = level THEN Heap
        ELSE LET h == down[l + 1] sr == h.sr[l + 1]
             IN Finalized(RstrDB(RstrObj(h, sr, k), sr, k), l + 1)
  IN [down[k] EXCEPT !.sr = SubSeq(@, 1, k)]

-----------------------------------------------------------------------------
(* The operators.                                                           *)

Runs(c) == saver = c \/ level = 0
Uses(c, op) == Runs(c) /\ op \in program[c].ops
Alive(d) == body[d] # NIL
Becomes(h) == body' = h.body /\ cache' = h.cache /\ srList' = h.sr
same == <<birth, dstack, gen, saver, returned, snaps, program>>

\* def, and put into any dictionary a program can name.
Def(c, n, v) ==
  /\ Uses(c, "def") /\ CanPut(Heap, Top(c), n)
  /\ Becomes(PutInDict(Heap, c, Top(c), n, v, TRUE))
  /\ UNCHANGED same

DictPut(c, d, n, v) ==
  /\ Uses(c, "put") /\ Alive(d) /\ CanPut(Heap, d, n)
  /\ Becomes(PutInDict(Heap, c, d, n, v, FALSE))
  /\ UNCHANGED same

Load(c, n) ==
  /\ Uses(c, "load")
  /\ Becomes(Loaded(Heap, c, n))
  /\ UNCHANGED same

\* store looks the name up and puts where it found it, or in the current
\* dictionary.  The lookup leaves its trace also if the put then fails.
Store(c, n, v) ==
  LET found == Resolved(Heap, c, n)
      h == Loaded(Heap, c, n)
      d == IF found = NIL THEN Top(c) ELSE found
      readable == found = NIL \/ Current(Heap, c, n) \/ "r" \in body[found].access
  IN /\ Uses(c, "store")
     /\ Becomes(IF readable /\ CanPut(h, d, n) THEN PutInDict(h, c, d, n, v, TRUE) ELSE h)
     /\ UNCHANGED same

UnDef(c, d, n) ==
  /\ Uses(c, "undef") /\ Alive(d)
  /\ "w" \in body[d].access
  /\ cache[n].dict = d \/ Known(body[d], n)
  /\ Becomes(UnDefined(Heap, d, n))
  /\ UNCHANGED same

SetDictAccess(c, d, a) ==
  LET left == body[d].access \cap a
      h == PutHeader(Heap, d, body[d].curlength, left)
  IN /\ Uses(c, "access") /\ Alive(d)
     /\ left # body[d].access /\ "w" \in body[d].access
     /\ Becomes(IF "r" \in a THEN h ELSE DictFinalize(h, d))
     /\ UNCHANGED same

\* dict.
DictP(c, d) ==
  /\ Uses(c, "dict") /\ ~Alive(d) /\ d \notin Shared
  /\ body' = [body EXCEPT ![d] = NewBody(d)]
  /\ birth' = [birth EXCEPT ![d] = level]
  /\ UNCHANGED <<cache, dstack, gen, srList, saver, returned, snaps, program>>

\* BumpCETimeStamp: when the generations are used up, no name may keep one.
\* Mutant of BumpCETimeStamp: it wraps and keeps them.
BumpAndWrap(c) ==
  /\ gen' = [gen EXCEPT ![c] = (@ % MaxGen) + 1]
  /\ UNCHANGED cache

BumpCETimeStamp(c) ==
  IF gen[c] = MaxGen
  THEN /\ gen' = [gen EXCEPT ![c] = 1]
       /\ cache' = [n \in Name |-> IF cache[n].ts # NIL /\ cache[n].ts[1] = c
                                   THEN [cache[n] EXCEPT !.ts = NIL] ELSE cache[n]]
  ELSE gen' = [gen EXCEPT ![c] = @ + 1] /\ UNCHANGED cache

Noticed(c) == returned' = {x \in returned : x[1] # c}

Begin(c, d) ==
  /\ Uses(c, "begin") /\ Alive(d) /\ body[d].access # {}
  /\ Len(dstack[c]) < Len(Base[c]) + MaxStack
  /\ BumpCETimeStamp(c)
  /\ dstack' = [dstack EXCEPT ![c] = Append(@, d)]
  /\ Noticed(c)
  /\ UNCHANGED <<body, birth, srList, saver, snaps, program>>

End(c) ==
  /\ Runs(c) /\ Len(dstack[c]) > Len(Base[c])
  /\ BumpCETimeStamp(c)
  /\ dstack' = [dstack EXCEPT ![c] = SubSeq(@, 1, Len(@) - 1)]
  /\ Noticed(c)
  /\ UNCHANGED <<body, birth, srList, saver, snaps, program>>

\* A dictionary as the function it stands for.
Contents(d) ==
  [n \in Name |-> LET at == IF Alive(d) THEN {i \in Slots(body[d]) : body[d].table[i].key = n} ELSE {}
                 IN IF at = {} THEN NIL ELSE body[d].table[CHOOSE i \in at : TRUE].value]
Snapshot ==
  [contents |-> [d \in Dict |-> IF d \in Shared THEN [n \in Name |-> NIL] ELSE Contents(d)],
   access   |-> [d \in Dict |-> IF d \in Shared \/ ~Alive(d) THEN {"r", "w"} ELSE body[d].access]]

Save(c) ==
  /\ Uses(c, "save") /\ level < program[c].levels
  /\ srList' = Append(srList, [keys |-> <<>>, values |-> <<>>, dbs |-> <<>>])
  /\ saver' = c /\ snaps' = Append(snaps, Snapshot)
  /\ UNCHANGED <<body, birth, cache, dstack, gen, returned, program>>

\* The names in a body.
Holds(b, n) == b # NIL /\ n \in KeysOf(b)

\* CheckAllStacks refuses if a dictionary on the stack would go.
Restore(c, k) ==
  LET h == RstrToLevel(k) IN
  /\ Runs(c) /\ k < level
  /\ \A d \in OnStack(c) : birth[d] <= k
  /\ Becomes(h)
  /\ birth' = [d \in Dict |-> IF h.body[d] = NIL THEN NIL ELSE birth[d]]
  /\ saver' = IF k = 0 THEN NIL ELSE saver
  /\ snaps' = SubSeq(snaps, 1, k)
  /\ returned' = returned \cup
       {<<c, n>> : n \in {m \in Name :
                            \E d \in Dict : Holds(h.body[d], m) /\ ~Holds(body[d], m)}}
  /\ UNCHANGED <<dstack, gen, program>>

-----------------------------------------------------------------------------
Initial == Shared \cup UNION {{Base[c][i] : i \in DOMAIN Base[c]} : c \in Context}

Init ==
  /\ srList = <<>>
  /\ body = [d \in Dict |-> IF d \in Initial THEN NewBody(d) ELSE NIL]
  /\ birth = [d \in Dict |-> IF d \in Initial THEN 0 ELSE NIL]
  /\ cache = [n \in Name |-> [loc |-> NIL, dict |-> NIL, ts |-> NIL, vec |-> {}]]
  /\ dstack = Base
  /\ gen = [c \in Context |-> 1]
  /\ saver = NIL
  /\ returned = {} /\ snaps = <<>>
  /\ program \in Programs

Operator(c) ==
  \/ \E n \in program[c].names, v \in program[c].values : Def(c, n, v) \/ Store(c, n, v)
  \/ \E n \in program[c].names : Load(c, n)
  \/ \E d \in program[c].dicts, n \in program[c].names :
       UnDef(c, d, n) \/ \E v \in program[c].values : DictPut(c, d, n, v)
  \/ \E d \in program[c].dicts, a \in {{"r"}, {}} : SetDictAccess(c, d, a)
  \/ \E d \in program[c].dicts : DictP(c, d) \/ Begin(c, d)
  \/ End(c)
  \/ Save(c)
  \/ \E k \in 0 .. MaxLevel - 1 : Restore(c, k)

Next == \E c \in Context : Operator(c)

Spec == Init /\ [][Next]_vars

-----------------------------------------------------------------------------
(* Properties.                                                              *)

TypeOK ==
  /\ \A d \in Dict :
       body[d] # NIL =>
         /\ body[d].curlength \in 0 .. MaxLen[d] /\ body[d].curmax \in 1 .. MaxLen[d]
         /\ body[d].access \subseteq {"r", "w"} /\ body[d].level \in 0 .. level
         /\ \A i \in Slots(body[d]) :
              LET o == body[d].table[i] IN
              /\ o.key \in Name \cup {NIL} /\ o.value \in Value \cup {NIL}
              /\ {o.klevel, o.vlevel} \subseteq 0 .. level
  /\ \A d \in Dict : birth[d] \in 0 .. level \cup {NIL}
  /\ \A n \in Name : cache[n].dict \in Dict \cup {NIL}
  /\ \A c \in Context : gen[c] \in 1 .. MaxGen /\ dstack[c] \in Seq(Dict)
  /\ level <= MaxLevel /\ saver \in Context \cup {NIL}

(* A table can be searched: some slot is null, curlength counts the keys, and   *)
(* every key is found from its home, whatever was inserted, moved by UnDef,     *)
(* copied to a larger table or undone (SearchDict's CantHappen).               *)
TableSound ==
  /\ TypeOK
  /\ \A d \in Dict : body[d] # NIL =>
       LET b == body[d] IN
       /\ Cardinality({i \in Slots(b) : b.table[i].key # NIL}) = b.curlength
       /\ b.curlength < b.size
       /\ \A i \in Slots(b) : b.table[i].key # NIL => Place(b, b.table[i].key) = i

(* vm.h: if not NIL, kvloc points to some valid binding, in dict.  A binding in  *)
(* a dictionary that was freed, moved or undone is never found in a name.      *)
CacheSound ==
  \A n \in Name : cache[n].dict # NIL =>
    LET e == cache[n] IN
    /\ Alive(e.dict) /\ e.loc \in Slots(body[e.dict])
    /\ body[e.dict].table[e.loc].key = n
    /\ Bit[e.dict] \in e.vec

\* The topmost dictionary that has n as a key.
Topmost(c, n) ==
  LET hits == {i \in DOMAIN dstack[c] : n \in KeysOf(body[dstack[c][i]])}
  IN IF hits = {} THEN NIL ELSE dstack[c][CHOOSE i \in hits : \A j \in hits : j <= i]

(* The cache is sound, and whoever looks a name up finds its topmost binding,   *)
(* through time stamps, bit vectors and bindings cached for others.  A name    *)
(* that a restore gave back to a dictionary is found where it was found         *)
(* meanwhile, since a restore does not bump the time stamp, until its context  *)
(* begins or ends a dictionary.                                                *)
LookupRight ==
  /\ CacheSound
  /\ \A c \in Context, n \in Name :
       Runs(c) /\ <<c, n>> \notin returned => Resolved(Heap, c, n) = Topmost(c, n)

(* What the tables say is what a program was promised: the same dictionaries   *)
(* as functions, where a restore gives back what the save saw.                *)
Abstract == INSTANCE AbstractDictionaries WITH
  contents <- [d \in Dict |-> Contents(d)],
  access   <- [d \in Dict |-> IF Alive(d) THEN body[d].access ELSE {"r", "w"}],
  saves    <- snaps
ImplementsDictionaries == Abstract!ASpec
=============================================================================
