----------------------- MODULE AbstractDictionaries -----------------------
(***************************************************************************)
(* What dictionaries, the dictionary stack and save promise a program: a     *)
(* dictionary is a function from names, a name means its topmost binding on   *)
(* the stack, and a restore gives every private dictionary back what it was   *)
(* when the save was made.  No tables, no name cache, no undo records.        *)
(***************************************************************************)
EXTENDS Naturals, Sequences, FiniteSets

CONSTANTS
  Context, Name, Value, NIL,
  Dict,          \* what may be a dictionary
  Shared,        \* the dictionaries in shared VM
  MaxLen,        \* how many keys each can have
  Base,          \* Base[c]: the permanent part of c's dictionary stack
  MaxLevel       \* MAXlevel

VARIABLES
  contents,      \* contents[d][n], or NIL
  access,        \* a subset of {"r", "w"}
  birth,         \* the level a dictionary was made at, NIL before
  dstack,        \* dstack[c]
  saves,         \* what the saves in force remember
  saver,         \* the context that made them
  returned       \* names a restore gave back that their context may not notice

absVars == <<contents, access, birth, dstack, saves, saver, returned>>

Level == Len(saves)
InitialDicts == Shared \cup UNION {{Base[c][i] : i \in DOMAIN Base[c]} : c \in Context}

AInit ==
  /\ contents = [d \in Dict |-> [n \in Name |-> NIL]]
  /\ access = [d \in Dict |-> {"r", "w"}]
  /\ birth = [d \in Dict |-> IF d \in InitialDicts THEN 0 ELSE NIL]
  /\ dstack = Base
  /\ saves = <<>>
  /\ saver = NIL
  /\ returned = {}

Runs(c) == saves = <<>> \/ saver = c
Alive(d) == birth[d] # NIL
OnStack(c) == {dstack[c][i] : i \in DOMAIN dstack[c]}

\* Where c finds n, from the top.
Holders(c, n) == {i \in DOMAIN dstack[c] : contents[dstack[c][i]][n] # NIL}
Topmost(c, n) ==
  IF Holders(c, n) = {} THEN NIL
  ELSE dstack[c][CHOOSE i \in Holders(c, n) : \A j \in Holders(c, n) : j <= i]

Assign(d, n, v) ==
  /\ Alive(d) /\ "w" \in access[d]
  /\ contents[d][n] # NIL \/
       Cardinality({m \in Name : contents[d][m] # NIL}) < MaxLen[d]
  /\ UNCHANGED <<birth, dstack, saves, saver, returned, access>>
  /\ contents' = [contents EXCEPT ![d][n] = v]

APut(c, d, n, v) == Runs(c) /\ Assign(d, n, v)

\* store changes the topmost binding, or makes one in the current dictionary.
AStore(c, n, v) ==
  /\ Runs(c)
  /\ \/ Topmost(c, n) # NIL /\ Assign(Topmost(c, n), n, v)
     \/ Topmost(c, n) = NIL /\ Assign(dstack[c][Len(dstack[c])], n, v)
     \/ /\ <<c, n>> \in returned
        /\ \E i \in Holders(c, n) : Assign(dstack[c][i], n, v)

AUnDef(c, d, n) ==
  /\ Runs(c) /\ Alive(d) /\ "w" \in access[d]
  /\ UNCHANGED <<birth, dstack, saves, saver, returned, access>>
  /\ contents' = [contents EXCEPT ![d][n] = NIL]

ASetAccess(c, d, a) ==
  /\ Runs(c) /\ Alive(d) /\ "w" \in access[d]
  /\ UNCHANGED <<birth, dstack, saves, saver, returned>>
  /\ access' = [access EXCEPT ![d] = @ \cap a]
  /\ UNCHANGED contents

ADict(c, d) ==
  /\ Runs(c) /\ ~Alive(d)
  /\ birth' = [birth EXCEPT ![d] = Level]
  /\ contents' = [contents EXCEPT ![d] = [n \in Name |-> NIL]]
  /\ access' = [access EXCEPT ![d] = {"r", "w"}]
  /\ UNCHANGED <<dstack, saves, saver, returned>>

Noticed(c) == {x \in returned : x[1] # c}

ABegin(c, d) ==
  /\ Runs(c) /\ Alive(d) /\ access[d] # {}
  /\ dstack' = [dstack EXCEPT ![c] = Append(@, d)]
  /\ returned' = Noticed(c)
  /\ UNCHANGED <<contents, access, birth, saves, saver>>

AEnd(c) ==
  /\ Runs(c) /\ Len(dstack[c]) > Len(Base[c])
  /\ dstack' = [dstack EXCEPT ![c] = SubSeq(@, 1, Len(@) - 1)]
  /\ returned' = Noticed(c)
  /\ UNCHANGED <<contents, access, birth, saves, saver>>

ASave(c) ==
  /\ Runs(c) /\ Level < MaxLevel
  /\ saves' = Append(saves,
       [contents |-> [d \in Dict |-> IF d \in Shared THEN [n \in Name |-> NIL] ELSE contents[d]],
        access   |-> [d \in Dict |-> IF d \in Shared THEN {"r", "w"} ELSE access[d]]])
  /\ saver' = c
  /\ UNCHANGED <<contents, access, birth, dstack, returned>>

ARestore(c, k) ==
  LET old == saves[k + 1]
      gone(d) == birth[d] # NIL /\ birth[d] > k
      after == [d \in Dict |-> IF d \in Shared THEN contents[d]
                               ELSE IF gone(d) THEN [n \in Name |-> NIL]
                               ELSE old.contents[d]]
  IN /\ Runs(c) /\ k < Level
     /\ \A d \in OnStack(c) : birth[d] <= k
     /\ contents' = after
     /\ access' = [d \in Dict |-> IF d \in Shared THEN access[d]
                                  ELSE IF gone(d) THEN {"r", "w"}
                                  ELSE old.access[d]]
     /\ birth' = [d \in Dict |-> IF gone(d) THEN NIL ELSE birth[d]]
     /\ saves' = SubSeq(saves, 1, k)
     /\ saver' = IF k = 0 THEN NIL ELSE saver
     /\ returned' = returned \cup
          {<<c, n>> : n \in {m \in Name : \E d \in Dict :
                               contents[d][m] = NIL /\ after[d][m] # NIL}}
     /\ UNCHANGED dstack

ANext ==
  \E c \in Context :
    \/ AEnd(c)
    \/ ASave(c)
    \/ \E k \in 0 .. MaxLevel - 1 : ARestore(c, k)
    \/ \E d \in Dict : ADict(c, d) \/ ABegin(c, d)
    \/ \E d \in Dict, n \in Name : AUnDef(c, d, n) \/ \E v \in Value : APut(c, d, n, v)
    \/ \E n \in Name, v \in Value : AStore(c, n, v)
    \/ \E d \in Dict, a \in SUBSET {"r", "w"} : ASetAccess(c, d, a)

ASpec == AInit /\ [][ANext]_absVars
=============================================================================
