----------------------------- MODULE ContextIds -----------------------------
(***************************************************************************)
(* The table that maps the ids of contexts and spaces to the objects        *)
(* (contextimpl.c 103-254, 588-608; GenericID of publictypes.h).            *)
(*                                                                         *)
(* A GenericID is a 32-bit stamp overlaid with an index and a generation.   *)
(* It is a record here; the free list, which stores a plain integer in the  *)
(* stamp, puts it in the low bits, those of the generation.                 *)
(***************************************************************************)
EXTENDS Integers

CONSTANTS
  Obj,        \* the contexts and spaces
  NIL,
  NIndex,     \* 2 ^ BitsInGenericIndex
  NGen,       \* 2 ^ BitsInGenericGeneration
  InitSize,   \* initCtxTabSize
  MaxIndex,   \* bound: ids in use never need an index above it
  MaxTime     \* bound: gTimestamp does not pass it

ASSUME IdAssumption ==
  /\ NIL \notin Obj
  /\ NIndex \in Nat \ {0} /\ NGen \in Nat \ {0}
  /\ InitSize \in Nat \ {0}
  /\ MaxIndex \in Nat /\ MaxTime \in Nat

VARIABLES
  live,        \* the objects that exist
  id,          \* id[o]: the id field of o's record, or of what memory it left
  ctx,         \* ctx[i]: ctxTab[i].ctx
  timestamp,   \* timestamp[i]: ctxTab[i].timestamp
  nextID, nextFreeID, gTimestamp, ctxTabSize,
  issued       \* history: every id handed out so far

vars == <<live, id, ctx, timestamp, nextID, nextFreeID, gTimestamp, ctxTabSize, issued>>

Index == 0 .. MaxIndex
Entry == 0 .. MaxIndex + 1      \* what nextID may be
GenericID == [index : 0 .. NIndex - 1, generation : 0 .. NGen - 1]
NoID == [index |-> 0, generation |-> 0]

Init ==
  /\ live = {}
  /\ id = [o \in Obj |-> NoID]
  /\ ctx = [i \in Index |-> NIL]
  /\ timestamp = [i \in Index |-> NoID]
  /\ nextID = 1
  /\ nextFreeID = 0
  /\ gTimestamp = 1
  /\ ctxTabSize = InitSize
  /\ issued = {}

\* A plain integer stored through the stamp, and read back.
Stamp(n) == [index |-> 0, generation |-> n % NGen]
Unstamp(t) == t.index * NGen + t.generation

\* The bit fields keep the low bits of what is assigned to them.
MakeID(i) == [index |-> i % NIndex, generation |-> gTimestamp % NGen]

-----------------------------------------------------------------------------
\* Mutant of TakeIndex: the recycled index stays on the free list.
TakeIndexTwice ==
  IF nextFreeID = 0
  THEN /\ nextID' = nextID + 1
       /\ ctxTabSize' = IF nextID >= ctxTabSize THEN 2 * ctxTabSize ELSE ctxTabSize
       /\ UNCHANGED nextFreeID
  ELSE UNCHANGED <<nextFreeID, nextID, ctxTabSize>>

\* NewContextID and NewSpaceID: a recycled index if there is one, else the
\* next one, the table doubling when it is full.
TakeIndex ==
  IF nextFreeID = 0
  THEN /\ nextID' = nextID + 1
       /\ ctxTabSize' = IF nextID >= ctxTabSize THEN 2 * ctxTabSize ELSE ctxTabSize
       /\ UNCHANGED nextFreeID
  ELSE /\ nextFreeID' = Unstamp(timestamp[nextFreeID])
       /\ UNCHANGED <<nextID, ctxTabSize>>

NewID(o) ==
  LET i == IF nextFreeID = 0 THEN nextID ELSE nextFreeID IN
  /\ o \notin live /\ i <= MaxIndex
  /\ live' = live \cup {o}
  /\ TakeIndex
  /\ id' = [id EXCEPT ![o] = MakeID(i)]
  /\ timestamp' = [timestamp EXCEPT ![i] = MakeID(i)]
  /\ ctx' = [ctx EXCEPT ![i] = o]
  /\ issued' = issued \cup {MakeID(i)}
  /\ UNCHANGED gTimestamp

\* Mutants of RecycleID: the clock stands still; the free list is cut.
RecycleSameTime(o) ==
  LET i == id[o].index IN
  /\ o \in live /\ gTimestamp < MaxTime
  /\ ctx' = [ctx EXCEPT ![i] = NIL]
  /\ timestamp' = [timestamp EXCEPT ![i] = Stamp(nextFreeID)]
  /\ nextFreeID' = i
  /\ live' = live \ {o}
  /\ UNCHANGED <<id, gTimestamp, nextID, ctxTabSize, issued>>

RecycleCutsList(o) ==
  LET i == id[o].index IN
  /\ o \in live /\ gTimestamp < MaxTime
  /\ ctx' = [ctx EXCEPT ![i] = NIL]
  /\ nextFreeID' = i
  /\ gTimestamp' = gTimestamp + 1
  /\ live' = live \ {o}
  /\ UNCHANGED <<id, timestamp, nextID, ctxTabSize, issued>>

\* RecycleID, when the object is destroyed.
RecycleID(o) ==
  LET i == id[o].index IN
  /\ o \in live /\ gTimestamp < MaxTime
  /\ ctx' = [ctx EXCEPT ![i] = NIL]
  /\ timestamp' = [timestamp EXCEPT ![i] = Stamp(nextFreeID)]
  /\ nextFreeID' = i
  /\ gTimestamp' = gTimestamp + 1
  /\ live' = live \ {o}
  /\ UNCHANGED <<id, nextID, ctxTabSize, issued>>

Next == \E o \in Obj : NewID(o) \/ RecycleID(o)

Spec == Init /\ [][Next]_vars

-----------------------------------------------------------------------------
\* Mutant of IDToObject: the index alone is looked at.
IDToAnything(t) ==
  IF t.index > nextID \/ t.index > MaxIndex THEN NIL ELSE ctx[t.index]

\* IDToPSContext and IDToPSSpace.
IDToObject(t) ==
  IF t.index > nextID \/ t.index > MaxIndex THEN NIL
  ELSE IF t.generation # timestamp[t.index].generation THEN NIL
  ELSE IF ctx[t.index] = NIL THEN NIL
  ELSE IF id[ctx[t.index]] # t THEN NIL
  ELSE ctx[t.index]

-----------------------------------------------------------------------------
(* Properties.                                                              *)

TypeOK ==
  /\ live \subseteq Obj
  /\ id \in [Obj -> GenericID]
  /\ ctx \in [Index -> Obj \cup {NIL}]
  /\ timestamp \in [Index -> GenericID]
  /\ nextID \in Entry /\ nextID # 0
  /\ nextFreeID \in Index
  /\ gTimestamp \in Nat
  /\ ctxTabSize \in Nat
  /\ issued \subseteq GenericID

(* publictypes.h: the stamp is a unique combined id.  Every live context and  *)
(* space is found under its own id, so no two have the same.                  *)
LiveIdsResolve == \A o \in live : IDToObject(id[o]) = o

(* publictypes.h: the generation is the non-reusable component.  An id whose  *)
(* object was destroyed finds nothing, however often its index is reused:     *)
(* join, detach and the event code hold ids across the end of contexts.       *)
StaleIdsFindNothing ==
  \A t \in issued : (\A o \in live : id[o] # t) => IDToObject(t) = NIL

(* The free list ends, and holds exactly the indices handed out and returned: *)
(* no index is lost, none is handed out twice.                               *)
FreeListSound ==
  LET walk[n \in Index] ==
        IF n = 0 THEN nextFreeID
        ELSE IF walk[n - 1] \in 1 .. MaxIndex
             THEN Unstamp(timestamp[walk[n - 1]]) ELSE walk[n - 1]
      free == {walk[n] : n \in Index} \ {0}
  IN /\ TypeOK
     /\ walk[MaxIndex] = 0
     /\ free = (1 .. nextID - 1) \ {id[o].index : o \in live}

(* publictypes.h calls the generation the non-reusable component: an id is   *)
(* never given to a second object, so an id a client kept cannot come to mean *)
(* another context.                                                         *)
NeverReissued ==
  [][\A o \in Obj : o \in live' \ live => id'[o] \notin issued]_vars
=============================================================================
