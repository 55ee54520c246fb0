------------------------------ MODULE ForkJoin ------------------------------
(***************************************************************************)
(* The life of a context: fork, join, detach, quit, the end of its startup  *)
(* procedure, and termination from outside (contextimpl.c 283-366, 761-846,  *)
(* 886-987, 1045).  Ids are not reused here: ContextIds shows that the id    *)
(* of a dead context is not taken for a live one.                           *)
(***************************************************************************)
EXTENDS ContextBase

CONSTANT Instances   \* [initial, forked, ops]: the contexts the listener has
                     \* created, those they may fork, and which of "save",
                     \* "font" and the Reasons the run has

\* Interrupts, which only a kernel client could send, are left to Monitors.
ASSUME ForkJoinAssumption ==
  /\ \A i \in Instances : i.initial \cup i.forked \subseteq Context
  /\ Reason \subseteq {"request_yield", "terminate"}

VARIABLES
  used,          \* contexts ever created
  doomed,        \* forked contexts whose creation failed half-way
  detached,      \* ctx->detached
  readyForJoin,  \* returned from the startup procedure, neither detached nor
                 \* joined yet
  joined,        \* joined, or to quit without waiting for a join
  joinerWaiting, \* some context is waiting to join this one
  joinable,      \* joinable[s]: waiters of the condition space->joinable
  linked,        \* contexts whose waitee is not NIL
  target,        \* target[c]: the context c's suspended join waits for
  spaces,        \* the spaces that exist
  instance       \* which of the Instances this is; it never changes

joinVars == <<used, doomed, detached, readyForJoin, joined, joinerWaiting,
              joinable, linked, target, spaces, instance>>
vars == <<baseVars, joinVars>>

Point == {"start", "slice", "ready", "join", "done", "dead"}

Init ==
  /\ instance \in Instances
  /\ BaseInit(instance.initial)
  /\ used = instance.initial
  /\ doomed = {}
  /\ detached = {}
  /\ readyForJoin = {}
  /\ joined = {}
  /\ joinerWaiting = {}
  /\ joinable = [s \in Space |-> {}]
  /\ linked = {}
  /\ target = [c \in Context |-> NIL]
  /\ spaces = {SpaceOf[c] : c \in instance.initial}

-----------------------------------------------------------------------------
(* The joinable condition of a space.                                       *)

\* Mutant: the handler forgets to.
StayLinked(c) == joinable

\* c takes itself out of the list PSYield left it in.
BreakLooseCV(c) ==
  IF at[c] = "join" /\ c \in linked
  THEN [joinable EXCEPT ![SpaceOf[c]] = @ \ {c}] ELSE joinable

\* InnerNotify(&d->space->joinable), made only if d has a joiner waiting; j is
\* the condition's current value.  Everyone waiting in the space wakes.
NotifiedBy(d, j) == IF d \in joinerWaiting THEN j[SpaceOf[d]] ELSE {}

InnerNotify(d, j) ==
  /\ joinable' = IF d \in joinerWaiting THEN [j EXCEPT ![SpaceOf[d]] = {}] ELSE j
  /\ linked' = linked \ NotifiedBy(d, j)

-----------------------------------------------------------------------------
(* fork.                                                                    *)

MayFork(c, d) == /\ Ready(c) /\ level[SpaceOf[c]] = 0
                 /\ d \in instance.forked \ used /\ SpaceOf[d] = SpaceOf[c]

\* CreateContext and the copy of the stacks; c stays loaded.
PSFork(c) ==
  /\ \E d \in Context :
       /\ MayFork(c, d)
       /\ live' = live \cup {d}
       /\ used' = used \cup {d}
       /\ runnable' = runnable \cup {d}
  /\ UNCHANGED <<cur, running, pend, frames, at, exclVars, fault, doomed,
                 detached, readyForJoin, joined, joinerWaiting, joinable,
                 linked, target, spaces, instance>>

\* The copy fails: the new context, loaded when it is notified, finds the
\* abort pending as soon as it runs.
ForkFails(c) ==
  /\ \E d \in Context :
       /\ MayFork(c, d)
       /\ live' = live \cup {d}
       /\ used' = used \cup {d}
       /\ runnable' = runnable \cup {d}
       /\ doomed' = doomed \cup {d}
       /\ pend' = [pend EXCEPT ![d] = "terminate"]
  /\ UNCHANGED <<cur, running, frames, at, exclVars, fault, detached,
                 readyForJoin, joined, joinerWaiting, joinable, linked, target,
                 spaces, instance>>

-----------------------------------------------------------------------------
(* join and detach.                                                         *)

JoinInvalid(c, d) ==
  \/ d \notin live \/ d = c
  \/ d \in detached \cup joined
  \/ SpaceOf[d] # SpaceOf[c]
  \/ level[SpaceOf[c]] # 0

\* One turn of PSJoin's loop ends in invalidcontext, in the join, or in
\* WaitOnJoinable.  j is the joinable condition's value, l the linked contexts.
JoinRefused(c, d, j, l) ==
  /\ JoinInvalid(c, d)
  /\ joinable' = j
  /\ linked' = l
  /\ target' = [target EXCEPT ![c] = NIL]
  /\ Proceed(c, {})
  /\ UNCHANGED <<readyForJoin, joined, joinerWaiting>>

\* Mutants of JoinDone: the flag is left set, the joined context left asleep.
JoinKeepsReady(c, d, j) ==
  /\ ~ JoinInvalid(c, d) /\ d \in readyForJoin
  /\ joined' = joined \cup {d}
  /\ InnerNotify(d, j)
  /\ target' = [target EXCEPT ![c] = NIL]
  /\ Proceed(c, {d} \cup NotifiedBy(d, j))
  /\ UNCHANGED <<readyForJoin, joinerWaiting>>

JoinLeavesAsleep(c, d, j) ==
  /\ ~ JoinInvalid(c, d) /\ d \in readyForJoin
  /\ readyForJoin' = readyForJoin \ {d}
  /\ joined' = joined \cup {d}
  /\ InnerNotify(d, j)
  /\ target' = [target EXCEPT ![c] = NIL]
  /\ Proceed(c, NotifiedBy(d, j))
  /\ UNCHANGED joinerWaiting

JoinDone(c, d, j) ==
  /\ ~ JoinInvalid(c, d) /\ d \in readyForJoin
  /\ readyForJoin' = readyForJoin \ {d}
  /\ joined' = joined \cup {d}
  /\ InnerNotify(d, j)
  /\ target' = [target EXCEPT ![c] = NIL]
  /\ Proceed(c, {d} \cup NotifiedBy(d, j))
  /\ UNCHANGED joinerWaiting

WaitOnJoinable(c, d, j, l) ==
  /\ ~ JoinInvalid(c, d) /\ d \notin readyForJoin
  /\ joinable' = [j EXCEPT ![SpaceOf[c]] = @ \cup {c}]
  /\ linked' = l \cup {c}
  /\ target' = [target EXCEPT ![c] = d]
  /\ joinerWaiting' = joinerWaiting \cup {d}
  /\ Yield(c, "join", {}, FALSE)
  /\ UNCHANGED <<readyForJoin, joined>>

TryJoin(c, d, j, l) ==
  JoinRefused(c, d, j, l) \/ JoinDone(c, d, j) \/ WaitOnJoinable(c, d, j, l)

PSJoin(c) ==
  /\ Ready(c)
  /\ \E d \in used : TryJoin(c, d, joinable, linked)
  /\ UNCHANGED <<pend, frames, exclVars, used, doomed, detached, spaces, instance>>

PSDetach(c) ==
  /\ Ready(c)
  /\ \E d \in live \ (detached \cup joined) :
       /\ detached' = detached \cup {d}
       /\ InnerNotify(d, joinable)
       /\ Proceed(c, (readyForJoin \cap {d}) \cup NotifiedBy(d, joinable))
  /\ UNCHANGED <<pend, frames, exclVars, used, doomed, readyForJoin, joined,
                 joinerWaiting, target, spaces, instance>>

-----------------------------------------------------------------------------
(* The end of a context.                                                    *)

\* Mutants of Destroy: DoQuit wakes no joiner (as when a context yields with
\* yield_terminate by itself); the dead context is still ready for join.
DestroySilently(c, j) ==
  /\ joinable' = j
  /\ linked' = linked
  /\ DestroyBase(c, {})
  /\ target' = [target EXCEPT ![c] = NIL]
  /\ readyForJoin' = readyForJoin \ {c}
  /\ spaces' = IF \E d \in live \ {c} : SpaceOf[d] = SpaceOf[c]
               THEN spaces ELSE spaces \ {SpaceOf[c]}
  /\ UNCHANGED <<used, doomed, detached, joinerWaiting, instance>>

DestroyKeepsReady(c, j) ==
  /\ InnerNotify(c, j)
  /\ DestroyBase(c, NotifiedBy(c, j))
  /\ target' = [target EXCEPT ![c] = NIL]
  /\ spaces' = IF \E d \in live \ {c} : SpaceOf[d] = SpaceOf[c]
               THEN spaces ELSE spaces \ {SpaceOf[c]}
  /\ UNCHANGED <<used, doomed, detached, joinerWaiting, readyForJoin, instance>>

\* DoQuit, and what the scheduler does when control returns to it:
\* DestroyPSContext and a DestroyPSSpace that fails while contexts are left.
\* j is the joinable condition's value.
Destroy(c, j) ==
  /\ InnerNotify(c, j)
  /\ DestroyBase(c, NotifiedBy(c, j))
  /\ target' = [target EXCEPT ![c] = NIL]
  /\ readyForJoin' = readyForJoin \ {c}
  /\ spaces' = IF \E d \in live \ {c} : SpaceOf[d] = SpaceOf[c]
               THEN spaces ELSE spaces \ {SpaceOf[c]}
  /\ UNCHANGED <<used, doomed, detached, joinerWaiting, instance>>

\* quit, or a stop: the context ends with an error, joined by nobody.
Quit(c) == Ready(c) /\ Destroy(c, joinable) /\ UNCHANGED joined

\* PSCoProc's loop before its PSYield: an unrestored save makes it quit.
Park(c) ==
  IF level[SpaceOf[c]] > 0
  THEN joined' = joined \cup {c} /\ Destroy(c, joinable)
  ELSE /\ readyForJoin' = readyForJoin \cup {c}
       /\ InnerNotify(c, joinable)
       /\ Yield(c, "done", NotifiedBy(c, joinable), FALSE)
       /\ UNCHANGED <<pend, frames, exclVars, used, doomed, detached, joined,
                      joinerWaiting, target, spaces, instance>>

\* The startup procedure returns.
End(c) ==
  /\ Ready(c) /\ frames[c] = <<>>
  /\ IF c \in detached THEN Destroy(c, joinable) /\ UNCHANGED joined
                       ELSE Park(c)

\* PSYield returns to that loop.  A terminate makes it quit; CheckForPSNotify
\* ignored it, as it ignores every reason in a context that is ready for join.
AfterPark(c) ==
  /\ At(c, "done")
  /\ IF pend[c] = "terminate" THEN joined' = joined \cup {c} /\ Destroy(c, joinable)
     ELSE IF c \in detached \cup joined THEN Destroy(c, joinable) /\ UNCHANGED joined
     ELSE Park(c)

\* CheckForPSNotify raises in a suspended operator; a fork that failed is
\* stopped by the abort that is pending when it starts.
Raised(c) ==
  /\ \/ At(c, "slice") /\ pend[c] = "terminate"
     \/ At(c, "join") /\ pend[c] = "terminate"
     \/ At(c, "start") /\ c \in doomed
  /\ Destroy(c, BreakLooseCV(c))
  /\ UNCHANGED joined

Resume(c) ==
  \/ /\ At(c, "start") /\ c \notin doomed
     /\ Proceed(c, {})
     /\ UNCHANGED <<pend, frames, exclVars, joinVars>>
  \/ /\ At(c, "slice") /\ pend[c] # "terminate"
     /\ Proceed(c, {})
     /\ pend' = [pend EXCEPT ![c] = "none"]
     /\ UNCHANGED <<frames, exclVars, joinVars>>
  \/ /\ At(c, "join") /\ pend[c] # "terminate"
     /\ TryJoin(c, target[c], BreakLooseCV(c), linked \ {c})
     /\ pend' = [pend EXCEPT ![c] = "none"]
     /\ UNCHANGED <<frames, exclVars, used, doomed, detached, spaces, instance>>

\* TerminatePSSpace: every context of a space is told to terminate.
TerminatePSSpace(s) ==
  /\ fault = "none" /\ ~running /\ "terminate" \in Reason \cap instance.ops
  /\ LET members == {c \in live : SpaceOf[c] = s} IN
     /\ pend' = [c \in Context |-> IF c \in members THEN "terminate" ELSE pend[c]]
     /\ runnable' = runnable \cup members
  /\ UNCHANGED <<live, cur, running, frames, at, exclVars, fault, joinVars>>

-----------------------------------------------------------------------------
BaseOp(c) ==
  /\ \/ "save" \in instance.ops /\ Save(c)
     \/ Restore(c)
     \/ "font" \in instance.ops /\ EnterFont(c)
     \/ LeaveFrame(c)
     \/ YieldSlice(c)
  /\ UNCHANGED joinVars

Operator(c) ==
  \/ BaseOp(c)
  \/ PSFork(c)
  \/ ForkFails(c)
  \/ PSJoin(c)
  \/ PSDetach(c)
  \/ Quit(c)
  \/ End(c)

Continue(c) == Resume(c) \/ Raised(c) \/ AfterPark(c)

Dispatch(c) == Schedule(c) /\ UNCHANGED joinVars

Signal(c) ==
  /\ \E r \in Reason \cap instance.ops : Notify(c, r)
  /\ UNCHANGED joinVars

Next ==
  \/ \E c \in Context : Dispatch(c) \/ Signal(c) \/ Continue(c) \/ Operator(c)
  \/ \E s \in Space : TerminatePSSpace(s)

Spec == Init /\ [][Next]_vars

\* A round-robin scheduler, coroutines that go on, time slices that end.
Fairness ==
  \A c \in Context :
    /\ SF_vars(Dispatch(c))
    /\ WF_vars(Continue(c))
    /\ WF_vars(YieldSlice(c) /\ UNCHANGED joinVars)

FairSpec == Spec /\ Fairness

-----------------------------------------------------------------------------
(* Properties.                                                              *)

TypeOK ==
  /\ live \subseteq used /\ used \subseteq Context /\ doomed \subseteq used
  /\ cur \in live \cup {NIL}
  /\ runnable \subseteq live
  /\ pend \in [Context -> {"none", "request_yield", "terminate"}]
  /\ frames \in [Context -> Seq(Frame)]
  /\ at \in [Context -> Point]
  /\ level \in [Space -> 0 .. MaxLevel]
  /\ readyForJoin \subseteq live
  /\ detached \cup joined \cup joinerWaiting \cup linked \subseteq used
  /\ joinable \in [Space -> SUBSET Context]
  /\ target \in [Context -> Context \cup {NIL}]
  /\ spaces \subseteq Space

Executing(c) == running /\ cur = c

(* The operand stack a joiner copies is that of a live context that has       *)
(* stopped using it, and nobody has taken it before.                         *)
ResultsStable ==
  \A d \in readyForJoin : d \in live /\ at[d] = "done" /\ d \notin joined

(* The waiters of a space's joinable condition are live contexts of that      *)
(* space suspended in join: DestroyPSContext unlinks nothing, and the          *)
(* condition goes with its space (NSDestroyPS, DestroyPSSpace).               *)
(* Results are stable, too.                                                   *)
JoinableSound ==
  /\ TypeOK
  /\ ResultsStable
  /\ \A s \in Space : \A c \in joinable[s] :
       /\ c \in live /\ SpaceOf[c] = s /\ s \in spaces
       /\ at[c] = "join" /\ c \in linked

(* No join sleeps through the end of its target: a joiner that is not about   *)
(* to look again is linked, and its target can still be joined or can still   *)
(* tell it otherwise.  Nor does a context that has returned from its startup   *)
(* procedure sleep for ever: it can be joined, and one that was joined or      *)
(* detached meanwhile is on its way out.                                      *)
Asleep(c, point) == at[c] = point /\ c \notin runnable /\ ~Executing(c)

NoOrphanJoiner ==
  \A c \in live :
    /\ Asleep(c, "join") =>
         LET d == target[c] IN
         /\ c \in joinable[SpaceOf[c]]
         /\ d \in live /\ d \in joinerWaiting
         /\ d \notin detached \cup joined \cup readyForJoin
    /\ Asleep(c, "done") => c \in readyForJoin /\ c \notin detached \cup joined

(* A context is joined once: after that it is never ready for join again, and *)
(* a detached context is never joined.                                        *)
JoinedOnce ==
  [][/\ joined \cap readyForJoin' = {}
     /\ \A d \in joined' \ joined :
          d \in detached => pend[d] = "terminate" \/ d \notin live']_vars

(* A join whose target ends, in whatever way, returns, and a context that was *)
(* joined goes away, so that its id and its stacks do: unless some context     *)
(* keeps the space to itself, or comes back to that again and again.           *)
Shared(s) == <>[](sem[s] = 0 /\ fault = "none")

Awaited(c) == (at[c] = "join" /\ target[c] \notin live) \/ c \in joined \cap live

JoinReturns == \A c \in Context : Shared(SpaceOf[c]) => (Awaited(c) ~> ~ Awaited(c))
=============================================================================
