---------------------------- MODULE ContextBase ----------------------------
(***************************************************************************)
(* The execution contexts of the PostScript kernel as the scheduler sees    *)
(* them: which context is loaded, which are runnable, what notification is  *)
(* pending for each, and who has exclusive use of a space or of the whole   *)
(* interpreter (contextimpl.c, pscontext.c, saverestore.c).                 *)
(*                                                                         *)
(* Contexts are coroutines: between two calls of PSYield nothing else runs, *)
(* so every operator is atomic up to the PSYield it makes.  What a blocked  *)
(* operator does next is kept in `at'.                                      *)
(***************************************************************************)
EXTENDS Naturals, FiniteSets, Sequences

CONSTANTS
  Context,     \* the contexts of the run; an id is never reused here
  Space,       \* the PostScript spaces (private VMs)
  SpaceOf,     \* SpaceOf[c] is ctx->space
  Lock,        \* the lock objects whose monitor marks an exec stack may hold
  NIL,         \* the null PSContext
  Reason,      \* the NotifyReasons the environment sends
  MaxLevel,    \* MAXlevel, the deepest save level
  MaxFrames,   \* bound on the tracked frames of one context
  Kinds        \* the frames other than monitors the programs use

ASSUME ContextAssumption ==
  /\ SpaceOf \in [Context -> Space]
  /\ NIL \notin Context
  /\ Lock \cap {"stopped", "font", "stroke"} = {}
  /\ Reason \subseteq {"request_yield", "interrupt", "terminate"}
  /\ MaxLevel \in Nat
  /\ MaxFrames \in Nat
  /\ Kinds \subseteq {"stopped", "font", "stroke"}

VARIABLES
  live,        \* contexts that exist and are not yet destroyed
  cur,         \* currentPSContext: the context whose statics are loaded
  running,     \* TRUE inside a coroutine, FALSE inside the scheduler
  runnable,    \* contexts whose scheduler record has wannaRun
  pend,        \* pend[c]: nReason if notified, else "none"
  frames,      \* frames[c]: the marks of c's exec stack that unwinding acts on
  at,          \* at[c]: where c's coroutine is suspended ("ready" = it is not)
  level,       \* level[s]: save level of space s
  sem,         \* sem[s]: its exclusion semaphore
  exclusive,   \* exclusive[s]: the only context allowed to run in s, or NIL
  totalSem,    \* exclusiveContextSemaphore
  totalExcl,   \* exclusivePSContext
  fault        \* what ended the server: "none", "escape" (an exception left
               \* psExecute) or "null" (the scheduler followed a null pointer)

baseVars == <<live, cur, running, runnable, pend, frames, at, level, sem,
              exclusive, totalSem, totalExcl, fault>>

exclVars == <<level, sem, exclusive, totalSem, totalExcl>>

Frame == {"stopped", "font", "stroke"} \cup Lock

BaseInit(initial) ==
  /\ live = initial
  /\ cur = NIL
  /\ running = FALSE
  /\ runnable = initial
  /\ pend = [c \in Context |-> "none"]
  /\ frames = [c \in Context |-> <<>>]
  /\ at = [c \in Context |-> "start"]
  /\ level = [s \in Space |-> 0]
  /\ sem = [s \in Space |-> 0]
  /\ exclusive = [s \in Space |-> NIL]
  /\ totalSem = 0
  /\ totalExcl = NIL
  /\ fault = "none"

-----------------------------------------------------------------------------
(* Notification: NotifyPSContext, CheckForPSNotify.                         *)

\* What is pending after reason r is sent to a context with p pending.
Override(p, r) ==
  IF p = "none" \/ (p # "terminate" /\ r \in {"interrupt", "terminate"})
  THEN r ELSE p

\* The scheduler thread sends a notification and marks the context wannaRun.
Notify(c, r) ==
  /\ fault = "none" /\ ~running /\ c \in live
  /\ pend' = [pend EXCEPT ![c] = Override(@, r)]
  /\ runnable' = runnable \cup {c}
  /\ UNCHANGED <<live, cur, running, frames, at, exclVars, fault>>

-----------------------------------------------------------------------------
(* The scheduler, and the switch SwitchPSContext may refuse.                *)

ExclusivePSContext(s) == IF totalExcl # NIL THEN totalExcl ELSE exclusive[s]

MaySwitch(c) == ExclusivePSContext(SpaceOf[c]) \in {NIL, c}

\* Mutant of Schedule: the answer of SwitchPSContext is ignored.
ScheduleAnyway(c) ==
  /\ fault = "none" /\ ~running /\ c \in runnable
  /\ cur' = c
  /\ running' = TRUE
  /\ runnable' = runnable \ {c}
  /\ UNCHANGED <<live, pend, frames, at, exclVars, fault>>

\* NSLoadPS: a refused switch resumes whatever context is still loaded.
Schedule(c) ==
  /\ fault = "none" /\ ~running /\ c \in runnable
  /\ LET chosen == IF MaySwitch(c) THEN c ELSE cur
     IN IF chosen = NIL
        THEN fault' = "null" /\ UNCHANGED <<cur, running, runnable>>
        ELSE /\ cur' = chosen
             /\ running' = TRUE
             /\ runnable' = runnable \ {chosen}
             /\ UNCHANGED fault
  /\ UNCHANGED <<live, pend, frames, at, exclVars>>

Top(c) == frames[c][Len(frames[c])]
TopIs(c, f) == frames[c] # <<>> /\ Top(c) = f

\* Control is in c's coroutine, at the given point.
At(c, point) == fault = "none" /\ running /\ cur = c /\ at[c] = point

\* c is between two operators of the user's program (the circle font's
\* BuildChar, which runs under a stroke frame, executes no user code).
Ready(c) == At(c, "ready") /\ ~TopIs(c, "stroke")

\* PSYield of the running context c: where it resumes, and whom it woke.
Yield(c, point, woken, again) ==
  /\ at' = [at EXCEPT ![c] = point]
  /\ running' = FALSE
  /\ runnable' = IF again THEN runnable \cup woken \cup {c}
                          ELSE (runnable \cup woken) \ {c}
  /\ UNCHANGED <<live, cur, fault>>

\* c goes on in its coroutine, having woken some contexts.
Proceed(c, woken) ==
  /\ at' = [at EXCEPT ![c] = "ready"]
  /\ runnable' = runnable \cup woken
  /\ UNCHANGED <<live, cur, running, fault>>

-----------------------------------------------------------------------------
(* Exclusion: the semaphores of save, BuildChar and the stroke code.        *)

\* SpaceExclusionSemaphore(count), called by c; count is given as the result.
SetSem(c, n) ==
  /\ sem' = [sem EXCEPT ![SpaceOf[c]] = n]
  /\ exclusive' = [exclusive EXCEPT ![SpaceOf[c]] = IF n = 0 THEN NIL ELSE c]

\* TotalExclusionSemaphore(count).
SetTotal(c, n) ==
  /\ totalSem' = n
  /\ totalExcl' = IF n = 0 THEN NIL ELSE c

Count(fs, f) == Cardinality({i \in 1 .. Len(fs) : fs[i] = f})

\* c drops the frames fs of its stack: the font and stroke frames give back
\* their semaphores, and rs save levels are restored with them.
DropExclusion(c, fs, rs) ==
  LET given == Count(fs, "font") + Count(fs, "stroke") + rs
      total == Count(fs, "stroke") IN
  /\ IF given > 0 THEN SetSem(c, sem[SpaceOf[c]] - given)
                  ELSE UNCHANGED <<sem, exclusive>>
  /\ IF total > 0 THEN SetTotal(c, totalSem - total)
                  ELSE UNCHANGED <<totalSem, totalExcl>>

\* Mutant of Save: MAXlevel itself may be exceeded.
SaveOffByOne(c) ==
  LET s == SpaceOf[c] IN
  /\ Ready(c) /\ level[s] <= MaxLevel
  /\ level' = [level EXCEPT ![s] = @ + 1]
  /\ SetSem(c, sem[s] + 1)
  /\ UNCHANGED <<live, cur, running, runnable, pend, frames, at, totalSem,
                 totalExcl, fault>>

Save(c) ==
  LET s == SpaceOf[c] IN
  /\ Ready(c) /\ level[s] < MaxLevel
  /\ level' = [level EXCEPT ![s] = @ + 1]
  /\ SetSem(c, sem[s] + 1)
  /\ UNCHANGED <<live, cur, running, runnable, pend, frames, at, totalSem,
                 totalExcl, fault>>

\* RstrToLevel(n): the semaphore is moved by n - level.
Restore(c) ==
  LET s == SpaceOf[c] IN
  /\ Ready(c)
  /\ \E n \in 0 .. MaxLevel :
       /\ n < level[s]
       /\ level' = [level EXCEPT ![s] = n]
       /\ SetSem(c, sem[s] - (level[s] - n))
  /\ UNCHANGED <<live, cur, running, runnable, pend, frames, at, totalSem,
                 totalExcl, fault>>

Push(c, f) == frames' = [frames EXCEPT ![c] = Append(@, f)]
Pop(c) == frames' = [frames EXCEPT ![c] = SubSeq(@, 1, Len(@) - 1)]

\* stopped: a frame that ends the unwinding of stop.
EnterStopped(c) ==
  /\ Ready(c) /\ "stopped" \in Kinds /\ Len(frames[c]) < MaxFrames
  /\ Push(c, "stopped")
  /\ UNCHANGED <<live, cur, running, runnable, pend, at, exclVars, fault>>

\* A BuildChar procedure runs in a nested psExecute under the font semaphore.
EnterFont(c) ==
  /\ Ready(c) /\ "font" \in Kinds /\ Len(frames[c]) < MaxFrames
  /\ Push(c, "font")
  /\ SetSem(c, sem[SpaceOf[c]] + 1)
  /\ UNCHANGED <<live, cur, running, runnable, pend, at, level, totalSem,
                 totalExcl, fault>>

\* A stroke that shows a character of the circle font excludes every context;
\* the show itself runs BuildChar, so this frame counts on both semaphores.
EnterStroke(c) ==
  /\ Ready(c) /\ "stroke" \in Kinds /\ Len(frames[c]) < MaxFrames
  /\ Push(c, "stroke")
  /\ SetTotal(c, totalSem + 1)
  /\ SetSem(c, sem[SpaceOf[c]] + 1)
  /\ UNCHANGED <<live, cur, running, runnable, pend, at, level, fault>>

\* The frame on top, not a monitor's, is left normally.
LeaveFrame(c) ==
  /\ At(c, "ready") /\ frames[c] # <<>> /\ Top(c) \notin Lock
  /\ Pop(c)
  /\ DropExclusion(c, <<Top(c)>>, 0)
  /\ UNCHANGED <<live, cur, running, runnable, pend, at, level, fault>>

\* A time slice that ran out, or the yield operator: c stays runnable.
YieldSlice(c) ==
  /\ At(c, "ready")
  /\ Yield(c, "slice", {}, TRUE)
  /\ UNCHANGED <<pend, frames, exclVars>>

-----------------------------------------------------------------------------
(* Unwinding: stop, and the destruction of a context.                       *)

\* The frames above the innermost "stopped" (all of them if there is none).
Depth(fs) == LET stops == {i \in 1 .. Len(fs) : fs[i] = "stopped"}
             IN IF stops = {} THEN 0
                ELSE CHOOSE i \in stops : \A j \in stops : j <= i

Stopped(fs) == Depth(fs) # 0
Kept(fs) == SubSeq(fs, 1, IF Stopped(fs) THEN Depth(fs) - 1 ELSE 0)
Unwound(fs) == SubSeq(fs, Depth(fs) + 1, Len(fs))

\* DoQuit and the DestroyPSContext the scheduler makes on return: the exec
\* stack is cleared, every save level of the space restored.
DestroyBase(c, woken) ==
  LET s == SpaceOf[c] IN
  /\ live' = live \ {c}
  /\ cur' = NIL
  /\ running' = FALSE
  /\ runnable' = (runnable \cup woken) \ {c}
  /\ pend' = [pend EXCEPT ![c] = "none"]
  /\ frames' = [frames EXCEPT ![c] = <<>>]
  /\ at' = [at EXCEPT ![c] = "dead"]
  /\ DropExclusion(c, frames[c], level[s])
  /\ level' = [level EXCEPT ![s] = 0]
  /\ UNCHANGED fault

\* An exception escapes psExecute; nothing after it is modelled.
Escape ==
  /\ fault' = "escape"
  /\ UNCHANGED <<live, cur, running, runnable, pend, frames, at, exclVars>>

=============================================================================
