------------------------------ MODULE Monitors ------------------------------
(***************************************************************************)
(* Locks, monitors and condition variables between the contexts of          *)
(* ContextBase (contextimpl.c 259-449 and 995-1090, with the unwinding of    *)
(* exec.c).                                                                *)
(*                                                                         *)
(* An operator that raises an error changes nothing that is modelled; the   *)
(* error handler's stop is the action Stop.  A context that waits is linked *)
(* in one list at a time, so each intrusive list is a sequence (locks, FIFO)*)
(* or a set (conditions: InnerNotify wakes every waiter).                   *)
(***************************************************************************)
EXTENDS ContextBase, Integers

CONSTANTS
  Cond,        \* the condition objects
  Home,        \* Home[o]: the space whose VM holds lock or condition o, or NIL
               \* if it is in shared VM
  CustomOps    \* TRUE if custom operators use PSAcquireLock and PSReleaseLock

ASSUME MonitorAssumption ==
  /\ Home \in [Lock \cup Cond -> Space \cup {NIL}]
  /\ CustomOps \in BOOLEAN
  /\ NIL \notin Space /\ NIL \notin Lock /\ NIL \notin Cond

VARIABLES
  holder,      \* holder[l]: the context that owns lock l, or NIL
  waiters,     \* waiters[l]: the contexts queued on l, first come first
  condWaiters, \* condWaiters[v]: the contexts parked on condition v
  lk,          \* lk[c]: the lock c is queued on; only read while c is suspended
  waitee,      \* waitee[c]: the condition c is parked on; likewise
  pl           \* pl[c]: the lock of c's suspended AcquireLock or PSWait

monitorVars == <<holder, waiters, condWaiters, lk, waitee, pl>>
vars == <<baseVars, monitorVars>>

Locking == {"acquire", "custom", "reacquire"}   \* inside AcquireLock
Point == {"start", "slice", "ready", "wait", "dead"} \cup Locking

Init ==
  /\ BaseInit(Context)
  /\ holder = [l \in Lock |-> NIL]
  /\ waiters = [l \in Lock |-> <<>>]
  /\ condWaiters = [v \in Cond |-> {}]
  /\ lk = [c \in Context |-> NIL]
  /\ waitee = [c \in Context |-> NIL]
  /\ pl = [c \in Context |-> NIL]

Visible(c, o) == Home[o] \in {NIL, SpaceOf[c]}
LocksOf(fs) == {l \in Lock : Count(fs, l) > 0}
Marks(c) == LocksOf(frames[c])

-----------------------------------------------------------------------------
(* Lock and condition lists.                                                *)

Without(q, c) ==
  IF \E i \in 1 .. Len(q) : q[i] = c
  THEN LET i == CHOOSE i \in 1 .. Len(q) : q[i] = c
       IN SubSeq(q, 1, i - 1) \o SubSeq(q, i + 1, Len(q))
  ELSE q

\* Mutant: the handler forgets to unlink the context.
StayOnLock(c) == waiters

\* The lists once c has taken itself out of the one it may be linked in;
\* neither ctx->lk nor ctx->waitee is cleared.
BreakLooseLK(c) ==
  IF at[c] \in Locking /\ lk[c] # NIL
  THEN [waiters EXCEPT ![lk[c]] = Without(@, c)] ELSE waiters

BreakLooseCV(c) ==
  IF at[c] = "wait" /\ waitee[c] # NIL
  THEN [condWaiters EXCEPT ![waitee[c]] = @ \ {c}] ELSE condWaiters

\* ReleaseLock of every lock of L, the queues being q: one waiter each.
Woken(L, q) == {Head(q[l]) : l \in {k \in L : q[k] # <<>>}}

ReleaseLocks(L, q) ==
  /\ holder' = [l \in Lock |-> IF l \in L THEN NIL ELSE holder[l]]
  /\ waiters' = [l \in Lock |->
                   IF l \in L /\ q[l] # <<>> THEN Tail(q[l]) ELSE q[l]]
  /\ lk' = [c \in Context |-> IF c \in Woken(L, q) THEN NIL ELSE lk[c]]

\* Mutant of TakeLock: the loop is an `if', a woken waiter owns the lock.
TakeLockUnasked(c, l, point, q) ==
  /\ holder[l] = NIL \/ at[c] \in Locking
  /\ holder' = [holder EXCEPT ![l] = c]
  /\ waiters' = q
  /\ pl' = [pl EXCEPT ![c] = NIL]
  /\ IF point = "acquire" THEN Push(c, l) ELSE UNCHANGED frames
  /\ Proceed(c, {})
  /\ UNCHANGED lk

\* One turn of AcquireLock's loop by c for lock l, the queues being q.
TakeLock(c, l, point, q) ==
  /\ holder[l] = NIL
  /\ holder' = [holder EXCEPT ![l] = c]
  /\ waiters' = q
  /\ pl' = [pl EXCEPT ![c] = NIL]
  /\ IF point = "acquire" THEN Push(c, l) ELSE UNCHANGED frames
  /\ Proceed(c, {})
  /\ UNCHANGED lk

\* Mutant of QueueForLock: no test of the save level.
QueueUnderSave(c, l, point, q) ==
  /\ holder[l] \notin {NIL, c}
  /\ waiters' = [q EXCEPT ![l] = Append(@, c)]
  /\ lk' = [lk EXCEPT ![c] = l]
  /\ pl' = [pl EXCEPT ![c] = l]
  /\ Yield(c, point, {}, FALSE)
  /\ UNCHANGED <<holder, frames>>

QueueForLock(c, l, point, q) ==
  /\ holder[l] \notin {NIL, c}
  /\ ~ (level[SpaceOf[c]] > 0 /\ SpaceOf[holder[l]] = SpaceOf[c])
  /\ waiters' = [q EXCEPT ![l] = Append(@, c)]
  /\ lk' = [lk EXCEPT ![c] = l]
  /\ pl' = [pl EXCEPT ![c] = l]
  /\ Yield(c, point, {}, FALSE)
  /\ UNCHANGED <<holder, frames>>

\* invalidcontext: the lock is c's own already, or waiting for its holder
\* under a save would wait for a context that cannot run.
RefuseLock(c, l, q) ==
  /\ \/ holder[l] = c
     \/ holder[l] # NIL /\ level[SpaceOf[c]] > 0
                        /\ SpaceOf[holder[l]] = SpaceOf[c]
  /\ waiters' = q
  /\ pl' = [pl EXCEPT ![c] = NIL]
  /\ Proceed(c, {})
  /\ UNCHANGED <<holder, lk, frames>>

AcquireLock(c, l, point, q) ==
  \/ TakeLock(c, l, point, q)
  \/ QueueForLock(c, l, point, q)
  \/ RefuseLock(c, l, q)

-----------------------------------------------------------------------------
(* The operators.                                                           *)

Monitor(c) ==
  /\ Ready(c) /\ Len(frames[c]) < MaxFrames
  /\ \E l \in Lock : Visible(c, l) /\ AcquireLock(c, l, "acquire", waiters)
  /\ UNCHANGED <<pend, exclVars, condWaiters, waitee>>

\* Mutant of MonitorExit: the waiter is taken off the queue and not woken.
ExitWakesNobody(c) ==
  /\ Ready(c) /\ frames[c] # <<>> /\ Top(c) \in Lock
  /\ Pop(c)
  /\ LET L == {Top(c)} \cap {l \in Lock : holder[l] = c}
     IN ReleaseLocks(L, waiters) /\ Proceed(c, {})
  /\ UNCHANGED <<pend, exclVars, condWaiters, waitee, pl>>

\* The @monitormark on top is executed, or passed by exit.
MonitorExit(c) ==
  /\ Ready(c) /\ frames[c] # <<>> /\ Top(c) \in Lock
  /\ Pop(c)
  /\ LET L == {Top(c)} \cap {l \in Lock : holder[l] = c}
     IN ReleaseLocks(L, waiters) /\ Proceed(c, Woken(L, waiters))
  /\ UNCHANGED <<pend, exclVars, condWaiters, waitee, pl>>

PSAcquireLock(c) ==
  /\ CustomOps /\ Ready(c)
  /\ \E l \in Lock : Home[l] = NIL /\ AcquireLock(c, l, "custom", waiters)
  /\ UNCHANGED <<pend, exclVars, condWaiters, waitee>>

PSReleaseLock(c) ==
  /\ CustomOps /\ Ready(c)
  /\ \E l \in Lock \ Marks(c) :
       /\ holder[l] = c
       /\ ReleaseLocks({l}, waiters)
       /\ Proceed(c, Woken({l}, waiters))
  /\ UNCHANGED <<pend, frames, exclVars, condWaiters, waitee, pl>>

PSWait(c) ==
  /\ Ready(c)
  /\ \E l \in Lock, v \in Cond :
       /\ Visible(c, l) /\ Visible(c, v)
       /\ level[SpaceOf[c]] = 0 \/ (Home[l] = NIL /\ Home[v] = NIL)
       /\ holder[l] = c
       /\ ReleaseLocks({l}, waiters)
       /\ condWaiters' = [condWaiters EXCEPT ![v] = @ \cup {c}]
       /\ waitee' = [waitee EXCEPT ![c] = v]
       /\ pl' = [pl EXCEPT ![c] = l]
       /\ Yield(c, "wait", Woken({l}, waiters), FALSE)
  /\ UNCHANGED <<pend, frames, exclVars>>

\* PSNotify: InnerNotify empties the list and wakes all of it.
PSNotify(c) ==
  /\ Ready(c)
  /\ \E v \in Cond :
       /\ Visible(c, v) /\ condWaiters[v] # {}
       /\ condWaiters' = [condWaiters EXCEPT ![v] = {}]
       /\ waitee' = [d \in Context |->
                       IF d \in condWaiters[v] THEN NIL ELSE waitee[d]]
       /\ Proceed(c, condWaiters[v])
  /\ UNCHANGED <<pend, frames, exclVars, holder, waiters, lk, pl>>

-----------------------------------------------------------------------------
(* Unwinding.                                                               *)

\* Mutant of Destroy: the locks of all marks are freed, whoever holds them.
DestroyFreesAll(c) ==
  LET q == BreakLooseLK(c)
      L == Marks(c) IN
  /\ ReleaseLocks(L, q)
  /\ condWaiters' = BreakLooseCV(c)
  /\ pl' = [pl EXCEPT ![c] = NIL]
  /\ DestroyBase(c, Woken(L, q))
  /\ UNCHANGED waitee

\* The context ends: DoQuit, then DestroyPSContext clears its exec stack.  A
\* mark whose lock c no longer holds is passed over (terminating is set).
Destroy(c) ==
  LET q == BreakLooseLK(c)
      L == {l \in Marks(c) : holder[l] = c} IN
  /\ ReleaseLocks(L, q)
  /\ condWaiters' = BreakLooseCV(c)
  /\ pl' = [pl EXCEPT ![c] = NIL]
  /\ DestroyBase(c, Woken(L, q))
  /\ UNCHANGED waitee

\* Mutant of UnwindToStopped: an unwound BuildChar keeps the semaphore.
UnwindKeepsSemaphore(c) ==
  LET q == BreakLooseLK(c)
      fs == Unwound(frames[c])
      L == LocksOf(fs) IN
  IF \E l \in L : holder[l] # c \/ Count(fs, l) > 1
  THEN Escape /\ UNCHANGED monitorVars
  ELSE /\ ReleaseLocks(L, q)
       /\ condWaiters' = BreakLooseCV(c)
       /\ frames' = [frames EXCEPT ![c] = Kept(@)]
       /\ pend' = [pend EXCEPT ![c] = IF at[c] = "ready" THEN @ ELSE "none"]
       /\ pl' = [pl EXCEPT ![c] = NIL]
       /\ Proceed(c, Woken(L, q))
       /\ UNCHANGED <<exclVars, waitee>>

\* PS_STOP reaches the innermost stopped, releasing the monitors it passes;
\* a mark whose lock c does not hold raises inside psExecute's handler.
UnwindToStopped(c) ==
  LET q == BreakLooseLK(c)
      fs == Unwound(frames[c])
      L == LocksOf(fs) IN
  IF \E l \in L : holder[l] # c \/ Count(fs, l) > 1
  THEN Escape /\ UNCHANGED monitorVars
  ELSE /\ ReleaseLocks(L, q)
       /\ condWaiters' = BreakLooseCV(c)
       /\ frames' = [frames EXCEPT ![c] = Kept(@)]
       /\ DropExclusion(c, fs, 0)
       /\ pend' = [pend EXCEPT ![c] = IF at[c] = "ready" THEN @ ELSE "none"]
       /\ pl' = [pl EXCEPT ![c] = NIL]
       /\ Proceed(c, Woken(L, q))
       /\ UNCHANGED <<level, waitee>>

\* Every startup procedure runs under a stopped of its own and then quits, so
\* a stop that no frame of the user's ends destroys the context.
StopContext(c) ==
  IF Stopped(frames[c]) THEN UnwindToStopped(c)
  ELSE IF \E l \in Marks(c) : holder[l] # c \/ Count(frames[c], l) > 1
       THEN Escape /\ UNCHANGED monitorVars
       ELSE Destroy(c)

Stop(c) == Ready(c) /\ StopContext(c)

\* quit, or the end of a startup procedure nobody will join.
Quit(c) == Ready(c) /\ Destroy(c)

-----------------------------------------------------------------------------
(* What a coroutine does when control returns to it.                        *)

Suspended(c) == fault = "none" /\ running /\ cur = c /\ at[c] \notin {"ready", "dead"}

\* Mutant of Raised: AcquireLock's handler does not RERAISE.
RaisedInLockSwallowed(c) ==
  /\ Suspended(c) /\ at[c] # "start"
  /\ \/ /\ pend[c] = "terminate"
        /\ IF at[c] \in Locking
           THEN /\ pend' = [pend EXCEPT ![c] = "none"]
                /\ AcquireLock(c, pl[c], at[c], BreakLooseLK(c))
                /\ UNCHANGED <<condWaiters, waitee, exclVars>>
           ELSE Destroy(c)
     \/ pend[c] = "interrupt" /\ StopContext(c)

\* CheckForPSNotify raises: a terminate, or an interrupt whose handler stops.
\* A context that has not begun does not look.
Raised(c) ==
  /\ Suspended(c) /\ at[c] # "start"
  /\ \/ pend[c] = "terminate" /\ Destroy(c)
     \/ pend[c] = "interrupt" /\ StopContext(c)

Begin(c) ==
  /\ At(c, "start")
  /\ Proceed(c, {})
  /\ UNCHANGED <<pend, frames, exclVars, monitorVars>>

\* PSYield returns: nothing pending, a request to yield, or an interrupt
\* whose handler returned.  The caller cannot tell a wake from a notification.
Resume(c) ==
  /\ Suspended(c) /\ pend[c] # "terminate"
  /\ pend' = [pend EXCEPT ![c] = "none"]
  /\ \/ /\ at[c] = "slice"
        /\ Proceed(c, {})
        /\ UNCHANGED <<frames, monitorVars>>
     \/ /\ at[c] \in Locking
        /\ AcquireLock(c, pl[c], at[c], BreakLooseLK(c))
        /\ UNCHANGED <<condWaiters, waitee>>
     \/ /\ at[c] = "wait"
        /\ AcquireLock(c, pl[c], "reacquire", waiters)
        /\ condWaiters' = BreakLooseCV(c)
        /\ UNCHANGED waitee
  /\ UNCHANGED exclVars

-----------------------------------------------------------------------------
BaseOp(c) ==
  /\ \/ Save(c)
     \/ Restore(c)
     \/ EnterStopped(c)
     \/ EnterFont(c)
     \/ EnterStroke(c)
     \/ LeaveFrame(c)
     \/ YieldSlice(c)
  /\ UNCHANGED monitorVars

Operator(c) ==
  \/ BaseOp(c)
  \/ Monitor(c)
  \/ MonitorExit(c)
  \/ PSAcquireLock(c)
  \/ PSReleaseLock(c)
  \/ PSWait(c)
  \/ PSNotify(c)
  \/ Stop(c)
  \/ Quit(c)

Continue(c) == Begin(c) \/ Resume(c) \/ Raised(c)

Dispatch(c) == Schedule(c) /\ UNCHANGED monitorVars

Signal(c) == (\E r \in Reason : Notify(c, r)) /\ UNCHANGED monitorVars

Next == \E c \in Context :
          Dispatch(c) \/ Signal(c) \/ Continue(c) \/ Operator(c)

Spec == Init /\ [][Next]_vars

(* The scheduler is round robin, a coroutine it resumes goes on, and a time   *)
(* slice ends.  Nothing is assumed of the programs.                           *)
Fairness ==
  \A c \in Context :
    /\ SF_vars(Dispatch(c))
    /\ WF_vars(Continue(c))
    /\ SF_vars(YieldSlice(c) /\ UNCHANGED monitorVars)

FairSpec == Spec /\ Fairness

-----------------------------------------------------------------------------
(* Properties.                                                              *)

TypeOK ==
  /\ live \subseteq Context
  /\ cur \in Context \cup {NIL}
  /\ running \in BOOLEAN
  /\ runnable \subseteq Context
  /\ pend \in [Context -> {"none", "request_yield", "interrupt", "terminate"}]
  /\ frames \in [Context -> Seq(Frame)]
  /\ at \in [Context -> Point]
  /\ level \in [Space -> 0 .. MaxLevel]
  /\ sem \in [Space -> Int]
  /\ exclusive \in [Space -> Context \cup {NIL}]
  /\ totalSem \in Int
  /\ totalExcl \in Context \cup {NIL}
  /\ fault \in {"none", "escape", "null"}
  /\ holder \in [Lock -> Context \cup {NIL}]
  /\ waiters \in [Lock -> Seq(Context)]
  /\ condWaiters \in [Cond -> SUBSET Context]
  /\ lk \in [Context -> Lock \cup {NIL}]
  /\ waitee \in [Context -> Cond \cup {NIL}]
  /\ pl \in [Context -> Lock \cup {NIL}]

\* c has given lock l up in PSWait and is not back from its AcquireLock.
GaveUp(c, l) == at[c] \in {"wait", "reacquire"} /\ pl[c] = l

\* The contexts executing the body of a monitor on l.
Inside(l) == {c \in live : l \in Marks(c) /\ ~GaveUp(c, l)}

(* Whoever executes the body of a monitor owns its lock, whatever waits,     *)
(* notifications, stops and terminations happened since it was entered, and  *)
(* it entered each lock once (PSMonitor, PSWait, MonitorExit).               *)
BodyOwnsLock ==
  \A c \in live, l \in Lock :
    l \in Marks(c) => Count(frames[c], l) = 1 /\ (GaveUp(c, l) \/ holder[l] = c)

(* The promise of AbstractMonitor, Inside(l) being its inside[l].             *)
Abstract == INSTANCE AbstractMonitor
              WITH inside <- [l \in Lock |-> Inside(l)]

ImplementsMonitor == Abstract!Spec

(* Locks, marks and lists agree: BodyOwnsLock, and every list link is a live *)
(* context suspended on that very object, once: DestroyPSContext unlinks      *)
(* nothing, so this rests on every handler having called BreakLooseLK or      *)
(* BreakLooseCV first.                                                       *)
ListsSound ==
  /\ BodyOwnsLock
  /\ \A l \in Lock : \A i \in 1 .. Len(waiters[l]) :
       LET c == waiters[l][i] IN
         /\ c \in live /\ at[c] \in Locking /\ pl[c] = l /\ lk[c] = l
         /\ holder[l] # c
         /\ \A j \in 1 .. Len(waiters[l]) : waiters[l][j] = c => i = j
  /\ \A v \in Cond : \A c \in condWaiters[v] :
       c \in live /\ at[c] = "wait" /\ waitee[c] = v

(* Nothing that outlives a context still names it: no lock is left owned,    *)
(* no exclusion held and no statics loaded for a context that was destroyed. *)
NothingDangles ==
  /\ cur \in live \cup {NIL}
  /\ totalExcl \in live \cup {NIL}
  /\ \A s \in Space : exclusive[s] \in live \cup {NIL}
  /\ \A l \in Lock : holder[l] \in live \cup {NIL}

(* A context that executes has the right to: nobody else has exclusive use   *)
(* of its space or of the interpreter (SwitchPSContext, and NSLoadPS when    *)
(* the switch is refused).                                                  *)
ExclusionObeyed == running => MaySwitch(cur)

(* The semaphore of a space counts its save levels and the BuildChars in     *)
(* progress there, all of the one context that has the space to itself, and   *)
(* nothing dangles.                                                          *)
SemaphoreBalanced ==
  /\ NothingDangles
  /\ \A s \in Space :
       LET owner == exclusive[s] IN
       /\ owner = NIL <=> sem[s] = 0
       /\ owner # NIL => /\ SpaceOf[owner] = s
                         /\ sem[s] = level[s] + Count(frames[owner], "font")
                                              + Count(frames[owner], "stroke")
       /\ \A c \in live : SpaceOf[c] = s /\ c # owner =>
            Count(frames[c], "font") + Count(frames[c], "stroke") = 0

(* Locks change hands through their owner only: a lock that leaves its owner *)
(* becomes free, in a step of the owner's own (ReleaseLock's first test, and *)
(* the `terminating' exception to it).                                      *)
OnlyOwnerReleases ==
  [][\A l \in Lock : \/ holder[l] \in {NIL, holder'[l]}
                     \/ running /\ cur = holder[l] /\ holder'[l] = NIL]_vars

(* A context that made a save never queues behind one of its own space,      *)
(* which could not run to release the lock: AcquireLock tests this when it    *)
(* queues, and nothing that happens later makes it true.                     *)
SaverNeverBehindExcluded ==
  \A l \in Lock : \A i \in 1 .. Len(waiters[l]) :
    LET c == waiters[l][i] IN
    level[SpaceOf[c]] > 0 /\ exclusive[SpaceOf[c]] = c /\ holder[l] # NIL
      => SpaceOf[holder[l]] # SpaceOf[c]

(* contextimpl.c, ReleaseLock: one waiter is rescheduled.  So a free lock     *)
(* with a queue has been offered to a context that will look at it.           *)
NoLostWakeup ==
  \A l \in Lock : holder[l] = NIL /\ waiters[l] # <<>> =>
    \E c \in live : /\ at[c] \in Locking \cup {"wait"} /\ pl[c] = l
                    /\ c \in runnable \/ (running /\ cur = c)

(* A suspended context that is terminated is gone in the end, whatever it     *)
(* waits for and whatever the others do (NSTermContext makes it runnable,      *)
(* CheckForPSNotify raises).                                                 *)
SuspendedTerminates ==
  \A c \in Context :
    (pend[c] = "terminate" /\ c \in runnable /\ at[c] # "start")
      ~> (c \notin live)

(* A free lock that contexts queue for is taken in the end, as long as nobody *)
(* has ended: the context a release woke may be terminated before it takes    *)
(* the lock (see NoLostWakeup).                                              *)
FreeLockTaken ==
  \A l \in Lock :
    (holder[l] = NIL /\ waiters[l] # <<>>)
      ~> (holder[l] # NIL \/ live # Context)
=============================================================================
