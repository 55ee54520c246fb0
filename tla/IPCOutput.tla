----------------------------- MODULE IPCOutput -----------------------------
(***************************************************************************)
(* The output stream of an application (ipcstream.c), which the contexts it  *)
(* forks share, into which events are written for it (event.c), and which     *)
(* the scheduler tells of the kernel's notifications (HandleNotifyMsg).       *)
(*                                                                         *)
(* The stream's buffer is a message, here a sequence of at most BufSize       *)
(* items; an item is one write.  Control passes at PSYield, and anywhere       *)
(* between two operators of a program.  The Mach kernel queues Backlog         *)
(* messages on the client's port, takes one more with a promise to notify,    *)
(* and refuses the next while that promise is open.                          *)
(***************************************************************************)
EXTENDS Naturals, FiniteSets, Sequences

CONSTANTS
  Context,       \* every context that writes on the stream
  Main,          \* the application's context, whose remotePort is the client
  EventContext,  \* the one that dispatches events; it has streams of its own
  NIL,
  BufSize,       \* items in MESSAGEDATASIZE
  Backlog,       \* the kernel's limit for a port
  MaxWrite,      \* bound: writes altogether
  MaxRef         \* bound: the references ever taken to the stream

ASSUME OutputAssumption ==
  /\ Main \in Context /\ EventContext \in (Context \cup {NIL}) \ {Main}
  /\ NIL \notin Context \cup {"flush", "put", "big", "events", "sent"}
  /\ BufSize \in Nat \ {0} /\ Backlog \in Nat \ {0}
  /\ MaxWrite \in Nat /\ MaxRef \in Nat \ {0}
  /\ IsFiniteSet(Context)

VARIABLES
  alive,       \* the contexts in contextList
  notified,    \* those with a terminate pending
  waitNotify,  \* those waiting for a notification on the client's port
  wannaRun,    \* those of the blocked ones that were made runnable
  at,          \* at[c]: "run", "blocked" in PSYield(yield_stdout), or "dead"
  doing,       \* doing[c]: the operator that blocked: "flush", "put", "big",
               \* "events" (EndFlush), or "sent", its data being out
  stm,         \* the stream: its buffer and flags
  stmRef,
  port,        \* the client's port: its queue, and whether a notice is promised
  notices,     \* messages queued on the server's notifyPort
  clientGone,
  deferred,    \* lastEventStm is this stream
  written,     \* history: how many writes were accepted; an item is its number
  received,    \* history: the items the client has read
  overtaken    \* history: an out-of-line write found a notification in progress

procs == <<alive, notified, waitNotify, wannaRun, at, doing>>
env == <<notices, clientGone>>
hist == <<written, received, overtaken>>
vars == <<procs, stm, stmRef, port, env, deferred, hist>>

Item == 1 .. MaxWrite
Programs == Context \ {EventContext}

Init ==
  /\ alive = {Main} \cup ({EventContext} \ {NIL})
  /\ notified = {} /\ waitNotify = {} /\ wannaRun = {}
  /\ at = [c \in Context |-> IF c \in alive THEN "run" ELSE "dead"]
  /\ doing = [c \in Context |-> NIL]
  /\ stm = [buf |-> <<>>, notifyInProgress |-> FALSE, error |-> FALSE, write |-> TRUE]
  /\ stmRef = 1
  /\ port = [queue |-> <<>>, promised |-> FALSE]
  /\ notices = <<>>
  /\ clientGone = FALSE
  /\ deferred = FALSE
  /\ written = 0
  /\ received = <<>>
  /\ overtaken = FALSE

-----------------------------------------------------------------------------
(* msg_send with SEND_NOTIFY, on a state s of the stream and the port.        *)

Answer(p) ==
  CASE clientGone -> "dead"
    [] ~clientGone /\ Len(p.queue) < Backlog -> "success"
    [] ~clientGone /\ Len(p.queue) >= Backlog /\ ~p.promised -> "will_notify"
    [] OTHER -> "in_progress"

Taken(p, msg) ==
  CASE Answer(p) = "success" -> [p EXCEPT !.queue = Append(@, msg)]
    [] Answer(p) = "will_notify" -> [queue |-> Append(p.queue, msg), promised |-> TRUE]
    [] OTHER -> p

\* Mutant of Flushed: it sends although a notification is in progress.
FlushedAnyway(s, yieldPermitted) ==
  IF ~s.stm.write \/ s.stm.buf = <<>> THEN [s EXCEPT !.ret = "done"]
  ELSE CASE Answer(s.port) = "success" ->
              [ret |-> "done", stm |-> [s.stm EXCEPT !.buf = <<>>],
               port |-> Taken(s.port, s.stm.buf)]
         [] Answer(s.port) = "will_notify" ->
              [ret |-> IF yieldPermitted THEN "yield" ELSE "done",
               stm |-> [s.stm EXCEPT !.buf = <<>>, !.notifyInProgress = TRUE],
               port |-> Taken(s.port, s.stm.buf)]
         [] OTHER -> [s EXCEPT !.ret = "failed", !.stm.error = TRUE]

\* IPCFlushOutput, up to its end or its PSYield.
Flushed(s, yieldPermitted) ==
  IF ~s.stm.write \/ s.stm.buf = <<>> THEN [s EXCEPT !.ret = "done"]
  ELSE IF s.stm.notifyInProgress
  THEN [s EXCEPT !.ret = IF yieldPermitted THEN "yield" ELSE "failed"]
  ELSE CASE Answer(s.port) = "success" ->
              [ret |-> "done", stm |-> [s.stm EXCEPT !.buf = <<>>],
               port |-> Taken(s.port, s.stm.buf)]
         [] Answer(s.port) = "will_notify" ->
              [ret |-> IF yieldPermitted THEN "yield" ELSE "done",
               stm |-> [s.stm EXCEPT !.buf = <<>>, !.notifyInProgress = TRUE],
               port |-> Taken(s.port, s.stm.buf)]
         [] OTHER -> [s EXCEPT !.ret = "failed", !.stm.error = TRUE]

Now == [ret |-> "done", stm |-> stm, port |-> port]
Put(s, item) == [s EXCEPT !.stm.buf = Append(@, item)]

-----------------------------------------------------------------------------
(* The writers.                                                             *)

Block(c, what) ==
  /\ at' = [at EXCEPT ![c] = "blocked"]
  /\ doing' = [doing EXCEPT ![c] = what]
  /\ waitNotify' = waitNotify \cup {c}

Return(c) ==
  /\ at' = [at EXCEPT ![c] = "run"]
  /\ doing' = [doing EXCEPT ![c] = NIL]
  /\ UNCHANGED waitNotify

Writing == {c \in Context : doing[c] \in {"put", "big"}}
CanWrite == written + Cardinality(Writing) < MaxWrite
NextItem == written + 1
Accept == written' = written + 1

\* The out-of-line message of IPCWrite, which looks at one answer only.
SendLarge(c, s) ==
  /\ port' = Taken(s.port, <<NextItem>>)
  /\ Accept
  /\ overtaken' = (overtaken \/ s.stm.notifyInProgress)
  /\ IF Answer(s.port) = "will_notify"
     THEN stm' = [s.stm EXCEPT !.notifyInProgress = TRUE] /\ Block(c, "sent")
     ELSE stm' = s.stm /\ Return(c)

\* What an operator does that finds its write or flush failed: StreamError
\* clears the flag; print and the event code do not look.
Raised(t, what) ==
  (IF what = "flush" THEN {} ELSE {t})
    \cup (IF what = "events" THEN {} ELSE {[t EXCEPT !.error = FALSE]})

\* c empties the buffer and goes on with what it was doing.
FlushAnd(c, what) ==
  LET s == Flushed(Now, TRUE) IN
  IF s.ret = "yield"
  THEN /\ Block(c, what)
       /\ stm' = s.stm /\ port' = s.port
       /\ UNCHANGED <<deferred, written, overtaken>>
  ELSE IF s.ret = "done" /\ what = "put" /\ s.stm.write
  THEN /\ Return(c)
       /\ stm' = Put(s, NextItem).stm /\ port' = s.port
       /\ Accept
       /\ UNCHANGED <<deferred, overtaken>>
  ELSE IF s.ret = "done" /\ what = "big" /\ s.stm.write
  THEN SendLarge(c, s) /\ UNCHANGED deferred
  ELSE /\ Return(c)
       /\ stm' \in IF s.ret = "failed" THEN Raised(s.stm, what) ELSE {s.stm}
       /\ port' = s.port
       /\ deferred' = (deferred /\ what # "events")
       /\ UNCHANGED <<written, overtaken>>

Running(c) == c \in alive /\ at[c] = "run"
quiet == <<alive, notified, wannaRun, stmRef, env, received>>

\* IPCWrite of what fits in the buffer.
Write(c) ==
  /\ Running(c) /\ c \in Programs /\ CanWrite
  /\ IF stm.error
     THEN /\ stm' \in Raised(stm, "put")
          /\ UNCHANGED <<at, doing, waitNotify, port, deferred, written, overtaken>>
     ELSE IF Len(stm.buf) < BufSize
     THEN /\ stm' = Put(Now, NextItem).stm
          /\ Accept
          /\ UNCHANGED <<at, doing, waitNotify, port, deferred, overtaken>>
     ELSE FlushAnd(c, "put")
  /\ UNCHANGED quiet

\* Mutant of WriteLarge: it does not wait for the buffer to be empty.
WriteLargeAhead(c) ==
  /\ Running(c) /\ c \in Programs /\ CanWrite /\ ~stm.error
  /\ SendLarge(c, Now)
  /\ UNCHANGED <<deferred, quiet>>

\* IPCWrite of more than a buffer.
WriteLarge(c) ==
  /\ Running(c) /\ c \in Programs /\ CanWrite /\ ~stm.error
  /\ FlushAnd(c, "big")
  /\ UNCHANGED quiet

\* The flush operator.
Flush(c) ==
  /\ Running(c) /\ c \in Programs
  /\ FlushAnd(c, "flush")
  /\ UNCHANGED quiet

\* PostEvent, by any context and never blocking: the event is dropped unless
\* there is room; the event context, dispatching, flushes later.
PostEvent(c) ==
  LET first == IF Len(stm.buf) < BufSize THEN Now ELSE Flushed(Now, FALSE)
      room == Len(first.stm.buf) < BufSize
      full == IF first.stm.error THEN first ELSE Put(first, NextItem)
      last == IF c = EventContext THEN full ELSE Flushed(full, FALSE)
  IN /\ Running(c) /\ CanWrite /\ Main \in alive
     /\ IF room
        THEN stm' = last.stm /\ port' = last.port
        ELSE stm' = first.stm /\ port' = first.port
     /\ IF room /\ ~first.stm.error THEN Accept ELSE UNCHANGED written
     /\ deferred' = (deferred \/ (room /\ c = EventContext))
     /\ UNCHANGED <<at, doing, waitNotify, overtaken, quiet>>

\* EndFlush, when the event context has dispatched what there was.
EndFlush(c) ==
  /\ Running(c) /\ c = EventContext /\ deferred
  /\ FlushAnd(c, "events")
  /\ UNCHANGED quiet

\* Mutant of IPCClose: the references are not looked at.
CloseAtOnce ==
  /\ stmRef' = stmRef - 1
  /\ stm' = [stm EXCEPT !.write = FALSE, !.buf = <<>>]

\* The last context to close the stream frees it, with what is in its buffer.
IPCClose ==
  /\ stmRef' = stmRef - 1
  /\ stm' = IF stmRef > 1 THEN stm
            ELSE [stm EXCEPT !.write = FALSE, !.buf = <<>>]

Die(c) ==
  /\ c \in Programs
  /\ IPCClose
  /\ alive' = alive \ {c}
  /\ at' = [at EXCEPT ![c] = "dead"]
  /\ doing' = [doing EXCEPT ![c] = NIL]
  /\ notified' = notified \ {c}
  /\ waitNotify' = waitNotify \ {c}
  /\ wannaRun' = wannaRun \ {c}
  /\ UNCHANGED <<port, env, deferred, hist>>

Quit(c) == Running(c) /\ Die(c)

\* PSYield(yield_stdout) returns.
Resume(c) ==
  /\ at[c] = "blocked" /\ c \in wannaRun /\ c \notin notified
  /\ wannaRun' = wannaRun \ {c}
  /\ IF doing[c] = "sent"
     THEN Return(c) /\ UNCHANGED <<stm, port, deferred, written, overtaken>>
     ELSE FlushAnd(c, doing[c])
  /\ UNCHANGED <<alive, notified, stmRef, env, received>>

\* A terminate that was pending raises.
Terminated(c) ==
  c \in notified /\ (at[c] = "run" \/ c \in wannaRun) /\ Die(c)

Reference == stmRef' = stmRef + 1

\* fork: PSNewContextStms takes the reference first, and keeps it if the
\* context cannot be made.
Fork(c, d) ==
  /\ Running(c) /\ c \in Programs /\ d \in Programs \ alive /\ d # Main
  /\ stmRef < MaxRef
  /\ Reference
  /\ alive' = alive \cup {d}
  /\ at' = [at EXCEPT ![d] = "run"]
  /\ UNCHANGED <<notified, waitNotify, wannaRun, doing, stm, port, env, deferred,
                 hist>>

ForkFails(c) ==
  /\ Running(c) /\ c \in Programs /\ stmRef < MaxRef
  /\ Reference
  /\ UNCHANGED <<procs, stm, port, env, deferred, hist>>

-----------------------------------------------------------------------------
(* The client, the kernel and the scheduler.                                 *)

ClientReads ==
  /\ ~clientGone /\ port.queue # <<>>
  /\ received' = received \o Head(port.queue)
  /\ port' = [queue |-> Tail(port.queue), promised |-> FALSE]
  /\ notices' = IF port.promised THEN Append(notices, "accepted") ELSE notices
  /\ UNCHANGED <<procs, stm, stmRef, clientGone, deferred, written, overtaken>>

ClientDies ==
  /\ ~clientGone
  /\ clientGone' = TRUE
  /\ port' = [queue |-> <<>>, promised |-> FALSE]
  /\ notices' = Append(notices, "deleted")
  /\ UNCHANGED <<procs, stm, stmRef, deferred, hist>>

\* Mutant of IPCNotifyReceived: what gathered in the buffer stays there.
ClearOnly(s) ==
  IF ~s.stm.write \/ ~s.stm.notifyInProgress THEN s
  ELSE [s EXCEPT !.stm.notifyInProgress = FALSE]

IPCNotifyReceived(s) ==
  IF ~s.stm.write \/ ~s.stm.notifyInProgress THEN s
  ELSE Flushed([s EXCEPT !.stm.notifyInProgress = FALSE], FALSE)

\* Mutant of Woken: one waiter is woken.
WokenOne == IF waitNotify = {} THEN {} ELSE {CHOOSE c \in waitNotify : TRUE}

\* HandleNotifyMsg wakes everybody who waits for this port.
Woken == waitNotify

MsgAccepted ==
  /\ notices # <<>> /\ Head(notices) = "accepted"
  /\ notices' = Tail(notices)
  /\ LET s == IF Main \in alive THEN IPCNotifyReceived(Now) ELSE Now
     IN stm' = s.stm /\ port' = s.port
  /\ wannaRun' = wannaRun \cup Woken
  /\ waitNotify' = waitNotify \ Woken
  /\ UNCHANGED <<alive, notified, at, doing, stmRef, clientGone, deferred, hist>>

PortDeleted ==
  /\ notices # <<>> /\ Head(notices) = "deleted"
  /\ notices' = Tail(notices)
  /\ notified' = notified \cup ({Main} \cap alive)
  /\ wannaRun' = wannaRun \cup (Woken \ {Main}) \cup
                   {c \in {Main} \cap alive : at[c] = "blocked"}
  /\ waitNotify' = waitNotify \ (Woken \ {Main})
  /\ UNCHANGED <<alive, at, doing, stm, stmRef, port, clientGone, deferred, hist>>

-----------------------------------------------------------------------------
Operator(c) ==
  \/ Write(c)
  \/ WriteLarge(c)
  \/ Flush(c)
  \/ PostEvent(c)
  \/ EndFlush(c)
  \/ Quit(c)
  \/ ForkFails(c)
  \/ \E d \in Context : Fork(c, d)

Next ==
  \/ \E c \in Context : Operator(c) \/ Resume(c) \/ Terminated(c)
  \/ ClientReads
  \/ ClientDies
  \/ MsgAccepted
  \/ PortDeleted

Spec == Init /\ [][Next]_vars

(* The client reads; the scheduler receives notifications; a runnable context  *)
(* runs.                                                                    *)
Fairness ==
  /\ WF_vars(ClientReads)
  /\ WF_vars(MsgAccepted \/ PortDeleted)
  /\ \A c \in Context : WF_vars(Resume(c) \/ Terminated(c))

FairSpec == Spec /\ Fairness

-----------------------------------------------------------------------------
(* Properties.                                                              *)

TypeOK ==
  /\ alive \subseteq Context
  /\ notified \cup waitNotify \cup wannaRun \subseteq alive
  /\ at \in [Context -> {"run", "blocked", "dead"}]
  /\ doing \in [Context -> {NIL, "flush", "put", "big", "events", "sent"}]
  /\ stm.buf \in Seq(Item) /\ Len(stm.buf) <= BufSize
  /\ {stm.notifyInProgress, stm.error, stm.write} \subseteq BOOLEAN
  /\ stmRef \in 0 .. MaxRef
  /\ port.queue \in Seq(Seq(Item)) /\ Len(port.queue) <= Backlog + 1
  /\ \A i \in DOMAIN notices : notices[i] \in {"accepted", "deleted"}

\* The messages of a queue, one after the other.
Joined(q) ==
  LET first[i \in 0 .. Len(q)] == IF i = 0 THEN <<>> ELSE first[i - 1] \o q[i]
  IN first[Len(q)]

\* What is on its way, and whether the client can still get it.
InFlight == received \o Joined(port.queue) \o stm.buf
Served == ~clientGone /\ stm.write /\ ~overtaken

(* What the writers were told is written is what the client gets: all of it,   *)
(* once, in the order of the writes, whoever shares the stream and wherever    *)
(* they block (IPCWrite, IPCFlushOutput, IPCNotifyReceived).                   *)
(* Only an out-of-line write that finds a notification in progress is lost or  *)
(* spoils this: IPCWrite does not look at the flag, nor at the kernel's refusal. *)
OutputInOrder == Served => InFlight = [i \in 1 .. written |-> i]

(* ipcstream.h: if a notification is in progress, no further msg_sends are     *)
(* attempted until IPCNotifyReceived has been called.  The flag agrees with    *)
(* the kernel, so the kernel never has a reason to refuse a message.           *)
FlagTellsTruth ==
  /\ TypeOK
  /\ Served /\ Main \in alive =>
       /\ stm.notifyInProgress <=>
            port.promised \/ \E i \in DOMAIN notices : notices[i] = "accepted"
       /\ ~stm.error

(* A stream is not freed while a context has it for its output, however many    *)
(* forks shared it, ended, were terminated or failed (stmRef).                  *)
OpenWhileUsed == alive \cap Programs # {} => stm.write

(* Events posted without blocking go out in the end although nobody flushes    *)
(* again: IPCNotifyReceived sends what gathered behind a full queue.            *)
GatheredGoes ==
  (stm.notifyInProgress /\ stm.buf # <<>>)
    ~> (stm.buf = <<>> \/ Main \notin alive \/ overtaken \/ clientGone)

(* A writer that blocks is woken, if the client reads, and goes on in the end    *)
(* unless the stream's other writers go on writing for ever.  No more is         *)
(* promised: between IPCNotifyReceived and the return of the writer's PSYield     *)
(* another may fill the buffer behind a message that set the flag again, and     *)
(* then the loop of IPCFlushOutput blocks once more.                            *)
WriterGoesOn ==
  LET over == Main \notin alive \/ overtaken \/ clientGone IN
  \A c \in Context :
    /\ (at[c] = "blocked") ~> (c \in wannaRun \/ at[c] # "blocked" \/ over)
    /\ <>[](at[c] = "blocked" /\ ~over) => []<><<written' # written>>_written
=============================================================================
