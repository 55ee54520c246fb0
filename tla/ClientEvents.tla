--------------------------- MODULE ClientEvents ---------------------------
(***************************************************************************)
(* The event loop of the PostScript client library (dpsclient-49: input.c,    *)
(* queues.c, list.c, scanner.c): DPSGetEvent waits for an event and calls the  *)
(* procs of fds, ports and timed entries meanwhile.  They are the program's    *)
(* own and may call DPSGetEvent again, add and remove procs, and change the    *)
(* event queue.  A second thread selects on the fds.                          *)
(*                                                                         *)
(* The main thread is a stack of frames: the program, or one of its procs,     *)
(* and calls of _DPSGetOrPeekEvent.  Its steps interleave with those of the    *)
(* select thread.                                                           *)
(***************************************************************************)
EXTENDS Naturals, Sequences, FiniteSets, Functions

CONSTANTS
  FD, Port, Timer, \* what a program may add procs for
  Ctx, NIL,
  Priority,        \* of the proc of each of them
  Width,           \* bits in a threshold
  Filtered,        \* the contexts with an event proc (DPSSetEventFunc)
  MaxDepth,        \* bound: nested calls
  MaxQueue,        \* bound: events in the queue
  Scenarios        \* [list: the procs there are at first, servers: the contexts
                   \* that send events, level: what the program, the procs of its
                   \* calls, and theirs use: [ops, gets, keys]]

Type == {"drag", "up"}     \* mouse-dragged and mouse-up stand for all types
Record == 1 .. 2           \* bound: list items of one fd, port or timer
Item == (FD \cup Port \cup Timer) \X Record

ASSUME ClientAssumption ==
  /\ NIL \notin Ctx \cup FD \cup Port \cup Timer \cup Item \cup 1 .. MaxQueue
  /\ Width \in Nat \ {0} /\ MaxDepth \in Nat /\ MaxQueue \in Nat
  /\ FD \cap Port = {} /\ FD \cap Timer = {} /\ Port \cap Timer = {}
  /\ Filtered \subseteq Ctx
  \* DPSAddFD, DPSAddPort and DPSAddTimedEntry: priority >= 0 && priority < 31
  /\ \A x \in FD \cup Port \cup Timer : Priority[x] \in 0 .. Width - 2
  \* _DPSGetOrPeekEvent: threshold >= 0 && threshold < 32
  /\ \A s \in Scenarios :
       /\ s.list \in Seq(Item) /\ IsInjective(s.list) /\ s.servers \subseteq Ctx
       \* DPSAddFD refuses an fd that there is an item for
       /\ \A i, j \in DOMAIN s.list : s.list[i][1] \in FD /\ s.list[i][1] = s.list[j][1] => i = j
       /\ Len(s.level) \in Nat /\ Len(s.level) > MaxDepth
       /\ DOMAIN s.level = 1 .. Len(s.level)
       /\ \A i \in DOMAIN s.level : \A g \in s.level[i].gets :
            g.arg \in 0 .. Width - 1 /\ g.ctxs \subseteq Ctx

VARIABLES
  stack,            \* the frames of the main thread, the innermost last
  thr,              \* ProcThreshold, the set of its bits
  list,             \* Streams, Ports and TimedEntries, the newest first
  doomed,           \* items with doFree
  mainPorts, mainCtx,  \* whose ports are in MainPorts
  waiting, active,  \* WaitingStreams, ActiveStreams
  pipe, reply,      \* what is in SelectPipe; a message on SelectReplyPort
  sel,              \* the select thread: pc, and its mask
  selMsg,           \* a message on selectPort, whose backlog is 1
  data, mail, sent, due,  \* fds to read, ports and contexts with a message, timers
  queue,            \* _DPSEventQ
  lastEvent,        \* _DPSLastEvent, an address
  tracking,         \* _DPSTracking
  late,             \* history: fds added while the select thread held their bit
  scenario

libVars == <<list, doomed, waiting, active, pipe, late>>
mainVars == <<mainPorts, mainCtx>>
selVars == <<sel, selMsg, reply>>
worldVars == <<data, mail, sent, due>>
eventVars == <<queue, lastEvent, tracking>>
vars == <<stack, thr, libVars, mainVars, selVars, worldVars, eventVars, scenario>>

-----------------------------------------------------------------------------
(* Frames.                                                                  *)

top == stack[Len(stack)]
below == stack[Len(stack) - 1]

\* The program (item = NIL), a proc, or the event proc of event.ctxt.
Prog(x) == [kind |-> "prog", item |-> x, event |-> NIL, pc |-> "run", fd |-> NIL]
Filter(e) == [Prog(NIL) EXCEPT !.event = e]

\* A call with its arguments, prevThreshold, where its loop over a list is (at),
\* calledRoutine, whether restrLevel # MainSetCount (stale) and whether this
\* msg_receive is the first of its group.  History: the threshold was hiked for
\* an event found; a nested call took the select thread's message; an event proc
\* changed the queue.
Call(g) ==
  [kind |-> "get", get |-> g, prev |-> thr, pc |-> "fds0", at |-> NIL, called |-> FALSE,
   stale |-> FALSE, first |-> TRUE, hiked |-> FALSE, swallowed |-> FALSE, meddled |-> FALSE]

IsGet(f) == f.kind = "get"
Gets == {i \in DOMAIN stack : IsGet(stack[i])}
uses == scenario.level[Cardinality(Gets) + 1]
Runs(op) == top.kind = "prog" /\ top.pc = "run" /\ op \in uses.ops
Pushed(f) == Append(stack, f)
Outer(n) == SubSeq(stack, 1, Len(stack) - n)
WithTop(f) == [stack EXCEPT ![Len(stack)] = f]
OfCalls(s, Update(_)) == [i \in DOMAIN s |-> IF IsGet(s[i]) THEN Update(s[i]) ELSE s[i]]
AllStale(s) == OfCalls(s, LAMBDA f : [f EXCEPT !.stale = TRUE])

InUse == {stack[i].item : i \in DOMAIN stack \ Gets} \ {NIL}

-----------------------------------------------------------------------------
(* Lists and thresholds.                                                    *)

\* Mutant of Hardened: the threshold of the call replaces those it runs in.
HardenedAlone(arg) == {arg}

\* ProcThreshold |= 1 << threshold
Hardened(arg) == thr \cup {arg}

\* The priority mask 1 << (p + 1) exceeds the threshold.
Above(x, bits) == \A b \in bits : Priority[x[1]] + 1 > b
ShiftedUp(bits) == {b + 1 : b \in bits} \cap 0 .. Width - 1

Listed(keys) == {x \in Range(list) : x[1] \in keys}
Earliest(places) ==
  IF places = {} THEN NIL ELSE list[CHOOSE i \in places : \A j \in places : i <= j]
FirstOf(keys) == Earliest({i \in DOMAIN list : list[i][1] \in keys})
Found(key) == FirstOf({key})
After(x, keys) ==
  Earliest({i \in DOMAIN list : list[i][1] \in keys /\ \E j \in 1 .. i - 1 : list[j] = x})

Unlisted(key) == {r \in Record : <<key, r>> \notin Range(list)}
MayAdd(key) == (Found(key) = NIL \/ Found(key) \in doomed) /\ Unlisted(key) # {}
\* _DPSNewListItem puts it in front.
Add(key) == list' = <<<<key, CHOOSE r \in Unlisted(key) : TRUE>>>> \o list
\* _DPSRemoveListItem
Unlink(x) ==
  \E i \in DOMAIN list :
    list[i] = x /\ list' = SubSeq(list, 1, i - 1) \o SubSeq(list, i + 1, Len(list))

\* An item that somebody up the stack has a pointer to is freed when his proc
\* returns.
RemoveItem(x) ==
  IF x \in InUse THEN doomed' = doomed \cup {x} /\ UNCHANGED list
  ELSE Unlink(x) /\ UNCHANGED doomed

-----------------------------------------------------------------------------
(* The event queue.  An element is its address, its context and its type.     *)

Address == 1 .. MaxQueue
Used == {queue[i].addr : i \in DOMAIN queue}
IsIn(f, e) == e.type \in f.mask /\ e.ctxt \in f.ctxs

\* Of the queue, what is at these positions stays, in its order.
Keep(places) ==
  \E f \in [1 .. Cardinality(places) -> places] :
    /\ \A i, j \in DOMAIN f : i < j => f[i] < f[j]
    /\ queue' = [i \in DOMAIN f |-> queue[f[i]]]

\* _DPSGetQEntry
Matching(q, f) ==
  LET hits == {i \in DOMAIN q : IsIn(f, q[i])}
  IN IF hits = {} THEN NIL ELSE q[CHOOSE i \in hits : \A j \in hits : i <= j].addr

\* Mutant of Refreshed: the event found before the procs ran is kept.
RefreshedNever(f) == lastEvent

\* If procs were called, the event to return is looked up again.
Refreshed(f) == IF f.called THEN Matching(queue, f.get) ELSE lastEvent
Settled(f) == IF f.called THEN [f EXCEPT !.called = FALSE, !.meddled = FALSE] ELSE f

\* condenseQ: of two neighbours of one context that combine, the first goes.
Combines(i) ==
  i < Len(queue) /\ queue[i].type = "drag" /\ queue[i + 1].ctxt = queue[i].ctxt
CondenseQ == Keep({i \in DOMAIN queue : ~Combines(i)})

\* filterAndQueueEvent, behind the event proc.
Coalesces(e) ==
  /\ queue # <<>> /\ tracking
  /\ e.type = "drag" /\ queue[Len(queue)].type = "drag"
Queued(e, addr) ==
  IF Coalesces(e)
  THEN [queue EXCEPT ![Len(queue)].ctxt = e.ctxt]
  ELSE Append(queue, [addr |-> addr, ctxt |-> e.ctxt, type |-> e.type])
QueueEvent(e, f) ==
  \E addr \in IF Coalesces(e) THEN {queue[Len(queue)].addr} ELSE Address \ Used :
    /\ queue' = Queued(e, addr)
    /\ lastEvent' = IF e.type \in f.mask /\ lastEvent = NIL THEN addr ELSE lastEvent

\* Whatever an event proc does to the queue, the call below will not notice.
Meddled(s) ==
  LET n == Len(s) IN
  IF s[n].kind = "prog" /\ s[n].event # NIL THEN [s EXCEPT ![n - 1].meddled = TRUE] ELSE s

-----------------------------------------------------------------------------
(* _DPSGetOrPeekEvent.                                                      *)

\* fixMainSet for the innermost call; if it changes anything, MainSetCount is no
\* longer what the others remember.
Wanted(bits) == {x \in Listed(Port) : Above(x, bits) /\ x \notin InUse}
FixMainSet(s, f, bits) ==
  /\ mainPorts' = Wanted(bits) /\ mainCtx' = f.get.ctxs
  /\ stack' = Append(IF mainPorts = Wanted(bits) /\ mainCtx = f.get.ctxs THEN s ELSE AllStale(s),
                     [f EXCEPT !.stale = FALSE])

\* Mutant of FirstFD: a call does not look at the fds before it waits.
NoFD(g) == NIL

\* Where checkFDs begins when a call is made.
FirstFD(g) == FirstOf(FD)

ProcsRunnable(bits) == \E x \in Range(list) : Above(x, bits)

GetEvent(g) ==
  LET found == Matching(queue, g)
      final == queue # <<>> /\ found = queue[Len(queue)].addr
      mayGrow == final /\ queue[Len(queue)].type = "drag" /\ tracking
      f == [Call(g) EXCEPT !.at = FirstFD(g)]
  IN
  /\ Runs("get") /\ Cardinality(Gets) < MaxDepth
  /\ thr' = Hardened(g.arg)
  /\ lastEvent' = found
  /\ IF found = NIL \/ mayGrow \/ ProcsRunnable(thr')
     THEN FixMainSet(Meddled(stack), f, thr')
     ELSE /\ stack' = Append(Meddled(stack), [f EXCEPT !.pc = "return"])
          /\ UNCHANGED mainVars
  /\ UNCHANGED <<libVars, selVars, worldVars, queue, tracking, scenario>>

InCall(pc) == IsGet(top) /\ top.pc = pc

\* One item of checkFDs' or checkTEs' loop.
Ready(x) ==
  /\ x \notin InUse \cup doomed /\ Above(x, thr)
  /\ IF x[1] \in FD THEN x[1] \in active ELSE x \in due
Visit(pc, keys) ==
  /\ InCall(pc) /\ top.at # NIL
  /\ stack' = IF Ready(top.at) THEN Pushed(Prog(top.at))
              ELSE WithTop([top EXCEPT !.at = After(top.at, keys)])
  /\ UNCHANGED <<thr, libVars, mainVars, selVars, worldVars, eventVars, scenario>>
CheckFDs == Visit("fds0", FD) \/ Visit("fds", FD)
CheckTEs == Visit("tes", Timer)

Go(f, pc) == [Settled(f) EXCEPT !.pc = pc, !.first = TRUE]
FDsChecked0 ==
  /\ InCall("fds0") /\ top.at = NIL
  /\ lastEvent' = Refreshed(top)
  /\ stack' = WithTop(Go(top, "recv"))
  /\ UNCHANGED <<thr, libVars, mainVars, selVars, worldVars, queue, tracking, scenario>>

\* After a proc changed the main set.
FixAgain ==
  /\ InCall("recv") /\ top.stale
  /\ FixMainSet(Outer(1), top, thr)
  /\ UNCHANGED <<thr, libVars, selVars, worldVars, eventVars, scenario>>

Receives == InCall("recv") /\ ~top.stale
Received(f) == [f EXCEPT !.first = FALSE]

\* The message of the select thread is dropped; checkFDs is to look.
ReceiveSignal ==
  /\ Receives /\ selMsg
  /\ selMsg' = FALSE
  /\ stack' = Append(OfCalls(Outer(1), LAMBDA f : [f EXCEPT !.swallowed = TRUE]), Received(top))
  /\ UNCHANGED <<thr, libVars, mainVars, sel, reply, worldVars, eventVars, scenario>>

ReceiveForPort(x) ==
  /\ Receives /\ x \in mainPorts /\ x[1] \in mail
  /\ mail' = mail \ {x[1]}
  /\ stack' = Append(WithTop(Received(top)), Prog(x))
  /\ UNCHANGED <<thr, libVars, mainVars, selVars, data, sent, due, eventVars, scenario>>

ReceiveEvent(c) ==
  LET e == [ctxt |-> c, type |-> sent[c]] IN
  /\ Receives /\ c \in mainCtx /\ sent[c] # NIL
  /\ sent' = [sent EXCEPT ![c] = NIL]
  /\ IF c \in Filtered
     THEN /\ stack' = Append(WithTop(Received(top)), Filter(e))
          /\ UNCHANGED <<queue, lastEvent>>
     ELSE /\ stack' = WithTop(Received(top))
          /\ QueueEvent(e, top.get)
  /\ UNCHANGED <<thr, libVars, mainVars, selVars, data, mail, due, tracking, scenario>>

NoMessage ==
  /\ ~selMsg
  /\ \A x \in mainPorts : x[1] \notin mail
  /\ \A c \in mainCtx : sent[c] = NIL
\* A timed entry bounds the wait whether or not it is in use.
Bounded == \E x \in due : Above(x, thr)
TimedOut ==
  /\ Receives /\ NoMessage
  /\ ~top.first \/ lastEvent # NIL \/ ~top.get.forever \/ Bounded
  /\ stack' = WithTop([top EXCEPT !.pc = "after"])
  /\ UNCHANGED <<thr, libVars, mainVars, selVars, worldVars, eventVars, scenario>>

\* With an event found, procs of the same priority are not called any more.
AfterMessages ==
  LET found == Refreshed(top)
      f == [Settled(top) EXCEPT !.pc = "tes", !.at = FirstOf(Timer)]
  IN
  /\ InCall("after")
  /\ lastEvent' = found
  /\ thr' = IF found = NIL THEN thr ELSE ShiftedUp(thr)
  /\ stack' = WithTop(IF found = NIL THEN f ELSE [f EXCEPT !.hiked = TRUE])
  /\ UNCHANGED <<libVars, mainVars, selVars, worldVars, queue, tracking, scenario>>
TEsChecked ==
  /\ InCall("tes") /\ top.at = NIL
  /\ stack' = WithTop([top EXCEPT !.pc = "fds", !.at = FirstOf(FD), !.swallowed = FALSE])
  /\ UNCHANGED <<thr, libVars, mainVars, selVars, worldVars, eventVars, scenario>>
FDsChecked ==
  LET found == Refreshed(top) IN
  /\ InCall("fds") /\ top.at = NIL
  /\ lastEvent' = found
  /\ \/ stack' = WithTop(Go(top, "return")) /\ (found # NIL \/ ~top.get.forever)
     \/ stack' = WithTop(Go(top, "recv")) /\ found = NIL
  /\ UNCHANGED <<thr, libVars, mainVars, selVars, worldVars, queue, tracking, scenario>>

\* _DPSRemoveQEntry looks for the address.
Return ==
  /\ InCall("return")
  /\ thr' = top.prev
  /\ stack' = Outer(1)
  /\ IF top.get.peek THEN UNCHANGED queue
     ELSE Keep({i \in DOMAIN queue : queue[i].addr # lastEvent})
  /\ UNCHANGED <<libVars, mainVars, selVars, worldVars, lastEvent, tracking, scenario>>

-----------------------------------------------------------------------------
(* The end of a proc.                                                      *)

InProc == top.kind = "prog" /\ top.pc = "run" /\ top.item # NIL
Freed(x) == Unlink(x) /\ doomed' = doomed \ {x}
LateWithout(x) == late' = late \ {x}

\* It is freed if it was removed meanwhile; else an fd is selected on again, and
\* a timed entry gets its next time.
Finish(x) ==
  IF x \in doomed
  THEN Freed(x) /\ LateWithout(x) /\ UNCHANGED <<waiting, active, pipe, due>>
  ELSE IF x[1] \in FD
  THEN /\ waiting' = waiting \cup {x[1]} /\ active' = active \ {x[1]}
       /\ pipe' = pipe \cup {"simple"} /\ LateWithout(x)
       /\ UNCHANGED <<list, doomed, due>>
  ELSE /\ due' = due \ {x}
       /\ UNCHANGED libVars

\* Behind a port's proc, the group of messages ends; behind another, the loop
\* over the list goes on.
Called(f, x) ==
  IF x[1] \in Port THEN [f EXCEPT !.called = TRUE, !.pc = "after"]
  ELSE [f EXCEPT !.called = TRUE, !.at = After(x, IF x[1] \in FD THEN FD ELSE Timer)]

ProcReturns ==
  /\ InProc
  /\ Finish(top.item)
  /\ stack' = Append(Outer(2), Called(below, top.item))
  /\ UNCHANGED <<thr, mainVars, selVars, data, mail, sent, eventVars, scenario>>

\* An exception ends the call too, and reaches the program that made it.
ProcRaises ==
  /\ InProc /\ Runs("raise")
  /\ Finish(top.item)
  /\ thr' = below.prev
  /\ stack' = Outer(2)
  /\ UNCHANGED <<mainVars, selVars, data, mail, sent, eventVars, scenario>>

FilterReturns ==
  /\ top.kind = "prog" /\ top.pc = "run" /\ top.event # NIL
  /\ stack' = Outer(1)
  /\ \/ QueueEvent(top.event, below.get)
     \/ UNCHANGED <<queue, lastEvent>>
  /\ UNCHANGED <<thr, libVars, mainVars, selVars, worldVars, tracking, scenario>>

-----------------------------------------------------------------------------
(* What else programs and procs do.                                         *)

ReadFD ==
  /\ InProc /\ top.item[1] \in data /\ top.item \notin doomed
  /\ data' = data \ {top.item[1]}
  /\ UNCHANGED <<stack, thr, libVars, mainVars, selVars, mail, sent, due, eventVars, scenario>>

DPSAddFD(fd) ==
  /\ Runs("add") /\ MayAdd(fd) /\ Add(fd)
  /\ waiting' = waiting \cup {fd} /\ pipe' = pipe \cup {"simple"}
  /\ late' = late \cup {x \in {Head(list')} : sel.pc = "apply" /\ fd \in sel.mask}
  /\ UNCHANGED <<stack, thr, doomed, active, mainVars, selVars, worldVars, eventVars, scenario>>

\* It waits for the select thread to let go of the fd; then its caller may close
\* it and open another of the same number.
DPSRemoveFD(fd) ==
  /\ Runs("remove") /\ Found(fd) # NIL
  /\ waiting' = waiting \ {fd} /\ active' = active \ {fd}
  /\ pipe' = pipe \cup {"rpc"}
  /\ stack' = WithTop([top EXCEPT !.pc = "reply", !.fd = fd])
  /\ UNCHANGED <<thr, list, doomed, late, mainVars, selVars, worldVars, eventVars, scenario>>
FDRemoved ==
  LET x == Found(top.fd) IN
  /\ top.kind = "prog" /\ top.pc = "reply" /\ reply
  /\ reply' = FALSE
  /\ RemoveItem(x) /\ LateWithout(x)
  /\ data' = data \ {top.fd}
  /\ stack' = WithTop([top EXCEPT !.pc = "run", !.fd = NIL])
  /\ UNCHANGED <<thr, waiting, active, pipe, mainVars, sel, selMsg, mail, sent, due,
                 eventVars, scenario>>

DPSAddPort(p) ==
  /\ Runs("add") /\ MayAdd(p) /\ Add(p)
  /\ stack' = AllStale(stack)
  /\ UNCHANGED <<thr, doomed, waiting, active, pipe, late, mainVars, selVars, worldVars,
                 eventVars, scenario>>
DPSRemovePort(p) ==
  LET x == Found(p) IN
  /\ Runs("remove") /\ x # NIL
  /\ mainPorts' = mainPorts \ {x}
  /\ RemoveItem(x)
  /\ UNCHANGED <<stack, thr, waiting, active, pipe, late, mainCtx, selVars, worldVars,
                 eventVars, scenario>>

DPSAddTimedEntry(t) ==
  /\ Runs("add") /\ Unlisted(t) # {} /\ Add(t)
  /\ UNCHANGED <<stack, thr, doomed, waiting, active, pipe, late, mainVars, selVars, worldVars,
                 eventVars, scenario>>
DPSRemoveTimedEntry(x) ==
  /\ Runs("remove") /\ x \in Listed(Timer)
  /\ RemoveItem(x)
  /\ due' = IF x \in InUse THEN due ELSE due \ {x}
  /\ UNCHANGED <<stack, thr, waiting, active, pipe, late, mainVars, selVars, data, mail, sent,
                 eventVars, scenario>>

DPSPostEvent(e, atStart) ==
  /\ Runs("post") /\ Len(queue) < MaxQueue
  /\ \E addr \in Address \ Used :
       LET new == [addr |-> addr, ctxt |-> e.ctxt, type |-> e.type] IN
       queue' = IF atStart THEN <<new>> \o queue ELSE Append(queue, new)
  /\ stack' = Meddled(stack)
  /\ UNCHANGED <<thr, libVars, mainVars, selVars, worldVars, lastEvent, tracking, scenario>>

DPSDiscardEvents(f) ==
  /\ Runs("discard")
  /\ Keep({i \in DOMAIN queue : ~IsIn(f, queue[i])})
  /\ stack' = Meddled(stack)
  /\ UNCHANGED <<thr, libVars, mainVars, selVars, worldVars, lastEvent, tracking, scenario>>

DPSSetTracking(flag) ==
  /\ Runs("track") /\ tracking # flag
  /\ tracking' = flag
  /\ IF flag THEN CondenseQ ELSE UNCHANGED queue
  /\ stack' = Meddled(stack)
  /\ UNCHANGED <<thr, libVars, mainVars, selVars, worldVars, lastEvent, scenario>>

-----------------------------------------------------------------------------
(* selectLoop.                                                              *)

SelCopy ==
  /\ sel.pc = "copy"
  /\ sel' = [pc |-> "select", mask |-> waiting]
  /\ UNCHANGED <<stack, thr, libVars, mainVars, selMsg, reply, worldVars, eventVars, scenario>>

SelReturns ==
  LET ready == sel.mask \cap data IN
  /\ sel.pc = "select" /\ (ready # {} \/ pipe # {})
  /\ sel' = [pc |-> IF pipe # {} THEN "drain" ELSE "apply", mask |-> ready]
  /\ UNCHANGED <<stack, thr, libVars, mainVars, selMsg, reply, worldVars, eventVars, scenario>>

\* The reply goes out before the mask is applied.
SelDrain ==
  /\ sel.pc = "drain"
  /\ pipe' = {}
  /\ reply' = (reply \/ "rpc" \in pipe)
  /\ sel' = [sel EXCEPT !.pc = IF sel.mask = {} THEN "copy" ELSE "apply"]
  /\ UNCHANGED <<stack, thr, list, doomed, waiting, active, late, mainVars, selMsg,
                 worldVars, eventVars, scenario>>

\* Mutant of Legit: what was selected counts although it was removed meanwhile.
LegitAnyway == sel.mask

\* The fds of the mask that are still waited for.
Legit == sel.mask \cap waiting
SelApply ==
  /\ sel.pc = "apply"
  /\ waiting' = waiting \ Legit /\ active' = active \cup Legit
  /\ sel' = [sel EXCEPT !.pc = "send"]
  /\ UNCHANGED <<stack, thr, list, doomed, pipe, late, mainVars, selMsg, reply, worldVars,
                 eventVars, scenario>>

\* SEND_TIMEOUT with a full queue: one message is enough.
SelSend ==
  /\ sel.pc = "send"
  /\ selMsg' = TRUE
  /\ sel' = [pc |-> "copy", mask |-> {}]
  /\ UNCHANGED <<stack, thr, libVars, mainVars, reply, worldVars, eventVars, scenario>>

SelectLoop == SelCopy \/ SelReturns \/ SelDrain \/ SelApply \/ SelSend

-----------------------------------------------------------------------------
(* Clients of the fds and ports, the server, and time.                       *)

DataArrives(fd) ==
  /\ Found(fd) # NIL /\ fd \notin data
  /\ data' = data \cup {fd}
  /\ UNCHANGED <<stack, thr, libVars, mainVars, selVars, mail, sent, due, eventVars, scenario>>
MailArrives(p) ==
  /\ p \notin mail /\ Found(p) # NIL
  /\ mail' = mail \cup {p}
  /\ UNCHANGED <<stack, thr, libVars, mainVars, selVars, data, sent, due, eventVars, scenario>>
ServerSends(c, type) ==
  /\ sent[c] = NIL /\ Len(queue) < MaxQueue
  /\ sent' = [sent EXCEPT ![c] = type]
  /\ UNCHANGED <<stack, thr, libVars, mainVars, selVars, data, mail, due, eventVars, scenario>>
TimePasses(x) ==
  /\ x \in Listed(Timer) \ due
  /\ due' = due \cup {x}
  /\ UNCHANGED <<stack, thr, libVars, mainVars, selVars, data, mail, sent, eventVars, scenario>>

-----------------------------------------------------------------------------
Init ==
  /\ scenario \in Scenarios
  /\ stack = <<Prog(NIL)>> /\ thr = {}
  /\ list = scenario.list /\ doomed = {} /\ late = {}
  /\ mainPorts = {} /\ mainCtx = {}
  /\ waiting = {x[1] : x \in Listed(FD)} /\ active = {} /\ pipe = {}
  /\ sel = [pc |-> "copy", mask |-> {}] /\ selMsg = FALSE /\ reply = FALSE
  /\ data = {} /\ mail = {} /\ sent = [c \in Ctx |-> NIL] /\ due = {}
  /\ queue = <<>> /\ lastEvent = NIL /\ tracking = FALSE

EventLoop ==
  \/ CheckFDs \/ CheckTEs \/ FDsChecked0 \/ FixAgain
  \/ ReceiveSignal \/ TimedOut \/ AfterMessages \/ TEsChecked \/ FDsChecked \/ Return
  \/ \E x \in Range(list) : ReceiveForPort(x)
  \/ \E c \in Ctx : ReceiveEvent(c)

Program ==
  \/ \E g \in uses.gets : GetEvent(g) \/ DPSDiscardEvents(g)
  \/ ProcReturns \/ ProcRaises \/ FilterReturns \/ ReadFD \/ FDRemoved
  \/ \E fd \in FD \cap uses.keys : DPSAddFD(fd) \/ DPSRemoveFD(fd)
  \/ \E p \in Port \cap uses.keys : DPSAddPort(p) \/ DPSRemovePort(p)
  \/ \E t \in Timer \cap uses.keys : DPSAddTimedEntry(t)
  \/ \E x \in Listed(uses.keys) : DPSRemoveTimedEntry(x)
  \/ \E c \in Ctx, type \in Type, atStart \in BOOLEAN :
       DPSPostEvent([ctxt |-> c, type |-> type], atStart)
  \/ \E flag \in BOOLEAN : DPSSetTracking(flag)

World ==
  \/ \E fd \in FD : DataArrives(fd)
  \/ \E p \in Port : MailArrives(p)
  \/ \E c \in scenario.servers, type \in Type : ServerSends(c, type)
  \/ \E x \in Range(list) : TimePasses(x)

Next == EventLoop \/ Program \/ SelectLoop \/ World

Spec == Init /\ [][Next]_vars

-----------------------------------------------------------------------------
(* Properties.                                                              *)

TypeOK ==
  /\ \A i \in DOMAIN stack :
       LET f == stack[i] IN
       \/ /\ IsGet(f) /\ f.prev \subseteq 0 .. Width - 1 /\ f.at \in Item \cup {NIL}
          /\ f.pc \in {"fds0", "recv", "after", "tes", "fds", "return"}
       \/ ~IsGet(f) /\ f.item \in Item \cup {NIL} /\ f.pc \in {"run", "reply"}
  /\ thr \subseteq 0 .. Width - 1
  /\ list \in Seq(Item) /\ IsInjective(list)
  /\ doomed \subseteq InUse /\ InUse \subseteq Range(list)
  /\ mainPorts \subseteq Listed(Port) /\ mainCtx \subseteq Ctx
  /\ waiting \cup active \cup sel.mask \subseteq FD
  /\ sel.pc \in {"copy", "select", "drain", "apply", "send"}
  /\ \A i, j \in DOMAIN queue : queue[i].addr = queue[j].addr => i = j
  /\ lastEvent \in Address \cup {NIL}

(* No proc is called whose priority is lower than the threshold of a call it    *)
(* runs in, through any nesting and exceptions, nor while it is running; except *)
(* that the bit of the highest threshold is shifted out when an event is found. *)
ThresholdObeyed ==
  /\ TypeOK
  /\ \A j \in DOMAIN stack \ Gets : stack[j].item # NIL =>
       /\ \A k \in 1 .. j - 1 \ Gets : stack[k].item # stack[j].item
       /\ \A i \in Gets : i < j /\ Priority[stack[j].item[1]] < stack[i].get.arg =>
            stack[i].get.arg = Width - 1 /\ \E k \in Gets : stack[k].hiked

Waits == Receives /\ top.first /\ lastEvent = NIL /\ NoMessage
Minded(x) == x \notin InUse \cup doomed /\ Above(x, top.prev \cup {top.get.arg})

(* "we could go sit in msg_receive and ignore them forever" (input.c:192): a call *)
(* that waits is told of data for the procs it may call.  It is not if a nested *)
(* call received what the select thread said of an fd that the loop had passed,  *)
(* or if its threshold was raised for an event that a proc then took.         *)
NothingIgnored ==
  Waits => \A x \in Listed(FD) : Minded(x) /\ x[1] \in data =>
    \/ sel.pc = "send"
    \/ x[1] \in waiting /\ (sel.pc # "select" \/ x[1] \in sel.mask \/ pipe # {})
    \/ x[1] \in active /\ (top.swallowed \/ top.hiked)

(* What a call returns is in the queue and is what was asked for, and it does not *)
(* wait while there is such an event, although procs and the calls they make    *)
(* add, take, discard and combine events; but not if an event proc did.       *)
EventNoticed ==
  /\ Waits => top.meddled \/ Matching(queue, top.get) = NIL
  /\ InCall("return") /\ lastEvent # NIL =>
       top.meddled \/ \E i \in DOMAIN queue : queue[i].addr = lastEvent /\ IsIn(top.get, queue[i])

(* A proc is called for an fd that has data, although fds are removed, closed,   *)
(* opened and added while the select thread looks at them; except one added     *)
(* while that thread held a mask from before (it replies before it applies it). *)
CalledForData ==
  [][\A x \in InUse' \ InUse : x[1] \in FD => x[1] \in data \/ x \in late]_vars
=============================================================================
