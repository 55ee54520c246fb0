---------------------------- MODULE IPCScheduler ----------------------------
(***************************************************************************)
(* The scheduler of the window server and the messages it hands to the      *)
(* contexts (ipcscheduler.c, ipcscheduler.h), with the coroutines that ask   *)
(* it for messages: the input side of a PostScript context (ipcstream.c), a  *)
(* printer device's call to its client (machportdevice.c) and a window       *)
(* bitmap context (wbcontext.c).                                            *)
(*                                                                         *)
(* Control is in one coroutine or in the scheduler, so a step runs from one  *)
(* ContextYield to the next.  A message is the pair of the port it was sent  *)
(* to and its number; its bytes are not modelled.                           *)
(***************************************************************************)
EXTENDS Integers, FiniteSets, Sequences

CONSTANTS
  Context,     \* the scheduler contexts, all created before the run begins
  Created,     \* contextList at the start, the last created first
  SpaceOf,     \* the PostScript space of a context
  NIL,
  MaxMsg,      \* bound: MaxMsg[c], the messages the client of c sends
  MaxBuf,      \* bound: SchedulerMsg buffers allocated at once
  Instances    \* [kind, ops]: kind[c] is "ps" or "wb" (psc->type), and ops the
               \* operations beyond reading that happen

ASSUME SchedulerAssumption ==
  /\ Created \in Seq(Context) /\ Context = {Created[i] : i \in DOMAIN Created}
  /\ \A i, j \in DOMAIN Created : Created[i] = Created[j] => i = j
  /\ MaxBuf \in Nat
  /\ NIL \notin Context /\ NIL \notin 1 .. MaxBuf
  /\ \A i \in Instances :
       /\ i.kind \in [Context -> {"ps", "wb"}]
       /\ i.ops \subseteq {"rpc", "out", "wait", "save", "die", "dirty", "printer"}

VARIABLES
  list,        \* contextList
  cur,         \* currentSchedulerContext
  running,     \* TRUE inside cur's coroutine
  loaded,      \* currentPSContext
  wannaRun, printerContext, waitMsg, waitNotify, restricted,
               \* the contexts with that bit of their scheduler record set
  inputPort,   \* inputPort[c]
  slot,        \* slot[c]: what *msgPtrP holds, a buffer or NIL for a port number
  freeMsg,     \* the free list of one
  heap,        \* the buffers not allocated
  contents,    \* contents[b]: the message last received in buffer b
  enabled,     \* ports the kernel receives from when asked for any message
  queue,       \* queue[p]: messages queued on port p
  sent,        \* sent[c]: messages the client of c has sent
  notices,     \* messages queued on notifyPort
  owed,        \* contexts whose client's queue was full: SEND_WILL_NOTIFY
  gone,        \* contexts whose client has died
  at,          \* at[c]: where c's coroutine is suspended ("run" = it is not)
  stmMsg,      \* stmMsg[c]: the message c's input stream is reading
  notified,    \* contexts with a terminate pending
  dirtyShmem,  \* window bitmap contexts with that flag
  exclusive,   \* exclusive[s]: the context that made a save in space s
  got,         \* history: the messages c has taken for input
  instance     \* which of the Instances this is; it never changes

schedVars == <<list, loaded, printerContext>>
portVars == <<restricted, inputPort, enabled>>
bufVars == <<freeMsg, heap, contents>>
worldVars == <<queue, sent, notices, owed, gone>>
ctxVars == <<notified, dirtyShmem, exclusive>>
vars == <<list, cur, running, loaded, wannaRun, printerContext, waitMsg,
          waitNotify, restricted, inputPort, slot, freeMsg, heap, contents,
          enabled, queue, sent, notices, owed, gone, at, stmMsg, notified,
          dirtyShmem, exclusive, got, instance>>

In(c) == <<c, "in">>
Reply(c) == <<c, "reply">>
Port == Context \X {"in", "reply"}
Buf == 1 .. MaxBuf
NoMsg == <<NIL, 0>>
Asks == {"read", "rpc", "wb"}      \* suspended in a yield for a message
Alive == {list[i] : i \in DOMAIN list}

Init ==
  /\ list = Created
  /\ cur = NIL
  /\ running = FALSE
  /\ loaded = NIL
  /\ wannaRun = Context
  /\ printerContext = {}
  /\ waitMsg = {}
  /\ waitNotify = {}
  /\ restricted = {}
  /\ inputPort = [c \in Context |-> NoMsg]
  /\ slot = [c \in Context |-> NIL]
  /\ freeMsg = NIL
  /\ heap = Buf
  /\ contents = [b \in Buf |-> NoMsg]
  /\ enabled = {}
  /\ queue = [p \in Port |-> <<>>]
  /\ sent = [c \in Context |-> 0]
  /\ notices = <<>>
  /\ owed = {}
  /\ gone = {}
  /\ at = [c \in Context |-> "new"]
  /\ stmMsg = [c \in Context |-> NIL]
  /\ notified = {}
  /\ dirtyShmem = {}
  /\ exclusive = [c \in {SpaceOf[d] : d \in Context} |-> NIL]
  /\ got = [c \in Context |-> <<>>]
  /\ instance \in Instances

-----------------------------------------------------------------------------
(* The message buffers.                                                     *)

\* malloc hands out a buffer that is not in use.
Fresh(h) == CHOOSE b \in h : \A d \in h : b <= d

\* Mutant of ReleaseMsg: a second free buffer is forgotten.
ReleaseLeaks(b) ==
  (IF freeMsg = NIL THEN freeMsg' = b ELSE UNCHANGED freeMsg) /\ UNCHANGED heap

\* ReleaseMsg(b): kept for the next AcquireMsg, or freed.
ReleaseMsg(b) ==
  IF freeMsg = NIL THEN freeMsg' = b /\ UNCHANGED heap
                   ELSE heap' = heap \cup {b} /\ UNCHANGED freeMsg

-----------------------------------------------------------------------------
(* What the clients and the Mach kernel do.                                 *)

world == <<list, cur, running, loaded, wannaRun, printerContext, waitMsg,
           waitNotify, restricted, inputPort, slot, freeMsg, heap, contents,
           enabled, at, stmMsg, notified, dirtyShmem, exclusive, got, instance>>

Send(c) ==
  /\ c \in Alive \ gone /\ sent[c] < MaxMsg[c]
  /\ sent' = [sent EXCEPT ![c] = @ + 1]
  /\ queue' = [queue EXCEPT ![In(c)] = Append(@, <<In(c), sent[c] + 1>>)]
  /\ UNCHANGED <<world, notices, owed, gone>>

\* The client of a printer context answers a call it has not answered yet.
Answer(c) ==
  /\ c \in Alive \ gone /\ at[c] = "rpc" /\ c \in waitMsg
  /\ queue[Reply(c)] = <<>>
  /\ queue' = [queue EXCEPT ![Reply(c)] = <<<<Reply(c), 1>>>>]
  /\ UNCHANGED <<world, sent, notices, owed, gone>>

\* The client reads: the kernel tells the server its message was accepted.
Accept(c) ==
  /\ c \in owed
  /\ owed' = owed \ {c}
  /\ notices' = Append(notices, <<"accepted", c>>)
  /\ UNCHANGED <<world, queue, sent, gone>>

ClientDies(c) ==
  /\ "die" \in instance.ops /\ c \in Alive \ gone
  /\ gone' = gone \cup {c}
  /\ owed' = owed \ {c}
  /\ notices' = Append(notices, <<"deleted", c>>)
  /\ UNCHANGED <<world, queue, sent>>

-----------------------------------------------------------------------------
(* The scheduler.                                                           *)

\* PickContext goes round the list, from the context after the last to run, or
\* from the second of the list: how many it looks at before c.
Position(c) == CHOOSE i \in DOMAIN list : list[i] = c
Turns(c) ==
  LET last == IF cur = NIL THEN 1 ELSE Position(cur)
  IN (Position(c) + Len(list) - last - 1) % Len(list)

\* PickContext(wanting) finds c: a printer context yields its turn to any other,
\* once.
Plain(want) == want \ printerContext
Picked(c, want) ==
  LET S == IF Plain(want) = {} THEN want ELSE Plain(want)
  IN c \in S /\ \A d \in S : Turns(c) <= Turns(d)

\* Mutant of Passed: the search clears no bit.
PassedKeepsBits(c, want) == {}

\* The printer bits the search clears on its way to c: of all, or of those it
\* meets before.
Passed(c, want) ==
  IF Plain(want) = {} THEN want ELSE {d \in want : Turns(d) < Turns(c)}

\* NSLoadContext: the kernel refuses to switch to a context while another of
\* its space has a save outstanding, and what is loaded runs instead.
Loaded(c) ==
  IF instance.kind[c] = "ps" /\ exclusive[SpaceOf[c]] \notin {NIL, c} THEN loaded ELSE c

\* A context of `want' gets control; port is the context whose input port is
\* still to be restricted, if any.
Dispatch(want, port) ==
  \E picked \in want : LET c == Loaded(picked) IN
    /\ Picked(picked, want)
    /\ c # NIL
    /\ printerContext' = printerContext \ Passed(picked, want)
    /\ cur' = c
    /\ running' = TRUE
    /\ loaded' = IF instance.kind[c] = "ps" THEN c ELSE loaded
    /\ wannaRun' = want \ {c}
    /\ IF port # NIL /\ port # c /\ port \notin restricted
       THEN /\ restricted' = restricted \cup {port}
            /\ enabled' = enabled \ {inputPort[port]}
       ELSE UNCHANGED <<restricted, enabled>>

\* Nobody is runnable: the scheduler goes back to msg_receive.
Sleep(want) ==
  /\ want = {}
  /\ UNCHANGED <<printerContext, cur, running, loaded, wannaRun, restricted, enabled>>

Pass(want, port) == IF want = {} THEN Sleep(want) ELSE Dispatch(want, port)

\* AcquireMsg, and the ReleaseMsg of a buffer nobody got; m is what was
\* received in it, or NoMsg.
Acquired == IF freeMsg # NIL THEN freeMsg ELSE Fresh(heap)

\* Mutant of Received: AcquireMsg does not empty the free list.
ReceivedKeepsFree(m, used) ==
  /\ freeMsg # NIL \/ heap # {}
  /\ contents' = IF m = NoMsg THEN contents ELSE [contents EXCEPT ![Acquired] = m]
  /\ freeMsg' = Acquired
  /\ heap' = heap \ {Acquired}

Received(m, used) ==
  /\ freeMsg # NIL \/ heap # {}
  /\ contents' = IF m = NoMsg THEN contents ELSE [contents EXCEPT ![Acquired] = m]
  /\ freeMsg' = IF used THEN NIL ELSE Acquired
  /\ heap' = heap \ {Acquired}

\* HandleDataMsg: the contexts waiting on port p, the first of which in the list,
\* c, gets what arrived there.
Waiter(p) == {c \in waitMsg \cap Alive : inputPort[c] = p}
IsFirst(c, S) == c \in S /\ \A d \in S : Position(c) <= Position(d)

\* Mutant of RunData: the port of a context that does not run next is not
\* restricted.
RunDataUnrestricted(p) ==
  /\ ~running /\ p \in enabled /\ queue[p] # <<>>
  /\ queue' = [queue EXCEPT ![p] = Tail(@)]
  /\ IF Waiter(p) = {}
     THEN /\ Received(Head(queue[p]), FALSE)
          /\ Pass(wannaRun, NIL)
          /\ UNCHANGED <<waitMsg, slot>>
     ELSE \E c \in Context :
          /\ IsFirst(c, Waiter(p))
          /\ Received(Head(queue[p]), TRUE)
          /\ waitMsg' = waitMsg \ {c}
          /\ slot' = [slot EXCEPT ![c] = Acquired]
          /\ Dispatch(wannaRun \cup {c}, NIL)
  /\ UNCHANGED <<list, waitNotify, inputPort, sent, notices, owed, gone, at,
                 stmMsg, ctxVars, got, instance>>

\* One turn of SelectPSContext and Scheduler that receives a data message.
RunData(p) ==
  /\ ~running /\ p \in enabled /\ queue[p] # <<>>
  /\ queue' = [queue EXCEPT ![p] = Tail(@)]
  /\ IF Waiter(p) = {}
     THEN /\ Received(Head(queue[p]), FALSE)
          /\ Pass(wannaRun, NIL)
          /\ UNCHANGED <<waitMsg, slot>>
     ELSE \E c \in Context :
          /\ IsFirst(c, Waiter(p))
          /\ Received(Head(queue[p]), TRUE)
          /\ waitMsg' = waitMsg \ {c}
          /\ slot' = [slot EXCEPT ![c] = Acquired]
          /\ Dispatch(wannaRun \cup {c}, c)
  /\ UNCHANGED <<list, waitNotify, inputPort, sent, notices, owed, gone, at,
                 stmMsg, ctxVars, got, instance>>

\* One that receives a notification: HandleNotifyMsg.
RunNotice ==
  /\ ~running /\ notices # <<>>
  /\ notices' = Tail(notices)
  /\ Received(Head(notices), FALSE)
  /\ LET c == Head(notices)[2] IN
     IF c \notin Alive
     THEN Pass(wannaRun, NIL) /\ UNCHANGED <<notified, waitNotify>>
     ELSE IF Head(notices)[1] = "deleted"
     THEN /\ notified' = notified \cup {c}
          /\ Pass(wannaRun \cup {c}, NIL)
          /\ UNCHANGED waitNotify
     ELSE /\ waitNotify' = waitNotify \ {c}
          /\ Pass(wannaRun \cup ({c} \cap waitNotify), NIL)
          /\ UNCHANGED notified
  /\ UNCHANGED <<list, waitMsg, inputPort, slot, queue, sent, owed, gone, at,
                 stmMsg, dirtyShmem, exclusive, got, instance>>

\* One that finds no message, with somebody runnable.
RunIdle ==
  /\ ~running /\ wannaRun # {}
  /\ notices = <<>> /\ \A p \in enabled : queue[p] = <<>>
  /\ Received(NoMsg, FALSE)
  /\ Dispatch(wannaRun, NIL)
  /\ UNCHANGED <<list, waitMsg, waitNotify, inputPort, slot, queue, sent,
                 notices, owed, gone, at, stmMsg, ctxVars, got, instance>>

Scheduler == (\E p \in Port : RunData(p)) \/ RunNotice \/ RunIdle

-----------------------------------------------------------------------------
(* ContextYield.                                                            *)

Suspend(c, point, again) ==
  /\ at' = [at EXCEPT ![c] = point]
  /\ running' = FALSE
  /\ wannaRun' = IF again THEN wannaRun \cup {c} ELSE wannaRun

\* yield_other: c waits for a message on port p.
AskPort(c, p) ==
  /\ enabled' = (enabled \ {inputPort[c]}) \cup {p}
  /\ inputPort' = [inputPort EXCEPT ![c] = p]
  /\ restricted' = restricted \ {c}
  /\ waitMsg' = waitMsg \cup {c}
  /\ slot' = [slot EXCEPT ![c] = NIL]

\* Mutant of AskNext: a port that was restricted stays so.
AskNextRestricted(c, b) ==
  LET p == contents[b][1] IN
  /\ inputPort' = [inputPort EXCEPT ![c] = p]
  /\ waitMsg' = waitMsg \cup {c}
  /\ slot' = [slot EXCEPT ![c] = b]
  /\ ReleaseMsg(b)
  /\ UNCHANGED <<restricted, enabled>>

\* yield_stdin: c is done with buffer b and waits on the port b came from.
AskNext(c, b) ==
  LET p == contents[b][1] IN
  /\ enabled' = (IF inputPort[c] # p THEN enabled \ {inputPort[c]} ELSE enabled)
                  \cup (IF inputPort[c] # p \/ c \in restricted THEN {p} ELSE {})
  /\ inputPort' = [inputPort EXCEPT ![c] = p]
  /\ restricted' = restricted \ {c}
  /\ waitMsg' = waitMsg \cup {c}
  /\ slot' = [slot EXCEPT ![c] = b]
  /\ ReleaseMsg(b)

RestrictInputPort(c) ==
  IF c \in restricted THEN UNCHANGED <<restricted, enabled>>
  ELSE /\ restricted' = restricted \cup {c}
       /\ enabled' = enabled \ {inputPort[c]}

\* c has control, at the given point.
At(c, point) == running /\ cur = c /\ at[c] = point

\* The list without c.
Unlinked(c) ==
  SubSeq(list, 1, Position(c) - 1) \o SubSeq(list, Position(c) + 1, Len(list))

\* NSDestroyContext: out of the list, its port gone, its save restored.
Destroyed(c) ==
  /\ list' = Unlinked(c)
  /\ cur' = NIL
  /\ running' = FALSE
  /\ loaded' = IF instance.kind[c] = "ps" THEN NIL ELSE loaded
  /\ at' = [at EXCEPT ![c] = "dead"]
  /\ wannaRun' = wannaRun \ {c}
  /\ waitMsg' = waitMsg \ {c}
  /\ waitNotify' = waitNotify \ {c}
  /\ printerContext' = printerContext \ {c}
  /\ restricted' = restricted \ {c}
  /\ enabled' = enabled \ {In(c), Reply(c)}
  /\ queue' = [queue EXCEPT ![In(c)] = <<>>, ![Reply(c)] = <<>>]
  /\ notified' = notified \ {c}
  /\ dirtyShmem' = dirtyShmem \ {c}
  /\ exclusive' = [s \in DOMAIN exclusive |->
                     IF exclusive[s] = c THEN NIL ELSE exclusive[s]]
  /\ owed' = owed \ {c}
  /\ UNCHANGED <<inputPort, slot, contents, sent, notices, gone, got, instance>>

-----------------------------------------------------------------------------
(* A PostScript context.                                                    *)

\* IPCClose of its input stream releases the message being read.
Die(c) ==
  /\ IF stmMsg[c] # NIL THEN ReleaseMsg(stmMsg[c]) ELSE UNCHANGED <<freeMsg, heap>>
  /\ stmMsg' = [stmMsg EXCEPT ![c] = NIL]
  /\ Destroyed(c)

\* The startup procedure reads: IPCFillBuf asks for its first message.
FirstRead(c) ==
  /\ At(c, "new") /\ instance.kind[c] = "ps"
  /\ AskPort(c, In(c))
  /\ Suspend(c, "read", FALSE)
  /\ UNCHANGED <<schedVars, cur, waitNotify, bufVars, worldVars, stmMsg, ctxVars, got, instance>>

\* Mutant of CheckNotify: only a read looks for a notification.
CheckNotifyInRead(c) == c \in notified /\ at[c] = "read"

\* NSCheckNotifyContext raises.
CheckNotify(c) == c \in notified

\* ContextYield returns.  A terminate raises; a read takes what is in its slot
\* for a new message; a call releases its reply; the others go on.
Resume(c) ==
  /\ running /\ cur = c /\ instance.kind[c] = "ps" /\ at[c] \in {"read", "rpc", "out", "slice", "wait"}
  /\ IF CheckNotify(c) THEN Die(c)
     ELSE /\ at' = [at EXCEPT ![c] = "run"]
          /\ IF at[c] = "read"
             THEN /\ stmMsg' = [stmMsg EXCEPT ![c] = slot[c]]
                  /\ got' = [got EXCEPT ![c] = Append(@,
                               IF slot[c] = NIL THEN NoMsg ELSE contents[slot[c]])]
             ELSE UNCHANGED <<stmMsg, got>>
          /\ IF at[c] = "rpc" /\ slot[c] # NIL
             THEN ReleaseMsg(slot[c]) ELSE UNCHANGED <<freeMsg, heap>>
          /\ UNCHANGED <<schedVars, cur, running, wannaRun, waitMsg, waitNotify,
                         portVars, slot, contents, worldVars, ctxVars, instance>>

\* All of the message has been executed: IPCFillBuf asks for the next one.
NextMessage(c) ==
  /\ At(c, "run")
  /\ AskNext(c, stmMsg[c])
  /\ stmMsg' = [stmMsg EXCEPT ![c] = NIL]
  /\ Suspend(c, "read", FALSE)
  /\ UNCHANGED <<schedVars, cur, waitNotify, contents, worldVars, ctxVars, got, instance>>

\* yield_time_limit and yield_by_request.
YieldSlice(c) ==
  /\ At(c, "run")
  /\ RestrictInputPort(c)
  /\ Suspend(c, "slice", TRUE)
  /\ UNCHANGED <<schedVars, cur, waitMsg, waitNotify, inputPort, slot, bufVars,
                 worldVars, stmMsg, ctxVars, got, instance>>

\* yield_wait, the monitors' and conditions' way to block, and PSMakeRunnable.
YieldWait(c) ==
  /\ At(c, "run") /\ "wait" \in instance.ops
  /\ RestrictInputPort(c)
  /\ at' = [at EXCEPT ![c] = "wait"]
  /\ running' = FALSE
  /\ wannaRun' = wannaRun \ {c}
  /\ UNCHANGED <<schedVars, cur, waitMsg, waitNotify, inputPort, slot, bufVars,
                 worldVars, stmMsg, ctxVars, got, instance>>

PSMakeRunnable(c, d) ==
  /\ At(c, "run") /\ d \in Alive /\ at[d] = "wait"
  /\ wannaRun' = wannaRun \cup {d}
  /\ UNCHANGED <<schedVars, cur, running, waitMsg, waitNotify, portVars, slot,
                 bufVars, worldVars, at, stmMsg, ctxVars, got, instance>>

\* yield_stdout: msg_send answered SEND_WILL_NOTIFY.
YieldOutput(c) ==
  /\ At(c, "run") /\ "out" \in instance.ops /\ c \notin gone
  /\ owed' = owed \cup {c}
  /\ waitNotify' = waitNotify \cup {c}
  /\ RestrictInputPort(c)
  /\ Suspend(c, "out", FALSE)
  /\ UNCHANGED <<schedVars, cur, waitMsg, inputPort, slot, bufVars, queue, sent,
                 notices, gone, stmMsg, ctxVars, got, instance>>

\* send_rpc of a printer device, by the device's reply port.
CallClient(c) ==
  /\ At(c, "run") /\ "rpc" \in instance.ops
  /\ AskPort(c, Reply(c))
  /\ Suspend(c, "rpc", FALSE)
  /\ UNCHANGED <<schedVars, cur, waitNotify, bufVars, worldVars, stmMsg, ctxVars, got, instance>>

SetPrinterContext(c) ==
  /\ At(c, "run") /\ "printer" \in instance.ops /\ c \notin printerContext
  /\ printerContext' = printerContext \cup {c}
  /\ UNCHANGED <<list, cur, running, loaded, wannaRun, waitMsg, waitNotify,
                 portVars, slot, bufVars, worldVars, at, stmMsg, ctxVars, got, instance>>

\* save, and the restore that undoes it.
SaveOrRestore(c) ==
  /\ At(c, "run") /\ "save" \in instance.ops
  /\ exclusive' = [exclusive EXCEPT ![SpaceOf[c]] = IF @ = c THEN NIL ELSE c]
  /\ UNCHANGED <<schedVars, cur, running, wannaRun, waitMsg, waitNotify,
                 portVars, slot, bufVars, worldVars, at, stmMsg, notified,
                 dirtyShmem, got, instance>>

Quit(c) == At(c, "run") /\ "die" \in instance.ops /\ Die(c)

\* WBChangeBitmap: a window operator moves the bits window bitmap context w
\* shares with its client.
WBChangeBitmap(c, w) ==
  /\ At(c, "run") /\ "dirty" \in instance.ops /\ w \in Alive /\ at[w] = "wb"
  /\ dirtyShmem' = dirtyShmem \cup {w}
  /\ wannaRun' = wannaRun \cup {w}
  /\ UNCHANGED <<schedVars, cur, running, waitMsg, waitNotify, portVars, slot,
                 bufVars, worldVars, at, stmMsg, notified, exclusive, got, instance>>

PSOperator(c) ==
  \/ FirstRead(c)
  \/ Resume(c)
  \/ NextMessage(c)
  \/ YieldSlice(c)
  \/ YieldWait(c)
  \/ \E d \in Context : PSMakeRunnable(c, d)
  \/ YieldOutput(c)
  \/ CallClient(c)
  \/ SetPrinterContext(c)
  \/ SaveOrRestore(c)
  \/ Quit(c)
  \/ \E w \in Context : WBChangeBitmap(c, w)

-----------------------------------------------------------------------------
(* A window bitmap context: WBCoProc, from one ContextYield to the next.      *)

WBStart(c) ==
  /\ At(c, "new") /\ instance.kind[c] = "wb"
  /\ AskPort(c, In(c))
  /\ Suspend(c, "wb", FALSE)
  /\ UNCHANGED <<schedVars, cur, waitNotify, bufVars, worldVars, stmMsg, ctxVars, got, instance>>

WBNotifyNewShmem(c) ==
  /\ At(c, "wb") /\ c \in dirtyShmem
  /\ dirtyShmem' = dirtyShmem \ {c}
  /\ AskPort(c, inputPort[c])
  /\ Suspend(c, "wb", FALSE)
  /\ UNCHANGED <<schedVars, cur, waitNotify, bufVars, worldVars, stmMsg,
                 notified, exclusive, got, instance>>

WBDie(c) ==
  /\ At(c, "wb") /\ c \notin dirtyShmem /\ c \in notified
  /\ Destroyed(c)
  /\ UNCHANGED <<freeMsg, heap, stmMsg>>

WBHandle(c) ==
  /\ At(c, "wb") /\ c \notin dirtyShmem /\ c \notin notified /\ slot[c] # NIL
  /\ got' = [got EXCEPT ![c] = Append(@, contents[slot[c]])]
  /\ AskNext(c, slot[c])
  /\ Suspend(c, "wb", FALSE)
  /\ UNCHANGED <<schedVars, cur, waitNotify, contents, worldVars, stmMsg, ctxVars, instance>>

WBOperator(c) == WBStart(c) \/ WBNotifyNewShmem(c) \/ WBDie(c) \/ WBHandle(c)

-----------------------------------------------------------------------------
Outside == \E c \in Context : Send(c) \/ Answer(c) \/ Accept(c) \/ ClientDies(c)

Next == Scheduler \/ Outside \/ \E c \in Context : PSOperator(c) \/ WBOperator(c)

Spec == Init /\ [][Next]_vars

(* The scheduler goes on, and takes in the end a message that stays there      *)
(* to be received; a coroutine gives control back when its slice is over; a     *)
(* client answers calls and accepts output, or dies.  A program need not end.   *)
Fairness ==
  /\ WF_vars(Scheduler)
  /\ SF_vars(RunNotice)
  /\ \A c \in Context :
       /\ SF_vars(RunData(In(c)) \/ RunData(Reply(c)))
       /\ WF_vars(FirstRead(c) \/ Resume(c) \/ YieldSlice(c) \/ WBOperator(c))
       /\ WF_vars(Answer(c) \/ Accept(c))

FairSpec == Spec /\ Fairness

-----------------------------------------------------------------------------
(* Properties.                                                              *)

\* The message in c's slot was put there by the scheduler and not seen yet.
Delivered(c) == at[c] \in Asks /\ c \notin waitMsg /\ slot[c] # NIL

TypeOK ==
  /\ Alive \subseteq Context
  /\ \A i, j \in DOMAIN list : list[i] = list[j] => i = j
  /\ cur \in Alive \cup {NIL}
  /\ running => cur # NIL
  /\ loaded \in Alive \cup {NIL}
  /\ \A c \in Context : c \in Alive <=> at[c] # "dead"
  /\ wannaRun \cup printerContext \cup waitMsg \cup waitNotify \cup restricted
       \subseteq Alive
  /\ inputPort \in [Context -> Port \cup {NoMsg}]
  /\ slot \in [Context -> Buf \cup {NIL}]
  /\ stmMsg \in [Context -> Buf \cup {NIL}]
  /\ freeMsg \in Buf \cup {NIL}
  /\ heap \subseteq Buf
  /\ enabled \subseteq Port
  /\ \A c \in Context : at[c] \in Asks \cup {"new", "run", "slice", "wait", "out", "dead"}

(* Each context handles the messages of its own client, each of them once and *)
(* in the order they were sent, however it is suspended in between            *)
(* (HandleDataMsg, the restriction of its port in ContextYield and Scheduler,  *)
(* IPCFillBuf).  A PostScript context misses none; a window bitmap context      *)
(* whose memory becomes dirty after the delivery of a message loses that one.  *)
InOrder ==
  \A c \in Context : \A i \in DOMAIN got[c] :
    /\ got[c][i][1] = In(c)
    /\ i > 1 => got[c][i][2] > got[c][i - 1][2]
    /\ instance.kind[c] = "ps" => got[c][i][2] = i

Users(b) ==
  {<<"stm", c>> : c \in {d \in Alive : stmMsg[d] = b}}
    \cup {<<"slot", c>> : c \in {d \in Alive : Delivered(d) /\ slot[d] = b}}
    \cup (IF freeMsg = b THEN {<<"free", NIL>>} ELSE {})

\* Messages that were received for c and not handled: those a window bitmap
\* context lost, and the one a context was told to terminate with.
Unhandled(c) ==
  LET taken == sent[c] - Len(got[c]) - Len(queue[In(c)])
  IN IF c \notin Alive THEN taken + 1
     ELSE IF Delivered(c) /\ contents[slot[c]][1] = In(c) THEN taken - 1 ELSE taken

(* A message buffer has one user: the free list, the context it was granted    *)
(* to, or the context reading it.  Nobody uses one that was freed, and none is  *)
(* lost (ipcscheduler.c: only as many are maintained as the running contexts   *)
(* need, and the free one), except with a message that is not handled.         *)
Lost == {b \in Buf \ heap : Users(b) = {}}
AllUnhandled == UNION {{c} \X (1 .. Unhandled(c)) : c \in Context}
BufferOneUser ==
  /\ \A b \in Buf : Cardinality(Users(b)) <= IF b \in heap THEN 0 ELSE 1
  /\ Cardinality(Lost) <= Cardinality(AllUnhandled)

(* The restricted bit, which saves kernel calls, tells the truth; and a message *)
(* is received only for a context that waits for it, since HandleDataMsg would  *)
(* drop any other: a port is unrestricted when its context waits on it, and     *)
(* stays restricted while the context has a message to work on.               *)
RestrictedBit ==
  /\ TypeOK
  /\ \A c \in Alive : at[c] # "new" =>
       /\ c \in restricted <=> inputPort[c] \notin enabled
       /\ {In(c), Reply(c)} \cap enabled \subseteq {inputPort[c]}
  /\ ~running => \A p \in enabled : Waiter(p) # {}

(* Round robin: a runnable context gets control, printers included.            *)
RunnableRuns ==
  \A c \in Context : (c \in wannaRun) ~> ((cur = c /\ running) \/ c \notin Alive)

(* What a client has sent is received in the end, if its own context does not  *)
(* work on one message for ever, whatever the others do.                      *)
MessageServed ==
  \A c \in Context : []<>(stmMsg[c] = NIL)
    => ((queue[In(c)] # <<>>) ~> (queue[In(c)] = <<>>))

(* ipcscheduler.c, HandleNotifyMsg: the contexts whose client has gone away     *)
(* are destroyed, whatever they are suspended in when they are made runnable   *)
(* for that.  (One that has not begun is left to Monitors.)                    *)
GoneDestroyed ==
  \A c \in Context :
    (c \in notified /\ at[c] # "new" /\ (c \in wannaRun \/ (running /\ cur = c)))
      ~> (c \notin Alive)
=============================================================================
