# A verification project for the NeXT Display PostScript window server

This directory holds TLA+ models of the concurrent core of the NeXT Display
PostScript (DPS) server in `src/ps-45.8`, of its dictionaries under save and
restore, of the event loop of its client library (`src/dpsclient-49`) and of the
line printer system (`src/pr-42/lpr`), the TLC configurations that check them, and
proofs checked by TLAPS. All source paths below are relative to the repository,
and short names (`contextimpl.c`) are those of the directory a section is about.

1. [The system](#1-the-system)
2. [What is modelled](#2-what-is-modelled)
3. [The modules and the code](#3-the-modules-and-the-code)
4. [The runs and what they show](#4-the-runs-and-what-they-show)
5. [Bounds](#5-bounds)
6. [Fairness](#6-fairness)
7. [Where the code and its documents disagree](#7-where-the-code-and-its-documents-disagree)
8. [What is proved](#8-what-is-proved)
9. [What is not modelled, and the plan](#9-what-is-not-modelled-and-the-plan)
10. [Running it](#10-running-it)

## 1. The system

The server is one Mach task with one thread. Each client connection, each
context forked by a PostScript program and each window-bitmap client is a
*context*: a coroutine with a C stack of its own. Control moves between the
coroutines and the scheduler only in `ContextYield`/`PSYield`. So there are no
data races; what is hard is everything that is *read before a yield and used
after it*, and what happens to a context that is suspended in the middle of an
operator while others run, notify it, or destroy what it waits for.

### Components

| Component | State | Operations | Hard behaviour | What makes it correct |
|---|---|---|---|---|
| **Execution contexts** `postscript/contextimpl.c`, `product/pscontext.c` | loaded context, pending notification, exclusion semaphore per space and one for the interpreter | `SwitchPSContext`, `NotifyPSContext`, `CheckForPSNotify`, `SpaceExclusionSemaphore`, `DestroyPSContext` | a refused switch; a notification of a suspended context; unwinding that returns semaphores | only the context with exclusive use runs; semaphores balance; nothing names a dead context |
| **Locks, monitors, conditions** `contextimpl.c` | owner and queue of each lock, waiters of each condition, `lk`/`waitee` links in the context | `monitor`, `wait`, `notify`, `PSAcquireLock`, `PSReleaseLock`, `stop`, `exit`, `quit`, terminate | a waiter terminated while linked; stop in wait; a wake-up that is lost | one context in a body at a time, and it owns the lock; list links are sound; only an owner releases |
| **fork, join, detach** `contextimpl.c` | `detached`, `readyForJoin`, `joined`, `joinerWaiting`, one condition per space | `fork`, `join`, `detach`, end of the startup procedure, `TerminatePSSpace` | two joiners, detach during join, the target's death, half-made contexts | no joiner and no finished context sleeps for ever; results are taken once from a live context |
| **Context and space ids** `contextimpl.c`, `include/publictypes.h` | table, free list threaded through the time stamps, bit fields | `NewContextID`, `NewSpaceID`, `RecycleID`, `IDToPSContext` | recycled indices, table growth, narrow fields | live ids resolve, stale ids do not, no id is issued twice |
| **Window server scheduler** `product/ipcscheduler.c` | list of scheduler records with their bits, input ports, message buffers | `Scheduler`, `SelectPSContext`, `HandleDataMsg`, `HandleNotifyMsg`, `PickContext`, `ContextYield` | ports restricted and unrestricted around yields; buffers handed on; dead clients | each message handled once, in order, by its context; buffers have one user and none leaks; runnable contexts run |
| **IPC streams** `product/ipcstream.c` | message being read; output buffers, notification flag | `IPCFillBuf`, `IPCFlushOutput`, `IPCWrite`, `IPCNotifyReceived`, `IPCClose` | a full client port; shared output of forked contexts | input in order, output not lost |
| **Window bitmap contexts** `product/wbcontext.c` | `dirtyShmem`, `deathKnell`, message | `WBCoProc`, `WBChangeBitmap` | woken for one of three reasons | no request is lost; it dies with its client |
| **Printer devices over messages** `product/machportdevice.c` | reply port | `send_rpc` | a context waiting on a second port | the reply does not mix with input |
| **Listener** `product/listener.c` | listening port, login ports | connection messages, restart of the port | a message delivered while the port changes | every connection message is answered |
| **Events** `product/event.c` | event queue shared with the driver, timers, static message | `EventCoProc` | errors that leave the loop; a full queue | events in order, none posted to a dead window |
| **Images in messages** `product/windowimage.c` | list of image messages per context | `FindImageMessage`, `TossImageMessages` | freeing of a cell that stays in use | a message is consumed once |
| **Coroutines** `coroutine/` | stacks, list to destroy | `CoCreate`, `CoReturn`, `CoDestroy` | destruction of the running one | control returns where it left |
| **Save and restore** `vm/saverestore.c` | undo records per level in three lists | `Save`, `RstrToLevel`, `saveobj`, `RstrObj` | a restore over several levels; records made once per place and level; what points into what is undone | a restore gives back exactly what the save saw |
| **Dictionaries and names** `language/dict.c` | hash tables, one cached binding per name, dictionary stacks, time stamps of contexts | `PutInDict`, `Load`, `UnDef`, `DictP`, `Begin`, `End`, `DictFinalize` | a table that grows, moves its keys, is undone or freed under a cached pointer; a stamp that wraps | tables stay searchable; a lookup finds the topmost binding |
| **Virtual memory and recycler** `vm/` | segments, recyclable ranges | allocation, recycling, reset on restore | ranges handed back while referenced | no object in two places |
| **Garbage collector** `vm/gcimpl.c` | trace stacks, mark bits | trace, sweep, over several spaces and contexts | roots in suspended contexts | what is reachable stays |
| **Interpreter** `language/` | operand, exec, dictionary stacks | `psExecute`, `PSStop`, scanner, names | unwinding through marks; name cache time stamps | no exception leaves `psExecute`; a cached value is current |
| **Streams and files** `language/stream.c`, `stream/` | file objects and their generation | open, close | a stream closed under a file object | a stale file object reads nothing |
| **C library substitutes** `pslib/` | heap, pools, exception handlers | `os_malloc`, pools | – | blocks do not overlap |
| **Window tree** `bintree/` | layers, pieces, windows that share causes | move, order, resize | sharing of pieces | pieces partition the screen |
| **Devices, graphics, fonts** `device/`, `graphics/`, `fonts/` | rasterisers, mask cache, user-path cache, font cache | – | caches at their limit; BuildChar re-entrance | cached masks are those of their keys |
| **Numerics, mouse and keyboard, Unix product** `fp/`, `mousekeyboard/`, `unix_product/` | – | – | arithmetic; driver input | – |
| **PostScript client library** `src/dpsclient-49` | event queue, lists of procs, threshold, masks of fds shared with a second thread | `DPSGetEvent`, `DPSAddFD`, `DPSRemoveFD`, `DPSAddPort`, `DPSPostEvent`, `selectLoop` | procs that wait themselves, remove and add each other, and raise | thresholds are obeyed; no call waits with work to do; events are returned that are there |
| **Line printer system** `src/pr-42/lpr` | queue directories, lock files with pid and job, connections | `lpr`, `lpd` (`printjob`, `recvjob`), `lprm`, `lpc` | crashes and lost connections between any two files; daemons killed and restarted | one daemon per queue; no job lost or printed twice; no queue left alone |
| **Printer daemon and spooler** `src/pr-42/npd` | jobs | – | – | – |
| **pswrap, libDL, akcmds, NSWSd, fonts-21** | – | – | sequential tools and data | – |

### How they interact

```
clients --Mach messages--> IPC scheduler --resumes--> coroutine of a context
   ^                        |  ^                         |
   |                        |  | ContextYield(reason)    | PostScript operators
   +--output, replies-------+  +-------------------------+
                            |                            v
      NSLoadPS / SwitchPSContext (may refuse)    kernel: monitors, fork/join,
      NotifyPSContext (terminate on port death)  save/restore, VM, graphics
```

* The scheduler calls the kernel (`SwitchPSContext`, `NotifyPSContext`,
  `DestroyPSContext`); the kernel calls back through `PSYield`,
  `PSMakeRunnable` and `PSCheckNotify`.
* `save`, `restore`, BuildChar and the circle-font stroke move the exclusion
  semaphores that `SwitchPSContext` consults.
* Destruction of a context runs through the interpreter's unwinding
  (`ClearExecStack`), which releases monitors, which makes other contexts
  runnable.
* The space's `joinable` condition, the locks of shared VM and the message
  buffers are the state that contexts share across yields.
* Names are shared by all contexts, and so are the bindings cached in them; a
  `restore` reaches every private dictionary and every cached binding.
* The client library is the other end of the messages: what it sends and reads
  is the environment of the scheduler's modules. It has a thread of its own
  that selects on file descriptors.
* The line printer system runs outside the server. Its processes share files
  and locks on one host, and connections between hosts.

`PROJECT.json` lists every component with its status, and every hazard at the
line where it bites, with the property that covers it or the reason none does.

## 2. What is modelled

| Module | Role |
|---|---|
| `ContextBase` | contexts, notification, scheduling with refused switches, exclusion semaphores, frames of the exec stack, unwinding. Extended by the next two, never run alone. |
| `AbstractMonitor` | what `monitor` and `wait` promise: one context inside |
| `Monitors` | locks, monitors and conditions over `ContextBase`; implements `AbstractMonitor` |
| `ForkJoin` | the life of a context over `ContextBase` |
| `ContextIds` | the id table |
| `IPCScheduler` | the scheduler, message buffers, input streams, printer calls and window bitmap contexts |
| `IPCOutput` | an output stream that forked contexts and the event context share, and the kernel's notifications |
| `AbstractDictionaries` | what dictionaries, their stack and save promise: functions, the topmost binding, a stack of snapshots |
| `Dictionaries` | hash tables, the name cache, time stamps, undo records; implements `AbstractDictionaries` |
| `LinePrinter` | the queues of two hosts, their daemons, receivers and users, with crashes and lost connections |
| `ClientEvents` | the client library's event loop, its procs, its event queue and its select thread |
| `MCMonitors`, `MCForkJoin`, `MCContextIds`, `MCIPCScheduler`, `MCIPCOutput`, `MCDictionaries`, `MCLinePrinter`, `MCClientEvents` | small instances for TLC |
| `Monitors_proofs`, `ForkJoin_proofs`, `ContextIds_proofs`, `IPCScheduler_proofs`, `IPCOutput_proofs`, `LinePrinter_proofs`, `ClientEvents_proofs`, `Dictionaries_proofs` | theorems |

`Monitors` and `ForkJoin` each compose with `ContextBase` by EXTENDS: an action
of theirs is an action of the base (`Yield`, `Proceed`, `DestroyBase`, ...)
conjoined with what the operator does to its own variables. They are kept
apart because the only state they share is the base's: a context waits for a
lock, a condition or a join, never for two of them. `IPCScheduler` is the other
side of `PSYield`: what `ContextBase` calls `Dispatch`, one atomic choice of a
runnable context, is there the whole of `SelectPSContext`, `PickContext` and
`NSLoadContext`, and what the base calls `Notify` is there the arrival of a
port-deleted message. In return `IPCScheduler` keeps of the kernel only what
the scheduler sees of it: a pending terminate and who has a save. `IPCOutput`
looks at the same scheduler from the side of one client's port: of scheduling it
keeps that a runnable context runs, of the kernel's notifications everything.
`Dictionaries` takes from `ContextBase` that an operator runs without a switch and
that a context with a save has its space to itself (`ExclusionObeyed`); it adds what
save and restore do to the data. `LinePrinter` and `ClientEvents` stand apart: they
are programs of their own.

Where one run is to cover several small systems rather than one large one, the
module has a constant (`Instances`, `Scenarios`, `Programs`) and a variable that
holds one of its members and never changes: each initial state is one instance,
with its contexts, its programs and its failures.

## 3. The modules and the code

### The grain of atomicity

A coroutine is never pre-empted, so an operator is one action up to the yield
it makes, and what it does after the yield is another. `at[c]` records where
the coroutine is suspended; it stands for the C program counter. A yield in
the code is the conjunct `Yield(c, point, woken, again)` (or `Suspend` in
`IPCScheduler`), and the code after it is `Resume(c)` or `Raised(c)`.

### ContextBase

| TLA+ | Code |
|---|---|
| `cur` | `currentPSContext`, kept loaded while the scheduler runs |
| `runnable` | the scheduler's `wannaRun` bit |
| `pend[c]` | `notified` with `nReason`, when notified |
| `frames[c]` | the marks on the exec stack that unwinding acts on: `stopped`, `@monitormark` with its lock, a nested `psExecute` of BuildChar ("font"), of the circle font ("stroke") |
| `level`, `sem`, `exclusive` | `space->space.level`, `space->cExclusive`, `space->exclusivePSContext` |
| `totalSem`, `totalExcl` | `exclusiveContextSemaphore`, `exclusivePSContext` |
| `Schedule` | `PickContext` + `NSLoadPS` + `SwitchPSContext`: when refused, what is loaded runs |
| `Notify` | `NotifyPSContext`, with its table of which reason overrides which |
| `Save`, `Restore` | `PSSave`, `RstrToLevel`: the semaphore moves by the difference of the levels |
| `DropExclusion` | the decrements in the HANDLERs that unwinding passes |
| `DestroyBase` | `DoQuit` and the scheduler's `DestroyPSContext` |

The user's program is any sequence of operators: between two yields every
action whose guard holds may happen, so all programs of the modelled operators
are explored. An operator that ends in an error leaves the modelled state
alone and its error handler's `stop` is the action `Stop`.

### Monitors

`AcquireLock`'s loop is `TakeLock \/ QueueForLock \/ RefuseLock`, run on entry
and again at every return of its `PSYield` with the queue that its `BreakLooseLK` leaves. `ReleaseLock` unlinks the head
of the queue and makes it runnable, but does not hand over the lock. The
intrusive lists (`link` through the contexts) are sequences for locks, which
are FIFO, and sets for conditions, which `InnerNotify` always empties. `lk` and
`waitee` are kept since `BreakLooseLK` and `BreakLooseCV` test them.

`Raised` is the exception of `CheckForPSNotify`; it runs the HANDLER of the
operator the context is suspended in, then the unwinding. `UnwindToStopped`
and `Destroy` differ as the code does: only in a context that is being
terminated does `MonitorExit` pass over a lock the context does not hold.
Otherwise `ReleaseLock` raises, inside `psExecute`'s HANDLER; this is `fault =
"escape"`, after which nothing is modelled.

`Abstract == INSTANCE AbstractMonitor WITH inside <- [l |-> Inside(l)]` is the
refinement mapping: a context is inside a monitor on `l` if the mark is on its
exec stack and it has not given the lock up in `wait`.

### ForkJoin

The five flags are sets of contexts. `PSJoin`'s loop body is `TryJoin`;
`PSCoProc`'s final loop is `Park` and `AfterPark`. `CheckForPSNotify` ignores
every reason in a context that is `readyForJoin`, which is why `AfterPark`
looks at the pending terminate itself. `ForkFails` is the HANDLER of `PSFork`:
the new context, known to the scheduler, is loaded and notified, and stops as
soon as it begins. Ids are not reused in this module: `ContextIds` shows that
the id of a dead context finds nothing. `instance` says which contexts there are at
first, which may be forked, and whether there are saves, characters and
terminations.

### ContextIds

`TakeIndex` is the common part of `NewContextID` and `NewSpaceID`, with the
doubling of the table. An id is the record of its bit fields, each taken
modulo its width. The free list stores a plain integer through the `stamp`
member of the union; `Stamp`/`Unstamp` model where its bits land. `id[o]` is
not reset when an object dies, as the memory is not.

### IPCScheduler

| TLA+ | Code |
|---|---|
| `list`, `cur` | `contextList`, `currentSchedulerContext` |
| `wannaRun`, `waitMsg`, `waitNotify`, `restricted`, `printerContext` | the bit fields of `PSSchedulerContext` |
| `slot[c]` | the union behind `msgPtrP`: a buffer, or a port number |
| `freeMsg`, `heap` | the free list of one, and `malloc` |
| `enabled`, `queue` | the kernel's `port_enable` set and port queues (external) |
| `RunData`, `RunNotice`, `RunIdle` | one turn of `Scheduler` with `SelectPSContext`, by what `msg_receive` returned |
| `Turns`, `Picked`, `Passed` | `PickContext` |
| `AskPort`, `AskNext`, `RestrictInputPort` | the cases of `ContextYield` |
| `Resume`, `NextMessage`, `Die` | `IPCFillBuf`, `IPCClose`, `CheckForPSNotify` |
| `CallClient` | `send_rpc` |
| `WBStart`, `WBNotifyNewShmem`, `WBDie`, `WBHandle` | `WBCoProc`, from yield to yield |
| `Send`, `Answer`, `Accept`, `ClientDies` | the clients and the Mach kernel (external) |

A message is the port it was sent to and its number on it. `got[c]` is a
history variable: the messages `c` took for input, which lets `InOrder` speak
of loss, duplication and reordering at once. A read through a pointer that no
message is behind appears in it as `NoMsg`.

Left out: the yields for output in which a message is *sent*, by `send_rpc` before it
waits for the reply and by `WBMsg_send` (`wbcontext.c:40-42`). Such a context keeps its
buffer meanwhile, and takes no other message.

### IPCOutput

One client's output: the application's context `Main`, the contexts forked from
it, which share its stream, and the event context, which writes into it without
owning it.

| TLA+ | Code |
|---|---|
| `stm` | the stream's buffer, `notifyInProgress`, and its error and write flags |
| `stmRef` | the stream's references: `PSNewContextStms` takes one, `IPCClose` returns it |
| `port`, `notices` | the client's queue, the kernel's promise to notify, and `notifyPort` (external) |
| `Flushed` | `IPCFlushOutput` up to its end or its `PSYield`; an operator on a state of stream and port, since `PostEvent` flushes twice in one step |
| `FlushAnd(c, what)` | a flush and what the operator does after it; `doing[c]` remembers `what` over the yield, and `Resume` runs the loop of `IPCFlushOutput` again |
| `Write`, `WriteLarge`, `Flush` | `IPCWrite` in its two forms, `flush` |
| `PostEvent`, `EndFlush`, `deferred` | `PostEvent` with `EventFlush`; `EndFlush` with `lastEventStm` |
| `Fork`, `ForkFails` | `PSFork`; a failed fork keeps its reference to the stream, as the code does |
| `Quit`, `Terminated` | the end of a context, with `IPCClose` |
| `MsgAccepted`, `PortDeleted` | the two cases of `HandleNotifyMsg` |

Items are numbered in the order in which writers were told that they are
written; `written` counts them and `received` holds those that the client
read. `overtaken` becomes true when `IPCWrite` sends an out-of-line message
while a notification is in progress. The code does not look at the flag there,
and loses that message when the kernel refuses it; the properties stop at that
point (section 7). Left out: single characters (`IPCFlushBuf`), end-of-file
markers, acknowledgements, streams that are never writable.

### Dictionaries

| TLA+ | Code |
|---|---|
| `body[d]` | a `DictBody` and the table behind it: `curlength`, `curmax`, `access`, level, and per slot the key and the value with the save level each was written at |
| `cache[n]` | the `kvloc`, `dict`, `ts` and `vec` of a `NameEntry` |
| `dstack[c]`, `gen[c]` | `dictStk` above and with its permanent part; the generation in the context's time stamp |
| `srList` | the undo records of each level: of headers, of keys and of values |
| `Home`, `Place` | `HashObject` and `SearchDict`: linear probing in a circular table |
| `Expanded` | `VMExpandDict`: a new table, to which the cached pointers of its names move |
| `Loaded`, `Resolved` | `trytoload`: the cached binding if its stamp is the context's, else a search of the stack |
| `PutInDict`, `Bound`, `Stamp` | `PutInDict`, with what it does to the cache of the name |
| `UnDefined`, `Passes` | `UnDef`: Algorithm R, which moves keys back into the hole |
| `BumpCETimeStamp` | the same; a generation that wraps empties the stamps of its context |
| `Recorded`, `PutValue`, `PutKeyVal`, `PutHeader` | `saveobj` under the `VMPut...` functions |
| `RstrToLevel`, `RstrObj`, `RstrDB`, `Displaced`, `Finalized` | a restore, from the innermost level outwards: finalization of dictionaries made since, then the records |

An operator on the heap (`Heap`) is a function from heap to heap, so that one
action can chain what the code does in sequence. `snaps` and `returned` are
history variables: what each save saw, and the names that a restore gave back to a
dictionary whose context has not bumped its stamp since (section 7).
`AbstractDictionaries` has no tables, no cache and no records; the refinement
mapping reads a table as the function from its keys to their values, and
a lookup there must answer with the topmost binding.

Left out: keys that are not names, `forall`, "tricky" dictionaries, arrays and other
composite objects, whose undo records follow the same scheme.

### LinePrinter

| TLA+ | Code |
|---|---|
| `spool[h]` | the files of a queue: control files `cf`, data files `df`, and `tf`, a control file being received |
| `lock`, `pid`, `current`, `flags` | the lock file: its `flock`, its two lines, its mode bits |
| `proc[p]` | a child of `lpd`: where it is in `printjob` or `recvjob`, its job, the list `getq` gave it, its connection and the answer on its way |
| `Lpr`, `StartDaemon` | `lpr`: data and control files, then the request to `lpd`, two steps |
| `Lock`, `Scan`, `Pick`, `Check`, `Rescan`, `Exit` | `printjob` from the lock to its end |
| `PrintIt`, `Reprint`, `UnlinkDf`, `UnlinkCf` | `printit`: the data, the control file, each its own step |
| `SendDf`, `SendCf`, `JobSent`, `SendFails` | `sendit` and `sendfile`, message by message |
| `ReadDf`, `ReadCf`, `LinkCf`, `EndOfJobs` | `readjob` and `readfile` at the other end |
| `Cleanup`, `LostConnection` | `rcleanup`, in a receiver whose connection has gone |
| `Lprm`, `RmLook`, `RmKill`, `RmProcess`, `RmRestart` | `lprm`: read the lock file, kill, remove, restart, with what may change in between |
| `Stop`, `StartPr`, `AbortPr`, `TopQ` | `lpc`'s `stop`, `start`, `abort`, `topq` |
| `Lose`, `Crash`, `Boot` | the network and the hosts (external) |

`left` bounds how many failures and commands a scenario has. `excused` is a history
variable: the job, or the host, to which one of the things happened that make a
property untrue in this code (section 7). Left out: the order of a queue, disabled
queues, full disks, filters and accounting, `lpc clean`, `down` and `up`, `lpq`.
Coarser than the code are `RmKill`, which, when the kill fails on the remote host, ends
the `lprm` without the start of the local daemon that `rmjob.c:94-99` may still come to,
and `Cleanup`, in which the signal handler of `recvjob.c:89-90` and the sender's
cleanup command (`recvjob.c:123-125`) are the same as a lost connection.

### ClientEvents

The main thread is a stack of frames: the program, a call of `_DPSGetOrPeekEvent`, a
proc it called, a call that proc made, and so on. `top` is the frame that runs.

| TLA+ | Code |
|---|---|
| `thr`, a frame's `prev` | `ProcThreshold`, a mask, as the set of its bits; `prevThreshold` |
| `list`, `doomed`, `InUse` | the lists of streams, ports and timed entries, `doFree`, `refs` and `inUse` |
| `mainPorts`, `mainCtx`, a frame's `stale` | the ports in `MainPorts`; `restrLevel != MainSetCount` |
| `waiting`, `active`, `pipe`, `selMsg`, `reply`, `sel` | `WaitingStreams`, `ActiveStreams`, and the pipe and ports between the two threads; the select thread's place in its loop and its mask |
| `queue`, `lastEvent`, `tracking` | `_DPSEventQ`, an element being its address, its context and its type; `_DPSLastEvent`; `_DPSTracking` |
| `GetEvent` ... `Return` | `_DPSGetOrPeekEvent`, one action per place where a proc or the select thread may step in |
| `Visit` | one item of the loops of `checkFDs` and `checkTEs` |
| `Finish`, `ProcReturns`, `ProcRaises` | what these, and `_DPSHandleMsg`, do when a proc returns or raises |
| `DPSAddFD`, `DPSRemoveFD`/`FDRemoved`, ... | the functions of these names; a removal waits for the select thread |
| `QueueEvent`, `FilterReturns` | `filterAndQueueEvent`, behind the event proc |
| `SelCopy` ... `SelSend` | `selectLoop`, between its system calls and its lock |

What a proc does is any sequence of the operations its scenario gives to its
depth. Left out: the notify port, contexts made and closed while a call
waits, events split over two messages, the flushing of output before a wait, the saved
messages that are handled before the main set is fixed (`input.c:176-184`).

## 4. The runs and what they show

A run's name is its configuration's: `mon_locks` is `MCMonitors_locks.cfg`,
`ipc_live` is `MCIPCScheduler_live.cfg`, and so on. The system may stop (all
contexts end, or wait for each other as a program may make them), so deadlock
is not checked.

| Run | Instance | Properties and what they say |
|---|---|---|
| `mon_locks` | 3 contexts of a space, 1 lock, 1 condition, `stopped`, custom operators, terminations | `ListsSound`: whoever is in a body owns the lock (`BodyOwnsLock`), and every link is a live context suspended on that object, once; `ImplementsMonitor`: refinement; `OnlyOwnerReleases`: a lock changes hands through its owner only; `TypeOK` |
| `mon_exclusion` | 2 spaces, 1 lock, saves, BuildChar, circle font, interrupts that stop | `ExclusionObeyed`: who runs has the right to; `SemaphoreBalanced`: each semaphore is the count of saves and characters of its owner, and nothing that is gone is named (`NothingDangles`); `SaverNeverBehindExcluded` |
| `mon_live` | fair; 3 contexts, locks, waits, terminations | `SuspendedTerminates`: a terminated, suspended context goes away; `FreeLockTaken`: a free lock with a queue is taken as long as nobody has ended |
| `fork` | fair; an application that forks, with a save level, BuildChar, failed forks, terminations of contexts and of the space; without saves, beside a second application; and three contexts of a space, two of which may wait for one, with saves | `JoinableSound`: waiters are live and suspended in join, results are those of a live context that has stopped (`ResultsStable`); `NoOrphanJoiner`: nobody who waits to join or be joined has been forgotten; `JoinedOnce`; `JoinReturns`: a join whose target ends returns, and a context that was joined goes away |
| `ids_unique` | 3 objects, fields wide enough | `LiveIdsResolve`, `StaleIdsFindNothing`, `FreeListSound`, `NeverReissued` |
| `ipc_safety` | 2 applications, with calls, output and waits on a condition; and an application with a window bitmap client, with saves and dying clients as well | `InOrder`: input is handled once, in order, by its context; `RestrictedBit`: the bit and the kernel's port set agree, and no message is received that nobody waits for; `BufferOneUser`: a buffer has one user, and none is lost but with a message that is |
| `ipc_live` | fair; 2 applications, printers, output, dying clients | `RunnableRuns`, `MessageServed`, `GoneDestroyed` |
| `out_shared` | fair; an application, a context it forks, the event context; a client that stalls or dies; failed forks | `OutputInOrder`: what was accepted arrives, once, in order; `FlagTellsTruth`: stream and kernel agree on whether a notice is due; `OpenWhileUsed`; `GatheredGoes`: what gathered behind a full queue goes out; `WriterGoesOn`: a blocked writer is woken, and goes on unless others write for ever |
| `dict_save` | two values; six programs: a context with saves that puts, loads, undefines, makes and begins dictionaries (`Saving`), the same over two levels (`Nesting`), with changes of access (`Locking`), keys overwritten over two levels (`Overwriting`) and moved by `undef` (`Moving`); two contexts at a shared dictionary that grows (`Sharing`) | `TableSound`: every key is found from its home; `LookupRight`: a cached pointer is a binding (`CacheSound`), and a lookup finds the topmost one; `ImplementsDictionaries`: a lookup, a write and a restore do what they do to a function from keys to values: a restore gives back the keys, and for each its value, that the save saw |
| `lpr_spool` | two jobs, two hosts, one of which sends to the other; five scenarios of up to three failures and commands | `OneDaemon`, `NothingForgotten`: a job is queued, on its way or printed; `DataKept`: a queued job has its data; `PrintedOnce`; `NoneStranded`: a queue has a daemon or will get one |
| `client_events` | a program with procs for two fds, a port, a timed entry, of different priorities; six scenarios of what it and its procs do, to a depth of two calls | `ThresholdObeyed`: no proc below the threshold of a call around it is called, nor one in itself; `NothingIgnored`: a call that waits will be told of its data; `EventNoticed`: nor does it wait with an event it asked for, and it returns one that is there; `CalledForData`: a proc is called for an fd that has data |
| `mon_v_wakeup` | | a statement of a comment that the code does not keep; see section 7 |

Type correctness is the property `TypeOK` of `mon_locks`, which is proved; in the other
modules it is a conjunct of a property of the run. Liveness under saves cannot be had
of every program: `JoinReturns` is about spaces that are in the end nobody's
(`Shared`), since a context that saves before every yield keeps all others out.

Every property of a passing run has a mutant in `PROJECT.json`: a change of
one definition as a bug in that code would be (a forgotten wake, a bit not
cleared, a test left out), under which TLC finds the property violated. The
mutated definitions stand in the modules before the ones they change and are
used nowhere else.

## 5. Bounds

| Bound | Where | Why it is enough |
|---|---|---|
| contexts: 2 or 3 | all | the hazards take an owner, a waiter and one to disturb them; a queue of two distinguishes FIFO from any other order |
| spaces: 1 or 2 | `Monitors`, `ForkJoin` | the exclusion of a space concerns one space; the second is what it must not touch |
| locks: 1 or 2, conditions: 1 | `Monitors` | a context waits on one object at a time; two locks nest |
| `MaxFrames` 1 or 2 | `ContextBase` | a monitor inside a `stopped`, a BuildChar inside a monitor, and the opposite; deeper nesting repeats these pairs |
| `MaxLevel` 0 or 1 | `ContextBase` | the code tests the level against 0; a `Restore` over several levels moves the semaphore as several restores do. 0 in the runs that are not about saves |
| `MaxIndex` 3, `MaxTime` 6, `NIndex`, `NGen` | `ContextIds` | indices are recycled up to five times, the table doubles, and the widths are set above the bounds (`FieldsSuffice`, section 8) |
| `MaxMsg` 2 and 1 | `IPCScheduler` | a second message exists while the first is worked on |
| `MaxBuf` 4 | `IPCScheduler` | more than two contexts, the free list and the receive loop ever hold, unless one leaks |
| `BufSize` 2, `Backlog` 1, `MaxWrite` 5 | `IPCOutput` | five items fill the client's queue, the one message sent with a promise, and the buffer behind them, so a writer meets each answer of the kernel and blocks. The writes of all contexts end there; no program's do, so the liveness of a writer is stated up to the writes of the others |
| `MaxRef` 3 | `IPCOutput` | a fork that succeeds and one that fails, or two of either |
| 2 values | `Dictionaries` | an overwritten value is seen to come back, and a write to the wrong key to be one |
| tables of 2 to 5 slots, 3 names, `HashRange` 10 | `Dictionaries` | two names that collide in the last slot, so that probing wraps, and a third behind them; a table that grows once |
| `MaxLevel` 2, `MaxGen` 2, `MaxStack` 1 | `Dictionaries` | a restore over two levels; a stamp that wraps after one bump; one dictionary above the permanent ones |
| 2 hosts, 2 jobs, 3 processes | `LinePrinter` | a daemon that sends, a receiver, and the daemon that receiver starts or a second receiver |
| failures and commands of a scenario, `MaxPrints` 2 | `LinePrinter` | every pair of them that meet in one job: a kill in a removal, a crash in a reception, a lost connection and another. A third copy is printed as the second |
| `MaxDepth` 2 | `ClientEvents` | a call in a proc of a call, and procs of the inner one; the third level repeats the second |
| `MaxQueue` 2, `Width` 4, two `Record`s | `ClientEvents` | two neighbours that combine; priorities 0 to 2 and the threshold at the edge of the word; an item removed and added again while in use |
| `Ops`, `Kinds`, `Reason`, `CustomOps` | all | choose which operators a run's programs use; each run has those its question is about |

Symmetry is used in safety runs only, over contexts or processes that differ in nothing.
`IPCScheduler` has none: its list is ordered.

## 6. Fairness

Nothing is assumed of what user programs choose to do, except that a time
slice ends: the interpreter counts operators down and yields
(`PSSetTimeLimit`, `CheckForPSNotify`).

* `ContextBase`'s users: `SF(Dispatch(c))`, since `PickContext` searches on
  from the context that ran last and so reaches every runnable one (which
  `ipc_live` checks of the real algorithm, with printers); strong, because a
  context may be refused for a while. `WF(Continue(c))`: a coroutine that was
  resumed goes on. `SF(YieldSlice(c))`, `WF` in `ForkJoin`: a slice ends.
* `IPCScheduler`: `WF(Scheduler)`, the loop of `Scheduler`; `SF(RunNotice)` and
  `SF(RunData)` for the ports of a context, since Mach's `msg_receive` on the set
  of enabled ports does not pass over a queued message for ever, though the port
  is disabled again and again; weak fairness of a coroutine's own steps, the end
  of its time slice included; `WF(Answer \/ Accept)`: a client answers and reads,
  or dies. That a program ends is not assumed: `MessageServed` has it as a
  premise, for the context it speaks of and no other. Round robin is not assumed
  there either: it is code.
* `IPCOutput`: the client reads (`WF(ClientReads)`), as `WriterGoesOn` cannot
  hold otherwise; the scheduler receives notifications; a context that is
  runnable resumes or raises, which `RunnableRuns` of `ipc_live` checks. No
  program is assumed to write, to flush, to stop writing or to end. `WriterGoesOn`
  says first that a blocked writer is made runnable, which needs nothing of the others,
  and then that it is blocked for ever only if output is written for ever (section 7).

Liveness that depends on a fair *program* (that a lock's owner leaves its
monitor) is not claimed.

## 7. Where the code and its documents disagree

One is kept as a run, with one property that states the quoted promise and that TLC
violates.

| Run | Promise | What the code does |
|---|---|---|
| `mon_v_wakeup` | `contextimpl.c:418` a release reschedules one waiter | that waiter is terminated before it runs and wakes nobody; the lock stays free with a queue |

Others were met while modelling. The modules contain the behaviour, and the runs
above are set up, or their properties stated, so as to stay clear of it:

* `exec.c:346` says that no exception escapes `psExecute`. An interrupt whose
  handler stops, delivered in `wait`, unwinds a monitor whose lock the context
  has given up, and `ReleaseLock` raises in the HANDLER (`fault = "escape"`).
  The product itself sends no interrupts; `mon_exclusion`, which has them, has no
  conditions.
* `ipcscheduler.c:560` says that a refused switch returns the context that really
  is to run. After `DestroyPSContext` none is loaded, and a refused switch makes
  `NSLoadPS` follow a null pointer (`fault = "null"`, reached in `mon_exclusion`;
  nothing happens after it).
* `postscript.h:247` says that a switch is refused only under a save; BuildChar and
  the circle font refuse it too.
* `postscript.h:235` says that destruction releases locks; those of
  `PSAcquireLock` have no mark and stay owned. `SemaphoreBalanced`, which says so, is checked
  without custom operators.
* `postscript.h:261` says that a notification is processed the next time its context
  executes. One that has not begun starts with a terminate pending and may block
  in `wait` before it is looked at. `SuspendedTerminates` is about the others.
* `publictypes.h:166-168` says that ids are unique and generations not reused. The
  table doubles past the 10-bit index (the `Assert` at `contextimpl.c:1240` is made
  at start only), and the 22-bit time stamp wraps. `ids_unique` and the theorems stay
  within the fields.
* `ipcscheduler.c:199` says that only as many messages are kept as needed. A message
  delivered together with a terminate is in a local variable of `IPCFillBuf` and is lost.
  `BufferOneUser` allows for one buffer with each message that is not handled.
* `ipcscheduler.c:345` says that contexts of a dead port are destroyed. With
  `dirtyShmem` set too, `WBCoProc` waits again and is not woken. `GoneDestroyed` is
  checked of PostScript contexts.
* `ipcstream.h:39` says that the yield for input returns only with a message. An
  application makes a save and waits for input while a context it forked is
  runnable: the switch to the latter is refused and the former resumed inside its
  yield, where it reads a message it has released. `ipc_safety` has one context per
  space.
* `wbcontext.c:78` says that a message and dirty memory never come together.
  `WBChangeBitmap` may run between the delivery of a message and the resumption
  of `WBCoProc`, which then asks for the next message: the first is overwritten.
  `InOrder` lets a window bitmap context miss messages.
* `ipcscheduler.c:346` says that, when a client's port is deleted, processes blocked
  for output on it are woken up. They are, once; the stream's `notifyInProgress`
  stays set. Until the application's context is destroyed, `EndFlush` of the event
  context, outside the region of `event.c:282` in which it does not block, finds the
  flag and waits for a notification that was received before. A forked context woken
  with data in the buffer does the same. `WriterGoesOn` ends with the client.
* `ipcstream.h:58` says that no message is sent while a notification is in progress.
  The out-of-line message of `IPCWrite` is, and its refusal by the kernel is not
  looked at (`overtaken`).
* `ipcscheduler.c:346` speaks of processes that are blocked for output and woken; being
  woken is not going on. `IPCFlushOutput` (`ipcstream.c:351-385`) loops until the
  shared buffer is empty. `IPCNotifyReceived` empties it, with a message that may set
  `notifyInProgress` again; if another context writes before the woken one returns from its
  `PSYield`, that one finds data behind a promise and blocks again. With a writer that
  does so at every turn it starves. `WriterGoesOn` says no more than holds.
* A forked context that outlives the application's context shares a stream that
  `HandleNotifyMsg` can no longer find, so that `notifyInProgress` is never
  cleared. The properties about blocking have `Main \in alive` as a premise.
* A fork that fails after `PSNewContextStms` keeps its reference to the stream
  (`ForkFails`), which is then never freed.

* `vm.h:195` says that a context's time stamp is changed whenever its dictionary stack
  is. A restore gives names back to dictionaries on the stack and bumps no stamp: a
  binding cached below meanwhile is still found. `LookupRight` excepts those names
  until the next bump (`returned`).
* `recvjob.c` acknowledges a control file (`readfile`) before it links it into the
  queue. A receiver killed in between has promised a job that nobody has (`excused`
  "cut").
* `rcleanup` removes the data file received last whenever the connection fails, also
  when its job is in the queue by then or is being received again by the receiver of
  the next connection; and `printit` removes the files of a job that is being
  received again ("stripped").
* If the answer to a control file is lost, or a daemon is killed between printing a
  job and removing it, the job is printed again ("again"). A job without its data
  is dropped: by a daemon that prints with a mail to its user, by one that sends
  without ("failed").
* A daemon that finds its queue empty still holds the lock; one started then for a
  new job finds the lock taken and ends, and the job stays until the next comes
  (`missed`). The same happens to jobs received over a connection that is lost before
  its end, where `recvjob` starts no daemon.
* `input.c:192` promises that no call of `DPSGetEvent` sits in `msg_receive` and ignores
  its fds. It does when a call nested in a proc receives the select thread's message,
  which was about an fd that the outer loop has passed (`swallowed`), and when the
  threshold, hiked for an event found (`ProcThreshold <<= 1`, `input.c:284`), stays hiked
  although a proc then took that event (`hiked`).
* `input.c:104` says that no procs below the threshold are called. The same shift drops
  the bit of threshold 31 from its word; with it goes the whole threshold of the call.
* `calledRoutine` tells `_DPSGetOrPeekEvent` that the queue may have changed, and
  speaks of the procs of fds, ports and timed entries. An event proc that posts or
  discards events goes unnoticed (`meddled`).
* `input.c:798` waits for the select thread's answer "to know when its safe to close the
  fd". `selectLoop` answers before it applies the mask that it selected with: an fd
  of that number, opened and added right then, counts as readable (`late`).
* `filterAndQueueEvent` coalesces an event with the last of the queue whatever its
  context, `condenseQ` only with one of the same context.

## 8. What is proved

Everything here holds for every value of the constants that satisfies the named
assumptions of the modules (`ContextAssumption`, `MonitorAssumption`,
`ForkJoinAssumption`, `IdAssumption`, `SchedulerAssumption`, `OutputAssumption`,
`LinePrinterAssumption`, `NoFileAssumption`, `ClientAssumption`, `DictAssumption`), which TLC
evaluates in each run. They say that the constants are of their kinds (a mapping of
contexts to spaces, no printer queue that sends to itself, lists of contexts and of procs
without repetition, one proc for an fd, since `DPSAddFD` refuses a second, priorities and
thresholds in the ranges that the library asserts, hashes below `HashRange`, a dictionary
stack with a permanent part, dictionaries that start smaller than they may become only
in shared VM, as `DictP` makes them, and only if they may have four keys);
none restricts what the programs do. Where a theorem has a hypothesis beyond
them, section 7 has the behaviour that makes it false otherwise:

| Hypothesis | Of | Why it is needed |
|---|---|---|
| `WaitsUninterrupted` | `ListsSoundAlways`, `ImplementsMonitorAlways`, `MutualExclusion` | an interrupt whose handler stops, delivered in `wait`, unwinds a mark whose lock the context has given up. Either no interrupts, as in the product, or no conditions |
| `~ CustomOps` | `SemaphoreBalancedAlways` | the locks of `PSAcquireLock` have no mark and stay owned by a context that is gone |
| `FieldsSuffice` | all four of `ContextIds` | indices and time stamps wrap |
| `NeverRefused` | all three of `IPCScheduler` | a refused switch resumes a context inside its yield, without a message. Saves are made only by contexts that have their space to themselves |

Those of `ForkJoin`, `IPCOutput`, `LinePrinter`, `ClientEvents` and `Dictionaries` and the remaining
ones of `Monitors` have none.

**`Monitors_proofs`**, the types and the steps:

* `TypeOKAlways`. The invariant is `TypeInv == TypeOK /\ LockNamed`; `LockNamed` says
  that a context suspended inside `AcquireLock` or `PSWait` has a lock in `pl`. It is
  needed since `Resume` runs `AcquireLock(c, pl[c], ...)` and would otherwise write a
  lock `NIL`.
* `ExclusionObeyedAlways`. The argument is about who may move exclusion:
  `StepIsConfined` shows that a step is `Schedule`, or changes nothing of it, or is
  a step of the running context that sets `exclusive` of its own space, or
  `totalExcl`, to itself or to `NIL`. `ExclusionInv` is inductive under these three.
* `OnlyOwnerReleasesAlways`, an action property. The substance is that unwinding and
  destruction release only the locks their context holds, although the marks on
  an exec stack may name locks that others hold by then.

Its second half is over `SafetyInv == TypeInv /\ ExclusionInv /\ LinkInv /\ SemInv /\
SaverInv`, which needs no hypothesis:

* `SaverNeverBehindExcludedAlways`, from `SaverInv`: it is about whoever waits, in a
  queue, in a condition or between the two, since `AcquireLock` tests the semaphore
  only when it queues.
* `ListsSoundAlways`, from `LinkInv` (who is linked is suspended on that object) and
  `BodyInv`: a lock has one mark at most on a stack, and its owner is whose stack it
  is, unless that context gave it up in `wait`.
* `SemaphoreBalancedAlways`, from `SemInv` and `HolderInv`: each semaphore is the sum of
  a level and of the BuildChars and strokes on one stack, which is proved by how
  `Count` changes when a stack is pushed and cut; and each lock that is held has a
  mark on its holder's stack, so that destruction finds it.
* `ImplementsMonitorAlways`: `BodyInv` makes each step of `Monitors` a step of
  `AbstractMonitor` or a stutter under the refinement mapping.
* `MutualExclusion` is about the specification of `Monitors` itself: two contexts are never
  in the bodies of monitors on one lock. It follows from `BodyInv`, by which each of
  them would own the lock, and so rests on the invariant of all the steps by which a
  lock is taken, given up in `wait`, taken again, and released by unwinding.

**`ForkJoin_proofs`**, over `JoinInv == JoinableSound /\ UsedWell /\ JoinedDone /\ TargetNear
/\ NoOrphanJoiner`. `NoOrphanJoiner` alone is not inductive: that the end of a target
wakes its joiner needs the two to be of one space (`TargetNear`), a context that is
forked to be new (`UsedWell`), and one that was joined to have ended (`JoinedDone`).
`JoinableSoundAlways`, `NoOrphanJoinerAlways`, and the action property
`JoinedOnceAlways`.

**`ContextIds_proofs`**: `LiveIdsResolveAlways`, `StaleIdsFindNothingAlways`,
`NeverReissuedAlways`, `FreeListSoundAlways`. `IdInv` says that the table holds exactly
the live objects under their own ids, that every id issued has a time stamp not
later than the clock, strictly earlier if its object is gone, and that *there is*
an injective sequence of unused entries that the free list threads. `NewID` shortens
the witness and `RecycleID` lengthens it, so the invariant needs no induction over the
list. `FreeListSound`, which walks the list by a recursive function, then follows:
the walk is the witness (`WalkIs`), which is short by the pigeonhole principle
(`ShortList`).

**`IPCScheduler_proofs`**: `InOrderAlways`, `RestrictedBitAlways`, `BufferOneUserAlways`, over
`IInv`, whose parts relate what the code keeps apart:

* `WaitInv`: where a coroutine is suspended, what its bits say, and which port the
  kernel receives from for it;
* `MsgInv`, `BufInv`: what the buffer in its slot and that of its stream contain, and
  that no buffer is in two of: a slot, a stream, the free list, the heap;
* `OrderInv`: what was sent is what was taken, then what has been delivered, then
  what is queued;
* `KindInv`, `TypeInv`: what a window bitmap client or a PostScript client never does.

`Scheduler` is one action with a data, a notification and an idle case, a search
over the list, and a switch that may be refused. Its steps are first brought to one
of two forms, `Delivers` (one context is given a message) and `Turn` (the running
context is chosen), over which the invariant is proved once. `CountInv` bounds the lost
buffers by the messages that nobody handled: each step that loses one adds one
(`Loses`).

**`IPCOutput_proofs`**: `OutputInOrderAlways`, `FlagTellsTruthAlways`, `OpenWhileUsedAlways`, over
`IInv == ProcInv /\ StreamInv /\ WriteInv /\ RefInv`. In `StreamInv`, as long as the client
can get what is written, what it read, each message in its queue and the buffer are
consecutive pieces (`Span`) of `1 .. written`, and the stream's flag agrees with the
kernel. Neither holds without the other: with a wrong flag a message would be
refused and its items lost. `RefInv` relates the references to the contexts that use
the stream, those of failed forks included.

**`LinePrinter_proofs`**: what a step does to a process is first put as a formula on its
fields; `ProcInv` then says who is connected to whom and who holds which lock.

* `OneDaemonAlways`, from `ProcInv`;
* `NothingForgottenAlways`, with `SentWell`: a job that a daemon removes was printed, or
  its control file was received: it is linked, or about to be;
* `DataKeptAlways`, with `InTurn` (on a connection the data of a job precedes its control
  file) and `ReceivedData` (what is being received has its data);
* `PrintedOnceAlways`, with `Places` and `OnceInv`: of each job there is one copy that can
  be printed, in a queue or on its way, besides those that a daemon is removing;
* `NoneStrandedAlways`, with `Served`, which distinguishes the daemons that have seen
  their queue empty from those that will look again.

**`ClientEvents_proofs`**: `ThresholdObeyedAlways`, `NothingIgnoredAlways`,
`EventNoticedAlways` and the action property `CalledForDataAlways`, for any procs, priorities
and requests, any width of the mask and any depth of nested calls. `ThresholdObeyed` is
about a proc and the calls around it, so its strengthening `FramesInv` is about one frame of
the stack and those below it:

* `ProcAt`: a proc that runs was allowed by each call below it, and is in no other frame;
* `PrevAt`: the threshold that a call will restore when it ends excludes all that the
  calls below it exclude. `ProcThreshold` is one global mask, and what the outer calls
  rely on is in a local variable of the inner one;
* `MainAt`: what a call listens to is allowed, unless it knows that it must fix the main
  set again (`stale`, the code's comparison of `restrLevel` with `MainSetCount`).

`ThrInv` says that the mask itself excludes what the calls exclude. It is broken in two
places, and the invariant says why nothing is called there: between the end of a call and
the restoring of the mask, and when the highest bit was shifted out of range and the
loops that follow have nothing below it to call (`Ends`). A call with an event in hand may,
once the bit of the highest threshold is shifted out (`Hiked`), call what that threshold
forbids: the exception that `ThresholdObeyed` makes, and section 7 describes. `ListInv` says
that an item somebody has a pointer to is in its list, if doomed. `KeptFrames` is the
lemma behind most steps: a step changes the frames near the top and marks others stale,
and the clauses of the frames that it keeps stay true.

The other three are about the stack, the two threads and the queue at once. They follow
from `Inv /\ Inv2` (`Inv2Always`), where `Inv2` says, for the fds that have an item which is
not doomed (`Live`) and those of them that are active while their procs do not run (`Idle`):

* `FdInv`: the bit of an fd is in `waiting` or in `active` or the fd is being removed, and
  in neither if it has no item; of two items of one fd the older is doomed. While the
  select thread holds a mask, what is in it is still waited for, or somebody is
  waiting for the answer to its removal (`ReplyInv`: one at a time, and he is on top);
* `DataInv`: an idle fd has data, and so has one in a mask that will be applied, or it was
  added after the answer (`late`). `CalledForData` is this at the moment when a proc is
  called;
* `ToldInv`: of each idle fd above its threshold each call of the stack will still be told,
  or has been deprived of the message, or was raised; or it will yet look at the fd
  (`Looks`), by where its loop stands in the list. For a call that is not the innermost
  this needs what it is doing (`LinkInv`), and which threshold it comes back to: the one
  that the call above it saved (`ThrAt`). A call that waits will not look any more, which
  leaves `NothingIgnored`;
* `NoticeInv`: the innermost call knows whether what it asked for is in the queue, except
  between a proc and the `Refreshed` that follows it (`called`), since the proc may have
  taken, added or combined events, and after an event proc changed the queue (`meddled`).

Steps are again brought to a few forms (`Shape`, `Same`): what they push or pop, what
they leave alone, and marks that only grow.

**`Dictionaries_proofs`**: `TableSoundAlways` and `LookupRightAlways`, for any names and
hashes, any lengths and bit vectors, any depth of saves and any programs, over
`IInv == Ground /\ HeapInv /\ StackInv /\ StampInv` (`IInvAlways`). Neither property is
inductive, nor are the two together: a restore brings back a table that was overwritten
long ago, so that it must be known of every table that can come back that it can be
searched. The records about one slot or one header are its *log*, a function of their
levels, and what the slot held at level k (`KeyAt`, `HeaderAt`) is what the first record above
k says, or what the slot holds. Then

* `Logged`: each log is a chain (`Chain`): a record says of which level the slot was before,
  and the record of that level is the one before it. This is what `klevel` and `vlevel`,
  overwritten with each record, are for;
* `NowGood`, `PastGood`: a table can be searched (`Searchable`: no null between a key and its
  home), and `curlength` counts its keys, now and at each level since the dictionary
  was made;
* `CacheOK`, `VecOK`: a cached place holds the key; a name knows the bits of all
  dictionaries that have it, or had it in a record;
* `StampInv`: a name with the stamp of a context is topmost for it now, or, for a context
  that does not make the saves, at every level that the saver may go back to.

A write changes the present and leaves the past (`Kept`): the write of a slot makes at most
one record, at the level of the save in force, and `At` finds the old value there. A save
makes the present one more past. A restore undoes one level after the other,
innermost first, and applies only the records that go back far enough; `Part` says
what of a log has been applied when the levels above l are gone, and `PartAll` that at
the end this is what the log says of level k. `TableBackIs` and `RestoredIs` put
that together: a restore makes the past the present. `UnDef` leaves a table that cannot
be searched between two moves; `HoleInv` says what is wrong with it (the hole, and what was
not looked at yet), and `ExpandedGood` is about a table that has only the first entries of the
one it replaces. Both, and the descent of a restore, are recursive functions whose
values are found step by step from the equation that defines them.

Invariants were checked by TLC on the instances of the runs before they were proved.
Induction over data is done by hand where it is needed: a set of naturals without
a least element is empty since their order is well founded (`SetInduction`), which
the provers can use where they cannot use the library's theorems of induction.

Only model-checked:

* all liveness, which needs fairness and `ENABLED`: `mon_live`, `JoinReturns`, `ipc_live`,
  `GatheredGoes`, `WriterGoesOn`; and `mon_v_wakeup`, which refutes a property;
* `ImplementsDictionaries`, which is about the values as well as the keys. Of it the
  theorems have what concerns the keys now and in the past; that the values of a
  restored table are those of the save is shown by `dict_save`, with two values.

No module uses a RECURSIVE operator.

## 9. What is not modelled, and the plan

Left out of the modules above, and stated here so that nobody reads more into
them: the exec stack's limits; time-outs and disabled interrupts
(`PSSetTimeLimit`, `DisableCC`); login, user ids and the termination of user
contexts at logout; malformed messages; what a message's bytes do.

Not planned: rasterisation and numerics (arithmetic on pixels, no control of
interest), stack switching in assembler, VM file formats, pswrap and the command
line tools, fonts as data.

The parts left out of `Dictionaries`, `LinePrinter` and `ClientEvents` are named with
them in section 3. The rest of the repository's code (`PROJECT.json` lists it by
component) is not modelled yet. Of it these have control worth a module:

1. `Recycler` and `Collector` (`vm/recycler.c`, `vm/gcimpl.c`): ranges handed back
   while something refers to them; roots in suspended contexts.
2. `FontCache` and `MaskCache` (`fonts/`, `device/maskcache.c`): caches at their limit,
   purged while a BuildChar fills them.
3. `EventQueue`, `Listener`, `ImageMessages` (`product/`): the other coroutines of the
   product.
4. `WindowTree` (`bintree/`): layers, their pieces and the windows that share causes.
5. `Notification`: time limits, `DisableCC`/`EnableCC`, `PSClrInt`, composed with
   `ContextBase`.

Theorem planned: an abstract specification of a future (set once, taken once) for
`ForkJoin` to implement.

## 10. Running it

```
tlc -workers 4 -config MCMonitors_locks.cfg MCMonitors
for m in Monitors_proofs ForkJoin_proofs ContextIds_proofs IPCScheduler_proofs \
         IPCOutput_proofs LinePrinter_proofs ClientEvents_proofs \
         Dictionaries_proofs; do tlapm $m.tla; done
```

Each run takes at most three minutes on two cores (`client_events`, with two million
states, `dict_save`, for its refinement, and `fork`, for its liveness, take longest). The proofs take about an hour
from nothing: `IPCScheduler_proofs` four minutes, `ClientEvents_proofs` fifteen,
`Dictionaries_proofs` over twenty.
