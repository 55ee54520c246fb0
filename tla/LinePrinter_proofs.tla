------------------------- MODULE LinePrinter_proofs -------------------------
(***************************************************************************)
(* The safety properties of the line printer system, proved for any hosts,    *)
(* jobs and processes.  The argument, in the order of the module:             *)
(*                                                                         *)
(*  - what each step does to a process, as a formula over its fields (Step,   *)
(*    Drops, Starts, Connects, SendsTo, Ends): the records are not expanded    *)
(*    again after this;                                                     *)
(*  - TypeInv and ProcInv: connected processes are a daemon that sends and a  *)
(*    receiver, and the holder of a lock is the daemon that works.  OneDaemon  *)
(*    follows;                                                              *)
(*  - what a step leaves alone: of another process (Frame), of a queue         *)
(*    (QueueFrame, QueueGrows), of data (DataFrame);                           *)
(*  - NothingForgotten, with what the daemon that removes a job knows of it   *)
(*    (SentWell); DataKept, with the data of what is being received            *)
(*    (ReceivedData) and the order of the files on a connection (InTurn);      *)
(*    PrintedOnce, with the one copy of a job that can be printed (Once);      *)
(*    NoneStranded, with who serves a queue (Served).                       *)
(***************************************************************************)
EXTENDS LinePrinter, TLAPS

USE LinePrinterAssumption

Message == ({"cf", "df"} \X Job) \cup {NIL}
Process == [host : Host \cup {NIL}, pc : Phase, job : Job \cup {NIL}, list : SUBSET Job,
            mode : SUBSET {"stop", "rebuild"}, again : BOOLEAN, conn : Proc \cup {NIL},
            msg : Message, ack : BOOLEAN, df : Job \cup {NIL}, some : BOOLEAN]

Working == {"work", "waitDf", "waitCf", "unlinkDf", "unlinkCf", "check", "link"}

ProcType ==
  /\ proc \in [Proc -> Process]
  /\ \A p \in Proc : /\ At(p, "free") <=> On(p) = NIL
                     /\ proc[p].pc \in Working => proc[p].job \in Job

File == {"cf", "df", "tf"} \X Job

FileType ==
  /\ spool \in [Host -> SUBSET File]
  /\ flags \in [Host -> SUBSET {"stop", "rebuild"}]
  /\ lock \in [Host -> Proc \cup {NIL}]
  /\ pid \in [Host -> Proc \cup {NIL}]
  /\ current \in [Host -> Job \cup {NIL}]

Removal == [pc : {"idle", "look", "kill", "process", "restart"}, host : Host \cup {NIL},
            job : Job \cup {NIL}, victim : Proc \cup {NIL}, killed : SUBSET Host]

RmType ==
  /\ rm \in Removal
  /\ rm.pc # "idle" => /\ rm.host \in Host /\ up[rm.host] /\ rm.job \in Job
                       /\ home[rm.job] \in Host /\ up[home[rm.job]] /\ user[rm.job] = "done"
  /\ rm.pc = "kill" => rm.victim \in Proc

UserType ==
  /\ up \in [Host -> BOOLEAN]
  /\ home \in [Job -> Host \cup {NIL}]
  /\ user \in [Job -> {"new", "queued", "done"}]
  /\ \A j \in Job : /\ user[j] # "new" => home[j] \in Host
                    /\ user[j] = "queued" => up[home[j]]
  /\ RmType

HistoryType ==
  /\ printed \in [Job -> 0 .. MaxPrints]
  /\ excused \in [Kinds \cup {"missed"} -> SUBSET (Job \cup Host)]
  /\ \A k \in Kinds : excused[k] \subseteq Job
  /\ excused.missed \subseteq Host

TypeInv == ProcType /\ FileType /\ UserType /\ HistoryType

-----------------------------------------------------------------------------
LEMMA FreshIs ==
  ASSUME NEW h \in Host, NEW pc \in Phase
  PROVE  /\ Fresh(h, pc) \in Process
         /\ Fresh(h, pc).host = h /\ Fresh(h, pc).pc = pc
         /\ Fresh(h, pc).conn = NIL /\ Fresh(h, pc).df = NIL /\ Fresh(h, pc).job = NIL
         /\ Fresh(h, pc).msg = NIL /\ ~ Fresh(h, pc).some /\ ~ Fresh(h, pc).ack
  BY DEF Fresh, Free, Process, Phase, Message

LEMMA FreeIs ==
  /\ Free \in Process /\ Free.host = NIL /\ Free.pc = "free" /\ Free.conn = NIL
  /\ Free.job = NIL /\ Free.df = NIL /\ Free.msg = NIL
  BY DEF Free, Process, Phase, Message

LEMMA ClosedIs ==
  ASSUME NEW f \in [Proc -> Process], NEW gone \in SUBSET Proc
  PROVE  /\ Closed(f, gone) \in [Proc -> Process]
         /\ \A p \in Proc : Closed(f, gone)[p] =
              [f[p] EXCEPT !.conn = IF f[p].conn \in gone THEN NIL ELSE f[p].conn]
<1>1. \A p \in Proc : [f[p] EXCEPT !.conn = NIL] \in Process
  BY DEF Process
<1>2. \A p \in Proc : f[p] = [f[p] EXCEPT !.conn = f[p].conn]
  BY DEF Process
<1> QED BY <1>1, <1>2 DEF Closed

LEMMA EndedIs ==
  ASSUME NEW f \in [Proc -> Process], NEW gone \in SUBSET Proc
  PROVE  /\ Ended(f, gone) \in [Proc -> Process]
         /\ \A p \in gone : Ended(f, gone)[p] = Free
         /\ \A p \in Proc \ gone : Ended(f, gone)[p] =
              [f[p] EXCEPT !.conn = IF f[p].conn \in gone THEN NIL ELSE f[p].conn]
<1> DEFINE g == [p \in Proc |-> IF p \in gone THEN Free ELSE f[p]]
<1>1. g \in [Proc -> Process]
  BY FreeIs
<1>2. Free = [Free EXCEPT !.conn = NIL]
  BY FreeIs DEF Process
<1> QED BY <1>1, <1>2, ClosedIs, FreeIs DEF Ended

\* What the invariants see of a step of p's alone: it goes to pc, and works on
\* job; its host, connection and what it received stay.
Others(p) == \A q \in Proc \ {p} : proc'[q] = proc[q]
Received(p) == /\ proc'[p].msg = proc[p].msg /\ proc'[p].ack = proc[p].ack
               /\ proc'[p].df = proc[p].df /\ proc'[p].some = proc[p].some
Step(p, pc, job) ==
  /\ proc' \in [Proc -> Process]
  /\ Others(p)
  /\ On(p)' = On(p) /\ proc'[p].conn = proc[p].conn /\ Received(p)
  /\ proc'[p].pc = pc /\ proc'[p].job = job

LEMMA SetOne ==
  ASSUME ProcType, NEW p \in Proc, NEW r \in Process, proc' = [proc EXCEPT ![p] = r]
  PROVE  proc' \in [Proc -> Process] /\ Others(p) /\ proc'[p] = r
  BY DEF ProcType, Others

\* r is what p may become in such a step.
Like(r, p) ==
  /\ r \in Process /\ r.host = proc[p].host /\ r.conn = proc[p].conn /\ r.msg = proc[p].msg
  /\ r.ack = proc[p].ack /\ r.df = proc[p].df /\ r.some = proc[p].some

LEMMA SetStep ==
  ASSUME ProcType, NEW p \in Proc, NEW r, Like(r, p), proc' = [proc EXCEPT ![p] = r]
  PROVE  Step(p, r.pc, r.job)
  BY SetOne DEF Step, On, Received, Like

LEMMA GoIs ==
  ASSUME ProcType, NEW p \in Proc, NEW pc \in Phase, Go(p, pc)
  PROVE  Step(p, pc, proc[p].job)
<1> DEFINE r == [proc[p] EXCEPT !.pc = pc]
<1>1. Like(r, p) /\ r.pc = pc /\ r.job = proc[p].job
  BY DEF Process, Like, ProcType
<1>2. proc' = [proc EXCEPT ![p] = r]
  BY DEF Go
<1> HIDE DEF r
<1> QED BY <1>1, <1>2, SetStep

LEMMA LockStep ==
  ASSUME ProcType, FileType, NEW p \in Proc, Lock(p)
  PROVE  Step(p, "scan", proc[p].job)
<1> DEFINE r == [proc[p] EXCEPT !.pc = "scan", !.mode = flags[On(p)]]
<1>1. proc[p] \in Process /\ On(p) \in Host
  BY DEF Lock, At, On, ProcType, Process
<1>2. Like(r, p) /\ r.pc = "scan" /\ r.job = proc[p].job
  BY <1>1 DEF Process, Like, FileType, Phase, Locked
<1>3. proc' = [proc EXCEPT ![p] = r]
  BY DEF Lock
<1> HIDE DEF r
<1> QED BY <1>2, <1>3, SetStep

LEMMA ScanStep ==
  ASSUME ProcType, NEW p \in Proc, Scan(p)
  PROVE  \E pc \in {"exit", "open"} : Step(p, pc, proc[p].job)
<1> DEFINE r == [proc[p] EXCEPT !.pc = "open", !.list = Queue(On(p))]
<1>1. proc[p] \in Process
  BY DEF ProcType
<1>2. Like(r, p) /\ r.pc = "open" /\ r.job = proc[p].job
  BY <1>1 DEF Process, Like, Phase, Locked, Queue
<1>3. proc' = [proc EXCEPT ![p] = r] \/ Go(p, "exit")
  BY DEF Scan
<1> HIDE DEF r
<1> QED BY <1>2, <1>3, SetStep, GoIs DEF Phase, Locked

LEMMA RescanStep ==
  ASSUME ProcType, NEW p \in Proc, Rescan(p)
  PROVE  \E pc \in {"exit", "pick"} : Step(p, pc, proc[p].job)
<1> DEFINE next == IF Queue(On(p)) = {} THEN "exit" ELSE "pick"
           r == [proc[p] EXCEPT !.pc = next, !.list = Queue(On(p))]
<1>1. proc[p] \in Process /\ next \in {"exit", "pick"}
  BY DEF ProcType
<1>2. proc' = [proc EXCEPT ![p] = r]
  BY DEF Rescan
<1> HIDE DEF next
<1>3. Like(r, p) /\ r.pc = next /\ r.job = proc[p].job
  BY <1>1 DEF Process, Like, Phase, Locked, Queue
<1> HIDE DEF r
<1> QED BY <1>1, <1>2, <1>3, SetStep

LEMMA OpenPrinterStep ==
  ASSUME ProcType, NEW p \in Proc, OpenPrinter(p)
  PROVE  \E pc \in {"pick", "work"} :
           (pc = "work" <=> proc[p].job # NIL) /\ Step(p, pc, proc[p].job)
<1> DEFINE next == IF proc[p].job = NIL THEN "pick" ELSE "work"
           r == [proc[p] EXCEPT !.pc = next, !.again = FALSE]
<1>1. proc[p] \in Process /\ next \in {"pick", "work"} /\ (next = "work" <=> proc[p].job # NIL)
  BY DEF ProcType
<1>2. proc' = [proc EXCEPT ![p] = r]
  BY DEF OpenPrinter, Reopened
<1> HIDE DEF next
<1>3. Like(r, p) /\ r.pc = next /\ r.job = proc[p].job
  BY <1>1 DEF Process, Like, Phase, Locked
<1> HIDE DEF r
<1> QED BY <1>1, <1>2, <1>3, SetStep

LEMMA PickStep ==
  ASSUME ProcType, NEW p \in Proc, Pick(p)
  PROVE  \/ \E pc \in {"rescan", "pick"} : Step(p, pc, proc[p].job)
         \/ \E j \in Job : Cf(j) \in spool[On(p)] /\ Step(p, "work", j)
<1>1. proc[p] \in Process
  BY DEF ProcType
<1>2. CASE Go(p, "rescan")
  BY <1>2, GoIs DEF Phase, Locked
<1>3. ASSUME NEW j \in proc[p].list, Cf(j) \in spool[On(p)],
             proc' = [proc EXCEPT ![p].pc = "work", ![p].job = j, ![p].list = @ \ {j}]
      PROVE  j \in Job /\ Cf(j) \in spool[On(p)] /\ Step(p, "work", j)
  <2> DEFINE r == [proc[p] EXCEPT !.pc = "work", !.job = j, !.list = @ \ {j}]
  <2>1. Like(r, p) /\ r.pc = "work" /\ r.job = j /\ j \in Job
    BY <1>1, <1>3 DEF Process, Like, Phase, Locked
  <2>2. proc' = [proc EXCEPT ![p] = r]
    BY <1>3
  <2> HIDE DEF r
  <2>3. Step(p, "work", j)
    BY <2>1, <2>2, SetStep
  <2> QED BY <1>3, <2>1, <2>3
<1>4. ASSUME NEW j \in proc[p].list, proc' = [proc EXCEPT ![p].list = @ \ {j}]
      PROVE  Step(p, proc[p].pc, proc[p].job)
  <2> DEFINE r == [proc[p] EXCEPT !.list = @ \ {j}]
  <2>1. Like(r, p) /\ r.pc = proc[p].pc /\ r.job = proc[p].job
    BY <1>1, <1>4 DEF Process, Like
  <2>2. proc' = [proc EXCEPT ![p] = r]
    BY <1>4
  <2> HIDE DEF r
  <2> QED BY <2>1, <2>2, SetStep
<1> QED BY <1>2, <1>3, <1>4 DEF Pick, At

\* The job is to be printed or sent again.
ToRepeat(p) == proc' = [proc EXCEPT ![p].pc = "check", ![p].again = TRUE]

LEMMA AgainStep ==
  ASSUME ProcType, NEW p \in Proc, ToRepeat(p)
  PROVE  Step(p, "check", proc[p].job)
<1> DEFINE r == [proc[p] EXCEPT !.pc = "check", !.again = TRUE]
<1>0. proc[p] \in Process
  BY DEF ProcType
<1>1. Like(r, p) /\ r.pc = "check" /\ r.job = proc[p].job
  BY <1>0 DEF Process, Like, Phase, Locked
<1>2. proc' = [proc EXCEPT ![p] = r]
  BY DEF ToRepeat
<1> HIDE DEF r
<1> QED BY <1>1, <1>2, SetStep

\* A step that closes p's connection, at both ends.
Drops(p, pc, job) ==
  /\ proc' \in [Proc -> Process]
  /\ \A q \in Proc \ {p} :
       /\ On(q)' = On(q) /\ proc'[q].pc = proc[q].pc /\ proc'[q].job = proc[q].job /\ Received(q)
       /\ proc'[q].conn = IF proc[q].conn = p THEN NIL ELSE proc[q].conn
  /\ On(p)' = On(p) /\ proc'[p].conn = NIL /\ proc'[p].pc = pc /\ proc'[p].job = job

LEMMA SetDrops ==
  ASSUME ProcType, NEW p \in Proc, NEW r \in Process, r.host = On(p), r.conn = NIL,
         proc' = [Closed(proc, {p}) EXCEPT ![p] = r]
  PROVE  Drops(p, r.pc, r.job) /\ proc'[p] = r
<1> DEFINE f == Closed(proc, {p})
<1>1. f \in [Proc -> Process]
  BY ClosedIs DEF ProcType
<1>2. ASSUME NEW q \in Proc
      PROVE  /\ f[q].host = proc[q].host /\ f[q].pc = proc[q].pc /\ f[q].job = proc[q].job
             /\ f[q].msg = proc[q].msg /\ f[q].ack = proc[q].ack /\ f[q].df = proc[q].df
             /\ f[q].some = proc[q].some
             /\ f[q].conn = IF proc[q].conn = p THEN NIL ELSE proc[q].conn
  <2> DEFINE c == IF proc[q].conn = p THEN NIL ELSE proc[q].conn
  <2>1. f[q] = [proc[q] EXCEPT !.conn = c]
    BY ClosedIs DEF ProcType
  <2>2. proc[q] \in Process
    BY DEF ProcType
  <2> HIDE DEF c, f
  <2>3. /\ f[q].host = proc[q].host /\ f[q].pc = proc[q].pc /\ f[q].job = proc[q].job
        /\ f[q].msg = proc[q].msg /\ f[q].ack = proc[q].ack /\ f[q].df = proc[q].df
        /\ f[q].some = proc[q].some /\ f[q].conn = c
    BY <2>1, <2>2 DEF Process
  <2> QED BY <2>3 DEF c
<1> HIDE DEF f
<1>3. proc' \in [Proc -> Process] /\ proc'[p] = r /\ \A q \in Proc \ {p} : proc'[q] = f[q]
  BY <1>1 DEF f
<1>4. \A q \in Proc \ {p} :
        /\ On(q)' = On(q) /\ proc'[q].pc = proc[q].pc /\ proc'[q].job = proc[q].job /\ Received(q)
        /\ proc'[q].conn = IF proc[q].conn = p THEN NIL ELSE proc[q].conn
  <2> SUFFICES ASSUME NEW q \in Proc \ {p}
               PROVE  /\ On(q)' = On(q) /\ proc'[q].pc = proc[q].pc /\ proc'[q].job = proc[q].job
                      /\ Received(q)
                      /\ proc'[q].conn = IF proc[q].conn = p THEN NIL ELSE proc[q].conn
    OBVIOUS
  <2>1. proc'[q] = f[q]
    BY <1>3
  <2> QED BY <1>2, <2>1 DEF On, Received
<1>5. On(p)' = On(p) /\ proc'[p].conn = NIL /\ proc'[p].pc = r.pc /\ proc'[p].job = r.job
  BY <1>3 DEF On
<1> QED BY <1>3, <1>4, <1>5 DEF Drops

LEMMA CheckStep ==
  ASSUME ProcType, NEW p \in Proc, Check(p)
  PROVE  \/ "stop" \in flags[On(p)] /\ Step(p, "exit", proc[p].job)
         \/ \E pc \in {"rescan", "pick"} : Step(p, pc, NIL)
         \/ Drops(p, "open", proc[p].job) /\ Received(p)
<1>1. proc[p] \in Process
  BY DEF ProcType
<1>2. CASE "stop" \in flags[On(p)] /\ Go(p, "exit")
  BY <1>2, GoIs DEF Phase, Locked
<1>3. ASSUME proc' = [proc EXCEPT ![p] = [[proc[p] EXCEPT !.job = NIL] EXCEPT !.pc = "rescan", !.again = FALSE]]
      PROVE  Step(p, "rescan", NIL)
  <2> DEFINE r == [[proc[p] EXCEPT !.job = NIL] EXCEPT !.pc = "rescan", !.again = FALSE]
  <2>1. Like(r, p) /\ r.pc = "rescan" /\ r.job = NIL
    BY <1>1 DEF Process, Like, Phase, Locked
  <2> HIDE DEF r
  <2> QED BY <1>3, <2>1, SetStep DEF r
<1>4. ASSUME proc' = [proc EXCEPT ![p] = [[proc[p] EXCEPT !.job = NIL] EXCEPT !.pc = "pick"]]
      PROVE  Step(p, "pick", NIL)
  <2> DEFINE r == [[proc[p] EXCEPT !.job = NIL] EXCEPT !.pc = "pick"]
  <2>1. Like(r, p) /\ r.pc = "pick" /\ r.job = NIL
    BY <1>1 DEF Process, Like, Phase, Locked
  <2> HIDE DEF r
  <2> QED BY <1>4, <2>1, SetStep DEF r
<1>5. ASSUME proc' = [Closed(proc, {p}) EXCEPT ![p].pc = "open", ![p].conn = NIL]
      PROVE  Drops(p, "open", proc[p].job) /\ Received(p)
  <2> DEFINE s == Closed(proc, {p})[p]
             r == [s EXCEPT !.pc = "open", !.conn = NIL]
  <2>1. s \in Process
    BY ClosedIs DEF ProcType
  <2>2. /\ s.host = On(p) /\ s.job = proc[p].job /\ s.msg = proc[p].msg /\ s.ack = proc[p].ack
        /\ s.df = proc[p].df /\ s.some = proc[p].some
    <3>1. s = [proc[p] EXCEPT !.conn = IF proc[p].conn \in {p} THEN NIL ELSE proc[p].conn]
      BY ClosedIs DEF ProcType
    <3> QED BY <1>1, <3>1 DEF Process, On
  <2>3. proc' = [Closed(proc, {p}) EXCEPT ![p] = r]
    BY <1>5
  <2> HIDE DEF s
  <2>4. /\ r \in Process /\ r.host = s.host /\ r.pc = "open" /\ r.job = s.job /\ r.conn = NIL
        /\ r.msg = s.msg /\ r.ack = s.ack /\ r.df = s.df /\ r.some = s.some
    BY <2>1 DEF Process, Phase, Locked
  <2> HIDE DEF r
  <2>5. Drops(p, r.pc, r.job) /\ proc'[p] = r
    <3>1. r \in Process /\ r.host = On(p) /\ r.conn = NIL
      BY <2>2, <2>4
    <3> QED BY <2>3, <3>1, SetDrops
  <2> QED BY <2>2, <2>4, <2>5 DEF Received
<1> QED BY <1>2, <1>3, <1>4, <1>5 DEF Check

LEMMA AbortStep ==
  ASSUME ProcType, NEW p \in Proc, On(p) \in Host, Abort(p)
  PROVE  Drops(p, "aborted", NIL) /\ proc'[p].msg = NIL /\ proc'[p].df = NIL /\ ~ proc'[p].some
<1> DEFINE r == Fresh(On(p), "aborted")
<1>1. /\ r \in Process /\ r.host = On(p) /\ r.conn = NIL /\ r.pc = "aborted" /\ r.job = NIL
      /\ r.msg = NIL /\ r.df = NIL /\ ~ r.some
  BY FreshIs DEF Phase
<1>2. proc' = [Closed(proc, {p}) EXCEPT ![p] = r]
  BY DEF Abort
<1> HIDE DEF r
<1>3. Drops(p, r.pc, r.job) /\ proc'[p] = r
  BY <1>1, <1>2, SetDrops
<1> QED BY <1>1, <1>3

LEMMA LoseStep ==
  ASSUME ProcType, NEW p \in Proc, Lose(p)
  PROVE  Drops(p, proc[p].pc, proc[p].job) /\ Received(p)
<1> DEFINE s == Closed(proc, {p})[p]
           r == [s EXCEPT !.conn = NIL]
<1>1. s \in Process
  BY ClosedIs DEF ProcType
<1>2. /\ s.host = On(p) /\ s.job = proc[p].job /\ s.pc = proc[p].pc /\ s.msg = proc[p].msg
      /\ s.ack = proc[p].ack /\ s.df = proc[p].df /\ s.some = proc[p].some
  <2>1. s = [proc[p] EXCEPT !.conn = IF proc[p].conn \in {p} THEN NIL ELSE proc[p].conn]
    BY ClosedIs DEF ProcType
  <2>2. proc[p] \in Process
    BY DEF ProcType
  <2> QED BY <2>1, <2>2 DEF Process, On
<1>3. proc' = [Closed(proc, {p}) EXCEPT ![p] = r]
  BY DEF Lose
<1> HIDE DEF s
<1>4. /\ r \in Process /\ r.conn = NIL
      /\ r.host = s.host /\ r.pc = s.pc /\ r.job = s.job
      /\ r.msg = s.msg /\ r.ack = s.ack /\ r.df = s.df /\ r.some = s.some
  BY <1>1 DEF Process
<1> HIDE DEF r
<1>5. Drops(p, r.pc, r.job) /\ proc'[p] = r
  BY <1>2, <1>3, <1>4, SetDrops
<1> QED BY <1>2, <1>4, <1>5 DEF Received

\* A process is forked.
Starts(q, h) ==
  /\ At(q, "free") /\ Others(q)
  /\ proc' \in [Proc -> Process]
  /\ proc'[q] = Fresh(h, "start")

LEMMA ForkedStep ==
  ASSUME ProcType, NEW h \in Host, Forked(h)
  PROVE  \E q \in Proc : Starts(q, h)
  BY FreshIs, SetOne DEF Forked, Starts, Phase

\* A daemon that sends and a process of the remote lpd are connected.
Connects(p, q) ==
  /\ proc' \in [Proc -> Process]
  /\ At(p, "open") /\ Sends(p) /\ up[Remote[On(p)]] /\ At(q, "free")
  /\ \A r \in Proc \ {p, q} : proc'[r] = proc[r]
  /\ On(p)' = On(p) /\ proc'[p].conn = q /\ Received(p) /\ proc'[p].job = proc[p].job
  /\ proc'[p].pc = IF proc[p].job = NIL THEN "pick" ELSE "work"
  /\ On(q)' = Remote[On(p)] /\ proc'[q].conn = p /\ proc'[q].pc = "read"
  /\ proc'[q].job = NIL /\ proc'[q].msg = NIL /\ proc'[q].df = NIL /\ ~ proc'[q].some

LEMMA OpenRemoteStep ==
  ASSUME ProcType, NEW p \in Proc, OpenRemote(p)
  PROVE  \E q \in Proc : Connects(p, q)
<1>1. /\ proc[p] \in Process /\ On(p) \in Host /\ Remote[On(p)] \in Host
      /\ At(p, "open") /\ Sends(p) /\ up[Remote[On(p)]]
  BY DEF OpenRemote, Opened, Sends, ProcType, Process, At, On
<1> DEFINE h == Remote[On(p)]
           next == IF proc[p].job = NIL THEN "pick" ELSE "work"
           f == Fresh(h, "read")
           a == [f EXCEPT !.conn = p]
<1>2. PICK q \in Proc : /\ At(q, "free")
                        /\ proc' = [proc EXCEPT ![q] = a, ![p] = [Reopened(p) EXCEPT !.conn = q]]
  BY DEF OpenRemote
<1> DEFINE b == [[proc[p] EXCEPT !.pc = next, !.again = FALSE] EXCEPT !.conn = q]
<1>3. proc' = [proc EXCEPT ![q] = a, ![p] = b]
  BY <1>2 DEF Reopened
<1>4. /\ f \in Process /\ f.host = h /\ f.pc = "read" /\ f.job = NIL /\ f.msg = NIL
      /\ f.df = NIL /\ ~ f.some
  BY <1>1, FreshIs DEF Phase, Receives
<1>5. next \in {"pick", "work"}
  OBVIOUS
<1> HIDE DEF f
<1>6. /\ a \in Process /\ a.host = h /\ a.conn = p /\ a.pc = "read" /\ a.job = NIL /\ a.msg = NIL
      /\ a.df = NIL /\ ~ a.some
  BY <1>4 DEF Process
<1> HIDE DEF next
<1>7. /\ b \in Process /\ b.host = On(p) /\ b.conn = q /\ b.pc = next /\ b.job = proc[p].job
      /\ b.msg = proc[p].msg /\ b.ack = proc[p].ack /\ b.df = proc[p].df /\ b.some = proc[p].some
  BY <1>1, <1>5 DEF Process, On, Phase, Locked
<1> HIDE DEF a, b
<1>8. /\ proc' \in [Proc -> Process] /\ proc'[q] = a /\ proc'[p] = b /\ q # p
      /\ \A r \in Proc \ {p, q} : proc'[r] = proc[r]
  BY <1>1, <1>2, <1>3, <1>6, <1>7 DEF ProcType, At
<1>9. /\ On(p)' = On(p) /\ proc'[p].conn = q /\ Received(p) /\ proc'[p].job = proc[p].job
      /\ proc'[p].pc = next
  BY <1>7, <1>8 DEF On, Received
<1>10. /\ On(q)' = h /\ proc'[q].conn = p /\ proc'[q].pc = "read"
       /\ proc'[q].job = NIL /\ proc'[q].msg = NIL /\ proc'[q].df = NIL /\ ~ proc'[q].some
  BY <1>6, <1>8 DEF On
<1>11. Connects(p, q)
  BY <1>1, <1>2, <1>8, <1>9, <1>10 DEF Connects, next
<1> QED BY <1>11

\* p sends a file to q, and waits for its answer.
SendsTo(p, q, file, pc) ==
  /\ proc' \in [Proc -> Process]
  /\ \A r \in Proc \ {p, q} : proc'[r] = proc[r]
  /\ On(p)' = On(p) /\ proc'[p].conn = q /\ Received(p) /\ proc'[p].job = proc[p].job
  /\ proc'[p].pc = pc
  /\ On(q)' = On(q) /\ proc'[q].conn = proc[q].conn /\ proc'[q].pc = proc[q].pc
  /\ proc'[q].job = proc[q].job /\ proc'[q].df = proc[q].df /\ proc'[q].some = proc[q].some
  /\ proc'[q].msg = file /\ ~ proc'[q].ack

LEMMA SentStep ==
  ASSUME ProcType, NEW p \in Proc, NEW q \in Proc, q = proc[p].conn, p # q,
         NEW file \in Message, NEW pc \in Phase, Sent(p, file, pc)
  PROVE  SendsTo(p, q, file, pc)
<1> DEFINE a == [proc[q] EXCEPT !.msg = file, !.ack = FALSE]
           b == [proc[p] EXCEPT !.pc = pc]
<1>1. proc[p] \in Process /\ proc[q] \in Process
  BY DEF ProcType
<1>2. proc' \in [Proc -> Process] /\ proc'[p] = b /\ proc'[q] = a /\ \A r \in Proc \ {p, q} : proc'[r] = proc[r]
  <2>1. proc' = [proc EXCEPT ![p].pc = pc, ![q].msg = file, ![q].ack = FALSE]
    BY DEF Sent
  <2>2. a \in Process /\ b \in Process
    BY <1>1 DEF Process
  <2> QED BY <2>1, <2>2 DEF ProcType
<1>3. /\ a.host = proc[q].host /\ a.conn = proc[q].conn /\ a.pc = proc[q].pc /\ a.job = proc[q].job
      /\ a.df = proc[q].df /\ a.some = proc[q].some /\ a.msg = file /\ ~ a.ack
  BY <1>1 DEF Process
<1>4. /\ b.host = proc[p].host /\ b.conn = q /\ b.pc = pc /\ b.job = proc[p].job
      /\ b.df = proc[p].df /\ b.some = proc[p].some /\ b.msg = proc[p].msg /\ b.ack = proc[p].ack
  BY <1>1 DEF Process
<1> HIDE DEF a, b
<1> QED BY <1>2, <1>3, <1>4 DEF SendsTo, On, Received

LEMMA ReadDfStep ==
  ASSUME ProcType, NEW q \in Proc, ReadDf(q)
  PROVE  \E j \in Job :
           /\ proc[q].msg = Df(j) /\ spool' = [spool EXCEPT ![On(q)] = @ \cup {Df(j)}]
           /\ proc' \in [Proc -> Process] /\ Others(q)
           /\ On(q)' = On(q) /\ proc'[q].conn = proc[q].conn /\ proc'[q].pc = proc[q].pc
           /\ proc'[q].job = proc[q].job /\ proc'[q].some = proc[q].some
           /\ proc'[q].msg = NIL /\ proc'[q].ack /\ proc'[q].df = j
<1>1. PICK j \in Job : proc[q].msg = Df(j)
  BY DEF ReadDf
<1>2. proc[q] \in Process /\ proc[q].msg[2] = j
  BY <1>1 DEF ProcType, Df
<1> DEFINE r == [proc[q] EXCEPT !.msg = NIL, !.ack = TRUE, !.df = j]
<1>3. /\ r \in Process /\ r.host = proc[q].host /\ r.conn = proc[q].conn /\ r.pc = proc[q].pc
      /\ r.job = proc[q].job /\ r.some = proc[q].some /\ r.msg = NIL /\ r.ack /\ r.df = j
  BY <1>2 DEF Process, Message
<1>4. proc' = [proc EXCEPT ![q] = r]
  BY <1>2 DEF ReadDf
<1>5. spool' = [spool EXCEPT ![On(q)] = @ \cup {Df(j)}]
  BY <1>1 DEF ReadDf
<1> HIDE DEF r
<1>6. proc' \in [Proc -> Process] /\ Others(q) /\ proc'[q] = r
  BY <1>3, <1>4, SetOne
<1>7. /\ On(q)' = On(q) /\ proc'[q].conn = proc[q].conn /\ proc'[q].pc = proc[q].pc
      /\ proc'[q].job = proc[q].job /\ proc'[q].some = proc[q].some
      /\ proc'[q].msg = NIL /\ proc'[q].ack /\ proc'[q].df = j
  BY <1>3, <1>6 DEF On
<1> QED BY <1>1, <1>5, <1>6, <1>7

LEMMA ReadCfStep ==
  ASSUME ProcType, NEW q \in Proc, ReadCf(q)
  PROVE  \E j \in Job :
           /\ proc[q].msg = Cf(j) /\ spool' = [spool EXCEPT ![On(q)] = @ \cup {Tf(j)}]
           /\ proc' \in [Proc -> Process] /\ Others(q)
           /\ On(q)' = On(q) /\ proc'[q].conn = proc[q].conn /\ proc'[q].pc = "link"
           /\ proc'[q].job = j /\ proc'[q].some = proc[q].some
           /\ proc'[q].msg = NIL /\ proc'[q].ack /\ proc'[q].df = proc[q].df
<1>1. PICK j \in Job : proc[q].msg = Cf(j)
  BY DEF ReadCf
<1>2. proc[q] \in Process /\ proc[q].msg[2] = j
  BY <1>1 DEF ProcType, Cf
<1> DEFINE r == [proc[q] EXCEPT !.msg = NIL, !.ack = TRUE, !.job = j, !.pc = "link"]
<1>3. /\ r \in Process /\ r.host = proc[q].host /\ r.conn = proc[q].conn /\ r.pc = "link"
      /\ r.job = j /\ r.some = proc[q].some /\ r.msg = NIL /\ r.ack /\ r.df = proc[q].df
  BY <1>2 DEF Process, Message, Phase, Receives
<1>4. proc' = [proc EXCEPT ![q] = r]
  BY <1>2 DEF ReadCf
<1>5. spool' = [spool EXCEPT ![On(q)] = @ \cup {Tf(j)}]
  BY <1>2 DEF ReadCf
<1> HIDE DEF r
<1>6. proc' \in [Proc -> Process] /\ Others(q) /\ proc'[q] = r
  BY <1>3, <1>4, SetOne
<1>7. /\ On(q)' = On(q) /\ proc'[q].conn = proc[q].conn /\ proc'[q].pc = "link"
      /\ proc'[q].job = j /\ proc'[q].some = proc[q].some
      /\ proc'[q].msg = NIL /\ proc'[q].ack /\ proc'[q].df = proc[q].df
  BY <1>3, <1>6 DEF On
<1> QED BY <1>1, <1>5, <1>6, <1>7

LEMMA LinkCfStep ==
  ASSUME ProcType, NEW q \in Proc, LinkCf(q)
  PROVE  /\ proc' \in [Proc -> Process] /\ Others(q)
         /\ On(q)' = On(q) /\ proc'[q].conn = proc[q].conn /\ proc'[q].pc = "read"
         /\ proc'[q].job = NIL /\ proc'[q].some
         /\ proc'[q].msg = proc[q].msg /\ proc'[q].ack = proc[q].ack /\ proc'[q].df = proc[q].df
<1>1. proc[q] \in Process
  BY DEF ProcType
<1> DEFINE r == [proc[q] EXCEPT !.pc = "read", !.job = NIL, !.some = TRUE]
<1>2. /\ r \in Process /\ r.host = proc[q].host /\ r.conn = proc[q].conn /\ r.pc = "read"
      /\ r.job = NIL /\ r.some /\ r.msg = proc[q].msg /\ r.ack = proc[q].ack /\ r.df = proc[q].df
  BY <1>1 DEF Process, Message, Phase, Receives
<1>3. proc' = [proc EXCEPT ![q] = r]
  BY DEF LinkCf
<1> HIDE DEF r
<1>4. proc' \in [Proc -> Process] /\ Others(q) /\ proc'[q] = r
  BY <1>2, <1>3, SetOne
<1> QED BY <1>2, <1>4 DEF On

\* The processes gone end: the others lose their connections to them.
Ends(gone) ==
  /\ proc' \in [Proc -> Process]
  /\ \A p \in gone : proc'[p] = Free
  /\ \A p \in Proc \ gone :
       /\ On(p)' = On(p) /\ proc'[p].pc = proc[p].pc /\ proc'[p].job = proc[p].job /\ Received(p)
       /\ proc'[p].conn = IF proc[p].conn \in gone THEN NIL ELSE proc[p].conn

LEMMA EndsStep ==
  ASSUME ProcType, NEW gone \in SUBSET Proc, proc' = Ended(proc, gone)
  PROVE  Ends(gone)
<1> SUFFICES ASSUME NEW p \in Proc \ gone
             PROVE  /\ On(p)' = On(p) /\ proc'[p].pc = proc[p].pc /\ proc'[p].job = proc[p].job
                    /\ Received(p)
                    /\ proc'[p].conn = IF proc[p].conn \in gone THEN NIL ELSE proc[p].conn
  BY EndedIs DEF ProcType, Ends
<1> DEFINE c == IF proc[p].conn \in gone THEN NIL ELSE proc[p].conn
<1>1. proc'[p] = [proc[p] EXCEPT !.conn = c]
  BY EndedIs DEF ProcType
<1>2. proc[p] \in Process
  BY DEF ProcType
<1> HIDE DEF c
<1>3. /\ proc'[p].host = proc[p].host /\ proc'[p].pc = proc[p].pc /\ proc'[p].job = proc[p].job
      /\ proc'[p].msg = proc[p].msg /\ proc'[p].ack = proc[p].ack /\ proc'[p].df = proc[p].df
      /\ proc'[p].some = proc[p].some /\ proc'[p].conn = c
  BY <1>1, <1>2 DEF Process
<1> QED BY <1>3 DEF On, Received, c

-----------------------------------------------------------------------------
(* Connections and locks.                                                   *)

\* Connected processes are a daemon that sends and a receiver on the host it
\* sends to.
Paired(p) ==
  LET q == proc[p].conn IN
  q # NIL => /\ proc[q].conn = p
             /\ \/ proc[p].pc \in Receives
                \/ /\ proc[p].pc \in Locked \ {"scan", "open"} /\ proc[q].pc \in Receives
                   /\ Sends(p) /\ On(q) = Remote[On(p)]

Wired ==
  \A p \in Proc : /\ On(p) # NIL => up[On(p)]
                  /\ proc[p].pc \in Receives => Remote[On(p)] = NIL
                  /\ Paired(p)

LockInv ==
  /\ \A p \in Proc : proc[p].pc \in Locked <=> (On(p) # NIL /\ lock[On(p)] = p)
  /\ \A h \in Host : lock[h] # NIL => On(lock[h]) = h
  /\ \A h \in Host : pid[h] = lock[h]

ProcInv == ProcType /\ Wired /\ LockInv

\* A daemon goes on with the lock.
LEMMA ProcStep ==
  ASSUME ProcInv, FileType, NEW p \in Proc, NEW pc \in Locked, NEW job, Step(p, pc, job),
         proc[p].pc \in Locked, pc \in {"scan", "open"} => proc[p].conn = NIL,
         pc \in Working => job \in Job, UNCHANGED <<lock, pid, up>>
  PROVE  ProcInv'
<1> USE DEF ProcInv
<1>1. ProcType'
  BY DEF ProcType, Step, Others, At, On, Locked
<1>2. Wired'
  <2> SUFFICES ASSUME NEW r \in Proc
               PROVE  /\ On(r)' # NIL => up[On(r)']
                      /\ proc'[r].pc \in Receives => Remote[On(r)'] = NIL
                      /\ Paired(r)'
    BY DEF Wired
  <2>1. On(r)' # NIL => up[On(r)']
    BY DEF Wired, Step, Others, On
  <2>2. proc'[r].pc \in Receives => Remote[On(r)'] = NIL
    BY DEF Wired, Step, Others, On, Receives, Locked
  <2>3. Paired(r)'
    BY DEF Wired, Paired, Step, Others, On, Receives, Locked, Sends, ProcType, Process
  <2> QED BY <2>1, <2>2, <2>3
<1>3. LockInv'
  BY DEF LockInv, Step, Others, On, FileType
<1> QED BY <1>1, <1>2, <1>3

\* Processes end, and give up the locks they hold; a host may go down with all
\* of its own.
LEMMA ProcEnds ==
  ASSUME ProcInv, FileType, NEW gone \in SUBSET Proc, Ends(gone), Unlock(gone), Forget(gone),
         \A p \in Proc \ gone : On(p) # NIL => up'[On(p)]
  PROVE  ProcInv'
<1> USE DEF ProcInv
<1>1. ProcType'
  BY FreeIs DEF ProcType, Ends, At, On, Working
<1>2. Wired'
  BY FreeIs DEF Wired, Paired, Ends, On, Sends, Receives, ProcType, Process
<1>3. LockInv'
  BY FreeIs DEF LockInv, Ends, On, Unlock, Forget, FileType, Locked, ProcType, Process
<1> QED BY <1>1, <1>2, <1>3

LEMMA NoLock ==
  ASSUME ProcInv, FileType, NEW p \in Proc, proc[p].pc \notin Locked, UNCHANGED <<lock, pid>>
  PROVE  Unlock({p}) /\ Forget({p})
  BY DEF ProcInv, LockInv, FileType, Unlock, Forget, On

LEMMA ProcDrops ==
  ASSUME ProcInv, FileType, NEW p \in Proc, NEW pc, NEW job, Drops(p, pc, job), ~ At(p, "free"),
         \/ /\ pc = "aborted" /\ Unlock({p}) /\ Forget({p})
         \/ /\ UNCHANGED <<lock, pid>>
            /\ \/ pc = proc[p].pc /\ job = proc[p].job
               \/ proc[p].pc \in Locked /\ pc = "open",
         up' = up
  PROVE  ProcInv'
<1> USE DEF ProcInv
<1>1. ProcType'
  BY DEF ProcType, Drops, At, On, Working, Process
<1>2. Wired'
  <2> SUFFICES ASSUME NEW r \in Proc
               PROVE  /\ On(r)' # NIL => up[On(r)']
                      /\ proc'[r].pc \in Receives => Remote[On(r)'] = NIL
                      /\ Paired(r)'
    BY DEF Wired
  <2>1. On(r)' # NIL => up[On(r)']
    BY DEF Wired, Drops, On
  <2>2. proc'[r].pc \in Receives => Remote[On(r)'] = NIL
    BY DEF Wired, Drops, On, Receives, Locked
  <2>3. Paired(r)'
    BY DEF Wired, Paired, Drops, On, Receives, Locked, Sends, ProcType, Process
  <2> QED BY <2>1, <2>2, <2>3
<1>3. LockInv'
  <2>1. CASE pc = "aborted" /\ Unlock({p}) /\ Forget({p})
    BY <2>1 DEF LockInv, Drops, On, Unlock, Forget, FileType, Locked, ProcType, Process
  <2>2. CASE UNCHANGED <<lock, pid>> /\ (pc \in Locked <=> proc[p].pc \in Locked)
    BY <2>2 DEF LockInv, Drops, On, FileType, ProcType, Process
  <2> QED BY <2>1, <2>2 DEF Locked
<1> QED BY <1>1, <1>2, <1>3

LEMMA ProcStarts ==
  ASSUME ProcInv, FileType, NEW q \in Proc, NEW h \in Host, Starts(q, h), up'[h],
         UNCHANGED <<lock, pid>>, \A g \in Host : up[g] => up'[g]
  PROVE  ProcInv'
<1> USE DEF ProcInv
<1>0. proc'[q].host = h /\ proc'[q].pc = "start" /\ proc'[q].conn = NIL
  BY FreshIs DEF Starts, Phase
<1>1. ProcType'
  BY <1>0 DEF ProcType, Starts, Others, At, On, Working
<1>2. Wired'
  BY <1>0 DEF Wired, Paired, Starts, Others, On, At, Sends, Receives, Locked, ProcType, Process
<1>3. LockInv'
  BY <1>0 DEF LockInv, Starts, Others, On, At, FileType, Locked, ProcType, Process
<1> QED BY <1>1, <1>2, <1>3

LEMMA ProcConnects ==
  ASSUME ProcInv, FileType, NEW p \in Proc, NEW q \in Proc, Connects(p, q), UNCHANGED <<lock, pid, up>>
  PROVE  ProcInv'
<1> USE DEF ProcInv
<1>1. ProcType'
  BY DEF ProcType, Connects, At, On, Working, Sends, Process
<1>2. Wired'
  <2> SUFFICES ASSUME NEW r \in Proc
               PROVE  /\ On(r)' # NIL => up[On(r)']
                      /\ proc'[r].pc \in Receives => Remote[On(r)'] = NIL
                      /\ Paired(r)'
    BY DEF Wired
  <2>1. On(r)' # NIL => up[On(r)']
    BY DEF Wired, Connects, On
  <2>2. proc'[r].pc \in Receives => Remote[On(r)'] = NIL
    BY DEF Wired, Connects, On, Receives, Locked, At, Sends, ProcType, Process
  <2>3. Paired(r)'
    BY DEF Wired, Paired, Connects, On, Receives, Locked, Sends, At, ProcType, Process
  <2> QED BY <2>1, <2>2, <2>3
<1>3. LockInv'
  <2>1. /\ proc[p].pc = "open" /\ proc[q].pc = "free" /\ proc'[p].pc \in {"pick", "work"}
        /\ proc'[q].pc = "read" /\ proc'[p].host = proc[p].host
        /\ \A r \in Proc \ {p, q} : proc'[r] = proc[r]
    BY DEF Connects, At, On
  <2>2. \A r \in Proc : proc'[r].pc \in Locked <=> proc[r].pc \in Locked
    BY <2>1 DEF Locked
  <2>3. \A r \in Proc : proc[r].pc \in Locked => proc'[r].host = proc[r].host
    BY <2>1 DEF Locked
  <2>4. \A h \in Host : lock[h] # NIL => lock[h] \in Proc /\ proc[lock[h]].pc \in Locked
    BY DEF LockInv, FileType, On
  <2>5. \A r \in Proc : lock[proc'[r].host] = r /\ proc'[r].host # NIL => proc[r].pc \in Locked
    BY <2>4 DEF Connects, ProcType, Process
  <2> QED BY <2>2, <2>3, <2>4, <2>5 DEF LockInv, On
<1> QED BY <1>1, <1>2, <1>3

LEMMA Partner ==
  ASSUME ProcInv, NEW p \in Proc, proc[p].pc \in Locked, NEW q, q = proc[p].conn, q # NIL
  PROVE  /\ q \in Proc /\ q # p /\ proc[q].conn = p /\ proc[q].pc \in Receives
         /\ Sends(p) /\ On(q) = Remote[On(p)]
  BY DEF ProcInv, Wired, Paired, ProcType, Process, Locked, Receives

LEMMA SendSteps ==
  ASSUME ProcInv, NEW p \in Proc
  PROVE  /\ SendDf(p) => /\ proc[p].conn \in Proc \ {p} /\ At(p, "work") /\ Sends(p)
                         /\ Cf(proc[p].job) \in spool[On(p)] /\ Df(proc[p].job) \in spool[On(p)]
                         /\ SendsTo(p, proc[p].conn, Df(proc[p].job), "waitDf")
         /\ SendCf(p) => /\ proc[p].conn \in Proc \ {p} /\ At(p, "waitDf") /\ proc[proc[p].conn].ack
                         /\ SendsTo(p, proc[p].conn, Cf(proc[p].job), "waitCf")
<1>1. CASE SendDf(p)
  <2>1. /\ At(p, "work") /\ Sends(p) /\ proc[p].conn # NIL /\ Sent(p, Df(proc[p].job), "waitDf")
        /\ Cf(proc[p].job) \in spool[On(p)] /\ Df(proc[p].job) \in spool[On(p)]
    BY <1>1 DEF SendDf, Ready
  <2>2. Df(proc[p].job) \in Message
    BY <2>1 DEF ProcInv, ProcType, Working, At, Message, Df
  <2>3. proc[p].conn \in Proc /\ proc[p].conn # p
    BY <2>1, Partner DEF At, Locked
  <2> QED BY <2>1, <2>2, <2>3, SentStep DEF ProcInv, Phase, Locked, SendCf, At
<1>2. CASE SendCf(p)
  <2>1. /\ At(p, "waitDf") /\ proc[p].conn # NIL /\ Sent(p, Cf(proc[p].job), "waitCf")
        /\ proc[proc[p].conn].ack
    BY <1>2 DEF SendCf
  <2>2. Cf(proc[p].job) \in Message
    BY <2>1 DEF ProcInv, ProcType, Working, At, Message, Cf
  <2>3. proc[p].conn \in Proc /\ proc[p].conn # p
    BY <2>1, Partner DEF At, Locked
  <2> QED BY <2>1, <2>2, <2>3, SentStep DEF ProcInv, Phase, Locked, SendDf, Ready, At
<1> QED BY <1>1, <1>2

LEMMA ProcSends ==
  ASSUME ProcInv, FileType, NEW p \in Proc, NEW q \in Proc \ {p}, q = proc[p].conn,
         NEW file, NEW pc \in Locked \ {"scan", "open"}, SendsTo(p, q, file, pc), proc[p].pc \in Locked,
         pc \in Working => proc[p].job \in Job, UNCHANGED <<lock, pid, up>>
  PROVE  ProcInv'
<1> USE DEF ProcInv
<1>0. q # NIL
  OBVIOUS
<1>1. ProcType'
  BY DEF ProcType, SendsTo, At, On, Working, Locked, Process
<1>2. Wired'
  <2> SUFFICES ASSUME NEW r \in Proc
               PROVE  /\ On(r)' # NIL => up[On(r)']
                      /\ proc'[r].pc \in Receives => Remote[On(r)'] = NIL
                      /\ Paired(r)'
    BY DEF Wired
  <2>1. On(r)' # NIL => up[On(r)']
    BY DEF Wired, SendsTo, On
  <2>2. proc'[r].pc \in Receives => Remote[On(r)'] = NIL
    BY DEF Wired, SendsTo, On, Receives, Locked
  <2>3. Paired(r)'
    BY <1>0 DEF Wired, Paired, SendsTo, On, Receives, Locked, Sends, ProcType, Process
  <2> QED BY <2>1, <2>2, <2>3
<1>3. LockInv'
  BY DEF LockInv, SendsTo, On, FileType
<1> QED BY <1>1, <1>2, <1>3

LEMMA ProcLock ==
  ASSUME ProcInv, FileType, NEW p \in Proc, Lock(p)
  PROVE  ProcInv'
<1> USE DEF ProcInv
<1>1. /\ At(p, "start") /\ lock[On(p)] = NIL /\ On(p) \in Host
      /\ lock' = [lock EXCEPT ![On(p)] = p] /\ pid' = [pid EXCEPT ![On(p)] = p] /\ up' = up
  BY DEF Lock, outside, ProcType, Process, At, On
<1>2. Step(p, "scan", proc[p].job)
  BY LockStep
<1>3. ProcType'
  BY <1>1, <1>2 DEF ProcType, Step, Others, At, On, Working
<1>4. proc[p].conn = NIL
  BY <1>1 DEF Wired, Paired, At, Receives, Locked
<1>5. Wired'
  <2> SUFFICES ASSUME NEW r \in Proc
               PROVE  /\ On(r)' # NIL => up'[On(r)']
                      /\ proc'[r].pc \in Receives => Remote[On(r)'] = NIL
                      /\ Paired(r)'
    BY DEF Wired
  <2>1. On(r)' # NIL => up'[On(r)']
    BY <1>1, <1>2 DEF Wired, Step, Others, On
  <2>2. proc'[r].pc \in Receives => Remote[On(r)'] = NIL
    BY <1>1, <1>2 DEF Wired, Step, Others, On, Receives, Locked
  <2>3. Paired(r)'
    BY <1>1, <1>2, <1>4 DEF Wired, Paired, Step, Others, On, At, Receives, Locked, Sends, ProcType, Process
  <2> QED BY <2>1, <2>2, <2>3
<1>6. LockInv'
  <2>1. \A r \in Proc : proc'[r].pc \in Locked <=> (On(r)' # NIL /\ lock'[On(r)'] = r)
    <3>1. proc'[p].pc \in Locked /\ On(p)' = On(p) /\ lock'[On(p)] = p
      BY <1>1, <1>2 DEF Step, Locked, FileType
    <3>2. ASSUME NEW r \in Proc \ {p}
          PROVE  proc'[r].pc \in Locked <=> (On(r)' # NIL /\ lock'[On(r)'] = r)
      <4>1. proc'[r] = proc[r] /\ On(r) \in Host \cup {NIL}
        BY <1>2 DEF Step, Others, On, ProcType, Process
      <4>2. On(r) # NIL => (lock'[On(r)] = r <=> lock[On(r)] = r)
        BY <1>1, <4>1 DEF FileType
      <4> QED BY <4>1, <4>2 DEF LockInv, On
    <3> QED BY <1>1, <3>1, <3>2
  <2>2. ASSUME NEW h \in Host, lock'[h] # NIL
        PROVE  proc'[lock'[h]].host = h
    <3>1. CASE h = On(p)
      BY <1>1, <1>2, <3>1 DEF Step, On, FileType
    <3>2. CASE h # On(p)
      <4>1. lock'[h] = lock[h] /\ lock[h] \in Proc /\ proc[lock[h]].host = h
        BY <1>1, <2>2, <3>2 DEF LockInv, On, FileType
      <4> QED BY <1>1, <1>2, <3>2, <4>1 DEF Step, Others, On
    <3> QED BY <3>1, <3>2
  <2>3. \A h \in Host : pid'[h] = lock'[h]
    BY <1>1 DEF LockInv, FileType
  <2> QED BY <2>1, <2>2, <2>3 DEF LockInv, On
<1> QED BY <1>3, <1>5, <1>6

\* A receiver reads or links a file.
LEMMA ProcReceives ==
  ASSUME ProcInv, FileType, NEW q \in Proc, proc[q].pc \in Receives,
         proc' \in [Proc -> Process], Others(q), On(q)' = On(q), proc'[q].conn = proc[q].conn,
         proc'[q].pc \in Receives, At(q, "link")' => proc'[q].job \in Job, UNCHANGED <<lock, pid, up>>
  PROVE  ProcInv'
<1> USE DEF ProcInv
<1>1. ProcType'
  BY DEF ProcType, Others, At, On, Working, Receives
<1>2. Wired'
  <2> SUFFICES ASSUME NEW r \in Proc
               PROVE  /\ On(r)' # NIL => up[On(r)']
                      /\ proc'[r].pc \in Receives => Remote[On(r)'] = NIL
                      /\ Paired(r)'
    BY DEF Wired
  <2>1. On(r)' # NIL => up[On(r)']
    BY DEF Wired, Others, On
  <2>2. proc'[r].pc \in Receives => Remote[On(r)'] = NIL
    BY DEF Wired, Others, On, Receives
  <2>3. Paired(r)'
    BY DEF Wired, Paired, Others, On, Receives, Locked, Sends, ProcType, Process
  <2> QED BY <2>1, <2>2, <2>3
<1>3. LockInv'
  BY DEF LockInv, Others, On, FileType, Locked, Receives
<1> QED BY <1>1, <1>2, <1>3

LEMMA ProcRestart ==
  ASSUME ProcInv, FileType, NEW p \in Proc, Restart(p)
  PROVE  ProcInv'
<1> USE DEF ProcInv
<1>1. At(p, "aborted") /\ UNCHANGED <<lock, pid, up>>
  BY DEF Restart, fileVars, outside
<1>2. Step(p, "start", proc[p].job)
  BY GoIs DEF Restart, Phase
<1>3. ProcType'
  BY <1>1, <1>2 DEF ProcType, Step, Others, At, On, Working
<1>4. Wired'
  <2> SUFFICES ASSUME NEW r \in Proc
               PROVE  /\ On(r)' # NIL => up'[On(r)']
                      /\ proc'[r].pc \in Receives => Remote[On(r)'] = NIL
                      /\ Paired(r)'
    BY DEF Wired
  <2>1. On(r)' # NIL => up'[On(r)']
    BY <1>1, <1>2 DEF Wired, Step, Others, On
  <2>2. proc'[r].pc \in Receives => Remote[On(r)'] = NIL
    BY <1>1, <1>2 DEF Wired, Step, Others, On, Receives, Locked
  <2>3. Paired(r)'
    BY <1>1, <1>2 DEF Wired, Paired, Step, Others, On, At, Receives, Locked, Sends, ProcType, Process
  <2> QED BY <2>1, <2>2, <2>3
<1>5. LockInv'
  BY <1>1, <1>2 DEF LockInv, Step, Others, On, At, FileType, Locked
<1> QED BY <1>3, <1>4, <1>5

LEMMA ProcSame ==
  ASSUME ProcInv, UNCHANGED <<proc, lock, pid, up>>
  PROVE  ProcInv'
  BY DEF ProcInv, ProcType, Wired, Paired, LockInv, At, On, Sends

LEMMA AtHost ==
  ASSUME ProcType, NEW p \in Proc, ~ At(p, "free")
  PROVE  On(p) \in Host
  BY DEF ProcType, Process, On

LEMMA ProcDaemon ==
  ASSUME ProcInv, FileType, NEW p \in Proc, Daemon(p)
  PROVE  ProcInv'
<1> DEFINE same == UNCHANGED <<lock, pid, up>>
<1>0. ProcType /\ ("exit" \in Locked /\ "open" \in Locked /\ "pick" \in Locked /\ "rescan" \in Locked)
  BY DEF ProcInv, Locked
<1>1. CASE Refused(p)
  <2>1. At(p, "start") /\ proc' = Ended(proc, {p}) /\ UNCHANGED <<lock, pid, up>>
    BY <1>1 DEF Refused, fileVars, outside
  <2>2. Ends({p}) /\ Unlock({p}) /\ Forget({p})
    BY <1>0, <2>1, EndsStep, NoLock DEF At, Locked
  <2> QED BY <2>1, <2>2, ProcEnds DEF ProcInv, Wired
<1>2. CASE Exit(p)
  <2>1. proc' = Ended(proc, {p}) /\ Unlock({p}) /\ Forget({p}) /\ up' = up
    BY <1>2 DEF Exit, outside
  <2>2. Ends({p})
    BY <1>0, <2>1, EndsStep
  <2> QED BY <2>1, <2>2, ProcEnds DEF ProcInv, Wired
<1>3. CASE Lock(p)
  BY <1>3, ProcLock
<1>4. CASE Scan(p)
  <2>1. At(p, "scan") /\ UNCHANGED <<lock, pid, up>>
    BY <1>4 DEF Scan, outside
  <2>2. proc[p].conn = NIL
    BY <2>1 DEF ProcInv, Wired, Paired, At, Receives
  <2> QED BY <1>0, <1>4, <2>1, <2>2, ScanStep, ProcStep DEF At, Locked, Working
<1>5. CASE Rescan(p)
  <2>1. At(p, "rescan") /\ UNCHANGED <<lock, pid, up>>
    BY <1>5 DEF Rescan, fileVars, outside
  <2> QED BY <1>0, <1>5, <2>1, RescanStep, ProcStep DEF At, Locked, Working
<1>6. CASE OpenPrinter(p)
  <2>1. At(p, "open") /\ UNCHANGED <<lock, pid, up>> /\ proc[p].job \in Job \cup {NIL}
    BY <1>6, <1>0 DEF OpenPrinter, Opened, outside, ProcType, Process
  <2> QED BY <1>0, <1>6, <2>1, OpenPrinterStep, ProcStep DEF At, Locked, Working
<1>7. CASE OpenRemote(p)
  <2>1. UNCHANGED <<lock, pid, up>>
    BY <1>7 DEF OpenRemote, outside
  <2> QED BY <1>0, <1>7, <2>1, OpenRemoteStep, ProcConnects
<1>8. CASE Pick(p)
  <2>1. At(p, "pick") /\ UNCHANGED <<lock, pid, up>>
    BY <1>8 DEF Pick, outside
  <2> QED BY <1>0, <1>8, <2>1, PickStep, ProcStep DEF At, Locked, Working
<1>9. CASE Vanished(p) \/ NoData(p) \/ PrintIt(p) \/ Reprint(p) \/ UnlinkDf(p) \/ UnlinkCf(p)
            \/ JobSent(p) \/ SendFails(p)
  <2>1. UNCHANGED <<lock, pid, up>> /\ proc[p].pc \in Working \cap Locked
    BY <1>9 DEF Vanished, NoData, PrintIt, Reprint, UnlinkDf, UnlinkCf, JobSent, SendFails, Ready, At,
                fileVars, outside, Working, Locked
  <2>2. proc[p].job \in Job
    BY <1>0, <2>1 DEF ProcType
  <2>3. \E pc \in Locked \ {"scan", "open"} : Step(p, pc, proc[p].job)
    <3>1. CASE Reprint(p) \/ SendFails(p)
      BY <1>0, <3>1, AgainStep DEF Reprint, SendFails, ToRepeat, Locked
    <3>2. CASE ~ (Reprint(p) \/ SendFails(p))
      BY <1>0, <1>9, <3>2, GoIs DEF Vanished, NoData, PrintIt, UnlinkDf, UnlinkCf, JobSent, Phase, Locked
    <3> QED BY <3>1, <3>2
  <2> QED BY <2>1, <2>2, <2>3, ProcStep
<1>10. CASE Check(p)
  <2>1. At(p, "check") /\ UNCHANGED <<lock, pid, up>>
    BY <1>10 DEF Check, outside
  <2>2. CASE \E pc \in {"rescan", "pick"} : Step(p, pc, NIL)
    BY <1>0, <2>1, <2>2, ProcStep DEF At, Locked, Working
  <2>3. CASE Step(p, "exit", proc[p].job)
    BY <1>0, <2>1, <2>3, ProcStep DEF At, Locked, Working
  <2>4. CASE Drops(p, "open", proc[p].job)
    BY <1>0, <2>1, <2>4, ProcDrops DEF At, Locked
  <2> QED BY <1>0, <1>10, <2>2, <2>3, <2>4, CheckStep
<1>11. CASE Restart(p)
  BY <1>11, ProcRestart
<1>12. CASE SendDf(p)
  <2>1. UNCHANGED <<lock, pid, up>> /\ At(p, "work") /\ proc[p].job \in Job
    BY <1>0, <1>12, SendSteps DEF SendDf, fileVars, outside, ProcType, Working, At
  <2> QED BY <1>12, <2>1, SendSteps, ProcSends DEF At, Locked
<1>13. CASE SendCf(p)
  <2>1. UNCHANGED <<lock, pid, up>> /\ At(p, "waitDf") /\ proc[p].job \in Job
    BY <1>0, <1>13, SendSteps DEF SendCf, fileVars, outside, ProcType, Working, At
  <2> QED BY <1>13, <2>1, SendSteps, ProcSends DEF At, Locked
<1> QED BY <1>1, <1>2, <1>3, <1>4, <1>5, <1>6, <1>7, <1>8, <1>9, <1>10, <1>11, <1>12, <1>13 DEF Daemon

LEMMA ProcReceiver ==
  ASSUME ProcInv, FileType, NEW q \in Proc, Receiver(q)
  PROVE  ProcInv'
<1>0. ProcType /\ proc[q].pc \in Receives /\ proc[q].pc \notin Locked /\ UNCHANGED <<lock, pid, up>>
  BY DEF Receiver, ReadDf, ReadCf, LinkCf, LinkFails, EndOfJobs, LostConnection, ProcInv, At, Receives,
         Locked, fileVars, outside
<1>1. CASE ReadDf(q)
  <2>1. At(q, "read")
    BY <1>1 DEF ReadDf
  <2> QED BY <1>0, <1>1, <2>1, ReadDfStep, ProcReceives DEF At
<1>2. CASE ReadCf(q)
  BY <1>0, <1>2, ReadCfStep, ProcReceives DEF At, Receives
<1>3. CASE LinkCf(q)
  BY <1>0, <1>3, LinkCfStep, ProcReceives DEF At, Receives
<1>4. CASE proc' = Ended(proc, {q})
  <2>1. Ends({q}) /\ Unlock({q}) /\ Forget({q})
    BY <1>0, <1>4, EndsStep, NoLock
  <2> QED BY <1>0, <2>1, ProcEnds DEF ProcInv, Wired
<1>5. CASE EndOfJobs(q) /\ proc' = [proc EXCEPT ![q] = Fresh(On(q), "start")]
  <2> DEFINE r == Fresh(On(q), "start")
  <2>1. On(q) \in Host /\ proc[q].conn = NIL
    BY <1>0, <1>5, AtHost DEF EndOfJobs, At, Receives
  <2>2. r \in Process /\ r.host = On(q) /\ r.pc = "start" /\ r.conn = NIL
    BY <2>1, FreshIs DEF Phase
  <2> HIDE DEF r
  <2>3. proc' \in [Proc -> Process] /\ Others(q) /\ proc'[q] = r
    BY <1>0, <1>5, <2>2, SetOne DEF r
  <2> USE DEF ProcInv
  <2>4. ProcType'
    BY <2>1, <2>2, <2>3 DEF ProcType, Others, At, On, Working
  <2>5. Wired'
    BY <1>0, <2>1, <2>2, <2>3 DEF Wired, Paired, Others, On, Sends, Receives, Locked, ProcType, Process
  <2>6. LockInv'
    BY <1>0, <2>1, <2>2, <2>3 DEF LockInv, Others, On, FileType, Locked
  <2> QED BY <2>4, <2>5, <2>6
<1>6. CASE LinkFails(q) \/ LostConnection(q)
  <2>1. proc' = Ended(proc, {q})
    BY <1>6 DEF LinkFails, LostConnection, Cleanup
  <2> QED BY <1>4, <2>1
<1> QED BY <1>1, <1>2, <1>3, <1>4, <1>5, <1>6 DEF Receiver, EndOfJobs

LEMMA ProcForked ==
  ASSUME ProcInv, FileType, NEW h \in Host, Forked(h), up'[h], UNCHANGED <<lock, pid>>,
         \A g \in Host : up[g] => up'[g]
  PROVE  ProcInv'
  BY ForkedStep, ProcStarts DEF ProcInv

LEMMA ProcAbort ==
  ASSUME ProcInv, FileType, NEW p \in Proc, ~ At(p, "free"), Abort(p), up' = up
  PROVE  ProcInv'
<1>1. On(p) \in Host /\ Unlock({p}) /\ Forget({p})
  BY AtHost DEF Abort, ProcInv
<1>2. Drops(p, "aborted", NIL)
  BY <1>1, AbortStep DEF ProcInv
<1> QED BY <1>1, <1>2, ProcDrops

\* The daemon that the lock file names.
LEMMA Holder ==
  ASSUME ProcInv, FileType, NEW h \in Host, pid[h] # NIL
  PROVE  /\ pid[h] \in Proc /\ ~ At(pid[h], "free") /\ proc[pid[h]].pc \in Locked
         /\ On(pid[h]) = h /\ lock[h] = pid[h]
<1>1. lock[h] = pid[h] /\ lock[h] \in Proc
  BY DEF ProcInv, LockInv, FileType
<1>2. On(lock[h]) = h
  BY <1>1 DEF ProcInv, LockInv
<1>3. proc[lock[h]].pc \in Locked
  BY <1>1, <1>2 DEF ProcInv, LockInv, On
<1> QED BY <1>1, <1>2, <1>3 DEF At, Locked

LEMMA ProcRest ==
  ASSUME ProcInv, FileType, UserType, NEW h \in Host,
         \/ AbortPr(h) \/ StartPr(h) \/ Crash(h) \/ Boot(h)
  PROVE  ProcInv'
<1>1. CASE AbortPr(h)
  <2>1. pid[h] # NIL /\ Abort(pid[h]) /\ up' = up
    BY <1>1 DEF AbortPr
  <2> QED BY <2>1, Holder, ProcAbort
<1>2. CASE StartPr(h)
  BY <1>2, ProcForked DEF StartPr, outside
<1>3. CASE Crash(h)
  <2> DEFINE gone == {p \in Proc : On(p) = h}
  <2>1. /\ proc' = Ended(proc, gone) /\ Unlock(gone) /\ Forget(gone)
        /\ up' = [up EXCEPT ![h] = FALSE]
    BY <1>3 DEF Crash
  <2>2. \A p \in Proc \ gone : On(p) # NIL => up'[On(p)]
    BY <2>1 DEF ProcInv, Wired, UserType, ProcType, Process, On
  <2>3. gone \in SUBSET Proc
    OBVIOUS
  <2> HIDE DEF gone
  <2>4. Ends(gone)
    BY <2>1, <2>3, EndsStep DEF ProcInv
  <2> QED BY <2>1, <2>2, <2>3, <2>4, ProcEnds
<1>4. CASE Boot(h)
  <2>1. up' = [up EXCEPT ![h] = TRUE] /\ UNCHANGED <<lock, pid>>
    BY <1>4 DEF Boot, fileVars
  <2>2. up'[h] /\ \A g \in Host : up[g] => up'[g]
    BY <2>1 DEF UserType
  <2>3. CASE Forked(h)
    BY <2>1, <2>2, <2>3, ProcForked
  <2>4. CASE UNCHANGED proc
    <3> USE DEF ProcInv
    <3>1. Wired'
      BY <2>2, <2>4 DEF Wired, Paired, On, Sends, ProcType, Process
    <3> QED BY <2>1, <2>4, <3>1 DEF ProcType, LockInv, At, On
  <2> QED BY <1>4, <2>3, <2>4 DEF Boot
<1> QED BY <1>1, <1>2, <1>3, <1>4

LEMMA ProcNext ==
  ASSUME ProcInv, FileType, UserType, Next
  PROVE  ProcInv'
<1>1. ASSUME NEW j \in Job, Lpr(j) \/ StartDaemon(j) \/ Lprm(j) PROVE ProcInv'
  <2>1. CASE Lpr(j) \/ Lprm(j)
    BY <2>1, ProcSame DEF Lpr, Lprm, fileVars, RmGo
  <2>2. CASE StartDaemon(j)
    <3>1. home[j] \in Host /\ up[home[j]] /\ Forked(home[j]) /\ UNCHANGED <<lock, pid, up>>
      BY <2>2 DEF StartDaemon, UserType, fileVars
    <3> QED BY <3>1, ProcForked
  <2> QED BY <1>1, <2>1, <2>2
<1>2. ASSUME NEW p \in Proc, Daemon(p) \/ Receiver(p) \/ Lose(p) PROVE ProcInv'
  <2>1. CASE Lose(p)
    <3>1. ~ At(p, "free") /\ UNCHANGED <<lock, pid, up>>
      BY <2>1 DEF Lose, Receives, At, fileVars
    <3> QED BY <2>1, <3>1, LoseStep, ProcDrops DEF ProcInv
  <2> QED BY <1>2, <2>1, ProcDaemon, ProcReceiver
<1>3. ASSUME NEW h \in Host, Stop(h) \/ TopQ(h) PROVE ProcInv'
  BY <1>3, ProcSame DEF Stop, TopQ
<1>4. CASE RmLook \/ RmProcess
  BY <1>4, ProcSame DEF RmLook, RmProcess, RmGo, fileVars
<1>5. CASE RmKill
  <2>1. up' = up
    BY <1>5 DEF RmKill, RmGo
  <2>2. CASE pid[rm.host] = rm.victim
    <3>1. rm.host \in Host /\ rm.victim \in Proc /\ Abort(rm.victim)
      BY <1>5, <2>2 DEF RmKill, UserType, RmType
    <3> QED BY <2>1, <2>2, <3>1, Holder, ProcAbort
  <2>3. CASE pid[rm.host] # rm.victim
    BY <1>5, <2>1, <2>3, ProcSame DEF RmKill
  <2> QED BY <2>2, <2>3
<1>6. CASE RmRestart
  <2>1. rm.host \in Host /\ up[rm.host] /\ UNCHANGED <<lock, pid, up>>
    BY <1>6 DEF RmRestart, UserType, RmType, RmGo, fileVars
  <2> QED BY <1>6, <2>1, ProcForked, ProcSame DEF RmRestart
<1> QED BY <1>1, <1>2, <1>3, <1>4, <1>5, <1>6, ProcRest DEF Next

-----------------------------------------------------------------------------
(* Types.                                                                   *)

LEMMA FilesAre == \A j \in Job : Cf(j) \in File /\ Df(j) \in File /\ Tf(j) \in File
  BY DEF File, Cf, Df, Tf

LEMMA FilesDaemon ==
  ASSUME ProcInv, FileType, NEW p \in Proc, Daemon(p)
  PROVE  FileType'
<1>0. ProcType
  BY DEF ProcInv
<1>1. CASE Refused(p) \/ Rescan(p) \/ Vanished(p) \/ NoData(p) \/ PrintIt(p) \/ Reprint(p)
            \/ Restart(p) \/ SendDf(p) \/ SendCf(p) \/ JobSent(p) \/ SendFails(p)
  BY <1>1 DEF Refused, Rescan, Vanished, NoData, PrintIt, Reprint, Restart, SendDf, SendCf, JobSent,
              SendFails, fileVars, FileType
<1>2. CASE Lock(p)
  BY <1>2 DEF Lock, FileType
<1>3. CASE Scan(p)
  <2>1. proc[p].mode \in SUBSET {"stop", "rebuild"}
    BY <1>0 DEF ProcType, Process
  <2> QED BY <1>3, <2>1 DEF Scan, FileType
<1>4. CASE OpenPrinter(p) \/ OpenRemote(p)
  <2>1. proc[p].job \in Job \cup {NIL}
    BY <1>0 DEF ProcType, Process
  <2> QED BY <1>4, <2>1 DEF OpenPrinter, OpenRemote, Opened, FileType
<1>5. CASE Pick(p)
  <2>1. proc[p].list \in SUBSET Job
    BY <1>0 DEF ProcType, Process
  <2> QED BY <1>5, <2>1 DEF Pick, FileType
<1>6. CASE UnlinkDf(p) \/ UnlinkCf(p)
  BY <1>6 DEF UnlinkDf, UnlinkCf, FileType, fileVars
<1>7. CASE Check(p)
  BY <1>7 DEF Check, FileType
<1>8. CASE Exit(p)
  BY <1>8 DEF Exit, FileType, Unlock, Forget
<1> QED BY <1>1, <1>2, <1>3, <1>4, <1>5, <1>6, <1>7, <1>8 DEF Daemon

LEMMA FilesReceiver ==
  ASSUME ProcInv, FileType, NEW q \in Proc, Receiver(q)
  PROVE  FileType'
<1>0. ProcType
  BY DEF ProcInv
<1>1. CASE ReadDf(q)
  <2>1. PICK j \in Job : spool' = [spool EXCEPT ![On(q)] = @ \cup {Df(j)}]
    BY <1>0, <1>1, ReadDfStep
  <2>2. UNCHANGED fileVars /\ {Df(j)} \in SUBSET File
    BY <1>1, FilesAre DEF ReadDf
  <2> QED BY <2>1, <2>2 DEF FileType, fileVars
<1>2. CASE ReadCf(q)
  <2>1. PICK j \in Job : spool' = [spool EXCEPT ![On(q)] = @ \cup {Tf(j)}]
    BY <1>0, <1>2, ReadCfStep
  <2>2. UNCHANGED fileVars /\ {Tf(j)} \in SUBSET File
    BY <1>2, FilesAre DEF ReadCf
  <2> QED BY <2>1, <2>2 DEF FileType, fileVars
<1>3. CASE LinkCf(q)
  <2>1. proc[q].job \in Job
    BY <1>0, <1>3 DEF LinkCf, ProcType, At, Working
  <2> QED BY <1>3, <2>1, FilesAre DEF LinkCf, FileType, fileVars
<1>4. CASE EndOfJobs(q)
  BY <1>4 DEF EndOfJobs, FileType, fileVars
<1>5. CASE LinkFails(q) \/ LostConnection(q)
  <2>1. UNCHANGED fileVars
    BY <1>5 DEF LinkFails, LostConnection
  <2>2. PICK A : spool' = [spool EXCEPT ![On(q)] = @ \ A]
    BY <1>5 DEF LinkFails, LostConnection, Cleanup
  <2> QED BY <2>1, <2>2 DEF FileType, fileVars
<1> QED BY <1>1, <1>2, <1>3, <1>4, <1>5 DEF Receiver

LEMMA FilesNext ==
  ASSUME ProcInv, FileType, UserType, Next
  PROVE  FileType'
<1>1. ASSUME NEW j \in Job, Lpr(j) \/ StartDaemon(j) \/ Lprm(j) PROVE FileType'
  BY <1>1, FilesAre DEF Lpr, StartDaemon, Lprm, FileType, fileVars
<1>2. ASSUME NEW p \in Proc, Daemon(p) \/ Receiver(p) \/ Lose(p) PROVE FileType'
  BY <1>2, FilesDaemon, FilesReceiver DEF Lose, FileType, fileVars
<1>3. ASSUME NEW h \in Host, Stop(h) \/ TopQ(h) \/ AbortPr(h) \/ StartPr(h) \/ Crash(h) \/ Boot(h)
      PROVE  FileType'
  <2>1. CASE Stop(h) \/ TopQ(h) \/ StartPr(h) \/ Boot(h)
    BY <2>1 DEF Stop, TopQ, StartPr, Boot, FileType, fileVars
  <2>2. CASE AbortPr(h) \/ Crash(h)
    BY <2>2 DEF AbortPr, Crash, Abort, Unlock, Forget, FileType
  <2> QED BY <1>3, <2>1, <2>2
<1>4. CASE RmLook \/ RmProcess \/ RmRestart
  BY <1>4 DEF RmLook, RmProcess, RmRestart, FileType, fileVars
<1>5. CASE RmKill
  BY <1>5 DEF RmKill, Abort, Unlock, Forget, FileType
<1> QED BY <1>1, <1>2, <1>3, <1>4, <1>5 DEF Next

LEMMA UserSame ==
  ASSUME UserType, UNCHANGED <<up, home, user, rm>>
  PROVE  UserType'
  BY DEF UserType, RmType

LEMMA NoRmIs ==
  /\ NoRm \in Removal /\ NoRm.pc = "idle" /\ NoRm.host = NIL /\ NoRm.job = NIL
  /\ NoRm.killed = {} /\ NoRm.victim = NIL
  BY DEF NoRm, Removal

\* lprm goes on to its next step.
GoesOn == /\ rm' \in Removal /\ rm'.pc \in {"kill", "process", "restart", "look"}
          /\ rm'.host \in Host /\ up[rm'.host] /\ rm'.job = rm.job
          /\ rm'.pc = "kill" => rm'.victim \in Proc

LEMMA UserNext ==
  ASSUME ProcInv, FileType, UserType, Next
  PROVE  UserType'
<1>1. ASSUME NEW j \in Job, Lpr(j) \/ StartDaemon(j) PROVE UserType'
  <2>1. /\ UNCHANGED <<up, rm, home>> /\ home[j] \in Host /\ up[home[j]] /\ user[j] # "done"
        /\ \E u \in {"queued", "done"} : user' = [user EXCEPT ![j] = u]
    BY <1>1 DEF Lpr, StartDaemon, UserType
  <2>2. RmType'
    BY <2>1 DEF UserType, RmType
  <2> QED BY <2>1, <2>2 DEF UserType
<1>2. ASSUME NEW j \in Job, Lprm(j) PROVE UserType'
  <2> DEFINE r == [NoRm EXCEPT !.pc = "look", !.host = home[j], !.job = j]
  <2>1. up[home[j]] /\ home[j] \in Host /\ UNCHANGED <<user, home, up>> /\ rm' = r /\ user[j] = "done"
    BY <1>2 DEF Lprm, RmGo, UserType
  <2>2. r \in Removal /\ r.pc = "look" /\ r.host = home[j] /\ r.job = j
    BY <2>1, NoRmIs DEF Removal
  <2> HIDE DEF r
  <2> QED BY <2>1, <2>2 DEF UserType, RmType
<1>3. ASSUME NEW p \in Proc, Daemon(p) PROVE UserType'
  <2>1. UNCHANGED <<up, home, user, rm>>
    BY <1>3 DEF Daemon, Refused, Lock, Scan, Rescan, OpenPrinter, OpenRemote, Pick, Vanished, NoData,
         PrintIt, Reprint, UnlinkDf, UnlinkCf, Check, Exit, Restart, SendDf, SendCf, JobSent, SendFails,
         outside
  <2> QED BY <2>1, UserSame
<1>4. ASSUME NEW p \in Proc, Receiver(p) \/ Lose(p) PROVE UserType'
  <2>1. UNCHANGED <<up, home, user, rm>>
    BY <1>4 DEF Receiver, ReadDf, ReadCf, LinkCf, LinkFails, EndOfJobs, LostConnection, Lose, outside
  <2> QED BY <2>1, UserSame
<1>5. ASSUME NEW h \in Host, Stop(h) \/ TopQ(h) \/ AbortPr(h) \/ StartPr(h) PROVE UserType'
  <2>1. UNCHANGED <<up, home, user, rm>>
    BY <1>5 DEF Stop, TopQ, AbortPr, StartPr, outside
  <2> QED BY <2>1, UserSame
<1>6. ASSUME NEW h \in Host, Crash(h) PROVE UserType'
  <2>1. /\ up' = [up EXCEPT ![h] = FALSE] /\ home' = home
        /\ user' = [j \in Job |-> IF user[j] = "queued" /\ home[j] = h THEN "done" ELSE user[j]]
        /\ rm' = IF rm.host = h \/ (rm.job # NIL /\ home[rm.job] = h) THEN NoRm ELSE rm
    BY <1>6 DEF Crash
  <2>2. RmType'
    <3>1. CASE rm' = NoRm
      BY <3>1, NoRmIs DEF RmType
    <3>2. CASE rm' = rm /\ rm.host # h /\ ~ (rm.job # NIL /\ home[rm.job] = h)
      BY <2>1, <3>2 DEF RmType, UserType
    <3> QED BY <2>1, <3>1, <3>2
  <2> QED BY <2>1, <2>2 DEF UserType
<1>7. ASSUME NEW h \in Host, Boot(h) PROVE UserType'
  BY <1>7 DEF Boot, UserType, RmType
<1>8. ASSUME GoesOn, rm.pc # "idle", UNCHANGED <<user, home, up>> PROVE UserType'
  <2>1. RmType'
    BY <1>8 DEF GoesOn, UserType, RmType
  <2> QED BY <1>8, <2>1 DEF UserType
<1>9. ASSUME rm' = NoRm, UNCHANGED <<user, home, up>> PROVE UserType'
  BY <1>9, NoRmIs DEF UserType, RmType
<1>10. CASE RmLook
  <2>1. /\ rm.pc = "look" /\ UNCHANGED <<user, home, up>> /\ rm \in Removal /\ rm.host \in Host /\ up[rm.host]
        /\ \/ rm' = [rm EXCEPT !.pc = "kill", !.victim = pid[rm.host]] /\ pid[rm.host] # NIL
           \/ rm' = [rm EXCEPT !.pc = "process"]
    BY <1>10 DEF RmLook, RmGo, UserType, RmType
  <2>2. pid[rm.host] \in Proc \cup {NIL}
    BY <2>1 DEF FileType
  <2>3. GoesOn
    BY <2>1, <2>2 DEF Removal, GoesOn
  <2> QED BY <1>8, <2>1, <2>3
<1>11. CASE RmKill
  <2>1. /\ rm.pc = "kill" /\ UNCHANGED <<user, home, up>> /\ rm \in Removal /\ rm.host \in Host /\ up[rm.host]
        /\ \/ rm' = [rm EXCEPT !.pc = "process", !.killed = @ \cup {rm.host}]
           \/ rm' = NoRm
    BY <1>11 DEF RmKill, RmGo, UserType, RmType
  <2>2. ASSUME rm' = [rm EXCEPT !.pc = "process", !.killed = @ \cup {rm.host}] PROVE GoesOn
    <3> DEFINE k == rm.killed \cup {rm.host}
    <3>1. k \in SUBSET Host /\ rm' = [rm EXCEPT !.pc = "process", !.killed = k]
      BY <2>1, <2>2 DEF Removal
    <3> HIDE DEF k
    <3> QED BY <2>1, <3>1 DEF Removal, GoesOn
  <2> QED BY <1>8, <1>9, <2>1, <2>2
<1>12. CASE RmProcess
  <2> DEFINE r == Remote[rm.host]
  <2>1. /\ rm.pc = "process" /\ UNCHANGED <<user, home, up>> /\ rm \in Removal /\ rm.host \in Host /\ up[rm.host]
        /\ \/ rm' = [rm EXCEPT !.pc = "look", !.host = r] /\ r # NIL /\ up[r]
           \/ rm' = [rm EXCEPT !.pc = "restart"]
    BY <1>12 DEF RmProcess, RmGo, UserType, RmType
  <2>2. r \in Host \cup {NIL}
    BY <2>1
  <2> HIDE DEF r
  <2>3. GoesOn
    BY <2>1, <2>2 DEF Removal, GoesOn
  <2> QED BY <1>8, <2>1, <2>3
<1>13. CASE RmRestart
  <2>1. /\ rm.pc = "restart" /\ UNCHANGED <<user, home, up>> /\ rm \in Removal
        /\ home[rm.job] \in Host /\ up[home[rm.job]]
        /\ \/ rm' = [rm EXCEPT !.host = home[rm.job]]
           \/ rm' = NoRm
    BY <1>13 DEF RmRestart, RmGo, UserType, RmType
  <2>2. rm' = [rm EXCEPT !.host = home[rm.job]] => GoesOn
    BY <2>1 DEF Removal, GoesOn
  <2> QED BY <1>8, <1>9, <2>1, <2>2
<1> QED BY <1>1, <1>2, <1>3, <1>4, <1>5, <1>6, <1>7, <1>10, <1>11, <1>12, <1>13 DEF Next

Excuses(e) ==
  /\ e \in [Kinds \cup {"missed"} -> SUBSET (Job \cup Host)]
  /\ \A k \in Kinds : e[k] \subseteq Job
  /\ e.missed \subseteq Host

LEMMA KindsAre == Kinds = {"again", "stripped", "cut", "failed", "removed"} /\ "missed" \notin Kinds
  BY DEF Kinds

LEMMA ExcuseIs ==
  ASSUME NEW e, Excuses(e), NEW kind \in Kinds, NEW jobs \in SUBSET (Job \cup {NIL})
  PROVE  /\ Excuses(Excuse(e, kind, jobs))
         /\ Excuse(e, kind, jobs)[kind] = e[kind] \cup (jobs \ {NIL})
         /\ \A k \in Kinds \ {kind} : Excuse(e, kind, jobs)[k] = e[k]
         /\ Excuse(e, kind, jobs).missed = e.missed
<1> DEFINE a == e[kind] \cup (jobs \ {NIL})
           f == Excuse(e, kind, jobs)
<1>1. f = [e EXCEPT ![kind] = a] /\ a \in SUBSET Job
  BY DEF Excuse, Excuses
<1> HIDE DEF a
<1>2. /\ f \in [Kinds \cup {"missed"} -> SUBSET (Job \cup Host)]
      /\ f[kind] = a /\ f["missed"] = e["missed"]
      /\ \A k \in Kinds \ {kind} : f[k] = e[k]
  BY <1>1, KindsAre DEF Excuses
<1> HIDE DEF f
<1>3. Excuses(f)
  BY <1>1, <1>2 DEF Excuses
<1> QED BY <1>2, <1>3 DEF a, f

LEMMA MissedIs ==
  ASSUME NEW e, Excuses(e), NEW hosts \in SUBSET Host
  PROVE  /\ Excuses(Missed(e, hosts))
         /\ \A k \in Kinds : Missed(e, hosts)[k] = e[k]
         /\ Missed(e, hosts).missed = e.missed \cup hosts
<1> DEFINE a == e["missed"] \cup hosts
           f == Missed(e, hosts)
<1>1. f = [e EXCEPT !["missed"] = a] /\ a \in SUBSET Host
  BY DEF Missed, Excuses
<1> HIDE DEF a
<1>2. /\ f \in [Kinds \cup {"missed"} -> SUBSET (Job \cup Host)]
      /\ f["missed"] = a /\ \A k \in Kinds : f[k] = e[k]
  BY <1>1, KindsAre DEF Excuses
<1> HIDE DEF f
<1>3. Excuses(f)
  BY <1>1, <1>2 DEF Excuses
<1> QED BY <1>2, <1>3 DEF a, f

\* What a daemon leaves at pcs when it is killed.
LeftAt(gone, pcs) == {proc[p].job : p \in {q \in gone : proc[q].pc \in pcs}} \ {NIL}

LEMMA InterruptedIs ==
  ASSUME ProcType, NEW e, Excuses(e), NEW gone \in SUBSET Proc
  PROVE  /\ Excuses(Interrupted(e, gone))
         /\ Interrupted(e, gone)["again"] = e["again"] \cup LeftAt(gone, {"unlinkDf", "unlinkCf", "waitCf"})
         /\ Interrupted(e, gone)["stripped"] = e["stripped"] \cup LeftAt(gone, {"unlinkCf"})
         /\ \A k \in {"cut", "failed", "removed"} : Interrupted(e, gone)[k] = e[k]
         /\ Interrupted(e, gone).missed = e.missed
<1> DEFINE in(pcs) == {proc[p].job : p \in {q \in gone : proc[q].pc \in pcs}}
           a == in({"unlinkDf", "unlinkCf", "waitCf"})
           b == in({"unlinkCf"})
           f == Excuse(e, "again", a)
<1>1. a \in SUBSET (Job \cup {NIL}) /\ b \in SUBSET (Job \cup {NIL})
  BY DEF ProcType, Process
<1>2. Interrupted(e, gone) = Excuse(f, "stripped", b)
  BY DEF Interrupted
<1>3. a \ {NIL} = LeftAt(gone, {"unlinkDf", "unlinkCf", "waitCf"}) /\ b \ {NIL} = LeftAt(gone, {"unlinkCf"})
  BY DEF LeftAt
<1> HIDE DEF in, a, b
<1>4. /\ Excuses(f) /\ f["again"] = e["again"] \cup (a \ {NIL}) /\ f.missed = e.missed
      /\ \A k \in Kinds \ {"again"} : f[k] = e[k]
  BY <1>1, ExcuseIs, KindsAre
<1> HIDE DEF f
<1>5. /\ Excuses(Excuse(f, "stripped", b))
      /\ Excuse(f, "stripped", b)["stripped"] = f["stripped"] \cup (b \ {NIL})
      /\ Excuse(f, "stripped", b).missed = f.missed
      /\ \A k \in Kinds \ {"stripped"} : Excuse(f, "stripped", b)[k] = f[k]
  BY <1>1, <1>4, ExcuseIs, KindsAre
<1> QED BY <1>2, <1>3, <1>4, <1>5, KindsAre

\* What went wrong stays so, and so does what was printed; a queue that had no
\* daemon may get one.
Remembers ==
  /\ Excuses(excused')
  /\ \A h \in excused.missed : h \in excused'.missed \/ \E p \in Proc : Lock(p) /\ On(p) = h
  /\ \A k \in Kinds : excused[k] \subseteq excused'[k]
  /\ printed' \in [Job -> 0 .. MaxPrints]
  /\ \A j \in Job : printed[j] <= printed'[j]

LEMMA RememberSame ==
  ASSUME HistoryType, UNCHANGED <<excused, printed>>
  PROVE  Remembers
  BY DEF HistoryType, Remembers, Excuses

\* What Cleanup excuses.
LEMMA CleanupIs ==
  ASSUME ProcInv, HistoryType, NEW q \in Proc, ~ At(q, "free"), NEW j \in Job \cup {NIL}, NEW partial,
         Cleanup(q, j, partial)
  PROVE  /\ Excuses(excused')
         /\ excused'["stripped"] = excused["stripped"] \cup
               ((IF Cf(j) \in spool[On(q)] \/ \E r \in Proc \ {q} : Receiving(On(q), j, r)
                 THEN {j} ELSE {}) \ {NIL})
         /\ excused'["cut"] = excused["cut"] \cup
               {i \in Job : At(q, "link") /\ proc[q].job = i /\ Cf(i) \notin spool[On(q)]}
         /\ \A k \in {"again", "failed", "removed"} : excused'[k] = excused[k]
         /\ excused'.missed = excused.missed \cup IF proc[q].some THEN {On(q)} ELSE {}
         /\ spool' = [spool EXCEPT ![On(q)] = @ \ {Df(j), Tf(partial)}]
         /\ proc' = Ended(proc, {q})
<1> DEFINE h == On(q)
           used == Cf(j) \in spool[h] \/ \E r \in Proc \ {q} : Receiving(h, j, r)
           a == IF used THEN {j} ELSE {}
           b == {i \in Job : At(q, "link") /\ proc[q].job = i /\ Cf(i) \notin spool[h]}
           e == Excuse(excused, "stripped", a)
           f == Excuse(e, "cut", b)
<1>1. a \in SUBSET (Job \cup {NIL}) /\ b \in SUBSET (Job \cup {NIL}) /\ b \ {NIL} = b /\ h \in Host
  BY AtHost DEF ProcInv
<1>2. /\ excused' = IF proc[q].some THEN Missed(f, {h}) ELSE f
      /\ spool' = [spool EXCEPT ![h] = @ \ {Df(j), Tf(partial)}]
      /\ proc' = Ended(proc, {q})
  BY DEF Cleanup
<1> HIDE DEF a, b
<1>3. /\ Excuses(e) /\ e["stripped"] = excused["stripped"] \cup (a \ {NIL}) /\ e.missed = excused.missed
      /\ \A k \in Kinds \ {"stripped"} : e[k] = excused[k]
  BY <1>1, ExcuseIs, KindsAre DEF HistoryType, Excuses
<1> HIDE DEF e
<1>4. /\ Excuses(f) /\ f["cut"] = e["cut"] \cup b /\ f.missed = e.missed
      /\ \A k \in Kinds \ {"cut"} : f[k] = e[k]
  BY <1>1, <1>3, ExcuseIs, KindsAre
<1> HIDE DEF f
<1>5. /\ Excuses(excused') /\ excused'.missed = f.missed \cup IF proc[q].some THEN {h} ELSE {}
      /\ \A k \in Kinds : excused'[k] = f[k]
  BY <1>1, <1>2, <1>4, MissedIs
<1>6. /\ excused'["stripped"] = excused["stripped"] \cup (a \ {NIL})
      /\ excused'["cut"] = excused["cut"] \cup b
      /\ \A k \in {"again", "failed", "removed"} : excused'[k] = excused[k]
      /\ excused'.missed = excused.missed \cup IF proc[q].some THEN {h} ELSE {}
  BY <1>3, <1>4, <1>5, KindsAre
<1> QED BY <1>2, <1>5, <1>6 DEF a, b

LEMMA RememberDaemon ==
  ASSUME ProcInv, FileType, HistoryType, NEW p \in Proc, Daemon(p)
  PROVE  Remembers
<1>0. ProcType /\ Excuses(excused) /\ MaxPrints \in Nat
  BY DEF ProcInv, HistoryType, Excuses
<1>1. ASSUME Excuses(excused'), \A k \in Kinds : excused[k] \subseteq excused'[k], printed' = printed,
             excused.missed \subseteq excused'.missed
      PROVE  Remembers
  BY <1>1 DEF HistoryType, Remembers
<1>2. CASE Refused(p)
  <2>1. printed' = printed /\ (excused' = excused \/ excused' = Missed(excused, {On(p)})) /\ On(p) \in Host
    BY <1>0, <1>2, AtHost DEF Refused, At
  <2> QED BY <1>0, <1>1, <2>1, MissedIs
<1>3. CASE Lock(p)
  <2> DEFINE a == excused["missed"] \ {On(p)}
  <2>1. printed' = printed /\ excused' = [excused EXCEPT !["missed"] = a] /\ a \in SUBSET Host
    BY <1>0, <1>3 DEF Lock, Excuses
  <2> HIDE DEF a
  <2>2. /\ Excuses(excused') /\ excused'.missed = a
        /\ \A k \in Kinds : excused'[k] = excused[k]
    BY <1>0, <2>1, KindsAre DEF Excuses
  <2> QED BY <1>3, <2>1, <2>2 DEF a, Remembers, HistoryType
<1>4. CASE NoData(p) \/ UnlinkDf(p) \/ SendFails(p)
  <2>1. proc[p].job \in Job \cup {NIL}
    BY <1>0 DEF ProcType, Process
  <2>2. printed' = printed /\ (excused' = excused \/ \E k \in Kinds : excused' = Excuse(excused, k, {proc[p].job}))
    BY <1>4, KindsAre DEF NoData, UnlinkDf, SendFails
  <2>3. CASE excused' = excused
    BY <1>0, <1>1, <2>2, <2>3
  <2>4. ASSUME NEW k \in Kinds, excused' = Excuse(excused, k, {proc[p].job}) PROVE Remembers
    BY <1>0, <1>1, <2>1, <2>2, <2>4, ExcuseIs
  <2> QED BY <2>2, <2>3, <2>4
<1>5. CASE PrintIt(p)
  <2> DEFINE j == proc[p].job
  <2>1. excused' = excused /\ j \in Job /\ printed[j] < MaxPrints /\ printed' = [printed EXCEPT ![j] = @ + 1]
    BY <1>0, <1>5 DEF PrintIt, Ready, At, ProcType, Working
  <2> HIDE DEF j
  <2>2. printed' \in [Job -> 0 .. MaxPrints] /\ \A i \in Job : printed[i] <= printed'[i]
    BY <1>0, <2>1 DEF HistoryType
  <2> QED BY <1>0, <2>1, <2>2 DEF Remembers
<1>6. CASE UNCHANGED <<excused, printed>>
  BY <1>6, RememberSame
<1> QED BY <1>2, <1>3, <1>4, <1>5, <1>6 DEF Daemon, Scan, Rescan, OpenPrinter, OpenRemote, Pick, Vanished,
           Reprint, UnlinkCf, Check, Exit, Restart, SendDf, SendCf, JobSent

LEMMA LostIs ==
  ASSUME NEW q \in Proc, ProcInv, LinkFails(q) \/ LostConnection(q)
  PROVE  /\ ~ At(q, "free")
         /\ \E j \in Job \cup {NIL}, partial \in Job \cup {NIL} : Cleanup(q, j, partial)
  BY DEF LinkFails, LostConnection, At, ProcInv, ProcType, Process

LEMMA RememberNext ==
  ASSUME ProcInv, FileType, UserType, HistoryType, Next
  PROVE  Remembers
<1>0. ProcType /\ Excuses(excused)
  BY DEF ProcInv, HistoryType, Excuses
<1>1. ASSUME Excuses(excused'), \A k \in Kinds : excused[k] \subseteq excused'[k], printed' = printed,
             excused.missed \subseteq excused'.missed
      PROVE  Remembers
  BY <1>1 DEF HistoryType, Remembers
<1>2. ASSUME NEW p \in Proc, LinkFails(p) \/ LostConnection(p) PROVE Remembers
  <2>1. PICK j \in Job \cup {NIL}, partial \in Job \cup {NIL} : Cleanup(p, j, partial)
    BY <1>2, LostIs
  <2>2. printed' = printed /\ ~ At(p, "free")
    BY <1>2, LostIs DEF LinkFails, LostConnection
  <2> QED BY <1>1, <2>1, <2>2, CleanupIs, KindsAre
<1>3. ASSUME NEW p \in Proc, Abort(p), printed' = printed PROVE Remembers
  BY <1>0, <1>1, <1>3, InterruptedIs, KindsAre DEF Abort
<1>4. ASSUME NEW h \in Host, Crash(h) PROVE Remembers
  <2> DEFINE gone == {p \in Proc : On(p) = h}
             late == {proc[p].job : p \in {q \in gone : At(q, "link")}}
             e == Interrupted(excused, gone)
  <2>1. printed' = printed /\ excused' = Excuse(e, "cut", late) /\ gone \in SUBSET Proc
    BY <1>4 DEF Crash
  <2>2. late \in SUBSET (Job \cup {NIL})
    BY <1>0 DEF ProcType, Process
  <2> HIDE DEF gone, late
  <2>3. Excuses(e) /\ e.missed = excused.missed /\ \A k \in Kinds : excused[k] \subseteq e[k]
    BY <1>0, <2>1, InterruptedIs, KindsAre
  <2> HIDE DEF e
  <2> QED BY <1>1, <2>1, <2>2, <2>3, ExcuseIs, KindsAre
<1>5. CASE RmProcess
  <2>1. printed' = printed /\ (excused' = excused \/ excused' = Excuse(excused, "removed", {rm.job})) /\ rm.job \in Job
    BY <1>5 DEF RmProcess, UserType, RmType
  <2> QED BY <1>0, <1>1, <2>1, ExcuseIs, KindsAre
<1>6. CASE RmKill
  <2>1. printed' = printed /\ (excused' = excused \/ Abort(rm.victim)) /\ rm.victim \in Proc
    BY <1>6 DEF RmKill, UserType, RmType
  <2> QED BY <1>0, <1>1, <1>3, <2>1
<1>7. ASSUME NEW h \in Host, AbortPr(h) PROVE Remembers
  <2>1. Abort(pid[h]) /\ printed' = printed /\ pid[h] \in Proc
    BY <1>7 DEF AbortPr, FileType
  <2> QED BY <1>3, <2>1
<1>8. CASE UNCHANGED <<excused, printed>>
  BY <1>8, RememberSame
<1>9. ASSUME NEW h \in Host, Stop(h) \/ TopQ(h) \/ StartPr(h) \/ Boot(h) PROVE Remembers
  BY <1>8, <1>9 DEF Stop, TopQ, StartPr, Boot
<1>10. ASSUME NEW p \in Proc, Daemon(p) \/ Receiver(p) \/ Lose(p) PROVE Remembers
  BY <1>2, <1>8, <1>10, RememberDaemon DEF Receiver, ReadDf, ReadCf, LinkCf, EndOfJobs, Lose
<1>11. ASSUME NEW j \in Job, Lpr(j) \/ StartDaemon(j) \/ Lprm(j) PROVE Remembers
  BY <1>8, <1>11 DEF Lpr, StartDaemon, Lprm
<1>12. CASE RmLook \/ RmRestart
  BY <1>8, <1>12 DEF RmLook, RmRestart
<1> QED BY <1>4, <1>5, <1>6, <1>7, <1>9, <1>10, <1>11, <1>12 DEF Next

LEMMA HistoryNext ==
  ASSUME HistoryType, Remembers
  PROVE  HistoryType'
  BY DEF HistoryType, Remembers, Excuses

LEMMA InitTypes == Init => TypeInv /\ ProcInv
<1> SUFFICES ASSUME Init PROVE TypeInv /\ ProcInv
  OBVIOUS
<1>1. proc = [p \in Proc |-> Free] /\ rm = NoRm
  BY DEF Init
<1>2. ProcType
  BY <1>1, FreeIs DEF ProcType, At, On, Working
<1>3. FileType
  BY DEF Init, FileType
<1>4. UserType
  <2>1. PICK s \in Scenarios : home = s.home
    BY DEF Init
  <2>2. home \in [Job -> Host \cup {NIL}]
    BY <2>1
  <2> QED BY <1>1, <2>2, NoRmIs DEF Init, UserType, RmType
<1>5. HistoryType
  BY KindsAre DEF Init, HistoryType
<1>6. Wired
  BY <1>1, FreeIs DEF Wired, Paired, On, Receives
<1>7. LockInv
  BY <1>1, FreeIs DEF Init, LockInv, On, Locked
<1> QED BY <1>2, <1>3, <1>4, <1>5, <1>6, <1>7 DEF TypeInv, ProcInv

LEMMA StutterTypes ==
  ASSUME TypeInv, ProcInv, UNCHANGED vars
  PROVE  TypeInv' /\ ProcInv'
<1>1. ProcInv'
  BY ProcSame DEF vars
<1>2. FileType' /\ UserType' /\ HistoryType'
  BY UserSame DEF vars, TypeInv, FileType, HistoryType
<1> QED BY <1>1, <1>2 DEF TypeInv, ProcInv

LEMMA NextTypes ==
  ASSUME TypeInv, ProcInv, [Next]_vars
  PROVE  TypeInv' /\ ProcInv'
<1>1. CASE Next
  <2>1. ProcInv' /\ FileType' /\ UserType' /\ HistoryType'
    BY <1>1, ProcNext, FilesNext, UserNext, RememberNext, HistoryNext DEF TypeInv
  <2> QED BY <2>1 DEF TypeInv, ProcInv
<1> QED BY <1>1, StutterTypes

(* Type correctness, and the processes: connected pairs and the lock.          *)
THEOREM TypesAlways == Spec => [](TypeInv /\ ProcInv)
<1>1. Init => TypeInv /\ ProcInv
  BY InitTypes
<1>2. TypeInv /\ ProcInv /\ [Next]_vars => (TypeInv /\ ProcInv)'
  BY NextTypes
<1> QED BY <1>1, <1>2, PTL DEF Spec

LEMMA TypesOneDaemon ==
  ASSUME TypeInv, ProcInv
  PROVE  OneDaemon
<1>1. TypeOK
  <2>1. ASSUME NEW h \in Host PROVE spool[h] \subseteq {"cf", "df", "tf"} \X Job /\ flags[h] \subseteq {"stop", "rebuild"}
    BY DEF TypeInv, FileType, File
  <2>2. ASSUME NEW p \in Proc
        PROVE  /\ proc[p].pc \in Phase /\ proc[p].conn \in Proc \cup {NIL}
               /\ proc[p].job \in Job \cup {NIL} /\ proc[p].list \subseteq Job
    BY DEF TypeInv, ProcType, Process
  <2>3. rm.pc \in {"idle", "look", "kill", "process", "restart"}
    BY DEF TypeInv, UserType, RmType, Removal
  <2>4. \A j \in Job : printed[j] \in 0 .. MaxPrints
    BY DEF TypeInv, HistoryType
  <2> QED BY <2>1, <2>2, <2>3, <2>4 DEF TypeInv, FileType, UserType, TypeOK
<1> QED BY <1>1 DEF OneDaemon, ProcInv, LockInv

(* One daemon at a time holds the lock of a queue and works on it, and it is    *)
(* the one whom the lock file names and the signals of lprm and lpc reach       *)
(* (printjob.c), with any number of jobs, hosts, processes, losses of           *)
(* connections, aborts and crashes.                                         *)
THEOREM OneDaemonAlways == Spec => []OneDaemon
<1>1. TypeInv /\ ProcInv => OneDaemon
  BY TypesOneDaemon
<1> QED BY <1>1, TypesAlways, PTL

-----------------------------------------------------------------------------
(* What the steps leave alone.                                              *)

LEMMA FilesDiffer ==
  \A i, j : /\ Cf(i) # Df(j) /\ Cf(i) # Tf(j) /\ Df(i) # Tf(j)
            /\ Cf(i) = Cf(j) => i = j
            /\ Df(i) = Df(j) => i = j
  BY DEF Cf, Df, Tf

\* r takes no step; its connection may be lost.
Calm(r) == /\ On(r)' = On(r) /\ proc'[r].pc = proc[r].pc /\ proc'[r].job = proc[r].job
           /\ proc'[r].conn \in {proc[r].conn, NIL} /\ Received(r)

\* It is sent a file.
Mailed(r) ==
  \E p \in Proc \ {r} :
    /\ proc[p].conn = r
    /\ \/ SendDf(p) /\ At(p, "work") /\ proc'[r].msg = Df(proc[p].job)
       \/ SendCf(p) /\ At(p, "waitDf") /\ proc[r].ack /\ proc'[r].msg = Cf(proc[p].job)
    /\ ~ proc'[r].ack
    /\ On(r)' = On(r) /\ proc'[r].pc = proc[r].pc /\ proc'[r].job = proc[r].job
    /\ proc'[r].conn = proc[r].conn /\ proc'[r].df = proc[r].df /\ proc'[r].some = proc[r].some

Empty(r) == proc'[r].job = NIL /\ proc'[r].msg = NIL /\ proc'[r].df = NIL /\ ~ proc'[r].some

\* It is killed by abortpr, or its host crashes.
Killed(r) ==
  /\ ~ At(r, "free") /\ Empty(r) /\ proc'[r].conn = NIL
  /\ \/ proc'[r].pc = "aborted" /\ On(r)' = On(r) /\ proc[r].pc \in Locked
     \/ proc'[r].pc = "free" /\ ~ up'[On(r)]
  /\ proc[r].job # NIL =>
       /\ proc[r].pc \in {"unlinkDf", "unlinkCf", "waitCf"} => proc[r].job \in excused'["again"]
       /\ At(r, "unlinkCf") => proc[r].job \in excused'["stripped"]
       /\ At(r, "link") => proc[r].job \in excused'["cut"]

Born(r) == At(r, "free") /\ Empty(r) /\ proc'[r].pc \in {"start", "read"}

LEMMA CalmSame ==
  ASSUME NEW r, UNCHANGED proc
  PROVE  Calm(r)
  BY DEF Calm, Received, On

LEMMA CalmOthers ==
  ASSUME NEW p, NEW r \in Proc \ {p}, Others(p)
  PROVE  Calm(r)
  BY DEF Calm, Received, On, Others

LEMMA ForkedFrame ==
  ASSUME ProcType, NEW h \in Host, Forked(h), NEW r \in Proc
  PROVE  Calm(r) \/ Born(r)
<1>1. PICK q \in Proc : Starts(q, h)
  BY ForkedStep
<1>2. r # q => Calm(r)
  BY <1>1, CalmOthers DEF Starts
<1>3. r = q => Born(r)
  BY <1>1, FreshIs DEF Starts, Born, Empty, Phase
<1> QED BY <1>2, <1>3

LEMMA AbortFrame ==
  ASSUME ProcInv, FileType, HistoryType, NEW p \in Proc, proc[p].pc \in Locked, Abort(p), NEW r \in Proc
  PROVE  Calm(r) \/ Killed(r)
<1>1. On(p) \in Host /\ ~ At(p, "free") /\ ProcType /\ Excuses(excused)
  BY AtHost DEF ProcInv, At, Locked, HistoryType, Excuses
<1>2. Drops(p, "aborted", NIL) /\ proc'[p].msg = NIL /\ proc'[p].df = NIL /\ ~ proc'[p].some
  BY <1>1, AbortStep
<1>3. r # p => Calm(r)
  BY <1>2 DEF Drops, Calm
<1>4. excused' = Interrupted(excused, {p})
  BY DEF Abort
<1>5. /\ LeftAt({p}, {"unlinkDf", "unlinkCf", "waitCf"}) \subseteq excused'["again"]
      /\ LeftAt({p}, {"unlinkCf"}) \subseteq excused'["stripped"]
  BY <1>1, <1>4, InterruptedIs
<1>6. Killed(p)
  BY <1>1, <1>2, <1>5 DEF Killed, Empty, Drops, At, LeftAt, Locked
<1> QED BY <1>3, <1>6

LEMMA CrashFrame ==
  ASSUME ProcInv, HistoryType, UserType, NEW h \in Host, Crash(h), NEW r \in Proc
  PROVE  Calm(r) \/ Killed(r)
<1> DEFINE gone == {p \in Proc : On(p) = h}
           late == {proc[p].job : p \in {q \in gone : At(q, "link")}}
           e == Interrupted(excused, gone)
<1>1. /\ excused' = Excuse(e, "cut", late) /\ gone \in SUBSET Proc /\ ~ up'[h]
      /\ proc' = Ended(proc, gone) /\ ProcType /\ Excuses(excused)
  BY DEF Crash, UserType, ProcInv, HistoryType, Excuses
<1>2. Ends(gone)
  BY <1>1, EndsStep
<1>3. r \notin gone => Calm(r)
  BY <1>2 DEF Ends, Calm
<1>4. ASSUME r \in gone PROVE Killed(r)
  <2>1. ~ At(r, "free") /\ On(r) = h
    BY <1>1, <1>4 DEF ProcType
  <2>2. late \in SUBSET (Job \cup {NIL})
    BY <1>1 DEF ProcType, Process
  <2>3. /\ Excuses(e) /\ LeftAt(gone, {"unlinkDf", "unlinkCf", "waitCf"}) \subseteq e["again"]
        /\ LeftAt(gone, {"unlinkCf"}) \subseteq e["stripped"]
    BY <1>1, InterruptedIs
  <2> DEFINE t == At(r, "link") => proc[r].job \in late
  <2>4. t
    BY <1>4
  <2> HIDE DEF e, late
  <2>5. /\ e["again"] \subseteq excused'["again"] /\ e["stripped"] \subseteq excused'["stripped"]
        /\ late \ {NIL} \subseteq excused'["cut"]
    BY <1>1, <2>2, <2>3, ExcuseIs, KindsAre
  <2>6. proc'[r] = Free
    BY <1>2, <1>4 DEF Ends
  <2>7. Empty(r) /\ proc'[r].conn = NIL /\ proc'[r].pc = "free"
    BY <2>6, FreeIs DEF Empty, Free
  <2>8. ASSUME proc[r].job # NIL
        PROVE  /\ proc[r].pc \in {"unlinkDf", "unlinkCf", "waitCf"} => proc[r].job \in excused'["again"]
               /\ At(r, "unlinkCf") => proc[r].job \in excused'["stripped"]
               /\ At(r, "link") => proc[r].job \in excused'["cut"]
    BY <1>4, <2>3, <2>4, <2>5, <2>8 DEF LeftAt, At
  <2> QED BY <1>1, <2>1, <2>7, <2>8 DEF Killed
<1> QED BY <1>3, <1>4

LEMMA DaemonFrame ==
  ASSUME ProcInv, FileType, NEW p \in Proc, Daemon(p), NEW r \in Proc \ {p}
  PROVE  Calm(r) \/ Mailed(r) \/ Born(r)
<1>0. ProcType
  BY DEF ProcInv
<1>1. CASE Refused(p) \/ Exit(p)
  <2>1. Ends({p})
    BY <1>0, <1>1, EndsStep DEF Refused, Exit
  <2> QED BY <2>1 DEF Ends, Calm
<1>2. CASE OpenRemote(p)
  <2>1. PICK q \in Proc : Connects(p, q)
    BY <1>0, <1>2, OpenRemoteStep
  <2>2. CASE r = q
    BY <2>1, <2>2 DEF Connects, Born, Empty
  <2>3. CASE r # q
    BY <2>1, <2>3 DEF Connects, Calm, Received, On
  <2> QED BY <2>2, <2>3
<1>3. CASE SendDf(p) \/ SendCf(p)
  <2> DEFINE q == proc[p].conn
  <2>1. CASE r = q
    BY <1>3, <2>1, SendSteps DEF Mailed, SendsTo
  <2>2. CASE r # q
    BY <1>3, <2>2, SendSteps DEF SendsTo, Calm, Received, On
  <2> QED BY <2>1, <2>2
<1>4. CASE Check(p)
  <2>1. ASSUME NEW pc, NEW job, Drops(p, pc, job) PROVE Calm(r)
    BY <2>1 DEF Drops, Calm
  <2>2. ASSUME NEW pc, NEW job, Step(p, pc, job) PROVE Calm(r)
    BY <2>2, CalmOthers DEF Step
  <2> QED BY <1>0, <1>4, <2>1, <2>2, CheckStep
<1>5. CASE \E pc, job : Step(p, pc, job)
  BY <1>5, CalmOthers DEF Step
<1>6. CASE Lock(p) \/ Scan(p) \/ Rescan(p) \/ OpenPrinter(p) \/ Pick(p)
  BY <1>0, <1>5, <1>6, LockStep, ScanStep, RescanStep, OpenPrinterStep, PickStep
<1>7. CASE Reprint(p) \/ SendFails(p)
  BY <1>0, <1>5, <1>7, AgainStep DEF Reprint, SendFails, ToRepeat
<1>8. CASE Vanished(p) \/ NoData(p) \/ PrintIt(p) \/ UnlinkDf(p) \/ UnlinkCf(p) \/ JobSent(p) \/ Restart(p)
  BY <1>0, <1>5, <1>8, GoIs DEF Vanished, NoData, PrintIt, UnlinkDf, UnlinkCf, JobSent, Restart, Phase, Locked
<1> QED BY <1>1, <1>2, <1>3, <1>4, <1>6, <1>7, <1>8 DEF Daemon

LEMMA ReceiverFrame ==
  ASSUME ProcInv, NEW q \in Proc, Receiver(q), NEW r \in Proc \ {q}
  PROVE  Calm(r)
<1>0. ProcType
  BY DEF ProcInv
<1>1. CASE ReadDf(q)
  BY <1>0, <1>1, ReadDfStep, CalmOthers
<1>2. CASE ReadCf(q)
  BY <1>0, <1>2, ReadCfStep, CalmOthers
<1>3. CASE LinkCf(q)
  BY <1>0, <1>3, LinkCfStep, CalmOthers
<1>4. CASE proc' = Ended(proc, {q})
  <2>1. Ends({q})
    BY <1>0, <1>4, EndsStep
  <2> QED BY <2>1 DEF Ends, Calm
<1>5. CASE EndOfJobs(q) /\ proc' = [proc EXCEPT ![q] = Fresh(On(q), "start")]
  <2>1. Fresh(On(q), "start") \in Process
    BY <1>0, <1>5, AtHost, FreshIs DEF EndOfJobs, At, Phase
  <2> QED BY <1>0, <1>5, <2>1, SetOne, CalmOthers
<1>6. CASE LinkFails(q) \/ LostConnection(q)
  <2>1. proc' = Ended(proc, {q})
    BY <1>6 DEF LinkFails, LostConnection, Cleanup
  <2> QED BY <1>4, <2>1
<1> QED BY <1>1, <1>2, <1>3, <1>4, <1>5, <1>6 DEF Receiver, EndOfJobs

LEMMA Frame ==
  ASSUME ProcInv, TypeInv, Next, NEW r \in Proc
  PROVE  Calm(r) \/ Mailed(r) \/ Killed(r) \/ Born(r) \/ Daemon(r) \/ Receiver(r)
<1>0. ProcType /\ FileType /\ UserType /\ HistoryType
  BY DEF TypeInv
<1>1. ASSUME NEW p \in Proc, Daemon(p) PROVE Calm(r) \/ Mailed(r) \/ Born(r) \/ Daemon(r)
  BY <1>0, <1>1, DaemonFrame
<1>2. ASSUME NEW p \in Proc, Receiver(p) PROVE Calm(r) \/ Receiver(r)
  BY <1>2, ReceiverFrame
<1>3. ASSUME NEW p \in Proc, Lose(p) PROVE Calm(r)
  <2>1. Drops(p, proc[p].pc, proc[p].job) /\ Received(p)
    BY <1>0, <1>3, LoseStep
  <2> QED BY <2>1 DEF Drops, Calm
<1>4. ASSUME NEW j \in Job, Lpr(j) \/ StartDaemon(j) \/ Lprm(j) PROVE Calm(r) \/ Born(r)
  <2>1. CASE StartDaemon(j)
    <3>1. home[j] \in Host /\ Forked(home[j])
      BY <1>0, <2>1 DEF StartDaemon, UserType
    <3> QED BY <1>0, <3>1, ForkedFrame
  <2> QED BY <1>4, <2>1, CalmSame DEF Lpr, Lprm
<1>5. ASSUME NEW h \in Host, Stop(h) \/ TopQ(h) PROVE Calm(r)
  BY <1>5, CalmSame DEF Stop, TopQ
<1>6. ASSUME NEW h \in Host, AbortPr(h) PROVE Calm(r) \/ Killed(r)
  <2>1. pid[h] # NIL /\ Abort(pid[h])
    BY <1>6 DEF AbortPr
  <2>2. pid[h] \in Proc /\ proc[pid[h]].pc \in Locked
    BY <1>0, <2>1, Holder
  <2> QED BY <1>0, <2>1, <2>2, AbortFrame
<1>7. ASSUME NEW h \in Host, StartPr(h) \/ Boot(h) PROVE Calm(r) \/ Born(r)
  BY <1>0, <1>7, ForkedFrame, CalmSame DEF StartPr, Boot
<1>8. ASSUME NEW h \in Host, Crash(h) PROVE Calm(r) \/ Killed(r)
  BY <1>0, <1>8, CrashFrame
<1>9. CASE RmLook \/ RmProcess
  BY <1>9, CalmSame DEF RmLook, RmProcess
<1>10. CASE RmKill
  <2>1. rm.host \in Host /\ rm.victim \in Proc
    BY <1>0, <1>10 DEF RmKill, UserType, RmType
  <2>2. CASE pid[rm.host] = rm.victim
    <3>1. rm.victim # NIL /\ Abort(rm.victim)
      BY <1>10, <2>1, <2>2 DEF RmKill
    <3>2. proc[rm.victim].pc \in Locked
      BY <1>0, <2>1, <2>2, <3>1, Holder
    <3> QED BY <1>0, <2>1, <3>1, <3>2, AbortFrame
  <2>3. CASE pid[rm.host] # rm.victim
    BY <1>10, <2>3, CalmSame DEF RmKill
  <2> QED BY <2>2, <2>3
<1>11. CASE RmRestart
  <2>1. rm.host \in Host
    BY <1>0, <1>11 DEF RmRestart, UserType, RmType
  <2> QED BY <1>0, <1>11, <2>1, ForkedFrame, CalmSame DEF RmRestart
<1> QED BY <1>1, <1>2, <1>3, <1>4, <1>5, <1>6, <1>7, <1>8, <1>9, <1>10, <1>11 DEF Next

LEMMA SpoolFrame ==
  ASSUME Next
  PROVE  \/ UNCHANGED spool
         \/ \E j \in Job : Lpr(j)
         \/ \E p \in Proc : \/ UnlinkDf(p) \/ UnlinkCf(p) \/ ReadDf(p) \/ ReadCf(p) \/ LinkCf(p)
                            \/ LinkFails(p) \/ LostConnection(p)
         \/ RmProcess
<1>1. ASSUME NEW p \in Proc, Daemon(p) PROVE UNCHANGED spool \/ UnlinkDf(p) \/ UnlinkCf(p)
  BY <1>1 DEF Daemon, Refused, Lock, Scan, Rescan, OpenPrinter, OpenRemote, Pick, Vanished, NoData,
         PrintIt, Reprint, Check, Exit, Restart, SendDf, SendCf, JobSent, SendFails
<1>2. ASSUME NEW p \in Proc, Receiver(p) \/ Lose(p)
      PROVE  \/ UNCHANGED spool \/ ReadDf(p) \/ ReadCf(p) \/ LinkCf(p) \/ LinkFails(p) \/ LostConnection(p)
  BY <1>2 DEF Receiver, EndOfJobs, Lose
<1>3. ASSUME NEW h \in Host, Stop(h) \/ TopQ(h) \/ AbortPr(h) \/ StartPr(h) \/ Crash(h) \/ Boot(h)
      PROVE  UNCHANGED spool
  BY <1>3 DEF Stop, TopQ, AbortPr, StartPr, Crash, Boot
<1>4. ASSUME NEW j \in Job, StartDaemon(j) \/ Lprm(j) PROVE UNCHANGED spool
  BY <1>4 DEF StartDaemon, Lprm
<1>5. ASSUME RmLook \/ RmKill \/ RmRestart PROVE UNCHANGED spool
  BY <1>5 DEF RmLook, RmKill, RmRestart
<1> QED BY <1>1, <1>2, <1>3, <1>4, <1>5 DEF Next

LEMMA UserFrame ==
  ASSUME Next
  PROVE  /\ home' = home
         /\ \/ UNCHANGED user
            \/ \E j \in Job : Lpr(j) \/ StartDaemon(j)
            \/ \E h \in Host : Crash(h)
<1>1. ASSUME NEW p \in Proc, Daemon(p) PROVE UNCHANGED <<home, user>>
  BY <1>1 DEF Daemon, Refused, Lock, Scan, Rescan, OpenPrinter, OpenRemote, Pick, Vanished, NoData,
         PrintIt, Reprint, UnlinkDf, UnlinkCf, Check, Exit, Restart, SendDf, SendCf, JobSent, SendFails,
         outside
<1>2. ASSUME NEW p \in Proc, Receiver(p) \/ Lose(p) PROVE UNCHANGED <<home, user>>
  BY <1>2 DEF Receiver, ReadDf, ReadCf, LinkCf, LinkFails, EndOfJobs, LostConnection, Lose, outside
<1>3. ASSUME NEW h \in Host, Stop(h) \/ TopQ(h) \/ AbortPr(h) \/ StartPr(h) \/ Boot(h)
      PROVE  UNCHANGED <<home, user>>
  BY <1>3 DEF Stop, TopQ, AbortPr, StartPr, Boot, outside
<1>4. ASSUME NEW j \in Job, Lpr(j) \/ StartDaemon(j) PROVE home' = home
  BY <1>4 DEF Lpr, StartDaemon
<1>5. ASSUME NEW j \in Job, Lprm(j) PROVE UNCHANGED <<home, user>>
  BY <1>5 DEF Lprm, RmGo
<1>6. ASSUME RmLook \/ RmKill \/ RmProcess \/ RmRestart PROVE UNCHANGED <<home, user>>
  BY <1>6 DEF RmLook, RmKill, RmProcess, RmRestart, RmGo
<1>7. ASSUME NEW h \in Host, Crash(h) PROVE home' = home
  BY <1>7 DEF Crash
<1> QED BY <1>1, <1>2, <1>3, <1>4, <1>5, <1>6, <1>7 DEF Next

\* A job is new until its lpr.
LEMMA NewFrame ==
  ASSUME TypeInv, Next, NEW j \in Job
  PROVE  /\ user'[j] = "new" => user[j] = "new" /\ ~ Lpr(j)
         /\ user'[j] # "new" => user[j] # "new" \/ Lpr(j)
<1>0. user \in [Job -> {"new", "queued", "done"}]
  BY DEF TypeInv, UserType
<1>1. ASSUME NEW i \in Job, Lpr(i) \/ StartDaemon(i)
      PROVE  /\ user'[j] = "new" => user[j] = "new" /\ ~ Lpr(j)
             /\ user'[j] # "new" => user[j] # "new" \/ Lpr(j)
  BY <1>0, <1>1 DEF Lpr, StartDaemon
<1>2. ASSUME NEW h \in Host, Crash(h) PROVE (user'[j] = "new") <=> user[j] = "new"
  BY <1>0, <1>2 DEF Crash
<1>3. Lpr(j) => user'[j] # "new"
  BY <1>0 DEF Lpr
<1> QED BY <1>0, <1>1, <1>2, <1>3, UserFrame

LEMMA DaemonAt ==
  ASSUME NEW p \in Proc, Daemon(p)
  PROVE  proc[p].pc \in Locked \cup {"start", "aborted"}
  BY DEF Daemon, Refused, Lock, Scan, Rescan, OpenPrinter, OpenRemote, Opened, Pick, Vanished, NoData,
         PrintIt, Reprint, Ready, UnlinkDf, UnlinkCf, Check, Exit, Restart, SendDf, SendCf, JobSent,
         SendFails, At, Locked

LEMMA ReceiverAt ==
  ASSUME NEW q \in Proc, Receiver(q)
  PROVE  IF At(q, "link") THEN LinkCf(q) \/ LinkFails(q)
         ELSE At(q, "read") /\ (ReadDf(q) \/ ReadCf(q) \/ EndOfJobs(q) \/ LostConnection(q))
  BY DEF Receiver, ReadDf, ReadCf, LinkCf, LinkFails, EndOfJobs, LostConnection, At

\* The step of a daemon that goes to, or goes on from, the places where it
\* hands over or removes a job.
LEMMA DaemonGoesTo ==
  ASSUME ProcInv, FileType, NEW p \in Proc, Daemon(p)
  PROVE  /\ proc'[p].pc \in Locked \cup {"free", "start"}
         /\ proc'[p].pc = "unlinkDf" => /\ NoData(p) \/ PrintIt(p) \/ JobSent(p)
                                        /\ Step(p, "unlinkDf", proc[p].job)
         /\ proc'[p].pc = "unlinkCf" => UnlinkDf(p) /\ Step(p, "unlinkCf", proc[p].job)
         /\ proc'[p].pc = "waitDf" => SendDf(p)
         /\ proc'[p].pc = "waitCf" => SendCf(p)
         /\ proc'[p].pc = "exit" => Scan(p) \/ Rescan(p) \/ Check(p)
         /\ proc'[p].pc = "free" => Refused(p) \/ Exit(p)
         /\ proc'[p].pc # "free" => On(p)' = On(p)
<1>0. ProcType
  BY DEF ProcInv
<1>1. CASE Refused(p) \/ Exit(p)
  <2>1. Ends({p})
    BY <1>0, <1>1, EndsStep DEF Refused, Exit
  <2>2. proc'[p].pc = "free"
    BY <2>1, FreeIs DEF Ends
  <2> QED BY <1>1, <2>2
<1>2. CASE OpenRemote(p)
  <2>1. (proc'[p].pc \in {"pick", "work"}) /\ On(p)' = On(p)
    BY <1>0, <1>2, OpenRemoteStep DEF Connects
  <2> QED BY <2>1 DEF Locked
<1>3. CASE SendDf(p) \/ SendCf(p)
  <2>1. (SendDf(p) => proc'[p].pc = "waitDf") /\ (SendCf(p) => proc'[p].pc = "waitCf") /\ On(p)' = On(p)
    BY <1>3, SendSteps DEF SendsTo
  <2> QED BY <1>3, <2>1 DEF Locked
<1>4. CASE Check(p)
  <2>1. (proc'[p].pc \in {"exit", "rescan", "pick", "open"}) /\ On(p)' = On(p)
    BY <1>0, <1>4, CheckStep DEF Step, Drops
  <2> QED BY <1>4, <2>1 DEF Locked
<1>5. CASE Lock(p) \/ OpenPrinter(p) \/ Pick(p)
  <2>1. Pick(p) => At(p, "pick")
    BY DEF Pick
  <2>2. (proc'[p].pc \in {"scan", "pick", "work", "rescan"}) /\ On(p)' = On(p)
    BY <1>0, <1>5, <2>1, LockStep, OpenPrinterStep, PickStep DEF Step, At
  <2> QED BY <2>2 DEF Locked
<1>6. CASE Scan(p) \/ Rescan(p)
  <2>1. (proc'[p].pc \in {"exit", "open", "pick"}) /\ On(p)' = On(p)
    BY <1>0, <1>6, ScanStep, RescanStep DEF Step
  <2> QED BY <1>6, <2>1 DEF Locked
<1>7. CASE Reprint(p) \/ SendFails(p) \/ Vanished(p) \/ UnlinkCf(p) \/ Restart(p)
  <2>1. (proc'[p].pc \in {"check", "start"}) /\ On(p)' = On(p)
    BY <1>0, <1>7, AgainStep, GoIs DEF Reprint, SendFails, ToRepeat, Vanished, UnlinkCf, Restart, Step, Phase, Locked
  <2> QED BY <2>1 DEF Locked
<1>8. CASE NoData(p) \/ PrintIt(p) \/ JobSent(p)
  <2>1. Step(p, "unlinkDf", proc[p].job)
    BY <1>0, <1>8, GoIs DEF NoData, PrintIt, JobSent, Phase, Locked
  <2> QED BY <1>8, <2>1 DEF Locked, Step
<1>9. CASE UnlinkDf(p)
  <2>1. Step(p, "unlinkCf", proc[p].job)
    BY <1>0, <1>9, GoIs DEF UnlinkDf, Phase, Locked
  <2> QED BY <1>9, <2>1 DEF Locked, Step
<1> QED BY <1>1, <1>2, <1>3, <1>4, <1>5, <1>6, <1>7, <1>8, <1>9 DEF Daemon

LEMMA DaemonGoesOn ==
  ASSUME NEW p \in Proc, Daemon(p)
  PROVE  /\ At(p, "unlinkDf") => UnlinkDf(p)
         /\ At(p, "unlinkCf") => UnlinkCf(p)
         /\ At(p, "waitCf") => JobSent(p) \/ SendFails(p)
         /\ At(p, "waitDf") => SendCf(p) \/ SendFails(p)
  BY DEF Daemon, Refused, Lock, Scan, Rescan, OpenPrinter, OpenRemote, Opened, Pick, Vanished, NoData,
         PrintIt, Reprint, Ready, UnlinkDf, UnlinkCf, Check, Exit, Restart, SendDf, SendCf, JobSent,
         SendFails, At

LEMMA ReceiverGoesTo ==
  ASSUME ProcInv, NEW q \in Proc, Receiver(q)
  PROVE  proc'[q].pc \in {"read", "link", "free", "start"}
<1>0. ProcType
  BY DEF ProcInv
<1>1. CASE ReadDf(q) \/ ReadCf(q) \/ LinkCf(q)
  BY <1>0, <1>1, ReadDfStep, ReadCfStep, LinkCfStep DEF ReadDf, At
<1>2. CASE proc' = Ended(proc, {q})
  <2>1. Ends({q})
    BY <1>0, <1>2, EndsStep
  <2> QED BY <2>1, FreeIs DEF Ends
<1>3. CASE EndOfJobs(q) /\ proc' = [proc EXCEPT ![q] = Fresh(On(q), "start")]
  <2>1. On(q) \in Host
    BY <1>0, <1>3, AtHost DEF EndOfJobs, At
  <2>2. Fresh(On(q), "start") \in Process /\ Fresh(On(q), "start").pc = "start"
    BY <2>1, FreshIs DEF Phase
  <2> QED BY <1>0, <1>3, <2>2, SetOne
<1>4. CASE LinkFails(q) \/ LostConnection(q)
  <2>1. proc' = Ended(proc, {q})
    BY <1>4 DEF LinkFails, LostConnection, Cleanup
  <2> QED BY <1>2, <2>1
<1> QED BY <1>1, <1>2, <1>3, <1>4 DEF Receiver, EndOfJobs

LEMMA DaemonMail ==
  ASSUME ProcInv, NEW p \in Proc, Daemon(p)
  PROVE  proc'[p].msg \in {proc[p].msg, NIL}
<1>0. ProcType
  BY DEF ProcInv
<1>1. CASE Refused(p) \/ Exit(p)
  <2>1. Ends({p})
    BY <1>0, <1>1, EndsStep DEF Refused, Exit
  <2> QED BY <2>1, FreeIs DEF Ends
<1>2. CASE OpenRemote(p)
  BY <1>0, <1>2, OpenRemoteStep DEF Connects, Received
<1>3. CASE SendDf(p) \/ SendCf(p)
  BY <1>3, SendSteps DEF SendsTo, Received
<1>4. CASE Check(p)
  BY <1>0, <1>4, CheckStep DEF Step, Drops, Received
<1>5. CASE Lock(p) \/ Scan(p) \/ Rescan(p) \/ OpenPrinter(p) \/ Pick(p)
  <2>1. Lock(p) => proc'[p].msg = proc[p].msg
    <3>1. ASSUME Lock(p) PROVE proc'[p].msg = proc[p].msg
      <4>1. proc[p] \in Process /\ proc' = [proc EXCEPT ![p].pc = "scan", ![p].mode = flags[On(p)]]
        BY <1>0, <3>1 DEF Lock, ProcType
      <4> QED BY <1>0, <4>1 DEF ProcType, Process
    <3> QED BY <3>1
  <2> QED BY <1>0, <1>5, <2>1, ScanStep, RescanStep, OpenPrinterStep, PickStep DEF Step, Received
<1>6. CASE Reprint(p) \/ SendFails(p)
  BY <1>0, <1>6, AgainStep DEF Reprint, SendFails, ToRepeat, Step, Received
<1>7. CASE Vanished(p) \/ NoData(p) \/ PrintIt(p) \/ UnlinkDf(p) \/ UnlinkCf(p) \/ JobSent(p) \/ Restart(p)
  BY <1>0, <1>7, GoIs DEF Vanished, NoData, PrintIt, UnlinkDf, UnlinkCf, JobSent, Restart, Phase, Locked,
     Step, Received
<1> QED BY <1>1, <1>2, <1>3, <1>4, <1>5, <1>6, <1>7 DEF Daemon

\* A receiver ends, or becomes a daemon, if it does not read or link a file.
LEMMA ReceiverEnds ==
  ASSUME ProcInv, NEW q \in Proc, Receiver(q)
  PROVE  \/ ReadDf(q) \/ ReadCf(q) \/ LinkCf(q)
         \/ /\ proc'[q].pc \in {"free", "start"} /\ proc'[q].msg = NIL /\ proc'[q].conn = NIL
            /\ proc'[q].pc = "start" => On(q)' = On(q)
            /\ \/ EndOfJobs(q) /\ (proc[q].some => proc'[q].pc = "start")
               \/ LinkFails(q) \/ LostConnection(q)
<1>0. ProcType
  BY DEF ProcInv
<1>1. ASSUME proc' = Ended(proc, {q})
      PROVE  proc'[q].pc = "free" /\ proc'[q].msg = NIL /\ proc'[q].conn = NIL
  <2>1. Ends({q})
    BY <1>0, <1>1, EndsStep
  <2> QED BY <2>1, FreeIs DEF Ends
<1>2. ASSUME EndOfJobs(q), proc' = [proc EXCEPT ![q] = Fresh(On(q), "start")]
      PROVE  proc'[q].pc = "start" /\ proc'[q].msg = NIL /\ proc'[q].conn = NIL /\ On(q)' = On(q)
  <2> DEFINE r == Fresh(On(q), "start")
  <2>1. On(q) \in Host
    BY <1>0, <1>2, AtHost DEF EndOfJobs, At
  <2>2. r \in Process /\ r.pc = "start" /\ r.msg = NIL /\ r.conn = NIL /\ r.host = On(q)
    BY <2>1, FreshIs DEF Phase
  <2> HIDE DEF r
  <2>3. proc'[q] = r
    BY <1>0, <1>2, <2>2, SetOne DEF r
  <2> QED BY <2>2, <2>3 DEF On
<1>3. LinkFails(q) \/ LostConnection(q) => proc' = Ended(proc, {q})
  BY DEF LinkFails, LostConnection, Cleanup
<1> QED BY <1>1, <1>2, <1>3 DEF Receiver, EndOfJobs

\* While a daemon waits for an answer, only its receiver takes steps.
LEMMA ConnFrame ==
  ASSUME ProcInv, TypeInv, Next, NEW p \in Proc, proc[p].pc \in {"waitDf", "waitCf"}, Calm(p),
         NEW q, q = proc[p].conn, q # NIL, proc'[p].conn = q
  PROVE  q \in Proc /\ (Calm(q) \/ ReadDf(q) \/ ReadCf(q) \/ LinkCf(q))
<1>0. ProcInv' /\ proc'[p].pc = proc[p].pc /\ proc[p].pc \in Locked
  BY NextTypes DEF Calm, Locked
<1>1. q \in Proc /\ q # p /\ proc[q].conn = p /\ proc[q].pc \in Receives
  BY <1>0, Partner
<1>2. proc'[q].pc \in Receives /\ proc'[q].conn = p
  BY <1>0, <1>1 DEF ProcInv, Wired, Paired, At, Locked, Receives
<1>3. ~ Mailed(q)
  <2>1. ASSUME NEW r \in Proc, proc[r].conn = q, SendDf(r) \/ SendCf(r) PROVE FALSE
    <3>1. proc[q].conn = r
      BY <2>1, SendSteps, Partner DEF At, Locked
    <3>2. r = p
      BY <1>1, <3>1
    <3> QED BY <1>0, <2>1, <3>2, SendSteps DEF At, SendsTo
  <2> QED BY <2>1 DEF Mailed
<1>4. ~ Killed(q) /\ ~ Born(q) /\ ~ Daemon(q)
  BY <1>1, <1>2, DaemonAt DEF Killed, Born, At, Receives, Locked
<1>5. Receiver(q) => ReadDf(q) \/ ReadCf(q) \/ LinkCf(q)
  BY <1>1, <1>2, ReceiverEnds DEF Receives
<1> QED BY <1>1, <1>3, <1>4, <1>5, Frame

\* A job leaves a queue when its daemon unlinks the control file, and by lprm.
LEMMA QueueFrame ==
  ASSUME ProcInv, TypeInv, Next, NEW h \in Host, NEW j \in Queue(h)
  PROVE  \/ j \in Queue(h)'
         \/ \E p \in Proc : UnlinkCf(p) /\ On(p) = h /\ proc[p].job = j
         \/ RmProcess /\ rm.job = j /\ j \in excused'["removed"]
<1>0. j \in Job /\ Cf(j) \in spool[h] /\ spool \in [Host -> SUBSET File] /\ Excuses(excused)
  BY DEF Queue, TypeInv, FileType, HistoryType, Excuses
<1>1. (Cf(j) \in spool'[h]) => j \in Queue(h)'
  BY <1>0 DEF Queue
<1>2. ASSUME NEW p \in Proc, UnlinkDf(p) \/ UnlinkCf(p)
      PROVE  (Cf(j) \in spool'[h]) \/ (UnlinkCf(p) /\ On(p) = h /\ proc[p].job = j)
  BY <1>0, <1>2, FilesDiffer DEF UnlinkDf, UnlinkCf
<1>3. ASSUME NEW q \in Proc, ReadDf(q) \/ ReadCf(q) \/ LinkCf(q) PROVE Cf(j) \in spool'[h]
  <2>1. ASSUME NEW B, spool' = [spool EXCEPT ![On(q)] = @ \cup B] PROVE Cf(j) \in spool'[h]
    BY <1>0, <2>1
  <2>2. CASE ReadDf(q) \/ ReadCf(q)
    BY <2>1, <2>2 DEF ReadDf, ReadCf
  <2>3. CASE LinkCf(q)
    <3> DEFINE a == (spool[On(q)] \ {Tf(proc[q].job)}) \cup {Cf(proc[q].job)}
    <3>1. spool' = [spool EXCEPT ![On(q)] = a] /\ (Cf(j) \in spool[On(q)] => Cf(j) \in a)
      BY <2>3, FilesDiffer DEF LinkCf
    <3> HIDE DEF a
    <3> QED BY <1>0, <3>1
  <2> QED BY <1>3, <2>2, <2>3
<1>4. ASSUME NEW q \in Proc, LinkFails(q) \/ LostConnection(q) PROVE Cf(j) \in spool'[h]
  <2>1. PICK i \in Job \cup {NIL}, partial \in Job \cup {NIL} : Cleanup(q, i, partial)
    BY <1>4, LostIs
  <2> QED BY <1>0, <2>1, FilesDiffer DEF Cleanup
<1>5. ASSUME NEW i \in Job, Lpr(i) PROVE Cf(j) \in spool'[h]
  BY <1>0, <1>5 DEF Lpr
<1>6. ASSUME RmProcess, Cf(j) \notin spool'[h]
      PROVE  rm.job = j /\ j \in excused'["removed"]
  <2>1. rm.host = h /\ rm.job = j
    BY <1>0, <1>6, FilesDiffer DEF RmProcess
  <2>2. excused' = Excuse(excused, "removed", {j})
    BY <1>0, <1>6, <2>1 DEF RmProcess
  <2> QED BY <1>0, <2>1, <2>2, ExcuseIs, KindsAre
<1> QED BY <1>0, <1>1, <1>2, <1>3, <1>4, <1>5, <1>6, SpoolFrame

\* The control file of q that was received is linked, or it is known why not.
LEMMA LinkFrame ==
  ASSUME ProcInv, TypeInv, Next, NEW q \in Proc, At(q, "link")
  PROVE  \/ At(q, "link")' /\ proc'[q].job = proc[q].job
         \/ \E h \in Host : h = On(q) /\ proc[q].job \in Queue(h)'
         \/ proc[q].job \in excused'["cut"]
<1>0. PICK j \in Job, h \in Host : j = proc[q].job /\ h = On(q) /\ j # NIL
  BY AtHost DEF TypeInv, ProcType, At, Working
<1>1. CASE Calm(q) \/ Mailed(q)
  BY <1>1 DEF Calm, Mailed, At
<1>2. CASE Killed(q)
  <2>1. j \in excused'["cut"]
    BY <1>0, <1>2 DEF Killed
  <2> QED BY <1>0, <2>1
<1>3. ASSUME Cf(j) \in spool'[h] PROVE j \in Queue(h)'
  BY <1>3 DEF Queue
<1>4. spool \in [Host -> SUBSET File]
  BY DEF TypeInv, FileType
<1>5. CASE LinkCf(q)
  <2>1. Cf(j) \in spool'[h]
    BY <1>0, <1>4, <1>5 DEF LinkCf
  <2> QED BY <1>0, <1>3, <2>1
<1>6. CASE LinkFails(q)
  <2>1. Cleanup(q, proc[q].df, j) /\ proc[q].df \in Job \cup {NIL} /\ ~ At(q, "free")
    BY <1>0, <1>6 DEF LinkFails, TypeInv, ProcType, Process, At
  <2>2. CASE Cf(j) \in spool[h]
    <3>1. Cf(j) \in spool'[h]
      BY <1>0, <1>4, <2>1, <2>2, FilesDiffer DEF Cleanup
    <3> QED BY <1>0, <1>3, <3>1
  <2>3. CASE Cf(j) \notin spool[h]
    <3>1. j \in {i \in Job : At(q, "link") /\ proc[q].job = i /\ Cf(i) \notin spool[On(q)]}
      BY <1>0, <2>3
    <3>2. PICK d \in Job \cup {NIL} : d = proc[q].df
      BY <2>1
    <3>3. HistoryType /\ Cleanup(q, d, j)
      BY <2>1, <3>2 DEF TypeInv
    <3>4. excused'["cut"] = excused["cut"] \cup
            {i \in Job : At(q, "link") /\ proc[q].job = i /\ Cf(i) \notin spool[On(q)]}
      BY <2>1, <3>3, CleanupIs
    <3>5. j \in excused'["cut"]
      BY <3>1, <3>4
    <3> QED BY <1>0, <3>5
  <2> QED BY <2>2, <2>3
<1> QED BY <1>1, <1>2, <1>5, <1>6, Frame, DaemonAt, ReceiverAt DEF At, Locked, Born

-----------------------------------------------------------------------------
(* Nothing is forgotten.                                                    *)

\* j was printed, arrived where it is printed, or is not going to.
Delivered(j) ==
  \/ printed[j] > 0
  \/ \E kind \in {"failed", "removed", "cut"} : j \in excused[kind]
  \/ \E h \in Host : Remote[h] = NIL /\ j \in Queue(h)
  \/ \E q \in Proc : At(q, "link") /\ proc[q].job = j

Finished(j) == printed[j] > 0 \/ j \in excused["failed"]

\* A daemon removes a job that it printed, or whose control file was received.
SentWell ==
  \A p \in Proc :
    /\ proc[p].pc \in {"unlinkDf", "unlinkCf"} =>
         IF Sends(p) THEN Delivered(proc[p].job) ELSE Finished(proc[p].job)
    /\ At(p, "waitCf") /\ proc[p].conn # NIL =>
         \/ Delivered(proc[p].job)
         \/ ~ proc[proc[p].conn].ack /\ proc[proc[p].conn].msg = Cf(proc[p].job)

LEMMA FinishedStays ==
  ASSUME TypeInv, Remembers, NEW j \in Job, Finished(j)
  PROVE  Finished(j)' /\ Delivered(j)'
  BY KindsAre DEF TypeInv, HistoryType, Remembers, Finished, Delivered

LEMMA DeliveredStays ==
  ASSUME ProcInv, TypeInv, SentWell, Next, NEW j \in Job, Delivered(j)
  PROVE  Delivered(j)'
<1>0. Remembers /\ ProcType /\ printed \in [Job -> 0 .. MaxPrints]
  BY RememberNext DEF TypeInv, HistoryType
<1>1. CASE printed[j] > 0 \/ \E kind \in {"failed", "removed", "cut"} : j \in excused[kind]
  BY <1>0, <1>1, KindsAre DEF Remembers, Delivered
<1>2. ASSUME NEW h \in Host, Remote[h] = NIL, j \in Queue(h) PROVE Delivered(j)'
  <2>1. ASSUME NEW p \in Proc, UnlinkCf(p), On(p) = h, proc[p].job = j PROVE Delivered(j)'
    <3>1. Finished(j)
      BY <1>2, <2>1 DEF SentWell, UnlinkCf, At, Sends
    <3> QED BY <1>0, <3>1, FinishedStays
  <2>2. \/ j \in Queue(h)' \/ \E p \in Proc : UnlinkCf(p) /\ On(p) = h /\ proc[p].job = j
        \/ j \in excused'["removed"]
    BY <1>2, QueueFrame
  <2>3. (j \in Queue(h)' \/ j \in excused'["removed"]) => Delivered(j)'
    BY <1>2 DEF Delivered
  <2> QED BY <2>1, <2>2, <2>3
<1>3. ASSUME NEW q \in Proc, At(q, "link"), proc[q].job = j PROVE Delivered(j)'
  <2>1. On(q) \in Host /\ Remote[On(q)] = NIL
    BY <1>0, <1>3, AtHost DEF ProcInv, Wired, At, Receives
  <2> QED BY <1>3, <2>1, LinkFrame DEF Delivered
<1> QED BY <1>1, <1>2, <1>3 DEF Delivered

LEMMA SentWellNext ==
  ASSUME ProcInv, TypeInv, SentWell, Next
  PROVE  SentWell'
<1>0. ProcType /\ FileType /\ ProcType' /\ ProcInv' /\ Remembers
  BY NextTypes, RememberNext DEF TypeInv
<1>1. ASSUME NEW p \in Proc, proc'[p].pc \in {"unlinkDf", "unlinkCf"}
      PROVE  IF Sends(p)' THEN Delivered(proc[p].job)' ELSE Finished(proc[p].job)'
  <2>1. CASE Calm(p) \/ Mailed(p)
    <3>1. proc'[p].pc = proc[p].pc /\ proc'[p].job = proc[p].job /\ Sends(p)' = Sends(p)
      BY <2>1 DEF Calm, Mailed, Sends, On
    <3>2. PICK j \in Job : j = proc[p].job
      BY <1>0, <1>1, <3>1 DEF ProcType, Working
    <3>3. IF Sends(p) THEN Delivered(j) ELSE Finished(j)
      BY <1>1, <3>1, <3>2 DEF SentWell
    <3>4. IF Sends(p) THEN Delivered(j)' ELSE Finished(j)'
      BY <1>0, <3>3, DeliveredStays, FinishedStays
    <3> QED BY <3>1, <3>2, <3>4 DEF Delivered, Finished
  <2>2. CASE Daemon(p)
    <3>1. /\ NoData(p) \/ PrintIt(p) \/ JobSent(p) \/ UnlinkDf(p)
          /\ proc'[p].job = proc[p].job /\ Sends(p)' = Sends(p)
      BY <1>0, <1>1, <2>2, DaemonGoesTo DEF Step, Sends, On
    <3>2. PICK j \in Job : j = proc[p].job
      BY <1>0, <1>1, <3>1 DEF ProcType, Working
    <3>3. CASE NoData(p)
      <4>1. excused' = Excuse(excused, "failed", {j}) /\ Excuses(excused)
        BY <3>2, <3>3 DEF NoData, TypeInv, HistoryType, Excuses
      <4>2. j \in excused'["failed"]
        BY <4>1, ExcuseIs, KindsAre
      <4> QED BY <3>1, <3>2, <4>2 DEF Delivered, Finished
    <3>4. CASE PrintIt(p)
      <4>1. printed' = [printed EXCEPT ![j] = @ + 1]
        BY <3>2, <3>4 DEF PrintIt
      <4>2. printed'[j] > 0
        BY <4>1 DEF TypeInv, HistoryType
      <4> QED BY <3>1, <3>2, <4>2 DEF Delivered, Finished
    <3>5. CASE JobSent(p)
      <4>1. At(p, "waitCf") /\ proc[p].conn # NIL /\ proc[proc[p].conn].ack
        BY <3>5 DEF JobSent
      <4>2. Sends(p)
        BY <4>1, Partner DEF At, Locked
      <4>3. Delivered(j)
        BY <3>2, <4>1 DEF SentWell
      <4>4. Delivered(j)'
        BY <4>3, DeliveredStays
      <4> QED BY <3>1, <3>2, <4>2, <4>4 DEF Delivered
    <3>6. CASE UnlinkDf(p)
      <4>1. IF Sends(p) THEN Delivered(j) ELSE Finished(j)
        BY <3>2, <3>6 DEF SentWell, UnlinkDf, At
      <4>2. IF Sends(p) THEN Delivered(j)' ELSE Finished(j)'
        BY <1>0, <4>1, DeliveredStays, FinishedStays
      <4> QED BY <3>1, <3>2, <4>2 DEF Delivered, Finished
    <3> QED BY <3>1, <3>3, <3>4, <3>5, <3>6
  <2>3. ~ Killed(p) /\ ~ Born(p) /\ ~ Receiver(p)
    BY <1>1, ReceiverGoesTo DEF Killed, Born
  <2> QED BY <2>1, <2>2, <2>3, Frame
<1>2. ASSUME NEW p \in Proc, At(p, "waitCf")', proc'[p].conn # NIL
      PROVE  \/ Delivered(proc[p].job)'
             \/ ~ proc'[proc'[p].conn].ack /\ proc'[proc'[p].conn].msg = Cf(proc'[p].job)
  <2>1. CASE Calm(p)
    <3>1. /\ At(p, "waitCf") /\ proc'[p].job = proc[p].job /\ proc'[p].conn = proc[p].conn
          /\ proc[p].pc \in Locked
      BY <1>2, <2>1 DEF Calm, At, Locked
    <3>2. PICK q \in Proc : q = proc[p].conn /\ q # p /\ proc[q].conn = p /\ proc[q].pc \in Receives
      BY <1>2, <3>1, Partner
    <3>3. PICK j \in Job : j = proc[p].job
      BY <1>0, <3>1 DEF ProcType, Working, At
    <3>4. CASE Delivered(j)
      <4>1. Delivered(j)'
        BY <3>4, DeliveredStays
      <4> QED BY <3>1, <3>3, <4>1 DEF Delivered
    <3>5. ASSUME ~ proc[q].ack, proc[q].msg = Cf(j)
          PROVE  Delivered(j)' \/ (~ proc'[q].ack /\ proc'[q].msg = Cf(j))
      <4>1. CASE Calm(q)
        BY <3>5, <4>1 DEF Calm, Received
      <4>2. CASE ReadDf(q)
        BY <1>0, <3>5, <4>2, ReadDfStep, FilesDiffer
      <4>3. CASE ReadCf(q)
        <5>1. At(q, "link")' /\ proc'[q].job = j
          BY <1>0, <3>5, <4>3, ReadCfStep, FilesDiffer DEF At
        <5> QED BY <5>1 DEF Delivered
      <4>4. CASE LinkCf(q)
        BY <1>0, <3>5, <4>4, LinkCfStep
      <4>5. Calm(q) \/ ReadDf(q) \/ ReadCf(q) \/ LinkCf(q)
        BY <1>2, <2>1, <3>1, <3>2, ConnFrame DEF At
      <4> QED BY <4>1, <4>2, <4>3, <4>4, <4>5
    <3>6. Delivered(j) \/ (~ proc[q].ack /\ proc[q].msg = Cf(j))
      BY <1>2, <3>1, <3>2, <3>3 DEF SentWell
    <3>7. Delivered(j)' => Delivered(proc[p].job)'
      BY <3>1, <3>3 DEF Delivered
    <3> QED BY <3>1, <3>2, <3>3, <3>4, <3>5, <3>6, <3>7
  <2>2. CASE Daemon(p)
    <3>1. SendCf(p)
      BY <1>0, <1>2, <2>2, DaemonGoesTo DEF At
    <3> QED BY <3>1, SendSteps DEF SendsTo
  <2>3. ~ Mailed(p) /\ ~ Killed(p) /\ ~ Born(p) /\ ~ Receiver(p)
    <3>1. ~ Mailed(p)
      <4>1. ASSUME NEW r \in Proc, proc[r].conn = p, SendDf(r) \/ SendCf(r) PROVE proc[p].pc \in Receives
        BY <4>1, SendSteps, Partner DEF At, Locked
      <4> QED BY <1>2, <4>1 DEF Mailed, At, Receives
    <3> QED BY <1>2, <3>1, ReceiverGoesTo DEF Killed, Born, At
  <2> QED BY <2>1, <2>2, <2>3, Frame
<1> QED BY <1>1, <1>2 DEF SentWell

Kept(j) == \/ \E h \in Host : j \in Queue(h)
           \/ \E q \in Proc : At(q, "link") /\ proc[q].job = j
           \/ printed[j] > 0
           \/ \E kind \in {"failed", "removed", "cut"} : j \in excused[kind]

LEMMA ForgottenNext ==
  ASSUME ProcInv, TypeInv, SentWell, NothingForgotten, Next
  PROVE  NothingForgotten'
<1>0. ProcType /\ FileType /\ UserType /\ HistoryType /\ Remembers
  BY RememberNext DEF TypeInv
<1>1. ASSUME NEW j \in Job, Kept(j) PROVE Kept(j)'
  <2>1. CASE printed[j] > 0 \/ \E kind \in {"failed", "removed", "cut"} : j \in excused[kind]
    BY <1>0, <2>1, KindsAre DEF Remembers, HistoryType, Kept
  <2>2. ASSUME NEW h \in Host, j \in Queue(h) PROVE Kept(j)'
    <3>1. ASSUME NEW p \in Proc, UnlinkCf(p), proc[p].job = j PROVE Kept(j)'
      <4>1. Delivered(j) \/ Finished(j)
        BY <3>1 DEF SentWell, UnlinkCf, At
      <4>2. Delivered(j)'
        BY <1>0, <4>1, DeliveredStays, FinishedStays
      <4> QED BY <4>2 DEF Delivered, Kept
    <3>2. (j \in Queue(h)' \/ j \in excused'["removed"]) => Kept(j)'
      BY DEF Kept
    <3> QED BY <2>2, <3>1, <3>2, QueueFrame
  <2>3. ASSUME NEW q \in Proc, At(q, "link"), proc[q].job = j PROVE Kept(j)'
    <3>1. \/ At(q, "link")' /\ proc'[q].job = j
          \/ \E h \in Host : j \in Queue(h)'
          \/ j \in excused'["cut"]
      BY <2>3, LinkFrame
    <3> QED BY <3>1 DEF Kept
  <2> QED BY <1>1, <2>1, <2>2, <2>3 DEF Kept
<1>2. ASSUME NEW j \in Job, Lpr(j) PROVE Kept(j)'
  <2>1. PICK h \in Host : h = home[j] /\ spool' = [spool EXCEPT ![h] = @ \cup {Cf(j), Df(j)}]
    BY <1>0, <1>2 DEF Lpr, UserType
  <2>2. Cf(j) \in spool'[h]
    BY <1>0, <2>1 DEF FileType
  <2> QED BY <2>2 DEF Queue, Kept
<1>3. ASSUME NEW j \in Job, user'[j] # "new" PROVE Kept(j)'
  <2>1. user[j] # "new" => Kept(j)
    BY DEF NothingForgotten, Kept
  <2> QED BY <1>1, <1>2, <1>3, <2>1, NewFrame
<1> QED BY <1>3 DEF NothingForgotten, Kept

Forgetting == SentWell /\ NothingForgotten

LEMMA NothingForgottenStep ==
  ASSUME TypeInv, ProcInv, Forgetting, [Next]_vars
  PROVE  Forgetting'
<1>1. CASE Next
  BY <1>1, SentWellNext, ForgottenNext DEF Forgetting
<1>2. CASE UNCHANGED vars
  BY <1>2 DEF Forgetting, vars, SentWell, NothingForgotten, Delivered, Finished, Queue, At, On, Sends
<1> QED BY <1>1, <1>2

(* A job that lpr queued and lprm did not remove stays known until it is        *)
(* printed or its user gets mail: a daemon removes its control file only when  *)
(* it printed the job or the receiver has answered to the control file, the      *)
(* file is linked before that receiver ends or the history says that it was   *)
(* cut (printjob.c, sendit; recvjob.c, readjob).                              *)
THEOREM NothingForgottenAlways == Spec => []NothingForgotten
<1>1. Init => Forgetting
  BY FreeIs DEF Init, Forgetting, SentWell, NothingForgotten, At
<1>2. TypeInv /\ ProcInv /\ Forgetting /\ [Next]_vars => Forgetting'
  BY NothingForgottenStep
<1>3. Forgetting => NothingForgotten
  BY DEF Forgetting
<1> QED BY <1>1, <1>2, <1>3, TypesAlways, PTL DEF Spec

-----------------------------------------------------------------------------
(* The data is kept.                                                        *)

Spoiled(j) == j \in excused["stripped"] \cup excused["removed"]

ReceivedData ==
  \A h \in Host, j \in Job, q \in Proc : Receiving(h, j, q) => Df(j) \in spool[h] \/ Spoiled(j)

\* The control file follows the data on the connection.
InTurn ==
  /\ \A q \in Proc, j \in Job : proc[q].msg = Cf(j) => proc[q].df = j /\ At(q, "read")
  /\ \A p \in Proc : At(p, "waitDf") /\ proc[p].conn # NIL =>
       LET q == proc[p].conn IN
       IF proc[q].ack THEN proc[q].df = proc[p].job /\ proc[q].msg = NIL /\ At(q, "read")
       ELSE proc[q].msg = Df(proc[p].job)

LEMMA NoFile == \A j \in Job : Cf(j) # NIL /\ Df(j) # NIL
  BY NoFileAssumption DEF Cf, Df

LEMMA InTurnNext ==
  ASSUME ProcInv, TypeInv, InTurn, Next
  PROVE  InTurn'
<1>0. ProcType /\ FileType
  BY DEF TypeInv
<1>1. ASSUME NEW q \in Proc, NEW j \in Job, proc'[q].msg = Cf(j)
      PROVE  proc'[q].df = j /\ At(q, "read")'
  <2>1. CASE Calm(q)
    <3>1. proc[q].msg = Cf(j) /\ proc'[q].df = proc[q].df /\ proc'[q].pc = proc[q].pc
      BY <1>1, <2>1 DEF Calm, Received
    <3>2. proc[q].df = j /\ At(q, "read")
      BY <3>1 DEF InTurn
    <3> QED BY <3>1, <3>2 DEF At
  <2>2. CASE Mailed(q)
    <3>1. PICK p \in Proc : /\ proc[p].conn = q /\ SendCf(p) /\ At(p, "waitDf") /\ proc[q].ack
                            /\ proc'[q].msg = Cf(proc[p].job)
                            /\ proc'[q].df = proc[q].df /\ proc'[q].pc = proc[q].pc
      BY <1>1, <2>2, FilesDiffer DEF Mailed
    <3>2. proc[q].df = proc[p].job /\ At(q, "read")
      BY <3>1 DEF InTurn
    <3>3. proc[p].job = j
      BY <1>1, <3>1, FilesDiffer
    <3> QED BY <3>1, <3>2, <3>3 DEF At
  <2>3. CASE Daemon(q)
    <3>1. proc[q].msg = Cf(j)
      BY <1>1, <2>3, DaemonMail, NoFile
    <3> QED BY <2>3, <3>1, DaemonAt DEF InTurn, At, Locked
  <2>4. CASE Receiver(q)
    <3>1. LinkCf(q)
      BY <1>0, <1>1, <2>4, ReceiverEnds, ReadDfStep, ReadCfStep, NoFile
    <3>2. At(q, "link") /\ proc[q].msg = Cf(j)
      BY <1>0, <1>1, <3>1, LinkCfStep DEF LinkCf
    <3> QED BY <3>2 DEF InTurn, At
  <2>5. ~ Killed(q) /\ ~ Born(q)
    BY <1>1, NoFile DEF Killed, Born, Empty
  <2> QED BY <2>1, <2>2, <2>3, <2>4, <2>5, Frame
<1>2. ASSUME NEW p \in Proc, At(p, "waitDf")', NEW q, q = proc'[p].conn, q # NIL
      PROVE  IF proc'[q].ack THEN proc'[q].df = proc'[p].job /\ proc'[q].msg = NIL /\ At(q, "read")'
             ELSE proc'[q].msg = Df(proc'[p].job)
  <2>1. CASE Calm(p)
    <3>1. At(p, "waitDf") /\ proc'[p].job = proc[p].job /\ proc[p].conn = q
      BY <1>2, <2>1 DEF Calm, At
    <3>2. PICK j \in Job : j = proc[p].job
      BY <1>0, <3>1 DEF ProcType, Working, At
    <3>3. IF proc[q].ack THEN proc[q].df = j /\ proc[q].msg = NIL /\ At(q, "read") ELSE proc[q].msg = Df(j)
      BY <1>2, <3>1, <3>2 DEF InTurn
    <3>4. q \in Proc /\ (Calm(q) \/ ReadDf(q) \/ ReadCf(q) \/ LinkCf(q))
      BY <1>2, <2>1, <3>1, ConnFrame DEF At
    <3>5. CASE Calm(q)
      BY <3>1, <3>2, <3>3, <3>5 DEF Calm, Received, At
    <3>6. CASE ReadDf(q)
      <4>1. PICK i \in Job : /\ proc[q].msg = Df(i) /\ proc'[q].msg = NIL /\ proc'[q].ack
                             /\ proc'[q].df = i /\ proc'[q].pc = proc[q].pc
        BY <1>0, <3>4, <3>6, ReadDfStep
      <4>2. i = j /\ At(q, "read")
        BY <3>3, <3>6, <4>1, NoFile, FilesDiffer DEF ReadDf
      <4> QED BY <3>1, <3>2, <4>1, <4>2 DEF At
    <3>7. ~ ReadCf(q)
      <4>1. ASSUME NEW i \in Job, proc[q].msg = Cf(i) PROVE FALSE
        BY <3>3, <4>1, NoFile, FilesDiffer
      <4> QED BY <4>1 DEF ReadCf
    <3>8. CASE LinkCf(q)
      <4>1. At(q, "link") /\ proc'[q].msg = proc[q].msg /\ proc'[q].ack = proc[q].ack
        BY <1>0, <3>4, <3>8, LinkCfStep DEF LinkCf
      <4> QED BY <3>1, <3>2, <3>3, <4>1 DEF At
    <3> QED BY <3>4, <3>5, <3>6, <3>7, <3>8
  <2>2. CASE Daemon(p)
    <3>1. SendDf(p)
      BY <1>0, <1>2, <2>2, DaemonGoesTo DEF At
    <3> QED BY <1>2, <3>1, SendSteps DEF SendsTo
  <2>3. ~ Mailed(p) /\ ~ Killed(p) /\ ~ Born(p) /\ ~ Receiver(p)
    <3>1. ~ Mailed(p)
      <4>1. ASSUME NEW r \in Proc, proc[r].conn = p, SendDf(r) \/ SendCf(r) PROVE proc[p].pc \in Receives
        BY <4>1, SendSteps, Partner DEF At, Locked
      <4> QED BY <1>2, <4>1 DEF Mailed, At, Receives
    <3> QED BY <1>2, <3>1, ReceiverGoesTo DEF Killed, Born, At
  <2> QED BY <2>1, <2>2, <2>3, Frame
<1> QED BY <1>1, <1>2 DEF InTurn

\* Who removes the data of a job.
LEMMA DataFrame ==
  ASSUME ProcInv, TypeInv, Next, NEW h \in Host, NEW j \in Job, Df(j) \in spool[h]
  PROVE  \/ Df(j) \in spool'[h]
         \/ Spoiled(j)'
         \/ \E p \in Proc : /\ UnlinkDf(p) /\ On(p) = h /\ proc[p].job = j
                            /\ \A r \in Proc : ~ Receiving(h, j, r)
         \/ \E q \in Proc : /\ LinkFails(q) \/ LostConnection(q)
                            /\ Cf(j) \notin spool[h]
                            /\ \A r \in Proc \ {q} : ~ Receiving(h, j, r)
<1>0. spool \in [Host -> SUBSET File] /\ Excuses(excused) /\ HistoryType /\ j # NIL
  BY DEF TypeInv, FileType, HistoryType, Excuses
<1>1. ASSUME NEW p \in Proc, UnlinkDf(p), Df(j) \notin spool'[h]
      PROVE  /\ On(p) = h /\ proc[p].job = j
             /\ (\E r \in Proc : Receiving(h, j, r)) => Spoiled(j)'
  <2>1. On(p) = h /\ proc[p].job = j
    BY <1>0, <1>1, FilesDiffer DEF UnlinkDf
  <2>2. ASSUME NEW r \in Proc, Receiving(h, j, r) PROVE Spoiled(j)'
    <3>1. excused' = Excuse(excused, "stripped", {j})
      BY <1>1, <2>1, <2>2 DEF UnlinkDf
    <3>2. j \in excused'["stripped"]
      BY <1>0, <3>1, ExcuseIs, KindsAre
    <3> QED BY <3>2 DEF Spoiled
  <2> QED BY <2>1, <2>2
<1>2. ASSUME NEW p \in Proc, UnlinkCf(p) PROVE Df(j) \in spool'[h]
  BY <1>0, <1>2, FilesDiffer DEF UnlinkCf
<1>3. ASSUME NEW q \in Proc, ReadDf(q) \/ ReadCf(q) \/ LinkCf(q) PROVE Df(j) \in spool'[h]
  <2>1. ASSUME NEW B, spool' = [spool EXCEPT ![On(q)] = @ \cup B] PROVE Df(j) \in spool'[h]
    BY <1>0, <2>1
  <2>2. CASE ReadDf(q) \/ ReadCf(q)
    BY <2>1, <2>2 DEF ReadDf, ReadCf
  <2>3. CASE LinkCf(q)
    <3> DEFINE a == (spool[On(q)] \ {Tf(proc[q].job)}) \cup {Cf(proc[q].job)}
    <3>1. spool' = [spool EXCEPT ![On(q)] = a] /\ (Df(j) \in spool[On(q)] => Df(j) \in a)
      BY <2>3, FilesDiffer DEF LinkCf
    <3> HIDE DEF a
    <3> QED BY <1>0, <3>1
  <2> QED BY <1>3, <2>2, <2>3
<1>4. ASSUME NEW q \in Proc, LinkFails(q) \/ LostConnection(q), Df(j) \notin spool'[h], ~ Spoiled(j)'
      PROVE  Cf(j) \notin spool[h] /\ \A r \in Proc \ {q} : ~ Receiving(h, j, r)
  <2>1. PICK i \in Job \cup {NIL}, partial \in Job \cup {NIL} : Cleanup(q, i, partial)
    BY <1>4, LostIs
  <2>2. spool' = [spool EXCEPT ![On(q)] = @ \ {Df(i), Tf(partial)}]
    BY <2>1 DEF Cleanup
  <2>3. On(q) = h /\ i = j
    BY <1>0, <1>4, <2>2, FilesDiffer
  <2>4. ~ At(q, "free")
    BY <1>4, LostIs
  <2>5. excused'["stripped"] = excused["stripped"] \cup
          ((IF Cf(j) \in spool[On(q)] \/ \E r \in Proc \ {q} : Receiving(On(q), j, r)
            THEN {j} ELSE {}) \ {NIL})
    BY <1>0, <2>1, <2>3, <2>4, CleanupIs
  <2> QED BY <1>0, <1>4, <2>3, <2>5 DEF Spoiled
<1>5. ASSUME NEW i \in Job, Lpr(i) PROVE Df(j) \in spool'[h]
  BY <1>0, <1>5 DEF Lpr
<1>6. ASSUME RmProcess, Df(j) \notin spool'[h] PROVE Spoiled(j)'
  <2>1. rm.host = h /\ rm.job = j /\ Cf(j) \in spool[h]
    BY <1>0, <1>6, FilesDiffer DEF RmProcess
  <2>2. excused' = Excuse(excused, "removed", {j})
    BY <1>6, <2>1 DEF RmProcess
  <2>3. j \in excused'["removed"]
    BY <1>0, <2>2, ExcuseIs, KindsAre
  <2> QED BY <2>3 DEF Spoiled
<1> QED BY <1>0, <1>1, <1>2, <1>3, <1>4, <1>5, <1>6, SpoolFrame

\* Who receives the data of a job, or its control file.
LEMMA ReceivingFrame ==
  ASSUME ProcInv, TypeInv, Next, NEW h \in Host, NEW j \in Job, NEW q \in Proc, Receiving(h, j, q)'
  PROVE  \/ Receiving(h, j, q)
         \/ ReadDf(q) /\ Df(j) \in spool'[h]
         \/ ReadCf(q) /\ On(q) = h /\ proc[q].msg = Cf(j)
<1>0. ProcType /\ spool \in [Host -> SUBSET File] /\ j # NIL
  BY DEF TypeInv, FileType
<1>1. CASE Calm(q) \/ Mailed(q)
  BY <1>1 DEF Calm, Mailed, Received, Receiving, On
<1>2. ~ Killed(q) /\ ~ Born(q) /\ ~ Daemon(q)
  <2>1. ~ Born(q)
    BY <1>0 DEF Born, Empty, Receiving
  <2> QED BY <2>1, DaemonGoesTo DEF Killed, Receiving, Receives, Locked, TypeInv
<1>3. CASE ReadDf(q)
  <2>1. PICK i \in Job : /\ spool' = [spool EXCEPT ![On(q)] = @ \cup {Df(i)}] /\ On(q)' = On(q)
                         /\ proc'[q].pc = proc[q].pc /\ proc'[q].job = proc[q].job /\ proc'[q].df = i
    BY <1>0, <1>3, ReadDfStep
  <2>2. CASE j = i
    <3>1. On(q) = h
      BY <2>1 DEF Receiving
    <3> QED BY <1>0, <1>3, <2>1, <2>2, <3>1
  <2>3. CASE j # i
    BY <2>1, <2>3 DEF Receiving, On
  <2> QED BY <2>2, <2>3
<1>4. CASE ReadCf(q)
  <2>1. PICK i \in Job : /\ proc[q].msg = Cf(i) /\ On(q)' = On(q) /\ proc'[q].job = i
                         /\ proc'[q].df = proc[q].df
    BY <1>0, <1>4, ReadCfStep
  <2>2. On(q) = h /\ proc[q].pc \in Receives
    BY <1>4, <2>1 DEF Receiving, ReadCf, At, Receives
  <2> QED BY <1>4, <2>1, <2>2 DEF Receiving
<1>5. CASE LinkCf(q)
  <2>1. On(q)' = On(q) /\ proc'[q].job = NIL /\ proc'[q].df = proc[q].df /\ proc[q].pc \in Receives
    BY <1>0, <1>5, LinkCfStep DEF LinkCf, At, Receives
  <2> QED BY <1>0, <2>1 DEF Receiving
<1>6. Receiver(q) => ReadDf(q) \/ ReadCf(q) \/ LinkCf(q)
  BY ReceiverEnds DEF Receiving, Receives
<1> QED BY <1>1, <1>2, <1>3, <1>4, <1>5, <1>6, Frame

LEMMA ReceivedDataNext ==
  ASSUME ProcInv, TypeInv, InTurn, ReceivedData, Next
  PROVE  ReceivedData'
<1>0. Remembers
  BY RememberNext DEF TypeInv
<1> SUFFICES ASSUME NEW h \in Host, NEW j \in Job, NEW q \in Proc, Receiving(h, j, q)'
             PROVE  (Df(j) \in spool'[h]) \/ Spoiled(j)'
  BY DEF ReceivedData
<1>1. CASE Receiving(h, j, q)
  <2>1. CASE Spoiled(j)
    BY <1>0, <2>1, KindsAre DEF Remembers, Spoiled
  <2>2. CASE Df(j) \in spool[h]
    <3>1. ~ LinkFails(q) /\ ~ LostConnection(q)
      <4>1. ASSUME LinkFails(q) \/ LostConnection(q) PROVE FALSE
        <5>1. proc' = Ended(proc, {q})
          BY <4>1 DEF LinkFails, LostConnection, Cleanup
        <5>2. Ends({q})
          BY <5>1, EndsStep DEF ProcInv
        <5> QED BY <5>2, FreeIs DEF Ends, Receiving, Receives
      <4> QED BY <4>1
    <3> QED BY <1>1, <2>2, <3>1, DataFrame
  <2> QED BY <1>1, <2>1, <2>2 DEF ReceivedData
<1>2. CASE ReadCf(q) /\ On(q) = h /\ proc[q].msg = Cf(j)
  <2>1. Receiving(h, j, q)
    BY <1>2 DEF InTurn, Receiving, At, Receives
  <2> QED BY <1>1, <2>1
<1> QED BY <1>1, <1>2, ReceivingFrame

\* A job comes into a queue by lpr and from another host.
LEMMA QueueGrows ==
  ASSUME TypeInv, ProcInv, Next, NEW h \in Host, NEW j \in Job, j \in Queue(h)', j \notin Queue(h)
  PROVE  \/ Lpr(j) /\ home[j] = h
         \/ \E q \in Proc : LinkCf(q) /\ On(q) = h /\ proc[q].job = j
<1>0. Cf(j) \notin spool[h] /\ (Cf(j) \in spool'[h]) /\ spool \in [Host -> SUBSET File]
  BY DEF Queue, TypeInv, FileType
<1>1. ASSUME NEW i \in Job, Lpr(i) PROVE i = j /\ home[j] = h
  BY <1>0, <1>1, FilesDiffer DEF Lpr
<1>2. ASSUME NEW p \in Proc, UnlinkDf(p) \/ UnlinkCf(p) PROVE FALSE
  BY <1>0, <1>2 DEF UnlinkDf, UnlinkCf
<1>3. ASSUME NEW q \in Proc, ReadDf(q) \/ ReadCf(q) PROVE FALSE
  <2>1. \E i \in Job : \/ spool' = [spool EXCEPT ![On(q)] = @ \cup {Df(i)}]
                       \/ spool' = [spool EXCEPT ![On(q)] = @ \cup {Tf(i)}]
    BY <1>3, ReadDfStep, ReadCfStep DEF ProcInv
  <2> QED BY <1>0, <2>1, FilesDiffer
<1>4. ASSUME NEW q \in Proc, LinkCf(q) PROVE On(q) = h /\ proc[q].job = j
  BY <1>0, <1>4, FilesDiffer DEF LinkCf
<1>5. ASSUME NEW q \in Proc, LinkFails(q) \/ LostConnection(q) PROVE FALSE
  <2>1. PICK i, partial : Cleanup(q, i, partial)
    BY <1>5, LostIs
  <2> QED BY <1>0, <2>1 DEF Cleanup
<1>6. ~ RmProcess
  BY <1>0 DEF RmProcess
<1> QED BY <1>0, <1>1, <1>2, <1>3, <1>4, <1>5, <1>6, SpoolFrame

LEMMA DataKeptNext ==
  ASSUME ProcInv, TypeInv, ReceivedData, DataKept, Next
  PROVE  DataKept'
<1>0. Remembers /\ FileType /\ ProcType
  BY RememberNext DEF TypeInv
<1> SUFFICES ASSUME NEW h \in Host, NEW j \in Job, j \in Queue(h)'
             PROVE  \/ Df(j) \in spool'[h]
                    \/ Spoiled(j)'
                    \/ \E p \in Proc : On(p)' = h /\ At(p, "unlinkCf")' /\ proc'[p].job = j
  BY DEF DataKept, Spoiled, Queue
<1>1. CASE j \in Queue(h)
  <2>1. CASE Spoiled(j)
    BY <1>0, <2>1, KindsAre DEF Remembers, Spoiled
  <2>2. CASE Df(j) \in spool[h]
    <3>1. ASSUME NEW p \in Proc, UnlinkDf(p), On(p) = h, proc[p].job = j
          PROVE  On(p)' = h /\ At(p, "unlinkCf")' /\ proc'[p].job = j
      <4>1. Step(p, "unlinkCf", j)
        BY <1>0, <3>1, GoIs DEF UnlinkDf, Phase, Locked
      <4> QED BY <3>1, <4>1 DEF Step, At
    <3>2. Cf(j) \in spool[h]
      BY <1>1 DEF Queue
    <3> QED BY <2>2, <3>1, <3>2, DataFrame
  <2>3. ASSUME NEW p \in Proc, On(p) = h, At(p, "unlinkCf"), proc[p].job = j
        PROVE  Spoiled(j)' \/ (On(p)' = h /\ At(p, "unlinkCf")' /\ proc'[p].job = j)
    <3>1. CASE Calm(p) \/ Mailed(p)
      BY <2>3, <3>1 DEF Calm, Mailed, At
    <3>2. CASE Killed(p)
      BY <2>3, <3>2 DEF Killed, Spoiled
    <3>3. ~ Daemon(p)
      <4>1. ASSUME UnlinkCf(p) PROVE FALSE
        <5>1. Cf(j) \notin spool'[h]
          BY <1>0, <2>3, <4>1 DEF UnlinkCf, FileType
        <5> QED BY <5>1 DEF Queue
      <4> QED BY <2>3, <4>1, DaemonGoesOn
    <3>4. ~ Receiver(p) /\ ~ Born(p)
      BY <2>3, ReceiverAt DEF Born, At
    <3> QED BY <3>1, <3>2, <3>3, <3>4, Frame
  <2> QED BY <1>1, <2>1, <2>2, <2>3 DEF DataKept, Spoiled
<1>2. CASE Lpr(j) /\ home[j] = h
  BY <1>0, <1>2 DEF Lpr, FileType
<1>3. ASSUME NEW q \in Proc, LinkCf(q), On(q) = h, proc[q].job = j
      PROVE  (Df(j) \in spool'[h]) \/ Spoiled(j)'
  <2>1. Receiving(h, j, q)
    BY <1>3 DEF LinkCf, Receiving, At, Receives
  <2>2. Spoiled(j) => Spoiled(j)'
    BY <1>0, KindsAre DEF Remembers, Spoiled
  <2>3. Df(j) \in spool[h] => (Df(j) \in spool'[h])
    <3> DEFINE a == (spool[h] \ {Tf(j)}) \cup {Cf(j)}
    <3>1. spool' = [spool EXCEPT ![h] = a] /\ (Df(j) \in spool[h] => Df(j) \in a)
      BY <1>3, FilesDiffer DEF LinkCf
    <3> HIDE DEF a
    <3> QED BY <1>0, <3>1 DEF FileType
  <2> QED BY <2>1, <2>2, <2>3 DEF ReceivedData
<1> QED BY <1>1, <1>2, <1>3, QueueGrows

DataInv == InTurn /\ ReceivedData /\ DataKept

LEMMA DataStep ==
  ASSUME TypeInv, ProcInv, DataInv, [Next]_vars
  PROVE  DataInv'
<1>1. CASE Next
  BY <1>1, InTurnNext, ReceivedDataNext, DataKeptNext DEF DataInv
<1>2. CASE UNCHANGED vars
  <2> USE <1>2 DEF DataInv, vars
  <2>1. InTurn'
    BY DEF InTurn, At
  <2>2. ReceivedData'
    BY DEF ReceivedData, Receiving, Spoiled, On
  <2>3. DataKept'
    BY DEF DataKept, Queue, At, On
  <2> QED BY <2>1, <2>2, <2>3
<1> QED BY <1>1, <1>2

LEMMA DataInit == Init => DataInv
<1> SUFFICES ASSUME Init PROVE DataInv
  OBVIOUS
<1>1. \A p \in Proc : proc[p].msg = NIL /\ proc[p].conn = NIL /\ proc[p].pc = "free"
  BY FreeIs DEF Init
<1>2. InTurn
  BY <1>1, NoFile DEF InTurn
<1>3. ReceivedData
  BY <1>1 DEF ReceivedData, Receiving, Receives
<1>4. DataKept
  BY DEF Init, DataKept, Queue
<1> QED BY <1>2, <1>3, <1>4 DEF DataInv

(* A job in a queue has its data, except while the daemon that printed or sent *)
(* it removes it, and except for the cases that the history names: rcleanup    *)
(* removed data that was in use, or the job was removed or printed while it   *)
(* was received again (recvjob.c, rcleanup; printjob.c).                      *)
THEOREM DataKeptAlways == Spec => []DataKept
<1>1. Init => DataInv
  BY DataInit
<1>2. TypeInv /\ ProcInv /\ DataInv /\ [Next]_vars => DataInv'
  BY DataStep
<1>3. DataInv => DataKept
  BY DEF DataInv
<1> QED BY <1>1, <1>2, <1>3, TypesAlways, PTL DEF Spec

-----------------------------------------------------------------------------
(* Jobs are printed once.                                                   *)

\* q has the right to queue j: its control file is on the way, or not linked yet.
Token(q, j) == proc[q].msg = Cf(j) \/ (At(q, "link") /\ proc[q].job = j)

\* The remote host has j, or j was printed.
Gone(j) == \/ printed[j] > 0
           \/ \E q \in Proc : Token(q, j)
           \/ \E h \in Host : j \in Queue(h) /\ h # home[j]

Handling(h, j, pcs) == \E p \in Proc : On(p) = h /\ proc[p].pc \in pcs /\ proc[p].job = j

\* Jobs are where their user queued them, or on the host it sends to.
Places ==
  /\ \A j \in Job, h \in Host : j \in Queue(h) => user[j] # "new" /\ h \in {home[j], Remote[home[j]]}
  /\ \A p \in Proc : proc[p].pc \in {"waitDf", "waitCf"} =>
       user[proc[p].job] # "new" /\ Sends(p) /\ On(p) = home[proc[p].job]
  /\ \A q \in Proc, j \in Job : Token(q, j) => user[j] # "new" /\ On(q) = Remote[home[j]]
  /\ \A j \in Job : printed[j] > 0 => user[j] # "new"

Removing == {"unlinkDf", "unlinkCf"}

\* There is one copy of j that can be printed, until a daemon removes it.
Once(j) ==
  /\ \A q, r \in Proc : Token(q, j) /\ Token(r, j) => q = r
  /\ \A q \in Proc : Token(q, j) =>
       printed[j] = 0 /\ \A h \in Host : Remote[h] = NIL => j \notin Queue(h)
  /\ printed[j] <= 1
  /\ printed[j] > 0 => \A h \in Host : Remote[h] = NIL /\ j \in Queue(h) => Handling(h, j, Removing)
  /\ Gone(j) => \A h \in Host :
       Remote[h] # NIL /\ j \in Queue(h) => Handling(h, j, Removing \cup {"waitCf"})
  /\ \A p \in Proc : At(p, "waitDf") /\ proc[p].job = j => ~ Gone(j)

OnceInv == \A j \in Job \ excused["again"] : Once(j)

LEMMA OneHolder ==
  ASSUME ProcInv, NEW p \in Proc, NEW q \in Proc, proc[p].pc \in Locked, proc[q].pc \in Locked,
         On(p) = On(q)
  PROVE  p = q
  BY DEF ProcInv, LockInv

\* The host where j is printed, if there is one but its home.
LEMMA PlacesAre ==
  ASSUME TypeInv, Places, NEW j \in Job, NEW h \in Host, j \in Queue(h)
  PROVE  /\ home[j] \in Host
         /\ Remote[h] # NIL => h = home[j]
         /\ Remote[h] = NIL => h = IF Remote[home[j]] = NIL THEN home[j] ELSE Remote[home[j]]
  BY DEF TypeInv, UserType, Places

LEMMA PrintFrame ==
  ASSUME TypeInv, Next, NEW j \in Job
  PROVE  \/ printed'[j] = printed[j]
         \/ /\ printed'[j] = printed[j] + 1
            /\ \E p \in Proc : PrintIt(p) /\ proc[p].job = j
<1>0. printed \in [Job -> 0 .. MaxPrints]
  BY DEF TypeInv, HistoryType
<1>1. ASSUME NEW p \in Proc, Daemon(p) PROVE UNCHANGED printed \/ PrintIt(p)
  BY <1>1 DEF Daemon, Refused, Lock, Scan, Rescan, OpenPrinter, OpenRemote, Pick, Vanished, NoData,
         Reprint, UnlinkDf, UnlinkCf, Check, Exit, Restart, SendDf, SendCf, JobSent, SendFails
<1>2. ASSUME NEW p \in Proc, Receiver(p) \/ Lose(p) PROVE UNCHANGED printed
  BY <1>2 DEF Receiver, ReadDf, ReadCf, LinkCf, LinkFails, EndOfJobs, LostConnection, Lose
<1>3. ASSUME NEW h \in Host, Stop(h) \/ TopQ(h) \/ AbortPr(h) \/ StartPr(h) \/ Boot(h) \/ Crash(h)
      PROVE  UNCHANGED printed
  BY <1>3 DEF Stop, TopQ, AbortPr, StartPr, Boot, Crash
<1>4. ASSUME NEW i \in Job, Lpr(i) \/ StartDaemon(i) \/ Lprm(i) PROVE UNCHANGED printed
  BY <1>4 DEF Lpr, StartDaemon, Lprm
<1>5. ASSUME RmLook \/ RmKill \/ RmProcess \/ RmRestart PROVE UNCHANGED printed
  BY <1>5 DEF RmLook, RmKill, RmProcess, RmRestart
<1>6. ASSUME NEW p \in Proc, PrintIt(p)
      PROVE  IF proc[p].job = j THEN printed'[j] = printed[j] + 1 ELSE printed'[j] = printed[j]
  BY <1>0, <1>6 DEF PrintIt
<1> QED BY <1>1, <1>2, <1>3, <1>4, <1>5, <1>6 DEF Next

LEMMA TokenFrame ==
  ASSUME ProcInv, TypeInv, InTurn, Next, NEW q \in Proc, NEW j \in Job, Token(q, j)'
  PROVE  /\ On(q)' = On(q)
         /\ \/ Token(q, j) /\ (At(q, "link") => ~ LinkCf(q))
            \/ \E p \in Proc : SendCf(p) /\ At(p, "waitDf") /\ proc[p].conn = q /\ proc[p].job = j
<1>0. ProcType /\ FileType /\ InTurn'
  BY InTurnNext DEF TypeInv
<1>1. proc'[q].pc \in Receives
  BY <1>0 DEF Token, InTurn, At, Receives
<1>2. CASE Calm(q)
  <2>1. ~ LinkCf(q)
    BY <1>0, <1>2, LinkCfStep DEF Calm, LinkCf, At
  <2> QED BY <1>2, <2>1 DEF Calm, Received, Token, At
<1>3. CASE Mailed(q)
  <2>1. PICK p \in Proc : /\ proc[p].conn = q
                          /\ \/ SendDf(p) /\ proc'[q].msg = Df(proc[p].job)
                             \/ SendCf(p) /\ At(p, "waitDf") /\ proc'[q].msg = Cf(proc[p].job)
                          /\ On(q)' = On(q) /\ proc'[q].pc = proc[q].pc /\ proc'[q].job = proc[q].job
    BY <1>3 DEF Mailed
  <2>2. CASE proc'[q].msg = Cf(j)
    BY <2>1, <2>2, FilesDiffer
  <2>3. CASE At(q, "link")' /\ proc'[q].job = j
    <3>1. At(q, "link") /\ proc[q].job = j
      BY <2>1, <2>3 DEF At
    <3>2. ~ LinkCf(q)
      BY <1>0, <2>3, LinkCfStep DEF At
    <3> QED BY <2>1, <3>1, <3>2 DEF Token
  <2> QED BY <2>2, <2>3 DEF Token
<1>4. ~ Killed(q) /\ ~ Daemon(q)
  BY <1>0, <1>1, DaemonGoesTo DEF Killed, Receives, Locked
<1>5. ~ Born(q)
  <2>1. ASSUME Born(q) PROVE FALSE
    <3>1. proc'[q].msg = NIL /\ proc'[q].job = NIL
      BY <2>1 DEF Born, Empty
    <3> QED BY <3>1, NoFile DEF Token
  <2> QED BY <2>1
<1>6. CASE ReadDf(q)
  <2>1. On(q)' = On(q) /\ proc'[q].msg = NIL /\ proc'[q].pc = "read"
    BY <1>0, <1>6, ReadDfStep DEF ReadDf, At
  <2> QED BY <2>1, NoFile DEF Token, At
<1>7. CASE ReadCf(q)
  <2>1. PICK i \in Job : /\ proc[q].msg = Cf(i) /\ On(q)' = On(q) /\ proc'[q].msg = NIL /\ proc'[q].job = i
                         /\ At(q, "read")
    BY <1>0, <1>7, ReadCfStep DEF ReadCf
  <2> QED BY <2>1, NoFile DEF Token, At
<1>8. CASE LinkCf(q)
  <2>1. At(q, "link") /\ proc'[q].msg = proc[q].msg /\ proc'[q].pc = "read"
    BY <1>0, <1>8, LinkCfStep DEF LinkCf
  <2>2. proc[q].msg # Cf(j)
    BY <2>1 DEF InTurn, At
  <2> QED BY <2>1, <2>2 DEF Token, At
<1>9. Receiver(q) => ReadDf(q) \/ ReadCf(q) \/ LinkCf(q)
  BY <1>1, ReceiverEnds DEF Receives
<1> QED BY <1>2, <1>3, <1>4, <1>5, <1>6, <1>7, <1>8, <1>9, Frame

LEMMA Waiting ==
  ASSUME TypeInv, Places, NEW p \in Proc, proc[p].pc \in {"waitDf", "waitCf"}
  PROVE  \E j \in Job : /\ j = proc[p].job /\ user[j] # "new" /\ home[j] \in Host
                       /\ On(p) = home[j] /\ Sends(p) /\ Remote[home[j]] # NIL
  BY DEF TypeInv, ProcType, Working, UserType, Places, Sends

LEMMA ReadyIs ==
  ASSUME TypeInv, NEW p \in Proc, PrintIt(p) \/ SendDf(p)
  PROVE  /\ On(p) \in Host /\ proc[p].job \in Job /\ At(p, "work")
         /\ proc[p].job \in Queue(On(p))
         /\ PrintIt(p) <=> Remote[On(p)] = NIL
<1>1. /\ At(p, "work") /\ Cf(proc[p].job) \in spool[On(p)]
      /\ PrintIt(p) <=> Remote[On(p)] = NIL
  BY DEF PrintIt, SendDf, Ready, Sends
<1>2. On(p) \in Host /\ proc[p].job \in Job
  BY <1>1, AtHost DEF TypeInv, ProcType, Working, At
<1> QED BY <1>1, <1>2 DEF Queue

LEMMA PlacesNext ==
  ASSUME ProcInv, TypeInv, InTurn, Places, Next
  PROVE  Places'
<1>0. ProcType /\ FileType /\ home' = home
  BY UserFrame DEF TypeInv
<1>1. ASSUME NEW j \in Job, user[j] # "new" PROVE user'[j] # "new"
  BY <1>1, NewFrame
<1>2. ASSUME NEW j \in Job, NEW h \in Host, j \in Queue(h)'
      PROVE  user'[j] # "new" /\ h \in {home[j], Remote[home[j]]}
  <2>1. CASE j \in Queue(h)
    BY <1>1, <2>1 DEF Places
  <2>2. CASE Lpr(j) /\ home[j] = h
    BY <2>2, NewFrame
  <2>3. ASSUME NEW q \in Proc, LinkCf(q), On(q) = h, proc[q].job = j
        PROVE  user'[j] # "new" /\ h \in {home[j], Remote[home[j]]}
    <3>1. Token(q, j)
      BY <2>3 DEF LinkCf, Token
    <3> QED BY <1>1, <2>3, <3>1 DEF Places
  <2> QED BY <1>2, <2>1, <2>2, <2>3, QueueGrows
<1>3. ASSUME NEW p \in Proc, proc'[p].pc \in {"waitDf", "waitCf"}
      PROVE  user'[proc'[p].job] # "new" /\ Sends(p)' /\ On(p)' = home[proc'[p].job]
  <2>1. CASE Calm(p) \/ Mailed(p) \/ SendCf(p)
    <3>1. /\ proc[p].pc \in {"waitDf", "waitCf"} /\ proc'[p].job = proc[p].job /\ On(p)' = On(p)
          /\ Sends(p)' = Sends(p)
      BY <1>3, <2>1, SendSteps DEF Calm, Mailed, SendsTo, At, Sends, On
    <3> QED BY <1>1, <3>1, Waiting
  <2>2. CASE SendDf(p)
    <3>1. /\ proc'[p].job = proc[p].job /\ On(p)' = On(p) /\ Sends(p) /\ Sends(p)' = Sends(p)
      BY <2>2, SendSteps DEF SendsTo, Sends, On
    <3>2. On(p) \in Host /\ proc[p].job \in Job /\ proc[p].job \in Queue(On(p))
      BY <2>2, ReadyIs
    <3>3. On(p) = home[proc[p].job] /\ user[proc[p].job] # "new"
      BY <3>1, <3>2, PlacesAre DEF Sends, Places
    <3> QED BY <1>1, <3>1, <3>2, <3>3
  <2>3. Daemon(p) => SendDf(p) \/ SendCf(p)
    BY <1>0, <1>3, DaemonGoesTo
  <2>4. ~ Killed(p) /\ ~ Born(p) /\ ~ Receiver(p)
    BY <1>3, ReceiverGoesTo DEF Killed, Born
  <2> QED BY <2>1, <2>2, <2>3, <2>4, Frame
<1>4. ASSUME NEW q \in Proc, NEW j \in Job, Token(q, j)'
      PROVE  user'[j] # "new" /\ On(q)' = Remote[home[j]]
  <2>1. CASE Token(q, j)
    BY <1>1, <1>4, <2>1, TokenFrame DEF Places
  <2>2. ASSUME NEW p \in Proc, SendCf(p), At(p, "waitDf"), proc[p].conn = q, proc[p].job = j
        PROVE  user'[j] # "new" /\ On(q) = Remote[home[j]]
    <3>1. user[j] # "new" /\ On(p) = home[j]
      BY <2>2, Waiting DEF At
    <3>2. On(q) = Remote[On(p)]
      BY <2>2, Partner DEF At, Locked, ProcInv, ProcType, Process
    <3> QED BY <1>1, <3>1, <3>2
  <2> QED BY <1>4, <2>1, <2>2, TokenFrame
<1>5. ASSUME NEW j \in Job, printed'[j] > 0 PROVE user'[j] # "new"
  <2>1. CASE printed[j] > 0
    BY <1>1, <2>1 DEF Places
  <2>2. ASSUME NEW p \in Proc, PrintIt(p), proc[p].job = j PROVE user[j] # "new"
    BY <2>2, ReadyIs DEF Places
  <2> QED BY <1>1, <1>5, <2>1, <2>2, PrintFrame
<1> QED BY <1>0, <1>2, <1>3, <1>4, <1>5 DEF Places

\* The daemon that is handing over or removing a job goes on with it, as long as
\* the job is there.
LEMMA HandlingStays ==
  ASSUME ProcInv, TypeInv, Next, NEW h \in Host, NEW j \in Job, NEW pcs \in {Removing, Removing \cup {"waitCf"}},
         Handling(h, j, pcs), j \in Queue(h)', j \notin excused'["again"]
  PROVE  Handling(h, j, pcs)'
<1>0. ProcType /\ FileType /\ HistoryType /\ Excuses(excused) /\ j # NIL
  BY DEF TypeInv, HistoryType, Excuses
<1>1. PICK p \in Proc : On(p) = h /\ proc[p].pc \in pcs /\ proc[p].job = j
  BY DEF Handling
<1>2. proc[p].pc \in Removing \cup {"waitCf"} /\ (At(p, "waitCf") => "waitCf" \in pcs) /\ Removing \subseteq pcs
  BY <1>1 DEF At
<1>3. CASE Calm(p) \/ Mailed(p)
  BY <1>1, <1>3 DEF Calm, Mailed, Handling
<1>4. ~ Killed(p)
  BY <1>0, <1>1, <1>2 DEF Killed, Removing
<1>5. ~ Receiver(p) /\ ~ Born(p)
  BY <1>2, ReceiverAt DEF Born, At, Removing
<1>6. ASSUME NEW pc \in Removing, Step(p, pc, j) PROVE Handling(h, j, pcs)'
  BY <1>1, <1>2, <1>6 DEF Step, Handling
<1>7. CASE UnlinkDf(p) \/ JobSent(p)
  BY <1>0, <1>1, <1>6, <1>7, GoIs DEF UnlinkDf, JobSent, Phase, Locked, Removing
<1>8. ~ UnlinkCf(p)
  <2>1. ASSUME UnlinkCf(p) PROVE Cf(j) \notin spool'[h]
    BY <1>0, <1>1, <2>1 DEF UnlinkCf, FileType
  <2> QED BY <2>1 DEF Queue
<1>9. ~ (At(p, "waitCf") /\ SendFails(p))
  <2>1. ASSUME At(p, "waitCf"), SendFails(p) PROVE FALSE
    <3>1. excused' = Excuse(excused, "again", {j})
      BY <1>1, <2>1 DEF SendFails
    <3> QED BY <1>0, <3>1, ExcuseIs, KindsAre
  <2> QED BY <2>1
<1>10. Daemon(p) => UnlinkDf(p) \/ UnlinkCf(p) \/ JobSent(p) \/ (At(p, "waitCf") /\ SendFails(p))
  BY <1>2, DaemonGoesOn DEF At, Removing
<1> QED BY <1>3, <1>4, <1>5, <1>7, <1>8, <1>9, <1>10, Frame

LEMMA GoneFrame ==
  ASSUME ProcInv, TypeInv, InTurn, Places, Next, NEW j \in Job, Gone(j)'
  PROVE  \/ Gone(j)
         \/ \E p \in Proc : SendCf(p) /\ At(p, "waitDf") /\ proc[p].job = j
         \/ Remote[home[j]] = NIL /\ \E p \in Proc : PrintIt(p) /\ proc[p].job = j
<1>0. home' = home
  BY UserFrame
<1>1. CASE printed'[j] > 0
  <2>1. ASSUME NEW p \in Proc, PrintIt(p), proc[p].job = j
        PROVE  Gone(j) \/ Remote[home[j]] = NIL
    <3>1. On(p) \in Host /\ j \in Queue(On(p)) /\ Remote[On(p)] = NIL
      BY <2>1, ReadyIs
    <3> QED BY <3>1 DEF Gone
  <2> QED BY <1>1, <2>1, PrintFrame DEF Gone
<1>2. ASSUME NEW q \in Proc, Token(q, j)'
      PROVE  Gone(j) \/ \E p \in Proc : SendCf(p) /\ At(p, "waitDf") /\ proc[p].job = j
  BY <1>2, TokenFrame DEF Gone
<1>3. ASSUME NEW h \in Host, j \in Queue(h)', h # home[j] PROVE Gone(j)
  <2>1. ASSUME NEW q \in Proc, LinkCf(q), proc[q].job = j PROVE Gone(j)
    BY <2>1 DEF LinkCf, Token, Gone
  <2> QED BY <1>3, <2>1, QueueGrows DEF Gone
<1> QED BY <1>0, <1>1, <1>2, <1>3 DEF Gone

LEMMA OnceNext ==
  ASSUME ProcInv, TypeInv, InTurn, Places, OnceInv, Next
  PROVE  OnceInv'
<1>0. ProcType /\ FileType /\ Remembers /\ home' = home /\ ProcInv'
  BY UserFrame, RememberNext, NextTypes DEF TypeInv
<1> SUFFICES ASSUME NEW j \in Job, j \notin excused'["again"]
             PROVE  Once(j)'
  BY DEF OnceInv
<1> DEFINE sent(p) == SendCf(p) /\ At(p, "waitDf") /\ proc[p].job = j
           printing(p) == PrintIt(p) /\ proc[p].job = j
<1>1. Once(j) /\ printed[j] \in Nat
  BY <1>0, KindsAre DEF OnceInv, Remembers, TypeInv, HistoryType
<1>2. \A p \in Proc : sent(p) => /\ user[j] # "new" /\ On(p) = home[j] /\ Remote[home[j]] # NIL
                                /\ ~ Gone(j) /\ proc[p].pc \in Locked
                                /\ UNCHANGED <<spool, printed>> /\ proc'[p].pc = "waitCf"
                                /\ proc'[p].job = j /\ On(p)' = On(p)
  <2> SUFFICES ASSUME NEW p \in Proc, sent(p)
               PROVE  /\ user[j] # "new" /\ On(p) = home[j] /\ Remote[home[j]] # NIL
                      /\ ~ Gone(j) /\ proc[p].pc \in Locked
                      /\ UNCHANGED <<spool, printed>> /\ proc'[p].pc = "waitCf"
                      /\ proc'[p].job = j /\ On(p)' = On(p)
    OBVIOUS
  <2>1. user[j] # "new" /\ On(p) = home[j] /\ Remote[home[j]] # NIL
    BY Waiting DEF At
  <2>2. ~ Gone(j)
    BY <1>1 DEF Once
  <2>3. UNCHANGED <<spool, printed>> /\ proc[p].pc \in Locked
    BY DEF SendCf, At, Locked
  <2>4. proc'[p].pc = "waitCf" /\ proc'[p].job = j /\ On(p)' = On(p)
    BY SendSteps DEF SendsTo
  <2> QED BY <2>1, <2>2, <2>3, <2>4
<1>3. \A p \in Proc : printing(p) =>
        /\ On(p) \in Host /\ j \in Queue(On(p)) /\ Remote[On(p)] = NIL /\ proc[p].pc = "work"
        /\ UNCHANGED spool /\ Step(p, "unlinkDf", j)
  <2> SUFFICES ASSUME NEW p \in Proc, printing(p)
               PROVE  /\ On(p) \in Host /\ j \in Queue(On(p)) /\ Remote[On(p)] = NIL /\ proc[p].pc = "work"
                      /\ UNCHANGED spool /\ Step(p, "unlinkDf", j)
    OBVIOUS
  <2>1. On(p) \in Host /\ j \in Queue(On(p)) /\ Remote[On(p)] = NIL /\ proc[p].pc = "work"
    BY ReadyIs DEF At
  <2>2. UNCHANGED spool /\ Go(p, "unlinkDf")
    BY DEF PrintIt
  <2>3. Step(p, "unlinkDf", j)
    BY <1>0, <2>2, GoIs DEF Phase, Locked
  <2> QED BY <2>1, <2>2, <2>3
<1>4. \A p, q \in Proc : sent(p) /\ sent(q) => p = q
  BY <1>2, OneHolder
<1> HIDE DEF sent, printing
<1>5. \A q \in Proc : Token(q, j)' => Token(q, j) \/ \E p \in Proc : sent(p) /\ proc[p].conn = q
  BY TokenFrame DEF sent
<1>6. \A q \in Proc : Token(q, j) => /\ user[j] # "new" /\ Gone(j) /\ printed[j] = 0
                                    /\ \A h \in Host : Remote[h] = NIL => j \notin Queue(h)
  BY <1>1 DEF Places, Gone, Once
<1>7. \/ printed'[j] = printed[j]
      \/ printed'[j] = printed[j] + 1 /\ \E p \in Proc : printing(p)
  BY PrintFrame DEF printing
<1>8. \A q, r \in Proc : Token(q, j)' /\ Token(r, j)' => q = r
  <2> SUFFICES ASSUME NEW q \in Proc, NEW r \in Proc, Token(q, j)', Token(r, j)'
               PROVE  q = r
    OBVIOUS
  <2>1. CASE Token(q, j) /\ Token(r, j)
    BY <1>1, <2>1 DEF Once
  <2>2. CASE ~ Token(q, j) \/ ~ Token(r, j)
    <3>1. ~ Gone(j)
      BY <1>2, <1>5, <2>2
    <3>2. ~ Token(q, j) /\ ~ Token(r, j)
      BY <1>6, <3>1
    <3> QED BY <1>4, <1>5, <3>2
  <2> QED BY <2>1, <2>2
<1>9. \A q \in Proc : Token(q, j)' =>
        printed'[j] = 0 /\ \A h \in Host : Remote[h] = NIL => j \notin Queue(h)'
  <2> SUFFICES ASSUME NEW q \in Proc, Token(q, j)'
               PROVE  printed'[j] = 0 /\ \A h \in Host : Remote[h] = NIL => j \notin Queue(h)'
    OBVIOUS
  <2>1. CASE Token(q, j)
    <3>1. printed'[j] = 0
      BY <1>3, <1>6, <1>7, <2>1
    <3>2. ASSUME NEW h \in Host, Remote[h] = NIL, j \in Queue(h)' PROVE FALSE
      <4>1. ~ Lpr(j)
        BY <1>6, <2>1 DEF Lpr
      <4>2. ASSUME NEW r \in Proc, LinkCf(r), proc[r].job = j PROVE FALSE
        <5>1. At(r, "link") /\ Token(r, j)
          BY <4>2 DEF LinkCf, Token
        <5>2. r = q
          BY <1>1, <2>1, <5>1 DEF Once
        <5> QED BY <4>2, <5>1, <5>2, TokenFrame, <1>2, <1>6 DEF sent
      <4> QED BY <1>6, <2>1, <3>2, <4>1, <4>2, QueueGrows
    <3> QED BY <3>1, <3>2
  <2>2. ASSUME NEW p \in Proc, sent(p)
        PROVE  printed'[j] = 0 /\ \A h \in Host : Remote[h] = NIL => j \notin Queue(h)'
    <3>1. ~ Gone(j) /\ UNCHANGED <<spool, printed>> /\ Remote[home[j]] # NIL
      BY <1>2, <2>2
    <3>2. printed'[j] = 0
      BY <1>1, <3>1 DEF Gone
    <3>3. ASSUME NEW h \in Host, Remote[h] = NIL, j \in Queue(h)' PROVE FALSE
      <4>1. j \in Queue(h)
        BY <3>1, <3>3 DEF Queue
      <4> QED BY <3>1, <3>3, <4>1 DEF Gone
    <3> QED BY <3>2, <3>3
  <2> QED BY <1>5, <2>1, <2>2
<1>10. ASSUME NEW p \in Proc, printing(p) PROVE printed[j] = 0
  <2>1. ASSUME printed[j] > 0 PROVE FALSE
    <3>1. Handling(On(p), j, Removing)
      BY <1>1, <1>3, <1>10, <2>1 DEF Once
    <3>2. PICK q \in Proc : On(q) = On(p) /\ proc[q].pc \in Removing
      BY <3>1 DEF Handling
    <3>3. q = p
      BY <1>3, <1>10, <3>2, OneHolder DEF Removing, Locked
    <3> QED BY <1>3, <1>10, <3>2, <3>3 DEF Removing
  <2> QED BY <1>1, <2>1
<1>11. printed'[j] <= 1
  BY <1>1, <1>7, <1>10 DEF Once
<1>12. ASSUME printed'[j] > 0, NEW h \in Host, Remote[h] = NIL, j \in Queue(h)'
       PROVE  Handling(h, j, Removing)'
  <2>1. CASE printed[j] > 0
    <3>1. ~ Lpr(j)
      BY <2>1 DEF Places, Lpr
    <3>2. ASSUME NEW q \in Proc, LinkCf(q), proc[q].job = j PROVE FALSE
      <4>1. Token(q, j)
        BY <3>2 DEF LinkCf, Token
      <4> QED BY <1>6, <2>1, <4>1
    <3>3. j \in Queue(h)
      BY <1>12, <3>1, <3>2, QueueGrows
    <3>4. Handling(h, j, Removing)
      BY <1>1, <1>12, <2>1, <3>3 DEF Once
    <3> QED BY <1>12, <3>4, HandlingStays
  <2>2. ASSUME NEW p \in Proc, printing(p) PROVE Handling(h, j, Removing)'
    <3>1. On(p) \in Host /\ j \in Queue(On(p)) /\ Remote[On(p)] = NIL /\ Step(p, "unlinkDf", j) /\ j \in Queue(h)
      BY <1>3, <1>12, <2>2 DEF Queue
    <3>2. On(p) = h
      BY <1>12, <3>1, PlacesAre
    <3> QED BY <3>1, <3>2 DEF Step, Handling, Removing
  <2> QED BY <1>1, <1>7, <1>12, <2>1, <2>2
<1>13. ASSUME Gone(j)', NEW h \in Host, Remote[h] # NIL, j \in Queue(h)'
       PROVE  Handling(h, j, Removing \cup {"waitCf"})'
  <2>1. Gone(j) \/ (\E p \in Proc : sent(p)) \/ (Remote[home[j]] = NIL /\ \E p \in Proc : printing(p))
    BY <1>13, GoneFrame DEF sent, printing
  <2>2. ~ Lpr(j)
    <3>1. Gone(j) => user[j] # "new"
      BY DEF Gone, Places
    <3>2. \A p \in Proc : printing(p) => user[j] # "new"
      BY <1>3 DEF Places
    <3> QED BY <1>2, <2>1, <3>1, <3>2 DEF Lpr
  <2>3. ASSUME NEW q \in Proc, LinkCf(q), On(q) = h PROVE FALSE
    BY <1>13, <2>3 DEF LinkCf, ProcInv, Wired, At, Receives
  <2>4. j \in Queue(h)
    BY <1>13, <2>2, <2>3, QueueGrows
  <2>5. h = home[j]
    BY <1>13, <2>4, PlacesAre
  <2>6. CASE Gone(j)
    <3>1. Handling(h, j, Removing \cup {"waitCf"})
      BY <1>1, <1>13, <2>4, <2>6 DEF Once
    <3> QED BY <1>13, <3>1, HandlingStays
  <2>7. ASSUME NEW p \in Proc, sent(p) PROVE Handling(h, j, Removing \cup {"waitCf"})'
    BY <1>2, <2>5, <2>7 DEF Handling
  <2> QED BY <1>13, <2>1, <2>5, <2>6, <2>7
<1>14. ASSUME NEW p \in Proc, At(p, "waitDf")', proc'[p].job = j, Gone(j)' PROVE FALSE
  <2>1. Gone(j) \/ (\E q \in Proc : sent(q)) \/ (Remote[home[j]] = NIL /\ \E q \in Proc : printing(q))
    BY <1>14, GoneFrame DEF sent, printing
  <2>2. CASE Calm(p) \/ Mailed(p)
    <3>1. At(p, "waitDf") /\ proc[p].job = j /\ proc[p].pc \in Locked
      BY <1>14, <2>2 DEF Calm, Mailed, At, Locked
    <3>2. ~ Gone(j) /\ On(p) = home[j] /\ Remote[home[j]] # NIL
      BY <1>1, <3>1, Waiting DEF Once, At
    <3>3. ASSUME NEW q \in Proc, sent(q) PROVE FALSE
      <4>1. q = p
        BY <1>2, <3>1, <3>2, <3>3, OneHolder
      <4> QED BY <1>2, <1>14, <3>3, <4>1 DEF At
    <3> QED BY <2>1, <3>2, <3>3
  <2>3. CASE SendDf(p)
    <3>1. On(p) \in Host /\ proc[p].job = j /\ j \in Queue(On(p)) /\ Remote[On(p)] # NIL /\ At(p, "work")
      <4>1. proc'[p].job = proc[p].job
        BY <2>3, SendSteps DEF SendsTo
      <4>2. Remote[On(p)] # NIL
        BY <2>3 DEF SendDf, Sends
      <4> QED BY <1>14, <2>3, <4>1, <4>2, ReadyIs
    <3>2. On(p) = home[j] /\ proc[p].pc \in Locked
      BY <3>1, PlacesAre DEF At, Locked
    <3>3. ~ Gone(j)
      <4>1. ASSUME Gone(j) PROVE FALSE
        <5>1. Handling(On(p), j, Removing \cup {"waitCf"})
          BY <1>1, <3>1, <4>1 DEF Once
        <5>2. PICK q \in Proc : On(q) = On(p) /\ proc[q].pc \in Removing \cup {"waitCf"}
          BY <5>1 DEF Handling
        <5>3. q = p
          BY <3>2, <5>2, OneHolder DEF Removing, Locked
        <5> QED BY <3>1, <5>2, <5>3 DEF At, Removing
      <4> QED BY <4>1
    <3>4. ASSUME NEW q \in Proc, sent(q) PROVE FALSE
      <4>1. q = p
        BY <1>2, <3>2, <3>4, OneHolder
      <4> QED BY <1>2, <1>14, <3>4, <4>1 DEF At
    <3> QED BY <2>1, <3>1, <3>2, <3>3, <3>4
  <2>4. Daemon(p) => SendDf(p)
    BY <1>0, <1>14, DaemonGoesTo DEF At
  <2>5. ~ Killed(p) /\ ~ Born(p) /\ ~ Receiver(p)
    BY <1>14, ReceiverGoesTo DEF Killed, Born, At
  <2> QED BY <2>2, <2>3, <2>4, <2>5, Frame
<1>15. \A p \in Proc : At(p, "waitDf")' /\ proc'[p].job = j => ~ Gone(j)'
  BY <1>14
<1>16. Gone(j)' => \A h \in Host :
         Remote[h] # NIL /\ j \in Queue(h)' => Handling(h, j, Removing \cup {"waitCf"})'
  BY <1>13
<1>17. printed'[j] > 0 => \A h \in Host : Remote[h] = NIL /\ j \in Queue(h)' => Handling(h, j, Removing)'
  BY <1>12
<1> QED BY <1>8, <1>9, <1>11, <1>15, <1>16, <1>17 DEF Once

CopyInv == InTurn /\ Places /\ OnceInv

LEMMA CopyStep ==
  ASSUME TypeInv, ProcInv, CopyInv, [Next]_vars
  PROVE  CopyInv'
<1>1. CASE Next
  BY <1>1, InTurnNext, PlacesNext, OnceNext DEF CopyInv
<1>2. CASE UNCHANGED vars
  <2> USE <1>2 DEF CopyInv, vars
  <2>1. InTurn'
    BY DEF InTurn, At
  <2>2. Places'
    BY DEF Places, Queue, Token, At, On, Sends
  <2>3. OnceInv'
    <3>1. ASSUME NEW j \in Job, Once(j) PROVE Once(j)'
      BY <3>1 DEF Once, Gone, Handling, Token, Queue, At, On
    <3> QED BY <3>1 DEF OnceInv
  <2> QED BY <2>1, <2>2, <2>3
<1> QED BY <1>1, <1>2

LEMMA CopyInit == Init => CopyInv
<1> SUFFICES ASSUME Init PROVE CopyInv
  OBVIOUS
<1>1. \A p \in Proc : proc[p].msg = NIL /\ proc[p].conn = NIL /\ proc[p].pc = "free"
  BY FreeIs DEF Init
<1>2. \A j \in Job : /\ printed[j] = 0 /\ \A h \in Host : j \notin Queue(h)
                     /\ \A q \in Proc : ~ Token(q, j)
  BY <1>1, NoFile DEF Init, Queue, Token, At
<1>3. InTurn
  BY <1>1, NoFile DEF InTurn
<1>4. Places
  BY <1>1, <1>2 DEF Places
<1>5. OnceInv
  BY <1>1, <1>2 DEF OnceInv, Once, Gone
<1> QED BY <1>3, <1>4, <1>5 DEF CopyInv

(* No job is printed twice, whatever lpr, lprm and lpc do and whichever         *)
(* connections are lost, unless a daemon was killed before it had removed what   *)
(* it printed or sent, or the connection was lost before the answer to a        *)
(* control file came: there is one copy of a job that can be printed, and the   *)
(* daemon that holds the lock removes it (printjob.c, printit and sendit).      *)
THEOREM PrintedOnceAlways == Spec => []PrintedOnce
<1>1. Init => CopyInv
  BY CopyInit
<1>2. TypeInv /\ ProcInv /\ CopyInv /\ [Next]_vars => CopyInv'
  BY CopyStep
<1>3. TypeInv /\ CopyInv => PrintedOnce
  BY DEF TypeInv, HistoryType, CopyInv, OnceInv, Once, PrintedOnce
<1> QED BY <1>1, <1>2, <1>3, TypesAlways, PTL DEF Spec

-----------------------------------------------------------------------------
(* No queue is stranded.                                                     *)

\* p works on its queue, or will start a daemon on it.
Serves(p) == IF proc[p].pc \in Receives THEN proc[p].some ELSE ~ At(p, "exit")

HasServer(h) == \E p \in Proc : On(p) = h /\ Serves(p)
Expected(h) == \E j \in Queue(h) : user[j] = "queued" /\ home[j] = h
Wanted(h) == up[h] /\ "stop" \notin flags[h] /\ Queue(h) # {}

Served == \A h \in Host : Wanted(h) => HasServer(h) \/ Expected(h) \/ h \in excused.missed

LEMMA ForkedServes ==
  ASSUME ProcType, NEW h \in Host, Forked(h)
  PROVE  HasServer(h)'
<1>1. PICK q \in Proc : Starts(q, h)
  BY ForkedStep
<1>2. Fresh(h, "start").host = h /\ Fresh(h, "start").pc = "start"
  BY FreshIs DEF Phase
<1>3. On(q)' = h /\ proc'[q].pc = "start"
  BY <1>1, <1>2 DEF Starts, On
<1> QED BY <1>3 DEF HasServer, Serves, At, Receives

\* A daemon that goes to pc serves its queue.
LEMMA GoesServes ==
  ASSUME ProcInv, FileType, NEW p \in Proc, Daemon(p), proc'[p].pc \notin {"free", "exit"},
         NEW h, On(p) = h
  PROVE  HasServer(h)'
<1>1. On(p)' = h /\ proc'[p].pc \notin Receives
  BY DaemonGoesTo DEF Locked, Receives
<1> QED BY <1>1 DEF HasServer, Serves, At

\* Printing is enabled by lpc start, and by a daemon that writes back an old mode.
LEMMA FlagsFrame ==
  ASSUME ProcInv, TypeInv, Next, NEW h \in Host, "stop" \in flags[h], "stop" \notin flags'[h]
  PROVE  StartPr(h) \/ \E p \in Proc : Scan(p) /\ On(p) = h /\ proc'[p].pc = "open"
<1>0. ProcType /\ flags \in [Host -> SUBSET {"stop", "rebuild"}]
  BY DEF TypeInv, FileType
<1>1. ASSUME NEW p \in Proc, Daemon(p) PROVE Scan(p) /\ On(p) = h /\ proc'[p].pc = "open"
  <2>1. CASE Check(p)
    BY <1>0, <2>1 DEF Check
  <2>2. CASE Scan(p)
    <3> DEFINE r == [proc[p] EXCEPT !.pc = "open", !.list = Queue(On(p))]
    <3>1. proc' = [proc EXCEPT ![p] = r] /\ flags' = [flags EXCEPT ![On(p)] = proc[p].mode \ {"rebuild"}]
      BY <2>2 DEF Scan
    <3>2. r.pc = "open" /\ proc'[p] = r
      BY <1>0, <3>1 DEF ProcType, Process
    <3>3. On(p) = h
      BY <1>0, <3>1
    <3> QED BY <2>2, <3>2, <3>3
  <2> QED BY <1>1, <2>1, <2>2 DEF Daemon, Refused, Lock, Rescan, OpenPrinter, OpenRemote, Pick, Vanished,
         NoData, PrintIt, Reprint, UnlinkDf, UnlinkCf, Exit, Restart, SendDf, SendCf, JobSent, SendFails,
         fileVars
<1>2. ASSUME NEW p \in Proc, Receiver(p) \/ Lose(p) PROVE FALSE
  BY <1>2 DEF Receiver, ReadDf, ReadCf, LinkCf, LinkFails, EndOfJobs, LostConnection, Lose, fileVars
<1>3. ASSUME NEW g \in Host, Stop(g) \/ TopQ(g) \/ AbortPr(g) \/ Crash(g) \/ Boot(g) PROVE FALSE
  BY <1>0, <1>3 DEF Stop, TopQ, AbortPr, Crash, Boot, fileVars
<1>4. ASSUME NEW g \in Host, StartPr(g) PROVE StartPr(h)
  BY <1>0, <1>4 DEF StartPr
<1>5. ASSUME NEW j \in Job, Lpr(j) \/ StartDaemon(j) \/ Lprm(j) PROVE FALSE
  BY <1>5 DEF Lpr, StartDaemon, Lprm, fileVars
<1>6. ASSUME RmLook \/ RmKill \/ RmProcess \/ RmRestart PROVE FALSE
  BY <1>6 DEF RmLook, RmKill, RmProcess, RmRestart, fileVars
<1> QED BY <1>1, <1>2, <1>3, <1>4, <1>5, <1>6 DEF Next

LEMMA UpFrame ==
  ASSUME TypeInv, Next, NEW h \in Host, ~ up[h], up'[h]
  PROVE  Boot(h)
<1>0. up \in [Host -> BOOLEAN]
  BY DEF TypeInv, UserType
<1>1. ASSUME NEW p \in Proc, Daemon(p) PROVE up' = up
  BY <1>1 DEF Daemon, Refused, Lock, Scan, Rescan, OpenPrinter, OpenRemote, Pick, Vanished, NoData,
         PrintIt, Reprint, UnlinkDf, UnlinkCf, Check, Exit, Restart, SendDf, SendCf, JobSent, SendFails,
         outside
<1>2. ASSUME NEW p \in Proc, Receiver(p) \/ Lose(p) PROVE up' = up
  BY <1>2 DEF Receiver, ReadDf, ReadCf, LinkCf, LinkFails, EndOfJobs, LostConnection, Lose, outside
<1>3. ASSUME NEW g \in Host, Stop(g) \/ TopQ(g) \/ AbortPr(g) \/ StartPr(g) PROVE up' = up
  BY <1>3 DEF Stop, TopQ, AbortPr, StartPr, outside
<1>4. ASSUME NEW j \in Job, Lpr(j) \/ StartDaemon(j) \/ Lprm(j) PROVE up' = up
  BY <1>4 DEF Lpr, StartDaemon, Lprm, RmGo
<1>5. ASSUME RmLook \/ RmKill \/ RmProcess \/ RmRestart PROVE up' = up
  BY <1>5 DEF RmLook, RmKill, RmProcess, RmRestart, RmGo
<1>6. ASSUME NEW g \in Host, Crash(g) PROVE ~ up'[h]
  BY <1>0, <1>6 DEF Crash
<1>7. ASSUME NEW g \in Host, Boot(g) PROVE Boot(h)
  BY <1>0, <1>7 DEF Boot
<1> QED BY <1>1, <1>2, <1>3, <1>4, <1>5, <1>6, <1>7 DEF Next

\* A queue that is to be printed from now on gets a daemon: the host is booted,
\* printing is enabled, or the first job comes.
LEMMA NewlyWanted ==
  ASSUME ProcInv, TypeInv, Next, NEW h \in Host, Wanted(h)', ~ Wanted(h)
  PROVE  HasServer(h)' \/ Expected(h)'
<1>0. /\ ProcType /\ FileType /\ user \in [Job -> {"new", "queued", "done"}] /\ up \in [Host -> BOOLEAN]
      /\ Queue(h)' # {} /\ up'[h] /\ "stop" \notin flags'[h]
  BY DEF Wanted, TypeInv, UserType
<1>1. CASE ~ up[h]
  <2>1. Boot(h)
    BY <1>0, <1>1, UpFrame
  <2>2. Queue(h)' = Queue(h)
    BY <2>1 DEF Boot, Queue
  <2>3. Forked(h)
    BY <1>0, <2>1, <2>2 DEF Boot
  <2> QED BY <1>0, <2>3, ForkedServes
<1>2. CASE "stop" \in flags[h]
  <2>1. CASE StartPr(h)
    BY <1>0, <2>1, ForkedServes DEF StartPr
  <2>2. ASSUME NEW p \in Proc, Scan(p), On(p) = h, proc'[p].pc = "open" PROVE HasServer(h)'
    BY <1>0, <2>2, GoesServes DEF Daemon
  <2> QED BY <1>0, <1>2, <2>1, <2>2, FlagsFrame
<1>3. CASE Queue(h) = {}
  <2>1. PICK j \in Job : j \in Queue(h)' /\ j \notin Queue(h)
    BY <1>0, <1>3 DEF Queue
  <2>2. CASE Lpr(j) /\ home[j] = h
    <3>1. user'[j] = "queued" /\ home'[j] = h
      BY <1>0, <2>2 DEF Lpr
    <3> QED BY <2>1, <3>1 DEF Expected
  <2>3. ASSUME NEW q \in Proc, LinkCf(q), On(q) = h PROVE HasServer(h)'
    <3>1. On(q)' = h /\ proc'[q].some /\ proc'[q].pc = "read"
      BY <1>0, <2>3, LinkCfStep
    <3> QED BY <3>1 DEF HasServer, Serves, Receives
  <2> QED BY <2>1, <2>2, <2>3, QueueGrows
<1> QED BY <1>1, <1>2, <1>3 DEF Wanted

\* The lpr of a job that is waited for starts a daemon, and until then the job
\* stays, unless the host crashes.
LEMMA ExpectedStays ==
  ASSUME ProcInv, TypeInv, Next, NEW h \in Host, Expected(h), up'[h]
  PROVE  HasServer(h)' \/ Expected(h)'
<1>0. ProcType /\ FileType /\ UserType /\ user \in [Job -> {"new", "queued", "done"}]
  BY DEF TypeInv, UserType
<1>1. PICK j \in Queue(h) : user[j] = "queued" /\ home[j] = h
  BY DEF Expected
<1>2. j \in Job
  BY DEF Queue
<1>3. ASSUME NEW i \in Job, Lpr(i) PROVE user'[j] = "queued"
  BY <1>0, <1>1, <1>2, <1>3 DEF Lpr
<1>4. ASSUME NEW i \in Job, StartDaemon(i) PROVE user'[j] = "queued" \/ HasServer(h)'
  <2>1. CASE i = j
    BY <1>0, <1>1, <1>4, <2>1, ForkedServes DEF StartDaemon
  <2>2. CASE i # j
    BY <1>0, <1>1, <1>2, <1>4, <2>2 DEF StartDaemon
  <2> QED BY <2>1, <2>2
<1>5. ASSUME NEW g \in Host, Crash(g) PROVE user'[j] = "queued"
  <2>1. g # h
    BY <1>5 DEF Crash, TypeInv, UserType
  <2> QED BY <1>1, <1>2, <1>5, <2>1 DEF Crash
<1>6. home'[j] = h /\ (user'[j] = "queued" \/ HasServer(h)')
  BY <1>1, <1>3, <1>4, <1>5, UserFrame
<1>7. CASE j \in Queue(h)'
  BY <1>6, <1>7 DEF Expected
<1>8. ASSUME NEW p \in Proc, UnlinkCf(p), On(p) = h PROVE HasServer(h)'
  <2>1. proc'[p].pc = "check"
    BY <1>0, <1>8, GoIs DEF UnlinkCf, Phase, Locked, Step
  <2> QED BY <1>0, <1>8, <2>1, GoesServes DEF Daemon
<1>9. ~ (RmProcess /\ rm.job = j)
  BY <1>0, <1>1 DEF RmProcess, UserType, RmType
<1> QED BY <1>7, <1>8, <1>9, QueueFrame

\* A daemon that ends leaves its queue to another, or the queue is empty or not
\* to be printed, or the history says that it was missed.
LEMMA DaemonServes ==
  ASSUME ProcInv, TypeInv, Next, NEW h \in Host, NEW p \in Proc, On(p) = h, Serves(p), Daemon(p), Wanted(h)'
  PROVE  HasServer(h)' \/ h \in excused'.missed
<1>0. ProcType /\ FileType /\ HistoryType
  BY DEF TypeInv
<1>1. CASE proc'[p].pc \notin {"free", "exit"}
  BY <1>0, <1>1, GoesServes
<1>2. CASE proc'[p].pc = "exit"
  <2>1. ASSUME Scan(p) \/ Rescan(p), Queue(h) # {} PROVE FALSE
    <3> DEFINE a == [proc[p] EXCEPT !.pc = "open", !.list = Queue(h)]
               b == [proc[p] EXCEPT !.pc = "pick", !.list = Queue(h)]
    <3>1. proc' = [proc EXCEPT ![p] = a] \/ proc' = [proc EXCEPT ![p] = b]
      BY <2>1 DEF Scan, Rescan
    <3>2. a.pc = "open" /\ b.pc = "pick"
      BY <1>0 DEF ProcType, Process
    <3> HIDE DEF a, b
    <3> QED BY <1>0, <1>2, <3>1, <3>2 DEF ProcType
  <2>2. ASSUME Scan(p) \/ Rescan(p), Queue(h) = {} PROVE FALSE
    <3>1. Queue(h)' = {}
      BY <2>2 DEF Scan, Rescan, Queue
    <3> QED BY <3>1 DEF Wanted
  <2>3. ASSUME Check(p) PROVE FALSE
    <3>1. "stop" \in flags[h]
      BY <1>0, <1>2, <2>3, CheckStep DEF Step, Drops
    <3>2. flags' = flags
      BY <2>3, <3>1 DEF Check
    <3> QED BY <3>1, <3>2 DEF Wanted
  <2> QED BY <1>0, <1>2, <2>1, <2>2, <2>3, DaemonGoesTo
<1>3. CASE proc'[p].pc = "free"
  <2>1. ~ Exit(p)
    BY DEF Exit, Serves, At, Receives
  <2>2. Refused(p)
    BY <1>0, <1>3, <2>1, DaemonGoesTo
  <2>3. "stop" \notin flags[h] /\ lock[h] # NIL /\ At(p, "start") /\ Ends({p})
    <3>1. flags' = flags /\ proc' = Ended(proc, {p})
      BY <2>2 DEF Refused, fileVars
    <3>2. "stop" \notin flags[h]
      BY <3>1 DEF Wanted
    <3> QED BY <1>0, <2>2, <3>1, <3>2, EndsStep DEF Refused
  <2>4. PICK d \in Proc : d = lock[h]
    BY <1>0, <2>3 DEF FileType
  <2>5. On(d) = h /\ proc[d].pc \in Locked
    BY <2>3, <2>4 DEF ProcInv, LockInv
  <2>6. CASE At(d, "exit")
    <3>1. excused' = Missed(excused, {h})
      BY <2>2, <2>3, <2>4, <2>6 DEF Refused
    <3>2. Excuses(excused)
      BY <1>0 DEF HistoryType, Excuses
    <3>3. Missed(excused, {h}).missed = excused.missed \cup {h}
      BY <3>2, MissedIs
    <3> QED BY <3>1, <3>3
  <2>7. CASE ~ At(d, "exit")
    <3>1. d # p
      BY <2>3, <2>5 DEF At, Locked
    <3>2. On(d)' = h /\ proc'[d].pc = proc[d].pc
      BY <2>3, <2>5, <3>1 DEF Ends
    <3> QED BY <2>5, <2>7, <3>2 DEF HasServer, Serves, At, Locked, Receives
  <2> QED BY <2>6, <2>7
<1> QED BY <1>1, <1>2, <1>3

\* A receiver that has received jobs becomes a daemon at the end.
LEMMA ReceiverServes ==
  ASSUME ProcInv, TypeInv, NEW h \in Host, NEW q \in Proc, On(q) = h, Serves(q), Receiver(q)
  PROVE  HasServer(h)' \/ h \in excused'.missed
<1>0. ProcType /\ HistoryType /\ proc[q].some
  BY ReceiverAt DEF TypeInv, Serves, At, Receives
<1>1. CASE ReadDf(q) \/ ReadCf(q) \/ LinkCf(q)
  <2>1. On(q)' = h /\ proc'[q].some /\ proc'[q].pc \in {"read", "link"}
    BY <1>0, <1>1, ReadDfStep, ReadCfStep, LinkCfStep DEF ReadDf, At
  <2> QED BY <2>1 DEF HasServer, Serves, Receives
<1>2. CASE EndOfJobs(q)
  <2>1. proc'[q].pc = "start" /\ On(q)' = h
    <3> DEFINE r == Fresh(h, "start")
    <3>1. proc' = [proc EXCEPT ![q] = r]
      BY <1>0, <1>2 DEF EndOfJobs
    <3>2. r \in Process /\ r.host = h /\ r.pc = "start"
      BY FreshIs DEF Phase
    <3> HIDE DEF r
    <3> QED BY <1>0, <3>1, <3>2, SetOne DEF On
  <2> QED BY <2>1 DEF HasServer, Serves, At, Receives
<1>3. CASE LinkFails(q) \/ LostConnection(q)
  <2>1. PICK j \in Job \cup {NIL}, partial \in Job \cup {NIL} : ~ At(q, "free") /\ Cleanup(q, j, partial)
    BY <1>3, LostIs
  <2>2. excused'.missed = excused.missed \cup IF proc[q].some THEN {On(q)} ELSE {}
    BY <1>0, <2>1, CleanupIs
  <2> QED BY <1>0, <2>2
<1> QED BY <1>1, <1>2, <1>3 DEF Receiver

LEMMA ServedNext ==
  ASSUME ProcInv, TypeInv, Served, Next
  PROVE  Served'
<1>0. ProcType /\ FileType /\ Remembers
  BY RememberNext DEF TypeInv
<1> SUFFICES ASSUME NEW h \in Host, Wanted(h)'
             PROVE  HasServer(h)' \/ Expected(h)' \/ h \in excused'.missed
  BY DEF Served
<1>1. CASE ~ Wanted(h)
  BY <1>1, NewlyWanted
<1>2. ASSUME h \in excused.missed PROVE HasServer(h)' \/ h \in excused'.missed
  <2>1. ASSUME NEW p \in Proc, Lock(p), On(p) = h PROVE HasServer(h)'
    <3>1. proc'[p].pc = "scan"
      BY <1>0, <2>1, LockStep DEF Step
    <3> QED BY <1>0, <2>1, <3>1, GoesServes DEF Daemon
  <2> QED BY <1>0, <1>2, <2>1 DEF Remembers
<1>3. CASE Expected(h)
  <2>1. up'[h]
    BY DEF Wanted
  <2> QED BY <1>3, <2>1, ExpectedStays
<1>4. ASSUME NEW p \in Proc, On(p) = h, Serves(p)
      PROVE  HasServer(h)' \/ h \in excused'.missed
  <2>1. CASE Calm(p)
    BY <1>4, <2>1 DEF Calm, HasServer, Serves, At, Received
  <2>2. CASE Mailed(p)
    BY <1>4, <2>2 DEF Mailed, HasServer, Serves, At
  <2>3. CASE Killed(p)
    <3>1. up'[h]
      BY DEF Wanted
    <3>2. proc'[p].pc = "aborted" /\ On(p)' = h
      BY <1>4, <2>3, <3>1 DEF Killed
    <3> QED BY <3>2 DEF HasServer, Serves, At, Receives
  <2>4. CASE Born(p)
    BY <1>0, <1>4, <2>4 DEF Born, ProcType
  <2>5. CASE Daemon(p)
    BY <1>4, <2>5, DaemonServes
  <2>6. CASE Receiver(p)
    BY <1>4, <2>6, ReceiverServes
  <2> QED BY <2>1, <2>2, <2>3, <2>4, <2>5, <2>6, Frame
<1> QED BY <1>1, <1>2, <1>3, <1>4 DEF Served, HasServer

LEMMA ServedStep ==
  ASSUME TypeInv, ProcInv, Served, [Next]_vars
  PROVE  Served'
<1>1. CASE Next
  BY <1>1, ServedNext
<1>2. CASE UNCHANGED vars
  BY <1>2 DEF vars, Served, Wanted, HasServer, Serves, Expected, Queue, At, On
<1> QED BY <1>1, <1>2

(* A queue that may be printed has a daemon that has not yet decided to stop,    *)
(* or is going to get one from lpr, from the process that received a job, from   *)
(* an aborted daemon or from lpd's startup, except where the last one to start   *)
(* was refused by a daemon about to exit or a receiver lost its connection      *)
(* (printjob.c, printjob and abortpr; recvjob.c, recvjob).                     *)
THEOREM NoneStrandedAlways == Spec => []NoneStranded
<1>1. Init => Served
  <2>1. Init => \A h \in Host : Queue(h) = {}
    BY DEF Init, Queue
  <2> QED BY <2>1 DEF Served, Wanted
<1>2. TypeInv /\ ProcInv /\ Served /\ [Next]_vars => Served'
  BY ServedStep
<1>3. Served => NoneStranded
  <2>1. ASSUME NEW p \in Proc, Serves(p) PROVE At(p, "exit") \/ At(p, "read") => proc[p].some
    BY <2>1 DEF Serves, At, Receives
  <2> QED BY <2>1 DEF Served, Wanted, HasServer, Expected, NoneStranded
<1> QED BY <1>1, <1>2, <1>3, TypesAlways, PTL DEF Spec

=============================================================================
