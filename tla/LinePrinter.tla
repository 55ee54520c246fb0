--------------------------- MODULE LinePrinter ---------------------------
(***************************************************************************)
(* The line printer system (pr-42/lpr): users who queue jobs (lpr), remove    *)
(* them (lprm) and control the queues (lpc), the processes that lpd forks to   *)
(* print a queue or send it to another host (printjob), those that receive     *)
(* jobs (recvjob), lost connections, and crashes.                             *)
(*                                                                         *)
(* A job is a control file, which is linked into the spool directory last,    *)
(* and a data file.  The order of a queue is left out.                       *)
(***************************************************************************)
EXTENDS Naturals, FiniteSets

CONSTANTS
  Host, Job, NIL,
  Proc,        \* bound: processes at one time
  Remote,      \* Remote[h]: the machine (RM) h's queue is sent to, NIL if h prints
  Scenarios,   \* [home, left]: where users queue the jobs, and how many
               \* failures and commands of each kind there may be
  MaxPrints    \* bound: how often a job is printed

ASSUME LinePrinterAssumption ==
  /\ NIL \notin Host \cup Job \cup Proc
  /\ \A h \in Host : Remote[h] \in (Host \ {h}) \cup {NIL}
  /\ \A h \in Host : Remote[h] # NIL => Remote[Remote[h]] = NIL
  /\ MaxPrints \in Nat
  /\ \A s \in Scenarios : s.home \in [Job -> Host \cup {NIL}]

ASSUME NoFileAssumption == NIL \notin {"cf", "df"} \X Job

VARIABLES
  spool,     \* spool[h]: the files <<"cf", j>>, <<"df", j>>, and <<"tf", j>>, a
             \* control file being received
  lock,      \* lock[h]: who holds the flock on the lock file
  flags,     \* flags[h]: its mode: "stop" (0100), "rebuild" (01)
  pid, current,  \* what the lock file says: the daemon, and its job
  proc,      \* processes forked by lpd
  up,        \* hosts whose lpd is running
  user,      \* user[j]: what became of the lpr of j
  rm,        \* the lprm
  home, left,
  printed,   \* history: how often j was printed in full
  excused    \* history: what went wrong, see Excuse

vars == <<spool, lock, flags, pid, current, proc, up, user, rm, home, left,
          printed, excused>>
fileVars == <<lock, flags, pid, current>>
outside == <<user, rm, home, left, up>>

-----------------------------------------------------------------------------
Cf(j) == <<"cf", j>>
Df(j) == <<"df", j>>
Tf(j) == <<"tf", j>>
Queue(h) == {j \in Job : Cf(j) \in spool[h]}

Free == [host |-> NIL, pc |-> "free", job |-> NIL, list |-> {}, mode |-> {},
         again |-> FALSE, conn |-> NIL, msg |-> NIL, ack |-> FALSE, df |-> NIL,
         some |-> FALSE]
Fresh(h, pc) == [Free EXCEPT !.host = h, !.pc = pc]

\* printjob from the lock on; recvjob.
Locked == {"scan", "open", "pick", "work", "waitDf", "waitCf", "unlinkDf", "unlinkCf",
           "check", "rescan", "exit"}
Receives == {"read", "link"}
Phase == Locked \cup Receives \cup {"free", "start", "aborted"}

At(p, pc) == proc[p].pc = pc
On(p) == proc[p].host
Sends(p) == Remote[On(p)] # NIL
Go(p, pc) == proc' = [proc EXCEPT ![p].pc = pc]

\* A receiver has the data of j and waits for its control file, or has both.
Receiving(h, j, p) == On(p) = h /\ proc[p].pc \in Receives /\ j \in {proc[p].df, proc[p].job}

\* What makes the properties below untrue, and did happen:
\*   "again":    the daemon was killed between printing and removing a job, or
\*               the answer to its control file was lost
\*   "stripped": rcleanup removed the data of a job that is in the queue or is
\*               being received again, or the daemon was killed while it removed
\*               the job
\*   "cut":      a control file was answered, and then not linked
\*   "failed":   the job had lost its data (a daemon that prints mails its user,
\*               one that sends does not)
\*   "removed":  by lprm
Kinds == {"again", "stripped", "cut", "failed", "removed"}
Excuse(e, kind, jobs) == [e EXCEPT ![kind] = @ \cup (jobs \ {NIL})]
Missed(e, hosts) == [e EXCEPT !.missed = @ \cup hosts]

\* A process is gone: its connection is closed, at both ends.
Closed(f, gone) ==
  [p \in Proc |-> IF f[p].conn \in gone THEN [f[p] EXCEPT !.conn = NIL] ELSE f[p]]
Ended(f, gone) ==
  Closed([p \in Proc |-> IF p \in gone THEN Free ELSE f[p]], gone)

\* Whom the lock file names is not there any more (kill(pid, 0) fails).
Forget(gone) == pid' = [h \in Host |-> IF pid[h] \in gone THEN NIL ELSE pid[h]]
Unlock(gone) == lock' = [h \in Host |-> IF lock[h] \in gone THEN NIL ELSE lock[h]]

-----------------------------------------------------------------------------
(* lpr.                                                                    *)

Lpr(j) ==
  LET h == home[j] IN
  /\ user[j] = "new" /\ h # NIL /\ up[h]
  /\ spool' = [spool EXCEPT ![h] = @ \cup {Cf(j), Df(j)}]
  /\ user' = [user EXCEPT ![j] = "queued"]
  /\ UNCHANGED <<fileVars, proc, up, rm, home, left, printed, excused>>

\* startdaemon: the lpd forks a process, which answers before it locks.
Forked(h) ==
  \E q \in Proc : At(q, "free") /\ proc' = [proc EXCEPT ![q] = Fresh(h, "start")]

StartDaemon(j) ==
  /\ user[j] = "queued" /\ Forked(home[j])
  /\ user' = [user EXCEPT ![j] = "done"]
  /\ UNCHANGED <<spool, fileVars, up, rm, home, left, printed, excused>>

-----------------------------------------------------------------------------
(* printjob.                                                               *)

\* Nothing to do: printing is disabled, or there is an active daemon.
Refused(p) ==
  LET h == On(p) IN
  /\ At(p, "start") /\ ("stop" \in flags[h] \/ lock[h] # NIL)
  /\ proc' = Ended(proc, {p})
  /\ excused' = IF "stop" \notin flags[h] /\ At(lock[h], "exit") THEN Missed(excused, {h})
                ELSE excused
  /\ UNCHANGED <<spool, fileVars, outside, printed>>

\* Mutant of Lock: without flock.
LockOver(p) ==
  LET h == On(p) IN
  /\ At(p, "start") /\ "stop" \notin flags[h]
  /\ lock' = [lock EXCEPT ![h] = p]
  /\ pid' = [pid EXCEPT ![h] = p] /\ current' = [current EXCEPT ![h] = NIL]
  /\ proc' = [proc EXCEPT ![p].pc = "scan", ![p].mode = flags[h]]
  /\ UNCHANGED <<spool, flags, outside, printed, excused>>

Lock(p) ==
  LET h == On(p) IN
  /\ At(p, "start") /\ "stop" \notin flags[h] /\ lock[h] = NIL
  /\ lock' = [lock EXCEPT ![h] = p]
  /\ pid' = [pid EXCEPT ![h] = p] /\ current' = [current EXCEPT ![h] = NIL]
  /\ proc' = [proc EXCEPT ![p].pc = "scan", ![p].mode = flags[h]]
  /\ excused' = [excused EXCEPT !.missed = @ \ {h}]
  /\ UNCHANGED <<spool, flags, outside, printed>>

\* getq.  The mode written back is the one read before the lock was taken.
Scan(p) ==
  LET h == On(p) IN
  /\ At(p, "scan")
  /\ IF Queue(h) = {} THEN Go(p, "exit") /\ UNCHANGED flags
     ELSE /\ proc' = [proc EXCEPT ![p].pc = "open", ![p].list = Queue(h)]
          /\ flags' = IF "rebuild" \in proc[p].mode
                      THEN [flags EXCEPT ![h] = proc[p].mode \ {"rebuild"}] ELSE flags
  /\ UNCHANGED <<spool, lock, pid, current, outside, printed, excused>>

\* Mutant of Rescan: the daemon prints what it found at first.
RescanNothing(p) ==
  /\ At(p, "rescan") /\ Go(p, "exit")
  /\ UNCHANGED <<spool, fileVars, outside, printed, excused>>

Rescan(p) ==
  LET jobs == Queue(On(p)) IN
  /\ At(p, "rescan")
  /\ proc' = [proc EXCEPT ![p].pc = IF jobs = {} THEN "exit" ELSE "pick", ![p].list = jobs]
  /\ UNCHANGED <<spool, fileVars, outside, printed, excused>>

\* openpr: a printer, or a process of the remote lpd.
Opened(p) ==
  /\ At(p, "open")
  /\ current' = [current EXCEPT ![On(p)] = proc[p].job]
Reopened(p) == [proc[p] EXCEPT !.pc = IF proc[p].job = NIL THEN "pick" ELSE "work", !.again = FALSE]

OpenPrinter(p) ==
  /\ Opened(p) /\ ~Sends(p)
  /\ proc' = [proc EXCEPT ![p] = Reopened(p)]
  /\ UNCHANGED <<spool, lock, flags, pid, outside, printed, excused>>

OpenRemote(p) ==
  LET r == Remote[On(p)] IN
  /\ Opened(p) /\ Sends(p) /\ up[r]
  /\ \E q \in Proc :
       /\ At(q, "free")
       /\ proc' = [proc EXCEPT ![q] = [Fresh(r, "read") EXCEPT !.conn = p],
                               ![p] = [Reopened(p) EXCEPT !.conn = q]]
  /\ UNCHANGED <<spool, lock, flags, pid, outside, printed, excused>>

Pick(p) ==
  LET h == On(p) IN
  /\ At(p, "pick")
  /\ \/ /\ proc[p].list = {} /\ Go(p, "rescan") /\ UNCHANGED current
     \/ \E j \in proc[p].list :
          IF Cf(j) \in spool[h]
          THEN /\ proc' = [proc EXCEPT ![p].pc = "work", ![p].job = j, ![p].list = @ \ {j}]
               /\ current' = [current EXCEPT ![h] = j]
          ELSE proc' = [proc EXCEPT ![p].list = @ \ {j}] /\ UNCHANGED current
  /\ UNCHANGED <<spool, lock, flags, pid, outside, printed, excused>>

\* The control file is no longer there.
Vanished(p) ==
  /\ At(p, "work") /\ Cf(proc[p].job) \notin spool[On(p)]
  /\ Go(p, "check")
  /\ UNCHANGED <<spool, fileVars, outside, printed, excused>>

\* Its data is not.
NoData(p) ==
  LET h == On(p) j == proc[p].job IN
  /\ At(p, "work") /\ Cf(j) \in spool[h] /\ Df(j) \notin spool[h]
  /\ Sends(p) => proc[p].conn # NIL
  /\ Go(p, "unlinkDf")
  /\ excused' = Excuse(excused, "failed", {j})
  /\ UNCHANGED <<spool, fileVars, outside, printed>>

Ready(p) ==
  /\ At(p, "work")
  /\ {Cf(proc[p].job), Df(proc[p].job)} \subseteq spool[On(p)]

\* Mutant of PrintIt: the files are not removed.
PrintAndKeep(p) ==
  /\ Ready(p) /\ ~Sends(p) /\ printed[proc[p].job] < MaxPrints
  /\ printed' = [printed EXCEPT ![proc[p].job] = @ + 1]
  /\ Go(p, "check")
  /\ UNCHANGED <<spool, fileVars, outside, excused>>

PrintIt(p) ==
  LET j == proc[p].job IN
  /\ Ready(p) /\ ~Sends(p) /\ printed[j] < MaxPrints
  /\ printed' = [printed EXCEPT ![j] = @ + 1]
  /\ Go(p, "unlinkDf")
  /\ UNCHANGED <<spool, fileVars, outside, excused>>

\* The filter asks for the job to be printed again.
Reprint(p) ==
  /\ Ready(p) /\ ~Sends(p) /\ left.reprint > 0
  /\ proc' = [proc EXCEPT ![p].pc = "check", ![p].again = TRUE]
  /\ left' = [left EXCEPT !.reprint = @ - 1]
  /\ UNCHANGED <<spool, fileVars, user, rm, home, up, printed, excused>>

\* Pass 2 of printit and sendit: the data first.
UnlinkDf(p) ==
  LET j == proc[p].job h == On(p) IN
  /\ At(p, "unlinkDf")
  /\ spool' = [spool EXCEPT ![h] = @ \ {Df(j)}]
  /\ Go(p, "unlinkCf")
  /\ excused' = IF \E r \in Proc : Receiving(h, j, r) THEN Excuse(excused, "stripped", {j})
                ELSE excused
  /\ UNCHANGED <<fileVars, outside, printed>>

UnlinkCf(p) ==
  /\ At(p, "unlinkCf")
  /\ spool' = [spool EXCEPT ![On(p)] = @ \ {Cf(proc[p].job)}]
  /\ Go(p, "check")
  /\ UNCHANGED <<fileVars, outside, printed, excused>>

\* After each job.  To rebuild the queue goes before to try again.
Check(p) ==
  LET h == On(p) next == [proc[p] EXCEPT !.job = NIL] IN
  /\ At(p, "check")
  /\ \/ /\ "stop" \in flags[h]
        /\ Go(p, "exit") /\ UNCHANGED <<flags, current>>
     \/ /\ "stop" \notin flags[h] /\ "rebuild" \in flags[h]
        /\ flags' = [flags EXCEPT ![h] = @ \ {"rebuild"}]
        /\ proc' = [proc EXCEPT ![p] = [next EXCEPT !.pc = "rescan", !.again = FALSE]]
        /\ UNCHANGED current
     \/ /\ flags[h] = {} /\ ~proc[p].again
        /\ proc' = [proc EXCEPT ![p] = [next EXCEPT !.pc = "pick"]]
        /\ UNCHANGED <<flags, current>>
     \/ /\ flags[h] = {} /\ proc[p].again
        /\ proc' = [Closed(proc, {p}) EXCEPT ![p].pc = "open", ![p].conn = NIL]
        /\ current' = [current EXCEPT ![h] = NIL]
        /\ UNCHANGED flags
  /\ UNCHANGED <<spool, lock, pid, outside, printed, excused>>

Exit(p) ==
  /\ At(p, "exit")
  /\ proc' = Ended(proc, {p})
  /\ Unlock({p}) /\ Forget({p})
  /\ UNCHANGED <<spool, flags, current, outside, printed, excused>>

-----------------------------------------------------------------------------
(* sendit: a file goes out, an answer comes back.                            *)

Sent(p, file, pc) ==
  proc' = [proc EXCEPT ![p].pc = pc, ![proc[p].conn].msg = file, ![proc[p].conn].ack = FALSE]

\* Mutant of SendDf: the control file goes first, and is the last.
SendCfFirst(p) ==
  /\ Ready(p) /\ Sends(p) /\ proc[p].conn # NIL
  /\ Sent(p, Cf(proc[p].job), "waitCf")
  /\ UNCHANGED <<spool, fileVars, outside, printed, excused>>

SendDf(p) ==
  /\ Ready(p) /\ Sends(p) /\ proc[p].conn # NIL
  /\ Sent(p, Df(proc[p].job), "waitDf")
  /\ UNCHANGED <<spool, fileVars, outside, printed, excused>>

SendCf(p) ==
  /\ At(p, "waitDf") /\ proc[p].conn # NIL /\ proc[proc[p].conn].ack
  /\ Sent(p, Cf(proc[p].job), "waitCf")
  /\ UNCHANGED <<spool, fileVars, outside, printed, excused>>

\* Mutant of JobSent: the answer to the control file is not waited for.
JobSentEarly(p) ==
  /\ At(p, "waitCf")
  /\ Go(p, "unlinkDf")
  /\ UNCHANGED <<spool, fileVars, outside, printed, excused>>

JobSent(p) ==
  /\ At(p, "waitCf") /\ proc[p].conn # NIL /\ proc[proc[p].conn].ack
  /\ Go(p, "unlinkDf")
  /\ UNCHANGED <<spool, fileVars, outside, printed, excused>>

\* The connection is lost: the job is to be sent again.
SendFails(p) ==
  /\ proc[p].pc \in {"work", "waitDf", "waitCf"} /\ Sends(p) /\ proc[p].conn = NIL
  /\ At(p, "work") => Cf(proc[p].job) \in spool[On(p)]
  /\ proc' = [proc EXCEPT ![p].pc = "check", ![p].again = TRUE]
  /\ excused' = IF At(p, "waitCf") THEN Excuse(excused, "again", {proc[p].job}) ELSE excused
  /\ UNCHANGED <<spool, fileVars, outside, printed>>

-----------------------------------------------------------------------------
(* recvjob.                                                                *)

\* rcleanup, as the process ends: the data file received last goes, whether or
\* not its control file is there, and the control file that is not linked yet.
Cleanup(q, j, partial) ==
  LET h == On(q)
      used == Cf(j) \in spool[h] \/ \E r \in Proc \ {q} : Receiving(h, j, r)
      unlinked == {i \in Job : At(q, "link") /\ proc[q].job = i /\ Cf(i) \notin spool[h]}
      e == Excuse(Excuse(excused, "stripped", IF used THEN {j} ELSE {}), "cut", unlinked)
  IN /\ spool' = [spool EXCEPT ![h] = @ \ {Df(j), Tf(partial)}]
     /\ excused' = IF proc[q].some THEN Missed(e, {h}) ELSE e
     /\ proc' = Ended(proc, {q})

ReadDf(q) ==
  /\ At(q, "read") /\ \E j \in Job : proc[q].msg = Df(j)
  /\ spool' = [spool EXCEPT ![On(q)] = @ \cup {proc[q].msg}]
  /\ proc' = [proc EXCEPT ![q].msg = NIL, ![q].ack = TRUE, ![q].df = proc[q].msg[2]]
  /\ UNCHANGED <<fileVars, outside, printed, excused>>

\* readfile answers before the file that was read becomes the control file.
ReadCf(q) ==
  LET j == proc[q].msg[2] IN
  /\ At(q, "read") /\ \E i \in Job : proc[q].msg = Cf(i)
  /\ spool' = [spool EXCEPT ![On(q)] = @ \cup {Tf(j)}]
  /\ proc' = [proc EXCEPT ![q].msg = NIL, ![q].ack = TRUE, ![q].job = j, ![q].pc = "link"]
  /\ UNCHANGED <<fileVars, outside, printed, excused>>

LinkCf(q) ==
  LET j == proc[q].job h == On(q) IN
  /\ At(q, "link") /\ Tf(j) \in spool[h] /\ Cf(j) \notin spool[h]
  /\ spool' = [spool EXCEPT ![h] = (@ \ {Tf(j)}) \cup {Cf(j)}]
  /\ proc' = [proc EXCEPT ![q].pc = "read", ![q].job = NIL, ![q].some = TRUE]
  /\ UNCHANGED <<fileVars, outside, printed, excused>>

\* The job is queued already, or another receiver of it has removed the file.
LinkFails(q) ==
  LET j == proc[q].job h == On(q) IN
  /\ At(q, "link") /\ (Tf(j) \notin spool[h] \/ Cf(j) \in spool[h])
  /\ Cleanup(q, proc[q].df, j)
  /\ UNCHANGED <<fileVars, outside, printed>>

\* The connection was closed: readjob returns the number of jobs.
EndOfJobs(q) ==
  /\ At(q, "read") /\ proc[q].conn = NIL
  /\ proc' = IF proc[q].some THEN [proc EXCEPT ![q] = Fresh(On(q), "start")]
             ELSE Ended(proc, {q})
  /\ UNCHANGED <<spool, fileVars, outside, printed, excused>>

\* It was lost, perhaps within a file: frecverr.
LostConnection(q) ==
  LET m == proc[q].msg IN
  /\ At(q, "read") /\ proc[q].conn = NIL
  /\ \/ Cleanup(q, proc[q].df, NIL)
     \/ \E j \in Job : m = Df(j) /\ Cleanup(q, j, NIL)
     \/ \E j \in Job : m = Cf(j) /\ Cleanup(q, proc[q].df, j)
  /\ UNCHANGED <<fileVars, outside, printed>>

-----------------------------------------------------------------------------
(* Signals: abortpr gives up the lock, and starts a new daemon.              *)

\* What a daemon leaves when it dies.
Interrupted(e, gone) ==
  LET in(pcs) == {proc[p].job : p \in {q \in gone : proc[q].pc \in pcs}}
  IN Excuse(Excuse(e, "again", in({"unlinkDf", "unlinkCf", "waitCf"})), "stripped",
            in({"unlinkCf"}))

Abort(p) ==
  /\ proc' = [Closed(proc, {p}) EXCEPT ![p] = Fresh(On(p), "aborted")]
  /\ Unlock({p}) /\ Forget({p})
  /\ excused' = Interrupted(excused, {p})

Restart(p) ==
  /\ At(p, "aborted") /\ Go(p, "start")
  /\ UNCHANGED <<spool, fileVars, outside, printed, excused>>

-----------------------------------------------------------------------------
(* lpc.                                                                    *)

Command == left.lpc > 0 /\ left' = [left EXCEPT !.lpc = @ - 1]

Stop(h) ==
  /\ Command /\ up[h]
  /\ flags' = [flags EXCEPT ![h] = @ \cup {"stop"}]
  /\ UNCHANGED <<spool, lock, pid, current, proc, up, user, rm, home, printed, excused>>

TopQ(h) ==
  /\ Command /\ up[h] /\ Queue(h) # {}
  /\ flags' = [flags EXCEPT ![h] = @ \cup {"rebuild"}]
  /\ UNCHANGED <<spool, lock, pid, current, proc, up, user, rm, home, printed, excused>>

\* lpc abort: stop, and kill the daemon that has the lock.
AbortPr(h) ==
  /\ Command /\ up[h] /\ lock[h] # NIL /\ pid[h] # NIL
  /\ flags' = [flags EXCEPT ![h] = @ \cup {"stop"}]
  /\ Abort(pid[h])
  /\ UNCHANGED <<spool, current, up, user, rm, home, printed>>

\* lpc start, and restart; it costs no command.
StartPr(h) ==
  /\ up[h] /\ "stop" \in flags[h]
  /\ flags' = [flags EXCEPT ![h] = @ \ {"stop"}]
  /\ Forked(h)
  /\ UNCHANGED <<spool, lock, pid, current, outside, printed, excused>>

-----------------------------------------------------------------------------
(* lprm of one job, on its host and then on the remote one.                   *)

NoRm == [pc |-> "idle", host |-> NIL, job |-> NIL, victim |-> NIL, killed |-> {}]
RmGo(r) == rm' = r /\ UNCHANGED <<user, home, up>>

Lprm(j) ==
  /\ rm.pc = "idle" /\ left.rm > 0 /\ user[j] = "done" /\ up[home[j]]
  /\ left' = [left EXCEPT !.rm = @ - 1]
  /\ RmGo([NoRm EXCEPT !.pc = "look", !.host = home[j], !.job = j])
  /\ UNCHANGED <<spool, fileVars, proc, printed, excused>>

\* lockchk and chk: whether the daemon is reading our file.
RmLook ==
  LET h == rm.host
      ours == pid[h] # NIL /\ current[h] = rm.job /\ Cf(rm.job) \in spool[h]
  IN /\ rm.pc = "look"
     /\ RmGo(IF ours THEN [rm EXCEPT !.pc = "kill", !.victim = pid[h]]
             ELSE [rm EXCEPT !.pc = "process"])
     /\ UNCHANGED <<spool, fileVars, proc, left, printed, excused>>

\* It may be printing another by now, or be gone: then nothing is removed.
RmKill ==
  /\ rm.pc = "kill"
  /\ IF pid[rm.host] = rm.victim
     THEN Abort(rm.victim) /\ RmGo([rm EXCEPT !.pc = "process", !.killed = @ \cup {rm.host}])
     ELSE RmGo(NoRm) /\ UNCHANGED <<proc, lock, pid, excused>>
  /\ UNCHANGED <<spool, flags, current, left, printed>>

\* process, then chkremote.
RmProcess ==
  LET h == rm.host j == rm.job r == Remote[h] IN
  /\ rm.pc = "process"
  /\ spool' = [spool EXCEPT ![h] = IF Cf(j) \in @ THEN @ \ {Cf(j), Df(j)} ELSE @]
  /\ excused' = IF Cf(j) \in spool[h] THEN Excuse(excused, "removed", {j}) ELSE excused
  /\ RmGo(IF r # NIL /\ up[r] THEN [rm EXCEPT !.pc = "look", !.host = r]
          ELSE [rm EXCEPT !.pc = "restart"])
  /\ UNCHANGED <<fileVars, proc, left, printed>>

RmRestart ==
  LET back == IF rm.host # home[rm.job] THEN [rm EXCEPT !.host = home[rm.job]] ELSE NoRm IN
  /\ rm.pc = "restart"
  /\ IF rm.host \in rm.killed THEN Forked(rm.host) ELSE UNCHANGED proc
  /\ RmGo(back)
  /\ UNCHANGED <<spool, fileVars, left, printed, excused>>

-----------------------------------------------------------------------------
(* Failures.                                                               *)

Lose(p) ==
  /\ proc[p].pc \in Receives /\ proc[p].conn # NIL /\ left.loss > 0
  /\ proc' = [Closed(proc, {p}) EXCEPT ![p].conn = NIL]
  /\ left' = [left EXCEPT !.loss = @ - 1]
  /\ UNCHANGED <<spool, fileVars, up, user, rm, home, printed, excused>>

Crash(h) ==
  LET gone == {p \in Proc : On(p) = h}
      late == {proc[p].job : p \in {q \in gone : At(q, "link")}}
  IN /\ up[h] /\ left.crash > 0
     /\ up' = [up EXCEPT ![h] = FALSE]
     /\ left' = [left EXCEPT !.crash = @ - 1]
     /\ proc' = Ended(proc, gone)
     /\ Unlock(gone) /\ Forget(gone)
     /\ user' = [j \in Job |-> IF user[j] = "queued" /\ home[j] = h THEN "done" ELSE user[j]]
     /\ rm' = IF rm.host = h \/ (rm.job # NIL /\ home[rm.job] = h) THEN NoRm ELSE rm
     /\ excused' = Excuse(Interrupted(excused, gone), "cut", late)
     /\ UNCHANGED <<spool, flags, current, home, printed>>

\* lpd's startup: print the files left from the last time.
Boot(h) ==
  /\ ~up[h] /\ up' = [up EXCEPT ![h] = TRUE]
  /\ IF Queue(h) = {} THEN UNCHANGED proc ELSE Forked(h)
  /\ UNCHANGED <<spool, fileVars, user, rm, home, left, printed, excused>>

-----------------------------------------------------------------------------
Init ==
  /\ spool = [h \in Host |-> {}]
  /\ lock = [h \in Host |-> NIL] /\ flags = [h \in Host |-> {}]
  /\ pid = [h \in Host |-> NIL] /\ current = [h \in Host |-> NIL]
  /\ proc = [p \in Proc |-> Free]
  /\ up = [h \in Host |-> TRUE]
  /\ user = [j \in Job |-> "new"]
  /\ rm = NoRm
  /\ \E s \in Scenarios : home = s.home /\ left = s.left
  /\ printed = [j \in Job |-> 0]
  /\ excused = [kind \in Kinds \cup {"missed"} |-> {}]

Daemon(p) ==
  \/ Refused(p) \/ Lock(p) \/ Scan(p) \/ Rescan(p) \/ OpenPrinter(p) \/ OpenRemote(p)
  \/ Pick(p) \/ Vanished(p) \/ NoData(p) \/ PrintIt(p) \/ Reprint(p)
  \/ UnlinkDf(p) \/ UnlinkCf(p) \/ Check(p) \/ Exit(p) \/ Restart(p)
  \/ SendDf(p) \/ SendCf(p) \/ JobSent(p) \/ SendFails(p)

Receiver(q) == ReadDf(q) \/ ReadCf(q) \/ LinkCf(q) \/ LinkFails(q) \/ EndOfJobs(q) \/ LostConnection(q)

Next ==
  \/ \E j \in Job : Lpr(j) \/ StartDaemon(j) \/ Lprm(j)
  \/ \E p \in Proc : Daemon(p) \/ Receiver(p) \/ Lose(p)
  \/ \E h \in Host : Stop(h) \/ TopQ(h) \/ AbortPr(h) \/ StartPr(h) \/ Crash(h) \/ Boot(h)
  \/ RmLook \/ RmKill \/ RmProcess \/ RmRestart

Spec == Init /\ [][Next]_vars

-----------------------------------------------------------------------------
(* Properties.                                                              *)

TypeOK ==
  /\ \A h \in Host : spool[h] \subseteq {"cf", "df", "tf"} \X Job
  /\ \A h \in Host : flags[h] \subseteq {"stop", "rebuild"}
  /\ lock \in [Host -> Proc \cup {NIL}] /\ pid \in [Host -> Proc \cup {NIL}]
  /\ current \in [Host -> Job \cup {NIL}]
  /\ \A p \in Proc :
       /\ proc[p].pc \in Phase /\ proc[p].conn \in Proc \cup {NIL}
       /\ proc[p].job \in Job \cup {NIL} /\ proc[p].list \subseteq Job
  /\ user \in [Job -> {"new", "queued", "done"}]
  /\ rm.pc \in {"idle", "look", "kill", "process", "restart"}
  /\ \A j \in Job : printed[j] \in 0 .. MaxPrints

(* One daemon at a time works on a queue, and it is the one that the lock file  *)
(* names, whoever was killed and restarted (printjob.c, abortpr).             *)
OneDaemon ==
  /\ TypeOK
  /\ \A p \in Proc : proc[p].pc \in Locked <=> (On(p) # NIL /\ lock[On(p)] = p)
  /\ \A h \in Host : pid[h] = lock[h]

(* A job that was queued and not removed is in a queue, on its way into one, or *)
(* was printed, or was found without its data; except if the receiver ended     *)
(* between its answer to the control file and the link.                      *)
NothingForgotten ==
  \A j \in Job : user[j] # "new" =>
    \/ \E h \in Host : j \in Queue(h)
    \/ \E q \in Proc : At(q, "link") /\ proc[q].job = j
    \/ printed[j] > 0
    \/ \E kind \in {"failed", "removed", "cut"} : j \in excused[kind]

(* A job in a queue has its data, except while a daemon removes it; but a       *)
(* receiver whose connection fails removes the data it received last, whether  *)
(* or not its control file has been linked or another receives it again; and a *)
(* job printed or removed while it is received again comes back without.       *)
DataKept ==
  \A h \in Host : \A j \in Queue(h) :
    \/ Df(j) \in spool[h]
    \/ j \in excused["stripped"] \cup excused["removed"]
    \/ \E p \in Proc : On(p) = h /\ At(p, "unlinkCf") /\ proc[p].job = j

(* No job is printed twice, unless a daemon was killed before it had removed    *)
(* what it printed, or the answer to a control file was lost.                 *)
PrintedOnce == \A j \in Job : printed[j] > 1 => j \in excused["again"]

(* A queue that may be printed has a daemon or will get one: lpr starts one     *)
(* after it queued a job, and so do an aborted daemon and the restart of lpd.    *)
(* It has none if the last one was refused by a daemon that had already   *)
(* found the queue empty, or if its receiver lost the connection.             *)
NoneStranded ==
  \A h \in Host :
    (up[h] /\ "stop" \notin flags[h] /\ Queue(h) # {}) =>
      \/ \E p \in Proc : On(p) = h /\ (At(p, "exit") \/ At(p, "read") => proc[p].some)
      \/ \E j \in Queue(h) : user[j] = "queued" /\ home[j] = h
      \/ h \in excused.missed
=============================================================================
