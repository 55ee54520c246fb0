------------------------ MODULE IPCScheduler_proofs ------------------------
(***************************************************************************)
(* What holds of the window server's scheduler for any number of contexts,   *)
(* messages and buffers, and any mixture of operations.                      *)
(*                                                                         *)
(* The inductive invariant relates four things that the code keeps apart:    *)
(* where a coroutine is suspended and whom the kernel receives for (WaitInv), *)
(* what is in the buffer of each who has one (MsgInv), whose each buffer is   *)
(* (BufInv), and what was sent, taken and handled (OrderInv).  Every step of  *)
(* the scheduler is first brought to one of two forms, Delivers and Turn;     *)
(* a step of a coroutine disturbs that coroutine's part only.                *)
(***************************************************************************)
EXTENDS IPCScheduler, FiniteSetTheorems, SequenceTheorems, WellFoundedInduction, TLAPS

(* No switch is refused: a context that makes a save has its space to itself.  *)
(* Under a refusal what is loaded resumes inside its own yield for a message,  *)
(* without one (ipcstream.c, IPCFillBuf), and InOrder is false.               *)
NeverRefused ==
  \A i \in Instances : "save" \in i.ops =>
    \A c, d \in Context : SpaceOf[c] = SpaceOf[d] => c = d

-----------------------------------------------------------------------------
(* The inductive invariant.                                                 *)

Points == Asks \cup {"new", "run", "slice", "wait", "out", "dead"}
Reading == {"rpc", "run", "slice", "wait", "out"}
Message == Port \X Nat
Notice == {"accepted", "deleted"} \X Context
Space == {SpaceOf[d] : d \in Context}

TypeInv ==
  /\ list \in Seq(Context)
  /\ \A i, j \in DOMAIN list : list[i] = list[j] => i = j
  /\ cur \in Alive \cup {NIL}
  /\ running \in BOOLEAN
  /\ running => cur # NIL
  /\ loaded \in Alive \cup {NIL}
  /\ wannaRun \subseteq Alive
  /\ printerContext \subseteq Alive
  /\ waitMsg \subseteq Alive
  /\ waitNotify \subseteq Alive
  /\ restricted \subseteq Alive
  /\ notified \subseteq Alive
  /\ dirtyShmem \subseteq Alive
  /\ inputPort \in [Context -> Port \cup {NoMsg}]
  /\ slot \in [Context -> Buf \cup {NIL}]
  /\ stmMsg \in [Context -> Buf \cup {NIL}]
  /\ freeMsg \in Buf \cup {NIL}
  /\ heap \subseteq Buf
  /\ contents \in [Buf -> Message \cup Notice \cup {NoMsg}]
  /\ enabled \subseteq Port
  /\ queue \in [Port -> Seq(Message)]
  /\ sent \in [Context -> Nat]
  /\ notices \in Seq(Notice)
  /\ owed \subseteq Context
  /\ at \in [Context -> Points]
  /\ \A c \in Context : c \in Alive <=> at[c] # "dead"
  /\ got \in [Context -> Seq(Message)]
  /\ instance \in Instances
  /\ exclusive \in [Space -> Context \cup {NIL}]

KindInv ==
  /\ loaded # NIL => instance.kind[loaded] = "ps"
  /\ \A c \in Context : at[c] = "wb" => instance.kind[c] = "wb"
  /\ \A c \in Context : at[c] \in {"read"} \cup Reading => instance.kind[c] = "ps"
  /\ \A s \in Space : exclusive[s] # NIL =>
       "save" \in instance.ops /\ SpaceOf[exclusive[s]] = s

\* c runs; the port it waits on when it waits; it has been given a message.
Has(c) == running /\ cur = c
Wants(c) == IF at[c] = "rpc" THEN Reply(c) ELSE In(c)
Answered(c) == at[c] \in Asks /\ c \notin waitMsg

\* The bits of c's scheduler record, its port and the kernel's set of ports.
WaitInv(c) ==
  /\ at[c] \in {"new", "dead"} =>
       c \notin waitMsg \cup restricted /\ In(c) \notin enabled /\ Reply(c) \notin enabled
  /\ at[c] \notin {"new", "dead"} =>
       /\ inputPort[c] \in {In(c), Reply(c)}
       /\ c \in restricted <=> inputPort[c] \notin enabled
       /\ \A p \in {In(c), Reply(c)} : p \in enabled => p = inputPort[c]
  /\ at[c] = "new" => inputPort[c] = NoMsg
  /\ at[c] \in Asks => inputPort[c] = Wants(c)
  /\ c \in waitMsg => at[c] \in Asks /\ inputPort[c] \in enabled
  /\ c \in waitNotify => at[c] = "out"
  /\ In(c) \in enabled \/ Reply(c) \in enabled => c \in waitMsg \/ Has(c)
  /\ c \in waitMsg \cup waitNotify /\ (c \in wannaRun \/ Has(c)) => c \in notified \cup dirtyShmem
  /\ Has(c) => c \notin wannaRun
  /\ c \in dirtyShmem => at[c] = "wb"

\* What c reads, and what it was given, came from the port it asked.
MsgInv(c) ==
  /\ stmMsg[c] # NIL <=> at[c] \in Reading
  /\ stmMsg[c] # NIL => contents[stmMsg[c]] \in Message /\ contents[stmMsg[c]][1] = In(c)
  /\ Answered(c) => /\ slot[c] # NIL
                    /\ contents[slot[c]] \in Message
                    /\ contents[slot[c]][1] = Wants(c)

\* No buffer is in two hands.
InUse(c, b) == stmMsg[c] = b \/ (Answered(c) /\ slot[c] = b)
BufInv ==
  /\ freeMsg \notin heap
  /\ \A c \in Context : \A b \in Buf : InUse(c, b) => b \notin heap /\ b # freeMsg
  /\ \A c, d \in Context : \A b \in Buf : InUse(c, b) /\ InUse(d, b) => c = d
  /\ \A c \in Context : stmMsg[c] # NIL /\ Answered(c) => stmMsg[c] # slot[c]

\* The messages of c's client are queued, taken and handled in order.
Taken(c) == sent[c] - Len(queue[In(c)])
Pending(c) == Answered(c) /\ Wants(c) = In(c)
OrderInv(c) ==
  /\ Len(queue[In(c)]) <= sent[c]
  /\ \A i \in 1 .. Len(queue[In(c)]) : queue[In(c)][i] = <<In(c), Taken(c) + i>>
  /\ \A i \in 1 .. Len(queue[Reply(c)]) : queue[Reply(c)][i] = <<Reply(c), 1>>
  /\ \A i \in 1 .. Len(got[c]) : got[c][i][1] = In(c) /\ got[c][i][2] <= Taken(c)
  /\ \A i \in 2 .. Len(got[c]) : got[c][i - 1][2] < got[c][i][2]
  /\ Pending(c) => /\ contents[slot[c]] = <<In(c), Taken(c)>>
                   /\ \A i \in 1 .. Len(got[c]) : got[c][i][2] < Taken(c)
  /\ instance.kind[c] = "ps" =>
       /\ \A i \in 1 .. Len(got[c]) : got[c][i][2] = i
       /\ at[c] # "dead" => Taken(c) = Len(got[c]) + (IF Pending(c) THEN 1 ELSE 0)

IInv ==
  /\ TypeInv
  /\ KindInv
  /\ \A c \in Context : WaitInv(c)
  /\ \A c \in Context : MsgInv(c)
  /\ BufInv
  /\ \A c \in Context : OrderInv(c)

-----------------------------------------------------------------------------
(* Ports and buffers.                                                       *)

LEMMA PortsApart ==
  /\ \A c \in Context : In(c) \in Port /\ Reply(c) \in Port
  /\ \A c, d \in Context : In(c) = In(d) => c = d
  /\ \A c, d \in Context : Reply(c) = Reply(d) => c = d
  /\ \A c, d \in Context : In(c) # Reply(d)
  /\ \A p \in Port : \E c \in Context : p \in {In(c), Reply(c)}
  BY DEF In, Reply, Port

\* A set of natural numbers has a least one.
LEMMA Least ==
  ASSUME NEW T, T \subseteq Nat, T # {}
  PROVE  \E n \in T : \A m \in T : ~ (m < n)
<1> DEFINE R == OpToRel(<, Nat)
<1>1. IsWellFoundedOn(R, Nat)
  BY NatLessThanWellFounded
<1>2. \A m, n \in Nat : m < n => <<m, n>> \in R
  BY DEF OpToRel
<1> HIDE DEF R
<1>3. \E n \in T : \A m \in T : ~ (<<m, n>> \in R)
  BY <1>1, WFMin
<1> QED BY <1>2, <1>3

LEMMA FreshType ==
  ASSUME NEW h, h \subseteq Buf, h # {}
  PROVE  Fresh(h) \in h
<1>1. h \subseteq Nat
  BY DEF Buf
<1>2. PICK b \in h : \A d \in h : ~ (d < b)
  BY <1>1, Least
<1>3. \A d \in h : b <= d
  BY <1>1, <1>2
<1> QED BY <1>3 DEF Fresh

LEMMA AcquiredType ==
  ASSUME TypeInv, freeMsg # NIL \/ heap # {}
  PROVE  Acquired \in Buf /\ (Acquired = freeMsg \/ Acquired \in heap)
  BY FreshType DEF Acquired, TypeInv

LEMMA UnlinkedList ==
  ASSUME TypeInv, NEW c \in Alive, list' = Unlinked(c)
  PROVE  /\ list' \in Seq(Context)
         /\ \A i, j \in DOMAIN list' : list'[i] = list'[j] => i = j
         /\ Alive' = Alive \ {c}
<1> DEFINE n == Len(list)
           k == Position(c)
           a == SubSeq(list, 1, k - 1)
           b == SubSeq(list, k + 1, n)
<1>1. /\ n \in Nat /\ DOMAIN list = 1 .. n
      /\ \A i \in 1 .. n : list[i] \in Context
  BY LenProperties, ElementOfSeq DEF TypeInv
<1>2. k \in 1 .. n /\ list[k] = c
  BY <1>1 DEF Position, Alive
<1>3. \A i, j \in 1 .. n : list[i] = list[j] => i = j
  BY <1>1 DEF TypeInv
<1> HIDE DEF n, k
<1>4. /\ a \in Seq(Context) /\ Len(a) = k - 1
      /\ \A i \in 1 .. k - 1 : a[i] = list[i]
  <2>1. \A i \in 1 .. k - 1 : list[i] \in Context
    BY <1>1, <1>2
  <2> QED BY <2>1, <1>1, <1>2, SubSeqProperties
<1>5. /\ b \in Seq(Context) /\ Len(b) = n - k
      /\ \A i \in 1 .. n - k : b[i] = list[k + i]
  <2>1. \A i \in k + 1 .. n : list[i] \in Context
    BY <1>1, <1>2
  <2>2. /\ b \in Seq(Context) /\ Len(b) = IF k + 1 <= n THEN n - (k + 1) + 1 ELSE 0
        /\ \A i \in 1 .. n - (k + 1) + 1 : b[i] = list[k + 1 + i - 1]
    BY <2>1, <1>1, <1>2, SubSeqProperties
  <2> QED BY <2>2, <1>1, <1>2
<1>6. list' = a \o b
  BY DEF Unlinked, n, k
<1> HIDE DEF a, b
<1>7. /\ list' \in Seq(Context) /\ Len(list') = n - 1
      /\ \A i \in 1 .. n - 1 : list'[i] = IF i <= k - 1 THEN list[i] ELSE list[i + 1]
  <2>1. /\ a \o b \in Seq(Context) /\ Len(a \o b) = Len(a) + Len(b)
        /\ \A i \in 1 .. Len(a) + Len(b) : (a \o b)[i] = IF i <= Len(a) THEN a[i] ELSE b[i - Len(a)]
    BY <1>4, <1>5, ConcatProperties
  <2>2. Len(a) + Len(b) = n - 1 /\ Len(a) = k - 1
    BY <1>1, <1>2, <1>4, <1>5
  <2>3. ASSUME NEW i \in 1 .. n - 1
        PROVE  list'[i] = IF i <= k - 1 THEN list[i] ELSE list[i + 1]
    <3>1. list'[i] = IF i <= k - 1 THEN a[i] ELSE b[i - (k - 1)]
      BY <2>1, <2>2, <1>6
    <3>2. CASE i <= k - 1
      BY <3>1, <3>2, <1>4
    <3>3. CASE ~ (i <= k - 1)
      <4>1. i - (k - 1) \in 1 .. n - k /\ k + (i - (k - 1)) = i + 1
        BY <3>3, <1>1, <1>2
      <4>2. b[i - (k - 1)] = list[k + (i - (k - 1))]
        BY <4>1, <1>5
      <4> QED BY <4>1, <4>2, <3>1, <3>3
    <3> QED BY <3>2, <3>3
  <2> QED BY <2>1, <2>2, <2>3, <1>6
<1>8. DOMAIN list' = 1 .. n - 1
  BY <1>7, LenProperties
<1>9. ASSUME NEW i \in 1 .. n - 1, NEW j \in 1 .. n - 1, list'[i] = list'[j] PROVE i = j
  <2> DEFINE p(m) == IF m <= k - 1 THEN m ELSE m + 1
  <2>1. /\ p(i) \in 1 .. n /\ p(j) \in 1 .. n
        /\ list'[i] = list[p(i)] /\ list'[j] = list[p(j)]
    BY <1>1, <1>2, <1>7
  <2>2. p(i) = p(j)
    BY <2>1, <1>3, <1>9
  <2> QED BY <2>2, <1>1, <1>2
<1>10. Alive' = {list'[i] : i \in 1 .. n - 1} /\ Alive = {list[i] : i \in 1 .. n}
  BY <1>1, <1>8 DEF Alive
<1>11. ASSUME NEW x \in Alive' PROVE x \in Alive /\ x # c
  <2>1. PICK i \in 1 .. n - 1 : x = list'[i]
    BY <1>10
  <2> DEFINE j == IF i <= k - 1 THEN i ELSE i + 1
  <2>2. list'[i] = list[j]
    BY <1>7
  <2>3. j \in 1 .. n /\ j # k
    BY <1>1, <1>2
  <2> HIDE DEF j
  <2>4. list[j] # list[k]
    BY <2>3, <1>2, <1>3
  <2> QED BY <2>1, <2>2, <2>3, <2>4, <1>2, <1>10
<1>12. ASSUME NEW x \in Alive, x # c PROVE x \in Alive'
  <2>1. PICK i \in 1 .. n : x = list[i]
    BY <1>10
  <2>2. CASE i < k
    BY <2>1, <2>2, <1>1, <1>2, <1>7, <1>10
  <2>3. CASE i > k
    <3>1. i - 1 \in 1 .. n - 1 /\ list'[i - 1] = list[i]
      BY <2>3, <1>1, <1>2, <1>7
    <3> QED BY <3>1, <2>1, <1>10
  <2> QED BY <2>1, <2>2, <2>3, <1>2, <1>12
<1> QED BY <1>7, <1>8, <1>9, <1>11, <1>12

-----------------------------------------------------------------------------
(* The scheduler gives control to c, one of those who want it.               *)
Gives(c, want, port) ==
  /\ c \in want
  /\ printerContext' \subseteq printerContext
  /\ cur' = c /\ running' = TRUE
  /\ loaded' = IF instance.kind[c] = "ps" THEN c ELSE loaded
  /\ wannaRun' = want \ {c}
  /\ IF port # NIL /\ port # c /\ port \notin restricted
     THEN restricted' = restricted \cup {port} /\ enabled' = enabled \ {inputPort[port]}
     ELSE UNCHANGED <<restricted, enabled>>

LEMMA DispatchGives ==
  ASSUME NeverRefused, TypeInv, KindInv, NEW want, want \subseteq Alive, NEW port,
         Dispatch(want, port)
  PROVE  \E c \in want : Gives(c, want, port)
<1>1. PICK c \in want : /\ Loaded(c) # NIL
                        /\ printerContext' = printerContext \ Passed(c, want)
                        /\ cur' = Loaded(c)
                        /\ running' = TRUE
                        /\ loaded' = IF instance.kind[Loaded(c)] = "ps" THEN Loaded(c) ELSE loaded
                        /\ wannaRun' = want \ {Loaded(c)}
                        /\ IF port # NIL /\ port # Loaded(c) /\ port \notin restricted
                           THEN restricted' = restricted \cup {port} /\ enabled' = enabled \ {inputPort[port]}
                           ELSE UNCHANGED <<restricted, enabled>>
  BY DEF Dispatch
<1>2. c \in Context
  BY LenProperties DEF TypeInv, Alive
<1>3. SpaceOf[c] \in Space /\ instance \in Instances
  BY <1>2 DEF Space, TypeInv
<1>4. exclusive[SpaceOf[c]] \in {NIL, c}
  <2> DEFINE x == exclusive[SpaceOf[c]]
  <2> SUFFICES ASSUME x # NIL PROVE x = c
    OBVIOUS
  <2>1. x \in Context
    BY <1>3 DEF TypeInv
  <2>2. "save" \in instance.ops /\ SpaceOf[x] = SpaceOf[c]
    BY <1>3 DEF KindInv
  <2> QED BY <2>1, <2>2, <1>2, <1>3 DEF NeverRefused
<1>5. Loaded(c) = c
  BY <1>4 DEF Loaded
<1> QED BY <1>1, <1>5 DEF Gives

LEMMA AliveType ==
  ASSUME TypeInv
  PROVE  Alive \subseteq Context
  BY LenProperties DEF TypeInv, Alive

\* Who runs and has not been told to terminate is not waiting any more.
LEMMA NotWaiting ==
  ASSUME NEW c \in Context, WaitInv(c), Has(c), c \notin notified \cup dirtyShmem
  PROVE  c \notin waitMsg /\ c \notin waitNotify
  BY DEF WaitInv

-----------------------------------------------------------------------------
(* Types.                                                                   *)

LEMMA ReceivedTypes ==
  ASSUME TypeInv, NEW m \in Message \cup Notice \cup {NoMsg}, NEW used \in BOOLEAN,
         Received(m, used)
  PROVE  /\ contents' \in [Buf -> Message \cup Notice \cup {NoMsg}]
         /\ freeMsg' \in Buf \cup {NIL} /\ heap' \subseteq Buf
  BY AcquiredType DEF Received, TypeInv

LEMMA ReleaseTypes ==
  ASSUME TypeInv, NEW b \in Buf, ReleaseMsg(b)
  PROVE  freeMsg' \in Buf \cup {NIL} /\ heap' \subseteq Buf
  BY DEF ReleaseMsg, TypeInv

LEMMA TypesOutside ==
  ASSUME IInv, NEW c \in Context, Send(c) \/ Answer(c) \/ Accept(c) \/ ClientDies(c)
  PROVE  TypeInv' /\ KindInv'
<1>1. Alive' = Alive
  BY DEF Alive, Send, Answer, Accept, ClientDies, world
<1>2. CASE Send(c)
  <2>1. <<In(c), sent[c] + 1>> \in Message /\ In(c) \in Port
    BY PortsApart DEF Message, IInv, TypeInv
  <2> QED BY <1>1, <1>2, <2>1 DEF IInv, TypeInv, KindInv, Send, world
<1>3. CASE Answer(c)
  <2>1. <<<<Reply(c), 1>>>> \in Seq(Message) /\ Reply(c) \in Port
    BY PortsApart DEF Message
  <2> QED BY <1>1, <1>3, <2>1 DEF IInv, TypeInv, KindInv, Answer, world
<1>4. CASE Accept(c)
  <2>1. <<"accepted", c>> \in Notice
    BY DEF Notice
  <2> QED BY <1>1, <1>4, <2>1 DEF IInv, TypeInv, KindInv, Accept, world
<1>5. CASE ClientDies(c)
  <2>1. <<"deleted", c>> \in Notice
    BY DEF Notice
  <2> QED BY <1>1, <1>5, <2>1 DEF IInv, TypeInv, KindInv, ClientDies, world
<1> QED BY <1>2, <1>3, <1>4, <1>5

\* The variables that a choice of the scheduler changes.
ChoiceTypes ==
  /\ cur \in Alive \cup {NIL} /\ running \in BOOLEAN /\ (running => cur # NIL)
  /\ loaded \in Alive \cup {NIL}
  /\ loaded # NIL => instance.kind[loaded] = "ps"
  /\ wannaRun \subseteq Alive /\ printerContext \subseteq Alive
  /\ restricted \subseteq Alive /\ enabled \subseteq Port

LEMMA GivesTypes ==
  ASSUME TypeInv, KindInv, NEW want, want \subseteq Alive, NEW c \in want, NEW port,
         port \in Alive \cup {NIL}, Gives(c, want, port), UNCHANGED <<list, instance>>
  PROVE  ChoiceTypes'
<1>1. Alive' = Alive
  BY DEF Alive
<1>2. c # NIL
  BY AliveType, SchedulerAssumption
<1> QED BY <1>1, <1>2 DEF Gives, TypeInv, KindInv, ChoiceTypes

LEMMA SleepTypes ==
  ASSUME TypeInv, KindInv, NEW want, Sleep(want), UNCHANGED <<list, instance>>
  PROVE  ChoiceTypes'
<1>1. Alive' = Alive
  BY DEF Alive
<1> QED BY <1>1 DEF Sleep, TypeInv, KindInv, ChoiceTypes

\* A message that is received has one context to go to.
LEMMA OneWaiter ==
  ASSUME IInv, ~ running, NEW p \in Port, p \in enabled
  PROVE  \E c \in waitMsg : /\ Waiter(p) = {c}
                            /\ inputPort[c] = p /\ c \notin restricted
                            /\ p = Wants(c) /\ at[c] \in Asks
<1>1. PICK c \in Context : p \in {In(c), Reply(c)}
  BY PortsApart
<1>2. c \in waitMsg /\ inputPort[c] = p
  BY <1>1 DEF IInv, WaitInv, Has
<1>3. c \notin restricted /\ p = Wants(c) /\ at[c] \in Asks
  BY <1>2 DEF IInv, WaitInv, Asks
<1>4. \A d \in Waiter(p) : d = c
  <2> SUFFICES ASSUME NEW d \in Waiter(p) PROVE d = c
    OBVIOUS
  <2>1. d \in Context /\ d \in waitMsg /\ inputPort[d] = p
    BY AliveType DEF Waiter, IInv
  <2>2. p \in {In(d), Reply(d)}
    BY <2>1 DEF IInv, WaitInv, Asks
  <2> QED BY <2>1, <2>2, <1>1, PortsApart
<1>5. c \in Waiter(p)
  BY <1>2 DEF Waiter, IInv, TypeInv
<1> QED BY <1>2, <1>3, <1>4, <1>5

\* c gets the first message of port p, and e control.
Delivers(p, c, e) ==
  /\ ~ running
  /\ c \in waitMsg /\ p = Wants(c) /\ inputPort[c] = p /\ at[c] \in Asks
  /\ p \in Port /\ p \in enabled /\ queue[p] # <<>>
  /\ queue' = [queue EXCEPT ![p] = Tail(@)]
  /\ Received(Head(queue[p]), TRUE)
  /\ waitMsg' = waitMsg \ {c}
  /\ slot' = [slot EXCEPT ![c] = Acquired]
  /\ e \in wannaRun \cup {c} /\ Gives(e, wannaRun \cup {c}, c)
  /\ UNCHANGED <<list, waitNotify, inputPort, sent, notices, owed, gone, at,
                 stmMsg, ctxVars, got, instance>>

LEMMA DataDelivers ==
  ASSUME NeverRefused, IInv, NEW p \in Port, RunData(p)
  PROVE  \E c, e \in Context : Delivers(p, c, e)
<1>1. ~ running /\ p \in enabled
  BY DEF RunData
<1>2. PICK c \in waitMsg : /\ Waiter(p) = {c}
                           /\ inputPort[c] = p /\ c \notin restricted
                           /\ p = Wants(c) /\ at[c] \in Asks
  BY <1>1, OneWaiter
<1>3. c \in Alive /\ c \in Context /\ wannaRun \cup {c} \subseteq Alive
  BY AliveType DEF IInv, TypeInv
<1>4. \A d \in Context : IsFirst(d, Waiter(p)) => d = c
  BY <1>2 DEF IsFirst
<1>5. /\ Received(Head(queue[p]), TRUE)
      /\ waitMsg' = waitMsg \ {c}
      /\ slot' = [slot EXCEPT ![c] = Acquired]
      /\ Dispatch(wannaRun \cup {c}, c)
  BY <1>2, <1>4 DEF RunData
<1>6. PICK e \in wannaRun \cup {c} : Gives(e, wannaRun \cup {c}, c)
  BY <1>3, <1>5, DispatchGives DEF IInv
<1>7. e \in Context
  BY <1>3, AliveType DEF IInv
<1>8. Delivers(p, c, e)
  BY <1>2, <1>5, <1>6 DEF RunData, Delivers
<1> QED BY <1>3, <1>7, <1>8

LEMMA TypesData ==
  ASSUME IInv, NEW p, NEW c \in Context, NEW e \in Context, Delivers(p, c, e)
  PROVE  TypeInv' /\ KindInv'
<1>1. Alive' = Alive
  BY DEF Alive, Delivers
<1>2. Head(queue[p]) \in Message /\ Tail(queue[p]) \in Seq(Message)
  BY HeadTailProperties DEF Delivers, IInv, TypeInv
<1>3. /\ contents' \in [Buf -> Message \cup Notice \cup {NoMsg}]
      /\ freeMsg' \in Buf \cup {NIL} /\ heap' \subseteq Buf
  BY <1>2, ReceivedTypes DEF Delivers, IInv
<1>4. Acquired \in Buf
  BY AcquiredType DEF Delivers, Received, IInv
<1>5. ChoiceTypes'
  <2>1. wannaRun \cup {c} \subseteq Alive /\ c \in Alive
    BY DEF Delivers, IInv, TypeInv
  <2>2. e \in wannaRun \cup {c} /\ Gives(e, wannaRun \cup {c}, c) /\ UNCHANGED <<list, instance>>
    BY DEF Delivers
  <2> QED BY <2>1, <2>2, GivesTypes DEF IInv
<1>6. /\ queue' \in [Port -> Seq(Message)]
      /\ waitMsg' \subseteq Alive'
      /\ slot' \in [Context -> Buf \cup {NIL}]
  BY <1>1, <1>2, <1>4 DEF Delivers, IInv, TypeInv
<1> QED BY <1>1, <1>3, <1>5, <1>6 DEF IInv, TypeInv, KindInv, Delivers, ctxVars, ChoiceTypes

\* One turn without a message for a context: the set `more' is made runnable.
Turn(more) ==
  /\ ~ running
  /\ \/ \E e \in wannaRun \cup more : Gives(e, wannaRun \cup more, NIL)
     \/ Sleep(wannaRun \cup more)
  /\ \E m \in Notice \cup {NoMsg} : Received(m, FALSE)
  /\ UNCHANGED <<list, waitMsg, inputPort, slot, queue, sent, owed, gone, at,
                 stmMsg, dirtyShmem, exclusive, got, instance>>

LEMMA PassTurns ==
  ASSUME NeverRefused, TypeInv, KindInv, NEW want, want \subseteq Alive, Pass(want, NIL)
  PROVE  (\E e \in want : Gives(e, want, NIL)) \/ Sleep(want)
  BY DispatchGives DEF Pass

LEMMA NoticeTurns ==
  ASSUME NeverRefused, IInv, RunNotice
  PROVE  \E c \in Context :
           /\ notices' = Tail(notices) /\ notices # <<>>
           /\ \/ Turn({}) /\ UNCHANGED <<notified, waitNotify>>
              \/ c \in Alive /\ notified' = notified \cup {c} /\ Turn({c}) /\ UNCHANGED waitNotify
              \/ /\ c \in Alive /\ waitNotify' = waitNotify \ {c}
                 /\ Turn({c} \cap waitNotify) /\ UNCHANGED notified
<1>1. /\ notices # <<>> /\ notices \in Seq(Notice)
      /\ Head(notices) \in Notice
  BY HeadTailProperties DEF RunNotice, IInv, TypeInv
<1> DEFINE c == Head(notices)[2]
<1>2. c \in Context
  BY <1>1 DEF Notice
<1>3. wannaRun \subseteq Alive /\ TypeInv /\ KindInv
  BY DEF IInv, TypeInv
<1>4. \E m \in Notice \cup {NoMsg} : Received(m, FALSE)
  BY <1>1 DEF RunNotice
<1>5. CASE c \notin Alive
  <2>1. Pass(wannaRun \cup {}, NIL) /\ UNCHANGED <<notified, waitNotify>>
    BY <1>5 DEF RunNotice
  <2>2. Turn({})
    BY <2>1, <1>3, <1>4, PassTurns DEF Turn, RunNotice
  <2> QED BY <2>1, <2>2, <1>1, <1>2 DEF RunNotice
<1>6. CASE c \in Alive /\ Head(notices)[1] = "deleted"
  <2>1. Pass(wannaRun \cup {c}, NIL) /\ notified' = notified \cup {c} /\ UNCHANGED waitNotify
    BY <1>6 DEF RunNotice
  <2>2. Turn({c})
    BY <2>1, <1>3, <1>4, <1>6, PassTurns DEF Turn, RunNotice
  <2> QED BY <2>1, <2>2, <1>1, <1>2, <1>6 DEF RunNotice
<1>7. CASE c \in Alive /\ Head(notices)[1] # "deleted"
  <2>1. Pass(wannaRun \cup ({c} \cap waitNotify), NIL) /\ waitNotify' = waitNotify \ {c} /\ UNCHANGED notified
    BY <1>7 DEF RunNotice
  <2>2. Turn({c} \cap waitNotify)
    <3>1. wannaRun \cup ({c} \cap waitNotify) \subseteq Alive
      BY <1>3, <1>7
    <3> HIDE DEF c
    <3> QED BY <2>1, <3>1, <1>3, <1>4, PassTurns DEF Turn, RunNotice
  <2> QED BY <2>1, <2>2, <1>1, <1>2, <1>7 DEF RunNotice
<1> QED BY <1>5, <1>6, <1>7

LEMMA IdleTurns ==
  ASSUME NeverRefused, IInv, RunIdle
  PROVE  Turn({}) /\ UNCHANGED <<notices, notified, waitNotify>>
<1>1. \E e \in wannaRun : Gives(e, wannaRun, NIL)
  BY DispatchGives DEF RunIdle, IInv, TypeInv
<1>2. wannaRun \cup {} = wannaRun
  OBVIOUS
<1> QED BY <1>1, <1>2 DEF Turn, RunIdle, ctxVars

LEMMA TypesTurn ==
  ASSUME IInv, NEW more, more \subseteq Alive, Turn(more),
         notices' = notices \/ (notices # <<>> /\ notices' = Tail(notices)),
         notified' \subseteq Alive, waitNotify' \subseteq Alive
  PROVE  TypeInv' /\ KindInv'
<1>1. Alive' = Alive
  BY DEF Alive, Turn
<1>2. notices' \in Seq(Notice)
  <2>1. notices \in Seq(Notice)
    BY DEF IInv, TypeInv
  <2>2. notices # <<>> => Tail(notices) \in Seq(Notice)
    BY <2>1, HeadTailProperties
  <2> QED BY <2>1, <2>2
<1>3. /\ contents' \in [Buf -> Message \cup Notice \cup {NoMsg}]
      /\ freeMsg' \in Buf \cup {NIL} /\ heap' \subseteq Buf
  BY ReceivedTypes DEF Turn, IInv
<1>4. ChoiceTypes'
  <2>1. wannaRun \cup more \subseteq Alive /\ UNCHANGED <<list, instance>>
    BY DEF IInv, TypeInv, Turn
  <2> QED BY <2>1, GivesTypes, SleepTypes DEF Turn, IInv
<1> QED BY <1>1, <1>2, <1>3, <1>4 DEF IInv, TypeInv, KindInv, Turn, ChoiceTypes

\* The context in control, and the one it destroys: itself.
LEMMA InControl ==
  ASSUME IInv, NEW c \in Context, Has(c)
  PROVE  c \in Alive /\ at[c] # "dead" /\ c \notin wannaRun
  BY DEF IInv, TypeInv, WaitInv, Has

LEMMA TypesDestroyed ==
  ASSUME IInv, NEW c \in Context, Has(c), Destroyed(c),
         freeMsg' \in Buf \cup {NIL}, heap' \subseteq Buf,
         stmMsg' \in [Context -> Buf \cup {NIL}]
  PROVE  TypeInv' /\ KindInv'
<1>1. c \in Alive
  BY InControl
<1>2. /\ list' \in Seq(Context)
      /\ \A i, j \in DOMAIN list' : list'[i] = list'[j] => i = j
      /\ Alive' = Alive \ {c}
  BY <1>1, UnlinkedList DEF Destroyed, IInv
<1>3. In(c) \in Port /\ Reply(c) \in Port
  BY PortsApart
<1>4. queue' \in [Port -> Seq(Message)]
  <2>1. <<>> \in Seq(Message)
    OBVIOUS
  <2> QED BY <2>1, <1>3 DEF Destroyed, IInv, TypeInv
<1>5. DOMAIN exclusive = Space
  BY DEF IInv, TypeInv
<1>6. exclusive' = [s \in Space |-> IF exclusive[s] = c THEN NIL ELSE exclusive[s]]
  BY <1>5 DEF Destroyed
<1>7. exclusive' \in [Space -> Context \cup {NIL}]
  BY <1>6 DEF IInv, TypeInv
<1>8. loaded' \in Alive' \cup {NIL} /\ (loaded' # NIL => instance'.kind[loaded'] = "ps")
  <2>1. instance.kind[c] = "ps" \/ loaded # c
    BY AliveType, SchedulerAssumption DEF IInv, TypeInv, KindInv
  <2> QED BY <1>2, <2>1 DEF Destroyed, IInv, TypeInv, KindInv
<1>9. /\ at' \in [Context -> Points]
      /\ \A d \in Context : d \in Alive' <=> at'[d] # "dead"
  BY <1>2 DEF Destroyed, IInv, TypeInv, Points
<1>10. /\ wannaRun' \subseteq Alive' /\ waitMsg' \subseteq Alive' /\ waitNotify' \subseteq Alive'
       /\ printerContext' \subseteq Alive' /\ restricted' \subseteq Alive'
       /\ notified' \subseteq Alive' /\ dirtyShmem' \subseteq Alive' /\ enabled' \subseteq Port
       /\ owed' \subseteq Context
  BY <1>2 DEF Destroyed, IInv, TypeInv
<1>11. TypeInv'
  BY <1>2, <1>4, <1>7, <1>8, <1>9, <1>10 DEF Destroyed, IInv, TypeInv
<1>12. KindInv'
  BY <1>6, <1>8 DEF Destroyed, IInv, KindInv, TypeInv, Reading
<1> QED BY <1>11, <1>12

LEMMA TypesDie ==
  ASSUME IInv, NEW c \in Context, Has(c), Die(c)
  PROVE  TypeInv' /\ KindInv'
<1>1. stmMsg[c] \in Buf \cup {NIL}
  BY DEF IInv, TypeInv
<1>2. freeMsg' \in Buf \cup {NIL} /\ heap' \subseteq Buf
  BY <1>1, ReleaseTypes DEF Die, IInv, TypeInv
<1>3. stmMsg' \in [Context -> Buf \cup {NIL}] /\ Destroyed(c)
  BY DEF Die, IInv, TypeInv
<1> QED BY <1>2, <1>3, TypesDestroyed

LEMMA TypesResume ==
  ASSUME IInv, NEW c \in Context, Resume(c)
  PROVE  TypeInv' /\ KindInv'
<1>1. Has(c) /\ at[c] \in {"read", "rpc", "out", "slice", "wait"} /\ instance.kind[c] = "ps"
  BY DEF Resume, Has
<1>2. CASE c \in notified
  BY <1>1, <1>2, TypesDie DEF Resume, CheckNotify
<1>3. CASE c \notin notified
  <2>1. c \notin waitMsg
    BY <1>1, <1>3, NotWaiting DEF IInv, WaitInv
  <2>2. Alive' = Alive
    BY <1>3 DEF Alive, Resume, CheckNotify, schedVars
  <2>3. at[c] = "read" => slot[c] \in Buf /\ contents[slot[c]] \in Message
    BY <1>1, <2>1 DEF IInv, TypeInv, MsgInv, Answered, Asks
  <2>4. stmMsg' \in [Context -> Buf \cup {NIL}] /\ got' \in [Context -> Seq(Message)]
    <3>1. CASE at[c] = "read"
      <4>1. slot[c] # NIL
        BY <2>3, <3>1, SchedulerAssumption DEF Buf
      <4>2. /\ stmMsg' = [stmMsg EXCEPT ![c] = slot[c]]
            /\ got' = [got EXCEPT ![c] = Append(@, contents[slot[c]])]
        BY <3>1, <4>1, <1>3 DEF Resume, CheckNotify
      <4>3. got[c] \in Seq(Message) /\ Append(got[c], contents[slot[c]]) \in Seq(Message)
        BY <2>3, <3>1 DEF IInv, TypeInv
      <4> QED BY <4>2, <4>3, <2>3, <3>1 DEF IInv, TypeInv
    <3>2. CASE at[c] # "read"
      BY <3>2, <1>3 DEF Resume, CheckNotify, IInv, TypeInv
    <3> QED BY <3>1, <3>2
  <2>5. freeMsg' \in Buf \cup {NIL} /\ heap' \subseteq Buf
    <3>1. slot[c] \in Buf \cup {NIL}
      BY DEF IInv, TypeInv
    <3> QED BY <3>1, <1>3, ReleaseTypes DEF Resume, CheckNotify, IInv, TypeInv
  <2>6. at' = [at EXCEPT ![c] = "run"]
    BY <1>3 DEF Resume, CheckNotify
  <2> QED BY <1>1, <1>3, <2>2, <2>4, <2>5, <2>6
          DEF Resume, CheckNotify, IInv, TypeInv, KindInv, Points, Reading, schedVars, portVars, worldVars, ctxVars
<1> QED BY <1>2, <1>3

LEMMA AskPortTypes ==
  ASSUME IInv, NEW c \in Context, Has(c), NEW p \in Port, AskPort(c, p), UNCHANGED list
  PROVE  /\ enabled' \subseteq Port /\ inputPort' \in [Context -> Port \cup {NoMsg}]
         /\ restricted' \subseteq Alive' /\ waitMsg' \subseteq Alive'
         /\ slot' \in [Context -> Buf \cup {NIL}]
<1>1. Alive' = Alive /\ c \in Alive
  BY InControl DEF Alive
<1> QED BY <1>1 DEF AskPort, IInv, TypeInv

LEMMA AskNextTypes ==
  ASSUME IInv, NEW c \in Context, Has(c), NEW b \in Buf, contents[b] \in Message,
         AskNext(c, b), UNCHANGED list
  PROVE  /\ enabled' \subseteq Port /\ inputPort' \in [Context -> Port \cup {NoMsg}]
         /\ restricted' \subseteq Alive' /\ waitMsg' \subseteq Alive'
         /\ slot' \in [Context -> Buf \cup {NIL}]
         /\ freeMsg' \in Buf \cup {NIL} /\ heap' \subseteq Buf
<1>1. Alive' = Alive /\ c \in Alive
  BY InControl DEF Alive
<1>2. contents[b][1] \in Port
  BY DEF Message
<1>3. freeMsg' \in Buf \cup {NIL} /\ heap' \subseteq Buf
  BY ReleaseTypes DEF AskNext, IInv
<1>4. enabled' \subseteq Port /\ inputPort' \in [Context -> Port \cup {NoMsg}]
  BY <1>2 DEF AskNext, IInv, TypeInv
<1> QED BY <1>1, <1>3, <1>4 DEF AskNext, IInv, TypeInv

LEMMA RestrictTypes ==
  ASSUME IInv, NEW c \in Context, Has(c), RestrictInputPort(c), UNCHANGED list
  PROVE  enabled' \subseteq Port /\ restricted' \subseteq Alive'
<1>1. Alive' = Alive /\ c \in Alive
  BY InControl DEF Alive
<1> QED BY <1>1 DEF RestrictInputPort, IInv, TypeInv

LEMMA TypesOperator ==
  ASSUME IInv, NEW c \in Context, PSOperator(c)
  PROVE  TypeInv' /\ KindInv'
<1> USE DEF schedVars, portVars, bufVars, worldVars, ctxVars
<1>1. CASE FirstRead(c)
  <2>1. Has(c) /\ In(c) \in Port /\ AskPort(c, In(c)) /\ UNCHANGED list
    BY <1>1, PortsApart DEF FirstRead, At, Has
  <2>2. c \in Alive /\ Alive' = Alive
    BY <2>1, InControl DEF Alive
  <2>3. /\ enabled' \subseteq Port /\ inputPort' \in [Context -> Port \cup {NoMsg}]
        /\ restricted' \subseteq Alive' /\ waitMsg' \subseteq Alive'
        /\ slot' \in [Context -> Buf \cup {NIL}]
    BY <2>1, AskPortTypes
  <2> QED BY <1>1, <2>2, <2>3 DEF FirstRead, Suspend, At, IInv, TypeInv, KindInv, Points, Asks, Reading
<1>2. CASE Resume(c)
  BY <1>2, TypesResume
<1>3. CASE NextMessage(c)
  <2>1. Has(c) /\ at[c] = "run" /\ AskNext(c, stmMsg[c]) /\ UNCHANGED list
    BY <1>3 DEF NextMessage, At, Has
  <2>2. c \in Alive /\ Alive' = Alive
    BY <2>1, InControl DEF Alive
  <2>3. stmMsg[c] \in Buf /\ contents[stmMsg[c]] \in Message
    BY <2>1 DEF IInv, TypeInv, MsgInv, Reading
  <2>4. /\ enabled' \subseteq Port /\ inputPort' \in [Context -> Port \cup {NoMsg}]
        /\ restricted' \subseteq Alive' /\ waitMsg' \subseteq Alive'
        /\ slot' \in [Context -> Buf \cup {NIL}]
        /\ freeMsg' \in Buf \cup {NIL} /\ heap' \subseteq Buf
    BY <2>1, <2>3, AskNextTypes
  <2> QED BY <1>3, <2>1, <2>2, <2>4 DEF NextMessage, Suspend, IInv, TypeInv, KindInv, Points, Asks, Reading
<1>4. CASE YieldSlice(c)
  <2>1. Has(c) /\ at[c] = "run" /\ RestrictInputPort(c) /\ UNCHANGED list
    BY <1>4 DEF YieldSlice, At, Has
  <2>2. c \in Alive /\ Alive' = Alive
    BY <2>1, InControl DEF Alive
  <2>3. enabled' \subseteq Port /\ restricted' \subseteq Alive'
    BY <2>1, RestrictTypes
  <2>4. at' = [at EXCEPT ![c] = "slice"] /\ running' = FALSE /\ wannaRun' = wannaRun \cup {c}
    BY <1>4 DEF YieldSlice, Suspend
  <2>5. TypeInv'
    BY <1>4, <2>2, <2>3, <2>4 DEF YieldSlice, IInv, TypeInv, Points
  <2>6. KindInv'
    BY <1>4, <2>1, <2>4 DEF YieldSlice, IInv, TypeInv, KindInv, Reading
  <2> QED BY <2>5, <2>6
<1>5. CASE YieldWait(c)
  <2>1. Has(c) /\ at[c] = "run" /\ RestrictInputPort(c) /\ UNCHANGED list
    BY <1>5 DEF YieldWait, At, Has
  <2>2. c \in Alive /\ Alive' = Alive
    BY <2>1, InControl DEF Alive
  <2>3. enabled' \subseteq Port /\ restricted' \subseteq Alive'
    BY <2>1, RestrictTypes
  <2> QED BY <1>5, <2>1, <2>2, <2>3 DEF YieldWait, IInv, TypeInv, KindInv, Points, Asks, Reading
<1>6. ASSUME NEW d \in Context, PSMakeRunnable(c, d) PROVE TypeInv' /\ KindInv'
  <2>1. Alive' = Alive
    BY <1>6 DEF PSMakeRunnable, Alive
  <2> QED BY <1>6, <2>1 DEF PSMakeRunnable, IInv, TypeInv, KindInv
<1>7. CASE YieldOutput(c)
  <2>1. Has(c) /\ at[c] = "run" /\ RestrictInputPort(c) /\ UNCHANGED list
    BY <1>7 DEF YieldOutput, At, Has
  <2>2. c \in Alive /\ Alive' = Alive
    BY <2>1, InControl DEF Alive
  <2>3. enabled' \subseteq Port /\ restricted' \subseteq Alive'
    BY <2>1, RestrictTypes
  <2>4. at' = [at EXCEPT ![c] = "out"] /\ running' = FALSE /\ wannaRun' = wannaRun
    BY <1>7 DEF YieldOutput, Suspend
  <2>5. TypeInv'
    BY <1>7, <2>2, <2>3, <2>4 DEF YieldOutput, IInv, TypeInv, Points
  <2>6. KindInv'
    BY <1>7, <2>1, <2>4 DEF YieldOutput, IInv, TypeInv, KindInv, Reading
  <2> QED BY <2>5, <2>6
<1>8. CASE CallClient(c)
  <2>1. Has(c) /\ at[c] = "run" /\ Reply(c) \in Port /\ AskPort(c, Reply(c)) /\ UNCHANGED list
    BY <1>8, PortsApart DEF CallClient, At, Has
  <2>2. c \in Alive /\ Alive' = Alive
    BY <2>1, InControl DEF Alive
  <2>3. /\ enabled' \subseteq Port /\ inputPort' \in [Context -> Port \cup {NoMsg}]
        /\ restricted' \subseteq Alive' /\ waitMsg' \subseteq Alive'
        /\ slot' \in [Context -> Buf \cup {NIL}]
    BY <2>1, AskPortTypes
  <2> QED BY <1>8, <2>1, <2>2, <2>3 DEF CallClient, Suspend, IInv, TypeInv, KindInv, Points, Asks, Reading
<1>9. CASE SetPrinterContext(c)
  <2>1. Has(c) /\ Alive' = Alive
    BY <1>9 DEF SetPrinterContext, At, Has, Alive
  <2>2. c \in Alive
    BY <2>1, InControl
  <2> QED BY <1>9, <2>1, <2>2 DEF SetPrinterContext, IInv, TypeInv, KindInv
<1>10. CASE SaveOrRestore(c)
  <2>1. SpaceOf[c] \in Space /\ Alive' = Alive /\ "save" \in instance.ops
    BY <1>10 DEF SaveOrRestore, Alive, Space
  <2> QED BY <1>10, <2>1 DEF SaveOrRestore, IInv, TypeInv, KindInv
<1>11. CASE Quit(c)
  <2>1. Has(c) /\ Die(c)
    BY <1>11 DEF Quit, At, Has
  <2> QED BY <2>1, TypesDie
<1>12. ASSUME NEW w \in Context, WBChangeBitmap(c, w) PROVE TypeInv' /\ KindInv'
  <2>1. Alive' = Alive
    BY <1>12 DEF WBChangeBitmap, Alive
  <2> QED BY <1>12, <2>1 DEF WBChangeBitmap, IInv, TypeInv, KindInv
<1> QED BY <1>1, <1>2, <1>3, <1>4, <1>5, <1>6, <1>7, <1>8, <1>9, <1>10, <1>11, <1>12 DEF PSOperator

LEMMA TypesBitmap ==
  ASSUME IInv, NEW c \in Context, WBOperator(c)
  PROVE  TypeInv' /\ KindInv'
<1> USE DEF schedVars, portVars, bufVars, worldVars, ctxVars
<1>1. CASE WBStart(c)
  <2>1. Has(c) /\ In(c) \in Port /\ AskPort(c, In(c)) /\ UNCHANGED list
    BY <1>1, PortsApart DEF WBStart, At, Has
  <2>2. c \in Alive /\ Alive' = Alive
    BY <2>1, InControl DEF Alive
  <2>3. /\ enabled' \subseteq Port /\ inputPort' \in [Context -> Port \cup {NoMsg}]
        /\ restricted' \subseteq Alive' /\ waitMsg' \subseteq Alive'
        /\ slot' \in [Context -> Buf \cup {NIL}]
    BY <2>1, AskPortTypes
  <2> QED BY <1>1, <2>2, <2>3 DEF WBStart, Suspend, At, IInv, TypeInv, KindInv, Points, Asks, Reading
<1>2. CASE WBNotifyNewShmem(c)
  <2>1. Has(c) /\ at[c] = "wb" /\ AskPort(c, inputPort[c]) /\ UNCHANGED list
    BY <1>2 DEF WBNotifyNewShmem, At, Has
  <2>2. c \in Alive /\ Alive' = Alive
    BY <2>1, InControl DEF Alive
  <2>3. inputPort[c] \in Port
    BY <2>1, PortsApart DEF IInv, WaitInv, Asks, Wants
  <2>4. /\ enabled' \subseteq Port /\ inputPort' \in [Context -> Port \cup {NoMsg}]
        /\ restricted' \subseteq Alive' /\ waitMsg' \subseteq Alive'
        /\ slot' \in [Context -> Buf \cup {NIL}]
    BY <2>1, <2>3, AskPortTypes
  <2> QED BY <1>2, <2>1, <2>2, <2>4 DEF WBNotifyNewShmem, Suspend, IInv, TypeInv, KindInv, Points, Asks, Reading
<1>3. CASE WBDie(c)
  <2>1. Has(c) /\ Destroyed(c) /\ UNCHANGED <<freeMsg, heap, stmMsg>>
    BY <1>3 DEF WBDie, At, Has
  <2> QED BY <2>1, TypesDestroyed DEF IInv, TypeInv
<1>4. CASE WBHandle(c)
  <2>1. Has(c) /\ at[c] = "wb" /\ AskNext(c, slot[c]) /\ UNCHANGED list /\ slot[c] # NIL
        /\ c \notin notified \cup dirtyShmem
    BY <1>4 DEF WBHandle, At, Has
  <2>2. c \in Alive /\ Alive' = Alive
    BY <2>1, InControl DEF Alive
  <2>3. slot[c] \in Buf /\ contents[slot[c]] \in Message
    BY <2>1, NotWaiting DEF IInv, TypeInv, MsgInv, Answered, Asks
  <2>4. /\ enabled' \subseteq Port /\ inputPort' \in [Context -> Port \cup {NoMsg}]
        /\ restricted' \subseteq Alive' /\ waitMsg' \subseteq Alive'
        /\ slot' \in [Context -> Buf \cup {NIL}]
        /\ freeMsg' \in Buf \cup {NIL} /\ heap' \subseteq Buf
    BY <2>1, <2>3, AskNextTypes
  <2>5. got' \in [Context -> Seq(Message)]
    BY <1>4, <2>3 DEF WBHandle, IInv, TypeInv
  <2> QED BY <1>4, <2>1, <2>2, <2>4, <2>5 DEF WBHandle, Suspend, IInv, TypeInv, KindInv, Points, Asks, Reading
<1> QED BY <1>1, <1>2, <1>3, <1>4 DEF WBOperator

-----------------------------------------------------------------------------
(* Who waits for what.                                                      *)

\* Nothing that concerns d's waiting changes.
Quiet(d) ==
  /\ at'[d] = at[d] /\ inputPort'[d] = inputPort[d]
  /\ d \in waitMsg' <=> d \in waitMsg
  /\ d \in waitNotify' => d \in waitNotify
  /\ d \in restricted' <=> d \in restricted
  /\ In(d) \in enabled' <=> In(d) \in enabled
  /\ Reply(d) \in enabled' <=> Reply(d) \in enabled
  /\ d \in notified \cup dirtyShmem => d \in notified' \cup dirtyShmem'
  /\ d \in dirtyShmem' => at[d] = "wb"

LEMMA QuietWaits ==
  ASSUME NEW d \in Context, WaitInv(d), Quiet(d),
         d \in waitMsg' \/ (Has(d) => Has(d)'),
         d \in waitMsg' \cup waitNotify' /\ (d \in wannaRun' \/ Has(d)') => d \in notified' \cup dirtyShmem',
         Has(d)' => d \notin wannaRun'
  PROVE  WaitInv(d)'
<1>1. (at[d] \notin {"new", "dead"}) =>
        /\ inputPort[d] \in {In(d), Reply(d)}
        /\ (inputPort'[d] \in enabled' <=> inputPort[d] \in enabled)
  BY DEF WaitInv, Quiet
<1>2. at[d] \in Asks => at[d] \notin {"new", "dead"}
  BY DEF Asks
<1>3. Wants(d)' = Wants(d)
  BY DEF Wants, Quiet, In, Reply
<1>4. In(d)' = In(d) /\ Reply(d)' = Reply(d) /\ NoMsg' = NoMsg /\ Asks' = Asks
  BY DEF In, Reply, NoMsg, Asks
<1> QED BY <1>1, <1>2, <1>3, <1>4 DEF WaitInv, Quiet

\* Only c's ports are enabled or disabled.
OwnPorts(c) ==
  \A d \in Context \ {c} : /\ In(d) \in enabled' <=> In(d) \in enabled
                           /\ Reply(d) \in enabled' <=> Reply(d) \in enabled

Asked(c, p) ==
  /\ OwnPorts(c)
  /\ \A q \in {In(c), Reply(c)} : q \in enabled' <=> q = p
  /\ inputPort' = [inputPort EXCEPT ![c] = p]
  /\ restricted' = restricted \ {c}
  /\ waitMsg' = waitMsg \cup {c}

Silenced(c) ==
  /\ OwnPorts(c)
  /\ In(c) \notin enabled' /\ Reply(c) \notin enabled'
  /\ restricted' = restricted \cup {c}

LEMMA OwnInputPort ==
  ASSUME IInv, NEW c \in Context, at[c] # "dead"
  PROVE  inputPort[c] \in {In(c), Reply(c), NoMsg} /\ NoMsg \notin Port
<1>1. NoMsg \notin Port
  BY SchedulerAssumption DEF NoMsg, Port
<1> QED BY <1>1 DEF IInv, WaitInv

LEMMA AskPortAsks ==
  ASSUME IInv, NEW c \in Context, at[c] # "dead", NEW p \in {In(c), Reply(c)}, AskPort(c, p)
  PROVE  Asked(c, p)
<1>1. inputPort[c] \in {In(c), Reply(c), NoMsg} /\ NoMsg \notin Port
  BY OwnInputPort
<1>2. OwnPorts(c)
  BY <1>1, PortsApart DEF AskPort, OwnPorts
<1>3. \A q \in {In(c), Reply(c)} : q \in enabled' => q = p
  <2> SUFFICES ASSUME NEW q \in {In(c), Reply(c)}, q \in enabled', q # p PROVE FALSE
    OBVIOUS
  <2>1. q \in enabled /\ q # inputPort[c]
    BY DEF AskPort
  <2> QED BY <2>1 DEF IInv, WaitInv
<1> QED BY <1>2, <1>3 DEF AskPort, Asked

LEMMA AskNextAsks ==
  ASSUME IInv, NEW c \in Context, at[c] \notin {"new", "dead"}, NEW b, contents[b][1] = In(c),
         AskNext(c, b)
  PROVE  Asked(c, In(c))
<1>1. inputPort[c] \in {In(c), Reply(c)} /\ (c \in restricted <=> inputPort[c] \notin enabled)
  BY DEF IInv, WaitInv
<1>2. enabled' = (IF inputPort[c] # In(c) THEN enabled \ {inputPort[c]} ELSE enabled)
                  \cup (IF inputPort[c] # In(c) \/ c \in restricted THEN {In(c)} ELSE {})
  BY DEF AskNext
<1>3. OwnPorts(c)
  BY <1>1, <1>2, PortsApart DEF OwnPorts
<1>4. In(c) \in enabled'
  BY <1>1, <1>2
<1>5. Reply(c) \notin enabled'
  <2>1. Reply(c) \in enabled => Reply(c) = inputPort[c]
    BY DEF IInv, WaitInv
  <2>2. Reply(c) # In(c)
    BY PortsApart
  <2> QED BY <2>1, <2>2, <1>2
<1>6. /\ inputPort' = [inputPort EXCEPT ![c] = In(c)]
      /\ restricted' = restricted \ {c}
      /\ waitMsg' = waitMsg \cup {c}
  BY DEF AskNext
<1> QED BY <1>3, <1>4, <1>5, <1>6, PortsApart DEF Asked

LEMMA RestrictSilences ==
  ASSUME IInv, NEW c \in Context, at[c] \notin {"new", "dead"}, RestrictInputPort(c)
  PROVE  Silenced(c)
<1>1. /\ inputPort[c] \in {In(c), Reply(c)} /\ (c \in restricted <=> inputPort[c] \notin enabled)
      /\ \A p \in {In(c), Reply(c)} : p \in enabled => p = inputPort[c]
  BY DEF IInv, WaitInv
<1>2. CASE c \in restricted
  BY <1>1, <1>2 DEF RestrictInputPort, Silenced, OwnPorts
<1>3. CASE c \notin restricted
  <2>1. restricted' = restricted \cup {c} /\ enabled' = enabled \ {inputPort[c]}
    BY <1>3 DEF RestrictInputPort
  <2>2. OwnPorts(c)
    BY <2>1, <1>1, PortsApart DEF OwnPorts
  <2> QED BY <2>1, <2>2, <1>1 DEF Silenced
<1> QED BY <1>2, <1>3

\* c was in control; nothing changes for the others.
Alone(c) ==
  /\ cur' \in {c, NIL}
  /\ \A d \in Context \ {c} :
       /\ at'[d] = at[d] /\ inputPort'[d] = inputPort[d]
       /\ (d \in waitMsg' <=> d \in waitMsg)
       /\ (d \in waitNotify' <=> d \in waitNotify)
       /\ (d \in restricted' <=> d \in restricted)
       /\ (d \in wannaRun' <=> d \in wannaRun)
       /\ (d \in notified' <=> d \in notified)
       /\ (d \in dirtyShmem' <=> d \in dirtyShmem)
  /\ OwnPorts(c)

LEMMA AloneWaits ==
  ASSUME IInv, NEW c \in Context, Has(c), Alone(c), WaitInv(c)'
  PROVE  \A d \in Context : WaitInv(d)'
<1> SUFFICES ASSUME NEW d \in Context, d # c PROVE WaitInv(d)'
  OBVIOUS
<1>1. WaitInv(d)
  BY DEF IInv
<1>2. Quiet(d)
  BY <1>1 DEF Quiet, Alone, OwnPorts, WaitInv
<1>3. ~ Has(d) /\ ~ Has(d)'
  BY SchedulerAssumption DEF Has, Alone
<1>4. d \in waitMsg' \cup waitNotify' /\ d \in wannaRun' => d \in notified' \cup dirtyShmem'
  BY <1>1 DEF Alone, WaitInv
<1> QED BY <1>1, <1>2, <1>3, <1>4, QuietWaits

LEMMA WaitAsked ==
  ASSUME IInv, NEW c \in Context, Has(c), NEW point \in Asks,
         Asked(c, IF point = "rpc" THEN Reply(c) ELSE In(c)),
         Suspend(c, point, FALSE),
         c \notin waitNotify, UNCHANGED <<cur, waitNotify, notified>>,
         dirtyShmem' \subseteq dirtyShmem, dirtyShmem \ {c} \subseteq dirtyShmem',
         point # "wb" => c \notin dirtyShmem
  PROVE  \A d \in Context : WaitInv(d)'
<1>1. at' = [at EXCEPT ![c] = point] /\ running' = FALSE /\ wannaRun' = wannaRun
  BY DEF Suspend
<1>2. Alone(c)
  BY <1>1 DEF Alone, Asked, IInv, TypeInv, Has
<1>3. at'[c] = point /\ point \notin {"new", "dead"}
  BY <1>1 DEF IInv, TypeInv, Asks
<1>4. c \notin wannaRun
  BY InControl
<1>5. In(c)' = In(c) /\ Reply(c)' = Reply(c) /\ NoMsg' = NoMsg /\ Asks' = Asks
  BY DEF In, Reply, NoMsg, Asks
<1>6. Wants(c)' = IF point = "rpc" THEN Reply(c) ELSE In(c)
  BY <1>3, <1>5 DEF Wants
<1>7. /\ inputPort'[c] = (IF point = "rpc" THEN Reply(c) ELSE In(c))
      /\ inputPort'[c] \in enabled' /\ c \in waitMsg' /\ c \notin restricted'
      /\ \A q \in {In(c), Reply(c)} : q \in enabled' <=> q = inputPort'[c]
  BY DEF Asked, IInv, TypeInv
<1>8. ~ Has(c)' /\ c \notin wannaRun'
  BY <1>1, <1>4 DEF Has
<1>9. c \in dirtyShmem' => point = "wb"
  OBVIOUS
<1>10. WaitInv(c)'
  BY <1>3, <1>5, <1>6, <1>7, <1>8, <1>9 DEF WaitInv
<1> QED BY <1>2, <1>10, AloneWaits

LEMMA WaitSilenced ==
  ASSUME IInv, NEW c \in Context, Has(c), at[c] = "run", NEW point \in {"slice", "wait", "out"},
         Silenced(c), at' = [at EXCEPT ![c] = point], running' = FALSE,
         wannaRun' \ {c} = wannaRun \ {c}, waitNotify' \ {c} = waitNotify \ {c},
         c \in waitNotify' => point = "out" /\ c \notin wannaRun',
         UNCHANGED <<cur, waitMsg, inputPort, notified, dirtyShmem>>
  PROVE  \A d \in Context : WaitInv(d)'
<1>1. WaitInv(c)
  BY DEF IInv
<1>2. Alone(c)
  BY DEF Alone, Silenced, IInv, TypeInv, Has
<1>3. at'[c] = point /\ point \notin {"new", "dead"}
  BY DEF IInv, TypeInv
<1>4. ~ Has(c)' /\ c \notin waitMsg /\ c \notin dirtyShmem
  BY <1>1 DEF Has, WaitInv, Asks
<1>5. In(c)' = In(c) /\ Reply(c)' = Reply(c) /\ NoMsg' = NoMsg /\ Asks' = Asks
  BY DEF In, Reply, NoMsg, Asks
<1>6. inputPort'[c] \in {In(c), Reply(c)} /\ inputPort'[c] \notin enabled' /\ c \in restricted'
  BY <1>1 DEF Silenced, WaitInv
<1>7. In(c) \notin enabled' /\ Reply(c) \notin enabled' /\ point \notin Asks
  BY DEF Silenced, Asks
<1>8. WaitInv(c)'
  BY <1>3, <1>4, <1>5, <1>6, <1>7 DEF WaitInv
<1> QED BY <1>2, <1>8, AloneWaits

LEMMA WaitDestroyed ==
  ASSUME IInv, NEW c \in Context, Has(c), Destroyed(c)
  PROVE  \A d \in Context : WaitInv(d)'
<1>1. at'[c] = "dead" /\ c \notin waitMsg' \cup restricted' \cup waitNotify' \cup dirtyShmem' \cup wannaRun'
  BY DEF Destroyed, IInv, TypeInv
<1>2. In(c) \notin enabled' /\ Reply(c) \notin enabled'
  BY DEF Destroyed
<1>3. Alone(c)
  BY PortsApart DEF Alone, OwnPorts, Destroyed, IInv, TypeInv
<1>4. ~ Has(c)'
  BY DEF Destroyed, Has
<1>5. In(c)' = In(c) /\ Reply(c)' = Reply(c) /\ NoMsg' = NoMsg /\ Asks' = Asks /\ "dead" \notin Asks
  BY DEF In, Reply, NoMsg, Asks
<1>6. WaitInv(c)'
  BY <1>1, <1>2, <1>4, <1>5 DEF WaitInv
<1> QED BY <1>3, <1>6, AloneWaits

LEMMA WaitResume ==
  ASSUME IInv, NEW c \in Context, Resume(c)
  PROVE  \A d \in Context : WaitInv(d)'
<1>1. Has(c) /\ at[c] \in {"read", "rpc", "out", "slice", "wait"}
  BY DEF Resume, Has
<1>2. CASE c \in notified
  BY <1>1, <1>2, WaitDestroyed DEF Resume, CheckNotify, Die
<1>3. CASE c \notin notified
  <2>1. c \notin waitMsg /\ c \notin waitNotify /\ c \notin dirtyShmem
    BY <1>1, <1>3, NotWaiting DEF IInv, WaitInv
  <2>2. /\ at' = [at EXCEPT ![c] = "run"]
        /\ UNCHANGED <<cur, running, wannaRun, waitMsg, waitNotify, restricted, inputPort, enabled,
                       notified, dirtyShmem>>
    BY <1>3 DEF Resume, CheckNotify, portVars, ctxVars
  <2>3. Alone(c)
    BY <1>1, <2>2 DEF Alone, OwnPorts, Has, IInv, TypeInv
  <2>4. WaitInv(c) /\ at'[c] = "run"
    BY <2>2 DEF IInv, TypeInv
  <2>5. In(c)' = In(c) /\ Reply(c)' = Reply(c) /\ NoMsg' = NoMsg /\ Asks' = Asks /\ "run" \notin Asks
    BY DEF In, Reply, NoMsg, Asks
  <2>6. WaitInv(c)'
    BY <1>1, <2>1, <2>2, <2>4, <2>5 DEF WaitInv, Has
  <2> QED BY <1>1, <2>3, <2>6, AloneWaits
<1> QED BY <1>2, <1>3

\* d is made runnable; it waits for no message that does not come.
LEMMA WaitWoken ==
  ASSUME IInv, NEW c \in Context, Has(c), NEW w \in Context,
         at[w] = "wait" \/ (at[w] = "wb" /\ w \in dirtyShmem'),
         wannaRun' = wannaRun \cup {w},
         dirtyShmem' \in {dirtyShmem, dirtyShmem \cup {w}},
         at[w] = "wait" => dirtyShmem' = dirtyShmem,
         at[c] = "run",
         UNCHANGED <<cur, running, waitMsg, waitNotify, restricted, inputPort, enabled, at, notified>>
  PROVE  \A d \in Context : WaitInv(d)'
<1> SUFFICES ASSUME NEW d \in Context PROVE WaitInv(d)'
  OBVIOUS
<1>1. WaitInv(d)
  BY DEF IInv
<1>2. Quiet(d)
  BY <1>1 DEF Quiet, WaitInv
<1>3. Has(d)' <=> Has(d)
  BY DEF Has
<1>4. CASE d = w
  <2>1. d # c /\ ~ Has(d)
    BY <1>4 DEF Has
  <2>2. d \in waitMsg \cup waitNotify => d \in dirtyShmem'
    BY <1>1, <1>4 DEF WaitInv, Asks
  <2> QED BY <1>1, <1>2, <1>3, <2>1, <2>2, QuietWaits
<1>5. CASE d # w
  <2>1. d \in wannaRun' => d \in wannaRun
    BY <1>5
  <2>2. /\ d \in waitMsg' \cup waitNotify' /\ (d \in wannaRun' \/ Has(d)') => d \in notified' \cup dirtyShmem'
        /\ Has(d)' => d \notin wannaRun'
    BY <1>1, <1>3, <2>1 DEF WaitInv
  <2> QED BY <1>1, <1>2, <1>3, <2>2, QuietWaits
<1> QED BY <1>4, <1>5

LEMMA WaitSame ==
  ASSUME IInv, UNCHANGED <<cur, running, wannaRun, waitMsg, waitNotify, restricted, inputPort,
                           enabled, at, notified, dirtyShmem>>
  PROVE  \A d \in Context : WaitInv(d)'
<1> SUFFICES ASSUME NEW d \in Context PROVE WaitInv(d)'
  OBVIOUS
<1>1. WaitInv(d)
  BY DEF IInv
<1>2. Quiet(d) /\ (Has(d)' <=> Has(d))
  BY <1>1 DEF Quiet, WaitInv, Has
<1> QED BY <1>1, <1>2, QuietWaits DEF WaitInv

LEMMA WaitOperator ==
  ASSUME IInv, NEW c \in Context, PSOperator(c)
  PROVE  \A d \in Context : WaitInv(d)'
<1> USE DEF portVars, ctxVars
<1>0. ASSUME Has(c), at[c] \in {"new", "run"}
      PROVE  /\ c \notin waitNotify /\ c \notin dirtyShmem /\ at[c] # "dead" /\ c \notin wannaRun
             /\ at[c] = "run" => stmMsg[c] # NIL /\ contents[stmMsg[c]][1] = In(c)
  BY <1>0, InControl DEF IInv, WaitInv, MsgInv, Reading
<1>1. CASE FirstRead(c)
  <2>1. /\ Has(c) /\ at[c] = "new" /\ AskPort(c, In(c)) /\ Suspend(c, "read", FALSE)
        /\ UNCHANGED <<cur, waitNotify, notified, dirtyShmem>>
    BY <1>1 DEF FirstRead, At, Has
  <2>2. Asked(c, In(c))
    BY <2>1, AskPortAsks
  <2> QED BY <1>0, <2>1, <2>2, WaitAsked DEF Asks
<1>2. CASE Resume(c)
  BY <1>2, WaitResume
<1>3. CASE NextMessage(c)
  <2>1. /\ Has(c) /\ at[c] = "run" /\ AskNext(c, stmMsg[c]) /\ Suspend(c, "read", FALSE)
        /\ UNCHANGED <<cur, waitNotify, notified, dirtyShmem>>
    BY <1>3 DEF NextMessage, At, Has
  <2>2. Asked(c, In(c))
    BY <1>0, <2>1, AskNextAsks
  <2> QED BY <1>0, <2>1, <2>2, WaitAsked DEF Asks
<1>4. CASE YieldSlice(c)
  <2>1. /\ Has(c) /\ at[c] = "run" /\ RestrictInputPort(c) /\ Suspend(c, "slice", TRUE)
        /\ UNCHANGED <<cur, waitMsg, waitNotify, inputPort, notified, dirtyShmem>>
    BY <1>4 DEF YieldSlice, At, Has
  <2>2. Silenced(c)
    BY <2>1, RestrictSilences
  <2>3. c \notin waitNotify'
    BY <1>0, <2>1
  <2> QED BY <2>1, <2>2, <2>3, WaitSilenced DEF Suspend
<1>5. CASE YieldWait(c)
  <2>1. /\ Has(c) /\ at[c] = "run" /\ RestrictInputPort(c) /\ at' = [at EXCEPT ![c] = "wait"]
        /\ running' = FALSE /\ wannaRun' = wannaRun \ {c}
        /\ UNCHANGED <<cur, waitMsg, waitNotify, inputPort, notified, dirtyShmem>>
    BY <1>5 DEF YieldWait, At, Has
  <2>2. Silenced(c)
    BY <2>1, RestrictSilences
  <2>3. c \notin waitNotify'
    BY <1>0, <2>1
  <2> QED BY <2>1, <2>2, <2>3, WaitSilenced
<1>6. ASSUME NEW d \in Context, PSMakeRunnable(c, d) PROVE \A x \in Context : WaitInv(x)'
  <2>1. /\ Has(c) /\ at[c] = "run" /\ at[d] = "wait" /\ wannaRun' = wannaRun \cup {d}
        /\ UNCHANGED <<cur, running, waitMsg, waitNotify, restricted, inputPort, enabled, at,
                       notified, dirtyShmem>>
    BY <1>6 DEF PSMakeRunnable, At, Has
  <2> QED BY <2>1, WaitWoken
<1>7. CASE YieldOutput(c)
  <2>1. /\ Has(c) /\ at[c] = "run" /\ RestrictInputPort(c) /\ Suspend(c, "out", FALSE)
        /\ waitNotify' = waitNotify \cup {c}
        /\ UNCHANGED <<cur, waitMsg, inputPort, notified, dirtyShmem>>
    BY <1>7 DEF YieldOutput, At, Has
  <2>2. Silenced(c)
    BY <2>1, RestrictSilences
  <2>3. at' = [at EXCEPT ![c] = "out"] /\ running' = FALSE /\ wannaRun' = wannaRun
    BY <2>1 DEF Suspend
  <2> QED BY <1>0, <2>1, <2>2, <2>3, WaitSilenced
<1>8. CASE CallClient(c)
  <2>1. /\ Has(c) /\ at[c] = "run" /\ AskPort(c, Reply(c)) /\ Suspend(c, "rpc", FALSE)
        /\ UNCHANGED <<cur, waitNotify, notified, dirtyShmem>>
    BY <1>8 DEF CallClient, At, Has
  <2>2. Asked(c, Reply(c))
    BY <2>1, AskPortAsks
  <2> QED BY <1>0, <2>1, <2>2, WaitAsked DEF Asks
<1>9. CASE SetPrinterContext(c)
  BY <1>9, WaitSame DEF SetPrinterContext
<1>10. CASE SaveOrRestore(c)
  BY <1>10, WaitSame DEF SaveOrRestore
<1>11. CASE Quit(c)
  BY <1>11, WaitDestroyed DEF Quit, Die, At, Has
<1>12. ASSUME NEW w \in Context, WBChangeBitmap(c, w) PROVE \A x \in Context : WaitInv(x)'
  <2>1. /\ Has(c) /\ at[c] = "run" /\ at[w] = "wb" /\ wannaRun' = wannaRun \cup {w}
        /\ dirtyShmem' = dirtyShmem \cup {w}
        /\ UNCHANGED <<cur, running, waitMsg, waitNotify, restricted, inputPort, enabled, at, notified>>
    BY <1>12 DEF WBChangeBitmap, At, Has
  <2> QED BY <2>1, WaitWoken
<1> QED BY <1>1, <1>2, <1>3, <1>4, <1>5, <1>6, <1>7, <1>8, <1>9, <1>10, <1>11, <1>12 DEF PSOperator

LEMMA WaitBitmap ==
  ASSUME IInv, NEW c \in Context, WBOperator(c)
  PROVE  \A d \in Context : WaitInv(d)'
<1> USE DEF portVars, ctxVars
<1>0. ASSUME Has(c), at[c] \in {"new", "wb"}
      PROVE  /\ c \notin waitNotify /\ at[c] # "dead"
             /\ at[c] = "wb" => inputPort[c] = In(c)
  BY <1>0 DEF IInv, WaitInv, Asks, Wants
<1>1. CASE WBStart(c)
  <2>1. /\ Has(c) /\ at[c] = "new" /\ AskPort(c, In(c)) /\ Suspend(c, "wb", FALSE)
        /\ UNCHANGED <<cur, waitNotify, notified, dirtyShmem>>
    BY <1>1 DEF WBStart, At, Has
  <2>2. Asked(c, In(c))
    BY <2>1, AskPortAsks
  <2> QED BY <1>0, <2>1, <2>2, WaitAsked DEF Asks
<1>2. CASE WBNotifyNewShmem(c)
  <2>1. /\ Has(c) /\ at[c] = "wb" /\ AskPort(c, inputPort[c]) /\ Suspend(c, "wb", FALSE)
        /\ dirtyShmem' = dirtyShmem \ {c} /\ UNCHANGED <<cur, waitNotify, notified>>
    BY <1>2 DEF WBNotifyNewShmem, At, Has
  <2>2. Asked(c, In(c))
    BY <1>0, <2>1, AskPortAsks
  <2> QED BY <1>0, <2>1, <2>2, WaitAsked DEF Asks
<1>3. CASE WBDie(c)
  BY <1>3, WaitDestroyed DEF WBDie, At, Has
<1>4. CASE WBHandle(c)
  <2>1. /\ Has(c) /\ at[c] = "wb" /\ AskNext(c, slot[c]) /\ Suspend(c, "wb", FALSE)
        /\ c \notin notified \cup dirtyShmem
        /\ UNCHANGED <<cur, waitNotify, notified, dirtyShmem>>
    BY <1>4 DEF WBHandle, At, Has
  <2>2. contents[slot[c]][1] = In(c)
    BY <2>1, NotWaiting DEF IInv, MsgInv, Answered, Asks, Wants
  <2>3. Asked(c, In(c))
    BY <2>1, <2>2, AskNextAsks
  <2> QED BY <1>0, <2>1, <2>3, WaitAsked DEF Asks
<1> QED BY <1>1, <1>2, <1>3, <1>4 DEF WBOperator

LEMMA WaitOutside ==
  ASSUME IInv, NEW c \in Context, Send(c) \/ Answer(c) \/ Accept(c) \/ ClientDies(c)
  PROVE  \A d \in Context : WaitInv(d)'
  BY WaitSame DEF Send, Answer, Accept, ClientDies, world

LEMMA WaitData ==
  ASSUME IInv, NEW p, NEW c \in Context, NEW e \in Context, Delivers(p, c, e)
  PROVE  \A d \in Context : WaitInv(d)'
<1> SUFFICES ASSUME NEW d \in Context PROVE WaitInv(d)'
  OBVIOUS
<1>1. /\ ~ running /\ c \in waitMsg /\ inputPort[c] = p /\ at[c] \in Asks /\ p \in enabled
      /\ waitMsg' = waitMsg \ {c} /\ e \in wannaRun \cup {c}
      /\ UNCHANGED <<waitNotify, inputPort, at, notified, dirtyShmem>>
  BY DEF Delivers, ctxVars
<1>2. /\ cur' = e /\ running' = TRUE /\ wannaRun' = (wannaRun \cup {c}) \ {e}
      /\ IF e # c /\ c \notin restricted
         THEN restricted' = restricted \cup {c} /\ enabled' = enabled \ {p}
         ELSE UNCHANGED <<restricted, enabled>>
  BY <1>1, SchedulerAssumption DEF Delivers, Gives
<1>3. WaitInv(c) /\ WaitInv(d)
  BY DEF IInv
<1>4. p \in {In(c), Reply(c)} /\ c \notin restricted /\ at[c] \notin {"new", "dead"}
  BY <1>1, <1>3 DEF WaitInv, Asks
<1>5. ~ Has(d) /\ (Has(d)' <=> d = e)
  BY <1>1, <1>2 DEF Has
<1>6. CASE d = c
  <2>1. In(d)' = In(d) /\ Reply(d)' = Reply(d) /\ NoMsg' = NoMsg /\ Asks' = Asks /\ Wants(d)' = Wants(d)
    BY <1>1 DEF In, Reply, NoMsg, Asks, Wants
  <2>2. c \notin waitNotify
    BY <1>1, <1>3 DEF WaitInv, Asks
  <2>3. CASE e = c
    BY <1>1, <1>2, <1>3, <1>4, <1>5, <1>6, <2>1, <2>2, <2>3 DEF WaitInv
  <2>4. CASE e # c
    <3>1. c \in restricted' /\ In(c) \notin enabled' /\ Reply(c) \notin enabled' /\ inputPort[c] \notin enabled'
      BY <1>1, <1>2, <1>3, <1>4, <2>4 DEF WaitInv
    <3> QED BY <1>1, <1>2, <1>3, <1>4, <1>5, <1>6, <2>1, <2>2, <2>4, <3>1 DEF WaitInv
  <2> QED BY <2>3, <2>4
<1>7. CASE d # c
  <2>1. (In(d) \in enabled' <=> In(d) \in enabled) /\ (Reply(d) \in enabled' <=> Reply(d) \in enabled)
    BY <1>2, <1>4, <1>7, PortsApart
  <2>2. Quiet(d)
    BY <1>1, <1>2, <1>3, <1>7, <2>1 DEF Quiet, WaitInv
  <2>3. /\ d \in waitMsg' \cup waitNotify' /\ (d \in wannaRun' \/ Has(d)') => d \in notified' \cup dirtyShmem'
        /\ Has(d)' => d \notin wannaRun'
    BY <1>1, <1>2, <1>3, <1>5, <1>7 DEF WaitInv
  <2> QED BY <1>3, <1>5, <2>2, <2>3, QuietWaits
<1> QED BY <1>6, <1>7

LEMMA WaitTurn ==
  ASSUME IInv, NEW more, more \subseteq Alive, Turn(more),
         notified \subseteq notified', waitNotify' \subseteq waitNotify,
         \A c \in more : c \in notified' \/ (c \notin waitNotify' /\ c \in waitNotify)
  PROVE  \A d \in Context : WaitInv(d)'
<1> SUFFICES ASSUME NEW d \in Context PROVE WaitInv(d)'
  OBVIOUS
<1>1. ~ running /\ UNCHANGED <<waitMsg, inputPort, at, dirtyShmem>>
  BY DEF Turn
<1>2. UNCHANGED <<restricted, enabled>>
  BY DEF Turn, Gives, Sleep
<1>3. WaitInv(d)
  BY DEF IInv
<1>4. Quiet(d)
  BY <1>1, <1>2, <1>3 DEF Quiet, WaitInv
<1>5. /\ d \in wannaRun' \/ Has(d)' => d \in wannaRun \cup more
      /\ Has(d)' => d \notin wannaRun'
  BY <1>1 DEF Turn, Gives, Sleep, Has
<1>6. d \in more => d \in notified' \/ (d \notin waitNotify' /\ d \notin waitMsg)
  BY <1>3 DEF WaitInv, Asks
<1>7. d \in waitMsg' \cup waitNotify' /\ (d \in wannaRun' \/ Has(d)') => d \in notified' \cup dirtyShmem'
  BY <1>1, <1>3, <1>5, <1>6 DEF WaitInv
<1>8. ~ Has(d)
  BY <1>1 DEF Has
<1> QED BY <1>3, <1>4, <1>5, <1>7, <1>8, QuietWaits

-----------------------------------------------------------------------------
(* The messages in the buffers, and their users.                            *)

LEMMA AcquiredUnused ==
  ASSUME IInv, freeMsg # NIL \/ heap # {}
  PROVE  Acquired \in Buf /\ \A d \in Context : ~ InUse(d, Acquired)
<1>1. Acquired \in Buf /\ (Acquired = freeMsg \/ Acquired \in heap)
  BY AcquiredType DEF IInv
<1> QED BY <1>1 DEF IInv, BufInv

\* d's stream and slot are as they were.
SameMessages(d) ==
  /\ at'[d] = at[d] /\ stmMsg'[d] = stmMsg[d] /\ slot'[d] = slot[d]
  /\ d \in waitMsg' <=> d \in waitMsg

LEMMA SameMessagesUse ==
  ASSUME NEW d, SameMessages(d)
  PROVE  /\ Answered(d)' <=> Answered(d)
         /\ Wants(d)' = Wants(d)
         /\ \A b : InUse(d, b)' <=> InUse(d, b)
<1>1. (Answered(d)' <=> Answered(d)) /\ Wants(d)' = Wants(d)
  BY DEF SameMessages, Answered, Wants, Asks, In, Reply
<1> QED BY <1>1 DEF SameMessages, InUse

\* The contents of the buffers in use are as they were.
ContentsKept == \A d \in Context : \A b \in Buf : InUse(d, b) => contents'[b] = contents[b]

LEMMA SameMessagesKept ==
  ASSUME IInv, NEW d \in Context, SameMessages(d), ContentsKept
  PROVE  MsgInv(d)'
<1>1. MsgInv(d) /\ stmMsg[d] \in Buf \cup {NIL} /\ slot[d] \in Buf \cup {NIL}
  BY DEF IInv, TypeInv
<1>2. stmMsg[d] # NIL => contents'[stmMsg[d]] = contents[stmMsg[d]]
  BY <1>1 DEF ContentsKept, InUse
<1>3. Answered(d) => contents'[slot[d]] = contents[slot[d]]
  BY <1>1 DEF ContentsKept, InUse, MsgInv
<1>4. In(d)' = In(d) /\ Message' = Message /\ Reading' = Reading
  BY DEF In, Message, Reading, Port
<1> QED BY <1>1, <1>2, <1>3, <1>4, SameMessagesUse DEF MsgInv, SameMessages

LEMMA ReceivedKeeps ==
  ASSUME IInv, NEW m, NEW used, Received(m, used)
  PROVE  ContentsKept
<1>1. Acquired \in Buf /\ \A d \in Context : ~ InUse(d, Acquired)
  BY AcquiredUnused DEF Received
<1>2. \A b \in Buf : b # Acquired => contents'[b] = contents[b]
  BY DEF Received, IInv, TypeInv
<1> QED BY <1>1, <1>2 DEF ContentsKept

\* All but c are as they were.
OnlyMessagesOf(c) == ContentsKept /\ \A d \in Context \ {c} : SameMessages(d)

LEMMA BufKept ==
  ASSUME IInv, NEW c \in Context, OnlyMessagesOf(c), UNCHANGED <<freeMsg, heap>>,
         \A b \in Buf : InUse(c, b)' => InUse(c, b),
         stmMsg'[c] # NIL /\ Answered(c)' => stmMsg'[c] # slot'[c]
  PROVE  BufInv'
<1>1. ASSUME NEW d \in Context, NEW b \in Buf, InUse(d, b)' PROVE InUse(d, b)
  BY <1>1, SameMessagesUse DEF OnlyMessagesOf
<1>2. ASSUME NEW d \in Context, stmMsg'[d] # NIL, Answered(d)' PROVE stmMsg'[d] # slot'[d]
  <2>1. CASE d = c
    BY <1>2, <2>1
  <2>2. CASE d # c
    BY <1>2, <2>2, SameMessagesUse DEF OnlyMessagesOf, SameMessages, IInv, BufInv
  <2> QED BY <2>1, <2>2
<1>3. Buf' = Buf
  BY DEF Buf
<1> QED BY <1>1, <1>2, <1>3 DEF IInv, BufInv

LEMMA BufReleased ==
  ASSUME IInv, NEW c \in Context, OnlyMessagesOf(c), NEW b \in Buf, InUse(c, b), ReleaseMsg(b),
         \A a \in Buf : InUse(c, a)' => InUse(c, a) /\ a # b,
         stmMsg'[c] # NIL /\ Answered(c)' => stmMsg'[c] # slot'[c]
  PROVE  BufInv'
<1>1. ASSUME NEW d \in Context, NEW a \in Buf, InUse(d, a)' PROVE InUse(d, a) /\ a # b
  <2>1. CASE d = c
    BY <1>1, <2>1
  <2>2. CASE d # c
    <3>1. InUse(d, a)
      BY <1>1, <2>2, SameMessagesUse DEF OnlyMessagesOf
    <3> QED BY <3>1, <2>2 DEF IInv, BufInv
  <2> QED BY <2>1, <2>2
<1>2. ASSUME NEW d \in Context, stmMsg'[d] # NIL, Answered(d)' PROVE stmMsg'[d] # slot'[d]
  <2>1. CASE d = c
    BY <1>2, <2>1
  <2>2. CASE d # c
    BY <1>2, <2>2, SameMessagesUse DEF OnlyMessagesOf, SameMessages, IInv, BufInv
  <2> QED BY <2>1, <2>2
<1>3. Buf' = Buf
  BY DEF Buf
<1>4. b \notin heap /\ b # freeMsg /\ b # NIL
  BY SchedulerAssumption DEF IInv, BufInv, Buf
<1>5. freeMsg' \notin heap'
  BY <1>4, SchedulerAssumption DEF ReleaseMsg, IInv, BufInv, TypeInv, Buf
<1>6. ASSUME NEW d \in Context, NEW a \in Buf, InUse(d, a)' PROVE a \notin heap' /\ a # freeMsg'
  BY <1>1, <1>6 DEF ReleaseMsg, IInv, BufInv
<1> QED BY <1>1, <1>2, <1>3, <1>5, <1>6 DEF IInv, BufInv

MsgsInv == (\A d \in Context : MsgInv(d)) /\ BufInv

LEMMA MsgsSame ==
  ASSUME IInv, UNCHANGED <<at, stmMsg, slot, waitMsg, contents, freeMsg, heap>>
  PROVE  MsgsInv'
<1>1. ContentsKept /\ \A d \in Context : SameMessages(d)
  BY DEF ContentsKept, SameMessages
<1>2. \A d \in Context : MsgInv(d)'
  BY <1>1, SameMessagesKept
<1>3. \A d \in Context : \A b : InUse(d, b)' <=> InUse(d, b)
  BY <1>1, SameMessagesUse
<1>4. \A d \in Context : Answered(d)' <=> Answered(d)
  BY <1>1, SameMessagesUse
<1>5. BufInv'
  BY <1>3, <1>4 DEF IInv, BufInv, Buf
<1> QED BY <1>2, <1>5 DEF MsgsInv

LEMMA MsgsTurn ==
  ASSUME IInv, NEW more, Turn(more)
  PROVE  MsgsInv'
<1>1. PICK m : Received(m, FALSE)
  BY DEF Turn
<1>2. ContentsKept
  BY <1>1, ReceivedKeeps
<1>3. \A d \in Context : SameMessages(d)
  BY DEF Turn, SameMessages
<1>4. \A d \in Context : MsgInv(d)'
  BY <1>2, <1>3, SameMessagesKept
<1>5. /\ \A d \in Context : \A b : InUse(d, b)' <=> InUse(d, b)
      /\ \A d \in Context : Answered(d)' <=> Answered(d)
  BY <1>3, SameMessagesUse
<1>6. Acquired \in Buf /\ \A d \in Context : ~ InUse(d, Acquired)
  BY <1>1, AcquiredUnused DEF Received
<1>7. freeMsg' = Acquired /\ heap' = heap \ {Acquired}
  BY <1>1 DEF Received
<1>8. UNCHANGED <<stmMsg, slot>>
  BY DEF Turn
<1>9. Buf' = Buf
  BY DEF Buf
<1>10. ASSUME NEW d \in Context, NEW b \in Buf, InUse(d, b)' PROVE b \notin heap' /\ b # freeMsg'
  BY <1>5, <1>6, <1>7, <1>10 DEF IInv, BufInv
<1>11. BufInv'
  BY <1>5, <1>7, <1>8, <1>9, <1>10 DEF IInv, BufInv
<1> QED BY <1>4, <1>11 DEF MsgsInv

LEMMA MsgsData ==
  ASSUME IInv, NEW p, NEW c \in Context, NEW e \in Context, Delivers(p, c, e)
  PROVE  MsgsInv'
<1>1. Received(Head(queue[p]), TRUE) /\ (freeMsg # NIL \/ heap # {})
  BY DEF Delivers, Received
<1>2. ContentsKept
  BY <1>1, ReceivedKeeps
<1>3. \A d \in Context \ {c} : SameMessages(d)
  BY DEF Delivers, SameMessages, IInv, TypeInv
<1>4. Acquired \in Buf /\ \A d \in Context : ~ InUse(d, Acquired)
  BY <1>1, AcquiredUnused
<1>5. freeMsg' = NIL /\ heap' = heap \ {Acquired}
  BY <1>1 DEF Received
<1>6. slot'[c] = Acquired /\ at[c] \in Asks /\ at' = at /\ stmMsg' = stmMsg /\ waitMsg' = waitMsg \ {c} /\ c \in waitMsg
  BY DEF Delivers, IInv, TypeInv
<1>7. Answered(c)' /\ ~ Answered(c) /\ Wants(c)' = Wants(c)
  BY <1>6 DEF Answered, Wants, Asks, In, Reply
<1>8. Head(queue[p]) \in Message /\ Head(queue[p])[1] = Wants(c) /\ Head(queue[p])[2] # 0
  <2>1. p \in Port /\ queue[p] # <<>> /\ p = Wants(c) /\ queue[p] \in Seq(Message)
    BY DEF Delivers, IInv, TypeInv
  <2>2. Head(queue[p]) \in Message /\ Len(queue[p]) \in Nat /\ Head(queue[p]) = queue[p][1] /\ Len(queue[p]) >= 1
    BY <2>1, HeadTailProperties, LenProperties
  <2>3. p \in {In(c), Reply(c)}
    BY <2>1 DEF Wants
  <2>4. OrderInv(c) /\ 1 \in 1 .. Len(queue[p])
    BY <2>2 DEF IInv
  <2>5. p = In(c) => queue[p][1] = <<p, Taken(c) + 1>>
    BY <2>4 DEF OrderInv
  <2>6. p = Reply(c) => queue[p][1] = <<p, 1>>
    BY <2>4 DEF OrderInv
  <2>7. Taken(c) \in Nat
    <3>1. queue[In(c)] \in Seq(Message)
      BY PortsApart DEF IInv, TypeInv
    <3>2. Len(queue[In(c)]) \in Nat /\ sent[c] \in Nat
      BY <3>1, LenProperties DEF IInv, TypeInv
    <3> QED BY <3>2, <2>4 DEF Taken, OrderInv
  <2>8. queue[p][1][1] = p /\ queue[p][1][2] # 0
    BY <2>3, <2>5, <2>6, <2>7
  <2> QED BY <2>1, <2>2, <2>8
<1>9. contents'[Acquired] = Head(queue[p])
  <2>1. Head(queue[p]) # NoMsg
    BY <1>8 DEF NoMsg
  <2> QED BY <2>1, <1>1, <1>4 DEF Received, IInv, TypeInv
<1>10. stmMsg[c] # NIL => contents'[stmMsg[c]] = contents[stmMsg[c]]
  BY <1>2 DEF ContentsKept, InUse, IInv, TypeInv
<1>11. MsgInv(c)'
  <2>1. In(c)' = In(c) /\ Message' = Message /\ Reading' = Reading /\ Acquired # NIL
    BY <1>4, SchedulerAssumption DEF In, Message, Reading, Port, Buf
  <2>2. slot'[c] # NIL /\ contents'[slot'[c]] \in Message' /\ contents'[slot'[c]][1] = Wants(c)'
    BY <1>6, <1>7, <1>8, <1>9, <2>1
  <2>3. MsgInv(c)
    BY DEF IInv
  <2> QED BY <1>6, <1>10, <2>1, <2>2, <2>3 DEF MsgInv
<1>12. \A d \in Context : MsgInv(d)'
  BY <1>2, <1>3, <1>11, SameMessagesKept
<1>13. ASSUME NEW d \in Context, NEW b \in Buf, InUse(d, b)' PROVE InUse(d, b) \/ (d = c /\ b = Acquired)
  <2>1. CASE d = c
    BY <1>13, <2>1, <1>6 DEF InUse
  <2>2. CASE d # c
    BY <1>3, <1>13, <2>2, SameMessagesUse
  <2> QED BY <2>1, <2>2
<1>14. ASSUME NEW d \in Context, stmMsg'[d] # NIL, Answered(d)' PROVE stmMsg'[d] # slot'[d]
  <2>1. CASE d = c
    BY <1>4, <1>6, <1>14, <2>1 DEF InUse
  <2>2. CASE d # c
    BY <1>3, <1>14, <2>2, SameMessagesUse DEF SameMessages, IInv, BufInv
  <2> QED BY <2>1, <2>2
<1>15. Buf' = Buf /\ NIL \notin Buf
  BY SchedulerAssumption DEF Buf
<1>16. ASSUME NEW d \in Context, NEW b \in Buf, InUse(d, b)' PROVE b \notin heap' /\ b # freeMsg'
  BY <1>5, <1>13, <1>15, <1>16 DEF IInv, BufInv
<1>17. freeMsg' \notin heap'
  BY <1>5, <1>15 DEF IInv, TypeInv
<1>18. ASSUME NEW d \in Context, NEW f \in Context, NEW b \in Buf, InUse(d, b)', InUse(f, b)' PROVE d = f
  BY <1>4, <1>13, <1>18 DEF IInv, BufInv
<1>19. BufInv'
  BY <1>14, <1>15, <1>16, <1>17, <1>18 DEF BufInv
<1> QED BY <1>12, <1>19 DEF MsgsInv

LEMMA MsgsDie ==
  ASSUME IInv, NEW c \in Context, Has(c), Die(c)
  PROVE  MsgsInv'
<1>1. /\ at' = [at EXCEPT ![c] = "dead"] /\ stmMsg' = [stmMsg EXCEPT ![c] = NIL]
      /\ waitMsg' = waitMsg \ {c} /\ UNCHANGED <<slot, contents>>
  BY DEF Die, Destroyed
<1>2. at'[c] = "dead" /\ stmMsg'[c] = NIL
  BY <1>1 DEF IInv, TypeInv
<1>3. OnlyMessagesOf(c)
  BY <1>1 DEF OnlyMessagesOf, ContentsKept, SameMessages, IInv, TypeInv
<1>4. ~ Answered(c)' /\ Reading' = Reading /\ "dead" \notin Reading
  BY <1>2 DEF Answered, Asks, Reading
<1>5. MsgInv(c)'
  BY <1>2, <1>4 DEF MsgInv
<1>6. \A b \in Buf : ~ InUse(c, b)'
  BY <1>2, <1>4, SchedulerAssumption DEF InUse, Buf
<1>7. BufInv'
  <2>1. CASE stmMsg[c] = NIL
    <3>1. UNCHANGED <<freeMsg, heap>>
      BY <2>1 DEF Die
    <3> QED BY <3>1, <1>2, <1>3, <1>6, BufKept
  <2>2. CASE stmMsg[c] # NIL
    <3>1. stmMsg[c] \in Buf /\ ReleaseMsg(stmMsg[c]) /\ InUse(c, stmMsg[c])
      BY <2>2 DEF Die, IInv, TypeInv, InUse
    <3> QED BY <3>1, <1>2, <1>3, <1>6, BufReleased
  <2> QED BY <2>1, <2>2
<1>8. \A d \in Context : MsgInv(d)'
  BY <1>3, <1>5, SameMessagesKept DEF OnlyMessagesOf
<1> QED BY <1>7, <1>8 DEF MsgsInv

LEMMA MsgsResume ==
  ASSUME IInv, NEW c \in Context, Resume(c)
  PROVE  MsgsInv'
<1>1. Has(c) /\ at[c] \in {"read", "rpc", "out", "slice", "wait"}
  BY DEF Resume, Has
<1>2. CASE c \in notified
  BY <1>1, <1>2, MsgsDie DEF Resume, CheckNotify
<1>3. CASE c \notin notified
  <2>1. c \notin waitMsg
    BY <1>1, <1>3, NotWaiting DEF IInv, WaitInv
  <2>2. /\ at' = [at EXCEPT ![c] = "run"] /\ UNCHANGED <<waitMsg, slot, contents>>
        /\ stmMsg' = IF at[c] = "read" THEN [stmMsg EXCEPT ![c] = slot[c]] ELSE stmMsg
        /\ IF at[c] = "rpc" /\ slot[c] # NIL THEN ReleaseMsg(slot[c]) ELSE UNCHANGED <<freeMsg, heap>>
    BY <1>3 DEF Resume, CheckNotify
  <2>3. at'[c] = "run" /\ stmMsg'[c] = (IF at[c] = "read" THEN slot[c] ELSE stmMsg[c])
    BY <2>2 DEF IInv, TypeInv
  <2>4. OnlyMessagesOf(c)
    BY <2>2 DEF OnlyMessagesOf, ContentsKept, SameMessages, IInv, TypeInv
  <2>5. ~ Answered(c)' /\ Reading' = Reading /\ "run" \in Reading /\ In(c)' = In(c) /\ Message' = Message
    BY <2>3 DEF Answered, Asks, Reading, In, Message, Port
  <2>6. at[c] = "read" => Answered(c) /\ Wants(c) = In(c) /\ stmMsg[c] = NIL
    BY <2>1 DEF Answered, Asks, Wants, IInv, MsgInv, Reading
  <2>7. MsgInv(c) /\ slot[c] \in Buf \cup {NIL}
    BY DEF IInv, TypeInv
  <2>8. MsgInv(c)'
    <3>1. CASE at[c] = "read"
      BY <3>1, <2>2, <2>3, <2>5, <2>6, <2>7 DEF MsgInv
    <3>2. CASE at[c] # "read"
      <4>1. at[c] \in Reading
        BY <3>2, <1>1 DEF Reading
      <4> QED BY <3>2, <4>1, <2>2, <2>3, <2>5, <2>7 DEF MsgInv
    <3> QED BY <3>1, <3>2
  <2>9. \A b \in Buf : InUse(c, b)' => InUse(c, b)
    BY <2>3, <2>5, <2>6 DEF InUse
  <2>10. BufInv'
    <3>1. CASE at[c] = "rpc" /\ slot[c] # NIL
      <4>1. Answered(c) /\ InUse(c, slot[c]) /\ ReleaseMsg(slot[c]) /\ slot[c] \in Buf
        BY <3>1, <2>1, <2>2, <2>7 DEF Answered, Asks, InUse
      <4>2. stmMsg[c] # NIL => stmMsg[c] # slot[c]
        BY <4>1 DEF IInv, BufInv
      <4>3. stmMsg'[c] = stmMsg[c]
        BY <2>3, <3>1
      <4>4. \A a \in Buf : InUse(c, a)' => a # slot[c]
        BY <4>1, <4>2, <4>3, <2>5, SchedulerAssumption DEF InUse, Buf
      <4> QED BY <4>1, <4>4, <2>4, <2>5, <2>9, BufReleased
    <3>2. CASE ~ (at[c] = "rpc" /\ slot[c] # NIL)
      BY <3>2, <2>2, <2>4, <2>5, <2>9, BufKept
    <3> QED BY <3>1, <3>2
  <2>11. \A d \in Context : MsgInv(d)'
    BY <2>4, <2>8, SameMessagesKept DEF OnlyMessagesOf
  <2> QED BY <2>10, <2>11 DEF MsgsInv
<1> QED BY <1>2, <1>3

\* c waits, or goes on to another point of the same kind, and gives up nothing.
LEMMA MsgsMove ==
  ASSUME IInv, NEW c \in Context, NEW point, at' = [at EXCEPT ![c] = point],
         UNCHANGED <<stmMsg, contents, freeMsg, heap>>,
         \A d \in Context \ {c} : slot'[d] = slot[d] /\ (d \in waitMsg' <=> d \in waitMsg),
         point \in Asks => c \in waitMsg',
         at[c] \in Reading <=> point \in Reading
  PROVE  MsgsInv'
<1>1. OnlyMessagesOf(c) /\ at'[c] = point
  BY DEF OnlyMessagesOf, ContentsKept, SameMessages, IInv, TypeInv
<1>2. ~ Answered(c)' /\ Reading' = Reading /\ In(c)' = In(c) /\ Message' = Message
  BY <1>1 DEF Answered, Asks, Reading, In, Message, Port
<1>3. MsgInv(c)'
  BY <1>1, <1>2 DEF IInv, MsgInv
<1>4. \A b \in Buf : InUse(c, b)' => InUse(c, b)
  BY <1>2 DEF InUse
<1>5. BufInv'
  BY <1>1, <1>2, <1>4, BufKept
<1> QED BY <1>1, <1>3, <1>5, SameMessagesKept DEF OnlyMessagesOf, MsgsInv

\* c gives buffer b back and asks for the next message.
LEMMA MsgsNext ==
  ASSUME IInv, NEW c \in Context, NEW point \in {"read", "wb"}, at' = [at EXCEPT ![c] = point],
         NEW b \in Buf, InUse(c, b), AskNext(c, b), contents' = contents,
         stmMsg' = [stmMsg EXCEPT ![c] = NIL]
  PROVE  MsgsInv'
<1>1. /\ slot' = [slot EXCEPT ![c] = b] /\ waitMsg' = waitMsg \cup {c} /\ ReleaseMsg(b)
  BY DEF AskNext
<1>2. OnlyMessagesOf(c) /\ at'[c] = point /\ stmMsg'[c] = NIL /\ c \in waitMsg'
  BY <1>1 DEF OnlyMessagesOf, ContentsKept, SameMessages, IInv, TypeInv
<1>3. ~ Answered(c)' /\ Reading' = Reading /\ point \notin Reading
  BY <1>2 DEF Answered, Asks, Reading
<1>4. MsgInv(c)'
  BY <1>2, <1>3 DEF MsgInv
<1>5. \A a \in Buf : ~ InUse(c, a)'
  BY <1>2, <1>3, SchedulerAssumption DEF InUse, Buf
<1>6. BufInv'
  BY <1>1, <1>2, <1>3, <1>5, BufReleased
<1> QED BY <1>2, <1>4, <1>6, SameMessagesKept DEF OnlyMessagesOf, MsgsInv

LEMMA MsgsOperator ==
  ASSUME IInv, NEW c \in Context, PSOperator(c)
  PROVE  MsgsInv'
<1> USE DEF portVars, bufVars
<1>1. CASE FirstRead(c)
  <2>1. /\ at[c] = "new" /\ at' = [at EXCEPT ![c] = "read"] /\ waitMsg' = waitMsg \cup {c}
        /\ slot' = [slot EXCEPT ![c] = NIL] /\ UNCHANGED <<stmMsg, contents, freeMsg, heap>>
    BY <1>1 DEF FirstRead, At, AskPort, Suspend
  <2> QED BY <2>1, MsgsMove DEF Reading, Asks, IInv, TypeInv
<1>2. CASE Resume(c)
  BY <1>2, MsgsResume
<1>3. CASE NextMessage(c)
  <2>1. /\ at[c] = "run" /\ AskNext(c, stmMsg[c]) /\ stmMsg' = [stmMsg EXCEPT ![c] = NIL]
        /\ at' = [at EXCEPT ![c] = "read"] /\ contents' = contents
    BY <1>3 DEF NextMessage, At, Suspend
  <2>2. stmMsg[c] \in Buf /\ InUse(c, stmMsg[c])
    BY <2>1 DEF IInv, TypeInv, MsgInv, Reading, InUse
  <2> QED BY <2>1, <2>2, MsgsNext
<1>4. CASE YieldSlice(c)
  <2>1. /\ at[c] = "run" /\ at' = [at EXCEPT ![c] = "slice"]
        /\ UNCHANGED <<waitMsg, slot, stmMsg, contents, freeMsg, heap>>
    BY <1>4 DEF YieldSlice, At, Suspend
  <2> QED BY <2>1, MsgsMove DEF Reading, Asks
<1>5. CASE YieldWait(c)
  <2>1. /\ at[c] = "run" /\ at' = [at EXCEPT ![c] = "wait"]
        /\ UNCHANGED <<waitMsg, slot, stmMsg, contents, freeMsg, heap>>
    BY <1>5 DEF YieldWait, At
  <2> QED BY <2>1, MsgsMove DEF Reading, Asks
<1>6. ASSUME NEW d \in Context, PSMakeRunnable(c, d) PROVE MsgsInv'
  BY <1>6, MsgsSame DEF PSMakeRunnable
<1>7. CASE YieldOutput(c)
  <2>1. /\ at[c] = "run" /\ at' = [at EXCEPT ![c] = "out"]
        /\ UNCHANGED <<waitMsg, slot, stmMsg, contents, freeMsg, heap>>
    BY <1>7 DEF YieldOutput, At, Suspend
  <2> QED BY <2>1, MsgsMove DEF Reading, Asks
<1>8. CASE CallClient(c)
  <2>1. /\ at[c] = "run" /\ at' = [at EXCEPT ![c] = "rpc"] /\ waitMsg' = waitMsg \cup {c}
        /\ slot' = [slot EXCEPT ![c] = NIL] /\ UNCHANGED <<stmMsg, contents, freeMsg, heap>>
    BY <1>8 DEF CallClient, At, AskPort, Suspend
  <2> QED BY <2>1, MsgsMove DEF Reading, Asks, IInv, TypeInv
<1>9. CASE SetPrinterContext(c)
  BY <1>9, MsgsSame DEF SetPrinterContext
<1>10. CASE SaveOrRestore(c)
  BY <1>10, MsgsSame DEF SaveOrRestore
<1>11. CASE Quit(c)
  BY <1>11, MsgsDie DEF Quit, At, Has
<1>12. ASSUME NEW w \in Context, WBChangeBitmap(c, w) PROVE MsgsInv'
  BY <1>12, MsgsSame DEF WBChangeBitmap
<1> QED BY <1>1, <1>2, <1>3, <1>4, <1>5, <1>6, <1>7, <1>8, <1>9, <1>10, <1>11, <1>12 DEF PSOperator

LEMMA MsgsBitmap ==
  ASSUME IInv, NEW c \in Context, WBOperator(c)
  PROVE  MsgsInv'
<1> USE DEF portVars, bufVars
<1>1. CASE WBStart(c)
  <2>1. /\ at[c] = "new" /\ at' = [at EXCEPT ![c] = "wb"] /\ waitMsg' = waitMsg \cup {c}
        /\ slot' = [slot EXCEPT ![c] = NIL] /\ UNCHANGED <<stmMsg, contents, freeMsg, heap>>
    BY <1>1 DEF WBStart, At, AskPort, Suspend
  <2> QED BY <2>1, MsgsMove DEF Reading, Asks, IInv, TypeInv
<1>2. CASE WBNotifyNewShmem(c)
  <2>1. /\ at[c] = "wb" /\ at' = [at EXCEPT ![c] = "wb"] /\ waitMsg' = waitMsg \cup {c}
        /\ slot' = [slot EXCEPT ![c] = NIL] /\ UNCHANGED <<stmMsg, contents, freeMsg, heap>>
    BY <1>2 DEF WBNotifyNewShmem, At, AskPort, Suspend
  <2> QED BY <2>1, MsgsMove DEF Reading, Asks, IInv, TypeInv
<1>3. CASE WBDie(c)
  <2>1. Has(c) /\ at[c] = "wb" /\ Destroyed(c) /\ UNCHANGED <<freeMsg, heap, stmMsg>>
    BY <1>3 DEF WBDie, At, Has
  <2>2. stmMsg[c] = NIL
    BY <2>1 DEF IInv, MsgInv, Reading
  <2>3. stmMsg' = [stmMsg EXCEPT ![c] = NIL]
    BY <2>1, <2>2 DEF IInv, TypeInv
  <2> QED BY <2>1, <2>2, <2>3, MsgsDie DEF Die
<1>4. CASE WBHandle(c)
  <2>1. /\ Has(c) /\ at[c] = "wb" /\ AskNext(c, slot[c]) /\ slot[c] # NIL
        /\ c \notin notified \cup dirtyShmem
        /\ at' = [at EXCEPT ![c] = "wb"] /\ UNCHANGED <<contents, stmMsg>>
    BY <1>4 DEF WBHandle, At, Has, Suspend
  <2>2. Answered(c)
    BY <2>1, NotWaiting DEF IInv, Answered, Asks
  <2>3. slot[c] \in Buf /\ InUse(c, slot[c])
    BY <2>1, <2>2 DEF IInv, TypeInv, InUse
  <2>4. stmMsg[c] = NIL
    BY <2>1 DEF IInv, MsgInv, Reading
  <2>5. stmMsg' = [stmMsg EXCEPT ![c] = NIL]
    BY <2>1, <2>4 DEF IInv, TypeInv
  <2> QED BY <2>1, <2>3, <2>5, MsgsNext
<1> QED BY <1>1, <1>2, <1>3, <1>4 DEF WBOperator

LEMMA MsgsOutside ==
  ASSUME IInv, NEW c \in Context, Send(c) \/ Answer(c) \/ Accept(c) \/ ClientDies(c)
  PROVE  MsgsInv'
  BY MsgsSame DEF Send, Answer, Accept, ClientDies, world

-----------------------------------------------------------------------------
(* The order of the messages.                                               *)

LEMMA OrderTypes ==
  ASSUME TypeInv, NEW d \in Context
  PROVE  /\ In(d) \in Port /\ Reply(d) \in Port /\ In(d) # Reply(d)
         /\ queue[In(d)] \in Seq(Message) /\ Len(queue[In(d)]) \in Nat
         /\ queue[Reply(d)] \in Seq(Message) /\ Len(queue[Reply(d)]) \in Nat
         /\ sent[d] \in Nat
         /\ got[d] \in Seq(Message) /\ Len(got[d]) \in Nat
         /\ \A i \in 1 .. Len(got[d]) : got[d][i][2] \in Nat
<1>1. In(d) \in Port /\ Reply(d) \in Port /\ In(d) # Reply(d)
  BY PortsApart
<1>2. queue[In(d)] \in Seq(Message) /\ queue[Reply(d)] \in Seq(Message)
      /\ sent[d] \in Nat /\ got[d] \in Seq(Message)
  BY <1>1 DEF TypeInv
<1>3. \A i \in 1 .. Len(got[d]) : got[d][i] \in Message
  BY <1>2, ElementOfSeq
<1>4. \A i \in 1 .. Len(got[d]) : got[d][i][2] \in Nat
  BY <1>3 DEF Message
<1> QED BY <1>1, <1>2, <1>4, LenProperties

\* Nothing was sent to d, taken by it or handled.
Undisturbed(d) ==
  /\ queue'[In(d)] = queue[In(d)] /\ queue'[Reply(d)] = queue[Reply(d)]
  /\ sent'[d] = sent[d] /\ got'[d] = got[d] /\ instance' = instance
  /\ Pending(d)' => Pending(d) /\ contents'[slot'[d]] = contents[slot[d]]
  /\ instance.kind[d] = "ps" /\ at'[d] # "dead" => at[d] # "dead" /\ (Pending(d) => Pending(d)')

LEMMA OrderUndisturbed ==
  ASSUME IInv, NEW d \in Context, Undisturbed(d)
  PROVE  OrderInv(d)'
<1>1. In(d)' = In(d) /\ Reply(d)' = Reply(d) /\ Taken(d)' = Taken(d)
  BY DEF In, Reply, Taken, Undisturbed
<1>2. OrderInv(d)
  BY DEF IInv
<1> QED BY <1>1, <1>2 DEF Undisturbed, OrderInv

LEMMA OrderKept ==
  ASSUME IInv, NEW d \in Context, SameMessages(d), ContentsKept,
         queue'[In(d)] = queue[In(d)], queue'[Reply(d)] = queue[Reply(d)],
         sent'[d] = sent[d], got'[d] = got[d], instance' = instance
  PROVE  OrderInv(d)'
<1>1. Pending(d)' <=> Pending(d)
  BY SameMessagesUse DEF Pending, In
<1>2. Pending(d) => contents'[slot[d]] = contents[slot[d]]
  BY DEF ContentsKept, InUse, Pending, IInv, TypeInv, MsgInv
<1>3. Undisturbed(d)
  BY <1>1, <1>2 DEF Undisturbed, SameMessages
<1> QED BY <1>3, OrderUndisturbed

\* c moves, and what it had been given is over.
LEMMA OrderMoves ==
  ASSUME IInv, NEW c \in Context, at[c] # "dead", OnlyMessagesOf(c), ~ Pending(c)',
         ~ Pending(c) \/ instance.kind[c] = "wb",
         UNCHANGED <<queue, sent, got, instance>>
  PROVE  \A d \in Context : OrderInv(d)'
<1>1. Undisturbed(c)
  BY DEF Undisturbed
<1>2. \A d \in Context \ {c} : OrderInv(d)'
  BY OrderKept DEF OnlyMessagesOf
<1> QED BY <1>1, <1>2, OrderUndisturbed

LEMMA OrderTurn ==
  ASSUME IInv, NEW more, Turn(more)
  PROVE  \A d \in Context : OrderInv(d)'
<1>1. ContentsKept
  BY ReceivedKeeps DEF Turn
<1>2. \A d \in Context : SameMessages(d)
  BY DEF Turn, SameMessages
<1> QED BY <1>1, <1>2, OrderKept DEF Turn

\* Something is added at the end of a queue, or taken from its front.
LEMMA OrderOther ==
  ASSUME IInv, NEW c \in Context, OnlyMessagesOf(c), instance' = instance,
         NEW p \in {In(c), Reply(c)}, NEW q, queue' = [queue EXCEPT ![p] = q],
         \A d \in Context \ {c} : sent'[d] = sent[d] /\ got'[d] = got[d],
         OrderInv(c)'
  PROVE  \A d \in Context : OrderInv(d)'
<1>1. \A d \in Context \ {c} : queue'[In(d)] = queue[In(d)] /\ queue'[Reply(d)] = queue[Reply(d)]
  BY PortsApart DEF IInv, TypeInv
<1> QED BY <1>1, OrderKept DEF OnlyMessagesOf

LEMMA OrderSent ==
  ASSUME IInv, NEW c \in Context, Send(c) \/ Answer(c) \/ Accept(c) \/ ClientDies(c)
  PROVE  \A d \in Context : OrderInv(d)'
<1>0. OnlyMessagesOf(c) /\ instance' = instance /\ SameMessages(c) /\ ContentsKept
  BY DEF OnlyMessagesOf, ContentsKept, SameMessages, Send, Answer, Accept, ClientDies, world
<1>1. CASE Accept(c) \/ ClientDies(c)
  BY <1>0, <1>1, OrderKept DEF Accept, ClientDies, world, OnlyMessagesOf
<1>2. OrderInv(c)
  BY DEF IInv
<1>3. In(c)' = In(c) /\ Reply(c)' = Reply(c) /\ (Pending(c)' <=> Pending(c))
  BY <1>0, SameMessagesUse DEF Pending, In, Reply
<1>4. CASE Send(c)
  <2> DEFINE n == Len(queue[In(c)])
             m == <<In(c), sent[c] + 1>>
  <2>1. sent' = [sent EXCEPT ![c] = @ + 1] /\ queue' = [queue EXCEPT ![In(c)] = Append(@, m)]
        /\ UNCHANGED <<got, at, contents, slot>>
    BY <1>4 DEF Send, world
  <2>2. queue[In(c)] \in Seq(Message) /\ n \in Nat /\ sent[c] \in Nat /\ In(c) \in Port /\ Reply(c) \in Port
        /\ In(c) # Reply(c)
    BY OrderTypes DEF IInv
  <2>3. sent'[c] = sent[c] + 1 /\ queue'[In(c)] = Append(queue[In(c)], m) /\ queue'[Reply(c)] = queue[Reply(c)]
    BY <2>1, <2>2 DEF IInv, TypeInv
  <2>4. m \in Message
    BY <2>2 DEF Message
  <2>5. /\ Len(queue'[In(c)]) = n + 1
        /\ \A i \in 1 .. n : queue'[In(c)][i] = queue[In(c)][i]
        /\ queue'[In(c)][n + 1] = m
    BY <2>2, <2>3, <2>4, AppendProperties
  <2>6. Taken(c)' = Taken(c)
    <3>1. Taken(c)' = sent'[c] - Len(queue'[In(c)])
      BY <1>3 DEF Taken
    <3>2. sent'[c] - Len(queue'[In(c)]) = (sent[c] + 1) - (n + 1)
      BY <2>3, <2>5
    <3>3. (sent[c] + 1) - (n + 1) = sent[c] - n
      BY <2>2
    <3> QED BY <3>1, <3>2, <3>3 DEF Taken
  <2>7. Taken(c) + (n + 1) = sent[c] + 1
    BY <2>2 DEF Taken
  <2>8. \A i \in 1 .. n + 1 : queue'[In(c)][i] = <<In(c), Taken(c) + i>>
    <3>1. \A i \in 1 .. n : queue[In(c)][i] = <<In(c), Taken(c) + i>>
      BY <1>2 DEF OrderInv
    <3>2. queue'[In(c)][n + 1] = <<In(c), Taken(c) + (n + 1)>>
      BY <2>5, <2>7
    <3>3. \A i \in 1 .. n + 1 : i \in 1 .. n \/ i = n + 1
      BY <2>2
    <3> QED BY <2>5, <3>1, <3>2, <3>3
  <2>9. n + 1 <= sent[c] + 1
    BY <1>2, <2>2 DEF OrderInv
  <2>10. Pending(c) => contents'[slot'[c]] = contents[slot[c]]
    BY <2>1
  <2>11. OrderInv(c)'
    BY <1>0, <1>2, <1>3, <2>1, <2>3, <2>5, <2>6, <2>8, <2>9, <2>10 DEF OrderInv
  <2>12. \A d \in Context \ {c} : sent'[d] = sent[d] /\ got'[d] = got[d]
    BY <2>1 DEF IInv, TypeInv
  <2> QED BY <1>0, <2>1, <2>11, <2>12, OrderOther
<1>5. CASE Answer(c)
  <2>1. queue' = [queue EXCEPT ![Reply(c)] = <<<<Reply(c), 1>>>>] /\ UNCHANGED <<sent, got, at, contents, slot>>
    BY <1>5 DEF Answer, world
  <2>2. In(c) \in Port /\ Reply(c) \in Port /\ In(c) # Reply(c)
    BY PortsApart
  <2>3. queue'[In(c)] = queue[In(c)] /\ queue'[Reply(c)] = <<<<Reply(c), 1>>>>
    BY <2>1, <2>2 DEF IInv, TypeInv
  <2>4. \A i \in 1 .. Len(queue'[Reply(c)]) : queue'[Reply(c)][i] = <<Reply(c), 1>>
    BY <2>3
  <2>5. Taken(c)' = Taken(c)
    BY <1>3, <2>1, <2>3 DEF Taken
  <2>6. OrderInv(c)'
    BY <1>0, <1>2, <1>3, <2>1, <2>3, <2>4, <2>5 DEF OrderInv
  <2> QED BY <1>0, <2>1, <2>6, OrderOther
<1> QED BY <1>1, <1>4, <1>5

LEMMA OrderData ==
  ASSUME IInv, NEW p, NEW c \in Context, NEW e \in Context, Delivers(p, c, e)
  PROVE  \A d \in Context : OrderInv(d)'
<1>1. /\ c \in waitMsg /\ p = Wants(c) /\ at[c] \in Asks /\ p \in Port /\ queue[p] # <<>>
      /\ queue' = [queue EXCEPT ![p] = Tail(@)] /\ Received(Head(queue[p]), TRUE)
      /\ waitMsg' = waitMsg \ {c} /\ slot' = [slot EXCEPT ![c] = Acquired]
      /\ UNCHANGED <<at, stmMsg, sent, got, instance>>
  BY DEF Delivers
<1>2. ContentsKept /\ Acquired \in Buf
  BY <1>1, ReceivedKeeps, AcquiredUnused DEF Received
<1>3. OnlyMessagesOf(c)
  BY <1>1, <1>2 DEF OnlyMessagesOf, SameMessages, IInv, TypeInv
<1>4. /\ In(c)' = In(c) /\ Reply(c)' = Reply(c) /\ Asks' = Asks /\ Wants(c)' = Wants(c)
      /\ p \in {In(c), Reply(c)} /\ OrderInv(c)
  BY <1>1 DEF In, Reply, Asks, Wants, IInv
<1>5. ~ Pending(c) /\ (Pending(c)' <=> p = In(c))
  BY <1>1, <1>4 DEF Pending, Answered
<1> DEFINE n == Len(queue[p])
<1>6. /\ queue[p] \in Seq(Message) /\ n \in Nat /\ n >= 1 /\ Head(queue[p]) = queue[p][1]
      /\ Head(queue[p]) \in Message
      /\ Len(Tail(queue[p])) = n - 1 /\ \A i \in 1 .. n - 1 : Tail(queue[p])[i] = queue[p][i + 1]
  <2>1. queue[p] \in Seq(Message)
    BY <1>1 DEF IInv, TypeInv
  <2>2. n \in Nat /\ n >= 1
    BY <2>1, <1>1, LenProperties, EmptySeq
  <2> QED BY <1>1, <2>1, <2>2, HeadTailProperties
<1> HIDE DEF n
<1>7. /\ queue[In(c)] \in Seq(Message) /\ Len(queue[In(c)]) \in Nat /\ sent[c] \in Nat /\ In(c) # Reply(c)
      /\ In(c) \in Port /\ Reply(c) \in Port /\ Len(got[c]) \in Nat
      /\ \A i \in 1 .. Len(got[c]) : got[c][i][2] \in Nat
  BY OrderTypes DEF IInv
<1>8. at[c] # "dead"
  BY <1>1 DEF Asks
<1>9. CASE p = Reply(c)
  <2>1. queue'[In(c)] = queue[In(c)] /\ queue'[Reply(c)] = Tail(queue[p])
    BY <1>1, <1>7, <1>9 DEF IInv, TypeInv
  <2>2. \A i \in 1 .. n - 1 : Tail(queue[p])[i] = <<Reply(c), 1>>
    BY <1>4, <1>6, <1>9 DEF OrderInv, n
  <2>3. Taken(c)' = Taken(c) /\ ~ Pending(c)'
    BY <1>1, <1>4, <1>5, <1>7, <1>9, <2>1 DEF Taken
  <2>4. \A i \in 1 .. Len(queue'[Reply(c)]) : queue'[Reply(c)][i] = <<Reply(c), 1>>
    BY <1>6, <2>1, <2>2
  <2>5. OrderInv(c)'
    BY <1>1, <1>4, <1>5, <2>1, <2>3, <2>4 DEF OrderInv
  <2> QED BY <1>1, <1>3, <1>9, <2>5, OrderOther
<1>10. CASE p = In(c)
  <2>1. queue'[In(c)] = Tail(queue[p]) /\ queue'[Reply(c)] = queue[Reply(c)] /\ Pending(c)'
    BY <1>1, <1>5, <1>7, <1>10 DEF IInv, TypeInv
  <2>2. Len(queue'[In(c)]) = n - 1 /\ Taken(c) = sent[c] - n /\ Taken(c)' = sent[c] - (n - 1)
        /\ n <= sent[c]
    BY <1>1, <1>4, <1>6, <1>10, <2>1 DEF Taken, OrderInv, n
  <2>3. Taken(c) \in Nat /\ Taken(c)' = Taken(c) + 1
    BY <1>6, <1>7, <2>2
  <2>4. \A i \in 1 .. n - 1 : queue'[In(c)][i] = <<In(c), Taken(c)' + i>>
    <3> TAKE i \in 1 .. n - 1
    <3>1. i + 1 \in 1 .. n /\ Tail(queue[p])[i] = queue[p][i + 1]
      BY <1>6
    <3>2. queue[p][i + 1] = <<In(c), Taken(c) + (i + 1)>>
      BY <1>4, <1>10, <3>1 DEF OrderInv, n
    <3>3. Taken(c) + (i + 1) = Taken(c)' + i
      BY <2>3
    <3> QED BY <2>1, <3>1, <3>2, <3>3
  <2>5. Head(queue[p]) = <<In(c), Taken(c)'>>
    <3>1. 1 \in 1 .. n
      BY <1>6
    <3>2. queue[p][1] = <<In(c), Taken(c) + 1>>
      BY <1>4, <1>10, <3>1 DEF OrderInv, n
    <3> QED BY <1>6, <2>3, <3>2
  <2>6. contents'[slot'[c]] = <<In(c), Taken(c)'>>
    <3>1. Head(queue[p]) # NoMsg
      BY <2>3, <2>5 DEF NoMsg
    <3>2. contents'[Acquired] = Head(queue[p])
      BY <1>1, <1>2, <3>1 DEF Received, IInv, TypeInv
    <3>3. slot'[c] = Acquired
      BY <1>1 DEF IInv, TypeInv
    <3> QED BY <2>5, <3>2, <3>3
  <2>7. \A i \in 1 .. Len(got[c]) : got[c][i][2] <= Taken(c)' /\ got[c][i][2] < Taken(c)'
    <3>1. \A i \in 1 .. Len(got[c]) : got[c][i][2] <= Taken(c)
      BY <1>4 DEF OrderInv
    <3> QED BY <1>7, <2>3, <3>1
  <2>8. instance.kind[c] = "ps" => Taken(c)' = Len(got[c]) + 1
    BY <1>4, <1>5, <1>7, <1>8, <2>3 DEF OrderInv
  <2>9. Len(queue'[In(c)]) <= sent'[c]
    BY <1>1, <1>6, <1>7, <2>2
  <2>10. OrderInv(c)'
    BY <1>1, <1>4, <2>1, <2>2, <2>4, <2>6, <2>7, <2>8, <2>9 DEF OrderInv
  <2> QED BY <1>1, <1>3, <1>10, <2>10, OrderOther
<1> QED BY <1>4, <1>9, <1>10

LEMMA OrderDestroyed ==
  ASSUME IInv, NEW c \in Context, Has(c), Destroyed(c), OnlyMessagesOf(c)
  PROVE  \A d \in Context : OrderInv(d)'
<1>1. /\ queue' = [queue EXCEPT ![In(c)] = <<>>, ![Reply(c)] = <<>>]
      /\ at' = [at EXCEPT ![c] = "dead"] /\ UNCHANGED <<sent, got, instance>>
  BY DEF Destroyed
<1>2. /\ queue[In(c)] \in Seq(Message) /\ Len(queue[In(c)]) \in Nat /\ sent[c] \in Nat /\ In(c) # Reply(c)
      /\ In(c) \in Port /\ Reply(c) \in Port /\ Len(got[c]) \in Nat
      /\ \A i \in 1 .. Len(got[c]) : got[c][i][2] \in Nat
  BY OrderTypes DEF IInv
<1>3. queue'[In(c)] = <<>> /\ queue'[Reply(c)] = <<>> /\ at'[c] = "dead"
  BY <1>1, <1>2 DEF IInv, TypeInv
<1>4. In(c)' = In(c) /\ Reply(c)' = Reply(c) /\ OrderInv(c) /\ ~ Pending(c)'
  BY <1>3 DEF In, Reply, Pending, Answered, Asks, IInv
<1>5. Len(queue'[In(c)]) = 0 /\ Len(queue'[Reply(c)]) = 0
  BY <1>3
<1>6. Taken(c)' = sent[c] /\ Taken(c) \in Nat /\ Taken(c) <= sent[c]
  BY <1>1, <1>2, <1>4, <1>5 DEF Taken, OrderInv
<1>7. \A i \in 1 .. Len(got[c]) : got[c][i][2] <= Taken(c)'
  <2>1. \A i \in 1 .. Len(got[c]) : got[c][i][2] <= Taken(c)
    BY <1>4 DEF OrderInv
  <2> QED BY <2>1, <1>2, <1>6
<1>8. OrderInv(c)'
  <2>1. /\ Len(queue'[In(c)]) <= sent'[c]
        /\ 1 .. Len(queue'[In(c)]) = {} /\ 1 .. Len(queue'[Reply(c)]) = {}
    <3>1. sent'[c] = sent[c] /\ 0 <= sent[c] /\ 1 .. 0 = {}
      BY <1>1, <1>2
    <3> QED BY <3>1, <1>5
  <2> QED BY <2>1, <1>1, <1>3, <1>4, <1>7 DEF OrderInv
<1>9. ASSUME NEW d \in Context \ {c} PROVE OrderInv(d)'
  <2>1. queue'[In(d)] = queue[In(d)] /\ queue'[Reply(d)] = queue[Reply(d)]
    BY <1>1, PortsApart DEF IInv, TypeInv
  <2> QED BY <1>1, <2>1, OrderKept DEF OnlyMessagesOf
<1> QED BY <1>8, <1>9

LEMMA OrderDie ==
  ASSUME IInv, NEW c \in Context, Has(c), Die(c)
  PROVE  \A d \in Context : OrderInv(d)'
<1>1. OnlyMessagesOf(c) /\ Destroyed(c)
  BY DEF Die, Destroyed, OnlyMessagesOf, ContentsKept, SameMessages, IInv, TypeInv
<1> QED BY <1>1, OrderDestroyed

\* c handles the message it was given.
LEMMA OrderHandled ==
  ASSUME IInv, NEW c \in Context, Pending(c), OnlyMessagesOf(c), ~ Pending(c)',
         at[c] # "dead", got' = [got EXCEPT ![c] = Append(@, contents[slot[c]])],
         UNCHANGED <<queue, sent, instance>>
  PROVE  \A d \in Context : OrderInv(d)'
<1> DEFINE n == Len(got[c])
           m == <<In(c), Taken(c)>>
<1>1. /\ queue[In(c)] \in Seq(Message) /\ Len(queue[In(c)]) \in Nat /\ sent[c] \in Nat
      /\ got[c] \in Seq(Message) /\ n \in Nat /\ \A i \in 1 .. n : got[c][i][2] \in Nat
  BY OrderTypes DEF IInv
<1>2. In(c)' = In(c) /\ Reply(c)' = Reply(c) /\ OrderInv(c) /\ Taken(c)' = Taken(c)
  BY DEF In, Reply, Taken, IInv
<1>3. contents[slot[c]] = m /\ \A i \in 1 .. n : got[c][i][2] < Taken(c)
  BY <1>2 DEF OrderInv
<1>4. Taken(c) \in Nat
  BY <1>1, <1>2 DEF Taken, OrderInv
<1>5. m \in Message
  BY <1>4, PortsApart DEF Message
<1>6. got'[c] = Append(got[c], m) /\ \A d \in Context \ {c} : got'[d] = got[d]
  BY <1>3 DEF IInv, TypeInv
<1> HIDE DEF n
<1>7. /\ Len(got'[c]) = n + 1 /\ \A i \in 1 .. n : got'[c][i] = got[c][i]
      /\ got'[c][n + 1] = m
  BY <1>1, <1>5, <1>6, AppendProperties DEF n
<1>8. \A i \in 1 .. n + 1 : i \in 1 .. n \/ i = n + 1
  BY <1>1
<1>9. m[1] = In(c) /\ m[2] = Taken(c)
  OBVIOUS
<1> HIDE DEF m
<1>10. \A i \in 1 .. n : got[c][i][1] = In(c)
  BY <1>2 DEF OrderInv, n
<1>11. \A i \in 1 .. n + 1 : got'[c][i][1] = In(c) /\ got'[c][i][2] <= Taken(c)
  BY <1>1, <1>3, <1>4, <1>7, <1>8, <1>9, <1>10
<1>12. \A i \in 2 .. n + 1 : got'[c][i - 1][2] < got'[c][i][2]
  <2> TAKE i \in 2 .. n + 1
  <2>1. i - 1 \in 1 .. n
    BY <1>1
  <2>2. CASE i = n + 1
    BY <2>1, <2>2, <1>1, <1>3, <1>7, <1>9
  <2>3. CASE i # n + 1
    <3>1. i \in 2 .. n /\ i \in 1 .. n
      BY <2>3, <1>1
    <3>2. got[c][i - 1][2] < got[c][i][2]
      BY <3>1, <1>2 DEF OrderInv, n
    <3> QED BY <3>1, <3>2, <2>1, <1>7
  <2> QED BY <2>2, <2>3
<1>13. instance.kind[c] = "ps" => /\ Taken(c) = n + 1
                                  /\ \A i \in 1 .. n + 1 : got'[c][i][2] = i
  <2> SUFFICES ASSUME instance.kind[c] = "ps"
               PROVE  Taken(c) = n + 1 /\ \A i \in 1 .. n + 1 : got'[c][i][2] = i
    OBVIOUS
  <2>1. Taken(c) = n + 1 /\ \A i \in 1 .. n : got[c][i][2] = i
    BY <1>2 DEF OrderInv, n
  <2> QED BY <2>1, <1>1, <1>7, <1>8, <1>9
<1>14. OrderInv(c)'
  <2>1. /\ Len(queue'[In(c)]) <= sent'[c]
        /\ \A i \in 1 .. Len(queue'[In(c)]) : queue'[In(c)][i] = <<In(c), Taken(c) + i>>
        /\ \A i \in 1 .. Len(queue'[Reply(c)]) : queue'[Reply(c)][i] = <<Reply(c), 1>>
    BY <1>2 DEF OrderInv
  <2>2. n + 1 + 0 = n + 1
    BY <1>1
  <2> QED BY <2>1, <2>2, <1>2, <1>7, <1>11, <1>12, <1>13 DEF OrderInv
<1> QED BY <1>6, <1>14, OrderKept DEF OnlyMessagesOf

LEMMA OrderResume ==
  ASSUME IInv, NEW c \in Context, Resume(c)
  PROVE  \A d \in Context : OrderInv(d)'
<1>1. Has(c) /\ at[c] \in {"read", "rpc", "out", "slice", "wait"} /\ at[c] # "dead"
  BY DEF Resume, Has
<1>2. CASE c \in notified
  BY <1>1, <1>2, OrderDie DEF Resume, CheckNotify
<1>3. CASE c \notin notified
  <2>1. c \notin waitMsg
    BY <1>1, <1>3, NotWaiting DEF IInv, WaitInv
  <2>2. /\ at' = [at EXCEPT ![c] = "run"] /\ UNCHANGED <<waitMsg, slot, contents, queue, sent, instance>>
        /\ stmMsg' = IF at[c] = "read" THEN [stmMsg EXCEPT ![c] = slot[c]] ELSE stmMsg
        /\ got' = IF at[c] = "read"
                  THEN [got EXCEPT ![c] = Append(@, IF slot[c] = NIL THEN NoMsg ELSE contents[slot[c]])]
                  ELSE got
    BY <1>3 DEF Resume, CheckNotify, worldVars
  <2>3. OnlyMessagesOf(c) /\ at'[c] = "run"
    BY <2>2 DEF OnlyMessagesOf, ContentsKept, SameMessages, IInv, TypeInv
  <2>4. ~ Pending(c)'
    BY <2>3 DEF Pending, Answered, Asks
  <2>5. CASE at[c] = "read"
    <3>1. Pending(c) /\ slot[c] # NIL
      BY <2>1, <2>5 DEF Pending, Answered, Wants, Asks, IInv, MsgInv
    <3> QED BY <3>1, <1>1, <2>2, <2>3, <2>4, <2>5, OrderHandled
  <2>6. CASE at[c] # "read"
    <3>1. ~ Pending(c)
      BY <1>1, <2>6, PortsApart DEF Pending, Answered, Wants, Asks
    <3> QED BY <3>1, <1>1, <2>2, <2>3, <2>4, <2>6, OrderMoves
  <2> QED BY <2>5, <2>6
<1> QED BY <1>2, <1>3

\* c gives up control at another point, where it is given nothing yet.
LEMMA OrderYields ==
  ASSUME IInv, NEW c \in Context, NEW point, at' = [at EXCEPT ![c] = point],
         at[c] \in {"new", "run"} \/ (at[c] = "wb" /\ instance.kind[c] = "wb"),
         \A d \in Context \ {c} : /\ slot'[d] = slot[d] /\ stmMsg'[d] = stmMsg[d]
                                  /\ (d \in waitMsg' <=> d \in waitMsg),
         point \in Asks => c \in waitMsg',
         UNCHANGED <<contents, queue, sent, got, instance>>
  PROVE  \A d \in Context : OrderInv(d)'
<1>1. OnlyMessagesOf(c) /\ at'[c] = point /\ at[c] # "dead"
  BY DEF OnlyMessagesOf, ContentsKept, SameMessages, IInv, TypeInv
<1>2. ~ Pending(c)' /\ (~ Pending(c) \/ instance.kind[c] = "wb")
  BY <1>1 DEF Pending, Answered, Asks
<1> QED BY <1>1, <1>2, OrderMoves

LEMMA OrderSame ==
  ASSUME IInv, UNCHANGED <<at, stmMsg, slot, waitMsg, contents, queue, sent, got, instance>>
  PROVE  \A d \in Context : OrderInv(d)'
  BY OrderKept DEF SameMessages, ContentsKept

LEMMA OrderOperator ==
  ASSUME IInv, NEW c \in Context, PSOperator(c)
  PROVE  \A d \in Context : OrderInv(d)'
<1> USE DEF portVars, bufVars, worldVars
<1>1. CASE FirstRead(c)
  <2>1. /\ at[c] = "new" /\ at' = [at EXCEPT ![c] = "read"] /\ waitMsg' = waitMsg \cup {c}
        /\ slot' = [slot EXCEPT ![c] = NIL] /\ UNCHANGED <<stmMsg, contents, queue, sent, got, instance>>
    BY <1>1 DEF FirstRead, At, AskPort, Suspend
  <2> QED BY <2>1, OrderYields DEF IInv, TypeInv
<1>2. CASE Resume(c)
  BY <1>2, OrderResume
<1>3. CASE NextMessage(c)
  <2>1. /\ at[c] = "run" /\ AskNext(c, stmMsg[c]) /\ stmMsg' = [stmMsg EXCEPT ![c] = NIL]
        /\ at' = [at EXCEPT ![c] = "read"] /\ UNCHANGED <<contents, queue, sent, got, instance>>
    BY <1>3 DEF NextMessage, At, Suspend
  <2>2. waitMsg' = waitMsg \cup {c} /\ slot' = [slot EXCEPT ![c] = stmMsg[c]]
    BY <2>1 DEF AskNext
  <2> QED BY <2>1, <2>2, OrderYields DEF IInv, TypeInv
<1>4. CASE YieldSlice(c)
  <2>1. /\ at[c] = "run" /\ at' = [at EXCEPT ![c] = "slice"]
        /\ UNCHANGED <<waitMsg, slot, stmMsg, contents, queue, sent, got, instance>>
    BY <1>4 DEF YieldSlice, At, Suspend
  <2> QED BY <2>1, OrderYields DEF Asks
<1>5. CASE YieldWait(c)
  <2>1. /\ at[c] = "run" /\ at' = [at EXCEPT ![c] = "wait"]
        /\ UNCHANGED <<waitMsg, slot, stmMsg, contents, queue, sent, got, instance>>
    BY <1>5 DEF YieldWait, At
  <2> QED BY <2>1, OrderYields DEF Asks
<1>6. ASSUME NEW d \in Context, PSMakeRunnable(c, d) PROVE \A x \in Context : OrderInv(x)'
  BY <1>6, OrderSame DEF PSMakeRunnable
<1>7. CASE YieldOutput(c)
  <2>1. /\ at[c] = "run" /\ at' = [at EXCEPT ![c] = "out"]
        /\ UNCHANGED <<waitMsg, slot, stmMsg, contents, queue, sent, got, instance>>
    BY <1>7 DEF YieldOutput, At, Suspend
  <2> QED BY <2>1, OrderYields DEF Asks
<1>8. CASE CallClient(c)
  <2>1. /\ at[c] = "run" /\ at' = [at EXCEPT ![c] = "rpc"] /\ waitMsg' = waitMsg \cup {c}
        /\ slot' = [slot EXCEPT ![c] = NIL] /\ UNCHANGED <<stmMsg, contents, queue, sent, got, instance>>
    BY <1>8 DEF CallClient, At, AskPort, Suspend
  <2> QED BY <2>1, OrderYields DEF IInv, TypeInv
<1>9. CASE SetPrinterContext(c)
  BY <1>9, OrderSame DEF SetPrinterContext
<1>10. CASE SaveOrRestore(c)
  BY <1>10, OrderSame DEF SaveOrRestore
<1>11. CASE Quit(c)
  BY <1>11, OrderDie DEF Quit, At, Has
<1>12. ASSUME NEW w \in Context, WBChangeBitmap(c, w) PROVE \A x \in Context : OrderInv(x)'
  BY <1>12, OrderSame DEF WBChangeBitmap
<1> QED BY <1>1, <1>2, <1>3, <1>4, <1>5, <1>6, <1>7, <1>8, <1>9, <1>10, <1>11, <1>12 DEF PSOperator

LEMMA OrderBitmap ==
  ASSUME IInv, NEW c \in Context, WBOperator(c)
  PROVE  \A d \in Context : OrderInv(d)'
<1> USE DEF portVars, bufVars, worldVars
<1>0. at[c] = "wb" => instance.kind[c] = "wb"
  BY DEF IInv, KindInv
<1>1. CASE WBStart(c)
  <2>1. /\ at[c] = "new" /\ at' = [at EXCEPT ![c] = "wb"] /\ waitMsg' = waitMsg \cup {c}
        /\ slot' = [slot EXCEPT ![c] = NIL] /\ UNCHANGED <<stmMsg, contents, queue, sent, got, instance>>
    BY <1>1 DEF WBStart, At, AskPort, Suspend
  <2> QED BY <2>1, OrderYields DEF IInv, TypeInv
<1>2. CASE WBNotifyNewShmem(c)
  <2>1. /\ at[c] = "wb" /\ at' = [at EXCEPT ![c] = "wb"] /\ waitMsg' = waitMsg \cup {c}
        /\ slot' = [slot EXCEPT ![c] = NIL] /\ UNCHANGED <<stmMsg, contents, queue, sent, got, instance>>
    BY <1>2 DEF WBNotifyNewShmem, At, AskPort, Suspend
  <2> QED BY <2>1, <1>0, OrderYields DEF IInv, TypeInv
<1>3. CASE WBDie(c)
  <2>1. Has(c) /\ Destroyed(c) /\ UNCHANGED stmMsg
    BY <1>3 DEF WBDie, At, Has
  <2>2. OnlyMessagesOf(c)
    BY <2>1 DEF Destroyed, OnlyMessagesOf, ContentsKept, SameMessages, IInv, TypeInv
  <2> QED BY <2>1, <2>2, OrderDestroyed
<1>4. CASE WBHandle(c)
  <2>1. /\ Has(c) /\ at[c] = "wb" /\ AskNext(c, slot[c]) /\ c \notin notified \cup dirtyShmem
        /\ at' = [at EXCEPT ![c] = "wb"] /\ UNCHANGED <<contents, stmMsg, queue, sent, instance>>
        /\ got' = [got EXCEPT ![c] = Append(@, contents[slot[c]])]
    BY <1>4 DEF WBHandle, At, Has, Suspend
  <2>2. Pending(c)
    BY <2>1, NotWaiting DEF IInv, Pending, Wants, Answered, Asks
  <2>3. waitMsg' = waitMsg \cup {c} /\ slot' = [slot EXCEPT ![c] = slot[c]]
    BY <2>1 DEF AskNext
  <2>4. OnlyMessagesOf(c) /\ c \in waitMsg'
    BY <2>1, <2>3 DEF OnlyMessagesOf, ContentsKept, SameMessages, IInv, TypeInv
  <2>5. ~ Pending(c)'
    BY <2>4 DEF Pending, Answered
  <2> QED BY <2>1, <2>2, <2>4, <2>5, OrderHandled
<1> QED BY <1>1, <1>2, <1>3, <1>4 DEF WBOperator

-----------------------------------------------------------------------------
(* The invariant.                                                           *)

LEMMA InitInv ==
  ASSUME Init
  PROVE  IInv
<1>0. /\ NIL \notin Context /\ NIL \notin Buf /\ list = Created /\ Alive = Context
      /\ Created \in Seq(Context)
  BY SchedulerAssumption DEF Init, Alive, Buf
<1>1. TypeInv
  <2>1. /\ \A c \in Context : at[c] = "new"
        /\ at \in [Context -> Points]
    BY DEF Init, Points
  <2>2. /\ <<>> \in Seq(Message) /\ <<>> \in Seq(Notice)
        /\ queue \in [Port -> Seq(Message)] /\ got \in [Context -> Seq(Message)]
    BY DEF Init
  <2>3. exclusive \in [Space -> Context \cup {NIL}]
    BY DEF Init, Space
  <2>4. inputPort \in [Context -> Port \cup {NoMsg}]
    BY DEF Init
  <2> QED BY <1>0, <2>1, <2>2, <2>3, <2>4, SchedulerAssumption DEF Init, TypeInv
<1>2. KindInv
  BY DEF Init, KindInv, Reading, Space
<1>3. \A c \in Context : WaitInv(c)
  BY DEF Init, WaitInv, Asks, Has
<1>4. \A c \in Context : MsgInv(c)
  BY DEF Init, MsgInv, Reading, Answered, Asks
<1>5. BufInv
  <2>1. \A c \in Context : \A b \in Buf : ~ InUse(c, b)
    BY <1>0 DEF Init, InUse, Answered, Asks
  <2> QED BY <2>1, <1>0 DEF Init, BufInv
<1>6. ASSUME NEW c \in Context PROVE OrderInv(c)
  <2>1. queue[In(c)] = <<>> /\ queue[Reply(c)] = <<>> /\ sent[c] = 0 /\ got[c] = <<>> /\ at[c] = "new"
    BY PortsApart DEF Init
  <2>2. Taken(c) = 0 /\ ~ Pending(c)
    <3>1. Len(queue[In(c)]) = 0 /\ 0 - 0 = 0
      BY <2>1
    <3> QED BY <2>1, <3>1 DEF Taken, Pending, Answered, Asks
  <2> QED BY <2>1, <2>2 DEF OrderInv
<1> QED BY <1>1, <1>2, <1>3, <1>4, <1>5, <1>6 DEF IInv

LEMMA TurnInv ==
  ASSUME IInv, NEW more, more \subseteq Alive, Turn(more),
         notices' = notices \/ (notices # <<>> /\ notices' = Tail(notices)),
         notified \subseteq notified', notified' \subseteq Alive, waitNotify' \subseteq waitNotify,
         \A c \in more : c \in notified' \/ (c \notin waitNotify' /\ c \in waitNotify)
  PROVE  IInv'
<1>1. waitNotify' \subseteq Alive
  BY DEF IInv, TypeInv
<1>2. TypeInv' /\ KindInv'
  BY <1>1, TypesTurn
<1>3. \A c \in Context : WaitInv(c)'
  BY WaitTurn
<1>4. MsgsInv' /\ \A c \in Context : OrderInv(c)'
  BY MsgsTurn, OrderTurn
<1> QED BY <1>2, <1>3, <1>4 DEF MsgsInv, IInv

LEMMA SchedulerInv ==
  ASSUME NeverRefused, IInv, Scheduler
  PROVE  IInv'
<1>1. ASSUME NEW p \in Port, RunData(p) PROVE IInv'
  <2>1. PICK c \in Context : \E e \in Context : Delivers(p, c, e)
    BY <1>1, DataDelivers
  <2>2. PICK e \in Context : Delivers(p, c, e)
    BY <2>1
  <2>3. TypeInv' /\ KindInv'
    BY <2>2, TypesData
  <2>4. \A d \in Context : WaitInv(d)'
    BY <2>2, WaitData
  <2>5. MsgsInv'
    BY <2>2, MsgsData
  <2>6. \A d \in Context : OrderInv(d)'
    BY <2>2, OrderData
  <2> QED BY <2>3, <2>4, <2>5, <2>6 DEF MsgsInv, IInv
<1>2. notified \subseteq Alive /\ waitNotify \subseteq Alive
  BY DEF IInv, TypeInv
<1>3. CASE RunNotice
  <2>1. PICK c \in Context :
           /\ notices' = Tail(notices) /\ notices # <<>>
           /\ \/ Turn({}) /\ UNCHANGED <<notified, waitNotify>>
              \/ c \in Alive /\ notified' = notified \cup {c} /\ Turn({c}) /\ UNCHANGED waitNotify
              \/ /\ c \in Alive /\ waitNotify' = waitNotify \ {c}
                 /\ Turn({c} \cap waitNotify) /\ UNCHANGED notified
    BY <1>3, NoticeTurns
  <2>2. CASE Turn({}) /\ UNCHANGED <<notified, waitNotify>>
    BY <1>2, <2>1, <2>2, TurnInv
  <2>3. CASE c \in Alive /\ notified' = notified \cup {c} /\ Turn({c}) /\ UNCHANGED waitNotify
    <3>1. {c} \subseteq Alive /\ notified' \subseteq Alive /\ \A d \in {c} : d \in notified'
      BY <1>2, <2>3
    <3> QED BY <3>1, <2>1, <2>3, TurnInv
  <2>4. CASE /\ c \in Alive /\ waitNotify' = waitNotify \ {c}
             /\ Turn({c} \cap waitNotify) /\ UNCHANGED notified
    <3>1. {c} \cap waitNotify \subseteq Alive /\ waitNotify' \subseteq waitNotify
          /\ \A d \in {c} \cap waitNotify : d \notin waitNotify' /\ d \in waitNotify
      BY <1>2, <2>4
    <3> QED BY <3>1, <1>2, <2>1, <2>4, TurnInv
  <2> QED BY <2>1, <2>2, <2>3, <2>4
<1>4. CASE RunIdle
  <2>1. Turn({}) /\ UNCHANGED <<notices, notified, waitNotify>>
    BY <1>4, IdleTurns
  <2> QED BY <1>2, <2>1, TurnInv
<1> QED BY <1>1, <1>3, <1>4 DEF Scheduler

LEMMA StutterInv ==
  ASSUME IInv, UNCHANGED vars
  PROVE  IInv'
<1>1. Alive' = Alive
  BY DEF vars, Alive
<1>2. TypeInv' /\ KindInv'
  BY <1>1 DEF vars, IInv, TypeInv, KindInv
<1>3. \A c \in Context : WaitInv(c)'
  BY WaitSame DEF vars
<1>4. MsgsInv' /\ \A c \in Context : OrderInv(c)'
  BY MsgsSame, OrderSame DEF vars
<1> QED BY <1>2, <1>3, <1>4 DEF MsgsInv, IInv

LEMMA NextInv ==
  ASSUME NeverRefused, IInv, [Next]_vars
  PROVE  IInv'
<1>1. ASSUME NEW c \in Context, Send(c) \/ Answer(c) \/ Accept(c) \/ ClientDies(c) PROVE IInv'
  <2>1. TypeInv' /\ KindInv' /\ \A d \in Context : WaitInv(d)'
    BY <1>1, TypesOutside, WaitOutside
  <2>2. MsgsInv' /\ \A d \in Context : OrderInv(d)'
    BY <1>1, MsgsOutside, OrderSent
  <2> QED BY <2>1, <2>2 DEF MsgsInv, IInv
<1>2. ASSUME NEW c \in Context, PSOperator(c) PROVE IInv'
  <2>1. TypeInv' /\ KindInv' /\ \A d \in Context : WaitInv(d)'
    BY <1>2, TypesOperator, WaitOperator
  <2>2. MsgsInv' /\ \A d \in Context : OrderInv(d)'
    BY <1>2, MsgsOperator, OrderOperator
  <2> QED BY <2>1, <2>2 DEF MsgsInv, IInv
<1>3. ASSUME NEW c \in Context, WBOperator(c) PROVE IInv'
  <2>1. TypeInv' /\ KindInv' /\ \A d \in Context : WaitInv(d)'
    BY <1>3, TypesBitmap, WaitBitmap
  <2>2. MsgsInv' /\ \A d \in Context : OrderInv(d)'
    BY <1>3, MsgsBitmap, OrderBitmap
  <2> QED BY <2>1, <2>2 DEF MsgsInv, IInv
<1> QED BY <1>1, <1>2, <1>3, SchedulerInv, StutterInv DEF Next, Outside

\* The invariant holds of the whole server: its scheduler (ipcscheduler.c), the
\* input streams (ipcstream.c), calls to clients and bitmap contexts.
THEOREM InvAlways ==
  ASSUME NeverRefused
  PROVE  Spec => []IInv
<1>1. Init => IInv
  BY InitInv
<1>2. IInv /\ [Next]_vars => IInv'
  BY NextInv
<1> QED BY <1>1, <1>2, PTL DEF Spec

-----------------------------------------------------------------------------
(* The users of the buffers.                                                *)

LEMMA ContextFinite == IsFiniteSet(Context)
<1> DEFINE n == Len(Created)
<1>1. Created \in Seq(Context) /\ Context = {Created[i] : i \in DOMAIN Created}
  BY SchedulerAssumption
<1>2. n \in Nat /\ DOMAIN Created = 1 .. n /\ Created \in [1 .. n -> Context]
  BY <1>1, LenProperties
<1>3. IsFiniteSet(1 .. n)
  BY <1>2, FS_Interval
<1> HIDE DEF n
<1>4. Created \in Surjection(1 .. n, Context)
  BY <1>1, <1>2 DEF Surjection
<1> QED BY <1>3, <1>4, FS_Surjection

LEMMA DeliveredAnswered == IInv => \A c \in Context : Delivered(c) <=> Answered(c)
  BY DEF Delivered, Answered, IInv, MsgInv

\* A buffer has at most one user, and a freed one has none.
LEMMA OneUser ==
  IInv => \A b \in Buf : /\ b \in heap => Users(b) = {}
                         /\ \A x, y \in Users(b) : x = y
<1> SUFFICES ASSUME IInv, NEW b \in Buf
             PROVE  /\ b \in heap => Users(b) = {}
                    /\ \A x, y \in Users(b) : x = y
  OBVIOUS
<1>1. Alive \subseteq Context
  BY AliveType DEF IInv
<1>2. ASSUME NEW x \in Users(b)
      PROVE  \/ \E c \in Context : InUse(c, b) /\ x = <<"stm", c>> /\ stmMsg[c] = b
             \/ \E c \in Context : InUse(c, b) /\ x = <<"slot", c>> /\ Answered(c) /\ slot[c] = b
             \/ freeMsg = b /\ x = <<"free", NIL>>
  BY <1>1, <1>2, DeliveredAnswered DEF Users, InUse
<1>3. b \in heap => Users(b) = {}
  BY <1>2 DEF IInv, BufInv
<1>4. ASSUME NEW x \in Users(b), NEW y \in Users(b) PROVE x = y
  <2>1. CASE freeMsg = b
    BY <1>2, <2>1 DEF IInv, BufInv
  <2>2. CASE freeMsg # b
    <3>1. PICK c \in Context : /\ InUse(c, b)
                               /\ \/ x = <<"stm", c>> /\ stmMsg[c] = b
                                  \/ x = <<"slot", c>> /\ Answered(c) /\ slot[c] = b
      BY <1>2, <2>2
    <3>2. PICK d \in Context : /\ InUse(d, b)
                               /\ \/ y = <<"stm", d>> /\ stmMsg[d] = b
                                  \/ y = <<"slot", d>> /\ Answered(d) /\ slot[d] = b
      BY <1>2, <2>2
    <3>3. c = d
      BY <3>1, <3>2 DEF IInv, BufInv
    <3>4. ~ (stmMsg[c] = b /\ Answered(c) /\ slot[c] = b)
      BY SchedulerAssumption DEF IInv, BufInv, Buf
    <3> QED BY <3>1, <3>2, <3>3, <3>4
  <2> QED BY <2>1, <2>2
<1> QED BY <1>3, <1>4

LEMMA UsersCounted ==
  IInv => \A b \in Buf : Cardinality(Users(b)) <= IF b \in heap THEN 0 ELSE 1
<1> SUFFICES ASSUME IInv, NEW b \in Buf
             PROVE  Cardinality(Users(b)) <= IF b \in heap THEN 0 ELSE 1
  OBVIOUS
<1>1. CASE Users(b) = {}
  BY <1>1, FS_EmptySet
<1>2. CASE Users(b) # {}
  <2>1. b \notin heap /\ \E x : Users(b) = {x}
    BY <1>2, OneUser
  <2> QED BY <2>1, FS_Singleton
<1> QED BY <1>1, <1>2

\* The buffers nobody has.
LostRight ==
  Lost = {b \in Buf : /\ b \notin heap /\ b # freeMsg
                      /\ \A c \in Context : ~ InUse(c, b)}

LEMMA LostIs == IInv => LostRight
<1> SUFFICES ASSUME IInv, NEW b \in Buf
             PROVE  Users(b) = {} <=> b # freeMsg /\ \A c \in Context : ~ InUse(c, b)
  BY DEF Lost, LostRight
<1>1. Alive \subseteq Context
  BY AliveType DEF IInv
<1>2. ASSUME NEW c \in Context, InUse(c, b) PROVE c \in Alive
  BY <1>2, SchedulerAssumption DEF InUse, Answered, Asks, Buf, IInv, TypeInv, MsgInv, Reading
<1> QED BY <1>1, <1>2, DeliveredAnswered DEF Users, InUse

\* The messages of c's client that were taken from the port and not handled.
UnhandledRight ==
  \A c \in Context :
    Unhandled(c) = IF at[c] = "dead" THEN Taken(c) - Len(got[c]) + 1
                   ELSE IF Pending(c) THEN Taken(c) - Len(got[c]) - 1
                   ELSE Taken(c) - Len(got[c])

LEMMA UnhandledIs == IInv => UnhandledRight
<1> SUFFICES ASSUME IInv, NEW c \in Context
             PROVE  Unhandled(c) = IF at[c] = "dead" THEN Taken(c) - Len(got[c]) + 1
                                   ELSE IF Pending(c) THEN Taken(c) - Len(got[c]) - 1
                                   ELSE Taken(c) - Len(got[c])
  BY DEF UnhandledRight
<1>1. sent[c] - Len(got[c]) - Len(queue[In(c)]) = Taken(c) - Len(got[c])
  BY OrderTypes DEF Taken, IInv
<1>2. Delivered(c) /\ contents[slot[c]][1] = In(c) <=> Pending(c)
  BY DeliveredAnswered DEF Pending, IInv, MsgInv
<1>3. c \notin Alive <=> at[c] = "dead"
  BY DEF IInv, TypeInv
<1> QED BY <1>1, <1>2, <1>3 DEF Unhandled

LEMMA NextRight == IInv' => LostRight' /\ UnhandledRight'
  BY LostIs, UnhandledIs, PTL

\* Buffers that are free stay so, or get a user.
FreeKept ==
  \A b \in Buf : b \in heap \/ b = freeMsg =>
    b \in heap' \/ b = freeMsg' \/ \E d \in Context : InUse(d, b)'

LEMMA LostOnly ==
  ASSUME IInv, IInv', NEW L, FreeKept,
         \A d \in Context : \A b \in Buf \ L :
           InUse(d, b) => InUse(d, b)' \/ b \in heap' \/ b = freeMsg'
  PROVE  Lost' \subseteq Lost \cup L
<1>1. Buf' = Buf
  BY DEF Buf
<1> QED BY <1>1, LostIs, NextRight DEF LostRight, FreeKept

\* A step loses no buffer, or one with a message.
Loses ==
  /\ \A c \in Context : Unhandled(c) <= Unhandled(c)'
  /\ \/ Lost' \subseteq Lost
     \/ \E b \in Buf, c \in Context :
          Lost' \subseteq Lost \cup {b} /\ Unhandled(c) < Unhandled(c)'

LEMMA UnhandledInt ==
  ASSUME IInv, NEW c \in Context
  PROVE  Unhandled(c) \in Int /\ Taken(c) \in Nat /\ Len(got[c]) \in Nat
<1>1. Taken(c) \in Nat /\ Len(got[c]) \in Nat
  <2>1. Len(queue[In(c)]) \in Nat /\ sent[c] \in Nat /\ Len(got[c]) \in Nat
    BY OrderTypes DEF IInv
  <2>2. Len(queue[In(c)]) <= sent[c]
    BY DEF IInv, OrderInv
  <2> QED BY <2>1, <2>2 DEF Taken
<1> QED BY <1>1, UnhandledIs DEF UnhandledRight

\* The messages of d are counted as before.
LEMMA UnhandledSame ==
  ASSUME IInv, IInv', NEW d \in Context, Taken(d)' = Taken(d), got'[d] = got[d],
         at'[d] = "dead" <=> at[d] = "dead", Pending(d)' <=> Pending(d)
  PROVE  Unhandled(d)' = Unhandled(d)
  BY UnhandledIs, NextRight DEF UnhandledRight

LEMMA UnhandledKept ==
  ASSUME IInv, IInv', NEW d \in Context, SameMessages(d),
         queue'[In(d)] = queue[In(d)], sent'[d] = sent[d], got'[d] = got[d]
  PROVE  Unhandled(d)' = Unhandled(d)
<1>1. Pending(d)' <=> Pending(d)
  BY SameMessagesUse DEF Pending, In
<1>2. Taken(d)' = Taken(d)
  BY DEF Taken, In
<1> QED BY <1>1, <1>2, UnhandledSame DEF SameMessages

LEMMA LosesOne ==
  ASSUME IInv, IInv', NEW c \in Context, FreeKept,
         \A d \in Context \ {c} : /\ SameMessages(d)
                                  /\ queue'[In(d)] = queue[In(d)]
                                  /\ sent'[d] = sent[d] /\ got'[d] = got[d],
         Unhandled(c) <= Unhandled(c)',
         \A b \in Buf : InUse(c, b) => \/ InUse(c, b)' \/ b \in heap' \/ b = freeMsg'
                                       \/ b = slot[c] /\ Unhandled(c) < Unhandled(c)'
  PROVE  Loses
<1>1. ASSUME NEW d \in Context PROVE Unhandled(d) <= Unhandled(d)'
  <2>1. d # c => Unhandled(d)' = Unhandled(d) /\ Unhandled(d) \in Int
    BY UnhandledKept, UnhandledInt
  <2> QED BY <2>1
<1>2. \A d \in Context \ {c} : \A b \in Buf : InUse(d, b) => InUse(d, b)'
  BY SameMessagesUse
<1>3. CASE Unhandled(c) < Unhandled(c)'
  <2>1. Lost' \subseteq Lost \cup {slot[c]}
    <3>1. \A d \in Context : \A b \in Buf \ {slot[c]} :
            InUse(d, b) => InUse(d, b)' \/ b \in heap' \/ b = freeMsg'
      BY <1>2
    <3> QED BY <3>1, LostOnly
  <2>2. CASE slot[c] \in Buf
    BY <1>1, <1>3, <2>1, <2>2 DEF Loses
  <2>3. CASE slot[c] \notin Buf
    <3>1. Lost' \subseteq Buf
      BY DEF Lost, Buf
    <3> QED BY <1>1, <2>1, <2>3, <3>1 DEF Loses
  <2> QED BY <2>2, <2>3
<1>4. CASE ~ (Unhandled(c) < Unhandled(c)')
  <2>1. Lost' \subseteq Lost \cup {}
    <3>1. \A d \in Context : \A b \in Buf \ {} :
            InUse(d, b) => InUse(d, b)' \/ b \in heap' \/ b = freeMsg'
      BY <1>2, <1>4
    <3> QED BY <3>1, LostOnly
  <2> QED BY <1>1, <2>1 DEF Loses
<1> QED BY <1>3, <1>4

\* Nothing was received, given or released.
LEMMA LosesNothing ==
  ASSUME IInv, IInv', UNCHANGED <<at, stmMsg, slot, waitMsg, freeMsg, heap>>,
         \A d \in Context : Unhandled(d)' = Unhandled(d)
  PROVE  Loses
<1>1. \A d \in Context : SameMessages(d)
  BY DEF SameMessages
<1>2. \A d \in Context : \A b \in Buf \ {} : InUse(d, b) => InUse(d, b)'
  BY <1>1, SameMessagesUse
<1>3. FreeKept
  BY DEF FreeKept
<1>4. Lost' \subseteq Lost \cup {}
  BY <1>2, <1>3, LostOnly
<1>5. \A d \in Context : Unhandled(d) <= Unhandled(d)'
  BY UnhandledInt
<1> QED BY <1>4, <1>5 DEF Loses

LEMMA LosesSame ==
  ASSUME IInv, IInv',
         UNCHANGED <<at, stmMsg, slot, waitMsg, freeMsg, heap, queue, sent, got>>
  PROVE  Loses
<1>1. \A d \in Context : Unhandled(d)' = Unhandled(d)
  BY UnhandledKept DEF SameMessages
<1> QED BY <1>1, LosesNothing

LEMMA ReceivedFree ==
  ASSUME IInv, NEW m, NEW used, Received(m, used)
  PROVE  \A b \in Buf : b \in heap \/ b = freeMsg =>
           b \in heap' \/ b = Acquired
  BY SchedulerAssumption DEF Received, Acquired, Buf

LEMMA LosesTurn ==
  ASSUME IInv, IInv', NEW more, Turn(more)
  PROVE  Loses
<1>1. PICK m : Received(m, FALSE)
  BY DEF Turn
<1>2. freeMsg' = Acquired
  BY <1>1 DEF Received
<1>3. FreeKept
  BY <1>1, <1>2, ReceivedFree DEF FreeKept
<1>4. \A d \in Context : SameMessages(d)
  BY DEF Turn, SameMessages
<1>5. \A d \in Context : \A b \in Buf \ {} : InUse(d, b) => InUse(d, b)'
  BY <1>4, SameMessagesUse
<1>6. Lost' \subseteq Lost \cup {}
  BY <1>3, <1>5, LostOnly
<1>7. \A d \in Context : Unhandled(d)' = Unhandled(d)
  BY <1>4, UnhandledKept DEF Turn
<1>8. \A d \in Context : Unhandled(d) <= Unhandled(d)'
  BY <1>7, UnhandledInt
<1> QED BY <1>6, <1>8 DEF Loses

LEMMA LosesData ==
  ASSUME IInv, IInv', NEW p, NEW c \in Context, NEW e \in Context, Delivers(p, c, e)
  PROVE  Loses
<1>1. /\ c \in waitMsg /\ p = Wants(c) /\ at[c] \in Asks /\ p \in Port /\ queue[p] # <<>>
      /\ queue' = [queue EXCEPT ![p] = Tail(@)] /\ Received(Head(queue[p]), TRUE)
      /\ waitMsg' = waitMsg \ {c} /\ slot' = [slot EXCEPT ![c] = Acquired]
      /\ UNCHANGED <<at, stmMsg, sent, got, instance>>
  BY DEF Delivers
<1>2. Acquired \in Buf
  BY <1>1, AcquiredUnused DEF Received
<1>3. \A d \in Context \ {c} : SameMessages(d)
  BY <1>1 DEF SameMessages, IInv, TypeInv
<1>4. /\ In(c)' = In(c) /\ Reply(c)' = Reply(c) /\ Asks' = Asks /\ Wants(c)' = Wants(c)
      /\ p \in {In(c), Reply(c)}
  BY <1>1 DEF In, Reply, Asks, Wants
<1>5. \A d \in Context \ {c} : queue'[In(d)] = queue[In(d)]
  BY <1>1, <1>4, PortsApart DEF IInv, TypeInv
<1>6. ~ Pending(c) /\ (Pending(c)' <=> p = In(c)) /\ ~ Answered(c) /\ Answered(c)'
  BY <1>1, <1>4 DEF Pending, Answered
<1>7. /\ Len(queue[In(c)]) \in Nat /\ sent[c] \in Nat /\ In(c) # Reply(c)
      /\ In(c) \in Port /\ Reply(c) \in Port
  BY OrderTypes DEF IInv
<1>8. Taken(c)' = Taken(c) + (IF p = In(c) THEN 1 ELSE 0)
  <2>1. Taken(c)' = sent[c] - Len(queue'[In(c)])
    BY <1>1, <1>4 DEF Taken
  <2>2. CASE p = In(c)
    <3>1. queue[p] \in Seq(Message)
      BY <1>1 DEF IInv, TypeInv
    <3>2. Len(Tail(queue[p])) = Len(queue[p]) - 1
      BY <1>1, <3>1, HeadTailProperties
    <3>3. queue'[In(c)] = Tail(queue[p])
      BY <1>1, <1>7, <2>2 DEF IInv, TypeInv
    <3> QED BY <1>7, <2>1, <2>2, <3>2, <3>3 DEF Taken
  <2>3. CASE p = Reply(c)
    <3>1. queue'[In(c)] = queue[In(c)] /\ p # In(c)
      BY <1>1, <1>7, <2>3 DEF IInv, TypeInv
    <3> QED BY <1>7, <2>1, <3>1 DEF Taken
  <2> QED BY <1>4, <2>2, <2>3
<1>9. Unhandled(c)' = Unhandled(c)
  <2>1. at[c] # "dead"
    BY <1>1 DEF Asks
  <2>2. Unhandled(c) = Taken(c) - Len(got[c])
    BY <1>6, <2>1, UnhandledIs DEF UnhandledRight
  <2>3. Unhandled(c)' = IF p = In(c) THEN Taken(c)' - Len(got[c]) - 1 ELSE Taken(c)' - Len(got[c])
    BY <1>1, <1>6, <2>1, NextRight DEF UnhandledRight
  <2> QED BY <1>8, <2>2, <2>3, UnhandledInt
<1>10. FreeKept
  <2>1. \A b \in Buf : b = Acquired => InUse(c, b)'
    BY <1>1, <1>6 DEF InUse, IInv, TypeInv
  <2> QED BY <1>1, <2>1, ReceivedFree DEF FreeKept
<1>11. \A b \in Buf : InUse(c, b) => InUse(c, b)'
  BY <1>1, <1>6 DEF InUse
<1>12. \A d \in Context \ {c} : sent'[d] = sent[d] /\ got'[d] = got[d]
  BY <1>1
<1>13. Unhandled(c) <= Unhandled(c)'
  BY <1>9, UnhandledInt
<1> QED BY <1>3, <1>5, <1>10, <1>11, <1>12, <1>13, LosesOne

LEMMA LosesSent ==
  ASSUME IInv, IInv', NEW c \in Context, Send(c) \/ Answer(c) \/ Accept(c) \/ ClientDies(c)
  PROVE  Loses
<1>1. CASE Accept(c) \/ ClientDies(c)
  BY <1>1, LosesSame DEF Accept, ClientDies, world
<1>2. CASE Answer(c)
  <2>1. /\ queue' = [queue EXCEPT ![Reply(c)] = <<<<Reply(c), 1>>>>]
        /\ UNCHANGED <<at, stmMsg, slot, waitMsg, freeMsg, heap, sent, got>>
    BY <1>2 DEF Answer, world
  <2>2. \A d \in Context : queue'[In(d)] = queue[In(d)]
    BY <2>1, PortsApart DEF IInv, TypeInv
  <2>3. \A d \in Context : Unhandled(d)' = Unhandled(d)
    BY <2>1, <2>2, UnhandledKept DEF SameMessages
  <2> QED BY <2>1, <2>3, LosesNothing
<1>3. CASE Send(c)
  <2>1. /\ sent' = [sent EXCEPT ![c] = @ + 1]
        /\ queue' = [queue EXCEPT ![In(c)] = Append(@, <<In(c), sent[c] + 1>>)]
        /\ UNCHANGED <<at, stmMsg, slot, waitMsg, freeMsg, heap, got>>
    BY <1>3 DEF Send, world
  <2>2. /\ queue[In(c)] \in Seq(Message) /\ Len(queue[In(c)]) \in Nat /\ sent[c] \in Nat /\ In(c) \in Port
    BY OrderTypes DEF IInv
  <2>3. <<In(c), sent[c] + 1>> \in Message
    BY <2>2 DEF Message
  <2>4. \A d \in Context \ {c} : queue'[In(d)] = queue[In(d)] /\ sent'[d] = sent[d]
    BY <2>1, PortsApart DEF IInv, TypeInv
  <2>5. sent'[c] = sent[c] + 1 /\ Len(queue'[In(c)]) = Len(queue[In(c)]) + 1
    <3>1. queue'[In(c)] = Append(queue[In(c)], <<In(c), sent[c] + 1>>) /\ sent'[c] = sent[c] + 1
      BY <2>1, <2>2 DEF IInv, TypeInv
    <3> QED BY <2>2, <2>3, <3>1, AppendProperties
  <2>6. Taken(c)' = Taken(c)
    <3>1. Taken(c)' = (sent[c] + 1) - (Len(queue[In(c)]) + 1)
      BY <2>5 DEF Taken, In
    <3> QED BY <2>2, <3>1 DEF Taken
  <2>7. \A d \in Context : SameMessages(d)
    BY <2>1 DEF SameMessages
  <2>8. Pending(c)' <=> Pending(c)
    BY <2>7, SameMessagesUse DEF Pending, In
  <2>9. Unhandled(c)' = Unhandled(c)
    BY <2>1, <2>6, <2>8, UnhandledSame
  <2>10. \A d \in Context : Unhandled(d)' = Unhandled(d)
    BY <2>1, <2>4, <2>7, <2>9, UnhandledKept
  <2> QED BY <2>1, <2>10, LosesNothing
<1> QED BY <1>1, <1>2, <1>3

\* What is released is free.
LEMMA ReleasedFree ==
  ASSUME NEW b, ReleaseMsg(b)
  PROVE  (b \in heap' \/ b = freeMsg') /\ FreeKept
  BY SchedulerAssumption DEF ReleaseMsg, FreeKept, Buf

\* c dies, and gives back the message it was reading.
LEMMA LosesDie ==
  ASSUME IInv, IInv', NEW c \in Context, Has(c), Die(c)
  PROVE  Loses
<1>1. /\ queue' = [queue EXCEPT ![In(c)] = <<>>, ![Reply(c)] = <<>>]
      /\ at' = [at EXCEPT ![c] = "dead"] /\ waitMsg' = waitMsg \ {c}
      /\ stmMsg' = [stmMsg EXCEPT ![c] = NIL] /\ UNCHANGED <<slot, sent, got, instance>>
  BY DEF Die, Destroyed
<1>2. \A d \in Context \ {c} : SameMessages(d) /\ queue'[In(d)] = queue[In(d)]
  BY <1>1, PortsApart DEF SameMessages, IInv, TypeInv
<1>3. /\ Len(queue[In(c)]) \in Nat /\ sent[c] \in Nat /\ Len(got[c]) \in Nat
      /\ In(c) \in Port /\ In(c) # Reply(c)
  BY OrderTypes DEF IInv
<1>4. queue'[In(c)] = <<>> /\ at'[c] = "dead" /\ at[c] # "dead"
  BY <1>1, <1>3, InControl DEF IInv, TypeInv
<1>5. Taken(c)' = sent[c] /\ Taken(c) <= sent[c] /\ Taken(c) \in Nat
  <2>1. Len(queue'[In(c)]) = 0 /\ In(c)' = In(c)
    BY <1>4 DEF In
  <2> QED BY <1>1, <1>3, <2>1, UnhandledInt DEF Taken
<1>6. Unhandled(c) < Unhandled(c)'
  <2>1. Unhandled(c)' = sent[c] - Len(got[c]) + 1
    BY <1>1, <1>4, <1>5, NextRight DEF UnhandledRight
  <2>2. Unhandled(c) \in {Taken(c) - Len(got[c]) - 1, Taken(c) - Len(got[c])}
    BY <1>4, UnhandledIs DEF UnhandledRight
  <2> QED BY <1>3, <1>5, <2>1, <2>2
<1>7. FreeKept
  BY ReleasedFree DEF Die, FreeKept
<1>8. \A b \in Buf : stmMsg[c] = b => b \in heap' \/ b = freeMsg'
  BY ReleasedFree, SchedulerAssumption DEF Die, Buf
<1>9. Unhandled(c) <= Unhandled(c)'
  BY <1>6, UnhandledInt, UnhandledIs, NextRight, <1>3, <1>5, <1>1, <1>4 DEF UnhandledRight
<1>10. \A b \in Buf : InUse(c, b) => b \in heap' \/ b = freeMsg' \/ b = slot[c]
  BY <1>8 DEF InUse
<1> QED BY <1>1, <1>2, <1>6, <1>7, <1>9, <1>10, LosesOne

LEMMA LosesResume ==
  ASSUME IInv, IInv', NEW c \in Context, Resume(c)
  PROVE  Loses
<1>1. Has(c) /\ at[c] \in {"read", "rpc", "out", "slice", "wait"}
  BY DEF Resume, Has
<1>2. CASE c \in notified
  BY <1>1, <1>2, LosesDie DEF Resume, CheckNotify
<1>3. CASE c \notin notified
  <2>1. c \notin waitMsg
    BY <1>1, <1>3, NotWaiting DEF IInv, WaitInv
  <2>2. /\ at' = [at EXCEPT ![c] = "run"] /\ UNCHANGED <<waitMsg, slot, contents, queue, sent, instance>>
        /\ stmMsg' = IF at[c] = "read" THEN [stmMsg EXCEPT ![c] = slot[c]] ELSE stmMsg
        /\ got' = IF at[c] = "read"
                  THEN [got EXCEPT ![c] = Append(@, IF slot[c] = NIL THEN NoMsg ELSE contents[slot[c]])]
                  ELSE got
        /\ IF at[c] = "rpc" /\ slot[c] # NIL THEN ReleaseMsg(slot[c]) ELSE UNCHANGED <<freeMsg, heap>>
    BY <1>3 DEF Resume, CheckNotify, worldVars
  <2>3. /\ \A d \in Context \ {c} : SameMessages(d) /\ got'[d] = got[d]
        /\ at'[c] = "run" /\ Taken(c)' = Taken(c) /\ ~ Pending(c)'
    <3>1. at'[c] = "run" /\ Taken(c)' = Taken(c)
      BY <2>2 DEF Taken, In, IInv, TypeInv
    <3>2. ~ Pending(c)'
      BY <3>1 DEF Pending, Answered, Asks
    <3> QED BY <2>2, <3>1, <3>2 DEF SameMessages, IInv, TypeInv
  <2>4. FreeKept
    BY <2>2, ReleasedFree DEF FreeKept
  <2>5. CASE at[c] = "read"
    <3>1. Pending(c) /\ slot[c] # NIL /\ contents[slot[c]] \in Message /\ stmMsg[c] = NIL /\ slot[c] \in Buf
      BY <2>1, <2>5 DEF Pending, Answered, Wants, Asks, IInv, MsgInv, Reading, TypeInv
    <3>2. Len(got'[c]) = Len(got[c]) + 1
      <4>1. got'[c] = Append(got[c], contents[slot[c]]) /\ got[c] \in Seq(Message)
        BY <2>2, <2>5, <3>1 DEF IInv, TypeInv
      <4> QED BY <3>1, <4>1, AppendProperties
    <3>3. Unhandled(c)' = Unhandled(c)
      <4>1. Unhandled(c) = Taken(c) - Len(got[c]) - 1
        BY <2>5, <3>1, UnhandledIs DEF UnhandledRight
      <4>2. Unhandled(c)' = Taken(c) - (Len(got[c]) + 1)
        BY <2>3, <3>2, NextRight DEF UnhandledRight
      <4> QED BY <4>1, <4>2, UnhandledInt
    <3>4. \A b \in Buf : InUse(c, b) => InUse(c, b)'
      BY <2>2, <2>5, <3>1, SchedulerAssumption DEF InUse, Buf, IInv, TypeInv
    <3>5. Unhandled(c) <= Unhandled(c)'
      BY <3>3, UnhandledInt
    <3> QED BY <2>2, <2>3, <2>4, <3>4, <3>5, LosesOne
  <2>6. CASE at[c] # "read"
    <3>1. ~ Pending(c) /\ at[c] # "dead" /\ got' = got /\ stmMsg' = stmMsg
      BY <1>1, <2>2, <2>6, PortsApart DEF Pending, Answered, Wants, Asks
    <3>2. Unhandled(c)' = Unhandled(c)
      BY <2>3, <3>1, UnhandledSame
    <3>3. ASSUME NEW b \in Buf, InUse(c, b) PROVE InUse(c, b)' \/ b \in heap' \/ b = freeMsg'
      <4>1. CASE stmMsg[c] = b
        BY <3>1, <4>1 DEF InUse
      <4>2. CASE stmMsg[c] # b
        <5>1. at[c] = "rpc" /\ slot[c] = b /\ slot[c] # NIL
          BY <1>1, <2>6, <3>3, <4>2, SchedulerAssumption DEF InUse, Answered, Asks, Buf
        <5> QED BY <2>2, <5>1, ReleasedFree
      <4> QED BY <4>1, <4>2
    <3>4. Unhandled(c) <= Unhandled(c)'
      BY <3>2, UnhandledInt
    <3> QED BY <2>2, <2>3, <2>4, <3>3, <3>4, LosesOne
  <2> QED BY <2>5, <2>6
<1> QED BY <1>2, <1>3

\* c gives up control and keeps what it reads.
LEMMA LosesYields ==
  ASSUME IInv, IInv', NEW c \in Context, NEW point, at' = [at EXCEPT ![c] = point],
         at[c] \in {"new", "run"}, point # "dead",
         \A d \in Context \ {c} : slot'[d] = slot[d] /\ (d \in waitMsg' <=> d \in waitMsg),
         point \in Asks => c \in waitMsg',
         UNCHANGED <<stmMsg, freeMsg, heap, queue, sent, got>>
  PROVE  Loses
<1>1. at'[c] = point /\ \A d \in Context \ {c} : SameMessages(d)
  BY DEF SameMessages, IInv, TypeInv
<1>2. ~ Pending(c)' /\ ~ Pending(c) /\ ~ Answered(c)
  BY <1>1 DEF Pending, Answered, Asks
<1>3. Taken(c)' = Taken(c)
  BY DEF Taken, In
<1>4. Unhandled(c)' = Unhandled(c)
  BY <1>1, <1>2, <1>3, UnhandledSame
<1>5. \A b \in Buf : InUse(c, b) => InUse(c, b)'
  BY <1>2 DEF InUse
<1>6. Unhandled(c) <= Unhandled(c)' /\ FreeKept
  BY <1>4, UnhandledInt DEF FreeKept
<1> QED BY <1>1, <1>5, <1>6, LosesOne

LEMMA LosesOperator ==
  ASSUME IInv, IInv', NEW c \in Context, PSOperator(c)
  PROVE  Loses
<1> USE DEF portVars, bufVars, worldVars
<1>1. CASE FirstRead(c)
  <2>1. /\ at[c] = "new" /\ at' = [at EXCEPT ![c] = "read"] /\ waitMsg' = waitMsg \cup {c}
        /\ slot' = [slot EXCEPT ![c] = NIL] /\ UNCHANGED <<stmMsg, freeMsg, heap, queue, sent, got>>
    BY <1>1 DEF FirstRead, At, AskPort, Suspend
  <2> QED BY <2>1, LosesYields DEF IInv, TypeInv
<1>2. CASE Resume(c)
  BY <1>2, LosesResume
<1>3. CASE NextMessage(c)
  <2>1. /\ at[c] = "run" /\ AskNext(c, stmMsg[c]) /\ stmMsg' = [stmMsg EXCEPT ![c] = NIL]
        /\ at' = [at EXCEPT ![c] = "read"] /\ UNCHANGED <<queue, sent, got>>
    BY <1>3 DEF NextMessage, At, Suspend
  <2>2. waitMsg' = waitMsg \cup {c} /\ slot' = [slot EXCEPT ![c] = stmMsg[c]] /\ ReleaseMsg(stmMsg[c])
    BY <2>1 DEF AskNext
  <2>3. at'[c] = "read" /\ \A d \in Context \ {c} : SameMessages(d)
    BY <2>1, <2>2 DEF SameMessages, IInv, TypeInv
  <2>4. ~ Pending(c)' /\ ~ Pending(c) /\ ~ Answered(c)
    BY <2>1, <2>2, <2>3 DEF Pending, Answered, Asks
  <2>5. Unhandled(c)' = Unhandled(c)
    <3>1. Taken(c)' = Taken(c)
      BY <2>1 DEF Taken, In
    <3> QED BY <2>1, <2>3, <2>4, <3>1, UnhandledSame
  <2>6. \A b \in Buf : InUse(c, b) => b \in heap' \/ b = freeMsg'
    BY <2>2, <2>4, ReleasedFree DEF InUse
  <2>7. Unhandled(c) <= Unhandled(c)' /\ FreeKept
    BY <2>2, <2>5, UnhandledInt, ReleasedFree
  <2> QED BY <2>1, <2>3, <2>6, <2>7, LosesOne
<1>4. CASE YieldSlice(c)
  <2>1. /\ at[c] = "run" /\ at' = [at EXCEPT ![c] = "slice"]
        /\ UNCHANGED <<waitMsg, slot, stmMsg, freeMsg, heap, queue, sent, got>>
    BY <1>4 DEF YieldSlice, At, Suspend
  <2> QED BY <2>1, LosesYields DEF Asks
<1>5. CASE YieldWait(c)
  <2>1. /\ at[c] = "run" /\ at' = [at EXCEPT ![c] = "wait"]
        /\ UNCHANGED <<waitMsg, slot, stmMsg, freeMsg, heap, queue, sent, got>>
    BY <1>5 DEF YieldWait, At
  <2> QED BY <2>1, LosesYields DEF Asks
<1>6. ASSUME NEW d \in Context, PSMakeRunnable(c, d) PROVE Loses
  BY <1>6, LosesSame DEF PSMakeRunnable
<1>7. CASE YieldOutput(c)
  <2>1. /\ at[c] = "run" /\ at' = [at EXCEPT ![c] = "out"]
        /\ UNCHANGED <<waitMsg, slot, stmMsg, freeMsg, heap, queue, sent, got>>
    BY <1>7 DEF YieldOutput, At, Suspend
  <2> QED BY <2>1, LosesYields DEF Asks
<1>8. CASE CallClient(c)
  <2>1. /\ at[c] = "run" /\ at' = [at EXCEPT ![c] = "rpc"] /\ waitMsg' = waitMsg \cup {c}
        /\ slot' = [slot EXCEPT ![c] = NIL] /\ UNCHANGED <<stmMsg, freeMsg, heap, queue, sent, got>>
    BY <1>8 DEF CallClient, At, AskPort, Suspend
  <2> QED BY <2>1, LosesYields DEF IInv, TypeInv
<1>9. CASE SetPrinterContext(c)
  BY <1>9, LosesSame DEF SetPrinterContext
<1>10. CASE SaveOrRestore(c)
  BY <1>10, LosesSame DEF SaveOrRestore
<1>11. CASE Quit(c)
  BY <1>11, LosesDie DEF Quit, At, Has
<1>12. ASSUME NEW w \in Context, WBChangeBitmap(c, w) PROVE Loses
  BY <1>12, LosesSame DEF WBChangeBitmap
<1> QED BY <1>1, <1>2, <1>3, <1>4, <1>5, <1>6, <1>7, <1>8, <1>9, <1>10, <1>11, <1>12 DEF PSOperator

LEMMA LosesBitmap ==
  ASSUME IInv, IInv', NEW c \in Context, WBOperator(c)
  PROVE  Loses
<1> USE DEF portVars, bufVars, worldVars
<1>0. at[c] \in {"new", "wb"} => stmMsg[c] = NIL
  BY DEF IInv, MsgInv, Reading
<1>1. CASE WBStart(c)
  <2>1. /\ at[c] = "new" /\ at' = [at EXCEPT ![c] = "wb"] /\ waitMsg' = waitMsg \cup {c}
        /\ slot' = [slot EXCEPT ![c] = NIL] /\ UNCHANGED <<stmMsg, freeMsg, heap, queue, sent, got>>
    BY <1>1 DEF WBStart, At, AskPort, Suspend
  <2> QED BY <2>1, LosesYields DEF IInv, TypeInv
<1>2. CASE WBNotifyNewShmem(c)
  <2>1. /\ at[c] = "wb" /\ at' = [at EXCEPT ![c] = "wb"] /\ waitMsg' = waitMsg \cup {c}
        /\ slot' = [slot EXCEPT ![c] = NIL]
        /\ UNCHANGED <<stmMsg, freeMsg, heap, queue, sent, got>>
    BY <1>2 DEF WBNotifyNewShmem, At, AskPort, Suspend
  <2>2. at'[c] = "wb" /\ \A d \in Context \ {c} : SameMessages(d)
    BY <2>1 DEF SameMessages, IInv, TypeInv
  <2>3. ~ Pending(c)' /\ Taken(c)' = Taken(c) /\ (Answered(c) <=> Pending(c))
    <3>1. ~ Pending(c)'
      BY <2>1 DEF Pending, Answered
    <3>2. Taken(c)' = Taken(c)
      BY <2>1 DEF Taken, In
    <3> QED BY <2>1, <3>1, <3>2 DEF Pending, Wants
  <2>4. Unhandled(c)' = Taken(c) - Len(got[c])
    BY <2>1, <2>2, <2>3, NextRight DEF UnhandledRight
  <2>5. Unhandled(c) = IF Answered(c) THEN Taken(c) - Len(got[c]) - 1 ELSE Taken(c) - Len(got[c])
    BY <2>1, <2>3, UnhandledIs DEF UnhandledRight
  <2>6. Unhandled(c) <= Unhandled(c)' /\ (Answered(c) => Unhandled(c) < Unhandled(c)')
    BY <2>4, <2>5, UnhandledInt
  <2>7. \A b \in Buf : InUse(c, b) => Answered(c) /\ b = slot[c]
    BY <1>0, <2>1, SchedulerAssumption DEF InUse, Buf
  <2>8. FreeKept
    BY <2>1 DEF FreeKept
  <2> QED BY <2>1, <2>2, <2>6, <2>7, <2>8, LosesOne
<1>3. CASE WBDie(c)
  <2>1. Has(c) /\ at[c] = "wb" /\ Destroyed(c) /\ UNCHANGED <<freeMsg, heap, stmMsg>>
    BY <1>3 DEF WBDie, At, Has
  <2>2. stmMsg' = [stmMsg EXCEPT ![c] = NIL]
    BY <1>0, <2>1 DEF IInv, TypeInv
  <2> QED BY <1>0, <2>1, <2>2, LosesDie DEF Die
<1>4. CASE WBHandle(c)
  <2>1. /\ Has(c) /\ at[c] = "wb" /\ AskNext(c, slot[c]) /\ c \notin notified \cup dirtyShmem /\ slot[c] # NIL
        /\ at' = [at EXCEPT ![c] = "wb"] /\ UNCHANGED <<stmMsg, queue, sent>>
        /\ got' = [got EXCEPT ![c] = Append(@, contents[slot[c]])]
    BY <1>4 DEF WBHandle, At, Has, Suspend
  <2>2. Pending(c) /\ contents[slot[c]] \in Message
    BY <2>1, NotWaiting DEF IInv, Pending, Wants, Answered, Asks, MsgInv
  <2>3. waitMsg' = waitMsg \cup {c} /\ slot' = [slot EXCEPT ![c] = slot[c]] /\ ReleaseMsg(slot[c])
    BY <2>1 DEF AskNext
  <2>4. at'[c] = "wb" /\ \A d \in Context \ {c} : SameMessages(d) /\ got'[d] = got[d]
    BY <2>1, <2>3 DEF SameMessages, IInv, TypeInv
  <2>5. ~ Pending(c)' /\ Taken(c)' = Taken(c)
    BY <2>1, <2>3 DEF Pending, Answered, Taken, In
  <2>6. Len(got'[c]) = Len(got[c]) + 1
    <3>1. got'[c] = Append(got[c], contents[slot[c]]) /\ got[c] \in Seq(Message)
      BY <2>1 DEF IInv, TypeInv
    <3> QED BY <2>2, <3>1, AppendProperties
  <2>7. Unhandled(c)' = Unhandled(c)
    <3>1. Unhandled(c) = Taken(c) - Len(got[c]) - 1
      BY <2>1, <2>2, UnhandledIs DEF UnhandledRight
    <3>2. Unhandled(c)' = Taken(c) - (Len(got[c]) + 1)
      BY <2>4, <2>5, <2>6, NextRight DEF UnhandledRight
    <3> QED BY <3>1, <3>2, UnhandledInt
  <2>8. \A b \in Buf : InUse(c, b) => b \in heap' \/ b = freeMsg'
    BY <1>0, <2>1, <2>3, ReleasedFree, SchedulerAssumption DEF InUse, Buf
  <2>9. Unhandled(c) <= Unhandled(c)' /\ FreeKept
    BY <2>3, <2>7, UnhandledInt, ReleasedFree
  <2> QED BY <2>1, <2>4, <2>8, <2>9, LosesOne
<1> QED BY <1>1, <1>2, <1>3, <1>4 DEF WBOperator

\* The pairs of a context and a number up to its own.
Tags(u) == UNION {{c} \X (1 .. u[c]) : c \in Context}

LEMMA TagsFinite ==
  ASSUME NEW u \in [Context -> Nat]
  PROVE  IsFiniteSet(Tags(u)) /\ Cardinality(Tags(u)) \in Nat
<1> DEFINE Own(c) == {c} \X (1 .. u[c])
           S == {Own(c) : c \in Context}
<1>1. ASSUME NEW c \in Context PROVE IsFiniteSet(Own(c))
  <2> DEFINE f == [i \in 1 .. u[c] |-> <<c, i>>]
  <2>1. IsFiniteSet(1 .. u[c])
    BY FS_Interval
  <2>2. f \in Surjection(1 .. u[c], Own(c))
    BY DEF Surjection
  <2> HIDE DEF f
  <2> QED BY <2>1, <2>2, FS_Surjection
<1>2. IsFiniteSet(S)
  <2> DEFINE g == [c \in Context |-> Own(c)]
  <2>1. g \in Surjection(Context, S)
    BY DEF Surjection
  <2> HIDE DEF g, S
  <2> QED BY <2>1, ContextFinite, FS_Surjection
<1>3. \A T \in S : IsFiniteSet(T)
  BY <1>1
<1>4. Tags(u) = UNION S
  BY DEF Tags
<1> HIDE DEF S
<1>5. IsFiniteSet(UNION S)
  BY <1>2, <1>3, FS_UNION
<1> QED BY <1>4, <1>5, FS_CardinalityType

LEMMA TagsGrow ==
  ASSUME NEW u \in [Context -> Nat], NEW v \in [Context -> Nat],
         \A c \in Context : u[c] <= v[c]
  PROVE  /\ Cardinality(Tags(u)) <= Cardinality(Tags(v))
         /\ (\E c \in Context : u[c] < v[c]) => Cardinality(Tags(u)) + 1 <= Cardinality(Tags(v))
<1>1. Tags(u) \subseteq Tags(v)
  <2> SUFFICES ASSUME NEW x \in Tags(u) PROVE x \in Tags(v)
    OBVIOUS
  <2>1. PICK c \in Context : x \in {c} \X (1 .. u[c])
    BY DEF Tags
  <2>2. PICK i \in 1 .. u[c] : x = <<c, i>>
    BY <2>1
  <2>3. i \in 1 .. v[c]
    BY <2>2
  <2> QED BY <2>2, <2>3 DEF Tags
<1>2. /\ IsFiniteSet(Tags(u)) /\ Cardinality(Tags(u)) \in Nat
      /\ IsFiniteSet(Tags(v)) /\ Cardinality(Tags(v)) \in Nat
  BY TagsFinite
<1>3. Cardinality(Tags(u)) <= Cardinality(Tags(v))
  BY <1>1, <1>2, FS_Subset
<1>4. ASSUME NEW c \in Context, u[c] < v[c]
      PROVE  Cardinality(Tags(u)) + 1 <= Cardinality(Tags(v))
  <2> DEFINE x == <<c, v[c]>>
  <2>1. x \in Tags(v)
    BY <1>4 DEF Tags
  <2>2. x \notin Tags(u)
    BY <1>4 DEF Tags
  <2> HIDE DEF x
  <2>3. Tags(u) \cup {x} \subseteq Tags(v)
    BY <1>1, <2>1
  <2>4. Cardinality(Tags(u) \cup {x}) = Cardinality(Tags(u)) + 1
    BY <1>2, <2>2, FS_AddElement
  <2> QED BY <1>2, <2>3, <2>4, FS_Subset
<1> QED BY <1>3, <1>4

-----------------------------------------------------------------------------
(* No more buffers are lost than messages.                                  *)
CountInv ==
  /\ \A c \in Context : Unhandled(c) \in Nat
  /\ Cardinality(Lost) <= Cardinality(AllUnhandled)

IntNumbers == \A c \in Context : Unhandled(c) \in Int

LEMMA IntNumbersIs == IInv => IntNumbers
  BY UnhandledInt DEF IntNumbers

LEMMA IntNumbersNext == IInv' => IntNumbers'
  BY IntNumbersIs, PTL

LEMMA LostFinite == IsFiniteSet(Lost) /\ Cardinality(Lost) \in Nat
<1>1. IsFiniteSet(Buf)
  BY SchedulerAssumption, FS_Interval DEF Buf
<1>2. Lost \subseteq Buf
  BY DEF Lost
<1> QED BY <1>1, <1>2, FS_Subset, FS_CardinalityType

LEMMA CountInit ==
  ASSUME Init
  PROVE  CountInv
<1>1. IInv
  BY InitInv
<1>2. ASSUME NEW c \in Context PROVE Unhandled(c) = 0
  <2>1. queue[In(c)] = <<>> /\ sent[c] = 0 /\ got[c] = <<>> /\ at[c] = "new"
    BY PortsApart DEF Init
  <2>2. Len(queue[In(c)]) = 0 /\ Len(got[c]) = 0
    BY <2>1
  <2>3. Taken(c) = 0 /\ ~ Pending(c)
    <3>1. 0 - 0 = 0
      OBVIOUS
    <3> QED BY <2>1, <2>2, <3>1 DEF Taken, Pending, Answered, Asks
  <2> QED BY <1>1, <2>1, <2>2, <2>3, UnhandledIs DEF UnhandledRight
<1>3. Lost = {}
  BY DEF Init, Lost
<1> DEFINE u == [c \in Context |-> Unhandled(c)]
<1>4. u \in [Context -> Nat] /\ AllUnhandled = Tags(u)
  BY <1>2 DEF AllUnhandled, Tags
<1>5. Cardinality(AllUnhandled) \in Nat
  <2> HIDE DEF u
  <2> QED BY <1>4, TagsFinite
<1> QED BY <1>2, <1>3, <1>5, FS_EmptySet DEF CountInv

LEMMA CountStep ==
  ASSUME IInv, IInv', CountInv, Loses
  PROVE  CountInv'
<1> DEFINE u == [c \in Context |-> Unhandled(c)]
           v == [c \in Context |-> Unhandled(c)']
<1>1. \A c \in Context : Unhandled(c) \in Nat /\ Unhandled(c)' \in Nat /\ Unhandled(c) <= Unhandled(c)'
  BY IntNumbersNext DEF CountInv, Loses, IntNumbers
<1>2. u \in [Context -> Nat] /\ v \in [Context -> Nat] /\ \A c \in Context : u[c] <= v[c]
  BY <1>1
<1>3. AllUnhandled = Tags(u) /\ AllUnhandled' = Tags(v)
  BY DEF AllUnhandled, Tags
<1>4. IsFiniteSet(Lost) /\ Cardinality(Lost) \in Nat
  BY LostFinite
<1>5. IsFiniteSet(Lost') /\ Cardinality(Lost') \in Nat
  <2>1. IsFiniteSet(Buf)
    BY SchedulerAssumption, FS_Interval DEF Buf
  <2>2. Lost' \subseteq Buf
    BY DEF Lost, Buf
  <2> QED BY <2>1, <2>2, FS_Subset, FS_CardinalityType
<1>6. Cardinality(Lost) <= Cardinality(Tags(u))
  BY <1>3 DEF CountInv
<1>7. ASSUME NEW c \in Context, Unhandled(c) < Unhandled(c)' PROVE u[c] < v[c]
  BY <1>7
<1> HIDE DEF u, v
<1>8. Cardinality(Tags(u)) \in Nat /\ Cardinality(Tags(v)) \in Nat
  BY <1>2, TagsFinite
<1>9. CASE Lost' \subseteq Lost
  <2>1. Cardinality(Lost') <= Cardinality(Lost)
    BY <1>4, <1>9, FS_Subset
  <2>2. Cardinality(Tags(u)) <= Cardinality(Tags(v))
    BY <1>2, TagsGrow
  <2>3. Cardinality(Lost') <= Cardinality(Tags(v))
    BY <1>4, <1>5, <1>6, <1>8, <2>1, <2>2
  <2> QED BY <1>1, <1>3, <2>3 DEF CountInv
<1>10. CASE \E b \in Buf, c \in Context :
              Lost' \subseteq Lost \cup {b} /\ Unhandled(c) < Unhandled(c)'
  <2>1. PICK b \in Buf : \E c \in Context :
               Lost' \subseteq Lost \cup {b} /\ Unhandled(c) < Unhandled(c)'
    BY <1>10
  <2>2. Cardinality(Lost') <= Cardinality(Lost) + 1
    <3>1. /\ IsFiniteSet(Lost \cup {b}) /\ Cardinality(Lost \cup {b}) \in Nat
          /\ Cardinality(Lost \cup {b}) <= Cardinality(Lost) + 1
      BY <1>4, FS_AddElement, FS_CardinalityType
    <3>2. Cardinality(Lost') <= Cardinality(Lost \cup {b})
      BY <2>1, <3>1, FS_Subset
    <3> QED BY <1>4, <1>5, <3>1, <3>2
  <2>3. Cardinality(Tags(u)) + 1 <= Cardinality(Tags(v))
    BY <1>2, <1>7, <2>1, TagsGrow
  <2>4. Cardinality(Lost') <= Cardinality(Tags(v))
    BY <1>4, <1>5, <1>6, <1>8, <2>2, <2>3
  <2> QED BY <1>1, <1>3, <2>4 DEF CountInv
<1> QED BY <1>9, <1>10 DEF Loses

LEMMA NextLoses ==
  ASSUME NeverRefused, IInv, IInv', [Next]_vars
  PROVE  Loses
<1>1. ASSUME NEW p \in Port, RunData(p) PROVE Loses
  <2>1. PICK c \in Context : \E e \in Context : Delivers(p, c, e)
    BY <1>1, DataDelivers
  <2> QED BY <2>1, LosesData
<1>2. CASE RunNotice
  <2>1. \E more : Turn(more)
    BY <1>2, NoticeTurns
  <2> QED BY <2>1, LosesTurn
<1>3. CASE RunIdle
  BY <1>3, IdleTurns, LosesTurn
<1>4. ASSUME NEW c \in Context, Send(c) \/ Answer(c) \/ Accept(c) \/ ClientDies(c) PROVE Loses
  BY <1>4, LosesSent
<1>5. ASSUME NEW c \in Context, PSOperator(c) \/ WBOperator(c) PROVE Loses
  BY <1>5, LosesOperator, LosesBitmap
<1>6. CASE UNCHANGED vars
  BY <1>6, LosesSame DEF vars
<1> QED BY <1>1, <1>2, <1>3, <1>4, <1>5, <1>6 DEF Next, Scheduler, Outside

-----------------------------------------------------------------------------
(* The theorems.                                                            *)

(* However a context is suspended and resumed, it handles what its own client  *)
(* sent, each message once and in order (HandleDataMsg, ContextYield,          *)
(* IPCFillBuf; WBCoProc may lose one, and goes on with a later one).          *)
THEOREM InOrderAlways ==
  ASSUME NeverRefused
  PROVE  Spec => []InOrder
<1>1. IInv => InOrder
  <2> SUFFICES ASSUME IInv, NEW c \in Context, NEW i \in DOMAIN got[c]
               PROVE  /\ got[c][i][1] = In(c)
                      /\ i > 1 => got[c][i][2] > got[c][i - 1][2]
                      /\ instance.kind[c] = "ps" => got[c][i][2] = i
    BY DEF InOrder
  <2>1. OrderInv(c) /\ got[c] \in Seq(Message) /\ Len(got[c]) \in Nat
    BY OrderTypes DEF IInv
  <2>2. i \in 1 .. Len(got[c])
    BY <2>1, LenProperties
  <2>3. got[c][i][1] = In(c) /\ (instance.kind[c] = "ps" => got[c][i][2] = i)
    BY <2>1, <2>2 DEF OrderInv
  <2>4. i > 1 => got[c][i][2] > got[c][i - 1][2]
    <3> SUFFICES ASSUME i > 1 PROVE got[c][i][2] > got[c][i - 1][2]
      OBVIOUS
    <3>1. i \in 2 .. Len(got[c]) /\ i - 1 \in 1 .. Len(got[c])
      BY <2>1, <2>2
    <3>2. got[c][i - 1][2] < got[c][i][2]
      BY <2>1, <3>1 DEF OrderInv
    <3>3. got[c][i - 1][2] \in Nat /\ got[c][i][2] \in Nat
      BY <2>2, <3>1, OrderTypes DEF IInv
    <3> QED BY <3>2, <3>3
  <2> QED BY <2>3, <2>4
<1> QED BY <1>1, InvAlways, PTL

(* The restricted bit agrees with the set of ports the kernel receives from,    *)
(* and HandleDataMsg never receives a message that nobody waits for            *)
(* (RestrictInputPort, UnrestrictInputPort, Scheduler).                      *)
THEOREM RestrictedBitAlways ==
  ASSUME NeverRefused
  PROVE  Spec => []RestrictedBit
<1>1. IInv => RestrictedBit
  <2> SUFFICES ASSUME IInv PROVE RestrictedBit
    OBVIOUS
  <2>1. Alive \subseteq Context
    BY AliveType DEF IInv
  <2>2. TypeOK
    BY <2>1 DEF IInv, TypeInv, TypeOK, Points
  <2>3. \A c \in Alive : at[c] # "new" =>
          /\ c \in restricted <=> inputPort[c] \notin enabled
          /\ {In(c), Reply(c)} \cap enabled \subseteq {inputPort[c]}
    <3> SUFFICES ASSUME NEW c \in Alive, at[c] # "new"
                 PROVE  /\ c \in restricted <=> inputPort[c] \notin enabled
                        /\ {In(c), Reply(c)} \cap enabled \subseteq {inputPort[c]}
      OBVIOUS
    <3>1. WaitInv(c) /\ at[c] # "dead"
      BY <2>1 DEF IInv, TypeInv
    <3> QED BY <3>1 DEF WaitInv
  <2>4. ~ running => \A p \in enabled : Waiter(p) # {}
    BY OneWaiter DEF IInv, TypeInv
  <2> QED BY <2>2, <2>3, <2>4 DEF RestrictedBit
<1> QED BY <1>1, InvAlways, PTL

(* A message buffer is never used by two, nor after it was freed, and no more   *)
(* are lost than messages are left unhandled (AcquireMsg, ReleaseMsg,           *)
(* IPCClose, WBCoProc).                                                       *)
THEOREM BufferOneUserAlways ==
  ASSUME NeverRefused
  PROVE  Spec => []BufferOneUser
<1>1. Init => IInv /\ CountInv
  BY InitInv, CountInit
<1>2. (IInv /\ CountInv) /\ [Next]_vars => (IInv /\ CountInv)'
  BY NextInv, NextLoses, CountStep
<1>3. IInv /\ CountInv => BufferOneUser
  BY UsersCounted DEF CountInv, BufferOneUser
<1> QED BY <1>1, <1>2, <1>3, PTL DEF Spec

=============================================================================
