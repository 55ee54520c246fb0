------------------------ MODULE ClientEvents_proofs ------------------------
(***************************************************************************)
(* What holds of the client library's event loop for any procs, priorities,  *)
(* programs and depth of nesting.                                           *)
(*                                                                         *)
(* ThresholdObeyed is about a stack, and so is the first invariant: each clause *)
(* is about one frame and those below it (ProcAt, PrevAt, MainAt).  A step of   *)
(* the main thread changes the frames near the top and marks others stale;    *)
(* the clauses of the frames it keeps stay true (KeptFrames), so that only the *)
(* new top has to be looked at.                                              *)
(*                                                                         *)
(* What a call misses or finds is about the stack, the two threads' masks and  *)
(* the queue together: the second invariant (Inv2) says where the bit of each  *)
(* fd is, that a bit stands for data, which fds a call will still look at or be *)
(* told of, and what it knows of the event it asked for.                      *)
(***************************************************************************)
EXTENDS ClientEvents, FiniteSetTheorems, SequenceTheorems, WellFoundedInduction, TLAPS

USE ClientAssumption

-----------------------------------------------------------------------------
(* The invariant.                                                           *)

Word == SUBSET (0 .. Width - 1)
Event == [ctxt : Ctx, type : Type]
Requests == UNION {UNION {s.level[i].gets : i \in DOMAIN s.level} : s \in Scenarios}
CallPc == {"fds0", "recv", "after", "tes", "fds", "return"}
GetFrame ==
  [kind : {"get"}, get : Requests, prev : Word, pc : CallPc, at : Item \cup {NIL},
   called : BOOLEAN, stale : BOOLEAN, first : BOOLEAN, hiked : BOOLEAN,
   swallowed : BOOLEAN, meddled : BOOLEAN]
ProgFrame ==
  {f \in [kind : {"prog"}, item : Item \cup {NIL}, event : Event \cup {NIL},
          pc : {"run", "reply"}, fd : FD \cup {NIL}] : f.item = NIL \/ f.event = NIL}
Frame == GetFrame \cup ProgFrame

\* Programs and calls alternate; the event procs are called for messages.
StackInv ==
  /\ stack \in Seq(Frame) /\ Len(stack) > 0
  /\ ~ IsGet(stack[1]) /\ stack[1].item = NIL /\ stack[1].event = NIL
  /\ \A i \in 1 .. Len(stack) - 1 :
       /\ IsGet(stack[i + 1]) <=> ~ IsGet(stack[i])
       /\ IF IsGet(stack[i])
          THEN stack[i].pc # "return" /\ (stack[i + 1].item = NIL => stack[i].pc = "recv")
          ELSE stack[i].pc = "run"

\* A call between i and k was raised for an event.
Hiked(s, i, k) == \E m \in i .. k : IsGet(s[m]) /\ s[m].hiked

\* The proc of x may run in the call i, with the calls up to k in between.
Allowed(s, x, i, k) ==
  \/ Priority[x[1]] >= s[i].get.arg
  \/ s[i].get.arg = Width - 1 /\ Hiked(s, i, k)

\* Whatever exceeds these bits may run in the call i.
Covers(s, bits, i, k) ==
  \/ \E b \in bits : s[i].get.arg <= b /\ b <= Width - 2
  \/ s[i].get.arg = Width - 1 /\ (Width - 1 \in bits \/ Hiked(s, i, k))

\* A proc that runs.
ProcAt(s, j) ==
  ~ IsGet(s[j]) /\ s[j].item # NIL =>
    \A i \in 1 .. j - 1 : IF IsGet(s[i]) THEN Allowed(s, s[j].item, i, j - 1)
                                         ELSE s[i].item # s[j].item

\* The threshold that comes back when a call ends.
PrevAt(s, k) ==
  IsGet(s[k]) => \A i \in 1 .. k - 1 : IsGet(s[i]) => Covers(s, s[k].prev, i, k - 1)

\* The ports that a call listens to, as long as it does not fix the set again.
Fresh(f) == IsGet(f) /\ ~ f.stale /\ f.pc # "return"
MainAt(s, k, ports) ==
  Fresh(s[k]) => \A x \in ports, i \in 1 .. k :
                   IF IsGet(s[i]) THEN Allowed(s, x, i, k) ELSE s[i].item # x

FramesInv ==
  \A k \in DOMAIN stack : ProcAt(stack, k) /\ PrevAt(stack, k) /\ MainAt(stack, k, mainPorts)

\* Nothing is called any more once the highest bit was reached.
Ends(f) == /\ f.pc \in {"tes", "fds"} /\ ~ f.called
           /\ Width - 1 \in thr /\ lastEvent # NIL
ThrInv ==
  /\ thr \in Word
  /\ \A i \in DOMAIN stack : IsGet(stack[i]) =>
       \/ Covers(stack, thr, i, Len(stack))
       \/ IsGet(top) /\ (top.pc = "return" \/ Ends(top))

Loops(f) == IsGet(f) /\ f.pc \in {"fds0", "tes", "fds"} /\ f.at # NIL
ListInv ==
  /\ list \in Seq(Item) /\ IsInjective(list)
  /\ doomed \subseteq InUse /\ InUse \subseteq Range(list)
  /\ mainPorts \subseteq Listed(Port) \ doomed
  /\ mainCtx \subseteq Ctx
  /\ ~ IsGet(top) /\ top.pc = "reply" => \E x \in Range(list) : x[1] = top.fd
  /\ Loops(top) => top.at \in Range(list)

EventInv ==
  /\ queue \in Seq([addr : Address, ctxt : Ctx, type : Type])
  /\ \A i, j \in DOMAIN queue : queue[i].addr = queue[j].addr => i = j
  /\ lastEvent \in Address \cup {NIL}
  /\ sent \in [Ctx -> Type \cup {NIL}]

ThreadInv ==
  /\ waiting \cup active \subseteq FD
  /\ sel \in [pc : {"copy", "select", "drain", "apply", "send"}, mask : SUBSET FD]

Inv == /\ scenario \in Scenarios
       /\ StackInv /\ FramesInv /\ ThrInv /\ ListInv /\ EventInv /\ ThreadInv

-----------------------------------------------------------------------------
(* Frames that a step keeps.                                                *)

\* What a frame f may become, as g.
Stays(f, g) ==
  /\ g.kind = f.kind
  /\ IsGet(f) => g.get = f.get /\ g.prev = f.prev /\ (f.hiked => g.hiked)
  /\ ~ IsGet(f) => g.item = f.item /\ g.event = f.event

\* It also fixes no main set.
Ages(f, g) == Stays(f, g) /\ (Fresh(g) => Fresh(f))

Kept(s, t, m) == \A i \in 1 .. m : Stays(s[i], t[i])

LEMMA KeptHiked ==
  ASSUME NEW s, NEW t, NEW m \in Nat, Kept(s, t, m), NEW k \in 0 .. m, NEW i \in 1 .. m,
         Hiked(s, i, k)
  PROVE  Hiked(t, i, k)
  BY DEF Hiked, Kept, Ages, Stays, IsGet

LEMMA KeptAllowed ==
  ASSUME NEW s, NEW t, NEW m \in Nat, Kept(s, t, m), NEW k \in 0 .. m, NEW i \in 1 .. k,
         IsGet(s[i]), NEW x, Allowed(s, x, i, k)
  PROVE  Allowed(t, x, i, k)
<1>1. i \in 1 .. m /\ t[i].get = s[i].get
  BY DEF Kept, Ages, Stays
<1> QED BY <1>1, KeptHiked DEF Allowed

LEMMA KeptCovers ==
  ASSUME NEW s, NEW t, NEW m \in Nat, Kept(s, t, m), NEW k \in 0 .. m, NEW i \in 1 .. k,
         IsGet(s[i]), NEW bits, Covers(s, bits, i, k)
  PROVE  Covers(t, bits, i, k)
<1>1. i \in 1 .. m /\ t[i].get = s[i].get
  BY DEF Kept, Ages, Stays
<1> QED BY <1>1, KeptHiked DEF Covers

\* The clauses of a frame that is kept stay true.
LEMMA KeptFrames ==
  ASSUME NEW s, NEW t, NEW m \in Nat, Kept(s, t, m), NEW k \in 1 .. m, NEW P, NEW Q \in SUBSET P
  PROVE  /\ ProcAt(s, k) => ProcAt(t, k)
         /\ PrevAt(s, k) => PrevAt(t, k)
         /\ (Fresh(t[k]) => Fresh(s[k])) /\ MainAt(s, k, P) => MainAt(t, k, Q)
<1>1. \A i \in 1 .. k : Stays(s[i], t[i]) /\ (IsGet(t[i]) <=> IsGet(s[i]))
  BY DEF Kept, Ages, Stays, IsGet
<1>2. ASSUME ProcAt(s, k) PROVE ProcAt(t, k)
  <2> SUFFICES ASSUME ~ IsGet(t[k]), t[k].item # NIL, NEW i \in 1 .. k - 1
               PROVE  IF IsGet(t[i]) THEN Allowed(t, t[k].item, i, k - 1)
                                     ELSE t[i].item # t[k].item
    BY DEF ProcAt
  <2>1. ~ IsGet(s[k]) /\ s[k].item = t[k].item /\ i \in 1 .. k
    BY <1>1 DEF Ages, Stays
  <2>2. IF IsGet(s[i]) THEN Allowed(s, s[k].item, i, k - 1) ELSE s[i].item # s[k].item
    BY <1>2, <2>1 DEF ProcAt
  <2>3. CASE IsGet(s[i])
    <3>1. k - 1 \in 0 .. m /\ Allowed(s, s[k].item, i, k - 1)
      BY <2>2, <2>3
    <3>2. Allowed(t, s[k].item, i, k - 1)
      BY <2>3, <3>1, KeptAllowed
    <3> QED BY <1>1, <2>1, <2>3, <3>2
  <2>4. CASE ~ IsGet(s[i])
    BY <1>1, <2>1, <2>2, <2>4 DEF Ages, Stays
  <2> QED BY <2>3, <2>4
<1>3. ASSUME PrevAt(s, k) PROVE PrevAt(t, k)
  <2> SUFFICES ASSUME IsGet(t[k]), NEW i \in 1 .. k - 1, IsGet(t[i])
               PROVE  Covers(t, t[k].prev, i, k - 1)
    BY DEF PrevAt
  <2>1. IsGet(s[k]) /\ s[k].prev = t[k].prev /\ i \in 1 .. k /\ IsGet(s[i])
    BY <1>1 DEF Ages, Stays
  <2>2. Covers(s, s[k].prev, i, k - 1) /\ k - 1 \in 0 .. m
    BY <1>3, <2>1 DEF PrevAt
  <2> QED BY <2>1, <2>2, KeptCovers
<1>4. ASSUME Fresh(t[k]) => Fresh(s[k]), MainAt(s, k, P) PROVE MainAt(t, k, Q)
  <2> SUFFICES ASSUME Fresh(t[k]), NEW x \in Q, NEW i \in 1 .. k
               PROVE  IF IsGet(t[i]) THEN Allowed(t, x, i, k) ELSE t[i].item # x
    BY DEF MainAt
  <2>1. IsGet(s[k]) /\ Fresh(s[k]) /\ x \in P
    BY <1>1, <1>4 DEF Ages, Stays, Fresh
  <2>2. IF IsGet(s[i]) THEN Allowed(s, x, i, k) ELSE s[i].item # x
    BY <1>4, <2>1 DEF MainAt
  <2>3. CASE IsGet(s[i])
    BY <1>1, <2>2, <2>3, KeptAllowed
  <2>4. CASE ~ IsGet(s[i])
    BY <1>1, <2>2, <2>4 DEF Ages, Stays
  <2> QED BY <2>3, <2>4
<1> QED BY <1>2, <1>3, <1>4

-----------------------------------------------------------------------------
(* Thresholds.                                                              *)

LEMMA PriorityIs ==
  ASSUME NEW x \in Item
  PROVE  Priority[x[1]] \in 0 .. Width - 2
  BY DEF Item

LEMMA AboveAllowed ==
  ASSUME NEW x \in Item, NEW bits \in Word, Above(x, bits), NEW s, NEW i, NEW k,
         s[i].get.arg \in Nat, Covers(s, bits, i, k)
  PROVE  Allowed(s, x, i, k)
<1>1. Priority[x[1]] \in 0 .. Width - 2 /\ \A b \in bits : b \in Nat /\ Priority[x[1]] + 1 > b
  BY PriorityIs DEF Above, Word
<1>2. CASE \E b \in bits : s[i].get.arg <= b /\ b <= Width - 2
  <2>1. Priority[x[1]] >= s[i].get.arg
    BY <1>1, <1>2
  <2> QED BY <2>1 DEF Allowed
<1>3. CASE s[i].get.arg = Width - 1 /\ (Width - 1 \in bits \/ Hiked(s, i, k))
  <2>1. Width - 1 \notin bits
    BY <1>1
  <2> QED BY <1>3, <2>1 DEF Allowed
<1> QED BY <1>2, <1>3 DEF Covers

\* The loops that follow a hike: the bits move up, or nothing is called.
LEMMA HikeCovers ==
  ASSUME NEW bits \in Word, NEW s, NEW k \in Nat, NEW i \in 1 .. k, s[i].get.arg \in Nat,
         IsGet(s[k]), s[k].hiked, Covers(s, bits, i, k)
  PROVE  Covers(s, ShiftedUp(bits), i, k) \/ Width - 1 \in ShiftedUp(bits)
<1>1. CASE s[i].get.arg = Width - 1
  <2>1. Hiked(s, i, k)
    BY DEF Hiked
  <2> QED BY <1>1, <2>1 DEF Covers
<1>2. ASSUME NEW b \in bits, s[i].get.arg <= b, b <= Width - 2
      PROVE  Covers(s, ShiftedUp(bits), i, k) \/ Width - 1 \in ShiftedUp(bits)
  <2>1. b \in Nat /\ b + 1 \in 0 .. Width - 1 /\ b + 1 \in ShiftedUp(bits)
    BY <1>2 DEF ShiftedUp, Word
  <2>2. CASE b + 1 = Width - 1
    BY <2>1, <2>2
  <2>3. CASE b + 1 <= Width - 2
    <3>1. s[i].get.arg <= b + 1
      BY <1>2, <2>1
    <3> QED BY <2>1, <2>3, <3>1 DEF Covers
  <2> QED BY <2>1, <2>2, <2>3
<1> QED BY <1>1, <1>2 DEF Covers

\* A call adds its own bit.
LEMMA HardenedCovers ==
  ASSUME NEW arg \in 0 .. Width - 1, NEW s, NEW k, NEW i,
         s[i].get.arg = arg \/ Covers(s, thr, i, k)
  PROVE  Covers(s, Hardened(arg), i, k)
<1>1. CASE Covers(s, thr, i, k)
  BY <1>1 DEF Covers, Hardened
<1>2. CASE s[i].get.arg = arg
  <2>1. arg \in Hardened(arg) /\ arg <= arg
    BY DEF Hardened
  <2>2. CASE arg = Width - 1
    BY <1>2, <2>1, <2>2 DEF Covers
  <2>3. CASE arg # Width - 1
    <3>1. arg <= Width - 2
      BY <2>3
    <3> QED BY <1>2, <2>1, <3>1 DEF Covers
  <2> QED BY <2>2, <2>3
<1> QED BY <1>1, <1>2

-----------------------------------------------------------------------------
(* The stack.                                                               *)

LEMMA FrameIs ==
  ASSUME NEW f \in Frame
  PROVE  /\ IsGet(f) => f \in GetFrame
         /\ ~ IsGet(f) => f \in ProgFrame /\ f.kind = "prog"
  BY DEF Frame, GetFrame, ProgFrame, IsGet

LEMMA RequestIs ==
  ASSUME NEW g \in Requests
  PROVE  g.arg \in 0 .. Width - 1 /\ g.arg \in Nat /\ g.ctxs \subseteq Ctx
  BY DEF Requests

LEMMA StackIs ==
  ASSUME StackInv
  PROVE  /\ Len(stack) \in Nat \ {0} /\ DOMAIN stack = 1 .. Len(stack)
         /\ top = stack[Len(stack)]
         /\ \A i \in 1 .. Len(stack) : stack[i] \in Frame
         /\ \A i \in 1 .. Len(stack) : IsGet(stack[i]) =>
              stack[i].get \in Requests /\ stack[i].get.arg \in Nat /\ stack[i].prev \in Word
         /\ \A i \in 1 .. Len(stack) : ~ IsGet(stack[i]) =>
              stack[i].item \in Item \cup {NIL} /\ stack[i].kind = "prog"
<1>1. Len(stack) \in Nat \ {0} /\ DOMAIN stack = 1 .. Len(stack)
  BY LenProperties DEF StackInv
<1>2. \A i \in 1 .. Len(stack) : stack[i] \in Frame
  BY <1>1, ElementOfSeq DEF StackInv
<1>3. ASSUME NEW i \in 1 .. Len(stack), IsGet(stack[i])
      PROVE  stack[i].get \in Requests /\ stack[i].get.arg \in Nat /\ stack[i].prev \in Word
  <2>1. stack[i] \in GetFrame
    BY <1>2, <1>3, FrameIs
  <2>2. stack[i].get \in Requests /\ stack[i].prev \in Word
    BY <2>1 DEF GetFrame
  <2> QED BY <2>2, RequestIs
<1>4. ASSUME NEW i \in 1 .. Len(stack), ~ IsGet(stack[i])
      PROVE  stack[i].item \in Item \cup {NIL} /\ stack[i].kind = "prog"
  <2>1. stack[i] \in ProgFrame
    BY <1>2, <1>4, FrameIs
  <2> QED BY <2>1 DEF ProgFrame
<1> QED BY <1>1, <1>2, <1>3, <1>4 DEF top

\* The stack after a step: m frames, of which those below the last keep their place.
Becomes(m) ==
  /\ m \in 1 .. Len(stack) + 1
  /\ stack' \in Seq(Frame) /\ Len(stack') = m
  /\ \A i \in 1 .. m : i <= Len(stack) => Stays(stack[i], stack'[i])
  /\ \A i \in 1 .. m - 1 : stack'[i].pc = stack[i].pc

NoneFresher(m) == \A i \in 1 .. m : i <= Len(stack) /\ Fresh(stack'[i]) => Fresh(stack[i])

LEMMA StackBecomes ==
  ASSUME StackInv, NEW m, Becomes(m),
         m = Len(stack) + 1 =>
           /\ IsGet(stack'[m]) <=> ~ IsGet(top)
           /\ IF IsGet(top) THEN top.pc # "return" /\ (stack'[m].item = NIL => top.pc = "recv")
                            ELSE top.pc = "run"
  PROVE  StackInv'
<1>1. /\ Len(stack) \in Nat \ {0} /\ m \in 1 .. Len(stack) + 1
      /\ stack' \in Seq(Frame) /\ Len(stack') = m
      /\ top = stack[Len(stack)]
  BY StackIs DEF Becomes
<1>2. \A i \in 1 .. m : i <= Len(stack) =>
        /\ IsGet(stack'[i]) <=> IsGet(stack[i])
        /\ ~ IsGet(stack[i]) => stack'[i].item = stack[i].item /\ stack'[i].event = stack[i].event
  BY DEF Becomes, Ages, Stays, IsGet
<1>3. ~ IsGet(stack'[1]) /\ stack'[1].item = NIL /\ stack'[1].event = NIL
  BY <1>1, <1>2 DEF StackInv
<1>4. ASSUME NEW i \in 1 .. m - 1
      PROVE  /\ IsGet(stack'[i + 1]) <=> ~ IsGet(stack'[i])
             /\ IF IsGet(stack'[i])
                THEN stack'[i].pc # "return" /\ (stack'[i + 1].item = NIL => stack'[i].pc = "recv")
                ELSE stack'[i].pc = "run"
  <2>1. i <= Len(stack) /\ i \in 1 .. m /\ i + 1 \in 1 .. m
    BY <1>1
  <2>2. stack'[i].pc = stack[i].pc
    BY <1>4 DEF Becomes
  <2>3. CASE i < Len(stack)
    <3>1. i \in 1 .. Len(stack) - 1 /\ i + 1 <= Len(stack)
      BY <1>1, <2>1, <2>3
    <3> QED BY <1>2, <2>1, <2>2, <3>1 DEF StackInv
  <2>4. CASE i = Len(stack)
    <3>1. m = Len(stack) + 1 /\ i + 1 = m
      BY <1>1, <2>4
    <3> QED BY <1>1, <1>2, <2>1, <2>2, <2>4, <3>1
  <2> QED BY <1>1, <2>1, <2>3, <2>4
<1> QED BY <1>1, <1>3, <1>4 DEF StackInv

\* The clauses of the frames, for a main set that does not grow.
LEMMA FramesBecome ==
  ASSUME StackInv, FramesInv, NEW m, Becomes(m), NoneFresher(m), mainPorts' \subseteq mainPorts,
         m = Len(stack) + 1 =>
           ProcAt(stack', m) /\ PrevAt(stack', m) /\ MainAt(stack', m, mainPorts')
  PROVE  FramesInv'
<1>1. /\ Len(stack) \in Nat \ {0} /\ DOMAIN stack = 1 .. Len(stack) /\ m \in 1 .. Len(stack) + 1
      /\ DOMAIN stack' = 1 .. m
  BY StackIs, LenProperties DEF Becomes
<1>2. ASSUME NEW k \in 1 .. m, k <= Len(stack)
      PROVE  ProcAt(stack', k) /\ PrevAt(stack', k) /\ MainAt(stack', k, mainPorts')
  <2>1. Kept(stack, stack', k) /\ k \in Nat /\ k \in 1 .. k
    BY <1>1, <1>2 DEF Kept, Becomes
  <2>2. ProcAt(stack, k) /\ PrevAt(stack, k) /\ MainAt(stack, k, mainPorts)
    BY <1>1, <1>2 DEF FramesInv
  <2>3. Fresh(stack'[k]) => Fresh(stack[k])
    BY <1>2 DEF NoneFresher
  <2> QED BY <2>1, <2>2, <2>3, KeptFrames
<1>3. \A k \in 1 .. m : k <= Len(stack) \/ (k = m /\ m = Len(stack) + 1)
  BY <1>1
<1> QED BY <1>1, <1>2, <1>3 DEF FramesInv

-----------------------------------------------------------------------------
(* What the steps do to the frame they run in.                              *)

\* The call f goes on at pc, with the loop over a list at a.
Goes(f, g, pc, a, called) ==
  /\ g \in GetFrame /\ Ages(f, g)
  /\ g.pc = pc /\ g.at = a /\ g.called = called /\ g.hiked = f.hiked

LEMMA CallGoes ==
  ASSUME NEW f \in GetFrame, f.pc # "return", NEW a \in Item \cup {NIL}, NEW pc \in CallPc
  PROVE  /\ Goes(f, [f EXCEPT !.at = a], f.pc, a, f.called)
         /\ Goes(f, [f EXCEPT !.first = FALSE], f.pc, f.at, f.called)
         /\ Goes(f, [f EXCEPT !.pc = "after"], "after", f.at, f.called)
         /\ Goes(f, [f EXCEPT !.pc = "fds", !.at = a, !.swallowed = FALSE], "fds", a, f.called)
         /\ Goes(f, [f EXCEPT !.called = TRUE, !.pc = "after"], "after", f.at, TRUE)
         /\ Goes(f, [f EXCEPT !.called = TRUE, !.at = a], f.pc, a, TRUE)
<1> USE DEF Goes, GetFrame, Ages, Stays, Fresh, IsGet
<1>1. Goes(f, [f EXCEPT !.at = a], f.pc, a, f.called)
  OBVIOUS
<1>2. Goes(f, [f EXCEPT !.first = FALSE], f.pc, f.at, f.called)
  OBVIOUS
<1>3. Goes(f, [f EXCEPT !.pc = "after"], "after", f.at, f.called)
  BY DEF CallPc
<1>4. Goes(f, [f EXCEPT !.pc = "fds", !.at = a, !.swallowed = FALSE], "fds", a, f.called)
  BY DEF CallPc
<1>5. Goes(f, [f EXCEPT !.called = TRUE, !.pc = "after"], "after", f.at, TRUE)
  BY DEF CallPc
<1>6. Goes(f, [f EXCEPT !.called = TRUE, !.at = a], f.pc, a, TRUE)
  OBVIOUS
<1> QED BY <1>1, <1>2, <1>3, <1>4, <1>5, <1>6

LEMMA SettledIs ==
  ASSUME NEW f \in GetFrame, f.pc # "return"
  PROVE  Goes(f, Settled(f), f.pc, f.at, FALSE)
<1> USE DEF Goes, GetFrame, Ages, Stays, Fresh, IsGet, Settled
<1>1. CASE f.called
  BY <1>1
<1>2. CASE ~ f.called
  BY <1>2
<1> QED BY <1>1, <1>2

\* After the procs, the call looks for its event again.
LEMMA SettledGoes ==
  ASSUME NEW f \in GetFrame, f.pc # "return", NEW a \in Item \cup {NIL}, NEW pc \in CallPc
  PROVE  /\ Goes(f, Go(f, pc), pc, f.at, FALSE)
         /\ Goes(f, [Settled(f) EXCEPT !.pc = "tes", !.at = a], "tes", a, FALSE)
<1> DEFINE e == Settled(f)
<1>1. Goes(f, e, f.pc, f.at, FALSE)
  BY SettledIs
<1> HIDE DEF e
<1> USE DEF Goes, GetFrame, Ages, Stays, Fresh, IsGet
<1>2. Goes(f, [e EXCEPT !.pc = pc, !.first = TRUE], pc, f.at, FALSE)
  BY <1>1
<1>3. Goes(f, [e EXCEPT !.pc = "tes", !.at = a], "tes", a, FALSE)
  BY <1>1 DEF CallPc
<1> QED BY <1>2, <1>3 DEF Go, e

\* History, and what fixMainSet and a hike write.
LEMMA MarksAge ==
  ASSUME NEW f \in GetFrame
  PROVE  /\ Ages(f, [f EXCEPT !.stale = TRUE]) /\ [f EXCEPT !.stale = TRUE] \in GetFrame
         /\ ~ Fresh([f EXCEPT !.stale = TRUE])
         /\ Ages(f, [f EXCEPT !.swallowed = TRUE]) /\ [f EXCEPT !.swallowed = TRUE] \in GetFrame
         /\ Ages(f, [f EXCEPT !.meddled = TRUE]) /\ [f EXCEPT !.meddled = TRUE] \in GetFrame
<1> USE DEF GetFrame, Ages, Stays, Fresh, IsGet
<1>1. Ages(f, [f EXCEPT !.stale = TRUE]) /\ [f EXCEPT !.stale = TRUE] \in GetFrame
  OBVIOUS
<1>2. ~ Fresh([f EXCEPT !.stale = TRUE])
  OBVIOUS
<1>3. Ages(f, [f EXCEPT !.swallowed = TRUE]) /\ [f EXCEPT !.swallowed = TRUE] \in GetFrame
  OBVIOUS
<1>4. Ages(f, [f EXCEPT !.meddled = TRUE]) /\ [f EXCEPT !.meddled = TRUE] \in GetFrame
  OBVIOUS
<1> QED BY <1>1, <1>2, <1>3, <1>4

LEMMA HikedIs ==
  ASSUME NEW f \in GetFrame, f.pc # "return", NEW g, Goes(f, g, "tes", g.at, FALSE)
  PROVE  /\ [g EXCEPT !.hiked = TRUE] \in GetFrame /\ Ages(f, [g EXCEPT !.hiked = TRUE])
         /\ [g EXCEPT !.hiked = TRUE].hiked /\ [g EXCEPT !.hiked = TRUE].pc = "tes"
         /\ ~ [g EXCEPT !.hiked = TRUE].called
  BY DEF Goes, GetFrame, Ages, Stays, Fresh, IsGet

LEMMA AgesSelf == ASSUME NEW f PROVE Ages(f, f)
  BY DEF Ages, Stays

LEMMA AgesTwice ==
  ASSUME NEW f, NEW g, NEW h, Ages(f, g), Ages(g, h)
  PROVE  Ages(f, h)
  BY DEF Ages, Stays, IsGet

LEMMA ReplyIs ==
  ASSUME NEW f \in ProgFrame, NEW fd \in FD
  PROVE  /\ Ages(f, [f EXCEPT !.pc = "reply", !.fd = fd])
         /\ [f EXCEPT !.pc = "reply", !.fd = fd] \in ProgFrame
         /\ [f EXCEPT !.pc = "reply", !.fd = fd].fd = fd
         /\ Ages(f, [f EXCEPT !.pc = "run", !.fd = NIL])
         /\ [f EXCEPT !.pc = "run", !.fd = NIL] \in ProgFrame
         /\ [f EXCEPT !.pc = "run", !.fd = NIL].pc = "run"
  BY DEF ProgFrame, Ages, Stays, IsGet, Fresh

-----------------------------------------------------------------------------
(* Lists.                                                                   *)

\* A set of natural numbers has a least one.
LEMMA Least ==
  ASSUME NEW T, T \subseteq Nat, T # {}
  PROVE  \E n \in T : \A m \in T : ~ (m < n)
<1> DEFINE R == OpToRel(<, Nat)
<1>1. IsWellFoundedOn(R, Nat)
  BY NatLessThanWellFounded
<1>2. \A m, n \in Nat : m < n => <<m, n>> \in R
  BY DEF OpToRel
<1> HIDE DEF R
<1>3. \E n \in T : \A m \in T : ~ (<<m, n>> \in R)
  BY <1>1, WFMin
<1> QED BY <1>2, <1>3

LEMMA EarliestIs ==
  ASSUME list \in Seq(Item), NEW places, places \subseteq DOMAIN list
  PROVE  /\ places = {} => Earliest(places) = NIL
         /\ places # {} => \E i \in places : Earliest(places) = list[i]
         /\ Earliest(places) \in Range(list) \cup {NIL}
         /\ Earliest(places) \in Item \cup {NIL}
<1>1. DOMAIN list = 1 .. Len(list) /\ Len(list) \in Nat
  BY LenProperties
<1>2. places \subseteq Nat
  BY <1>1
<1>3. CASE places = {}
  BY <1>3 DEF Earliest
<1>4. CASE places # {}
  <2>1. PICK n \in places : \A m \in places : ~ (m < n)
    BY <1>2, <1>4, Least
  <2>2. \A m \in places : n <= m
    BY <1>2, <2>1
  <2>3. PICK i \in places : Earliest(places) = list[i]
    BY <1>4, <2>2 DEF Earliest
  <2>4. list[i] \in Range(list) /\ list[i] \in Item
    BY <1>1, <2>3, ElementOfSeq DEF Range
  <2> QED BY <1>4, <2>3, <2>4
<1> QED BY <1>3, <1>4

LEMMA ListedIs ==
  ASSUME list \in Seq(Item), NEW keys, NEW key, NEW x
  PROVE  /\ FirstOf(keys) \in Item \cup {NIL} /\ FirstOf(keys) \in Range(list) \cup {NIL}
         /\ After(x, keys) \in Item \cup {NIL} /\ After(x, keys) \in Range(list) \cup {NIL}
         /\ Found(key) # NIL => Found(key) \in Range(list) \cap Item /\ Found(key)[1] = key
         /\ Listed(keys) \subseteq Range(list) \cap Item
<1>1. Found(key) # NIL => Found(key) \in Range(list) \cap Item /\ Found(key)[1] = key
  <2> DEFINE places == {i \in DOMAIN list : list[i][1] \in {key}}
  <2>1. Found(key) = Earliest(places)
    BY DEF Found, FirstOf
  <2>2. /\ Earliest(places) # NIL => \E i \in places : Earliest(places) = list[i]
        /\ Earliest(places) \in Range(list) \cup {NIL} /\ Earliest(places) \in Item \cup {NIL}
    BY EarliestIs
  <2> QED BY <2>1, <2>2
<1>2. Range(list) \subseteq Item
  BY LenProperties, ElementOfSeq DEF Range
<1>3. FirstOf(keys) \in Item \cup {NIL} /\ FirstOf(keys) \in Range(list) \cup {NIL}
  BY EarliestIs DEF FirstOf
<1>4. After(x, keys) \in Item \cup {NIL} /\ After(x, keys) \in Range(list) \cup {NIL}
  BY EarliestIs DEF After
<1> QED BY <1>1, <1>2, <1>3, <1>4 DEF Listed

-----------------------------------------------------------------------------
(* How the steps build the new stack.                                       *)

\* s is the lowest m frames, with marks of the kinds that steps leave on others.
Aged(s, m) ==
  /\ s \in Seq(Frame) /\ Len(s) = m /\ m <= Len(stack)
  /\ \A i \in 1 .. m : /\ Ages(stack[i], s[i]) /\ s[i].pc = stack[i].pc
                       /\ ~ IsGet(stack[i]) => s[i].fd = stack[i].fd

LEMMA AgedOuter ==
  ASSUME StackInv, NEW k \in {1, 2}, k <= Len(stack)
  PROVE  Aged(Outer(k), Len(stack) - k)
<1>1. Len(stack) \in Nat \ {0} /\ stack \in Seq(Frame)
  BY StackIs DEF StackInv
<1>2. /\ Outer(k) \in Seq(Frame) /\ Len(Outer(k)) = Len(stack) - k
      /\ \A i \in 1 .. Len(stack) - k : Outer(k)[i] = stack[i]
  BY <1>1, SubSeqProperties DEF Outer
<1> QED BY <1>1, <1>2, AgesSelf DEF Aged

LEMMA AgedStack ==
  ASSUME StackInv
  PROVE  Aged(stack, Len(stack))
  BY StackIs, AgesSelf DEF Aged, StackInv

LEMMA AgedStale ==
  ASSUME StackInv, NEW m \in Nat, NEW s, Aged(s, m)
  PROVE  Aged(AllStale(s), m) /\ \A i \in 1 .. m : ~ Fresh(AllStale(s)[i])
<1> DEFINE f(i) == IF IsGet(s[i]) THEN [s[i] EXCEPT !.stale = TRUE] ELSE s[i]
<1>1. AllStale(s) = [i \in 1 .. m |-> f(i)]
  BY LenProperties DEF AllStale, OfCalls, Aged
<1>2. ASSUME NEW i \in 1 .. m
      PROVE  /\ f(i) \in Frame /\ Ages(stack[i], f(i)) /\ ~ Fresh(f(i))
             /\ f(i).pc = stack[i].pc /\ (~ IsGet(stack[i]) => f(i).fd = stack[i].fd)
  <2>1. s[i] \in Frame /\ Ages(stack[i], s[i]) /\ (IsGet(s[i]) <=> IsGet(stack[i]))
    BY ElementOfSeq DEF Aged, Ages, Stays, IsGet
  <2>2. CASE IsGet(s[i])
    <3>1. s[i] \in GetFrame
      BY <2>1, <2>2, FrameIs
    <3>2. s[i].pc = stack[i].pc /\ f(i).pc = s[i].pc
      BY <2>2, <3>1 DEF Aged, GetFrame
    <3> QED BY <2>1, <2>2, <3>1, <3>2, MarksAge, AgesTwice DEF Frame
  <2>3. CASE ~ IsGet(s[i])
    BY <2>1, <2>3 DEF Aged, Fresh
  <2> QED BY <2>2, <2>3
<1> HIDE DEF f
<1>3. AllStale(s) \in Seq(Frame) /\ Len(AllStale(s)) = m
  BY <1>1, <1>2, IsASeq
<1>4. \A i \in 1 .. m : AllStale(s)[i] = f(i)
  BY <1>1
<1> QED BY <1>2, <1>3, <1>4 DEF Aged

LEMMA AgedSwallowed ==
  ASSUME StackInv, NEW m \in Nat, NEW s, Aged(s, m)
  PROVE  Aged(OfCalls(s, LAMBDA g : [g EXCEPT !.swallowed = TRUE]), m)
<1> DEFINE t == OfCalls(s, LAMBDA g : [g EXCEPT !.swallowed = TRUE])
           f(i) == IF IsGet(s[i]) THEN [s[i] EXCEPT !.swallowed = TRUE] ELSE s[i]
<1>1. t = [i \in 1 .. m |-> f(i)]
  BY LenProperties DEF OfCalls, Aged
<1>2. ASSUME NEW i \in 1 .. m
      PROVE  /\ f(i) \in Frame /\ Ages(stack[i], f(i))
             /\ f(i).pc = stack[i].pc /\ (~ IsGet(stack[i]) => f(i).fd = stack[i].fd)
  <2>1. s[i] \in Frame /\ Ages(stack[i], s[i]) /\ (IsGet(s[i]) <=> IsGet(stack[i]))
    BY ElementOfSeq DEF Aged, Ages, Stays, IsGet
  <2>2. CASE IsGet(s[i])
    <3>1. s[i] \in GetFrame
      BY <2>1, <2>2, FrameIs
    <3>2. s[i].pc = stack[i].pc /\ f(i).pc = s[i].pc
      BY <2>2, <3>1 DEF Aged, GetFrame
    <3> QED BY <2>1, <2>2, <3>1, <3>2, MarksAge, AgesTwice DEF Frame
  <2>3. CASE ~ IsGet(s[i])
    BY <2>1, <2>3 DEF Aged
  <2> QED BY <2>2, <2>3
<1> HIDE DEF f, t
<1>3. t \in Seq(Frame) /\ Len(t) = m
  BY <1>1, <1>2, IsASeq
<1>4. \A i \in 1 .. m : t[i] = f(i)
  BY <1>1
<1>5. Aged(t, m)
  BY <1>2, <1>3, <1>4 DEF Aged
<1> QED BY <1>5 DEF t

LEMMA AgedMeddled ==
  ASSUME StackInv
  PROVE  Aged(Meddled(stack), Len(stack))
<1> DEFINE n == Len(stack)
<1>1. n \in Nat \ {0} /\ stack \in Seq(Frame) /\ DOMAIN stack = 1 .. n
  BY StackIs DEF StackInv
<1>2. CASE Meddled(stack) = stack
  BY <1>2, AgedStack
<1>3. CASE /\ Meddled(stack) # stack
           /\ stack[n].kind = "prog" /\ stack[n].event # NIL
  <2> DEFINE g == [stack[n - 1] EXCEPT !.meddled = TRUE]
  <2>1. n # 1 /\ ~ IsGet(stack[n])
    BY <1>3 DEF StackInv, IsGet
  <2>2. n - 1 \in 1 .. n - 1 /\ n - 1 \in 1 .. n /\ (n - 1) + 1 = n
    BY <1>1, <2>1
  <2>3. IsGet(stack[n - 1])
    BY <2>1, <2>2 DEF StackInv
  <2>4. stack[n - 1] \in GetFrame
    BY <2>2, <2>3, StackIs, FrameIs
  <2>5. g \in Frame /\ Ages(stack[n - 1], g) /\ g.pc = stack[n - 1].pc
    BY <2>4, MarksAge DEF Frame, GetFrame
  <2>6. Meddled(stack) = [stack EXCEPT ![n - 1] = g]
    BY <1>3 DEF Meddled
  <2> HIDE DEF g
  <2>7. /\ Meddled(stack) \in Seq(Frame) /\ Len(Meddled(stack)) = n
        /\ \A i \in 1 .. n : Meddled(stack)[i] = IF i = n - 1 THEN g ELSE stack[i]
    BY <1>1, <2>2, <2>5, <2>6, ExceptSeq
  <2>8. \A i \in 1 .. n : /\ Ages(stack[i], Meddled(stack)[i])
                          /\ Meddled(stack)[i].pc = stack[i].pc
                          /\ ~ IsGet(stack[i]) => Meddled(stack)[i] = stack[i]
    BY <2>3, <2>5, <2>7, AgesSelf
  <2>9. n <= Len(stack)
    BY <1>1
  <2> QED BY <2>7, <2>8, <2>9 DEF Aged
<1> QED BY <1>2, <1>3 DEF Meddled

\* A new top over frames that were kept.
LEMMA AppendBecomes ==
  ASSUME StackInv, NEW m \in Nat, NEW s, Aged(s, m), NEW g \in Frame,
         m < Len(stack) => Stays(stack[m + 1], g),
         stack' = Append(s, g)
  PROVE  /\ Becomes(m + 1) /\ stack'[m + 1] = g /\ top' = g
         /\ NoneFresher(m)
         /\ m = Len(stack) \/ (Fresh(g) => Fresh(stack[m + 1])) => NoneFresher(m + 1)
         /\ \A i \in 1 .. m : stack'[i] = s[i]
<1>1. Len(stack) \in Nat \ {0} /\ Len(s) = m /\ s \in Seq(Frame) /\ m <= Len(stack)
  BY StackIs DEF Aged
<1>2. /\ stack' \in Seq(Frame) /\ Len(stack') = m + 1 /\ stack'[m + 1] = g
      /\ \A i \in 1 .. m : stack'[i] = s[i]
  BY <1>1, AppendProperties
<1>3. \A i \in 1 .. m + 1 : i <= Len(stack) => Stays(stack[i], stack'[i])
  <2> SUFFICES ASSUME NEW i \in 1 .. m + 1, i <= Len(stack) PROVE Stays(stack[i], stack'[i])
    OBVIOUS
  <2>1. CASE i = m + 1
    <3>1. m < Len(stack) /\ stack'[i] = g
      BY <1>1, <1>2, <2>1
    <3>2. Stays(stack[m + 1], g)
      BY <3>1
    <3>3. stack[i] = stack[m + 1]
      BY <2>1
    <3> QED BY <3>1, <3>2, <3>3
  <2>2. CASE i \in 1 .. m
    BY <1>2, <2>2 DEF Aged, Ages
  <2>3. i = m + 1 \/ i \in 1 .. m
    OBVIOUS
  <2> QED BY <2>1, <2>2, <2>3
<1>4. \A i \in 1 .. (m + 1) - 1 : stack'[i].pc = stack[i].pc
  BY <1>1, <1>2 DEF Aged
<1>5. top' = stack'[Len(stack')]
  BY DEF top
<1>6. NoneFresher(m)
  BY <1>2 DEF NoneFresher, Aged, Ages
<1>7. ASSUME m = Len(stack) \/ (Fresh(g) => Fresh(stack[m + 1]))
      PROVE  NoneFresher(m + 1)
  <2> SUFFICES ASSUME NEW i \in 1 .. m + 1, i <= Len(stack), Fresh(stack'[i]) PROVE Fresh(stack[i])
    BY DEF NoneFresher
  <2>1. CASE i = m + 1
    <3>1. m # Len(stack) /\ stack'[i] = g
      BY <1>1, <1>2, <2>1
    <3>2. Fresh(stack[m + 1])
      BY <1>7, <3>1
    <3> QED BY <2>1, <3>2
  <2>2. CASE i \in 1 .. m
    BY <1>6, <2>2 DEF NoneFresher
  <2>3. i = m + 1 \/ i \in 1 .. m
    OBVIOUS
  <2> QED BY <2>1, <2>2, <2>3
<1> QED BY <1>1, <1>2, <1>3, <1>4, <1>5, <1>6, <1>7 DEF Becomes

\* The frames above m are gone.
LEMMA AgedBecomes ==
  ASSUME StackInv, NEW m \in Nat \ {0}, Aged(stack', m)
  PROVE  Becomes(m) /\ NoneFresher(m) /\ top' = stack'[m]
<1>1. Len(stack) \in Nat \ {0}
  BY StackIs
<1>2. top' = stack'[Len(stack')]
  BY DEF top
<1>3. NoneFresher(m)
  BY DEF NoneFresher, Aged, Ages
<1> QED BY <1>1, <1>2, <1>3 DEF Aged, Ages, Becomes

LEMMA TopBecomes ==
  ASSUME StackInv, NEW g \in Frame, Ages(top, g), stack' = WithTop(g)
  PROVE  /\ Becomes(Len(stack)) /\ NoneFresher(Len(stack))
         /\ stack'[Len(stack)] = g /\ top' = g
         /\ \A i \in 1 .. Len(stack) - 1 : stack'[i] = stack[i]
<1>1. Len(stack) \in Nat \ {0} /\ stack \in Seq(Frame)
  BY StackIs DEF StackInv
<1>2. /\ stack' \in Seq(Frame) /\ Len(stack') = Len(stack)
      /\ \A i \in 1 .. Len(stack) : stack'[i] = IF i = Len(stack) THEN g ELSE stack[i]
  BY <1>1, ExceptSeq DEF WithTop
<1>3. top = stack[Len(stack)] /\ top' = stack'[Len(stack')]
  BY DEF top
<1>4. \A i \in 1 .. Len(stack) : Ages(stack[i], stack'[i])
  <2> SUFFICES ASSUME NEW i \in 1 .. Len(stack) PROVE Ages(stack[i], stack'[i])
    OBVIOUS
  <2>1. CASE i = Len(stack)
    BY <1>2, <1>3, <2>1
  <2>2. CASE i # Len(stack)
    BY <1>2, <2>2, AgesSelf
  <2> QED BY <2>1, <2>2
<1>5. NoneFresher(Len(stack))
  BY <1>1, <1>4 DEF Ages, NoneFresher
<1> QED BY <1>1, <1>2, <1>3, <1>4, <1>5 DEF Ages, Becomes

-----------------------------------------------------------------------------
(* The threshold.                                                           *)

LEMMA CoversMore ==
  ASSUME NEW s, NEW bits, NEW k \in Nat, NEW l \in Nat, NEW i \in 1 .. k, Covers(s, bits, i, k),
         k <= l \/ (l = k - 1 /\ ~ IsGet(s[k]))
  PROVE  Covers(s, bits, i, l)
<1>1. Hiked(s, i, k) => Hiked(s, i, l)
  BY DEF Hiked
<1> QED BY <1>1 DEF Covers

LEMMA ThrBecomes ==
  ASSUME StackInv, NEW m, Becomes(m), thr' \in Word,
         \A i \in 1 .. m : i <= Len(stack) /\ IsGet(stack[i]) =>
           Covers(stack, thr', i, IF m <= Len(stack) THEN m ELSE Len(stack)),
         m = Len(stack) + 1 /\ IsGet(stack'[m]) => Covers(stack', thr', m, m)
  PROVE  ThrInv'
<1>1. /\ Len(stack) \in Nat \ {0} /\ m \in 1 .. Len(stack) + 1 /\ m \in Nat
      /\ Len(stack') = m /\ DOMAIN stack' = 1 .. m
  BY StackIs, LenProperties DEF Becomes
<1>2. ASSUME NEW i \in 1 .. m, IsGet(stack'[i])
      PROVE  Covers(stack', thr', i, m)
  <2>1. CASE i <= Len(stack)
    <3> DEFINE k == IF m <= Len(stack) THEN m ELSE Len(stack)
    <3>1. k \in Nat /\ k <= m /\ k <= Len(stack) /\ i \in 1 .. k /\ k \in 0 .. k
      BY <1>1, <2>1
    <3>2. Kept(stack, stack', k)
      BY <1>1, <3>1 DEF Kept, Becomes
    <3>3. IsGet(stack[i])
      BY <1>2, <3>1, <3>2 DEF Kept, Ages, Stays, IsGet
    <3>4. Covers(stack, thr', i, k)
      BY <2>1, <3>3
    <3> HIDE DEF k
    <3>5. Covers(stack', thr', i, k)
      BY <3>1, <3>2, <3>3, <3>4, KeptCovers
    <3> QED BY <1>1, <3>1, <3>5, CoversMore
  <2>2. CASE ~ (i <= Len(stack))
    <3>1. i = m /\ m = Len(stack) + 1
      BY <1>1, <2>2
    <3>2. Covers(stack', thr', m, m)
      BY <1>2, <3>1
    <3> QED BY <3>1, <3>2
  <2> QED BY <2>1, <2>2
<1> QED BY <1>1, <1>2 DEF ThrInv

\* The frame on top goes on, and the threshold stays.
LEMMA ThrMoves ==
  ASSUME StackInv, ThrInv, Becomes(Len(stack)), thr' = thr,
         IsGet(top) /\ (top.pc = "return" \/ Ends(top)) =>
           IsGet(top') /\ (top'.pc = "return" \/ Ends(top)')
  PROVE  ThrInv'
<1>1. Len(stack) \in Nat \ {0} /\ DOMAIN stack = 1 .. Len(stack)
  BY StackIs
<1>2. CASE IsGet(top) /\ (top.pc = "return" \/ Ends(top))
  BY <1>2 DEF ThrInv
<1>3. CASE ~ (IsGet(top) /\ (top.pc = "return" \/ Ends(top)))
  <2>1. \A i \in 1 .. Len(stack) : IsGet(stack[i]) => Covers(stack, thr', i, Len(stack))
    BY <1>1, <1>3 DEF ThrInv
  <2>2. \A n \in Nat : n <= n /\ n # n + 1
    OBVIOUS
  <2>3. thr' \in Word
    BY DEF ThrInv
  <2> QED BY <1>1, <2>1, <2>2, <2>3, ThrBecomes
<1> QED BY <1>2, <1>3

-----------------------------------------------------------------------------
(* Who is in use.                                                           *)

LEMMA InUseIs ==
  ASSUME StackInv
  PROVE  InUse = {stack[i].item : i \in {j \in 1 .. Len(stack) : ~ IsGet(stack[j])}} \ {NIL}
<1>1. DOMAIN stack \ Gets = {j \in 1 .. Len(stack) : ~ IsGet(stack[j])}
  BY StackIs DEF Gets
<1> QED BY <1>1 DEF InUse

LEMMA InUseNext ==
  ASSUME NEW m \in Nat, stack' \in Seq(Frame), Len(stack') = m
  PROVE  InUse' = {stack'[i].item : i \in {j \in 1 .. m : ~ IsGet(stack'[j])}} \ {NIL}
<1>1. DOMAIN stack' = 1 .. m
  BY LenProperties
<1>2. (DOMAIN stack \ Gets)' = {j \in 1 .. m : ~ IsGet(stack'[j])}
  BY <1>1 DEF Gets
<1> QED BY <1>2 DEF InUse

LEMMA InUseBecomes ==
  ASSUME StackInv, FramesInv, NEW m, Becomes(m)
  PROVE  /\ m = Len(stack) => InUse' = InUse
         /\ m = Len(stack) + 1 =>
              InUse' = InUse \cup (IF IsGet(stack'[m]) THEN {} ELSE {stack'[m].item} \ {NIL})
         /\ m = Len(stack) - 1 /\ (IsGet(top) \/ top.item = NIL) => InUse' = InUse
         /\ m \in {Len(stack) - 1, Len(stack) - 2} /\ ~ IsGet(top) /\ top.item # NIL =>
              InUse' = InUse \ {top.item}
<1> DEFINE n == Len(stack)
           P == {j \in 1 .. n : ~ IsGet(stack[j])}
           Q == {j \in 1 .. m : ~ IsGet(stack'[j])}
<1>1. n \in Nat \ {0} /\ m \in 1 .. n + 1 /\ m \in Nat /\ top = stack[n]
  BY StackIs DEF Becomes
<1>2. InUse = {stack[i].item : i \in P} \ {NIL} /\ InUse' = {stack'[i].item : i \in Q} \ {NIL}
  BY <1>1, InUseIs, InUseNext DEF Becomes
<1>3. \A i \in 1 .. m : i <= n => /\ i \in Q <=> i \in P
                                  /\ i \in P => stack'[i].item = stack[i].item
  BY <1>1 DEF Becomes, Ages, Stays, IsGet
<1>4. P \subseteq 1 .. n /\ Q \subseteq 1 .. m
  OBVIOUS
<1>5. (n \in P <=> ~ IsGet(stack[n])) /\ (m \in Q <=> ~ IsGet(stack'[m]))
  BY <1>1
<1>6. \A i \in P : i < n /\ n \in P /\ stack[n].item # NIL => stack[i].item # stack[n].item
  <2> SUFFICES ASSUME NEW i \in P, i < n, n \in P, stack[n].item # NIL
               PROVE  stack[i].item # stack[n].item
    OBVIOUS
  <2>1. ProcAt(stack, n) /\ i \in 1 .. n - 1 /\ ~ IsGet(stack[i]) /\ ~ IsGet(stack[n])
    BY <1>1, StackIs DEF FramesInv
  <2> QED BY <2>1 DEF ProcAt
<1>7. m = n - 2 /\ n \in P => n - 1 \notin P
  BY <1>1 DEF StackInv
<1> HIDE DEF n, P, Q
<1>8. CASE m = n
  <2>1. P = Q
    <3>1. \A i \in P : i \in Q
      BY <1>1, <1>3, <1>4, <1>8
    <3>2. \A i \in Q : i \in P
      BY <1>1, <1>3, <1>4, <1>8
    <3> QED BY <3>1, <3>2
  <2>2. \A i \in P : stack'[i].item = stack[i].item
    BY <1>1, <1>3, <1>4, <1>8
  <2>3. InUse' = InUse
    BY <1>2, <2>1, <2>2
  <2> QED BY <1>1, <1>8, <2>3 DEF n
<1>9. CASE m = n + 1
  <2>1. Q \ {m} = P /\ m \notin P
    <3>1. m \notin P
      BY <1>1, <1>4, <1>9
    <3>2. \A i \in P : i \in Q
      BY <1>1, <1>3, <1>4, <1>9
    <3>3. \A i \in Q : i # m => i \in P
      <4> SUFFICES ASSUME NEW i \in Q, i # m PROVE i \in P
        OBVIOUS
      <4>1. i \in 1 .. m /\ i <= n
        BY <1>1, <1>4, <1>9
      <4> QED BY <1>3, <4>1
    <3> QED BY <3>1, <3>2, <3>3
  <2>2. \A i \in P : stack'[i].item = stack[i].item
    BY <1>1, <1>3, <1>4, <1>9
  <2>3. CASE m \in Q
    <3>1. InUse' = InUse \cup ({stack'[m].item} \ {NIL})
      BY <1>2, <2>1, <2>2, <2>3
    <3> QED BY <1>1, <1>5, <1>9, <2>3, <3>1 DEF n
  <2>4. CASE m \notin Q
    <3>1. Q = P
      BY <2>1, <2>4
    <3>2. InUse' = InUse
      BY <1>2, <2>2, <3>1
    <3> QED BY <1>1, <1>5, <1>9, <2>4, <3>2 DEF n
  <2> QED BY <2>3, <2>4
<1>10. CASE m = n - 1
  <2>1. Q = P \ {n}
    <3>1. \A i \in Q : i \in P /\ i # n
      BY <1>1, <1>3, <1>4, <1>10
    <3>2. \A i \in P : i # n => i \in Q
      <4> SUFFICES ASSUME NEW i \in P, i # n PROVE i \in Q
        OBVIOUS
      <4>1. i \in 1 .. m /\ i <= n
        BY <1>1, <1>4, <1>10
      <4> QED BY <1>3, <4>1
    <3> QED BY <3>1, <3>2
  <2>2. \A i \in Q : stack'[i].item = stack[i].item
    BY <1>1, <1>3, <1>4, <1>10
  <2>3. n \notin P \/ stack[n].item = NIL => InUse' = InUse
    BY <1>2, <2>1, <2>2
  <2>4. n \in P /\ stack[n].item # NIL => InUse' = InUse \ {stack[n].item}
    <3>1. \A i \in Q : i \in P /\ i < n
      BY <1>1, <1>4, <2>1
    <3> QED BY <1>2, <1>6, <2>1, <2>2, <3>1
  <2> QED BY <1>1, <1>5, <1>10, <2>3, <2>4 DEF n
<1>11. CASE m = n - 2 /\ n \in P
  <2>1. Q = P \ {n}
    <3>1. \A i \in Q : i \in P /\ i # n
      BY <1>1, <1>3, <1>4, <1>11
    <3>2. \A i \in P : i # n => i \in Q
      <4> SUFFICES ASSUME NEW i \in P, i # n PROVE i \in Q
        OBVIOUS
      <4>1. i \in 1 .. m /\ i <= n
        BY <1>1, <1>4, <1>7, <1>11
      <4> QED BY <1>3, <4>1
    <3> QED BY <3>1, <3>2
  <2>2. \A i \in Q : stack'[i].item = stack[i].item
    BY <1>1, <1>3, <1>4, <1>11
  <2>3. stack[n].item # NIL => InUse' = InUse \ {stack[n].item}
    <3>1. \A i \in Q : i \in P /\ i < n
      BY <1>1, <1>4, <2>1
    <3> QED BY <1>2, <1>6, <1>11, <2>1, <2>2, <3>1
  <2> QED BY <1>1, <1>5, <1>11, <2>3 DEF n
<1>12. CASE m \notin {n - 2, n - 1, n, n + 1} \/ (m = n - 2 /\ n \notin P)
  BY <1>1, <1>5, <1>12 DEF n
<1> QED BY <1>8, <1>9, <1>10, <1>11, <1>12

-----------------------------------------------------------------------------
(* The main thread's part of the invariant, for each kind of step.           *)

MainInv == StackInv /\ FramesInv /\ ThrInv

LEMMA MainGoes ==
  ASSUME MainInv, Becomes(Len(stack)), NoneFresher(Len(stack)),
         mainPorts' \subseteq mainPorts, thr' = thr,
         IsGet(top) /\ (top.pc = "return" \/ Ends(top)) =>
           IsGet(top') /\ (top'.pc = "return" \/ Ends(top)')
  PROVE  MainInv'
<1>1. Len(stack) # Len(stack) + 1
  <2>1. \A n \in Nat : n # n + 1
    OBVIOUS
  <2> QED BY <2>1, StackIs DEF MainInv
<1>2. StackInv'
  BY <1>1, StackBecomes DEF MainInv
<1>3. FramesInv'
  BY <1>1, FramesBecome DEF MainInv
<1>4. ThrInv'
  BY ThrMoves DEF MainInv
<1> QED BY <1>2, <1>3, <1>4 DEF MainInv

LEMMA MainStill ==
  ASSUME MainInv, UNCHANGED <<stack, thr, lastEvent>>, mainPorts' \subseteq mainPorts
  PROVE  MainInv'
<1>1. Len(stack) \in Nat \ {0} /\ Aged(stack', Len(stack))
  BY StackIs, AgedStack DEF MainInv
<1>2. Becomes(Len(stack)) /\ NoneFresher(Len(stack))
  BY <1>1, AgedBecomes DEF MainInv
<1>3. top' = top /\ (Ends(top)' <=> Ends(top))
  BY DEF top, Ends
<1> QED BY <1>2, <1>3, MainGoes

\* The program goes on; its calls may be marked.
LEMMA MainProgs ==
  ASSUME MainInv, ~ IsGet(top), Aged(stack', Len(stack)),
         mainPorts' \subseteq mainPorts, thr' = thr
  PROVE  MainInv' /\ ~ IsGet(top') /\ top'.item = top.item /\ top'.pc = top.pc
         /\ top'.fd = top.fd
<1>1. Len(stack) \in Nat \ {0} /\ Len(stack) \in 1 .. Len(stack) /\ top = stack[Len(stack)]
  BY StackIs DEF MainInv
<1>2. Becomes(Len(stack)) /\ NoneFresher(Len(stack)) /\ top' = stack'[Len(stack)]
  BY <1>1, AgedBecomes DEF MainInv
<1>3. MainInv'
  BY <1>2, MainGoes
<1>4. Ages(stack[Len(stack)], stack'[Len(stack)])
      /\ stack'[Len(stack)].pc = stack[Len(stack)].pc
      /\ stack'[Len(stack)].fd = stack[Len(stack)].fd
  BY <1>1 DEF Aged
<1> QED BY <1>1, <1>2, <1>3, <1>4 DEF Ages, Stays, IsGet

\* A proc is called.
LEMMA MainCalls ==
  ASSUME MainInv, IsGet(top), top.pc # "return", ~ Ends(top),
         NEW s, Aged(s, Len(stack)), NEW g \in ProgFrame, ~ IsGet(g), stack' = Append(s, g),
         thr' = thr, mainPorts' \subseteq mainPorts, g.item = NIL => top.pc = "recv",
         g.item # NIL => \A i \in 1 .. Len(stack) :
           IF IsGet(stack[i]) THEN Allowed(stack, g.item, i, Len(stack))
                              ELSE stack[i].item # g.item
  PROVE  MainInv' /\ Becomes(Len(stack) + 1) /\ stack'[Len(stack) + 1] = g /\ top' = g
<1> DEFINE n == Len(stack)
<1>1. n \in Nat \ {0} /\ n \in Nat /\ ~ (n < n) /\ g \in Frame /\ n \in 0 .. n
  BY StackIs DEF MainInv, Frame
<1>2. Becomes(n + 1) /\ NoneFresher(n + 1) /\ stack'[n + 1] = g /\ top' = g
  BY <1>1, AppendBecomes DEF MainInv
<1>3. StackInv'
  BY <1>2, StackBecomes DEF MainInv
<1>4. Kept(stack, stack', n)
  BY <1>1, <1>2 DEF Becomes, Kept
<1>5. ProcAt(stack', n + 1)
  <2> SUFFICES ASSUME g.item # NIL, NEW i \in 1 .. n
               PROVE  IF IsGet(stack'[i]) THEN Allowed(stack', g.item, i, n)
                                          ELSE stack'[i].item # g.item
    BY <1>1, <1>2 DEF ProcAt
  <2>1. IF IsGet(stack[i]) THEN Allowed(stack, g.item, i, n) ELSE stack[i].item # g.item
    OBVIOUS
  <2>2. Stays(stack[i], stack'[i])
    BY <1>4 DEF Kept
  <2>3. CASE IsGet(stack[i])
    <3>1. Allowed(stack', g.item, i, n)
      BY <1>1, <1>4, <2>1, <2>3, KeptAllowed
    <3> QED BY <2>2, <2>3, <3>1 DEF Stays, IsGet
  <2>4. CASE ~ IsGet(stack[i])
    BY <2>1, <2>2, <2>4 DEF Stays, IsGet
  <2> QED BY <2>3, <2>4
<1>6. PrevAt(stack', n + 1) /\ MainAt(stack', n + 1, mainPorts')
  BY <1>2 DEF PrevAt, MainAt, Fresh
<1>7. FramesInv'
  BY <1>2, <1>5, <1>6, FramesBecome DEF MainInv
<1>8. ThrInv'
  <2>1. \A i \in 1 .. n : IsGet(stack[i]) => Covers(stack, thr, i, n)
    BY StackIs DEF MainInv, ThrInv
  <2>2. thr' \in Word /\ ~ (n + 1 <= n)
    BY <1>1 DEF MainInv, ThrInv
  <2>3. \A i \in 1 .. n + 1 : i <= n /\ IsGet(stack[i]) =>
          Covers(stack, thr', i, IF n + 1 <= n THEN n + 1 ELSE n)
    BY <1>1, <2>1, <2>2
  <2> QED BY <1>2, <2>2, <2>3, ThrBecomes DEF MainInv
<1> QED BY <1>2, <1>3, <1>7, <1>8 DEF MainInv

\* The set of ports is fixed for the call on top.
LEMMA FixIs ==
  ASSUME StackInv, NEW m \in {Len(stack) - 1, Len(stack)},
         NEW s, Aged(s, m), NEW f, NEW g \in GetFrame, g = [f EXCEPT !.stale = FALSE],
         NEW bits, FixMainSet(s, f, bits), m < Len(stack) => Stays(stack[m + 1], g)
  PROVE  /\ Becomes(m + 1) /\ stack'[m + 1] = g /\ top' = g /\ NoneFresher(m)
         /\ mainPorts' = mainPorts \/ \A i \in 1 .. m : ~ Fresh(stack'[i])
<1>1. Len(stack) \in Nat \ {0} /\ m \in Nat /\ g \in Frame
  BY StackIs DEF Frame
<1>2. PICK r : /\ Aged(r, m) /\ stack' = Append(r, g)
               /\ mainPorts' = mainPorts \/ \A i \in 1 .. m : ~ Fresh(r[i])
  BY <1>1, AgedStale DEF FixMainSet
<1>3. /\ Becomes(m + 1) /\ stack'[m + 1] = g /\ top' = g /\ NoneFresher(m)
      /\ \A i \in 1 .. m : stack'[i] = r[i]
  <2>1. Aged(r, m) /\ stack' = Append(r, g) /\ m \in Nat /\ g \in Frame
    BY <1>1, <1>2
  <2>2. m < Len(stack) => Stays(stack[m + 1], g)
    OBVIOUS
  <2> QED BY ONLY StackInv, <2>1, <2>2, AppendBecomes
<1> QED BY <1>2, <1>3

LEMMA MainFixes ==
  ASSUME StackInv, FramesInv, ThrInv', list \in Seq(Item), NEW m \in {Len(stack) - 1, Len(stack)},
         NEW s, Aged(s, m), NEW f, NEW g \in GetFrame, g = [f EXCEPT !.stale = FALSE],
         NEW bits \in Word, FixMainSet(s, f, bits),
         m = Len(stack) => ~ IsGet(top) /\ top.pc = "run",
         m < Len(stack) => Stays(stack[m + 1], g),
         PrevAt(stack', m + 1),
         \A i \in 1 .. m + 1 : IsGet(stack'[i]) => Covers(stack', bits, i, m + 1)
  PROVE  MainInv'
<1>1. /\ Len(stack) \in Nat \ {0} /\ m \in Nat /\ m <= Len(stack)
      /\ g \in Frame /\ IsGet(g)
  BY StackIs DEF Frame, GetFrame, IsGet
<1>2. mainPorts' = mainPorts \/ \A i \in 1 .. m : ~ Fresh(stack'[i])
  BY FixIs
<1>3. Becomes(m + 1) /\ stack'[m + 1] = g /\ NoneFresher(m)
  BY FixIs
<1>4. m + 1 \in 1 .. Len(stack) + 1 /\ stack' \in Seq(Frame) /\ Len(stack') = m + 1
      /\ DOMAIN stack' = 1 .. m + 1
  BY <1>1, <1>3, LenProperties DEF Becomes
<1>5. StackInv'
  <2>1. m + 1 = Len(stack) + 1 => m = Len(stack)
    BY <1>1
  <2>2. m + 1 = Len(stack) + 1 =>
          /\ IsGet(stack'[m + 1]) <=> ~ IsGet(top)
          /\ IF IsGet(top) THEN top.pc # "return" /\ (stack'[m + 1].item = NIL => top.pc = "recv")
                           ELSE top.pc = "run"
    BY <1>1, <1>3, <2>1
  <2> QED BY <1>3, <2>2, StackBecomes
<1>6. ASSUME NEW k \in 1 .. m
      PROVE  ProcAt(stack', k) /\ PrevAt(stack', k) /\ MainAt(stack', k, mainPorts')
  <2>1. Kept(stack, stack', k) /\ k \in Nat /\ k \in 1 .. k /\ k <= Len(stack)
        /\ k \in DOMAIN stack
    BY <1>1, <1>3, StackIs DEF Kept, Becomes
  <2>2. ProcAt(stack, k) /\ PrevAt(stack, k) /\ MainAt(stack, k, mainPorts)
    BY <2>1 DEF FramesInv
  <2>3. ProcAt(stack', k) /\ PrevAt(stack', k)
    BY <2>1, <2>2, KeptFrames
  <2>4. CASE mainPorts' = mainPorts
    <3>1. Fresh(stack'[k]) => Fresh(stack[k])
      BY <1>3, <2>1 DEF NoneFresher
    <3>2. mainPorts' \in SUBSET mainPorts
      BY <2>4
    <3>3. MainAt(stack', k, mainPorts')
      BY <2>1, <2>2, <3>1, <3>2, KeptFrames
    <3> QED BY <2>3, <3>3
  <2>5. CASE \A i \in 1 .. m : ~ Fresh(stack'[i])
    BY <1>3, <2>3, <2>5 DEF MainAt
  <2> QED BY <1>2, <2>4, <2>5
<1>7. ProcAt(stack', m + 1)
  BY <1>1, <1>3 DEF ProcAt
<1>8. MainAt(stack', m + 1, mainPorts')
  <2> SUFFICES ASSUME NEW x \in mainPorts', NEW i \in 1 .. m + 1
               PROVE  IF IsGet(stack'[i]) THEN Allowed(stack', x, i, m + 1)
                                          ELSE stack'[i].item # x
    BY DEF MainAt
  <2>1. x \in Listed(Port) /\ Above(x, bits) /\ x \notin InUse
    BY DEF FixMainSet, Wanted
  <2>2. x \in Item
    BY <2>1, ListedIs
  <2>3. CASE IsGet(stack'[i])
    <3>1. stack'[i] \in Frame
      BY <1>4, ElementOfSeq
    <3>2. stack'[i].get \in Requests
      BY <2>3, <3>1, FrameIs DEF GetFrame
    <3>3. stack'[i].get.arg \in Nat /\ Covers(stack', bits, i, m + 1)
      BY <2>3, <3>2, RequestIs
    <3> QED BY <2>1, <2>2, <2>3, <3>3, AboveAllowed
  <2>4. CASE ~ IsGet(stack'[i])
    <3>1. i # m + 1
      BY <1>1, <1>3, <2>4
    <3>2. i \in 1 .. m /\ i \in 1 .. Len(stack) /\ i <= Len(stack)
      BY <1>1, <3>1
    <3>3. Stays(stack[i], stack'[i])
      BY <1>3, <3>2 DEF Becomes
    <3>4. ~ IsGet(stack[i]) /\ stack'[i].item = stack[i].item
      BY <2>4, <3>3 DEF Stays, IsGet
    <3>5. stack[i].item \in InUse \cup {NIL}
      BY <3>2, <3>4, InUseIs
    <3> QED BY <2>1, <2>2, <2>4, <3>4, <3>5
  <2> QED BY <2>3, <2>4
<1>9. FramesInv'
  <2>1. \A k \in 1 .. m + 1 : k \in 1 .. m \/ k = m + 1
    BY <1>1
  <2> QED BY <1>4, <1>6, <1>7, <1>8, <2>1 DEF FramesInv
<1> QED BY <1>5, <1>9 DEF MainInv

-----------------------------------------------------------------------------
(* The other parts, where a step does not concern them.                      *)

LEMMA ListStays ==
  ASSUME ListInv, UNCHANGED <<list, doomed>>, mainPorts' \subseteq mainPorts,
         mainCtx' \subseteq Ctx, doomed \subseteq InUse', InUse' \subseteq Range(list),
         ~ IsGet(top') => top'.pc = "run", Loops(top') => top'.at \in Range(list)
  PROVE  ListInv'
<1>1. Listed(Port)' = Listed(Port)
  BY DEF Listed
<1> QED BY <1>1 DEF ListInv

\* The call on top goes on.
LEMMA ListGoes ==
  ASSUME StackInv, FramesInv, ListInv, UNCHANGED <<list, doomed, mainPorts, mainCtx>>,
         Becomes(Len(stack)), IsGet(top'), Loops(top') => top'.at \in Range(list)
  PROVE  ListInv'
<1>1. InUse' = InUse
  BY InUseBecomes
<1>2. doomed \subseteq InUse' /\ InUse' \subseteq Range(list) /\ mainCtx' \subseteq Ctx
  BY <1>1 DEF ListInv
<1> QED BY <1>2, ListStays

LEMMA EventStays ==
  ASSUME EventInv, UNCHANGED <<queue, lastEvent, sent>>
  PROVE  EventInv'
  BY DEF EventInv

LEMMA ThreadStays ==
  ASSUME ThreadInv, UNCHANGED <<waiting, active, sel>>
  PROVE  ThreadInv'
  BY DEF ThreadInv

LEMMA TopIs ==
  ASSUME StackInv
  PROVE  /\ top \in Frame
         /\ IsGet(top) => /\ top \in GetFrame /\ top.get \in Requests /\ top.prev \in Word
                          /\ top.at \in Item \cup {NIL} /\ top.called \in BOOLEAN
         /\ ~ IsGet(top) => top \in ProgFrame /\ top.kind = "prog"
<1>1. Len(stack) \in 1 .. Len(stack)
  BY StackIs
<1>2. top \in Frame
  BY <1>1, StackIs
<1> QED BY <1>2, FrameIs DEF GetFrame

\* What exceeds the threshold and is not in use may be called.
LEMMA MayCall ==
  ASSUME MainInv, NEW x \in Item, Above(x, thr), x \notin InUse,
         IsGet(top) => top.pc # "return"
  PROVE  /\ IsGet(top) => ~ Ends(top)
         /\ \A i \in 1 .. Len(stack) : IF IsGet(stack[i]) THEN Allowed(stack, x, i, Len(stack))
                                                           ELSE stack[i].item # x
<1>1. Width - 1 \notin thr
  <2>1. Priority[x[1]] \in 0 .. Width - 2 /\ \A b \in thr : Priority[x[1]] + 1 > b
    BY PriorityIs DEF Above
  <2> QED BY <2>1
<1>2. ~ Ends(top)
  BY <1>1 DEF Ends
<1>3. ASSUME NEW i \in 1 .. Len(stack), IsGet(stack[i])
      PROVE  Allowed(stack, x, i, Len(stack))
  <2>1. Covers(stack, thr, i, Len(stack)) /\ thr \in Word /\ stack[i].get.arg \in Nat
    BY <1>2, <1>3, StackIs DEF MainInv, ThrInv
  <2> QED BY <2>1, AboveAllowed
<1>4. ASSUME NEW i \in 1 .. Len(stack), ~ IsGet(stack[i])
      PROVE  stack[i].item # x
  <2>1. stack[i].item \in InUse \cup {NIL} /\ x # NIL
    BY <1>4, InUseIs DEF MainInv
  <2> QED BY <2>1
<1> QED BY <1>2, <1>3, <1>4

\* The address of the first event that a call asks for.
LEMMA MatchingIs ==
  ASSUME NEW q \in Seq([addr : Address, ctxt : Ctx, type : Type]), NEW f
  PROVE  Matching(q, f) \in Address \cup {NIL}
<1> DEFINE hits == {i \in DOMAIN q : IsIn(f, q[i])}
<1>1. DOMAIN q = 1 .. Len(q) /\ Len(q) \in Nat
  BY LenProperties
<1>2. hits \subseteq Nat
  BY <1>1
<1>3. CASE hits = {}
  BY <1>3 DEF Matching
<1>4. CASE hits # {}
  <2>1. PICK n \in hits : \A m \in hits : ~ (m < n)
    BY <1>2, <1>4, Least
  <2>2. \A m \in hits : n <= m
    BY <1>2, <2>1
  <2>3. PICK i \in hits : Matching(q, f) = q[i].addr
    BY <1>4, <2>2 DEF Matching
  <2>4. q[i] \in [addr : Address, ctxt : Ctx, type : Type]
    BY <1>1, <2>3, ElementOfSeq
  <2> QED BY <2>3, <2>4
<1> QED BY <1>3, <1>4

LEMMA EventFound ==
  ASSUME EventInv, NEW f, lastEvent' = Refreshed(f), UNCHANGED <<queue, sent>>
  PROVE  EventInv'
<1>1. lastEvent' \in Address \cup {NIL}
  BY MatchingIs DEF Refreshed, EventInv
<1> QED BY <1>1 DEF EventInv

-----------------------------------------------------------------------------
(* The event loop.                                                          *)

\* The call on top goes on at pc, with its loop at a.
LEMMA CallGoesOn ==
  ASSUME Inv, IsGet(top), top.pc # "return",
         NEW pc, NEW a, NEW called, NEW g, Goes(top, g, pc, a, called), stack' = WithTop(g),
         pc \in {"fds0", "tes", "fds"} => a \in Range(list) \cup {NIL},
         Ends(top) => pc = "return" \/ (pc \in {"tes", "fds"} /\ ~ called /\ lastEvent' # NIL),
         thr' = thr, UNCHANGED <<list, doomed, mainPorts, mainCtx>>
  PROVE  MainInv' /\ ListInv' /\ top' = g
<1>1. MainInv /\ StackInv /\ FramesInv /\ ListInv
  BY DEF Inv, MainInv
<1>2. g \in Frame /\ Ages(top, g) /\ IsGet(g) /\ g.pc = pc /\ g.at = a /\ g.called = called
  BY DEF Goes, Frame, GetFrame, IsGet
<1>3. Becomes(Len(stack)) /\ NoneFresher(Len(stack)) /\ top' = g
  <2>1. Stays(top, g)
    BY <1>2 DEF Ages
  <2> QED BY <1>1, <1>2, TopBecomes
<1>4. Ends(top) => top'.pc = "return" \/ Ends(top)'
  BY <1>2, <1>3 DEF Ends
<1>5. IsGet(top')
  BY <1>2, <1>3
<1>6. MainInv'
  BY <1>1, <1>3, <1>4, <1>5, MainGoes
<1>7. Loops(top') => top'.at \in Range(list)
  BY <1>2, <1>3 DEF Loops
<1>8. ListInv'
  BY <1>1, <1>3, <1>5, <1>7, ListGoes
<1> QED BY <1>3, <1>6, <1>8

LEMMA VisitKeeps ==
  ASSUME Inv, NEW pc \in {"fds0", "tes", "fds"}, NEW keys, Visit(pc, keys)
  PROVE  Inv'
<1>1. /\ IsGet(top) /\ top.pc = pc /\ top.at # NIL
      /\ UNCHANGED <<thr, list, doomed, waiting, active, sel, mainPorts, mainCtx, sent, queue,
                     lastEvent, scenario>>
  BY DEF Visit, InCall, libVars, mainVars, selVars, worldVars, eventVars
<1>2. MainInv /\ StackInv /\ FramesInv /\ ListInv
  BY DEF Inv, MainInv
<1>3. top \in GetFrame /\ top.pc # "return" /\ top.at \in Item /\ top.at \in Range(list)
      /\ list \in Seq(Item)
  BY <1>1, <1>2, TopIs DEF ListInv, Loops
<1>4. CASE Ready(top.at)
  <2> DEFINE x == top.at
             g == Prog(x)
  <2>1. x \notin InUse /\ Above(x, thr) /\ stack' = Append(stack, g)
    BY <1>4 DEF Ready, Visit, Pushed
  <2>2. g \in ProgFrame /\ ~ IsGet(g) /\ g.item = x /\ g.pc = "run"
    BY <1>3 DEF Prog, ProgFrame, IsGet
  <2>3. /\ ~ Ends(top)
        /\ \A i \in 1 .. Len(stack) : IF IsGet(stack[i]) THEN Allowed(stack, x, i, Len(stack))
                                                          ELSE stack[i].item # x
    BY <1>1, <1>2, <1>3, <2>1, MayCall
  <2>4. Aged(stack, Len(stack))
    BY <1>2, AgedStack
  <2> HIDE DEF g
  <2>5. MainInv' /\ Becomes(Len(stack) + 1) /\ stack'[Len(stack) + 1] = g /\ top' = g
    BY <1>1, <1>2, <1>3, <2>1, <2>2, <2>3, <2>4, MainCalls
  <2>6. InUse' = InUse \cup {x}
    <3>1. InUse' = InUse \cup (IF IsGet(g) THEN {} ELSE {g.item} \ {NIL})
      BY <1>2, <2>5, InUseBecomes
    <3> QED BY <1>1, <2>2, <3>1
  <2>7. ListInv'
    <3>1. doomed \subseteq InUse' /\ InUse' \subseteq Range(list) /\ mainCtx' \subseteq Ctx
      BY <1>1, <1>2, <1>3, <2>6 DEF ListInv
    <3>2. ~ IsGet(top') /\ top'.pc = "run" /\ ~ Loops(top')
      BY <2>2, <2>5 DEF Loops
    <3> QED BY <1>1, <1>2, <3>1, <3>2, ListStays
  <2> QED BY <1>1, <2>5, <2>7, EventStays, ThreadStays DEF Inv, MainInv
<1>5. CASE ~ Ready(top.at)
  <2> DEFINE a == After(top.at, keys)
             g == [top EXCEPT !.at = a]
  <2>1. stack' = WithTop(g)
    BY <1>5 DEF Visit
  <2>2. a \in Item \cup {NIL} /\ a \in Range(list) \cup {NIL}
    BY <1>3, ListedIs
  <2>3. Goes(top, g, pc, a, top.called)
    BY <1>1, <1>3, <2>2, CallGoes DEF CallPc
  <2>4. Ends(top) => pc \in {"tes", "fds"} /\ ~ top.called /\ lastEvent' # NIL
    BY <1>1 DEF Ends
  <2>5. MainInv' /\ ListInv'
    BY <1>1, <1>3, <2>1, <2>2, <2>3, <2>4, CallGoesOn
  <2> QED BY <1>1, <2>5, EventStays, ThreadStays DEF Inv, MainInv
<1> QED BY <1>4, <1>5

LEMMA FDsChecked0Keeps ==
  ASSUME Inv, FDsChecked0
  PROVE  Inv'
<1>1. /\ IsGet(top) /\ top.pc = "fds0" /\ lastEvent' = Refreshed(top)
      /\ stack' = WithTop(Go(top, "recv"))
      /\ UNCHANGED <<thr, list, doomed, waiting, active, sel, mainPorts, mainCtx, sent, queue,
                     scenario>>
  BY DEF FDsChecked0, InCall, libVars, mainVars, selVars, worldVars
<1>2. top \in GetFrame /\ top.pc # "return" /\ top.at \in Item \cup {NIL}
  BY <1>1, TopIs DEF Inv
<1>3. Goes(top, Go(top, "recv"), "recv", top.at, FALSE)
  BY <1>2, SettledGoes DEF CallPc
<1>4. ~ Ends(top)
  BY <1>1 DEF Ends
<1>5. MainInv' /\ ListInv'
  BY <1>1, <1>2, <1>3, <1>4, CallGoesOn
<1> QED BY <1>1, <1>5, EventFound, ThreadStays DEF Inv, MainInv

LEMMA TEsCheckedKeeps ==
  ASSUME Inv, TEsChecked
  PROVE  Inv'
<1> DEFINE a == FirstOf(FD)
           g == [top EXCEPT !.pc = "fds", !.at = a, !.swallowed = FALSE]
<1>1. /\ IsGet(top) /\ top.pc = "tes" /\ stack' = WithTop(g)
      /\ UNCHANGED <<thr, list, doomed, waiting, active, sel, mainPorts, mainCtx, sent, queue,
                     lastEvent, scenario>>
  BY DEF TEsChecked, InCall, libVars, mainVars, selVars, worldVars, eventVars
<1>2. top \in GetFrame /\ top.pc # "return"
  BY <1>1, TopIs DEF Inv
<1>3. a \in Item \cup {NIL} /\ a \in Range(list) \cup {NIL}
  BY ListedIs DEF Inv, ListInv
<1>4. Goes(top, g, "fds", a, top.called)
  <2>1. "fds" \in CallPc
    BY DEF CallPc
  <2> QED BY <1>2, <1>3, <2>1, CallGoes
<1>5. Ends(top) => ~ top.called /\ lastEvent' # NIL
  BY <1>1 DEF Ends
<1>6. MainInv' /\ ListInv'
  BY <1>1, <1>2, <1>3, <1>4, <1>5, CallGoesOn
<1> QED BY <1>1, <1>6, EventStays, ThreadStays DEF Inv, MainInv

LEMMA TimedOutKeeps ==
  ASSUME Inv, TimedOut
  PROVE  Inv'
<1> DEFINE g == [top EXCEPT !.pc = "after"]
<1>1. /\ IsGet(top) /\ top.pc = "recv" /\ stack' = WithTop(g)
      /\ UNCHANGED <<thr, list, doomed, waiting, active, sel, mainPorts, mainCtx, sent, queue,
                     lastEvent, scenario>>
  BY DEF TimedOut, Receives, InCall, libVars, mainVars, selVars, worldVars, eventVars
<1>2. top \in GetFrame /\ top.pc # "return" /\ top.at \in Item \cup {NIL} /\ ~ Ends(top)
  BY <1>1, TopIs DEF Inv, Ends
<1>3. Goes(top, g, "after", top.at, top.called)
  <2>1. "after" \in CallPc
    BY DEF CallPc
  <2> QED BY <1>2, <2>1, CallGoes
<1>4. MainInv' /\ ListInv'
  BY <1>1, <1>2, <1>3, CallGoesOn
<1> QED BY <1>1, <1>4, EventStays, ThreadStays DEF Inv, MainInv

LEMMA FDsCheckedKeeps ==
  ASSUME Inv, FDsChecked
  PROVE  Inv'
<1>1. /\ IsGet(top) /\ top.pc = "fds" /\ lastEvent' = Refreshed(top)
      /\ \/ stack' = WithTop(Go(top, "return"))
         \/ stack' = WithTop(Go(top, "recv")) /\ lastEvent' = NIL
      /\ UNCHANGED <<thr, list, doomed, waiting, active, sel, mainPorts, mainCtx, sent, queue,
                     scenario>>
  BY DEF FDsChecked, InCall, libVars, mainVars, selVars, worldVars
<1>2. top \in GetFrame /\ top.pc # "return" /\ top.at \in Item \cup {NIL}
  BY <1>1, TopIs DEF Inv
<1>3. /\ Goes(top, Go(top, "return"), "return", top.at, FALSE)
      /\ Goes(top, Go(top, "recv"), "recv", top.at, FALSE)
  BY <1>2, SettledGoes DEF CallPc
<1>4. ASSUME stack' = WithTop(Go(top, "return")) PROVE MainInv' /\ ListInv'
  <2>1. Goes(top, Go(top, "return"), "return", top.at, FALSE)
    BY <1>3
  <2> QED BY <1>1, <1>2, <1>4, <2>1, CallGoesOn
<1>5. ASSUME stack' = WithTop(Go(top, "recv")), lastEvent' = NIL PROVE MainInv' /\ ListInv'
  <2>1. ~ Ends(top)
    BY <1>1, <1>5 DEF Ends, Refreshed
  <2>2. Goes(top, Go(top, "recv"), "recv", top.at, FALSE)
    BY <1>3
  <2> QED BY <1>1, <1>2, <1>5, <2>1, <2>2, CallGoesOn
<1>6. MainInv' /\ ListInv'
  BY <1>1, <1>4, <1>5
<1>7. EventInv'
  BY <1>1, EventFound DEF Inv
<1>8. ThreadInv'
  BY <1>1, ThreadStays DEF Inv
<1> QED BY <1>1, <1>6, <1>7, <1>8 DEF Inv, MainInv

LEMMA AfterMessagesKeeps ==
  ASSUME Inv, AfterMessages
  PROVE  Inv'
<1> DEFINE n == Len(stack)
           a == FirstOf(Timer)
           f == [Settled(top) EXCEPT !.pc = "tes", !.at = a]
           g == [f EXCEPT !.hiked = TRUE]
<1>1. /\ IsGet(top) /\ top.pc = "after" /\ lastEvent' = Refreshed(top)
      /\ IF Refreshed(top) = NIL THEN thr' = thr /\ stack' = WithTop(f)
                                 ELSE thr' = ShiftedUp(thr) /\ stack' = WithTop(g)
      /\ UNCHANGED <<list, doomed, waiting, active, sel, mainPorts, mainCtx, sent, queue,
                     scenario>>
  BY DEF AfterMessages, InCall, libVars, mainVars, selVars, worldVars
<1>2. /\ top \in GetFrame /\ top.pc # "return" /\ ~ Ends(top)
      /\ MainInv /\ StackInv /\ FramesInv /\ ListInv
  BY <1>1, TopIs DEF Inv, Ends, MainInv
<1>3. a \in Item \cup {NIL} /\ a \in Range(list) \cup {NIL}
  BY <1>2, ListedIs DEF ListInv
<1>4. Goes(top, f, "tes", a, FALSE)
  <2>1. "tes" \in CallPc
    BY DEF CallPc
  <2> QED BY <1>2, <1>3, <2>1, SettledGoes
<1>5. ASSUME Refreshed(top) = NIL
      PROVE  MainInv' /\ ListInv'
  <2>1. stack' = WithTop(f) /\ thr' = thr
    BY <1>1, <1>5
  <2> HIDE DEF f
  <2> QED BY <1>1, <1>2, <1>3, <1>4, <2>1, CallGoesOn
<1>6. ASSUME Refreshed(top) # NIL
      PROVE  MainInv' /\ ListInv'
  <2>1. stack' = WithTop(g) /\ thr' = ShiftedUp(thr)
    BY <1>1, <1>6
  <2> HIDE DEF f
  <2>2. /\ g \in GetFrame /\ Ages(top, g) /\ g.hiked /\ g.pc = "tes" /\ ~ g.called /\ g.at = a
    <3>1. Goes(top, f, "tes", f.at, FALSE) /\ f.at = a /\ f \in GetFrame
      BY <1>4 DEF Goes
    <3>2. g.at = f.at
      BY <3>1 DEF GetFrame
    <3> QED BY <1>2, <3>1, <3>2, HikedIs
  <2> HIDE DEF g
  <2>3. g \in Frame /\ Stays(top, g) /\ IsGet(g)
    BY <2>2 DEF Ages, Frame, GetFrame, IsGet
  <2>4. Becomes(n) /\ NoneFresher(n) /\ top' = g /\ stack'[n] = g
    BY <1>2, <2>1, <2>2, <2>3, TopBecomes
  <2>5. n \in Nat \ {0} /\ n \in 1 .. n /\ n \in 0 .. n /\ Len(stack') = n
        /\ DOMAIN stack' = 1 .. n
    BY <1>2, <2>4, StackIs, LenProperties DEF Becomes
  <2>6. n # n + 1
    <3>1. \A k \in Nat : k # k + 1
      OBVIOUS
    <3> QED BY <2>5, <3>1
  <2>7. StackInv' /\ FramesInv'
    BY <1>1, <1>2, <2>4, <2>6, StackBecomes, FramesBecome
  <2>8. thr \in Word /\ thr' \in Word /\ \A i \in 1 .. n : IsGet(stack[i]) => Covers(stack, thr, i, n)
    <3>1. thr \in Word /\ DOMAIN stack = 1 .. n
      BY <1>2, StackIs DEF MainInv, ThrInv
    <3>2. thr' \in Word
      BY <2>1 DEF ShiftedUp, Word
    <3>3. \A i \in 1 .. n : IsGet(stack[i]) => Covers(stack, thr, i, n)
      BY <1>1, <1>2, <3>1 DEF MainInv, ThrInv
    <3> QED BY <3>1, <3>2, <3>3
  <2>9. ASSUME NEW i \in 1 .. n, IsGet(stack'[i])
        PROVE  Covers(stack', thr', i, n) \/ Width - 1 \in thr'
    <3>1. Kept(stack, stack', n)
      BY <2>4, <2>5 DEF Kept, Becomes
    <3>2. IsGet(stack[i]) /\ stack'[i].get = stack[i].get
      BY <2>9, <3>1 DEF Kept, Stays, IsGet
    <3>3. Covers(stack', thr, i, n)
      BY <2>5, <2>8, <3>1, <3>2, KeptCovers
    <3>4. stack'[i].get.arg \in Nat
      BY <1>2, <3>2, StackIs
    <3>5. IsGet(stack'[n]) /\ stack'[n].hiked
      BY <2>2, <2>3, <2>4
    <3> QED BY <2>1, <2>5, <2>8, <3>3, <3>4, <3>5, HikeCovers
  <2>10. Width - 1 \in thr' => Ends(top)'
    BY <1>1, <1>6, <2>2, <2>4 DEF Ends
  <2>11. ThrInv'
    BY <2>3, <2>4, <2>5, <2>8, <2>9, <2>10 DEF ThrInv
  <2>12. ListInv'
    <3>1. IsGet(top') /\ (Loops(top') => top'.at \in Range(list))
      BY <1>3, <2>2, <2>3, <2>4 DEF Loops
    <3> QED BY <1>1, <1>2, <2>4, <3>1, ListGoes
  <2> QED BY <2>7, <2>11, <2>12 DEF MainInv
<1>7. EventInv'
  BY <1>1, EventFound DEF Inv
<1>8. ThreadInv'
  BY <1>1, ThreadStays DEF Inv
<1> QED BY <1>1, <1>5, <1>6, <1>7, <1>8 DEF Inv, MainInv

LEMMA FixAgainKeeps ==
  ASSUME Inv, FixAgain
  PROVE  Inv'
<1> DEFINE n == Len(stack)
           m == n - 1
           g == [top EXCEPT !.stale = FALSE]
<1>1. /\ IsGet(top) /\ top.pc = "recv" /\ top.stale /\ FixMainSet(Outer(1), top, thr)
      /\ UNCHANGED <<thr, list, doomed, waiting, active, sel, sent, queue, lastEvent, scenario>>
  BY DEF FixAgain, InCall, libVars, selVars, worldVars, eventVars
<1>2. /\ top \in GetFrame /\ MainInv /\ StackInv /\ FramesInv /\ ListInv /\ ThrInv
      /\ thr \in Word /\ list \in Seq(Item) /\ ~ Ends(top)
  BY <1>1, TopIs DEF Inv, MainInv, ThrInv, ListInv, Ends
<1>3. n \in Nat \ {0} /\ m \in {n - 1, n} /\ m + 1 = n /\ n <= n /\ 1 <= n /\ m \in Nat
      /\ top = stack[n] /\ n \in 1 .. n
  BY <1>2, StackIs
<1>4. Aged(Outer(1), m)
  BY <1>2, <1>3, AgedOuter
<1>5. g \in GetFrame /\ IsGet(g) /\ Stays(top, g) /\ g.pc = "recv"
  BY <1>1, <1>2 DEF GetFrame, IsGet, Stays
<1> HIDE DEF g, m
<1>6. g = [top EXCEPT !.stale = FALSE] /\ Stays(stack[m + 1], g)
  BY <1>3, <1>5 DEF g
<1>7. Becomes(n) /\ top' = g /\ stack'[n] = g
  <2>1. Becomes(m + 1) /\ stack'[m + 1] = g /\ top' = g
    BY <1>1, <1>2, <1>3, <1>4, <1>5, <1>6, FixIs
  <2> QED BY <1>3, <2>1
<1>8. ThrInv'
  BY <1>1, <1>2, <1>7, ThrMoves
<1>9. Kept(stack, stack', n)
  BY <1>3, <1>7 DEF Kept, Becomes
<1>10. PrevAt(stack', n)
  <2>1. PrevAt(stack, n)
    BY <1>2, <1>3, StackIs DEF FramesInv
  <2>2. n \in Nat /\ {} \in SUBSET {}
    BY <1>3
  <2> QED BY <1>3, <1>9, <2>1, <2>2, KeptFrames
<1>11. ASSUME NEW i \in 1 .. n, IsGet(stack'[i])
       PROVE  Covers(stack', thr, i, n)
  <2>1. IsGet(stack[i])
    BY <1>9, <1>11 DEF Kept, Stays, IsGet
  <2>2. Covers(stack, thr, i, n)
    BY <1>1, <1>2, <2>1, StackIs DEF ThrInv
  <2>3. n \in Nat /\ n \in 0 .. n
    BY <1>3
  <2> QED BY <1>9, <2>1, <2>2, <2>3, KeptCovers
<1>12. MainInv'
  <2>1. PrevAt(stack', m + 1)
    BY <1>3, <1>10
  <2>2. \A i \in 1 .. m + 1 : IsGet(stack'[i]) => Covers(stack', thr, i, m + 1)
    BY <1>3, <1>11
  <2>3. m = Len(stack) => ~ IsGet(top) /\ top.pc = "run"
    BY <1>3
  <2> QED BY <1>1, <1>2, <1>3, <1>4, <1>5, <1>6, <1>8, <2>1, <2>2, <2>3, MainFixes
<1>13. ListInv'
  <2>1. InUse' = InUse
    BY <1>2, <1>7, InUseBecomes
  <2>2. mainPorts' \subseteq Listed(Port) \ doomed /\ mainCtx' \subseteq Ctx
    BY <1>1, <1>2, TopIs, RequestIs DEF FixMainSet, Wanted, ListInv
  <2>3. Listed(Port)' = Listed(Port)
    BY <1>1 DEF Listed
  <2>4. IsGet(top') /\ ~ Loops(top')
    BY <1>5, <1>7 DEF Loops
  <2> QED BY <1>1, <1>2, <2>1, <2>2, <2>3, <2>4 DEF ListInv
<1> QED BY <1>1, <1>12, <1>13, EventStays, ThreadStays DEF Inv, MainInv

LEMMA ReceiveSignalKeeps ==
  ASSUME Inv, ReceiveSignal
  PROVE  Inv'
<1> DEFINE n == Len(stack)
           s == OfCalls(Outer(1), LAMBDA f : [f EXCEPT !.swallowed = TRUE])
           g == Received(top)
<1>1. /\ IsGet(top) /\ top.pc = "recv" /\ stack' = Append(s, g)
      /\ UNCHANGED <<thr, list, doomed, waiting, active, sel, mainPorts, mainCtx, sent, queue,
                     lastEvent, scenario>>
  BY DEF ReceiveSignal, Receives, InCall, libVars, mainVars, worldVars, eventVars
<1>2. /\ top \in GetFrame /\ MainInv /\ StackInv /\ FramesInv /\ ListInv /\ ~ Ends(top)
      /\ top.at \in Item \cup {NIL}
  BY <1>1, TopIs DEF Inv, MainInv, Ends
<1>3. n \in Nat \ {0} /\ n - 1 \in Nat /\ n - 1 < n /\ (n - 1) + 1 = n /\ top = stack[n] /\ 1 <= n
  BY <1>2, StackIs
<1>4. Aged(s, n - 1)
  <2>1. Aged(Outer(1), n - 1)
    BY <1>2, <1>3, AgedOuter
  <2> QED BY <1>2, <1>3, <2>1, AgedSwallowed
<1>5. g \in GetFrame /\ g \in Frame /\ Ages(top, g) /\ g.pc = "recv"
  <2>1. Goes(top, g, "recv", top.at, top.called)
    BY <1>1, <1>2, CallGoes DEF Received, CallPc
  <2> QED BY <2>1 DEF Goes, Frame
<1> HIDE DEF s, g
<1>6. Becomes(n) /\ NoneFresher(n) /\ top' = g
  <2>1. (n - 1) + 1 = n /\ Stays(stack[(n - 1) + 1], g)
        /\ (Fresh(g) => Fresh(stack[(n - 1) + 1]))
    BY <1>3, <1>5 DEF Ages
  <2>2. Becomes((n - 1) + 1) /\ NoneFresher((n - 1) + 1) /\ top' = g
    BY <1>1, <1>2, <1>3, <1>4, <1>5, <2>1, AppendBecomes
  <2> QED BY <2>1, <2>2
<1>7. MainInv'
  BY <1>1, <1>2, <1>6, MainGoes
<1>8. ListInv'
  <2>1. IsGet(top') /\ ~ Loops(top')
    BY <1>5, <1>6 DEF Loops, GetFrame, IsGet
  <2> QED BY <1>1, <1>2, <1>6, <2>1, ListGoes
<1> QED BY <1>1, <1>7, <1>8, EventStays, ThreadStays DEF Inv, MainInv

\* The proc of a port, or an event proc, is called for a message.
LEMMA ReceiveCalls ==
  ASSUME Inv, Receives, NEW g \in ProgFrame, ~ IsGet(g), g.pc = "run",
         stack' = Append(WithTop(Received(top)), g), g.item \in mainPorts \cup {NIL},
         UNCHANGED <<thr, list, doomed, mainPorts, mainCtx>>
  PROVE  MainInv' /\ ListInv'
<1> DEFINE n == Len(stack)
           e == Received(top)
           s == WithTop(e)
<1>1. /\ IsGet(top) /\ top.pc = "recv" /\ ~ top.stale
      /\ MainInv /\ StackInv /\ FramesInv /\ ListInv /\ ~ Ends(top)
  BY DEF Receives, InCall, Inv, MainInv, Ends
<1>2. top \in GetFrame /\ top.at \in Item \cup {NIL}
  BY <1>1, TopIs
<1>3. e \in Frame /\ Ages(top, e) /\ e.pc = top.pc
  <2>1. Goes(top, e, top.pc, top.at, top.called)
    BY <1>1, <1>2, CallGoes DEF Received, CallPc
  <2> QED BY <2>1 DEF Goes, Frame
<1> HIDE DEF e
<1>4. n \in Nat \ {0} /\ stack \in Seq(Frame) /\ top = stack[n] /\ n <= n
      /\ DOMAIN stack = 1 .. n /\ n \in 1 .. n
  BY <1>1, StackIs DEF StackInv
<1>5. Aged(s, n)
  <2>1. /\ s \in Seq(Frame) /\ Len(s) = n
        /\ \A i \in 1 .. n : s[i] = IF i = n THEN e ELSE stack[i]
    BY <1>3, <1>4, ExceptSeq DEF WithTop
  <2>2. \A i \in 1 .. n : /\ Ages(stack[i], s[i]) /\ s[i].pc = stack[i].pc
                          /\ ~ IsGet(stack[i]) => s[i].fd = stack[i].fd
    BY <1>1, <1>3, <1>4, <2>1, AgesSelf
  <2> QED BY <1>4, <2>1, <2>2 DEF Aged
<1>6. g.item # NIL => \A i \in 1 .. n :
        IF IsGet(stack[i]) THEN Allowed(stack, g.item, i, n) ELSE stack[i].item # g.item
  <2>1. MainAt(stack, n, mainPorts) /\ Fresh(stack[n])
    BY <1>1, <1>4 DEF FramesInv, Fresh
  <2> QED BY <2>1 DEF MainAt
<1> HIDE DEF s
<1>7. MainInv' /\ Becomes(n + 1) /\ stack'[n + 1] = g /\ top' = g
  <2>1. stack' = Append(s, g)
    BY DEF s, e
  <2> QED BY <1>1, <1>5, <1>6, <2>1, MainCalls
<1>8. InUse' = InUse \cup ({g.item} \ {NIL})
  <2>1. InUse' = InUse \cup (IF IsGet(g) THEN {} ELSE {g.item} \ {NIL})
    BY <1>1, <1>7, InUseBecomes
  <2> QED BY <2>1
<1>9. ListInv'
  <2>1. mainPorts \subseteq Range(list)
    BY <1>1, ListedIs DEF ListInv
  <2>2. doomed \subseteq InUse' /\ InUse' \subseteq Range(list) /\ mainCtx' \subseteq Ctx
    BY <1>1, <1>8, <2>1 DEF ListInv
  <2>3. ~ IsGet(top') /\ top'.pc = "run" /\ ~ Loops(top')
    BY <1>7 DEF Loops
  <2> QED BY <1>1, <2>2, <2>3, ListStays
<1> QED BY <1>7, <1>9

LEMMA ReceiveForPortKeeps ==
  ASSUME Inv, NEW x, ReceiveForPort(x)
  PROVE  Inv'
<1>1. /\ Receives /\ x \in mainPorts /\ stack' = Append(WithTop(Received(top)), Prog(x))
      /\ UNCHANGED <<thr, list, doomed, waiting, active, sel, mainPorts, mainCtx, sent, queue,
                     lastEvent, scenario>>
  BY DEF ReceiveForPort, libVars, mainVars, selVars, eventVars
<1>2. x \in Item
  BY <1>1, ListedIs DEF Inv, ListInv
<1>3. Prog(x) \in ProgFrame /\ ~ IsGet(Prog(x)) /\ Prog(x).item = x /\ Prog(x).pc = "run"
  BY <1>2 DEF Prog, ProgFrame, IsGet
<1>4. MainInv' /\ ListInv'
  BY <1>1, <1>3, ReceiveCalls
<1> QED BY <1>1, <1>4, EventStays, ThreadStays DEF Inv, MainInv

-----------------------------------------------------------------------------
(* The event queue.                                                         *)

QEntry == [addr : Address, ctxt : Ctx, type : Type]

LEMMA QueueIs ==
  ASSUME EventInv
  PROVE  /\ queue \in Seq(QEntry) /\ Len(queue) \in Nat /\ DOMAIN queue = 1 .. Len(queue)
         /\ \A i \in 1 .. Len(queue) : queue[i] \in QEntry
         /\ \A i, j \in 1 .. Len(queue) : queue[i].addr = queue[j].addr => i = j
         /\ Used \subseteq Address
<1>1. queue \in Seq(QEntry) /\ Len(queue) \in Nat /\ DOMAIN queue = 1 .. Len(queue)
  BY LenProperties DEF EventInv, QEntry
<1>2. \A i \in 1 .. Len(queue) : queue[i] \in QEntry
  BY <1>1, ElementOfSeq
<1>3. \A i, j \in 1 .. Len(queue) : queue[i].addr = queue[j].addr => i = j
  BY <1>1 DEF EventInv
<1>4. Used \subseteq Address
  BY <1>1, <1>2 DEF Used, QEntry
<1> QED BY <1>1, <1>2, <1>3, <1>4

LEMMA EventKeep ==
  ASSUME EventInv, NEW places \in SUBSET DOMAIN queue, Keep(places),
         lastEvent' \in Address \cup {NIL}, UNCHANGED sent
  PROVE  EventInv'
<1>1. Cardinality(places) \in Nat
  <2>1. IsFiniteSet(1 .. Len(queue))
    BY QueueIs, FS_Interval
  <2> QED BY <2>1, QueueIs, FS_Subset, FS_CardinalityType
<1>2. PICK f \in [1 .. Cardinality(places) -> places] :
        /\ \A i, j \in DOMAIN f : i < j => f[i] < f[j]
        /\ queue' = [i \in DOMAIN f |-> queue[f[i]]]
  BY DEF Keep
<1> DEFINE n == Cardinality(places)
<1>3. DOMAIN f = 1 .. n /\ \A i \in 1 .. n : f[i] \in 1 .. Len(queue)
  BY <1>2, QueueIs
<1> HIDE DEF n
<1>4. queue' \in Seq(QEntry)
  <2>1. \A i \in 1 .. n : queue[f[i]] \in QEntry
    BY <1>3, QueueIs
  <2>2. queue' = [i \in 1 .. n |-> queue[f[i]]] /\ n \in Nat
    BY <1>1, <1>2, <1>3 DEF n
  <2> QED BY <2>1, <2>2, IsASeq
<1>5. DOMAIN queue' = 1 .. n /\ \A i \in 1 .. n : queue'[i] = queue[f[i]]
  BY <1>2, <1>3
<1>6. ASSUME NEW i \in 1 .. n, NEW j \in 1 .. n, queue'[i].addr = queue'[j].addr
      PROVE  i = j
  <2>1. f[i] = f[j]
    BY <1>3, <1>5, <1>6, QueueIs
  <2>2. f[i] \in Nat /\ ~ (f[i] < f[j]) /\ ~ (f[j] < f[i])
    BY <1>3, <2>1, QueueIs
  <2>3. ~ (i < j) /\ ~ (j < i)
    BY <1>2, <1>3, <2>2
  <2> QED BY <1>1, <2>3 DEF n
<1> QED BY <1>4, <1>5, <1>6 DEF EventInv, QEntry

\* A new element goes to one of the ends.
LEMMA EventGrows ==
  ASSUME EventInv, NEW new \in QEntry, new.addr \notin Used,
         queue' = Append(queue, new) \/ queue' = <<new>> \o queue
  PROVE  /\ queue' \in Seq(QEntry)
         /\ \A i, j \in DOMAIN queue' : queue'[i].addr = queue'[j].addr => i = j
<1> DEFINE n == Len(queue)
<1>1. queue \in Seq(QEntry) /\ n \in Nat
  BY QueueIs
<1>2. \A i \in 1 .. n : queue[i].addr # new.addr
  BY QueueIs DEF Used
<1>3. CASE queue' = Append(queue, new)
  <2>1. /\ queue' \in Seq(QEntry) /\ Len(queue') = n + 1 /\ queue'[n + 1] = new
        /\ \A i \in 1 .. n : queue'[i] = queue[i]
    BY <1>1, <1>3, AppendProperties
  <2>2. DOMAIN queue' = 1 .. n + 1
    BY <2>1, LenProperties
  <2>3. \A i \in 1 .. n + 1 : i \in 1 .. n \/ i = n + 1
    BY <1>1
  <2>4. ASSUME NEW i \in 1 .. n + 1, NEW j \in 1 .. n + 1, queue'[i].addr = queue'[j].addr
        PROVE  i = j
    <3>1. CASE i \in 1 .. n /\ j \in 1 .. n
      BY <2>1, <2>4, <3>1, QueueIs
    <3>2. CASE i = n + 1 /\ j \in 1 .. n
      BY <1>2, <2>1, <2>4, <3>2
    <3>3. CASE j = n + 1 /\ i \in 1 .. n
      BY <1>2, <2>1, <2>4, <3>3
    <3> QED BY <2>3, <3>1, <3>2, <3>3
  <2> QED BY <2>1, <2>2, <2>4
<1>4. CASE queue' = <<new>> \o queue
  <2>1. /\ <<new>> \in Seq(QEntry) /\ Len(<<new>>) = 1 /\ <<new>>[1] = new
    OBVIOUS
  <2>2. /\ queue' \in Seq(QEntry) /\ Len(queue') = 1 + n
        /\ \A i \in 1 .. 1 + n : queue'[i] = IF i <= 1 THEN <<new>>[i] ELSE queue[i - 1]
    BY <1>1, <1>4, <2>1, ConcatProperties
  <2>3. DOMAIN queue' = 1 .. 1 + n
    BY <2>2, LenProperties
  <2>4. \A i \in 1 .. 1 + n : \/ i = 1 /\ queue'[i] = new
                              \/ i - 1 \in 1 .. n /\ queue'[i] = queue[i - 1]
    BY <1>1, <2>1, <2>2
  <2>5. ASSUME NEW i \in 1 .. 1 + n, NEW j \in 1 .. 1 + n, queue'[i].addr = queue'[j].addr
        PROVE  i = j
    <3>1. CASE i - 1 \in 1 .. n /\ queue'[i] = queue[i - 1]
               /\ j - 1 \in 1 .. n /\ queue'[j] = queue[j - 1]
      <4>1. i - 1 = j - 1
        BY <2>5, <3>1, QueueIs
      <4> QED BY <1>1, <4>1
    <3>2. CASE i = 1 /\ queue'[i] = new /\ j - 1 \in 1 .. n /\ queue'[j] = queue[j - 1]
      BY <1>2, <2>5, <3>2
    <3>3. CASE j = 1 /\ queue'[j] = new /\ i - 1 \in 1 .. n /\ queue'[i] = queue[i - 1]
      BY <1>2, <2>5, <3>3
    <3> QED BY <2>4, <3>1, <3>2, <3>3
  <2> QED BY <2>2, <2>3, <2>5
<1> QED BY <1>3, <1>4

LEMMA EventQueued ==
  ASSUME EventInv, NEW e \in Event, NEW f, QueueEvent(e, f), sent' \in [Ctx -> Type \cup {NIL}]
  PROVE  EventInv' /\ (lastEvent # NIL => lastEvent' = lastEvent)
<1> DEFINE n == Len(queue)
<1>1. PICK addr \in IF Coalesces(e) THEN {queue[n].addr} ELSE Address \ Used :
        /\ queue' = Queued(e, addr)
        /\ lastEvent' = IF e.type \in f.mask /\ lastEvent = NIL THEN addr ELSE lastEvent
  BY DEF QueueEvent
<1>2. e.ctxt \in Ctx /\ e.type \in Type
  BY DEF Event
<1>3. CASE Coalesces(e)
  <2> DEFINE new == [queue[n] EXCEPT !.ctxt = e.ctxt]
  <2>1. n # 0 /\ n \in Nat /\ queue \in Seq(QEntry)
    BY <1>3, QueueIs, EmptySeq DEF Coalesces
  <2>2. n \in 1 .. n
    BY <2>1
  <2>3. queue[n] \in QEntry
    BY <2>2, QueueIs
  <2>4. new \in QEntry /\ new.addr = queue[n].addr
    BY <1>2, <2>3 DEF QEntry
  <2>5. queue' = [queue EXCEPT ![n] = new]
    BY <1>1, <1>3 DEF Queued
  <2> HIDE DEF new
  <2>6. /\ queue' \in Seq(QEntry) /\ Len(queue') = n
        /\ \A i \in 1 .. n : queue'[i] = IF i = n THEN new ELSE queue[i]
    BY <2>1, <2>2, <2>4, <2>5, ExceptSeq
  <2>7. \A i \in 1 .. n : queue'[i].addr = queue[i].addr
    BY <2>4, <2>6
  <2>8. DOMAIN queue' = 1 .. n
    BY <2>6, LenProperties
  <2>9. \A i, j \in DOMAIN queue' : queue'[i].addr = queue'[j].addr => i = j
    BY <2>7, <2>8, QueueIs
  <2>10. lastEvent' \in Address \cup {NIL}
    BY <1>1, <1>3, <2>3 DEF EventInv, QEntry
  <2> QED BY <1>1, <2>6, <2>9, <2>10 DEF EventInv, QEntry
<1>4. CASE ~ Coalesces(e)
  <2> DEFINE new == [addr |-> addr, ctxt |-> e.ctxt, type |-> e.type]
  <2>1. addr \in Address /\ addr \notin Used
    BY <1>1, <1>4
  <2>2. new \in QEntry /\ new.addr \notin Used
    BY <1>2, <2>1 DEF QEntry
  <2>3. queue' = Append(queue, new)
    BY <1>1, <1>4 DEF Queued
  <2> HIDE DEF new
  <2>4. /\ queue' \in Seq(QEntry)
        /\ \A i, j \in DOMAIN queue' : queue'[i].addr = queue'[j].addr => i = j
    BY <2>2, <2>3, EventGrows
  <2>5. lastEvent' \in Address \cup {NIL} /\ (lastEvent # NIL => lastEvent' = lastEvent)
    BY <1>1, <2>1 DEF EventInv
  <2> QED BY <2>4, <2>5 DEF EventInv, QEntry
<1> QED BY <1>3, <1>4

LEMMA ReceiveEventKeeps ==
  ASSUME Inv, NEW c \in Ctx, ReceiveEvent(c)
  PROVE  Inv'
<1> DEFINE e == [ctxt |-> c, type |-> sent[c]]
<1>1. /\ Receives /\ sent[c] # NIL /\ sent' = [sent EXCEPT ![c] = NIL]
      /\ \/ stack' = Append(WithTop(Received(top)), Filter(e)) /\ UNCHANGED <<queue, lastEvent>>
         \/ stack' = WithTop(Received(top)) /\ QueueEvent(e, top.get)
      /\ UNCHANGED <<thr, list, doomed, waiting, active, sel, mainPorts, mainCtx, scenario>>
  BY DEF ReceiveEvent, libVars, mainVars, selVars
<1>2. e \in Event /\ sent' \in [Ctx -> Type \cup {NIL}] /\ EventInv
  BY <1>1 DEF Inv, EventInv, Event
<1> HIDE DEF e
<1>3. ASSUME stack' = Append(WithTop(Received(top)), Filter(e)), UNCHANGED <<queue, lastEvent>>
      PROVE  MainInv' /\ ListInv' /\ EventInv'
  <2>1. /\ Filter(e) \in ProgFrame /\ ~ IsGet(Filter(e)) /\ Filter(e).item = NIL
        /\ Filter(e).pc = "run"
    BY <1>2 DEF Prog, Filter, ProgFrame, IsGet
  <2>2. MainInv' /\ ListInv'
    BY <1>1, <1>3, <2>1, ReceiveCalls
  <2> QED BY <1>2, <1>3, <2>2 DEF EventInv
<1>4. ASSUME stack' = WithTop(Received(top)), QueueEvent(e, top.get)
      PROVE  MainInv' /\ ListInv' /\ EventInv'
  <2>1. IsGet(top) /\ top.pc = "recv" /\ ~ Ends(top)
    BY <1>1 DEF Receives, InCall, Ends
  <2>2. top \in GetFrame /\ top.at \in Item \cup {NIL}
    BY <2>1, TopIs DEF Inv
  <2>3. Goes(top, Received(top), "recv", top.at, top.called)
    BY <2>1, <2>2, CallGoes DEF Received, CallPc
  <2>4. MainInv' /\ ListInv'
    BY <1>1, <1>4, <2>1, <2>3, CallGoesOn
  <2>5. EventInv'
    BY <1>2, <1>4, EventQueued
  <2> QED BY <2>4, <2>5
<1>5. ThreadInv'
  BY <1>1, ThreadStays DEF Inv
<1> QED BY <1>1, <1>3, <1>4, <1>5 DEF Inv, MainInv

\* The frames above m are gone; a program is on top, with the threshold that it had.
LEMMA MainPops ==
  ASSUME MainInv, NEW m \in {Len(stack) - 1, Len(stack) - 2}, m > 0, stack' = Outer(Len(stack) - m),
         ~ IsGet(stack[m]), UNCHANGED mainPorts, thr' \in Word,
         \A i \in 1 .. m : IsGet(stack[i]) => Covers(stack, thr', i, m)
  PROVE  MainInv' /\ Becomes(m) /\ ~ IsGet(top') /\ top'.pc = "run"
<1>1. StackInv /\ FramesInv
  BY DEF MainInv
<1>2. Len(stack) \in Nat \ {0} /\ m \in Nat \ {0} /\ m \in Nat /\ m <= Len(stack)
      /\ ~ (m = Len(stack) + 1) /\ m \in 1 .. Len(stack) - 1 /\ m \in 1 .. m /\ m \in 1 .. Len(stack)
  BY <1>1, StackIs
<1>3. Aged(stack', m)
  <2>1. CASE m = Len(stack) - 1
    <3>1. Len(stack) - m = 1 /\ 1 <= Len(stack)
      BY <1>2, <2>1
    <3> QED BY <1>1, <2>1, <3>1, AgedOuter
  <2>2. CASE m = Len(stack) - 2
    <3>1. Len(stack) - m = 2 /\ 2 <= Len(stack)
      BY <1>2, <2>2
    <3> QED BY <1>1, <2>2, <3>1, AgedOuter
  <2> QED BY <2>1, <2>2
<1>4. Becomes(m) /\ NoneFresher(m) /\ top' = stack'[m]
  BY <1>1, <1>2, <1>3, AgedBecomes
<1>5. StackInv' /\ FramesInv'
  BY <1>1, <1>2, <1>4, StackBecomes, FramesBecome
<1>6. ThrInv'
  <2>1. \A i \in 1 .. m : i <= Len(stack) /\ IsGet(stack[i]) =>
          Covers(stack, thr', i, IF m <= Len(stack) THEN m ELSE Len(stack))
    BY <1>2
  <2> QED BY <1>1, <1>2, <1>4, <2>1, ThrBecomes
<1>7. ~ IsGet(top') /\ top'.pc = "run"
  <2>1. stack[m].pc = "run"
    BY <1>1, <1>2 DEF StackInv
  <2>2. stack'[m].pc = stack[m].pc /\ stack'[m].kind = stack[m].kind
    BY <1>2, <1>3 DEF Aged, Ages, Stays
  <2> QED BY <1>4, <2>1, <2>2 DEF IsGet
<1> QED BY <1>4, <1>5, <1>6, <1>7 DEF MainInv

LEMMA ReturnKeeps ==
  ASSUME Inv, Return
  PROVE  Inv'
<1> DEFINE n == Len(stack)
<1>1. /\ IsGet(top) /\ thr' = top.prev /\ stack' = Outer(1)
      /\ \/ UNCHANGED queue
         \/ Keep({i \in DOMAIN queue : queue[i].addr # lastEvent})
      /\ UNCHANGED <<list, doomed, waiting, active, sel, mainPorts, mainCtx, sent, lastEvent,
                     scenario>>
  BY DEF Return, InCall, libVars, mainVars, selVars, worldVars
<1>2. MainInv /\ StackInv /\ FramesInv /\ ListInv /\ EventInv
  BY DEF Inv, MainInv
<1>3. n \in Nat \ {0} /\ top = stack[n] /\ thr' \in Word /\ n \in DOMAIN stack
  BY <1>1, <1>2, StackIs, TopIs
<1>4. n # 1
  BY <1>1, <1>2, <1>3 DEF StackInv
<1>5. n - 1 > 0 /\ n - (n - 1) = 1 /\ n - 1 \in 1 .. n - 1 /\ (n - 1) + 1 = n
  <2>1. \A k \in Nat \ {0} : k # 1 =>
          k - 1 > 0 /\ k - (k - 1) = 1 /\ k - 1 \in 1 .. k - 1 /\ (k - 1) + 1 = k
    OBVIOUS
  <2> QED BY <1>3, <1>4, <2>1
<1>6. ~ IsGet(stack[n - 1])
  <2>1. IsGet(stack[(n - 1) + 1]) <=> ~ IsGet(stack[n - 1])
    BY <1>2, <1>5 DEF StackInv
  <2> QED BY <1>1, <1>3, <1>5, <2>1
<1>7. \A i \in 1 .. n - 1 : IsGet(stack[i]) => Covers(stack, thr', i, n - 1)
  <2>1. PrevAt(stack, n)
    BY <1>2, <1>3 DEF FramesInv
  <2> QED BY <1>1, <1>3, <2>1 DEF PrevAt
<1>8. MainInv' /\ Becomes(n - 1) /\ ~ IsGet(top') /\ top'.pc = "run"
  <2>1. stack' = Outer(n - (n - 1))
    BY <1>1, <1>5
  <2>2. n - 1 \in {n - 1, n - 2}
    OBVIOUS
  <2> QED BY <1>1, <1>2, <1>3, <1>5, <1>6, <1>7, <2>1, <2>2, MainPops
<1>9. InUse' = InUse
  BY <1>1, <1>2, <1>8, InUseBecomes
<1>10. ListInv'
  <2>1. doomed \subseteq InUse' /\ InUse' \subseteq Range(list) /\ mainCtx' \subseteq Ctx
        /\ ~ Loops(top')
    BY <1>1, <1>2, <1>8, <1>9 DEF ListInv, Loops
  <2> QED BY <1>1, <1>2, <1>8, <2>1, ListStays
<1>11. EventInv'
  <2>1. CASE UNCHANGED queue
    BY <1>1, <1>2, <2>1, EventStays
  <2>2. CASE Keep({i \in DOMAIN queue : queue[i].addr # lastEvent})
    <3>1. lastEvent' \in Address \cup {NIL}
      BY <1>1, <1>2 DEF EventInv
    <3> QED BY <1>1, <1>2, <2>2, <3>1, EventKeep
  <2> QED BY <1>1, <2>1, <2>2
<1> QED BY <1>1, <1>8, <1>10, <1>11, ThreadStays DEF Inv, MainInv

\* A program makes a call.
LEMMA CallMakes ==
  ASSUME MainInv, ~ IsGet(top), NEW g \in GetFrame, g.prev = thr, g.get \in Requests,
         thr' = Hardened(g.get.arg), Becomes(Len(stack) + 1), stack'[Len(stack) + 1] = g
  PROVE  /\ ThrInv' /\ thr' \in Word /\ PrevAt(stack', Len(stack) + 1)
         /\ \A i \in 1 .. Len(stack) + 1 :
              IsGet(stack'[i]) => Covers(stack', thr', i, Len(stack) + 1)
<1> DEFINE n == Len(stack)
<1>1. /\ n \in Nat /\ n \in 0 .. n /\ n <= n + 1 /\ n + 1 \in Nat /\ (n + 1) - 1 = n /\ ~ (n + 1 <= n)
  BY StackIs DEF MainInv
<1>2. g.get.arg \in 0 .. Width - 1 /\ thr \in Word
  BY RequestIs DEF MainInv, ThrInv
<1>3. thr' \in Word
  BY <1>2 DEF Hardened, Word
<1>4. Kept(stack, stack', n)
  BY <1>1 DEF Kept, Becomes
<1>5. \A i \in 1 .. n : IsGet(stack[i]) => Covers(stack, thr, i, n)
  BY StackIs DEF MainInv, ThrInv
<1>6. ASSUME NEW i \in 1 .. n, IsGet(stack[i])
      PROVE  Covers(stack, thr', i, n)
  BY <1>2, <1>5, <1>6, HardenedCovers
<1>7. Covers(stack', thr', n + 1, n + 1)
  <2>1. stack'[n + 1].get.arg = g.get.arg
    OBVIOUS
  <2> QED BY <1>2, <2>1, HardenedCovers
<1>8. ThrInv'
  <2>1. \A i \in 1 .. n + 1 : i <= n /\ IsGet(stack[i]) =>
          Covers(stack, thr', i, IF n + 1 <= n THEN n + 1 ELSE n)
    BY <1>1, <1>6
  <2> QED BY <1>3, <1>7, <2>1, ThrBecomes DEF MainInv
<1>9. ASSUME NEW i \in 1 .. n, IsGet(stack'[i])
      PROVE  Covers(stack', thr, i, n) /\ Covers(stack', thr', i, n + 1)
  <2>1. IsGet(stack[i])
    BY <1>4, <1>9 DEF Kept, Stays, IsGet
  <2>2. Covers(stack', thr, i, n)
    BY <1>1, <1>4, <1>5, <2>1, KeptCovers
  <2>3. Covers(stack', thr', i, n)
    BY <1>1, <1>4, <1>6, <2>1, KeptCovers
  <2>4. Covers(stack', thr', i, n + 1)
    BY <1>1, <2>3, CoversMore
  <2> QED BY <2>2, <2>4
<1>10. PrevAt(stack', n + 1)
  BY <1>1, <1>9 DEF PrevAt
<1>11. ASSUME NEW i \in 1 .. n + 1, IsGet(stack'[i])
       PROVE  Covers(stack', thr', i, n + 1)
  <2>1. i \in 1 .. n \/ i = n + 1
    BY <1>1
  <2> QED BY <1>7, <1>9, <1>11, <2>1
<1> QED BY <1>3, <1>8, <1>10, <1>11

LEMMA GetEventKeeps ==
  ASSUME Inv, NEW r \in uses.gets, GetEvent(r)
  PROVE  Inv'
<1> DEFINE n == Len(stack)
           a == FirstFD(r)
           s == Meddled(stack)
           f == [Call(r) EXCEPT !.at = a]
           g == [f EXCEPT !.stale = FALSE]
           h == [f EXCEPT !.pc = "return"]
<1>1. /\ top.kind = "prog" /\ top.pc = "run" /\ Cardinality(Gets) < MaxDepth
      /\ thr' = Hardened(r.arg) /\ lastEvent' = Matching(queue, r)
      /\ \/ FixMainSet(s, f, thr')
         \/ stack' = Append(s, h) /\ UNCHANGED <<mainPorts, mainCtx>>
      /\ UNCHANGED <<list, doomed, waiting, active, sel, sent, queue, scenario>>
  BY DEF GetEvent, Runs, libVars, mainVars, selVars, worldVars
<1>2. /\ MainInv /\ StackInv /\ FramesInv /\ ListInv /\ EventInv /\ ~ IsGet(top)
      /\ thr \in Word /\ list \in Seq(Item) /\ n \in Nat /\ n \in {n - 1, n} /\ ~ (n < n)
  BY <1>1, StackIs DEF Inv, MainInv, ThrInv, ListInv, IsGet
<1>3. r \in Requests
  <2>1. Gets \subseteq 1 .. n
    BY <1>2, StackIs DEF Gets
  <2>2. Cardinality(Gets) \in Nat
    <3>1. n \in Int /\ 1 \in Int
      BY <1>2
    <3>2. IsFiniteSet(1 .. n)
      BY <3>1, FS_Interval
    <3> QED BY <2>1, <3>2, FS_Subset, FS_CardinalityType
  <2>3. /\ scenario \in Scenarios /\ DOMAIN scenario.level = 1 .. Len(scenario.level)
        /\ Len(scenario.level) \in Nat /\ Len(scenario.level) > MaxDepth
    BY DEF Inv
  <2>4. Cardinality(Gets) + 1 \in DOMAIN scenario.level
    BY <1>1, <2>2, <2>3
  <2> QED BY <2>3, <2>4 DEF uses, Requests
<1>4. a \in Item \cup {NIL} /\ a \in Range(list) \cup {NIL}
  BY <1>2, ListedIs DEF FirstFD
<1> HIDE DEF a
<1>5. /\ g \in GetFrame /\ g.get = r /\ g.prev = thr
      /\ h \in GetFrame /\ h.get = r /\ h.prev = thr /\ h.pc = "return"
  <2>1. thr \in Word
    BY <1>2
  <2>2. g \in GetFrame /\ g.get = r /\ g.prev = thr
    BY <1>3, <1>4, <2>1 DEF Call, GetFrame, CallPc
  <2>3. h \in GetFrame /\ h.get = r /\ h.prev = thr /\ h.pc = "return"
    BY <1>3, <1>4, <2>1 DEF Call, GetFrame, CallPc
  <2> QED BY <2>2, <2>3
<1>6. g.at = a /\ IsGet(g) /\ IsGet(h)
  BY DEF Call, IsGet
<1>7. Aged(s, n) /\ g = [f EXCEPT !.stale = FALSE]
  BY <1>2, AgedMeddled
<1> HIDE DEF f, g, h, s
<1>8. ASSUME FixMainSet(s, f, thr')
      PROVE  MainInv' /\ ListInv'
  <2>1. Becomes(n + 1) /\ stack'[n + 1] = g /\ top' = g
    <3>1. StackInv /\ n \in {n - 1, n} /\ ~ (n < n) /\ g \in GetFrame
      BY <1>2, <1>5, StackIs
    <3> QED BY ONLY <1>7, <1>8, <3>1, FixIs
  <2>2. /\ ThrInv' /\ thr' \in Word /\ PrevAt(stack', n + 1)
        /\ \A i \in 1 .. n + 1 : IsGet(stack'[i]) => Covers(stack', thr', i, n + 1)
    <3>1. /\ MainInv /\ ~ IsGet(top) /\ g \in GetFrame /\ g.prev = thr /\ g.get \in Requests
          /\ thr' = Hardened(g.get.arg)
      BY <1>1, <1>2, <1>3, <1>5
    <3> QED BY ONLY <2>1, <3>1, CallMakes
  <2>3. MainInv'
    BY <1>1, <1>2, <1>5, <1>7, <1>8, <2>2, MainFixes
  <2>4. InUse' = InUse
    <3>1. StackInv /\ FramesInv /\ Becomes(n + 1) /\ IsGet(stack'[n + 1])
      BY <1>2, <1>6, <2>1
    <3>2. InUse' = InUse \cup {}
      BY ONLY <3>1, InUseBecomes
    <3> QED BY <3>2
  <2>5. mainPorts' \subseteq Listed(Port) \ doomed /\ mainCtx' \subseteq Ctx
    <3>1. mainPorts' \subseteq Listed(Port) \ doomed
      BY <1>2, <1>8 DEF FixMainSet, Wanted, ListInv
    <3>2. mainCtx' = r.ctxs
      BY <1>5, <1>8 DEF FixMainSet, f, Call
    <3> QED BY <1>3, <3>1, <3>2, RequestIs
  <2>6. Listed(Port)' = Listed(Port)
    BY <1>1 DEF Listed
  <2>7. IsGet(top') /\ (Loops(top') => top'.at \in Range(list))
    BY <1>4, <1>6, <2>1 DEF Loops
  <2> QED BY <1>1, <1>2, <2>3, <2>4, <2>5, <2>6, <2>7 DEF ListInv
<1>9. ASSUME stack' = Append(s, h), UNCHANGED <<mainPorts, mainCtx>>
      PROVE  MainInv' /\ ListInv'
  <2>1. h \in Frame
    BY <1>5 DEF Frame
  <2>2. Becomes(n + 1) /\ NoneFresher(n + 1) /\ stack'[n + 1] = h /\ top' = h
    <3>1. StackInv /\ n \in Nat /\ ~ (n < n) /\ Aged(s, n) /\ stack' = Append(s, h)
      BY <1>2, <1>7, <1>9, StackIs
    <3> QED BY ONLY <2>1, <3>1, AppendBecomes
  <2>3. ThrInv' /\ PrevAt(stack', n + 1)
    <3>1. /\ MainInv /\ ~ IsGet(top) /\ h \in GetFrame /\ h.prev = thr /\ h.get \in Requests
          /\ thr' = Hardened(h.get.arg)
      BY <1>1, <1>2, <1>3, <1>5
    <3> QED BY ONLY <2>2, <3>1, CallMakes
  <2>4. StackInv'
    BY <1>1, <1>2, <1>6, <2>2, StackBecomes
  <2>5. ProcAt(stack', n + 1) /\ MainAt(stack', n + 1, mainPorts')
    BY <1>5, <1>6, <2>2 DEF ProcAt, MainAt, Fresh
  <2>6. FramesInv'
    BY <1>2, <1>9, <2>2, <2>3, <2>5, FramesBecome
  <2>7. InUse' = InUse
    <3>1. StackInv /\ FramesInv /\ Becomes(n + 1) /\ IsGet(stack'[n + 1])
      BY <1>2, <1>6, <2>2
    <3>2. InUse' = InUse \cup {}
      BY ONLY <3>1, InUseBecomes
    <3> QED BY <3>2
  <2>8. ListInv'
    <3>1. doomed \subseteq InUse' /\ InUse' \subseteq Range(list) /\ mainCtx' \subseteq Ctx
      BY <1>2, <1>9, <2>7 DEF ListInv
    <3>2. IsGet(top') /\ ~ Loops(top')
      BY <1>5, <1>6, <2>2 DEF Loops
    <3> QED BY <1>1, <1>2, <1>9, <3>1, <3>2, ListStays
  <2> QED BY <2>3, <2>4, <2>6, <2>8 DEF MainInv
<1>10. EventInv'
  <2>1. lastEvent' \in Address \cup {NIL}
    BY <1>1, <1>2, MatchingIs DEF EventInv
  <2> QED BY <1>1, <1>2, <2>1 DEF EventInv
<1>11. ThreadInv'
  BY <1>1, ThreadStays DEF Inv
<1>12. FixMainSet(s, f, thr') \/ (stack' = Append(s, h) /\ UNCHANGED <<mainPorts, mainCtx>>)
  BY <1>1
<1> QED BY <1>1, <1>8, <1>9, <1>10, <1>11, <1>12 DEF Inv, MainInv

-----------------------------------------------------------------------------
(* The list of procs.                                                       *)

LEMMA ListIs ==
  ASSUME ListInv
  PROVE  /\ list \in Seq(Item) /\ Len(list) \in Nat /\ DOMAIN list = 1 .. Len(list)
         /\ \A i \in 1 .. Len(list) : list[i] \in Item
         /\ \A i, j \in 1 .. Len(list) : list[i] = list[j] => i = j
         /\ Range(list) = {list[i] : i \in 1 .. Len(list)}
<1>1. list \in Seq(Item) /\ Len(list) \in Nat /\ DOMAIN list = 1 .. Len(list)
  BY LenProperties DEF ListInv
<1>2. \A i \in 1 .. Len(list) : list[i] \in Item
  BY <1>1, ElementOfSeq
<1>3. \A i, j \in 1 .. Len(list) : list[i] = list[j] => i = j
  BY <1>1 DEF ListInv, IsInjective
<1> QED BY <1>1, <1>2, <1>3 DEF Range

\* The elements behind x move up.
LEMMA UnlinkSeq ==
  ASSUME ListInv, NEW x, Unlink(x)
  PROVE  \E i \in 1 .. Len(list) :
           /\ list[i] = x /\ list' \in Seq(Item) /\ DOMAIN list' = 1 .. Len(list) - 1
           /\ \A k \in 1 .. Len(list) - 1 : list'[k] = IF k < i THEN list[k] ELSE list[k + 1]
<1> DEFINE n == Len(list)
<1>1. PICK i \in 1 .. n :
        list[i] = x /\ list' = SubSeq(list, 1, i - 1) \o SubSeq(list, i + 1, n)
  BY ListIs DEF Unlink
<1> DEFINE p == SubSeq(list, 1, i - 1)
           q == SubSeq(list, i + 1, n)
<1>2. n \in Nat /\ i \in Int /\ i - 1 \in Int /\ i - 1 >= 0 /\ i + 1 \in Int /\ n - i \in Nat
  BY ListIs
<1>3. /\ p \in Seq(Item) /\ Len(p) = i - 1
      /\ \A k \in 1 .. i - 1 : p[k] = list[k]
  <2>1. \A k \in 1 .. i - 1 : list[k] \in Item
    BY <1>2, ListIs
  <2>2. /\ p \in Seq(Item) /\ Len(p) = (IF 1 <= i - 1 THEN (i - 1) - 1 + 1 ELSE 0)
        /\ \A k \in 1 .. (i - 1) - 1 + 1 : p[k] = list[1 + k - 1]
    BY <1>2, <2>1, SubSeqProperties
  <2> HIDE DEF p
  <2>3. Len(p) = i - 1
    BY <1>2, <2>2
  <2>4. \A k \in 1 .. i - 1 : k \in 1 .. (i - 1) - 1 + 1 /\ 1 + k - 1 = k
    BY <1>2
  <2> QED BY <2>2, <2>3, <2>4
<1>4. /\ q \in Seq(Item) /\ Len(q) = n - i
      /\ \A k \in 1 .. n - i : q[k] = list[i + k]
  <2>1. \A k \in i + 1 .. n : list[k] \in Item
    BY <1>2, ListIs
  <2>2. /\ q \in Seq(Item) /\ Len(q) = (IF i + 1 <= n THEN n - (i + 1) + 1 ELSE 0)
        /\ \A k \in 1 .. n - (i + 1) + 1 : q[k] = list[(i + 1) + k - 1]
    BY <1>2, <2>1, SubSeqProperties
  <2> HIDE DEF q
  <2>3. Len(q) = n - i
    BY <1>2, <2>2
  <2>4. \A k \in 1 .. n - i : k \in 1 .. n - (i + 1) + 1 /\ (i + 1) + k - 1 = i + k
    BY <1>2
  <2> QED BY <2>2, <2>3, <2>4
<1>5. list' = p \o q
  BY <1>1
<1> HIDE DEF p, q
<1>6. /\ list' \in Seq(Item) /\ Len(list') = (i - 1) + (n - i)
      /\ \A k \in 1 .. (i - 1) + (n - i) :
           list'[k] = IF k <= i - 1 THEN p[k] ELSE q[k - (i - 1)]
  BY <1>3, <1>4, <1>5, ConcatProperties
<1>7. (i - 1) + (n - i) = n - 1
  BY <1>2
<1>8. \A k \in 1 .. n - 1 : list'[k] = IF k < i THEN list[k] ELSE list[k + 1]
  <2> SUFFICES ASSUME NEW k \in 1 .. n - 1
               PROVE  list'[k] = IF k < i THEN list[k] ELSE list[k + 1]
    OBVIOUS
  <2>1. CASE k < i
    <3>1. k <= i - 1 /\ k \in 1 .. i - 1
      BY <1>2, <2>1
    <3> QED BY <1>3, <1>6, <1>7, <2>1, <3>1
  <2>2. CASE ~ (k < i)
    <3>1. ~ (k <= i - 1) /\ k - (i - 1) \in 1 .. n - i /\ i + (k - (i - 1)) = k + 1
      BY <1>2, <2>2
    <3> QED BY <1>4, <1>6, <1>7, <2>2, <3>1
  <2> QED BY <2>1, <2>2
<1>9. DOMAIN list' = 1 .. n - 1
  BY <1>6, <1>7, LenProperties
<1> QED BY <1>1, <1>6, <1>8, <1>9

LEMMA UnlinkIs ==
  ASSUME ListInv, NEW x, Unlink(x)
  PROVE  list' \in Seq(Item) /\ IsInjective(list') /\ Range(list') = Range(list) \ {x}
<1> DEFINE n == Len(list)
<1>1. PICK i \in 1 .. n :
        /\ list[i] = x /\ list' \in Seq(Item) /\ DOMAIN list' = 1 .. n - 1
        /\ \A k \in 1 .. n - 1 : list'[k] = IF k < i THEN list[k] ELSE list[k + 1]
  BY UnlinkSeq
<1>2. n \in Nat /\ i \in Int
  BY ListIs
<1>10. \A k \in 1 .. n - 1 : k \in 1 .. n /\ k + 1 \in 1 .. n
  BY <1>2
<1>11. IsInjective(list')
  <2> SUFFICES ASSUME NEW k \in 1 .. n - 1, NEW l \in 1 .. n - 1, list'[k] = list'[l]
               PROVE  k = l
    BY <1>1 DEF IsInjective
  <2>1. (IF k < i THEN k ELSE k + 1) = (IF l < i THEN l ELSE l + 1)
    BY <1>1, <1>10, ListIs
  <2> QED BY <1>2, <2>1
<1>12. Range(list') = Range(list) \ {x}
  <2>1. Range(list') = {list'[k] : k \in 1 .. n - 1}
    BY <1>1 DEF Range
  <2>2. \A k \in 1 .. n - 1 : list'[k] \in Range(list) \ {x}
    <3> SUFFICES ASSUME NEW k \in 1 .. n - 1 PROVE list'[k] \in Range(list) \ {x}
      OBVIOUS
    <3>1. PICK l \in 1 .. n : list'[k] = list[l] /\ l # i
      BY <1>1, <1>2, <1>10
    <3> QED BY <1>1, <3>1, ListIs
  <2>3. ASSUME NEW y \in Range(list) \ {x}
        PROVE  \E k \in 1 .. n - 1 : list'[k] = y
    <3>1. PICK l \in 1 .. n : list[l] = y /\ l # i
      BY <1>1, ListIs
    <3>2. CASE l < i
      <4>1. l \in 1 .. n - 1
        BY <1>2, <3>2
      <4> QED BY <1>1, <3>1, <3>2, <4>1
    <3>3. CASE l > i
      <4>1. l - 1 \in 1 .. n - 1 /\ ~ (l - 1 < i) /\ (l - 1) + 1 = l
        BY <1>2, <3>3
      <4>2. list'[l - 1] = list[(l - 1) + 1]
        BY <1>1, <4>1
      <4> QED BY <3>1, <4>1, <4>2
    <3> QED BY <1>2, <3>1, <3>2, <3>3
  <2> QED BY <2>1, <2>2, <2>3
<1> QED BY <1>1, <1>11, <1>12

\* What comes after x in the list is another.
LEMMA AfterIs ==
  ASSUME ListInv, NEW x, x # NIL, NEW keys
  PROVE  After(x, keys) \in (Range(list) \ {x}) \cup {NIL}
<1> DEFINE places == {i \in DOMAIN list : list[i][1] \in keys /\ \E j \in 1 .. i - 1 : list[j] = x}
<1>1. After(x, keys) = Earliest(places)
  BY DEF After
<1>2. \A i \in places : list[i] # x
  <2> SUFFICES ASSUME NEW i \in places, list[i] = x PROVE FALSE
    OBVIOUS
  <2>1. PICK j \in 1 .. i - 1 : list[j] = x
    OBVIOUS
  <2>2. i \in 1 .. Len(list) /\ j \in 1 .. Len(list) /\ j # i
    BY ListIs
  <2> QED BY <2>1, <2>2, ListIs
<1>3. places \subseteq DOMAIN list /\ list \in Seq(Item)
  BY ListIs
<1> HIDE DEF places
<1>4. /\ places = {} => Earliest(places) = NIL
      /\ places # {} => \E i \in places : Earliest(places) = list[i]
      /\ Earliest(places) \in Range(list) \cup {NIL}
  BY <1>3, EarliestIs
<1> QED BY <1>1, <1>2, <1>4

-----------------------------------------------------------------------------
(* The end of a proc.                                                       *)

LEMMA FinishIs ==
  ASSUME ListInv, ThreadInv, NEW x \in Item, Finish(x), UNCHANGED sel
  PROVE  /\ list' \in Seq(Item) /\ IsInjective(list') /\ doomed' = doomed \ {x}
         /\ Range(list) \ {x} \subseteq Range(list')
         /\ mainPorts \subseteq Range(list')
         /\ ThreadInv'
<1>1. CASE x \in doomed
  <2>1. Unlink(x) /\ doomed' = doomed \ {x} /\ UNCHANGED <<waiting, active>>
    BY <1>1 DEF Finish, Freed
  <2>2. x \notin mainPorts /\ mainPorts \subseteq Range(list)
    BY <1>1, ListedIs DEF ListInv
  <2> QED BY <2>1, <2>2, UnlinkIs, ThreadStays
<1>2. CASE x \notin doomed
  <2>1. UNCHANGED <<list, doomed>> /\ doomed' = doomed \ {x}
    BY <1>2 DEF Finish, libVars
  <2>2. ThreadInv'
    BY <1>2 DEF Finish, libVars, ThreadInv
  <2>3. mainPorts \subseteq Range(list)
    BY ListedIs DEF ListInv
  <2> QED BY <2>1, <2>2, <2>3 DEF ListInv
<1> QED BY <1>1, <1>2

\* What is left of the list suits the procs that still run.
LEMMA ListEnds ==
  ASSUME ListInv, NEW x \in Item, list' \in Seq(Item), IsInjective(list'), doomed' = doomed \ {x},
         Range(list) \ {x} \subseteq Range(list'), mainPorts \subseteq Range(list'),
         InUse' = InUse \ {x}, UNCHANGED <<mainPorts, mainCtx>>,
         ~ IsGet(top') => top'.pc = "run", Loops(top') => top'.at \in Range(list')
  PROVE  ListInv'
<1>1. Listed(Port)' = {y \in Range(list') : y[1] \in Port}
  BY DEF Listed
<1>2. mainPorts' \subseteq Listed(Port)' \ doomed'
  BY <1>1 DEF ListInv, Listed
<1>3. doomed' \subseteq InUse' /\ InUse' \subseteq Range(list')
  BY DEF ListInv
<1> QED BY <1>2, <1>3 DEF ListInv

\* Below a proc there is a call, which a program made.
LEMMA BelowIs ==
  ASSUME StackInv, ~ IsGet(top), top.item # NIL \/ top.event # NIL
  PROVE  /\ Len(stack) \in Nat /\ Len(stack) >= 3 /\ below = stack[Len(stack) - 1]
         /\ IsGet(below) /\ below \in GetFrame /\ below.pc # "return"
         /\ top.item = NIL => below.pc = "recv"
         /\ ~ IsGet(stack[Len(stack) - 2])
<1> DEFINE n == Len(stack)
<1>1. n \in Nat \ {0} /\ top = stack[n]
  BY StackIs
<1>2. n # 1
  BY <1>1 DEF StackInv
<1>3. n - 1 \in 1 .. n - 1 /\ n - 1 \in 1 .. n /\ (n - 1) + 1 = n
  <2>1. \A k \in Nat \ {0} : k # 1 => k - 1 \in 1 .. k - 1 /\ k - 1 \in 1 .. k /\ (k - 1) + 1 = k
    OBVIOUS
  <2> QED BY <1>1, <1>2, <2>1
<1>4. /\ IsGet(stack[(n - 1) + 1]) <=> ~ IsGet(stack[n - 1])
      /\ IsGet(stack[n - 1]) => /\ stack[n - 1].pc # "return"
                                /\ stack[(n - 1) + 1].item = NIL => stack[n - 1].pc = "recv"
  BY <1>3 DEF StackInv
<1>5. /\ IsGet(stack[n - 1]) /\ stack[n - 1].pc # "return"
      /\ top.item = NIL => stack[n - 1].pc = "recv"
  BY <1>1, <1>3, <1>4
<1>6. n - 1 # 1
  BY <1>5 DEF StackInv
<1>7. n >= 3 /\ n - 2 \in 1 .. n - 1 /\ (n - 2) + 1 = n - 1
  <2>1. \A k \in Nat \ {0} : k # 1 /\ k - 1 # 1 => k >= 3 /\ k - 2 \in 1 .. k - 1 /\ (k - 2) + 1 = k - 1
    OBVIOUS
  <2> QED BY <1>1, <1>2, <1>6, <2>1
<1>8. ~ IsGet(stack[n - 2])
  <2>1. IsGet(stack[(n - 2) + 1]) <=> ~ IsGet(stack[n - 2])
    BY <1>7 DEF StackInv
  <2> QED BY <1>5, <1>7, <2>1
<1>9. below \in GetFrame
  BY <1>3, <1>5, StackIs, FrameIs DEF below
<1> QED BY <1>1, <1>5, <1>7, <1>8, <1>9 DEF below

LEMMA ProcReturnsKeeps ==
  ASSUME Inv, ProcReturns
  PROVE  Inv'
<1> DEFINE n == Len(stack)
           x == top.item
           g == Called(below, x)
<1>1. /\ ~ IsGet(top) /\ x # NIL /\ Finish(x) /\ stack' = Append(Outer(2), g)
      /\ UNCHANGED <<thr, sel, mainPorts, mainCtx, sent, queue, lastEvent, scenario>>
  BY DEF ProcReturns, InProc, IsGet, mainVars, selVars, eventVars
<1>2. MainInv /\ StackInv /\ FramesInv /\ ListInv /\ ThreadInv
  BY DEF Inv, MainInv
<1>3. x \in Item
  BY <1>1, <1>2, TopIs DEF ProgFrame
<1>4. /\ n \in Nat /\ n >= 3 /\ below = stack[n - 1] /\ IsGet(below) /\ below \in GetFrame
      /\ below.pc # "return"
  BY <1>1, <1>2, BelowIs
<1>5. /\ g \in GetFrame /\ Ages(below, g) /\ g.pc # "return"
      /\ Loops(g) => g.at \in Range(list')
  <2> DEFINE a == After(x, IF x[1] \in FD THEN FD ELSE Timer)
  <2>1. a \in Item \cup {NIL} /\ a \in (Range(list) \ {x}) \cup {NIL}
    BY <1>1, <1>2, ListedIs, AfterIs DEF ListInv
  <2>2. a \in Range(list') \cup {NIL}
    BY <1>1, <1>2, <1>3, <2>1, FinishIs
  <2>3. CASE x[1] \in Port
    <3>1. g = [below EXCEPT !.called = TRUE, !.pc = "after"]
      BY <2>3 DEF Called
    <3>2. Goes(below, g, "after", below.at, TRUE)
      BY <1>4, <2>1, <3>1, CallGoes DEF CallPc
    <3> QED BY <3>2 DEF Goes, Loops
  <2>4. CASE x[1] \notin Port
    <3>1. g = [below EXCEPT !.called = TRUE, !.at = a]
      BY <2>4 DEF Called
    <3> HIDE DEF a
    <3>2. Goes(below, g, below.pc, a, TRUE)
      <4>1. "recv" \in CallPc
        BY DEF CallPc
      <4>2. Goes(below, [below EXCEPT !.called = TRUE, !.at = a], below.pc, a, TRUE)
        <5>1. a \in Item \cup {NIL}
          BY <2>1
        <5> QED BY <1>4, <4>1, <5>1, CallGoes
      <4> QED BY <3>1, <4>2
    <3> QED BY <1>4, <2>2, <3>2 DEF Goes, Loops
  <2> QED BY <2>3, <2>4
<1> HIDE DEF g
<1>6. Aged(Outer(2), n - 2) /\ n - 2 \in Nat /\ n - 2 < n /\ (n - 2) + 1 = n - 1
  BY <1>2, <1>4, AgedOuter
<1>7. /\ Becomes(n - 1) /\ NoneFresher(n - 1) /\ top' = g
  <2>1. /\ stack[(n - 2) + 1] = below /\ g \in Frame /\ Stays(stack[(n - 2) + 1], g)
        /\ Fresh(g) => Fresh(stack[(n - 2) + 1])
    BY <1>4, <1>5, <1>6 DEF Frame, Ages
  <2>2. Becomes((n - 2) + 1) /\ top' = g /\ NoneFresher((n - 2) + 1)
    BY <1>1, <1>2, <1>6, <2>1, AppendBecomes
  <2> QED BY <1>6, <2>2
<1>8. n - 1 # n + 1 /\ n - 1 <= n
  BY <1>4
<1>9. StackInv' /\ FramesInv'
  BY <1>1, <1>2, <1>7, <1>8, StackBecomes, FramesBecome
<1>10. ThrInv'
  <2>1. \A i \in 1 .. n : IsGet(stack[i]) => Covers(stack, thr, i, n)
    BY <1>1, <1>2, StackIs DEF MainInv, ThrInv
  <2>2. ASSUME NEW i \in 1 .. n - 1, IsGet(stack[i])
        PROVE  Covers(stack, thr', i, n - 1)
    <3>1. i \in 1 .. n /\ n - 1 \in Nat /\ n \in Nat /\ ~ IsGet(stack[n])
      BY <1>1, <1>2, <1>4, StackIs
    <3>2. Covers(stack, thr, i, n)
      BY <2>1, <2>2, <3>1
    <3> QED BY <1>1, <3>1, <3>2, CoversMore
  <2>3. thr' \in Word
    BY <1>1, <1>2 DEF MainInv, ThrInv
  <2>4. \A i \in 1 .. n - 1 : i <= n /\ IsGet(stack[i]) =>
          Covers(stack, thr', i, IF n - 1 <= n THEN n - 1 ELSE n)
    BY <1>8, <2>2
  <2> QED BY <1>2, <1>7, <1>8, <2>3, <2>4, ThrBecomes
<1>11. ListInv' /\ ThreadInv'
  <2>1. InUse' = InUse \ {x}
    BY <1>1, <1>2, <1>7, InUseBecomes
  <2>2. IsGet(top')
    BY <1>5, <1>7 DEF GetFrame, IsGet
  <2>3. Loops(top') => top'.at \in Range(list')
    BY <1>5, <1>7
  <2>4. /\ list' \in Seq(Item) /\ IsInjective(list') /\ doomed' = doomed \ {x}
        /\ Range(list) \ {x} \subseteq Range(list') /\ mainPorts \subseteq Range(list')
        /\ ThreadInv'
    BY <1>1, <1>2, <1>3, FinishIs
  <2> QED BY <1>1, <1>2, <1>3, <2>1, <2>2, <2>3, <2>4, ListEnds
<1>12. EventInv'
  BY <1>1, EventStays DEF Inv
<1> QED BY <1>1, <1>9, <1>10, <1>11, <1>12 DEF Inv

LEMMA ProcRaisesKeeps ==
  ASSUME Inv, ProcRaises
  PROVE  Inv'
<1> DEFINE n == Len(stack)
           x == top.item
<1>1. /\ ~ IsGet(top) /\ x # NIL /\ Finish(x) /\ stack' = Outer(2) /\ thr' = below.prev
      /\ UNCHANGED <<sel, mainPorts, mainCtx, sent, queue, lastEvent, scenario>>
  BY DEF ProcRaises, InProc, IsGet, mainVars, selVars, eventVars
<1>2. MainInv /\ StackInv /\ FramesInv /\ ListInv /\ ThreadInv
  BY DEF Inv, MainInv
<1>3. x \in Item
  BY <1>1, <1>2, TopIs DEF ProgFrame
<1>4. /\ n \in Nat /\ n >= 3 /\ below = stack[n - 1] /\ IsGet(below) /\ below \in GetFrame
      /\ ~ IsGet(stack[n - 2])
  BY <1>1, <1>2, BelowIs
<1>5. n - 2 > 0 /\ n - (n - 2) = 2 /\ n - 1 \in 1 .. n /\ (n - 1) - 1 = n - 2
  BY <1>4
<1>6. thr' \in Word
  BY <1>1, <1>4 DEF GetFrame
<1>7. \A i \in 1 .. n - 2 : IsGet(stack[i]) => Covers(stack, thr', i, n - 2)
  <2>1. PrevAt(stack, n - 1)
    BY <1>2, <1>5, StackIs DEF FramesInv
  <2> QED BY <1>1, <1>4, <1>5, <2>1 DEF PrevAt
<1>8. MainInv' /\ Becomes(n - 2) /\ ~ IsGet(top') /\ top'.pc = "run"
  <2>1. stack' = Outer(n - (n - 2))
    BY <1>1, <1>5
  <2>2. n - 2 \in {n - 1, n - 2}
    OBVIOUS
  <2> QED BY <1>1, <1>2, <1>4, <1>5, <1>6, <1>7, <2>1, <2>2, MainPops
<1>9. ListInv' /\ ThreadInv'
  <2>1. InUse' = InUse \ {x}
    BY <1>1, <1>2, <1>8, InUseBecomes
  <2>2. ~ Loops(top')
    BY <1>8 DEF Loops
  <2>3. /\ list' \in Seq(Item) /\ IsInjective(list') /\ doomed' = doomed \ {x}
        /\ Range(list) \ {x} \subseteq Range(list') /\ mainPorts \subseteq Range(list')
        /\ ThreadInv'
    BY <1>1, <1>2, <1>3, FinishIs
  <2> QED BY <1>1, <1>2, <1>3, <1>8, <2>1, <2>2, <2>3, ListEnds
<1>10. EventInv'
  BY <1>1, EventStays DEF Inv
<1> QED BY <1>1, <1>8, <1>9, <1>10 DEF Inv, MainInv

LEMMA FilterReturnsKeeps ==
  ASSUME Inv, FilterReturns
  PROVE  Inv'
<1> DEFINE n == Len(stack)
<1>1. /\ ~ IsGet(top) /\ top.event # NIL /\ stack' = Outer(1)
      /\ QueueEvent(top.event, below.get) \/ UNCHANGED <<queue, lastEvent>>
      /\ UNCHANGED <<thr, list, doomed, waiting, active, sel, mainPorts, mainCtx, sent, scenario>>
  BY DEF FilterReturns, IsGet, libVars, mainVars, selVars, worldVars
<1>2. MainInv /\ StackInv /\ FramesInv /\ ListInv /\ EventInv
  BY DEF Inv, MainInv
<1>3. top.item = NIL /\ top.event \in Event
  BY <1>1, <1>2, TopIs DEF ProgFrame
<1>4. /\ n \in Nat /\ n >= 3 /\ below = stack[n - 1] /\ IsGet(below) /\ below.pc = "recv"
  BY <1>1, <1>2, <1>3, BelowIs
<1>5. Aged(Outer(1), n - 1) /\ n - 1 \in Nat \ {0} /\ n - 1 \in 1 .. n - 1 /\ n - 1 # n + 1 /\ n - 1 <= n
  BY <1>2, <1>4, AgedOuter
<1>6. Becomes(n - 1) /\ NoneFresher(n - 1) /\ top' = stack'[n - 1]
  BY <1>1, <1>2, <1>5, AgedBecomes
<1>7. IsGet(top') /\ ~ Loops(top')
  <2>1. stack'[n - 1].kind = stack[n - 1].kind /\ stack'[n - 1].pc = stack[n - 1].pc
    BY <1>1, <1>5 DEF Aged, Ages, Stays
  <2> QED BY <1>4, <1>6, <2>1 DEF IsGet, Loops
<1>8. StackInv' /\ FramesInv'
  BY <1>1, <1>2, <1>5, <1>6, StackBecomes, FramesBecome
<1>9. ThrInv'
  <2>1. \A i \in 1 .. n : IsGet(stack[i]) => Covers(stack, thr, i, n)
    BY <1>1, <1>2, StackIs DEF MainInv, ThrInv
  <2>2. ASSUME NEW i \in 1 .. n - 1, IsGet(stack[i])
        PROVE  Covers(stack, thr', i, n - 1)
    <3>1. i \in 1 .. n /\ n - 1 \in Nat /\ n \in Nat /\ ~ IsGet(stack[n])
      BY <1>1, <1>2, <1>4, StackIs
    <3>2. Covers(stack, thr, i, n)
      BY <2>1, <2>2, <3>1
    <3> QED BY <1>1, <3>1, <3>2, CoversMore
  <2>3. thr' \in Word
    BY <1>1, <1>2 DEF MainInv, ThrInv
  <2>4. \A i \in 1 .. n - 1 : i <= n /\ IsGet(stack[i]) =>
          Covers(stack, thr', i, IF n - 1 <= n THEN n - 1 ELSE n)
    BY <1>5, <2>2
  <2> QED BY <1>2, <1>5, <1>6, <2>3, <2>4, ThrBecomes
<1>10. ListInv'
  <2>1. InUse' = InUse
    BY <1>1, <1>2, <1>3, <1>6, InUseBecomes
  <2>2. doomed \subseteq InUse' /\ InUse' \subseteq Range(list) /\ mainCtx' \subseteq Ctx
    BY <1>1, <1>2, <2>1 DEF ListInv
  <2> QED BY <1>1, <1>2, <1>7, <2>2, ListStays
<1>11. EventInv'
  <2>1. CASE UNCHANGED <<queue, lastEvent>>
    BY <1>1, <1>2, <2>1, EventStays
  <2>2. CASE QueueEvent(top.event, below.get)
    <3>1. sent' \in [Ctx -> Type \cup {NIL}]
      BY <1>1, <1>2 DEF EventInv
    <3> QED BY <1>2, <1>3, <2>2, <3>1, EventQueued
  <2> QED BY <1>1, <2>1, <2>2
<1>12. ThreadInv'
  BY <1>1, ThreadStays DEF Inv
<1> QED BY <1>1, <1>8, <1>9, <1>10, <1>11, <1>12 DEF Inv

-----------------------------------------------------------------------------
(* What else programs and procs do.                                         *)

\* A program goes on, and the list holds what is in use.
LEMMA ListProgs ==
  ASSUME ListInv, list' \in Seq(Item), IsInjective(list'),
         InUse' = InUse, doomed' \subseteq InUse, InUse \subseteq Range(list'),
         mainPorts' \subseteq mainPorts \ doomed', mainPorts' \subseteq Range(list'),
         UNCHANGED mainCtx, ~ IsGet(top'),
         top'.pc = "reply" => \E x \in Range(list') : x[1] = top'.fd
  PROVE  ListInv'
<1>1. Listed(Port)' = {y \in Range(list') : y[1] \in Port}
  BY DEF Listed
<1>2. mainPorts' \subseteq Listed(Port)' \ doomed'
  BY <1>1 DEF ListInv, Listed
<1>3. ~ Loops(top')
  BY DEF Loops
<1> QED BY <1>2, <1>3 DEF ListInv

LEMMA Still ==
  ASSUME Inv, UNCHANGED <<stack, thr, list, doomed, mainPorts, mainCtx, lastEvent>>
  PROVE  MainInv' /\ ListInv'
<1>1. MainInv'
  BY MainStill DEF Inv, MainInv
<1>2. top' = top /\ InUse' = InUse /\ Listed(Port)' = Listed(Port)
  BY DEF top, InUse, Gets, Listed
<1> QED BY <1>1, <1>2 DEF Inv, ListInv

\* The new element is the first.
LEMMA AddSeq ==
  ASSUME ListInv, NEW key \in FD \cup Port \cup Timer, Unlisted(key) # {}, Add(key)
  PROVE  \E x \in Item \ Range(list) :
           /\ x[1] = key /\ list' = <<x>> \o list
           /\ list' \in Seq(Item) /\ DOMAIN list' = 1 .. 1 + Len(list) /\ list'[1] = x
           /\ \A i \in 1 .. 1 + Len(list) :
                (i = 1 /\ list'[i] = x) \/ (i - 1 \in 1 .. Len(list) /\ list'[i] = list[i - 1])
           /\ \A i \in 1 .. Len(list) : i + 1 \in 1 .. 1 + Len(list) /\ list'[i + 1] = list[i]
<1> DEFINE n == Len(list)
           x == <<key, CHOOSE r \in Unlisted(key) : TRUE>>
<1>1. x \in Item /\ x \notin Range(list) /\ x[1] = key
  <2> DEFINE r == CHOOSE r \in Unlisted(key) : TRUE
  <2>1. r \in Unlisted(key)
    OBVIOUS
  <2> HIDE DEF r
  <2>2. <<key, r>> \in Item /\ <<key, r>> \notin Range(list)
    BY <2>1 DEF Unlisted, Item
  <2> QED BY <2>2 DEF r
<1>2. list' = <<x>> \o list
  BY DEF Add
<1> HIDE DEF x
<1>3. <<x>> \in Seq(Item) /\ Len(<<x>>) = 1 /\ <<x>>[1] = x /\ n \in Nat /\ list \in Seq(Item)
  BY <1>1, ListIs
<1>4. /\ list' \in Seq(Item) /\ Len(list') = 1 + n
      /\ \A i \in 1 .. 1 + n : list'[i] = IF i <= 1 THEN <<x>>[i] ELSE list[i - 1]
  BY <1>2, <1>3, ConcatProperties
<1>5. DOMAIN list' = 1 .. 1 + n
  BY <1>4, LenProperties
<1>6. \A i \in 1 .. 1 + n : (i = 1 /\ list'[i] = x) \/ (i - 1 \in 1 .. n /\ list'[i] = list[i - 1])
  BY <1>3, <1>4
<1>7. \A i \in 1 .. n : i + 1 \in 1 .. 1 + n /\ list'[i + 1] = list[i]
  <2> SUFFICES ASSUME NEW i \in 1 .. n PROVE i + 1 \in 1 .. 1 + n /\ list'[i + 1] = list[i]
    OBVIOUS
  <2>1. i + 1 \in 1 .. 1 + n /\ ~ (i + 1 <= 1) /\ (i + 1) - 1 = i
    BY <1>3
  <2> QED BY <1>4, <2>1
<1>8. list'[1] = x
  <2>1. 1 \in 1 .. 1 + n
    BY <1>3
  <2> QED BY <1>3, <1>4, <2>1
<1> QED BY <1>1, <1>2, <1>4, <1>5, <1>6, <1>7, <1>8

LEMMA AddIs ==
  ASSUME ListInv, NEW key \in FD \cup Port \cup Timer, Unlisted(key) # {}, Add(key)
  PROVE  list' \in Seq(Item) /\ IsInjective(list') /\ Range(list) \subseteq Range(list')
<1> DEFINE n == Len(list)
<1>1. PICK x \in Item \ Range(list) :
        /\ list' \in Seq(Item) /\ DOMAIN list' = 1 .. 1 + n
        /\ \A i \in 1 .. 1 + n :
             (i = 1 /\ list'[i] = x) \/ (i - 1 \in 1 .. n /\ list'[i] = list[i - 1])
        /\ \A i \in 1 .. n : i + 1 \in 1 .. 1 + n /\ list'[i + 1] = list[i]
  BY AddSeq
<1>2. n \in Nat
  BY ListIs
<1>3. IsInjective(list')
  <2> SUFFICES ASSUME NEW i \in 1 .. 1 + n, NEW j \in 1 .. 1 + n, list'[i] = list'[j]
               PROVE  i = j
    BY <1>1 DEF IsInjective
  <2>1. \A k \in 1 .. n : list[k] # x
    BY <1>1, ListIs
  <2>2. \A k \in 1 .. 1 + n : list'[k] = x => k = 1
    BY <1>1, <2>1
  <2>3. CASE i = 1 /\ list'[i] = x
    BY ONLY <2>2, <2>3, list'[i] = list'[j], j \in 1 .. 1 + n
  <2>4. CASE j = 1 /\ list'[j] = x
    BY ONLY <2>2, <2>4, list'[i] = list'[j], i \in 1 .. 1 + n
  <2>5. CASE /\ i - 1 \in 1 .. n /\ list'[i] = list[i - 1]
             /\ j - 1 \in 1 .. n /\ list'[j] = list[j - 1]
    <3>1. i - 1 = j - 1
      BY <2>5, ListIs
    <3> QED BY <1>2, <3>1
  <2> QED BY <1>1, <2>3, <2>4, <2>5
<1>4. Range(list) \subseteq Range(list')
  BY <1>1, ListIs DEF Range
<1> QED BY <1>1, <1>3, <1>4

LEMMA RemoveIs ==
  ASSUME ListInv, NEW x \in Range(list), RemoveItem(x), InUse' = InUse,
         mainPorts' \subseteq mainPorts \ {x}, UNCHANGED mainCtx, ~ IsGet(top'), top'.pc = "run"
  PROVE  ListInv'
<1>1. mainPorts \subseteq Range(list)
  BY ListedIs DEF ListInv
<1>2. CASE x \in InUse
  <2>1. doomed' = doomed \cup {x} /\ UNCHANGED list
    BY <1>2 DEF RemoveItem
  <2>2. /\ doomed' \subseteq InUse /\ InUse \subseteq Range(list')
        /\ mainPorts' \subseteq mainPorts \ doomed' /\ mainPorts' \subseteq Range(list')
        /\ list' \in Seq(Item) /\ IsInjective(list')
    BY <1>1, <1>2, <2>1 DEF ListInv
  <2> QED BY <2>2, ListProgs
<1>3. CASE x \notin InUse
  <2>1. Unlink(x) /\ UNCHANGED doomed
    BY <1>3 DEF RemoveItem
  <2>2. list' \in Seq(Item) /\ IsInjective(list') /\ Range(list') = Range(list) \ {x}
    BY <2>1, UnlinkIs
  <2>3. /\ doomed' \subseteq InUse /\ InUse \subseteq Range(list')
        /\ mainPorts' \subseteq mainPorts \ doomed' /\ mainPorts' \subseteq Range(list')
    BY <1>1, <1>3, <2>1, <2>2 DEF ListInv
  <2> QED BY <2>2, <2>3, ListProgs
<1> QED BY <1>2, <1>3

\* A program goes on, with marks on the calls below it.
LEMMA ProgGoesOn ==
  ASSUME Inv, NEW op, Runs(op), Aged(stack', Len(stack)),
         mainPorts' \subseteq mainPorts, thr' = thr
  PROVE  MainInv' /\ InUse' = InUse /\ ~ IsGet(top') /\ top'.pc = "run"
<1>1. ~ IsGet(top) /\ top.pc = "run" /\ MainInv /\ StackInv /\ FramesInv
  BY DEF Runs, IsGet, Inv, MainInv
<1>2. MainInv' /\ ~ IsGet(top') /\ top'.pc = "run"
  BY <1>1, MainProgs
<1>3. Len(stack) \in Nat \ {0}
  BY <1>1, StackIs
<1>4. Becomes(Len(stack))
  BY <1>1, <1>3, AgedBecomes
<1>5. InUse' = InUse
  BY <1>1, <1>4, InUseBecomes
<1> QED BY <1>2, <1>5

LEMMA AddKeeps ==
  ASSUME Inv, Runs("add"), NEW key \in FD \cup Port \cup Timer, Unlisted(key) # {}, Add(key),
         Aged(stack', Len(stack)), UNCHANGED <<thr, doomed, mainPorts, mainCtx>>
  PROVE  MainInv' /\ ListInv'
<1>1. ListInv /\ mainPorts \subseteq Range(list)
  BY ListedIs DEF Inv, ListInv
<1>2. list' \in Seq(Item) /\ IsInjective(list') /\ Range(list) \subseteq Range(list')
  BY <1>1, AddIs
<1>3. MainInv' /\ InUse' = InUse /\ ~ IsGet(top') /\ top'.pc = "run"
  BY ProgGoesOn
<1>4. ListInv'
  <2>1. /\ doomed' \subseteq InUse /\ InUse \subseteq Range(list')
        /\ mainPorts' \subseteq mainPorts \ doomed' /\ mainPorts' \subseteq Range(list')
    BY <1>1, <1>2 DEF ListInv
  <2> QED BY <1>1, <1>2, <1>3, <2>1, ListProgs
<1> QED BY <1>3, <1>4

LEMMA DPSAddFDKeeps ==
  ASSUME Inv, NEW fd \in FD, DPSAddFD(fd)
  PROVE  Inv'
<1>1. /\ Runs("add") /\ Unlisted(fd) # {} /\ Add(fd) /\ waiting' = waiting \cup {fd}
      /\ UNCHANGED <<stack, thr, doomed, active, mainPorts, mainCtx, sel, sent, queue, lastEvent,
                     scenario>>
  BY DEF DPSAddFD, MayAdd, mainVars, selVars, worldVars, eventVars
<1>2. Aged(stack', Len(stack))
  BY <1>1, AgedStack DEF Inv
<1>3. MainInv' /\ ListInv'
  BY <1>1, <1>2, AddKeeps
<1>4. ThreadInv'
  BY <1>1 DEF Inv, ThreadInv
<1> QED BY <1>1, <1>3, <1>4, EventStays DEF Inv, MainInv

LEMMA DPSAddPortKeeps ==
  ASSUME Inv, NEW p \in Port, DPSAddPort(p)
  PROVE  Inv'
<1>1. /\ Runs("add") /\ Unlisted(p) # {} /\ Add(p) /\ stack' = AllStale(stack)
      /\ UNCHANGED <<thr, doomed, waiting, active, mainPorts, mainCtx, sel, sent, queue,
                     lastEvent, scenario>>
  BY DEF DPSAddPort, MayAdd, mainVars, selVars, worldVars, eventVars
<1>2. Aged(stack', Len(stack))
  BY <1>1, StackIs, AgedStack, AgedStale DEF Inv
<1>3. MainInv' /\ ListInv'
  BY <1>1, <1>2, AddKeeps
<1> QED BY <1>1, <1>3, EventStays, ThreadStays DEF Inv, MainInv

LEMMA DPSAddTimedEntryKeeps ==
  ASSUME Inv, NEW t \in Timer, DPSAddTimedEntry(t)
  PROVE  Inv'
<1>1. /\ Runs("add") /\ Unlisted(t) # {} /\ Add(t)
      /\ UNCHANGED <<stack, thr, doomed, waiting, active, mainPorts, mainCtx, sel, sent, queue,
                     lastEvent, scenario>>
  BY DEF DPSAddTimedEntry, mainVars, selVars, worldVars, eventVars
<1>2. Aged(stack', Len(stack))
  BY <1>1, AgedStack DEF Inv
<1>3. MainInv' /\ ListInv'
  BY <1>1, <1>2, AddKeeps
<1> QED BY <1>1, <1>3, EventStays, ThreadStays DEF Inv, MainInv

LEMMA FoundIs ==
  ASSUME ListInv, NEW y \in Range(list)
  PROVE  Found(y[1]) \in Range(list) /\ Found(y[1])[1] = y[1]
<1> DEFINE places == {i \in DOMAIN list : list[i][1] \in {y[1]}}
<1>1. places # {}
  BY ListIs
<1>2. places \subseteq DOMAIN list /\ Found(y[1]) = Earliest(places)
  BY DEF Found, FirstOf
<1> HIDE DEF places
<1>3. PICK i \in places : Earliest(places) = list[i]
  BY <1>1, <1>2, ListIs, EarliestIs
<1>4. list[i] \in Range(list) /\ list[i] \in Item
  BY <1>2, ListIs
<1>5. Found(y[1]) # NIL
  BY <1>2, <1>3, <1>4
<1> QED BY <1>5, ListIs, ListedIs

LEMMA DPSRemoveFDKeeps ==
  ASSUME Inv, NEW fd \in FD, DPSRemoveFD(fd)
  PROVE  Inv'
<1> DEFINE g == [top EXCEPT !.pc = "reply", !.fd = fd]
<1>1. /\ ~ IsGet(top) /\ Found(fd) # NIL /\ stack' = WithTop(g)
      /\ waiting' = waiting \ {fd} /\ active' = active \ {fd}
      /\ UNCHANGED <<thr, list, doomed, mainPorts, mainCtx, sel, sent, queue, lastEvent, scenario>>
  BY DEF DPSRemoveFD, Runs, IsGet, mainVars, selVars, worldVars, eventVars
<1>2. MainInv /\ StackInv /\ FramesInv /\ ListInv
  BY DEF Inv, MainInv
<1>3. g \in ProgFrame /\ Ages(top, g) /\ g.fd = fd
  BY <1>1, <1>2, TopIs, ReplyIs
<1> HIDE DEF g
<1>4. Becomes(Len(stack)) /\ NoneFresher(Len(stack)) /\ top' = g
  BY <1>1, <1>2, <1>3, TopBecomes DEF Frame
<1>5. MainInv'
  BY <1>1, <1>2, <1>4, MainGoes
<1>6. InUse' = InUse
  BY <1>2, <1>4, InUseBecomes
<1>7. ~ IsGet(top')
  BY <1>1, <1>3, <1>4 DEF Ages, Stays, IsGet
<1>8. ListInv'
  <2>1. \E x \in Range(list') : x[1] = top'.fd
    BY <1>1, <1>2, <1>3, <1>4, ListIs, ListedIs
  <2>2. mainPorts \subseteq Range(list)
    BY <1>2, ListedIs DEF ListInv
  <2>3. /\ list' \in Seq(Item) /\ IsInjective(list') /\ doomed' \subseteq InUse
        /\ InUse \subseteq Range(list') /\ mainPorts' \subseteq mainPorts \ doomed'
        /\ mainPorts' \subseteq Range(list')
    BY <1>1, <1>2, <2>2 DEF ListInv
  <2> QED BY <1>1, <1>2, <1>6, <1>7, <2>1, <2>3, ListProgs
<1>9. ThreadInv'
  BY <1>1 DEF Inv, ThreadInv
<1> QED BY <1>1, <1>5, <1>8, <1>9, EventStays DEF Inv, MainInv

LEMMA FDRemovedKeeps ==
  ASSUME Inv, FDRemoved
  PROVE  Inv'
<1> DEFINE g == [top EXCEPT !.pc = "run", !.fd = NIL]
           x == Found(top.fd)
<1>1. /\ ~ IsGet(top) /\ top.pc = "reply" /\ RemoveItem(x) /\ stack' = WithTop(g)
      /\ UNCHANGED <<thr, waiting, active, mainPorts, mainCtx, sel, sent, queue, lastEvent,
                     scenario>>
  BY DEF FDRemoved, IsGet, mainVars, eventVars
<1>2. MainInv /\ StackInv /\ FramesInv /\ ListInv
  BY DEF Inv, MainInv
<1>3. x \in Range(list) /\ x \in Item /\ x[1] = top.fd /\ top.fd \in FD \cup {NIL}
  <2>1. PICK y \in Range(list) : y[1] = top.fd
    BY <1>1, <1>2 DEF ListInv
  <2>2. x \in Range(list) /\ x[1] = top.fd
    BY <1>2, <2>1, FoundIs
  <2>3. x \in Item
    BY <1>2, <2>2, ListIs
  <2>4. top.fd \in FD \cup {NIL}
    BY <1>1, <1>2, TopIs DEF ProgFrame
  <2> QED BY <2>2, <2>3, <2>4
<1>4. x \notin mainPorts
  <2>1. x[1] \notin Port
    BY <1>3 DEF Item
  <2> QED BY <1>2, <2>1 DEF ListInv, Listed
<1> HIDE DEF x
<1>5. g \in ProgFrame /\ Ages(top, g) /\ g.pc = "run"
  <2>1. top \in ProgFrame
    BY <1>1, <1>2, TopIs
  <2> QED BY <2>1 DEF ProgFrame, Ages, Stays, IsGet, Fresh
<1> HIDE DEF g
<1>6. Becomes(Len(stack)) /\ NoneFresher(Len(stack)) /\ top' = g
  BY <1>1, <1>2, <1>5, TopBecomes DEF Frame
<1>7. MainInv'
  BY <1>1, <1>2, <1>6, MainGoes
<1>8. InUse' = InUse
  BY <1>2, <1>6, InUseBecomes
<1>9. ~ IsGet(top') /\ top'.pc = "run"
  BY <1>1, <1>5, <1>6 DEF Ages, Stays, IsGet
<1>10. ListInv'
  BY <1>1, <1>2, <1>3, <1>4, <1>8, <1>9, RemoveIs
<1> QED BY <1>1, <1>7, <1>10, EventStays, ThreadStays DEF Inv, MainInv

LEMMA DPSRemovePortKeeps ==
  ASSUME Inv, NEW p, DPSRemovePort(p)
  PROVE  Inv'
<1> DEFINE x == Found(p)
<1>1. /\ Runs("remove") /\ x # NIL /\ mainPorts' = mainPorts \ {x} /\ RemoveItem(x)
      /\ UNCHANGED <<stack, thr, waiting, active, mainCtx, sel, sent, queue, lastEvent, scenario>>
  BY DEF DPSRemovePort, selVars, worldVars, eventVars
<1>2. StackInv /\ ListInv
  BY DEF Inv
<1>3. x \in Range(list)
  BY <1>1, <1>2, ListIs, ListedIs
<1> HIDE DEF x
<1>4. MainInv' /\ InUse' = InUse /\ ~ IsGet(top') /\ top'.pc = "run"
  BY <1>1, <1>2, AgedStack, ProgGoesOn
<1>5. ListInv'
  BY <1>1, <1>2, <1>3, <1>4, RemoveIs
<1> QED BY <1>1, <1>4, <1>5, EventStays, ThreadStays DEF Inv, MainInv

LEMMA DPSRemoveTimedEntryKeeps ==
  ASSUME Inv, NEW x, DPSRemoveTimedEntry(x)
  PROVE  Inv'
<1>1. /\ Runs("remove") /\ x \in Listed(Timer) /\ RemoveItem(x)
      /\ UNCHANGED <<stack, thr, waiting, active, mainPorts, mainCtx, sel, sent, queue, lastEvent,
                     scenario>>
  BY DEF DPSRemoveTimedEntry, mainVars, selVars, eventVars
<1>2. StackInv /\ ListInv
  BY DEF Inv
<1>3. x \in Range(list) /\ x \notin mainPorts
  <2>1. x \in Range(list) /\ x \in Item /\ x[1] \in Timer
    BY <1>1, <1>2, ListedIs DEF ListInv, Listed
  <2>2. x[1] \notin Port
    BY <2>1
  <2> QED BY <1>2, <2>1, <2>2 DEF ListInv, Listed
<1>4. MainInv' /\ InUse' = InUse /\ ~ IsGet(top') /\ top'.pc = "run"
  BY <1>1, <1>2, AgedStack, ProgGoesOn
<1>5. ListInv'
  BY <1>1, <1>2, <1>3, <1>4, RemoveIs
<1> QED BY <1>1, <1>4, <1>5, EventStays, ThreadStays DEF Inv, MainInv

\* What is done to the queue may be marked on the call below an event proc.
LEMMA MeddlesKeeps ==
  ASSUME Inv, NEW op, Runs(op), stack' = Meddled(stack),
         UNCHANGED <<thr, list, doomed, waiting, active, mainPorts, mainCtx, sel, sent, lastEvent,
                     scenario>>
  PROVE  MainInv' /\ ListInv' /\ ThreadInv'
<1>1. StackInv /\ ListInv /\ mainPorts \subseteq Range(list)
  BY ListedIs DEF Inv, ListInv
<1>2. MainInv' /\ InUse' = InUse /\ ~ IsGet(top') /\ top'.pc = "run"
  BY <1>1, AgedMeddled, ProgGoesOn
<1>3. ListInv'
  <2>1. /\ list' \in Seq(Item) /\ IsInjective(list') /\ doomed' \subseteq InUse
        /\ InUse \subseteq Range(list') /\ mainPorts' \subseteq mainPorts \ doomed'
        /\ mainPorts' \subseteq Range(list')
    BY <1>1 DEF ListInv
  <2> QED BY <1>1, <1>2, <2>1, ListProgs
<1> QED BY <1>2, <1>3, ThreadStays DEF Inv

LEMMA DPSPostEventKeeps ==
  ASSUME Inv, NEW e \in Event, NEW atStart, DPSPostEvent(e, atStart)
  PROVE  Inv'
<1>1. PICK addr \in Address \ Used :
        LET new == [addr |-> addr, ctxt |-> e.ctxt, type |-> e.type] IN
        queue' = IF atStart THEN <<new>> \o queue ELSE Append(queue, new)
  BY DEF DPSPostEvent
<1>2. /\ Runs("post") /\ stack' = Meddled(stack)
      /\ UNCHANGED <<thr, list, doomed, waiting, active, mainPorts, mainCtx, sel, sent, lastEvent,
                     scenario>>
  BY DEF DPSPostEvent, libVars, mainVars, selVars, worldVars
<1>3. MainInv' /\ ListInv' /\ ThreadInv'
  BY <1>2, MeddlesKeeps
<1>4. EventInv'
  <2> DEFINE new == [addr |-> addr, ctxt |-> e.ctxt, type |-> e.type]
  <2>1. new \in QEntry /\ new.addr \notin Used
    BY DEF QEntry, Event
  <2>2. queue' = Append(queue, new) \/ queue' = <<new>> \o queue
    BY <1>1
  <2> HIDE DEF new
  <2>3. /\ queue' \in Seq(QEntry)
        /\ \A i, j \in DOMAIN queue' : queue'[i].addr = queue'[j].addr => i = j
    BY <2>1, <2>2, EventGrows DEF Inv
  <2> QED BY <1>2, <2>3 DEF Inv, EventInv, QEntry
<1> QED BY <1>2, <1>3, <1>4 DEF Inv, MainInv

LEMMA QueueKeeps ==
  ASSUME Inv,
         \/ \E f : DPSDiscardEvents(f)
         \/ \E flag : DPSSetTracking(flag)
  PROVE  Inv'
<1>1. PICK op \in {"discard", "track"} :
        /\ Runs(op) /\ stack' = Meddled(stack)
        /\ UNCHANGED <<thr, list, doomed, waiting, active, mainPorts, mainCtx, sel, sent,
                       lastEvent, scenario>>
  BY DEF DPSDiscardEvents, DPSSetTracking, libVars, mainVars, selVars, worldVars
<1>2. MainInv' /\ ListInv' /\ ThreadInv'
  BY <1>1, MeddlesKeeps
<1>3. UNCHANGED queue \/ \E places \in SUBSET DOMAIN queue : Keep(places)
  BY DEF DPSDiscardEvents, DPSSetTracking, CondenseQ
<1>4. lastEvent' \in Address \cup {NIL}
  BY <1>1 DEF Inv, EventInv
<1>5. EventInv'
  BY <1>1, <1>3, <1>4, EventStays, EventKeep DEF Inv
<1> QED BY <1>1, <1>2, <1>5 DEF Inv, MainInv

-----------------------------------------------------------------------------
(* The select thread, and the world.                                        *)

LEMMA SelectLoopKeeps ==
  ASSUME Inv, SelectLoop
  PROVE  Inv'
<1>1. UNCHANGED <<stack, thr, list, doomed, mainPorts, mainCtx, lastEvent, queue, sent, scenario>>
  BY DEF SelectLoop, SelCopy, SelReturns, SelDrain, SelApply, SelSend, libVars, mainVars,
         worldVars, eventVars
<1>2. MainInv' /\ ListInv'
  BY <1>1, Still
<1>3. ThreadInv'
  <2> USE DEF Inv, ThreadInv, libVars
  <2>1. CASE SelCopy
    BY <2>1 DEF SelCopy
  <2>2. CASE SelReturns
    BY <2>2 DEF SelReturns
  <2>3. CASE SelDrain
    BY <2>3 DEF SelDrain
  <2>4. CASE SelApply
    BY <2>4 DEF SelApply, Legit
  <2>5. CASE SelSend
    BY <2>5 DEF SelSend
  <2> QED BY <2>1, <2>2, <2>3, <2>4, <2>5 DEF SelectLoop
<1> QED BY <1>1, <1>2, <1>3, EventStays DEF Inv, MainInv

LEMMA WorldKeeps ==
  ASSUME Inv, World \/ ReadFD
  PROVE  Inv'
<1>1. /\ UNCHANGED <<stack, thr, list, doomed, mainPorts, mainCtx, lastEvent, queue, waiting,
                     active, sel, scenario>>
      /\ sent' \in [Ctx -> Type \cup {NIL}]
  <2>1. scenario.servers \subseteq Ctx
    BY DEF Inv
  <2> QED BY <2>1 DEF World, ReadFD, DataArrives, MailArrives, ServerSends, TimePasses, libVars,
                      mainVars, selVars, eventVars, Inv, EventInv
<1>2. MainInv' /\ ListInv'
  BY <1>1, Still
<1>3. EventInv'
  BY <1>1 DEF Inv, EventInv
<1> QED BY <1>1, <1>2, <1>3, ThreadStays DEF Inv, MainInv

-----------------------------------------------------------------------------
(* The invariant holds.                                                     *)

LEMMA InitInv == Init => Inv
<1> SUFFICES ASSUME Init PROVE Inv
  OBVIOUS
<1> USE DEF Init
<1>1. /\ scenario \in Scenarios /\ list = scenario.list /\ list \in Seq(Item)
      /\ IsInjective(list)
  OBVIOUS
<1>2. Prog(NIL) \in Frame /\ ~ IsGet(Prog(NIL)) /\ Prog(NIL).item = NIL
      /\ Prog(NIL).event = NIL /\ Prog(NIL).pc = "run"
  BY DEF Prog, Frame, ProgFrame, IsGet
<1>3. stack \in Seq(Frame) /\ Len(stack) = 1 /\ stack[1] = Prog(NIL) /\ DOMAIN stack = 1 .. 1
      /\ top = Prog(NIL)
  BY <1>2 DEF top
<1>4. \A i \in 1 .. Len(stack) : i = 1
  BY <1>3
<1>5. StackInv
  BY <1>2, <1>3 DEF StackInv
<1>6. FramesInv
  BY <1>2, <1>3, <1>4 DEF FramesInv, ProcAt, PrevAt, MainAt, Fresh
<1>7. ThrInv
  BY <1>2, <1>3, <1>4 DEF ThrInv, Word
<1>8. InUse = {}
  BY <1>2, <1>3, <1>4, <1>5, InUseIs
<1>9. ListInv
  BY <1>1, <1>2, <1>3, <1>8 DEF ListInv, Loops
<1>10. EventInv
  <2>1. queue \in Seq([addr : Address, ctxt : Ctx, type : Type]) /\ DOMAIN queue = {}
    OBVIOUS
  <2> QED BY <2>1 DEF EventInv
<1>11. ThreadInv
  <2>1. \A x \in Listed(FD) : x[1] \in FD
    BY DEF Listed
  <2>2. waiting \subseteq FD
    BY <2>1
  <2> QED BY <2>2 DEF ThreadInv
<1> QED BY <1>1, <1>5, <1>6, <1>7, <1>9, <1>10, <1>11 DEF Inv

LEMMA NextInv == Inv /\ [Next]_vars => Inv'
<1> SUFFICES ASSUME Inv, [Next]_vars PROVE Inv'
  OBVIOUS
<1>1. CASE EventLoop
  <2>1. CASE CheckFDs
    BY <2>1, VisitKeeps DEF CheckFDs
  <2>2. CASE CheckTEs
    BY <2>2, VisitKeeps DEF CheckTEs
  <2>3. CASE FDsChecked0
    BY <2>3, FDsChecked0Keeps
  <2>4. CASE FixAgain
    BY <2>4, FixAgainKeeps
  <2>5. CASE ReceiveSignal
    BY <2>5, ReceiveSignalKeeps
  <2>6. CASE TimedOut
    BY <2>6, TimedOutKeeps
  <2>7. CASE AfterMessages
    BY <2>7, AfterMessagesKeeps
  <2>8. CASE TEsChecked
    BY <2>8, TEsCheckedKeeps
  <2>9. CASE FDsChecked
    BY <2>9, FDsCheckedKeeps
  <2>10. CASE Return
    BY <2>10, ReturnKeeps
  <2>11. CASE \E x \in Range(list) : ReceiveForPort(x)
    BY <2>11, ReceiveForPortKeeps
  <2>12. CASE \E c \in Ctx : ReceiveEvent(c)
    BY <2>12, ReceiveEventKeeps
  <2> QED BY <1>1, <2>1, <2>2, <2>3, <2>4, <2>5, <2>6, <2>7, <2>8, <2>9, <2>10, <2>11, <2>12
          DEF EventLoop
<1>2. CASE Program
  <2>1. CASE \E g \in uses.gets : GetEvent(g) \/ DPSDiscardEvents(g)
    BY <2>1, GetEventKeeps, QueueKeeps
  <2>2. CASE ProcReturns
    BY <2>2, ProcReturnsKeeps
  <2>3. CASE ProcRaises
    BY <2>3, ProcRaisesKeeps
  <2>4. CASE FilterReturns
    BY <2>4, FilterReturnsKeeps
  <2>5. CASE ReadFD
    BY <2>5, WorldKeeps
  <2>6. CASE FDRemoved
    BY <2>6, FDRemovedKeeps
  <2>7. CASE \E fd \in FD \cap uses.keys : DPSAddFD(fd) \/ DPSRemoveFD(fd)
    BY <2>7, DPSAddFDKeeps, DPSRemoveFDKeeps
  <2>8. CASE \E p \in Port \cap uses.keys : DPSAddPort(p) \/ DPSRemovePort(p)
    BY <2>8, DPSAddPortKeeps, DPSRemovePortKeeps
  <2>9. CASE \E t \in Timer \cap uses.keys : DPSAddTimedEntry(t)
    BY <2>9, DPSAddTimedEntryKeeps
  <2>10. CASE \E x \in Listed(uses.keys) : DPSRemoveTimedEntry(x)
    BY <2>10, DPSRemoveTimedEntryKeeps
  <2>11. CASE \E c \in Ctx, type \in Type, atStart \in BOOLEAN :
                DPSPostEvent([ctxt |-> c, type |-> type], atStart)
    <3>1. PICK c \in Ctx, type \in Type, atStart \in BOOLEAN :
            DPSPostEvent([ctxt |-> c, type |-> type], atStart)
      BY <2>11
    <3>2. [ctxt |-> c, type |-> type] \in Event
      BY DEF Event
    <3> QED BY <3>1, <3>2, DPSPostEventKeeps
  <2>12. CASE \E flag \in BOOLEAN : DPSSetTracking(flag)
    BY <2>12, QueueKeeps
  <2> QED BY <1>2, <2>1, <2>2, <2>3, <2>4, <2>5, <2>6, <2>7, <2>8, <2>9, <2>10, <2>11, <2>12
          DEF Program
<1>3. CASE SelectLoop
  BY <1>3, SelectLoopKeeps
<1>4. CASE World
  BY <1>4, WorldKeeps
<1>5. CASE UNCHANGED vars
  <2>1. /\ UNCHANGED <<stack, thr, list, doomed, mainPorts, mainCtx, lastEvent, queue, sent,
                       waiting, active, sel, scenario>>
    BY <1>5 DEF vars, libVars, mainVars, selVars, worldVars, eventVars
  <2>2. MainInv' /\ ListInv'
    BY <2>1, Still
  <2> QED BY <2>1, <2>2, EventStays, ThreadStays DEF Inv, MainInv
<1> QED BY <1>1, <1>2, <1>3, <1>4, <1>5 DEF Next

LEMMA InvTypeOK == Inv => TypeOK
<1> SUFFICES ASSUME Inv PROVE TypeOK
  OBVIOUS
<1>1. StackInv /\ ListInv /\ EventInv /\ ThreadInv /\ ThrInv
  BY DEF Inv
<1>2. ASSUME NEW i \in DOMAIN stack
      PROVE  \/ /\ IsGet(stack[i]) /\ stack[i].prev \subseteq 0 .. Width - 1
                /\ stack[i].at \in Item \cup {NIL}
                /\ stack[i].pc \in {"fds0", "recv", "after", "tes", "fds", "return"}
             \/ ~ IsGet(stack[i]) /\ stack[i].item \in Item \cup {NIL} /\ stack[i].pc \in {"run", "reply"}
  <2>1. stack[i] \in Frame
    BY <1>1, StackIs
  <2>2. CASE IsGet(stack[i])
    <3>1. stack[i] \in GetFrame
      BY <2>1, <2>2, FrameIs
    <3> QED BY <2>2, <3>1 DEF GetFrame, CallPc, Word
  <2>3. CASE ~ IsGet(stack[i])
    <3>1. stack[i] \in ProgFrame
      BY <2>1, <2>3, FrameIs
    <3> QED BY <2>3, <3>1 DEF ProgFrame
  <2> QED BY <2>2, <2>3
<1>3. thr \subseteq 0 .. Width - 1
  BY <1>1 DEF ThrInv, Word
<1>4. waiting \cup active \cup sel.mask \subseteq FD
      /\ sel.pc \in {"copy", "select", "drain", "apply", "send"}
  BY <1>1 DEF ThreadInv
<1> QED BY <1>1, <1>2, <1>3, <1>4 DEF TypeOK, ListInv, EventInv

LEMMA InvThreshold == Inv => ThresholdObeyed
<1> SUFFICES ASSUME Inv PROVE ThresholdObeyed
  OBVIOUS
<1>1. StackInv /\ FramesInv /\ DOMAIN stack = 1 .. Len(stack) /\ Len(stack) \in Nat
  BY StackIs DEF Inv
<1>2. ASSUME NEW j \in DOMAIN stack \ Gets, stack[j].item # NIL
      PROVE  /\ \A k \in 1 .. j - 1 \ Gets : stack[k].item # stack[j].item
             /\ \A i \in Gets : i < j /\ Priority[stack[j].item[1]] < stack[i].get.arg =>
                  stack[i].get.arg = Width - 1 /\ \E k \in Gets : stack[k].hiked
  <2>1. j \in 1 .. Len(stack) /\ ~ IsGet(stack[j]) /\ ProcAt(stack, j)
    BY <1>1 DEF Gets, FramesInv
  <2>2. \A i \in 1 .. j - 1 : IF IsGet(stack[i]) THEN Allowed(stack, stack[j].item, i, j - 1)
                                                 ELSE stack[i].item # stack[j].item
    BY <1>2, <2>1 DEF ProcAt
  <2>3. \A k \in 1 .. j - 1 \ Gets : stack[k].item # stack[j].item
    <3>1. \A k \in 1 .. j - 1 : k \in DOMAIN stack
      BY <1>1, <2>1
    <3> QED BY <2>2, <3>1 DEF Gets
  <2>4. ASSUME NEW i \in Gets, i < j, Priority[stack[j].item[1]] < stack[i].get.arg
        PROVE  stack[i].get.arg = Width - 1 /\ \E k \in Gets : stack[k].hiked
    <3>1. i \in 1 .. j - 1 /\ i \in 1 .. Len(stack) /\ IsGet(stack[i])
      BY <1>1, <2>1, <2>4 DEF Gets
    <3>2. Priority[stack[j].item[1]] \in Nat /\ stack[i].get.arg \in Nat
      <4>1. stack[j].item \in Item
        BY <1>1, <1>2, <2>1, StackIs
      <4>2. Priority[stack[j].item[1]] \in Nat
        BY <4>1, PriorityIs
      <4> QED BY <1>1, <3>1, <4>2, StackIs
    <3>3. stack[i].get.arg = Width - 1 /\ Hiked(stack, i, j - 1)
      BY <2>2, <2>4, <3>1, <3>2 DEF Allowed
    <3>4. PICK m \in i .. j - 1 : IsGet(stack[m]) /\ stack[m].hiked
      BY <3>3 DEF Hiked
    <3>5. m \in Gets
      BY <1>1, <2>1, <3>1, <3>4 DEF Gets
    <3> QED BY <3>3, <3>4, <3>5
  <2> QED BY <2>3, <2>4
<1>3. TypeOK
  BY InvTypeOK
<1> QED BY <1>2, <1>3 DEF ThresholdObeyed

(* The types, the stack of frames, the thresholds and what each call listens to *)
(* are as the event loop (input.c) needs them: the strengthening of the         *)
(* theorem that follows.                                                        *)
THEOREM InvAlways == Spec => []Inv
<1> QED BY InitInv, NextInv, PTL DEF Spec

(* No proc is called whose priority is lower than the threshold of a call it    *)
(* runs in, nor while it is running, except that the bit of the highest         *)
(* threshold is shifted out when an event is found (input.c).                   *)
THEOREM ThresholdObeyedAlways == Spec => []ThresholdObeyed
<1> QED BY InvAlways, InvThreshold, PTL

-----------------------------------------------------------------------------
(* The second invariant: what the two threads know of each other, and what a   *)
(* call knows of the fds and of the queue.                                    *)

Live == Listed(FD) \ doomed
Removing(fd) == top.pc = "reply" /\ top.fd = fd

\* Fds with a bit in ActiveStreams whose procs do not run.
Idle == {x \in Live : x[1] \in active /\ x \notin InUse}

\* The order of the list.
Before(x, y) == \E i, j \in DOMAIN list : i < j /\ list[i] = x /\ list[j] = y

\* What a call is doing while the frame g is above it.
Placed(f) ==
  f.at # NIL => /\ f.pc \in {"fds0", "fds"} => f.at[1] \in FD
                /\ f.pc = "tes" => f.at[1] \in Timer
Linked(f, g) ==
  \/ (g.item = NIL \/ g.item[1] \in Port) /\ f.pc = "recv" /\ ~ f.first
  \/ g.item # NIL /\ g.item[1] \in FD /\ f.pc \in {"fds0", "fds"} /\ f.at = g.item
  \/ g.item # NIL /\ g.item[1] \in Timer /\ f.pc = "tes"
LinkInv ==
  \A k \in DOMAIN stack : IsGet(stack[k]) =>
    Placed(stack[k]) /\ (k < Len(stack) => Linked(stack[k], stack[k + 1]))

\* Who asked the select thread, and whom it answers.
ReplyInv ==
  /\ pipe \subseteq {"simple", "rpc"} /\ reply \in BOOLEAN
  /\ reply \/ "rpc" \in pipe => top.pc = "reply"
  /\ ~ (reply /\ "rpc" \in pipe)

\* Where the bit of an fd is.
FdInv ==
  /\ \A x, y \in Listed(FD) : Before(x, y) /\ x[1] = y[1] => y \in doomed
  /\ waiting \cap active = {}
  /\ \A fd \in waiting \cup active : ~ Removing(fd) /\ \E x \in Live : x[1] = fd
  /\ \A x \in Live : \/ x[1] \in active \/ Removing(x[1])
                     \/ x[1] \in waiting /\ x \notin InUse
  /\ sel.pc \in {"select", "drain", "apply"} => sel.mask \cap active = {}
  /\ sel.pc \in {"select", "drain"} =>
       \A fd \in sel.mask : fd \in waiting \/ (Removing(fd) /\ ~ reply)

\* The bits stand for data.
DataInv ==
  /\ \A x \in Idle : x[1] \in data \/ x \in late
  /\ sel.pc \in {"drain", "apply"} =>
       \A x \in Live : x[1] \in sel.mask \cap waiting => x[1] \in data \/ x \in late

\* A call will still look at an fd, or will be told to.
Looks(f, x) ==
  \/ f.pc \in {"after", "tes", "return"}
  \/ f.pc = "recv" /\ ~ f.first
  \/ f.pc \in {"fds0", "fds"} /\ (f.at = x \/ Before(f.at, x))
Told(f, x) == sel.pc = "send" \/ selMsg \/ f.swallowed \/ f.hiked \/ Looks(f, x)
Own(f) == f.prev \cup {f.get.arg}

\* The threshold while the call at k is the innermost one.
ThrAt(k) == IF k + 2 <= Len(stack) THEN stack[k + 2].prev ELSE thr

ToldInv ==
  /\ selMsg \in BOOLEAN
  /\ sel.pc = "select" /\ ~ (waiting \subseteq sel.mask) => pipe # {}
  /\ \A k \in DOMAIN stack : IsGet(stack[k]) /\ ~ stack[k].hiked => ThrAt(k) = Own(stack[k])
  /\ \A k \in DOMAIN stack, x \in Idle :
       IsGet(stack[k]) /\ Above(x, Own(stack[k])) => Told(stack[k], x)

\* A call knows the event it asked for.
Knows(f, q, last) ==
  \/ f.called \/ f.meddled
  \/ last = NIL /\ \A i \in DOMAIN q : ~ IsIn(f.get, q[i])
  \/ \E i \in DOMAIN q : q[i].addr = last /\ IsIn(f.get, q[i])

NoticeAt(k) ==
  IF IsGet(stack[k])
  THEN /\ Fresh(stack[k]) => mainCtx = stack[k].get.ctxs
       /\ stack[k].pc \in {"recv", "return"} => ~ stack[k].called
       /\ k = Len(stack) => Knows(stack[k], queue, lastEvent)
  ELSE stack[k].event # NIL =>
         /\ stack[k].event.ctxt \in stack[k - 1].get.ctxs
         /\ \/ stack[k - 1].meddled
            \/ k = Len(stack) /\ Knows(stack[k - 1], queue, lastEvent)
NoticeInv == \A k \in DOMAIN stack : NoticeAt(k)

Inv2 == LinkInv /\ ReplyInv /\ FdInv /\ DataInv /\ ToldInv /\ NoticeInv

-----------------------------------------------------------------------------
(* Frames that are the same up to marks.                                     *)

Same(f, g) ==
  /\ Ages(f, g) /\ g.pc = f.pc /\ (~ IsGet(f) => g.fd = f.fd)
  /\ IsGet(f) => /\ g.at = f.at /\ g.called = f.called /\ g.hiked = f.hiked
                 /\ f.swallowed => g.swallowed
                 /\ f.meddled => g.meddled
                 /\ ~ f.first => ~ g.first

\* s is the lowest m frames up to marks.
Marked(s, m) == Aged(s, m) /\ \A i \in 1 .. m : Same(stack[i], s[i])

LEMMA SameSelf == ASSUME NEW f PROVE Same(f, f)
  BY AgesSelf DEF Same

LEMMA MarksSame ==
  ASSUME NEW f \in GetFrame
  PROVE  /\ Same(f, [f EXCEPT !.stale = TRUE])
         /\ Same(f, [f EXCEPT !.swallowed = TRUE]) /\ [f EXCEPT !.swallowed = TRUE].swallowed
         /\ Same(f, [f EXCEPT !.meddled = TRUE]) /\ [f EXCEPT !.meddled = TRUE].meddled
         /\ Same(f, [f EXCEPT !.first = FALSE])
<1> USE DEF Same, Ages, Stays, Fresh, IsGet, GetFrame
<1>1. Same(f, [f EXCEPT !.stale = TRUE])
  OBVIOUS
<1>2. Same(f, [f EXCEPT !.swallowed = TRUE]) /\ [f EXCEPT !.swallowed = TRUE].swallowed
  OBVIOUS
<1>3. Same(f, [f EXCEPT !.meddled = TRUE]) /\ [f EXCEPT !.meddled = TRUE].meddled
  OBVIOUS
<1>4. Same(f, [f EXCEPT !.first = FALSE])
  OBVIOUS
<1> QED BY <1>1, <1>2, <1>3, <1>4

LEMMA SameTwice ==
  ASSUME NEW f, NEW g, NEW h, Same(f, g), Same(g, h)
  PROVE  Same(f, h)
<1>1. Ages(f, h)
  BY AgesTwice DEF Same
<1>2. IsGet(f) <=> IsGet(g)
  BY DEF Same, Ages, Stays, IsGet
<1> QED BY <1>1, <1>2 DEF Same

LEMMA MarkedOuter ==
  ASSUME StackInv, NEW k \in {1, 2}, k <= Len(stack)
  PROVE  /\ Marked(Outer(k), Len(stack) - k)
         /\ \A i \in 1 .. Len(stack) - k : Outer(k)[i] = stack[i]
<1>1. Len(stack) \in Nat \ {0} /\ stack \in Seq(Frame)
  BY StackIs DEF StackInv
<1>2. \A i \in 1 .. Len(stack) - k : Outer(k)[i] = stack[i]
  BY <1>1, SubSeqProperties DEF Outer
<1> QED BY <1>2, AgedOuter, SameSelf DEF Marked

LEMMA MarkedStack ==
  ASSUME StackInv
  PROVE  Marked(stack, Len(stack))
  BY AgedStack, SameSelf DEF Marked

\* What Aged and its like say of the kinds of the frames.
LEMMA MarkedIs ==
  ASSUME NEW m \in Nat, NEW s, Marked(s, m), NEW i \in 1 .. m
  PROVE  /\ s[i] \in Frame /\ (IsGet(s[i]) <=> IsGet(stack[i]))
         /\ IsGet(s[i]) => s[i] \in GetFrame
         /\ Same(stack[i], s[i])
<1>1. s[i] \in Frame
  BY ElementOfSeq DEF Marked, Aged
<1>2. Same(stack[i], s[i])
  BY DEF Marked
<1>3. IsGet(s[i]) <=> IsGet(stack[i])
  BY <1>2 DEF Same, Ages, Stays, IsGet
<1> QED BY <1>1, <1>2, <1>3, FrameIs

LEMMA MarkedStale ==
  ASSUME StackInv, NEW m \in Nat, NEW s, Marked(s, m)
  PROVE  /\ Marked(AllStale(s), m)
         /\ \A i \in 1 .. m : /\ ~ Fresh(AllStale(s)[i])
                              /\ IsGet(s[i]) => AllStale(s)[i].meddled = s[i].meddled
<1> DEFINE f(i) == IF IsGet(s[i]) THEN [s[i] EXCEPT !.stale = TRUE] ELSE s[i]
<1>1. AllStale(s) = [i \in 1 .. m |-> f(i)]
  BY LenProperties DEF AllStale, OfCalls, Marked, Aged
<1>2. ASSUME NEW i \in 1 .. m
      PROVE  Same(stack[i], f(i)) /\ (IsGet(s[i]) => f(i).meddled = s[i].meddled)
  <2>1. Same(stack[i], s[i]) /\ (IsGet(s[i]) => s[i] \in GetFrame)
    BY MarkedIs
  <2>2. CASE IsGet(s[i])
    <3>1. Same(s[i], [s[i] EXCEPT !.stale = TRUE])
      BY <2>1, <2>2, MarksSame
    <3>2. [s[i] EXCEPT !.stale = TRUE].meddled = s[i].meddled
      BY <2>1, <2>2 DEF GetFrame
    <3> QED BY <2>1, <2>2, <3>1, <3>2, SameTwice
  <2>3. CASE ~ IsGet(s[i])
    BY <2>1, <2>3
  <2> QED BY <2>2, <2>3
<1> HIDE DEF f
<1>3. Aged(AllStale(s), m) /\ \A i \in 1 .. m : ~ Fresh(AllStale(s)[i])
  BY AgedStale DEF Marked
<1>4. \A i \in 1 .. m : AllStale(s)[i] = f(i)
  BY <1>1
<1> QED BY <1>2, <1>3, <1>4 DEF Marked

LEMMA MarkedSwallowed ==
  ASSUME StackInv, NEW m \in Nat, NEW s, Marked(s, m), NEW t,
         t = OfCalls(s, LAMBDA g : [g EXCEPT !.swallowed = TRUE])
  PROVE  Marked(t, m) /\ \A i \in 1 .. m : IsGet(t[i]) => t[i].swallowed
<1> DEFINE f(i) == IF IsGet(s[i]) THEN [s[i] EXCEPT !.swallowed = TRUE] ELSE s[i]
<1>1. t = [i \in 1 .. m |-> f(i)]
  BY LenProperties DEF OfCalls, Marked, Aged
<1>2. ASSUME NEW i \in 1 .. m
      PROVE  Same(stack[i], f(i)) /\ (IsGet(f(i)) => f(i).swallowed)
  <2>1. Same(stack[i], s[i]) /\ (IsGet(s[i]) => s[i] \in GetFrame)
    BY MarkedIs
  <2>2. CASE IsGet(s[i])
    <3>1. /\ Same(s[i], [s[i] EXCEPT !.swallowed = TRUE])
          /\ [s[i] EXCEPT !.swallowed = TRUE].swallowed
      BY <2>1, <2>2, MarksSame
    <3> QED BY <2>1, <2>2, <3>1, SameTwice
  <2>3. CASE ~ IsGet(s[i])
    BY <2>1, <2>3
  <2> QED BY <2>2, <2>3
<1> HIDE DEF f
<1>3. Aged(t, m)
  BY AgedSwallowed DEF Marked
<1>4. \A i \in 1 .. m : t[i] = f(i)
  BY <1>1
<1> QED BY <1>2, <1>3, <1>4 DEF Marked

LEMMA MarkedMeddled ==
  ASSUME StackInv
  PROVE  /\ Marked(Meddled(stack), Len(stack))
         /\ ~ IsGet(top) /\ top.event # NIL => Meddled(stack)[Len(stack) - 1].meddled
         /\ Meddled(stack)[Len(stack)] = top
<1> DEFINE n == Len(stack)
<1>1. n \in Nat \ {0} /\ stack \in Seq(Frame) /\ DOMAIN stack = 1 .. n /\ top = stack[n]
  BY StackIs DEF StackInv
<1>2. Aged(Meddled(stack), n)
  BY AgedMeddled
<1>3. CASE ~ (stack[n].kind = "prog" /\ stack[n].event # NIL)
  <2>1. Meddled(stack) = stack
    BY <1>3 DEF Meddled
  <2>2. IsGet(top) \/ top.event = NIL
    BY <1>1, <1>3, TopIs
  <2> QED BY <1>1, <2>1, <2>2, MarkedStack
<1>4. CASE stack[n].kind = "prog" /\ stack[n].event # NIL
  <2> DEFINE g == [stack[n - 1] EXCEPT !.meddled = TRUE]
  <2>1. ~ IsGet(top)
    BY <1>1, <1>4 DEF IsGet
  <2>2. IsGet(stack[n - 1]) /\ stack[n - 1] \in GetFrame /\ n >= 3
    BY <1>1, <1>4, <2>1, BelowIs
  <2>3. n - 1 \in 1 .. n /\ n - 1 # n
    <3>1. \A k \in Nat : k >= 3 => k - 1 \in 1 .. k /\ k - 1 # k
      OBVIOUS
    <3> QED BY <1>1, <2>2, <3>1
  <2>4. Same(stack[n - 1], g) /\ g.meddled
    BY <2>2, MarksSame
  <2>5. Meddled(stack) = [stack EXCEPT ![n - 1] = g]
    BY <1>4 DEF Meddled
  <2> HIDE DEF g
  <2>6. \A i \in 1 .. n : Meddled(stack)[i] = IF i = n - 1 THEN g ELSE stack[i]
    BY <1>1, <2>5
  <2>7. \A i \in 1 .. n : Same(stack[i], Meddled(stack)[i])
    BY <2>4, <2>6, SameSelf
  <2>8. n \in 1 .. n
    BY <1>1
  <2> QED BY <1>1, <1>2, <2>3, <2>4, <2>6, <2>7, <2>8 DEF Marked
<1> QED BY <1>3, <1>4

LEMMA MarkedTop ==
  ASSUME StackInv, NEW g \in Frame, Same(top, g)
  PROVE  Marked(WithTop(g), Len(stack)) /\ WithTop(g)[Len(stack)] = g
<1>1. Len(stack) \in Nat \ {0} /\ stack \in Seq(Frame) /\ top = stack[Len(stack)]
  BY StackIs DEF StackInv
<1>2. /\ WithTop(g) \in Seq(Frame) /\ Len(WithTop(g)) = Len(stack)
      /\ \A i \in 1 .. Len(stack) : WithTop(g)[i] = IF i = Len(stack) THEN g ELSE stack[i]
  BY <1>1, ExceptSeq DEF WithTop
<1>3. \A i \in 1 .. Len(stack) : Same(stack[i], WithTop(g)[i])
  BY <1>1, <1>2, SameSelf
<1>4. Len(stack) <= Len(stack) /\ Len(stack) \in 1 .. Len(stack)
  BY <1>1
<1> QED BY <1>2, <1>3, <1>4 DEF Marked, Aged, Same
-----------------------------------------------------------------------------
(* What a step does to the stack: m frames, all but the last the same.        *)

Shape(m) == Becomes(m) /\ \A i \in 1 .. m - 1 : Same(stack[i], stack'[i])

LEMMA ShapeAppend ==
  ASSUME StackInv, NEW m \in Nat, NEW s, Marked(s, m), NEW g \in Frame,
         m < Len(stack) => Stays(stack[m + 1], g),
         stack' = Append(s, g)
  PROVE  /\ Shape(m + 1) /\ stack'[m + 1] = g /\ top' = g
         /\ \A i \in 1 .. m : stack'[i] = s[i]
<1>1. Aged(s, m) /\ (m < Len(stack) => Stays(stack[m + 1], g)) /\ stack' = Append(s, g)
  BY DEF Marked
<1>2. /\ Becomes(m + 1) /\ stack'[m + 1] = g /\ top' = g
      /\ \A i \in 1 .. m : stack'[i] = s[i]
  BY ONLY StackInv, m \in Nat, g \in Frame, <1>1, AppendBecomes
<1>3. (m + 1) - 1 = m
  OBVIOUS
<1> QED BY <1>2, <1>3 DEF Shape, Marked

LEMMA ShapePops ==
  ASSUME StackInv, NEW m \in Nat \ {0}, Marked(stack', m)
  PROVE  Shape(m) /\ top' = stack'[m] /\ Same(stack[m], top')
<1>1. Becomes(m) /\ top' = stack'[m]
  BY AgedBecomes DEF Marked
<1>2. m \in 1 .. m /\ \A i \in 1 .. m - 1 : i \in 1 .. m
  OBVIOUS
<1> QED BY <1>1, <1>2 DEF Shape, Marked

LEMMA ShapeTop ==
  ASSUME StackInv, NEW g \in Frame, Ages(top, g), stack' = WithTop(g)
  PROVE  /\ Shape(Len(stack)) /\ top' = g
         /\ \A i \in 1 .. Len(stack) - 1 : stack'[i] = stack[i]
<1>1. /\ Becomes(Len(stack)) /\ top' = g
      /\ \A i \in 1 .. Len(stack) - 1 : stack'[i] = stack[i]
  BY TopBecomes
<1> QED BY <1>1, SameSelf DEF Shape

LEMMA SameStack ==
  ASSUME StackInv, UNCHANGED stack
  PROVE  Shape(Len(stack)) /\ top' = top /\ InUse' = InUse
<1>1. Marked(stack', Len(stack)) /\ Len(stack) \in Nat \ {0}
  BY MarkedStack, StackIs
<1> QED BY <1>1, ShapePops DEF top, InUse, Gets

LEMMA ShapeIs ==
  ASSUME StackInv, NEW m, Shape(m)
  PROVE  /\ m \in Nat \ {0} /\ m \in 1 .. Len(stack) + 1 /\ m \in 1 .. m
         /\ Len(stack') = m /\ DOMAIN stack' = 1 .. m /\ top' = stack'[m]
         /\ Len(stack) \in Nat \ {0} /\ top = stack[Len(stack)]
         /\ \A i \in 1 .. m - 1 :
              /\ i \in 1 .. Len(stack) /\ i + 1 \in 1 .. m /\ Same(stack[i], stack'[i])
         /\ \A i \in 1 .. m : i <= Len(stack) =>
              /\ Stays(stack[i], stack'[i])
              /\ IsGet(stack'[i]) <=> IsGet(stack[i])
              /\ ~ IsGet(stack[i]) => stack'[i].item = stack[i].item /\ stack'[i].event = stack[i].event
              /\ IsGet(stack[i]) => stack'[i].get = stack[i].get /\ stack'[i].prev = stack[i].prev
<1>1. /\ Len(stack) \in Nat \ {0} /\ m \in 1 .. Len(stack) + 1 /\ top = stack[Len(stack)]
      /\ stack' \in Seq(Frame) /\ Len(stack') = m
  BY StackIs DEF Shape, Becomes
<1>2. DOMAIN stack' = 1 .. m /\ top' = stack'[m] /\ m \in Nat \ {0} /\ m \in 1 .. m
  BY <1>1, LenProperties DEF top
<1>3. \A i \in 1 .. m - 1 : i \in 1 .. Len(stack) /\ i + 1 \in 1 .. m
  BY <1>1
<1>4. ASSUME NEW i \in 1 .. m, i <= Len(stack)
      PROVE  /\ Stays(stack[i], stack'[i])
             /\ IsGet(stack'[i]) <=> IsGet(stack[i])
             /\ ~ IsGet(stack[i]) => stack'[i].item = stack[i].item /\ stack'[i].event = stack[i].event
             /\ IsGet(stack[i]) => stack'[i].get = stack[i].get /\ stack'[i].prev = stack[i].prev
  <2>1. Stays(stack[i], stack'[i])
    BY <1>4 DEF Shape, Becomes
  <2> QED BY <2>1 DEF Stays, IsGet
<1> QED BY <1>1, <1>2, <1>3, <1>4 DEF Shape

-----------------------------------------------------------------------------
(* The parts of the second invariant, for each kind of step.                 *)

\* Calls and what they do while something runs above them.
LEMMA LinkNext ==
  ASSUME StackInv, LinkInv, NEW m, Shape(m), IsGet(top') => Placed(top'),
         m = Len(stack) + 1 /\ IsGet(top) => Linked(stack'[Len(stack)], top')
  PROVE  LinkInv'
<1>1. DOMAIN stack' = 1 .. m /\ Len(stack') = m /\ m \in Nat \ {0} /\ top' = stack'[m]
      /\ top = stack[Len(stack)] /\ Len(stack) \in Nat \ {0} /\ m \in 1 .. Len(stack) + 1
  BY ShapeIs
<1> SUFFICES ASSUME NEW k \in 1 .. m, IsGet(stack'[k])
             PROVE  /\ Placed(stack'[k])
                    /\ k < m => Linked(stack'[k], stack'[k + 1])
  BY <1>1 DEF LinkInv
<1>2. CASE k = m
  BY <1>1, <1>2
<1>3. CASE k < m
  <2>1. k \in 1 .. m - 1
    BY <1>1, <1>3
  <2>2. k \in 1 .. Len(stack) /\ k + 1 \in 1 .. m /\ Same(stack[k], stack'[k]) /\ k <= Len(stack)
    BY <1>1, <2>1, ShapeIs
  <2>3. IsGet(stack[k])
    BY <2>2 DEF Same, Ages, Stays, IsGet
  <2>4. Placed(stack[k]) /\ (k < Len(stack) => Linked(stack[k], stack[k + 1]))
    BY <2>2, <2>3, StackIs DEF LinkInv
  <2>5. /\ stack'[k].at = stack[k].at /\ stack'[k].pc = stack[k].pc
        /\ ~ stack[k].first => ~ stack'[k].first
    BY <2>2, <2>3 DEF Same
  <2>6. Placed(stack'[k])
    BY <2>4, <2>5 DEF Placed
  <2>7. CASE k < Len(stack)
    <3>1. k + 1 <= Len(stack) /\ k \in 1 .. Len(stack) - 1
      BY <1>1, <2>2, <2>7
    <3>2. ~ IsGet(stack[k + 1])
      BY <2>3, <3>1 DEF StackInv
    <3>3. stack'[k + 1].item = stack[k + 1].item
      BY <2>2, <3>1, <3>2, ShapeIs
    <3>4. Linked(stack[k], stack[k + 1])
      BY <2>4, <2>7
    <3> QED BY <2>5, <2>6, <3>3, <3>4 DEF Linked
  <2>8. CASE k = Len(stack)
    <3>1. m = Len(stack) + 1 /\ m = k + 1
      BY <1>1, <1>3, <2>8
    <3> QED BY <1>1, <2>3, <2>6, <2>8, <3>1
  <2> QED BY <1>1, <2>2, <2>7, <2>8
<1> QED BY <1>1, <1>2, <1>3

LEMMA BeforeStays ==
  ASSUME UNCHANGED list, NEW x, NEW y
  PROVE  Before(x, y)' <=> Before(x, y)
  BY DEF Before

\* Steps that leave the procs and the select thread alone.
LEMMA LoopStill ==
  ASSUME ReplyInv, FdInv, DataInv,
         UNCHANGED <<list, doomed, waiting, active, pipe, reply, sel, data, late>>,
         top.pc # "reply", top'.pc # "reply",
         InUse \subseteq InUse', \A x \in InUse' : x \in InUse \/ x[1] \notin waiting
  PROVE  /\ ReplyInv' /\ FdInv' /\ DataInv'
         /\ Live' = Live /\ Idle' \subseteq Idle /\ Listed(FD)' = Listed(FD)
<1>1. Live' = Live /\ Listed(FD)' = Listed(FD)
  BY DEF Live, Listed
<1>2. Idle' \subseteq Idle
  BY <1>1 DEF Idle
<1>3. ReplyInv'
  BY DEF ReplyInv
<1>4. \A fd : ~ Removing(fd) /\ ~ Removing(fd)'
  BY DEF Removing
<1>5. FdInv'
  <2>1. \A x, y \in Listed(FD)' : Before(x, y)' /\ x[1] = y[1] => y \in doomed'
    BY <1>1, BeforeStays DEF FdInv
  <2>2. \A fd \in waiting' \cup active' : ~ Removing(fd)' /\ \E x \in Live' : x[1] = fd
    BY <1>1, <1>4 DEF FdInv
  <2>3. \A x \in Live' : \/ x[1] \in active' \/ Removing(x[1])'
                         \/ x[1] \in waiting' /\ x \notin InUse'
    <3> SUFFICES ASSUME NEW x \in Live PROVE x[1] \in active \/ (x[1] \in waiting /\ x \notin InUse')
      BY <1>1
    <3>1. x[1] \in active \/ (x[1] \in waiting /\ x \notin InUse)
      BY <1>4 DEF FdInv
    <3> QED BY <3>1
  <2>4. waiting' \cap active' = {}
    BY DEF FdInv
  <2>5. sel'.pc \in {"select", "drain", "apply"} => sel'.mask \cap active' = {}
    BY DEF FdInv
  <2>6. sel'.pc \in {"select", "drain"} =>
          \A fd \in sel'.mask : fd \in waiting' \/ (Removing(fd)' /\ ~ reply')
    BY <1>4 DEF FdInv
  <2> QED BY <2>1, <2>2, <2>3, <2>4, <2>5, <2>6 DEF FdInv
<1>6. DataInv'
  BY <1>1, <1>2 DEF DataInv
<1> QED BY <1>1, <1>2, <1>3, <1>5, <1>6
\* The thresholds of the calls.
LEMMA ThrNext ==
  ASSUME StackInv, StackInv', ToldInv, NEW m, Shape(m),
         m = Len(stack) + 1 /\ IsGet(top') => top'.prev = thr,
         ~ IsGet(top') /\ m > 1 => thr' = ThrAt(m - 1),
         IsGet(top') /\ ~ top'.hiked => thr' = Own(top')
  PROVE  \A k \in DOMAIN stack' : IsGet(stack'[k]) /\ ~ stack'[k].hiked => ThrAt(k)' = Own(stack'[k])
<1>1. DOMAIN stack' = 1 .. m /\ Len(stack') = m /\ m \in Nat \ {0} /\ top' = stack'[m]
      /\ Len(stack) \in Nat \ {0} /\ m \in 1 .. Len(stack) + 1
  BY ShapeIs
<1> SUFFICES ASSUME NEW k \in 1 .. m, IsGet(stack'[k]), ~ stack'[k].hiked
             PROVE  (IF k + 2 <= m THEN stack'[k + 2].prev ELSE thr') = Own(stack'[k])
  BY <1>1 DEF ThrAt
<1>2. CASE k = m
  <2>1. ~ (k + 2 <= m)
    BY <1>1, <1>2
  <2> QED BY <1>1, <1>2, <2>1
<1>3. CASE k < m
  <2>1. k \in 1 .. m - 1
    BY <1>1, <1>3
  <2>2. k \in 1 .. Len(stack) /\ k + 1 \in 1 .. m /\ Same(stack[k], stack'[k]) /\ k <= Len(stack)
    BY <1>1, <2>1, ShapeIs
  <2>3. IsGet(stack[k]) /\ ~ stack[k].hiked /\ Own(stack'[k]) = Own(stack[k])
    BY <2>2 DEF Same, Ages, Stays, IsGet, Own
  <2>4. ThrAt(k) = Own(stack'[k])
    BY <2>2, <2>3, StackIs DEF ToldInv
  <2>5. CASE k = m - 1
    <3>1. k + 1 = m /\ ~ (k + 2 <= m) /\ m > 1
      BY <1>1, <2>1, <2>5
    <3>2. ~ IsGet(stack'[m])
      <4>1. k \in 1 .. Len(stack') - 1
        BY <1>1, <2>1
      <4> QED BY <3>1, <4>1 DEF StackInv
    <3> QED BY <1>1, <2>4, <2>5, <3>1, <3>2
  <2>6. CASE k # m - 1
    <3>1. k + 2 <= m /\ k + 2 \in 1 .. m /\ k \in 1 .. m - 1 /\ k + 1 \in 1 .. m - 1 /\ (k + 1) + 1 = k + 2
      BY <1>1, <2>1, <2>6
    <3>2. IsGet(stack'[k + 2])
      BY <1>1, <3>1 DEF StackInv
    <3>3. CASE k + 2 <= Len(stack)
      <4>1. stack'[k + 2].prev = stack[k + 2].prev
        BY <3>1, <3>2, <3>3, ShapeIs
      <4> QED BY <2>4, <3>1, <3>3, <4>1 DEF ThrAt
    <3>4. CASE ~ (k + 2 <= Len(stack))
      <4>1. m = Len(stack) + 1 /\ k + 2 = m
        BY <1>1, <3>1, <3>4
      <4> QED BY <1>1, <2>4, <3>1, <3>2, <3>4, <4>1 DEF ThrAt
    <3> QED BY <3>3, <3>4
  <2> QED BY <2>5, <2>6
<1> QED BY <1>1, <1>2, <1>3

\* What the calls are told, when no fd becomes ready.
LEMMA ToldNext ==
  ASSUME StackInv, StackInv', ToldInv, LinkInv', NEW m, Shape(m),
         Idle' \subseteq Idle,
         \A y \in InUse', x \in Idle' : Before(y, x) => Before(y, x)',
         \/ (sel.pc = "send" => sel'.pc = "send") /\ selMsg' = selMsg
         \/ sel'.pc = sel.pc /\ \A k \in 1 .. m - 1 : IsGet(stack'[k]) => stack'[k].swallowed
         \/ selMsg' \/ sel'.pc = "send",
         IsGet(top') => \A x \in Idle' : Above(x, Own(top')) => Told(top, x)'
  PROVE  \A k \in DOMAIN stack', x \in Idle' :
           IsGet(stack'[k]) /\ Above(x, Own(stack'[k])) => Told(stack[k], x)'
<1>1. DOMAIN stack' = 1 .. m /\ Len(stack') = m /\ m \in Nat \ {0} /\ top' = stack'[m]
      /\ Len(stack) \in Nat \ {0} /\ m \in 1 .. Len(stack) + 1
  BY ShapeIs
<1> SUFFICES ASSUME NEW k \in 1 .. m, NEW x \in Idle', IsGet(stack'[k]), Above(x, Own(stack'[k]))
             PROVE  Told(stack[k], x)'
  BY <1>1
<1>2. CASE k = m
  BY <1>1, <1>2
<1>3. CASE k < m
  <2>1. k \in 1 .. m - 1
    BY <1>1, <1>3
  <2>2. k \in 1 .. Len(stack) /\ k + 1 \in 1 .. m /\ Same(stack[k], stack'[k]) /\ k <= Len(stack)
    BY <1>1, <2>1, ShapeIs
  <2>3. /\ IsGet(stack[k]) /\ Own(stack'[k]) = Own(stack[k])
        /\ stack'[k].pc = stack[k].pc /\ stack'[k].at = stack[k].at
        /\ stack[k].swallowed => stack'[k].swallowed
        /\ stack[k].hiked => stack'[k].hiked
        /\ ~ stack[k].first => ~ stack'[k].first
    BY <2>2 DEF Same, Ages, Stays, IsGet, Own
  <2>4. Told(stack[k], x)
    BY <2>2, <2>3, StackIs DEF ToldInv
  <2>5. CASE Looks(stack[k], x)
    <3>1. CASE stack[k].pc \in {"fds0", "fds"}
      <4>1. stack[k].at = x \/ Before(stack[k].at, x)
        BY <2>5, <3>1 DEF Looks
      <4>2. Linked(stack'[k], stack'[k + 1])
        BY <1>1, <1>3 DEF LinkInv
      <4>3. stack'[k + 1].item # NIL /\ stack'[k].at = stack'[k + 1].item
        BY <2>3, <3>1, <4>2 DEF Linked
      <4>4. ~ IsGet(stack'[k + 1])
        BY <1>1, <2>1 DEF StackInv
      <4>5. stack'[k + 1].item \in InUse'
        <5>1. stack' \in Seq(Frame)
          BY DEF StackInv
        <5> QED BY <1>1, <2>2, <4>3, <4>4, <5>1, InUseNext
      <4>6. stack[k].at = x \/ Before(stack[k].at, x)'
        BY <2>3, <4>1, <4>3, <4>5
      <4> QED BY <2>3, <3>1, <4>6 DEF Told, Looks
    <3>2. CASE stack[k].pc \notin {"fds0", "fds"}
      BY <2>3, <2>5, <3>2 DEF Told, Looks
    <3> QED BY <3>1, <3>2
  <2>6. CASE ~ Looks(stack[k], x)
    BY <2>1, <2>3, <2>4, <2>6 DEF Told
  <2> QED BY <2>5, <2>6
<1> QED BY <1>1, <1>2, <1>3

-----------------------------------------------------------------------------
(* Events that calls know.                                                  *)

LEMMA KnowsStays ==
  ASSUME NEW f, NEW g, Same(f, g), IsGet(f), Knows(f, queue, lastEvent), UNCHANGED <<queue, lastEvent>>
  PROVE  Knows(g, queue', lastEvent')
  BY DEF Knows, Same, Ages, Stays

\* The event looked for is the first that was asked for.
LEMMA MatchingKnows ==
  ASSUME EventInv, NEW f, lastEvent' = Matching(queue, f.get), UNCHANGED queue
  PROVE  Knows(f, queue', lastEvent')
<1> DEFINE hits == {i \in DOMAIN queue : IsIn(f.get, queue[i])}
<1>1. hits \subseteq Nat
  BY QueueIs
<1>2. CASE hits = {}
  BY <1>2 DEF Matching, Knows
<1>3. CASE hits # {}
  <2>1. PICK n \in hits : \A m \in hits : ~ (m < n)
    BY <1>1, <1>3, Least
  <2>2. \A m \in hits : n <= m
    BY <1>1, <2>1
  <2>3. PICK i \in hits : Matching(queue, f.get) = queue[i].addr
    BY <1>3, <2>2 DEF Matching
  <2> QED BY <2>3 DEF Knows
<1> QED BY <1>2, <1>3

\* An event queued for a call that asked for its context.
LEMMA QueuedKnows ==
  ASSUME EventInv, NEW e \in Event, NEW f, Knows(f, queue, lastEvent), e.ctxt \in f.get.ctxs, QueueEvent(e, f.get)
  PROVE  Knows(f, queue', lastEvent')
<1> DEFINE n == Len(queue)
<1>1. PICK addr \in IF Coalesces(e) THEN {queue[n].addr} ELSE Address \ Used :
        /\ queue' = Queued(e, addr)
        /\ lastEvent' = IF e.type \in f.get.mask /\ lastEvent = NIL THEN addr ELSE lastEvent
  BY DEF QueueEvent
<1>2. queue \in Seq(QEntry) /\ n \in Nat /\ DOMAIN queue = 1 .. n
      /\ \A i \in 1 .. n : queue[i] \in QEntry /\ queue[i].addr # NIL
  <2>1. \A i \in 1 .. n : queue[i].addr # NIL
    BY QueueIs DEF QEntry, Address
  <2> QED BY <2>1, QueueIs
<1> SUFFICES ASSUME ~ f.called, ~ f.meddled PROVE Knows(f, queue', lastEvent')
  BY DEF Knows
\* Where the event is after the step, and the others.
<1>3. PICK l \in Nat \ {0} :
        /\ DOMAIN queue' = 1 .. (IF l <= n THEN n ELSE l) /\ l <= n + 1
        /\ queue'[l].ctxt = e.ctxt /\ queue'[l].type = e.type /\ queue'[l].addr = addr
        /\ \A i \in 1 .. n : i # l => queue'[i] = queue[i]
        /\ l <= n => queue[l].addr = addr /\ queue[l].type = e.type
  <2>1. CASE Coalesces(e)
    <3> DEFINE new == [queue[n] EXCEPT !.ctxt = e.ctxt]
    <3>1. n # 0 /\ queue[n].type = e.type /\ n \in 1 .. n
      BY <1>2, <2>1, EmptySeq DEF Coalesces
    <3>2. queue[n] \in QEntry /\ addr = queue[n].addr
      BY <1>1, <1>2, <2>1, <3>1
    <3>3. new.ctxt = e.ctxt /\ new.type = e.type /\ new.addr = addr /\ new \in QEntry
      BY <3>1, <3>2 DEF QEntry, Event
    <3>4. queue' = [queue EXCEPT ![n] = new]
      BY <1>1, <2>1 DEF Queued
    <3> HIDE DEF new
    <3>5. DOMAIN queue' = 1 .. n /\ \A i \in 1 .. n : queue'[i] = IF i = n THEN new ELSE queue[i]
      BY <1>2, <3>4
    <3>6. n \in Nat \ {0} /\ n <= n /\ n <= n + 1
      BY <1>2, <3>1
    <3>7. /\ DOMAIN queue' = 1 .. (IF n <= n THEN n ELSE n) /\ n <= n + 1
          /\ queue'[n].ctxt = e.ctxt /\ queue'[n].type = e.type /\ queue'[n].addr = addr
          /\ \A i \in 1 .. n : i # n => queue'[i] = queue[i]
          /\ queue[n].addr = addr /\ queue[n].type = e.type
      BY <3>1, <3>2, <3>3, <3>5
    <3> QED BY <3>6, <3>7
  <2>2. CASE ~ Coalesces(e)
    <3> DEFINE new == [addr |-> addr, ctxt |-> e.ctxt, type |-> e.type]
    <3>1. new.ctxt = e.ctxt /\ new.type = e.type /\ new.addr = addr /\ new \in QEntry
      BY <1>1, <2>2 DEF QEntry, Event
    <3>2. queue' = Append(queue, new)
      BY <1>1, <2>2 DEF Queued
    <3> HIDE DEF new
    <3>3. /\ Len(queue') = n + 1 /\ queue'[n + 1] = new /\ queue' \in Seq(QEntry)
          /\ \A i \in 1 .. n : queue'[i] = queue[i]
      BY <1>2, <3>1, <3>2, AppendProperties
    <3>4. n + 1 \in Nat \ {0} /\ ~ (n + 1 <= n) /\ n + 1 <= n + 1
      BY <1>2
    <3>5. DOMAIN queue' = 1 .. n + 1
      BY <3>3, LenProperties
    <3> QED BY <3>1, <3>3, <3>4, <3>5
  <2> QED BY <2>1, <2>2
<1>4. l \in DOMAIN queue' /\ \A i \in 1 .. n : i \in DOMAIN queue'
  <2>1. \A i \in 1 .. n : i \in 1 .. (IF l <= n THEN n ELSE l)
    BY <1>2
  <2>2. l \in 1 .. (IF l <= n THEN n ELSE l)
    BY <1>2
  <2> QED BY <1>3, <2>1, <2>2
<1>5. ASSUME NEW i \in DOMAIN queue', i # l
      PROVE  i \in 1 .. n /\ queue'[i] = queue[i]
  <2>1. i \in 1 .. n
    <3>1. i \in 1 .. (IF l <= n THEN n ELSE l) /\ l <= n + 1
      BY <1>3
    <3> QED BY <1>2, <1>5, <3>1
  <2> QED BY <1>3, <1>5, <2>1
<1>6. IsIn(f.get, queue'[l]) <=> e.type \in f.get.mask
  BY <1>3 DEF IsIn
<1>7. CASE lastEvent = NIL /\ \A i \in DOMAIN queue : ~ IsIn(f.get, queue[i])
  <2>1. CASE e.type \in f.get.mask
    <3>1. lastEvent' = addr /\ IsIn(f.get, queue'[l]) /\ queue'[l].addr = addr
      BY <1>1, <1>3, <1>6, <1>7, <2>1
    <3> QED BY <1>4, <3>1 DEF Knows
  <2>2. CASE e.type \notin f.get.mask
    <3>1. lastEvent' = NIL
      BY <1>1, <1>7, <2>2
    <3>2. \A i \in DOMAIN queue' : ~ IsIn(f.get, queue'[i])
      BY <1>2, <1>5, <1>6, <1>7, <2>2
    <3> QED BY <3>1, <3>2 DEF Knows
  <2> QED BY <2>1, <2>2
<1>8. CASE \E i \in DOMAIN queue : queue[i].addr = lastEvent /\ IsIn(f.get, queue[i])
  <2>1. PICK i \in 1 .. n : queue[i].addr = lastEvent /\ IsIn(f.get, queue[i])
    BY <1>2, <1>8
  <2>2. lastEvent' = lastEvent
    BY <1>1, <1>2, <2>1
  <2>3. CASE i = l
    <3>1. l <= n
      BY <1>2, <2>3
    <3>2. queue'[l].addr = lastEvent /\ e.type \in f.get.mask
      BY <1>3, <2>1, <2>3, <3>1 DEF IsIn
    <3> QED BY <1>4, <1>6, <2>2, <3>2 DEF Knows
  <2>4. CASE i # l
    <3>1. queue'[i] = queue[i] /\ i \in DOMAIN queue'
      BY <1>3, <1>4, <2>4
    <3> QED BY <2>1, <2>2, <3>1 DEF Knows
  <2> QED BY <2>3, <2>4
<1> QED BY <1>7, <1>8 DEF Knows

LEMMA NoticeNext ==
  ASSUME StackInv, StackInv', NoticeInv, NEW m, Shape(m),
         mainCtx' = mainCtx \/ \A i \in 1 .. m - 1 : ~ Fresh(stack'[i]),
         IsGet(top') => /\ Fresh(top') => mainCtx' = top'.get.ctxs
                        /\ top'.pc \in {"recv", "return"} => ~ top'.called
                        /\ Knows(top', queue', lastEvent'),
         m = Len(stack) + 1 /\ IsGet(top) /\ top'.event # NIL =>
           top'.event.ctxt \in top.get.ctxs /\ UNCHANGED <<queue, lastEvent>>,
         m = Len(stack) + 1 /\ ~ IsGet(top) /\ top.event # NIL => stack'[m - 2].meddled,
         m = Len(stack) /\ ~ IsGet(top) /\ top.event # NIL =>
           stack'[m - 1].meddled \/ UNCHANGED <<queue, lastEvent>>
  PROVE  NoticeInv'
<1>1. DOMAIN stack' = 1 .. m /\ Len(stack') = m /\ m \in Nat \ {0} /\ top' = stack'[m]
      /\ Len(stack) \in Nat \ {0} /\ m \in 1 .. Len(stack) + 1 /\ top = stack[Len(stack)]
  BY ShapeIs
<1> SUFFICES ASSUME NEW k \in 1 .. m PROVE NoticeAt(k)'
  BY <1>1 DEF NoticeInv
<1>2. CASE IsGet(stack'[k])
  <2>1. CASE k = m
    <3>1. Knows(stack'[k], queue', lastEvent')
      BY <1>1, <1>2, <2>1
    <3> QED BY <1>1, <1>2, <2>1, <3>1 DEF NoticeAt
  <2>2. CASE k # m
    <3>1. k \in 1 .. m - 1
      BY <1>1, <2>2
    <3>2. k \in 1 .. Len(stack) /\ Same(stack[k], stack'[k])
      BY <3>1, ShapeIs
    <3>3. /\ IsGet(stack[k]) /\ stack'[k].get = stack[k].get /\ stack'[k].pc = stack[k].pc
          /\ stack'[k].called = stack[k].called /\ (Fresh(stack'[k]) => Fresh(stack[k]))
      BY <1>2, <3>2 DEF Same, Ages, Stays, IsGet
    <3>4. NoticeAt(k)
      BY <3>2, StackIs DEF NoticeInv
    <3>5. Fresh(stack'[k]) => mainCtx' = stack'[k].get.ctxs
      BY <3>1, <3>3, <3>4 DEF NoticeAt
    <3>6. stack'[k].pc \in {"recv", "return"} => ~ stack'[k].called
      BY <3>3, <3>4 DEF NoticeAt
    <3> QED BY <1>1, <1>2, <2>2, <3>5, <3>6 DEF NoticeAt
  <2> QED BY <2>1, <2>2
<1>3. CASE ~ IsGet(stack'[k]) /\ stack'[k].event # NIL
  <2>1. k # 1
    BY <1>3 DEF StackInv
  <2>2. k - 1 \in 1 .. m - 1 /\ (k - 1) + 1 = k
    <3>1. \A i \in 1 .. m : i # 1 => i - 1 \in 1 .. m - 1 /\ (i - 1) + 1 = i
      BY <1>1
    <3> QED BY <2>1, <3>1
  <2>3. k - 1 \in 1 .. Len(stack) /\ Same(stack[k - 1], stack'[k - 1])
    BY <2>2, ShapeIs
  <2>4. IsGet(stack'[k - 1])
    <3>1. k - 1 \in 1 .. Len(stack') - 1
      BY <1>1, <2>2
    <3> QED BY <1>3, <2>2, <3>1 DEF StackInv
  <2>5. /\ IsGet(stack[k - 1]) /\ stack'[k - 1].get = stack[k - 1].get
        /\ stack[k - 1].meddled => stack'[k - 1].meddled
    BY <2>3, <2>4 DEF Same, Ages, Stays, IsGet
  <2> SUFFICES /\ stack'[k].event.ctxt \in stack[k - 1].get.ctxs
               /\ stack'[k - 1].meddled \/ (k = m /\ Knows(stack'[k - 1], queue', lastEvent'))
    BY <1>1, <1>3, <2>5 DEF NoticeAt
  <2>6. CASE k <= Len(stack)
    <3>1. ~ IsGet(stack[k]) /\ stack'[k].event = stack[k].event
      BY <1>3, <2>6, ShapeIs
    <3>2. /\ stack[k].event.ctxt \in stack[k - 1].get.ctxs
          /\ stack[k - 1].meddled \/ (k = Len(stack) /\ Knows(stack[k - 1], queue, lastEvent))
      <4>1. NoticeAt(k)
        <5>1. k \in 1 .. Len(stack) /\ DOMAIN stack = 1 .. Len(stack)
          <6>1. k \in 1 .. Len(stack)
            BY <1>1, <2>6
          <6> QED BY <6>1, StackIs
        <5> QED BY <5>1 DEF NoticeInv
      <4> QED BY <1>3, <3>1, <4>1 DEF NoticeAt
    <3>3. CASE stack[k - 1].meddled
      BY <2>5, <3>1, <3>2, <3>3
    <3>4. CASE ~ stack[k - 1].meddled
      <4>1. k = Len(stack) /\ Knows(stack[k - 1], queue, lastEvent)
        BY <3>2, <3>4
      <4>2. CASE m = Len(stack)
        <5>1. stack'[k - 1].meddled \/ UNCHANGED <<queue, lastEvent>>
          BY <1>1, <1>3, <3>1, <4>1, <4>2
        <5>2. UNCHANGED <<queue, lastEvent>> => Knows(stack'[k - 1], queue', lastEvent')
          BY <2>3, <2>5, <4>1, KnowsStays
        <5> QED BY <3>1, <3>2, <4>1, <4>2, <5>1, <5>2
      <4>3. CASE m # Len(stack)
        <5>1. m = Len(stack) + 1 /\ m - 2 = k - 1
          BY <1>1, <4>1, <4>3
        <5>2. stack'[m - 2].meddled
          BY <1>1, <1>3, <3>1, <4>1, <5>1
        <5> QED BY <3>1, <3>2, <5>1, <5>2
      <4> QED BY <4>2, <4>3
    <3> QED BY <3>3, <3>4
  <2>7. CASE ~ (k <= Len(stack))
    <3>1. m = Len(stack) + 1 /\ k = m /\ k - 1 = Len(stack)
      BY <1>1, <2>7
    <3>2. /\ IsGet(top) /\ top = stack[k - 1] /\ top'.event = stack'[k].event
      BY <1>1, <2>5, <3>1
    <3>3. stack'[k].event.ctxt \in stack[k - 1].get.ctxs /\ UNCHANGED <<queue, lastEvent>>
      BY <1>3, <3>1, <3>2
    <3>4. Knows(stack[k - 1], queue, lastEvent)
      <4>1. NoticeAt(Len(stack))
        <5>1. Len(stack) \in DOMAIN stack
          BY StackIs
        <5> QED BY <5>1 DEF NoticeInv
      <4> QED BY <1>1, <3>1, <3>2, <4>1 DEF NoticeAt
    <3>5. Knows(stack'[k - 1], queue', lastEvent')
      BY <2>3, <2>5, <3>3, <3>4, KnowsStays
    <3> QED BY <3>1, <3>3, <3>5
  <2> QED BY <2>6, <2>7
<1> QED BY <1>2, <1>3 DEF NoticeAt
-----------------------------------------------------------------------------
(* The order of the list.                                                   *)

LEMMA BeforeIs ==
  ASSUME ListInv, NEW x, NEW y
  PROVE  /\ Before(x, y) => x \in Range(list) /\ y \in Range(list) /\ x # y
         /\ x \in Range(list) /\ y \in Range(list) => Before(x, y) \/ x = y \/ Before(y, x)
<1>1. ASSUME Before(x, y) PROVE x \in Range(list) /\ y \in Range(list) /\ x # y
  <2>1. PICK i \in 1 .. Len(list), j \in 1 .. Len(list) : i < j /\ list[i] = x /\ list[j] = y
    BY <1>1, ListIs DEF Before
  <2>2. i # j
    BY <2>1, ListIs
  <2> QED BY <2>1, <2>2, ListIs
<1>2. ASSUME x \in Range(list), y \in Range(list) PROVE Before(x, y) \/ x = y \/ Before(y, x)
  <2>1. PICK i \in 1 .. Len(list), j \in 1 .. Len(list) : list[i] = x /\ list[j] = y
    BY <1>2, ListIs
  <2>2. i < j \/ i = j \/ j < i
    BY ListIs
  <2> QED BY <2>1, <2>2, ListIs DEF Before
<1> QED BY <1>1, <1>2

LEMMA EarliestFirst ==
  ASSUME ListInv, NEW places, places \subseteq DOMAIN list
  PROVE  /\ Earliest(places) = NIL <=> places = {}
         /\ places # {} => \E i \in places : /\ Earliest(places) = list[i]
                                             /\ \A j \in places : i <= j
<1>1. DOMAIN list = 1 .. Len(list) /\ places \subseteq Nat
  BY ListIs
<1>2. ASSUME places # {}
      PROVE  \E i \in places : Earliest(places) = list[i] /\ \A j \in places : i <= j
  <2>1. PICK n \in places : \A m \in places : ~ (m < n)
    BY <1>1, <1>2, Least
  <2>2. \A m \in places : n <= m
    BY <1>1, <2>1
  <2> QED BY <1>2, <2>2 DEF Earliest
<1>3. Earliest(places) = NIL => places = {}
  <2> SUFFICES ASSUME Earliest(places) = NIL, places # {} PROVE FALSE
    OBVIOUS
  <2>1. PICK i \in places : Earliest(places) = list[i]
    BY <1>2
  <2>2. list[i] \in Item
    BY <1>1, ListIs
  <2> QED BY <2>1, <2>2
<1>4. places = {} => Earliest(places) = NIL
  BY DEF Earliest
<1> QED BY <1>2, <1>3, <1>4

\* Where a loop over the list begins.
LEMMA FirstOfIs ==
  ASSUME ListInv, NEW keys
  PROVE  /\ FirstOf(keys) # NIL => FirstOf(keys) \in Listed(keys)
         /\ \A y \in Listed(keys) : /\ FirstOf(keys) # NIL
                                    /\ FirstOf(keys) = y \/ Before(FirstOf(keys), y)
<1> DEFINE places == {i \in DOMAIN list : list[i][1] \in keys}
           a == Earliest(places)
<1>1. FirstOf(keys) = a /\ DOMAIN list = 1 .. Len(list)
  BY ListIs DEF FirstOf
<1>2. /\ places \subseteq DOMAIN list
      /\ \A i \in DOMAIN list : i \in places <=> list[i][1] \in keys
  OBVIOUS
<1>3. \A i \in places : list[i] \in Listed(keys) /\ list[i] # NIL
  BY <1>1, ListIs DEF Listed
<1> HIDE DEF places
<1>4. /\ a = NIL <=> places = {}
      /\ places # {} => \E i \in places : a = list[i] /\ \A j \in places : i <= j
  BY <1>2, EarliestFirst
<1>5. ASSUME NEW y \in Listed(keys)
      PROVE  places # {} /\ (a = y \/ Before(a, y))
  <2>1. PICK j \in 1 .. Len(list) : list[j] = y
    BY ListIs DEF Listed
  <2>2. j \in places
    BY <1>1, <1>2, <2>1 DEF Listed
  <2>3. PICK i \in places : a = list[i] /\ i <= j
    BY <1>4, <2>2
  <2>4. i = j \/ i < j
    <3>1. i \in 1 .. Len(list)
      BY <1>1, <1>2
    <3> QED BY <2>3, <3>1, ListIs
  <2> QED BY <1>1, <1>2, <2>1, <2>2, <2>3, <2>4 DEF Before
<1> QED BY <1>1, <1>3, <1>4, <1>5

\* How it goes on.
LEMMA AfterNext ==
  ASSUME ListInv, NEW x, NEW keys
  PROVE  /\ After(x, keys) # NIL => After(x, keys) \in Listed(keys)
         /\ \A y \in Listed(keys) :
              Before(x, y) => After(x, keys) = y \/ Before(After(x, keys), y)
<1> DEFINE places == {i \in DOMAIN list : list[i][1] \in keys /\ \E j \in 1 .. i - 1 : list[j] = x}
           a == Earliest(places)
<1>1. After(x, keys) = a /\ DOMAIN list = 1 .. Len(list) /\ Len(list) \in Nat
  BY ListIs DEF After
<1>2. /\ places \subseteq DOMAIN list
      /\ \A i \in DOMAIN list :
           i \in places <=> list[i][1] \in keys /\ \E j \in 1 .. i - 1 : list[j] = x
  OBVIOUS
<1>3. \A i \in places : list[i] \in Listed(keys) /\ list[i] # NIL
  BY <1>1, ListIs DEF Listed
<1> HIDE DEF places
<1>4. /\ a = NIL <=> places = {}
      /\ places # {} => \E i \in places : a = list[i] /\ \A j \in places : i <= j
  BY <1>2, EarliestFirst
<1>5. ASSUME NEW y \in Listed(keys), Before(x, y)
      PROVE  a = y \/ Before(a, y)
  <2>1. PICK k \in 1 .. Len(list), j \in 1 .. Len(list) : k < j /\ list[k] = x /\ list[j] = y
    BY <1>1, <1>5 DEF Before
  <2>2. k \in 1 .. j - 1
    BY <2>1
  <2>3. j \in places
    BY <1>1, <1>2, <2>1, <2>2 DEF Listed
  <2>4. PICK i \in places : a = list[i] /\ i <= j
    BY <1>4, <2>3
  <2>5. i = j \/ i < j
    <3>1. i \in 1 .. Len(list)
      BY <1>1, <1>2
    <3> QED BY <1>1, <2>4, <3>1
  <2> QED BY <1>1, <1>2, <2>1, <2>4, <2>5 DEF Before
<1> QED BY <1>1, <1>3, <1>4, <1>5

LEMMA UnlinkOrder ==
  ASSUME ListInv, NEW z, Unlink(z), NEW x, NEW y
  PROVE  /\ Before(x, y)' => Before(x, y)
         /\ Before(x, y) /\ x # z /\ y # z => Before(x, y)'
<1> DEFINE n == Len(list)
<1>1. PICK i \in 1 .. n :
        /\ list[i] = z /\ list' \in Seq(Item) /\ DOMAIN list' = 1 .. n - 1
        /\ \A k \in 1 .. n - 1 : list'[k] = IF k < i THEN list[k] ELSE list[k + 1]
  BY UnlinkSeq
<1>2. n \in Nat /\ DOMAIN list = 1 .. n
  BY ListIs
<1>3. ASSUME Before(x, y)' PROVE Before(x, y)
  <2>1. PICK k \in 1 .. n - 1, l \in 1 .. n - 1 : k < l /\ list'[k] = x /\ list'[l] = y
    BY <1>1, <1>3 DEF Before
  <2> DEFINE p == IF k < i THEN k ELSE k + 1
             q == IF l < i THEN l ELSE l + 1
  <2>2. p \in 1 .. n /\ q \in 1 .. n /\ p < q
    BY <1>2, <2>1
  <2>3. list[p] = x /\ list[q] = y
    BY <1>1, <2>1
  <2> QED BY <1>2, <2>2, <2>3 DEF Before
<1>4. ASSUME Before(x, y), x # z, y # z PROVE Before(x, y)'
  <2>1. PICK k \in 1 .. n, l \in 1 .. n : k < l /\ list[k] = x /\ list[l] = y
    BY <1>2, <1>4 DEF Before
  <2> DEFINE p == IF k < i THEN k ELSE k - 1
             q == IF l < i THEN l ELSE l - 1
  <2>2. k # i /\ l # i
    BY <1>1, <1>4, <2>1
  <2>3. /\ p \in 1 .. n - 1 /\ q \in 1 .. n - 1 /\ p < q
        /\ (IF p < i THEN p ELSE p + 1) = k /\ (IF q < i THEN q ELSE q + 1) = l
    BY <1>2, <2>1, <2>2
  <2>4. list'[p] = x /\ list'[q] = y
    <3> HIDE DEF p, q
    <3>1. /\ list'[p] = list[IF p < i THEN p ELSE p + 1]
          /\ list'[q] = list[IF q < i THEN q ELSE q + 1]
      BY <1>1, <2>3
    <3> QED BY <2>1, <2>3, <3>1
  <2> QED BY <1>1, <2>3, <2>4 DEF Before
<1> QED BY <1>3, <1>4

LEMMA AddOrder ==
  ASSUME ListInv, NEW key \in FD \cup Port \cup Timer, Unlisted(key) # {}, Add(key)
  PROVE  \E x \in Item \ Range(list) :
           /\ x[1] = key /\ Head(list') = x /\ Range(list') = Range(list) \cup {x}
           /\ \A y, z : Before(y, z) => Before(y, z)'
           /\ \A y, z : Before(y, z)' => Before(y, z) \/ (y = x /\ z \in Range(list))
<1> DEFINE n == Len(list)
<1>1. PICK x \in Item \ Range(list) :
        /\ x[1] = key /\ list' = <<x>> \o list
        /\ list' \in Seq(Item) /\ DOMAIN list' = 1 .. 1 + n /\ list'[1] = x
        /\ \A i \in 1 .. 1 + n :
             (i = 1 /\ list'[i] = x) \/ (i - 1 \in 1 .. n /\ list'[i] = list[i - 1])
        /\ \A i \in 1 .. n : i + 1 \in 1 .. 1 + n /\ list'[i + 1] = list[i]
  BY AddSeq
<1>2. n \in Nat /\ DOMAIN list = 1 .. n /\ Range(list) = {list[i] : i \in 1 .. n}
  BY ListIs
<1>3. Head(list') = x
  <2>1. list' # <<>>
    BY <1>1, <1>2, EmptySeq
  <2> QED BY <1>1, <2>1, HeadTailProperties
<1>4. Range(list') = Range(list) \cup {x}
  <2>1. Range(list') = {list'[i] : i \in 1 .. 1 + n}
    BY <1>1 DEF Range
  <2>2. \A i \in 1 .. 1 + n : list'[i] \in Range(list) \cup {x}
    <3> SUFFICES ASSUME NEW i \in 1 .. 1 + n PROVE list'[i] \in Range(list) \cup {x}
      OBVIOUS
    <3>1. (i = 1 /\ list'[i] = x) \/ (i - 1 \in 1 .. n /\ list'[i] = list[i - 1])
      BY <1>1
    <3> QED BY <1>2, <3>1
  <2>3. Range(list) \subseteq Range(list')
    <3> SUFFICES ASSUME NEW i \in 1 .. n PROVE list[i] \in Range(list')
      BY <1>2
    <3>1. i + 1 \in 1 .. 1 + n /\ list'[i + 1] = list[i]
      BY <1>1
    <3> QED BY ONLY <2>1, <3>1
  <2>4. 1 \in 1 .. 1 + n
    BY <1>2
  <2>5. x \in Range(list')
    BY <1>1, <2>1, <2>4
  <2>6. Range(list') \subseteq Range(list) \cup {x}
    BY <2>1, <2>2
  <2> QED BY <2>3, <2>5, <2>6
<1>5. ASSUME NEW y, NEW z, Before(y, z) PROVE Before(y, z)'
  <2>1. PICK k \in 1 .. n, l \in 1 .. n : k < l /\ list[k] = y /\ list[l] = z
    BY <1>2, <1>5 DEF Before
  <2>2. k + 1 < l + 1
    BY <2>1
  <2>3. k + 1 \in DOMAIN list' /\ l + 1 \in DOMAIN list' /\ list'[k + 1] = y /\ list'[l + 1] = z
    BY <1>1, <2>1
  <2> QED BY <2>2, <2>3 DEF Before
<1>6. ASSUME NEW y, NEW z, Before(y, z)' PROVE Before(y, z) \/ (y = x /\ z \in Range(list))
  <2>1. PICK k \in 1 .. 1 + n, l \in 1 .. 1 + n : k < l /\ list'[k] = y /\ list'[l] = z
    BY <1>1, <1>6 DEF Before
  <2>2. l # 1
    BY <2>1
  <2>3. l - 1 \in 1 .. n /\ list[l - 1] = z
    BY <1>1, <2>1, <2>2
  <2>4. CASE k = 1 /\ list'[k] = x
    BY <1>2, <2>1, <2>3, <2>4
  <2>5. CASE k - 1 \in 1 .. n /\ list'[k] = list[k - 1]
    <3>1. k - 1 < l - 1
      BY <2>1
    <3> QED BY <1>2, <2>1, <2>3, <2>5, <3>1 DEF Before
  <2> QED BY <1>1, <2>1, <2>4, <2>5
<1> QED BY <1>1, <1>3, <1>4, <1>5, <1>6
-----------------------------------------------------------------------------
(* The event loop and the second invariant.                                  *)

LEMMA ThreadsIs ==
  ASSUME Inv2
  PROVE  LinkInv /\ ReplyInv /\ FdInv /\ DataInv /\ ToldInv /\ NoticeInv
  BY DEF Inv2

LEMMA StackAndNext ==
  ASSUME Inv, Inv'
  PROVE  /\ StackInv /\ FramesInv /\ ListInv /\ EventInv /\ ThreadInv
         /\ StackInv' /\ FramesInv' /\ ListInv' /\ EventInv' /\ ThreadInv'
  BY DEF Inv

\* A call knows what its frame says.
LEMMA TopCall ==
  ASSUME StackInv, Inv2, IsGet(top)
  PROVE  /\ ~ top.hiked => thr = Own(top)
         /\ Fresh(top) => mainCtx = top.get.ctxs
         /\ top.pc \in {"recv", "return"} => ~ top.called
         /\ Knows(top, queue, lastEvent) /\ Placed(top)
         /\ \A x \in Idle : Above(x, Own(top)) => Told(top, x)
         /\ top.pc # "reply"
<1>1. Len(stack) \in DOMAIN stack /\ top = stack[Len(stack)]
  BY StackIs
<1>2. ~ (Len(stack) + 2 <= Len(stack))
  BY StackIs
<1>3. ~ top.hiked => thr = Own(top)
  BY <1>1, <1>2 DEF Inv2, ToldInv, ThrAt
<1>4. NoticeAt(Len(stack)) /\ Placed(top) /\ \A x \in Idle : Above(x, Own(top)) => Told(top, x)
  BY <1>1 DEF Inv2, NoticeInv, LinkInv, ToldInv
<1>5. top.pc # "reply"
  BY TopIs DEF GetFrame, CallPc
<1> QED BY <1>1, <1>3, <1>4, <1>5 DEF NoticeAt

\* The call on top goes on.
LEMMA CallThreads ==
  ASSUME Inv, Inv', Inv2, IsGet(top), IsGet(top'), Shape(Len(stack)),
         UNCHANGED <<list, doomed, waiting, active, pipe, reply, sel, data, late>>,
         \/ selMsg' = selMsg
         \/ /\ selMsg' = FALSE
            /\ \A i \in 1 .. Len(stack) - 1 : IsGet(stack'[i]) => stack'[i].swallowed,
         Placed(top'), ~ top'.hiked => thr' = thr /\ ~ top.hiked,
         \A x \in Idle : Above(x, Own(top)) /\ Told(top, x) =>
           sel.pc = "send" \/ selMsg' \/ top'.swallowed \/ top'.hiked \/ Looks(top', x),
         mainCtx' = mainCtx \/ \A i \in 1 .. Len(stack) - 1 : ~ Fresh(stack'[i]),
         Fresh(top') => mainCtx' = top'.get.ctxs,
         top'.pc \in {"recv", "return"} => ~ top'.called,
         Knows(top', queue', lastEvent')
  PROVE  Inv2'
<1>1. /\ StackInv /\ FramesInv /\ StackInv' /\ LinkInv /\ ReplyInv /\ FdInv /\ DataInv
      /\ ToldInv /\ NoticeInv
  BY ThreadsIs, StackAndNext
<1>2. /\ Len(stack) \in Nat \ {0} /\ Len(stack) # Len(stack) + 1
      /\ Becomes(Len(stack)) /\ top.pc # "reply" /\ top'.pc # "reply"
  <2>1. \A n \in Nat : n # n + 1
    OBVIOUS
  <2>2. top'.pc # "reply" /\ top.pc # "reply"
    BY <1>1, TopCall, TopIs, FrameIs DEF GetFrame, CallPc, StackInv, top
  <2> QED BY <1>1, <2>1, <2>2, StackIs DEF Shape
<1>3. Own(top') = Own(top)
  BY <1>1, <1>2, ShapeIs DEF Own
<1>4. InUse' = InUse
  BY <1>1, <1>2, InUseBecomes
<1>5. /\ ReplyInv' /\ FdInv' /\ DataInv'
      /\ Live' = Live /\ Idle' \subseteq Idle
  BY <1>1, <1>2, <1>4, LoopStill
<1>6. LinkInv'
  BY <1>1, <1>2, LinkNext
<1>7. ToldInv'
  <2>1. selMsg' \in BOOLEAN
    BY <1>1 DEF ToldInv
  <2>2. sel'.pc = "select" /\ ~ (waiting' \subseteq sel'.mask) => pipe' # {}
    BY <1>1 DEF ToldInv
  <2>3. ~ top'.hiked => thr' = Own(top')
    BY <1>1, <1>3, TopCall
  <2>4. \A k \in DOMAIN stack' : IsGet(stack'[k]) /\ ~ stack'[k].hiked => ThrAt(k)' = Own(stack'[k])
    BY <1>1, <1>2, <2>3, ThrNext
  <2>5. \A x \in Idle' : Above(x, Own(top')) => Told(top, x)'
    <3> SUFFICES ASSUME NEW x \in Idle', Above(x, Own(top')) PROVE Told(top, x)'
      OBVIOUS
    <3>1. sel.pc = "send" \/ selMsg' \/ top'.swallowed \/ top'.hiked \/ Looks(top', x)
      BY <1>1, <1>3, <1>5, TopCall
    <3>2. Looks(top', x) => Looks(top, x)'
      BY BeforeStays DEF Looks
    <3> QED BY <3>1, <3>2 DEF Told
  <2>6. \A y \in InUse', x \in Idle' : Before(y, x) => Before(y, x)'
    BY BeforeStays
  <2>7. \A k \in DOMAIN stack', x \in Idle' :
          IsGet(stack'[k]) /\ Above(x, Own(stack'[k])) => Told(stack[k], x)'
    BY <1>1, <1>5, <1>6, <2>5, <2>6, ToldNext
  <2> QED BY <2>1, <2>2, <2>4, <2>7 DEF ToldInv
<1>8. NoticeInv'
  BY <1>1, <1>2, NoticeNext
<1> QED BY <1>5, <1>6, <1>7, <1>8 DEF Inv2

\* A program or a proc is called.
LEMMA ProgThreads ==
  ASSUME Inv, Inv', Inv2, IsGet(top), ~ IsGet(top'), top'.pc = "run", Shape(Len(stack) + 1),
         UNCHANGED <<list, doomed, waiting, active, pipe, reply, sel, data, late, selMsg,
                     thr, mainCtx, queue, lastEvent>>,
         Linked(stack'[Len(stack)], top'),
         top'.item # NIL => top'.item[1] \notin waiting,
         top'.event # NIL => top'.event.ctxt \in top.get.ctxs
  PROVE  Inv2'
<1>1. /\ StackInv /\ FramesInv /\ StackInv' /\ LinkInv /\ ReplyInv /\ FdInv /\ DataInv
      /\ ToldInv /\ NoticeInv
  BY ThreadsIs, StackAndNext
<1> DEFINE n == Len(stack)
           m == n + 1
<1>2. /\ n \in Nat \ {0} /\ m # n /\ m > 1 /\ m - 1 = n /\ ~ (n + 2 <= n)
      /\ Becomes(m) /\ top.pc # "reply"
  <2>1. \A k \in Nat \ {0} : k + 1 # k /\ k + 1 > 1 /\ (k + 1) - 1 = k /\ ~ (k + 2 <= k)
    OBVIOUS
  <2> QED BY <1>1, <2>1, StackIs, TopCall DEF Shape
<1>3. top' = stack'[m]
  BY <1>1, ShapeIs
<1>4. InUse' = InUse \cup ({top'.item} \ {NIL})
  BY <1>1, <1>2, <1>3, InUseBecomes
<1>5. /\ ReplyInv' /\ FdInv' /\ DataInv'
      /\ Live' = Live /\ Idle' \subseteq Idle
  BY <1>1, <1>2, <1>4, LoopStill
<1>6. LinkInv'
  BY <1>1, <1>2, LinkNext
<1>7. ToldInv'
  <2>1. selMsg' \in BOOLEAN
    BY <1>1 DEF ToldInv
  <2>2. sel'.pc = "select" /\ ~ (waiting' \subseteq sel'.mask) => pipe' # {}
    BY <1>1 DEF ToldInv
  <2>3. thr' = ThrAt(m - 1)
    BY <1>2 DEF ThrAt
  <2>4. \A k \in DOMAIN stack' : IsGet(stack'[k]) /\ ~ stack'[k].hiked => ThrAt(k)' = Own(stack'[k])
    BY <1>1, <1>2, <2>3, ThrNext
  <2>5. \A y \in InUse', x \in Idle' : Before(y, x) => Before(y, x)'
    BY BeforeStays
  <2>6. \A k \in DOMAIN stack', x \in Idle' :
          IsGet(stack'[k]) /\ Above(x, Own(stack'[k])) => Told(stack[k], x)'
    BY <1>1, <1>5, <1>6, <2>5, ToldNext
  <2> QED BY <2>1, <2>2, <2>4, <2>6 DEF ToldInv
<1>8. NoticeInv'
  BY <1>1, <1>2, NoticeNext
<1> QED BY <1>5, <1>6, <1>7, <1>8 DEF Inv2

LEMMA SettledKnows ==
  ASSUME EventInv, NEW f, Knows(f, queue, lastEvent), lastEvent' = Refreshed(f), UNCHANGED queue,
         NEW g, g.get = f.get, ~ f.called => g.meddled = f.meddled
  PROVE  Knows(g, queue', lastEvent')
<1>1. CASE f.called
  <2>1. lastEvent' = Matching(queue, g.get)
    BY <1>1 DEF Refreshed
  <2> QED BY <2>1, MatchingKnows
<1>2. CASE ~ f.called
  <2>1. lastEvent' = lastEvent
    BY <1>2 DEF Refreshed
  <2> QED BY <1>2, <2>1 DEF Knows
<1> QED BY <1>1, <1>2

LEMMA KnowsOn ==
  ASSUME NEW f, NEW g, NEW q, NEW last, Knows(f, q, last), g.get = f.get,
         f.called => g.called, f.meddled => g.meddled
  PROVE  Knows(g, q, last)
  BY DEF Knows

LEMMA VisitThreads ==
  ASSUME Inv, Inv', Inv2, NEW pc, NEW keys, Visit(pc, keys),
         \/ pc \in {"fds0", "fds"} /\ keys = FD
         \/ pc = "tes" /\ keys = Timer
  PROVE  Inv2'
<1>1. /\ IsGet(top) /\ top.pc = pc /\ top.at # NIL
      /\ UNCHANGED <<list, doomed, waiting, active, pipe, reply, sel, data, late, selMsg,
                     thr, mainCtx, queue, lastEvent>>
  BY DEF Visit, InCall, libVars, mainVars, selVars, worldVars, eventVars
<1>2. StackInv /\ ListInv /\ ThreadInv /\ FdInv
  BY ThreadsIs, StackAndNext
<1>3. top \in GetFrame /\ top \in Frame /\ top.at \in Item
  BY <1>1, <1>2, TopIs
<1>4. /\ Placed(top) /\ Knows(top, queue, lastEvent) /\ (~ top.hiked => thr = Own(top))
      /\ Fresh(top) => mainCtx = top.get.ctxs
  BY <1>1, <1>2, TopCall
<1>5. top.at[1] \in keys
  BY <1>1, <1>4 DEF Placed
<1>6. CASE Ready(top.at)
  <2> DEFINE x == top.at
             g == Prog(x)
  <2>1. stack' = Append(stack, g)
    BY <1>6 DEF Visit, Pushed
  <2>2. g \in Frame /\ ~ IsGet(g) /\ g.item = x /\ g.pc = "run" /\ g.event = NIL
    BY <1>3 DEF Prog, ProgFrame, Frame, IsGet
  <2>3. Marked(stack, Len(stack)) /\ Len(stack) \in Nat /\ Len(stack) \in 1 .. Len(stack)
        /\ ~ (Len(stack) < Len(stack)) /\ top = stack[Len(stack)]
    BY <1>2, MarkedStack, StackIs
  <2>4. x[1] \notin waiting
    BY <1>1, <1>2, <1>5, <1>6 DEF Ready, FdInv, ThreadInv
  <2>5. Linked(top, g)
    BY <1>1, <1>3, <1>5, <2>2 DEF Linked
  <2> HIDE DEF g, x
  <2>6. /\ Shape(Len(stack) + 1) /\ top' = g
        /\ \A i \in 1 .. Len(stack) : stack'[i] = stack[i]
    BY <1>2, <2>1, <2>2, <2>3, ShapeAppend
  <2> QED BY <1>1, <2>2, <2>3, <2>4, <2>5, <2>6, ProgThreads
<1>7. CASE ~ Ready(top.at)
  <2> DEFINE a == After(top.at, keys)
             g == [top EXCEPT !.at = a]
  <2>1. stack' = WithTop(g)
    BY <1>7 DEF Visit
  <2>2. a \in Item \cup {NIL} /\ (a # NIL => a[1] \in keys)
        /\ \A y \in Listed(keys) : Before(top.at, y) => a = y \/ Before(a, y)
    BY <1>2, ListedIs, AfterNext DEF ListInv, Listed
  <2> HIDE DEF a
  <2>3. /\ g \in GetFrame /\ Ages(top, g) /\ g.at = a /\ g.pc = top.pc /\ g.hiked = top.hiked
        /\ g.get = top.get /\ g.called = top.called /\ g.meddled = top.meddled
        /\ g.swallowed = top.swallowed /\ IsGet(g)
    BY <1>1, <1>3, <2>2 DEF GetFrame, Ages, Stays, Fresh, IsGet
  <2> HIDE DEF g
  <2>4. Shape(Len(stack)) /\ top' = g
    BY <1>2, <2>1, <2>3, ShapeTop DEF Frame
  <2>5. Placed(g)
    BY <1>1, <2>2, <2>3 DEF Placed
  <2>6. ASSUME NEW x \in Idle, Above(x, Own(top)), Told(top, x)
        PROVE  sel.pc = "send" \/ selMsg' \/ g.swallowed \/ g.hiked \/ Looks(g, x)
    <3> SUFFICES ASSUME Looks(top, x), ~ top.hiked PROVE Looks(g, x)
      BY <1>1, <2>3, <2>6 DEF Told
    <3>1. CASE pc \in {"fds0", "fds"}
      <4>1. x \in Listed(FD) /\ x \notin InUse \cup doomed /\ x[1] \in active /\ x[1] \in FD
        BY DEF Idle, Live, Listed
      <4>2. top.at # x
        BY <1>1, <1>4, <1>7, <2>6, <4>1 DEF Ready
      <4>3. Before(top.at, x) /\ keys = FD
        BY <1>1, <3>1, <4>2 DEF Looks
      <4>4. a = x \/ Before(a, x)
        BY <2>2, <4>1, <4>3
      <4> QED BY <1>1, <2>3, <3>1, <4>4 DEF Looks
    <3>2. CASE pc = "tes"
      BY <1>1, <2>3, <3>2 DEF Looks
    <3> QED BY <3>1, <3>2
  <2>7. Knows(g, queue', lastEvent') /\ (Fresh(g) => mainCtx' = g.get.ctxs)
    BY <1>1, <1>4, <2>3, KnowsOn DEF Ages
  <2>8. g.pc \notin {"recv", "return"}
    BY <1>1, <2>3
  <2> QED BY <1>1, <2>3, <2>4, <2>5, <2>6, <2>7, <2>8, CallThreads
<1> QED BY <1>6, <1>7

LEMMA GoIs ==
  ASSUME NEW f \in GetFrame, f.pc # "return", NEW pc \in CallPc, NEW g, g = Go(f, pc)
  PROVE  /\ g \in GetFrame /\ Ages(f, g) /\ IsGet(g) /\ g.pc = pc /\ g.at = f.at /\ ~ g.called
         /\ g.get = f.get /\ g.hiked = f.hiked /\ g.swallowed = f.swallowed
         /\ ~ f.called => g.meddled = f.meddled
<1> DEFINE e == Settled(f)
<1>1. /\ e \in GetFrame /\ Ages(f, e) /\ ~ e.called /\ e.get = f.get /\ e.hiked = f.hiked
      /\ e.swallowed = f.swallowed /\ e.at = f.at /\ (~ f.called => e.meddled = f.meddled)
      /\ e.pc # "return" /\ IsGet(f)
  <2> USE DEF Settled, GetFrame, Ages, Stays, Fresh, IsGet
  <2>1. CASE f.called
    BY <2>1
  <2>2. CASE ~ f.called
    BY <2>2
  <2> QED BY <2>1, <2>2
<1> HIDE DEF e
<1>2. g = [e EXCEPT !.pc = pc, !.first = TRUE]
  BY DEF Go, e
<1>3. /\ g \in GetFrame /\ g.pc = pc /\ g.at = e.at /\ g.called = e.called /\ g.get = e.get
      /\ g.hiked = e.hiked /\ g.swallowed = e.swallowed /\ g.meddled = e.meddled
      /\ Ages(e, g) /\ IsGet(g)
  BY <1>1, <1>2 DEF GetFrame, Ages, Stays, Fresh, IsGet
<1> QED BY <1>1, <1>3, AgesTwice

\* The call has looked at the fds.
LEMMA GoThreads ==
  ASSUME Inv, Inv', Inv2, IsGet(top), top.pc \in {"fds0", "fds"}, top.at = NIL,
         lastEvent' = Refreshed(top), NEW pc \in {"recv", "return"}, stack' = WithTop(Go(top, pc)),
         UNCHANGED <<thr, libVars, mainVars, selVars, worldVars, queue>>
  PROVE  Inv2'
<1> DEFINE g == Go(top, pc)
<1>1. /\ UNCHANGED <<list, doomed, waiting, active, pipe, reply, sel, data, late, selMsg,
                     thr, mainCtx, queue>>
      /\ stack' = WithTop(g) /\ pc \in CallPc
  BY DEF libVars, mainVars, selVars, worldVars, CallPc
<1>2. StackInv /\ ListInv /\ EventInv /\ FdInv
  BY ThreadsIs, StackAndNext
<1>3. top \in GetFrame
  BY <1>2, TopIs
<1>4. /\ g \in GetFrame /\ Ages(top, g) /\ IsGet(g) /\ g.pc = pc /\ g.at = top.at /\ ~ g.called
      /\ g.get = top.get /\ g.hiked = top.hiked /\ g.swallowed = top.swallowed
      /\ ~ top.called => g.meddled = top.meddled
  BY <1>1, <1>3, GoIs
<1> HIDE DEF g
<1>5. Shape(Len(stack)) /\ top' = g
  BY <1>1, <1>2, <1>4, ShapeTop DEF Frame
<1>6. Knows(top, queue, lastEvent) /\ (Fresh(top) => mainCtx = top.get.ctxs)
  BY <1>2, TopCall
<1>7. Placed(g) /\ (Fresh(g) => mainCtx' = g.get.ctxs)
  BY <1>1, <1>4, <1>6 DEF Placed, Ages
<1>8. Knows(g, queue', lastEvent')
  BY <1>1, <1>2, <1>4, <1>6, SettledKnows
<1>9. ASSUME NEW x \in Idle, Above(x, Own(top)), Told(top, x)
      PROVE  sel.pc = "send" \/ selMsg' \/ g.swallowed \/ g.hiked \/ Looks(g, x)
  <2>1. x # NIL /\ ~ Before(NIL, x)
    <3>1. x \in Range(list) /\ x \in Item /\ NIL \notin Range(list)
      BY <1>2, ListIs DEF Idle, Live, Listed
    <3> QED BY <1>2, <3>1, BeforeIs
  <2>2. ~ Looks(top, x)
    BY <2>1 DEF Looks
  <2> QED BY <1>1, <1>4, <1>9, <2>2 DEF Told
<1> QED BY <1>1, <1>4, <1>5, <1>7, <1>8, <1>9, CallThreads

LEMMA FDsChecked0Threads ==
  ASSUME Inv, Inv', Inv2, FDsChecked0
  PROVE  Inv2'
  BY GoThreads DEF FDsChecked0, InCall

LEMMA FDsCheckedThreads ==
  ASSUME Inv, Inv', Inv2, FDsChecked
  PROVE  Inv2'
  BY GoThreads DEF FDsChecked, InCall

LEMMA ReceivedIs ==
  ASSUME NEW f \in GetFrame, NEW g, g = Received(f)
  PROVE  /\ g \in GetFrame /\ g \in Frame /\ Ages(f, g) /\ Same(f, g) /\ IsGet(g) /\ ~ g.first
         /\ g.pc = f.pc /\ g.at = f.at /\ g.get = f.get /\ g.hiked = f.hiked
         /\ g.called = f.called /\ g.meddled = f.meddled /\ g.swallowed = f.swallowed
<1>1. g = [f EXCEPT !.first = FALSE]
  BY DEF Received
<1>2. g \in GetFrame /\ ~ g.first /\ IsGet(g) /\ g.meddled = f.meddled
      /\ g.swallowed = f.swallowed /\ g.pc = f.pc /\ g.at = f.at /\ g.get = f.get
      /\ g.hiked = f.hiked /\ g.called = f.called
  BY <1>1 DEF GetFrame, IsGet
<1>3. Same(f, g)
  BY <1>1, MarksSame
<1> QED BY <1>2, <1>3 DEF Same, Frame

LEMMA ReceiveSignalThreads ==
  ASSUME Inv, Inv', Inv2, ReceiveSignal
  PROVE  Inv2'
<1> DEFINE n == Len(stack)
           s == OfCalls(Outer(1), LAMBDA f : [f EXCEPT !.swallowed = TRUE])
           g == Received(top)
<1>1. /\ IsGet(top) /\ top.pc = "recv" /\ stack' = Append(s, g) /\ selMsg' = FALSE
      /\ UNCHANGED <<thr, list, doomed, waiting, active, pipe, reply, sel, data, late, mainCtx,
                     queue, lastEvent>>
  BY DEF ReceiveSignal, Receives, InCall, libVars, mainVars, worldVars, eventVars
<1>2. StackInv /\ top \in GetFrame
  BY <1>1, StackAndNext, TopIs
<1>3. n \in Nat \ {0} /\ n - 1 \in Nat /\ (n - 1) + 1 = n /\ top = stack[n] /\ 1 <= n
  BY <1>2, StackIs
<1>4. /\ g \in GetFrame /\ g \in Frame /\ Ages(top, g) /\ IsGet(g) /\ ~ g.first
      /\ g.pc = "recv" /\ g.at = top.at /\ g.get = top.get /\ g.hiked = top.hiked
      /\ g.called = top.called /\ g.meddled = top.meddled
  BY <1>1, <1>2, ReceivedIs
<1>5. Marked(s, n - 1) /\ \A i \in 1 .. n - 1 : IsGet(s[i]) => s[i].swallowed
  <2>1. Marked(Outer(1), n - 1)
    BY <1>2, <1>3, MarkedOuter
  <2> QED BY <1>2, <1>3, <2>1, MarkedSwallowed
<1> HIDE DEF s, g
<1>6. Shape(n) /\ top' = g /\ \A i \in 1 .. n - 1 : stack'[i] = s[i]
  <2>1. Stays(stack[(n - 1) + 1], g)
    BY <1>3, <1>4 DEF Ages
  <2>2. /\ StackInv /\ n - 1 \in Nat /\ Marked(s, n - 1) /\ g \in Frame /\ stack' = Append(s, g)
        /\ n - 1 < n => Stays(stack[(n - 1) + 1], g)
    BY <1>1, <1>2, <1>3, <1>4, <1>5, <2>1
  <2>3. Shape((n - 1) + 1) /\ top' = g /\ \A i \in 1 .. n - 1 : stack'[i] = s[i]
    BY ONLY <2>2, ShapeAppend
  <2> QED BY <1>3, <2>3
<1>7. /\ Knows(top, queue, lastEvent) /\ ~ top.called /\ (~ top.hiked => thr = Own(top))
      /\ Fresh(top) => mainCtx = top.get.ctxs
  BY <1>1, <1>2, TopCall
<1>8. Knows(g, queue', lastEvent') /\ Placed(g) /\ (Fresh(g) => mainCtx' = g.get.ctxs)
  BY <1>1, <1>4, <1>7, KnowsOn DEF Placed, Ages
<1>9. \A x : Looks(g, x)
  BY <1>4 DEF Looks
<1> QED BY <1>1, <1>4, <1>5, <1>6, <1>7, <1>8, <1>9, CallThreads

LEMMA ReceiveEventThreads ==
  ASSUME Inv, Inv', Inv2, NEW c \in Ctx, ReceiveEvent(c)
  PROVE  Inv2'
<1> DEFINE n == Len(stack)
           e == [ctxt |-> c, type |-> sent[c]]
           g == Received(top)
           h == Filter(e)
<1>1. /\ IsGet(top) /\ top.pc = "recv" /\ ~ top.stale /\ c \in mainCtx /\ sent[c] # NIL
      /\ \/ stack' = Append(WithTop(g), h) /\ UNCHANGED <<queue, lastEvent>>
         \/ stack' = WithTop(g) /\ QueueEvent(e, top.get)
      /\ UNCHANGED <<thr, list, doomed, waiting, active, pipe, reply, sel, selMsg, data, late,
                     mainCtx>>
  BY DEF ReceiveEvent, Receives, InCall, libVars, mainVars, selVars
<1>2. StackInv /\ EventInv /\ top \in GetFrame
  BY <1>1, StackAndNext, TopIs
<1>3. n \in Nat \ {0} /\ ~ (n < n) /\ top = stack[n] /\ n \in 1 .. n
  BY <1>2, StackIs
<1>4. /\ g \in GetFrame /\ g \in Frame /\ Ages(top, g) /\ Same(top, g) /\ IsGet(g) /\ ~ g.first
      /\ g.pc = "recv" /\ g.at = top.at /\ g.get = top.get /\ g.hiked = top.hiked
      /\ g.called = top.called /\ g.meddled = top.meddled
  BY <1>1, <1>2, ReceivedIs
<1>5. e \in Event /\ e.ctxt = c
  BY <1>1, <1>2 DEF EventInv, Event
<1>6. h \in Frame /\ ~ IsGet(h) /\ h.item = NIL /\ h.pc = "run" /\ h.event = e
  BY <1>5 DEF Prog, Filter, ProgFrame, IsGet, Frame
<1>7. /\ Knows(top, queue, lastEvent) /\ ~ top.called /\ (~ top.hiked => thr = Own(top))
      /\ mainCtx = top.get.ctxs
  BY <1>1, <1>2, TopCall DEF Fresh
<1> HIDE DEF e, g, h
<1>8. ASSUME stack' = Append(WithTop(g), h), UNCHANGED <<queue, lastEvent>>
      PROVE  Inv2'
  <2>1. Marked(WithTop(g), n) /\ WithTop(g)[n] = g
    BY <1>2, <1>4, MarkedTop
  <2>2. /\ Shape(n + 1) /\ top' = h /\ \A i \in 1 .. n : stack'[i] = WithTop(g)[i]
    BY <1>2, <1>3, <1>6, <1>8, <2>1, ShapeAppend
  <2>3. stack'[n] = g
    BY <1>3, <2>1, <2>2
  <2>4. Linked(g, h)
    BY <1>4, <1>6 DEF Linked
  <2> QED BY <1>1, <1>5, <1>6, <1>7, <1>8, <2>2, <2>3, <2>4, ProgThreads
<1>9. ASSUME stack' = WithTop(g), QueueEvent(e, top.get)
      PROVE  Inv2'
  <2>1. Shape(n) /\ top' = g
    BY <1>2, <1>4, <1>9, ShapeTop
  <2>2. Knows(top, queue', lastEvent')
    BY <1>1, <1>2, <1>5, <1>7, <1>9, QueuedKnows
  <2>3. Knows(g, queue', lastEvent') /\ Placed(g) /\ (Fresh(g) => mainCtx' = g.get.ctxs)
    BY <1>1, <1>4, <1>7, <2>2, KnowsOn DEF Placed
  <2>4. \A x : Looks(g, x)
    BY <1>4 DEF Looks
  <2> QED BY <1>1, <1>4, <1>7, <2>1, <2>3, <2>4, CallThreads
<1> QED BY <1>1, <1>8, <1>9

LEMMA ReceiveForPortThreads ==
  ASSUME Inv, Inv', Inv2, NEW x, ReceiveForPort(x)
  PROVE  Inv2'
<1> DEFINE n == Len(stack)
           g == Received(top)
           h == Prog(x)
<1>1. /\ IsGet(top) /\ top.pc = "recv" /\ x \in mainPorts /\ stack' = Append(WithTop(g), h)
      /\ UNCHANGED <<thr, list, doomed, waiting, active, pipe, reply, sel, selMsg, data, late,
                     mainCtx, queue, lastEvent>>
  BY DEF ReceiveForPort, Receives, InCall, libVars, mainVars, selVars, eventVars
<1>2. StackInv /\ ListInv /\ ThreadInv /\ top \in GetFrame
  BY <1>1, StackAndNext, TopIs
<1>3. n \in Nat \ {0} /\ ~ (n < n) /\ top = stack[n] /\ n \in 1 .. n
  BY <1>2, StackIs
<1>4. g \in Frame /\ Same(top, g) /\ IsGet(g) /\ ~ g.first /\ g.pc = "recv"
  BY <1>1, <1>2, ReceivedIs
<1>5. x \in Item /\ x[1] \in Port /\ x[1] \notin waiting
  BY <1>1, <1>2, ListedIs DEF ListInv, ThreadInv, Listed
<1>6. h \in Frame /\ ~ IsGet(h) /\ h.item = x /\ h.pc = "run" /\ h.event = NIL
  BY <1>5 DEF Prog, ProgFrame, IsGet, Frame
<1> HIDE DEF g, h
<1>7. Marked(WithTop(g), n) /\ WithTop(g)[n] = g
  BY <1>2, <1>4, MarkedTop
<1>8. /\ Shape(n + 1) /\ top' = h /\ \A i \in 1 .. n : stack'[i] = WithTop(g)[i]
  <2>1. /\ StackInv /\ n \in Nat /\ ~ (n < n) /\ h \in Frame /\ Marked(WithTop(g), n)
        /\ stack' = Append(WithTop(g), h)
    BY <1>1, <1>2, <1>3, <1>6, <1>7
  <2> QED BY ONLY <2>1, ShapeAppend
<1>9. stack'[n] = g
  BY <1>3, <1>7, <1>8
<1>10. Linked(g, h)
  BY <1>4, <1>5, <1>6 DEF Linked
<1> QED BY <1>1, <1>5, <1>6, <1>8, <1>9, <1>10, ProgThreads

LEMMA TimedOutThreads ==
  ASSUME Inv, Inv', Inv2, TimedOut
  PROVE  Inv2'
<1> DEFINE g == [top EXCEPT !.pc = "after"]
<1>1. /\ IsGet(top) /\ top.pc = "recv" /\ stack' = WithTop(g)
      /\ UNCHANGED <<thr, list, doomed, waiting, active, pipe, reply, sel, selMsg, data, late,
                     mainCtx, queue, lastEvent>>
  BY DEF TimedOut, Receives, InCall, libVars, mainVars, selVars, worldVars, eventVars
<1>2. StackInv /\ top \in GetFrame
  BY <1>1, StackAndNext, TopIs
<1>3. /\ g \in GetFrame /\ Ages(top, g) /\ IsGet(g)
      /\ g.pc = "after" /\ g.get = top.get /\ g.hiked = top.hiked
      /\ g.called = top.called /\ g.meddled = top.meddled
  BY <1>1, <1>2 DEF GetFrame, CallPc, Ages, Stays, Fresh, IsGet
<1> HIDE DEF g
<1>4. Shape(Len(stack)) /\ top' = g
  BY <1>1, <1>2, <1>3, ShapeTop DEF Frame
<1>5. /\ Knows(top, queue, lastEvent) /\ (~ top.hiked => thr = Own(top))
      /\ Fresh(top) => mainCtx = top.get.ctxs
  BY <1>1, <1>2, TopCall
<1>6. Knows(g, queue', lastEvent') /\ Placed(g) /\ (Fresh(g) => mainCtx' = g.get.ctxs)
  BY <1>1, <1>3, <1>5, KnowsOn DEF Placed, Ages
<1>7. (\A x : Looks(g, x)) /\ g.pc \notin {"recv", "return"}
  BY <1>3 DEF Looks
<1> QED BY <1>1, <1>3, <1>4, <1>5, <1>6, <1>7, CallThreads

LEMMA AfterMessagesThreads ==
  ASSUME Inv, Inv', Inv2, AfterMessages
  PROVE  Inv2'
<1> DEFINE e == Settled(top)
           a == FirstOf(Timer)
           f == [e EXCEPT !.pc = "tes", !.at = a]
           g == IF lastEvent' = NIL THEN f ELSE [f EXCEPT !.hiked = TRUE]
<1>1. /\ IsGet(top) /\ top.pc = "after" /\ stack' = WithTop(g) /\ lastEvent' = Refreshed(top)
      /\ lastEvent' = NIL => thr' = thr
      /\ UNCHANGED <<list, doomed, waiting, active, pipe, reply, sel, selMsg, data, late,
                     mainCtx, queue>>
  BY DEF AfterMessages, InCall, libVars, mainVars, selVars, worldVars
<1>2. StackInv /\ ListInv /\ EventInv /\ top \in GetFrame
  BY <1>1, StackAndNext, TopIs
<1>3. a \in Item \cup {NIL} /\ (a # NIL => a[1] \in Timer)
  BY <1>2, FirstOfIs, ListedIs DEF ListInv, Listed
<1>4. /\ e \in GetFrame /\ Ages(top, e) /\ ~ e.called /\ e.get = top.get /\ e.hiked = top.hiked
      /\ ~ top.called => e.meddled = top.meddled
      /\ e.pc # "return"
  <2> USE DEF Settled, GetFrame, Ages, Stays, Fresh, IsGet
  <2>1. CASE top.called
    BY <1>1, <1>2, <2>1
  <2>2. CASE ~ top.called
    BY <1>1, <1>2, <2>2
  <2> QED BY <2>1, <2>2
<1> HIDE DEF e, a
<1>5. /\ f \in GetFrame /\ Ages(e, f) /\ ~ f.called /\ f.get = e.get /\ f.hiked = e.hiked
      /\ f.meddled = e.meddled /\ f.pc = "tes" /\ f.at = a /\ IsGet(f)
  BY <1>3, <1>4 DEF GetFrame, CallPc, Ages, Stays, Fresh, IsGet
<1> HIDE DEF f
<1>6. /\ g \in GetFrame /\ Ages(f, g) /\ ~ g.called /\ g.get = f.get
      /\ g.meddled = f.meddled /\ g.pc = "tes" /\ g.at = a /\ IsGet(g)
      /\ ~ g.hiked => ~ f.hiked /\ lastEvent' = NIL
  <2> USE DEF GetFrame, Ages, Stays, Fresh, IsGet
  <2>1. CASE lastEvent' = NIL
    BY <1>5, <2>1
  <2>2. CASE lastEvent' # NIL
    BY <1>5, <2>2
  <2> QED BY <2>1, <2>2
<1> HIDE DEF g
<1>7. Ages(top, g)
  BY <1>4, <1>5, <1>6, AgesTwice
<1>8. Shape(Len(stack)) /\ top' = g
  BY <1>1, <1>2, <1>6, <1>7, ShapeTop DEF Frame
<1>9. Knows(top, queue, lastEvent) /\ (Fresh(top) => mainCtx = top.get.ctxs)
  BY <1>1, <1>2, TopCall
<1>10. Placed(g) /\ (Fresh(g) => mainCtx' = g.get.ctxs)
  BY <1>1, <1>3, <1>4, <1>5, <1>6, <1>7, <1>9 DEF Placed, Ages
<1>11. Knows(g, queue', lastEvent')
  <2>1. g.get = top.get /\ (~ top.called => g.meddled = top.meddled)
    BY <1>4, <1>5, <1>6
  <2> QED BY <1>1, <1>2, <1>9, <2>1, SettledKnows
<1>12. (\A x : Looks(g, x)) /\ g.pc \notin {"recv", "return"}
  BY <1>6 DEF Looks
<1> QED BY <1>1, <1>4, <1>5, <1>6, <1>8, <1>10, <1>11, <1>12, CallThreads

LEMMA TEsCheckedThreads ==
  ASSUME Inv, Inv', Inv2, TEsChecked
  PROVE  Inv2'
<1> DEFINE a == FirstOf(FD)
           g == [top EXCEPT !.pc = "fds", !.at = a, !.swallowed = FALSE]
<1>1. /\ IsGet(top) /\ top.pc = "tes" /\ stack' = WithTop(g)
      /\ UNCHANGED <<thr, list, doomed, waiting, active, pipe, reply, sel, selMsg, data, late,
                     mainCtx, queue, lastEvent>>
  BY DEF TEsChecked, InCall, libVars, mainVars, selVars, worldVars, eventVars
<1>2. StackInv /\ ListInv /\ top \in GetFrame
  BY <1>1, StackAndNext, TopIs
<1>3. /\ a \in Item \cup {NIL} /\ (a # NIL => a[1] \in FD)
      /\ \A x \in Idle : a = x \/ Before(a, x)
  BY <1>2, FirstOfIs, ListedIs DEF ListInv, Listed, Idle, Live
<1> HIDE DEF a
<1>4. /\ g \in GetFrame /\ Ages(top, g) /\ IsGet(g)
      /\ g.pc = "fds" /\ g.at = a /\ g.get = top.get /\ g.hiked = top.hiked
      /\ g.called = top.called /\ g.meddled = top.meddled
  BY <1>1, <1>2, <1>3 DEF GetFrame, CallPc, Ages, Stays, Fresh, IsGet
<1> HIDE DEF g
<1>5. Shape(Len(stack)) /\ top' = g
  BY <1>1, <1>2, <1>4, ShapeTop DEF Frame
<1>6. /\ Knows(top, queue, lastEvent) /\ (~ top.hiked => thr = Own(top))
      /\ Fresh(top) => mainCtx = top.get.ctxs
  BY <1>1, <1>2, TopCall
<1>7. Knows(g, queue', lastEvent') /\ Placed(g) /\ (Fresh(g) => mainCtx' = g.get.ctxs)
  BY <1>1, <1>3, <1>4, <1>6, KnowsOn DEF Placed, Ages
<1>8. (\A x \in Idle : Looks(g, x)) /\ g.pc \notin {"recv", "return"}
  BY <1>3, <1>4 DEF Looks
<1> QED BY <1>1, <1>4, <1>5, <1>6, <1>7, <1>8, CallThreads

LEMMA FixAgainThreads ==
  ASSUME Inv, Inv', Inv2, FixAgain
  PROVE  Inv2'
<1> DEFINE n == Len(stack)
           g == [top EXCEPT !.stale = FALSE]
<1>1. /\ IsGet(top) /\ top.pc = "recv" /\ top.stale /\ FixMainSet(Outer(1), top, thr)
      /\ UNCHANGED <<thr, list, doomed, waiting, active, pipe, reply, sel, selMsg, data, late,
                     queue, lastEvent>>
  BY DEF FixAgain, InCall, libVars, selVars, worldVars, eventVars
<1>2. StackInv /\ top \in GetFrame
  BY <1>1, StackAndNext, TopIs
<1>3. n \in Nat \ {0} /\ n - 1 \in Nat /\ (n - 1) + 1 = n /\ top = stack[n] /\ 1 <= n
  BY <1>2, StackIs
<1>4. /\ g \in GetFrame /\ g \in Frame /\ Stays(top, g) /\ IsGet(g) /\ g.first = top.first
      /\ g.pc = "recv" /\ g.at = top.at /\ g.get = top.get /\ g.hiked = top.hiked
      /\ g.called = top.called /\ g.meddled = top.meddled /\ g.swallowed = top.swallowed
  BY <1>1, <1>2 DEF GetFrame, Stays, IsGet, Frame
<1>5. Marked(Outer(1), n - 1)
  BY <1>2, <1>3, MarkedOuter
<1>6. PICK s : /\ Marked(s, n - 1) /\ stack' = Append(s, g) /\ mainCtx' = top.get.ctxs
               /\ mainCtx' = mainCtx \/ \A i \in 1 .. n - 1 : ~ Fresh(s[i])
  <2> DEFINE s == IF mainPorts = Wanted(thr) /\ mainCtx = top.get.ctxs THEN Outer(1)
                  ELSE AllStale(Outer(1))
  <2>1. stack' = Append(s, g) /\ mainCtx' = top.get.ctxs
    BY <1>1 DEF FixMainSet
  <2>2. CASE mainPorts = Wanted(thr) /\ mainCtx = top.get.ctxs
    BY <1>5, <2>1, <2>2
  <2>3. CASE ~ (mainPorts = Wanted(thr) /\ mainCtx = top.get.ctxs)
    <3>1. s = AllStale(Outer(1))
      BY <2>3
    <3>2. Marked(AllStale(Outer(1)), n - 1) /\ \A i \in 1 .. n - 1 : ~ Fresh(AllStale(Outer(1))[i])
      BY <1>2, <1>3, <1>5, MarkedStale
    <3> QED BY <2>1, <3>1, <3>2
  <2> QED BY <2>2, <2>3
<1> HIDE DEF g
<1>7. Shape(n) /\ top' = g /\ \A i \in 1 .. n - 1 : stack'[i] = s[i]
  <2>1. StackInv /\ n - 1 \in Nat /\ Stays(stack[(n - 1) + 1], g)
    BY <1>2, <1>3, <1>4
  <2>2. g \in Frame /\ Marked(s, n - 1) /\ stack' = Append(s, g)
    BY <1>4, <1>6
  <2>3. Shape((n - 1) + 1) /\ top' = g /\ \A i \in 1 .. n - 1 : stack'[i] = s[i]
    BY ONLY <2>1, <2>2, ShapeAppend
  <2> QED BY <1>3, <2>3
<1>8. Knows(top, queue, lastEvent) /\ ~ top.called /\ (~ top.hiked => thr = Own(top))
  BY <1>1, <1>2, TopCall
<1>9. Knows(g, queue', lastEvent') /\ Placed(g) /\ (Fresh(g) => mainCtx' = g.get.ctxs)
  BY <1>1, <1>4, <1>6, <1>8, KnowsOn DEF Placed
<1>10. ASSUME NEW x \in Idle, Told(top, x)
       PROVE  sel.pc = "send" \/ selMsg' \/ g.swallowed \/ g.hiked \/ Looks(g, x)
  BY <1>1, <1>4, <1>10 DEF Told, Looks
<1> QED BY <1>1, <1>4, <1>6, <1>7, <1>8, <1>9, <1>10, CallThreads

\* A step that makes no fd ready and leaves no call, or ends one, or makes one.
LEMMA NextThreads ==
  ASSUME Inv, Inv', Inv2, NEW m, Shape(m), m = Len(stack) + 1 => ~ IsGet(top),
         ReplyInv', FdInv', DataInv', selMsg' \in BOOLEAN, Idle' \subseteq Idle,
         sel'.pc = "select" /\ ~ (waiting' \subseteq sel'.mask) => pipe' # {},
         ((sel.pc = "send" => sel'.pc = "send") /\ selMsg' = selMsg) \/ selMsg',
         \A y \in InUse', x \in Idle' : Before(y, x) => Before(y, x)',
         m = Len(stack) + 1 /\ IsGet(top') => top'.prev = thr,
         ~ IsGet(top') /\ m > 1 => thr' = ThrAt(m - 1),
         mainCtx' = mainCtx \/ \A i \in 1 .. m - 1 : ~ Fresh(stack'[i]),
         IsGet(top') => /\ Placed(top')
                        /\ ~ top'.hiked => thr' = Own(top')
                        /\ \A x \in Idle' : Above(x, Own(top')) => Told(top, x)'
                        /\ Fresh(top') => mainCtx' = top'.get.ctxs
                        /\ top'.pc \in {"recv", "return"} => ~ top'.called
                        /\ Knows(top', queue', lastEvent'),
         m = Len(stack) + 1 /\ top.event # NIL => stack'[m - 2].meddled,
         m = Len(stack) /\ ~ IsGet(top) /\ top.event # NIL =>
           stack'[m - 1].meddled \/ UNCHANGED <<queue, lastEvent>>
  PROVE  Inv2'
<1>1. /\ StackInv /\ StackInv' /\ LinkInv /\ ToldInv /\ NoticeInv
  BY ThreadsIs, StackAndNext
<1>2. LinkInv'
  BY <1>1, LinkNext
<1>3. \A k \in DOMAIN stack' : IsGet(stack'[k]) /\ ~ stack'[k].hiked => ThrAt(k)' = Own(stack'[k])
  BY <1>1, ThrNext
<1>4. \A k \in DOMAIN stack', x \in Idle' :
        IsGet(stack'[k]) /\ Above(x, Own(stack'[k])) => Told(stack[k], x)'
  BY <1>1, <1>2, ToldNext
<1>5. NoticeInv'
  BY <1>1, NoticeNext
<1>6. ToldInv'
  BY <1>3, <1>4 DEF ToldInv
<1> QED BY <1>2, <1>5, <1>6 DEF Inv2

LEMMA ReturnThreads ==
  ASSUME Inv, Inv', Inv2, Return
  PROVE  Inv2'
<1> DEFINE n == Len(stack)
           m == n - 1
<1>1. /\ IsGet(top) /\ thr' = top.prev /\ stack' = Outer(1)
      /\ UNCHANGED <<list, doomed, waiting, active, pipe, reply, sel, selMsg, data, late, mainCtx>>
  BY DEF Return, InCall, libVars, mainVars, selVars, worldVars
<1>2. /\ StackInv /\ StackInv' /\ FramesInv /\ ReplyInv /\ FdInv /\ DataInv /\ ToldInv
      /\ top.pc # "reply"
  BY <1>1, ThreadsIs, StackAndNext, TopCall
<1>3. n \in Nat \ {0} /\ top = stack[n] /\ n # 1
  BY <1>1, <1>2, StackIs DEF StackInv
<1>4. /\ m \in Nat \ {0} /\ m \in 1 .. n - 1 /\ m + 1 = n /\ m # n /\ m # n + 1 /\ 1 <= n
      /\ (m - 1) + 2 = n /\ n <= n
  <2>1. \A k \in Nat \ {0} : k # 1 =>
          /\ k - 1 \in Nat \ {0} /\ k - 1 \in 1 .. k - 1 /\ (k - 1) + 1 = k /\ k - 1 # k
          /\ k - 1 # k + 1 /\ 1 <= k /\ ((k - 1) - 1) + 2 = k /\ k <= k
    OBVIOUS
  <2> QED BY <1>3, <2>1
<1>5. Marked(stack', m)
  BY <1>1, <1>2, <1>4, MarkedOuter
<1> HIDE DEF m
<1>6. Shape(m) /\ top' = stack'[m] /\ Same(stack[m], top')
  BY <1>2, <1>4, <1>5, ShapePops
<1>7. ~ IsGet(stack[m]) /\ stack[m].pc = "run"
  <2>1. IsGet(stack[m + 1])
    BY <1>1, <1>3, <1>4
  <2> QED BY <1>2, <1>4, <2>1 DEF StackInv
<1>8. ~ IsGet(top') /\ top'.pc # "reply"
  BY <1>6, <1>7 DEF Same, Ages, Stays, IsGet
<1>9. InUse' = InUse
  <2>1. m = n - 1 /\ Becomes(m)
    BY <1>6 DEF m, Shape
  <2> QED BY <1>1, <1>2, <2>1, InUseBecomes
<1>10. ReplyInv' /\ FdInv' /\ DataInv' /\ Idle' \subseteq Idle
  BY <1>1, <1>2, <1>8, <1>9, LoopStill
<1>11. thr' = ThrAt(m - 1)
  BY <1>1, <1>3, <1>4 DEF ThrAt
<1>12. /\ selMsg' \in BOOLEAN
       /\ sel'.pc = "select" /\ ~ (waiting' \subseteq sel'.mask) => pipe' # {}
       /\ \A x, y : Before(y, x) => Before(y, x)'
  BY <1>1, <1>2, BeforeStays DEF ToldInv
<1> QED BY <1>1, <1>4, <1>6, <1>8, <1>10, <1>11, <1>12, NextThreads

\* A call that is made.
LEMMA CallThreadsMade ==
  ASSUME Inv, Inv', Inv2, Runs("get"), NEW s, Marked(s, Len(stack)), NEW g \in GetFrame,
         top.event # NIL /\ ~ IsGet(top) => s[Len(stack) - 1].meddled,
         stack' = Append(s, g), g.prev = thr, thr' = Own(g), g.at = FirstOf(FD),
         ~ g.hiked, ~ g.called, ~ g.meddled,
         g.pc \in {"fds0", "return"}, Fresh(g) => mainCtx' = g.get.ctxs,
         mainCtx' = mainCtx \/ \A i \in 1 .. Len(stack) : ~ Fresh(s[i]),
         lastEvent' = Matching(queue, g.get), UNCHANGED <<libVars, selVars, worldVars, queue>>
  PROVE  Inv2'
<1> DEFINE n == Len(stack)
           m == n + 1
<1>1. UNCHANGED <<list, doomed, waiting, active, pipe, reply, sel, selMsg, data, late>>
  BY DEF libVars, selVars, worldVars
<1>2. /\ StackInv /\ StackInv' /\ FramesInv /\ ListInv /\ EventInv /\ ReplyInv /\ FdInv
      /\ DataInv /\ ToldInv
  BY ThreadsIs, StackAndNext
<1>3. ~ IsGet(top) /\ top.pc # "reply"
  BY DEF Runs, IsGet
<1>4. IsGet(g) /\ g \in Frame /\ g.pc # "reply"
  BY DEF GetFrame, IsGet, Frame
<1>5. /\ n \in Nat \ {0} /\ n \in Nat /\ ~ (n < n) /\ m # n /\ m - 2 = n - 1 /\ m - 1 = n
      /\ n # 1 => n - 1 \in 1 .. n
  <2>1. \A k \in Nat : /\ k + 1 # k /\ (k + 1) - 2 = k - 1 /\ (k + 1) - 1 = k /\ ~ (k < k)
                       /\ k # 0 /\ k # 1 => k - 1 \in 1 .. k
    OBVIOUS
  <2> QED BY <1>2, <2>1, StackIs
<1>6. Shape(m) /\ top' = g /\ \A i \in 1 .. n : stack'[i] = s[i]
  <2>1. Marked(s, n) /\ stack' = Append(s, g)
    OBVIOUS
  <2> QED BY ONLY <1>2, <1>4, <1>5, <2>1, ShapeAppend
<1>7. InUse' = InUse
  <2>1. Becomes(n + 1)
    BY <1>6 DEF Shape
  <2>2. Shape(n + 1)
    BY <1>6
  <2>3. stack'[n + 1] = top'
    BY ONLY <1>2, <2>2, ShapeIs
  <2>4. IsGet(stack'[n + 1])
    BY <1>4, <1>6, <2>3
  <2>5. InUse' = InUse \cup {}
    BY <1>2, <2>1, <2>4, InUseBecomes
  <2> QED BY <2>5
<1>8. ReplyInv' /\ FdInv' /\ DataInv' /\ Idle' \subseteq Idle
  BY <1>1, <1>2, <1>3, <1>4, <1>6, <1>7, LoopStill
<1>9. /\ selMsg' \in BOOLEAN
      /\ sel'.pc = "select" /\ ~ (waiting' \subseteq sel'.mask) => pipe' # {}
      /\ \A x, y : Before(y, x) => Before(y, x)'
  BY <1>1, <1>2, BeforeStays DEF ToldInv
<1>10. Placed(g)
  BY <1>2, FirstOfIs DEF Placed, Listed
<1>11. Knows(g, queue', lastEvent')
  <2>1. UNCHANGED queue
    OBVIOUS
  <2> QED BY <1>2, <2>1, MatchingKnows
<1>12. ASSUME NEW x \in Idle' PROVE Told(top, x)'
  <2>1. top'.at = x \/ Before(top'.at, x)
    BY <1>2, <1>6, <1>8, FirstOfIs DEF Idle, Live
  <2>2. top'.pc \in {"fds0", "return"}
    BY <1>6
  <2>3. Looks(top, x)'
    BY <1>9, <2>1, <2>2 DEF Looks, Before
  <2> QED BY <2>3 DEF Told
<1>13. top.event # NIL => stack'[m - 2].meddled
  <2> SUFFICES ASSUME top.event # NIL PROVE stack'[m - 2].meddled
    OBVIOUS
  <2>1. s[n - 1].meddled
    BY <1>3
  <2>2. n # 1
    BY <1>2, StackIs DEF StackInv
  <2>3. n - 1 \in 1 .. n
    BY <1>5, <2>2
  <2> QED BY <1>5, <1>6, <2>1, <2>3
<1>14. mainCtx' = mainCtx \/ \A i \in 1 .. m - 1 : ~ Fresh(stack'[i])
  BY <1>5, <1>6
<1>15. /\ sel'.pc = sel.pc /\ selMsg' = selMsg
       /\ IsGet(top') /\ top'.prev = thr /\ Placed(top') /\ thr' = Own(top')
       /\ Fresh(top') => mainCtx' = top'.get.ctxs
       /\ ~ top'.called /\ Knows(top', queue', lastEvent')
  BY <1>1, <1>4, <1>6, <1>10, <1>11
<1> HIDE DEF m
<1> QED BY <1>3, <1>5, <1>6, <1>8, <1>9, <1>12, <1>13, <1>14, <1>15, NextThreads

LEMMA GetEventThreads ==
  ASSUME Inv, Inv', Inv2, NEW r \in uses.gets, GetEvent(r)
  PROVE  Inv2'
<1> DEFINE n == Len(stack)
           a == FirstFD(r)
           s == Meddled(stack)
           f == [Call(r) EXCEPT !.at = a]
           g == [f EXCEPT !.stale = FALSE]
           h == [f EXCEPT !.pc = "return"]
<1>1. /\ Runs("get") /\ thr' = Hardened(r.arg) /\ lastEvent' = Matching(queue, r)
      /\ \/ FixMainSet(s, f, thr')
         \/ stack' = Append(s, h) /\ UNCHANGED <<mainPorts, mainCtx>>
      /\ UNCHANGED <<libVars, selVars, worldVars, queue>>
  BY DEF GetEvent, mainVars
<1>2. StackInv /\ StackInv' /\ ~ IsGet(top)
  BY <1>1, StackAndNext DEF Runs, IsGet
<1>3. n \in Nat \ {0} /\ n \in 1 .. n + 1
  BY <1>2, StackIs
<1>4. /\ Marked(s, n)
      /\ top.event # NIL => s[n - 1].meddled
  BY <1>2, MarkedMeddled
<1>5. a = FirstOf(FD)
  BY DEF FirstFD
<1> HIDE DEF a
<1>6. /\ g.prev = thr /\ g.get = r /\ g.at = a /\ ~ g.hiked /\ ~ g.called /\ ~ g.meddled
      /\ g.pc = "fds0"
      /\ h.prev = thr /\ h.get = r /\ h.at = a /\ ~ h.hiked /\ ~ h.called /\ ~ h.meddled
      /\ h.pc = "return" /\ f.get = r /\ ~ Fresh(h)
      /\ IsGet(g) /\ IsGet(h)
  BY DEF Call, Fresh, IsGet
<1> HIDE DEF f, g, h
<1>7. Hardened(r.arg) = Own(g) /\ Hardened(r.arg) = Own(h)
  BY <1>6 DEF Hardened, Own
<1>8. ASSUME NEW e, NEW t, stack' = Append(t, e), Marked(t, n), IsGet(e)
      PROVE  e \in GetFrame
  <2>1. t \in Seq(Frame) /\ Len(t) = n
    BY <1>8 DEF Marked, Aged
  <2>2. stack' \in Seq(Frame)
    BY <1>2 DEF StackInv
  <2>3. Len(stack') = n + 1 /\ stack'[n + 1] = e /\ n + 1 \in 1 .. Len(stack')
    <3>1. n + 1 \in 1 .. n + 1 /\ ~ (n + 1 <= n)
      BY <1>3
    <3> QED BY <1>8, <2>1, <3>1
  <2>4. e \in Frame
    BY <2>2, <2>3, ElementOfSeq
  <2> QED BY <1>8, <2>4, FrameIs
<1>9. ASSUME FixMainSet(s, f, thr')
      PROVE  Inv2'
  <2>1. PICK t : /\ Marked(t, n) /\ stack' = Append(t, g) /\ mainCtx' = r.ctxs
                 /\ mainCtx' = mainCtx \/ \A i \in 1 .. n : ~ Fresh(t[i])
                 /\ top.event # NIL => t[n - 1].meddled
    <3> DEFINE t == IF mainPorts = Wanted(thr') /\ mainCtx = r.ctxs THEN s ELSE AllStale(s)
    <3>1. stack' = Append(t, g) /\ mainCtx' = r.ctxs
      BY <1>6, <1>9 DEF FixMainSet, g
    <3>2. CASE mainPorts = Wanted(thr') /\ mainCtx = r.ctxs
      BY <1>4, <3>1, <3>2
    <3>3. CASE ~ (mainPorts = Wanted(thr') /\ mainCtx = r.ctxs)
      <4>1. /\ Marked(AllStale(s), n)
            /\ \A i \in 1 .. n : /\ ~ Fresh(AllStale(s)[i])
                                 /\ IsGet(s[i]) => AllStale(s)[i].meddled = s[i].meddled
        BY <1>2, <1>3, <1>4, MarkedStale
      <4>2. ASSUME top.event # NIL PROVE AllStale(s)[n - 1].meddled
        <5>1. n # 1
          BY <1>2, <4>2, StackIs DEF StackInv
        <5>2. n - 1 \in 1 .. n - 1 /\ n - 1 \in 1 .. n /\ (n - 1) + 1 = n
          <6>1. \A k \in Nat \ {0} : k # 1 =>
                  k - 1 \in 1 .. k - 1 /\ k - 1 \in 1 .. k /\ (k - 1) + 1 = k
            OBVIOUS
          <6> QED BY <1>3, <5>1, <6>1
        <5>3. IsGet(stack[(n - 1) + 1]) <=> ~ IsGet(stack[n - 1])
          BY <1>2, <5>2 DEF StackInv
        <5>4. IsGet(stack[n - 1])
          BY <1>2, <5>2, <5>3, StackIs
        <5>5. IsGet(s[n - 1])
          BY <1>3, <1>4, <5>2, <5>4, MarkedIs
        <5> QED BY <1>4, <4>1, <4>2, <5>2, <5>5
      <4>3. t = AllStale(s)
        BY <3>3
      <4> QED BY <3>1, <4>1, <4>2, <4>3
    <3> QED BY <3>2, <3>3
  <2>2. g \in GetFrame
    BY <1>6, <1>8, <2>1
  <2>3. /\ thr' = Own(g) /\ lastEvent' = Matching(queue, g.get) /\ mainCtx' = g.get.ctxs
        /\ g.at = FirstOf(FD) /\ g.pc \in {"fds0", "return"}
    BY <1>1, <1>5, <1>6, <1>7, <2>1
  <2> QED BY <1>1, <1>2, <1>6, <2>1, <2>2, <2>3, CallThreadsMade
<1>10. ASSUME stack' = Append(s, h), UNCHANGED <<mainPorts, mainCtx>>
       PROVE  Inv2'
  <2>1. h \in GetFrame
    BY <1>4, <1>6, <1>8, <1>10
  <2>2. /\ thr' = Own(h) /\ lastEvent' = Matching(queue, h.get)
        /\ h.at = FirstOf(FD) /\ h.pc \in {"fds0", "return"}
    BY <1>1, <1>5, <1>6, <1>7
  <2> HIDE DEF s
  <2> QED BY <1>1, <1>2, <1>4, <1>6, <1>10, <2>1, <2>2, CallThreadsMade
<1> QED BY <1>1, <1>9, <1>10

\* The event proc's call goes on.
LEMMA FilterReturnsThreads ==
  ASSUME Inv, Inv', Inv2, FilterReturns
  PROVE  Inv2'
<1> DEFINE n == Len(stack)
           m == n - 1
<1>1. /\ ~ IsGet(top) /\ top.pc = "run" /\ top.event # NIL /\ stack' = Outer(1)
      /\ QueueEvent(top.event, below.get) \/ UNCHANGED <<queue, lastEvent>>
      /\ UNCHANGED <<thr, list, doomed, waiting, active, pipe, reply, sel, selMsg, data, late,
                     mainCtx>>
  BY DEF FilterReturns, IsGet, libVars, mainVars, selVars, worldVars
<1>2. /\ StackInv /\ StackInv' /\ FramesInv /\ EventInv /\ ReplyInv /\ FdInv /\ DataInv
      /\ ToldInv /\ LinkInv /\ NoticeInv
  BY ThreadsIs, StackAndNext
<1>3. top.item = NIL /\ top.event \in Event
  BY <1>1, <1>2, TopIs DEF ProgFrame
<1>4. /\ n \in Nat /\ n >= 3 /\ below = stack[m] /\ IsGet(below) /\ below \in GetFrame
      /\ below.pc = "recv" /\ top = stack[n]
  BY <1>1, <1>2, <1>3, BelowIs, StackIs
<1>5. /\ m \in Nat \ {0} /\ m \in 1 .. n /\ m \in 1 .. m /\ n \in 1 .. n /\ m # n /\ m # n + 1
      /\ 1 <= n /\ ~ (m + 2 <= n) /\ n - 1 = m /\ m < n /\ n # m
  BY <1>4
<1>6. Marked(stack', m) /\ stack'[m] = stack[m]
  BY <1>1, <1>2, <1>5, MarkedOuter
<1> HIDE DEF m
<1>7. Shape(m) /\ top' = below
  BY <1>2, <1>4, <1>5, <1>6, ShapePops
<1>8. InUse' = InUse
  <2>1. m = n - 1 /\ Becomes(m)
    BY <1>7 DEF m, Shape
  <2> QED BY <1>1, <1>2, <1>3, <2>1, InUseBecomes
<1>9. ReplyInv' /\ FdInv' /\ DataInv' /\ Idle' \subseteq Idle
  BY <1>1, <1>2, <1>4, <1>7, <1>8, LoopStill
<1>10. /\ selMsg' \in BOOLEAN
       /\ sel'.pc = "select" /\ ~ (waiting' \subseteq sel'.mask) => pipe' # {}
       /\ \A x, y : Before(y, x) => Before(y, x)'
  BY <1>1, <1>2, BeforeStays DEF ToldInv
<1>11. /\ Placed(below)
       /\ ~ below.hiked => thr = Own(below)
       /\ \A x \in Idle : Above(x, Own(below)) => Told(below, x)
  BY <1>2, <1>4, <1>5, StackIs DEF LinkInv, ToldInv, ThrAt
<1>12. ASSUME NEW x \in Idle', Above(x, Own(top')) PROVE Told(top, x)'
  <2>1. Told(below, x)
    BY <1>7, <1>9, <1>11, <1>12
  <2> QED BY <1>1, <1>7, <1>10, <2>1 DEF Told, Looks
<1>13. /\ Fresh(below) => mainCtx = below.get.ctxs
       /\ ~ below.called
       /\ top.event.ctxt \in below.get.ctxs
       /\ Knows(below, queue, lastEvent)
  <2>1. NoticeAt(m) /\ NoticeAt(n)
    BY <1>2, <1>5, StackIs DEF NoticeInv
  <2>2. ~ below.called /\ (Fresh(below) => mainCtx = below.get.ctxs)
    BY <1>4, <2>1 DEF NoticeAt
  <2>3. /\ top.event.ctxt \in below.get.ctxs
        /\ below.meddled \/ Knows(below, queue, lastEvent)
    BY <1>1, <1>4, <1>5, <2>1 DEF NoticeAt
  <2> QED BY <2>2, <2>3 DEF Knows
<1>14. Knows(below, queue', lastEvent')
  <2>1. CASE QueueEvent(top.event, below.get)
    BY <1>2, <1>3, <1>13, <2>1, QueuedKnows
  <2>2. CASE UNCHANGED <<queue, lastEvent>>
    BY <1>13, <2>2
  <2> QED BY <1>1, <2>1, <2>2
<1>15. /\ Placed(top') /\ (~ top'.hiked => thr' = Own(top'))
       /\ Fresh(top') => mainCtx' = top'.get.ctxs
       /\ ~ top'.called /\ Knows(top', queue', lastEvent')
  BY <1>1, <1>7, <1>11, <1>13, <1>14
<1>16. IsGet(top') /\ sel'.pc = sel.pc /\ selMsg' = selMsg /\ mainCtx' = mainCtx
  BY <1>1, <1>4, <1>7
<1> QED BY <1>5, <1>7, <1>9, <1>10, <1>12, <1>15, <1>16, NextThreads

\* A program that changes the queue.
LEMMA MeddlesThreads ==
  ASSUME Inv, Inv', Inv2, NEW op, Runs(op), stack' = Meddled(stack),
         UNCHANGED <<thr, libVars, mainVars, selVars, worldVars>>
  PROVE  Inv2'
<1> DEFINE n == Len(stack)
<1>1. /\ UNCHANGED <<thr, list, doomed, waiting, active, pipe, reply, sel, selMsg, data, late,
                     mainCtx>>
  BY DEF libVars, mainVars, selVars, worldVars
<1>2. /\ StackInv /\ StackInv' /\ FramesInv /\ ReplyInv /\ FdInv /\ DataInv /\ ToldInv
  BY ThreadsIs, StackAndNext
<1>3. ~ IsGet(top) /\ top.pc # "reply"
  BY DEF Runs, IsGet
<1>4. n \in Nat \ {0} /\ n # n + 1 /\ ~ ((n - 1) + 2 <= n)
  <2>1. \A k \in Nat : k # k + 1 /\ ~ ((k - 1) + 2 <= k)
    OBVIOUS
  <2> QED BY <1>2, <2>1, StackIs
<1>5. /\ Marked(stack', n) /\ stack'[n] = top
      /\ top.event # NIL => stack'[n - 1].meddled
  BY <1>2, <1>3, MarkedMeddled
<1>6. Shape(n) /\ top' = top
  BY <1>2, <1>4, <1>5, ShapePops
<1>7. InUse' = InUse
  BY <1>2, <1>6, InUseBecomes DEF Shape
<1>8. ReplyInv' /\ FdInv' /\ DataInv' /\ Idle' \subseteq Idle
  BY <1>1, <1>2, <1>3, <1>6, <1>7, LoopStill
<1>9. /\ selMsg' \in BOOLEAN
      /\ sel'.pc = "select" /\ ~ (waiting' \subseteq sel'.mask) => pipe' # {}
      /\ \A x, y : Before(y, x) => Before(y, x)'
  BY <1>1, <1>2, BeforeStays DEF ToldInv
<1>10. thr' = ThrAt(n - 1)
  BY <1>1, <1>4 DEF ThrAt
<1>11. ~ IsGet(top') /\ sel'.pc = sel.pc /\ selMsg' = selMsg /\ mainCtx' = mainCtx
  BY <1>1, <1>3, <1>6
<1> QED BY <1>4, <1>5, <1>6, <1>8, <1>9, <1>10, <1>11, NextThreads

LEMMA QueueThreads ==
  ASSUME Inv, Inv', Inv2,
         \/ \E e, atStart : DPSPostEvent(e, atStart)
         \/ \E f : DPSDiscardEvents(f)
         \/ \E flag : DPSSetTracking(flag)
  PROVE  Inv2'
<1>1. \E op : Runs(op)
  BY DEF DPSPostEvent, DPSDiscardEvents, DPSSetTracking
<1>2. stack' = Meddled(stack) /\ UNCHANGED <<thr, libVars, mainVars, selVars, worldVars>>
  BY DEF DPSPostEvent, DPSDiscardEvents, DPSSetTracking
<1> QED BY <1>1, <1>2, MeddlesThreads

\* An fd has one item that is not being freed.
LEMMA OneLive ==
  ASSUME ListInv, FdInv, NEW x \in Live, NEW y \in Live, x[1] = y[1]
  PROVE  x = y
<1>1. x \in Range(list) /\ y \in Range(list) /\ x \in Listed(FD) /\ y \in Listed(FD)
      /\ x \notin doomed /\ y \notin doomed
  BY DEF Live, Listed
<1>2. Before(x, y) \/ x = y \/ Before(y, x)
  BY <1>1, BeforeIs
<1> QED BY <1>1, <1>2 DEF FdInv

\* What the end of a proc does to the fds.
LEMMA FinishThreads ==
  ASSUME ListInv, ReplyInv, FdInv, DataInv, NEW x \in Item, x \in InUse, Finish(x),
         top.pc # "reply", top'.pc # "reply", InUse' = InUse \ {x},
         UNCHANGED <<sel, reply, data>>
  PROVE  /\ ReplyInv' /\ FdInv' /\ DataInv' /\ Idle' \subseteq Idle
         /\ x \notin Idle'
         /\ (waiting' = waiting /\ pipe' = pipe) \/ pipe' # {}
         /\ \A y, z : Before(y, z) /\ y # x /\ z # x => Before(y, z)'
<1>1. \A fd : ~ Removing(fd) /\ ~ Removing(fd)'
  BY DEF Removing
<1>2. x \in Range(list)
  BY DEF ListInv
<1>3. CASE x \in doomed
  <2>1. /\ Unlink(x) /\ doomed' = doomed \ {x} /\ late' = late \ {x}
        /\ UNCHANGED <<waiting, active, pipe>>
    BY <1>3 DEF Finish, Freed, LateWithout
  <2>2. Range(list') = Range(list) \ {x}
    BY <2>1, UnlinkIs
  <2>3. Live' = Live /\ x \notin Live /\ Listed(FD)' = Listed(FD) \ {x}
    BY <1>3, <2>1, <2>2 DEF Live, Listed
  <2>4. Idle' = Idle /\ x \notin Idle
    BY <2>1, <2>3 DEF Idle
  <2>5. \A y, z : /\ Before(y, z)' => Before(y, z)
                  /\ Before(y, z) /\ y # x /\ z # x => Before(y, z)'
    BY <2>1, UnlinkOrder
  <2>6. ReplyInv'
    BY <2>1 DEF ReplyInv
  <2>7. FdInv'
    <3>1. \A y, z \in Listed(FD)' : Before(y, z)' /\ y[1] = z[1] => z \in doomed'
      BY <2>1, <2>3, <2>5 DEF FdInv
    <3>2. waiting' \cap active' = {}
      BY <2>1 DEF FdInv
    <3>3. \A fd \in waiting' \cup active' : ~ Removing(fd)' /\ \E y \in Live' : y[1] = fd
      BY <1>1, <2>1, <2>3 DEF FdInv
    <3>4. \A y \in Live' : \/ y[1] \in active' \/ Removing(y[1])'
                           \/ y[1] \in waiting' /\ y \notin InUse'
      BY <1>1, <2>1, <2>3 DEF FdInv
    <3>5. sel'.pc \in {"select", "drain", "apply"} => sel'.mask \cap active' = {}
      BY <2>1 DEF FdInv
    <3>6. sel'.pc \in {"select", "drain"} =>
            \A fd \in sel'.mask : fd \in waiting' \/ (Removing(fd)' /\ ~ reply')
      BY <1>1, <2>1 DEF FdInv
    <3> QED BY <3>1, <3>2, <3>3, <3>4, <3>5, <3>6 DEF FdInv
  <2>8. DataInv'
    <3>1. \A y \in Live : y # x
      BY <2>3
    <3>2. \A y \in Idle' : y[1] \in data' \/ y \in late'
      BY <2>1, <2>4 DEF DataInv
    <3>3. sel'.pc \in {"drain", "apply"} =>
            \A y \in Live' : y[1] \in sel'.mask \cap waiting' => y[1] \in data' \/ y \in late'
      BY <2>1, <2>3, <3>1 DEF DataInv
    <3> QED BY <3>2, <3>3 DEF DataInv
  <2> QED BY <2>1, <2>4, <2>5, <2>6, <2>7, <2>8
<1>4. CASE x \notin doomed /\ x[1] \in FD
  <2>1. /\ waiting' = waiting \cup {x[1]} /\ active' = active \ {x[1]}
        /\ pipe' = pipe \cup {"simple"} /\ late' = late \ {x} /\ UNCHANGED <<list, doomed>>
    BY <1>4 DEF Finish, LateWithout
  <2>2. x \in Live /\ Live' = Live /\ Listed(FD)' = Listed(FD)
    BY <1>2, <1>4, <2>1 DEF Live, Listed
  <2>3. x[1] \in active
    BY <1>1, <2>2 DEF FdInv
  <2>4. \A y \in Live : y[1] = x[1] => y = x
    BY <2>2, OneLive
  <2>5. Idle' \subseteq Idle /\ x \notin Idle' /\ \A y \in Idle' : y # x
    BY <2>1, <2>2 DEF Idle
  <2>6. ReplyInv'
    BY <2>1 DEF ReplyInv
  <2>7. FdInv'
    <3>1. \A y, z \in Listed(FD)' : Before(y, z)' /\ y[1] = z[1] => z \in doomed'
      BY <2>1, <2>2, BeforeStays DEF FdInv
    <3>2. waiting' \cap active' = {}
      BY <2>1 DEF FdInv
    <3>3. \A fd \in waiting' \cup active' : ~ Removing(fd)' /\ \E y \in Live' : y[1] = fd
      BY <1>1, <2>1, <2>2 DEF FdInv
    <3>4. ASSUME NEW y \in Live'
          PROVE  \/ y[1] \in active' \/ Removing(y[1])'
                 \/ y[1] \in waiting' /\ y \notin InUse'
      <4>1. CASE y = x
        BY <2>1, <4>1
      <4>2. CASE y # x
        BY <1>1, <2>1, <2>2, <2>4, <4>2 DEF FdInv
      <4> QED BY <4>1, <4>2
    <3>5. sel'.pc \in {"select", "drain", "apply"} => sel'.mask \cap active' = {}
      BY <2>1 DEF FdInv
    <3>6. sel'.pc \in {"select", "drain"} =>
            \A fd \in sel'.mask : fd \in waiting' \/ (Removing(fd)' /\ ~ reply')
      BY <1>1, <2>1 DEF FdInv
    <3> QED BY <3>1, <3>2, <3>3, <3>4, <3>5, <3>6 DEF FdInv
  <2>8. DataInv'
    <3>1. \A y \in Idle' : y[1] \in data' \/ y \in late'
      BY <2>1, <2>5 DEF DataInv
    <3>2. ASSUME sel'.pc \in {"drain", "apply"}, NEW y \in Live', y[1] \in sel'.mask \cap waiting'
          PROVE  y[1] \in data' \/ y \in late'
      <4>1. x[1] \notin sel.mask
        BY <2>3, <3>2 DEF FdInv
      <4>2. y[1] \in sel.mask \cap waiting /\ y # x
        BY <2>1, <3>2, <4>1
      <4> QED BY <2>1, <2>2, <3>2, <4>2 DEF DataInv
    <3> QED BY <3>1, <3>2 DEF DataInv
  <2> QED BY <2>1, <2>5, <2>6, <2>7, <2>8, BeforeStays
<1>5. CASE x \notin doomed /\ x[1] \notin FD
  <2>1. UNCHANGED <<list, doomed, waiting, active, pipe, late>>
    BY <1>5 DEF Finish, libVars
  <2>2. x \notin Live /\ Live' = Live /\ Listed(FD)' = Listed(FD)
    BY <1>5, <2>1 DEF Live, Listed
  <2>3. Idle' = Idle /\ x \notin Idle
    BY <2>1, <2>2 DEF Idle
  <2>4. ReplyInv'
    BY <2>1 DEF ReplyInv
  <2>5. FdInv'
    <3>1. \A y, z \in Listed(FD)' : Before(y, z)' /\ y[1] = z[1] => z \in doomed'
      BY <2>1, <2>2, BeforeStays DEF FdInv
    <3>2. waiting' \cap active' = {}
      BY <2>1 DEF FdInv
    <3>3. \A fd \in waiting' \cup active' : ~ Removing(fd)' /\ \E y \in Live' : y[1] = fd
      BY <1>1, <2>1, <2>2 DEF FdInv
    <3>4. \A y \in Live' : \/ y[1] \in active' \/ Removing(y[1])'
                           \/ y[1] \in waiting' /\ y \notin InUse'
      BY <1>1, <2>1, <2>2 DEF FdInv
    <3>5. sel'.pc \in {"select", "drain", "apply"} => sel'.mask \cap active' = {}
      BY <2>1 DEF FdInv
    <3>6. sel'.pc \in {"select", "drain"} =>
            \A fd \in sel'.mask : fd \in waiting' \/ (Removing(fd)' /\ ~ reply')
      BY <1>1, <2>1 DEF FdInv
    <3> QED BY <3>1, <3>2, <3>3, <3>4, <3>5, <3>6 DEF FdInv
  <2>6. DataInv'
    BY <2>1, <2>2, <2>3 DEF DataInv
  <2> QED BY <2>1, <2>3, <2>4, <2>5, <2>6, BeforeStays
<1> QED BY <1>3, <1>4, <1>5

\* The call goes on behind the item, and calls whatever it had not come to.
LEMMA CalledIs ==
  ASSUME ListInv, NEW f \in GetFrame, NEW x \in Item, x \in Range(list), NEW g, g = Called(f, x),
         NEW h, h.item = x, Linked(f, h)
  PROVE  /\ g \in GetFrame /\ Ages(f, g) /\ IsGet(g) /\ Placed(g) /\ g.get = f.get /\ g.called
         /\ g.hiked = f.hiked /\ g.swallowed = f.swallowed /\ g.prev = f.prev
         /\ g.pc \in {"after", "fds0", "fds", "tes"}
         /\ \A y \in Listed(FD) : Looks(f, y) /\ y # x =>
              \/ g.pc \in {"after", "tes"}
              \/ g.pc \in {"fds0", "fds"} /\ (g.at = y \/ Before(g.at, y))
         /\ g.pc \in {"fds0", "fds"} => g.at # x
<1>1. x # NIL
  OBVIOUS
<1>2. CASE x[1] \in Port
  <2>1. g = [f EXCEPT !.called = TRUE, !.pc = "after"]
    BY <1>2 DEF Called
  <2>2. f.pc = "recv"
    BY <1>1, <1>2 DEF Linked
  <2>3. /\ g \in GetFrame /\ IsGet(g) /\ g.get = f.get /\ g.called /\ g.hiked = f.hiked
        /\ g.swallowed = f.swallowed /\ g.prev = f.prev /\ g.pc = "after"
    BY <2>1 DEF GetFrame, CallPc, IsGet
  <2>4. Ages(f, g)
    BY <2>1, <2>2 DEF GetFrame, Ages, Stays, Fresh, IsGet
  <2> QED BY <2>3, <2>4 DEF Placed
<1>3. CASE x[1] \notin Port
  <2> DEFINE keys == IF x[1] \in FD THEN FD ELSE Timer
             a == After(x, keys)
  <2>1. g = [f EXCEPT !.called = TRUE, !.at = a]
    BY <1>3 DEF Called
  <2>2. /\ a \in Item \cup {NIL} /\ (a # NIL => a[1] \in keys) /\ a # x
        /\ \A y \in Listed(keys) : Before(x, y) => a = y \/ Before(a, y)
    BY <1>1, ListedIs, AfterIs, AfterNext DEF ListInv, Listed
  <2>3. \/ x[1] \in FD /\ f.pc \in {"fds0", "fds"} /\ f.at = x
        \/ x[1] \in Timer /\ f.pc = "tes"
    BY <1>1, <1>3 DEF Linked
  <2>4. keys = IF x[1] \in FD THEN FD ELSE Timer
    OBVIOUS
  <2> HIDE DEF keys, a
  <2>5. /\ g \in GetFrame /\ IsGet(g) /\ g.get = f.get /\ g.called /\ g.hiked = f.hiked
        /\ g.swallowed = f.swallowed /\ g.prev = f.prev /\ g.pc = f.pc /\ g.at = a
    BY <2>1, <2>2 DEF GetFrame, IsGet
  <2>6. Ages(f, g)
    BY <2>1 DEF GetFrame, Ages, Stays, Fresh, IsGet
  <2>7. Placed(g)
    <3>1. x[1] \in FD => x[1] \notin Timer
      OBVIOUS
    <3> QED BY <2>2, <2>3, <2>4, <2>5, <3>1 DEF Placed
  <2>8. ASSUME NEW y \in Listed(FD), Looks(f, y), y # x
        PROVE  \/ g.pc \in {"after", "tes"}
               \/ g.pc \in {"fds0", "fds"} /\ (g.at = y \/ Before(g.at, y))
    <3>1. CASE x[1] \in FD /\ f.pc \in {"fds0", "fds"} /\ f.at = x
      <4>1. Before(x, y) /\ keys = FD
        BY <2>4, <2>8, <3>1 DEF Looks
      <4> QED BY <2>2, <2>5, <3>1, <4>1
    <3>2. CASE f.pc = "tes"
      BY <2>5, <3>2
    <3> QED BY <2>3, <3>1, <3>2
  <2> QED BY <2>2, <2>3, <2>5, <2>6, <2>7, <2>8
<1> QED BY <1>2, <1>3

LEMMA ProcReturnsThreads ==
  ASSUME Inv, Inv', Inv2, ProcReturns
  PROVE  Inv2'
<1> DEFINE n == Len(stack)
           m == n - 1
           x == top.item
           g == Called(below, x)
<1>1. /\ ~ IsGet(top) /\ top.pc = "run" /\ x # NIL /\ Finish(x) /\ stack' = Append(Outer(2), g)
      /\ UNCHANGED <<thr, mainCtx, sel, selMsg, reply, data, queue, lastEvent>>
  BY DEF ProcReturns, InProc, IsGet, mainVars, selVars, eventVars
<1>2. /\ StackInv /\ StackInv' /\ FramesInv /\ ListInv /\ ReplyInv /\ FdInv /\ DataInv
      /\ ToldInv /\ LinkInv /\ NoticeInv
  BY ThreadsIs, StackAndNext
<1>3. x \in Item
  BY <1>1, <1>2, TopIs DEF ProgFrame
<1>4. /\ n \in Nat /\ n >= 3 /\ below = stack[m] /\ IsGet(below) /\ below \in GetFrame
      /\ top = stack[n] /\ DOMAIN stack = 1 .. n
  BY <1>1, <1>2, BelowIs, StackIs
<1>5. /\ m \in Nat \ {0} /\ m \in 1 .. n /\ n \in 1 .. n /\ m # n /\ m # n + 1 /\ m < n
      /\ 2 <= n /\ ~ (m + 2 <= n) /\ n - 2 \in Nat /\ (n - 2) + 1 = m /\ m + 1 = n
  <2>1. \A k \in Nat : k >= 3 =>
          /\ k - 1 \in Nat \ {0} /\ k - 1 \in 1 .. k /\ k \in 1 .. k /\ k - 1 # k
          /\ k - 1 # k + 1 /\ k - 1 < k /\ 2 <= k /\ ~ ((k - 1) + 2 <= k) /\ k - 2 \in Nat
          /\ (k - 2) + 1 = k - 1 /\ (k - 1) + 1 = k
    OBVIOUS
  <2> QED BY <1>4, <2>1
<1>6. x \in InUse /\ x \in Range(list)
  <2>1. n \notin Gets
    BY <1>1, <1>4 DEF Gets
  <2>2. x \in InUse
    BY <1>1, <1>4, <1>5, <2>1 DEF InUse
  <2> QED BY <1>2, <2>2 DEF ListInv
<1>7. /\ Placed(below) /\ Linked(below, top) /\ (~ below.hiked => thr = Own(below))
      /\ \A y \in Idle : Above(y, Own(below)) => Told(below, y)
      /\ Fresh(below) => mainCtx = below.get.ctxs
  BY <1>2, <1>4, <1>5 DEF LinkInv, ToldInv, ThrAt, NoticeInv, NoticeAt
<1>8. /\ g \in GetFrame /\ Ages(below, g) /\ IsGet(g) /\ Placed(g) /\ g.get = below.get /\ g.called
      /\ g.hiked = below.hiked /\ g.swallowed = below.swallowed /\ g.prev = below.prev
      /\ g.pc \in {"after", "fds0", "fds", "tes"}
      /\ \A y \in Listed(FD) : Looks(below, y) /\ y # x =>
           \/ g.pc \in {"after", "tes"}
           \/ g.pc \in {"fds0", "fds"} /\ (g.at = y \/ Before(g.at, y))
      /\ g.pc \in {"fds0", "fds"} => g.at # x
  BY <1>2, <1>3, <1>4, <1>6, <1>7, CalledIs
<1> HIDE DEF g
<1>9. Marked(Outer(2), n - 2)
  BY <1>2, <1>5, MarkedOuter
<1>10. Shape(m) /\ top' = g
  <2>1. StackInv /\ n - 2 \in Nat /\ Stays(stack[(n - 2) + 1], g) /\ g \in Frame
    BY <1>2, <1>4, <1>5, <1>8 DEF Ages, Frame
  <2>2. stack' = Append(Outer(2), g)
    BY <1>1
  <2>3. Shape((n - 2) + 1) /\ top' = g
    BY ONLY <1>9, <2>1, <2>2, ShapeAppend
  <2> QED BY <1>5, <2>3
<1>11. InUse' = InUse \ {x}
  BY <1>1, <1>2, <1>10, InUseBecomes DEF Shape
<1> HIDE DEF m
<1>12. /\ ReplyInv' /\ FdInv' /\ DataInv' /\ Idle' \subseteq Idle
       /\ x \notin Idle'
       /\ (waiting' = waiting /\ pipe' = pipe) \/ pipe' # {}
       /\ \A y, z : Before(y, z) /\ y # x /\ z # x => Before(y, z)'
  <2>1. top.pc # "reply" /\ top'.pc # "reply"
    BY <1>1, <1>8, <1>10
  <2> HIDE DEF x
  <2> QED BY <1>1, <1>2, <1>3, <1>6, <1>11, <2>1, FinishThreads
<1>13. selMsg' \in BOOLEAN /\ (sel'.pc = "select" /\ ~ (waiting' \subseteq sel'.mask) => pipe' # {})
  BY <1>1, <1>2, <1>12 DEF ToldInv
<1>14. \A y \in InUse', z \in Idle' : Before(y, z) => Before(y, z)'
  BY <1>11, <1>12
<1>15. ASSUME NEW y \in Idle', Above(y, Own(top')) PROVE Told(top, y)'
  <2>1. y \in Idle /\ y # x /\ y \in Listed(FD)
    BY <1>12 DEF Idle, Live
  <2>2. Told(below, y)
    BY <1>7, <1>8, <1>10, <1>15, <2>1 DEF Own
  <2>3. CASE Looks(below, y)
    <3>1. CASE g.pc \in {"after", "tes"}
      BY <1>10, <3>1 DEF Told, Looks
    <3>2. CASE g.pc \in {"fds0", "fds"} /\ (g.at = y \/ Before(g.at, y))
      <4>1. PICK a : a = g.at
        OBVIOUS
      <4>2. a = y \/ Before(a, y)'
        BY <1>8, <1>12, <2>1, <3>2, <4>1
      <4>3. top'.at = a
        BY <1>10, <4>1
      <4>4. top'.at = y \/ Before(top.at, y)'
        BY <4>2, <4>3 DEF Before
      <4>5. Looks(top, y)'
        BY <1>10, <3>2, <4>4 DEF Looks
      <4> QED BY <4>5 DEF Told
    <3> QED BY <1>8, <2>1, <2>3, <3>1, <3>2
  <2>4. CASE ~ Looks(below, y)
    BY <1>1, <1>8, <1>10, <2>2, <2>4 DEF Told
  <2> QED BY <2>3, <2>4
<1>16. /\ IsGet(top') /\ Placed(top') /\ (~ top'.hiked => thr' = Own(top'))
       /\ Fresh(top') => mainCtx' = top'.get.ctxs
       /\ top'.pc \notin {"recv", "return"} /\ Knows(top', queue', lastEvent')
  BY <1>1, <1>7, <1>8, <1>10 DEF Own, Ages, Knows
<1> QED BY <1>1, <1>5, <1>10, <1>12, <1>13, <1>14, <1>15, <1>16, NextThreads

LEMMA ProcRaisesThreads ==
  ASSUME Inv, Inv', Inv2, ProcRaises
  PROVE  Inv2'
<1> DEFINE n == Len(stack)
           m == n - 2
           x == top.item
<1>1. /\ ~ IsGet(top) /\ top.pc = "run" /\ x # NIL /\ Finish(x) /\ stack' = Outer(2)
      /\ thr' = below.prev
      /\ UNCHANGED <<mainCtx, sel, selMsg, reply, data, queue, lastEvent>>
  BY DEF ProcRaises, InProc, IsGet, mainVars, selVars, eventVars
<1>2. /\ StackInv /\ StackInv' /\ FramesInv /\ ListInv /\ ReplyInv /\ FdInv /\ DataInv
      /\ ToldInv
  BY ThreadsIs, StackAndNext
<1>3. x \in Item
  BY <1>1, <1>2, TopIs DEF ProgFrame
<1>4. /\ n \in Nat /\ n >= 3 /\ below = stack[n - 1] /\ IsGet(below) /\ ~ IsGet(stack[m])
      /\ top = stack[n] /\ DOMAIN stack = 1 .. n
  BY <1>1, <1>2, BelowIs, StackIs
<1>5. /\ m \in Nat \ {0} /\ n \in 1 .. n /\ m # n /\ m # n + 1 /\ m \in 1 .. n - 1
      /\ 2 <= n /\ (m - 1) + 2 = n - 1 /\ n - 1 <= n
  <2>1. \A k \in Nat : k >= 3 =>
          /\ k - 2 \in Nat \ {0} /\ k \in 1 .. k /\ k - 2 # k /\ k - 2 # k + 1
          /\ k - 2 \in 1 .. k - 1 /\ 2 <= k /\ ((k - 2) - 1) + 2 = k - 1 /\ k - 1 <= k
    OBVIOUS
  <2> QED BY <1>4, <2>1
<1>6. x \in InUse
  <2>1. n \notin Gets
    BY <1>1, <1>4 DEF Gets
  <2> QED BY <1>1, <1>4, <1>5, <2>1 DEF InUse
<1>7. Marked(stack', m)
  BY <1>1, <1>2, <1>5, MarkedOuter
<1>8. thr' = ThrAt(m - 1)
  BY <1>1, <1>4, <1>5 DEF ThrAt
<1>9. stack[m].pc = "run"
  BY <1>2, <1>4, <1>5 DEF StackInv
<1>10. Shape(m) /\ top' = stack'[m] /\ Same(stack[m], top')
  BY <1>2, <1>5, <1>7, ShapePops
<1>11. InUse' = InUse \ {x}
  BY <1>1, <1>2, <1>10, InUseBecomes DEF Shape
<1> HIDE DEF m
<1>12. ~ IsGet(top') /\ top'.pc # "reply"
  BY <1>4, <1>9, <1>10 DEF Same, Ages, Stays, IsGet
<1>13. /\ ReplyInv' /\ FdInv' /\ DataInv' /\ Idle' \subseteq Idle
       /\ x \notin Idle'
       /\ (waiting' = waiting /\ pipe' = pipe) \/ pipe' # {}
       /\ \A y, z : Before(y, z) /\ y # x /\ z # x => Before(y, z)'
  <2>1. top.pc # "reply"
    BY <1>1
  <2> HIDE DEF x
  <2> QED BY <1>1, <1>2, <1>3, <1>6, <1>11, <1>12, <2>1, FinishThreads
<1>14. selMsg' \in BOOLEAN /\ (sel'.pc = "select" /\ ~ (waiting' \subseteq sel'.mask) => pipe' # {})
  BY <1>1, <1>2, <1>13 DEF ToldInv
<1>15. \A y \in InUse', z \in Idle' : Before(y, z) => Before(y, z)'
  BY <1>11, <1>13
<1> QED BY <1>1, <1>5, <1>8, <1>10, <1>12, <1>13, <1>14, <1>15, NextThreads

-----------------------------------------------------------------------------
(* The list, the select thread, the world, and the second invariant.          *)

\* The frames stay, up to marks; or the program on top changes.
LEMMA OnThreads ==
  ASSUME Inv, Inv', Inv2, Shape(Len(stack)),
         (~ IsGet(top) /\ ~ IsGet(top')) \/ (top' = top /\ UNCHANGED list),
         UNCHANGED <<thr, mainCtx, queue, lastEvent>>,
         ReplyInv', FdInv', DataInv', Idle' \subseteq Idle,
         sel'.pc = "select" /\ ~ (waiting' \subseteq sel'.mask) => pipe' # {},
         ((sel.pc = "send" => sel'.pc = "send") /\ selMsg' = selMsg) \/ selMsg' = TRUE,
         \A y \in InUse', x \in Idle' : Before(y, x) => Before(y, x)'
  PROVE  Inv2'
<1>1. StackInv /\ ToldInv /\ selMsg' \in BOOLEAN
  BY ThreadsIs, StackAndNext DEF ToldInv
<1>2. Len(stack) \in Nat /\ Len(stack) # Len(stack) + 1 /\ ~ ((Len(stack) - 1) + 2 <= Len(stack))
  <2>1. \A k \in Nat : k # k + 1 /\ ~ ((k - 1) + 2 <= k)
    OBVIOUS
  <2> QED BY <1>1, <2>1, StackIs
<1>3. thr' = ThrAt(Len(stack) - 1)
  BY <1>2 DEF ThrAt
<1>4. ASSUME IsGet(top')
      PROVE  /\ Placed(top')
             /\ ~ top'.hiked => thr' = Own(top')
             /\ \A x \in Idle' : Above(x, Own(top')) => Told(top, x)'
             /\ Fresh(top') => mainCtx' = top'.get.ctxs
             /\ top'.pc \in {"recv", "return"} => ~ top'.called
             /\ Knows(top', queue', lastEvent')
  <2>1. top' = top /\ IsGet(top) /\ UNCHANGED list
    BY <1>4
  <2>2. /\ ~ top.hiked => thr = Own(top)
        /\ Fresh(top) => mainCtx = top.get.ctxs
        /\ top.pc \in {"recv", "return"} => ~ top.called
        /\ Knows(top, queue, lastEvent) /\ Placed(top)
        /\ \A x \in Idle : Above(x, Own(top)) => Told(top, x)
    BY <1>1, <2>1, TopCall
  <2>3. ASSUME NEW x \in Idle', Above(x, Own(top')) PROVE Told(top, x)'
    <3>1. Told(top, x)
      BY <2>1, <2>2, <2>3
    <3>2. Looks(top, x) => Looks(top, x)'
      BY <2>1 DEF Looks, Before
    <3> QED BY <2>1, <3>1, <3>2 DEF Told
  <2> QED BY <2>1, <2>2, <2>3
<1> QED BY <1>1, <1>2, <1>3, <1>4, NextThreads

\* An item that is not one of an fd.
LEMMA ListThreads ==
  ASSUME ReplyInv, FdInv, DataInv, Listed(FD)' = Listed(FD), Live' = Live, doomed \subseteq doomed',
         \A y, z \in Listed(FD) : Before(y, z)' => Before(y, z),
         UNCHANGED <<waiting, active, pipe, late, sel, reply, data>>,
         top.pc # "reply", top'.pc # "reply", InUse' = InUse
  PROVE  ReplyInv' /\ FdInv' /\ DataInv' /\ Idle' = Idle
<1>1. \A fd : ~ Removing(fd) /\ ~ Removing(fd)'
  BY DEF Removing
<1>2. Idle' = Idle
  BY DEF Idle
<1>3. ReplyInv'
  BY DEF ReplyInv
<1>4. FdInv'
  <2>1. \A y, z \in Listed(FD)' : Before(y, z)' /\ y[1] = z[1] => z \in doomed'
    BY DEF FdInv
  <2>2. waiting' \cap active' = {}
    BY DEF FdInv
  <2>3. \A fd \in waiting' \cup active' : ~ Removing(fd)' /\ \E y \in Live' : y[1] = fd
    BY <1>1 DEF FdInv
  <2>4. \A y \in Live' : \/ y[1] \in active' \/ Removing(y[1])'
                         \/ y[1] \in waiting' /\ y \notin InUse'
    BY <1>1 DEF FdInv
  <2>5. sel'.pc \in {"select", "drain", "apply"} => sel'.mask \cap active' = {}
    BY DEF FdInv
  <2>6. sel'.pc \in {"select", "drain"} =>
          \A fd \in sel'.mask : fd \in waiting' \/ (Removing(fd)' /\ ~ reply')
    BY <1>1 DEF FdInv
  <2> QED BY <2>1, <2>2, <2>3, <2>4, <2>5, <2>6 DEF FdInv
<1>5. DataInv'
  BY <1>2 DEF DataInv
<1> QED BY <1>2, <1>3, <1>4, <1>5

LEMMA RemoveOrder ==
  ASSUME ListInv, NEW x \in Range(list), RemoveItem(x)
  PROVE  /\ Live' = Live \ {x} /\ doomed \subseteq doomed' /\ Listed(FD)' \subseteq Listed(FD)
         /\ x \notin Listed(FD) => Listed(FD)' = Listed(FD)
         /\ \A y, z : Before(y, z)' => Before(y, z)
         /\ \A y, z : Before(y, z) /\ y \in InUse /\ z # x => Before(y, z)'
<1>1. CASE x \in InUse
  <2>1. doomed' = doomed \cup {x} /\ UNCHANGED list
    BY <1>1 DEF RemoveItem
  <2> QED BY <1>1, <2>1, BeforeStays DEF Live, Listed
<1>2. CASE x \notin InUse
  <2>1. Unlink(x) /\ UNCHANGED doomed
    BY <1>2 DEF RemoveItem
  <2>2. Range(list') = Range(list) \ {x}
    BY <2>1, UnlinkIs
  <2>3. Live' = Live \ {x} /\ Listed(FD)' = Listed(FD) \ {x}
    BY <2>1, <2>2 DEF Live, Listed
  <2> QED BY <1>2, <2>1, <2>3, UnlinkOrder
<1> QED BY <1>1, <1>2

LEMMA RunsIs ==
  ASSUME Inv, Inv', Inv2, NEW op, Runs(op)
  PROVE  /\ ~ IsGet(top) /\ top.pc = "run" /\ StackInv /\ ListInv /\ FramesInv /\ ThreadInv
         /\ ReplyInv /\ FdInv /\ DataInv /\ ToldInv /\ Len(stack) \in Nat
  BY ThreadsIs, StackAndNext, StackIs DEF Runs, IsGet

LEMMA RemovesThreads ==
  ASSUME Inv, Inv', Inv2, Runs("remove"), NEW x \in Range(list), x[1] \notin FD, RemoveItem(x),
         UNCHANGED <<stack, thr, waiting, active, pipe, late, mainCtx, sel, selMsg, reply, data,
                     queue, lastEvent>>
  PROVE  Inv2'
<1>1. /\ ~ IsGet(top) /\ top.pc = "run" /\ StackInv /\ ListInv
      /\ ReplyInv /\ FdInv /\ DataInv /\ ToldInv
  BY RunsIs
<1>2. Shape(Len(stack)) /\ top' = top /\ InUse' = InUse
  BY <1>1, SameStack
<1>3. x \notin Listed(FD) /\ x \notin Live
  BY DEF Listed, Live
<1>4. /\ Live' = Live \ {x} /\ doomed \subseteq doomed'
      /\ x \notin Listed(FD) => Listed(FD)' = Listed(FD)
      /\ \A y, z : Before(y, z)' => Before(y, z)
      /\ \A y, z : Before(y, z) /\ y \in InUse /\ z # x => Before(y, z)'
  BY <1>1, RemoveOrder
<1>5. Live' = Live /\ Listed(FD)' = Listed(FD)
  BY <1>3, <1>4
<1>6. ReplyInv' /\ FdInv' /\ DataInv' /\ Idle' = Idle
  BY <1>1, <1>2, <1>4, <1>5, ListThreads
<1>7. \A y \in InUse', z \in Idle' : Before(y, z) => Before(y, z)'
  BY <1>2, <1>3, <1>4, <1>6 DEF Idle
<1>8. sel'.pc = "select" /\ ~ (waiting' \subseteq sel'.mask) => pipe' # {}
  BY <1>1 DEF ToldInv
<1> QED BY <1>1, <1>2, <1>6, <1>7, <1>8, OnThreads

LEMMA DPSRemovePortThreads ==
  ASSUME Inv, Inv', Inv2, NEW p \in Port, DPSRemovePort(p)
  PROVE  Inv2'
<1> DEFINE x == Found(p)
<1>1. /\ Runs("remove") /\ x # NIL /\ RemoveItem(x)
      /\ UNCHANGED <<stack, thr, waiting, active, pipe, late, mainCtx, sel, selMsg, reply, data,
                     queue, lastEvent>>
  BY DEF DPSRemovePort, selVars, worldVars, eventVars
<1>2. x \in Range(list) /\ x[1] \notin FD
  BY <1>1, RunsIs, ListedIs DEF ListInv
<1> HIDE DEF x
<1> QED BY <1>1, <1>2, RemovesThreads

LEMMA DPSRemoveTimedEntryThreads ==
  ASSUME Inv, Inv', Inv2, NEW x, DPSRemoveTimedEntry(x)
  PROVE  Inv2'
<1>1. /\ Runs("remove") /\ x \in Listed(Timer) /\ RemoveItem(x)
      /\ UNCHANGED <<stack, thr, waiting, active, pipe, late, mainCtx, sel, selMsg, reply, data,
                     queue, lastEvent>>
  BY DEF DPSRemoveTimedEntry, mainVars, selVars, eventVars
<1>2. x \in Range(list) /\ x[1] \notin FD
  BY <1>1 DEF Listed
<1> QED BY <1>1, <1>2, RemovesThreads

LEMMA AddsThreads ==
  ASSUME Inv, Inv', Inv2, Runs("add"), NEW key \in Port \cup Timer, Unlisted(key) # {}, Add(key),
         Shape(Len(stack)), InUse' = InUse, ~ IsGet(top'), top'.pc = "run",
         UNCHANGED <<thr, doomed, waiting, active, pipe, late, mainCtx, sel, selMsg, reply, data,
                     queue, lastEvent>>
  PROVE  Inv2'
<1>1. /\ ~ IsGet(top) /\ top.pc = "run" /\ StackInv /\ ListInv
      /\ ReplyInv /\ FdInv /\ DataInv /\ ToldInv
  BY RunsIs
<1>2. PICK x \in Item \ Range(list) :
        /\ x[1] = key /\ Head(list') = x /\ Range(list') = Range(list) \cup {x}
        /\ \A y, z : Before(y, z) => Before(y, z)'
        /\ \A y, z : Before(y, z)' => Before(y, z) \/ (y = x /\ z \in Range(list))
  <2>1. key \in FD \cup Port \cup Timer
    OBVIOUS
  <2> QED BY <1>1, <2>1, AddOrder
<1>3. x \notin Listed(FD) /\ x[1] \notin FD
  BY <1>2 DEF Listed
<1>4. Live' = Live /\ Listed(FD)' = Listed(FD)
  BY <1>2, <1>3 DEF Live, Listed
<1>5. ReplyInv' /\ FdInv' /\ DataInv' /\ Idle' = Idle
  BY <1>1, <1>2, <1>3, <1>4, ListThreads
<1>6. sel'.pc = "select" /\ ~ (waiting' \subseteq sel'.mask) => pipe' # {}
  BY <1>1 DEF ToldInv
<1> QED BY <1>1, <1>2, <1>5, <1>6, OnThreads

LEMMA DPSAddPortThreads ==
  ASSUME Inv, Inv', Inv2, NEW p \in Port, DPSAddPort(p)
  PROVE  Inv2'
<1>1. /\ Runs("add") /\ Unlisted(p) # {} /\ Add(p) /\ stack' = AllStale(stack)
      /\ UNCHANGED <<thr, doomed, waiting, active, pipe, late, mainCtx, sel, selMsg, reply, data,
                     queue, lastEvent>>
  BY DEF DPSAddPort, MayAdd, mainVars, selVars, worldVars, eventVars
<1>2. ~ IsGet(top) /\ top.pc = "run" /\ StackInv /\ FramesInv /\ Len(stack) \in Nat \ {0}
      /\ top = stack[Len(stack)]
  BY <1>1, RunsIs, StackIs
<1>3. Marked(stack', Len(stack))
  BY <1>1, <1>2, MarkedStack, MarkedStale
<1>4. Shape(Len(stack)) /\ Same(top, top')
  BY <1>2, <1>3, ShapePops
<1>5. InUse' = InUse
  BY <1>2, <1>4, InUseBecomes DEF Shape
<1>6. ~ IsGet(top') /\ top'.pc = "run"
  BY <1>2, <1>4 DEF Same, Ages, Stays, IsGet
<1> QED BY <1>1, <1>4, <1>5, <1>6, AddsThreads

LEMMA DPSAddTimedEntryThreads ==
  ASSUME Inv, Inv', Inv2, NEW t \in Timer, DPSAddTimedEntry(t)
  PROVE  Inv2'
<1>1. /\ Runs("add") /\ Unlisted(t) # {} /\ Add(t) /\ UNCHANGED stack
      /\ UNCHANGED <<thr, doomed, waiting, active, pipe, late, mainCtx, sel, selMsg, reply, data,
                     queue, lastEvent>>
  BY DEF DPSAddTimedEntry, mainVars, selVars, worldVars, eventVars
<1>2. ~ IsGet(top) /\ top.pc = "run" /\ StackInv
  BY <1>1, RunsIs
<1>3. Shape(Len(stack)) /\ top' = top /\ InUse' = InUse
  BY <1>1, <1>2, SameStack
<1> QED BY <1>1, <1>2, <1>3, AddsThreads

LEMMA ReadFDThreads ==
  ASSUME Inv, Inv', Inv2, ReadFD
  PROVE  Inv2'
<1> DEFINE x == top.item
<1>1. /\ ~ IsGet(top) /\ top.pc = "run" /\ x # NIL /\ x \notin doomed
      /\ data' = data \ {x[1]}
      /\ UNCHANGED <<stack, thr, list, doomed, waiting, active, pipe, late, mainCtx, sel, selMsg,
                     reply, queue, lastEvent>>
  BY DEF ReadFD, InProc, IsGet, libVars, mainVars, selVars, eventVars
<1>2. /\ StackInv /\ ListInv /\ ReplyInv /\ FdInv /\ DataInv /\ ToldInv
  BY ThreadsIs, StackAndNext
<1>3. Shape(Len(stack)) /\ top' = top /\ InUse' = InUse
  BY <1>1, <1>2, SameStack
<1>4. x \in InUse /\ x \in Range(list)
  <2>1. Len(stack) \in DOMAIN stack \ Gets /\ x = stack[Len(stack)].item
    BY <1>1, <1>2, StackIs DEF Gets
  <2>2. x \in InUse
    BY <1>1, <2>1 DEF InUse
  <2> QED BY <1>2, <2>2 DEF ListInv
<1> HIDE DEF x
<1>5. Live' = Live /\ Listed(FD)' = Listed(FD)
  BY <1>1 DEF Live, Listed
<1>6. Idle' = Idle
  BY <1>1, <1>3, <1>5 DEF Idle
<1>7. ReplyInv' /\ FdInv'
  <2>1. ReplyInv'
    BY <1>1, <1>2, <1>3 DEF ReplyInv
  <2>2. \A fd : ~ Removing(fd) /\ ~ Removing(fd)'
    BY <1>1, <1>3 DEF Removing
  <2>3. \A y, z \in Listed(FD)' : Before(y, z)' /\ y[1] = z[1] => z \in doomed'
    BY <1>1, <1>2, <1>5, BeforeStays DEF FdInv
  <2>4. waiting' \cap active' = {}
    BY <1>1, <1>2 DEF FdInv
  <2>5. \A fd \in waiting' \cup active' : ~ Removing(fd)' /\ \E y \in Live' : y[1] = fd
    BY <1>1, <1>2, <1>5, <2>2 DEF FdInv
  <2>6. \A y \in Live' : \/ y[1] \in active' \/ Removing(y[1])'
                         \/ y[1] \in waiting' /\ y \notin InUse'
    BY <1>1, <1>2, <1>3, <1>5, <2>2 DEF FdInv
  <2>7. sel'.pc \in {"select", "drain", "apply"} => sel'.mask \cap active' = {}
    BY <1>1, <1>2 DEF FdInv
  <2>8. sel'.pc \in {"select", "drain"} =>
          \A fd \in sel'.mask : fd \in waiting' \/ (Removing(fd)' /\ ~ reply')
    BY <1>1, <1>2, <2>2 DEF FdInv
  <2> QED BY <2>1, <2>3, <2>4, <2>5, <2>6, <2>7, <2>8 DEF FdInv
<1>8. x[1] \in FD => x \in Live /\ x[1] \in active
  <2>1. x[1] \in FD => x \in Live
    BY <1>1, <1>4 DEF Live, Listed
  <2>2. ~ Removing(x[1])
    BY <1>1 DEF Removing
  <2> QED BY <1>2, <1>4, <2>1, <2>2 DEF FdInv
<1>9. \A y \in Live : y[1] = x[1] => y = x
  <2> SUFFICES ASSUME NEW y \in Live, y[1] = x[1] PROVE y = x
    OBVIOUS
  <2>1. x \in Live
    BY <1>8 DEF Live, Listed
  <2> QED BY <1>2, <2>1, OneLive
<1>10. DataInv'
  <2>1. \A y \in Idle' : y[1] \in data' \/ y \in late'
    <3>1. \A y \in Idle : y \in Live /\ y # x
      BY <1>4 DEF Idle
    <3> QED BY <1>1, <1>2, <1>6, <1>9, <3>1 DEF DataInv
  <2>2. ASSUME sel'.pc \in {"drain", "apply"}, NEW y \in Live', y[1] \in sel'.mask \cap waiting'
        PROVE  y[1] \in data' \/ y \in late'
    <3>1. y \in Live /\ y[1] \in sel.mask \cap waiting
      BY <1>1, <1>5, <2>2
    <3>2. y[1] # x[1]
      <4> SUFFICES ASSUME y[1] = x[1] PROVE FALSE
        OBVIOUS
      <4>1. x[1] \in FD
        BY <3>1 DEF Live, Listed
      <4>2. x[1] \in active /\ x[1] \in waiting
        BY <1>8, <3>1, <4>1
      <4> QED BY <1>2, <4>2 DEF FdInv
    <3> QED BY <1>1, <1>2, <2>2, <3>1, <3>2 DEF DataInv
  <2> QED BY <2>1, <2>2 DEF DataInv
<1>11. /\ sel'.pc = "select" /\ ~ (waiting' \subseteq sel'.mask) => pipe' # {}
       /\ \A y, z : Before(y, z) => Before(y, z)'
  BY <1>1, <1>2, BeforeStays DEF ToldInv
<1> QED BY <1>1, <1>3, <1>6, <1>7, <1>10, <1>11, OnThreads

LEMMA DPSAddFDThreads ==
  ASSUME Inv, Inv', Inv2, NEW fd \in FD, DPSAddFD(fd)
  PROVE  Inv2'
<1>1. /\ Runs("add") /\ MayAdd(fd) /\ Add(fd)
      /\ waiting' = waiting \cup {fd} /\ pipe' = pipe \cup {"simple"}
      /\ late' = late \cup {x \in {Head(list')} : sel.pc = "apply" /\ fd \in sel.mask}
      /\ UNCHANGED <<stack, thr, doomed, active, mainCtx, sel, selMsg, reply, data, queue,
                     lastEvent>>
  BY DEF DPSAddFD, mainVars, selVars, worldVars, eventVars
<1>2. /\ ~ IsGet(top) /\ top.pc = "run" /\ StackInv /\ ListInv /\ ThreadInv
      /\ ReplyInv /\ FdInv /\ DataInv /\ ToldInv
  BY <1>1, RunsIs
<1>3. Shape(Len(stack)) /\ top' = top /\ InUse' = InUse
  BY <1>1, <1>2, SameStack
<1>4. \A y \in Live : y[1] # fd
  <2> SUFFICES ASSUME NEW y \in Live, y[1] = fd PROVE FALSE
    OBVIOUS
  <2>1. y \in Range(list) /\ y \in Listed({fd}) /\ y \in Listed(FD) /\ y \notin doomed
    BY DEF Live, Listed
  <2>2. Found(fd) \in Range(list) /\ Found(fd)[1] = fd
    BY <1>2, <2>1, FoundIs
  <2>3. Found(fd) = y \/ Before(Found(fd), y)
    BY <1>2, <2>1, FirstOfIs DEF Found
  <2>4. Found(fd) \in doomed
    <3>1. Found(fd) # NIL
      BY <1>2, <2>2, ListIs
    <3> QED BY <1>1, <3>1 DEF MayAdd
  <2>5. Found(fd) \in Listed(FD)
    BY <2>2 DEF Listed
  <2> QED BY <1>2, <2>1, <2>2, <2>3, <2>4, <2>5 DEF FdInv
<1>5. fd \notin waiting \cup active
  BY <1>2, <1>4 DEF FdInv
<1>6. PICK x \in Item \ Range(list) :
        /\ x[1] = fd /\ Head(list') = x /\ Range(list') = Range(list) \cup {x}
        /\ \A y, z : Before(y, z) => Before(y, z)'
        /\ \A y, z : Before(y, z)' => Before(y, z) \/ (y = x /\ z \in Range(list))
  <2>1. fd \in FD \cup Port \cup Timer /\ Unlisted(fd) # {}
    BY <1>1 DEF MayAdd
  <2> QED BY <1>1, <1>2, <2>1, AddOrder
<1>7. x \notin doomed /\ x \notin InUse
  BY <1>2, <1>6 DEF ListInv
<1>8. Listed(FD)' = Listed(FD) \cup {x} /\ Live' = Live \cup {x}
  BY <1>1, <1>6, <1>7 DEF Live, Listed
<1>9. Idle' = Idle
  BY <1>1, <1>3, <1>5, <1>6, <1>8 DEF Idle
<1>10. ReplyInv'
  BY <1>1, <1>2, <1>3 DEF ReplyInv
<1>11. FdInv'
  <2>1. \A w : ~ Removing(w) /\ ~ Removing(w)'
    BY <1>2, <1>3 DEF Removing
  <2>2. ASSUME NEW y \in Listed(FD)', NEW z \in Listed(FD)', Before(y, z)', y[1] = z[1]
        PROVE  z \in doomed'
    <3>1. CASE Before(y, z)
      <4>1. y \in Listed(FD) /\ z \in Listed(FD)
        BY <1>2, <1>6, <1>8, <2>2, <3>1, BeforeIs
      <4> QED BY <1>1, <1>2, <2>2, <3>1, <4>1 DEF FdInv
    <3>2. CASE y = x /\ z \in Range(list)
      <4>1. z[1] = fd /\ z \in Listed(FD)
        BY <1>6, <2>2, <3>2 DEF Listed
      <4>2. z \notin Live
        BY <1>4, <4>1
      <4> QED BY <1>1, <4>1, <4>2 DEF Live
    <3> QED BY <1>6, <2>2, <3>1, <3>2
  <2>3. waiting' \cap active' = {}
    BY <1>1, <1>2, <1>5 DEF FdInv
  <2>4. \A w \in waiting' \cup active' : ~ Removing(w)' /\ \E y \in Live' : y[1] = w
    BY <1>1, <1>2, <1>6, <1>8, <2>1 DEF FdInv
  <2>5. \A y \in Live' : \/ y[1] \in active' \/ Removing(y[1])'
                         \/ y[1] \in waiting' /\ y \notin InUse'
    BY <1>1, <1>2, <1>3, <1>6, <1>7, <1>8, <2>1 DEF FdInv
  <2>6. sel'.pc \in {"select", "drain", "apply"} => sel'.mask \cap active' = {}
    BY <1>1, <1>2 DEF FdInv
  <2>7. sel'.pc \in {"select", "drain"} =>
          \A w \in sel'.mask : w \in waiting' \/ (Removing(w)' /\ ~ reply')
    BY <1>1, <1>2, <2>1 DEF FdInv
  <2> QED BY <2>2, <2>3, <2>4, <2>5, <2>6, <2>7 DEF FdInv
<1>12. DataInv'
  <2>1. \A y \in Idle' : y[1] \in data' \/ y \in late'
    BY <1>1, <1>2, <1>9 DEF DataInv
  <2>2. ASSUME sel'.pc \in {"drain", "apply"}, NEW y \in Live', y[1] \in sel'.mask \cap waiting'
        PROVE  y[1] \in data' \/ y \in late'
    <3>1. CASE y \in Live
      <4>1. y[1] \in sel.mask \cap waiting
        BY <1>1, <1>4, <2>2, <3>1
      <4> QED BY <1>1, <1>2, <2>2, <3>1, <4>1 DEF DataInv
    <3>2. CASE y = x
      <4>1. sel.pc # "drain"
        <5> SUFFICES ASSUME sel.pc = "drain" PROVE FALSE
          OBVIOUS
        <5>1. fd \in waiting \/ Removing(fd)
          BY <1>1, <1>2, <1>6, <2>2, <3>2 DEF FdInv
        <5> QED BY <1>2, <1>5, <5>1 DEF Removing
      <4>2. sel.pc = "apply" /\ fd \in sel.mask
        BY <1>1, <1>6, <2>2, <3>2, <4>1
      <4> QED BY <1>1, <1>6, <3>2, <4>2
    <3> QED BY <1>8, <2>2, <3>1, <3>2
  <2> QED BY <2>1, <2>2 DEF DataInv
<1>13. pipe' # {} /\ sel'.pc = sel.pc
  BY <1>1
<1> QED BY <1>1, <1>2, <1>3, <1>6, <1>9, <1>10, <1>11, <1>12, <1>13, OnThreads

LEMMA DPSRemoveFDThreads ==
  ASSUME Inv, Inv', Inv2, NEW fd \in FD, DPSRemoveFD(fd)
  PROVE  Inv2'
<1> DEFINE g == [top EXCEPT !.pc = "reply", !.fd = fd]
<1>1. /\ Runs("remove") /\ stack' = WithTop(g)
      /\ waiting' = waiting \ {fd} /\ active' = active \ {fd} /\ pipe' = pipe \cup {"rpc"}
      /\ UNCHANGED <<thr, list, doomed, late, mainCtx, sel, selMsg, reply, data, queue, lastEvent>>
  BY DEF DPSRemoveFD, mainVars, selVars, worldVars, eventVars
<1>2. /\ ~ IsGet(top) /\ top.pc = "run" /\ StackInv /\ ListInv /\ FramesInv
      /\ ReplyInv /\ FdInv /\ DataInv /\ ToldInv /\ top \in ProgFrame
  BY <1>1, RunsIs, TopIs
<1>3. /\ g \in Frame /\ Ages(top, g) /\ ~ IsGet(g) /\ g.pc = "reply" /\ g.fd = fd
  <2>1. g \in ProgFrame /\ Ages(top, g) /\ g.fd = fd
    BY <1>2, ReplyIs
  <2>2. ~ IsGet(g) /\ g.pc = "reply"
    BY <1>2 DEF ProgFrame, IsGet
  <2> QED BY <2>1, <2>2 DEF Frame
<1> HIDE DEF g
<1>4. Shape(Len(stack)) /\ top' = g
  BY <1>1, <1>2, <1>3, ShapeTop
<1>5. InUse' = InUse
  BY <1>2, <1>4, InUseBecomes DEF Shape
<1>6. Live' = Live /\ Listed(FD)' = Listed(FD)
  BY <1>1 DEF Live, Listed
<1>7. Idle' \subseteq Idle
  BY <1>1, <1>5, <1>6 DEF Idle
<1>8. ReplyInv'
  BY <1>1, <1>2, <1>3, <1>4 DEF ReplyInv
<1>9. FdInv'
  <2>1. \A w : ~ Removing(w) /\ (Removing(w)' <=> w = fd)
    BY <1>2, <1>3, <1>4 DEF Removing
  <2>2. \A y, z \in Listed(FD)' : Before(y, z)' /\ y[1] = z[1] => z \in doomed'
    BY <1>1, <1>2, <1>6, BeforeStays DEF FdInv
  <2>3. waiting' \cap active' = {}
    BY <1>1, <1>2 DEF FdInv
  <2>4. \A w \in waiting' \cup active' : ~ Removing(w)' /\ \E y \in Live' : y[1] = w
    BY <1>1, <1>2, <1>6, <2>1 DEF FdInv
  <2>5. \A y \in Live' : \/ y[1] \in active' \/ Removing(y[1])'
                         \/ y[1] \in waiting' /\ y \notin InUse'
    BY <1>1, <1>2, <1>5, <1>6, <2>1 DEF FdInv
  <2>6. sel'.pc \in {"select", "drain", "apply"} => sel'.mask \cap active' = {}
    BY <1>1, <1>2 DEF FdInv
  <2>7. ~ reply
    BY <1>2 DEF ReplyInv
  <2>8. sel'.pc \in {"select", "drain"} =>
          \A w \in sel'.mask : w \in waiting' \/ (Removing(w)' /\ ~ reply')
    BY <1>1, <1>2, <2>1, <2>7 DEF FdInv
  <2> QED BY <2>2, <2>3, <2>4, <2>5, <2>6, <2>8 DEF FdInv
<1>10. DataInv'
  BY <1>1, <1>2, <1>6, <1>7 DEF DataInv
<1>11. pipe' # {} /\ \A y, z : Before(y, z) => Before(y, z)'
  BY <1>1, BeforeStays
<1> QED BY <1>1, <1>2, <1>3, <1>4, <1>7, <1>8, <1>9, <1>10, <1>11, OnThreads

LEMMA FDRemovedThreads ==
  ASSUME Inv, Inv', Inv2, FDRemoved
  PROVE  Inv2'
<1> DEFINE d == top.fd
           x == Found(d)
           g == [top EXCEPT !.pc = "run", !.fd = NIL]
<1>1. /\ ~ IsGet(top) /\ top.pc = "reply" /\ reply /\ reply' = FALSE /\ RemoveItem(x)
      /\ late' = late \ {x} /\ data' = data \ {d} /\ stack' = WithTop(g)
      /\ UNCHANGED <<thr, waiting, active, pipe, mainCtx, sel, selMsg, queue, lastEvent>>
  BY DEF FDRemoved, LateWithout, IsGet, mainVars, eventVars
<1>2. /\ StackInv /\ ListInv /\ FramesInv /\ ReplyInv /\ FdInv /\ DataInv /\ ToldInv
  BY ThreadsIs, StackAndNext
<1>3. top \in ProgFrame
  BY <1>1, <1>2, TopIs
<1>4. d \in FD /\ x \in Range(list) /\ x[1] = d
  <2>1. PICK y \in Range(list) : y[1] = d
    BY <1>1, <1>2 DEF ListInv
  <2>2. x \in Range(list) /\ x[1] = d
    BY <1>2, <2>1, FoundIs
  <2>3. x \in Item /\ d \in FD \cup {NIL}
    BY <1>2, <1>3, <2>2, ListIs DEF ProgFrame
  <2>4. d # NIL
    BY <2>2, <2>3 DEF Item
  <2> QED BY <2>2, <2>3, <2>4
<1>5. g \in Frame /\ Ages(top, g) /\ ~ IsGet(g) /\ g.pc = "run"
  <2>1. g \in ProgFrame /\ Ages(top, g) /\ g.pc = "run"
    BY <1>3, <1>4, ReplyIs
  <2> QED BY <1>1, <2>1 DEF Frame, ProgFrame, IsGet
<1> HIDE DEF g
<1>6. Shape(Len(stack)) /\ top' = g
  BY <1>1, <1>2, <1>5, ShapeTop
<1>7. InUse' = InUse
  BY <1>2, <1>6, InUseBecomes DEF Shape
<1>8. \A y \in Live : y[1] = d => y = x
  <2> SUFFICES ASSUME NEW y \in Live, y[1] = d PROVE y = x
    OBVIOUS
  <2>1. y \in Listed({d}) /\ y \in Listed(FD) /\ y \notin doomed
    BY DEF Live, Listed
  <2>2. x = y \/ Before(x, y)
    BY <1>2, <2>1, FirstOfIs DEF Found
  <2>3. x \in Listed(FD)
    BY <1>4 DEF Listed
  <2> QED BY <1>2, <1>4, <2>1, <2>2, <2>3 DEF FdInv
<1>9. /\ Live' = Live \ {x} /\ doomed \subseteq doomed' /\ Listed(FD)' \subseteq Listed(FD)
      /\ \A y, z : Before(y, z)' => Before(y, z)
      /\ \A y, z : Before(y, z) /\ y \in InUse /\ z # x => Before(y, z)'
  BY <1>1, <1>2, <1>4, RemoveOrder
<1>10. \A w : (Removing(w) <=> w = d) /\ ~ Removing(w)'
  BY <1>1, <1>5, <1>6 DEF Removing
<1>11. d \notin waiting \cup active
  BY <1>2, <1>10 DEF FdInv
<1>12. \A y \in Live' : y \in Live /\ y[1] # d /\ y # x
  BY <1>8, <1>9
<1> HIDE DEF d, x
<1>13. Idle' \subseteq Idle /\ \A y \in Idle' : y \in Live'
  BY <1>1, <1>7, <1>12 DEF Idle
<1>14. ReplyInv'
  BY <1>1, <1>2 DEF ReplyInv
<1>15. FdInv'
  <2>1. \A y, z \in Listed(FD)' : Before(y, z)' /\ y[1] = z[1] => z \in doomed'
    BY <1>2, <1>9 DEF FdInv
  <2>2. waiting' \cap active' = {}
    BY <1>1, <1>2 DEF FdInv
  <2>3. ASSUME NEW w \in waiting' \cup active'
        PROVE  ~ Removing(w)' /\ \E y \in Live' : y[1] = w
    <3>1. PICK y \in Live : y[1] = w
      BY <1>1, <1>2, <2>3 DEF FdInv
    <3>2. w # d
      BY <1>1, <1>11, <2>3
    <3> QED BY <1>4, <1>9, <1>10, <3>1, <3>2
  <2>4. \A y \in Live' : \/ y[1] \in active' \/ Removing(y[1])'
                         \/ y[1] \in waiting' /\ y \notin InUse'
    BY <1>1, <1>2, <1>7, <1>10, <1>12 DEF FdInv
  <2>5. sel'.pc \in {"select", "drain", "apply"} => sel'.mask \cap active' = {}
    BY <1>1, <1>2 DEF FdInv
  <2>6. sel'.pc \in {"select", "drain"} =>
          \A w \in sel'.mask : w \in waiting' \/ (Removing(w)' /\ ~ reply')
    BY <1>1, <1>2 DEF FdInv
  <2> QED BY <2>1, <2>2, <2>3, <2>4, <2>5, <2>6 DEF FdInv
<1>16. DataInv'
  <2>1. \A y \in Idle' : y[1] \in data' \/ y \in late'
    BY <1>1, <1>2, <1>12, <1>13 DEF DataInv
  <2>2. sel'.pc \in {"drain", "apply"} =>
          \A y \in Live' : y[1] \in sel'.mask \cap waiting' => y[1] \in data' \/ y \in late'
    BY <1>1, <1>2, <1>12 DEF DataInv
  <2> QED BY <2>1, <2>2 DEF DataInv
<1>17. \A y \in InUse', z \in Idle' : Before(y, z) => Before(y, z)'
  BY <1>7, <1>9, <1>12, <1>13
<1>18. sel'.pc = "select" /\ ~ (waiting' \subseteq sel'.mask) => pipe' # {}
  BY <1>1, <1>2 DEF ToldInv
<1> QED BY <1>1, <1>5, <1>6, <1>13, <1>14, <1>15, <1>16, <1>17, <1>18, OnThreads

\* The program on top, or a call, waits while the select thread or the world does something.
LEMMA BesideThreads ==
  ASSUME Inv, Inv', Inv2, UNCHANGED <<stack, thr, list, doomed, mainCtx, queue, lastEvent>>,
         ReplyInv', FdInv', DataInv', Idle' \subseteq Idle,
         sel'.pc = "select" /\ ~ (waiting' \subseteq sel'.mask) => pipe' # {},
         ((sel.pc = "send" => sel'.pc = "send") /\ selMsg' = selMsg) \/ selMsg' = TRUE
  PROVE  Inv2'
<1>1. StackInv
  BY StackAndNext
<1>2. Shape(Len(stack)) /\ top' = top
  BY <1>1, SameStack
<1>3. \A y, z : Before(y, z) => Before(y, z)'
  BY BeforeStays
<1> QED BY <1>2, <1>3, OnThreads

\* What the select thread leaves alone.
LEMMA BesideIs ==
  ASSUME Inv, Inv2, UNCHANGED <<stack, list, doomed>>
  PROVE  /\ ReplyInv /\ FdInv /\ DataInv /\ ToldInv
         /\ top' = top /\ InUse' = InUse /\ Live' = Live
         /\ \A fd : Removing(fd)' <=> Removing(fd)
         /\ \A y, z \in Listed(FD)' : Before(y, z)' /\ y[1] = z[1] => z \in doomed'
<1>1. StackInv /\ FdInv
  BY ThreadsIs DEF Inv
<1>2. top' = top /\ InUse' = InUse
  BY <1>1, SameStack
<1>3. Live' = Live /\ Listed(FD)' = Listed(FD)
  BY DEF Live, Listed
<1>4. \A y, z \in Listed(FD)' : Before(y, z)' /\ y[1] = z[1] => z \in doomed'
  BY <1>1, <1>3, BeforeStays DEF FdInv
<1> QED BY <1>2, <1>3, <1>4, ThreadsIs DEF Removing

\* Nothing but data arrives.
LEMMA WorldThreads ==
  ASSUME Inv, Inv', Inv2, data \subseteq data',
         UNCHANGED <<stack, thr, libVars, mainVars, selVars, queue, lastEvent>>
  PROVE  Inv2'
<1>1. UNCHANGED <<list, doomed, waiting, active, pipe, late, mainCtx, sel, selMsg, reply>>
  BY DEF libVars, mainVars, selVars
<1>2. /\ ReplyInv /\ FdInv /\ DataInv /\ ToldInv
      /\ top' = top /\ InUse' = InUse /\ Live' = Live
      /\ \A fd : Removing(fd)' <=> Removing(fd)
      /\ \A y, z \in Listed(FD)' : Before(y, z)' /\ y[1] = z[1] => z \in doomed'
  BY <1>1, BesideIs
<1>3. Idle' = Idle
  BY <1>1, <1>2 DEF Idle
<1>4. ReplyInv'
  BY <1>1, <1>2 DEF ReplyInv
<1>5. FdInv'
  BY <1>1, <1>2 DEF FdInv
<1>6. DataInv'
  BY <1>1, <1>2, <1>3 DEF DataInv
<1>7. sel'.pc = "select" /\ ~ (waiting' \subseteq sel'.mask) => pipe' # {}
  BY <1>1, <1>2 DEF ToldInv
<1> QED BY <1>1, <1>3, <1>4, <1>5, <1>6, <1>7, BesideThreads

LEMMA SelectThreads ==
  ASSUME Inv, Inv', Inv2, SelCopy \/ SelReturns \/ SelDrain \/ SelSend
  PROVE  Inv2'
<1>1. /\ UNCHANGED <<stack, thr, list, doomed, waiting, active, late, mainCtx, data, queue,
                     lastEvent>>
      /\ UNCHANGED <<pipe, reply>> \/ SelDrain
  BY DEF SelCopy, SelReturns, SelDrain, SelSend, libVars, mainVars, worldVars, eventVars
<1>2. /\ ReplyInv /\ FdInv /\ DataInv /\ ToldInv
      /\ top' = top /\ InUse' = InUse /\ Live' = Live
      /\ \A fd : Removing(fd)' <=> Removing(fd)
      /\ \A y, z \in Listed(FD)' : Before(y, z)' /\ y[1] = z[1] => z \in doomed'
  BY <1>1, BesideIs
<1>3. Idle' = Idle
  BY <1>1, <1>2 DEF Idle
<1>4. sel \in [pc : {"copy", "select", "drain", "apply", "send"}, mask : SUBSET FD]
  BY DEF Inv, ThreadInv
<1>5. \/ /\ sel.pc = "copy" /\ sel'.pc = "select" /\ sel'.mask = waiting
         /\ UNCHANGED <<pipe, reply, selMsg>>
      \/ /\ sel.pc = "select" /\ sel'.pc \in {"drain", "apply"} /\ sel'.mask = sel.mask \cap data
         /\ UNCHANGED <<pipe, reply, selMsg>>
      \/ /\ sel.pc = "drain" /\ sel'.pc \in {"copy", "apply"} /\ sel'.mask = sel.mask
         /\ pipe' = {} /\ reply' = (reply \/ "rpc" \in pipe) /\ UNCHANGED selMsg
      \/ sel.pc = "send" /\ sel'.pc = "copy" /\ UNCHANGED <<pipe, reply>> /\ selMsg' = TRUE
  BY <1>1, <1>4 DEF SelCopy, SelReturns, SelDrain, SelSend
<1>6. ReplyInv'
  <2>1. CASE UNCHANGED <<pipe, reply>>
    BY <1>2, <2>1 DEF ReplyInv
  <2>2. CASE pipe' = {} /\ reply' = (reply \/ "rpc" \in pipe)
    <3>1. pipe' \subseteq {"simple", "rpc"} /\ "rpc" \notin pipe' /\ reply' \in BOOLEAN
      BY <2>2
    <3>2. reply' => top.pc = "reply"
      BY <1>2, <2>2, Zenon DEF ReplyInv
    <3> QED BY <1>2, <3>1, <3>2, Zenon DEF ReplyInv
  <2> QED BY <1>5, <2>1, <2>2
<1>7. FdInv'
  <2>1. waiting' \cap active' = {}
    BY <1>1, <1>2 DEF FdInv
  <2>2. \A fd \in waiting' \cup active' : ~ Removing(fd)' /\ \E y \in Live' : y[1] = fd
    BY <1>1, <1>2 DEF FdInv
  <2>3. \A y \in Live' : \/ y[1] \in active' \/ Removing(y[1])'
                         \/ y[1] \in waiting' /\ y \notin InUse'
    BY <1>1, <1>2 DEF FdInv
  <2>4. sel'.pc \in {"select", "drain", "apply"} => sel'.mask \cap active' = {}
    BY <1>1, <1>2, <1>5 DEF FdInv
  <2>5. sel'.pc \in {"select", "drain"} =>
          \A fd \in sel'.mask : fd \in waiting' \/ (Removing(fd)' /\ ~ reply')
    BY <1>1, <1>2, <1>5 DEF FdInv
  <2> QED BY <1>2, <2>1, <2>2, <2>3, <2>4, <2>5 DEF FdInv
<1>8. DataInv'
  <2>1. \A y \in Idle' : y[1] \in data' \/ y \in late'
    BY <1>1, <1>2, <1>3 DEF DataInv
  <2>2. sel'.pc \in {"drain", "apply"} =>
          \A y \in Live' : y[1] \in sel'.mask \cap waiting' => y[1] \in data' \/ y \in late'
    BY <1>1, <1>2, <1>5 DEF DataInv
  <2> QED BY <2>1, <2>2 DEF DataInv
<1>9. /\ sel'.pc = "select" /\ ~ (waiting' \subseteq sel'.mask) => pipe' # {}
      /\ ((sel.pc = "send" => sel'.pc = "send") /\ selMsg' = selMsg) \/ selMsg' = TRUE
  BY <1>1, <1>5
<1> QED BY <1>1, <1>3, <1>6, <1>7, <1>8, <1>9, BesideThreads

\* The fds that are ready are told of next.
LEMMA SelApplyThreads ==
  ASSUME Inv, Inv', Inv2, SelApply
  PROVE  Inv2'
<1>1. /\ sel.pc = "apply" /\ waiting' = waiting \ Legit /\ active' = active \cup Legit
      /\ sel' = [sel EXCEPT !.pc = "send"] /\ Legit = sel.mask \cap waiting
      /\ UNCHANGED <<stack, thr, list, doomed, pipe, late, mainCtx, selMsg, reply, data, queue,
                     lastEvent>>
  BY DEF SelApply, Legit, mainVars, worldVars, eventVars
<1>2. /\ ReplyInv /\ FdInv /\ DataInv /\ ToldInv
      /\ top' = top /\ InUse' = InUse /\ Live' = Live
      /\ \A fd : Removing(fd)' <=> Removing(fd)
      /\ \A y, z \in Listed(FD)' : Before(y, z)' /\ y[1] = z[1] => z \in doomed'
  BY <1>1, BesideIs
<1>3. sel'.pc = "send"
  BY <1>1 DEF Inv, ThreadInv
<1>4. StackInv /\ StackInv' /\ LinkInv /\ NoticeInv
  BY ThreadsIs, StackAndNext
<1>5. LinkInv'
  BY <1>1, <1>4 DEF LinkInv, Placed, Linked
<1>6. NoticeInv'
  BY <1>1, <1>4 DEF NoticeInv, NoticeAt
<1>7. ReplyInv'
  BY <1>1, <1>2 DEF ReplyInv
<1>8. FdInv'
  <2>1. waiting' \cap active' = {}
    BY <1>1, <1>2 DEF FdInv
  <2>2. \A fd \in waiting' \cup active' : ~ Removing(fd)' /\ \E y \in Live' : y[1] = fd
    BY <1>1, <1>2 DEF FdInv
  <2>3. \A y \in Live' : \/ y[1] \in active' \/ Removing(y[1])'
                         \/ y[1] \in waiting' /\ y \notin InUse'
    BY <1>1, <1>2 DEF FdInv
  <2> QED BY <1>2, <1>3, <2>1, <2>2, <2>3 DEF FdInv
<1>9. DataInv'
  <2>1. ASSUME NEW y \in Idle' PROVE y[1] \in data' \/ y \in late'
    <3>1. y \in Live /\ y[1] \in active \cup Legit /\ y \notin InUse
      BY <1>1, <1>2, <2>1 DEF Idle
    <3>2. CASE y[1] \in active
      BY <1>1, <1>2, <3>1, <3>2 DEF DataInv, Idle
    <3>3. CASE y[1] \in Legit
      BY <1>1, <1>2, <3>1, <3>3 DEF DataInv
    <3> QED BY <3>1, <3>2, <3>3
  <2> QED BY <1>3, <2>1 DEF DataInv
<1>10. ToldInv'
  <2>1. \A k \in DOMAIN stack' : IsGet(stack'[k]) /\ ~ stack'[k].hiked => ThrAt(k)' = Own(stack'[k])
    BY <1>1, <1>2 DEF ToldInv, ThrAt
  <2>2. \A k \in DOMAIN stack', x \in Idle' :
          IsGet(stack'[k]) /\ Above(x, Own(stack'[k])) => Told(stack[k], x)'
    BY <1>3 DEF Told
  <2> QED BY <1>1, <1>2, <1>3, <2>1, <2>2 DEF ToldInv
<1> QED BY <1>5, <1>6, <1>7, <1>8, <1>9, <1>10 DEF Inv2

LEMMA InitInv2 == Init => Inv2
<1> SUFFICES ASSUME Init PROVE Inv2
  OBVIOUS
<1>1. /\ scenario \in Scenarios /\ stack = <<Prog(NIL)>> /\ list = scenario.list /\ doomed = {}
      /\ waiting = {x[1] : x \in Listed(FD)} /\ active = {} /\ pipe = {} /\ reply = FALSE
      /\ sel = [pc |-> "copy", mask |-> {}] /\ selMsg = FALSE
  BY DEF Init
<1>2. /\ DOMAIN stack = {1} /\ Len(stack) = 1 /\ ~ IsGet(stack[1]) /\ stack[1].event = NIL
      /\ top.pc = "run" /\ stack[1].item = NIL
  BY <1>1 DEF top, Prog, IsGet
<1>3. Live = Listed(FD) /\ Idle = {} /\ InUse = {}
  <2>1. Live = Listed(FD) /\ Idle = {}
    BY <1>1 DEF Live, Idle
  <2> QED BY <1>2, <2>1 DEF InUse
<1>4. \A x, y \in Listed(FD) : Before(x, y) /\ x[1] = y[1] => FALSE
  <2> SUFFICES ASSUME NEW x \in Listed(FD), NEW y \in Listed(FD), Before(x, y), x[1] = y[1]
               PROVE  FALSE
    OBVIOUS
  <2>1. PICK i, j \in DOMAIN list : i < j /\ list[i] = x /\ list[j] = y
    BY DEF Before
  <2>2. x[1] \in FD
    BY DEF Listed
  <2>3. i = j
    BY <1>1, <2>1, <2>2
  <2>4. list \in Seq(Item)
    BY <1>1
  <2>5. i \in Nat /\ ~ (i < i)
    BY <2>4, LenProperties
  <2> QED BY <2>1, <2>3, <2>5
<1>5. LinkInv
  BY <1>2 DEF LinkInv
<1>6. ReplyInv
  BY <1>1 DEF ReplyInv
<1>7. FdInv
  BY <1>1, <1>2, <1>3, <1>4 DEF FdInv, Removing
<1>8. DataInv
  BY <1>1, <1>3 DEF DataInv
<1>9. ToldInv
  BY <1>1, <1>2 DEF ToldInv
<1>10. NoticeInv
  BY <1>2 DEF NoticeInv, NoticeAt
<1> QED BY <1>5, <1>6, <1>7, <1>8, <1>9, <1>10 DEF Inv2

LEMMA NextInv2 == Inv /\ Inv2 /\ [Next]_vars => Inv2'
<1> SUFFICES ASSUME Inv, Inv2, [Next]_vars PROVE Inv2'
  OBVIOUS
<1>1. Inv'
  BY NextInv
<1>2. CASE EventLoop
  <2>1. CASE CheckFDs
    BY <1>1, <2>1, VisitThreads DEF CheckFDs
  <2>2. CASE CheckTEs
    BY <1>1, <2>2, VisitThreads DEF CheckTEs
  <2>3. CASE FDsChecked0 \/ FDsChecked
    BY <1>1, <2>3, FDsChecked0Threads, FDsCheckedThreads
  <2>4. CASE FixAgain \/ ReceiveSignal \/ TimedOut
    BY <1>1, <2>4, FixAgainThreads, ReceiveSignalThreads, TimedOutThreads
  <2>5. CASE AfterMessages \/ TEsChecked \/ Return
    BY <1>1, <2>5, AfterMessagesThreads, TEsCheckedThreads, ReturnThreads
  <2>6. CASE \E x \in Range(list) : ReceiveForPort(x)
    BY <1>1, <2>6, ReceiveForPortThreads
  <2>7. CASE \E c \in Ctx : ReceiveEvent(c)
    BY <1>1, <2>7, ReceiveEventThreads
  <2> QED BY <1>2, <2>1, <2>2, <2>3, <2>4, <2>5, <2>6, <2>7 DEF EventLoop
<1>3. CASE Program
  <2>1. CASE \E g \in uses.gets : GetEvent(g) \/ DPSDiscardEvents(g)
    BY <1>1, <2>1, GetEventThreads, QueueThreads
  <2>2. CASE ProcReturns \/ ProcRaises \/ FilterReturns
    BY <1>1, <2>2, ProcReturnsThreads, ProcRaisesThreads, FilterReturnsThreads
  <2>3. CASE ReadFD \/ FDRemoved
    BY <1>1, <2>3, ReadFDThreads, FDRemovedThreads
  <2>4. CASE \E fd \in FD \cap uses.keys : DPSAddFD(fd) \/ DPSRemoveFD(fd)
    BY <1>1, <2>4, DPSAddFDThreads, DPSRemoveFDThreads
  <2>5. CASE \E p \in Port \cap uses.keys : DPSAddPort(p) \/ DPSRemovePort(p)
    BY <1>1, <2>5, DPSAddPortThreads, DPSRemovePortThreads
  <2>6. CASE \E t \in Timer \cap uses.keys : DPSAddTimedEntry(t)
    BY <1>1, <2>6, DPSAddTimedEntryThreads
  <2>7. CASE \E x \in Listed(uses.keys) : DPSRemoveTimedEntry(x)
    BY <1>1, <2>7, DPSRemoveTimedEntryThreads
  <2>8. CASE \E c \in Ctx, type \in Type, atStart \in BOOLEAN :
               DPSPostEvent([ctxt |-> c, type |-> type], atStart)
    BY <1>1, <2>8, QueueThreads
  <2>9. CASE \E flag \in BOOLEAN : DPSSetTracking(flag)
    BY <1>1, <2>9, QueueThreads
  <2> QED BY <1>3, <2>1, <2>2, <2>3, <2>4, <2>5, <2>6, <2>7, <2>8, <2>9 DEF Program
<1>4. CASE SelectLoop
  BY <1>1, <1>4, SelectThreads, SelApplyThreads DEF SelectLoop
<1>5. CASE World
  <2>1. data \subseteq data' /\ UNCHANGED <<stack, thr, libVars, mainVars, selVars, queue, lastEvent>>
    BY <1>5 DEF World, DataArrives, MailArrives, ServerSends, TimePasses, eventVars
  <2> QED BY <1>1, <2>1, WorldThreads
<1>6. CASE UNCHANGED vars
  <2>1. data \subseteq data' /\ UNCHANGED <<stack, thr, libVars, mainVars, selVars, queue, lastEvent>>
    BY <1>6 DEF vars, worldVars, eventVars
  <2> QED BY <1>1, <2>1, WorldThreads
<1> QED BY <1>2, <1>3, <1>4, <1>5, <1>6 DEF Next

-----------------------------------------------------------------------------
(* The invariants and the properties.                                        *)

\* A call that waits has looked at the fds, and is told of those it has not looked at.
LEMMA InvIgnored == Inv /\ Inv2 => NothingIgnored
<1> SUFFICES ASSUME Inv, Inv2, Waits, NEW x \in Listed(FD), Minded(x), x[1] \in data
             PROVE  \/ sel.pc = "send"
                    \/ x[1] \in waiting /\ (sel.pc # "select" \/ x[1] \in sel.mask \/ pipe # {})
                    \/ x[1] \in active /\ (top.swallowed \/ top.hiked)
  BY DEF NothingIgnored
<1>1. StackInv /\ FdInv /\ ToldInv
  BY ThreadsIs DEF Inv
<1>2. IsGet(top) /\ top.pc = "recv" /\ top.first /\ ~ selMsg
  BY DEF Waits, Receives, InCall, NoMessage
<1>3. x \in Live /\ x \notin InUse /\ Above(x, Own(top))
  BY DEF Minded, Live, Own
<1>4. x[1] \in active \/ x[1] \in waiting
  BY <1>1, <1>2, <1>3 DEF FdInv, Removing
<1>5. CASE x[1] \in active
  <2>1. Told(top, x)
    BY <1>1, <1>2, <1>3, <1>5, TopCall DEF Idle
  <2> QED BY <1>2, <1>5, <2>1 DEF Told, Looks
<1>6. CASE x[1] \in waiting
  BY <1>1, <1>6 DEF ToldInv
<1> QED BY <1>4, <1>5, <1>6

\* What a call knows of the queue while it waits, and when it returns.
LEMMA InvNoticed == Inv /\ Inv2 => EventNoticed
<1> SUFFICES ASSUME Inv, Inv2 PROVE EventNoticed
  OBVIOUS
<1>1. StackInv /\ EventInv
  BY DEF Inv
<1>2. ASSUME IsGet(top), top.pc \in {"recv", "return"}
      PROVE  \/ top.meddled
             \/ lastEvent = NIL /\ \A i \in DOMAIN queue : ~ IsIn(top.get, queue[i])
             \/ \E i \in DOMAIN queue : queue[i].addr = lastEvent /\ IsIn(top.get, queue[i])
  BY <1>1, <1>2, TopCall DEF Knows
<1>3. \A i \in DOMAIN queue : queue[i].addr # NIL
  BY <1>1, QueueIs DEF QEntry, Address
<1>4. ASSUME Waits PROVE top.meddled \/ Matching(queue, top.get) = NIL
  <2>1. IsGet(top) /\ top.pc = "recv" /\ lastEvent = NIL
    BY <1>4 DEF Waits, Receives, InCall
  <2>2. ASSUME \A i \in DOMAIN queue : ~ IsIn(top.get, queue[i])
        PROVE  Matching(queue, top.get) = NIL
    <3>1. {i \in DOMAIN queue : IsIn(top.get, queue[i])} = {}
      BY <2>2
    <3> QED BY <3>1 DEF Matching
  <2> QED BY <1>2, <1>3, <2>1, <2>2
<1>5. ASSUME InCall("return"), lastEvent # NIL
      PROVE  \/ top.meddled
             \/ \E i \in DOMAIN queue : queue[i].addr = lastEvent /\ IsIn(top.get, queue[i])
  BY <1>2, <1>5 DEF InCall
<1> QED BY <1>4, <1>5 DEF EventNoticed

\* The procs among the frames of s.
Within(s, X) == \A i \in 1 .. Len(s) : ~ IsGet(s[i]) => s[i].item \in X

LEMMA InUseWithin ==
  ASSUME StackInv', NEW X, Within(stack', InUse \cup {NIL} \cup X)
  PROVE  InUse' \subseteq InUse \cup X
<1>1. stack' \in Seq(Frame) /\ Len(stack') \in Nat
  BY LenProperties DEF StackInv
<1>2. InUse' = {stack'[i].item : i \in {j \in 1 .. Len(stack') : ~ IsGet(stack'[j])}} \ {NIL}
  BY <1>1, InUseNext
<1> QED BY <1>2 DEF Within

LEMMA WithinAged ==
  ASSUME StackInv, NEW m \in Nat, NEW s, Aged(s, m)
  PROVE  Within(s, InUse \cup {NIL})
<1> SUFFICES ASSUME NEW i \in 1 .. m, ~ IsGet(s[i])
             PROVE  s[i].item \in InUse \cup {NIL}
  BY DEF Within, Aged
<1>1. Stays(stack[i], s[i]) /\ i \in 1 .. Len(stack)
  BY StackIs DEF Aged, Ages
<1>2. ~ IsGet(stack[i]) /\ s[i].item = stack[i].item
  BY <1>1 DEF Stays, IsGet
<1> QED BY <1>1, <1>2, InUseIs

LEMMA WithinTop ==
  ASSUME StackInv, NEW g, IsGet(g) \/ (~ IsGet(top) /\ g.item = top.item)
  PROVE  Within(WithTop(g), InUse \cup {NIL})
<1>1. Len(stack) \in Nat \ {0} /\ DOMAIN stack = 1 .. Len(stack) /\ top = stack[Len(stack)]
  BY StackIs
<1>2. /\ Len(WithTop(g)) = Len(stack)
      /\ \A i \in 1 .. Len(stack) : WithTop(g)[i] = IF i = Len(stack) THEN g ELSE stack[i]
  BY <1>1 DEF WithTop, StackInv
<1>3. \A i \in 1 .. Len(stack) : ~ IsGet(stack[i]) => stack[i].item \in InUse \cup {NIL}
  BY InUseIs
<1>4. Len(stack) \in 1 .. Len(stack)
  BY <1>1
<1> QED BY <1>1, <1>2, <1>3, <1>4 DEF Within

LEMMA WithinAppend ==
  ASSUME NEW Y, NEW s, Within(s, Y), NEW g, IsGet(g) \/ g.item \in Y,
         Append(s, g) \in Seq(Frame), s \in Seq(Frame)
  PROVE  Within(Append(s, g), Y)
<1>1. Len(s) \in Nat /\ Len(Append(s, g)) = Len(s) + 1
  BY LenProperties
<1>2. \A i \in 1 .. Len(s) + 1 : Append(s, g)[i] = IF i <= Len(s) THEN s[i] ELSE g
  BY <1>1
<1>3. \A i \in 1 .. Len(s) + 1 : i <= Len(s) => i \in 1 .. Len(s)
  BY <1>1
<1> QED BY <1>1, <1>2, <1>3 DEF Within

\* Who is in use after a step that calls x, or nobody (NIL).
LEMMA InUseTop ==
  ASSUME StackInv, StackInv', NEW g, IsGet(g) \/ (~ IsGet(top) /\ g.item = top.item),
         stack' = WithTop(g)
  PROVE  InUse' \subseteq InUse
<1>1. Within(stack', InUse \cup {NIL} \cup {})
  BY WithinTop
<1>2. InUse' \subseteq InUse \cup {}
  BY <1>1, InUseWithin
<1> QED BY <1>2

LEMMA InUseAged ==
  ASSUME StackInv, StackInv', NEW m \in Nat, Aged(stack', m)
  PROVE  InUse' \subseteq InUse
<1>1. Within(stack', InUse \cup {NIL} \cup {})
  BY WithinAged
<1>2. InUse' \subseteq InUse \cup {}
  BY <1>1, InUseWithin
<1> QED BY <1>2

LEMMA InUseAppend ==
  ASSUME StackInv, StackInv', NEW m \in Nat, NEW s, Aged(s, m), NEW g, stack' = Append(s, g),
         NEW X, IsGet(g) \/ g.item \in X \cup {NIL}
  PROVE  InUse' \subseteq InUse \cup X
<1> DEFINE Y == InUse \cup {NIL} \cup X
<1>1. Within(s, Y)
  BY WithinAged DEF Within
<1>2. s \in Seq(Frame) /\ Append(s, g) \in Seq(Frame)
  BY DEF Aged, StackInv
<1>3. Within(stack', Y)
  BY <1>1, <1>2, WithinAppend
<1> QED BY <1>3, InUseWithin

\* The call on top goes on or waits.
LEMMA EventLoopCalls ==
  ASSUME Inv, Inv', FDsChecked0 \/ FDsChecked \/ TimedOut \/ AfterMessages \/ TEsChecked
  PROVE  InUse' \subseteq InUse
<1>1. StackInv /\ StackInv' /\ IsGet(top)
  BY StackAndNext DEF FDsChecked0, FDsChecked, TimedOut, AfterMessages, TEsChecked, Receives,
     InCall
<1>2. top \in GetFrame
  BY <1>1, TopIs
<1>3. ASSUME NEW f \in GetFrame
      PROVE  /\ IsGet(Settled(f)) /\ Settled(f) \in GetFrame
             /\ \A pc \in CallPc : IsGet(Go(f, pc))
  <2>1. Settled(f) \in GetFrame
    BY DEF Settled, GetFrame
  <2> QED BY <2>1 DEF Go, IsGet, GetFrame
<1>4. PICK g : IsGet(g) /\ stack' = WithTop(g)
  <2>1. CASE FDsChecked0 \/ FDsChecked
    <3>1. stack' = WithTop(Go(top, "recv")) \/ stack' = WithTop(Go(top, "return"))
      BY <2>1 DEF FDsChecked0, FDsChecked
    <3> QED BY <1>2, <1>3, <3>1 DEF CallPc
  <2>2. CASE TimedOut
    BY <1>2, <2>2 DEF TimedOut, GetFrame, IsGet
  <2>3. CASE TEsChecked
    BY <1>2, <2>3 DEF TEsChecked, GetFrame, IsGet
  <2>4. CASE AfterMessages
    <3> DEFINE e == Settled(top)
               f == [e EXCEPT !.pc = "tes", !.at = FirstOf(Timer)]
               h == [f EXCEPT !.hiked = TRUE]
    <3>1. stack' = WithTop(f) \/ stack' = WithTop(h)
      BY <2>4 DEF AfterMessages
    <3>2. e \in GetFrame
      BY <1>2, <1>3
    <3> HIDE DEF e
    <3>3. f.kind = "get" /\ h.kind = "get"
      BY <3>2 DEF GetFrame
    <3> QED BY <3>1, <3>3 DEF IsGet
  <2> QED BY <2>1, <2>2, <2>3, <2>4
<1> QED BY <1>1, <1>4, InUseTop

\* Messages, other than those for ports.
LEMMA MessagesCall ==
  ASSUME Inv, Inv', ReceiveSignal \/ (\E c \in Ctx : ReceiveEvent(c)) \/ FixAgain
  PROVE  InUse' \subseteq InUse
<1>1. StackInv /\ StackInv' /\ IsGet(top)
  BY StackAndNext DEF ReceiveSignal, ReceiveEvent, FixAgain, Receives, InCall
<1>2. top \in GetFrame /\ Len(stack) \in Nat \ {0}
  BY <1>1, TopIs, StackIs
<1> DEFINE n == Len(stack)
           g == Received(top)
<1>3. IsGet(g) /\ g \in Frame /\ Same(top, g)
  BY <1>2, ReceivedIs
<1> HIDE DEF g
<1>4. Aged(Outer(1), n - 1) /\ n - 1 \in Nat
  <2>1. 1 <= n
    BY <1>2
  <2> QED BY <1>1, <1>2, <2>1, AgedOuter
<1>5. CASE ReceiveSignal
  <2> DEFINE s == OfCalls(Outer(1), LAMBDA f : [f EXCEPT !.swallowed = TRUE])
  <2>1. Aged(s, n - 1)
    BY <1>1, <1>4, AgedSwallowed
  <2>2. stack' = Append(s, g)
    BY <1>5 DEF ReceiveSignal, g
  <2> HIDE DEF s
  <2>3. InUse' \subseteq InUse \cup {}
    BY <1>1, <1>3, <1>4, <2>1, <2>2, InUseAppend
  <2> QED BY <2>3
<1>6. CASE FixAgain
  <2> DEFINE f == [top EXCEPT !.stale = FALSE]
  <2>1. stack' = Append(Outer(1), f) \/ stack' = Append(AllStale(Outer(1)), f)
    BY <1>6 DEF FixAgain, FixMainSet
  <2>2. IsGet(f)
    BY <1>2 DEF GetFrame, IsGet
  <2> HIDE DEF f
  <2>3. Aged(AllStale(Outer(1)), n - 1)
    BY <1>1, <1>4, AgedStale
  <2>4. InUse' \subseteq InUse \cup {}
    BY <1>1, <1>4, <2>1, <2>2, <2>3, InUseAppend
  <2> QED BY <2>4
<1>7. CASE \E c \in Ctx : ReceiveEvent(c)
  <2>1. PICK c \in Ctx : ReceiveEvent(c)
    BY <1>7
  <2> DEFINE h == Filter([ctxt |-> c, type |-> sent[c]])
  <2>2. stack' = Append(WithTop(g), h) \/ stack' = WithTop(g)
    BY <2>1 DEF ReceiveEvent, g
  <2>3. h.item = NIL
    BY DEF Filter, Prog
  <2> HIDE DEF h
  <2>4. Aged(WithTop(g), n) /\ n \in Nat
    BY <1>1, <1>2, <1>3, MarkedTop DEF Marked
  <2>5. CASE stack' = WithTop(g)
    BY <1>1, <1>3, <2>5, InUseTop
  <2>6. CASE stack' = Append(WithTop(g), h)
    <3>1. InUse' \subseteq InUse \cup {}
      BY <1>1, <2>3, <2>4, <2>6, InUseAppend
    <3> QED BY <3>1
  <2> QED BY <2>2, <2>5, <2>6
<1> QED BY <1>5, <1>6, <1>7

\* Calls begin and end.
LEMMA EndsCall ==
  ASSUME Inv, Inv', Return \/ ProcReturns \/ ProcRaises \/ FilterReturns
  PROVE  InUse' \subseteq InUse
<1>1. StackInv /\ StackInv'
  BY StackAndNext
<1> DEFINE n == Len(stack)
<1>2. n \in Nat \ {0} /\ 1 <= n
  BY <1>1, StackIs
<1>3. CASE Return \/ FilterReturns
  <2>1. stack' = Outer(1)
    BY <1>3 DEF Return, FilterReturns
  <2>2. Aged(stack', n - 1) /\ n - 1 \in Nat
    BY <1>1, <1>2, <2>1, AgedOuter
  <2> QED BY <1>1, <2>2, InUseAged
<1>4. CASE ProcReturns \/ ProcRaises
  <2>1. /\ ~ IsGet(top) /\ top.item # NIL
        /\ stack' = Outer(2) \/ stack' = Append(Outer(2), Called(below, top.item))
    BY <1>4 DEF ProcReturns, ProcRaises, InProc, IsGet
  <2>2. below \in GetFrame /\ n >= 3
    BY <1>1, <2>1, BelowIs
  <2>3. Aged(Outer(2), n - 2) /\ n - 2 \in Nat
    <3>1. 2 <= n /\ n - 2 \in Nat
      BY <1>2, <2>2
    <3> QED BY <1>1, <3>1, AgedOuter
  <2>4. IsGet(Called(below, top.item))
    BY <2>2 DEF Called, GetFrame, IsGet
  <2>5. CASE stack' = Outer(2)
    BY <1>1, <2>3, <2>5, InUseAged
  <2>6. CASE stack' = Append(Outer(2), Called(below, top.item))
    <3>1. InUse' \subseteq InUse \cup {}
      BY <1>1, <2>3, <2>4, <2>6, InUseAppend
    <3> QED BY <3>1
  <2> QED BY <2>1, <2>5, <2>6
<1> QED BY <1>3, <1>4

LEMMA GetEventCalls ==
  ASSUME Inv, Inv', NEW r \in uses.gets, GetEvent(r)
  PROVE  InUse' \subseteq InUse
<1>1. StackInv /\ StackInv' /\ Len(stack) \in Nat
  BY StackAndNext, StackIs
<1> DEFINE s == Meddled(stack)
           a == FirstFD(r)
           f == [Call(r) EXCEPT !.at = a]
           g == [f EXCEPT !.stale = FALSE]
           h == [f EXCEPT !.pc = "return"]
<1>2. stack' = Append(s, g) \/ stack' = Append(AllStale(s), g) \/ stack' = Append(s, h)
  BY DEF GetEvent, FixMainSet
<1>3. IsGet(g) /\ IsGet(h)
  BY DEF Call, IsGet
<1>4. Aged(s, Len(stack)) /\ Aged(AllStale(s), Len(stack))
  <2>1. Aged(s, Len(stack))
    BY <1>1, AgedMeddled
  <2> QED BY <1>1, <2>1, AgedStale
<1> HIDE DEF g, h, s
<1>5. InUse' \subseteq InUse \cup {}
  BY <1>1, <1>2, <1>3, <1>4, InUseAppend
<1> QED BY <1>5

\* What programs and procs do besides.
LEMMA ProgramCalls ==
  ASSUME Inv, Inv',
         \/ stack' = stack \/ stack' = AllStale(stack) \/ stack' = Meddled(stack)
         \/ \E fd : DPSRemoveFD(fd)
         \/ FDRemoved
  PROVE  InUse' \subseteq InUse
<1>1. StackInv /\ StackInv' /\ Len(stack) \in Nat
  BY StackAndNext, StackIs
<1>2. CASE stack' = stack \/ stack' = AllStale(stack) \/ stack' = Meddled(stack)
  <2>1. Aged(stack, Len(stack))
    BY <1>1, AgedStack
  <2>2. Aged(AllStale(stack), Len(stack)) /\ Aged(Meddled(stack), Len(stack))
    BY <1>1, <2>1, AgedStale, AgedMeddled
  <2> QED BY <1>1, <1>2, <2>1, <2>2, InUseAged
<1>3. CASE (\E fd : DPSRemoveFD(fd)) \/ FDRemoved
  <2>1. ~ IsGet(top)
    BY <1>3 DEF DPSRemoveFD, FDRemoved, Runs, IsGet
  <2>2. top \in ProgFrame
    BY <1>1, <2>1, TopIs
  <2>3. PICK p, d : stack' = WithTop([top EXCEPT !.pc = p, !.fd = d])
    BY <1>3 DEF DPSRemoveFD, FDRemoved
  <2>4. [top EXCEPT !.pc = p, !.fd = d].item = top.item
    BY <2>2 DEF ProgFrame
  <2> QED BY <1>1, <2>1, <2>3, <2>4, InUseTop
<1> QED BY <1>2, <1>3

\* The procs that are called.
LEMMA ProcsCalled ==
  ASSUME Inv, Inv', Inv2, CheckFDs \/ CheckTEs \/ \E x \in Range(list) : ReceiveForPort(x),
         NEW y \in InUse' \ InUse, y[1] \in FD
  PROVE  y[1] \in data \/ y \in late
<1>1. StackInv /\ StackInv' /\ ListInv /\ DataInv
  BY ThreadsIs, StackAndNext
<1>2. IsGet(top) /\ Len(stack) \in Nat
  BY <1>1, StackIs DEF CheckFDs, CheckTEs, Visit, ReceiveForPort, Receives, InCall
<1>3. top \in GetFrame
  BY <1>1, <1>2, TopIs
<1>4. CASE \E x \in Range(list) : ReceiveForPort(x)
  <2>1. PICK x \in Range(list) : ReceiveForPort(x)
    BY <1>4
  <2> DEFINE g == Received(top)
             h == Prog(x)
  <2>2. stack' = Append(WithTop(g), h) /\ x \in mainPorts
    BY <2>1 DEF ReceiveForPort
  <2>3. g \in Frame /\ Same(top, g) /\ h.item = x
    BY <1>3, ReceivedIs DEF Prog
  <2> HIDE DEF g, h
  <2>4. Aged(WithTop(g), Len(stack))
    BY <1>1, <2>3, MarkedTop DEF Marked
  <2>5. InUse' \subseteq InUse \cup {x}
    BY <1>1, <1>2, <2>2, <2>3, <2>4, InUseAppend
  <2>6. x[1] \in Port
    BY <1>1, <2>2 DEF ListInv, Listed
  <2> QED BY <2>5, <2>6
<1>5. CASE CheckFDs \/ CheckTEs
  <2>1. /\ top.at # NIL /\ top.pc \in {"fds0", "fds", "tes"}
        /\ \/ stack' = Append(stack, Prog(top.at)) /\ Ready(top.at)
           \/ \E a : stack' = WithTop([top EXCEPT !.at = a])
    BY <1>5 DEF CheckFDs, CheckTEs, Visit, InCall, Pushed
  <2>2. CASE \E a : stack' = WithTop([top EXCEPT !.at = a])
    <3>1. PICK a : stack' = WithTop([top EXCEPT !.at = a])
      BY <2>2
    <3>2. IsGet([top EXCEPT !.at = a])
      BY <1>3 DEF GetFrame, IsGet
    <3>3. InUse' \subseteq InUse
      BY <1>1, <3>1, <3>2, InUseTop
    <3> QED BY <3>3
  <2>3. CASE stack' = Append(stack, Prog(top.at)) /\ Ready(top.at)
    <3> DEFINE x == top.at
               h == Prog(x)
    <3>1. h.item = x
      BY DEF Prog
    <3> HIDE DEF h
    <3>2. Aged(stack, Len(stack)) /\ stack' = Append(stack, h)
      BY <1>1, <2>3, AgedStack DEF h
    <3>3. InUse' \subseteq InUse \cup {x}
      BY <1>1, <1>2, <3>1, <3>2, InUseAppend
    <3>4. y = x /\ x \in Range(list)
      BY <1>1, <1>2, <2>1, <3>3 DEF ListInv, Loops
    <3>5. y \in Idle
      BY <2>3, <3>4 DEF Idle, Live, Listed, Ready
    <3> QED BY <1>1, <3>5 DEF DataInv
  <2> QED BY <2>1, <2>2, <2>3
<1> QED BY <1>4, <1>5

\* An fd whose proc is called has data.
LEMMA NextCalls ==
  ASSUME Inv, Inv2, [Next]_vars, NEW y \in InUse' \ InUse, y[1] \in FD
  PROVE  y[1] \in data \/ y \in late
<1>1. Inv'
  BY NextInv
<1>2. InUse' \subseteq InUse \/ y[1] \in data \/ y \in late
  <2>1. CASE EventLoop
    BY <1>1, <2>1, ProcsCalled, EventLoopCalls, MessagesCall, EndsCall DEF EventLoop
  <2>2. CASE Program
    <3>1. CASE \E g \in uses.gets : GetEvent(g)
      BY <1>1, <3>1, GetEventCalls
    <3>2. CASE ProcReturns \/ ProcRaises \/ FilterReturns
      BY <1>1, <3>2, EndsCall
    <3>3. CASE FDRemoved \/ \E fd \in FD : DPSRemoveFD(fd)
      BY <1>1, <3>3, ProgramCalls
    <3>4. CASE \/ \E g \in uses.gets : DPSDiscardEvents(g)
               \/ \E c \in Ctx, type \in Type, atStart \in BOOLEAN :
                    DPSPostEvent([ctxt |-> c, type |-> type], atStart)
               \/ \E flag \in BOOLEAN : DPSSetTracking(flag)
      <4>1. stack' = Meddled(stack)
        BY <3>4 DEF DPSDiscardEvents, DPSPostEvent, DPSSetTracking
      <4> QED BY <1>1, <4>1, ProgramCalls
    <3>5. CASE \/ ReadFD \/ \E fd \in FD : DPSAddFD(fd)
               \/ \E p \in Port : DPSAddPort(p) \/ DPSRemovePort(p)
               \/ \E t \in Timer : DPSAddTimedEntry(t)
               \/ \E x \in Listed(uses.keys) : DPSRemoveTimedEntry(x)
      <4>1. stack' = stack \/ stack' = AllStale(stack)
        BY <3>5 DEF ReadFD, DPSAddFD, DPSAddPort, DPSRemovePort, DPSAddTimedEntry,
                    DPSRemoveTimedEntry
      <4> QED BY <1>1, <4>1, ProgramCalls
    <3> QED BY <2>2, <3>1, <3>2, <3>3, <3>4, <3>5 DEF Program
  <2>3. CASE SelectLoop \/ World \/ UNCHANGED vars
    <3>1. stack' = stack
      BY <2>3 DEF SelectLoop, SelCopy, SelReturns, SelDrain, SelApply, SelSend, World,
                  DataArrives, MailArrives, ServerSends, TimePasses, vars
    <3> QED BY <1>1, <3>1, ProgramCalls
  <2> QED BY <2>1, <2>2, <2>3 DEF Next
<1> QED BY <1>2

(* Beside the stack, what the select thread, the calls and the queue know of     *)
(* each other is as the event loop (input.c) needs it: the bit of an fd is where *)
(* its item is, a bit that is set stands for data, a call that has passed such  *)
(* an fd will be told, and knows whether the event it wants is in the queue.    *)
THEOREM Inv2Always == Spec => [](Inv /\ Inv2)
<1> QED BY InitInv, InitInv2, NextInv, NextInv2, PTL DEF Spec

(* A call that waits is told of data for the procs it may call, unless a nested  *)
(* call took the select thread's message or its threshold was raised (input.c). *)
THEOREM NothingIgnoredAlways == Spec => []NothingIgnored
<1> QED BY Inv2Always, InvIgnored, PTL

(* What DPSGetEvent returns is in the queue and is what was asked for, and it   *)
(* does not wait while there is such an event, unless an event proc changed the *)
(* queue (input.c, queues.c).                                                *)
THEOREM EventNoticedAlways == Spec => []EventNoticed
<1> QED BY Inv2Always, InvNoticed, PTL

(* A proc is called for an fd that has data, except one added while the select   *)
(* thread held a mask from before (input.c).                                   *)
THEOREM CalledForDataAlways == Spec => CalledForData
<1>1. Inv /\ Inv2 /\ [Next]_vars =>
        [\A x \in InUse' \ InUse : x[1] \in FD => x[1] \in data \/ x \in late]_vars
  BY NextCalls
<1> QED BY <1>1, Inv2Always, PTL DEF Spec, CalledForData

=============================================================================
