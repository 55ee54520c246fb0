-------------------------- MODULE ForkJoin_proofs --------------------------
(***************************************************************************)
(* The safety properties of ForkJoin, for every value of its constants.     *)
(* Neither JoinableSound nor NoOrphanJoiner is inductive: that a joiner is   *)
(* woken by its target needs the two to share a space, a forked context to   *)
(* be new, and a joined one to have come to its end.                        *)
(***************************************************************************)
EXTENDS ForkJoin, SequenceTheorems, TLAPS

\* A context not created yet has not run; a live one has its space.
UsedWell ==
  /\ \A c \in Context : c \notin used => at[c] = "start"
  /\ \A c \in live : SpaceOf[c] \in spaces

\* Only a context that has returned from its startup procedure is joined.
JoinedDone == \A c \in live \cap joined : at[c] = "done"

\* A joiner waits for a context of its own space.
TargetNear ==
  \A c \in live : at[c] = "join" => /\ target[c] \in used
                                    /\ SpaceOf[target[c]] = SpaceOf[c]

JoinInv == JoinableSound /\ UsedWell /\ JoinedDone /\ TargetNear /\ NoOrphanJoiner

USE ContextAssumption

LEMMA JoinInit == Init => JoinInv
<1> SUFFICES ASSUME Init PROVE JoinInv
  OBVIOUS
<1> USE DEF Init, BaseInit
<1>0. instance.initial \subseteq Context
  BY ForkJoinAssumption
<1>1. TypeOK
  BY <1>0 DEF TypeOK, Point
<1>2. JoinableSound
  BY <1>1 DEF JoinableSound, ResultsStable
<1>3. UsedWell /\ JoinedDone /\ TargetNear
  BY <1>0 DEF UsedWell, JoinedDone, TargetNear
<1>4. NoOrphanJoiner
  BY <1>0 DEF NoOrphanJoiner, Asleep
<1> QED BY <1>2, <1>3, <1>4 DEF JoinInv

LEMMA PopType ==
  ASSUME NEW S, NEW s \in Seq(S), s # <<>>
  PROVE  SubSeq(s, 1, Len(s) - 1) \in Seq(S)
<1>1. Len(s) \in Nat /\ Len(s) # 0
  BY LenProperties, EmptySeq
<1>2. \A i \in 1 .. Len(s) - 1 : s[i] \in S
  BY <1>1, ElementOfSeq
<1> QED BY <1>1, <1>2, SubSeqProperties

LEMMA JoinDispatch ==
  ASSUME JoinInv, NEW c \in Context, Dispatch(c)
  PROVE  JoinInv'
<1> USE DEF Dispatch, Schedule, joinVars, exclVars
<1>1. TypeOK'
  BY DEF TypeOK, JoinInv, JoinableSound
<1>2. JoinableSound'
  BY <1>1 DEF JoinInv, JoinableSound, ResultsStable
<1>3. UsedWell' /\ JoinedDone' /\ TargetNear'
  BY DEF UsedWell, JoinedDone, TargetNear, JoinInv
<1>4. NoOrphanJoiner'
  BY DEF NoOrphanJoiner, Asleep, Executing, JoinInv
<1> QED BY <1>2, <1>3, <1>4 DEF JoinInv

LEMMA JoinSignal ==
  ASSUME JoinInv, NEW c \in Context, Signal(c)
  PROVE  JoinInv'
<1> USE DEF Signal, Notify, joinVars, exclVars
<1>1. TypeOK'
  BY ForkJoinAssumption DEF TypeOK, JoinInv, JoinableSound, Override
<1>2. JoinableSound'
  BY <1>1 DEF JoinInv, JoinableSound, ResultsStable
<1>3. UsedWell' /\ JoinedDone' /\ TargetNear'
  BY DEF UsedWell, JoinedDone, TargetNear, JoinInv
<1>4. NoOrphanJoiner'
  BY DEF NoOrphanJoiner, Asleep, Executing, JoinInv
<1> QED BY <1>2, <1>3, <1>4 DEF JoinInv

LEMMA JoinTerminate ==
  ASSUME JoinInv, NEW s \in Space, TerminatePSSpace(s)
  PROVE  JoinInv'
<1> USE DEF TerminatePSSpace, joinVars, exclVars
<1>1. TypeOK'
  BY DEF TypeOK, JoinInv, JoinableSound
<1>2. JoinableSound'
  BY <1>1 DEF JoinInv, JoinableSound, ResultsStable
<1>3. UsedWell' /\ JoinedDone' /\ TargetNear'
  BY DEF UsedWell, JoinedDone, TargetNear, JoinInv
<1>4. NoOrphanJoiner'
  BY DEF NoOrphanJoiner, Asleep, Executing, JoinInv
<1> QED BY <1>2, <1>3, <1>4 DEF JoinInv

LEMMA JoinBase ==
  ASSUME JoinInv, NEW c \in Context, BaseOp(c)
  PROVE  JoinInv'
<1> USE DEF joinVars, exclVars, JoinInv, JoinableSound
<1>0. c \in live /\ at[c] = "ready" /\ cur = c /\ running
  BY DEF BaseOp, Save, Restore, EnterFont, LeaveFrame, YieldSlice, Ready, At, TypeOK
<1>1. UNCHANGED <<live, cur, pend, joinVars>>
  BY DEF BaseOp, Save, Restore, EnterFont, LeaveFrame, YieldSlice, Yield
<1>2. /\ \A d \in Context \ {c} : at'[d] = at[d]
      /\ at'[c] \in {"ready", "slice"} /\ at' \in [Context -> Point]
  <2>1. CASE YieldSlice(c)
    BY <1>0, <2>1 DEF YieldSlice, Yield, TypeOK, Point
  <2>2. CASE ~ YieldSlice(c)
    BY <1>0, <2>2 DEF BaseOp, Save, Restore, EnterFont, LeaveFrame, TypeOK
  <2> QED BY <2>1, <2>2
<1>3. /\ running' => running
      /\ runnable' \subseteq live /\ runnable \subseteq runnable'
  BY <1>0 DEF BaseOp, Save, Restore, EnterFont, LeaveFrame, YieldSlice, Yield, TypeOK
<1>4. level' \in [Space -> 0 .. MaxLevel]
  <2>1. CASE Save(c)
    BY <2>1 DEF Save, TypeOK
  <2>2. CASE Restore(c)
    BY <2>2 DEF Restore, TypeOK
  <2>3. CASE EnterFont(c) \/ LeaveFrame(c) \/ YieldSlice(c)
    BY <2>3 DEF EnterFont, LeaveFrame, YieldSlice, TypeOK
  <2> QED BY <2>1, <2>2, <2>3 DEF BaseOp
<1>5. frames' \in [Context -> Seq(Frame)]
  <2>1. CASE Save(c) \/ Restore(c) \/ YieldSlice(c)
    BY <2>1 DEF Save, Restore, YieldSlice, TypeOK
  <2>2. CASE EnterFont(c)
    <3>1. Append(frames[c], "font") \in Seq(Frame)
      BY AppendProperties DEF TypeOK, Frame
    <3> QED BY <2>2, <3>1 DEF EnterFont, Push, TypeOK
  <2>3. CASE LeaveFrame(c)
    <3>1. frames[c] \in Seq(Frame) /\ frames[c] # <<>>
      BY <2>3 DEF LeaveFrame, TypeOK
    <3>2. SubSeq(frames[c], 1, Len(frames[c]) - 1) \in Seq(Frame)
      BY <3>1, PopType
    <3> QED BY <2>3, <3>2 DEF LeaveFrame, Pop, TypeOK
  <2> QED BY <2>1, <2>2, <2>3 DEF BaseOp
<1>6. TypeOK'
  BY <1>1, <1>2, <1>3, <1>4, <1>5 DEF TypeOK
<1>7. JoinableSound'
  BY <1>0, <1>1, <1>2, <1>6 DEF ResultsStable, TypeOK
<1>8. UsedWell' /\ JoinedDone' /\ TargetNear'
  BY <1>0, <1>1, <1>2 DEF UsedWell, JoinedDone, TargetNear, TypeOK
<1>9. NoOrphanJoiner'
  BY <1>0, <1>1, <1>2, <1>3 DEF NoOrphanJoiner, Asleep, Executing, TypeOK
<1> QED BY <1>7, <1>8, <1>9

\* fork, complete or failed half-way.
LEMMA JoinFork ==
  ASSUME JoinInv, NEW c \in Context, PSFork(c) \/ ForkFails(c)
  PROVE  JoinInv'
<1> USE DEF JoinInv, JoinableSound
<1>1. PICK d \in Context : /\ d \notin used /\ SpaceOf[d] = SpaceOf[c]
                           /\ live' = live \cup {d} /\ used' = used \cup {d}
                           /\ runnable' = runnable \cup {d}
                           /\ doomed' \in {doomed, doomed \cup {d}}
                           /\ pend' \in {pend, [pend EXCEPT ![d] = "terminate"]}
  BY DEF PSFork, ForkFails, MayFork
<1>2. /\ UNCHANGED <<cur, running, frames, at, detached, readyForJoin, joined>>
      /\ UNCHANGED <<joinerWaiting, joinable, linked, target, spaces, level>>
  BY DEF PSFork, ForkFails, exclVars
<1>3. c \in live
  BY DEF PSFork, ForkFails, MayFork, Ready, At, TypeOK
<1>4. TypeOK'
  <2>1. pend' \in [Context -> {"none", "request_yield", "terminate"}]
    <3>1. CASE pend' = pend
      BY <3>1 DEF TypeOK
    <3>2. CASE pend' = [pend EXCEPT ![d] = "terminate"]
      BY <3>2 DEF TypeOK
    <3> QED BY <1>1, <3>1, <3>2
  <2> QED BY <1>1, <1>2, <2>1 DEF TypeOK
<1>5. JoinableSound'
  BY <1>1, <1>2, <1>4 DEF ResultsStable
<1>6. UsedWell' /\ JoinedDone' /\ TargetNear'
  BY <1>1, <1>2, <1>3 DEF UsedWell, JoinedDone, TargetNear, TypeOK
<1>7. NoOrphanJoiner'
  BY <1>1, <1>2 DEF NoOrphanJoiner, Asleep, Executing, UsedWell
<1> QED BY <1>5, <1>6, <1>7

\* A running context c notifies the joinable condition of d's space: who was
\* waiting on it is awake, everyone else waits on.
LEMMA NotifyMoves ==
  ASSUME JoinableSound, NEW c \in Context, NEW d \in Context, InnerNotify(d, BreakLooseCV(c))
  PROVE  LET W == NotifiedBy(d, BreakLooseCV(c)) IN
         /\ joinable' \in [Space -> SUBSET Context]
         /\ linked' = linked \ W
         /\ W \subseteq live \ {c}
         /\ \A s \in Space : joinable'[s] \subseteq joinable[s] \ {c}
         /\ \A s \in Space : joinable'[s] \cap W = {}
         /\ \A s \in Space : joinable[s] \subseteq joinable'[s] \cup W \cup {c}
         /\ d \in joinerWaiting => joinable[SpaceOf[d]] \subseteq W \cup {c}
<1> USE DEF JoinableSound
<1> DEFINE j == BreakLooseCV(c)
           W == NotifiedBy(d, j)
<1>1. /\ linked' = linked \ W
      /\ joinable' = IF d \in joinerWaiting THEN [j EXCEPT ![SpaceOf[d]] = {}] ELSE j
  BY DEF InnerNotify
<1>2. /\ j \in [Space -> SUBSET Context]
      /\ \A s \in Space : j[s] = joinable[s] \ {c}
  BY DEF BreakLooseCV, TypeOK
<1>3. W = IF d \in joinerWaiting THEN joinable[SpaceOf[d]] \ {c} ELSE {}
  BY <1>2 DEF NotifiedBy, TypeOK
<1>4. /\ W \subseteq joinable[SpaceOf[d]] \ {c}
      /\ SpaceOf[d] \in Space
  BY <1>3
<1>5. \A s \in Space : \A e \in joinable[s] : SpaceOf[e] = s /\ e \in live
  OBVIOUS
<1> HIDE DEF j, W
<1>6. /\ joinable' \in [Space -> SUBSET Context]
      /\ \A s \in Space : joinable'[s] \subseteq joinable[s] \ {c}
      /\ \A s \in Space : joinable'[s] \cap W = {}
      /\ \A s \in Space : joinable[s] \subseteq joinable'[s] \cup W \cup {c}
  BY <1>1, <1>2, <1>3, <1>4, <1>5
<1>7. W \subseteq live \ {c}
  BY <1>4, <1>5
<1>8. d \in joinerWaiting => joinable[SpaceOf[d]] \subseteq W \cup {c}
  BY <1>3
<1> QED BY <1>1, <1>6, <1>7, <1>8 DEF j, W

\* Outside join there is nothing to break loose from.
LEMMA AtReady ==
  ASSUME JoinableSound, NEW c \in Context, at[c] # "join"
  PROVE  BreakLooseCV(c) = joinable
  BY DEF BreakLooseCV

\* Control is in c's coroutine.
Runs(c) == c \in live /\ cur = c /\ running

\* A context ends: its joiners are woken, whatever it ends by.
LEMMA JoinDestroy ==
  ASSUME JoinInv, NEW c \in Context, Runs(c), Destroy(c, BreakLooseCV(c)),
         joined' \in {joined, joined \cup {c}}
  PROVE  JoinInv'
<1> USE DEF JoinInv, JoinableSound, Runs
<1> DEFINE j == BreakLooseCV(c)
           W == NotifiedBy(c, j)
<1>1. /\ live' = live \ {c} /\ cur' = NIL /\ running' = FALSE
      /\ runnable' = (runnable \cup W) \ {c}
      /\ pend' = [pend EXCEPT ![c] = "none"]
      /\ frames' = [frames EXCEPT ![c] = <<>>]
      /\ at' = [at EXCEPT ![c] = "dead"]
      /\ level' = [level EXCEPT ![SpaceOf[c]] = 0]
  BY DEF Destroy, DestroyBase
<1>2. /\ target' = [target EXCEPT ![c] = NIL]
      /\ readyForJoin' = readyForJoin \ {c}
      /\ spaces' = IF \E d \in live \ {c} : SpaceOf[d] = SpaceOf[c]
                   THEN spaces ELSE spaces \ {SpaceOf[c]}
      /\ UNCHANGED <<used, doomed, detached, joinerWaiting>>
  BY DEF Destroy
<1>5. /\ joinable' \in [Space -> SUBSET Context]
      /\ linked' = linked \ W
      /\ W \subseteq live \ {c}
      /\ \A s \in Space : joinable'[s] \subseteq joinable[s] \ {c}
      /\ \A s \in Space : joinable'[s] \cap W = {}
      /\ \A s \in Space : joinable[s] \subseteq joinable'[s] \cup W \cup {c}
      /\ c \in joinerWaiting => joinable[SpaceOf[c]] \subseteq W \cup {c}
  BY NotifyMoves DEF Destroy
<1> HIDE DEF j, W
<1>7. TypeOK'
  <2>1. frames' \in [Context -> Seq(Frame)]
    BY <1>1 DEF TypeOK
  <2>2. level' \in [Space -> 0 .. MaxLevel]
    BY <1>1 DEF TypeOK
  <2>3. at' \in [Context -> Point] /\ pend' \in [Context -> {"none", "request_yield", "terminate"}]
    BY <1>1 DEF TypeOK, Point
  <2>4. target' \in [Context -> Context \cup {NIL}]
    BY <1>2 DEF TypeOK
  <2> QED BY <1>1, <1>2, <1>5, <2>1, <2>2, <2>3, <2>4 DEF TypeOK
<1>8. JoinableSound'
  <2>1. ResultsStable'
    BY <1>1, <1>2 DEF ResultsStable, TypeOK
  <2>2. ASSUME NEW s \in Space, NEW d \in joinable'[s]
        PROVE  /\ d \in live' /\ SpaceOf[d] = s /\ s \in spaces'
               /\ at'[d] = "join" /\ d \in linked'
    BY <1>1, <1>2, <1>5, <2>2 DEF TypeOK
  <2> QED BY <1>7, <2>1, <2>2
<1>9. UsedWell' /\ JoinedDone' /\ TargetNear'
  <2>1. UsedWell'
    BY <1>1, <1>2 DEF UsedWell, TypeOK
  <2>2. JoinedDone' /\ TargetNear'
    BY <1>1, <1>2 DEF JoinedDone, TargetNear, TypeOK
  <2> QED BY <2>1, <2>2
<1>10. NoOrphanJoiner'
  <2> SUFFICES ASSUME NEW d \in live'
               PROVE  /\ Asleep(d, "join")' =>
                           /\ d \in joinable'[SpaceOf[d]]
                           /\ target'[d] \in live' /\ target'[d] \in joinerWaiting'
                           /\ target'[d] \notin detached' \cup joined' \cup readyForJoin'
                      /\ Asleep(d, "done")' => /\ d \in readyForJoin'
                                              /\ d \notin detached' \cup joined'
    BY DEF NoOrphanJoiner
  <2>1. /\ d \in live /\ d # c /\ at'[d] = at[d] /\ target'[d] = target[d]
        /\ ~ Executing(d) /\ SpaceOf[d] \in Space /\ d \in Context
    BY <1>1, <1>2 DEF TypeOK, Executing
  <2>2. ASSUME Asleep(d, "join")'
        PROVE  /\ d \in joinable'[SpaceOf[d]]
               /\ target[d] \in live' /\ target[d] \in joinerWaiting
               /\ target[d] \notin detached \cup joined' \cup readyForJoin'
    <3>1. Asleep(d, "join") /\ d \notin W
      BY <2>1, <2>2, <1>1 DEF Asleep
    <3>2. /\ d \in joinable[SpaceOf[d]] /\ target[d] \in live /\ target[d] \in joinerWaiting
          /\ target[d] \notin detached \cup joined \cup readyForJoin
          /\ SpaceOf[target[d]] = SpaceOf[d]
      BY <2>1, <3>1 DEF NoOrphanJoiner, TargetNear, Asleep
    <3>3. target[d] # c
      BY <3>1, <3>2, <2>1, <1>5
    <3> QED BY <3>1, <3>2, <3>3, <2>1, <1>1, <1>2, <1>5
  <2>3. Asleep(d, "done")' => d \in readyForJoin' /\ d \notin detached' \cup joined'
    BY <2>1, <1>1, <1>2 DEF NoOrphanJoiner, Asleep
  <2> QED BY <2>1, <2>2, <2>3, <1>2
<1> QED BY <1>8, <1>9, <1>10

LEMMA JoinDetach ==
  ASSUME JoinInv, NEW c \in Context, PSDetach(c)
  PROVE  JoinInv'
<1> USE DEF JoinInv, JoinableSound
<1>1. PICK d \in live \ (detached \cup joined) :
         /\ detached' = detached \cup {d}
         /\ InnerNotify(d, joinable)
         /\ Proceed(c, (readyForJoin \cap {d}) \cup NotifiedBy(d, joinable))
  BY DEF PSDetach
<1>2. /\ UNCHANGED <<pend, frames, level, used, doomed, readyForJoin, joined>>
      /\ UNCHANGED <<joinerWaiting, target, spaces>>
  BY DEF PSDetach, exclVars
<1>3. c \in live /\ cur = c /\ running /\ at[c] = "ready" /\ d \in Context
  BY DEF PSDetach, Ready, At, TypeOK
<1>4. BreakLooseCV(c) = joinable
  BY <1>3, AtReady
<1> DEFINE W == NotifiedBy(d, joinable)
<1>5. /\ joinable' \in [Space -> SUBSET Context]
      /\ linked' = linked \ W
      /\ W \subseteq live \ {c}
      /\ \A s \in Space : joinable'[s] \subseteq joinable[s] \ {c}
      /\ \A s \in Space : joinable'[s] \cap W = {}
      /\ \A s \in Space : joinable[s] \subseteq joinable'[s] \cup W \cup {c}
      /\ d \in joinerWaiting => joinable[SpaceOf[d]] \subseteq W \cup {c}
  BY <1>1, <1>3, <1>4, NotifyMoves
<1>6. /\ at' = [at EXCEPT ![c] = "ready"]
      /\ runnable' = runnable \cup (readyForJoin \cap {d}) \cup W
      /\ UNCHANGED <<live, cur, running>>
  BY <1>1 DEF Proceed
<1> HIDE DEF W
<1>7. at' = at
  BY <1>3, <1>6 DEF TypeOK
<1>8. TypeOK'
  BY <1>1, <1>2, <1>5, <1>6, <1>7 DEF TypeOK
<1>9. JoinableSound'
  <2>1. ResultsStable'
    BY <1>2, <1>6, <1>7 DEF ResultsStable
  <2>2. ASSUME NEW s \in Space, NEW e \in joinable'[s]
        PROVE  /\ e \in live' /\ SpaceOf[e] = s /\ s \in spaces'
               /\ at'[e] = "join" /\ e \in linked'
    BY <1>2, <1>5, <1>6, <1>7
  <2> QED BY <1>8, <2>1, <2>2
<1>10. UsedWell' /\ JoinedDone' /\ TargetNear'
  BY <1>2, <1>6, <1>7 DEF UsedWell, JoinedDone, TargetNear
<1>11. ASSUME NEW e \in live, Asleep(e, "join")'
       PROVE  /\ e \in joinable'[SpaceOf[e]]
              /\ target[e] \in live /\ target[e] \in joinerWaiting
              /\ target[e] \notin detached' \cup joined \cup readyForJoin
  <2>1. Asleep(e, "join") /\ e \notin W /\ e # c /\ SpaceOf[e] \in Space
    BY <1>11, <1>6, <1>7, <1>3 DEF Asleep, Executing, TypeOK
  <2>2. /\ e \in joinable[SpaceOf[e]] /\ target[e] \in live /\ target[e] \in joinerWaiting
        /\ target[e] \notin detached \cup joined \cup readyForJoin
        /\ SpaceOf[target[e]] = SpaceOf[e]
    BY <2>1 DEF NoOrphanJoiner, TargetNear, Asleep
  <2>3. target[e] # d
    BY <2>1, <2>2, <1>5
  <2> QED BY <2>1, <2>2, <2>3, <1>1, <1>5
<1>12. ASSUME NEW e \in live, Asleep(e, "done")'
       PROVE  e \in readyForJoin /\ e \notin detached' \cup joined
  BY <1>12, <1>1, <1>6, <1>7 DEF NoOrphanJoiner, Asleep, Executing
<1>13. NoOrphanJoiner'
  BY <1>11, <1>12, <1>2, <1>6 DEF NoOrphanJoiner
<1> QED BY <1>9, <1>10, <1>13

\* A context returns from its startup procedure, or is woken in vain after that.
LEMMA JoinPark ==
  ASSUME JoinInv, NEW c \in Context, Runs(c), at[c] \in {"ready", "done"},
         c \notin detached \cup joined, Park(c)
  PROVE  JoinInv'
<1> USE DEF JoinInv, JoinableSound, Runs
<1>1. BreakLooseCV(c) = joinable
  BY AtReady
<1>2. CASE level[SpaceOf[c]] > 0
  BY <1>1, <1>2, JoinDestroy DEF Park
<1>3. CASE ~ (level[SpaceOf[c]] > 0)
  <2> DEFINE W == NotifiedBy(c, joinable)
  <2>1. /\ readyForJoin' = readyForJoin \cup {c}
        /\ InnerNotify(c, joinable)
        /\ at' = [at EXCEPT ![c] = "done"]
        /\ running' = FALSE
        /\ runnable' = (runnable \cup W) \ {c}
        /\ UNCHANGED <<live, cur, pend, frames, level, used, doomed, detached, joined>>
        /\ UNCHANGED <<joinerWaiting, target, spaces>>
    BY <1>3 DEF Park, Yield, exclVars
  <2>2. /\ joinable' \in [Space -> SUBSET Context]
        /\ linked' = linked \ W
        /\ W \subseteq live \ {c}
        /\ \A s \in Space : joinable'[s] \subseteq joinable[s] \ {c}
        /\ \A s \in Space : joinable'[s] \cap W = {}
        /\ \A s \in Space : joinable[s] \subseteq joinable'[s] \cup W \cup {c}
        /\ c \in joinerWaiting => joinable[SpaceOf[c]] \subseteq W \cup {c}
    BY <2>1, <1>1, NotifyMoves
  <2> HIDE DEF W
  <2>3. at' \in [Context -> Point] /\ at'[c] = "done" /\ \A e \in Context \ {c} : at'[e] = at[e]
    BY <2>1 DEF TypeOK, Point
  <2>4. TypeOK'
    BY <2>1, <2>2, <2>3 DEF TypeOK
  <2>5. ResultsStable'
    BY <2>1, <2>3 DEF ResultsStable, TypeOK
  <2>6. ASSUME NEW s \in Space, NEW e \in joinable'[s]
        PROVE  /\ e \in live' /\ SpaceOf[e] = s /\ s \in spaces'
               /\ at'[e] = "join" /\ e \in linked'
    BY <2>1, <2>2, <2>3 DEF TypeOK
  <2>7. UsedWell' /\ JoinedDone' /\ TargetNear'
    BY <2>1, <2>3 DEF UsedWell, JoinedDone, TargetNear, TypeOK
  <2>8. ASSUME NEW e \in live, Asleep(e, "join")'
        PROVE  /\ e \in joinable'[SpaceOf[e]]
               /\ target[e] \in live /\ target[e] \in joinerWaiting
               /\ target[e] \notin detached \cup joined \cup readyForJoin'
    <3>1. Asleep(e, "join") /\ e \notin W /\ e # c /\ SpaceOf[e] \in Space
      BY <2>8, <2>1, <2>3 DEF Asleep, Executing, TypeOK
    <3>2. /\ e \in joinable[SpaceOf[e]] /\ target[e] \in live /\ target[e] \in joinerWaiting
          /\ target[e] \notin detached \cup joined \cup readyForJoin
          /\ SpaceOf[target[e]] = SpaceOf[e]
      BY <3>1 DEF NoOrphanJoiner, TargetNear, Asleep
    <3>3. target[e] # c
      BY <3>1, <3>2, <2>2
    <3> QED BY <3>1, <3>2, <3>3, <2>1, <2>2
  <2>9. ASSUME NEW e \in live, Asleep(e, "done")'
        PROVE  e \in readyForJoin' /\ e \notin detached \cup joined
    BY <2>9, <2>1, <2>3 DEF NoOrphanJoiner, Asleep, Executing, TypeOK
  <2>10. NoOrphanJoiner'
    BY <2>8, <2>9, <2>1 DEF NoOrphanJoiner
  <2> QED BY <2>4, <2>5, <2>6, <2>7, <2>10
<1> QED BY <1>2, <1>3

\* One turn of the loop of join: l is what the context has been unlinked from.
LEMMA JoinTry ==
  ASSUME JoinInv, NEW c \in Context, Runs(c), at[c] \in {"ready", "join"},
         NEW d \in used, NEW l \in {linked, linked \ {c}}, TryJoin(c, d, BreakLooseCV(c), l),
         UNCHANGED <<frames, exclVars, used, doomed, detached, spaces, instance>>,
         pend' \in {pend, [pend EXCEPT ![c] = "none"]}
  PROVE  JoinInv'
<1> USE DEF JoinInv, JoinableSound, Runs
<1> DEFINE j == BreakLooseCV(c)
<1>1. /\ j \in [Space -> SUBSET Context]
      /\ \A s \in Space : j[s] = joinable[s] \ {c} \/ (at[c] = "ready" /\ j[s] = joinable[s])
      /\ \A s \in Space : c \notin j[s]
  BY DEF BreakLooseCV, TypeOK
<1>2. d \in Context /\ SpaceOf[c] \in Space
  BY DEF TypeOK
<1>3. pend' \in [Context -> {"none", "request_yield", "terminate"}]
  <2>1. CASE pend' = pend
    BY <2>1 DEF TypeOK
  <2>2. CASE pend' = [pend EXCEPT ![c] = "none"]
    BY <2>2 DEF TypeOK
  <2> QED BY <2>1, <2>2
<1>4. CASE JoinRefused(c, d, j, l)
  <2>1. /\ joinable' = j /\ linked' = l
        /\ target' = [target EXCEPT ![c] = NIL]
        /\ at' = [at EXCEPT ![c] = "ready"]
        /\ runnable' = runnable
        /\ UNCHANGED <<live, cur, running, readyForJoin, joined, joinerWaiting>>
    BY <1>4 DEF JoinRefused, Proceed
  <2> HIDE DEF j
  <2>2. TypeOK'
    BY <1>1, <1>3, <2>1 DEF TypeOK, Point, exclVars
  <2>3. JoinableSound'
    <3>1. ResultsStable'
      BY <2>1 DEF ResultsStable, TypeOK
    <3>2. ASSUME NEW s \in Space, NEW e \in joinable'[s]
          PROVE  /\ e \in live' /\ SpaceOf[e] = s /\ s \in spaces'
                 /\ at'[e] = "join" /\ e \in linked'
      BY <1>1, <2>1 DEF TypeOK
    <3> QED BY <2>2, <3>1, <3>2
  <2>4. UsedWell' /\ JoinedDone' /\ TargetNear'
    BY <2>1 DEF UsedWell, JoinedDone, TargetNear, TypeOK
  <2>5. NoOrphanJoiner'
    <3> SUFFICES ASSUME NEW e \in live PROVE NoOrphanJoiner!(e)'
      BY <2>1 DEF NoOrphanJoiner
    <3>1. CASE e = c
      BY <2>1, <3>1 DEF Asleep, TypeOK
    <3>2. CASE e # c
      BY <1>1, <2>1, <3>2 DEF NoOrphanJoiner, Asleep, Executing, TypeOK
    <3> QED BY <3>1, <3>2
  <2> QED BY <2>3, <2>4, <2>5
<1>5. CASE WaitOnJoinable(c, d, j, l)
  <2>1. /\ ~ JoinInvalid(c, d) /\ d \notin readyForJoin
        /\ joinable' = [j EXCEPT ![SpaceOf[c]] = @ \cup {c}]
        /\ linked' = l \cup {c}
        /\ target' = [target EXCEPT ![c] = d]
        /\ joinerWaiting' = joinerWaiting \cup {d}
        /\ at' = [at EXCEPT ![c] = "join"]
        /\ running' = FALSE
        /\ runnable' = runnable \ {c}
        /\ UNCHANGED <<live, cur, readyForJoin, joined>>
    BY <1>5 DEF WaitOnJoinable, Yield
  <2> HIDE DEF j
  <2>2. d \in live /\ d \notin detached \cup joined /\ SpaceOf[d] = SpaceOf[c]
    BY <2>1 DEF JoinInvalid
  <2>3. /\ joinable' \in [Space -> SUBSET Context]
        /\ c \in joinable'[SpaceOf[c]]
        /\ \A s \in Space : joinable'[s] \ {c} = joinable[s] \ {c}
        /\ \A s \in Space : c \in joinable'[s] => s = SpaceOf[c]
    BY <1>1, <1>2, <2>1
  <2>4. TypeOK'
    BY <1>2, <1>3, <2>1, <2>3 DEF TypeOK, Point, exclVars
  <2>5. JoinableSound'
    <3>1. ResultsStable'
      BY <2>1 DEF ResultsStable, TypeOK
    <3>2. ASSUME NEW s \in Space, NEW e \in joinable'[s]
          PROVE  /\ e \in live' /\ SpaceOf[e] = s /\ s \in spaces'
                 /\ at'[e] = "join" /\ e \in linked'
      <4>1. CASE e = c
        BY <2>1, <2>3, <4>1 DEF TypeOK, UsedWell
      <4>2. CASE e # c
        BY <2>1, <2>3, <4>2 DEF TypeOK
      <4> QED BY <4>1, <4>2
    <3> QED BY <2>4, <3>1, <3>2
  <2>6. UsedWell' /\ JoinedDone' /\ TargetNear'
    BY <2>1, <2>2 DEF UsedWell, JoinedDone, TargetNear, TypeOK
  <2>7. NoOrphanJoiner'
    <3> SUFFICES ASSUME NEW e \in live PROVE NoOrphanJoiner!(e)'
      BY <2>1 DEF NoOrphanJoiner
    <3>1. CASE e = c
      BY <2>1, <2>2, <2>3, <3>1 DEF Asleep, TypeOK
    <3>2. CASE e # c
      BY <2>1, <2>3, <3>2 DEF NoOrphanJoiner, Asleep, Executing, TypeOK
    <3> QED BY <3>1, <3>2
  <2> QED BY <2>5, <2>6, <2>7
<1>6. CASE JoinDone(c, d, j)
  <2> DEFINE W == NotifiedBy(d, j)
  <2>1. /\ d \in readyForJoin /\ d # c
        /\ readyForJoin' = readyForJoin \ {d}
        /\ joined' = joined \cup {d}
        /\ InnerNotify(d, j)
        /\ target' = [target EXCEPT ![c] = NIL]
        /\ at' = [at EXCEPT ![c] = "ready"]
        /\ runnable' = runnable \cup {d} \cup W
        /\ UNCHANGED <<live, cur, running, joinerWaiting>>
    BY <1>6 DEF JoinDone, JoinInvalid, Proceed
  <2>2. /\ joinable' \in [Space -> SUBSET Context]
        /\ linked' = linked \ W
        /\ W \subseteq live \ {c}
        /\ \A s \in Space : joinable'[s] \subseteq joinable[s] \ {c}
        /\ \A s \in Space : joinable'[s] \cap W = {}
        /\ \A s \in Space : joinable[s] \subseteq joinable'[s] \cup W \cup {c}
    BY <1>2, <2>1, NotifyMoves
  <2> HIDE DEF j, W
  <2>3. d \in live /\ at[d] = "done"
    BY <2>1 DEF ResultsStable
  <2>4. TypeOK'
    BY <1>3, <2>1, <2>2, <2>3 DEF TypeOK, Point, exclVars
  <2>5. JoinableSound'
    <3>1. ResultsStable'
      BY <2>1 DEF ResultsStable, TypeOK
    <3>2. ASSUME NEW s \in Space, NEW e \in joinable'[s]
          PROVE  /\ e \in live' /\ SpaceOf[e] = s /\ s \in spaces'
                 /\ at'[e] = "join" /\ e \in linked'
      BY <2>1, <2>2 DEF TypeOK
    <3> QED BY <2>4, <3>1, <3>2
  <2>6. UsedWell' /\ JoinedDone' /\ TargetNear'
    BY <2>1, <2>3 DEF UsedWell, JoinedDone, TargetNear, TypeOK
  <2>7. NoOrphanJoiner'
    <3> SUFFICES ASSUME NEW e \in live PROVE NoOrphanJoiner!(e)'
      BY <2>1 DEF NoOrphanJoiner
    <3>1. CASE e = c
      BY <2>1, <3>1 DEF Asleep, TypeOK
    <3>2. CASE e # c
      BY <2>1, <2>2, <3>2 DEF NoOrphanJoiner, Asleep, Executing, TypeOK
    <3> QED BY <3>1, <3>2
  <2> QED BY <2>5, <2>6, <2>7
<1> QED BY <1>4, <1>5, <1>6 DEF TryJoin

LEMMA JoinResume ==
  ASSUME JoinInv, NEW c \in Context, Resume(c)
  PROVE  JoinInv'
<1> USE DEF JoinInv, JoinableSound
<1>1. Runs(c) /\ at[c] \in {"start", "slice", "join"}
  BY DEF Resume, At, Runs, TypeOK
<1>2. CASE at[c] \in {"start", "slice"}
  <2>1. /\ UNCHANGED <<live, cur, running, runnable, frames, exclVars, joinVars>>
        /\ at' = [at EXCEPT ![c] = "ready"]
        /\ pend' \in {pend, [pend EXCEPT ![c] = "none"]}
    BY <1>2 DEF Resume, At, Proceed
  <2> USE DEF joinVars, exclVars
  <2>2. pend' \in [Context -> {"none", "request_yield", "terminate"}]
    <3>1. CASE pend' = pend
      BY <3>1 DEF TypeOK
    <3>2. CASE pend' = [pend EXCEPT ![c] = "none"]
      BY <3>2 DEF TypeOK
    <3> QED BY <2>1, <3>1, <3>2
  <2>3. TypeOK'
    BY <2>1, <2>2 DEF TypeOK, Point
  <2>4. JoinableSound'
    BY <1>2, <2>1, <2>3 DEF ResultsStable, TypeOK
  <2>5. UsedWell' /\ JoinedDone' /\ TargetNear'
    BY <1>1, <1>2, <2>1 DEF UsedWell, JoinedDone, TargetNear, TypeOK, Runs
  <2>6. NoOrphanJoiner'
    BY <1>1, <2>1 DEF NoOrphanJoiner, Asleep, Executing, TypeOK
  <2> QED BY <2>4, <2>5, <2>6
<1>3. CASE at[c] = "join"
  <2>1. /\ TryJoin(c, target[c], BreakLooseCV(c), linked \ {c})
        /\ pend' = [pend EXCEPT ![c] = "none"]
        /\ UNCHANGED <<frames, exclVars, used, doomed, detached, spaces, instance>>
    BY <1>3 DEF Resume, At
  <2>2. target[c] \in used
    BY <1>1, <1>3 DEF TargetNear, Runs
  <2> QED BY <1>1, <1>3, <2>1, <2>2, JoinTry
<1> QED BY <1>1, <1>2, <1>3

LEMMA JoinContinue ==
  ASSUME JoinInv, NEW c \in Context, Continue(c)
  PROVE  JoinInv'
<1>1. CASE Resume(c)
  BY <1>1, JoinResume
<1>2. CASE Raised(c)
  BY <1>2, JoinDestroy DEF Raised, At, Runs, JoinInv, JoinableSound, TypeOK
<1>3. CASE AfterPark(c)
  <2>1. Runs(c) /\ at[c] = "done"
    BY <1>3 DEF AfterPark, At, Runs, JoinInv, JoinableSound, TypeOK
  <2>2. BreakLooseCV(c) = joinable
    BY <2>1, AtReady DEF JoinInv
  <2> QED BY <1>3, <2>1, <2>2, JoinDestroy, JoinPark DEF AfterPark
<1> QED BY <1>1, <1>2, <1>3 DEF Continue

\* A context that runs an operator has not been joined.
LEMMA JoinOperator ==
  ASSUME JoinInv, NEW c \in Context, Operator(c)
  PROVE  JoinInv'
<1>1. CASE BaseOp(c) \/ PSFork(c) \/ ForkFails(c) \/ PSDetach(c)
  BY <1>1, JoinBase, JoinFork, JoinDetach
<1>2. CASE PSJoin(c) \/ Quit(c) \/ End(c)
  <2>1. Runs(c) /\ at[c] = "ready" /\ c \notin joined
    BY <1>2 DEF PSJoin, Quit, End, Ready, At, Runs, JoinInv, JoinableSound, TypeOK, JoinedDone
  <2>2. BreakLooseCV(c) = joinable
    BY <2>1, AtReady DEF JoinInv
  <2>3. CASE PSJoin(c)
    BY <2>1, <2>2, <2>3, JoinTry DEF PSJoin
  <2>4. CASE Quit(c) \/ End(c)
    BY <2>1, <2>2, <2>4, JoinDestroy, JoinPark DEF Quit, End
  <2> QED BY <1>2, <2>3, <2>4
<1> QED BY <1>1, <1>2 DEF Operator

LEMMA JoinNext == JoinInv /\ [Next]_vars => JoinInv'
<1> SUFFICES ASSUME JoinInv, [Next]_vars PROVE JoinInv'
  OBVIOUS
<1>1. CASE UNCHANGED vars
  BY <1>1 DEF vars, baseVars, joinVars, JoinInv, JoinableSound, TypeOK, ResultsStable,
              UsedWell, JoinedDone, TargetNear, NoOrphanJoiner, Asleep, Executing
<1>2. ASSUME NEW c \in Context, Dispatch(c) \/ Signal(c) \/ Continue(c) \/ Operator(c)
      PROVE  JoinInv'
  BY <1>2, JoinDispatch, JoinSignal, JoinContinue, JoinOperator
<1>3. ASSUME NEW s \in Space, TerminatePSSpace(s) PROVE JoinInv'
  BY <1>3, JoinTerminate
<1> QED BY <1>1, <1>2, <1>3 DEF Next

LEMMA JoinAlways == Spec => []JoinInv
  BY JoinInit, JoinNext, PTL DEF Spec

(* The waiters of a joinable condition are live contexts of its space that    *)
(* are suspended in join, and a context that is ready for join keeps its       *)
(* results: whatever the contexts do, and however they end (contextimpl.c,    *)
(* PSJoin, InnerNotify, DoQuit; DestroyPSContext).                            *)
THEOREM JoinableSoundAlways == Spec => []JoinableSound
<1>1. JoinInv => JoinableSound
  BY DEF JoinInv
<1> QED BY <1>1, JoinAlways, PTL

(* No join sleeps through the end of its target, and nobody who has returned   *)
(* from the startup procedure is forgotten: whoever changes what they wait     *)
(* for wakes them in the same step (contextimpl.c, PSJoin, PSDetach, DoQuit). *)
THEOREM NoOrphanJoinerAlways == Spec => []NoOrphanJoiner
<1>1. JoinInv => NoOrphanJoiner
  BY DEF JoinInv
<1> QED BY <1>1, JoinAlways, PTL

-----------------------------------------------------------------------------
(* A context is joined once.                                                *)

Once ==
  /\ joined \cap readyForJoin' = {}
  /\ \A d \in joined' \ joined :
       d \in detached => pend[d] = "terminate" \/ d \notin live'

LEMMA OnceSame ==
  ASSUME JoinInv, joined' = joined, readyForJoin' \subseteq readyForJoin
  PROVE  Once
  BY DEF Once, JoinInv, JoinableSound, ResultsStable

LEMMA OnceEnds ==
  ASSUME JoinInv, NEW c, NEW j, Destroy(c, j), joined' \in {joined, joined \cup {c}}
  PROVE  Once
<1>1. readyForJoin' \subseteq readyForJoin /\ c \notin live'
  BY DEF Destroy, DestroyBase
<1> QED BY <1>1 DEF Once, JoinInv, JoinableSound, ResultsStable

LEMMA OncePark ==
  ASSUME JoinInv, NEW c, c \notin joined, Park(c)
  PROVE  Once
<1>1. CASE Destroy(c, joinable) /\ joined' = joined \cup {c}
  BY <1>1, OnceEnds
<1>2. CASE readyForJoin' = readyForJoin \cup {c} /\ joined' = joined
  BY <1>2 DEF Once, JoinInv, JoinableSound, ResultsStable
<1> QED BY <1>1, <1>2 DEF Park

LEMMA OnceTry ==
  ASSUME JoinInv, NEW c, NEW d, NEW j, NEW l, TryJoin(c, d, j, l)
  PROVE  Once
<1>1. CASE JoinDone(c, d, j)
  BY <1>1 DEF JoinDone, JoinInvalid, Once, JoinInv, JoinableSound, ResultsStable
<1>2. CASE JoinRefused(c, d, j, l) \/ WaitOnJoinable(c, d, j, l)
  BY <1>2, OnceSame DEF JoinRefused, WaitOnJoinable
<1> QED BY <1>1, <1>2 DEF TryJoin

LEMMA OnceNext == JoinInv /\ [Next]_vars => Once
<1> SUFFICES ASSUME JoinInv, [Next]_vars PROVE Once
  OBVIOUS
<1>1. CASE UNCHANGED vars
  BY <1>1, OnceSame DEF vars, joinVars
<1>2. ASSUME NEW s \in Space, TerminatePSSpace(s) PROVE Once
  BY <1>2, OnceSame DEF TerminatePSSpace, joinVars
<1>3. ASSUME NEW c \in Context, Dispatch(c) \/ Signal(c) \/ BaseOp(c) PROVE Once
  BY <1>3, OnceSame DEF Dispatch, Signal, BaseOp, joinVars
<1>4. ASSUME NEW c \in Context, PSFork(c) \/ ForkFails(c) \/ PSDetach(c) PROVE Once
  BY <1>4, OnceSame DEF PSFork, ForkFails, PSDetach
<1>5. ASSUME NEW c \in Context, PSJoin(c) \/ Quit(c) PROVE Once
  BY <1>5, OnceTry, OnceEnds DEF PSJoin, Quit
<1>6. ASSUME NEW c \in Context, End(c) PROVE Once
  <2>1. c \notin joined
    BY <1>6 DEF End, Ready, At, JoinInv, JoinableSound, TypeOK, JoinedDone
  <2> QED BY <1>6, <2>1, OncePark, OnceEnds DEF End
<1>7. ASSUME NEW c \in Context, Raised(c) \/ AfterPark(c) PROVE Once
  BY <1>7, OncePark, OnceEnds DEF Raised, AfterPark
<1>8. ASSUME NEW c \in Context, Resume(c) PROVE Once
  BY <1>8, OnceSame, OnceTry DEF Resume, joinVars
<1> QED BY <1>1, <1>2, <1>3, <1>4, <1>5, <1>6, <1>7, <1>8 DEF Next, Continue, Operator

(* A context that was joined is never ready for join again, and a detached    *)
(* one is not joined (contextimpl.c, PSJoin; PSCoProc).                        *)
THEOREM JoinedOnceAlways == Spec => JoinedOnce
<1>1. JoinInv /\ [Next]_vars => [Once]_vars
  BY OnceNext
<1> QED BY <1>1, JoinAlways, PTL DEF Spec, JoinedOnce, Once

=============================================================================
