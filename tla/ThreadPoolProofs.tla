--------------------------- MODULE ThreadPoolProofs --------------------------
(***************************************************************************)
(* Theorems about ThreadPool, for every set of workers and of callers,     *)
(* every capacity and every number of tasks.                               *)
(***************************************************************************)
EXTENDS ThreadPool, FiniteSetTheorems, TLAPS

\* What TypeOK needs: a caller that is in push() has a task, and none has more than it may add.
AddingOK ==
    \A c \in Callers : /\ added[c] <= MaxAdds[c]
                       /\ caller[c] \in {"push", "asleep"} => added[c] >= 1

TInv == TypeOK /\ AddingOK

\* A worker that has found the queue empty still has it so when it begins to wait, as it holds m_mtx.
TestedEmpty == WorkersAt("tested") # {} => que = <<>>

\* Some step lists, by what they leave alone.
MainPoints == {"starting", "drain", "exit", "flag", "notify", "join", "stopped"}
MainMoves == StartReturns \/ Stop \/ SeeEmpty \/ SetExit \/ ClearFlag \/ Join
-----------------------------------------------------------------------------
LEMMA ConstantsTyped ==
    /\ IsFiniteSet(Workers) /\ IsFiniteSet(Callers) /\ Main \in Callers /\ Capacity \in Nat
    /\ \A c \in Callers : MaxAdds[c] \in Nat
BY WorkersAssumption, CallersAssumption, CapacityAssumption, MaxAddsAssumption

\* A task that is handed over is one of Tasks.
LEMMA LatestIsTask ==
    ASSUME TInv, NEW c \in Callers, caller[c] = "push"
    PROVE  Latest(c) \in Tasks
<1>1. added[c] \in 1 .. MaxAdds[c]
  BY ConstantsTyped DEF TInv, TypeOK, AddingOK
<1>2. <<c, added[c]>> \in {c} \X (1 .. MaxAdds[c])
  BY <1>1
<1> QED
  BY <1>2 DEF Latest, Tasks

\* One worker goes to p: it is the only one to leave or to enter a point.
LEMMA WorkerMoves ==
    ASSUME TypeOK, NEW w \in Workers, NEW p \in WorkerPoints, WorkerTo(w, p), NEW q
    PROVE  WorkersAt(q)' = IF q = p THEN WorkersAt(q) \cup {w} ELSE WorkersAt(q) \ {w}
BY DEF WorkerTo, WorkersAt, TypeOK

LEMMA CallerMoves ==
    ASSUME TypeOK, NEW c \in Callers, NEW p \in CallerPoints, CallerTo(c, p), NEW q
    PROVE  CallersAt(q)' = IF q = p THEN CallersAt(q) \cup {c} ELSE CallersAt(q) \ {c}
BY DEF CallerTo, CallersAt, TypeOK

\* As many as are at a point, or one more or one less, after one of them has moved.
LEMMA Counted ==
    ASSUME NEW S, IsFiniteSet(S), NEW x
    PROVE  /\ Cardinality(S) \in Nat
           /\ Cardinality(S \cup {x}) >= Cardinality(S)
           /\ x \notin S => Cardinality(S \cup {x}) = Cardinality(S) + 1 /\ S \ {x} = S
           /\ Cardinality(S \ {x}) >= Cardinality(S) - 1
<1>1. Cardinality(S) \in Nat
  BY FS_CardinalityType
<1>2. Cardinality(S \cup {x}) = IF x \in S THEN Cardinality(S) ELSE Cardinality(S) + 1
  BY FS_AddElement
<1>3. Cardinality(S \ {x}) = IF x \in S THEN Cardinality(S) - 1 ELSE Cardinality(S)
  BY FS_RemoveElement
<1>4. x \notin S => S \ {x} = S
  OBVIOUS
<1> QED
  BY <1>1, <1>2, <1>3, <1>4

LEMMA FinitelyMany ==
    ASSUME NEW q
    PROVE  IsFiniteSet(WorkersAt(q)) /\ IsFiniteSet(CallersAt(q))
BY ConstantsTyped, FS_Subset DEF WorkersAt, CallersAt

LEMMA CountsTyped ==
    ASSUME NEW q
    PROVE  /\ Cardinality(WorkersAt(q)) \in Nat /\ Cardinality(WorkersAt(q)') \in Nat
           /\ Cardinality(CallersAt(q)) \in Nat /\ Cardinality(CallersAt(q)') \in Nat
<1>1. IsFiniteSet(WorkersAt(q)') /\ IsFiniteSet(CallersAt(q)')
  BY ConstantsTyped, FS_Subset DEF WorkersAt, CallersAt
<1> QED
  BY <1>1, FinitelyMany, FS_CardinalityType
-----------------------------------------------------------------------------
(* Types.                                                                  *)

LEMMA TInvInit == Init => TInv
<1> SUFFICES ASSUME Init PROVE TInv
  OBVIOUS
<1>1. WorkersAt("running") = {} /\ DOMAIN running = {}
  BY DEF Init, WorkersAt
<1>2. que \in Seq(Tasks) /\ Len(que) <= Capacity
  BY ConstantsTyped DEF Init
<1>3. worker \in [Workers -> WorkerPoints] /\ caller \in [Callers -> CallerPoints]
  BY DEF Init, WorkerPoints, CallerPoints
<1>4. added \in [Callers -> Nat] /\ AddingOK
  BY ConstantsTyped DEF Init, AddingOK
<1> QED
  BY <1>1, <1>2, <1>3, <1>4 DEF Init, TInv, TypeOK

\* notify_one() of m_notEmpty and m_notFull: at most one sleeper moves, and to the test.
LEMMA NotEmptyNotified ==
    ASSUME TypeOK, NotifyNotEmpty
    PROVE  \/ WorkersAt("asleep") = {} /\ worker' = worker
           \/ \E w \in Workers : worker[w] = "asleep" /\ WorkerTo(w, "pop")
BY DEF NotifyNotEmpty, WorkersAt

LEMMA NotFullNotified ==
    ASSUME TypeOK, NotifyNotFull
    PROVE  \/ CallersAt("asleep") = {} /\ caller' = caller
           \/ \E c \in Callers : caller[c] = "asleep" /\ CallerTo(c, "push")
BY DEF NotifyNotFull, CallersAt

\* A worker that moves between other points leaves those that run a task alone.
LEMMA RunningKept ==
    ASSUME TypeOK, NEW w \in Workers, NEW p \in WorkerPoints, WorkerTo(w, p),
           p # "running", worker[w] # "running", UNCHANGED running
    PROVE  /\ worker' \in [Workers -> WorkerPoints]
           /\ DOMAIN running' = WorkersAt("running")' /\ \A v \in DOMAIN running' : running'[v] \in Tasks
<1>1. WorkersAt("running")' = WorkersAt("running")
  BY WorkerMoves DEF WorkersAt
<1> QED
  BY <1>1 DEF TypeOK, WorkerTo

LEMMA TInvStep == TInv /\ [Next]_vars => TInv'
<1> SUFFICES ASSUME TInv, [Next]_vars PROVE TInv'
  OBVIOUS
<1> USE ConstantsTyped
<1>a. TypeOK /\ AddingOK
  BY DEF TInv
<1>b. \A w \in Workers : /\ (UNCHANGED running /\ WorkerTo(w, "pop") /\ worker[w] # "running")
                             => /\ worker' \in [Workers -> WorkerPoints]
                                /\ DOMAIN running' = WorkersAt("running")' /\ \A v \in DOMAIN running' : running'[v] \in Tasks
  BY <1>a, RunningKept DEF WorkerPoints
<1>1. ASSUME NEW w \in Workers, TestExit(w) \/ FindEmpty(w) \/ WaitNotEmpty(w) \/ TakeNothing(w) \/ StartWorker(w) \/ WakeWorker(w)
      PROVE TInv'
  <2>1. PICK p \in WorkerPoints : WorkerTo(w, p) /\ p # "running" /\ worker[w] # "running"
    BY <1>1 DEF TestExit, FindEmpty, WaitNotEmpty, TakeNothing, StartWorker, WakeWorker, WorkerPoints
  <2>2. UNCHANGED <<que, flag, isExit, running, caller, added, ran>>
    BY <1>1 DEF TestExit, FindEmpty, WaitNotEmpty, TakeNothing, StartWorker, WakeWorker
  <2> QED
    BY <1>a, <2>1, <2>2, RunningKept DEF TInv, TypeOK, AddingOK
<1>2. ASSUME NEW w \in Workers, TakeTask(w) PROVE TInv'
  <2>1. que \in Seq(Tasks) /\ que # <<>> /\ que' = Tail(que) /\ Len(que) <= Capacity
    BY <1>2, <1>a DEF TakeTask, TypeOK
  <2>2. que' \in Seq(Tasks) /\ Len(que') <= Capacity /\ Head(que) \in Tasks
    BY <2>1
  <2>3. WorkersAt("running")' = WorkersAt("running") \cup {w}
    BY <1>2, <1>a, WorkerMoves DEF TakeTask, WorkerPoints
  <2>4. DOMAIN running' = WorkersAt("running")' /\ \A v \in DOMAIN running' : running'[v] \in Tasks
    BY <1>2, <1>a, <2>2, <2>3 DEF TakeTask, TypeOK
  <2>5. worker' \in [Workers -> WorkerPoints]
    BY <1>2, <1>a DEF TakeTask, TypeOK, WorkerTo, WorkerPoints
  <2>6. caller' \in [Callers -> CallerPoints] /\ AddingOK'
    <3>1. added' = added
      BY <1>2 DEF TakeTask
    <3>2. CASE caller' = caller
      BY <1>a, <3>1, <3>2 DEF TypeOK, AddingOK
    <3>3. ASSUME NEW c \in Callers, caller[c] = "asleep", CallerTo(c, "push") PROVE <2>6
      BY <1>a, <3>1, <3>3 DEF TypeOK, AddingOK, CallerTo, CallerPoints
    <3> QED
      BY <1>2, <1>a, <3>2, <3>3, NotFullNotified DEF TakeTask
  <2> QED
    BY <1>2, <1>a, <2>2, <2>4, <2>5, <2>6 DEF TInv, TypeOK, TakeTask
<1>3. ASSUME NEW w \in Workers, RunTask(w) PROVE TInv'
  <2>1. WorkersAt("running")' = WorkersAt("running") \ {w}
    BY <1>3, <1>a, WorkerMoves DEF RunTask, WorkerPoints
  <2>2. w \in DOMAIN running /\ running[w] \in Tasks
    BY <1>3, <1>a DEF RunTask, TypeOK, WorkersAt
  <2>3. DOMAIN running' = WorkersAt("running")' /\ \A v \in DOMAIN running' : running'[v] \in Tasks
    BY <1>3, <1>a, <2>1 DEF RunTask, TypeOK
  <2>4. worker' \in [Workers -> WorkerPoints]
    BY <1>3, <1>a DEF RunTask, TypeOK, WorkerTo, WorkerPoints
  <2>5. ran' \subseteq Tasks
    BY <1>3, <1>a, <2>2 DEF RunTask, TypeOK
  <2> QED
    BY <1>3, <1>a, <2>3, <2>4, <2>5 DEF TInv, TypeOK, AddingOK, RunTask
<1>4. ASSUME NEW c \in Callers, AddTask(c) PROVE TInv'
  <2>1. added' \in [Callers -> Nat] /\ caller' \in [Callers -> CallerPoints]
    BY <1>4, <1>a DEF AddTask, TypeOK, CallerTo, CallerPoints
  <2>2. AddingOK'
    BY <1>4, <1>a DEF AddTask, TypeOK, AddingOK, CallerTo
  <2>3. WorkersAt("running")' = WorkersAt("running")
    BY <1>4 DEF AddTask, WorkersAt
  <2> QED
    BY <1>4, <1>a, <2>1, <2>2, <2>3 DEF TInv, TypeOK, AddTask
<1>5. ASSUME NEW c \in Callers, Push(c) PROVE TInv'
  <2>1. que \in Seq(Tasks) /\ Len(que) # Capacity /\ que' = Append(que, Latest(c)) /\ Len(que) <= Capacity
    BY <1>5, <1>a DEF Push, TypeOK
  <2>2. Latest(c) \in Tasks
    BY <1>5, LatestIsTask DEF Push
  <2>3. que' \in Seq(Tasks) /\ Len(que') <= Capacity
    BY <2>1, <2>2
  <2>4. caller' \in [Callers -> CallerPoints] /\ AddingOK'
    BY <1>5, <1>a DEF Push, TypeOK, AddingOK, CallerTo, CallerPoints
  <2>5. UNCHANGED running
    BY <1>5 DEF Push
  <2>6. /\ worker' \in [Workers -> WorkerPoints]
        /\ DOMAIN running' = WorkersAt("running")' /\ \A v \in DOMAIN running' : running'[v] \in Tasks
    <3>1. CASE worker' = worker
      BY <3>1, <2>5, <1>a DEF TypeOK, WorkersAt
    <3> QED
      BY <3>1, <2>5, <1>5, <1>a, <1>b, NotEmptyNotified DEF Push
  <2> QED
    BY <1>5, <1>a, <2>3, <2>4, <2>6 DEF TInv, TypeOK, Push
<1>6. ASSUME NEW c \in Callers, WaitNotFull(c) \/ WakeCaller(c) PROVE TInv'
  <2>1. caller' \in [Callers -> CallerPoints] /\ AddingOK'
    BY <1>6, <1>a DEF WaitNotFull, WakeCaller, TypeOK, AddingOK, CallerTo, CallerPoints
  <2> QED
    BY <1>6, <1>a, <2>1 DEF WaitNotFull, WakeCaller, TInv, TypeOK, WorkersAt
<1>7. CASE MainMoves
  <2>1. PICK p \in {"idle", "drain", "exit", "flag", "notify", "stopped"} : CallerTo(Main, p)
    BY <1>7 DEF MainMoves, StartReturns, Stop, SeeEmpty, SetExit, ClearFlag, Join
  <2>2. caller' \in [Callers -> CallerPoints] /\ UNCHANGED <<que, worker, running, added, ran>>
    BY <1>7, <1>a, <2>1 DEF MainMoves, StartReturns, Stop, SeeEmpty, SetExit, ClearFlag, Join, TypeOK, CallerTo, CallerPoints
  <2>3. AddingOK'
    BY <1>a, <2>1, <2>2 DEF TypeOK, AddingOK, CallerTo
  <2>4. flag' \in BOOLEAN /\ isExit' \in BOOLEAN
    BY <1>7, <1>a DEF MainMoves, StartReturns, Stop, SeeEmpty, SetExit, ClearFlag, Join, TypeOK
  <2> QED
    BY <1>a, <2>2, <2>3, <2>4 DEF TInv, TypeOK, WorkersAt
<1>8. CASE NotifyAll
  <2>1. worker' \in [Workers -> WorkerPoints] /\ caller' \in [Callers -> CallerPoints]
    BY <1>8, <1>a DEF NotifyAll, TypeOK, CallerTo, CallerPoints, WorkerPoints
  <2>2. AddingOK' /\ WorkersAt("running")' = WorkersAt("running")
    BY <1>8, <1>a DEF NotifyAll, TypeOK, AddingOK, CallerTo, WorkersAt
  <2> QED
    BY <1>8, <1>a, <2>1, <2>2 DEF NotifyAll, TInv, TypeOK
<1>9. CASE UNCHANGED vars
  BY <1>9, <1>a DEF vars, TInv, TypeOK, AddingOK, WorkersAt
<1> QED
  BY <1>1, <1>2, <1>3, <1>4, <1>5, <1>6, <1>7, <1>8, <1>9
  DEF Next, WorkerStep, StopStep, StartStep, Spurious, MainMoves
-----------------------------------------------------------------------------
(* Nobody sleeps beside a queue that needs him.                            *)

\* Steps that leave the queue and all workers alone.
CallersOnly ==
    \/ \E c \in Callers : AddTask(c) \/ WaitNotFull(c) \/ WakeCaller(c)
    \/ MainMoves

LEMMA AwakeStep ==
    ASSUME TypeOK, TestedEmpty, EnoughAwake, [Next]_vars
    PROVE  TestedEmpty' /\ EnoughAwake'
<1> USE ConstantsTyped
<1>0. Len(que) \in Nat /\ que \in Seq(Tasks)
  BY DEF TypeOK
<1>1. ASSUME NEW w \in Workers, TestExit(w) \/ TakeNothing(w) \/ RunTask(w) \/ StartWorker(w) \/ WakeWorker(w)
      PROVE TestedEmpty' /\ EnoughAwake'
  <2>1. PICK p \in {"exited", "pop", "loop"} : WorkerTo(w, p) /\ (worker[w] = "pop" => ~flag)
    BY <1>1 DEF TestExit, TakeNothing, RunTask, StartWorker, WakeWorker
  <2>2. UNCHANGED <<que, flag>>
    BY <1>1 DEF TestExit, TakeNothing, RunTask, StartWorker, WakeWorker
  <2>3. WorkersAt("tested")' \subseteq WorkersAt("tested") /\ WorkersAt("asleep")' \subseteq WorkersAt("asleep")
    BY <2>1, WorkerMoves DEF WorkerPoints
  <2>4. Cardinality(WorkersAt("pop")) \in Nat /\ (flag => Cardinality(WorkersAt("pop")') >= Cardinality(WorkersAt("pop")))
    <3> SUFFICES ASSUME flag PROVE Cardinality(WorkersAt("pop")') >= Cardinality(WorkersAt("pop"))
      BY CountsTyped
    <3>1. w \notin WorkersAt("pop")
      BY <2>1 DEF WorkersAt
    <3>2. WorkersAt("pop")' \in {WorkersAt("pop") \cup {w}, WorkersAt("pop") \ {w}}
      BY <2>1, WorkerMoves DEF WorkerPoints
    <3> QED
      <4>1. CASE WorkersAt("pop")' = WorkersAt("pop") \cup {w}
        BY <4>1, FinitelyMany, Counted
      <4>2. CASE WorkersAt("pop")' = WorkersAt("pop") \ {w}
        <5>1. WorkersAt("pop")' = WorkersAt("pop")
          BY <3>1, <4>2
        <5>2. Cardinality(WorkersAt("pop")') = Cardinality(WorkersAt("pop"))
          BY <5>1
        <5> QED
          BY <5>2, CountsTyped
      <4> QED
        BY <3>2, <4>1, <4>2
  <2>5. Cardinality(WorkersAt("pop")') \in Nat
    BY CountsTyped
  <2> QED
    BY <1>0, <2>2, <2>3, <2>4, <2>5 DEF TestedEmpty, EnoughAwake
<1>2. ASSUME NEW w \in Workers, FindEmpty(w) PROVE TestedEmpty' /\ EnoughAwake'
  <2>1. que = <<>> /\ UNCHANGED que /\ WorkerTo(w, "tested")
    BY <1>2 DEF FindEmpty
  <2>2. Cardinality(WorkersAt("pop")') \in Nat
    BY CountsTyped
  <2> QED
    BY <2>1, <2>2 DEF TestedEmpty, EnoughAwake
<1>3. ASSUME NEW w \in Workers, WaitNotEmpty(w) PROVE TestedEmpty' /\ EnoughAwake'
  <2>1. que = <<>> /\ UNCHANGED que /\ WorkerTo(w, "asleep")
    BY <1>3 DEF WaitNotEmpty, TestedEmpty, WorkersAt
  <2>2. Cardinality(WorkersAt("pop")') \in Nat
    BY CountsTyped
  <2> QED
    BY <2>1, <2>2 DEF TestedEmpty, EnoughAwake
<1>4. ASSUME NEW w \in Workers, TakeTask(w) PROVE TestedEmpty' /\ EnoughAwake'
  <2>1. que # <<>> /\ que' = Tail(que) /\ UNCHANGED flag /\ WorkerTo(w, "running")
    BY <1>4 DEF TakeTask
  <2>2. Len(que') = Len(que) - 1
    BY <1>0, <2>1
  <2>3. /\ WorkersAt("pop")' = WorkersAt("pop") \ {w}
        /\ WorkersAt("asleep")' \subseteq WorkersAt("asleep") /\ WorkersAt("tested")' \subseteq WorkersAt("tested")
    BY <2>1, WorkerMoves DEF WorkerPoints
  <2>4. Cardinality(WorkersAt("pop")') >= Cardinality(WorkersAt("pop")) - 1 /\ Cardinality(WorkersAt("pop")) \in Nat
    BY <2>3, FinitelyMany, Counted
  <2>5. Cardinality(WorkersAt("pop")') \in Nat
    BY CountsTyped
  <2>6. WorkersAt("tested") = {}
    BY <1>4 DEF TakeTask, MutexFree
  <2> QED
    BY <1>0, <2>1, <2>2, <2>3, <2>4, <2>5, <2>6 DEF TestedEmpty, EnoughAwake
<1>5. ASSUME NEW c \in Callers, Push(c) PROVE TestedEmpty' /\ EnoughAwake'
  <2>1. Len(que') = Len(que) + 1 /\ UNCHANGED flag /\ WorkersAt("tested") = {}
    BY <1>0, <1>5 DEF Push, MutexFree
  <2>2. CASE WorkersAt("asleep") = {} /\ worker' = worker
    BY <2>1, <2>2 DEF TestedEmpty, EnoughAwake, WorkersAt
  <2>3. ASSUME NEW w \in Workers, worker[w] = "asleep", WorkerTo(w, "pop") PROVE TestedEmpty' /\ EnoughAwake'
    <3>1. /\ WorkersAt("pop")' = WorkersAt("pop") \cup {w} /\ w \notin WorkersAt("pop")
          /\ WorkersAt("tested")' = {} /\ w \in WorkersAt("asleep")
      <4>1. "pop" \in WorkerPoints
        BY DEF WorkerPoints
      <4>2. WorkersAt("pop")' = WorkersAt("pop") \cup {w} /\ WorkersAt("tested")' = WorkersAt("tested") \ {w}
        BY <2>3, <4>1, WorkerMoves
      <4> QED
        BY <2>1, <2>3, <4>2 DEF WorkersAt
    <3>2. Cardinality(WorkersAt("pop")') = Cardinality(WorkersAt("pop")) + 1 /\ Cardinality(WorkersAt("pop")) \in Nat
      BY <3>1, FinitelyMany, Counted
    <3> QED
      BY <1>0, <2>1, <3>1, <3>2 DEF TestedEmpty, EnoughAwake
  <2> QED
    BY <1>5, <2>2, <2>3, NotEmptyNotified DEF Push
<1>6. CASE CallersOnly
  <2>1. UNCHANGED <<que, worker>> /\ (flag' => flag)
    BY <1>6 DEF CallersOnly, AddTask, WaitNotFull, WakeCaller, MainMoves, StartReturns, Stop, SeeEmpty, SetExit, ClearFlag, Join
  <2> QED
    BY <2>1 DEF TestedEmpty, EnoughAwake, WorkersAt
<1>7. CASE NotifyAll
  <2>1. WorkersAt("asleep")' = {} /\ WorkersAt("tested")' \subseteq WorkersAt("tested") /\ UNCHANGED que
    BY <1>7 DEF NotifyAll, WorkersAt, TypeOK
  <2> QED
    BY <2>1 DEF TestedEmpty, EnoughAwake
<1>8. CASE UNCHANGED vars
  BY <1>8 DEF vars, TestedEmpty, EnoughAwake, WorkersAt
<1> QED
  BY <1>1, <1>2, <1>3, <1>4, <1>5, <1>6, <1>7, <1>8
  DEF Next, WorkerStep, StopStep, StartStep, Spurious, MainMoves, CallersOnly

LEMMA EnoughCallersStep ==
    ASSUME TInv, EnoughCallers, [Next]_vars
    PROVE  EnoughCallers'
<1> USE ConstantsTyped
<1>0. Len(que) \in Nat /\ que \in Seq(Tasks) /\ TypeOK
  BY DEF TInv, TypeOK
<1>1. ASSUME UNCHANGED que,
             NEW c \in Callers, NEW p \in CallerPoints, CallerTo(c, p),
             p # "asleep", caller[c] = "push" => p = "push"
      PROVE EnoughCallers'
  <2>1. CallersAt("asleep")' \subseteq CallersAt("asleep")
    BY <1>0, <1>1, CallerMoves
  <2>2. Cardinality(CallersAt("push")') >= Cardinality(CallersAt("push")) /\ Cardinality(CallersAt("push")) \in Nat
    <3>1. CASE p = "push"
      <4>1. CallersAt("push")' = CallersAt("push") \cup {c}
        BY <1>0, <1>1, <3>1, CallerMoves
      <4> QED
        BY <4>1, FinitelyMany, Counted
    <3>2. CASE p # "push"
      <4>1. CallersAt("push")' = CallersAt("push") \ {c} /\ c \notin CallersAt("push")
        <5>1. caller[c] # "push"
          BY <1>1, <3>2
        <5>2. CallersAt("push")' = CallersAt("push") \ {c}
          BY <1>0, <1>1, <3>2, CallerMoves
        <5> QED
          BY <5>1, <5>2 DEF CallersAt
      <4>2. CallersAt("push")' = CallersAt("push")
        BY <4>1
      <4>3. Cardinality(CallersAt("push")') = Cardinality(CallersAt("push"))
        BY <4>2
      <4> QED
        BY <4>3, CountsTyped
    <3> QED
      BY <3>1, <3>2
  <2>3. Cardinality(CallersAt("push")') \in Nat
    BY CountsTyped
  <2> QED
    BY <1>0, <1>1, <2>1, <2>2, <2>3 DEF EnoughCallers
<1>2. ASSUME NEW c \in Callers, AddTask(c) \/ WakeCaller(c) PROVE EnoughCallers'
  <2>1. UNCHANGED que /\ CallerTo(c, "push") /\ "push" \in CallerPoints
    BY <1>2 DEF AddTask, WakeCaller, CallerPoints
  <2> QED
    BY <1>1, <2>1
<1>3. CASE MainMoves \/ NotifyAll
  <2>1. PICK p \in {"idle", "drain", "exit", "flag", "notify", "join", "stopped"} : CallerTo(Main, p)
    BY <1>3 DEF MainMoves, StartReturns, Stop, SeeEmpty, SetExit, ClearFlag, Join, NotifyAll
  <2>2. caller[Main] # "push" /\ UNCHANGED que
    BY <1>3 DEF MainMoves, StartReturns, Stop, SeeEmpty, SetExit, ClearFlag, Join, NotifyAll
  <2>3. p \in CallerPoints /\ p # "asleep"
    BY <2>1 DEF CallerPoints
  <2> QED
    BY <1>1, <2>1, <2>2, <2>3
<1>4. ASSUME NEW c \in Callers, WaitNotFull(c) PROVE EnoughCallers'
  <2>1. Len(que) = Capacity /\ UNCHANGED que /\ CallerTo(c, "asleep")
    BY <1>4 DEF WaitNotFull
  <2>2. Cardinality(CallersAt("push")') \in Nat
    BY CountsTyped
  <2> QED
    BY <2>1, <2>2 DEF EnoughCallers
<1>5. ASSUME NEW c \in Callers, Push(c) PROVE EnoughCallers'
  <2>1. Len(que') = Len(que) + 1 /\ CallerTo(c, "idle")
    BY <1>0, <1>5 DEF Push
  <2>2. CallersAt("push")' = CallersAt("push") \ {c} /\ CallersAt("asleep")' \subseteq CallersAt("asleep")
    BY <1>0, <2>1, CallerMoves DEF CallerPoints
  <2>3. Cardinality(CallersAt("push")') >= Cardinality(CallersAt("push")) - 1 /\ Cardinality(CallersAt("push")) \in Nat
    BY <2>2, FinitelyMany, Counted
  <2>4. Cardinality(CallersAt("push")') \in Nat
    BY CountsTyped
  <2> QED
    BY <1>0, <2>1, <2>2, <2>3, <2>4 DEF EnoughCallers
<1>6. ASSUME NEW w \in Workers, TakeTask(w) PROVE EnoughCallers'
  <2>1. Len(que') = Len(que) - 1 /\ Len(que') \in Nat
    BY <1>0, <1>6 DEF TakeTask
  <2>2. CASE CallersAt("asleep") = {} /\ caller' = caller
    BY <2>2 DEF EnoughCallers, CallersAt
  <2>3. ASSUME NEW c \in Callers, caller[c] = "asleep", CallerTo(c, "push") PROVE EnoughCallers'
    <3>1. /\ CallersAt("push")' = CallersAt("push") \cup {c} /\ c \notin CallersAt("push")
          /\ c \in CallersAt("asleep")
      BY <1>0, <2>3, CallerMoves DEF CallerPoints, CallersAt
    <3>2. Cardinality(CallersAt("push")') = Cardinality(CallersAt("push")) + 1 /\ Cardinality(CallersAt("push")) \in Nat
      BY <3>1, FinitelyMany, Counted
    <3> QED
      BY <1>0, <2>1, <3>1, <3>2 DEF EnoughCallers
  <2> QED
    BY <1>0, <1>6, <2>2, <2>3, NotFullNotified DEF TakeTask
<1>7. ASSUME NEW w \in Workers, \/ TestExit(w) \/ FindEmpty(w) \/ WaitNotEmpty(w) \/ TakeNothing(w)
                                \/ RunTask(w) \/ StartWorker(w) \/ WakeWorker(w)
      PROVE EnoughCallers'
  <2>1. UNCHANGED <<que, caller>>
    BY <1>7 DEF TestExit, FindEmpty, WaitNotEmpty, TakeNothing, RunTask, StartWorker, WakeWorker
  <2> QED
    BY <2>1 DEF EnoughCallers, CallersAt
<1>8. CASE UNCHANGED vars
  BY <1>8 DEF vars, EnoughCallers, CallersAt
<1> QED
  BY <1>2, <1>3, <1>4, <1>5, <1>6, <1>7, <1>8
  DEF Next, WorkerStep, StopStep, StartStep, Spurious, MainMoves
-----------------------------------------------------------------------------
(* No task of the stopping thread is lost.                                 *)

\* A task that has been pushed is queued, in the hand of a worker, or done.
Queued(t) == \E i \in DOMAIN que : que[i] = t
Taken(t) == \E w \in DOMAIN running : running[w] = t
Placed(t) == t \in ran \/ Queued(t) \/ Taken(t)

\* Those of Main are, but for the one that it is about to push.
MainPlaced ==
    \A n \in 1 .. added[Main] :
        Placed(<<Main, n>>) \/ (n = added[Main] /\ caller[Main] \in {"push", "asleep"})

\* Once stop() has seen the queue empty it holds no task of Main, though others may still push.
Drained ==
    caller[Main] \in {"exit", "flag", "notify", "join", "stopped"} => \A i \in DOMAIN que : que[i][1] # Main

\* join() has seen all workers out, and no worker comes back.
Joined == caller[Main] = "stopped" => \A w \in Workers : worker[w] = "exited"

LEMMA PlacedStays ==
    ASSUME TInv, [Next]_vars, NEW t, Placed(t)
    PROVE  Placed(t)'
<1>0. que \in Seq(Tasks) /\ Len(que) \in Nat /\ DOMAIN que = 1 .. Len(que)
  BY DEF TInv, TypeOK
<1>1. CASE UNCHANGED <<que, running, ran>>
  BY <1>1 DEF Placed, Queued, Taken
<1>2. ASSUME NEW w \in Workers, TakeTask(w) PROVE Placed(t)'
  <2>1. que # <<>> /\ que' = Tail(que) /\ UNCHANGED ran
    BY <1>2 DEF TakeTask
  <2>2. w \notin DOMAIN running
    BY <1>2 DEF TakeTask, TInv, TypeOK, WorkersAt
  <2>3. DOMAIN running' = DOMAIN running \cup {w} /\ running'[w] = Head(que) /\ \A v \in DOMAIN running : running'[v] = running[v]
    BY <1>2, <2>2 DEF TakeTask
  <2>4. CASE t \in ran
    BY <2>1, <2>4 DEF Placed
  <2>5. CASE Taken(t)
    BY <2>3, <2>5 DEF Placed, Taken
  <2>6. ASSUME NEW i \in DOMAIN que, que[i] = t PROVE Placed(t)'
    <3>1. CASE i = 1
      BY <1>0, <2>1, <2>3, <2>6, <3>1 DEF Placed, Taken
    <3>2. CASE i # 1
      <4>1. i - 1 \in DOMAIN que' /\ que'[i - 1] = que[i]
        BY <1>0, <2>1, <3>2
      <4> QED
        BY <2>6, <4>1 DEF Placed, Queued
    <3> QED
      BY <3>1, <3>2
  <2> QED
    BY <2>4, <2>5, <2>6 DEF Placed, Queued
<1>3. ASSUME NEW w \in Workers, RunTask(w) PROVE Placed(t)'
  <2>1. UNCHANGED que /\ ran' = ran \cup {running[w]}
    BY <1>3 DEF RunTask
  <2>2. \A v \in DOMAIN running : v # w => v \in DOMAIN running' /\ running'[v] = running[v]
    BY <1>3 DEF RunTask
  <2> QED
    BY <2>1, <2>2 DEF Placed, Queued, Taken
<1>4. ASSUME NEW c \in Callers, Push(c) PROVE Placed(t)'
  <2>1. UNCHANGED <<running, ran>> /\ que' = Append(que, Latest(c))
    BY <1>4 DEF Push
  <2>2. \A i \in DOMAIN que : i \in DOMAIN que' /\ que'[i] = que[i]
    BY <1>0, <2>1
  <2> QED
    BY <2>1, <2>2 DEF Placed, Queued, Taken
<1>5. ASSUME NEW w \in Workers, TestExit(w) \/ FindEmpty(w) \/ WaitNotEmpty(w) \/ TakeNothing(w) \/ StartWorker(w) \/ WakeWorker(w)
      PROVE UNCHANGED <<que, running, ran>>
  BY <1>5 DEF TestExit, FindEmpty, WaitNotEmpty, TakeNothing, StartWorker, WakeWorker
<1>6. CASE CallersOnly \/ NotifyAll \/ UNCHANGED vars
  BY <1>1, <1>6 DEF CallersOnly, AddTask, WaitNotFull, WakeCaller, MainMoves, StartReturns, Stop, SeeEmpty, SetExit, ClearFlag, Join, NotifyAll, vars
<1> QED
  BY <1>1, <1>2, <1>3, <1>4, <1>5, <1>6
  DEF Next, WorkerStep, StopStep, StartStep, Spurious, MainMoves, CallersOnly

LEMMA MainPlacedStep ==
    ASSUME TInv, TInv', MainPlaced, [Next]_vars
    PROVE  MainPlaced'
<1> USE ConstantsTyped
<1>0. que \in Seq(Tasks) /\ added[Main] \in Nat /\ caller \in [Callers -> CallerPoints] /\ added \in [Callers -> Nat]
  BY DEF TInv, TypeOK
<1>1. \A n : Placed(<<Main, n>>) => Placed(<<Main, n>>)'
  BY PlacedStays
<1>2. ASSUME added'[Main] = added[Main],
             caller[Main] \in {"push", "asleep"} => caller'[Main] \in {"push", "asleep"}
      PROVE MainPlaced'
  BY <1>1, <1>2 DEF MainPlaced
<1>3. ASSUME NEW c \in Callers, AddTask(c) PROVE MainPlaced'
  <2>1. CASE c = Main
    <3>1. added'[Main] = added[Main] + 1 /\ caller'[Main] = "push" /\ caller[Main] = "idle"
      BY <1>0, <1>3, <2>1 DEF AddTask, CallerTo
    <3>2. \A n \in 1 .. added[Main] : Placed(<<Main, n>>)'
      BY <1>1, <3>1 DEF MainPlaced
    <3> QED
      BY <1>0, <3>1, <3>2 DEF MainPlaced
  <2>2. CASE c # Main
    BY <1>0, <1>2, <1>3, <2>2 DEF AddTask, CallerTo
  <2> QED
    BY <2>1, <2>2
<1>4. ASSUME NEW c \in Callers, Push(c) PROVE MainPlaced'
  <2>0. added' = added /\ caller' = [caller EXCEPT ![c] = "idle"]
    BY <1>4 DEF Push, CallerTo
  <2>1. CASE c = Main
    <3>1. que' = Append(que, <<Main, added[Main]>>)
      BY <1>4, <2>1 DEF Push, Latest
    <3>2. Len(que) + 1 \in DOMAIN que' /\ que'[Len(que) + 1] = <<Main, added[Main]>>
      BY <1>0, <3>1
    <3>3. Placed(<<Main, added[Main]>>)'
      BY <2>0, <3>2 DEF Placed, Queued
    <3> QED
      BY <1>1, <2>0, <3>3 DEF MainPlaced
  <2>2. CASE c # Main
    BY <1>0, <1>2, <2>0, <2>2
  <2> QED
    BY <2>1, <2>2
<1>5. ASSUME NEW c \in Callers, WaitNotFull(c) \/ WakeCaller(c) PROVE MainPlaced'
  BY <1>0, <1>2, <1>5 DEF WaitNotFull, WakeCaller, CallerTo
<1>6. CASE MainMoves \/ NotifyAll
  <2>1. added' = added /\ caller[Main] \notin {"push", "asleep"}
    BY <1>6 DEF MainMoves, StartReturns, Stop, SeeEmpty, SetExit, ClearFlag, Join, NotifyAll
  <2> QED
    BY <1>2, <2>1
<1>7. ASSUME NEW w \in Workers, TakeTask(w) PROVE MainPlaced'
  <2>1. added' = added
    BY <1>7 DEF TakeTask
  <2>2. ASSUME NEW c \in Callers, caller[c] = "asleep", CallerTo(c, "push")
        PROVE caller[Main] \in {"push", "asleep"} => caller'[Main] \in {"push", "asleep"}
    BY <1>0, <2>2 DEF CallerTo
  <2> QED
    BY <1>2, <1>7, <2>1, <2>2, NotFullNotified DEF TakeTask, TInv
<1>8. ASSUME NEW w \in Workers, \/ TestExit(w) \/ FindEmpty(w) \/ WaitNotEmpty(w) \/ TakeNothing(w)
                                \/ RunTask(w) \/ StartWorker(w) \/ WakeWorker(w)
      PROVE MainPlaced'
  BY <1>2, <1>8 DEF TestExit, FindEmpty, WaitNotEmpty, TakeNothing, RunTask, StartWorker, WakeWorker
<1>9. CASE UNCHANGED vars
  BY <1>2, <1>9 DEF vars
<1> QED
  BY <1>3, <1>4, <1>5, <1>6, <1>7, <1>8, <1>9
  DEF Next, WorkerStep, StopStep, StartStep, Spurious, MainMoves

LEMMA StoppedStep ==
    ASSUME TInv, Drained, Joined, [Next]_vars
    PROVE  Drained' /\ Joined'
<1> USE ConstantsTyped
<1> DEFINE Leaving == {"exit", "flag", "notify", "join", "stopped"}
<1>0. que \in Seq(Tasks) /\ Len(que) \in Nat /\ DOMAIN que = 1 .. Len(que) /\ caller \in [Callers -> CallerPoints] /\ TypeOK
  BY DEF TInv, TypeOK
<1>1. ASSUME NEW w \in Workers, TakeTask(w) PROVE Drained' /\ Joined'
  <2>1. que # <<>> /\ que' = Tail(que) /\ WorkerTo(w, "running") /\ worker[w] = "pop"
    BY <1>1 DEF TakeTask
  <2>2. \A i \in DOMAIN que' : i + 1 \in DOMAIN que /\ que'[i] = que[i + 1]
    BY <1>0, <2>1
  <2>3. caller'[Main] \in Leaving => caller'[Main] = caller[Main]
    <3>1. ASSUME NEW c \in Callers, CallerTo(c, "push") PROVE <2>3
      BY <1>0, <3>1 DEF CallerTo
    <3> QED
      BY <1>0, <1>1, <3>1, NotFullNotified DEF TakeTask
  <2> QED
    BY <2>1, <2>2, <2>3 DEF Drained, Joined
<1>2. ASSUME NEW c \in Callers, Push(c) PROVE Drained' /\ Joined'
  <2>1. que' = Append(que, <<c, added[c]>>) /\ caller' = [caller EXCEPT ![c] = "idle"] /\ caller[c] = "push"
    BY <1>2 DEF Push, Latest, CallerTo
  <2>2. \A i \in DOMAIN que' : que'[i] = <<c, added[c]>> \/ (i \in DOMAIN que /\ que'[i] = que[i])
    BY <1>0, <2>1
  <2>3. caller'[Main] \in Leaving => caller'[Main] = caller[Main] /\ c # Main
    BY <1>0, <2>1
  <2>4. Drained'
    BY <2>2, <2>3 DEF Drained
  <2>5. Joined'
    <3>1. CASE worker' = worker
      BY <2>3, <3>1 DEF Joined
    <3>2. ASSUME NEW w \in Workers, worker[w] = "asleep" PROVE Joined'
      BY <2>3, <3>2 DEF Joined
    <3> QED
      BY <1>0, <1>2, <3>1, <3>2, NotEmptyNotified DEF Push
  <2> QED
    BY <2>4, <2>5
<1>3. CASE SeeEmpty \/ Join
  <2>1. caller' = [caller EXCEPT ![Main] = IF SeeEmpty THEN "exit" ELSE "stopped"] /\ UNCHANGED <<que, worker>>
    BY <1>3 DEF SeeEmpty, Join, CallerTo
  <2>2. CASE SeeEmpty
    <3>1. que = <<>> /\ caller'[Main] = "exit"
      BY <1>0, <2>1, <2>2 DEF SeeEmpty
    <3> QED
      BY <2>1, <3>1 DEF Drained, Joined
  <2>3. CASE Join
    <3>1. caller[Main] = "join" /\ \A w \in Workers : worker[w] = "exited"
      BY <2>3 DEF Join
    <3> QED
      BY <2>1, <3>1 DEF Drained, Joined
  <2> QED
    BY <1>3, <2>2, <2>3
<1>4. CASE StartReturns \/ Stop \/ SetExit \/ ClearFlag
  <2>1. UNCHANGED <<que, worker>>
    BY <1>4 DEF StartReturns, Stop, SetExit, ClearFlag
  <2>2. caller'[Main] # "stopped" /\ (caller'[Main] \in Leaving => caller[Main] \in Leaving)
    BY <1>0, <1>4 DEF StartReturns, Stop, SetExit, ClearFlag, CallerTo
  <2> QED
    BY <2>1, <2>2 DEF Drained, Joined
<1>5. CASE NotifyAll
  <2>1. UNCHANGED que /\ caller'[Main] = "join" /\ caller[Main] = "notify"
    BY <1>0, <1>5 DEF NotifyAll, CallerTo
  <2> QED
    BY <2>1 DEF Drained, Joined
<1>6. ASSUME NEW c \in Callers, AddTask(c) \/ WaitNotFull(c) \/ WakeCaller(c) PROVE Drained' /\ Joined'
  <2>1. UNCHANGED <<que, worker>>
    BY <1>6 DEF AddTask, WaitNotFull, WakeCaller
  <2>2. caller'[Main] \in Leaving => caller'[Main] = caller[Main]
    BY <1>0, <1>6 DEF AddTask, WaitNotFull, WakeCaller, CallerTo
  <2> QED
    BY <2>1, <2>2 DEF Drained, Joined
<1>7. ASSUME NEW w \in Workers, \/ TestExit(w) \/ FindEmpty(w) \/ WaitNotEmpty(w) \/ TakeNothing(w)
                                \/ RunTask(w) \/ StartWorker(w) \/ WakeWorker(w)
      PROVE Drained' /\ Joined'
  <2>1. UNCHANGED <<que, caller>> /\ worker[w] # "exited"
    BY <1>7 DEF TestExit, FindEmpty, WaitNotEmpty, TakeNothing, RunTask, StartWorker, WakeWorker
  <2> QED
    BY <2>1 DEF Drained, Joined
<1>8. CASE UNCHANGED vars
  BY <1>8 DEF vars, Drained, Joined
<1> QED
  BY <1>1, <1>2, <1>3, <1>4, <1>5, <1>6, <1>7, <1>8
  DEF Next, WorkerStep, StopStep, StartStep, Spurious
-----------------------------------------------------------------------------
(* The pool is a bounded queue.                                            *)

\* A task is at one place in the queue, or in the hand of one worker, or done.
OncePlaced ==
    /\ \A i, j \in DOMAIN que : que[i] = que[j] => i = j
    /\ \A v, w \in DOMAIN running : running[v] = running[w] => v = w
    /\ \A t \in ran : ~Queued(t) /\ ~Taken(t)
    /\ \A w \in DOMAIN running : ~Queued(running[w])

\* How many tasks of c have been pushed: the one that it is about to push has not.
Pushed(c) == IF caller[c] \in {"push", "asleep"} THEN added[c] - 1 ELSE added[c]

\* Only those have a place.
OthersAreNew == \A c \in Callers : \A n \in Nat : Placed(<<c, n>>) => n <= Pushed(c)

PlaceInv == TInv /\ OncePlaced /\ OthersAreNew

\* The task that a caller is about to push is a new one.
LEMMA LatestIsNew ==
    ASSUME PlaceInv, NEW c \in Callers, caller[c] = "push"
    PROVE  ~Placed(Latest(c))
<1>1. added[c] \in Nat
  BY DEF PlaceInv, TInv, TypeOK
<1>2. Pushed(c) = added[c] - 1
  BY DEF Pushed
<1> QED
  BY <1>1, <1>2 DEF PlaceInv, OthersAreNew, Latest

\* What the three steps that move a task do with it, element by element.
Takes(w) ==
    /\ que # <<>> /\ que' = Tail(que) /\ ran' = ran
    /\ DOMAIN running' = DOMAIN running \cup {w} /\ w \notin DOMAIN running
    /\ running'[w] = Head(que) /\ \A v \in DOMAIN running : running'[v] = running[v]
    /\ \A i \in DOMAIN que' : i \in Nat \ {0} /\ i + 1 \in DOMAIN que /\ que'[i] = que[i + 1]
    /\ 1 \in DOMAIN que /\ Head(que) = que[1]

Runs(w) ==
    /\ que' = que /\ ran' = ran \cup {running[w]} /\ w \in DOMAIN running
    /\ DOMAIN running' = DOMAIN running \ {w} /\ \A v \in DOMAIN running' : running'[v] = running[v]

Pushes(c) ==
    /\ que' = Append(que, Latest(c)) /\ UNCHANGED <<running, ran, added>>
    /\ \A i \in DOMAIN que' : \/ i \in DOMAIN que /\ que'[i] = que[i]
                              \/ i = Len(que) + 1 /\ que'[i] = Latest(c)
    /\ caller[c] = "push" /\ caller' = [caller EXCEPT ![c] = "idle"]

LEMMA TakeMoves ==
    ASSUME PlaceInv, NEW w \in Workers, TakeTask(w)
    PROVE  Takes(w)
<1>1. que \in Seq(Tasks) /\ que # <<>> /\ que' = Tail(que) /\ ran' = ran
  BY DEF TakeTask, PlaceInv, TInv, TypeOK
<1>2. w \notin DOMAIN running
  BY DEF TakeTask, PlaceInv, TInv, TypeOK, WorkersAt
<1>3. /\ DOMAIN running' = DOMAIN running \cup {w}
      /\ running'[w] = Head(que) /\ \A v \in DOMAIN running : running'[v] = running[v]
  BY <1>2 DEF TakeTask
<1>4. /\ \A i \in DOMAIN que' : i \in Nat \ {0} /\ i + 1 \in DOMAIN que /\ que'[i] = que[i + 1]
      /\ 1 \in DOMAIN que /\ Head(que) = que[1]
  BY <1>1
<1> QED
  BY <1>1, <1>2, <1>3, <1>4 DEF Takes

LEMMA RunMoves ==
    ASSUME PlaceInv, NEW w \in Workers, RunTask(w)
    PROVE  Runs(w)
BY DEF RunTask, PlaceInv, TInv, TypeOK, WorkersAt, Runs

LEMMA PushMoves ==
    ASSUME PlaceInv, NEW c \in Callers, Push(c)
    PROVE  Pushes(c)
<1>1. que \in Seq(Tasks) /\ que' = Append(que, Latest(c))
  BY DEF Push, PlaceInv, TInv, TypeOK
<1>2. \A i \in DOMAIN que' : \/ i \in DOMAIN que /\ que'[i] = que[i]
                             \/ i = Len(que) + 1 /\ que'[i] = Latest(c)
  BY <1>1
<1> QED
  BY <1>1, <1>2 DEF Push, CallerTo, Pushes

\* The steps that move no task.
Bystanders ==
    \/ \E w \in Workers : \/ TestExit(w) \/ FindEmpty(w) \/ WaitNotEmpty(w) \/ TakeNothing(w)
                         \/ StartWorker(w) \/ WakeWorker(w)
    \/ CallersOnly \/ NotifyAll \/ UNCHANGED vars

LEMMA StepKinds ==
    ASSUME [Next]_vars
    PROVE  \/ \E w \in Workers : TakeTask(w) \/ RunTask(w)
           \/ \E c \in Callers : Push(c)
           \/ Bystanders
BY DEF Next, WorkerStep, StopStep, StartStep, Spurious, MainMoves, CallersOnly, Bystanders

LEMMA BystandersMoveNoTask ==
    ASSUME Bystanders
    PROVE  UNCHANGED <<que, running, ran>>
BY DEF Bystanders, CallersOnly, TestExit, FindEmpty, WaitNotEmpty, TakeNothing, StartWorker, WakeWorker, AddTask,
       WaitNotFull, WakeCaller, MainMoves, StartReturns, Stop, SeeEmpty, SetExit, ClearFlag, Join, NotifyAll, vars

LEMMA OncePlacedStep ==
    ASSUME PlaceInv, [Next]_vars
    PROVE  OncePlaced'
<1>0. OncePlaced
  BY DEF PlaceInv
<1>1. ASSUME NEW w \in Workers, TakeTask(w) PROVE OncePlaced'
  <2>0. Takes(w)
    BY <1>1, TakeMoves
  <2>1. \A i, j \in DOMAIN que' : que'[i] = que'[j] => i = j
    BY <1>0, <2>0 DEF OncePlaced, Takes
  <2>2. \A i \in DOMAIN que' : que'[i] # Head(que) /\ \E j \in DOMAIN que : que[j] = que'[i]
    BY <1>0, <2>0 DEF OncePlaced, Takes
  <2>3. Queued(Head(que)) /\ \A t : Queued(t)' => Queued(t) /\ t # Head(que)
    BY <2>0, <2>2 DEF Queued, Takes
  <2>4. \A v \in DOMAIN running : running[v] # Head(que)
    BY <1>0, <2>3 DEF OncePlaced
  <2>5. \A v, u \in DOMAIN running' : running'[v] = running'[u] => v = u
    BY <1>0, <2>0, <2>4 DEF OncePlaced, Takes
  <2>6. \A t : Taken(t)' => Taken(t) \/ t = Head(que)
    BY <2>0 DEF Taken, Takes
  <2>7. \A t \in ran' : ~Queued(t)' /\ ~Taken(t)'
    BY <1>0, <2>0, <2>3, <2>6 DEF OncePlaced, Takes
  <2>8. \A v \in DOMAIN running' : ~Queued(running[v])'
    BY <1>0, <2>0, <2>3 DEF OncePlaced, Takes
  <2> QED
    BY <2>1, <2>5, <2>7, <2>8 DEF OncePlaced
<1>2. ASSUME NEW w \in Workers, RunTask(w) PROVE OncePlaced'
  <2>0. Runs(w)
    BY <1>2, RunMoves
  <2>1. \A t : Queued(t)' <=> Queued(t)
    BY <2>0 DEF Queued, Runs
  <2>2. \A t : Taken(t)' => Taken(t) /\ t # running[w]
    BY <1>0, <2>0 DEF Taken, Runs, OncePlaced
  <2>3. \A t \in ran' : ~Queued(t)' /\ ~Taken(t)'
    BY <1>0, <2>0, <2>1, <2>2 DEF OncePlaced, Runs
  <2>4. \A v \in DOMAIN running' : ~Queued(running[v])'
    BY <1>0, <2>0, <2>1 DEF OncePlaced, Runs
  <2> QED
    BY <1>0, <2>0, <2>3, <2>4 DEF OncePlaced, Runs
<1>3. ASSUME NEW c \in Callers, Push(c) PROVE OncePlaced'
  <2>0. Pushes(c)
    BY <1>3, PushMoves
  <2>1. ~Placed(Latest(c))
    BY <2>0, LatestIsNew DEF Pushes
  <2>2. \A t : Queued(t)' => Queued(t) \/ t = Latest(c)
    BY <2>0 DEF Queued, Pushes
  <2>3. \A i, j \in DOMAIN que' : que'[i] = que'[j] => i = j
    BY <1>0, <2>0, <2>1 DEF OncePlaced, Placed, Queued, Pushes
  <2>4. \A t : Taken(t)' <=> Taken(t)
    BY <2>0 DEF Taken, Pushes
  <2>5. \A t \in ran' : ~Queued(t)' /\ ~Taken(t)'
    BY <1>0, <2>0, <2>1, <2>2, <2>4 DEF OncePlaced, Placed, Pushes
  <2>6. \A v \in DOMAIN running' : ~Queued(running[v])'
    BY <1>0, <2>0, <2>1, <2>2 DEF OncePlaced, Placed, Taken, Pushes
  <2> QED
    BY <1>0, <2>0, <2>3, <2>5, <2>6 DEF OncePlaced, Pushes
<1>4. CASE Bystanders
  BY <1>0, <1>4, BystandersMoveNoTask DEF OncePlaced, Queued, Taken
<1> QED
  BY <1>1, <1>2, <1>3, <1>4, StepKinds

LEMMA OthersAreNewStep ==
    ASSUME PlaceInv, [Next]_vars
    PROVE  OthersAreNew'
<1>0. /\ caller \in [Callers -> CallerPoints] /\ added \in [Callers -> Nat] /\ TypeOK /\ OthersAreNew
      /\ Main \in Callers
  BY ConstantsTyped DEF PlaceInv, TInv, TypeOK
\* Enough: no task gets a place, and no caller goes back.
<1>1. ASSUME \A t : Placed(t)' => Placed(t), \A c \in Callers : Pushed(c) <= Pushed(c)' /\ Pushed(c)' \in Int
      PROVE OthersAreNew'
  <2>1. \A c \in Callers : Pushed(c) \in Int
    BY <1>0 DEF Pushed
  <2> QED
    BY <1>0, <1>1, <2>1 DEF OthersAreNew
<1>2. ASSUME NEW w \in Workers, TakeTask(w) PROVE OthersAreNew'
  <2>1. \A t : Placed(t)' => Placed(t)
    BY <1>2, TakeMoves DEF Placed, Queued, Taken, Takes
  <2>2. \A c \in Callers : Pushed(c)' = Pushed(c) /\ Pushed(c) \in Int
    <3>1. added' = added /\ NotifyNotFull
      BY <1>2 DEF TakeTask
    <3>2. CASE caller' = caller
      BY <1>0, <3>1, <3>2 DEF Pushed
    <3>3. ASSUME NEW d \in Callers, caller[d] = "asleep", CallerTo(d, "push") PROVE <2>2
      BY <1>0, <3>1, <3>3 DEF Pushed, CallerTo
    <3> QED
      BY <1>0, <3>1, <3>2, <3>3, NotFullNotified
  <2> QED
    BY <1>1, <2>1, <2>2
<1>3. ASSUME NEW w \in Workers, RunTask(w) PROVE OthersAreNew'
  <2>1. \A t : Placed(t)' => Placed(t)
    BY <1>3, RunMoves DEF Placed, Queued, Taken, Runs
  <2>2. \A c \in Callers : Pushed(c)' = Pushed(c) /\ Pushed(c) \in Int
    BY <1>0, <1>3 DEF RunTask, Pushed
  <2> QED
    BY <1>1, <2>1, <2>2
<1>4. ASSUME NEW c \in Callers, Push(c) PROVE OthersAreNew'
  <2>1. \A t : Placed(t)' => Placed(t) \/ t = <<c, added[c]>>
    BY <1>4, PushMoves DEF Placed, Queued, Taken, Latest, Pushes
  <2>2. Pushed(c) = added[c] - 1 /\ Pushed(c)' = added[c] /\ \A d \in Callers \ {c} : Pushed(d)' = Pushed(d)
    BY <1>0, <1>4, PushMoves DEF Pushed, Pushes
  <2> SUFFICES ASSUME NEW d \in Callers, NEW n \in Nat, Placed(<<d, n>>)' PROVE n <= Pushed(d)'
    BY DEF OthersAreNew
  <2>3. CASE Placed(<<d, n>>)
    BY <1>0, <2>2, <2>3 DEF OthersAreNew
  <2>4. CASE <<d, n>> = <<c, added[c]>>
    BY <1>0, <2>2, <2>4
  <2> QED
    BY <2>1, <2>3, <2>4
<1>5. CASE Bystanders
  <2>1. \A t : Placed(t)' => Placed(t)
    BY <1>5, BystandersMoveNoTask DEF Placed, Queued, Taken
  <2>2. CASE UNCHANGED <<caller, added>>
    BY <1>0, <1>1, <2>1, <2>2 DEF Pushed
  <2>3. ASSUME NEW c \in Callers, AddTask(c) PROVE OthersAreNew'
    <3>1. caller[c] = "idle" /\ caller'[c] = "push" /\ added'[c] = added[c] + 1
      BY <1>0, <2>3 DEF AddTask, CallerTo
    <3>2. \A d \in Callers \ {c} : caller'[d] = caller[d] /\ added'[d] = added[d]
      BY <1>0, <2>3 DEF AddTask, CallerTo
    <3> QED
      BY <1>0, <1>1, <2>1, <3>1, <3>2 DEF Pushed
  <2>4. ASSUME NEW c \in Callers, WaitNotFull(c) \/ WakeCaller(c) PROVE OthersAreNew'
    <3>1. \A d \in Callers : caller'[d] \in {"push", "asleep"} <=> caller[d] \in {"push", "asleep"}
      BY <1>0, <2>4 DEF WaitNotFull, WakeCaller, CallerTo
    <3>2. added' = added
      BY <2>4 DEF WaitNotFull, WakeCaller
    <3> QED
      BY <1>0, <1>1, <2>1, <3>1, <3>2 DEF Pushed
  <2>5. CASE MainMoves \/ NotifyAll
    <3>1. added' = added /\ caller[Main] \notin {"push", "asleep"}
      BY <2>5 DEF MainMoves, StartReturns, Stop, SeeEmpty, SetExit, ClearFlag, Join, NotifyAll
    <3>2. \A d \in Callers : caller'[d] \in {"push", "asleep"} <=> caller[d] \in {"push", "asleep"}
      BY <1>0, <2>5 DEF MainMoves, StartReturns, Stop, SeeEmpty, SetExit, ClearFlag, Join, NotifyAll, CallerTo
    <3> QED
      BY <1>0, <1>1, <2>1, <3>1, <3>2 DEF Pushed
  <2>6. ASSUME NEW w \in Workers, \/ TestExit(w) \/ FindEmpty(w) \/ WaitNotEmpty(w) \/ TakeNothing(w)
                                  \/ StartWorker(w) \/ WakeWorker(w)
        PROVE UNCHANGED <<caller, added>>
    BY <2>6 DEF TestExit, FindEmpty, WaitNotEmpty, TakeNothing, StartWorker, WakeWorker
  <2>7. CASE UNCHANGED vars
    BY <2>2, <2>7 DEF vars
  <2> QED
    BY <1>5, <2>2, <2>3, <2>4, <2>5, <2>6, <2>7 DEF Bystanders, CallersOnly
<1> QED
  BY <1>2, <1>3, <1>4, <1>5, StepKinds

LEMMA PlaceInvInit == Init => PlaceInv
<1> SUFFICES ASSUME Init PROVE OncePlaced /\ OthersAreNew
  BY TInvInit DEF PlaceInv
<1>1. DOMAIN que = {} /\ DOMAIN running = {} /\ ran = {}
  BY DEF Init
<1> QED
  BY <1>1 DEF OncePlaced, OthersAreNew, Placed, Queued, Taken

LEMMA PlaceInvStep == PlaceInv /\ [Next]_vars => PlaceInv'
BY TInvStep, OncePlacedStep, OthersAreNewStep DEF PlaceInv

\* Each step that moves a task is a step of the abstract pool, and no other step is seen there.
LEMMA PoolSimulation ==
    ASSUME PlaceInv, [Next]_vars
    PROVE  [Pool!Next]_(Pool!vars)
<1> DEFINE Hand == {running[v] : v \in DOMAIN running}
<1>0. TInv /\ OncePlaced
  BY DEF PlaceInv
<1>1. ASSUME NEW w \in Workers, TakeTask(w) PROVE Pool!Next
  <2>0. Takes(w)
    BY <1>1, TakeMoves
  <2>1. Hand' = Hand \cup {Head(que)}
    <3>1. Hand' \subseteq Hand \cup {Head(que)}
      BY <2>0 DEF Takes
    <3>2. Hand \subseteq Hand'
      BY <2>0 DEF Takes
    <3>3. Head(que) \in Hand'
      BY <2>0 DEF Takes
    <3> QED
      BY <3>1, <3>2, <3>3
  <2>2. Pool!TakeOldest
    BY <2>0, <2>1 DEF Pool!TakeOldest, Takes
  <2> QED
    BY <2>2 DEF Pool!Next
<1>2. ASSUME NEW w \in Workers, RunTask(w) PROVE Pool!Next
  <2>0. Runs(w)
    BY <1>2, RunMoves
  <2>1. Hand' = Hand \ {running[w]} /\ running[w] \in Hand
    <3>1. \A v \in DOMAIN running : v # w => running[v] # running[w]
      BY <1>0, <2>0 DEF OncePlaced, Runs
    <3>2. Hand' = {running[v] : v \in DOMAIN running \ {w}}
      BY <2>0 DEF Runs
    <3> QED
      BY <2>0, <3>1, <3>2 DEF Runs
  <2>2. PICK t \in Tasks : t = running[w]
    BY <1>0, <2>0 DEF TInv, TypeOK, Runs
  <2>3. Pool!Finish(t)
    BY <2>0, <2>1, <2>2 DEF Pool!Finish, Runs
  <2> QED
    BY <2>2, <2>3 DEF Pool!Next
<1>3. ASSUME NEW c \in Callers, Push(c) PROVE Pool!Next
  <2>0. Pushes(c)
    BY <1>3, PushMoves
  <2>1. ~Placed(Latest(c)) /\ Latest(c) \in Tasks
    BY <1>0, <2>0, LatestIsNew, LatestIsTask DEF Pushes
  <2>2. Latest(c) \notin Pool!Known
    BY <2>1 DEF Pool!Known, Placed, Queued, Taken
  <2>3. Len(que) < Capacity
    BY <1>0, <1>3, ConstantsTyped DEF Push, TInv, TypeOK
  <2>4. Hand' = Hand
    BY <2>0 DEF Pushes
  <2>5. Pool!Accept(Latest(c))
    BY <2>0, <2>2, <2>3, <2>4 DEF Pool!Accept, Pushes
  <2> QED
    BY <2>1, <2>5 DEF Pool!Next
<1>4. Bystanders => UNCHANGED Pool!vars
  BY BystandersMoveNoTask DEF Pool!vars
<1> QED
  BY <1>1, <1>2, <1>3, <1>4, StepKinds
-----------------------------------------------------------------------------
(* Theorems.                                                               *)

\* The variables of the pool keep their types, and the queue its capacity, for any number of workers,
\* callers and tasks: a caller that was woken looks again whether there is room (push()).
THEOREM PoolTypeCorrect == Spec => []TypeOK
<1>1. TInv => TypeOK
  BY DEF TInv
<1> QED
  BY <1>1, TInvInit, TInvStep, PTL DEF Spec

\* No notify_one() of push() is missing or wasted: while a worker sleeps, there are as many on their
\* way to pop() as there are tasks.
THEOREM SleepersAreSpare == Spec => []EnoughAwake
<1>1. Init => TestedEmpty /\ EnoughAwake
  <2> SUFFICES ASSUME Init PROVE TestedEmpty /\ EnoughAwake
    OBVIOUS
  <2>1. que = <<>> /\ Len(que) = 0 /\ WorkersAt("asleep") = {}
    BY DEF Init, WorkersAt
  <2> QED
    BY <2>1 DEF TestedEmpty, EnoughAwake
<1>2. TypeOK /\ TestedEmpty /\ EnoughAwake /\ [Next]_vars => TestedEmpty' /\ EnoughAwake'
  BY AwakeStep
<1> QED
  BY <1>1, <1>2, PoolTypeCorrect, PTL DEF Spec

\* Nor is one of pop(): while a caller sleeps, there are as many on their way to push() as there are
\* free places.
THEOREM SleepingCallersAreSpare == Spec => []EnoughCallers
<1>1. Init => EnoughCallers
  BY DEF Init, EnoughCallers, CallersAt
<1>2. TInv /\ EnoughCallers /\ [Next]_vars => EnoughCallers'
  BY EnoughCallersStep
<1> QED
  BY <1>1, <1>2, TInvInit, TInvStep, PTL DEF Spec

\* stop() returns when all tasks that its thread has added have run, whoever else goes on adding.
THEOREM StopFinishesOwnTasks == Spec => []StopperTasksRun
<1> DEFINE Inv == TInv /\ MainPlaced /\ Drained /\ Joined
<1>1. Init => Inv
  <2> SUFFICES ASSUME Init PROVE MainPlaced /\ Drained /\ Joined
    BY TInvInit
  <2>1. added[Main] = 0 /\ caller[Main] = "starting"
    BY ConstantsTyped DEF Init
  <2> QED
    BY <2>1 DEF MainPlaced, Drained, Joined
<1>2. Inv /\ [Next]_vars => Inv'
  BY TInvStep, MainPlacedStep, StoppedStep
<1>3. Inv => StopperTasksRun
  <2> SUFFICES ASSUME Inv, caller[Main] = "stopped", NEW n \in 1 .. added[Main] PROVE <<Main, n>> \in ran
    BY DEF StopperTasksRun
  <2>1. Placed(<<Main, n>>)
    BY DEF MainPlaced
  <2>2. DOMAIN running = {}
    BY DEF TInv, TypeOK, Joined, WorkersAt
  <2>3. ~Queued(<<Main, n>>)
    BY DEF Drained, Queued
  <2> QED
    BY <2>1, <2>2, <2>3 DEF Placed, Taken
<1> QED
  BY <1>1, <1>2, <1>3, PTL DEF Spec

\* push() and pop() implement a bounded queue: no task enters it twice or without room, none is taken out
\* of turn, left out, given to two workers or done twice, whichever threads add and take.
THEOREM PoolImplementsQueue == Spec => ImplementsTaskPool
<1>1. Init => Pool!Init
  <2> SUFFICES ASSUME Init PROVE Pool!Init
    OBVIOUS
  <2>1. {running[w] : w \in DOMAIN running} = {}
    BY DEF Init
  <2> QED
    BY <2>1 DEF Init, Pool!Init
<1>2. PlaceInv /\ [Next]_vars => [Pool!Next]_(Pool!vars)
  BY PoolSimulation
<1> QED
  BY <1>1, <1>2, PlaceInvInit, PlaceInvStep, PTL DEF Spec, ImplementsTaskPool, Pool!Spec
======================================================================
