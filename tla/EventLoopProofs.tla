-------------------------- MODULE EventLoopProofs --------------------------
(***************************************************************************)
(* Theorems about EventLoop, for every set of threads, every creator and   *)
(* owner and every number of runInLoop() calls.                            *)
(***************************************************************************)
EXTENDS EventLoop, SequenceTheorems, TLAPS

-----------------------------------------------------------------------------
(* Type correctness.                                                       *)

\* A call that has still to hand its task over has been counted, and no thread counts too far.
PostedOK ==
    \A t \in Threads :
        /\ posted[t] <= MaxPosts[t]
        /\ call[t] \in {"push", "inline"} => posted[t] > 0

TypeInv == TypeOK /\ PostedOK

\* The task that a thread is handing over is one of Tasks.
LEMMA LatestInTasks ==
    ASSUME NEW t \in Threads, TypeInv, call[t] \in {"push", "inline"}
    PROVE  Latest(t) \in Tasks
<1>1. posted[t] \in 1 .. MaxPosts[t]
  BY MaxPostsAssumption DEF TypeInv, TypeOK, PostedOK
<1> QED
  BY <1>1 DEF Latest, Tasks

LEMMA TypeInvInit == Init => TypeInv
<1> SUFFICES ASSUME Init PROVE TypeInv
  OBVIOUS
<1>1. TypeOK
  <2>1. call \in [Threads -> CallPoints]
    BY DEF Init, CallPoints
  <2>2. posted \in [Threads -> Nat]
    BY DEF Init
  <2>3. <<>> \in Seq(Tasks)
    OBVIOUS
  <2> QED
    BY <2>1, <2>2, <2>3 DEF Init, TypeOK, LoopPoints
<1>2. ASSUME NEW t \in Threads
      PROVE  posted[t] <= MaxPosts[t] /\ call[t] \notin {"push", "inline"}
  BY MaxPostsAssumption DEF Init
<1> QED
  BY <1>1, <1>2 DEF TypeInv, PostedOK

\* One step per action; the actions that touch a sequence name the fact they need.
LEMMA TypeInvStep == TypeInv /\ [Next]_vars => TypeInv'
<1> USE ThreadsAssumption, MaxPostsAssumption
<1> SUFFICES ASSUME TypeInv, [Next]_vars PROVE TypeInv'
  OBVIOUS
<1> USE DEF TypeInv, TypeOK, PostedOK, LoopPoints, CallPoints, Callers
<1>1. CASE RunReset \/ RunPublish \/ TestQuit
  BY <1>1 DEF RunReset, RunPublish, TestQuit
<1>2. CASE EpollWakeup \/ EpollOther \/ HandleWakeup \/ EndDispatch
  BY <1>2, SMTT(30) DEF EpollWakeup, EpollOther, HandleWakeup, EndDispatch
<1>3. CASE SwapPending
  BY <1>3 DEF SwapPending
<1>4. CASE RunTask
  <2>1. Head(tasks) \in Tasks /\ Tail(tasks) \in Seq(Tasks)
    BY <1>4 DEF RunTask
  <2> QED
    BY <1>4, <2>1, SMTT(30) DEF RunTask
<1>5. CASE RunInLoopByOwner
  <2>1. posted[Owner] + 1 \in 1 .. MaxPosts[Owner]
    BY <1>5 DEF RunInLoopByOwner
  <2>2. <<Owner, posted[Owner] + 1>> \in Tasks
    BY <2>1 DEF Tasks
  <2> QED
    BY <1>5, <2>2, SMTT(30) DEF RunInLoopByOwner
<1>6. CASE StopByOwner
  BY <1>6 DEF StopByOwner
<1>7. ASSUME NEW t \in Callers, RunInLoop(t) PROVE TypeInv'
  BY <1>7, SMTT(30) DEF RunInLoop
<1>8. ASSUME NEW t \in Callers, RunInline(t) PROVE TypeInv'
  <2>1. Latest(t) \in Tasks
    BY <1>8, LatestInTasks DEF RunInline
  <2> QED
    BY <1>8, <2>1 DEF RunInline
<1>9. ASSUME NEW t \in Callers, PushTask(t) PROVE TypeInv'
  <2>1. Latest(t) \in Tasks
    BY <1>9, LatestInTasks DEF PushTask
  <2> QED
    BY <1>9, <2>1 DEF PushTask
<1>10. ASSUME NEW t \in Callers, Wakeup(t) PROVE TypeInv'
  BY <1>10 DEF Wakeup
<1>11. ASSUME NEW t \in Callers, Stop(t) \/ StopTest(t) PROVE TypeInv'
  BY <1>11 DEF Stop, StopTest
<1>12. CASE Finished \/ UNCHANGED vars
  BY <1>12 DEF Finished, vars
<1> QED
  BY <1>1, <1>2, <1>3, <1>4, <1>5, <1>6, <1>7, <1>8, <1>9, <1>10, <1>11, <1>12
  DEF Next, LoopStep, CallStep

LEMMA TypeInvAlways == Spec => []TypeInv
<1> QED
  BY TypeInvInit, TypeInvStep, PTL DEF Spec

\* Every variable of the loop keeps its type, whatever the threads do.
THEOREM TypeCorrect == Spec => []TypeOK
<1>1. TypeInv => TypeOK
  BY DEF TypeInv
<1> QED
  BY <1>1, TypeInvAlways, PTL
-----------------------------------------------------------------------------
(* The wakeup protocol.                                                    *)

\* Once run() has published its thread, loop_thread_id_ stays the owner's.
OwnerPublished == loop \notin {"unstarted", "entering"} => loopThread = Owner

WakeInv == TypeInv /\ OwnerPublished /\ NoLostWakeup /\ StopWakesLoop

LEMMA WakeInvInit == Init => WakeInv
<1> SUFFICES ASSUME Init PROVE WakeInv
  OBVIOUS
<1>1. TypeInv
  BY TypeInvInit
<1> QED
  BY <1>1 DEF Init, WakeInv, OwnerPublished, NoLostWakeup, StopWakesLoop

LEMMA WakeInvStep == WakeInv /\ [Next]_vars => WakeInv'
<1> SUFFICES ASSUME WakeInv, [Next]_vars PROVE WakeInv'
  OBVIOUS
<1>0. TypeInv'
  BY TypeInvStep DEF WakeInv
<1> USE DEF WakeInv, OwnerPublished, NoLostWakeup, StopWakesLoop, WakeupDue, TypeInv, TypeOK
<1>1. CASE RunReset \/ RunPublish \/ TestQuit
  BY <1>0, <1>1 DEF RunReset, RunPublish, TestQuit
<1>2. CASE EpollWakeup \/ EpollOther \/ HandleWakeup \/ EndDispatch
  BY <1>0, <1>2 DEF EpollWakeup, EpollOther, HandleWakeup, EndDispatch
<1>3. CASE SwapPending \/ RunTask
  BY <1>0, <1>3 DEF SwapPending, RunTask
<1>4. CASE RunInLoopByOwner \/ StopByOwner
  BY <1>0, <1>4 DEF RunInLoopByOwner, StopByOwner
<1>5. ASSUME NEW t \in Callers, RunInLoop(t) \/ RunInline(t) \/ PushTask(t) PROVE WakeInv'
  BY <1>0, <1>5 DEF RunInLoop, RunInline, PushTask, Callers
<1>6. ASSUME NEW t \in Callers, Wakeup(t) PROVE WakeInv'
  <2>1. wakeups' > 0
    BY <1>6 DEF Wakeup
  <2> QED
    BY <1>0, <1>6, <2>1 DEF Wakeup
<1>7. ASSUME NEW t \in Callers, Stop(t) \/ StopTest(t) PROVE WakeInv'
  BY <1>0, <1>7 DEF Stop, StopTest, Callers
<1>8. CASE Finished \/ UNCHANGED vars
  BY <1>0, <1>8 DEF Finished, vars
<1> QED
  BY <1>1, <1>2, <1>3, <1>4, <1>5, <1>6, <1>7, <1>8 DEF Next, LoopStep, CallStep

LEMMA WakeInvAlways == Spec => []WakeInv
<1> QED
  BY WakeInvInit, WakeInvStep, PTL DEF Spec

\* A queued task is never left behind with nobody about to wake the loop.
THEOREM WakeupNotLost == Spec => []NoLostWakeup
<1>1. WakeInv => NoLostWakeup
  BY DEF WakeInv
<1> QED
  BY <1>1, WakeInvAlways, PTL

\* A loop that another thread has stopped does not sleep without a wakeup on its way.
THEOREM StopIsNoticed == Spec => []StopWakesLoop
<1>1. WakeInv => StopWakesLoop
  BY DEF WakeInv
<1> QED
  BY <1>1, WakeInvAlways, PTL
-----------------------------------------------------------------------------
(* The loop implements SerialExecutor.                                     *)

\* What the abstract executor sees as its queue.
Queue == tasks \o pending

\* Task k of a thread has been handed over: it is queued or has run.
Handed(k) == (\E i \in DOMAIN Queue : Queue[i] = k) \/ (\E i \in DOMAIN ran : ran[i] = k)

\* No task has been handed over that its thread has not got to yet; the one it is handing over
\* is still to come.
Reached(k) ==
    /\ k[2] <= posted[k[1]]
    /\ call[k[1]] \in {"push", "inline"} => k[2] < posted[k[1]]

FreshInv ==
    /\ call[Owner] = "idle"
    /\ \A k \in Tasks : Handed(k) => Reached(k)

\* How a step changes the abstract state: k joins the queue, the oldest task leaves it to run, k
\* runs at once, or nothing changes.
Posts(k) == Queue' = Append(Queue, k) /\ ran' = ran
RunsOldest ==
    Queue # <<>> /\ Queue' = Tail(Queue) /\ ran' = Append(ran, Head(Queue))
RunsNow(k) == Queue' = Queue /\ ran' = Append(ran, k)
Unseen == Queue' = Queue /\ ran' = ran

LEMMA QueueType == TypeInv => Queue \in Seq(Tasks)
BY DEF TypeInv, TypeOK, Queue

LEMMA PushPosts ==
    ASSUME TypeInv, NEW t \in Callers, PushTask(t)
    PROVE  Posts(Latest(t))
<1>1. Latest(t) \in Tasks
  BY LatestInTasks DEF PushTask, Callers
<1>2. tasks \o Append(pending, Latest(t)) = Append(tasks \o pending, Latest(t))
  BY <1>1 DEF TypeInv, TypeOK
<1> QED
  BY <1>2 DEF PushTask, Posts, Queue

LEMMA RunTaskRunsOldest ==
    ASSUME TypeInv, RunTask
    PROVE  RunsOldest
<1>1. tasks # <<>>
  BY DEF TypeInv, TypeOK, RunTask
<1>2. Queue # <<>> /\ Head(Queue) = Head(tasks) /\ Tail(Queue) = Tail(tasks) \o pending
  BY <1>1 DEF TypeInv, TypeOK, Queue
<1> QED
  BY <1>2 DEF RunTask, RunsOldest, Queue

LEMMA SwapUnseen ==
    ASSUME TypeInv, SwapPending
    PROVE  Unseen
<1>1. tasks = <<>>
  BY DEF TypeInv, TypeOK, SwapPending
<1>2. tasks \o pending = pending /\ pending \o <<>> = pending
  BY <1>1 DEF TypeInv, TypeOK
<1> QED
  BY <1>2 DEF SwapPending, Unseen, Queue

\* What each kind of step adds to the tasks handed over.
LEMMA PostsHanded ==
    ASSUME TypeInv, NEW k \in Tasks, Posts(k), NEW j, Handed(j)'
    PROVE  Handed(j) \/ j = k
<1>1. Queue \in Seq(Tasks)
  BY QueueType
<1>2. CASE \E i \in DOMAIN Queue' : Queue'[i] = j
  <2>1. PICK i \in DOMAIN Append(Queue, k) : Append(Queue, k)[i] = j
    BY <1>2 DEF Posts
  <2> QED
    BY <1>1, <2>1 DEF Handed
<1>3. CASE \E i \in DOMAIN ran' : ran'[i] = j
  BY <1>3 DEF Posts, Handed
<1> QED
  BY <1>2, <1>3 DEF Handed

LEMMA RunsNowHanded ==
    ASSUME TypeInv, NEW k \in Tasks, RunsNow(k), NEW j, Handed(j)'
    PROVE  Handed(j) \/ j = k
<1>1. ran \in Seq(Tasks)
  BY DEF TypeInv, TypeOK
<1>2. CASE \E i \in DOMAIN ran' : ran'[i] = j
  <2>1. PICK i \in DOMAIN Append(ran, k) : Append(ran, k)[i] = j
    BY <1>2 DEF RunsNow
  <2> QED
    BY <1>1, <2>1 DEF Handed
<1>3. CASE \E i \in DOMAIN Queue' : Queue'[i] = j
  BY <1>3 DEF RunsNow, Handed
<1> QED
  BY <1>2, <1>3 DEF Handed

LEMMA RunsOldestHanded ==
    ASSUME TypeInv, RunsOldest, NEW j, Handed(j)'
    PROVE  Handed(j)
<1>1. ran \in Seq(Tasks) /\ Queue \in Seq(Tasks) /\ Queue # <<>>
  BY QueueType DEF TypeInv, TypeOK, RunsOldest
<1>2. CASE \E i \in DOMAIN ran' : ran'[i] = j
  <2>1. PICK i \in DOMAIN Append(ran, Head(Queue)) : Append(ran, Head(Queue))[i] = j
    BY <1>2 DEF RunsOldest
  <2>2. Head(Queue) = Queue[1] /\ 1 \in DOMAIN Queue
    BY <1>1
  <2> QED
    BY <1>1, <2>1, <2>2 DEF Handed
<1>3. CASE \E i \in DOMAIN Queue' : Queue'[i] = j
  <2>1. PICK i \in DOMAIN Tail(Queue) : Tail(Queue)[i] = j
    BY <1>3 DEF RunsOldest
  <2>2. i + 1 \in DOMAIN Queue /\ Queue[i + 1] = j
    BY <1>1, <2>1
  <2> QED
    BY <2>2 DEF Handed
<1> QED
  BY <1>2, <1>3 DEF Handed

\* The task that a thread is about to hand over is new.
LEMMA LatestIsFresh ==
    ASSUME TypeInv, FreshInv, NEW t \in Threads, call[t] \in {"push", "inline"}
    PROVE  ~Handed(Latest(t))
<1>1. Latest(t) \in Tasks
  BY LatestInTasks
<1>2. ~ Reached(Latest(t))
  BY DEF TypeInv, TypeOK, Reached, Latest
<1> QED
  BY <1>1, <1>2 DEF FreshInv

\* So is a task that the loop's own thread runs at once.
LEMMA OwnerTaskIsFresh ==
    ASSUME TypeInv, FreshInv, posted[Owner] < MaxPosts[Owner]
    PROVE  /\ <<Owner, posted[Owner] + 1>> \in Tasks
           /\ ~Handed(<<Owner, posted[Owner] + 1>>)
<1> USE ThreadsAssumption, MaxPostsAssumption
<1>1. posted[Owner] + 1 \in 1 .. MaxPosts[Owner]
  BY DEF TypeInv, TypeOK
<1>2. <<Owner, posted[Owner] + 1>> \in Tasks
  BY <1>1 DEF Tasks
<1>3. ~ Reached(<<Owner, posted[Owner] + 1>>)
  BY DEF TypeInv, TypeOK, Reached
<1> QED
  BY <1>2, <1>3 DEF FreshInv

LEMMA TaskFields == \A k \in Tasks : k[1] \in Threads /\ k[2] \in Nat
BY MaxPostsAssumption DEF Tasks

LEMMA FreshInvStep == TypeInv /\ FreshInv /\ [Next]_vars => FreshInv'
<1> SUFFICES ASSUME TypeInv, FreshInv, [Next]_vars PROVE FreshInv'
  OBVIOUS
<1> USE TaskFields, ThreadsAssumption DEF TypeInv, TypeOK
\* A step that hands nothing over and moves no call keeps it.
<1>1. ASSUME \A j : Handed(j)' => Handed(j), UNCHANGED <<call, posted>>
      PROVE  FreshInv'
  BY <1>1 DEF FreshInv, Reached
<1>2. CASE RunReset \/ RunPublish \/ TestQuit
  BY <1>1, <1>2 DEF RunReset, RunPublish, TestQuit, Handed, Queue
<1>3. CASE EpollWakeup \/ EpollOther \/ HandleWakeup \/ EndDispatch
  BY <1>1, <1>3 DEF EpollWakeup, EpollOther, HandleWakeup, EndDispatch, Handed, Queue
<1>4. CASE SwapPending
  BY <1>1, <1>4, SwapUnseen DEF SwapPending, Unseen, Handed
<1>5. CASE RunTask
  BY <1>1, <1>5, RunTaskRunsOldest, RunsOldestHanded DEF RunTask
<1>6. CASE RunInLoopByOwner
  <2> DEFINE k == <<Owner, posted[Owner] + 1>>
  <2>1. k \in Tasks
    BY <1>6, OwnerTaskIsFresh DEF RunInLoopByOwner
  <2>2. RunsNow(k)
    BY <1>6 DEF RunInLoopByOwner, RunsNow, Queue
  <2>3. \A j : Handed(j)' => Handed(j) \/ j = k
    BY <2>1, <2>2, RunsNowHanded
  <2>4. \A j : j = k => Reached(j)'
    BY <1>6 DEF RunInLoopByOwner, Reached, FreshInv
  <2>5. \A j \in Tasks : Reached(j) => Reached(j)'
    BY <1>6 DEF RunInLoopByOwner, Reached, FreshInv
  <2>6. \A j \in Tasks : Handed(j)' => Reached(j)'
    BY <2>3, <2>4, <2>5 DEF FreshInv
  <2> QED
    BY <1>6, <2>6 DEF RunInLoopByOwner, FreshInv
<1>7. CASE StopByOwner
  BY <1>1, <1>7 DEF StopByOwner, Handed, Queue
<1>8. ASSUME NEW t \in Callers, RunInLoop(t) PROVE FreshInv'
  <2>1. \A j : Handed(j)' => Handed(j)
    BY <1>8 DEF RunInLoop, Handed, Queue
  <2>2. \A j \in Tasks : Reached(j) => Reached(j)'
    BY <1>8 DEF RunInLoop, Reached, Callers
  <2> QED
    BY <1>8, <2>1, <2>2 DEF RunInLoop, FreshInv, Callers
<1>9. ASSUME NEW t \in Callers, RunInline(t) \/ PushTask(t) PROVE FreshInv'
  <2>1. Latest(t) \in Tasks
    BY <1>9, LatestInTasks DEF RunInline, PushTask, Callers
  <2>2. \A j : Handed(j)' => Handed(j) \/ j = Latest(t)
    <3>1. CASE RunInline(t)
      BY <2>1, <3>1, RunsNowHanded DEF RunInline, RunsNow, Queue
    <3>2. CASE PushTask(t)
      BY <2>1, <3>2, PushPosts, PostsHanded
    <3> QED
      BY <1>9, <3>1, <3>2
  <2>3. \A j : j = Latest(t) => Reached(j)'
    BY <1>9 DEF RunInline, PushTask, Reached, Latest, Callers
  <2>4. \A j \in Tasks : Reached(j) => Reached(j)'
    BY <1>9 DEF RunInline, PushTask, Reached, Callers
  <2>5. \A j \in Tasks : Handed(j)' => Reached(j)'
    BY <2>2, <2>3, <2>4 DEF FreshInv
  <2>6. (call[Owner])' = "idle"
    BY <1>9 DEF RunInline, PushTask, FreshInv, Callers
  <2> QED
    BY <2>5, <2>6 DEF FreshInv
<1>10. ASSUME NEW t \in Callers, Wakeup(t) \/ Stop(t) \/ StopTest(t) PROVE FreshInv'
  <2>1. \A j : Handed(j)' => Handed(j)
    BY <1>10 DEF Wakeup, Stop, StopTest, Handed, Queue
  <2>2. \A j \in Tasks : Reached(j) => Reached(j)'
    BY <1>10 DEF Wakeup, Stop, StopTest, Reached, Callers
  <2> QED
    BY <1>10, <2>1, <2>2 DEF Wakeup, Stop, StopTest, FreshInv, Callers
<1>11. CASE Finished \/ UNCHANGED vars
  BY <1>1, <1>11 DEF Finished, vars, Handed, Queue
<1> QED
  BY <1>2, <1>3, <1>4, <1>5, <1>6, <1>7, <1>8, <1>9, <1>10, <1>11
  DEF Next, LoopStep, CallStep

LEMMA FreshInvInit == Init => FreshInv
BY ThreadsAssumption DEF Init, FreshInv, Handed, Queue

\* A step of the loop or of a caller is a step of the abstract executor, or none.
LEMMA StepSimulation == TypeInv /\ FreshInv /\ [Next]_vars => [Executor!Next]_(Executor!vars)
<1> SUFFICES ASSUME TypeInv, FreshInv, [Next]_vars
             PROVE  [Executor!Next]_(Executor!vars)
  OBVIOUS
<1> USE DEF Executor!Next, Executor!vars, Executor!Post, Executor!RunNow, Executor!RunOldest,
            Executor!Fresh, Executor!Elements
<1>1. ASSUME Unseen PROVE [Executor!Next]_(Executor!vars)
  BY <1>1 DEF Unseen, Queue
<1>2. CASE RunReset \/ RunPublish \/ TestQuit
  BY <1>1, <1>2 DEF RunReset, RunPublish, TestQuit, Unseen, Queue
<1>3. CASE EpollWakeup \/ EpollOther \/ HandleWakeup \/ EndDispatch
  BY <1>1, <1>3 DEF EpollWakeup, EpollOther, HandleWakeup, EndDispatch, Unseen, Queue
<1>4. CASE SwapPending
  BY <1>1, <1>4, SwapUnseen
<1>5. CASE RunTask
  <2>1. RunsOldest
    BY <1>5, RunTaskRunsOldest
  <2> QED
    BY <2>1 DEF RunsOldest, Queue
<1>6. CASE RunInLoopByOwner
  <2> DEFINE k == <<Owner, posted[Owner] + 1>>
  <2>1. k \in Tasks /\ ~Handed(k)
    BY <1>6, OwnerTaskIsFresh DEF RunInLoopByOwner
  <2>2. Executor!RunNow(k)
    BY <1>6, <2>1 DEF RunInLoopByOwner, Handed, Queue
  <2> QED
    BY <2>1, <2>2
<1>7. CASE StopByOwner
  BY <1>1, <1>7 DEF StopByOwner, Unseen, Queue
<1>8. ASSUME NEW t \in Callers, RunInLoop(t) \/ Wakeup(t) \/ Stop(t) \/ StopTest(t)
      PROVE  [Executor!Next]_(Executor!vars)
  BY <1>1, <1>8 DEF RunInLoop, Wakeup, Stop, StopTest, Unseen, Queue
<1>9. ASSUME NEW t \in Callers, RunInline(t) \/ PushTask(t)
      PROVE  [Executor!Next]_(Executor!vars)
  <2>1. Latest(t) \in Tasks /\ ~Handed(Latest(t))
    BY <1>9, LatestInTasks, LatestIsFresh DEF RunInline, PushTask, Callers
  <2>2. CASE RunInline(t)
    BY <2>1, <2>2 DEF RunInline, Handed, Queue
  <2>3. CASE PushTask(t)
    BY <2>1, <2>3, PushPosts DEF Posts, Handed, Queue
  <2> QED
    BY <1>9, <2>2, <2>3
<1>10. CASE Finished \/ UNCHANGED vars
  BY <1>1, <1>10 DEF Finished, vars, Unseen, Queue
<1> QED
  BY <1>2, <1>3, <1>4, <1>5, <1>6, <1>7, <1>8, <1>9, <1>10 DEF Next, LoopStep, CallStep

\* EventLoop implements SerialExecutor: tasks are accepted at most once, and the queued ones run
\* once each in the order in which they were queued.
THEOREM LoopImplementsExecutor == Spec => ImplementsExecutor
<1>1. Init => Executor!Init
  BY DEF Init, Executor!Init
<1> QED
  BY <1>1, TypeInvInit, TypeInvStep, FreshInvInit, FreshInvStep, StepSimulation, PTL
  DEF Spec, ImplementsExecutor, Executor!Spec
-----------------------------------------------------------------------------
(* The order of the tasks of one thread.                                   *)

InOrder(s) == \A i, j \in DOMAIN s : i < j /\ s[i][1] = s[j][1] => s[i][2] < s[j][2]
NotQueued(t) == \A i \in DOMAIN Queue : Queue[i][1] # t

\* What has run and what is queued are in order, and what has run comes before what is queued.
Orders ==
    /\ InOrder(ran)
    /\ InOrder(Queue)
    /\ \A i \in DOMAIN ran, j \in DOMAIN Queue : ran[i][1] = Queue[j][1] => ran[i][2] < Queue[j][2]

\* A thread whose tasks run at once has none in the queue: the creator queues nothing until run()
\* has published its thread, and runs nothing at once from then on.
InlineFirst ==
    /\ \A t \in Threads : t = loopThread \/ t = Owner \/ call[t] = "inline" => NotQueued(t)
    /\ \A t \in Callers : t = loopThread => call[t] # "push"

OrderInv == Orders /\ InlineFirst

\* k comes after all that its thread has handed over.
After(k) == \A j \in Tasks : Handed(j) /\ j[1] = k[1] => j[2] < k[2]

LEMMA AppendInOrder ==
    ASSUME NEW s \in Seq(Tasks), InOrder(s), NEW k \in Tasks,
           \A i \in DOMAIN s : s[i][1] = k[1] => s[i][2] < k[2]
    PROVE  InOrder(Append(s, k))
<1>1. /\ DOMAIN Append(s, k) = 1 .. Len(s) + 1 /\ DOMAIN s = 1 .. Len(s) /\ Len(s) \in Nat
      /\ \A i \in 1 .. Len(s) : Append(s, k)[i] = s[i]
      /\ Append(s, k)[Len(s) + 1] = k
  OBVIOUS
<1>2. \A i \in 1 .. Len(s) + 1 : i \in 1 .. Len(s) \/ i = Len(s) + 1
  BY <1>1
<1> QED
  BY <1>1, <1>2 DEF InOrder

LEMMA TailInOrder ==
    ASSUME NEW s \in Seq(Tasks), s # <<>>, InOrder(s)
    PROVE  InOrder(Tail(s)) /\ \A i \in DOMAIN Tail(s) : s[1][1] = Tail(s)[i][1] => s[1][2] < Tail(s)[i][2]
<1>1. /\ DOMAIN Tail(s) = 1 .. Len(s) - 1 /\ DOMAIN s = 1 .. Len(s) /\ Len(s) \in Nat
      /\ \A i \in 1 .. Len(s) - 1 : Tail(s)[i] = s[i + 1]
  OBVIOUS
<1>2. 1 \in DOMAIN s /\ \A i \in 1 .. Len(s) - 1 : i + 1 \in DOMAIN s /\ 1 < i + 1
  BY <1>1
<1>3. ASSUME NEW i \in DOMAIN Tail(s), NEW j \in DOMAIN Tail(s), i < j, Tail(s)[i][1] = Tail(s)[j][1]
      PROVE  Tail(s)[i][2] < Tail(s)[j][2]
  <2>1. i + 1 \in DOMAIN s /\ j + 1 \in DOMAIN s /\ i + 1 < j + 1
    BY <1>1, <1>2, <1>3
  <2>2. Tail(s)[i] = s[i + 1] /\ Tail(s)[j] = s[j + 1]
    BY <1>1
  <2> QED
    BY <1>3, <2>1, <2>2 DEF InOrder
<1>4. ASSUME NEW i \in DOMAIN Tail(s), s[1][1] = Tail(s)[i][1]
      PROVE  s[1][2] < Tail(s)[i][2]
  <2>1. 1 \in DOMAIN s /\ i + 1 \in DOMAIN s /\ 1 < i + 1 /\ Tail(s)[i] = s[i + 1]
    BY <1>1, <1>2
  <2> QED
    BY <1>4, <2>1 DEF InOrder
<1> QED
  BY <1>3, <1>4 DEF InOrder

LEMMA PostsKeepsOrder ==
    ASSUME TypeInv, Orders, NEW k \in Tasks, Posts(k), After(k)
    PROVE  Orders'
<1>1. Queue \in Seq(Tasks) /\ ran \in Seq(Tasks)
  BY QueueType DEF TypeInv, TypeOK
<1>2. /\ \A i \in DOMAIN Queue : Queue[i] \in Tasks /\ Handed(Queue[i])
      /\ \A i \in DOMAIN ran : ran[i] \in Tasks /\ Handed(ran[i])
  BY <1>1 DEF Handed
<1>3. Queue' = Append(Queue, k) /\ ran' = ran
  BY DEF Posts
<1>4. InOrder(Append(Queue, k))
  BY <1>1, <1>2, AppendInOrder DEF Orders, After
<1>5. \A i \in DOMAIN ran, j \in DOMAIN Append(Queue, k) :
        ran[i][1] = Append(Queue, k)[j][1] => ran[i][2] < Append(Queue, k)[j][2]
  <2>1. \A j \in DOMAIN Append(Queue, k) : (j \in DOMAIN Queue /\ Append(Queue, k)[j] = Queue[j]) \/ Append(Queue, k)[j] = k
    BY <1>1
  <2> QED
    BY <1>2, <2>1 DEF Orders, After
<1> QED
  BY <1>3, <1>4, <1>5 DEF Orders, InOrder

LEMMA RunsOldestKeepsOrder ==
    ASSUME TypeInv, Orders, RunsOldest
    PROVE  Orders'
<1>1. Queue \in Seq(Tasks) /\ ran \in Seq(Tasks) /\ Queue # <<>>
  BY QueueType DEF TypeInv, TypeOK, RunsOldest
<1>2. Head(Queue) = Queue[1] /\ Queue[1] \in Tasks /\ 1 \in DOMAIN Queue
  BY <1>1
<1>3. Queue' = Tail(Queue) /\ ran' = Append(ran, Queue[1])
  BY <1>2 DEF RunsOldest
<1>4. InOrder(Append(ran, Queue[1]))
  BY <1>1, <1>2, AppendInOrder DEF Orders
<1>5. InOrder(Tail(Queue)) /\ \A i \in DOMAIN Tail(Queue) : Queue[1][1] = Tail(Queue)[i][1] => Queue[1][2] < Tail(Queue)[i][2]
  BY <1>1, TailInOrder DEF Orders
<1>6. \A i \in DOMAIN Append(ran, Queue[1]), j \in DOMAIN Tail(Queue) :
        Append(ran, Queue[1])[i][1] = Tail(Queue)[j][1] => Append(ran, Queue[1])[i][2] < Tail(Queue)[j][2]
  <2>1. \A i \in DOMAIN Append(ran, Queue[1]) : (i \in DOMAIN ran /\ Append(ran, Queue[1])[i] = ran[i]) \/ Append(ran, Queue[1])[i] = Queue[1]
    BY <1>1, <1>2
  <2>2. \A j \in DOMAIN Tail(Queue) : j + 1 \in DOMAIN Queue /\ Tail(Queue)[j] = Queue[j + 1]
    BY <1>1
  <2> QED
    BY <1>5, <2>1, <2>2 DEF Orders
<1> QED
  BY <1>3, <1>4, <1>5, <1>6 DEF Orders, InOrder

LEMMA RunsNowKeepsOrder ==
    ASSUME TypeInv, Orders, NEW k \in Tasks, RunsNow(k), After(k), NotQueued(k[1])
    PROVE  Orders'
<1>1. Queue \in Seq(Tasks) /\ ran \in Seq(Tasks)
  BY QueueType DEF TypeInv, TypeOK
<1>2. \A i \in DOMAIN ran : ran[i] \in Tasks /\ Handed(ran[i])
  BY <1>1 DEF Handed
<1>3. Queue' = Queue /\ ran' = Append(ran, k)
  BY DEF RunsNow
<1>4. InOrder(Append(ran, k))
  BY <1>1, <1>2, AppendInOrder DEF Orders, After
<1>5. \A i \in DOMAIN Append(ran, k), j \in DOMAIN Queue :
        Append(ran, k)[i][1] = Queue[j][1] => Append(ran, k)[i][2] < Queue[j][2]
  <2>1. \A i \in DOMAIN Append(ran, k) : (i \in DOMAIN ran /\ Append(ran, k)[i] = ran[i]) \/ Append(ran, k)[i] = k
    BY <1>1
  <2> QED
    BY <2>1 DEF Orders, NotQueued
<1> QED
  BY <1>3, <1>4, <1>5 DEF Orders, InOrder

\* What a thread hands over comes after all that it has handed over.
LEMMA LatestIsAfter ==
    ASSUME TypeInv, FreshInv, NEW t \in Threads, call[t] \in {"push", "inline"}
    PROVE  After(Latest(t))
BY DEF After, FreshInv, Reached, Latest

LEMMA OwnerTaskIsAfter ==
    ASSUME TypeInv, FreshInv
    PROVE  After(<<Owner, posted[Owner] + 1>>)
<1> SUFFICES ASSUME NEW j \in Tasks, Handed(j), j[1] = Owner PROVE j[2] < posted[Owner] + 1
  BY DEF After
<1>1. j[2] <= posted[Owner] /\ j[2] \in Nat /\ posted[Owner] \in Nat
  BY TaskFields, ThreadsAssumption DEF FreshInv, Reached, TypeInv, TypeOK
<1> QED
  BY <1>1

LEMMA OrderInvStep == TypeInv /\ FreshInv /\ OrderInv /\ [Next]_vars => OrderInv'
<1> SUFFICES ASSUME TypeInv, FreshInv, OrderInv, [Next]_vars PROVE OrderInv'
  OBVIOUS
<1> USE ThreadsAssumption
<1>a. call \in [Threads -> CallPoints] /\ loopThread \in {Creator, Owner} /\ call[Owner] = "idle"
  BY DEF TypeInv, TypeOK, FreshInv
<1>b. Orders /\ InlineFirst
  BY DEF OrderInv
\* A step that changes neither tasks nor calls keeps it, also when run() publishes its thread.
<1>1. ASSUME Unseen, UNCHANGED call, loopThread' \in {loopThread, Owner} PROVE OrderInv'
  <2>1. Orders'
    BY <1>b, <1>1 DEF Unseen, Orders, InOrder
  <2>2. InlineFirst'
    BY <1>b, <1>1 DEF Unseen, InlineFirst, NotQueued, Callers
  <2> QED
    BY <2>1, <2>2 DEF OrderInv
<1>2. CASE RunReset \/ RunPublish \/ TestQuit
  BY <1>1, <1>2 DEF RunReset, RunPublish, TestQuit, Unseen, Queue
<1>3. CASE EpollWakeup \/ EpollOther \/ HandleWakeup \/ EndDispatch
  BY <1>1, <1>3 DEF EpollWakeup, EpollOther, HandleWakeup, EndDispatch, Unseen, Queue
<1>4. CASE SwapPending
  BY <1>1, <1>4, SwapUnseen DEF SwapPending
<1>5. CASE RunTask
  <2>1. RunsOldest /\ UNCHANGED <<call, loopThread>>
    BY <1>5, RunTaskRunsOldest DEF RunTask
  <2>2. Queue \in Seq(Tasks) /\ Queue # <<>> /\ Queue' = Tail(Queue)
    BY <2>1, QueueType DEF RunsOldest
  <2>3. \A t : NotQueued(t) => NotQueued(t)'
    BY <2>2 DEF NotQueued
  <2> QED
    BY <1>b, <2>1, <2>3, RunsOldestKeepsOrder DEF OrderInv, InlineFirst
<1>6. CASE RunInLoopByOwner
  <2> DEFINE k == <<Owner, posted[Owner] + 1>>
  <2>1. k \in Tasks /\ After(k) /\ k[1] = Owner
    BY <1>6, OwnerTaskIsFresh, OwnerTaskIsAfter DEF RunInLoopByOwner
  <2>2. RunsNow(k) /\ UNCHANGED <<call, loopThread>>
    BY <1>6 DEF RunInLoopByOwner, RunsNow, Queue
  <2>3. NotQueued(k[1])
    BY <1>b, <2>1 DEF InlineFirst
  <2>4. Orders'
    BY <1>b, <2>1, <2>2, <2>3, RunsNowKeepsOrder
  <2>5. InlineFirst'
    BY <1>b, <2>2 DEF RunsNow, InlineFirst, NotQueued
  <2> QED
    BY <2>4, <2>5 DEF OrderInv
<1>7. CASE StopByOwner
  BY <1>1, <1>7 DEF StopByOwner, Unseen, Queue
<1>8. ASSUME NEW t \in Callers, RunInLoop(t) \/ Wakeup(t) \/ Stop(t) \/ StopTest(t) PROVE OrderInv'
  <2>1. Unseen /\ UNCHANGED loopThread
    BY <1>8 DEF RunInLoop, Wakeup, Stop, StopTest, Unseen, Queue
  <2>2. Orders'
    BY <1>b, <2>1 DEF Unseen, Orders, InOrder
  <2>3. \A u \in Threads : /\ u # t => call'[u] = call[u]
                           /\ u = t /\ call'[u] = "inline" => loopThread = u
                           /\ u = t /\ call'[u] = "push" => loopThread # u
    BY <1>a, <1>8 DEF RunInLoop, Wakeup, Stop, StopTest, Callers
  <2>4. InlineFirst'
    BY <1>b, <2>1, <2>3 DEF Unseen, InlineFirst, NotQueued, Callers
  <2> QED
    BY <2>2, <2>4 DEF OrderInv
<1>9. ASSUME NEW t \in Callers, RunInline(t) PROVE OrderInv'
  <2>1. t \in Threads /\ call[t] = "inline" /\ Latest(t)[1] = t
    BY <1>9 DEF RunInline, Callers, Latest
  <2>2. Latest(t) \in Tasks /\ After(Latest(t)) /\ NotQueued(t)
    BY <1>b, <2>1, LatestInTasks, LatestIsAfter DEF InlineFirst
  <2>3. RunsNow(Latest(t)) /\ UNCHANGED loopThread /\ call' = [call EXCEPT ![t] = "idle"]
    BY <1>9 DEF RunInline, RunsNow, Queue
  <2>4. Orders'
    BY <1>b, <2>1, <2>2, <2>3, RunsNowKeepsOrder
  <2>5. \A u \in Threads : call'[u] \in {"inline", "push"} => call'[u] = call[u]
    BY <1>a, <2>3
  <2>6. InlineFirst'
    BY <1>b, <2>3, <2>5 DEF RunsNow, InlineFirst, NotQueued, Callers
  <2> QED
    BY <2>4, <2>6 DEF OrderInv
<1>10. ASSUME NEW t \in Callers, PushTask(t) PROVE OrderInv'
  <2>1. t \in Threads /\ call[t] = "push" /\ Latest(t)[1] = t /\ t # Owner /\ t # loopThread
    BY <1>b, <1>10 DEF PushTask, Callers, Latest, InlineFirst
  <2>2. Latest(t) \in Tasks /\ After(Latest(t))
    BY <2>1, LatestInTasks, LatestIsAfter
  <2>3. Posts(Latest(t)) /\ UNCHANGED loopThread /\ call' = [call EXCEPT ![t] = "wakeup"]
    BY <1>10, PushPosts DEF PushTask
  <2>4. Orders'
    BY <1>b, <2>2, <2>3, PostsKeepsOrder
  <2>5. Queue \in Seq(Tasks) /\ Queue' = Append(Queue, Latest(t))
    BY <2>3, QueueType DEF Posts
  <2>6. \A u : u # t /\ NotQueued(u) => NotQueued(u)'
    <3>1. \A j \in DOMAIN Append(Queue, Latest(t)) : (j \in DOMAIN Queue /\ Append(Queue, Latest(t))[j] = Queue[j]) \/ Append(Queue, Latest(t))[j] = Latest(t)
      BY <2>2, <2>5
    <3> QED
      BY <2>1, <2>5, <3>1 DEF NotQueued
  <2>7. \A u \in Threads : call'[u] \in {"inline", "push"} => call'[u] = call[u] /\ u # t
    BY <1>a, <2>3
  <2>8. InlineFirst'
    BY <1>b, <2>1, <2>3, <2>6, <2>7 DEF InlineFirst, Callers
  <2> QED
    BY <2>4, <2>8 DEF OrderInv
<1>11. CASE Finished \/ UNCHANGED vars
  BY <1>1, <1>11 DEF Finished, vars, Unseen, Queue
<1> QED
  BY <1>2, <1>3, <1>4, <1>5, <1>6, <1>7, <1>8, <1>9, <1>10, <1>11 DEF Next, LoopStep, CallStep

LEMMA OrderInvInit == Init => OrderInv
<1> SUFFICES ASSUME Init PROVE OrderInv
  OBVIOUS
<1>1. Queue = <<>> /\ ran = <<>> /\ \A t \in Threads : call[t] = "idle"
  BY DEF Init, Queue
<1> QED
  BY <1>1 DEF OrderInv, Orders, InOrder, InlineFirst, NotQueued, Callers

\* The tasks of one thread run in the order in which it called runInLoop(), although some are queued
\* and some run at once on the calling thread.
THEOREM TasksRunInOrder == Spec => []SubmissionOrder
<1>1. OrderInv => SubmissionOrder
  BY DEF OrderInv, Orders, InOrder, SubmissionOrder
<1> QED
  BY <1>1, TypeInvInit, TypeInvStep, FreshInvInit, FreshInvStep, OrderInvInit, OrderInvStep, PTL DEF Spec
=============================================================================
