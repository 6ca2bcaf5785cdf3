----------------------------- MODULE ThreadPool -----------------------------
(***************************************************************************)
(* The thread pool of Reactor_v4 (ThreadPool.cc) and its bounded queue     *)
(* (TaskQueue.cc): workers that take tasks, callers of addTask(), and the  *)
(* main thread, which starts and stops the pool and adds tasks too.        *)
(*                                                                         *)
(* What is done under m_mtx is one step, with one exception: a worker      *)
(* keeps the mutex from the test of its waiting condition to the wait,     *)
(* while wakeup() needs no mutex to change what was tested.  m_flag and    *)
(* m_isExit are plain variables: a reader finds the old or the new value.  *)
(* What a task does is left out; it returns.                               *)
(***************************************************************************)
EXTENDS Integers, Sequences, FiniteSets

CONSTANTS
    Workers,    \* the pool's threads
    Callers,    \* the threads that call addTask()
    Main,       \* the one of them that calls start() and stop()
    Capacity,   \* m_capacity
    MaxAdds     \* BOUND: how many tasks each caller adds

ASSUME WorkersAssumption == IsFiniteSet(Workers)
ASSUME CallersAssumption == IsFiniteSet(Callers) /\ Main \in Callers
ASSUME CapacityAssumption == Capacity \in Nat
ASSUME MaxAddsAssumption == MaxAdds \in [Callers -> Nat]

VARIABLES
    que,        \* m_que
    flag,       \* m_flag
    isExit,     \* m_isExit
    worker,     \* where each worker is in doTask()
    running,    \* the task that a worker has taken
    caller,     \* where each caller is in addTask(), start() or stop()
    added,      \* history: calls of addTask() begun by each caller
    ran         \* history: the tasks that have run

vars == <<que, flag, isExit, worker, running, caller, added, ran>>

\* The n-th task that a caller adds.
Tasks == UNION {{c} \X (1 .. MaxAdds[c]) : c \in Callers}

Latest(c) == <<c, added[c]>>

WorkerPoints == {"unstarted", "loop", "pop", "tested", "asleep", "running", "exited"}
CallerPoints == {"idle", "push", "asleep", "starting", "drain", "exit", "flag", "notify", "join",
                 "stopped"}
WorkersAt(point) == {w \in Workers : worker[w] = point}
CallersAt(point) == {c \in Callers : caller[c] = point}

TypeOK ==
    /\ que \in Seq(Tasks) /\ Len(que) <= Capacity
    /\ flag \in BOOLEAN /\ isExit \in BOOLEAN
    /\ worker \in [Workers -> WorkerPoints]
    /\ DOMAIN running = WorkersAt("running") /\ \A w \in DOMAIN running : running[w] \in Tasks
    /\ caller \in [Callers -> CallerPoints]
    /\ added \in [Callers -> Nat]
    /\ ran \subseteq Tasks
-----------------------------------------------------------------------------
Init ==
    /\ que = <<>>
    /\ flag = TRUE
    /\ isExit = FALSE
    /\ worker = [w \in Workers |-> "unstarted"]
    /\ running = <<>>
    /\ caller = [c \in Callers |-> IF c = Main THEN "starting" ELSE "idle"]
    /\ added = [c \in Callers |-> 0]
    /\ ran = {}

WorkerTo(w, point) == worker' = [worker EXCEPT ![w] = point]
CallerTo(c, point) == caller' = [caller EXCEPT ![c] = point]

\* A worker that has tested and not yet waited holds m_mtx.
MutexFree == WorkersAt("tested") = {}

\* MUTANT of NotifyNotEmpty: forgotten.
NotifyNobody == worker' = worker

\* m_notEmpty.notify_one(): some sleeper goes for the mutex, if there is one.
NotifyNotEmpty ==
    IF WorkersAt("asleep") = {}
    THEN worker' = worker
    ELSE \E w \in WorkersAt("asleep") : WorkerTo(w, "pop")

\* MUTANT of NotifyNotFull: a caller is woken only when the queue was full.
NotifyFirstFree ==
    IF CallersAt("asleep") = {} \/ Len(que) # Capacity
    THEN caller' = caller
    ELSE \E c \in CallersAt("asleep") : CallerTo(c, "push")

\* m_notFull.notify_one()
NotifyNotFull ==
    IF CallersAt("asleep") = {}
    THEN caller' = caller
    ELSE \E c \in CallersAt("asleep") : CallerTo(c, "push")
-----------------------------------------------------------------------------
(* Workers: doTask() and pop().                                            *)

TestExit(w) ==
    /\ worker[w] = "loop"
    /\ WorkerTo(w, IF isExit THEN "exited" ELSE "pop")
    /\ UNCHANGED <<que, flag, isExit, running, caller, added, ran>>

\* The queue is empty and m_flag is still set: the worker is going to wait.
FindEmpty(w) ==
    /\ worker[w] = "pop" /\ MutexFree
    /\ que = <<>> /\ flag
    /\ WorkerTo(w, "tested")
    /\ UNCHANGED <<que, flag, isExit, running, caller, added, ran>>

\* m_notEmpty.wait(), which gives the mutex back.
WaitNotEmpty(w) ==
    /\ worker[w] = "tested"
    /\ WorkerTo(w, "asleep")
    /\ UNCHANGED <<que, flag, isExit, running, caller, added, ran>>

\* MUTANT of TakeTask: the task is read (front()) and stays in the queue.
TakeTaskKeeps(w) ==
    /\ worker[w] = "pop" /\ MutexFree
    /\ que # <<>> /\ flag
    /\ running' = [v \in DOMAIN running \cup {w} |-> IF v = w THEN Head(que) ELSE running[v]]
    /\ WorkerTo(w, "running")
    /\ NotifyNotFull
    /\ UNCHANGED <<que, flag, isExit, added, ran>>

TakeTask(w) ==
    /\ worker[w] = "pop" /\ MutexFree
    /\ que # <<>> /\ flag
    /\ que' = Tail(que)
    /\ running' = [v \in DOMAIN running \cup {w} |-> IF v = w THEN Head(que) ELSE running[v]]
    /\ WorkerTo(w, "running")
    /\ NotifyNotFull
    /\ UNCHANGED <<flag, isExit, added, ran>>

\* m_flag is gone: pop() returns an empty function, whatever the queue holds.
TakeNothing(w) ==
    /\ worker[w] = "pop" /\ MutexFree
    /\ ~flag
    /\ WorkerTo(w, "loop")
    /\ UNCHANGED <<que, flag, isExit, running, caller, added, ran>>

RunTask(w) ==
    /\ worker[w] = "running"
    /\ ran' = ran \cup {running[w]}
    /\ running' = [v \in DOMAIN running \ {w} |-> running[v]]
    /\ WorkerTo(w, "loop")
    /\ UNCHANGED <<que, flag, isExit, caller, added>>

WorkerStep(w) ==
    \/ TestExit(w)
    \/ FindEmpty(w) \/ WaitNotEmpty(w)
    \/ TakeTask(w) \/ TakeNothing(w)
    \/ RunTask(w)
-----------------------------------------------------------------------------
(* Callers: addTask() and push().                                          *)

AddTask(c) ==
    /\ caller[c] = "idle"
    /\ added[c] < MaxAdds[c]
    /\ added' = [added EXCEPT ![c] = @ + 1]
    /\ CallerTo(c, "push")
    /\ UNCHANGED <<que, flag, isExit, worker, running, ran>>

\* m_notFull.wait()
WaitNotFull(c) ==
    /\ caller[c] = "push" /\ MutexFree
    /\ Len(que) = Capacity
    /\ CallerTo(c, "asleep")
    /\ UNCHANGED <<que, flag, isExit, worker, running, added, ran>>

\* MUTANT of Push: a worker is woken only when the queue was empty.
PushNotifiesFirst(c) ==
    /\ caller[c] = "push" /\ MutexFree
    /\ Len(que) # Capacity
    /\ que' = Append(que, Latest(c))
    /\ CallerTo(c, "idle")
    /\ IF que = <<>> THEN NotifyNotEmpty ELSE worker' = worker
    /\ UNCHANGED <<flag, isExit, running, added, ran>>

\* MUTANT of Push: a woken caller does not look again whether there is room.
PushUntested(c) ==
    /\ caller[c] = "push" /\ MutexFree
    /\ que' = Append(que, Latest(c))
    /\ CallerTo(c, "idle")
    /\ NotifyNotEmpty
    /\ UNCHANGED <<flag, isExit, running, added, ran>>

Push(c) ==
    /\ caller[c] = "push" /\ MutexFree
    /\ Len(que) # Capacity
    /\ que' = Append(que, Latest(c))
    /\ CallerTo(c, "idle")
    /\ NotifyNotEmpty
    /\ UNCHANGED <<flag, isExit, running, added, ran>>
-----------------------------------------------------------------------------
(* The main thread: start() and stop().                                    *)

StartWorker(w) ==
    /\ caller[Main] = "starting"
    /\ worker[w] = "unstarted"
    /\ WorkerTo(w, "loop")
    /\ UNCHANGED <<que, flag, isExit, running, caller, added, ran>>

StartReturns ==
    /\ caller[Main] = "starting"
    /\ WorkersAt("unstarted") = {}
    /\ CallerTo(Main, "idle")
    /\ UNCHANGED <<que, flag, isExit, worker, running, added, ran>>

Stop ==
    /\ caller[Main] = "idle"
    /\ CallerTo(Main, "drain")
    /\ UNCHANGED <<que, flag, isExit, worker, running, added, ran>>

\* MUTANT of SeeEmpty: stop() does not wait for the queue.
SeeAnything ==
    /\ caller[Main] = "drain"
    /\ CallerTo(Main, "exit")
    /\ UNCHANGED <<que, flag, isExit, worker, running, added, ran>>

\* The loop that sleeps until the queue is empty ends.
SeeEmpty ==
    /\ caller[Main] = "drain"
    /\ que = <<>>
    /\ CallerTo(Main, "exit")
    /\ UNCHANGED <<que, flag, isExit, worker, running, added, ran>>

SetExit ==
    /\ caller[Main] = "exit"
    /\ isExit' = TRUE
    /\ CallerTo(Main, "flag")
    /\ UNCHANGED <<que, flag, worker, running, added, ran>>

\* wakeup(), first half: without m_mtx.
ClearFlag ==
    /\ caller[Main] = "flag"
    /\ flag' = FALSE
    /\ CallerTo(Main, "notify")
    /\ UNCHANGED <<que, isExit, worker, running, added, ran>>

\* wakeup(), second half: m_notEmpty.notify_all().
NotifyAll ==
    /\ caller[Main] = "notify"
    /\ worker' = [w \in Workers |-> IF worker[w] = "asleep" THEN "pop" ELSE worker[w]]
    /\ CallerTo(Main, "join")
    /\ UNCHANGED <<que, flag, isExit, running, added, ran>>

Join ==
    /\ caller[Main] = "join"
    /\ \A w \in Workers : worker[w] = "exited"
    /\ CallerTo(Main, "stopped")
    /\ UNCHANGED <<que, flag, isExit, worker, running, added, ran>>

StopStep == SeeEmpty \/ SetExit \/ ClearFlag \/ NotifyAll \/ Join

StartStep == StartReturns \/ \E w \in Workers : StartWorker(w)
-----------------------------------------------------------------------------
(* A condition variable may wake its waiters for no reason.                *)

WakeWorker(w) ==
    /\ worker[w] = "asleep"
    /\ WorkerTo(w, "pop")
    /\ UNCHANGED <<que, flag, isExit, running, caller, added, ran>>

WakeCaller(c) ==
    /\ caller[c] = "asleep"
    /\ CallerTo(c, "push")
    /\ UNCHANGED <<que, flag, isExit, worker, running, added, ran>>

Spurious == (\E w \in Workers : WakeWorker(w)) \/ (\E c \in Callers : WakeCaller(c))
-----------------------------------------------------------------------------
Next ==
    \/ \E w \in Workers : WorkerStep(w)
    \/ \E c \in Callers : AddTask(c) \/ WaitNotFull(c) \/ Push(c)
    \/ Stop \/ StopStep \/ StartStep
    \/ Spurious

Spec == Init /\ [][Next]_vars

\* Threads are scheduled; nobody has to call addTask() or stop(), and no wakeup comes for no reason.
Fairness ==
    /\ \A w \in Workers : WF_vars(WorkerStep(w))
    /\ \A c \in Callers : WF_vars(WaitNotFull(c) \/ Push(c))
    /\ WF_vars(StartStep) /\ WF_vars(StopStep)

FairSpec == Spec /\ Fairness
-----------------------------------------------------------------------------
(* What the pool promises.                                                 *)

Pool == INSTANCE TaskPool WITH
    waiting <- que,
    inHand <- {running[w] : w \in DOMAIN running},
    done <- ran

\* push() and pop(), with their mutex and their two condition variables, are a bounded queue: no task
\* enters it twice or when it is full, none is taken out of turn, left out or given to two workers.
ImplementsTaskPool == Pool!Spec

\* While a worker sleeps, there is another one on its way to pop() for each task in the queue: no
\* notify_one() of push() is missing or wasted, whatever woke the worker that it would have been for.
EnoughAwake ==
    flag /\ WorkersAt("asleep") # {} => Cardinality(WorkersAt("pop")) >= Len(que)

\* While a caller sleeps in push(), another one is on its way to push() for each free place.
EnoughCallers ==
    CallersAt("asleep") # {} => Cardinality(CallersAt("push")) >= Capacity - Len(que)

\* stop() waits for the work that was handed over before it: when it returns, every task that its
\* own thread has added has run.
StopperTasksRun ==
    caller[Main] = "stopped" => {Main} \X (1 .. added[Main]) \subseteq ran

\* A queued task runs, as long as the pool is not told to exit.
QueuedTaskRuns ==
    \A t \in Tasks : (\E i \in DOMAIN que : que[i] = t) ~> (t \in ran \/ isExit)

\* stop() wakes all blocked threads first (ThreadPool.cc:60), so that it can wait for them: it returns.
StopReturns == (caller[Main] = "drain") ~> (caller[Main] = "stopped")
=============================================================================
