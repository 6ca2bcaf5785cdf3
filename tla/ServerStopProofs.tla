--------------------------- MODULE ServerStopProofs --------------------------
(***************************************************************************)
(* Theorems about ServerStop, for every number of workers, connections and *)
(* signals, and for handlers on any thread.                                *)
(***************************************************************************)
EXTENDS ServerStop, FiniteSetTheorems, SequenceTheorems, TLAPS

\* Where main() is: before it makes threads, making them, past it, in the main loop, or at the end.  A
\* removal is in the loop, or in the destructor, where forceClose() has called it (back).
Before == {"created", "assign", "config", "start", "create", "bind", "bound", "listen", "listening"}
Making == {"spawn", "pushLoop", "pushThread"}
Made == {"started", "reset"}
Looping ==
    {"publish", "looping", "test", "poll", "wait", "dispatch", "insert", "establish", "established", "new",
     "closed", "remove", "erase", "relock", "destroy", "removed", "swap", "run"}
AtEnd ==
    {"failed", "loopStopped", "complete", "stop", "stopping", "stopMain", "stopLoops", "beginJoin", "join",
     "lockConns", "forceClose", "forced", "stopped", "leave", "destroyed", "exited", "aborted"}

Removing == {"forced", "closed", "remove", "erase", "relock", "destroy", "removed"}
Ending == at[Main] \in AtEnd \/ back[Main] = "forceClose"
InMainLoop == at[Main] \in Looping /\ back[Main] # "forceClose"

\* Where a worker is.
OfWorker ==
    {"none", "threadStarted", "reset", "publish", "looping", "test", "poll", "wait", "dispatch", "swap", "run",
     "established", "new", "closed", "remove", "erase", "relock", "removed", "loopStopped", "threadStopped", "ended"}

Backs == {"dispatch", "run", "new", "forceClose"}

\* Each frame is in its own code, and the handlers of signals that have not come are off.
Placed ==
    /\ at \in [Frames -> Points] /\ back \in [Frames -> Backs]
    /\ on \in [Handlers -> Threads] /\ signals \in 0 .. MaxSignals
    /\ quit \in [Loops -> BOOLEAN]
    /\ at[Main] \in Before \cup Making \cup Made \cup Looping \cup AtEnd
    /\ back[Main] = "forceClose" => at[Main] \in Removing
    /\ \A w \in Workers : at[w] \in OfWorker /\ back[w] \in {"dispatch", "run"}
    /\ \A f \in Frames : at[f] = "forced" => back[f] = "forceClose"
    /\ \A h \in Handlers : -h > signals => at[h] = "off" /\ on[h] = Main

\* The threads of start(): how many main() has made, and that no others run.
ThreadsMade ==
    /\ threadNum \in Nat /\ nLoops \in Nat /\ nThreads \in Nat
    /\ at[Main] \in Before => nLoops = 0
    /\ nLoops = IF at[Main] = "pushThread" THEN nThreads + 1 ELSE nThreads
    /\ at[Main] \in Making => nThreads < threadNum
    /\ at[Main] \in Made \/ InMainLoop => nThreads = threadNum
    /\ \A w \in Workers : at[w] # "none" => w <= nLoops \/ (at[Main] = "pushLoop" /\ w = nLoops + 1)

AllOver == \A w \in Workers : at[w] \in {"none", "ended"}

\* Handler h has yet to join the threads, and all of them, or it will never be done.
Joins(h) ==
    \/ at[h] \in {"stopLoops", "beginJoin", "aborted"}
    \/ at[h] = "join" /\ joining = 1 .. nThreads

\* main() gets to its end when start() has failed, before the first thread; or when it sees quit_, which a
\* stop() has set that joins the threads before it returns: to main(), or else to a worker, which it
\* cannot.
Joined ==
    /\ Ending => AllOver \/ \E h \in Handlers : on[h] # Main /\ Joins(h)
    /\ InMainLoop /\ quit[Main] => AllOver \/ \E h \in Handlers : Joins(h)

ExitInv == Placed /\ ThreadsMade /\ Joined
-----------------------------------------------------------------------------
LEMMA FramesAre ==
    /\ Main = 0 /\ MainLoop = 0 /\ Loops = Threads /\ Main \in Threads /\ Main \in Frames
    /\ \A w \in Workers : w \in Nat /\ w > 0 /\ w \in Threads /\ w \in Frames /\ w # Main /\ w \notin Handlers
    /\ \A h \in Handlers : h \in Int /\ h < 0 /\ h \in Frames /\ h \notin Threads /\ h # Main
    /\ \A f \in Frames : f = Main \/ f \in Workers \/ f \in Handlers
    /\ \A t \in Threads : t = Main \/ t \in Workers
    /\ MaxSignals \in Nat
<1>1. \A w \in Workers : w \in Nat /\ w > 0
  BY ThreadNumsAssumption DEF Workers
<1>2. MaxSignals \in Nat
  BY BoundsAssumption
<1>3. \A h \in Handlers : h \in Int /\ h < 0
  BY <1>2 DEF Handlers
<1> QED
  BY <1>1, <1>2, <1>3 DEF Main, MainLoop, Loops, Threads, Frames

\* Where a line that is logged leads.
LEMMA LogGoes ==
    ASSUME NEW f, NEW p \in LogPoints
    PROVE  /\ p = "created" => AfterLog(f)[p] = "assign"
           /\ p = "config" => AfterLog(f)[p] = "start"
           /\ p \in {"failed"} => AfterLog(f)[p] = "complete"
           /\ p = "bound" => AfterLog(f)[p] = "listen"
           /\ p = "listening" => AfterLog(f)[p] = IF threadNum = 0 THEN "started" ELSE "spawn"
           /\ p \in {"started", "threadStarted"} => AfterLog(f)[p] = "reset"
           /\ p = "looping" => AfterLog(f)[p] = "test"
           /\ p = "loopStopped" => AfterLog(f)[p] = IF f = Main THEN "complete" ELSE "threadStopped"
           /\ p = "threadStopped" => AfterLog(f)[p] = "ended"
           /\ p \in {"established", "removed"} => AfterLog(f)[p] = back[f]
           /\ p = "new" => AfterLog(f)[p] = "dispatch"
           /\ p = "closed" => AfterLog(f)[p] = "remove"
           /\ p = "complete" => AfterLog(f)[p] = "stop"
           /\ p = "destroyed" => AfterLog(f)[p] = "exited"
           /\ p = "received" => AfterLog(f)[p] = "handler"
           /\ p = "stopping" => AfterLog(f)[p] = "stopMain"
           /\ p = "stopped" => AfterLog(f)[p] = "leave"
BY DEF AfterLog

LEMMA LogPointsAre ==
    \A p \in LogPoints : p \in {"created", "config", "failed", "bound", "listening", "started", "threadStarted",
        "looping", "loopStopped", "threadStopped", "established", "new", "closed", "removed", "complete",
        "destroyed", "received", "stopping", "stopped"}
BY DEF LogPoints

LEMMA ExitInit == Init => ExitInv
<1> SUFFICES ASSUME Init PROVE ExitInv
  OBVIOUS
<1>1. at[Main] = "created" /\ (\A w \in Workers : at[w] = "none") /\ \A h \in Handlers : at[h] = "off"
  BY FramesAre DEF Init
<1>2. at \in [Frames -> Points] /\ \A f \in Frames : at[f] # "forced"
  BY DEF Init, Points, LogPoints
<1>3. back \in [Frames -> Backs] /\ \A f \in Frames : back[f] = "run"
  BY DEF Init, Backs
<1>4. quit \in [Loops -> BOOLEAN] /\ threadNum \in Nat /\ on \in [Handlers -> Threads] /\ signals \in 0 .. MaxSignals
      /\ \A h \in Handlers : on[h] = Main
  BY FramesAre, ThreadNumsAssumption DEF Init
<1>5. Placed
  BY <1>1, <1>2, <1>3, <1>4, FramesAre DEF Placed, Before, OfWorker
<1>6. ThreadsMade /\ Joined
  BY <1>1, <1>3, <1>4, FramesAre DEF Init, ThreadsMade, Joined, Ending, InMainLoop, Before, Making, Made, Looping, AtEnd
<1> QED
  BY <1>5, <1>6 DEF ExitInv
-----------------------------------------------------------------------------
\* What a step may do to joining: stop() takes the threads that are there, or has seen them end.
JoiningGoes ==
    \/ joining' = joining
    \/ joining' = 1 .. nThreads
    \/ \A w \in joining : at[w] = "ended"

LEMMA JoinEndsAll ==
    ASSUME ExitInv, at[Main] \notin Making, joining = 1 .. nThreads, \A w \in joining : at[w] = "ended"
    PROVE  AllOver
<1>1. \A w \in Workers : at[w] # "none" => w \in 1 .. nThreads
  BY FramesAre DEF ExitInv, ThreadsMade, Making
<1> QED
  BY <1>1 DEF AllOver

LEMMA JoinsKept ==
    ASSUME ExitInv, at[Main] \notin Making, nThreads' = nThreads, JoiningGoes,
           NEW h \in Handlers, Joins(h), at'[h] = at[h]
    PROVE  Joins(h)' \/ AllOver
<1>1. CASE at[h] # "join"
  BY <1>1 DEF Joins
<1>2. CASE at[h] = "join" /\ (joining' = joining \/ joining' = 1 .. nThreads)
  BY <1>2 DEF Joins
<1>3. CASE at[h] = "join" /\ \A w \in joining : at[w] = "ended"
  BY <1>3, JoinEndsAll DEF Joins
<1> QED
  BY <1>1, <1>2, <1>3 DEF JoiningGoes

\* Steps that change nothing of this.
LEMMA NothingMoves ==
    ASSUME ExitInv, UNCHANGED <<threadNum, nLoops, nThreads, at, back, on, signals, quit, joining>>
    PROVE  ExitInv'
BY DEF ExitInv, Placed, ThreadsMade, Joined, AllOver, Joins, Ending, InMainLoop

\* Main moves within a part of its code.
LEMMA MainMoves ==
    ASSUME ExitInv, NEW p, NEW b \in Backs,
           at' = [at EXCEPT ![Main] = p], back' = [back EXCEPT ![Main] = b],
           b = "forceClose" => p \in Removing, p = "forced" => b = "forceClose",
           \/ at[Main] \in Before /\ p \in Before
           \/ InMainLoop /\ p \in Looping /\ b # "forceClose"
           \/ Ending /\ (p \in AtEnd \/ b = "forceClose"),
           quit' \in [Loops -> BOOLEAN], quit'[Main] = quit[Main] \/ Ending,
           JoiningGoes,
           UNCHANGED <<threadNum, nLoops, nThreads, on, signals>>
    PROVE  ExitInv'
<1>0. Placed /\ ThreadsMade /\ Joined
  BY DEF ExitInv
<1>1. /\ at'[Main] = p /\ back'[Main] = b
      /\ \A f \in Frames : f # Main => at'[f] = at[f] /\ back'[f] = back[f]
  BY <1>0, FramesAre DEF Placed
<1>2. p \in Before \cup Looping \cup AtEnd /\ p \in Points
  BY DEF Before, Looping, AtEnd, Removing, Points, LogPoints
<1>3. Placed'
  BY <1>0, <1>1, <1>2, FramesAre DEF Placed
<1>4. ThreadsMade'
  <2>0. Removing \subseteq Looping \cup AtEnd
    BY DEF Removing, Looping, AtEnd
  <2>1. \/ at[Main] \in Before /\ p \in Before
        \/ at[Main] \in Looping \cup AtEnd /\ p \in Looping \cup AtEnd
    <3>1. CASE Ending /\ (p \in AtEnd \/ b = "forceClose")
      <4>1. at[Main] \in Looping \cup AtEnd
        BY <1>0, <2>0, <3>1 DEF Ending, Placed
      <4>2. p \in Looping \cup AtEnd
        BY <2>0, <3>1
      <4> QED
        BY <4>1, <4>2
    <3>2. CASE InMainLoop /\ p \in Looping
      BY <3>2 DEF InMainLoop
    <3> QED
      BY <3>1, <3>2
  <2>2. at[Main] \notin Making /\ p \notin Making /\ at[Main] # "pushThread" /\ p # "pushThread" /\ p # "pushLoop" /\ at[Main] # "pushLoop"
    BY <2>1 DEF Making, Before, Looping, AtEnd
  <2>3. p \in Before => at[Main] \in Before
    BY <2>1 DEF Before, Looping, AtEnd
  <2>4. p \notin Made /\ (InMainLoop' => InMainLoop)
    BY <1>1, <2>1 DEF Before, Looping, AtEnd, Made, InMainLoop, Ending
  <2> QED
    BY <1>0, <1>1, <2>2, <2>3, <2>4, FramesAre DEF ThreadsMade
<1>5. Joined'
  <2>1. at[Main] \notin Making
    BY <1>0 DEF Placed, InMainLoop, Ending, Removing, Before, Looping, AtEnd, Making
  <2>2. AllOver => AllOver'
    BY <1>1, FramesAre DEF AllOver
  <2>3. \A h \in Handlers : Joins(h) => Joins(h)' \/ AllOver
    BY <1>1, <2>1, FramesAre, JoinsKept
  <2>4. Ending' => Ending
    BY <1>1 DEF Ending, InMainLoop, Before, Looping, AtEnd, Removing
  <2>5. InMainLoop' => InMainLoop /\ ~Ending
    BY <1>1 DEF Ending, InMainLoop, Before, Looping, AtEnd, Removing
  <2> QED
    BY <1>0, <2>2, <2>3, <2>4, <2>5 DEF Joined
<1> QED
  BY <1>3, <1>4, <1>5 DEF ExitInv

\* A worker that has not been made stays so, and one that has ended too.
LEMMA WorkerMoves ==
    ASSUME ExitInv, NEW w \in Workers, NEW p \in OfWorker \ {"none"}, NEW b \in {"dispatch", "run"},
           at[w] \notin {"none", "ended"},
           at' = [at EXCEPT ![w] = p], back' = [back EXCEPT ![w] = b],
           quit' \in [Loops -> BOOLEAN], quit'[Main] = quit[Main],
           UNCHANGED <<threadNum, nLoops, nThreads, on, signals, joining>>
    PROVE  ExitInv'
<1>0. Placed /\ ThreadsMade /\ Joined
  BY DEF ExitInv
<1>1. /\ at'[w] = p /\ back'[w] = b
      /\ \A f \in Frames : f # w => at'[f] = at[f] /\ back'[f] = back[f]
      /\ at'[Main] = at[Main] /\ back'[Main] = back[Main]
  BY <1>0, FramesAre DEF Placed
<1>2. p \in Points /\ p # "forced" /\ b \in Backs
  BY DEF OfWorker, Points, LogPoints, Backs
<1>3. Placed'
  BY <1>0, <1>1, <1>2, FramesAre DEF Placed
<1>4. ThreadsMade'
  BY <1>0, <1>1, FramesAre DEF ThreadsMade, InMainLoop
<1>5. Joined'
  <2>1. ~AllOver
    BY DEF AllOver
  <2>2. \A h \in Handlers : Joins(h) => Joins(h)'
    BY <1>1, FramesAre DEF Joins
  <2> QED
    BY <1>0, <1>1, <2>1, <2>2 DEF Joined, Ending, InMainLoop
<1> QED
  BY <1>3, <1>4, <1>5 DEF ExitInv

\* A handler goes on: stop() leaves join() when the threads have ended.
LEMMA HandlerMoves ==
    ASSUME ExitInv, NEW h \in Handlers, NEW p \in Points, NEW b \in Backs,
           at' = [at EXCEPT ![h] = p], back' = [back EXCEPT ![h] = b],
           p = "forced" => b = "forceClose", at[h] # "off",
           quit' \in [Loops -> BOOLEAN], quit'[Main] = quit[Main] \/ p = "stopLoops",
           JoiningGoes,
           at[h] \in {"stopLoops", "beginJoin", "join", "aborted"} =>
               \/ p \in {"beginJoin", "aborted"}
               \/ p = "join" /\ joining' = 1 .. nThreads
               \/ at[h] = "join" /\ \A w \in joining : at[w] = "ended",
           UNCHANGED <<threadNum, nLoops, nThreads, on, signals>>
    PROVE  ExitInv'
<1>0. Placed /\ ThreadsMade /\ Joined
  BY DEF ExitInv
<1>1. /\ at'[h] = p /\ back'[h] = b
      /\ \A f \in Frames : f # h => at'[f] = at[f] /\ back'[f] = back[f]
      /\ at'[Main] = at[Main] /\ back'[Main] = back[Main]
  BY <1>0, FramesAre DEF Placed
<1>2. Placed'
  <2>1. at' \in [Frames -> Points] /\ back' \in [Frames -> Backs]
    BY <1>0, FramesAre DEF Placed
  <2>2. \A w \in Workers : at'[w] = at[w] /\ back'[w] = back[w]
    BY <1>1, FramesAre
  <2>3. \A g \in Handlers : -g > signals => at'[g] = "off"
    BY <1>0, <1>1, FramesAre DEF Placed
  <2>4. \A f \in Frames : at'[f] = "forced" => back'[f] = "forceClose"
    BY <1>0, <1>1 DEF Placed
  <2> QED
    BY <1>0, <1>1, <2>1, <2>2, <2>3, <2>4 DEF Placed
<1>3. ThreadsMade'
  BY <1>0, <1>1, FramesAre DEF ThreadsMade, InMainLoop
<1>4. ASSUME at[Main] \notin Making PROVE Joined'
  <2>1. AllOver => AllOver'
    BY <1>1, FramesAre DEF AllOver
  <2>2. Joins(h) => Joins(h)' \/ AllOver
    <3>1. CASE at[h] = "join" /\ \A w \in joining : at[w] = "ended"
      BY <1>4, <3>1, JoinEndsAll DEF Joins
    <3> QED
      BY <1>1, <3>1 DEF Joins
  <2>3. \A g \in Handlers : Joins(g) => Joins(g)' \/ AllOver
    BY <1>1, <1>4, <2>2, FramesAre, JoinsKept
  <2>4. p = "stopLoops" => Joins(h)'
    BY <1>1 DEF Joins
  <2>5. (Ending' <=> Ending) /\ (InMainLoop' <=> InMainLoop)
    BY <1>1 DEF Ending, InMainLoop
  <2> QED
    BY <1>0, <2>1, <2>3, <2>4, <2>5 DEF Joined
<1>5. ASSUME at[Main] \in Making PROVE Joined'
  <2>1. at'[Main] \notin AtEnd \cup Looping /\ back'[Main] # "forceClose"
    BY <1>0, <1>1, <1>5 DEF Placed, Making, AtEnd, Looping, Removing
  <2> QED
    BY <2>1 DEF Joined, Ending, InMainLoop
<1> QED
  BY <1>2, <1>3, <1>4, <1>5 DEF ExitInv
-----------------------------------------------------------------------------
\* Where the steps of stop() are, and of the handler and the destructor that call it.
Stopping ==
    {"handler", "stop", "stopMain", "stopLoops", "beginJoin", "join", "lockConns", "forceClose", "forced", "leave"}

\* The steps of stop(), and what it is called from, of a frame: where they lead.
LEMMA StopGoes ==
    ASSUME ExitInv, NEW f \in Frames, StopStep(f)
    PROVE  \E p \in Points, b \in Backs :
             /\ at' = [at EXCEPT ![f] = p] /\ back' = [back EXCEPT ![f] = b]
             /\ at[f] \in Stopping
             /\ p \in AtEnd \/ (p = "closed" /\ b = "forceClose") \/ (p = "off" /\ f \in Handlers)
             /\ b = "forceClose" => p \in Removing \/ (b = back[f] /\ at[f] # "forced")
             /\ p = "forced" => b = "forceClose"
             /\ quit' \in [Loops -> BOOLEAN]
             /\ quit'[Main] = quit[Main] \/ p = "stopLoops"
             /\ at[f] \in {"stopLoops", "beginJoin", "join", "aborted"} =>
                    \/ p \in {"beginJoin", "aborted"}
                    \/ p = "join" /\ joining' = 1 .. nThreads
                    \/ at[f] = "join" /\ \A w \in joining : at[w] = "ended"
             /\ JoiningGoes
             /\ UNCHANGED <<threadNum, nLoops, nThreads, on, signals>>
<1> DEFINE Goes(p, b) ==
             /\ at' = [at EXCEPT ![f] = p] /\ back' = [back EXCEPT ![f] = b]
             /\ at[f] \in Stopping
             /\ p \in AtEnd \/ (p = "closed" /\ b = "forceClose") \/ (p = "off" /\ f \in Handlers)
             /\ b = "forceClose" => p \in Removing \/ (b = back[f] /\ at[f] # "forced")
             /\ p = "forced" => b = "forceClose"
             /\ quit' \in [Loops -> BOOLEAN]
             /\ quit'[Main] = quit[Main] \/ p = "stopLoops"
             /\ at[f] \in {"stopLoops", "beginJoin", "join", "aborted"} =>
                    \/ p \in {"beginJoin", "aborted"}
                    \/ p = "join" /\ joining' = 1 .. nThreads
                    \/ at[f] = "join" /\ \A w \in joining : at[w] = "ended"
             /\ JoiningGoes
             /\ UNCHANGED <<threadNum, nLoops, nThreads, on, signals>>
<1>0. /\ at \in [Frames -> Points] /\ back \in [Frames -> Backs] /\ quit \in [Loops -> BOOLEAN]
      /\ back = [back EXCEPT ![f] = back[f]] /\ at = [at EXCEPT ![f] = at[f]]
      /\ back[f] \in Backs /\ quit[Main] \in BOOLEAN
      /\ at[f] = "forced" => back[f] = "forceClose"
  BY FramesAre DEF ExitInv, Placed
<1>1. {"stop", "leave", "stopping", "stopMain", "stopLoops", "beginJoin", "join", "lockConns", "aborted", "forceClose",
       "forced", "closed", "stopped", "destroyed", "off"} \subseteq Points /\ {"run", "forceClose"} \subseteq Backs
  BY DEF Points, LogPoints, Backs
<1> SUFFICES \E p \in Points, b \in Backs : Goes(p, b)
  BY Zenon
<1> USE DEF Stopping, AtEnd, Removing, JoiningGoes, Go, At, serverVars, signalVars, callVars, loopVars, stopVars
<1>2. CASE Handler(f)
  <2>1. Goes(at'[f], back[f])
    BY <1>0, <1>2 DEF Handler, Moves
  <2> QED
    BY <1>0, <1>1, <1>2, <2>1 DEF Handler, Moves
<1>3. CASE Stop(f)
  <2>1. Goes(at'[f], back[f])
    BY <1>0, <1>3 DEF Stop
  <2> QED
    BY <1>0, <1>1, <1>3, <2>1 DEF Stop
<1>4. CASE StopMain(f)
  <2>1. Goes("stopLoops", back[f])
    BY <1>0, <1>4 DEF StopMain
  <2> QED
    BY <1>0, <1>1, <2>1
<1>5. CASE StopLoops(f)
  <2>1. quit' \in [Loops -> BOOLEAN] /\ quit'[Main] = quit[Main]
    BY <1>0, <1>5, FramesAre DEF StopLoops
  <2>2. Goes("beginJoin", back[f])
    BY <1>0, <1>5, <2>1 DEF StopLoops
  <2> QED
    BY <1>0, <1>1, <2>2
<1>6. CASE BeginJoin(f)
  <2>1. Goes("join", back[f])
    BY <1>0, <1>6 DEF BeginJoin
  <2> QED
    BY <1>0, <1>1, <2>1
<1>7. CASE Join(f)
  <2>1. Goes("lockConns", back[f])
    BY <1>0, <1>7 DEF Join
  <2> QED
    BY <1>0, <1>1, <2>1
<1>8. CASE JoinSelf(f)
  <2>1. Goes("aborted", back[f])
    BY <1>0, <1>8 DEF JoinSelf, Moves
  <2> QED
    BY <1>0, <1>1, <2>1
<1>9. CASE CloseAll(f)
  <2>1. Goes("forceClose", back[f])
    BY <1>0, <1>9 DEF CloseAll
  <2> QED
    BY <1>0, <1>1, <2>1
<1>10. CASE ForceClose(f)
  <2>1. Goes("forced", "forceClose") \/ Goes("forceClose", back[f])
    BY <1>0, <1>10 DEF ForceClose, Takes
  <2> QED
    BY <1>0, <1>1, <2>1
<1>11. CASE Forced(f)
  <2>1. UNCHANGED quit
    BY <1>11 DEF Forced, Post
  <2>2. at[f] = "forced" /\ UNCHANGED <<threadNum, nLoops, nThreads, on, signals, joining>>
    BY <1>11 DEF Forced
  <2>3. \/ at' = [at EXCEPT ![f] = "closed"] /\ UNCHANGED back
        \/ at' = [at EXCEPT ![f] = "forceClose"] /\ back' = [back EXCEPT ![f] = "run"]
    BY <1>11 DEF Forced, Returns, Takes
  <2>4. Goes("closed", "forceClose") \/ Goes("forceClose", "run")
    BY <1>0, <2>1, <2>2, <2>3
  <2> QED
    BY <1>1, <2>4
<1>12. CASE Clear(f)
  <2>1. Goes("stopped", back[f])
    BY <1>0, <1>12 DEF Clear
  <2> QED
    BY <1>0, <1>1, <2>1
<1>13. CASE Leave(f)
  <2>1. Goes("off", back[f]) \/ Goes("destroyed", back[f])
    BY <1>0, <1>13 DEF Leave, Moves
  <2> QED
    BY <1>0, <1>1, <2>1
<1> QED
  BY <1>2, <1>3, <1>4, <1>5, <1>6, <1>7, <1>8, <1>9, <1>10, <1>11, <1>12, <1>13 DEF StopStep

LEMMA StopKeeps == ASSUME ExitInv, NEW f \in Frames, StopStep(f) PROVE ExitInv'
<1>1. PICK p \in Points, b \in Backs :
        /\ at' = [at EXCEPT ![f] = p] /\ back' = [back EXCEPT ![f] = b]
        /\ at[f] \in Stopping
        /\ p \in AtEnd \/ (p = "closed" /\ b = "forceClose") \/ (p = "off" /\ f \in Handlers)
        /\ b = "forceClose" => p \in Removing \/ (b = back[f] /\ at[f] # "forced")
        /\ p = "forced" => b = "forceClose"
        /\ quit' \in [Loops -> BOOLEAN]
        /\ quit'[Main] = quit[Main] \/ p = "stopLoops"
        /\ at[f] \in {"stopLoops", "beginJoin", "join", "aborted"} =>
               \/ p \in {"beginJoin", "aborted"}
               \/ p = "join" /\ joining' = 1 .. nThreads
               \/ at[f] = "join" /\ \A w \in joining : at[w] = "ended"
        /\ JoiningGoes
        /\ UNCHANGED <<threadNum, nLoops, nThreads, on, signals>>
  BY StopGoes
<1>2. CASE f \in Handlers
  <2>1. at[f] # "off"
    BY <1>1 DEF Stopping
  <2> QED
    BY <1>1, <1>2, <2>1, HandlerMoves
<1>3. CASE f = Main
  <2>1. at[Main] \in AtEnd /\ Ending
    BY <1>1, <1>3 DEF Stopping, Ending, ExitInv, Placed, Before, Making, Made, Looping, AtEnd
  <2>2. b = "forceClose" => p \in Removing
    BY <1>1, <1>3, <2>1 DEF ExitInv, Placed, Removing, AtEnd
  <2>3. p \in AtEnd \/ b = "forceClose"
    BY <1>1, <1>3, FramesAre
  <2> QED
    BY <1>1, <1>3, <2>1, <2>2, <2>3, MainMoves
<1>4. CASE f \in Workers
  BY <1>1, <1>4 DEF ExitInv, Placed, OfWorker, Stopping
<1> QED
  BY <1>2, <1>3, <1>4, FramesAre
-----------------------------------------------------------------------------
\* removeConnection() of a frame.
LEMMA RemoveKeeps == ASSUME ExitInv, NEW f \in Frames, Remove(f) PROVE ExitInv'
<1>0. Placed
  BY DEF ExitInv
<1>1. /\ at[f] = "remove"
      /\ UNCHANGED <<threadNum, nLoops, nThreads, on, signals, quit, joining>>
      /\ back = [back EXCEPT ![f] = back[f]] /\ back[f] \in Backs
      /\ JoiningGoes
  BY <1>0 DEF Remove, At, Go, Post, serverVars, signalVars, loopVars, stopVars, JoiningGoes, Placed
<1>2. \/ InLoop(f, MainLoop) /\ UNCHANGED back
         /\ (at' = [at EXCEPT ![f] = "relock"] \/ at' = [at EXCEPT ![f] = "erase"])
      \/ ~InLoop(f, MainLoop) /\ at' = [at EXCEPT ![f] = back[f]] /\ back' = [back EXCEPT ![f] = "run"]
  BY DEF Remove, Go, Returns, Takes, callVars
<1>3. {"erase", "relock"} \cup Backs \subseteq Points /\ "run" \in Backs
  BY DEF Points, LogPoints, Backs
<1>4. CASE f \in Handlers
  <2>1. at[f] # "off" /\ at[f] \notin {"stopLoops", "beginJoin", "join", "aborted"}
    BY <1>1
  <2>2. quit \in [Loops -> BOOLEAN] /\ back[f] # "forced"
    BY <1>0, <1>1 DEF Placed, Backs
  <2> QED
    BY <1>1, <1>2, <1>3, <1>4, <2>1, <2>2, HandlerMoves
<1>5. CASE f = Main
  <2>1. InLoop(f, MainLoop)
    BY <1>5, FramesAre DEF InLoop, LoopThread, ThreadOf
  <2>2. (InMainLoop /\ back[Main] # "forceClose") \/ (Ending /\ back[Main] = "forceClose")
    BY <1>1, <1>5 DEF InMainLoop, Ending, Looping
  <2>3. {"erase", "relock"} \subseteq Removing /\ {"erase", "relock"} \subseteq Looping
    BY DEF Removing, Looping
  <2>4. quit \in [Loops -> BOOLEAN]
    BY <1>0 DEF Placed
  <2> QED
    BY <1>1, <1>2, <1>5, <2>1, <2>2, <2>3, <2>4, MainMoves
<1>6. CASE f \in Workers
  <2>1. ~InLoop(f, MainLoop)
    BY <1>6, FramesAre DEF InLoop, LoopThread, ThreadOf
  <2>2. back[f] \in OfWorker \ {"none"}
    BY <1>0, <1>6 DEF Placed, OfWorker
  <2>3. quit \in [Loops -> BOOLEAN]
    BY <1>0 DEF Placed
  <2> QED
    BY <1>1, <1>2, <1>6, <2>1, <2>2, <2>3, WorkerMoves
<1> QED
  BY <1>4, <1>5, <1>6, FramesAre

\* Main moves between the parts of its code that are before its loop, or out of them.
LEMMA MainPlaced ==
    ASSUME ExitInv, NEW p \in Before \cup Making \cup Made \cup Looping \cup AtEnd, p # "forced",
           at' = [at EXCEPT ![Main] = p], back[Main] = "forceClose" => p \in Removing,
           quit' \in [Loops -> BOOLEAN],
           UNCHANGED <<back, on, signals>>
    PROVE  /\ Placed'
           /\ at'[Main] = p /\ \A f \in Frames : f # Main => at'[f] = at[f]
<1>0. Placed
  BY DEF ExitInv
<1>1. at'[Main] = p /\ \A f \in Frames : f # Main => at'[f] = at[f]
  BY <1>0, FramesAre DEF Placed
<1>2. p \in Points
  BY DEF Before, Making, Made, Looping, AtEnd, Points, LogPoints
<1> QED
  BY <1>0, <1>1, <1>2, FramesAre DEF Placed

\* Before the loop main() has no connection in hand.
LEMMA NotRemoving ==
    ASSUME ExitInv, at[Main] \notin Removing PROVE back[Main] # "forceClose"
BY DEF ExitInv, Placed
-----------------------------------------------------------------------------
LEMMA LockKeeps == ASSUME ExitInv, NEW f \in Frames, Lock(f) PROVE ExitInv'
BY NothingMoves DEF Lock, serverVars, signalVars, callVars, loopVars, stopVars

\* Logger::log() of a frame.
LEMMA LogKeeps == ASSUME ExitInv, NEW f \in Frames, Log(f) PROVE ExitInv'
<1>0. Placed /\ ThreadsMade /\ Joined
  BY DEF ExitInv
<1> DEFINE q == AfterLog(f)[at[f]]
<1>1. /\ at[f] \in LogPoints /\ OnTop(f) /\ at' = [at EXCEPT ![f] = q]
      /\ UNCHANGED <<threadNum, nLoops, nThreads, on, signals, quit, joining>>
      /\ IF at[f] \in {"established", "removed"} THEN back' = [back EXCEPT ![f] = "run"] ELSE UNCHANGED back
      /\ quit \in [Loops -> BOOLEAN] /\ JoiningGoes
  BY <1>0 DEF Log, Go, Returns, Takes, callVars, serverVars, signalVars, loopVars, stopVars, JoiningGoes, Placed
<1>2. back = [back EXCEPT ![f] = back[f]] /\ back[f] \in Backs /\ "run" \in Backs
  BY <1>0 DEF Placed, Backs
<1>3. CASE f \in Handlers
  <2>1. q \in Points /\ q # "forced"
    BY <1>1, <1>2, LogGoes, LogPointsAre DEF Points, LogPoints, Backs
  <2>2. at[f] # "off" /\ at[f] \notin {"stopLoops", "beginJoin", "join", "aborted"}
    BY <1>1, LogPointsAre
  <2> HIDE DEF q
  <2>3. CASE at[f] \in {"established", "removed"}
    BY <1>1, <1>2, <1>3, <2>1, <2>2, <2>3, HandlerMoves
  <2>4. CASE at[f] \notin {"established", "removed"}
    BY <1>1, <1>2, <1>3, <2>1, <2>2, <2>4, HandlerMoves
  <2> QED
    BY <2>3, <2>4
<1>4. CASE f \in Workers
  <2>1. /\ at[f] \in {"threadStarted", "looping", "loopStopped", "threadStopped", "established", "new", "closed", "removed"}
        /\ back[f] \in {"dispatch", "run"}
    BY <1>0, <1>1, <1>4, LogPointsAre DEF Placed, OfWorker
  <2>2. q \in OfWorker \ {"none"}
    BY <1>1, <1>4, <2>1, LogGoes, FramesAre DEF OfWorker
  <2> HIDE DEF q
  <2>3. CASE at[f] \in {"established", "removed"}
    BY <1>1, <1>2, <1>4, <2>1, <2>2, <2>3, WorkerMoves
  <2>4. CASE at[f] \notin {"established", "removed"}
    BY <1>1, <1>2, <1>4, <2>1, <2>2, <2>4, WorkerMoves
  <2> QED
    BY <2>3, <2>4
<1>5. CASE f = Main /\ at[Main] \in {"created", "config", "bound"}
  <2>1. q \in Before /\ at[Main] \in Before /\ back[Main] # "forceClose" /\ q # "forced"
    BY <1>1, <1>5, LogGoes, NotRemoving DEF Before, Removing
  <2>2. UNCHANGED back
    BY <1>1, <1>5
  <2> HIDE DEF q
  <2> QED
    BY <1>1, <1>2, <1>5, <2>1, <2>2, MainMoves
<1>6. CASE f = Main /\ at[Main] \in {"listening", "started"}
  <2>1. back[Main] # "forceClose" /\ UNCHANGED back
    BY <1>1, <1>6, NotRemoving DEF Removing
  <2>2. \/ at[Main] = "listening" /\ q = "spawn" /\ nLoops = 0 /\ nThreads = 0 /\ nThreads < threadNum
        \/ at[Main] = "listening" /\ q = "started" /\ nLoops = 0 /\ nThreads = 0 /\ nThreads = threadNum
        \/ at[Main] = "started" /\ q = "reset" /\ nThreads = threadNum /\ nLoops = nThreads
    <3>1. CASE at[Main] = "listening"
      <4>1. nLoops = 0 /\ nThreads = 0 /\ threadNum \in Nat
        BY <1>0, <3>1 DEF ThreadsMade, Before
      <4>2. q = IF threadNum = 0 THEN "started" ELSE "spawn"
        BY <1>1, <1>6, <3>1, LogGoes
      <4> HIDE DEF q
      <4> QED
        BY <3>1, <4>1, <4>2
    <3>2. CASE at[Main] = "started"
      BY <1>0, <1>1, <1>6, <3>2, LogGoes DEF ThreadsMade, Made
    <3> QED
      BY <1>6, <3>1, <3>2
  <2>3. q \in Making \cup Made /\ q # "forced"
    BY <2>2 DEF Making, Made
  <2> HIDE DEF q
  <2>4. /\ Placed'
        /\ at'[Main] = q /\ \A g \in Frames : g # Main => at'[g] = at[g]
    BY <1>1, <1>6, <2>1, <2>3, MainPlaced
  <2>5. ThreadsMade'
    BY <1>0, <1>1, <2>1, <2>2, <2>4, FramesAre DEF ThreadsMade, Before, Making, Made, InMainLoop, Looping
  <2>6. Joined'
    BY <2>1, <2>3, <2>4 DEF Joined, Ending, InMainLoop, Making, Made, AtEnd, Looping
  <2> QED
    BY <2>4, <2>5, <2>6 DEF ExitInv
<1>7. CASE f = Main /\ at[Main] \in {"looping", "established", "new", "closed", "removed"}
  <2>0. at[Main] \in Looping \ AtEnd
    BY <1>7 DEF Looping, AtEnd
  <2>1. CASE back[Main] # "forceClose"
    <3>1. q \in Looping
      BY <1>0, <1>1, <1>2, <1>7, <2>1, LogGoes DEF Looping, Backs
    <3>2. InMainLoop /\ q # "forced"
      BY <2>0, <2>1, <3>1 DEF InMainLoop, Looping
    <3> HIDE DEF q
    <3>3. CASE at[Main] \in {"established", "removed"}
      BY <1>1, <1>2, <1>7, <2>1, <3>1, <3>2, <3>3, MainMoves
    <3>4. CASE at[Main] \notin {"established", "removed"}
      BY <1>1, <1>2, <1>7, <2>1, <3>1, <3>2, <3>4, MainMoves
    <3> QED
      BY <3>3, <3>4
  <2>2. CASE back[Main] = "forceClose" /\ at[Main] = "removed"
    <3>1. q = "forceClose" /\ q \in AtEnd /\ Ending /\ back' = [back EXCEPT ![Main] = "run"]
      BY <1>1, <1>7, <2>2, LogGoes DEF AtEnd, Ending
    <3> HIDE DEF q
    <3> QED
      BY <1>1, <1>2, <1>7, <3>1, MainMoves
  <2>3. CASE back[Main] = "forceClose" /\ at[Main] = "closed"
    <3>1. q = "remove" /\ q \in Removing /\ Ending /\ UNCHANGED back
      BY <1>1, <1>7, <2>3, LogGoes DEF Removing, Ending
    <3> HIDE DEF q
    <3> QED
      BY <1>1, <1>2, <1>7, <2>3, <3>1, MainMoves
  <2> QED
    BY <1>0, <1>7, <2>1, <2>2, <2>3 DEF Placed, Removing
<1>8. CASE f = Main /\ at[Main] \in {"failed", "loopStopped", "complete", "destroyed", "stopping", "stopped"}
  <2>1. q \in AtEnd /\ at[Main] \in AtEnd /\ q # "forced" /\ UNCHANGED back
    BY <1>1, <1>8, LogGoes DEF AtEnd
  <2>2. back[Main] # "forceClose" /\ Ending
    BY <1>8, <2>1, NotRemoving DEF Removing, Ending
  <2> HIDE DEF q
  <2> QED
    BY <1>1, <1>2, <1>8, <2>1, <2>2, MainMoves
<1>9. f = Main => at[Main] \notin {"received", "threadStarted", "threadStopped"}
  BY <1>0 DEF Placed, Before, Making, Made, Looping, AtEnd
<1> QED
  BY <1>1, <1>3, <1>4, <1>5, <1>6, <1>7, <1>8, <1>9, FramesAre, LogPointsAre
-----------------------------------------------------------------------------
\* The steps of a loop that leave quit_ alone, and do not test it.
TurnStep(t) ==
    \/ Publish(t) \/ EnterWait(t) \/ Wake(t) \/ Dispatched(t) \/ HandleClose(t) \/ Swap(t)
    \/ NoTask(t) \/ RunTask(t) \/ Timeout(t)

LEMMA TurnGoes ==
    ASSUME ExitInv, NEW t \in Threads, TurnStep(t)
    PROVE  \E p \in {"looping", "wait", "dispatch", "swap", "closed", "run", "test", "established", "erase"},
              b \in {"dispatch", "run", back[t]} :
             /\ at' = [at EXCEPT ![t] = p] /\ back' = [back EXCEPT ![t] = b]
             /\ at[t] \in {"publish", "poll", "wait", "dispatch", "swap", "run"}
             /\ UNCHANGED <<threadNum, nLoops, nThreads, on, signals, quit, joining>>
<1> DEFINE Goes(p, b) ==
             /\ at' = [at EXCEPT ![t] = p] /\ back' = [back EXCEPT ![t] = b]
             /\ at[t] \in {"publish", "poll", "wait", "dispatch", "swap", "run"}
             /\ UNCHANGED <<threadNum, nLoops, nThreads, on, signals, quit, joining>>
<1> SUFFICES \E p \in {"looping", "wait", "dispatch", "swap", "closed", "run", "test", "established", "erase"},
                b \in {"dispatch", "run", back[t]} : Goes(p, b)
  BY Zenon
<1>0. back = [back EXCEPT ![t] = back[t]] /\ at = [at EXCEPT ![t] = at[t]]
  BY FramesAre DEF ExitInv, Placed
<1> USE DEF At, Go, serverVars, signalVars, callVars, loopVars, stopVars
<1>1. CASE Publish(t) \/ EnterWait(t) \/ Dispatched(t) \/ NoTask(t) \/ Timeout(t)
  <2>1. Goes("looping", back[t]) \/ Goes("wait", back[t]) \/ Goes("swap", back[t]) \/ Goes("test", back[t])
    BY <1>0, <1>1 DEF Publish, EnterWait, Dispatched, NoTask, Timeout, Moves
  <2> QED
    BY <2>1
<1>2. CASE Wake(t) \/ Swap(t)
  <2>1. Goes("dispatch", back[t]) \/ Goes("run", back[t])
    BY <1>0, <1>2 DEF Wake, Swap
  <2> QED
    BY <2>1
<1>3. CASE HandleClose(t)
  <2>1. Goes("closed", "dispatch")
    BY <1>3 DEF HandleClose, Takes
  <2> QED
    BY <2>1
<1>4. CASE RunTask(t)
  <2>1. at[t] = "run" /\ UNCHANGED <<threadNum, nLoops, nThreads, quit, joining>>
    BY <1>4 DEF RunTask
  <2>2. \/ at' = [at EXCEPT ![t] = "established"] /\ back' = [back EXCEPT ![t] = "run"] /\ UNCHANGED <<on, signals>>
        \/ at' = [at EXCEPT ![t] = "closed"] /\ back' = [back EXCEPT ![t] = "run"] /\ UNCHANGED <<on, signals>>
        \/ at' = [at EXCEPT ![t] = "erase"] /\ back' = [back EXCEPT ![t] = "run"] /\ UNCHANGED <<on, signals>>
        \/ UNCHANGED <<at, back, on, signals>>
    BY <1>4 DEF RunTask, Takes
  <2>3. Goes("established", "run") \/ Goes("closed", "run") \/ Goes("erase", "run") \/ Goes("run", back[t])
    BY <1>0, <2>1, <2>2
  <2> QED
    BY <2>3
<1> QED
  BY <1>1, <1>2, <1>3, <1>4 DEF TurnStep

LEMMA TurnKeeps == ASSUME ExitInv, NEW t \in Threads, TurnStep(t) PROVE ExitInv'
<1>1. PICK p \in {"looping", "wait", "dispatch", "swap", "closed", "run", "test", "established", "erase"},
           b \in {"dispatch", "run", back[t]} :
             /\ at' = [at EXCEPT ![t] = p] /\ back' = [back EXCEPT ![t] = b]
             /\ at[t] \in {"publish", "poll", "wait", "dispatch", "swap", "run"}
             /\ UNCHANGED <<threadNum, nLoops, nThreads, on, signals, quit, joining>>
  BY TurnGoes
<1>2. quit \in [Loops -> BOOLEAN] /\ JoiningGoes
  BY <1>1 DEF ExitInv, Placed, JoiningGoes
<1>3. CASE t = Main
  <2>1. back[Main] # "forceClose"
    BY <1>1, <1>3, NotRemoving DEF Removing
  <2>2. InMainLoop /\ p \in Looping /\ b # "forceClose" /\ b \in Backs /\ p # "forced"
    BY <1>1, <1>3, <2>1, FramesAre DEF InMainLoop, Looping, ExitInv, Placed, Backs
  <2> QED
    BY <1>1, <1>2, <1>3, <2>2, MainMoves
<1>4. CASE t \in Workers
  <2>1. p \in OfWorker \ {"none"} /\ b \in {"dispatch", "run"} /\ at[t] \notin {"none", "ended"}
    BY <1>1, <1>4 DEF OfWorker, ExitInv, Placed
  <2> QED
    BY <1>1, <1>2, <1>4, <2>1, WorkerMoves
<1> QED
  BY <1>3, <1>4, FramesAre

\* "while (!quit_)": on the main thread no handler is in the middle, and the stop() that has set quit_
\* is done, or on a worker.
LEMMA TestKeeps == ASSUME ExitInv, NEW t \in Threads, Test(t) PROVE ExitInv'
<1>0. Placed /\ ThreadsMade /\ Joined
  BY DEF ExitInv
<1> DEFINE q == IF quit[t] THEN "loopStopped" ELSE "poll"
<1>1. /\ at[t] = "test" /\ OnTop(t) /\ at' = [at EXCEPT ![t] = q]
      /\ UNCHANGED <<back, threadNum, nLoops, nThreads, on, signals, quit, joining>>
      /\ quit \in [Loops -> BOOLEAN] /\ JoiningGoes
      /\ back = [back EXCEPT ![t] = back[t]]
  BY <1>0 DEF Test, Moves, At, Go, callVars, serverVars, signalVars, loopVars, stopVars, JoiningGoes, Placed
<1>2. CASE t \in Workers
  <2>1. q \in OfWorker \ {"none"} /\ back[t] \in {"dispatch", "run"} /\ at[t] \notin {"none", "ended"}
    BY <1>0, <1>1, <1>2 DEF OfWorker, Placed
  <2> HIDE DEF q
  <2> QED
    BY <1>1, <1>2, <2>1, WorkerMoves
<1>3. CASE t = Main /\ ~quit[Main]
  <2>1. q = "poll" /\ back[Main] # "forceClose" /\ back[Main] \in Backs
    BY <1>0, <1>1, <1>3, NotRemoving, FramesAre DEF Removing, Placed
  <2>2. InMainLoop /\ q \in Looping
    BY <1>1, <1>3, <2>1 DEF InMainLoop, Looping
  <2> HIDE DEF q
  <2> QED
    BY <1>1, <1>3, <2>1, <2>2, MainMoves
<1>4. CASE t = Main /\ quit[Main]
  <2>1. q = "loopStopped" /\ back[Main] # "forceClose"
    BY <1>1, <1>4, NotRemoving DEF Removing
  <2>2. InMainLoop /\ q \in AtEnd
    BY <1>1, <1>4, <2>1 DEF InMainLoop, Looping, AtEnd
  <2> HIDE DEF q
  <2>3. Placed' /\ at'[Main] = q /\ \A f \in Frames : f # Main => at'[f] = at[f]
    BY <1>1, <1>4, <2>1, <2>2, MainPlaced
  <2>4. ThreadsMade'
    BY <1>0, <1>1, <1>4, <2>1, <2>2, <2>3, FramesAre DEF ThreadsMade, InMainLoop, Looping, Before, Making, Made
  <2>5. AllOver \/ \E h \in Handlers : on[h] # Main /\ Joins(h)
    <3>1. AllOver \/ \E h \in Handlers : Joins(h)
      BY <1>0, <1>4, <2>2 DEF Joined
    <3>2. \A g \in Handlers : on[g] = Main => at[g] = "off"
      BY <1>1, <1>4, FramesAre DEF OnTop, ThreadOf
    <3> QED
      BY <3>1, <3>2 DEF Joins
  <2>6. AllOver => AllOver'
    BY <2>3, FramesAre DEF AllOver
  <2>7. \A h \in Handlers : Joins(h) => Joins(h)'
    BY <1>1, <2>3, FramesAre DEF Joins
  <2>8. ~InMainLoop'
    BY <2>1, <2>3 DEF InMainLoop, Looping
  <2> QED
    BY <1>1, <2>3, <2>4, <2>5, <2>6, <2>7, <2>8 DEF ExitInv, Joined
<1> QED
  BY <1>2, <1>3, <1>4, FramesAre

\* "quit_ = false".
LEMMA ResetKeeps == ASSUME ExitInv, NEW t \in Threads, Reset(t) PROVE ExitInv'
<1>0. Placed /\ ThreadsMade /\ Joined
  BY DEF ExitInv
<1>1. /\ at[t] = "reset" /\ at' = [at EXCEPT ![t] = "publish"]
      /\ UNCHANGED <<back, threadNum, nLoops, nThreads, on, signals, joining>>
      /\ quit' = [quit EXCEPT ![t] = FALSE] /\ quit' \in [Loops -> BOOLEAN]
      /\ back = [back EXCEPT ![t] = back[t]]
  BY <1>0 DEF Reset, At, Go, callVars, serverVars, signalVars, stopVars, Placed
<1>2. CASE t \in Workers
  <2>1. "publish" \in OfWorker \ {"none"} /\ back[t] \in {"dispatch", "run"} /\ at[t] \notin {"none", "ended"}
    BY <1>0, <1>1, <1>2 DEF OfWorker, Placed
  <2>2. quit'[Main] = quit[Main]
    BY <1>0, <1>1, <1>2, FramesAre DEF Placed
  <2> QED
    BY <1>1, <1>2, <2>1, <2>2, WorkerMoves
<1>3. CASE t = Main
  <2>1. back[Main] # "forceClose" /\ "publish" \in Looping /\ "publish" \notin AtEnd /\ at[Main] \in Made
    BY <1>1, <1>3, NotRemoving DEF Removing, Looping, AtEnd, Made
  <2>2. Placed' /\ at'[Main] = "publish" /\ \A f \in Frames : f # Main => at'[f] = at[f]
    BY <1>1, <1>3, <2>1, MainPlaced
  <2>3. ThreadsMade'
    BY <1>0, <1>1, <1>3, <2>1, <2>2, FramesAre DEF ThreadsMade, InMainLoop, Looping, Before, Making, Made
  <2>4. ~quit'[Main] /\ ~Ending'
    BY <1>0, <1>1, <1>3, <2>1, <2>2, FramesAre DEF Ending, Placed
  <2> QED
    BY <2>2, <2>3, <2>4 DEF ExitInv, Joined
<1> QED
  BY <1>2, <1>3, FramesAre

LEMMA LoopKeeps == ASSUME ExitInv, NEW t \in Threads, LoopStep(t) PROVE ExitInv'
BY TurnKeeps, TestKeeps, ResetKeeps DEF LoopStep, TurnStep
-----------------------------------------------------------------------------
LEMMA SetUpKeeps == ASSUME ExitInv, Create \/ Bind \/ Listen PROVE ExitInv'
<1>0. Placed /\ ThreadsMade /\ Joined
  BY DEF ExitInv
<1>1. PICK p \in {"bind", "bound", "listening", "failed"} :
        /\ at[Main] \in {"create", "bind", "listen"} /\ at' = [at EXCEPT ![Main] = p]
        /\ UNCHANGED <<back, threadNum, nLoops, nThreads, on, signals, quit, joining>>
  BY DEF Create, Bind, Listen, SetUp, At, Go, serverVars, signalVars, callVars, loopVars, stopVars
<1>2. /\ back[Main] # "forceClose" /\ at[Main] \in Before /\ p # "forced" /\ p \in Before \cup AtEnd
      /\ quit \in [Loops -> BOOLEAN] /\ back = [back EXCEPT ![Main] = back[Main]] /\ back[Main] \in Backs
  BY <1>0, <1>1, NotRemoving, FramesAre DEF Removing, Before, AtEnd, Placed
<1>3. Placed' /\ at'[Main] = p /\ \A f \in Frames : f # Main => at'[f] = at[f]
  BY <1>1, <1>2, MainPlaced
<1>4. nLoops = 0 /\ AllOver
  BY <1>0, <1>1, <1>2, FramesAre DEF ThreadsMade, AllOver
<1>5. ThreadsMade'
  BY <1>0, <1>1, <1>2, <1>3, <1>4, FramesAre DEF ThreadsMade, InMainLoop, Looping, Before, Making, Made
<1>6. AllOver'
  BY <1>3, <1>4, FramesAre DEF AllOver
<1> QED
  BY <1>3, <1>5, <1>6 DEF ExitInv, Joined

LEMMA MakingKeeps == ASSUME ExitInv, Spawn \/ PushLoop \/ PushThread PROVE ExitInv'
<1>0. Placed /\ ThreadsMade /\ Joined
  BY DEF ExitInv
<1>1. /\ at[Main] \in Making /\ back[Main] # "forceClose" /\ quit \in [Loops -> BOOLEAN]
      /\ UNCHANGED <<back, threadNum, on, signals, quit, joining>>
      /\ nThreads < threadNum /\ nThreads \in Nat /\ threadNum \in Nat /\ nLoops \in Nat
  BY <1>0, NotRemoving DEF Spawn, PushLoop, PushThread, At, Go, Making, Removing, Placed, ThreadsMade,
     serverVars, signalVars, callVars, loopVars, stopVars
<1>2. CASE Spawn
  <2>1. /\ at' = [at EXCEPT ![nLoops + 1] = "threadStarted", ![Main] = "pushLoop"]
        /\ nLoops' = nLoops /\ nThreads' = nThreads /\ nLoops = nThreads
    BY <1>0, <1>2 DEF Spawn, At, serverVars, ThreadsMade
  <2>2. /\ at'[Main] = "pushLoop" /\ at' \in [Frames -> Points]
        /\ \A h \in Handlers : at'[h] = at[h]
        /\ \A w \in Workers : at'[w] = IF w = nLoops + 1 THEN "threadStarted" ELSE at[w]
    BY <1>0, <1>1, <2>1, FramesAre DEF Placed, Points, LogPoints
  <2>3. Placed'
    BY <1>0, <1>1, <2>2, FramesAre DEF Placed, Making, OfWorker
  <2>4. ThreadsMade'
    BY <1>0, <1>1, <2>1, <2>2 DEF ThreadsMade, InMainLoop, Looping, Before, Making, Made
  <2> QED
    BY <1>1, <2>2, <2>3, <2>4 DEF ExitInv, Joined, Ending, InMainLoop, AtEnd, Looping
<1>3. CASE PushLoop
  <2>1. /\ at[Main] = "pushLoop" /\ at' = [at EXCEPT ![Main] = "pushThread"]
        /\ nLoops' = nLoops + 1 /\ nThreads' = nThreads /\ nLoops = nThreads
    BY <1>0, <1>3 DEF PushLoop, At, Go, ThreadsMade
  <2>2. Placed' /\ at'[Main] = "pushThread" /\ \A f \in Frames : f # Main => at'[f] = at[f]
    BY <1>1, <2>1, MainPlaced DEF Making
  <2>3. ThreadsMade'
    BY <1>0, <1>1, <2>1, <2>2, FramesAre DEF ThreadsMade, InMainLoop, Looping, Before, Making, Made
  <2> QED
    BY <1>1, <2>2, <2>3 DEF ExitInv, Joined, Ending, InMainLoop, AtEnd, Looping
<1>4. CASE PushThread
  <2> DEFINE p == IF nThreads + 1 < threadNum THEN "spawn" ELSE "started"
  <2>1. /\ at[Main] = "pushThread" /\ at' = [at EXCEPT ![Main] = p]
        /\ nLoops' = nLoops /\ nThreads' = nThreads + 1 /\ nLoops = nThreads + 1
    BY <1>0, <1>4 DEF PushThread, At, Go, ThreadsMade
  <2>2. p \in {"spawn", "started"} /\ (p = "spawn" => nThreads' < threadNum) /\ (p = "started" => nThreads' = threadNum)
    BY <1>1, <2>1
  <2> HIDE DEF p
  <2>3. Placed' /\ at'[Main] = p /\ \A f \in Frames : f # Main => at'[f] = at[f]
    BY <1>1, <2>1, <2>2, MainPlaced DEF Making, Made
  <2>4. ThreadsMade'
    BY <1>0, <1>1, <2>1, <2>2, <2>3, FramesAre DEF ThreadsMade, InMainLoop, Looping, Before, Making, Made
  <2> QED
    BY <1>1, <2>2, <2>3, <2>4 DEF ExitInv, Joined, Ending, InMainLoop, AtEnd, Looping
<1> QED
  BY <1>2, <1>3, <1>4

LEMMA MainStepKeeps == ASSUME ExitInv, MainStep PROVE ExitInv'
<1>1. ASSUME Assign \/ Start PROVE ExitInv'
  <2>1. PICK p \in {"config", "create"} :
          /\ at[Main] \in {"assign", "start"} /\ at' = [at EXCEPT ![Main] = p]
          /\ UNCHANGED <<back, threadNum, nLoops, nThreads, on, signals, quit, joining>>
    BY <1>1 DEF Assign, Start, At, Go, serverVars, signalVars, callVars, loopVars, stopVars
  <2>2. /\ back[Main] # "forceClose" /\ at[Main] \in Before /\ p # "forced" /\ p \in Before /\ JoiningGoes
        /\ quit \in [Loops -> BOOLEAN] /\ back = [back EXCEPT ![Main] = back[Main]] /\ back[Main] \in Backs
    BY <2>1, NotRemoving, FramesAre DEF Removing, Before, ExitInv, Placed, JoiningGoes
  <2> QED
    BY <2>1, <2>2, MainMoves
<1> QED
  BY <1>1, SetUpKeeps, MakingKeeps DEF MainStep

\* A connection comes, or is erased.
LEMMA ConnKeeps == ASSUME ExitInv, Accept \/ Insert \/ Establish \/ Erase \/ Destroy PROVE ExitInv'
<1>0. Placed
  BY DEF ExitInv
<1>1. PICK p \in {"insert", "establish", "established", "new", "destroy", "removed"},
           b \in {"new", "run", back[Main]} :
        /\ at[Main] \in {"dispatch", "insert", "establish", "erase", "destroy"}
        /\ at' = [at EXCEPT ![Main] = p] /\ back' = [back EXCEPT ![Main] = b]
        /\ at[Main] \in {"erase", "destroy"} => p \in {"destroy", "removed"} /\ b = back[Main]
        /\ UNCHANGED <<threadNum, nLoops, nThreads, on, signals, quit, joining>>
  <2> DEFINE Goes(p, b) ==
        /\ at[Main] \in {"dispatch", "insert", "establish", "erase", "destroy"}
        /\ at' = [at EXCEPT ![Main] = p] /\ back' = [back EXCEPT ![Main] = b]
        /\ at[Main] \in {"erase", "destroy"} => p \in {"destroy", "removed"} /\ b = back[Main]
        /\ UNCHANGED <<threadNum, nLoops, nThreads, on, signals, quit, joining>>
  <2> SUFFICES \E p \in {"insert", "establish", "established", "new", "destroy", "removed"},
                  b \in {"new", "run", back[Main]} : Goes(p, b)
    BY Zenon
  <2>0. back = [back EXCEPT ![Main] = back[Main]]
    BY <1>0, FramesAre DEF Placed
  <2> USE DEF At, Go, Takes, Returns, Post, serverVars, signalVars, callVars, loopVars, stopVars
  <2>1. CASE Accept
    <3>1. Goes("insert", "new")
      BY <2>1 DEF Accept
    <3> QED
      BY <3>1
  <2>2. CASE Insert
    <3>1. Goes("establish", back[Main])
      BY <2>0, <2>2 DEF Insert
    <3> QED
      BY <3>1
  <2>3. CASE Establish
    <3>1. at[Main] = "establish" /\ UNCHANGED <<threadNum, nLoops, nThreads, quit, joining>>
      BY <2>3 DEF Establish
    <3>2. \/ at' = [at EXCEPT ![Main] = "established"] /\ UNCHANGED <<back, on, signals>>
          \/ at' = [at EXCEPT ![Main] = "new"] /\ back' = [back EXCEPT ![Main] = "run"] /\ UNCHANGED <<on, signals>>
      BY <2>3 DEF Establish
    <3>3. Goes("established", back[Main]) \/ Goes("new", "run")
      BY <2>0, <3>1, <3>2
    <3> QED
      BY <3>3
  <2>4. CASE Erase
    <3>1. Goes("destroy", back[Main])
      BY <2>0, <2>4 DEF Erase
    <3> QED
      BY <3>1
  <2>5. CASE Destroy
    <3>1. at[Main] = "destroy" /\ UNCHANGED <<threadNum, nLoops, nThreads, quit, joining>>
          /\ at' = [at EXCEPT ![Main] = "removed"] /\ UNCHANGED <<back, on, signals>>
      BY <2>5 DEF Destroy
    <3>2. Goes("removed", back[Main])
      BY <2>0, <3>1
    <3> QED
      BY <3>2
  <2> QED
    BY <2>1, <2>2, <2>3, <2>4, <2>5
<1>2. quit \in [Loops -> BOOLEAN] /\ JoiningGoes /\ b \in Backs /\ p # "forced" /\ p \in Looping
  BY <1>0, <1>1, FramesAre DEF Placed, JoiningGoes, Backs, Looping
<1>3. CASE back[Main] # "forceClose"
  <2>1. InMainLoop /\ b # "forceClose"
    BY <1>1, <1>3 DEF InMainLoop, Looping
  <2> QED
    BY <1>1, <1>2, <2>1, MainMoves
<1>4. CASE back[Main] = "forceClose"
  <2>1. Ending /\ b = "forceClose" /\ p \in Removing
    BY <1>0, <1>1, <1>4 DEF Ending, Placed, Removing
  <2> QED
    BY <1>1, <1>2, <2>1, MainMoves
<1> QED
  BY <1>3, <1>4

\* A signal finds its handler off, and disturbs no thread but the one that waits in epoll_wait().
LEMMA SignalGoes ==
    ASSUME Placed, NEW t \in Threads, Signal(t)
    PROVE  LET h == -signals' IN
           /\ signals' = signals + 1 /\ signals' \in 0 .. MaxSignals /\ h \in Handlers
           /\ at[h] = "off" /\ on[h] = Main
           /\ on'[h] = t /\ at'[h] = "received" /\ at' \in [Frames -> Points] /\ on' \in [Handlers -> Threads]
           /\ \A g \in Handlers : g # h => at'[g] = at[g] /\ on'[g] = on[g]
           /\ \A u \in Threads : at'[u] = at[u] \/ (u = t /\ at[u] = "wait" /\ at'[u] = "swap")
           /\ at[t] \notin {"none", "ended"}
           /\ UNCHANGED <<serverVars, holder, callVars, loopVars, connVars, stopVars>>
<1> DEFINE h == -signals'
<1>1. signals' = signals + 1 /\ signals' \in 0 .. MaxSignals /\ signals \in 0 .. MaxSignals
  BY FramesAre DEF Signal, Placed
<1>2. h \in Handlers /\ -h > signals
  BY <1>1, FramesAre DEF Handlers
<1>3. at[h] = "off" /\ on[h] = Main
  BY <1>2 DEF Placed
<1>4. h # t /\ h \in Frames /\ t \in Frames
  BY <1>2, FramesAre
<1>5. "received" \in Points /\ "swap" \in Points
  BY DEF Points, LogPoints
<1>6. /\ on' = [on EXCEPT ![h] = t] /\ at' = [at EXCEPT ![h] = "received", ![t] = IF @ = "wait" THEN "swap" ELSE @]
      /\ at[t] \notin {"none", "ended"}
      /\ UNCHANGED <<serverVars, holder, callVars, loopVars, connVars, stopVars>>
  BY DEF Signal
<1> HIDE DEF h
<1>7. at' \in [Frames -> Points] /\ on' \in [Handlers -> Threads]
  BY <1>2, <1>4, <1>5, <1>6 DEF Placed
<1>8. on'[h] = t /\ at'[h] = "received" /\ \A g \in Handlers : g # h => at'[g] = at[g] /\ on'[g] = on[g]
  BY <1>2, <1>4, <1>6, FramesAre DEF Placed
<1>9. \A u \in Threads : at'[u] = at[u] \/ (u = t /\ at[u] = "wait" /\ at'[u] = "swap")
  BY <1>2, <1>4, <1>6, FramesAre DEF Placed
<1> QED
  BY <1>1, <1>2, <1>3, <1>6, <1>7, <1>8, <1>9 DEF h

LEMMA SignalKeeps == ASSUME ExitInv, NEW t \in Threads, Signal(t) PROVE ExitInv'
<1>0. Placed /\ ThreadsMade /\ Joined
  BY DEF ExitInv
<1> DEFINE h == -signals'
<1>1. /\ signals' = signals + 1 /\ signals' \in 0 .. MaxSignals /\ signals \in Nat /\ h \in Handlers
      /\ at[h] = "off" /\ on[h] = Main
      /\ on'[h] = t /\ at'[h] = "received" /\ at' \in [Frames -> Points] /\ on' \in [Handlers -> Threads]
      /\ \A g \in Handlers : g # h => at'[g] = at[g] /\ on'[g] = on[g]
      /\ \A u \in Threads : at'[u] = at[u] \/ (u = t /\ at[u] = "wait" /\ at'[u] = "swap")
      /\ UNCHANGED <<serverVars, callVars, quit, joining>>
  BY <1>0, SignalGoes, FramesAre DEF loopVars, stopVars, Placed
<1>2. UNCHANGED <<threadNum, nLoops, nThreads, back, quit, joining>>
  BY <1>1 DEF serverVars, callVars
<1>3. at'[Main] = at[Main] \/ (at[Main] = "wait" /\ at'[Main] = "swap")
  BY <1>1, FramesAre
<1>4. \A w \in Workers : at'[w] = at[w] \/ (at[w] = "wait" /\ at'[w] = "swap")
  BY <1>1, FramesAre
<1>5. \A g \in Handlers : -g > signals' => g # h /\ -g > signals
  <2> TAKE g \in Handlers
  <2> QED
    BY <1>1, FramesAre
<1>6. Placed'
  <2>1. at'[Main] \in Before \cup Making \cup Made \cup Looping \cup AtEnd
        /\ (back'[Main] = "forceClose" => at'[Main] \in Removing)
    BY <1>0, <1>2, <1>3 DEF Placed, Looping, Removing
  <2>2. \A w \in Workers : at'[w] \in OfWorker /\ back'[w] \in {"dispatch", "run"}
    BY <1>0, <1>2, <1>4 DEF Placed, OfWorker
  <2>3. \A f \in Frames : at'[f] = "forced" => back'[f] = "forceClose"
    <3> TAKE f \in Frames
    <3>1. at'[f] = "forced" => at[f] = "forced"
      BY <1>1, <1>3, <1>4, FramesAre
    <3> QED
      BY <1>0, <1>2, <3>1 DEF Placed
  <2>4. \A g \in Handlers : -g > signals' => at'[g] = "off" /\ on'[g] = Main
    BY <1>0, <1>1, <1>5 DEF Placed
  <2> QED
    BY <1>0, <1>1, <1>2, <2>1, <2>2, <2>3, <2>4 DEF Placed
<1> HIDE DEF h
<1>7. ThreadsMade'
  BY <1>0, <1>2, <1>3, <1>4 DEF ThreadsMade, Before, Making, Made, Looping, InMainLoop
<1>8. AllOver => AllOver'
  BY <1>4 DEF AllOver
<1>9. \A g \in Handlers : Joins(g) => Joins(g)' /\ on'[g] = on[g]
  BY <1>1, <1>2 DEF Joins
<1>10. (Ending' => Ending) /\ (InMainLoop' => InMainLoop)
  BY <1>2, <1>3 DEF Ending, InMainLoop, Looping, AtEnd
<1>11. Joined'
  BY <1>0, <1>2, <1>8, <1>9, <1>10 DEF Joined
<1> QED
  BY <1>6, <1>7, <1>11 DEF ExitInv

LEMMA FrameKeeps == ASSUME ExitInv, NEW f \in Frames, FrameStep(f) PROVE ExitInv'
BY LockKeeps, LogKeeps, RemoveKeeps, StopKeeps, LoopKeeps, MainStepKeeps, ConnKeeps DEF FrameStep

LEMMA ExitStep == ExitInv /\ [Next]_vars => ExitInv'
<1> SUFFICES ASSUME ExitInv, [Next]_vars PROVE ExitInv'
  OBVIOUS
<1>1. CASE \E w \in Workers : Timeout(w)
  BY <1>1, TurnKeeps, FramesAre DEF TurnStep
<1>2. CASE \E c \in Leaving : PeerEnds(c)
  BY <1>2, NothingMoves DEF PeerEnds, serverVars, signalVars, callVars, loopVars, stopVars
<1>3. CASE UNCHANGED vars
  BY <1>3, NothingMoves DEF vars, serverVars, signalVars, callVars, loopVars, stopVars
<1> QED
  BY <1>1, <1>2, <1>3, FrameKeeps, SignalKeeps DEF Next

\* When the process exits every worker thread has been joined, or a stop() on a worker is not done: for
\* every number of workers and of signals, on whichever threads they arrive, and wherever in start() one
\* does.  The destructor's own stop() does nothing, because started_ is false by then; it is the stop()
\* that made main() leave the loop which joins, before main() gets there if it runs on its thread.
THEOREM ThreadsAreJoined == Spec => []ExitJoinsAll
<1>1. ExitInv => ExitJoinsAll
  <2> SUFFICES ASSUME ExitInv, at[Main] = "exited", ~AllOver
               PROVE  \E f \in InStop : ThreadOf(f) # Main
    BY DEF ExitJoinsAll, AllOver
  <2>1. Ending
    BY DEF Ending, AtEnd
  <2>2. PICK h \in Handlers : on[h] # Main /\ Joins(h)
    BY <2>1 DEF ExitInv, Joined
  <2>3. h \in InStop /\ ThreadOf(h) = on[h]
    BY <2>2, FramesAre DEF InStop, ThreadOf, Joins
  <2> QED
    BY <2>2, <2>3
<1> QED
  BY <1>1, ExitInit, ExitStep, PTL DEF Spec
-----------------------------------------------------------------------------
(* Types.                                                                  *)

\* TypeOK in parts: the frames, the server and its threads, the queues, the connections, what is in hand.
FrameTyped ==
    /\ at \in [Frames -> Points]
    /\ on \in [Handlers -> Threads]
    /\ signals \in 0 .. MaxSignals
    /\ \A h \in Handlers : -h > signals => at[h] = "off" /\ on[h] = Main
    /\ holder \in [Mutexes -> Frames \cup {Nobody}]

ThreadTyped ==
    /\ {gServer, started} \subseteq BOOLEAN
    /\ threadNum \in ThreadNums /\ nLoops \in 0 .. threadNum /\ nThreads \in 0 .. nLoops
    /\ quit \in [Loops -> BOOLEAN]

Jobs == [kind : Kinds, conn : Conns]

QueueTyped ==
    /\ wakeup \in [Workers -> BOOLEAN]
    /\ pending \in [Loops -> Seq(Jobs)]
    /\ tasks \in [Loops -> Seq(Jobs)]

Homes == IF threadNum = 0 THEN {MainLoop} ELSE 1 .. threadNum
States == {"CONNECTING", "CONNECTED", "DISCONNECTING", "DISCONNECTED"}

ConnTyped ==
    /\ connections \subseteq 1 .. accepted /\ accepted \in 0 .. NConns
    /\ nextIndex \in -IntMax - 1 .. IntMax
    /\ home \in [1 .. accepted -> Homes]
    /\ state \in [1 .. accepted -> States]
    /\ ended \subseteq 1 .. accepted

HandTyped ==
    /\ cur \in [Frames -> {0} \cup Conns] /\ back \in [Frames -> Backs]
    /\ joining \subseteq Workers /\ closing \subseteq Conns

LEMMA TypeParts == TypeOK <=> FrameTyped /\ ThreadTyped /\ QueueTyped /\ ConnTyped /\ HandTyped
BY DEF TypeOK, FrameTyped, ThreadTyped, QueueTyped, ConnTyped, HandTyped, Jobs, Homes, States, Backs

\* Where a connection is in hand, and that it is there.
HandPoints == {"insert", "establish", "closed", "remove", "erase", "relock", "destroy", "forced"}

InHand ==
    /\ \A f \in Frames : at[f] \in HandPoints => cur[f] \in Conns
    /\ at[Main] = "insert" => cur[Main] \in 1 .. accepted

TypeInv == ExitInv /\ TypeOK /\ InHand

\* What a step of a frame changes of the server, and who does.
LEMMA ServerChanges ==
    ASSUME NEW f \in Frames, FrameStep(f)
    PROVE  /\ threadNum' = threadNum
           /\ gServer' = gServer \/ gServer' = TRUE
           /\ started' = started \/ started' \in BOOLEAN
           /\ UNCHANGED <<nLoops, nThreads>> \/ PushLoop \/ PushThread
           /\ on' = on /\ signals' = signals
<1> USE DEF Go, signalVars
<1>1. CASE f \in Threads /\ LoopStep(f)
  BY <1>1 DEF LoopStep, Reset, Publish, Test, EnterWait, Wake, Dispatched, HandleClose, Swap, NoTask, RunTask, Moves, serverVars
<1>2. CASE StopStep(f)
  BY <1>2 DEF StopStep, Handler, Stop, StopMain, StopLoops, BeginJoin, Join, JoinSelf, CloseAll, ForceClose, Forced, Clear,
         Leave, Moves, serverVars
<1>3. CASE Lock(f) \/ Log(f) \/ Remove(f)
  BY <1>3 DEF Lock, Log, Remove, serverVars
<1>4. CASE MainStep
  BY <1>4 DEF MainStep, Assign, Start, Create, Bind, Listen, SetUp, Spawn, PushLoop, PushThread, serverVars
<1>5. CASE Accept \/ Insert \/ Establish \/ Erase \/ Destroy
  BY <1>5 DEF Accept, Insert, Establish, Erase, Destroy, serverVars
<1> QED
  BY <1>1, <1>2, <1>3, <1>4, <1>5 DEF FrameStep

\* A mutex is locked by the frame that takes the step, or unlocked.
LEMMA HolderChanges ==
    ASSUME NEW f \in Frames, FrameStep(f)
    PROVE  \/ holder' = holder
           \/ \E m : holder' = [holder EXCEPT ![m] = Nobody]
           \/ \E m : holder' = [holder EXCEPT ![m] = f]
<1> USE DEF Unlocking
<1>1. CASE f \in Threads /\ LoopStep(f)
  BY <1>1 DEF LoopStep, Reset, Publish, Test, EnterWait, Wake, Dispatched, HandleClose, Swap, NoTask, RunTask, Moves
<1>2. CASE StopStep(f)
  BY <1>2 DEF StopStep, Handler, Stop, StopMain, StopLoops, BeginJoin, Join, JoinSelf, CloseAll, ForceClose, Forced, Clear,
         Leave, Moves
<1>3. CASE Lock(f) \/ Log(f) \/ Remove(f)
  BY <1>3 DEF Lock, Log, Remove
<1>4. CASE MainStep
  BY <1>4 DEF MainStep, Assign, Start, Create, Bind, Listen, SetUp, Spawn, PushLoop, PushThread
<1>5. CASE Accept \/ Insert
  BY <1>5, FramesAre DEF Accept, Insert
<1>6. CASE Establish
  BY <1>6, FramesAre DEF Establish
<1>7. CASE Erase \/ Destroy
  BY <1>7, FramesAre DEF Erase, Destroy
<1> QED
  BY <1>1, <1>2, <1>3, <1>4, <1>5, <1>6, <1>7 DEF FrameStep

\* The steps of a frame that change a queue, the connections, or what is in hand.
LEMMA QueueSteps ==
    ASSUME NEW f \in Frames, FrameStep(f)
    PROVE  \/ UNCHANGED <<wakeup, pending, tasks>>
           \/ Remove(f) \/ Forced(f) \/ StopLoops(f)
           \/ f \in Threads /\ (Wake(f) \/ Swap(f) \/ RunTask(f))
           \/ f = Main /\ (Establish \/ Destroy)
<1>1. CASE f \in Threads /\ LoopStep(f)
  BY <1>1 DEF LoopStep, Reset, Publish, Test, EnterWait, Dispatched, HandleClose, NoTask, Moves, loopVars
<1>2. CASE StopStep(f)
  BY <1>2 DEF StopStep, Handler, Stop, StopMain, BeginJoin, Join, JoinSelf, CloseAll, ForceClose, Clear, Leave, Moves, loopVars
<1>3. CASE Lock(f) \/ Log(f) \/ Remove(f)
  BY <1>3 DEF Lock, Log, loopVars
<1>4. CASE MainStep
  BY <1>4 DEF MainStep, Assign, Start, Create, Bind, Listen, SetUp, Spawn, PushLoop, PushThread, loopVars
<1>5. CASE f = Main /\ (Accept \/ Insert \/ Establish \/ Erase \/ Destroy)
  BY <1>5 DEF Accept, Insert, Erase, loopVars
<1> QED
  BY <1>1, <1>2, <1>3, <1>4, <1>5 DEF FrameStep

LEMMA ConnSteps ==
    ASSUME NEW f \in Frames, FrameStep(f)
    PROVE  \/ UNCHANGED connVars
           \/ Remove(f) \/ ForceClose(f) \/ Clear(f)
           \/ f \in Threads /\ RunTask(f)
           \/ f = Main /\ (Accept \/ Insert \/ Establish \/ Erase)
<1>1. CASE f \in Threads /\ LoopStep(f)
  BY <1>1 DEF LoopStep, Reset, Publish, Test, EnterWait, Wake, Dispatched, HandleClose, Swap, NoTask, Moves
<1>2. CASE StopStep(f)
  BY <1>2 DEF StopStep, Handler, Stop, StopMain, StopLoops, BeginJoin, Join, JoinSelf, CloseAll, Forced, Leave, Moves
<1>3. CASE Lock(f) \/ Log(f) \/ Remove(f)
  BY <1>3 DEF Lock, Log
<1>4. CASE MainStep
  BY <1>4 DEF MainStep, Assign, Start, Create, Bind, Listen, SetUp, Spawn, PushLoop, PushThread
<1>5. CASE f = Main /\ (Accept \/ Insert \/ Establish \/ Erase \/ Destroy)
  BY <1>5 DEF Destroy
<1> QED
  BY <1>1, <1>2, <1>3, <1>4, <1>5 DEF FrameStep

LEMMA StopSteps ==
    ASSUME NEW f \in Frames, FrameStep(f)
    PROVE  UNCHANGED stopVars \/ BeginJoin(f) \/ Join(f) \/ CloseAll(f) \/ ForceClose(f)
<1>1. CASE f \in Threads /\ LoopStep(f)
  BY <1>1 DEF LoopStep, Reset, Publish, Test, EnterWait, Wake, Dispatched, HandleClose, Swap, NoTask, RunTask, Moves
<1>2. CASE StopStep(f)
  BY <1>2 DEF StopStep, Handler, Stop, StopMain, StopLoops, JoinSelf, Forced, Clear, Leave, Moves
<1>3. CASE Lock(f) \/ Log(f) \/ Remove(f)
  BY <1>3 DEF Lock, Log, Remove
<1>4. CASE MainStep
  BY <1>4 DEF MainStep, Assign, Start, Create, Bind, Listen, SetUp, Spawn, PushLoop, PushThread
<1>5. CASE Accept \/ Insert \/ Establish \/ Erase \/ Destroy
  BY <1>5 DEF Accept, Insert, Establish, Erase, Destroy
<1> QED
  BY <1>1, <1>2, <1>3, <1>4, <1>5 DEF FrameStep

LEMMA FrameTypedKept == ASSUME TypeInv, NEW f \in Frames, FrameStep(f), ExitInv' PROVE FrameTyped'
<1>1. holder \in [Mutexes -> Frames \cup {Nobody}]
  BY TypeParts DEF TypeInv, FrameTyped
<1>2. holder' \in [Mutexes -> Frames \cup {Nobody}]
  <2>1. CASE \E m : holder' = [holder EXCEPT ![m] = Nobody]
    BY <1>1, <2>1
  <2>2. CASE \E m : holder' = [holder EXCEPT ![m] = f]
    BY <1>1, <2>2
  <2> QED
    BY <1>1, <2>1, <2>2, HolderChanges
<1> QED
  BY <1>2 DEF ExitInv, Placed, FrameTyped

LEMMA ThreadTypedKept == ASSUME TypeInv, NEW f \in Frames, FrameStep(f), ExitInv' PROVE ThreadTyped'
<1>0. ThreadTyped /\ ExitInv
  BY TypeParts DEF TypeInv
<1>1. quit' \in [Loops -> BOOLEAN]
  BY DEF ExitInv, Placed
<1>2. {gServer, started}' \subseteq BOOLEAN /\ threadNum' \in ThreadNums
  BY <1>0, ServerChanges DEF ThreadTyped
<1>3. nLoops' \in 0 .. threadNum /\ nThreads' \in 0 .. nLoops'
  <2>0. threadNum \in Nat /\ nLoops \in 0 .. threadNum /\ nThreads \in 0 .. nLoops
    BY <1>0, ThreadNumsAssumption DEF ThreadTyped
  <2>1. CASE UNCHANGED <<nLoops, nThreads>>
    BY <2>0, <2>1
  <2>2. CASE PushLoop
    BY <1>0, <2>0, <2>2 DEF PushLoop, At, ExitInv, ThreadsMade, Making
  <2>3. CASE PushThread
    BY <1>0, <2>0, <2>3 DEF PushThread, At, ExitInv, ThreadsMade, Making
  <2> QED
    BY <2>1, <2>2, <2>3, ServerChanges
<1> QED
  BY <1>1, <1>2, <1>3, ServerChanges DEF ThreadTyped

LEMMA PostKeepsType ==
    ASSUME QueueTyped, NEW l, NEW t \in Jobs, Post(l, t)
    PROVE  QueueTyped'
<1>1. pending' = [k \in Loops |-> IF k = l THEN Append(pending[k], t) ELSE pending[k]]
  BY DEF QueueTyped, Post
<1>2. \A k \in Loops : pending[k] \in Seq(Jobs) /\ Append(pending[k], t) \in Seq(Jobs)
  BY DEF QueueTyped
<1>3. wakeup' \in [Workers -> BOOLEAN] /\ tasks' = tasks
  BY DEF QueueTyped, Post
<1> QED
  BY <1>1, <1>2, <1>3 DEF QueueTyped

LEMMA JobsAre ==
    /\ \A k \in Kinds, c \in Conns : Task(k, c) \in Jobs
    /\ \A t \in Jobs : t.conn \in Conns
    /\ \A q \in Seq(Jobs) : q # <<>> => Tail(q) \in Seq(Jobs) /\ Head(q) \in Jobs
<1>1. \A k \in Kinds, c \in Conns : Task(k, c) \in Jobs
  BY DEF Task, Jobs
<1>2. \A t \in Jobs : t.conn \in Conns
  BY DEF Jobs
<1>3. \A q \in Seq(Jobs) : q # <<>> => Tail(q) \in Seq(Jobs) /\ Head(q) \in Jobs
  OBVIOUS
<1> QED
  BY <1>1, <1>2, <1>3

LEMMA QueueTypedKept == ASSUME TypeInv, NEW f \in Frames, FrameStep(f) PROVE QueueTyped'
<1>0. QueueTyped /\ InHand
  BY TypeParts DEF TypeInv
<1>1. wakeup \in [Workers -> BOOLEAN] /\ pending \in [Loops -> Seq(Jobs)] /\ tasks \in [Loops -> Seq(Jobs)]
  BY <1>0 DEF QueueTyped
<1>2. Main \in Frames /\ Loops = Threads
  BY FramesAre
<1>3. ASSUME NEW l, NEW k \in Kinds, NEW g \in Frames, at[g] \in HandPoints,
             Post(l, Task(k, cur[g])) \/ UNCHANGED <<wakeup, pending, tasks>>
      PROVE  QueueTyped'
  <2>1. Task(k, cur[g]) \in Jobs
    BY <1>0, <1>3, JobsAre DEF InHand
  <2> QED
    BY <1>0, <1>3, <2>1, PostKeepsType DEF QueueTyped
<1>4. CASE UNCHANGED <<wakeup, pending, tasks>>
  BY <1>1, <1>4 DEF QueueTyped
<1>5. CASE Remove(f)
  <2>1. at[f] \in HandPoints /\ (Post(MainLoop, Task("remove", cur[f])) \/ UNCHANGED <<wakeup, pending, tasks>>)
    BY <1>5 DEF Remove, At, HandPoints, loopVars
  <2> QED
    BY <1>3, <2>1 DEF Kinds
<1>6. CASE Forced(f)
  <2>1. at[f] \in HandPoints /\ (Post(home[cur[f]], Task("forceClose", cur[f])) \/ UNCHANGED <<wakeup, pending, tasks>>)
    BY <1>6 DEF Forced, At, HandPoints, loopVars
  <2> QED
    BY <1>3, <2>1 DEF Kinds
<1>7. CASE Establish
  <2>1. at[Main] \in HandPoints /\ (Post(home[cur[Main]], Task("establish", cur[Main])) \/ UNCHANGED <<wakeup, pending, tasks>>)
    BY <1>7 DEF Establish, At, HandPoints, loopVars
  <2> QED
    BY <1>2, <1>3, <2>1 DEF Kinds
<1>8. CASE Destroy
  <2>1. at[Main] \in HandPoints /\ (Post(home[cur[Main]], Task("destroy", cur[Main])) \/ UNCHANGED <<wakeup, pending, tasks>>)
    BY <1>8 DEF Destroy, At, HandPoints, loopVars
  <2> QED
    BY <1>2, <1>3, <2>1 DEF Kinds
<1>9. CASE StopLoops(f) \/ Wake(f)
  BY <1>1, <1>9 DEF StopLoops, Wake, QueueTyped
<1>10. CASE f \in Threads /\ Swap(f)
  BY <1>1, <1>2, <1>10 DEF Swap, QueueTyped
<1>11. CASE f \in Threads /\ RunTask(f)
  <2>1. tasks[f] # <<>> /\ UNCHANGED <<wakeup, pending>> /\ tasks' = [tasks EXCEPT ![f] = Tail(tasks[f])]
    BY <1>11 DEF RunTask
  <2>2. Tail(tasks[f]) \in Seq(Jobs)
    BY <1>1, <1>2, <1>11, <2>1, JobsAre
  <2> QED
    BY <1>1, <2>1, <2>2 DEF QueueTyped
<1> QED
  BY <1>4, <1>5, <1>6, <1>7, <1>8, <1>9, <1>10, <1>11, QueueSteps

LEMMA AppendTyped ==
    ASSUME NEW S, NEW n \in Nat, NEW s \in [1 .. n -> S], NEW e \in S
    PROVE  /\ Append(s, e) \in [1 .. n + 1 -> S]
           /\ \A i \in 1 .. n : Append(s, e)[i] = s[i]
           /\ Append(s, e)[n + 1] = e
<1>1. s \in Seq(S) /\ Len(s) = n
  OBVIOUS
<1>2. Append(s, e) \in Seq(S) /\ Len(Append(s, e)) = n + 1
  BY <1>1, AppendProperties
<1>3. Append(s, e) \in [1 .. n + 1 -> S]
  BY <1>2, LenProperties
<1> QED
  BY <1>1, <1>3, AppendProperties

\* getNextLoop() returns the main loop if there are no workers, and otherwise one of them.
LEMMA NextLoopTyped ==
    ASSUME ThreadTyped, ConnTyped, nLoops = threadNum
    PROVE  /\ NextLoop \in Homes
           /\ Incremented(nextIndex) \in -IntMax - 1 .. IntMax
<1>1. threadNum \in Nat /\ nextIndex \in -IntMax - 1 .. IntMax /\ IntMax \in Nat /\ SizeSpan \in Int
  BY ThreadNumsAssumption, WidthAssumption DEF ThreadTyped, ConnTyped, SizeSpan
<1>2. Incremented(nextIndex) \in -IntMax - 1 .. IntMax
  BY <1>1 DEF Incremented
<1>3. Unsigned(nextIndex) \in Int
  BY <1>1 DEF Unsigned
<1>4. NextLoop \in Homes
  BY <1>1, <1>3 DEF NextLoop, Homes
<1> QED
  BY <1>2, <1>4

\* When main() accepts, all the loops have been made.
LEMMA LoopsAtAccept == ASSUME ExitInv, at[Main] = "dispatch" PROVE nLoops = threadNum
<1>1. back[Main] # "forceClose"
  BY NotRemoving DEF Removing
<1> QED
  BY <1>1 DEF ExitInv, ThreadsMade, InMainLoop, Looping

LEMMA ConnTypedKept == ASSUME TypeInv, NEW f \in Frames, FrameStep(f) PROVE ConnTyped'
<1>0. ExitInv /\ ConnTyped /\ InHand /\ ThreadTyped
  BY TypeParts DEF TypeInv
<1>1. /\ connections \subseteq 1 .. accepted /\ accepted \in 0 .. NConns
      /\ nextIndex \in -IntMax - 1 .. IntMax
      /\ home \in [1 .. accepted -> Homes] /\ state \in [1 .. accepted -> States]
      /\ ended \subseteq 1 .. accepted
  BY <1>0 DEF ConnTyped
<1>2. Homes' = Homes
  BY ServerChanges DEF Homes
<1>3. CASE UNCHANGED connVars
  BY <1>1, <1>2, <1>3 DEF connVars, acceptVars, ConnTyped
\* A state is assigned.
<1>4. ASSUME state' = state \/ \E c : \E v \in States : state' = [state EXCEPT ![c] = v],
             UNCHANGED <<connections, acceptVars, ended>>
      PROVE  ConnTyped'
  BY <1>1, <1>2, <1>4 DEF acceptVars, ConnTyped
<1>5. CASE Remove(f)
  BY <1>4, <1>5 DEF Remove, States
<1>6. CASE ForceClose(f)
  <2>1. state' = state \/ \E c : state' = [state EXCEPT ![c] = "DISCONNECTING"]
    BY <1>6 DEF ForceClose
  <2> QED
    BY <1>4, <1>6, <2>1 DEF ForceClose, States
<1>7. CASE RunTask(f)
  <2>1. state' = state \/ \E c : state' = [state EXCEPT ![c] = "CONNECTED"]
    BY <1>7 DEF RunTask
  <2> QED
    BY <1>4, <1>7, <2>1 DEF RunTask, States
<1>8. CASE Establish
  <2>1. state' = state \/ \E c : state' = [state EXCEPT ![c] = "CONNECTED"]
    BY <1>8 DEF Establish
  <2> QED
    BY <1>4, <1>8, <2>1 DEF Establish, States
<1>9. CASE Clear(f) \/ Erase
  BY <1>1, <1>2, <1>9 DEF Erase, Clear, ConnTyped, acceptVars
<1>10. CASE Insert
  <2>1. cur[Main] \in 1 .. accepted
    BY <1>0, <1>10 DEF Insert, At, InHand
  <2> QED
    BY <1>1, <1>2, <1>10, <2>1 DEF Insert, ConnTyped, acceptVars
<1>11. CASE Accept
  <2>1. nLoops = threadNum
    BY <1>0, <1>11, LoopsAtAccept DEF Accept, At
  <2>2. NextLoop \in Homes /\ nextIndex' \in -IntMax - 1 .. IntMax
    <3>1. nextIndex' = nextIndex \/ nextIndex' = Incremented(nextIndex)
      BY <1>11 DEF Accept
    <3> QED
      BY <1>0, <1>1, <2>1, <3>1, NextLoopTyped
  <2>3. accepted' = accepted + 1 /\ accepted' \in 0 .. NConns /\ accepted \in Nat
    BY <1>1, <1>11, BoundsAssumption DEF Accept
  <2>4. home' = Append(home, NextLoop) /\ state' = Append(state, "CONNECTING")
    BY <1>11 DEF Accept
  <2>5. home' \in [1 .. accepted' -> Homes]
    <3>1. Append(home, NextLoop) \in [1 .. accepted + 1 -> Homes]
      BY <1>1, <2>2, <2>3, AppendTyped
    <3> QED
      BY <2>3, <2>4, <3>1
  <2>6. state' \in [1 .. accepted' -> States]
    <3>1. "CONNECTING" \in States
      BY DEF States
    <3>2. Append(state, "CONNECTING") \in [1 .. accepted + 1 -> States]
      BY <1>1, <2>3, <3>1, AppendTyped
    <3> QED
      BY <2>3, <2>4, <3>2
  <2>7. connections' = connections /\ ended' = ended
    BY <1>11 DEF Accept
  <2> QED
    BY <1>1, <1>2, <2>2, <2>3, <2>5, <2>6, <2>7 DEF ConnTyped
<1> QED
  BY <1>3, <1>5, <1>6, <1>7, <1>8, <1>9, <1>10, <1>11, ConnSteps

\* Where a frame's step leads it, and what it has in hand there: it has accepted it, found it in
\* connections_, or in a task.
LEMMA HandGoes ==
    ASSUME TypeInv, NEW f \in Frames, FrameStep(f)
    PROVE  \E c \in {0} \cup Conns :
             /\ cur' = [cur EXCEPT ![f] = c]
             /\ at'[f] \in HandPoints => c \in Conns
             /\ f = Main /\ at'[Main] = "insert" => c \in 1 .. accepted'
             /\ \A g \in Frames : g # f /\ at'[g] \in HandPoints => at'[g] = at[g]
             /\ accepted' = accepted \/ accepted' = accepted + 1
<1>0. ExitInv /\ QueueTyped /\ ConnTyped /\ HandTyped /\ InHand
  BY TypeParts DEF TypeInv
<1>1. /\ at \in [Frames -> Points] /\ back \in [Frames -> Backs] /\ cur \in [Frames -> {0} \cup Conns]
      /\ cur[f] \in {0} \cup Conns /\ cur = [cur EXCEPT ![f] = cur[f]]
      /\ connections \subseteq Conns /\ closing \subseteq Conns /\ Backs \cap HandPoints = {}
      /\ accepted \in 0 .. NConns /\ NConns \in Nat
  BY <1>0, BoundsAssumption DEF ExitInv, Placed, ConnTyped, HandTyped, Conns, Backs, HandPoints
<1>2. at[f] \in HandPoints => cur[f] \in Conns
  BY <1>0 DEF InHand
<1> DEFINE Hands(c) ==
             /\ cur' = [cur EXCEPT ![f] = c]
             /\ at'[f] \in HandPoints => c \in Conns
             /\ f = Main /\ at'[Main] = "insert" => c \in 1 .. accepted'
             /\ \A g \in Frames : g # f /\ at'[g] \in HandPoints => at'[g] = at[g]
             /\ accepted' = accepted \/ accepted' = accepted + 1
\* It keeps what it has in hand.
<1>3. ASSUME cur' = cur, accepted' = accepted,
             \/ \E p : at' = [at EXCEPT ![f] = p] /\ p # "insert" /\ (p \in HandPoints => at[f] \in HandPoints)
             \/ at' = at
      PROVE  \E c \in {0} \cup Conns : Hands(c)
  <2>1. Hands(cur[f])
    BY <1>0, <1>1, <1>2, <1>3 DEF InHand
  <2> QED
    BY <1>1, <2>1
\* It puts it down.
<1>4. ASSUME cur' = [cur EXCEPT ![f] = 0], accepted' = accepted,
             \E p : at' = [at EXCEPT ![f] = p] /\ p \notin HandPoints
      PROVE  \E c \in {0} \cup Conns : Hands(c)
  <2>1. Hands(0)
    BY <1>1, <1>4 DEF HandPoints
  <2> QED
    BY <2>1
\* It takes another.
<1>5. ASSUME NEW c \in Conns, cur' = [cur EXCEPT ![f] = c], accepted' = accepted,
             \E p : at' = [at EXCEPT ![f] = p] /\ p # "insert"
      PROVE  \E d \in {0} \cup Conns : Hands(d)
  <2>1. Hands(c)
    BY <1>1, <1>5
  <2> QED
    BY <2>1
<1> SUFFICES \E c \in {0} \cup Conns : Hands(c)
  BY Zenon
<1> HIDE DEF Hands
<1> USE DEF At, Go, callVars, acceptVars, connVars
<1>6. CASE Lock(f)
  BY <1>3, <1>6 DEF Lock
<1>7. CASE Log(f)
  <2> DEFINE p == AfterLog(f)[at[f]]
  <2>1. /\ at[f] \in LogPoints /\ at' = [at EXCEPT ![f] = p] /\ accepted' = accepted
        /\ IF at[f] \in {"established", "removed"} THEN cur' = [cur EXCEPT ![f] = 0] ELSE cur' = cur
    BY <1>7 DEF Log, Returns, Takes
  <2>2. p # "insert" /\ (p \in HandPoints => at[f] \in HandPoints \ {"established", "removed"})
    BY <1>1, <2>1, LogGoes, LogPointsAre DEF HandPoints
  <2> HIDE DEF p
  <2> QED
    BY <1>3, <1>4, <2>1, <2>2
<1>8. CASE Remove(f)
  <2>1. at[f] \in HandPoints /\ accepted' = accepted
    BY <1>8 DEF Remove, HandPoints
  <2>2. \/ cur' = cur /\ \E p : at' = [at EXCEPT ![f] = p] /\ p # "insert"
        \/ cur' = [cur EXCEPT ![f] = 0] /\ at' = [at EXCEPT ![f] = back[f]]
    BY <1>8 DEF Remove, Returns, Takes
  <2>3. back[f] \notin HandPoints
    BY <1>1
  <2> QED
    BY <1>3, <1>4, <2>1, <2>2, <2>3
<1>9. CASE StopStep(f) /\ ~ForceClose(f) /\ ~Forced(f)
  <2>1. /\ cur' = cur /\ accepted' = accepted
        /\ at' = [at EXCEPT ![f] = at'[f]] /\ at'[f] \notin HandPoints
    BY <1>1, <1>9 DEF StopStep, Handler, Stop, StopMain, StopLoops, BeginJoin, Join, JoinSelf, CloseAll, Clear, Leave, Moves, HandPoints
  <2> QED
    BY <1>3, <2>1 DEF HandPoints
<1>10. CASE ForceClose(f)
  <2>1. /\ accepted' = accepted
        /\ \/ cur' = cur /\ at' = at
           \/ \E c \in closing : cur' = [cur EXCEPT ![f] = c] /\ at' = [at EXCEPT ![f] = "forced"]
    BY <1>10 DEF ForceClose, Takes
  <2> QED
    BY <1>1, <1>3, <1>5, <2>1
<1>11. CASE Forced(f)
  <2>1. at[f] \in HandPoints /\ accepted' = accepted
    BY <1>11 DEF Forced, HandPoints
  <2>2. \/ cur' = cur /\ at' = [at EXCEPT ![f] = "closed"]
        \/ cur' = [cur EXCEPT ![f] = 0] /\ at' = [at EXCEPT ![f] = "forceClose"]
    BY <1>11 DEF Forced, Returns, Takes
  <2>3. CASE cur' = cur /\ at' = [at EXCEPT ![f] = "closed"]
    BY <1>3, <2>1, <2>3
  <2>4. CASE cur' = [cur EXCEPT ![f] = 0] /\ at' = [at EXCEPT ![f] = "forceClose"]
    <3>1. "forceClose" \notin HandPoints
      BY DEF HandPoints
    <3> QED
      BY <1>4, <2>1, <2>4, <3>1
  <2> QED
    BY <2>2, <2>3, <2>4
<1>12. CASE f \in Threads /\ LoopStep(f) /\ ~HandleClose(f) /\ ~RunTask(f)
  <2>1. /\ cur' = cur /\ accepted' = accepted
        /\ at' = [at EXCEPT ![f] = at'[f]] /\ at'[f] \notin HandPoints
    BY <1>1, <1>12 DEF LoopStep, Reset, Publish, Test, EnterWait, Wake, Dispatched, Swap, NoTask, Moves, HandPoints
  <2> QED
    BY <1>3, <2>1 DEF HandPoints
<1>13. CASE HandleClose(f)
  <2>1. /\ accepted' = accepted /\ at' = [at EXCEPT ![f] = "closed"]
        /\ \E c \in connections : cur' = [cur EXCEPT ![f] = c]
    BY <1>13 DEF HandleClose, HasEnded, Takes
  <2>2. PICK c \in Conns : cur' = [cur EXCEPT ![f] = c]
    BY <1>1, <2>1
  <2>3. "closed" # "insert"
    OBVIOUS
  <2> QED
    BY <1>5, <2>1, <2>2, <2>3
<1>14. CASE f \in Threads /\ RunTask(f)
  <2>1. tasks[f] # <<>> /\ accepted' = accepted
    BY <1>14 DEF RunTask
  <2>2. Head(tasks[f]).conn \in Conns
    BY <1>0, <1>14, <2>1, JobsAre, FramesAre DEF QueueTyped
  <2>3. \/ cur' = cur /\ at' = at
        \/ cur' = [cur EXCEPT ![f] = Head(tasks[f]).conn] /\ \E p : at' = [at EXCEPT ![f] = p] /\ p # "insert"
    BY <1>14 DEF RunTask, Takes
  <2> QED
    BY <1>3, <1>5, <2>1, <2>2, <2>3
<1>15. CASE f = Main /\ MainStep /\ ~Spawn
  <2>1. /\ cur' = cur /\ accepted' = accepted
        /\ at' = [at EXCEPT ![f] = at'[f]] /\ at'[f] \notin HandPoints
    BY <1>1, <1>15 DEF MainStep, Assign, Start, Create, Bind, Listen, SetUp, PushLoop, PushThread, HandPoints
  <2> QED
    BY <1>3, <2>1 DEF HandPoints
<1>16. CASE f = Main /\ Spawn
  <2>1. /\ cur' = cur /\ accepted' = accepted
        /\ at' = [at EXCEPT ![nLoops + 1] = "threadStarted", ![Main] = "pushLoop"]
    BY <1>16 DEF Spawn
  <2>2. at'[Main] = "pushLoop" /\ \A g \in Frames : at'[g] = at[g] \/ at'[g] \in {"threadStarted", "pushLoop"}
    BY <1>1, <2>1, FramesAre
  <2>3. Hands(cur[f])
    BY <1>1, <1>16, <2>1, <2>2 DEF Hands, HandPoints
  <2> QED
    BY <1>1, <2>3 DEF Hands
<1>17. CASE f = Main /\ Accept
  <2>1. /\ accepted < NConns /\ accepted' = accepted + 1
        /\ cur' = [cur EXCEPT ![f] = accepted + 1] /\ at' = [at EXCEPT ![f] = "insert"]
    BY <1>17 DEF Accept, Takes
  <2>2. accepted + 1 \in Conns /\ accepted + 1 \in 1 .. accepted'
    BY <1>1, <2>1 DEF Conns
  <2>3. Hands(accepted + 1)
    BY <1>1, <2>1, <2>2 DEF Hands
  <2> QED
    BY <2>2, <2>3 DEF Hands
<1>18. CASE f = Main /\ (Insert \/ Erase \/ Destroy)
  <2>1. /\ cur' = cur /\ accepted' = accepted /\ at[f] \in HandPoints
        /\ \E p : at' = [at EXCEPT ![f] = p] /\ p # "insert"
    BY <1>18 DEF Insert, Erase, Destroy, HandPoints
  <2> QED
    BY <1>3, <2>1
<1>19. CASE f = Main /\ Establish
  <2>1. accepted' = accepted
    BY <1>19 DEF Establish
  <2>2. \/ cur' = cur /\ at' = [at EXCEPT ![f] = "established"]
        \/ cur' = [cur EXCEPT ![f] = 0] /\ at' = [at EXCEPT ![f] = "new"]
    BY <1>19 DEF Establish, Returns, Takes
  <2>3. "established" # "insert" /\ "established" \notin HandPoints /\ "new" \notin HandPoints
    BY DEF HandPoints
  <2>4. CASE cur' = cur /\ at' = [at EXCEPT ![f] = "established"]
    BY <1>3, <2>1, <2>3, <2>4
  <2>5. CASE cur' = [cur EXCEPT ![f] = 0] /\ at' = [at EXCEPT ![f] = "new"]
    BY <1>4, <2>1, <2>3, <2>5
  <2> QED
    BY <2>2, <2>4, <2>5
<1> QED
  BY <1>6, <1>7, <1>8, <1>9, <1>10, <1>11, <1>12, <1>13, <1>14, <1>15, <1>16, <1>17, <1>18, <1>19 DEF FrameStep

LEMMA HandKept == ASSUME TypeInv, NEW f \in Frames, FrameStep(f), ExitInv' PROVE HandTyped' /\ InHand'
<1>0. ExitInv /\ ThreadTyped /\ ConnTyped /\ HandTyped /\ InHand
  BY TypeParts DEF TypeInv
<1>1. PICK c \in {0} \cup Conns :
        /\ cur' = [cur EXCEPT ![f] = c]
        /\ at'[f] \in HandPoints => c \in Conns
        /\ f = Main /\ at'[Main] = "insert" => c \in 1 .. accepted'
        /\ \A g \in Frames : g # f /\ at'[g] \in HandPoints => at'[g] = at[g]
        /\ accepted' = accepted \/ accepted' = accepted + 1
  BY HandGoes
<1>2. cur \in [Frames -> {0} \cup Conns] /\ cur' \in [Frames -> {0} \cup Conns]
      /\ cur'[f] = c /\ \A g \in Frames : g # f => cur'[g] = cur[g]
  BY <1>0, <1>1 DEF HandTyped
<1>3. back' \in [Frames -> Backs]
  BY DEF ExitInv, Placed
<1>4. joining' \subseteq Workers /\ closing' \subseteq Conns
  <2>0. joining \subseteq Workers /\ closing \subseteq Conns /\ connections \subseteq Conns
    BY <1>0, BoundsAssumption DEF HandTyped, ConnTyped, Conns
  <2>1. 1 .. nThreads \subseteq Workers
    <3>1. threadNum \in ThreadNums /\ threadNum \in Nat /\ nThreads \in Nat /\ nThreads <= threadNum
      BY <1>0, ThreadNumsAssumption DEF ThreadTyped
    <3> QED
      BY <3>1 DEF Workers
  <2>2. CASE UNCHANGED stopVars
    BY <2>0, <2>2 DEF stopVars
  <2>3. CASE BeginJoin(f) \/ Join(f)
    BY <2>0, <2>1, <2>3 DEF BeginJoin, Join
  <2>4. CASE CloseAll(f) \/ ForceClose(f)
    BY <2>0, <2>4 DEF CloseAll, ForceClose
  <2> QED
    BY <2>2, <2>3, <2>4, StopSteps
<1>5. \A g \in Frames : at'[g] \in HandPoints => cur'[g] \in Conns
  BY <1>0, <1>1, <1>2 DEF InHand
<1>6. at'[Main] = "insert" => cur'[Main] \in 1 .. accepted'
  <2>1. CASE f = Main
    BY <1>1, <1>2, <2>1
  <2>2. CASE f # Main /\ at'[Main] = "insert"
    <3>1. at[Main] = "insert" /\ cur'[Main] = cur[Main]
      BY <1>1, <1>2, <2>2, FramesAre DEF HandPoints
    <3>2. cur[Main] \in 1 .. accepted /\ accepted \in Int
      BY <1>0, <3>1, BoundsAssumption DEF InHand, ConnTyped
    <3> QED
      BY <1>1, <3>1, <3>2
  <2> QED
    BY <2>1, <2>2
<1> QED
  BY <1>2, <1>3, <1>4, <1>5, <1>6 DEF HandTyped, InHand

\* Types do not depend on what the other steps change: they move a thread, start a handler, or end a peer.
LEMMA OthersKeepTypes ==
    ASSUME TypeInv, ExitInv',
           UNCHANGED <<serverVars, holder, callVars, loopVars, connections, acceptVars, state, stopVars>>,
           \A f \in Frames : at'[f] \in HandPoints => at'[f] = at[f],
           ended' \subseteq 1 .. accepted
    PROVE  TypeInv'
<1>0. /\ FrameTyped /\ ThreadTyped /\ QueueTyped /\ ConnTyped /\ HandTyped /\ InHand
  BY TypeParts DEF TypeInv
<1> USE DEF serverVars, callVars, loopVars, acceptVars, stopVars
<1>1. FrameTyped'
  BY <1>0 DEF FrameTyped, ExitInv, Placed
<1>2. ThreadTyped' /\ QueueTyped'
  BY <1>0 DEF ThreadTyped, QueueTyped
<1>3. ConnTyped'
  BY <1>0 DEF ConnTyped, Homes
<1>4. HandTyped'
  BY <1>0 DEF HandTyped
<1>5. InHand'
  BY <1>0, FramesAre DEF InHand, HandPoints
<1> QED
  BY <1>1, <1>2, <1>3, <1>4, <1>5 DEF TypeInv, TypeOK, FrameTyped, ThreadTyped, QueueTyped, ConnTyped, HandTyped, Jobs,
     Homes, States, Backs

LEMMA TypeInvInit == Init => TypeInv
<1> SUFFICES ASSUME Init PROVE TypeInv
  OBVIOUS
<1>1. ExitInv
  BY ExitInit
<1>2. FrameTyped
  <2>1. holder \in [Mutexes -> Frames \cup {Nobody}]
    BY DEF Init
  <2> QED
    BY <1>1, <2>1 DEF FrameTyped, ExitInv, Placed
<1>3. ThreadTyped
  <2>1. threadNum \in ThreadNums /\ nLoops \in 0 .. threadNum /\ nThreads \in 0 .. nLoops
    BY ThreadNumsAssumption DEF Init
  <2>2. {gServer, started} \subseteq BOOLEAN
    BY DEF Init
  <2> QED
    BY <1>1, <2>1, <2>2 DEF ThreadTyped, ExitInv, Placed
<1>4. QueueTyped
  BY DEF Init, QueueTyped
<1>5. ConnTyped
  <2>1. \A S : <<>> \in [1 .. 0 -> S]
    OBVIOUS
  <2> QED
    BY <2>1, BoundsAssumption, WidthAssumption DEF Init, ConnTyped
<1>6. HandTyped
  BY DEF Init, HandTyped, Backs
<1>7. InHand
  <2>1. \A f \in Frames : at[f] \notin HandPoints
    BY DEF Init, HandPoints
  <2> QED
    BY <2>1, FramesAre DEF InHand, HandPoints
<1> QED
  BY <1>1, <1>2, <1>3, <1>4, <1>5, <1>6, <1>7, TypeParts DEF TypeInv

LEMMA TypeInvStep == TypeInv /\ [Next]_vars => TypeInv'
<1> SUFFICES ASSUME TypeInv, [Next]_vars PROVE TypeInv'
  OBVIOUS
<1>0. ExitInv' /\ ExitInv /\ ConnTyped
  BY ExitStep, TypeParts DEF TypeInv
<1>1. ASSUME NEW f \in Frames, FrameStep(f) PROVE TypeInv'
  <2>1. FrameTyped' /\ ThreadTyped' /\ QueueTyped' /\ ConnTyped' /\ HandTyped' /\ InHand'
    BY <1>0, <1>1, FrameTypedKept, ThreadTypedKept, QueueTypedKept, ConnTypedKept, HandKept
  <2>2. TypeOK'
    BY <2>1 DEF TypeOK, FrameTyped, ThreadTyped, QueueTyped, ConnTyped, HandTyped, Jobs, Homes, States, Backs
  <2> QED
    BY <1>0, <2>1, <2>2 DEF TypeInv
<1>2. ASSUME NEW t \in Threads, Signal(t) PROVE TypeInv'
  <2>1. Placed
    BY <1>0 DEF ExitInv
  <2>2. \A f \in Frames : at'[f] \in HandPoints => at'[f] = at[f]
    <3> TAKE f \in Frames
    <3>1. CASE f \in Handlers
      BY <1>2, <2>1, <3>1, SignalGoes DEF HandPoints
    <3>2. CASE f \in Threads
      BY <1>2, <2>1, <3>2, SignalGoes DEF HandPoints
    <3> QED
      BY <3>1, <3>2 DEF Frames
  <2> QED
    BY <1>0, <1>2, <2>2, OthersKeepTypes DEF Signal, connVars, ConnTyped
<1>3. ASSUME NEW w \in Workers, Timeout(w) PROVE TypeInv'
  <2>1. \A f \in Frames : at'[f] \in HandPoints => at'[f] = at[f]
    BY <1>0, <1>3 DEF Timeout, Moves, Go, HandPoints, ExitInv, Placed
  <2> QED
    BY <1>0, <1>3, <2>1, OthersKeepTypes DEF Timeout, Moves, connVars, ConnTyped
<1>4. ASSUME NEW c \in Leaving, PeerEnds(c) PROVE TypeInv'
  <2>1. ended' \subseteq 1 .. accepted
    BY <1>0, <1>4, BoundsAssumption DEF PeerEnds, ConnTyped
  <2> QED
    BY <1>0, <1>4, <2>1, OthersKeepTypes DEF PeerEnds
<1>5. CASE UNCHANGED vars
  BY <1>0, <1>5, OthersKeepTypes DEF vars, connVars, ConnTyped
<1> QED
  BY <1>1, <1>2, <1>3, <1>4, <1>5 DEF Next

\* Type correctness of the server's life: every thread and every handler is at a point of the code, every
\* queued task is for a connection that was accepted, every connection has a loop that exists and a state,
\* and next_loop_index_ stays an int while it wraps.
THEOREM ServerStopTypeCorrect == Spec => []TypeOK
<1>1. Spec => []TypeInv
  BY TypeInvInit, TypeInvStep, PTL DEF Spec
<1> QED
  BY <1>1, PTL DEF TypeInv
-----------------------------------------------------------------------------
\* A step of a frame does not move another, but for the thread that start() makes.
LEMMA OthersStay ==
    ASSUME TypeInv, NEW f \in Frames, FrameStep(f), NEW g \in Frames, g # f
    PROVE  (at'[g] = at[g] \/ at'[g] = "threadStarted") /\ back'[g] = back[g]
<1>0. at \in [Frames -> Points] /\ back \in [Frames -> Backs]
  BY DEF TypeInv, ExitInv, Placed
<1> USE DEF At, Go, Takes, Returns, callVars
<1>1. CASE f \in Threads /\ LoopStep(f)
  BY <1>0, <1>1 DEF LoopStep, Reset, Publish, Test, EnterWait, Wake, Dispatched, HandleClose, Swap, NoTask, RunTask, Moves
<1>2. CASE StopStep(f) /\ ~ForceClose(f) /\ ~Forced(f)
  BY <1>0, <1>2 DEF StopStep, Handler, Stop, StopMain, StopLoops, BeginJoin, Join, JoinSelf, CloseAll, Clear, Leave, Moves
<1>3. CASE ForceClose(f) \/ Forced(f)
  BY <1>0, <1>3 DEF ForceClose, Forced
<1>4. CASE Lock(f) \/ Log(f) \/ Remove(f)
  BY <1>0, <1>4 DEF Lock, Log, Remove
<1>5. CASE f = Main /\ MainStep
  BY <1>0, <1>5 DEF MainStep, Assign, Start, Create, Bind, Listen, SetUp, Spawn, PushLoop, PushThread
<1>6. CASE f = Main /\ (Accept \/ Insert \/ Establish \/ Erase \/ Destroy)
  BY <1>0, <1>6 DEF Accept, Insert, Establish, Erase, Destroy
<1> QED
  BY <1>1, <1>2, <1>3, <1>4, <1>5, <1>6 DEF FrameStep

\* Who sets and resets quit_, and that only the thread that is woken reads its eventfd.
LEMMA WakeupsStay ==
    ASSUME TypeInv, NEW f \in Frames, FrameStep(f), NEW v \in Workers
    PROVE  /\ quit' = quit \/ Reset(f) \/ StopMain(f) \/ StopLoops(f)
           /\ wakeup[v] => wakeup'[v] \/ (f = v /\ Wake(v))
<1> DEFINE Stays == quit' = quit /\ (wakeup[v] => wakeup'[v])
<1>0. (\A l, t : Post(l, t) => Stays) /\ (UNCHANGED loopVars => Stays)
  BY DEF Post, loopVars
<1>1. CASE f \in Threads /\ LoopStep(f) /\ ~Reset(f) /\ ~Wake(f)
  BY <1>1 DEF LoopStep, Publish, Test, EnterWait, Dispatched, HandleClose, Swap, NoTask, RunTask, Moves, loopVars
<1>2. CASE f \in Threads /\ (Reset(f) \/ Wake(f))
  BY <1>2 DEF Reset, Wake
<1>3. CASE StopStep(f) /\ ~StopMain(f) /\ ~StopLoops(f) /\ ~Forced(f)
  BY <1>3 DEF StopStep, Handler, Stop, BeginJoin, Join, JoinSelf, CloseAll, ForceClose, Clear, Leave, Moves, loopVars
<1>4. CASE StopMain(f) \/ StopLoops(f)
  BY <1>4 DEF StopMain, StopLoops
<1>5. CASE Lock(f) \/ Log(f) \/ Accept \/ Insert \/ Erase
  BY <1>5 DEF Lock, Log, Accept, Insert, Erase, loopVars
<1>6. CASE MainStep
  BY <1>6 DEF MainStep, Assign, Start, Create, Bind, Listen, SetUp, Spawn, PushLoop, PushThread, loopVars
<1> HIDE DEF Stays
<1>7. CASE Remove(f)
  <2>1. Stays
    BY <1>0, <1>7 DEF Remove
  <2> QED
    BY <2>1 DEF Stays
<1>8. CASE Forced(f)
  <2>1. Stays
    BY <1>0, <1>8 DEF Forced
  <2> QED
    BY <2>1 DEF Stays
<1>9. CASE Establish
  <2>1. Stays
    BY <1>0, <1>9 DEF Establish
  <2> QED
    BY <2>1 DEF Stays
<1>10. CASE Destroy
  <2>1. Stays
    BY <1>0, <1>10 DEF Destroy
  <2> QED
    BY <2>1 DEF Stays
<1> QED
  BY <1>1, <1>2, <1>3, <1>4, <1>5, <1>6, <1>7, <1>8, <1>9, <1>10 DEF FrameStep, Stays

\* Also between its test of quit_ and its wait a worker that has been stopped is sure to be woken.
Sleeping == {"poll", "wait"}

WakeInv == \A w \in Workers : quit[w] /\ at[w] \in Sleeping => wakeup[w] \/ \E h \in Handlers : on[h] = w

LEMMA WakeKept ==
    ASSUME TypeInv, WakeInv, NEW f \in Frames, FrameStep(f), NEW v \in Workers, quit'[v], at'[v] \in Sleeping
    PROVE  wakeup'[v] \/ \E h \in Handlers : on'[h] = v
<1>0. /\ ExitInv /\ at \in [Frames -> Points] /\ quit \in [Loops -> BOOLEAN] /\ on \in [Handlers -> Threads]
      /\ wakeup \in [Workers -> BOOLEAN] /\ at[v] \in OfWorker /\ back[v] \in {"dispatch", "run"}
  BY TypeParts DEF TypeInv, ExitInv, Placed, QueueTyped
<1>1. on' = on
  BY ServerChanges
<1>2. CASE f = v
  <2>1. CASE Lock(v)
    BY <2>1 DEF Lock, WakeInv, signalVars, loopVars
  <2>2. CASE Log(v)
    <3>1. at[v] \in LogPoints /\ at'[v] = AfterLog(v)[at[v]]
      BY <1>0, <2>2, FramesAre DEF Log, Go
    <3>2. AfterLog(v)[at[v]] \notin Sleeping
      BY <1>0, <3>1, LogGoes, LogPointsAre DEF Sleeping
    <3> QED
      BY <3>1, <3>2
  <2>3. CASE Remove(v)
    BY <1>0, <2>3, FramesAre DEF Remove, Go, Sleeping
  <2>4. CASE StopStep(v)
    BY <1>0, <2>4, StopGoes, FramesAre DEF Stopping, OfWorker
  <2>5. CASE Test(v)
    BY <1>0, <2>5, FramesAre DEF Test, Moves, Go, Sleeping, loopVars
  <2>6. CASE EnterWait(v)
    BY <1>1, <2>6 DEF EnterWait, Moves, At, Sleeping, loopVars, WakeInv
  <2>7. CASE LoopStep(v) /\ ~Test(v) /\ ~EnterWait(v)
    BY <1>0, <2>7, FramesAre DEF LoopStep, Reset, Publish, Wake, Dispatched, HandleClose, Swap, NoTask, RunTask, Moves, At, Go, Sleeping
  <2> QED
    BY <1>2, <2>1, <2>2, <2>3, <2>4, <2>5, <2>6, <2>7, FramesAre DEF FrameStep
<1>3. CASE f # v
  <2>0. at'[v] = at[v]
    BY <1>3, OthersStay, FramesAre DEF Sleeping
  <2>1. wakeup[v] => wakeup'[v]
    BY <1>3, WakeupsStay
  <2>2. CASE quit'[v] = quit[v]
    BY <1>1, <2>0, <2>1, <2>2 DEF WakeInv
  <2>3. CASE StopLoops(f) /\ quit'[v] # quit[v]
    <3>1. wakeup'[v] \/ InLoop(f, v)
      <4>1. v \in 1 .. nLoops
        BY <1>0, <2>3, FramesAre DEF StopLoops
      <4>2. v <= nLoops
        BY <4>1
      <4> QED
        BY <2>3, <4>2 DEF StopLoops
    <3>2. LoopThread(v) = v
      BY <2>0 DEF LoopThread, Sleeping
    <3>3. InLoop(f, v) => \E h \in Handlers : on[h] = v
      BY <1>3, <3>2 DEF InLoop, ThreadOf
    <3> QED
      BY <1>1, <3>1, <3>3
  <2>4. quit'[v] = quit[v] \/ StopLoops(f)
    <3>1. CASE Reset(f)
      BY <1>0, <1>3, <3>1, FramesAre DEF Reset
    <3>2. CASE StopMain(f)
      BY <1>0, <3>2, FramesAre DEF StopMain
    <3> QED
      BY <3>1, <3>2, WakeupsStay
  <2> QED
    BY <2>2, <2>3, <2>4
<1> QED
  BY <1>2, <1>3

LEMMA WakeStep == TypeInv /\ WakeInv /\ [Next]_vars => WakeInv'
<1> SUFFICES ASSUME TypeInv, WakeInv, [Next]_vars PROVE WakeInv'
  OBVIOUS
<1>0. Placed
  BY DEF TypeInv, ExitInv
<1>1. ASSUME NEW f \in Frames, FrameStep(f) PROVE WakeInv'
  BY <1>1, WakeKept DEF WakeInv
<1>2. ASSUME NEW t \in Threads, Signal(t) PROVE WakeInv'
  <2>1. \A v \in Workers : at'[v] \in Sleeping => at'[v] = at[v]
    BY <1>0, <1>2, SignalGoes, FramesAre DEF Sleeping
  <2>2. \A v \in Workers, h \in Handlers : on[h] = v => on'[h] = v
    BY <1>0, <1>2, SignalGoes, FramesAre
  <2>3. UNCHANGED <<quit, wakeup>>
    BY <1>2 DEF Signal, loopVars
  <2> QED
    BY <2>1, <2>2, <2>3 DEF WakeInv
<1>3. ASSUME NEW w \in Workers, Timeout(w) PROVE WakeInv'
  <2>1. \A v \in Workers : at'[v] \in Sleeping => at'[v] = at[v]
    BY <1>0, <1>3, FramesAre DEF Timeout, Moves, Go, Sleeping, Placed
  <2>2. UNCHANGED <<quit, wakeup, on>>
    BY <1>3 DEF Timeout, Moves, Go, loopVars, signalVars
  <2> QED
    BY <2>1, <2>2 DEF WakeInv
<1>4. CASE (\E c \in Leaving : PeerEnds(c)) \/ UNCHANGED vars
  BY <1>4 DEF PeerEnds, vars, loopVars, signalVars, WakeInv
<1> QED
  BY <1>1, <1>2, <1>3, <1>4 DEF Next

\* A worker that has been told to stop is sure to be woken, whatever it was doing: it has seen quit_, or
\* its eventfd is readable.  The exception is one that a signal has reached, whose stop() does not wake
\* the thread that it runs on.
THEOREM StopWakesWorkers == Spec => []StoppedWorkerWakes
<1>1. Init => WakeInv
  <2>1. Init => \A w \in Workers : quit[w] = FALSE
    BY FramesAre DEF Init
  <2> QED
    BY <2>1 DEF WakeInv
<1>2. WakeInv => StoppedWorkerWakes
  BY DEF WakeInv, StoppedWorkerWakes, Sleeping
<1> QED
  BY <1>1, <1>2, WakeStep, TypeInvInit, TypeInvStep, PTL DEF Spec
-----------------------------------------------------------------------------
\* Where main() is before start() has set started_.
BeforeStart == {"created", "assign", "config", "start"}

\* While started_ is set, and before it has been, nobody is behind the exchange(false) of stop().
OnceInv ==
    /\ StopsOnce
    /\ started \/ at[Main] \in BeforeStart => InStop = {}
    /\ at[Main] \in BeforeStart => ~started

\* A frame gets into stop() through the exchange.
LEMMA StopEntered ==
    ASSUME TypeInv, NEW f \in Frames, FrameStep(f), f \in InStop'
    PROVE  f \in InStop \/ (Stop(f) /\ started)
<1> DEFINE Body == {"stopping", "stopMain", "stopLoops", "beginJoin", "join", "lockConns", "forceClose", "stopped", "aborted"}
<1>0. /\ at \in [Frames -> Points] /\ back \in [Frames -> Backs]
      /\ at[f] = "forced" => back[f] = "forceClose"
  BY DEF TypeInv, ExitInv, Placed
<1>1. (at[f] \in Body \/ back[f] = "forceClose" => f \in InStop) /\ (at'[f] \in Body \/ back'[f] = "forceClose")
  BY DEF InStop
<1> USE DEF At, Go, Takes, Returns, callVars
<1>2. CASE f \in Threads /\ LoopStep(f)
  <2>1. at'[f] \notin Body /\ (back'[f] = back[f] \/ back'[f] # "forceClose")
    BY <1>0, <1>2 DEF LoopStep, Reset, Publish, Test, EnterWait, Wake, Dispatched, HandleClose, Swap, NoTask, RunTask, Moves
  <2> QED
    BY <1>1, <2>1
<1>3. CASE Stop(f)
  BY <1>0, <1>1, <1>3 DEF Stop
<1>4. CASE ForceClose(f) \/ Forced(f)
  BY <1>0, <1>1, <1>4 DEF ForceClose, Forced
<1>5. CASE StopMain(f) \/ StopLoops(f) \/ BeginJoin(f) \/ Join(f) \/ JoinSelf(f) \/ CloseAll(f) \/ Clear(f)
  BY <1>0, <1>1, <1>5 DEF StopMain, StopLoops, BeginJoin, Join, JoinSelf, CloseAll, Clear, Moves
<1>6. CASE Handler(f) \/ Leave(f)
  <2>1. at'[f] \notin Body /\ back' = back
    BY <1>0, <1>6 DEF Handler, Leave, Moves
  <2> QED
    BY <1>1, <2>1
<1>7. CASE Lock(f)
  BY <1>1, <1>7 DEF Lock
<1>8. CASE Remove(f)
  <2>1. at'[f] \notin Body \/ at'[f] = back[f]
    BY <1>0, <1>8 DEF Remove
  <2>2. back'[f] = back[f] \/ back'[f] # "forceClose"
    BY <1>0, <1>8 DEF Remove
  <2> QED
    BY <1>0, <1>1, <2>1, <2>2 DEF Backs
<1>9. CASE Log(f)
  <2>1. at[f] \in LogPoints /\ at'[f] = AfterLog(f)[at[f]] /\ (back'[f] = back[f] \/ back'[f] # "forceClose")
    BY <1>0, <1>9 DEF Log
  <2>2. at'[f] \in Body => at[f] \in Body \/ back[f] = "forceClose"
    BY <1>0, <2>1, LogGoes, LogPointsAre DEF Backs
  <2> QED
    BY <1>1, <2>1, <2>2
<1>10. CASE f = Main /\ MainStep
  <2>1. at'[f] \notin Body /\ back' = back
    BY <1>0, <1>10, FramesAre DEF MainStep, Assign, Start, Create, Bind, Listen, SetUp, Spawn, PushLoop, PushThread
  <2> QED
    BY <1>1, <2>1
<1>11. CASE f = Main /\ (Accept \/ Insert \/ Establish \/ Erase \/ Destroy)
  <2>1. at'[f] \notin Body /\ (back'[f] = back[f] \/ back'[f] # "forceClose")
    BY <1>0, <1>11 DEF Accept, Insert, Establish, Erase, Destroy
  <2> QED
    BY <1>1, <2>1
<1> QED
  BY <1>2, <1>3, <1>4, <1>5, <1>6, <1>7, <1>8, <1>9, <1>10, <1>11 DEF FrameStep, StopStep

\* main() does not come back to where it was before start() set started_.
LEMMA StartedOnce ==
    ASSUME TypeInv, NEW f \in Frames, FrameStep(f)
    PROVE  /\ started' = started \/ (Start /\ f = Main) \/ (Stop(f) /\ started' = FALSE)
           /\ at'[Main] \in BeforeStart => at[Main] \in BeforeStart /\ ~(Start /\ f = Main)
<1>0. at \in [Frames -> Points] /\ back \in [Frames -> Backs]
  BY DEF TypeInv, ExitInv, Placed
<1>1. started' = started \/ (Start /\ f = Main) \/ (Stop(f) /\ started' = FALSE)
  <2>1. CASE f \in Threads /\ LoopStep(f)
    BY <2>1 DEF LoopStep, Reset, Publish, Test, EnterWait, Wake, Dispatched, HandleClose, Swap, NoTask, RunTask, Moves, serverVars
  <2>2. CASE StopStep(f)
    BY <2>2 DEF StopStep, Handler, Stop, StopMain, StopLoops, BeginJoin, Join, JoinSelf, CloseAll, ForceClose, Forced, Clear,
           Leave, Moves, serverVars
  <2>3. CASE Lock(f) \/ Log(f) \/ Remove(f)
    BY <2>3 DEF Lock, Log, Remove, serverVars
  <2>4. CASE f = Main /\ MainStep
    BY <2>4 DEF MainStep, Assign, Create, Bind, Listen, SetUp, Spawn, PushLoop, PushThread, serverVars
  <2>5. CASE Accept \/ Insert \/ Establish \/ Erase \/ Destroy
    BY <2>5 DEF Accept, Insert, Establish, Erase, Destroy, serverVars
  <2> QED
    BY <2>1, <2>2, <2>3, <2>4, <2>5 DEF FrameStep
<1>2. at'[Main] \in BeforeStart => at[Main] \in BeforeStart /\ ~(Start /\ f = Main)
  <2>1. Start => at'[Main] = "create"
    BY <1>0, FramesAre DEF Start, Go
  <2>2. CASE f # Main
    BY <2>2, OthersStay, FramesAre DEF BeforeStart
  <2>3. CASE f = Main
    <3>1. CASE Log(Main)
      <4>1. at[Main] \in LogPoints /\ at'[Main] = AfterLog(Main)[at[Main]]
        BY <1>0, <3>1, FramesAre DEF Log, Go
      <4>2. at'[Main] \in BeforeStart => at[Main] \in BeforeStart
        BY <1>0, <4>1, LogGoes, LogPointsAre, FramesAre DEF BeforeStart, Backs
      <4> QED
        BY <2>1, <4>2 DEF BeforeStart
    <3>2. CASE Lock(Main)
      BY <2>1, <3>2 DEF Lock, BeforeStart
    <3>3. CASE Remove(Main)
      <4>1. at'[Main] \notin BeforeStart
        BY <1>0, <3>3, FramesAre DEF Remove, Go, BeforeStart, Backs
      <4> QED
        BY <4>1
    <3>4. CASE StopStep(Main)
      <4>1. PICK p : at' = [at EXCEPT ![Main] = p] /\ (p \in AtEnd \/ p = "closed" \/ p = "off")
        BY <3>4, StopGoes, FramesAre DEF TypeInv
      <4> QED
        BY <1>0, <4>1, FramesAre DEF BeforeStart, AtEnd
    <3>5. CASE LoopStep(Main)
      <4>1. at'[Main] \notin BeforeStart
        BY <1>0, <3>5, FramesAre DEF LoopStep, Reset, Publish, Test, EnterWait, Wake, Dispatched, HandleClose, Swap, NoTask, RunTask,
               Moves, At, Go, BeforeStart
      <4> QED
        BY <4>1
    <3>6. CASE MainStep
      <4>1. at'[Main] \in BeforeStart => at[Main] = "assign"
        BY <1>0, <3>6, FramesAre DEF MainStep, Assign, Start, Create, Bind, Listen, SetUp, Spawn, PushLoop, PushThread, At, Go, BeforeStart
      <4> QED
        BY <2>1, <4>1 DEF BeforeStart
    <3>7. CASE Accept \/ Insert \/ Establish \/ Erase \/ Destroy
      <4>1. at'[Main] \notin BeforeStart
        BY <1>0, <3>7, FramesAre DEF Accept, Insert, Establish, Erase, Destroy, Go, BeforeStart
      <4> QED
        BY <4>1
    <3> QED
      BY <2>3, <3>1, <3>2, <3>3, <3>4, <3>5, <3>6, <3>7 DEF FrameStep
  <2> QED
    BY <2>2, <2>3
<1> QED
  BY <1>1, <1>2

LEMMA OnceKept == ASSUME TypeInv, OnceInv, NEW f \in Frames, FrameStep(f) PROVE OnceInv'
<1>1. \A g \in Frames : g \in InStop' => g \in InStop \/ (g = f /\ Stop(f) /\ started)
  <2> TAKE g \in Frames
  <2>1. CASE g = f
    BY <2>1, StopEntered
  <2>2. CASE g # f
    BY <2>2, OthersStay DEF InStop
  <2> QED
    BY <2>1, <2>2
<1>2. InStop' \subseteq Frames /\ (started => InStop = {})
  BY DEF InStop, OnceInv
<1>3. StopsOnce'
  BY <1>1, <1>2 DEF OnceInv, StopsOnce
<1>4. (started \/ at[Main] \in BeforeStart => InStop = {})'
  <2>1. CASE Stop(f) /\ started
    <3>1. ~started' /\ at'[Main] \notin BeforeStart
      BY <2>1, StartedOnce DEF OnceInv, Stop
    <3> QED
      BY <3>1
  <2>2. CASE ~(Stop(f) /\ started)
    <3>1. InStop' \subseteq InStop
      BY <1>1, <1>2, <2>2
    <3>2. started' \/ at'[Main] \in BeforeStart => started \/ at[Main] \in BeforeStart
      BY StartedOnce DEF Start, At, BeforeStart
    <3> QED
      BY <3>1, <3>2 DEF OnceInv
  <2> QED
    BY <2>1, <2>2
<1>5. (at[Main] \in BeforeStart => ~started)'
  BY StartedOnce DEF OnceInv
<1> QED
  BY <1>3, <1>4, <1>5 DEF OnceInv

LEMMA OnceStep == TypeInv /\ OnceInv /\ [Next]_vars => OnceInv'
<1> SUFFICES ASSUME TypeInv, OnceInv, [Next]_vars PROVE OnceInv'
  OBVIOUS
<1>0. Placed
  BY DEF TypeInv, ExitInv
<1>1. ASSUME UNCHANGED <<started, back>>, \A f \in Frames : at'[f] = at[f] \/ at'[f] \in {"received", "swap"}
      PROVE  OnceInv'
  <2>1. InStop' \subseteq InStop
    BY <1>1 DEF InStop
  <2>2. at'[Main] \in BeforeStart => at[Main] \in BeforeStart
    BY <1>1, FramesAre DEF BeforeStart
  <2> QED
    BY <1>1, <2>1, <2>2 DEF OnceInv, StopsOnce
<1>2. ASSUME NEW t \in Threads, Signal(t) PROVE OnceInv'
  <2>1. \A f \in Frames : at'[f] = at[f] \/ at'[f] \in {"received", "swap"}
    <3> TAKE f \in Frames
    <3>1. CASE f \in Handlers
      BY <1>0, <1>2, <3>1, SignalGoes
    <3>2. CASE f \in Threads
      BY <1>0, <1>2, <3>2, SignalGoes
    <3> QED
      BY <3>1, <3>2 DEF Frames
  <2> QED
    BY <1>1, <1>2, <2>1 DEF Signal, serverVars, callVars
<1>3. ASSUME NEW w \in Workers, Timeout(w) PROVE OnceInv'
  <2>1. \A f \in Frames : at'[f] = at[f] \/ at'[f] \in {"received", "swap"}
    BY <1>0, <1>3 DEF Timeout, Moves, Go, Placed
  <2> QED
    BY <1>1, <1>3, <2>1 DEF Timeout, Moves, serverVars, callVars
<1>4. CASE (\E c \in Leaving : PeerEnds(c)) \/ UNCHANGED vars
  BY <1>1, <1>4 DEF PeerEnds, vars, serverVars, callVars
<1> QED
  BY <1>2, <1>3, <1>4, OnceKept DEF Next

\* The work of stop() is done by one caller: the exchange(false) lets through whoever finds started_ set, on
\* whichever thread, and only start() sets it, once, when nobody can be behind it.
THEOREM StopRunsOnce == Spec => []StopsOnce
<1>1. Init => OnceInv
  <2> SUFFICES ASSUME Init PROVE OnceInv
    OBVIOUS
  <2>1. \A f \in Frames : at[f] \in {"created", "none", "off"} /\ back[f] = "run"
    BY DEF Init
  <2>2. ~started /\ InStop = {}
    BY <2>1 DEF Init, InStop
  <2> QED
    BY <2>2 DEF OnceInv, StopsOnce
<1>2. OnceInv => StopsOnce
  BY DEF OnceInv
<1> QED
  BY <1>1, <1>2, OnceStep, TypeInvInit, TypeInvStep, PTL DEF Spec
-----------------------------------------------------------------------------
\* a and b leave the same remainder when they are divided by n.
Congruent(a, b, n) == \E q \in Int : a = b + q * n

LEMMA DivMod ==
    ASSUME NEW a \in Int, NEW n \in Nat \ {0}
    PROVE  a % n \in 0 .. n - 1 /\ a \div n \in Int /\ a = (a \div n) * n + (a % n)
OBVIOUS

LEMMA CongruentSelf == \A a \in Int, n \in Int : Congruent(a, a, n)
<1>1. \A a \in Int, n \in Int : a = a + 0 * n
  OBVIOUS
<1> QED
  BY <1>1 DEF Congruent

LEMMA CongruentLaws ==
    ASSUME NEW a \in Int, NEW b \in Int, NEW n \in Nat \ {0}, Congruent(a, b, n)
    PROVE  /\ \A c \in Int : Congruent(a + c, b + c, n)
           /\ Congruent(b, a, n)
           /\ \A c \in Int : Congruent(b, c, n) => Congruent(a, c, n)
<1> PICK q \in Int : a = b + q * n
  BY DEF Congruent
<1>1. b = a + (-q) * n /\ -q \in Int
  OBVIOUS
<1>2. \A c \in Int : a + c = (b + c) + q * n
  OBVIOUS
<1>3. ASSUME NEW c \in Int, Congruent(b, c, n) PROVE Congruent(a, c, n)
  <2> PICK r \in Int : b = c + r * n
    BY <1>3 DEF Congruent
  <2>1. a = c + (q + r) * n
    OBVIOUS
  <2> QED
    BY <2>1 DEF Congruent
<1> QED
  BY <1>1, <1>2, <1>3 DEF Congruent

LEMMA CongruentRest ==
    ASSUME NEW a \in Int, NEW n \in Nat \ {0}
    PROVE  Congruent(a % n, a, n)
<1>1. a = (a \div n) * n + (a % n) /\ a \div n \in Int /\ a % n \in Int
  BY DivMod
<1> DEFINE q == -(a \div n)
<1>2. a % n = a + q * n /\ q \in Int
  BY <1>1
<1> HIDE DEF q
<1> QED
  BY <1>2 DEF Congruent

LEMMA CongruentZero ==
    ASSUME NEW a \in Int, NEW n \in Nat \ {0}, a % n = 0
    PROVE  Congruent(a, 0, n)
<1>1. a = 0 + (a \div n) * n /\ a \div n \in Int
  BY DivMod
<1> QED
  BY <1>1 DEF Congruent

LEMMA CongruentMultiple ==
    ASSUME NEW a \in Int, NEW m \in Nat \ {0}, NEW n \in Nat \ {0}, Congruent(a, 0, m), Congruent(m, 0, n)
    PROVE  Congruent(a, 0, n)
<1> PICK q \in Int : a = 0 + q * m
  BY DEF Congruent
<1> PICK r \in Int : m = 0 + r * n
  BY DEF Congruent
<1>1. a = 0 + (q * r) * n /\ q * r \in Int
  OBVIOUS
<1> QED
  BY <1>1 DEF Congruent

LEMMA CongruentUnique ==
    ASSUME NEW n \in Nat \ {0}, NEW a \in 1 .. n, NEW b \in 1 .. n, Congruent(a, b, n)
    PROVE  a = b
<1> PICK q \in Int : a = b + q * n
  BY DEF Congruent
<1>1. CASE q = 0
  BY <1>1
<1>2. CASE q >= 1
  <2>1. q * n >= n
    BY <1>2
  <2> QED
    BY <2>1
<1>3. CASE q <= -1
  <2>1. q * n <= -n
    BY <1>3
  <2> QED
    BY <2>1
<1> QED
  BY <1>1, <1>2, <1>3

-----------------------------------------------------------------------------
\* The c-th connection goes to worker c, counted round and round; and next_loop_index_, which has wrapped any
\* number of times, is as far as the number of connections.
InTurn ==
    threadNum > 0 /\ IntSpan % threadNum = 0 =>
        /\ \A c \in 1 .. accepted : Congruent(c, home[c], threadNum)
        /\ Congruent(nextIndex, accepted, threadNum)

SpreadInv == TypeInv /\ InTurn

\* Neither the wrap of an int nor its conversion to a size_t changes the remainder.
LEMMA WidthsAreMultiples ==
    ASSUME NEW n \in Nat \ {0}, IntSpan % n = 0
    PROVE  /\ IntSpan \in Nat \ {0} /\ SizeSpan \in Nat \ {0}
           /\ Congruent(IntSpan, 0, n) /\ Congruent(SizeSpan, 0, n)
<1>1. IntSpan \in Nat \ {0} /\ SizeSpan \in Nat \ {0} /\ SizeSpan % IntSpan = 0
  <2>1. IntMax \in Nat /\ SizeMax \in Nat /\ SizeSpan % IntSpan = 0
    BY WidthAssumption
  <2>2. IntSpan \in Nat \ {0} /\ SizeSpan \in Nat \ {0}
    BY <2>1 DEF IntSpan, SizeSpan
  <2> QED
    BY <2>1, <2>2
<1>2. Congruent(IntSpan, 0, n) /\ Congruent(SizeSpan, 0, IntSpan)
  BY <1>1, CongruentZero
<1> QED
  BY <1>1, <1>2, CongruentMultiple

\* A multiple of n is added.
LEMMA CongruentPlus ==
    ASSUME NEW a \in Int, NEW m \in Int, NEW n \in Nat \ {0}, Congruent(m, 0, n)
    PROVE  Congruent(a + m, a, n) /\ Congruent(a - m, a, n)
<1>1. PICK q \in Int : m = 0 + q * n
  BY DEF Congruent
<1>2. a + m = a + q * n
  BY <1>1
<1>3. a - m = a + (-q) * n /\ -q \in Int
  BY <1>1
<1> QED
  BY <1>2, <1>3 DEF Congruent

LEMMA AcceptedInTurn ==
    ASSUME SpreadInv, Accept, threadNum > 0, IntSpan % threadNum = 0
    PROVE  /\ Congruent(accepted + 1, NextLoop, threadNum)
           /\ Congruent(nextIndex', accepted + 1, threadNum)
<1>0. ExitInv /\ ConnTyped /\ ThreadTyped
  BY TypeParts DEF SpreadInv, TypeInv
<1>1. /\ threadNum \in Nat \ {0} /\ nextIndex \in Int /\ accepted \in Int
      /\ Congruent(nextIndex, accepted, threadNum)
  BY <1>0, ThreadNumsAssumption, WidthAssumption DEF ThreadTyped, ConnTyped, SpreadInv, InTurn
<1>2. nLoops = threadNum
  BY <1>0, LoopsAtAccept DEF Accept, At
<1>3. IntSpan \in Int /\ SizeSpan \in Int /\ Congruent(IntSpan, 0, threadNum) /\ Congruent(SizeSpan, 0, threadNum)
  BY <1>1, WidthsAreMultiples
<1>4. Congruent(accepted + 1, NextLoop, threadNum)
  <2> DEFINE u == Unsigned(nextIndex)
  <2>1. u \in Int /\ Congruent(u, nextIndex, threadNum)
    <3>1. CASE nextIndex < 0
      BY <1>1, <1>3, <3>1, CongruentPlus DEF Unsigned
    <3>2. CASE nextIndex >= 0
      <4>1. u = nextIndex
        BY <1>1, <3>2 DEF Unsigned
      <4> QED
        BY <1>1, <4>1, CongruentSelf
    <3> QED
      BY <1>1, <3>1, <3>2
  <2>2. NextLoop = 1 + (u % threadNum) /\ u % threadNum \in Int
    BY <1>1, <1>2, <2>1, DivMod DEF NextLoop
  <2> HIDE DEF u
  <2>3. Congruent(u % threadNum, accepted, threadNum)
    <3>1. Congruent(u % threadNum, u, threadNum)
      BY <1>1, <2>1, CongruentRest
    <3>2. Congruent(u, accepted, threadNum)
      BY <1>1, <2>1, CongruentLaws
    <3> QED
      BY <1>1, <2>1, <2>2, <3>1, <3>2, CongruentLaws
  <2> DEFINE r == u % threadNum
  <2>4. r \in Int /\ Congruent(r, accepted, threadNum) /\ NextLoop = r + 1
    BY <2>2, <2>3
  <2> HIDE DEF r
  <2>5. Congruent(NextLoop, accepted + 1, threadNum)
    BY <1>1, <2>4, CongruentLaws
  <2> QED
    BY <1>1, <2>4, <2>5, CongruentLaws
<1>5. Congruent(nextIndex', accepted + 1, threadNum)
  <2>1. nextIndex' = Incremented(nextIndex)
    BY <1>1, <1>2 DEF Accept
  <2>2. nextIndex' \in Int /\ Congruent(nextIndex', nextIndex + 1, threadNum)
    <3>1. CASE nextIndex = IntMax
      <4>1. nextIndex' = (nextIndex + 1) - IntSpan
        BY <1>1, <2>1, <3>1 DEF Incremented, IntSpan
      <4>2. nextIndex + 1 \in Int /\ nextIndex' \in Int
        BY <1>1, <1>3, <4>1
      <4> QED
        BY <1>1, <1>3, <4>1, <4>2, CongruentPlus
    <3>2. CASE nextIndex # IntMax
      <4>1. nextIndex' = nextIndex + 1
        BY <2>1, <3>2 DEF Incremented
      <4> QED
        BY <1>1, <4>1, CongruentSelf
    <3> QED
      BY <3>1, <3>2
  <2>3. Congruent(nextIndex + 1, accepted + 1, threadNum)
    BY <1>1, CongruentLaws
  <2> QED
    BY <1>1, <2>2, <2>3, CongruentLaws
<1> QED
  BY <1>4, <1>5

LEMMA InTurnStep == SpreadInv /\ [Next]_vars => InTurn'
<1> SUFFICES ASSUME SpreadInv, [Next]_vars PROVE InTurn'
  OBVIOUS
<1>0. ExitInv /\ ConnTyped /\ ThreadTyped /\ InTurn
  BY TypeParts DEF SpreadInv, TypeInv
<1>1. CASE UNCHANGED <<threadNum, accepted, nextIndex, home>>
  BY <1>0, <1>1 DEF InTurn
<1>2. ASSUME Accept, threadNum' = threadNum, threadNum > 0, IntSpan % threadNum = 0
      PROVE  /\ \A c \in 1 .. accepted' : Congruent(c, home'[c], threadNum)
             /\ Congruent(nextIndex', accepted', threadNum)
  <2>0. /\ \A c \in 1 .. accepted : Congruent(c, home[c], threadNum)
        /\ Congruent(nextIndex, accepted, threadNum)
    BY <1>0, <1>2 DEF InTurn
  <2>1. accepted' = accepted + 1 /\ home' = Append(home, NextLoop)
    BY <1>2 DEF Accept
  <2>2. Congruent(accepted + 1, NextLoop, threadNum) /\ Congruent(nextIndex', accepted + 1, threadNum)
    BY <1>2, AcceptedInTurn
  <2>3. accepted \in Nat /\ home \in [1 .. accepted -> Homes] /\ NextLoop \in Homes
    <3>1. nLoops = threadNum
      BY <1>0, <1>2, LoopsAtAccept DEF Accept, At
    <3> QED
      BY <1>0, <3>1, BoundsAssumption, NextLoopTyped DEF ConnTyped
  <2>4. (\A c \in 1 .. accepted : home'[c] = home[c]) /\ home'[accepted + 1] = NextLoop
    BY <2>1, <2>3, AppendTyped
  <2>5. \A c \in 1 .. accepted' : c \in 1 .. accepted \/ c = accepted + 1
    BY <2>1, <2>3
  <2> QED
    BY <2>0, <2>1, <2>2, <2>4, <2>5
<1>3. ASSUME NEW f \in Frames, FrameStep(f) PROVE InTurn'
  <2>1. threadNum' = threadNum
    BY <1>3, ServerChanges
  <2>2. CASE Accept
    BY <1>2, <2>1, <2>2 DEF InTurn
  <2>3. CASE ~Accept
    <3>1. UNCHANGED <<accepted, nextIndex, home>>
      BY <1>3, <2>3, ConnSteps DEF Remove, ForceClose, Clear, RunTask, Insert, Establish, Erase, connVars, acceptVars
    <3> QED
      BY <1>1, <2>1, <3>1
  <2> QED
    BY <2>2, <2>3
<1>4. CASE \E t \in Threads : Signal(t)
  BY <1>1, <1>4 DEF Signal, serverVars, connVars, acceptVars
<1>5. CASE \E w \in Workers : Timeout(w)
  BY <1>1, <1>5 DEF Timeout, Moves, serverVars, connVars, acceptVars
<1>6. CASE (\E c \in Leaving : PeerEnds(c)) \/ UNCHANGED vars
  BY <1>1, <1>6 DEF PeerEnds, vars, serverVars, connVars, acceptVars
<1> QED
  BY <1>3, <1>4, <1>5, <1>6 DEF Next

\* What has been given to v, but the first of it, is as much as has been given to w at most: when c was given
\* to v, the connection that comes after the last turn of v and is w's had been accepted before.
LEMMA TurnsAreFair ==
    ASSUME SpreadInv, NEW v \in 1 .. threadNum, NEW w \in 1 .. threadNum, IntSpan % threadNum = 0
    PROVE  Cardinality(GivenTo(v)) <= Cardinality(GivenTo(w)) + 1
<1>1. /\ threadNum \in Nat \ {0} /\ accepted \in Nat /\ v \in Nat /\ w \in Nat
      /\ \A c \in 1 .. accepted : home[c] \in 1 .. threadNum /\ Congruent(c, home[c], threadNum)
  <2>1. ConnTyped /\ ThreadTyped
    BY TypeParts DEF SpreadInv, TypeInv
  <2>2. threadNum \in Nat \ {0}
    BY <2>1, ThreadNumsAssumption DEF ThreadTyped
  <2>3. accepted \in Nat /\ home \in [1 .. accepted -> 1 .. threadNum]
    BY <2>1, <2>2, BoundsAssumption DEF ConnTyped, Homes
  <2>4. \A c \in 1 .. accepted : Congruent(c, home[c], threadNum)
    BY <2>2 DEF SpreadInv, InTurn
  <2> QED
    BY <2>2, <2>3, <2>4
<1>2. \A u : IsFiniteSet(GivenTo(u)) /\ Cardinality(GivenTo(u)) \in Nat
  <2>1. IsFiniteSet(1 .. accepted)
    BY <1>1, FS_Interval
  <2>2. \A u : GivenTo(u) \in SUBSET (1 .. accepted)
    BY DEF GivenTo
  <2> QED
    BY <2>1, <2>2, FS_Subset, FS_CardinalityType
<1>3. CASE v = w
  BY <1>2, <1>3
<1>4. CASE v # w
  <2> DEFINE S == GivenTo(v) \ {v}
             d == threadNum + v - w
             f == [c \in S |-> c - d]
  <2>1. d \in 1 .. 2 * threadNum - 1
    BY <1>1
  <2>2. ASSUME NEW c \in S PROVE c - d \in GivenTo(w)
    <3>1. c \in 1 .. accepted /\ c # v /\ Congruent(c, v, threadNum)
      BY <1>1 DEF GivenTo
    <3>2. PICK q \in Int : c = v + q * threadNum
      BY <3>1 DEF Congruent
    <3>3. q >= 1
      <4>1. q # 0
        BY <1>1, <3>1, <3>2
      <4>2. q <= -1 => q * threadNum <= -threadNum
        BY <1>1
      <4> QED
        BY <1>1, <3>1, <3>2, <4>1, <4>2
    <3>4. q * threadNum >= threadNum
      BY <1>1, <3>3
    <3>5. c - d \in 1 .. accepted
      BY <1>1, <3>1, <3>2, <3>4
    <3>6. Congruent(c - d, w, threadNum)
      <4>1. c - d = w + (q - 1) * threadNum
        BY <1>1, <3>2
      <4> QED
        BY <4>1 DEF Congruent
    <3>7. home[c - d] = w
      <4> DEFINE e == c - d
      <4>1. e \in 1 .. accepted /\ Congruent(e, w, threadNum)
        BY <3>5, <3>6
      <4> HIDE DEF e, d, S, f
      <4>2. e \in Int /\ home[e] \in Int /\ home[e] \in 1 .. threadNum /\ Congruent(e, home[e], threadNum)
        BY <1>1, <4>1
      <4>3. Congruent(home[e], e, threadNum)
        BY <1>1, <4>2, CongruentLaws
      <4>4. Congruent(home[e], w, threadNum)
        BY <1>1, <4>1, <4>2, <4>3, CongruentLaws
      <4>5. home[e] = w
        BY <1>1, <4>2, <4>4, CongruentUnique
      <4> QED
        BY <4>5 DEF e
    <3> QED
      BY <3>5, <3>7 DEF GivenTo
  <2>3. f \in Injection(S, GivenTo(w))
    <3>1. f \in [S -> GivenTo(w)]
      BY <2>2
    <3>2. \A a, b \in S : f[a] = f[b] => a = b
      <4>1. \A c \in S : c \in Int
        BY <1>1 DEF GivenTo
      <4> QED
        BY <2>1, <4>1
    <3> QED
      BY <3>1, <3>2 DEF Injection, IsInjective
  <2>4. IsFiniteSet(S) /\ Cardinality(S) <= Cardinality(GivenTo(w))
    BY <1>2, <2>3, FS_Injection
  <2>5. Cardinality(S) \in Nat /\ Cardinality(GivenTo(v)) <= Cardinality(S) + 1
    BY <1>2, <2>4, FS_RemoveElement, FS_CardinalityType
  <2> QED
    BY <1>2, <2>4, <2>5
<1> QED
  BY <1>3, <1>4

\* Connections are spread over the workers one by one, for every number of workers that divides the number of
\* values of an int, and also after next_loop_index_ has wrapped and while it is negative.
THEOREM ConnectionsAreSpread == Spec => []SpreadEvenly
<1>1. Init => InTurn
  <2> SUFFICES ASSUME Init PROVE InTurn
    OBVIOUS
  <2>1. accepted = 0 /\ nextIndex = 0 /\ threadNum \in Int
    BY ThreadNumsAssumption DEF Init
  <2> QED
    BY <2>1, CongruentSelf DEF InTurn
<1>2. SpreadInv /\ [Next]_vars => SpreadInv'
  BY TypeInvStep, InTurnStep DEF SpreadInv
<1>3. SpreadInv => SpreadEvenly
  BY TurnsAreFair DEF SpreadEvenly
<1> QED
  BY <1>1, <1>2, <1>3, TypeInvInit, PTL DEF Spec, SpreadInv
=============================================================================
