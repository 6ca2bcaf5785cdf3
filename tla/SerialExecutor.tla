--------------------------- MODULE SerialExecutor ---------------------------
(***************************************************************************)
(* What an event loop promises to the threads that hand it tasks: a task   *)
(* is accepted at most once, the tasks that were queued run one at a time  *)
(* in the order in which they were queued, each exactly once, and a task   *)
(* may be run at once, ahead of the queue, without ever being queued.      *)
(*                                                                         *)
(* EventLoop implements this module: see Executor there.                   *)
(***************************************************************************)
EXTENDS Sequences

CONSTANT Tasks      \* the tasks that threads may hand over

VARIABLES
    queue,          \* tasks accepted and not yet run, oldest first
    done            \* tasks that have run, in the order in which they ran

vars == <<queue, done>>

Elements(s) == {s[i] : i \in DOMAIN s}

Fresh(k) == k \notin Elements(queue) \cup Elements(done)

TypeOK ==
    /\ queue \in Seq(Tasks)
    /\ done \in Seq(Tasks)

Init ==
    /\ queue = <<>>
    /\ done = <<>>

Post(k) ==
    /\ Fresh(k)
    /\ queue' = Append(queue, k)
    /\ UNCHANGED done

RunOldest ==
    /\ queue # <<>>
    /\ done' = Append(done, Head(queue))
    /\ queue' = Tail(queue)

RunNow(k) ==
    /\ Fresh(k)
    /\ done' = Append(done, k)
    /\ UNCHANGED queue

Next ==
    \/ \E k \in Tasks : Post(k) \/ RunNow(k)
    \/ RunOldest

Spec == Init /\ [][Next]_vars
=============================================================================
