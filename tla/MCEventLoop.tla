---------------------------- MODULE MCEventLoop ----------------------------
(* EventLoop on a small instance: a worker loop of EchoServer, constructed  *)
(* by the main thread, run by a worker and called by a third thread too.    *)
EXTENDS EventLoop

CONSTANTS main, worker, other

\* The main thread hands over two tasks, so that their order shows.
MCMaxPosts == [t \in Threads |-> IF t = main THEN 2 ELSE 1]
=============================================================================
