---------------------------- MODULE MCThreadPool ----------------------------
(* ThreadPool with the thread that stops it and another one that adds tasks. *)
EXTENDS ThreadPool

CONSTANTS main, other

\* More tasks than places in the queue, and than workers.
MCMaxAdds == [c \in Callers |-> IF c = main THEN 3 ELSE 2]
=============================================================================
