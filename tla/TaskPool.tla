------------------------------- MODULE TaskPool ------------------------------
(***************************************************************************)
(* What a pool of threads promises to those who hand it tasks: a task is   *)
(* accepted at most once and only when there is room, the accepted tasks   *)
(* are taken in the order in which they were accepted, each by one thread, *)
(* and each that was taken is done once, in any order.                     *)
(*                                                                         *)
(* ThreadPool implements this module: see Pool there.                      *)
(***************************************************************************)
EXTENDS Integers, Sequences

CONSTANTS
    Tasks,      \* the tasks that callers may hand over
    Capacity    \* how many accepted tasks may wait

VARIABLES
    waiting,    \* tasks accepted and not taken, oldest first
    inHand,     \* tasks that some thread has taken and not done
    done        \* tasks that have been done

vars == <<waiting, inHand, done>>

Known == {waiting[i] : i \in DOMAIN waiting} \cup inHand \cup done

Init ==
    /\ waiting = <<>>
    /\ inHand = {} /\ done = {}

Accept(t) ==
    /\ t \notin Known
    /\ Len(waiting) < Capacity
    /\ waiting' = Append(waiting, t)
    /\ UNCHANGED <<inHand, done>>

TakeOldest ==
    /\ waiting # <<>>
    /\ inHand' = inHand \cup {Head(waiting)}
    /\ waiting' = Tail(waiting)
    /\ UNCHANGED done

Finish(t) ==
    /\ t \in inHand
    /\ inHand' = inHand \ {t}
    /\ done' = done \cup {t}
    /\ UNCHANGED waiting

Next ==
    \/ \E t \in Tasks : Accept(t) \/ Finish(t)
    \/ TakeOldest

Spec == Init /\ [][Next]_vars
=============================================================================
