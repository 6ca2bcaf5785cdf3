----------------------------- MODULE MCServerStop ----------------------------
(***************************************************************************)
(* Instances of ServerStop.                                                *)
(***************************************************************************)
EXTENDS ServerStop

\* Two signals, with two connections on no worker or one on one; and two connections on two workers.
MCLoads ==
    ({0} \X (0 .. 2) \X (0 .. 2)) \cup ({1} \X (0 .. 1) \X (0 .. 2))
        \cup ({2} \X (0 .. 2) \X {0})

\* No bound but those of each.
AnyLoad == Nat \X Nat \X Nat
=============================================================================
