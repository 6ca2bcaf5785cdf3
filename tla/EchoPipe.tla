------------------------------ MODULE EchoPipe ------------------------------
(***************************************************************************)
(* What a connection promises to those who hand it bytes, the peer for its *)
(* echo and the threads that call send(): while it is open the bytes of    *)
(* each of them are taken in order, none twice and none left out; what has *)
(* been taken reaches the peer in the order in which it was taken, until   *)
(* the connection is closed or broken.                                     *)
(*                                                                         *)
(* Connection implements this module: see Pipe there.                      *)
(***************************************************************************)
EXTENDS Integers, Sequences, FiniteSets

CONSTANT Sources    \* those who hand over bytes

VARIABLES
    given,          \* how many bytes each source has handed over
    transit,        \* bytes that have been taken and not delivered, oldest first
    delivered,      \* bytes that have reached the peer
    phase,          \* "open", "draining" after shutdown(), or "closed"
    broken          \* the peer has reset the connection

vars == <<given, transit, delivered, phase, broken>>

\* How many bytes of s have been taken.
Taken(s) == Cardinality({i \in DOMAIN (delivered \o transit) : (delivered \o transit)[i][1] = s})

TypeOK ==
    /\ given \in [Sources -> Nat]
    /\ transit \in Seq(Sources \X Nat) /\ delivered \in Seq(Sources \X Nat)
    /\ phase \in {"open", "draining", "closed"} /\ broken \in BOOLEAN

Init ==
    /\ given = [s \in Sources |-> 0]
    /\ transit = <<>> /\ delivered = <<>>
    /\ phase = "open" /\ broken = FALSE

Give(s) ==
    /\ given' = [given EXCEPT ![s] = @ + 1]
    /\ UNCHANGED <<transit, delivered, phase, broken>>

\* The next n bytes of s.
Take(s, n) ==
    /\ phase = "open"
    /\ transit' = transit \o [i \in 1 .. n |-> <<s, Taken(s) + i>>]
    /\ UNCHANGED <<given, delivered, phase, broken>>

Deliver ==
    /\ ~broken /\ transit # <<>>
    /\ delivered' = Append(delivered, Head(transit))
    /\ transit' = Tail(transit)
    /\ UNCHANGED <<given, phase, broken>>

\* There is no way back.
End ==
    /\ phase' \in (IF phase = "open" THEN {"draining", "closed"} ELSE {"closed"})
    /\ UNCHANGED <<given, transit, delivered, broken>>

Break ==
    /\ broken' = TRUE
    /\ UNCHANGED <<given, transit, delivered, phase>>

Next ==
    \/ \E s \in Sources : Give(s) \/ \E n \in 1 .. given[s] - Taken(s) : Take(s, n)
    \/ Deliver \/ End \/ Break

\* What has been handed over is taken, and what has been taken is delivered.
Progress ==
    /\ \A s \in Sources : Taken(s) < given[s] ~> Taken(s) = given[s] \/ phase # "open" \/ broken
    /\ transit # <<>> ~> transit = <<>> \/ phase = "closed" \/ broken

Spec == Init /\ [][Next]_vars /\ Progress
=============================================================================
