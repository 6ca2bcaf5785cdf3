------------------------------ MODULE MCBuffer ------------------------------
(* Buffer with two byte values and small sizes. *)
EXTENDS Buffer

MCChunks == UNION {[1 .. n -> Byte] : n \in 1 .. 3}
=============================================================================
