------------------------------- MODULE Buffer -------------------------------
(***************************************************************************)
(* echo_server::Buffer (src/src/buffer.cpp, src/include/buffer.h): a       *)
(* vector of bytes with a read index and a write index, and room in front  *)
(* for a header.  A buffer is a record; every operation is an operator     *)
(* from buffers to buffers, so that one can be built from others as in the *)
(* code.  Beside it runs the queue of bytes that its users rely on.        *)
(*                                                                         *)
(* findCRLF() and findEOL() change nothing and are left out.               *)
(***************************************************************************)
EXTENDS Integers, Sequences

CONSTANTS
    Byte,           \* the values of a byte
    Zero,           \* the byte that resize() fills with
    CheapPrepend,   \* kCheapPrepend
    InitialSize,    \* kInitialSize
    ExtraSize,      \* the size of the buffer on the stack of readFd()
    Chunks,         \* BOUND: what is appended, prepended or received at a time
    MaxSize         \* BOUND: bytes in the vector

ASSUME ZeroAssumption == Zero \in Byte
ASSUME SizesAssumption == CheapPrepend \in Nat /\ InitialSize \in Nat /\ ExtraSize \in Nat
ASSUME ChunksAssumption == Chunks \subseteq Seq(Byte)
ASSUME MaxSizeAssumption == MaxSize \in Nat

VARIABLES
    buf,            \* the buffer
    queue           \* the bytes its users have put in and not yet taken out (history variable)

vars == <<buf, queue>>

\* mem is buffer_, from 0 to size - 1; the indices are in order and inside it, and the reserve that
\* retrieveAll() goes back to is inside it too.
IsBuffer(b) ==
    /\ b \in [mem : [0 .. b.size - 1 -> Byte], size : Nat, read : Nat, write : Nat]
    /\ b.read <= b.write /\ b.write <= b.size
    /\ CheapPrepend <= b.size

Readable(b) == b.write - b.read
Writable(b) == b.size - b.write

Contents(b) == [i \in 1 .. Readable(b) |-> b.mem[b.read + i - 1]]

\* std::copy of d to position at.
CopyTo(mem, at, d) ==
    [i \in DOMAIN mem |-> IF i \in at .. at + Len(d) - 1 THEN d[i - at + 1] ELSE mem[i]]

\* The constructor.
New ==
    [mem |-> [i \in 0 .. CheapPrepend + InitialSize - 1 |-> Zero], size |-> CheapPrepend + InitialSize,
     read |-> CheapPrepend, write |-> CheapPrepend]

RetrieveAll(b) == [b EXCEPT !.read = CheapPrepend, !.write = CheapPrepend]

Retrieve(b, n) == IF n < Readable(b) THEN [b EXCEPT !.read = @ + n] ELSE RetrieveAll(b)

\* makeSpace(): buffer_.resize(write_index_ + len).
Grow(b, n) ==
    [b EXCEPT !.mem = [i \in 0 .. b.write + n - 1 |-> IF i < b.size THEN b.mem[i] ELSE Zero],
              !.size = b.write + n]

\* makeSpace(): the readable bytes move to the front.
MoveToFront(b) ==
    [b EXCEPT !.mem = CopyTo(b.mem, CheapPrepend, Contents(b)),
              !.read = CheapPrepend, !.write = CheapPrepend + Readable(b)]

\* MUTANT of MustGrow: the room in front is counted without the reserve.
MustGrowLate(b, n) == Writable(b) + b.read < n

\* MUTANT of MustGrow: the room in front is not counted at all.
MustGrowEarly(b, n) == Writable(b) < n

\* makeSpace(): both free parts together are too small.
MustGrow(b, n) == Writable(b) + b.read < n + CheapPrepend

MakeSpace(b, n) == IF MustGrow(b, n) THEN Grow(b, n) ELSE MoveToFront(b)

EnsureWritable(b, n) == IF Writable(b) < n THEN MakeSpace(b, n) ELSE b

AppendTo(b, d) ==
    LET e == EnsureWritable(b, Len(d)) IN
    [e EXCEPT !.mem = CopyTo(e.mem, e.write, d), !.write = @ + Len(d)]

\* prepend(): refused when there is not enough room in front.
Prepend(b, d) ==
    IF Len(d) > b.read
    THEN b
    ELSE [b EXCEPT !.mem = CopyTo(b.mem, b.read - Len(d), d), !.read = @ - Len(d)]

Shrink(b, reserve) == AppendTo(EnsureWritable(New, Readable(b) + reserve), Contents(b))

\* readFd(): how much readv() can take.
Room(b) == Writable(b) + (IF Writable(b) < ExtraSize THEN ExtraSize ELSE 0)

\* MUTANT of ReadFd: the bytes in the stack buffer are appended before the write index is moved.
ReadFdEarly(b, d) ==
    LET w == Writable(b)
        direct == CopyTo(b.mem, b.write, d)
    IN IF Len(d) <= w
       THEN [b EXCEPT !.mem = direct, !.write = @ + Len(d)]
       ELSE AppendTo([b EXCEPT !.mem = direct], SubSeq(d, w + 1, Len(d)))

\* readFd(), when readv() has read d.
ReadFd(b, d) ==
    LET w == Writable(b)
        direct == CopyTo(b.mem, b.write, d)
    IN IF Len(d) <= w
       THEN [b EXCEPT !.mem = direct, !.write = @ + Len(d)]
       ELSE AppendTo([b EXCEPT !.mem = direct, !.write = b.size], SubSeq(d, w + 1, Len(d)))
-----------------------------------------------------------------------------
Init == buf = New /\ queue = <<>>

Fits(b) == b.size <= MaxSize

DoAppend == \E d \in Chunks : buf' = AppendTo(buf, d) /\ queue' = queue \o d /\ Fits(buf')

\* retrieve(), retrieveAll(), retrieveUntil() and retrieveAsString(): asking for more than there
\* is takes everything.
DoRetrieve ==
    \E n \in 0 .. Readable(buf) + 1 :
        /\ buf' = Retrieve(buf, n)
        /\ queue' = SubSeq(queue, n + 1, Len(queue))

\* unwrite(): its users may only take back what has been written and not read.
DoUnwrite ==
    \E n \in 0 .. Readable(buf) :
        /\ buf' = [buf EXCEPT !.write = @ - n]
        /\ queue' = SubSeq(queue, 1, Len(queue) - n)

DoPrepend ==
    \E d \in Chunks :
        /\ buf' = Prepend(buf, d)
        /\ queue' = IF Len(d) > buf.read THEN queue ELSE d \o queue

DoShrink == \E d \in Chunks : buf' = Shrink(buf, Len(d)) /\ queue' = queue /\ Fits(buf')

\* ensureWritableBytes(), whose users then write at beginWrite() and call hasWritten(): together
\* they do what append() does.
DoEnsure == \E d \in Chunks : buf' = EnsureWritable(buf, Len(d)) /\ queue' = queue /\ Fits(buf')

DoReadFd ==
    \E d \in Chunks :
        /\ Len(d) <= Room(buf)
        /\ buf' = ReadFd(buf, d) /\ queue' = queue \o d /\ Fits(buf')

Next == DoAppend \/ DoRetrieve \/ DoUnwrite \/ DoPrepend \/ DoShrink \/ DoEnsure \/ DoReadFd

Spec == Init /\ [][Next]_vars
-----------------------------------------------------------------------------
\* The indices stay in order and inside the vector.
TypeOK == IsBuffer(buf) /\ queue \in Seq(Byte)

\* Whatever is appended, read into it, prepended, retrieved, taken back or moved about, the
\* readable bytes are those that went in, in their order, less those taken out.
HoldsQueue == Contents(buf) = queue

\* makeSpace() moves the readable bytes towards the front only, so that std::copy() may be used
\* although the two ranges overlap: even after prepend() has used some of the room in front.
MovesTowardsFront ==
    \A d \in Chunks :
        Writable(buf) < Len(d) /\ ~MustGrow(buf, Len(d)) => buf.read >= CheapPrepend

\* append() and readFd() enlarge the vector only for bytes that would not fit in it behind the
\* reserve.
GrowsOnlyWhenFull ==
    [][buf'.size > buf.size /\ Len(queue') > Len(queue)
        => CheapPrepend + Readable(buf') > buf.size]_vars
=============================================================================
