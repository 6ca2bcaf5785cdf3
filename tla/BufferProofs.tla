---------------------------- MODULE BufferProofs ----------------------------
(***************************************************************************)
(* Theorems about Buffer, for every set of bytes, every size and every set *)
(* of chunks.  They rest on one lemma for each operation, which says how   *)
(* the operation changes the bytes that a buffer holds.                    *)
(***************************************************************************)
EXTENDS Buffer, SequenceTheorems, TLAPS

\* b is a buffer and its readable bytes are those of q.
Holds(b, q) ==
    /\ IsBuffer(b)
    /\ q \in Seq(Byte)
    /\ Len(q) = Readable(b)
    /\ \A i \in 1 .. Len(q) : b.mem[b.read + i - 1] = q[i]

-----------------------------------------------------------------------------
(* What a buffer holds.                                                    *)

LEMMA ContentsHeld ==
    ASSUME NEW b, IsBuffer(b)
    PROVE  Holds(b, Contents(b))
<1>1. Readable(b) \in Nat
  BY DEF IsBuffer, Readable
<1>2. \A i \in 1 .. Readable(b) : b.mem[b.read + i - 1] \in Byte
  BY SMTT(30) DEF IsBuffer, Readable
<1>3. Contents(b) \in [1 .. Readable(b) -> Byte]
  BY <1>2 DEF Contents
<1>4. Contents(b) \in Seq(Byte) /\ Len(Contents(b)) = Readable(b)
  BY <1>1, <1>3
<1> QED
  BY <1>4 DEF Holds, Contents

LEMMA HeldIsContents ==
    ASSUME NEW b, NEW q, Holds(b, q)
    PROVE  Contents(b) = q
<1>1. Holds(b, Contents(b))
  BY ContentsHeld DEF Holds
<1> QED
  BY <1>1, SeqEqual DEF Holds

-----------------------------------------------------------------------------
(* Making room moves the readable bytes but does not change them.          *)

LEMMA NewIsEmpty == Holds(New, <<>>)
<1>1. IsBuffer(New)
  BY ZeroAssumption, SizesAssumption DEF IsBuffer, New
<1> QED
  BY <1>1, SizesAssumption DEF Holds, New, Readable

\* What copying writes.
LEMMA CopyToType ==
    ASSUME NEW n \in Nat, NEW mem \in [0 .. n - 1 -> Byte], NEW at \in Nat, NEW d \in Seq(Byte)
    PROVE  CopyTo(mem, at, d) \in [0 .. n - 1 -> Byte]
<1>1. \A i \in at .. at + Len(d) - 1 : d[i - at + 1] \in Byte
  OBVIOUS
<1> QED
  BY <1>1 DEF CopyTo

LEMMA CopyToInside ==
    ASSUME NEW n \in Nat, NEW mem \in [0 .. n - 1 -> Byte], NEW at \in Nat, NEW d \in Seq(Byte),
           NEW i \in 1 .. Len(d), at + i - 1 < n
    PROVE  CopyTo(mem, at, d)[at + i - 1] = d[i]
<1>1. at + i - 1 \in 0 .. n - 1 /\ at + i - 1 \in at .. at + Len(d) - 1 /\ (at + i - 1) - at + 1 = i
  OBVIOUS
<1> DEFINE j == at + i - 1
<1> HIDE DEF j
<1>2. CopyTo(mem, at, d)[j] = d[j - at + 1]
  BY <1>1 DEF CopyTo, j
<1> QED
  BY <1>1, <1>2 DEF j

\* The bound that makes the overlapping copy of makeSpace() a legal one, and one that stays inside
\* the vector and leaves enough room.
LEMMA RoomAfterMove ==
    ASSUME NEW b, IsBuffer(b), NEW n \in Nat, Writable(b) < n, ~MustGrow(b, n)
    PROVE  b.read >= CheapPrepend /\ CheapPrepend + Readable(b) + n <= b.size
BY SizesAssumption DEF IsBuffer, Writable, Readable, MustGrow

\* The fields of a buffer that holds q.
LEMMA HeldFields ==
    ASSUME NEW b, NEW q, Holds(b, q)
    PROVE  /\ b.size \in Nat /\ b.read \in Nat /\ b.write \in Nat /\ Len(q) \in Nat
           /\ b.write = b.read + Len(q) /\ b.write <= b.size /\ CheapPrepend <= b.size
           /\ b.mem \in [0 .. b.size - 1 -> Byte]
           /\ b \in [mem : [0 .. b.size - 1 -> Byte], size : Nat, read : Nat, write : Nat]
           /\ q \in Seq(Byte)
BY DEF Holds, IsBuffer, Readable

LEMMA MakeSpaceHolds ==
    ASSUME NEW b, NEW q, Holds(b, q), NEW n \in Nat, Writable(b) < n
    PROVE  Holds(MakeSpace(b, n), q) /\ Writable(MakeSpace(b, n)) >= n
<1> USE SizesAssumption
<1>0. /\ b.size \in Nat /\ b.read \in Nat /\ b.write \in Nat /\ Len(q) \in Nat
      /\ b.write = b.read + Len(q) /\ b.write <= b.size /\ CheapPrepend <= b.size
      /\ b.mem \in [0 .. b.size - 1 -> Byte]
      /\ b \in [mem : [0 .. b.size - 1 -> Byte], size : Nat, read : Nat, write : Nat]
      /\ q \in Seq(Byte)
  BY HeldFields
<1>1. CASE MustGrow(b, n)
  <2> DEFINE m == [i \in 0 .. b.write + n - 1 |-> IF i < b.size THEN b.mem[i] ELSE Zero]
             g == Grow(b, n)
  <2>1. b.write + n \in Nat /\ b.size <= b.write + n
    BY <1>0, SMTT(30) DEF Writable
  <2>2. m \in [0 .. b.write + n - 1 -> Byte]
    BY <1>0, ZeroAssumption, SMTT(30)
  <2>3. \A i \in 0 .. b.size - 1 : m[i] = b.mem[i]
    BY <1>0, <2>1, SMTT(30)
  <2> HIDE DEF m
  <2>4. /\ g \in [mem : [0 .. b.write + n - 1 -> Byte], size : Nat, read : Nat, write : Nat]
        /\ g.mem = m /\ g.size = b.write + n /\ g.read = b.read /\ g.write = b.read + Len(q)
    BY <1>0, <2>1, <2>2 DEF Grow, m
  <2> HIDE DEF g
  <2>5. ASSUME NEW i \in 1 .. Len(q)
        PROVE  g.mem[b.read + i - 1] = q[i]
    <3>1. b.read + i - 1 \in 0 .. b.size - 1 /\ b.mem[b.read + i - 1] = q[i]
      BY <1>0, SMTT(30) DEF Holds
    <3> QED
      BY <2>3, <2>4, <3>1
  <2>6. Holds(g, q)
    <3>1. IsBuffer(g)
      BY <1>0, <2>1, <2>4, SMTT(30) DEF IsBuffer
    <3> QED
      BY <1>0, <2>4, <2>5, <3>1 DEF Holds, Readable
  <2>7. Writable(g) = n
    BY <1>0, <2>4, SMTT(30) DEF Writable
  <2> QED
    BY <1>1, <2>6, <2>7 DEF MakeSpace, g
<1>2. CASE ~MustGrow(b, n)
  <2> DEFINE m == CopyTo(b.mem, CheapPrepend, q)
             g == MoveToFront(b)
  <2>1. Contents(b) = q /\ Readable(b) = Len(q)
    BY HeldIsContents DEF Holds
  <2>2. CheapPrepend + Len(q) + n <= b.size
    BY <1>2, <2>1, RoomAfterMove DEF Holds
  <2>3. m \in [0 .. b.size - 1 -> Byte]
    BY <1>0, SizesAssumption, CopyToType
  <2>4. ASSUME NEW i \in 1 .. Len(q)
        PROVE  m[CheapPrepend + i - 1] = q[i]
    <3>1. CheapPrepend + i - 1 < b.size /\ CheapPrepend \in Nat
      BY <1>0, <2>2
    <3>2. b.size \in Nat /\ b.mem \in [0 .. b.size - 1 -> Byte] /\ q \in Seq(Byte)
      BY <1>0
    <3> QED
      BY ONLY <3>1, <3>2, CopyToInside, i \in 1 .. Len(q)
  <2> HIDE DEF m
  <2>5. /\ g \in [mem : [0 .. b.size - 1 -> Byte], size : Nat, read : Nat, write : Nat]
        /\ g.mem = m /\ g.size = b.size
        /\ g.read = CheapPrepend /\ g.write = CheapPrepend + Len(q)
    <3>1. CheapPrepend + Len(q) \in Nat /\ CheapPrepend + Readable(b) = CheapPrepend + Len(q)
      BY <1>0, <2>1
    <3>2. g = [b EXCEPT !.mem = m, !.read = CheapPrepend, !.write = CheapPrepend + Len(q)]
      BY <2>1, <3>1 DEF MoveToFront, m
    <3> QED
      BY <1>0, <2>3, <3>1, <3>2
  <2> HIDE DEF g
  <2>6. \A i \in 1 .. Len(q) : g.mem[CheapPrepend + i - 1] = q[i]
    BY <2>4, <2>5
  <2>7. Holds(g, q)
    <3>1. IsBuffer(g)
      BY <1>0, <2>2, <2>5 DEF IsBuffer
    <3> QED
      BY <1>0, <2>5, <2>6, <3>1, SMTT(30) DEF Holds, Readable
  <2>8. Writable(g) >= n
    BY <1>0, <2>2, <2>5 DEF Writable
  <2> QED
    BY <1>2, <2>7, <2>8 DEF MakeSpace, g
<1> QED
  BY <1>1, <1>2

LEMMA EnsureWritableHolds ==
    ASSUME NEW b, NEW q, Holds(b, q), NEW n \in Nat
    PROVE  Holds(EnsureWritable(b, n), q) /\ Writable(EnsureWritable(b, n)) >= n
<1>1. Writable(b) \in Int
  BY DEF Holds, IsBuffer, Writable
<1> QED
  BY <1>1, MakeSpaceHolds DEF EnsureWritable

-----------------------------------------------------------------------------
(* What the operations do to the bytes held.                               *)

\* Writing behind the readable bytes, where there is room.
LEMMA WriteHolds ==
    ASSUME NEW b, NEW q, Holds(b, q), NEW d \in Seq(Byte), Len(d) <= Writable(b)
    PROVE  Holds([b EXCEPT !.mem = CopyTo(b.mem, b.write, d), !.write = @ + Len(d)], q \o d)
<1> DEFINE m == CopyTo(b.mem, b.write, d)
           g == [b EXCEPT !.mem = m, !.write = @ + Len(d)]
<1>1. /\ b.size \in Nat /\ b.read \in Nat /\ b.write \in Nat /\ Len(q) \in Nat
      /\ b.write = b.read + Len(q) /\ b.write <= b.size /\ CheapPrepend <= b.size
      /\ b.mem \in [0 .. b.size - 1 -> Byte]
      /\ b \in [mem : [0 .. b.size - 1 -> Byte], size : Nat, read : Nat, write : Nat]
      /\ q \in Seq(Byte)
  BY HeldFields
<1>2. Len(d) \in Nat /\ b.write + Len(d) <= b.size
  BY <1>1 DEF Writable
<1>3. m \in [0 .. b.size - 1 -> Byte]
  BY <1>1, CopyToType
<1>4. ASSUME NEW i \in 1 .. Len(q)
      PROVE  m[b.read + i - 1] = q[i]
  <2>1. /\ b.read + i - 1 \in 0 .. b.size - 1
        /\ b.read + i - 1 \notin b.write .. b.write + Len(d) - 1
        /\ b.mem[b.read + i - 1] = q[i]
    BY <1>1, <1>2, SMTT(30) DEF Holds
  <2>2. ASSUME NEW j \in 0 .. b.size - 1, j \notin b.write .. b.write + Len(d) - 1
        PROVE  m[j] = b.mem[j]
    BY <1>1, <1>2, <2>2 DEF CopyTo
  <2> HIDE DEF m
  <2> QED
    BY <2>1, <2>2
<1>5. ASSUME NEW i \in 1 .. Len(d)
      PROVE  m[b.write + i - 1] = d[i]
  <2>1. b.write + i - 1 < b.size
    BY <1>1, <1>2, SMTT(30)
  <2> QED
    BY <1>1, <2>1, CopyToInside, ZenonT(30)
<1> HIDE DEF m
<1>6. /\ g \in [mem : [0 .. b.size - 1 -> Byte], size : Nat, read : Nat, write : Nat]
      /\ g.mem = m /\ g.size = b.size /\ g.read = b.read /\ g.write = b.write + Len(d)
  <2>1. g = [b EXCEPT !.mem = m, !.write = b.write + Len(d)] /\ b.write + Len(d) \in Nat
    BY <1>1, <1>2
  <2> QED
    BY <1>1, <1>3, <2>1
<1> HIDE DEF g
<1>7. /\ q \o d \in Seq(Byte) /\ Len(q \o d) = Len(q) + Len(d)
      /\ \A i \in 1 .. Len(q) + Len(d) : (q \o d)[i] = IF i <= Len(q) THEN q[i] ELSE d[i - Len(q)]
  BY <1>1, ConcatProperties
<1>8. ASSUME NEW i \in 1 .. Len(q \o d)
      PROVE  g.mem[g.read + i - 1] = (q \o d)[i]
  <2>1. CASE i <= Len(q)
    BY <1>1, <1>4, <1>6, <1>7, <2>1
  <2>2. CASE i > Len(q)
    <3>1. i - Len(q) \in 1 .. Len(d) /\ b.write + (i - Len(q)) - 1 = b.read + i - 1
      BY <1>1, <1>2, <1>7, <2>2
    <3> QED
      <4>1. (q \o d)[i] = d[i - Len(q)]
        BY <1>1, <1>7, <2>2
      <4>2. m[b.write + (i - Len(q)) - 1] = d[i - Len(q)]
        BY <1>5, <3>1
      <4> QED
        BY <1>6, <3>1, <4>1, <4>2
  <2> QED
    BY <1>1, <1>7, <2>1, <2>2
<1>9. IsBuffer(g)
  BY <1>1, <1>2, <1>6 DEF IsBuffer
<1>10. Holds(g, q \o d)
  <2>1. Len(q \o d) = Readable(g)
    BY <1>1, <1>2, <1>6, <1>7 DEF Readable
  <2> QED
    BY <1>7, <1>8, <1>9, <2>1 DEF Holds
<1> QED
  BY <1>10 DEF g, m

LEMMA AppendHolds ==
    ASSUME NEW b, NEW q, Holds(b, q), NEW d \in Seq(Byte)
    PROVE  Holds(AppendTo(b, d), q \o d)
<1> DEFINE e == EnsureWritable(b, Len(d))
<1>1. Len(d) \in Nat
  OBVIOUS
<1>2. Holds(e, q) /\ Len(d) <= Writable(e)
  <2>1. Holds(e, q) /\ Writable(e) >= Len(d)
    BY <1>1, EnsureWritableHolds
  <2> QED
    BY <2>1
<1> HIDE DEF e
<1>3. Holds([e EXCEPT !.mem = CopyTo(e.mem, e.write, d), !.write = @ + Len(d)], q \o d)
  BY <1>2, WriteHolds
<1> QED
  BY <1>3 DEF AppendTo, e

\* The bytes that did not fit are appended after those that did.
LEMMA ReadFdHolds ==
    ASSUME NEW b, NEW q, Holds(b, q), NEW d \in Seq(Byte)
    PROVE  Holds(ReadFd(b, d), q \o d)
<1> DEFINE w == Writable(b)
<1>1. /\ b.size \in Nat /\ b.read \in Nat /\ b.write \in Nat /\ Len(q) \in Nat
      /\ b.write = b.read + Len(q) /\ b.write <= b.size /\ CheapPrepend <= b.size
      /\ b.mem \in [0 .. b.size - 1 -> Byte]
      /\ b \in [mem : [0 .. b.size - 1 -> Byte], size : Nat, read : Nat, write : Nat]
      /\ q \in Seq(Byte)
  BY HeldFields
<1>2. w \in Nat /\ w = b.size - b.write /\ Len(d) \in Nat
  BY <1>1 DEF Writable
<1>3. CASE Len(d) <= w
  BY <1>3, WriteHolds DEF ReadFd
<1>4. CASE ~(Len(d) <= w)
  <2> DEFINE first == SubSeq(d, 1, w)
             rest == SubSeq(d, w + 1, Len(d))
             x == [b EXCEPT !.mem = CopyTo(b.mem, b.write, d), !.write = b.size]
  <2>1. /\ first \in Seq(Byte) /\ Len(first) = w
        /\ \A i \in 1 .. w : first[i] = d[i]
    BY <1>2, <1>4
  <2>2. rest \in Seq(Byte)
    BY <1>2, <1>4
  <2>3. first \o rest = d
    <3>1. 1 \in 1 .. Len(d) + 1 /\ w \in 1 - 1 .. Len(d) /\ Len(d) \in w .. Len(d)
      BY <1>2, <1>4
    <3>2. first \o rest = SubSeq(d, 1, Len(d))
      BY <3>1, ConcatAdjacentSubSeq
    <3> QED
      BY <3>2, SubSeqFull
  <2> HIDE DEF first, rest
  <2>4. CopyTo(b.mem, b.write, d) = CopyTo(b.mem, b.write, first)
    <3>1. ASSUME NEW i \in DOMAIN b.mem
          PROVE  (IF i \in b.write .. b.write + Len(d) - 1 THEN d[i - b.write + 1] ELSE b.mem[i])
                  = (IF i \in b.write .. b.write + Len(first) - 1 THEN first[i - b.write + 1] ELSE b.mem[i])
      <4>1. i \in 0 .. b.size - 1
        BY <1>1
      <4>2. CASE i < b.write
        BY <1>1, <1>2, <4>1, <4>2
      <4>3. CASE i >= b.write
        <5>0. /\ b.size \in Nat /\ b.write \in Nat /\ w \in Nat /\ w = b.size - b.write
              /\ Len(d) \in Nat /\ ~(Len(d) <= w)
          BY <1>1, <1>2, <1>4
        <5> HIDE DEF w
        <5>1. i - b.write + 1 \in 1 .. w /\ i \in b.write .. b.write + w - 1
              /\ i \in b.write .. b.write + Len(d) - 1
          BY ONLY <5>0, <4>1, <4>3, SMTT(30)
        <5>2. first[i - b.write + 1] = d[i - b.write + 1] /\ Len(first) = w
          BY <2>1, <5>1
        <5> QED
          BY ONLY <5>1, <5>2
      <4> QED
        BY <1>1, <4>1, <4>2, <4>3
    <3> QED
      BY <3>1 DEF CopyTo
  <2>5. Holds([b EXCEPT !.mem = CopyTo(b.mem, b.write, first), !.write = @ + Len(first)], q \o first)
    <3>1. Len(first) <= Writable(b)
      BY <1>2, <2>1
    <3> QED
      BY <2>1, <3>1, WriteHolds
  <2>6. b.write + Len(first) = b.size
    BY <1>1, <1>2, <2>1
  <2>7. Holds(x, q \o first)
    BY <2>4, <2>5, <2>6
  <2> HIDE DEF x
  <2>8. Holds(AppendTo(x, rest), (q \o first) \o rest)
    BY <2>2, <2>7, AppendHolds
  <2>9. (q \o first) \o rest = q \o d
    <3>1. (q \o first) \o rest = q \o (first \o rest)
      <4>1. q \in Seq(Byte) /\ first \in Seq(Byte) /\ rest \in Seq(Byte)
        BY <1>1, <2>1, <2>2
      <4> QED
        BY <4>1, ConcatAssociative, SMTT(30)
    <3> QED
      BY <2>3, <3>1
  <2> QED
    BY <1>4, <2>8, <2>9 DEF ReadFd, x, rest
<1> QED
  BY <1>3, <1>4

LEMMA RetrieveHolds ==
    ASSUME NEW b, NEW q, Holds(b, q), NEW n \in Nat
    PROVE  Holds(Retrieve(b, n), SubSeq(q, n + 1, Len(q)))
<1> DEFINE p == SubSeq(q, n + 1, Len(q))
<1>1. /\ b.size \in Nat /\ b.read \in Nat /\ b.write \in Nat /\ Len(q) \in Nat
      /\ b.write = b.read + Len(q) /\ b.write <= b.size /\ CheapPrepend <= b.size
      /\ b.mem \in [0 .. b.size - 1 -> Byte]
      /\ b \in [mem : [0 .. b.size - 1 -> Byte], size : Nat, read : Nat, write : Nat]
      /\ q \in Seq(Byte)
  BY HeldFields
<1>2. Readable(b) = Len(q)
  BY DEF Holds
<1>3. CASE n < Len(q)
  <2> DEFINE g == [b EXCEPT !.read = @ + n]
  <2>1. /\ g \in [mem : [0 .. b.size - 1 -> Byte], size : Nat, read : Nat, write : Nat]
        /\ g.mem = b.mem /\ g.size = b.size /\ g.read = b.read + n /\ g.write = b.write
    BY <1>1, SMTT(30)
  <2>2. /\ p \in Seq(Byte) /\ Len(p) = Len(q) - n
        /\ \A i \in 1 .. Len(q) - n : p[i] = q[n + i]
    BY <1>1, <1>3
  <2> HIDE DEF g, p
  <2>3. ASSUME NEW i \in 1 .. Len(p)
        PROVE  g.mem[g.read + i - 1] = p[i]
    <3>1. n + i \in 1 .. Len(q) /\ p[i] = q[n + i]
      BY <1>1, <1>3, <2>2
    <3>2. b.mem[b.read + (n + i) - 1] = q[n + i]
      BY <3>1 DEF Holds
    <3>3. b.read + (n + i) - 1 = g.read + i - 1
      BY <1>1, <1>3, <2>1, <2>2
    <3> QED
      BY <2>1, <3>1, <3>2, <3>3
  <2>4. IsBuffer(g)
    BY <1>1, <1>3, <2>1 DEF IsBuffer
  <2>5. Len(p) = Readable(g)
    BY <1>1, <1>3, <2>1, <2>2 DEF Readable
  <2>6. Holds(g, p)
    BY <2>2, <2>3, <2>4, <2>5 DEF Holds
  <2> QED
    BY <1>2, <1>3, <2>6 DEF Retrieve, g, p
<1>4. CASE ~(n < Len(q))
  <2> DEFINE g == RetrieveAll(b)
  <2>1. p = <<>>
    BY <1>1, <1>4, SubSeqEmpty
  <2>2. /\ g \in [mem : [0 .. b.size - 1 -> Byte], size : Nat, read : Nat, write : Nat]
        /\ g.mem = b.mem /\ g.size = b.size /\ g.read = CheapPrepend /\ g.write = CheapPrepend
    BY <1>1, SizesAssumption DEF RetrieveAll
  <2> HIDE DEF g
  <2>3. IsBuffer(g)
    BY <1>1, <2>2, SizesAssumption DEF IsBuffer
  <2>4. Holds(g, <<>>)
    BY <2>2, <2>3, SizesAssumption DEF Holds, Readable
  <2> QED
    BY <1>2, <1>4, <2>1, <2>4 DEF Retrieve, g
<1> QED
  BY <1>3, <1>4

LEMMA UnwriteHolds ==
    ASSUME NEW b, NEW q, Holds(b, q), NEW n \in 0 .. Len(q)
    PROVE  Holds([b EXCEPT !.write = @ - n], SubSeq(q, 1, Len(q) - n))
<1> DEFINE g == [b EXCEPT !.write = @ - n]
           p == SubSeq(q, 1, Len(q) - n)
<1>1. /\ b.size \in Nat /\ b.read \in Nat /\ b.write \in Nat /\ Len(q) \in Nat
      /\ b.write = b.read + Len(q) /\ b.write <= b.size /\ CheapPrepend <= b.size
      /\ b.mem \in [0 .. b.size - 1 -> Byte]
      /\ b \in [mem : [0 .. b.size - 1 -> Byte], size : Nat, read : Nat, write : Nat]
      /\ q \in Seq(Byte)
  BY HeldFields
<1>2. /\ g \in [mem : [0 .. b.size - 1 -> Byte], size : Nat, read : Nat, write : Nat]
      /\ g.mem = b.mem /\ g.size = b.size /\ g.read = b.read /\ g.write = b.write - n
  <2>1. b.write - n \in Nat
    BY <1>1
  <2>2. b \in [mem : [0 .. b.size - 1 -> Byte], size : Nat, read : Nat, write : Nat]
    BY <1>1
  <2> QED
    BY ONLY <2>1, <2>2
<1>3. /\ p \in Seq(Byte) /\ Len(p) = Len(q) - n
      /\ \A i \in 1 .. Len(q) - n : p[i] = q[i]
  BY <1>1
<1> HIDE DEF g, p
<1>4. \A i \in 1 .. Len(p) : g.mem[g.read + i - 1] = p[i]
  <2>1. \A i \in 1 .. Len(q) : b.mem[b.read + i - 1] = q[i]
    BY DEF Holds
  <2>2. ASSUME NEW i \in 1 .. Len(q) - n PROVE i \in 1 .. Len(q)
    BY <1>1
  <2> QED
    BY ONLY <1>2, <1>3, <2>1, <2>2
<1>5. IsBuffer(g)
  BY <1>1, <1>2 DEF IsBuffer
<1>6. Len(p) = Readable(g)
  BY <1>1, <1>2, <1>3 DEF Readable
<1> QED
  BY <1>3, <1>4, <1>5, <1>6 DEF Holds, g, p

LEMMA PrependHolds ==
    ASSUME NEW b, NEW q, Holds(b, q), NEW d \in Seq(Byte)
    PROVE  Holds(Prepend(b, d), IF Len(d) > b.read THEN q ELSE d \o q)
<1> DEFINE at == b.read - Len(d)
           m == CopyTo(b.mem, at, d)
           g == [b EXCEPT !.mem = m, !.read = @ - Len(d)]
<1>1. /\ b.size \in Nat /\ b.read \in Nat /\ b.write \in Nat /\ Len(q) \in Nat
      /\ b.write = b.read + Len(q) /\ b.write <= b.size /\ CheapPrepend <= b.size
      /\ b.mem \in [0 .. b.size - 1 -> Byte]
      /\ b \in [mem : [0 .. b.size - 1 -> Byte], size : Nat, read : Nat, write : Nat]
      /\ q \in Seq(Byte)
  BY HeldFields
<1>2. CASE Len(d) > b.read
  BY <1>2 DEF Prepend
<1>3. CASE ~(Len(d) > b.read)
  <2>1. Len(d) \in Nat /\ at \in Nat /\ at + Len(d) = b.read
    BY <1>1, <1>3
  <2>2. m \in [0 .. b.size - 1 -> Byte]
    <3> HIDE DEF at
    <3> QED
      BY <1>1, <2>1, CopyToType
  <2>3. ASSUME NEW i \in 1 .. Len(d)
        PROVE  m[at + i - 1] = d[i]
    <3>1. at + i - 1 < b.size /\ at \in Nat
      BY <1>1, <2>1
    <3>2. b.size \in Nat /\ b.mem \in [0 .. b.size - 1 -> Byte] /\ d \in Seq(Byte)
      BY <1>1
    <3> HIDE DEF at
    <3> QED
      BY ONLY <3>1, <3>2, CopyToInside, i \in 1 .. Len(d)
  <2>4. ASSUME NEW i \in 1 .. Len(q)
        PROVE  m[b.read + i - 1] = q[i]
    <3>1. /\ b.read + i - 1 \in 0 .. b.size - 1
          /\ b.read + i - 1 \notin at .. at + Len(d) - 1
          /\ b.mem[b.read + i - 1] = q[i]
      <4>1. b.mem[b.read + i - 1] = q[i]
        BY DEF Holds
      <4>2. i \in Int /\ 1 <= i /\ i <= Len(q)
        BY <1>1
      <4> HIDE DEF at
      <4>3. b.read + i - 1 \in 0 .. b.size - 1
        BY <1>1, <4>2
      <4>4. b.read + i - 1 > at + Len(d) - 1
        BY <1>1, <2>1, <4>2
      <4> QED
        BY <2>1, <4>1, <4>3, <4>4
    <3>2. ASSUME NEW j \in 0 .. b.size - 1, j \notin at .. at + Len(d) - 1
          PROVE  m[j] = b.mem[j]
      BY <1>1, <2>1, <3>2 DEF CopyTo
    <3> HIDE DEF m
    <3> QED
      BY <3>1, <3>2
  <2> HIDE DEF m
  <2>5. /\ g \in [mem : [0 .. b.size - 1 -> Byte], size : Nat, read : Nat, write : Nat]
        /\ g.mem = m /\ g.size = b.size /\ g.read = at /\ g.write = b.write
    BY <1>1, <2>1, <2>2
  <2> HIDE DEF g, at
  <2>6. /\ d \o q \in Seq(Byte) /\ Len(d \o q) = Len(d) + Len(q)
        /\ \A i \in 1 .. Len(d) + Len(q) : (d \o q)[i] = IF i <= Len(d) THEN d[i] ELSE q[i - Len(d)]
    BY <1>1, ConcatProperties
  <2>7. ASSUME NEW i \in 1 .. Len(d \o q)
        PROVE  g.mem[g.read + i - 1] = (d \o q)[i]
    <3>1. CASE i <= Len(d)
      BY <1>1, <2>1, <2>3, <2>5, <2>6, <3>1
    <3>2. CASE i > Len(d)
      <4>1. i - Len(d) \in 1 .. Len(q) /\ b.read + (i - Len(d)) - 1 = at + i - 1
        BY <1>1, <2>1, <2>6, <3>2
      <4>2. (d \o q)[i] = q[i - Len(d)]
        BY <1>1, <2>1, <2>6, <3>2
      <4>3. m[b.read + (i - Len(d)) - 1] = q[i - Len(d)]
        BY <2>4, <4>1
      <4> QED
        BY <2>5, <4>1, <4>2, <4>3
    <3> QED
      BY <1>1, <2>1, <2>6, <3>1, <3>2
  <2>8. IsBuffer(g)
    BY <1>1, <2>1, <2>5 DEF IsBuffer
  <2>9. Len(d \o q) = Readable(g)
    BY <1>1, <2>1, <2>5, <2>6 DEF Readable
  <2>10. Holds(g, d \o q)
    BY <2>6, <2>7, <2>8, <2>9 DEF Holds
  <2> QED
    BY <1>3, <2>10 DEF Prepend, g, m, at
<1> QED
  BY <1>2, <1>3

LEMMA ShrinkHolds ==
    ASSUME NEW b, NEW q, Holds(b, q), NEW n \in Nat
    PROVE  Holds(Shrink(b, n), q)
<1> DEFINE e == EnsureWritable(New, Readable(b) + n)
<1>1. Contents(b) = q /\ q \in Seq(Byte) /\ Readable(b) + n \in Nat
  BY HeldIsContents, HeldFields DEF Holds
<1>2. Holds(e, <<>>)
  BY <1>1, NewIsEmpty, EnsureWritableHolds
<1> HIDE DEF e
<1>3. Holds(AppendTo(e, q), <<>> \o q)
  BY <1>1, <1>2, AppendHolds
<1>4. <<>> \o q = q
  BY <1>1, ConcatEmptySeq
<1> QED
  BY <1>1, <1>3, <1>4 DEF Shrink, e

-----------------------------------------------------------------------------
(* The invariant: the buffer holds the queue.                              *)

IInv == Holds(buf, queue)

LEMMA IInvInit == Init => IInv
BY NewIsEmpty DEF Init, IInv

LEMMA IInvStep == IInv /\ [Next]_vars => IInv'
<1> USE ChunksAssumption
<1> SUFFICES ASSUME IInv, [Next]_vars PROVE Holds(buf', queue')
  BY DEF IInv, Holds, IsBuffer, Readable
<1>0. Holds(buf, queue)
  BY DEF IInv
<1>1. CASE DoAppend
  BY <1>0, <1>1, AppendHolds DEF DoAppend
<1>2. CASE DoRetrieve
  <2>1. PICK n \in 0 .. Readable(buf) + 1 :
            buf' = Retrieve(buf, n) /\ queue' = SubSeq(queue, n + 1, Len(queue))
    BY <1>2 DEF DoRetrieve
  <2>2. n \in Nat
    BY <1>0, HeldFields DEF Readable
  <2> QED
    BY <1>0, <2>1, <2>2, RetrieveHolds
<1>3. CASE DoUnwrite
  <2>1. PICK n \in 0 .. Readable(buf) :
            buf' = [buf EXCEPT !.write = @ - n] /\ queue' = SubSeq(queue, 1, Len(queue) - n)
    BY <1>3 DEF DoUnwrite
  <2>2. n \in 0 .. Len(queue)
    BY <1>0, <2>1 DEF Holds
  <2> QED
    BY <1>0, <2>1, <2>2, UnwriteHolds
<1>4. CASE DoPrepend
  BY <1>0, <1>4, PrependHolds DEF DoPrepend
<1>5. CASE DoShrink
  <2>1. PICK d \in Chunks : buf' = Shrink(buf, Len(d)) /\ queue' = queue
    BY <1>5 DEF DoShrink
  <2>2. Len(d) \in Nat
    OBVIOUS
  <2> QED
    BY <1>0, <2>1, <2>2, ShrinkHolds
<1>6. CASE DoEnsure
  <2>1. PICK d \in Chunks : buf' = EnsureWritable(buf, Len(d)) /\ queue' = queue
    BY <1>6 DEF DoEnsure
  <2>2. Len(d) \in Nat
    OBVIOUS
  <2> QED
    BY <1>0, <2>1, <2>2, EnsureWritableHolds
<1>7. CASE DoReadFd
  BY <1>0, <1>7, ReadFdHolds DEF DoReadFd
<1>8. CASE UNCHANGED vars
  BY <1>0, <1>8 DEF vars
<1> QED
  BY <1>1, <1>2, <1>3, <1>4, <1>5, <1>6, <1>7, <1>8 DEF Next

LEMMA IInvHolds == Spec => []IInv
BY IInvInit, IInvStep, PTL DEF Spec

\* The indices of the buffer are in order and inside its vector, whatever its users do
\* (buffer.cpp's operations, in any order).
THEOREM BufferTypeCorrect == Spec => []TypeOK
<1>1. IInv => TypeOK
  BY DEF IInv, Holds, TypeOK
<1> QED
  BY <1>1, IInvHolds, PTL

\* The buffer is a queue of bytes: nothing is lost, duplicated or reordered when the readable bytes
\* are moved by makeSpace(), copied by shrink() or read in two parts by readFd().
THEOREM BufferIsAQueue == Spec => []HoldsQueue
<1>1. IInv => HoldsQueue
  BY HeldIsContents DEF IInv, HoldsQueue
<1> QED
  BY <1>1, IInvHolds, PTL

\* The std::copy() of makeSpace() never moves bytes towards the back, which would be undefined.
THEOREM MakeSpaceMovesForward == Spec => []MovesTowardsFront
<1>1. IInv => MovesTowardsFront
  <2> SUFFICES ASSUME IInv, NEW d \in Chunks, Writable(buf) < Len(d), ~MustGrow(buf, Len(d))
               PROVE  buf.read >= CheapPrepend
    BY DEF MovesTowardsFront
  <2>1. Len(d) \in Nat
    BY ChunksAssumption
  <2> QED
    BY <2>1, RoomAfterMove DEF IInv, Holds
<1> QED
  BY <1>1, IInvHolds, PTL

-----------------------------------------------------------------------------
(* Growth.                                                                 *)

\* Nothing but resize() changes the size, and that is called only when both free parts are too small.
LEMMA GrowthIsNeeded ==
    ASSUME NEW b, NEW q, Holds(b, q), NEW n \in Nat, EnsureWritable(b, n).size > b.size
    PROVE  b.size < CheapPrepend + Len(q) + n
<1>1. /\ b.size \in Nat /\ b.read \in Nat /\ b.write \in Nat /\ Len(q) \in Nat
      /\ b.write = b.read + Len(q) /\ b.write <= b.size /\ CheapPrepend <= b.size
      /\ b.mem \in [0 .. b.size - 1 -> Byte]
      /\ b \in [mem : [0 .. b.size - 1 -> Byte], size : Nat, read : Nat, write : Nat]
      /\ q \in Seq(Byte)
  BY HeldFields
<1>2. MoveToFront(b).size = b.size
  BY <1>1 DEF MoveToFront
<1>3. MustGrow(b, n)
  BY <1>1, <1>2 DEF EnsureWritable, MakeSpace
<1> QED
  BY <1>1, <1>3, SizesAssumption DEF MustGrow, Writable

LEMMA AppendGrowth ==
    ASSUME NEW b, NEW q, Holds(b, q), NEW d \in Seq(Byte), AppendTo(b, d).size > b.size
    PROVE  b.size < CheapPrepend + Len(q) + Len(d)
<1> DEFINE e == EnsureWritable(b, Len(d))
<1>1. Holds(e, q)
  BY EnsureWritableHolds
<1>2. AppendTo(b, d).size = e.size
  <2> HIDE DEF e
  <2>1. e \in [mem : [0 .. e.size - 1 -> Byte], size : Nat, read : Nat, write : Nat]
    BY <1>1, HeldFields
  <2>2. AppendTo(b, d) = [e EXCEPT !.mem = CopyTo(e.mem, e.write, d), !.write = @ + Len(d)]
    BY DEF AppendTo, e
  <2> QED
    BY <2>1, <2>2
<1> QED
  BY <1>2, GrowthIsNeeded

LEMMA ReadFdGrowth ==
    ASSUME NEW b, NEW q, Holds(b, q), NEW d \in Seq(Byte), ReadFd(b, d).size > b.size
    PROVE  b.size < CheapPrepend + Len(q) + Len(d)
<1> DEFINE w == Writable(b)
           first == SubSeq(d, 1, w)
           rest == SubSeq(d, w + 1, Len(d))
           x == [b EXCEPT !.mem = CopyTo(b.mem, b.write, d), !.write = b.size]
<1>1. /\ b.size \in Nat /\ b.read \in Nat /\ b.write \in Nat /\ Len(q) \in Nat
      /\ b.write = b.read + Len(q) /\ b.write <= b.size /\ CheapPrepend <= b.size
      /\ b.mem \in [0 .. b.size - 1 -> Byte]
      /\ b \in [mem : [0 .. b.size - 1 -> Byte], size : Nat, read : Nat, write : Nat]
      /\ q \in Seq(Byte)
  BY HeldFields
<1>2. w \in Nat /\ Len(d) \in Nat
  BY <1>1 DEF Writable
<1>3. Len(d) > w
  <2> SUFFICES ASSUME Len(d) <= w PROVE FALSE
    BY <1>2
  <2>1. ReadFd(b, d) = [b EXCEPT !.mem = CopyTo(b.mem, b.write, d), !.write = @ + Len(d)]
    BY DEF ReadFd
  <2>2. ReadFd(b, d).size = b.size
    BY <1>1, <2>1
  <2> QED
    BY <1>1, <2>2
<1>4. rest \in Seq(Byte) /\ Len(rest) = Len(d) - w
  BY <1>2, <1>3
<1>5. /\ x \in [mem : [0 .. b.size - 1 -> Byte], size : Nat, read : Nat, write : Nat]
      /\ x.size = b.size /\ x.read = b.read /\ x.write = b.size
  BY <1>1, CopyToType
<1>6. ReadFd(b, d) = AppendTo(x, rest)
  BY <1>2, <1>3 DEF ReadFd
<1> HIDE DEF x, rest, w
<1>7. IsBuffer(x)
  BY <1>1, <1>5 DEF IsBuffer
<1>8. Holds(x, Contents(x)) /\ Len(Contents(x)) = b.size - b.read
  BY <1>5, <1>7, ContentsHeld DEF Holds, Readable
<1>9. b.size < CheapPrepend + (b.size - b.read) + Len(rest)
  BY <1>4, <1>5, <1>6, <1>8, AppendGrowth
<1>10. w = b.size - b.write
  BY DEF w, Writable
<1>11. /\ b.size \in Nat /\ b.read \in Nat /\ b.write \in Nat /\ Len(q) \in Nat /\ Len(d) \in Nat
       /\ b.write = b.read + Len(q) /\ Len(rest) = Len(d) - w
  BY <1>1, <1>2, <1>4
<1>12. Len(rest) = Len(d) - (b.size - b.write)
  BY ONLY <1>10, <1>11
<1>13. b.size < CheapPrepend + (b.size - b.read) + (Len(d) - (b.size - b.write))
  BY ONLY <1>9, <1>12
<1>14. CheapPrepend \in Nat
  BY SizesAssumption
<1> QED
  BY ONLY <1>11, <1>13, <1>14

\* append() and readFd() call resize() only when the bytes would not fit behind the reserve, even if
\* the readable ones moved to the front (makeSpace()).
THEOREM BufferGrowsOnlyWhenFull == Spec => GrowsOnlyWhenFull
<1>1. ASSUME IInv, IInv', [Next]_vars, buf'.size > buf.size, Len(queue') > Len(queue)
      PROVE  CheapPrepend + Readable(buf') > buf.size
  <2> USE ChunksAssumption
  <2>1. Holds(buf, queue) /\ queue \in Seq(Byte) /\ buf.size \in Nat /\ Len(queue) \in Nat
    BY <1>1, HeldFields DEF IInv
  <2>2. Readable(buf') = Len(queue')
    BY <1>1 DEF IInv, Holds
  <2>3. buf \in [mem : [0 .. buf.size - 1 -> Byte], size : Nat, read : Nat, write : Nat]
    BY <2>1, HeldFields
  <2>4. CASE DoAppend
    <3>1. PICK d \in Chunks : buf' = AppendTo(buf, d) /\ queue' = queue \o d
      BY <2>4 DEF DoAppend
    <3>2. Len(queue') = Len(queue) + Len(d)
      BY <2>1, <3>1, ConcatProperties
    <3>3. buf.size < CheapPrepend + Len(queue) + Len(d)
      BY <1>1, <2>1, <3>1, AppendGrowth
    <3> QED
      BY <2>1, <2>2, <3>2, <3>3, SizesAssumption
  <2>5. CASE DoReadFd
    <3>1. PICK d \in Chunks : buf' = ReadFd(buf, d) /\ queue' = queue \o d
      BY <2>5 DEF DoReadFd
    <3>2. Len(queue') = Len(queue) + Len(d)
      BY <2>1, <3>1, ConcatProperties
    <3>3. buf.size < CheapPrepend + Len(queue) + Len(d)
      BY <1>1, <2>1, <3>1, ReadFdGrowth
    <3> QED
      BY <2>1, <2>2, <3>2, <3>3, SizesAssumption
  <2>6. CASE DoRetrieve \/ DoUnwrite \/ DoPrepend
    <3>1. \A n : Retrieve(buf, n).size = buf.size
      BY <2>3 DEF Retrieve, RetrieveAll
    <3>2. \A d : Prepend(buf, d).size = buf.size
      BY <2>3 DEF Prepend
    <3>3. \A n : [buf EXCEPT !.write = @ - n].size = buf.size
      BY <2>3
    <3>4. buf'.size = buf.size
      <4>1. CASE DoRetrieve
        BY <3>1, <4>1 DEF DoRetrieve
      <4>2. CASE DoUnwrite
        BY <3>3, <4>2 DEF DoUnwrite
      <4>3. CASE DoPrepend
        BY <3>2, <4>3 DEF DoPrepend
      <4> QED
        BY <2>6, <4>1, <4>2, <4>3
    <3> QED
      BY <1>1, <2>1, <3>4
  <2>7. CASE DoShrink \/ DoEnsure \/ UNCHANGED vars
    <3>1. queue' = queue
      BY <2>7 DEF DoShrink, DoEnsure, vars
    <3> QED
      BY <1>1, <2>1, <3>1
  <2> QED
    BY <1>1, <2>4, <2>5, <2>6, <2>7 DEF Next
<1>2. IInv /\ IInv' /\ [Next]_vars =>
        [buf'.size > buf.size /\ Len(queue') > Len(queue) => CheapPrepend + Readable(buf') > buf.size]_vars
  BY <1>1
<1> QED
  BY <1>2, IInvHolds, PTL DEF Spec, GrowsOnlyWhenFull

=============================================================================
