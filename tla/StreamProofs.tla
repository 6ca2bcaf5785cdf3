----------------------------- MODULE StreamProofs ----------------------------
(***************************************************************************)
(* Connection keeps what it is handed, in order: it implements the safety  *)
(* part of EchoPipe, for every set of users, every number of bytes and     *)
(* calls and every capacity of the send buffer.                            *)
(***************************************************************************)
EXTENDS ConnectionProofs, FiniteSetTheorems, SequenceTheorems

\* Nothing that is handed over is dropped: the connection has not left CONNECTED, and a reset has not
\* found the backlog empty.
Up == state \in {"CONNECTING", "CONNECTED"} /\ (~reset \/ output # <<>>)

\* The tasks of send() carry a byte each, and the others none.
Carried ==
    \A i \in DOMAIN Todo :
        IF Todo[i].kind = "send"
        THEN \E u \in Users, k \in 1 .. MaxCalls : Todo[i].data = <<<<u, k>>>>
        ELSE Todo[i].data = <<>>

Number(i) == Todo[i].data[1][2]

\* The receive buffer holds the last bytes of the peer.
Received ==
    /\ Len(rcv) <= sent[Peer]
    /\ \A i \in 1 .. Len(rcv) : rcv[i] = <<Peer, sent[Peer] - Len(rcv) + i>>

\* What has not been taken of a user is in its tasks, each byte once and in order; what has not been taken
\* of the peer is in the receive buffer.
Queued ==
    Up =>
        /\ sent[Peer] = Cardinality(From(Peer)) + Len(rcv)
        /\ \A u \in Users :
            /\ Cardinality(From(u)) <= sent[u]
            /\ {Number(i) : i \in InTasks(u)} = Cardinality(From(u)) + 1 .. sent[u]
            /\ \A i, j \in InTasks(u) : i < j => Number(i) < Number(j)

\* Our FIN, and what leads to it, come after the state has changed.
FinLate ==
    \/ fin
    \/ \E i \in DOMAIN Todo : Todo[i].kind = "shutdown"
    \/ \E u \in Users : user[u] = "postShutdown"
    => state \notin {"CONNECTING", "CONNECTED"}

\* Nobody has called send() before the connection is established.
NotYet == state = "CONNECTING" => \A i \in DOMAIN Todo : Todo[i].kind # "send"

StreamInv == NotYet /\ Carried /\ Received /\ Queued /\ FinLate
-----------------------------------------------------------------------------
(* Sequences, and how many bytes of one source there are in one.           *)

Places(q, t) == {i \in DOMAIN q : q[i][1] = t}

LEMMA SplitWhole ==
    ASSUME NEW S, NEW d \in Seq(S), NEW n \in 0 .. Len(d)
    PROVE  SubSeq(d, 1, n) \o SubSeq(d, n + 1, Len(d)) = d
<1>1. 1 \in 1 .. Len(d) + 1 /\ n \in 1 - 1 .. Len(d) /\ Len(d) \in n .. Len(d)
  OBVIOUS
<1>2. SubSeq(d, 1, n) \o SubSeq(d, n + 1, Len(d)) = SubSeq(d, 1, Len(d))
  BY <1>1, ConcatAdjacentSubSeq
<1> QED
  BY <1>2, SubSeqFull

LEMMA PartTyped ==
    ASSUME NEW S, NEW d \in Seq(S), NEW n \in 0 .. Len(d)
    PROVE  /\ SubSeq(d, 1, n) \in Seq(S) /\ Len(SubSeq(d, 1, n)) = n
           /\ SubSeq(d, n + 1, Len(d)) \in Seq(S) /\ Len(SubSeq(d, n + 1, Len(d))) = Len(d) - n
           /\ \A i \in 1 .. n : SubSeq(d, 1, n)[i] = d[i]
           /\ \A i \in 1 .. Len(d) - n : SubSeq(d, n + 1, Len(d))[i] = d[n + i]
OBVIOUS

LEMMA PlacesFinite ==
    ASSUME NEW S, NEW q \in Seq(S), NEW t
    PROVE  IsFiniteSet(Places(q, t)) /\ Cardinality(Places(q, t)) \in Nat
<1>1. Places(q, t) \in SUBSET (1 .. Len(q)) /\ Len(q) \in Nat
  BY DEF Places
<1>2. IsFiniteSet(1 .. Len(q))
  BY <1>1, FS_Interval
<1>3. IsFiniteSet(Places(q, t))
  BY <1>1, <1>2, FS_Subset
<1> QED
  BY <1>3, FS_CardinalityType

\* A run of bytes of s adds its length to what there is of s.
LEMMA PlacesGrow ==
    ASSUME NEW S, NEW q \in Seq(S), NEW d \in Seq(S), NEW s, \A i \in 1 .. Len(d) : d[i][1] = s
    PROVE  /\ Cardinality(Places(q \o d, s)) = Cardinality(Places(q, s)) + Len(d)
           /\ \A t : t # s => Places(q \o d, t) = Places(q, t)
<1>1. /\ q \o d \in Seq(S) /\ Len(q \o d) = Len(q) + Len(d) /\ Len(q) \in Nat /\ Len(d) \in Nat
      /\ \A i \in 1 .. Len(q) : (q \o d)[i] = q[i]
      /\ \A i \in Len(q) + 1 .. Len(q) + Len(d) : (q \o d)[i] = d[i - Len(q)] /\ i - Len(q) \in 1 .. Len(d)
  OBVIOUS
<1>2. DOMAIN (q \o d) = 1 .. Len(q) + Len(d) /\ DOMAIN q = 1 .. Len(q)
  BY <1>1
<1> DEFINE new == Len(q) + 1 .. Len(q) + Len(d)
<1>3. Places(q \o d, s) = Places(q, s) \cup new /\ Places(q, s) \cap new = {}
  BY <1>1, <1>2 DEF Places
<1>4. \A t : t # s => Places(q \o d, t) = Places(q, t)
  BY <1>1, <1>2 DEF Places
<1>5. IsFiniteSet(new) /\ Cardinality(new) = Len(d)
  <2>1. Len(q) + 1 \in Int /\ Len(q) + Len(d) \in Int
    BY <1>1
  <2>2. ASSUME NEW a \in Int, NEW b \in Int, a <= b + 1 PROVE IsFiniteSet(a .. b) /\ Cardinality(a .. b) = b - a + 1
    BY <2>2, FS_Interval
  <2>3. Len(q) + 1 <= Len(q) + Len(d) + 1
    BY <1>1
  <2>4. IsFiniteSet(new) /\ Cardinality(new) = (Len(q) + Len(d)) - (Len(q) + 1) + 1
    BY <2>1, <2>2, <2>3
  <2> QED
    BY <1>1, <2>4
<1>6. IsFiniteSet(Places(q, s)) /\ Cardinality(Places(q, s)) \in Nat
  BY PlacesFinite
<1>7. Cardinality(Places(q, s) \cup new) = Cardinality(Places(q, s)) + Cardinality(new) - Cardinality({})
  BY <1>3, <1>5, <1>6, FS_Union, SMTT(30)
<1> QED
  BY <1>1, <1>3, <1>4, <1>5, <1>6, <1>7, FS_EmptySet

LEMMA SplitAppended ==
    ASSUME NEW S, NEW q \in Seq(S), NEW d \in Seq(S), NEW n \in 0 .. Len(d)
    PROVE  (q \o SubSeq(d, 1, n)) \o SubSeq(d, n + 1, Len(d)) = q \o d
<1>1. ASSUME NEW a \in Seq(S), NEW b \in Seq(S), a \o b = d PROVE (q \o a) \o b = q \o d
  <2>1. (q \o a) \o b = q \o (a \o b)
    BY ConcatAssociative, SMTT(30)
  <2> QED
    BY <2>1, <1>1
<1>2. \A a, b \in Seq(S) : a \o b = d => (q \o a) \o b = q \o d
  BY <1>1
<1>3. SubSeq(d, 1, n) \in Seq(S) /\ SubSeq(d, n + 1, Len(d)) \in Seq(S)
  BY PartTyped
<1>4. SubSeq(d, 1, n) \o SubSeq(d, n + 1, Len(d)) = d
  BY SplitWhole
<1> QED
  BY <1>2, <1>3, <1>4, Zenon

-----------------------------------------------------------------------------
(* The stream.                                                             *)

LEMMA StreamTyped ==
    ASSUME TypeOK
    PROVE  /\ delivered \in Seq(Bytes) /\ snd \in Seq(Bytes) /\ output \in Seq(Bytes) /\ rcv \in Seq(Bytes)
           /\ Transit \in Seq(Bytes) /\ Stream \in Seq(Bytes)
           /\ \A s : From(s) = Places(Stream, s)
           /\ \A s : Cardinality(From(s)) \in Nat
<1>1. delivered \in Seq(Bytes) /\ snd \in Seq(Bytes) /\ output \in Seq(Bytes) /\ rcv \in Seq(Bytes)
  BY DEF TypeOK
<1>2. Transit \in Seq(Bytes) /\ Stream \in Seq(Bytes)
  <2>1. Transit \in Seq(Bytes)
    BY <1>1, ConcatProperties DEF Transit
  <2> QED
    BY <1>1, <2>1, ConcatProperties DEF Stream
<1>3. \A s : From(s) = Places(Stream, s)
  BY DEF From, Places
<1> QED
  BY <1>1, <1>2, <1>3, PlacesFinite

\* sendInLoop() of a connection that loses nothing adds its bytes to the end.
LEMMA SendExtends ==
    ASSUME TypeOK, NEW d \in Seq(Bytes), SendInLoop(d), state = "CONNECTED", Up, ~fin
    PROVE  Transit' = Transit \o d
<1>0. snd \in Seq(Bytes) /\ output \in Seq(Bytes)
  BY StreamTyped
<1>1. ~(output = <<>> /\ (reset \/ fin))
  BY DEF Up
<1>2. PICK n \in DirectWrite(d) :
          snd' = snd \o SubSeq(d, 1, n) /\ output' = output \o SubSeq(d, n + 1, Len(d))
  BY <1>1 DEF SendInLoop
<1>3. CASE output = <<>>
  <2>1. n \in 0 .. Len(d)
    BY <1>2, <1>3, <1>1 DEF DirectWrite, Taken
  <2>2. /\ SubSeq(d, 1, n) \in Seq(Bytes) /\ SubSeq(d, n + 1, Len(d)) \in Seq(Bytes)
        /\ SubSeq(d, 1, n) \o SubSeq(d, n + 1, Len(d)) = d
    BY <2>1, PartTyped, SplitWhole
  <2>3. output' = SubSeq(d, n + 1, Len(d)) /\ Transit = snd
    BY <1>0, <1>2, <1>3, <2>2, ConcatEmptySeq DEF Transit
  <2>4. (snd \o SubSeq(d, 1, n)) \o SubSeq(d, n + 1, Len(d)) = snd \o d
    BY <1>0, <2>1, SplitAppended
  <2> QED
    BY <1>2, <2>3, <2>4 DEF Transit
<1>4. CASE output # <<>>
  <2>1. n = 0
    BY <1>2, <1>4 DEF DirectWrite
  <2>2. SubSeq(d, 1, 0) = <<>> /\ SubSeq(d, 0 + 1, Len(d)) = d
    BY SubSeqEmpty, SubSeqFull
  <2>3. snd' = snd /\ output' = output \o d
    BY <1>0, <1>2, <2>1, <2>2, ConcatEmptySeq
  <2> QED
    BY <1>0, <2>3, ConcatAssociative, SMTT(30) DEF Transit
<1> QED
  BY <1>3, <1>4

\* handleWrite() moves bytes from the backlog to the kernel.
LEMMA WriteMoves ==
    ASSUME TypeOK, HandleWrite
    PROVE  Transit' = Transit /\ (reset => UNCHANGED output) /\ UNCHANGED <<state, reset>>
<1>0. snd \in Seq(Bytes) /\ output \in Seq(Bytes)
  BY StreamTyped
<1>1. CASE "OUT" \notin events
  BY <1>1 DEF HandleWrite, Transit
<1>2. CASE "OUT" \in events
  <2>1. PICK n \in Taken(output) : snd' = snd \o SubSeq(output, 1, n) /\ output' = AfterRetrieve(n)
    BY <1>2 DEF HandleWrite
  <2>2. n \in 0 .. Len(output) /\ (reset => n = 0)
    BY <1>0, <2>1 DEF Taken
  <2>4. Transit' = (snd \o SubSeq(output, 1, n)) \o SubSeq(output, n + 1, Len(output))
    BY <2>1 DEF Transit, AfterRetrieve
  <2>6. Transit' = snd \o output
    BY <1>0, <2>2, <2>4, SplitAppended
  <2>5. reset => output' = output
    BY <1>0, <2>1, <2>2, SubSeqFull DEF AfterRetrieve
  <2> QED
    BY <2>5, <2>6 DEF Transit, HandleWrite
<1> QED
  BY <1>1, <1>2

\* The peer takes the first byte.
LEMMA PeerTakes ==
    ASSUME TypeOK, PeerReceives
    PROVE  /\ Transit # <<>> /\ delivered' = Append(delivered, Head(Transit)) /\ Transit' = Tail(Transit)
           /\ Stream' = Stream
<1>0. snd \in Seq(Bytes) /\ output \in Seq(Bytes) /\ delivered \in Seq(Bytes) /\ snd # <<>>
  BY StreamTyped DEF PeerReceives
<1>1. delivered' = Append(delivered, Head(snd)) /\ snd' = Tail(snd) /\ output' = output
  BY DEF PeerReceives, connVars
<1>2. Head(snd) \in Bytes /\ Tail(snd) \in Seq(Bytes) /\ <<Head(snd)>> \in Seq(Bytes) /\ snd = <<Head(snd)>> \o Tail(snd)
  BY <1>0
<1>3. Transit = <<Head(snd)>> \o (Tail(snd) \o output)
  BY <1>0, <1>2, ConcatAssociative DEF Transit
<1>4. Tail(snd) \o output \in Seq(Bytes)
  BY <1>0, <1>2, ConcatProperties
<1>5. Head(Transit) = Head(snd) /\ Tail(Transit) = Tail(snd) \o output /\ Transit # <<>>
  <2>1. ASSUME NEW x \in Bytes, NEW q \in Seq(Bytes)
        PROVE  Head(<<x>> \o q) = x /\ Tail(<<x>> \o q) = q /\ <<x>> \o q # <<>>
    OBVIOUS
  <2> QED
    BY <1>2, <1>3, <1>4, <2>1
<1>6. delivered' = delivered \o <<Head(snd)>>
  BY <1>0, <1>1, <1>2, AppendIsConcat
<1>7. Stream' = delivered \o (<<Head(snd)>> \o (Tail(snd) \o output))
  BY <1>0, <1>1, <1>2, <1>4, <1>6, ConcatAssociative, SMTT(30) DEF Stream, Transit
<1> QED
  BY <1>1, <1>3, <1>5, <1>7 DEF Stream, Transit
-----------------------------------------------------------------------------
(* The tasks.                                                              *)

LEMMA InTasksIs ==
    \A s : InTasks(s) = {i \in DOMAIN Todo : Todo[i].data # <<>> /\ Todo[i].data[1][1] = s}
BY DEF InTasks, Todo

\* A task of send() is of one user, and has the number of its byte; the others are of nobody.
LEMMA WhoseTask ==
    ASSUME Carried, NEW i \in DOMAIN Todo
    PROVE  /\ Todo[i].kind # "send" => Todo[i].data = <<>> /\ \A s : i \notin InTasks(s)
           /\ Todo[i].kind = "send" =>
                 \E u \in Users, k \in 1 .. MaxCalls :
                     /\ Todo[i].data = <<<<u, k>>>> /\ Number(i) = k /\ i \in InTasks(u)
                     /\ \A s : s # u => i \notin InTasks(s)
<1>1. CASE Todo[i].kind # "send"
  BY <1>1, InTasksIs DEF Carried
<1>2. CASE Todo[i].kind = "send"
  <2>1. PICK u \in Users, k \in 1 .. MaxCalls : Todo[i].data = <<<<u, k>>>>
    BY <1>2 DEF Carried
  <2>2. Todo[i].data # <<>> /\ Todo[i].data[1][1] = u /\ Todo[i].data[1][2] = k
    BY <2>1
  <2>3. i \in InTasks(u) /\ \A s : s # u => i \notin InTasks(s)
    BY <2>2, InTasksIs
  <2> QED
    BY <1>2, <2>1, <2>2, <2>3 DEF Number
<1> QED
  BY <1>1, <1>2

\* A task is taken: the others move up.
LEMMA TakesTask ==
    ASSUME Inv, NEW k, NextTask(k)
    PROVE  /\ 1 \in DOMAIN Todo /\ Todo[1] = Head(tasks) /\ Todo[1].kind = k
           /\ \A i \in DOMAIN Todo' : i \in Nat /\ i + 1 \in DOMAIN Todo /\ Todo'[i] = Todo[i + 1]
           /\ \A i \in DOMAIN Todo : i # 1 => i - 1 \in DOMAIN Todo'
           /\ DOMAIN Todo' \subseteq Nat \ {0} /\ DOMAIN Todo \subseteq Nat \ {0}
<1>1. tasks \in Seq(TaskSet) /\ pending \in Seq(TaskSet) /\ tasks # <<>>
  BY TodoTyped DEF Inv, InCall, NextTask
<1>2. ASSUME NEW s \in Seq(TaskSet), NEW t \in Seq(TaskSet), s # <<>>
      PROVE  /\ 1 \in DOMAIN (s \o t) /\ (s \o t)[1] = Head(s)
             /\ \A i \in DOMAIN (Tail(s) \o t) : i \in Nat /\ i + 1 \in DOMAIN (s \o t) /\ (Tail(s) \o t)[i] = (s \o t)[i + 1]
             /\ \A i \in DOMAIN (s \o t) : i # 1 => i - 1 \in DOMAIN (Tail(s) \o t)
             /\ DOMAIN (s \o t) \subseteq Nat \ {0} /\ DOMAIN (Tail(s) \o t) \subseteq Nat \ {0}
  <2>1. /\ Len(s) \in Nat \ {0} /\ Len(t) \in Nat /\ Tail(s) \in Seq(TaskSet) /\ Len(Tail(s)) = Len(s) - 1
        /\ \A i \in 1 .. Len(s) - 1 : Tail(s)[i] = s[i + 1]
    BY <1>2
  <2>2. /\ DOMAIN (s \o t) = 1 .. Len(s) + Len(t) /\ DOMAIN (Tail(s) \o t) = 1 .. Len(s) - 1 + Len(t)
        /\ (s \o t)[1] = Head(s)
    BY <1>2, <2>1
  <2>3. \A i \in 1 .. Len(s) - 1 + Len(t) : (Tail(s) \o t)[i] = (s \o t)[i + 1]
    <3> SUFFICES ASSUME NEW i \in 1 .. Len(s) - 1 + Len(t) PROVE (Tail(s) \o t)[i] = (s \o t)[i + 1]
      OBVIOUS
    <3>1. CASE i <= Len(s) - 1
      BY <2>1, <3>1
    <3>2. CASE i > Len(s) - 1
      BY <2>1, <3>2
    <3> QED
      BY <2>1, <3>1, <3>2
  <2> QED
    BY <2>1, <2>2, <2>3
<1>3. tasks' = Tail(tasks) /\ pending' = pending /\ Head(tasks).kind = k
  BY DEF NextTask
<1> QED
  BY <1>1, <1>2, <1>3, SMTT(30) DEF Todo

\* A task is posted: it comes last.
LEMMA PostsTask ==
    ASSUME TypeOK, NEW task \in TaskSet, pending' = Append(pending, task), tasks' = tasks
    PROVE  /\ Len(Todo) + 1 \in DOMAIN Todo' /\ Todo'[Len(Todo) + 1] = task
           /\ DOMAIN Todo' = DOMAIN Todo \cup {Len(Todo) + 1}
           /\ \A i \in DOMAIN Todo : i \in Nat /\ i < Len(Todo) + 1 /\ Todo'[i] = Todo[i]
<1>1. tasks \in Seq(TaskSet) /\ pending \in Seq(TaskSet) /\ Todo \in Seq(TaskSet)
  BY TodoTyped
<1>2. ASSUME NEW s \in Seq(TaskSet), NEW t \in Seq(TaskSet)
      PROVE  s \o Append(t, task) = Append(s \o t, task) /\ s \o t \in Seq(TaskSet)
  OBVIOUS
<1>3. Todo' = Append(Todo, task)
  BY <1>1, <1>2 DEF Todo
<1> QED
  BY <1>1, <1>3
-----------------------------------------------------------------------------
(* The parts of the invariant that are about the tasks alone.              *)

LEMMA TasksTaken ==
    ASSUME Inv, StreamInv, NEW k, NextTask(k), state' = "CONNECTING" => state = "CONNECTING"
    PROVE  NotYet' /\ Carried'
<1>1. \A i \in DOMAIN Todo' : i + 1 \in DOMAIN Todo /\ Todo'[i] = Todo[i + 1]
  BY TakesTask
<1> QED
  BY <1>1 DEF StreamInv, NotYet, Carried

LEMMA TasksPosted ==
    ASSUME TypeOK, StreamInv, NEW task \in TaskSet, pending' = Append(pending, task), tasks' = tasks, state' = state,
           IF task.kind = "send"
           THEN state # "CONNECTING" /\ \E u \in Users, k \in 1 .. MaxCalls : task.data = <<<<u, k>>>>
           ELSE task.data = <<>>
    PROVE  NotYet' /\ Carried'
<1>1. \A i \in DOMAIN Todo' : Todo'[i] = task \/ (i \in DOMAIN Todo /\ Todo'[i] = Todo[i])
  BY PostsTask
<1> QED
  BY <1>1 DEF StreamInv, NotYet, Carried

\* The tasks of u after one has been taken, and after one has been posted.
LEMMA OthersMoveUp ==
    ASSUME Inv, NEW k, NextTask(k), NEW u
    PROVE  /\ \A i \in InTasks(u)' : i \in Nat /\ i + 1 \in InTasks(u) \ {1} /\ Number(i)' = Number(i + 1)
           /\ \A i \in InTasks(u) \ {1} : i - 1 \in InTasks(u)' /\ Number(i - 1)' = Number(i)
           /\ {Number(i) : i \in InTasks(u)}' = {Number(i) : i \in InTasks(u) \ {1}}
           /\ InTasks(u) \subseteq Nat \ {0}
<1>0. /\ \A i \in DOMAIN Todo' : i \in Nat \ {0} /\ i + 1 \in DOMAIN Todo /\ Todo'[i] = Todo[i + 1]
      /\ \A i \in DOMAIN Todo : i \in Nat \ {0} /\ (i # 1 => i - 1 \in DOMAIN Todo')
  BY TakesTask
<1>1. /\ InTasks(u) = {i \in DOMAIN Todo : Todo[i].data # <<>> /\ Todo[i].data[1][1] = u}
      /\ InTasks(u)' = {i \in DOMAIN Todo' : Todo'[i].data # <<>> /\ Todo'[i].data[1][1] = u}
  BY InTasksIs DEF InTasks, Todo
<1>2. \A i \in InTasks(u)' : i \in Nat /\ i + 1 \in InTasks(u) \ {1} /\ Number(i)' = Number(i + 1)
  BY <1>0, <1>1 DEF Number
<1>3. \A i \in InTasks(u) \ {1} : i - 1 \in InTasks(u)' /\ Number(i - 1)' = Number(i)
  <2> SUFFICES ASSUME NEW i \in InTasks(u) \ {1}
               PROVE  i - 1 \in InTasks(u)' /\ Number(i - 1)' = Number(i)
    OBVIOUS
  <2>1. i \in Nat \ {0} /\ i - 1 \in DOMAIN Todo' /\ (i - 1) + 1 = i
    BY <1>0, <1>1
  <2>2. Todo'[i - 1] = Todo[i]
    BY <1>0, <2>1
  <2> QED
    BY <1>1, <2>1, <2>2 DEF Number
<1>4. {Number(i) : i \in InTasks(u)}' = {Number(i) : i \in InTasks(u) \ {1}}
  <2> DEFINE new == InTasks(u)'
             num(i) == Number(i)'
  <2>1. {Number(i) : i \in InTasks(u)}' = {num(i) : i \in new}
    OBVIOUS
  <2>2. {num(i) : i \in new} = {Number(i) : i \in InTasks(u) \ {1}}
    BY <1>2, <1>3
  <2> QED
    BY <2>1, <2>2
<1> QED
  BY <1>0, <1>1, <1>2, <1>3, <1>4

LEMMA OthersStay ==
    ASSUME TypeOK, NEW task \in TaskSet, pending' = Append(pending, task), tasks' = tasks, NEW u
    PROVE  /\ \A i \in InTasks(u) : i \in Nat /\ i < Len(Todo) + 1 /\ Number(i)' = Number(i)
           /\ InTasks(u)' = InTasks(u) \cup
                   (IF task.data # <<>> /\ task.data[1][1] = u THEN {Len(Todo) + 1} ELSE {})
           /\ \A i : i = Len(Todo) + 1 => Number(i)' = task.data[1][2]
<1>0. /\ Len(Todo) + 1 \in DOMAIN Todo' /\ Todo'[Len(Todo) + 1] = task
      /\ DOMAIN Todo' = DOMAIN Todo \cup {Len(Todo) + 1}
      /\ \A i \in DOMAIN Todo : i \in Nat /\ i < Len(Todo) + 1 /\ Todo'[i] = Todo[i]
  BY PostsTask
<1>1. /\ InTasks(u) = {i \in DOMAIN Todo : Todo[i].data # <<>> /\ Todo[i].data[1][1] = u}
      /\ InTasks(u)' = {i \in DOMAIN Todo' : Todo'[i].data # <<>> /\ Todo'[i].data[1][1] = u}
  BY InTasksIs DEF InTasks, Todo
<1>2. \A i \in InTasks(u) : i \in Nat /\ i < Len(Todo) + 1 /\ Number(i)' = Number(i)
  BY <1>0, <1>1 DEF Number
<1>3. InTasks(u)' = InTasks(u) \cup (IF task.data # <<>> /\ task.data[1][1] = u THEN {Len(Todo) + 1} ELSE {})
  BY <1>0, <1>1
<1> QED
  BY <1>0, <1>2, <1>3 DEF Number
-----------------------------------------------------------------------------
(* What is queued, and what has been taken.                                *)

\* The tasks of u, in the state of Queued.
InRow(u) ==
    /\ Cardinality(From(u)) <= sent[u]
    /\ {Number(i) : i \in InTasks(u)} = Cardinality(From(u)) + 1 .. sent[u]
    /\ \A i, j \in InTasks(u) : i < j => Number(i) < Number(j)

LEMMA QueuedIs ==
    Queued <=> (Up => sent[Peer] = Cardinality(From(Peer)) + Len(rcv) /\ \A u \in Users : InRow(u))
BY DEF Queued, InRow

LEMMA SentTyped == ASSUME TypeOK PROVE \A s \in Sources : sent[s] \in Nat
BY DEF TypeOK

\* Nothing of u moves but for the tasks of others.
LEMMA RowAlone ==
    ASSUME NEW u, InRow(u), sent'[u] = sent[u], From(u)' = From(u), InTasks(u)' = InTasks(u), \A i \in InTasks(u) : Number(i)' = Number(i)
    PROVE  InRow(u)'
<1> DEFINE num(i) == Number(i)'
           row == InTasks(u)'
<1>1. {Number(i) : i \in InTasks(u)}' = {num(i) : i \in row}
  OBVIOUS
<1>2. {num(i) : i \in row} = {Number(i) : i \in InTasks(u)}
  <2>1. row = InTasks(u) /\ \A i \in InTasks(u) : num(i) = Number(i)
    OBVIOUS
  <2> HIDE DEF num, row
  <2> QED
    BY <2>1
<1>3. (\A i, j \in InTasks(u) : i < j => Number(i) < Number(j))'
  BY DEF InRow
<1>4. sent'[u] = sent[u] /\ From(u)' = From(u)
  OBVIOUS
<1> HIDE DEF num, row
<1> QED
  BY <1>1, <1>2, <1>3, <1>4 DEF InRow

LEMMA RowMovesUp ==
    ASSUME Inv, NEW k, NextTask(k), NEW u, InRow(u), 1 \notin InTasks(u), UNCHANGED <<sent, From(u)>>
    PROVE  InRow(u)'
<1>1. /\ \A i \in InTasks(u)' : i \in Nat /\ i + 1 \in InTasks(u) /\ Number(i)' = Number(i + 1)
      /\ {Number(i) : i \in InTasks(u)}' = {Number(i) : i \in InTasks(u) \ {1}}
  BY OthersMoveUp
<1>2. InTasks(u) \ {1} = InTasks(u)
  OBVIOUS
<1>3. (\A i, j \in InTasks(u) : i < j => Number(i) < Number(j))'
  <2> SUFFICES ASSUME NEW i \in InTasks(u)', NEW j \in InTasks(u)', i < j PROVE Number(i)' < Number(j)'
    OBVIOUS
  <2>1. i \in Nat /\ j \in Nat /\ i + 1 \in InTasks(u) /\ j + 1 \in InTasks(u) /\ i + 1 < j + 1
    BY <1>1
  <2>2. Number(i + 1) < Number(j + 1)
    BY <2>1 DEF InRow
  <2> QED
    BY <1>1, <2>2
<1>4. sent'[u] = sent[u] /\ From(u)' = From(u)
  OBVIOUS
<1> QED
  BY <1>1, <1>2, <1>3, <1>4 DEF InRow

\* The first task of u holds the byte after those that have been taken, and the next one is as good.
LEMMA FirstIsNext ==
    ASSUME Inv, StreamInv, Up, NEW u \in Users, 1 \in InTasks(u)
    PROVE  /\ Number(1) = Cardinality(From(u)) + 1 /\ Cardinality(From(u)) + 1 <= sent[u]
           /\ {Number(i) : i \in InTasks(u) \ {1}} = Cardinality(From(u)) + 2 .. sent[u]
<1>0. Cardinality(From(u)) \in Nat /\ sent[u] \in Nat
  BY StreamTyped, SentTyped DEF Inv, Sources
<1>1. /\ {Number(i) : i \in InTasks(u)} = Cardinality(From(u)) + 1 .. sent[u]
      /\ \A i, j \in InTasks(u) : i < j => Number(i) < Number(j)
  BY QueuedIs DEF StreamInv, InRow
<1>2. \A i \in InTasks(u) : i \in Nat /\ (i = 1 \/ 1 < i)
  BY InTasksIs, TodoTyped DEF Inv
<1>3. \A i \in InTasks(u) \ {1} : Number(1) < Number(i)
  BY <1>1, <1>2
<1>4. \A i \in InTasks(u) : Number(i) \in Cardinality(From(u)) + 1 .. sent[u]
  BY <1>1
<1>5. Number(1) = Cardinality(From(u)) + 1 /\ Cardinality(From(u)) + 1 <= sent[u]
  <2>1. Number(1) \in Cardinality(From(u)) + 1 .. sent[u]
    BY <1>4
  <2>2. PICK i \in InTasks(u) : Number(i) = Cardinality(From(u)) + 1
    <3>1. Cardinality(From(u)) + 1 \in Cardinality(From(u)) + 1 .. sent[u]
      BY <1>0, <2>1
    <3> QED
      BY <1>1, <3>1
  <2> QED
    BY <1>0, <1>3, <2>1, <2>2
<1>6. {Number(i) : i \in InTasks(u) \ {1}} \subseteq Cardinality(From(u)) + 2 .. sent[u]
  BY <1>0, <1>3, <1>4, <1>5
<1>7. Cardinality(From(u)) + 2 .. sent[u] \subseteq {Number(i) : i \in InTasks(u) \ {1}}
  <2> SUFFICES ASSUME NEW n \in Cardinality(From(u)) + 2 .. sent[u] PROVE n \in {Number(i) : i \in InTasks(u) \ {1}}
    OBVIOUS
  <2>1. n \in Cardinality(From(u)) + 1 .. sent[u] /\ n # Number(1)
    BY <1>0, <1>5
  <2>2. PICK i \in InTasks(u) : Number(i) = n
    BY <1>1, <2>1
  <2> QED
    BY <2>1, <2>2
<1> QED
  BY <1>5, <1>6, <1>7

LEMMA RowLosesFirst ==
    ASSUME Inv, StreamInv, Up, NEW k, NextTask(k), NEW u \in Users, 1 \in InTasks(u),
           UNCHANGED sent, Cardinality(From(u))' = Cardinality(From(u)) + 1
    PROVE  InRow(u)'
<1>0. Cardinality(From(u)) \in Nat /\ sent[u] \in Nat
  BY StreamTyped, SentTyped DEF Inv, Sources
<1>1. /\ \A i \in InTasks(u)' : i \in Nat /\ i + 1 \in InTasks(u) /\ Number(i)' = Number(i + 1)
      /\ {Number(i) : i \in InTasks(u)}' = {Number(i) : i \in InTasks(u) \ {1}}
  BY OthersMoveUp
<1>2. /\ Cardinality(From(u)) + 1 <= sent[u]
      /\ {Number(i) : i \in InTasks(u) \ {1}} = Cardinality(From(u)) + 2 .. sent[u]
  BY FirstIsNext
<1>3. (\A i, j \in InTasks(u) : i < j => Number(i) < Number(j))'
  <2> SUFFICES ASSUME NEW i \in InTasks(u)', NEW j \in InTasks(u)', i < j PROVE Number(i)' < Number(j)'
    OBVIOUS
  <2>1. i \in Nat /\ j \in Nat /\ i + 1 \in InTasks(u) /\ j + 1 \in InTasks(u) /\ i + 1 < j + 1
    BY <1>1
  <2>2. Number(i + 1) < Number(j + 1)
    BY <2>1, QueuedIs DEF StreamInv, InRow
  <2> QED
    BY <1>1, <2>2
<1>4. Cardinality(From(u))' + 1 = Cardinality(From(u)) + 2 /\ sent'[u] = sent[u]
  BY <1>0
<1> QED
  BY <1>1, <1>2, <1>3, <1>4 DEF InRow

LEMMA RowGrows ==
    ASSUME Inv, NEW task \in TaskSet, pending' = Append(pending, task), tasks' = tasks, NEW u \in Users,
           task.data = <<<<u, sent[u] + 1>>>>, sent' = [sent EXCEPT ![u] = @ + 1], InRow(u), From(u)' = From(u)
    PROVE  InRow(u)'
<1>0. Cardinality(From(u)) \in Nat /\ sent[u] \in Nat /\ sent'[u] = sent[u] + 1
  BY StreamTyped, SentTyped DEF Inv, Sources, TypeOK
<1>1. task.data # <<>> /\ task.data[1][1] = u /\ task.data[1][2] = sent[u] + 1
  OBVIOUS
<1> DEFINE new == Len(Todo) + 1
<1>2. /\ \A i \in InTasks(u) : i \in Nat /\ i < new /\ Number(i)' = Number(i)
      /\ InTasks(u)' = InTasks(u) \cup {new}
      /\ \A i : i = new => Number(i)' = sent[u] + 1
  BY <1>1, OthersStay DEF Inv
<1>3. new \in Nat
  BY TodoTyped DEF Inv
<1> HIDE DEF new
<1>4. {Number(i) : i \in InTasks(u)}' = {Number(i) : i \in InTasks(u)} \cup {sent[u] + 1}
  <2> DEFINE num(i) == Number(i)'
             row == InTasks(u)'
  <2>1. {Number(i) : i \in InTasks(u)}' = {num(i) : i \in row}
    OBVIOUS
  <2>2. {num(i) : i \in row} = {Number(i) : i \in InTasks(u)} \cup {sent[u] + 1}
    BY <1>2
  <2> QED
    BY <2>1, <2>2
<1>5. Cardinality(From(u)) <= sent[u] /\ {Number(i) : i \in InTasks(u)} = Cardinality(From(u)) + 1 .. sent[u]
  BY DEF InRow
<1>6. \A i \in InTasks(u) : Number(i) < sent[u] + 1
  <2>1. \A i \in InTasks(u) : Number(i) \in Cardinality(From(u)) + 1 .. sent[u]
    BY <1>5
  <2> QED
    BY <1>0, <2>1
<1>7. (\A i, j \in InTasks(u) : i < j => Number(i) < Number(j))'
  <2> SUFFICES ASSUME NEW i \in InTasks(u)', NEW j \in InTasks(u)', i < j PROVE Number(i)' < Number(j)'
    OBVIOUS
  <2>1. i \in InTasks(u)
    BY <1>2, <1>3
  <2>2. CASE j \in InTasks(u)
    BY <1>2, <2>1, <2>2 DEF InRow
  <2>3. CASE j = new
    BY <1>2, <1>6, <2>1, <2>3
  <2> QED
    BY <1>2, <2>2, <2>3
<1>8. Cardinality(From(u)) + 1 .. sent[u] + 1 = (Cardinality(From(u)) + 1 .. sent[u]) \cup {sent[u] + 1}
  <2>1. \A a, b \in Nat : a <= b => a + 1 .. b + 1 = (a + 1 .. b) \cup {b + 1}
    OBVIOUS
  <2> QED
    BY <1>0, <1>5, <2>1
<1> QED
  BY <1>0, <1>4, <1>5, <1>7, <1>8, SMTT(30) DEF InRow
-----------------------------------------------------------------------------
(* The steps.                                                              *)

LEMMA NumberAlone == ASSUME Todo' = Todo PROVE \A i : Number(i)' = Number(i)
BY DEF Number

LEMMA FromAlone == ASSUME Stream' = Stream PROVE \A s : From(s)' = From(s)
BY DEF From

LEMMA InTasksAlone == ASSUME Todo' = Todo PROVE \A s : InTasks(s)' = InTasks(s)
BY DEF InTasks, Todo

\* Steps that move nothing.
LEMMA QuietKeeps ==
    ASSUME StreamInv, Todo' = Todo, Stream' = Stream, UNCHANGED <<rcv, sent>>, Up' => Up,
           state' = "CONNECTING" => state = "CONNECTING"
    PROVE  NotYet' /\ Carried' /\ Received' /\ Queued'
<1>1. NotYet' /\ Carried' /\ Received'
  BY DEF StreamInv, NotYet, Carried, Received
<1>2. ASSUME NEW u \in Users, InRow(u) PROVE InRow(u)'
  BY <1>2, FromAlone, InTasksAlone, NumberAlone, RowAlone
<1>3. Queued'
  <2>1. Cardinality(From(Peer))' = Cardinality(From(Peer))
    BY FromAlone
  <2>2. Up => sent[Peer] = Cardinality(From(Peer)) + Len(rcv) /\ \A u \in Users : InRow(u)
    BY QueuedIs DEF StreamInv
  <2>3. Up' => (sent[Peer] = Cardinality(From(Peer)) + Len(rcv))' /\ \A u \in Users : InRow(u)'
    BY <1>2, <2>1, <2>2
  <2> QED
    BY <2>3 DEF Queued, InRow
<1> QED
  BY <1>1, <1>3

\* A task without a byte is taken, or posted.
LEMMA OtherTaskKeeps ==
    ASSUME Inv, StreamInv, NEW k, NextTask(k), k # "send", Stream' = Stream, UNCHANGED <<rcv, sent>>, Up' => Up,
           state' = "CONNECTING" => state = "CONNECTING"
    PROVE  NotYet' /\ Carried' /\ Received' /\ Queued'
<1>1. NotYet' /\ Carried'
  BY TasksTaken
<1>2. Received'
  BY DEF StreamInv, Received
<1>3. \A u : 1 \notin InTasks(u)
  BY TakesTask, WhoseTask DEF StreamInv
<1>4. ASSUME NEW u \in Users, InRow(u) PROVE InRow(u)'
  BY <1>3, <1>4, FromAlone, RowMovesUp
<1>5. Queued'
  <2>1. Cardinality(From(Peer))' = Cardinality(From(Peer))
    BY FromAlone
  <2>2. Up => sent[Peer] = Cardinality(From(Peer)) + Len(rcv) /\ \A u \in Users : InRow(u)
    BY QueuedIs DEF StreamInv
  <2>3. Up' => (sent[Peer] = Cardinality(From(Peer)) + Len(rcv))' /\ \A u \in Users : InRow(u)'
    BY <1>4, <2>1, <2>2
  <2> QED
    BY <2>3 DEF Queued, InRow
<1> QED
  BY <1>1, <1>2, <1>5

LEMMA OtherPostKeeps ==
    ASSUME Inv, StreamInv, NEW task \in TaskSet, pending' = Append(pending, task), tasks' = tasks,
           task.kind # "send", task.data = <<>>, Stream' = Stream, UNCHANGED <<rcv, sent, state, reset, output>>
    PROVE  NotYet' /\ Carried' /\ Received' /\ Queued'
<1>1. NotYet' /\ Carried'
  BY TasksPosted DEF Inv
<1>2. Received'
  BY DEF StreamInv, Received
<1>4. ASSUME NEW u \in Users, InRow(u) PROVE InRow(u)'
  <2>1. InTasks(u)' = InTasks(u) /\ \A i \in InTasks(u) : Number(i)' = Number(i)
    BY OthersStay DEF Inv
  <2> QED
    BY <1>4, <2>1, FromAlone, RowAlone
<1>5. Queued'
  <2>1. Cardinality(From(Peer))' = Cardinality(From(Peer)) /\ Up' = Up
    BY FromAlone DEF Up
  <2>2. Up => sent[Peer] = Cardinality(From(Peer)) + Len(rcv) /\ \A u \in Users : InRow(u)
    BY QueuedIs DEF StreamInv
  <2>3. Up' => (sent[Peer] = Cardinality(From(Peer)) + Len(rcv))' /\ \A u \in Users : InRow(u)'
    BY <1>4, <2>1, <2>2
  <2> QED
    BY <2>3 DEF Queued, InRow
<1> QED
  BY <1>1, <1>2, <1>5
\* send() on the thread of a user.
LEMMA PostSendKeeps ==
    ASSUME Inv, StreamInv, NEW u \in Users, PostSend(u)
    PROVE  NotYet' /\ Carried' /\ Received' /\ Queued'
<1> DEFINE task == Task("send", <<<<u, sent[u] + 1>>>>)
<1>1. sent[u] + 1 \in 1 .. MaxCalls /\ state # "CONNECTING"
  <2>1. sent[u] \in Nat /\ calls[u] \in 0 .. MaxCalls /\ sent[u] + 1 <= calls[u] /\ state # "CONNECTING"
    BY DEF PostSend, Inv, TypeOK, InCall, Sources
  <2> QED
    BY <2>1, ConstantsTyped
<1>2. task \in TaskSet /\ task.kind = "send" /\ task.data = <<<<u, sent[u] + 1>>>>
  BY <1>1, UserByte, Singleton DEF Task, TaskSet, Kinds
<1>3. /\ pending' = Append(pending, task) /\ tasks' = tasks /\ sent' = [sent EXCEPT ![u] = @ + 1]
      /\ UNCHANGED <<state, output, reset, rcv, delivered, snd>>
  BY DEF PostSend, connVars, kernelVars
<1> HIDE DEF task
<1>4. NotYet' /\ Carried'
  BY <1>1, <1>2, <1>3, TasksPosted DEF Inv
<1>5. Stream' = Stream /\ Up' = Up
  BY <1>3 DEF Stream, Transit, Up
<1>6. sent'[Peer] = sent[Peer] /\ \A v \in Users : v # u => sent'[v] = sent[v]
  BY <1>3, ConstantsTyped DEF Inv, TypeOK, Sources
<1>7. Received'
  BY <1>3, <1>6 DEF StreamInv, Received
<1>8. ASSUME NEW v \in Users, InRow(v) PROVE InRow(v)'
  <2>1. From(v)' = From(v)
    BY <1>5, FromAlone
  <2>2. CASE v = u
    BY <1>2, <1>3, <1>8, <2>1, <2>2, RowGrows
  <2>3. CASE v # u
    <3>1. task.data[1][1] # v
      BY <1>2, <2>3
    <3>2. InTasks(v)' = InTasks(v) /\ \A i \in InTasks(v) : Number(i)' = Number(i)
      BY <1>2, <1>3, <3>1, OthersStay, ZenonT(30) DEF Inv
    <3> QED
      BY <1>6, <1>8, <2>1, <2>3, <3>2, RowAlone
  <2> QED
    BY <2>2, <2>3
<1>9. Queued'
  <2>1. Cardinality(From(Peer))' = Cardinality(From(Peer))
    BY <1>5, FromAlone
  <2>2. Up => sent[Peer] = Cardinality(From(Peer)) + Len(rcv) /\ \A v \in Users : InRow(v)
    BY QueuedIs DEF StreamInv
  <2>3. Up' => (sent[Peer] = Cardinality(From(Peer)) + Len(rcv))' /\ \A v \in Users : InRow(v)'
    BY <1>3, <1>5, <1>6, <1>8, <2>1, <2>2
  <2> QED
    BY <2>3 DEF Queued, InRow
<1> QED
  BY <1>4, <1>7, <1>9

\* sendInLoop() takes all of it, or the connection loses what it is handed from here on.
LEMMA SendTakesOrDrops ==
    ASSUME Inv, StreamInv, NEW d \in Seq(Bytes), NEW s, \A i \in 1 .. Len(d) : d[i][1] = s, SendInLoop(d),
           state # "CONNECTING", UNCHANGED <<state, reset, delivered>>
    PROVE  /\ Up => /\ Transit' = Transit \o d
                    /\ Cardinality(From(s))' = Cardinality(From(s)) + Len(d)
                    /\ \A t : t # s => From(t)' = From(t)
           /\ ~Up => ~Up' /\ UNCHANGED Transit
<1>1. CASE Up
  <2>1. state = "CONNECTED" /\ ~fin
    BY <1>1 DEF Up, StreamInv, FinLate
  <2>2. Transit' = Transit \o d
    BY <1>1, <2>1, SendExtends DEF Inv
  <2>3. Stream' = Stream \o d
    <3>1. delivered \in Seq(Bytes) /\ Transit \in Seq(Bytes)
      BY StreamTyped DEF Inv
    <3>2. delivered \o (Transit \o d) = (delivered \o Transit) \o d
      BY <3>1, ConcatAssociative, SMTT(30)
    <3> QED
      BY <2>2, <3>2 DEF Stream
  <2>4. /\ Cardinality(Places(Stream \o d, s)) = Cardinality(Places(Stream, s)) + Len(d)
        /\ \A t : t # s => Places(Stream \o d, t) = Places(Stream, t)
    <3>1. Stream \in Seq(Bytes)
      BY StreamTyped DEF Inv
    <3> QED
      BY <3>1, PlacesGrow
  <2>5. \A t : From(t)' = Places(Stream \o d, t) /\ From(t) = Places(Stream, t)
    BY <2>3 DEF From, Places
  <2> QED
    BY <1>1, <2>2, <2>4, <2>5
<1>2. CASE ~Up
  <2>1. state # "CONNECTED" \/ (output = <<>> /\ reset)
    BY <1>2 DEF Up
  <2>2. UNCHANGED <<output, snd>>
    BY <2>1 DEF SendInLoop
  <2> QED
    BY <1>2, <2>2 DEF Up, Transit
<1> QED
  BY <1>1, <1>2

\* The task of send().
LEMMA SendTaskKeeps ==
    ASSUME Inv, StreamInv, SendTask
    PROVE  NotYet' /\ Carried' /\ Received' /\ Queued'
<1>1. /\ NextTask("send") /\ SendInLoop(Head(tasks).data)
      /\ UNCHANGED <<state, reset, delivered, sent, rcv>>
  BY DEF SendTask
<1>2. 1 \in DOMAIN Todo /\ Todo[1] = Head(tasks) /\ Todo[1].kind = "send"
  BY <1>1, TakesTask
<1>3. state # "CONNECTING"
  BY <1>2 DEF StreamInv, NotYet
<1>4. PICK u \in Users, k \in 1 .. MaxCalls :
          /\ Todo[1].data = <<<<u, k>>>> /\ 1 \in InTasks(u) /\ \A s : s # u => 1 \notin InTasks(s)
  BY <1>2, WhoseTask DEF StreamInv
<1> DEFINE d == <<<<u, k>>>>
<1>5. d \in Seq(Bytes) /\ Len(d) = 1 /\ (\A i \in 1 .. Len(d) : d[i][1] = u) /\ SendInLoop(d)
  BY <1>1, <1>2, <1>4, UserByte, Singleton
<1> HIDE DEF d
<1>6. /\ Up => /\ Cardinality(From(u))' = Cardinality(From(u)) + 1
              /\ \A t : t # u => From(t)' = From(t)
      /\ ~Up => ~Up'
  BY <1>1, <1>3, <1>5, SendTakesOrDrops
<1>7. NotYet' /\ Carried'
  BY <1>1, TasksTaken
<1>8. Received'
  BY <1>1 DEF StreamInv, Received
<1>9. ASSUME Up, NEW v \in Users, InRow(v) PROVE InRow(v)'
  <2>1. CASE v = u
    BY <1>1, <1>4, <1>6, <1>9, <2>1, RowLosesFirst
  <2>2. CASE v # u
    BY <1>1, <1>4, <1>6, <1>9, <2>2, RowMovesUp
  <2> QED
    BY <2>1, <2>2
<1>10. Queued'
  <2>1. Up => Cardinality(From(Peer))' = Cardinality(From(Peer))
    BY <1>6, ConstantsTyped
  <2>2. Up => sent[Peer] = Cardinality(From(Peer)) + Len(rcv) /\ \A v \in Users : InRow(v)
    BY QueuedIs DEF StreamInv
  <2>3. Up' => (sent[Peer] = Cardinality(From(Peer)) + Len(rcv))' /\ \A v \in Users : InRow(v)'
    BY <1>1, <1>6, <1>9, <2>1, <2>2
  <2> QED
    BY <2>3 DEF Queued, InRow
<1> QED
  BY <1>7, <1>8, <1>10

\* handleRead(): some bytes of the peer.
LEMMA ReadIs ==
    ASSUME Inv, SilentInv, StreamInv, HandleRead
    PROVE  \E n \in 1 .. Len(rcv) :
              /\ rcv' = SubSeq(rcv, n + 1, Len(rcv)) /\ SendInLoop(SubSeq(rcv, 1, n))
              /\ SubSeq(rcv, 1, n) \in Seq(Bytes) /\ Len(SubSeq(rcv, 1, n)) = n
              /\ \A i \in 1 .. n : SubSeq(rcv, 1, n)[i] = <<Peer, sent[Peer] - Len(rcv) + i>>
              /\ Len(rcv') = Len(rcv) - n /\ \A i \in 1 .. Len(rcv) - n : rcv'[i] = rcv[n + i]
              /\ state # "CONNECTING" /\ UNCHANGED <<state, reset, delivered, sent, tasks, pending>>
<1>1. PICK n \in 1 .. Len(rcv) : rcv' = SubSeq(rcv, n + 1, Len(rcv)) /\ SendInLoop(SubSeq(rcv, 1, n))
  BY DEF HandleRead, MessageCallback
<1>2. rcv \in Seq(Bytes) /\ n \in 0 .. Len(rcv)
  BY DEF Inv, TypeOK
<1>3. /\ SubSeq(rcv, 1, n) \in Seq(Bytes) /\ Len(SubSeq(rcv, 1, n)) = n
      /\ Len(rcv') = Len(rcv) - n
      /\ \A i \in 1 .. n : SubSeq(rcv, 1, n)[i] = rcv[i]
      /\ \A i \in 1 .. Len(rcv) - n : rcv'[i] = rcv[n + i]
  BY <1>1, <1>2, PartTyped
<1>4. \A i \in 1 .. n : SubSeq(rcv, 1, n)[i] = <<Peer, sent[Peer] - Len(rcv) + i>>
  BY <1>2, <1>3 DEF StreamInv, Received
<1>5. state # "CONNECTING" /\ UNCHANGED <<state, reset, delivered, sent, tasks, pending>>
  BY DEF HandleRead, NextCallback, SilentInv, EstablishedFirst
<1> QED
  BY <1>1, <1>3, <1>4, <1>5

LEMMA ReadKeeps ==
    ASSUME Inv, SilentInv, StreamInv, HandleRead
    PROVE  NotYet' /\ Carried' /\ Received' /\ Queued'
<1>1. PICK n \in 1 .. Len(rcv) :
              /\ rcv' = SubSeq(rcv, n + 1, Len(rcv)) /\ SendInLoop(SubSeq(rcv, 1, n))
              /\ SubSeq(rcv, 1, n) \in Seq(Bytes) /\ Len(SubSeq(rcv, 1, n)) = n
              /\ \A i \in 1 .. n : SubSeq(rcv, 1, n)[i] = <<Peer, sent[Peer] - Len(rcv) + i>>
              /\ Len(rcv') = Len(rcv) - n /\ \A i \in 1 .. Len(rcv) - n : rcv'[i] = rcv[n + i]
              /\ state # "CONNECTING" /\ UNCHANGED <<state, reset, delivered, sent, tasks, pending>>
  BY ReadIs
<1> DEFINE d == SubSeq(rcv, 1, n)
<1>2. d \in Seq(Bytes) /\ Len(d) = n /\ (\A i \in 1 .. Len(d) : d[i][1] = Peer) /\ SendInLoop(d)
  BY <1>1
<1> HIDE DEF d
<1>3. /\ Up => /\ Cardinality(From(Peer))' = Cardinality(From(Peer)) + n
              /\ \A t : t # Peer => From(t)' = From(t)
      /\ ~Up => ~Up'
  BY <1>1, <1>2, SendTakesOrDrops
<1>4. Todo' = Todo
  BY <1>1 DEF Todo
<1>5. NotYet' /\ Carried'
  BY <1>1, <1>4 DEF StreamInv, NotYet, Carried
<1>6. Len(rcv) \in Nat /\ sent[Peer] \in Nat /\ n \in Nat
  BY SentTyped DEF Inv, TypeOK, Sources
<1>7. Received'
  <2>1. Len(rcv') <= sent'[Peer]
    BY <1>1, <1>6 DEF StreamInv, Received
  <2>2. ASSUME NEW i \in 1 .. Len(rcv') PROVE rcv'[i] = <<Peer, sent'[Peer] - Len(rcv') + i>>
    <3>1. i \in 1 .. Len(rcv) - n /\ n + i \in 1 .. Len(rcv)
      <4>1. Len(rcv') = Len(rcv) - n
        BY <1>1
      <4> QED
        BY <1>6, <4>1
    <3>2. rcv'[i] = <<Peer, sent[Peer] - Len(rcv) + (n + i)>>
      BY <1>1, <3>1 DEF StreamInv, Received
    <3>3. sent[Peer] - Len(rcv) + (n + i) = sent'[Peer] - Len(rcv') + i
      BY <1>1, <1>6, <3>1
    <3> QED
      BY <3>2, <3>3
  <2> QED
    BY <2>1, <2>2 DEF Received
<1>8. ASSUME Up, NEW v \in Users, InRow(v) PROVE InRow(v)'
  BY <1>1, <1>3, <1>4, <1>8, InTasksAlone, NumberAlone, RowAlone, ConstantsTyped
<1>9. Queued'
  <2>1. Up => sent[Peer] = Cardinality(From(Peer)) + Len(rcv) /\ \A v \in Users : InRow(v)
    BY QueuedIs DEF StreamInv
  <2>2. Cardinality(From(Peer)) \in Nat
    BY StreamTyped DEF Inv
  <2>3. Up => (sent[Peer] = Cardinality(From(Peer)) + Len(rcv))'
    BY <1>1, <1>3, <1>6, <2>1, <2>2
  <2>4. Up' => (sent[Peer] = Cardinality(From(Peer)) + Len(rcv))' /\ \A v \in Users : InRow(v)'
    BY <1>3, <1>8, <2>1, <2>3
  <2> QED
    BY <2>4 DEF Queued, InRow
<1> QED
  BY <1>5, <1>7, <1>9

LEMMA PeerSendsKeeps ==
    ASSUME Inv, StreamInv, PeerSends
    PROVE  NotYet' /\ Carried' /\ Received' /\ Queued'
<1>1. /\ sent' = [sent EXCEPT ![Peer] = @ + 1] /\ rcv' = Append(rcv, <<Peer, sent[Peer] + 1>>)
      /\ UNCHANGED <<state, output, snd, reset, delivered, tasks, pending>>
  BY DEF PeerSends, connVars, loopVars
<1>2. sent[Peer] \in Nat /\ sent'[Peer] = sent[Peer] + 1 /\ \A u \in Users : sent'[u] = sent[u]
  BY <1>1, ConstantsTyped DEF Inv, TypeOK, Sources
<1>3. rcv \in Seq(Bytes) /\ Len(rcv) \in Nat
  BY DEF Inv, TypeOK
<1>4. /\ Len(rcv') = Len(rcv) + 1 /\ rcv'[Len(rcv) + 1] = <<Peer, sent[Peer] + 1>>
      /\ \A i \in 1 .. Len(rcv) : rcv'[i] = rcv[i]
  BY <1>1, <1>3
<1>5. Stream' = Stream /\ Up' = Up /\ Todo' = Todo
  BY <1>1 DEF Stream, Transit, Up, Todo
<1>6. NotYet' /\ Carried'
  BY <1>1, <1>5 DEF StreamInv, NotYet, Carried
<1>7. Received'
  <2>1. ASSUME NEW i \in 1 .. Len(rcv') PROVE rcv'[i] = <<Peer, sent'[Peer] - Len(rcv') + i>>
    <3>1. sent'[Peer] - Len(rcv') + i = sent[Peer] - Len(rcv) + i
      BY <1>2, <1>3, <1>4
    <3>2. CASE i = Len(rcv) + 1
      BY <1>2, <1>3, <1>4, <3>1, <3>2
    <3>3. CASE i \in 1 .. Len(rcv)
      BY <1>4, <3>1, <3>3 DEF StreamInv, Received
    <3> QED
      BY <1>3, <1>4, <3>2, <3>3
  <2> QED
    BY <1>2, <1>3, <1>4, <2>1 DEF StreamInv, Received
<1>8. ASSUME NEW u \in Users, InRow(u) PROVE InRow(u)'
  BY <1>2, <1>5, <1>8, FromAlone, InTasksAlone, NumberAlone, RowAlone
<1>9. Queued'
  <2>1. Cardinality(From(Peer))' = Cardinality(From(Peer)) /\ Cardinality(From(Peer)) \in Nat
    BY <1>5, FromAlone, StreamTyped DEF Inv
  <2>2. Up => sent[Peer] = Cardinality(From(Peer)) + Len(rcv) /\ \A u \in Users : InRow(u)
    BY QueuedIs DEF StreamInv
  <2>3. Up' => (sent[Peer] = Cardinality(From(Peer)) + Len(rcv))' /\ \A u \in Users : InRow(u)'
    BY <1>2, <1>3, <1>4, <1>5, <1>8, <2>1, <2>2
  <2> QED
    BY <2>3 DEF Queued, InRow
<1> QED
  BY <1>6, <1>7, <1>9
-----------------------------------------------------------------------------
(* The other steps, and the whole invariant.                               *)

Started == {"CONNECTING", "CONNECTED"}

\* The next task is that of establishConnection() only before anything else.
LEMMA EstablishIsFirst == ASSUME Inv, SilentInv, Establish PROVE state = "CONNECTING"
<1>1. 1 \in DOMAIN Todo /\ Todo[1].kind = "establish"
  BY TakesTask DEF Establish
<1> QED
  BY <1>1 DEF SilentInv, EstablishedFirst, NoEstablish

\* A connection that has left CONNECTED does not come back.
LEMMA NoWayBack ==
    ASSUME Inv, SilentInv, [Next]_vars
    PROVE  /\ state' \in Started => state \in Started
           /\ state' = "CONNECTING" => state = "CONNECTING"
<1>1. CASE Establish
  BY <1>1, EstablishIsFirst DEF Establish, Started
<1>2. CASE ~Establish
  <2>1. state' \in {state, "DISCONNECTING", "DISCONNECTED"}
    BY <1>2 DEF Next, LoopStep, PeerStep, UserStep, Poll, HandleRead, HandleEof, HandleError, HandleWrite, SwapPending,
         SendTask, ShutdownTask, ForceCloseTask, DestroyTask, PeerSends, PeerFinishes, PeerResets, PeerReceives,
         RemoveConnection, Call, PostSend, SetDisconnecting, PostDisconnect, HandleClose, vars, connVars
  <2> QED
    BY <2>1 DEF Started
<1> QED
  BY <1>1, <1>2

LEMMA InitStream == Init => StreamInv
<1> SUFFICES ASSUME Init PROVE StreamInv
  OBVIOUS
<1>1. Todo = <<Task("establish", <<>>)>>
  BY DEF Init, Todo
<1>2. DOMAIN Todo = {1} /\ Todo[1].kind = "establish" /\ Todo[1].data = <<>>
  BY <1>1 DEF Task
<1>3. NotYet /\ Carried
  BY <1>2 DEF NotYet, Carried
<1>4. Stream = <<>> /\ rcv = <<>> /\ Len(rcv) = 0
  BY DEF Init, Stream, Transit
<1>5. sent[Peer] = 0 /\ \A u \in Users : sent[u] = 0
  BY DEF Init, Sources
<1>6. Received
  BY <1>4, <1>5 DEF Received
<1>7. \A s : From(s) = {} /\ InTasks(s) = {}
  BY <1>2, <1>4, InTasksIs DEF From
<1>8. Queued
  <2>1. \A s : Cardinality(From(s)) = 0
    BY <1>7, FS_EmptySet
  <2>2. ASSUME NEW u \in Users
        PROVE  /\ {Number(i) : i \in InTasks(u)} = {}
               /\ \A i, j \in InTasks(u) : i < j => Number(i) < Number(j)
    BY <1>7
  <2>3. 0 + 1 .. 0 = {}
    OBVIOUS
  <2> QED
    BY <1>4, <1>5, <2>1, <2>2, <2>3 DEF Queued
<1>9. FinLate
  BY <1>2 DEF FinLate, Init
<1> QED
  BY <1>3, <1>6, <1>8, <1>9 DEF StreamInv

\* Steps of the loop without a task, of the peer and of the users that move no byte.
LEMMA StillKeeps ==
    ASSUME Inv, SilentInv, StreamInv, [Next]_vars,
           \/ Poll \/ HandleEof \/ HandleError \/ HandleWrite \/ SwapPending
           \/ PeerFinishes \/ PeerResets \/ PeerReceives
           \/ \E u \in Users : Call(u) \/ SetDisconnecting(u)
           \/ UNCHANGED vars
    PROVE  NotYet' /\ Carried' /\ Received' /\ Queued'
<1>1. state' \in Started => state \in Started
  BY NoWayBack
<1>2. Todo' = Todo
  <2>1. CASE SwapPending
    BY <2>1, SwapLeavesTodo DEF Inv, SilentInv
  <2>2. CASE ~SwapPending
    BY <2>2 DEF Poll, HandleEof, HandleError, HandleWrite, NextCallback, PeerFinishes, PeerResets, PeerReceives, Call,
         SetDisconnecting, vars, loopVars, Todo
  <2> QED
    BY <2>1, <2>2
<1>3. UNCHANGED <<rcv, sent>>
  BY DEF Poll, HandleEof, HandleError, HandleWrite, SwapPending, PeerFinishes, PeerResets, PeerReceives, Call,
         SetDisconnecting, vars, kernelVars
<1>4. Stream' = Stream /\ (Up' => Up)
  <2>1. CASE HandleWrite
    <3>1. UNCHANGED delivered
      BY <2>1 DEF HandleWrite
    <3> QED
      BY <1>1, <2>1, <3>1, WriteMoves DEF Stream, Up, Started, Inv
  <2>2. CASE PeerReceives
    BY <1>1, <2>2, PeerTakes DEF PeerReceives, connVars, Up, Started, Inv
  <2>3. CASE ~HandleWrite /\ ~PeerReceives
    <3>1. UNCHANGED <<delivered, snd, output>> /\ (reset => reset')
      BY <2>3 DEF Poll, HandleEof, HandleError, SwapPending, PeerFinishes, PeerResets, Call, SetDisconnecting, vars,
           connVars, kernelVars
    <3>2. reset \in BOOLEAN /\ reset' \in BOOLEAN
      BY InvStep DEF Inv, TypeOK
    <3> QED
      BY <1>1, <3>1, <3>2 DEF Stream, Transit, Up, Started
  <2> QED
    BY <2>1, <2>2, <2>3
<1> QED
  BY <1>2, <1>3, <1>4, NoWayBack, QuietKeeps

\* The tasks without a byte.
LEMMA PlainTaskKeeps ==
    ASSUME Inv, SilentInv, StreamInv, [Next]_vars, Establish \/ ShutdownTask \/ ForceCloseTask \/ DestroyTask
    PROVE  NotYet' /\ Carried' /\ Received' /\ Queued'
<1>1. PICK k \in {"establish", "shutdown", "forceClose", "destroy"} : NextTask(k)
  BY DEF Establish, ShutdownTask, ForceCloseTask, DestroyTask
<1>2. UNCHANGED <<delivered, snd, output, rcv, sent, reset>>
  BY DEF Establish, ShutdownTask, ForceCloseTask, DestroyTask, connVars, kernelVars
<1>3. Stream' = Stream /\ (Up' => Up)
  BY <1>2, NoWayBack DEF Stream, Transit, Up, Started
<1> QED
  BY <1>1, <1>2, <1>3, NoWayBack, OtherTaskKeeps

LEMMA PlainPostKeeps ==
    ASSUME Inv, StreamInv, RemoveConnection \/ \E u \in Users : PostDisconnect(u)
    PROVE  NotYet' /\ Carried' /\ Received' /\ Queued'
<1>1. PICK k \in {"destroy", "shutdown", "forceClose"} : pending' = Append(pending, Task(k, <<>>))
  BY DEF RemoveConnection, PostDisconnect
<1>2. UNCHANGED <<delivered, snd, output, rcv, sent, reset, state, tasks>>
  BY DEF RemoveConnection, PostDisconnect, connVars, kernelVars
<1>3. Task(k, <<>>) \in TaskSet /\ Task(k, <<>>).kind # "send" /\ Task(k, <<>>).data = <<>>
  BY DEF Task, TaskSet, Kinds
<1>4. Stream' = Stream
  BY <1>2 DEF Stream, Transit
<1> QED
  BY <1>1, <1>2, <1>3, <1>4, OtherPostKeeps

\* Our FIN comes of a shutdown(), which has changed the state first.
LEMMA FinStep == ASSUME Inv, SilentInv, StreamInv, [Next]_vars PROVE FinLate'
<1> SUFFICES ASSUME state' \in Started
             PROVE  /\ ~fin' /\ \A i \in DOMAIN Todo' : Todo'[i].kind # "shutdown"
                    /\ \A u \in Users : user'[u] # "postShutdown"
  BY DEF FinLate, Started
<1>1. state \in Started
  BY NoWayBack
<1>2. ~fin /\ (\A i \in DOMAIN Todo : Todo[i].kind # "shutdown") /\ \A u \in Users : user[u] # "postShutdown"
  BY <1>1 DEF StreamInv, FinLate, Started
<1>3. \A u \in Users : user'[u] # "postShutdown"
  <2>1. CASE UNCHANGED user
    BY <1>2, <2>1
  <2>2. ASSUME NEW u \in Users, Call(u) \/ PostSend(u) \/ PostDisconnect(u) PROVE <1>3
    BY <1>2, <2>2 DEF Call, PostSend, PostDisconnect, Inv, TypeOK
  <2>3. ASSUME NEW u \in Users, SetDisconnecting(u) PROVE FALSE
    BY <2>3 DEF SetDisconnecting, Started
  <2>4. UNCHANGED user \/ \E u \in Users : Call(u) \/ UserStep(u)
    BY DEF Next, LoopStep, PeerStep, Poll, HandleRead, HandleEof, HandleError, HandleWrite, SwapPending, Establish,
         SendTask, ShutdownTask, ForceCloseTask, DestroyTask, PeerSends, PeerFinishes, PeerResets, PeerReceives,
         RemoveConnection, vars, userVars
  <2> QED
    BY <2>1, <2>2, <2>3, <2>4 DEF UserStep
<1>4. ~ShutdownTask
  <2>1. ASSUME ShutdownTask PROVE FALSE
    BY <1>2, <2>1, TakesTask DEF ShutdownTask
  <2> QED
    BY <2>1
<1>5. ~fin'
  <2>1. CASE HandleWrite
    <3>1. state # "DISCONNECTING"
      BY <1>1 DEF Started
    <3> QED
      BY <1>2, <2>1, <3>1 DEF HandleWrite, Drained
  <2>2. CASE ~HandleWrite
    <3>1. UNCHANGED fin
      BY <1>4, <2>2 DEF Next, LoopStep, PeerStep, UserStep, Poll, HandleRead, HandleEof, HandleError, SwapPending, Establish,
         SendTask, ForceCloseTask, DestroyTask, PeerSends, PeerFinishes, PeerResets, PeerReceives,
         RemoveConnection, Call, PostSend, SetDisconnecting, PostDisconnect, vars, kernelVars
    <3> QED
      BY <1>2, <3>1
  <2> QED
    BY <2>1, <2>2
<1>6. \A i \in DOMAIN Todo' : Todo'[i].kind # "shutdown"
  <2>1. CASE Establish \/ SendTask \/ ForceCloseTask \/ DestroyTask
    <3>1. PICK k : NextTask(k)
      BY <2>1 DEF Establish, SendTask, ForceCloseTask, DestroyTask
    <3> QED
      BY <1>2, <3>1, TakesTask
  <2>2. CASE SwapPending
    BY <1>2, <2>2, SwapLeavesTodo DEF Inv, SilentInv
  <2>3. CASE RemoveConnection
    <3>1. pending' = Append(pending, Task("destroy", <<>>)) /\ tasks' = tasks
      BY <2>3 DEF RemoveConnection
    <3>2. Task("destroy", <<>>) \in TaskSet /\ Task("destroy", <<>>).kind # "shutdown"
      BY DEF Task, TaskSet, Kinds
    <3> QED
      BY <1>2, <3>1, <3>2, PostsTask DEF Inv
  <2>4. ASSUME NEW u \in Users, PostSend(u) PROVE <1>6
    <3> DEFINE task == Task("send", <<<<u, sent[u] + 1>>>>)
    <3>1. sent[u] + 1 \in 1 .. MaxCalls
      <4>1. sent[u] \in Nat /\ calls[u] \in 0 .. MaxCalls /\ sent[u] + 1 <= calls[u]
        BY <2>4 DEF PostSend, Inv, TypeOK, InCall, Sources
      <4> QED
        BY <4>1, ConstantsTyped
    <3>2. task \in TaskSet /\ task.kind # "shutdown"
      BY <3>1, UserByte, Singleton DEF Task, TaskSet, Kinds
    <3>3. pending' = Append(pending, task) /\ tasks' = tasks
      BY <2>4 DEF PostSend
    <3> HIDE DEF task
    <3> QED
      BY <1>2, <3>2, <3>3, PostsTask DEF Inv
  <2>5. ASSUME NEW u \in Users, PostDisconnect(u) PROVE <1>6
    <3>1. pending' = Append(pending, Task("forceClose", <<>>)) /\ tasks' = tasks
      BY <1>2, <2>5 DEF PostDisconnect
    <3>2. Task("forceClose", <<>>) \in TaskSet /\ Task("forceClose", <<>>).kind # "shutdown"
      BY DEF Task, TaskSet, Kinds
    <3> QED
      BY <1>2, <3>1, <3>2, PostsTask DEF Inv
  <2>6. CASE UNCHANGED <<tasks, pending>>
    BY <1>2, <2>6 DEF Todo
  <2>7. \/ Establish \/ SendTask \/ ForceCloseTask \/ DestroyTask \/ SwapPending \/ RemoveConnection
        \/ (\E u \in Users : PostSend(u) \/ PostDisconnect(u)) \/ UNCHANGED <<tasks, pending>>
    BY <1>4 DEF Next, LoopStep, PeerStep, UserStep, Poll, HandleRead, HandleEof, HandleError, HandleWrite, NextCallback,
         PeerSends, PeerFinishes, PeerResets, PeerReceives, Call, SetDisconnecting, vars, loopVars
  <2> QED
    BY <2>1, <2>2, <2>3, <2>4, <2>5, <2>6, <2>7
<1> QED
  BY <1>3, <1>5, <1>6

LEMMA StreamStep == Inv /\ SilentInv /\ StreamInv /\ [Next]_vars => StreamInv'
<1> SUFFICES ASSUME Inv, SilentInv, StreamInv, [Next]_vars PROVE NotYet' /\ Carried' /\ Received' /\ Queued'
  BY FinStep DEF StreamInv
<1>1. CASE HandleRead
  BY <1>1, ReadKeeps
<1>2. CASE SendTask
  BY <1>2, SendTaskKeeps
<1>3. CASE PeerSends
  BY <1>3, PeerSendsKeeps
<1>4. CASE RemoveConnection \/ \E u \in Users : PostDisconnect(u)
  BY <1>4, PlainPostKeeps
<1>5. CASE \E u \in Users : PostSend(u)
  BY <1>5, PostSendKeeps
<1>6. CASE Establish \/ ShutdownTask \/ ForceCloseTask \/ DestroyTask
  BY <1>6, PlainTaskKeeps
<1>7. CASE \/ Poll \/ HandleEof \/ HandleError \/ HandleWrite \/ SwapPending
           \/ PeerFinishes \/ PeerResets \/ PeerReceives
           \/ \E u \in Users : Call(u) \/ SetDisconnecting(u)
           \/ UNCHANGED vars
  BY <1>7, StillKeeps
<1> QED
  BY <1>1, <1>2, <1>3, <1>4, <1>5, <1>6, <1>7 DEF Next, LoopStep, PeerStep, UserStep
-----------------------------------------------------------------------------
(* Nothing is lost while the connection is up.                             *)

\* As many tasks as there are numbers in the row.
LEMMA TasksCounted ==
    ASSUME Inv, NEW u \in Users, InRow(u)
    PROVE  Cardinality(InTasks(u)) = sent[u] - Cardinality(From(u))
<1> DEFINE row == InTasks(u)
           numbers == Cardinality(From(u)) + 1 .. sent[u]
           f == [i \in row |-> Number(i)]
<1>0. Cardinality(From(u)) \in Nat /\ sent[u] \in Nat /\ Cardinality(From(u)) <= sent[u]
  BY StreamTyped, SentTyped DEF Inv, Sources, InRow
<1>1. row \subseteq 1 .. Len(Todo) /\ Len(Todo) \in Nat
  BY InTasksIs, TodoTyped DEF Inv
<1>2. IsFiniteSet(row)
  <2>1. IsFiniteSet(1 .. Len(Todo)) /\ row \in SUBSET (1 .. Len(Todo))
    BY <1>1, FS_Interval
  <2> QED
    BY <2>1, FS_Subset
<1>3. {Number(i) : i \in row} = numbers /\ \A i, j \in row : i < j => Number(i) < Number(j)
  BY DEF InRow
<1>4. f \in Bijection(row, numbers)
  <2>1. f \in [row -> numbers]
    BY <1>3
  <2>2. ASSUME NEW i \in row, NEW j \in row, Number(i) = Number(j) PROVE i = j
    <3>1. i \in Nat /\ j \in Nat /\ Number(i) \in Int /\ Number(j) \in Int
      BY <1>0, <1>1, <1>3
    <3> QED
      BY <1>3, <2>2, <3>1
  <2>3. \A n \in numbers : \E i \in row : f[i] = n
    BY <1>3
  <2>4. IsInjective(f)
    BY <2>2 DEF IsInjective
  <2> QED
    BY <2>1, <2>3, <2>4 DEF Bijection, Injection, Surjection
<1>5. Cardinality(numbers) = Cardinality(row)
  BY <1>2, <1>4, FS_Bijection DEF ExistsBijection
<1>6. Cardinality(numbers) = sent[u] - Cardinality(From(u))
  <2>1. Cardinality(From(u)) + 1 \in Int /\ sent[u] \in Int
    BY <1>0
  <2>2. Cardinality(numbers) = IF Cardinality(From(u)) + 1 > sent[u] THEN 0
                               ELSE sent[u] - (Cardinality(From(u)) + 1) + 1
    BY <2>1, FS_Interval
  <2> QED
    BY <1>0, <2>2
<1> QED
  BY <1>5, <1>6

LEMMA StreamKeepsAll == ASSUME Inv, StreamInv PROVE ConnectedKeepsAll
<1> SUFFICES ASSUME state = "CONNECTED", ~reset, NEW s \in Sources
             PROVE  sent[s] = Cardinality(From(s)) + Cardinality(InTasks(s)) + (IF s = Peer THEN Len(rcv) ELSE 0)
  BY DEF ConnectedKeepsAll
<1>0. Cardinality(From(s)) \in Nat /\ sent[s] \in Nat /\ Len(rcv) \in Nat
  BY StreamTyped, SentTyped DEF Inv, TypeOK
<1>1. sent[Peer] = Cardinality(From(Peer)) + Len(rcv) /\ \A u \in Users : InRow(u)
  BY QueuedIs DEF StreamInv, Up
<1>2. CASE s = Peer
  <2>1. InTasks(Peer) = {}
    <3>1. \A i \in DOMAIN Todo : i \notin InTasks(Peer)
      BY WhoseTask, ConstantsTyped DEF StreamInv
    <3> QED
      BY <3>1, InTasksIs
  <2>2. Cardinality(InTasks(s)) = 0
    BY <1>2, <2>1, FS_EmptySet
  <2> QED
    BY <1>0, <1>1, <1>2, <2>2
<1>3. CASE s \in Users
  <2>1. Cardinality(InTasks(s)) = sent[s] - Cardinality(From(s)) /\ s # Peer
    BY <1>1, <1>3, TasksCounted, ConstantsTyped
  <2> QED
    BY <1>0, <2>1
<1> QED
  BY <1>2, <1>3 DEF Sources

LEMMA AllInit == Init => Inv /\ SilentInv /\ StreamInv
BY InvInit, SilentInit, InitStream

LEMMA AllStep == Inv /\ SilentInv /\ StreamInv /\ [Next]_vars => Inv' /\ SilentInv' /\ StreamInv'
BY InvStep, SilentStep, StreamStep

\* While the connection is up, each byte that the peer or a user has handed over is in exactly one
\* place: unread, in a task, or in the stream to the peer.
THEOREM NothingIsLost == Spec => []ConnectedKeepsAll
<1>1. Inv /\ StreamInv => ConnectedKeepsAll
  BY StreamKeepsAll
<1> QED
  BY <1>1, AllInit, AllStep, PTL DEF Spec
-----------------------------------------------------------------------------
(* The steps of the pipe.                                                  *)

LEMMA PipeTaken == \A s : Pipe!Taken(s) = Cardinality(From(s))
<1> TAKE s
<1>1. {i \in DOMAIN (delivered \o Transit) : (delivered \o Transit)[i][1] = s} = From(s)
  BY DEF From, Stream
<1> QED
  BY <1>1 DEF Pipe!Taken, Pipe!Cardinality, Cardinality

LEMMA PipeInit == Init => Pipe!Init
<1> SUFFICES ASSUME Init PROVE Pipe!Init
  OBVIOUS
<1>1. Transit = <<>>
  BY DEF Init, Transit
<1>2. Phase = "open"
  BY DEF Init, Phase
<1> QED
  BY <1>1, <1>2 DEF Init, Pipe!Init

\* A step that moves no byte and leaves the phase alone.
LEMMA PipeStutters ==
    ASSUME UNCHANGED <<sent, Transit, delivered, Phase, reset>>
    PROVE  [Pipe!Next]_(Pipe!vars)
BY DEF Pipe!vars

\* sendInLoop() of a connection that is up takes the next bytes of their source.
LEMMA PipeTakes ==
    ASSUME Inv, SilentInv, StreamInv, NEW s \in Sources, NEW n \in Nat \ {0}, NEW d \in Seq(Bytes), Len(d) = n,
           \A i \in 1 .. n : d[i] = <<s, Cardinality(From(s)) + i>>,
           Up => n <= sent[s] - Cardinality(From(s)),
           SendInLoop(d), state # "CONNECTING", UNCHANGED <<state, closed, reset, delivered, sent>>
    PROVE  [Pipe!Next]_(Pipe!vars)
<1>1. \A i \in 1 .. Len(d) : d[i][1] = s
  OBVIOUS
<1>2. (Up => Transit' = Transit \o d) /\ (~Up => UNCHANGED Transit)
  BY <1>1, SendTakesOrDrops
<1>3. UNCHANGED Phase
  BY DEF Phase
<1>4. CASE Up
  <2>1. d = [i \in 1 .. n |-> <<s, Pipe!Taken(s) + i>>]
    <3>1. DOMAIN d = 1 .. n /\ d = [i \in DOMAIN d |-> d[i]]
      OBVIOUS
    <3>2. Pipe!Taken(s) = Cardinality(From(s))
      BY PipeTaken
    <3> QED
      BY <3>1, <3>2
  <2>2. Phase = "open"
    BY <1>4 DEF Up, SilentInv, Silent, Phase
  <2>3. n \in 1 .. sent[s] - Pipe!Taken(s)
    <3>1. sent[s] \in Nat /\ Cardinality(From(s)) \in Nat
      BY StreamTyped, SentTyped DEF Inv
    <3> QED
      BY <1>4, <3>1, PipeTaken
  <2>4. Pipe!Take(s, n)
    BY <1>2, <1>3, <1>4, <2>1, <2>2 DEF Pipe!Take
  <2> QED
    BY <2>3, <2>4 DEF Pipe!Next
<1>5. CASE ~Up
  BY <1>2, <1>3, <1>5, PipeStutters
<1> QED
  BY <1>4, <1>5

LEMMA ReadTakes == ASSUME Inv, SilentInv, StreamInv, HandleRead PROVE [Pipe!Next]_(Pipe!vars)
<1>1. PICK n \in 1 .. Len(rcv) :
              /\ SendInLoop(SubSeq(rcv, 1, n))
              /\ SubSeq(rcv, 1, n) \in Seq(Bytes) /\ Len(SubSeq(rcv, 1, n)) = n
              /\ \A i \in 1 .. n : SubSeq(rcv, 1, n)[i] = <<Peer, sent[Peer] - Len(rcv) + i>>
              /\ state # "CONNECTING" /\ UNCHANGED <<state, reset, delivered, sent>>
  BY ReadIs
<1> DEFINE d == SubSeq(rcv, 1, n)
<1>2. Len(rcv) \in Nat /\ sent[Peer] \in Nat /\ Cardinality(From(Peer)) \in Nat /\ n \in Nat \ {0} /\ n <= Len(rcv)
  BY StreamTyped, SentTyped DEF Inv, TypeOK, Sources
<1>3. Up => sent[Peer] = Cardinality(From(Peer)) + Len(rcv)
  BY QueuedIs DEF StreamInv
<1>4. d \in Seq(Bytes) /\ Len(d) = n /\ SendInLoop(d) /\ UNCHANGED closed /\ Peer \in Sources
  BY <1>1 DEF HandleRead, Sources
<1>5. \A i \in 1 .. n : d[i] = <<Peer, sent[Peer] - Len(rcv) + i>>
  BY <1>1
<1> HIDE DEF d
<1>6. CASE Up
  <2>1. \A i \in 1 .. n : d[i] = <<Peer, Cardinality(From(Peer)) + i>>
    <3>1. sent[Peer] - Len(rcv) = Cardinality(From(Peer))
      BY <1>2, <1>3, <1>6
    <3> QED
      BY <1>5, <3>1
  <2>2. n <= sent[Peer] - Cardinality(From(Peer))
    BY <1>2, <1>3, <1>6
  <2> QED
    BY <1>1, <1>2, <1>4, <2>1, <2>2, PipeTakes
<1>7. CASE ~Up
  <2>1. \A i \in 1 .. Len(d) : d[i][1] = Peer
    BY <1>4, <1>5
  <2>2. UNCHANGED Transit
    BY <1>1, <1>4, <1>7, <2>1, SendTakesOrDrops
  <2> QED
    BY <1>1, <1>4, <2>2, PipeStutters DEF Phase
<1> QED
  BY <1>6, <1>7

LEMMA SendTaskTakes == ASSUME Inv, SilentInv, StreamInv, SendTask PROVE [Pipe!Next]_(Pipe!vars)
<1>1. /\ NextTask("send") /\ SendInLoop(Head(tasks).data)
      /\ UNCHANGED <<state, closed, reset, delivered, sent>>
  BY DEF SendTask
<1>2. 1 \in DOMAIN Todo /\ Todo[1] = Head(tasks) /\ Todo[1].kind = "send"
  BY <1>1, TakesTask
<1>3. state # "CONNECTING"
  BY <1>2 DEF StreamInv, NotYet
<1>4. PICK u \in Users, k \in 1 .. MaxCalls :
          Todo[1].data = <<<<u, k>>>> /\ Number(1) = k /\ 1 \in InTasks(u)
  BY <1>2, WhoseTask DEF StreamInv
<1> DEFINE d == <<<<u, k>>>>
<1>5. d \in Seq(Bytes) /\ Len(d) = 1 /\ (\A i \in 1 .. 1 : d[i] = <<u, k>>) /\ SendInLoop(d) /\ u \in Sources
  BY <1>1, <1>2, <1>4, UserByte, Singleton DEF Sources
<1> HIDE DEF d
<1>6. CASE Up
  <2>1. k = Cardinality(From(u)) + 1 /\ Cardinality(From(u)) + 1 <= sent[u]
    BY <1>4, <1>6, FirstIsNext
  <2>2. 1 <= sent[u] - Cardinality(From(u)) /\ \A i \in 1 .. 1 : d[i] = <<u, Cardinality(From(u)) + i>>
    <3>1. sent[u] \in Nat /\ Cardinality(From(u)) \in Nat
      BY <1>5, StreamTyped, SentTyped DEF Inv
    <3> QED
      BY <1>5, <2>1, <3>1
  <2> QED
    BY <1>1, <1>3, <1>5, <2>1, <2>2, 1 \in Nat \ {0}, PipeTakes
<1>7. CASE ~Up
  <2>1. \A i \in 1 .. Len(d) : d[i][1] = u
    BY <1>5
  <2>2. UNCHANGED Transit
    BY <1>1, <1>3, <1>5, <1>7, <2>1, SendTakesOrDrops
  <2> QED
    BY <1>1, <2>2, PipeStutters DEF Phase
<1> QED
  BY <1>6, <1>7

\* state_ never goes back to CONNECTED, and close_callback_ is called once and for all.
LEMMA PipeEnds ==
    ASSUME Inv, SilentInv, [Next]_vars, UNCHANGED <<sent, Transit, delivered, reset>>, closed => closed'
    PROVE  [Pipe!Next]_(Pipe!vars)
<1>0. closed \in BOOLEAN /\ closed' \in BOOLEAN
  BY InvStep DEF Inv, TypeOK
<1>1. state' \in Started => state \in Started
  BY NoWayBack
<1>2. Phase' = Phase \/ Phase' \in (IF Phase = "open" THEN {"draining", "closed"} ELSE {"closed"})
  BY <1>0, <1>1 DEF Phase, Started
<1>3. CASE Phase' = Phase
  BY <1>3, PipeStutters
<1>4. CASE Phase' # Phase
  BY <1>2, <1>4 DEF Pipe!Next, Pipe!End
<1> QED
  BY <1>3, <1>4

LEMMA PipeStep == ASSUME Inv, SilentInv, StreamInv, [Next]_vars PROVE [Pipe!Next]_(Pipe!vars)
<1>1. CASE HandleRead
  BY <1>1, ReadTakes
<1>2. CASE SendTask
  BY <1>2, SendTaskTakes
<1>3. CASE PeerSends
  <2>1. sent' = [sent EXCEPT ![Peer] = @ + 1] /\ UNCHANGED <<Transit, delivered, Phase, reset>>
    BY <1>3 DEF PeerSends, connVars, Transit, Phase
  <2>2. Pipe!Give(Peer) /\ Peer \in Sources
    BY <2>1 DEF Pipe!Give, Sources
  <2> QED
    BY <2>2 DEF Pipe!Next
<1>4. ASSUME NEW u \in Users, PostSend(u) PROVE [Pipe!Next]_(Pipe!vars)
  <2>1. sent' = [sent EXCEPT ![u] = @ + 1] /\ UNCHANGED <<Transit, delivered, Phase, reset>>
    BY <1>4 DEF PostSend, connVars, kernelVars, Transit, Phase
  <2>2. Pipe!Give(u) /\ u \in Sources
    BY <2>1 DEF Pipe!Give, Sources
  <2> QED
    BY <2>2 DEF Pipe!Next
<1>5. CASE PeerReceives
  <2>1. Transit # <<>> /\ delivered' = Append(delivered, Head(Transit)) /\ Transit' = Tail(Transit)
    BY <1>5, PeerTakes DEF Inv
  <2>2. ~reset /\ UNCHANGED <<sent, Phase, reset>>
    BY <1>5 DEF PeerReceives, connVars, Phase
  <2>3. Pipe!Deliver
    BY <2>1, <2>2 DEF Pipe!Deliver
  <2> QED
    BY <2>3 DEF Pipe!Next
<1>6. CASE PeerResets
  <2>1. reset' = TRUE /\ UNCHANGED <<sent, Transit, delivered, Phase>>
    BY <1>6 DEF PeerResets, connVars, Transit, Phase
  <2>2. Pipe!Break
    BY <2>1 DEF Pipe!Break
  <2> QED
    BY <2>2 DEF Pipe!Next
<1>7. CASE HandleWrite
  <2>1. UNCHANGED <<sent, Transit, delivered, Phase, reset>>
    BY <1>7, WriteMoves DEF HandleWrite, Phase, Inv
  <2> QED
    BY <2>1, PipeStutters
<1>8. CASE \/ Poll \/ HandleEof \/ HandleError \/ SwapPending \/ Establish \/ ShutdownTask \/ ForceCloseTask \/ DestroyTask
           \/ PeerFinishes \/ RemoveConnection
           \/ \E u \in Users : Call(u) \/ SetDisconnecting(u) \/ PostDisconnect(u)
           \/ UNCHANGED vars
  <2>1. UNCHANGED <<sent, delivered, reset, snd, output>> /\ (closed => closed')
    BY <1>8 DEF Poll, HandleEof, HandleError, SwapPending, Establish, ShutdownTask, ForceCloseTask, DestroyTask, PeerFinishes,
         RemoveConnection, Call, SetDisconnecting, PostDisconnect, HandleClose, vars, connVars, kernelVars
  <2>2. UNCHANGED Transit
    BY <2>1 DEF Transit
  <2> QED
    BY <2>1, <2>2, PipeEnds
<1> QED
  BY <1>1, <1>2, <1>3, <1>4, <1>5, <1>6, <1>7, <1>8 DEF Next, LoopStep, PeerStep, UserStep

\* Connection implements EchoPipe, but for its progress, which the runs check: the bytes of each source
\* are taken in order, once each, and reach the peer in the order in which they were taken.
THEOREM ConnectionIsAPipe == Spec => Pipe!Init /\ [][Pipe!Next]_(Pipe!vars)
<1>1. Inv /\ SilentInv /\ StreamInv /\ [Next]_vars => [Pipe!Next]_(Pipe!vars)
  BY PipeStep
<1> QED
  BY <1>1, AllInit, AllStep, PipeInit, PTL DEF Spec
=============================================================================
