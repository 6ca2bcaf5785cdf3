--------------------------- MODULE ReactorV4Proofs ---------------------------
(***************************************************************************)
(* Theorems about ReactorV4, for every set of pool threads, every capacity *)
(* and every number of connections and lines.                              *)
(***************************************************************************)
EXTENDS ReactorV4, FiniteSetTheorems, TLAPS

\* What TypeOK needs to be inductive: epoll watches what is mapped, the descriptors of a batch are mapped (handleMessage() finds
\* what it looks for), the I/O thread has a connection in hand when it reads from one, and has read a
\* line when it hands one over.
InHand ==
    /\ \A f \in DOMAIN conns : conns[f] \in Conns
    /\ batch \ {Listen, Event} \subseteq DOMAIN conns
    /\ io \in {"read", "push"} => cur \in Conns
    /\ io = "push" => taken[cur] >= 1
    /\ io = "functors" => functors # <<>>
    /\ registered = DOMAIN conns

IInv == TypeOK /\ InHand

-----------------------------------------------------------------------------
LEMMA ConstantsTyped ==
    /\ NConns \in Nat /\ MaxLines \in Nat /\ Capacity \in Nat /\ SockCap \in Nat
    /\ Conns \subseteq Nat /\ Fds \subseteq Nat /\ 0 \notin Fds
    /\ Listen \notin Fds /\ Event \notin Fds
BY CapacityAssumption, BoundsAssumption DEF Conns, Fds, Listen, Event

\* The peers send no more lines than MaxLines, and so none of them does.
LEMMA MaySendBound ==
    ASSUME TypeOK, NEW c \in Conns, MaySend(c)
    PROVE  sent[c] < MaxLines
<1> DEFINE S == {l \in Lines : l[2] <= sent[l[1]]}
           T == {c} \X (1 .. MaxLines)
<1> SUFFICES ASSUME sent[c] = MaxLines PROVE FALSE
  BY ConstantsTyped DEF TypeOK
<1>1. IsFiniteSet(Lines)
  <2>1. IsFiniteSet(Conns) /\ IsFiniteSet(1 .. MaxLines)
    BY ConstantsTyped, FS_Interval, SMTT(30) DEF Conns
  <2> QED
    BY <2>1, FS_Product DEF Lines
<1>2. IsFiniteSet(S)
  BY <1>1, FS_Subset
<1>3. T \subseteq S
  BY ConstantsTyped DEF Lines
<1>4. Cardinality(T) = MaxLines
  <2>1. IsFiniteSet({c}) /\ Cardinality({c}) = 1
    BY FS_Singleton
  <2>2. IsFiniteSet(1 .. MaxLines) /\ Cardinality(1 .. MaxLines) = MaxLines
    BY ConstantsTyped, FS_Interval, SMTT(30)
  <2>3. Cardinality(T) = Cardinality({c}) * Cardinality(1 .. MaxLines)
    BY <2>1, <2>2, FS_Product
  <2> QED
    BY <2>1, <2>2, <2>3, ConstantsTyped
<1>5. Cardinality(T) <= Cardinality(S) /\ Cardinality(S) \in Nat
  BY <1>2, <1>3, FS_Subset, FS_CardinalityType
<1> QED
  BY <1>4, <1>5, ConstantsTyped DEF MaySend

\* A connection of _conns is alive, and so its descriptor is open.
LEMMA MappedIsOpen ==
    ASSUME TypeOK, InHand
    PROVE  DOMAIN conns \subseteq Open
<1> SUFFICES ASSUME NEW f \in DOMAIN conns PROVE f \in Open
  OBVIOUS
<1>1. conns[f] \in Conns /\ fdOf[conns[f]] = f /\ f # 0
  BY ConstantsTyped DEF TypeOK, InHand
<1>2. Alive(conns[f])
  BY DEF Alive
<1> QED
  BY <1>1, <1>2 DEF Open

LEMMA IInvInit == Init => IInv
<1> SUFFICES ASSUME Init PROVE IInv
  OBVIOUS
<1>1. DOMAIN conns = {} /\ DOMAIN task = {}
  BY DEF Init
<1>2. TypeOK
  BY <1>1, ConstantsTyped DEF Init, TypeOK, IoPoints, WorkerPoints
<1> QED
  BY <1>1, <1>2 DEF Init, IInv, InHand

-----------------------------------------------------------------------------
(* The steps of the peers.                                                 *)

LEMMA PeersKeep ==
    ASSUME IInv, \/ Connect
                 \/ \E c \in Conns : SendLine(c) \/ SendPart(c) \/ Finish(c) \/ ReadReply(c)
    PROVE  IInv'
<1> USE ConstantsTyped
<1>0. UNCHANGED <<ioVars, poolVars, pending, wakeups>>
  BY DEF Connect, SendLine, SendPart, Finish, ReadReply
<1>1. /\ made' \in 0 .. NConns
      /\ sent' \in [Conns -> 0 .. MaxLines] /\ tail' \in [Conns -> {"none", "sent", "read"}]
      /\ unread' \in [Conns -> 0 .. SockCap]
      /\ eof' \subseteq 1 .. made' /\ made <= made'
      /\ \A c \in Conns : sent[c] <= sent'[c]
  <2>0. /\ made \in 0 .. NConns
        /\ sent \in [Conns -> 0 .. MaxLines] /\ tail \in [Conns -> {"none", "sent", "read"}]
        /\ unread \in [Conns -> 0 .. SockCap]
        /\ eof \subseteq 1 .. made
        /\ \A c \in Conns : sent[c] <= sent[c]
    BY SMTT(30) DEF IInv, TypeOK
  <2>1. CASE Connect
    <3>1. made < NConns /\ made' = made + 1 /\ UNCHANGED <<sent, tail, eof, unread>>
      BY <2>1 DEF Connect
    <3>2. made' \in 0 .. NConns /\ made <= made' /\ 1 .. made \subseteq 1 .. made'
      BY <2>0, <3>1
    <3> QED
      BY <2>0, <3>1, <3>2
  <2>2. ASSUME NEW c \in Conns, SendLine(c) PROVE <1>1
    <3>1. sent[c] < MaxLines
      BY <2>2, MaySendBound DEF SendLine, IInv
    <3>2. /\ sent' = [sent EXCEPT ![c] = @ + 1] /\ tail' = [tail EXCEPT ![c] = "none"]
          /\ UNCHANGED <<made, eof, unread>>
      BY <2>2 DEF SendLine
    <3>3. sent[c] + 1 \in 0 .. MaxLines
      BY <2>0, <3>1
    <3>4. sent' \in [Conns -> 0 .. MaxLines]
      BY <2>0, <3>2, <3>3
    <3>5. \A d \in Conns : sent[d] <= sent'[d]
      BY <2>0, <3>2
    <3>6. tail' \in [Conns -> {"none", "sent", "read"}]
      BY <2>0, <3>2
    <3>7. made <= made
      BY <2>0
    <3> QED
      BY <2>0, <3>2, <3>4, <3>5, <3>6, <3>7
  <2>3. ASSUME NEW c \in Conns, SendPart(c) PROVE <1>1
    <3>1. tail' = [tail EXCEPT ![c] = "sent"] /\ UNCHANGED <<made, sent, eof, unread>>
      BY <2>3 DEF SendPart
    <3>2. tail' \in [Conns -> {"none", "sent", "read"}] /\ made <= made
      BY <2>0, <3>1
    <3> QED
      BY <2>0, <3>1, <3>2
  <2>4. ASSUME NEW c \in Conns, Finish(c) PROVE <1>1
    <3>1. eof' = eof \cup {c} /\ c \in 1 .. made /\ UNCHANGED <<made, sent, tail, unread>>
      BY <2>4 DEF Finish
    <3>2. eof' \subseteq 1 .. made /\ made <= made
      BY <2>0, <3>1
    <3> QED
      BY <2>0, <3>1, <3>2
  <2>5. ASSUME NEW c \in Conns, ReadReply(c) PROVE <1>1
    <3>1. /\ unread[c] > 0 /\ unread' = [unread EXCEPT ![c] = @ - 1]
          /\ UNCHANGED <<made, sent, tail, eof>>
      BY <2>5 DEF ReadReply
    <3>2. unread[c] - 1 \in 0 .. SockCap
      BY <2>0, <3>1
    <3>3. unread' \in [Conns -> 0 .. SockCap]
      BY <2>0, <3>1, <3>2
    <3>4. made <= made
      BY <2>0
    <3> QED
      BY <2>0, <3>1, <3>3, <3>4
  <2> QED
    BY <2>1, <2>2, <2>3, <2>4, <2>5
<1>2. TypeOK'
  <2>1. \A c \in Conns : (fdOf[c] # 0 => c <= made') /\ taken[c] <= sent'[c]
    <3> SUFFICES ASSUME NEW c \in Conns PROVE (fdOf[c] # 0 => c <= made') /\ taken[c] <= sent'[c]
      OBVIOUS
    <3>1. /\ c \in Nat /\ made \in Nat /\ made' \in Nat /\ sent[c] \in Nat /\ sent'[c] \in Nat
          /\ sent[c] <= sent'[c] /\ made <= made'
      BY <1>1 DEF IInv, TypeOK
    <3>2. (fdOf[c] # 0 => c <= made) /\ taken[c] \in Nat /\ taken[c] <= sent[c]
      BY DEF IInv, TypeOK
    <3> QED
      BY <3>1, <3>2
  <2> QED
    BY <1>0, <1>1, <2>1 DEF IInv, TypeOK, ioVars, poolVars
<1>3. InHand'
  BY <1>0 DEF IInv, InHand, ioVars, poolVars
<1> QED
  BY <1>2, <1>3 DEF IInv

-----------------------------------------------------------------------------
(* The steps of the I/O thread.                                            *)

LEMMA IoKeeps == ASSUME IInv, IoStep PROVE IInv'
<1> USE ConstantsTyped
<1> USE DEF IInv
<1>1. CASE Poll
  <2>1. batch' \subseteq Fds \cup {Listen, Event} /\ batch' \ {Listen, Event} \subseteq registered
    BY <1>1 DEF Poll, TypeOK
  <2>2. TypeOK'
    BY <1>1, <2>1 DEF Poll, TypeOK, peers, poolVars, IoPoints
  <2>3. InHand'
    BY <1>1, <2>1 DEF Poll, InHand
  <2> QED
    BY <2>2, <2>3
<1>2. CASE HandleNewConnection
  <2>1. PICK c \in Conns, f \in Fds :
            /\ Accepts(c, f)
            /\ fdOf' = [fdOf EXCEPT ![c] = f]
            /\ conns' = [g \in DOMAIN conns \cup {f} |-> IF g \in DOMAIN conns THEN conns[g] ELSE c]
            /\ registered' = registered \cup {f}
    BY <1>2 DEF HandleNewConnection, AddEpollReadEvent
  <2>2. f \notin DOMAIN conns /\ c \in 1 .. made /\ fdOf[c] = 0
    BY <2>1, MappedIsOpen DEF Accepts, Backlog
  <2>3. /\ fdOf' \in [Conns -> Fds \cup {0}] /\ fdOf'[c] = f
        /\ \A d \in Conns : d # c => fdOf'[d] = fdOf[d]
    BY <2>1 DEF TypeOK
  <2>4. /\ DOMAIN conns' = DOMAIN conns \cup {f} /\ conns'[f] = c
        /\ \A g \in DOMAIN conns : conns'[g] = conns[g]
    BY <2>1, <2>2
  <2>5. \A g \in DOMAIN conns : conns[g] \in Conns /\ conns[g] # c
    BY <2>2 DEF TypeOK, InHand
  <2>6. \A g \in DOMAIN conns' : fdOf'[conns'[g]] = g /\ conns'[g] \in Conns
    BY <2>3, <2>4, <2>5, ZenonT(30) DEF TypeOK
  <2>7. io' \in {"wait", "batch"}
    BY <1>2 DEF HandleNewConnection, Return
  <2>8. TypeOK'
    <3>1. \A d \in Conns : fdOf'[d] # 0 => d <= made
      BY <2>2, <2>3 DEF TypeOK
    <3>2. DOMAIN conns' \subseteq Fds /\ registered' \subseteq Fds
      BY <2>1, <2>4 DEF TypeOK
    <3>3. UNCHANGED <<peers, taken, cur, functors, replied, poolVars, pending, wakeups>> /\ batch' \subseteq batch
      BY <1>2 DEF HandleNewConnection
    <3> QED
      BY <2>3, <2>6, <2>7, <3>1, <3>2, <3>3 DEF TypeOK, peers, poolVars, IoPoints
  <2>9. InHand'
    BY <1>2, <2>1, <2>4, <2>6, <2>7 DEF HandleNewConnection, InHand
  <2> QED
    BY <2>8, <2>9
<1>3. CASE HandleClose
  <2>1. PICK f \in batch \ {Listen, Event} :
            /\ batch' = batch \ {f}
            /\ registered' = registered \ {f}
            /\ conns' = [g \in DOMAIN conns \ {f} |-> conns[g]]
    BY <1>3 DEF HandleClose, DelEpollReadEvent
  <2>2. /\ DOMAIN conns' = DOMAIN conns \ {f}
        /\ \A g \in DOMAIN conns' : conns'[g] = conns[g]
    BY <2>1
  <2>3. io' \in {"wait", "batch"}
    BY <1>3 DEF HandleClose, Return
  <2>4. TypeOK'
    BY <1>3, <2>1, <2>2, <2>3 DEF HandleClose, TypeOK, peers, poolVars, IoPoints
  <2>5. InHand'
    BY <1>3, <2>1, <2>2, <2>3 DEF HandleClose, InHand
  <2> QED
    BY <2>4, <2>5
<1>4. CASE HandleMessage
  <2>1. PICK f \in batch \ {Listen, Event} : batch' = batch \ {f} /\ cur' = conns[f]
    BY <1>4 DEF HandleMessage
  <2>2. cur' \in Conns
    BY <2>1 DEF InHand
  <2>3. TypeOK'
    BY <1>4, <2>1, <2>2 DEF HandleMessage, TypeOK, peers, poolVars, IoPoints
  <2>4. InHand'
    BY <1>4, <2>1, <2>2 DEF HandleMessage, InHand
  <2> QED
    BY <2>3, <2>4
<1>5. CASE HandleRead
  <2>1. TypeOK'
    BY <1>5 DEF HandleRead, TypeOK, peers, poolVars, IoPoints
  <2>2. InHand'
    BY <1>5 DEF HandleRead, InHand
  <2> QED
    BY <2>1, <2>2
<1>6. CASE ReadLine
  <2>1. cur \in Conns /\ taken[cur] < sent[cur] /\ taken' = [taken EXCEPT ![cur] = @ + 1]
    BY <1>6 DEF ReadLine, Readn, InHand
  <2>2. UNCHANGED peers
    BY <1>6 DEF ReadLine
  <2>3. taken' \in [Conns -> 0 .. MaxLines] /\ \A c \in Conns : taken'[c] <= sent[c]
    <3>1. /\ taken \in [Conns -> 0 .. MaxLines] /\ sent[cur] \in 0 .. MaxLines
          /\ \A c \in Conns : taken[c] <= sent[c]
      BY <2>1 DEF TypeOK
    <3>2. taken[cur] + 1 \in 0 .. MaxLines /\ taken[cur] + 1 <= sent[cur]
      BY <2>1, <3>1
    <3>3. \A c \in Conns : taken'[c] = IF c = cur THEN taken[cur] + 1 ELSE taken[c]
      BY <2>1, <3>1
    <3>4. taken' \in [Conns -> 0 .. MaxLines]
      BY <2>1, <3>1, <3>2
    <3> QED
      BY <3>1, <3>2, <3>3, <3>4
  <2>4. TypeOK'
    <3>1. /\ UNCHANGED <<fdOf, conns, registered, cur, batch, functors, replied, poolVars, pending, wakeups>>
          /\ io' = "push"
      BY <1>6 DEF ReadLine
    <3> QED
      BY <2>2, <2>3, <3>1 DEF TypeOK, peers, poolVars, IoPoints
  <2>5. InHand'
    <3>1. taken'[cur] >= 1
      BY <2>1 DEF TypeOK
    <3> QED
      BY <1>6, <2>1, <3>1 DEF ReadLine, InHand
  <2> QED
    BY <2>4, <2>5
<1>7. CASE ReadPart
  <2>1. cur \in Conns
    BY <1>7 DEF ReadPart, InHand
  <2>2. TypeOK'
    BY <1>7, <2>1 DEF ReadPart, TypeOK, ioVars, poolVars, IoPoints
  <2>3. InHand'
    BY <1>7 DEF ReadPart, InHand, ioVars
  <2> QED
    BY <2>2, <2>3
<1>8. CASE AddTask
  <2>1. <<cur, taken[cur]>> \in Lines
    <3>1. cur \in Conns /\ taken[cur] >= 1
      BY <1>8 DEF AddTask, InHand
    <3>2. taken[cur] \in 0 .. MaxLines
      BY <3>1 DEF TypeOK
    <3>3. taken[cur] \in 1 .. MaxLines
      BY <3>1, <3>2
    <3> QED
      BY <3>1, <3>3 DEF Lines
  <2>2. queue' \in Seq(Lines) /\ Len(queue') <= Capacity
    BY <1>8, <2>1 DEF AddTask, TypeOK
  <2>3. io' \in {"wait", "batch"}
    BY <1>8 DEF AddTask, Return
  <2>4. TypeOK'
    BY <1>8, <2>2, <2>3 DEF AddTask, TypeOK, peers, IoPoints
  <2>5. InHand'
    BY <1>8, <2>3 DEF AddTask, InHand
  <2> QED
    BY <2>4, <2>5
<1>9. CASE SwapFunctors
  <2>1. /\ io' \in {"wait", "batch", "functors"}
        /\ io' = "functors" => functors' # <<>>
    BY <1>9 DEF SwapFunctors, Return
  <2>2. TypeOK'
    BY <1>9, <2>1, SMTT(30) DEF SwapFunctors, TypeOK, peers, poolVars, IoPoints
  <2>3. InHand'
    BY <1>9, <2>1 DEF SwapFunctors, InHand
  <2> QED
    BY <2>2, <2>3
<1>10. CASE RunFunctor
  <2>1. functors # <<>>
    BY <1>10 DEF RunFunctor, InHand
  <2>2. Head(functors) \in Lines /\ functors' \in Seq(Lines)
    BY <1>10, <2>1 DEF RunFunctor, TypeOK
  <2>3. /\ io' \in {"wait", "batch", "functors", "crashed"}
        /\ io' = "functors" => functors' # <<>>
    BY <1>10 DEF RunFunctor, Return
  <2>4. unread' \in [Conns -> 0 .. SockCap] /\ replied' \subseteq Lines
    <3>1. CASE Alive(Head(functors)[1])
      <4> DEFINE c == Head(functors)[1]
      <4>1. c \in Conns
        BY <2>2 DEF Lines
      <4>2. unread[c] < SockCap /\ unread' = [unread EXCEPT ![c] = @ + 1]
        BY <1>10, <3>1 DEF RunFunctor, Writen
      <4>3. unread \in [Conns -> 0 .. SockCap]
        BY DEF TypeOK
      <4> HIDE DEF c
      <4>4. unread[c] + 1 \in 0 .. SockCap
        BY <4>1, <4>2, <4>3
      <4>5. unread' \in [Conns -> 0 .. SockCap]
        BY <4>2, <4>3, <4>4
      <4> QED
        BY <1>10, <2>2, <3>1, <4>5 DEF RunFunctor, Writen, TypeOK
    <3> QED
      BY <1>10, <3>1 DEF RunFunctor, TypeOK
  <2>5. TypeOK'
    BY <1>10, <2>2, <2>3, <2>4 DEF RunFunctor, TypeOK, poolVars, IoPoints
  <2>6. InHand'
    BY <1>10, <2>3 DEF RunFunctor, InHand
  <2> QED
    BY <2>5, <2>6
<1> QED
  BY <1>1, <1>2, <1>3, <1>4, <1>5, <1>6, <1>7, <1>8, <1>9, <1>10 DEF IoStep

-----------------------------------------------------------------------------
(* The steps of the pool's threads.                                        *)

LEMMA WorkerKeeps == ASSUME IInv, NEW w \in Workers, WorkerStep(w) PROVE IInv'
<1> USE ConstantsTyped
<1> USE DEF IInv
<1>1. UNCHANGED <<peers, ioVars>>
  BY DEF WorkerStep, TakeTask, Post, Wakeup, Release
<1>2. InHand'
  BY <1>1 DEF InHand, ioVars
<1>3. /\ queue' \in Seq(Lines) /\ Len(queue') <= Capacity
      /\ worker' \in [Workers -> WorkerPoints]
      /\ DOMAIN task' = {v \in Workers : worker'[v] # "pop"} /\ \A v \in DOMAIN task' : task'[v] \in Lines
      /\ pending' \in Seq(Lines) /\ wakeups' \in Nat
  <2>1. CASE TakeTask(w)
    <3>1. queue \in Seq(Lines) /\ queue # <<>> /\ queue' = Tail(queue) /\ Len(queue) <= Capacity
      BY <2>1 DEF TakeTask, TypeOK
    <3>2. Head(queue) \in Lines /\ queue' \in Seq(Lines) /\ Len(queue') <= Capacity
      BY <3>1
    <3>3. /\ worker' = [worker EXCEPT ![w] = "post"]
          /\ task' = [v \in DOMAIN task \cup {w} |-> IF v = w THEN Head(queue) ELSE task[v]]
      BY <2>1 DEF TakeTask, WorkerTo
    <3> QED
      BY <2>1, <3>2, <3>3 DEF TakeTask, TypeOK, WorkerPoints
  <2>2. CASE Post(w)
    <3>1. worker[w] = "post" /\ worker' = [worker EXCEPT ![w] = "wakeup"] /\ pending' = Append(pending, task[w])
      BY <2>2 DEF Post, WorkerTo
    <3>2. task[w] \in Lines
      BY <3>1 DEF TypeOK
    <3> QED
      BY <2>2, <3>1, <3>2 DEF Post, TypeOK, WorkerPoints
  <2>3. CASE Wakeup(w)
    BY <2>3 DEF Wakeup, WorkerTo, TypeOK, WorkerPoints
  <2>4. CASE Release(w)
    BY <2>4 DEF Release, WorkerTo, TypeOK, WorkerPoints
  <2> QED
    BY <2>1, <2>2, <2>3, <2>4 DEF WorkerStep
<1>4. TypeOK'
  BY <1>1, <1>3 DEF TypeOK, peers, ioVars
<1> QED
  BY <1>2, <1>4

LEMMA IInvStep == IInv /\ [Next]_vars => IInv'
<1> SUFFICES ASSUME IInv, [Next]_vars PROVE IInv'
  OBVIOUS
<1>1. CASE UNCHANGED vars
  BY <1>1 DEF IInv, TypeOK, InHand, vars, peers, ioVars, poolVars
<1> QED
  BY <1>1, PeersKeep, IoKeeps, WorkerKeeps DEF Next

LEMMA IInvHolds == Spec => []IInv
BY IInvInit, IInvStep, PTL DEF Spec

\* The variables keep their types: in particular the pool's queue is bounded, a line handed over is
\* one that was read, and no event of a batch is for a descriptor that is not mapped.
THEOREM ReactorTypeCorrect == Spec => []TypeOK
BY IInvHolds, PTL DEF IInv

\* epoll watches the connections of _conns and no others, and their descriptors are open
\* (handleNewConnection(), handleMessage(), the shared_ptr in _conns).
THEOREM ReactorWatchesMapped == Spec => []WatchedIsMapped
<1>1. IInv => WatchedIsMapped
  BY MappedIsOpen DEF IInv, InHand, WatchedIsMapped
<1> QED
  BY <1>1, IInvHolds, PTL

\* No reply waits without a wakeup (runInLoop(), wakeup(), handleRead(), doPendingFunctors()).
THEOREM RepliesAreSignalled == Spec => []RepliesSignalled
<1>1. Init => RepliesSignalled
  BY DEF Init, RepliesSignalled
<1>2. IInv /\ RepliesSignalled /\ [Next]_vars => RepliesSignalled'
  <2> SUFFICES ASSUME IInv, RepliesSignalled, [Next]_vars, pending' # <<>>
               PROVE  wakeups' > 0 \/ (\E w \in Workers : worker'[w] = "wakeup") \/ io' = "swap"
    BY DEF RepliesSignalled
  <2>0. wakeups \in Nat /\ worker \in [Workers -> WorkerPoints]
    BY DEF IInv, TypeOK
  <2>1. CASE \/ Connect
             \/ \E c \in Conns : SendLine(c) \/ SendPart(c) \/ Finish(c) \/ ReadReply(c)
             \/ UNCHANGED vars
    <3>1. UNCHANGED <<ioVars, poolVars, pending, wakeups>>
      BY <2>1 DEF Connect, SendLine, SendPart, Finish, ReadReply, vars
    <3> QED
      BY <3>1 DEF RepliesSignalled, ioVars, poolVars
  <2>2. CASE HandleRead
    BY <2>2 DEF HandleRead
  <2>3. CASE SwapFunctors
    BY <2>3 DEF SwapFunctors
  <2>4. CASE IoStep /\ ~HandleRead /\ ~SwapFunctors
    <3>1. io # "swap" /\ UNCHANGED <<worker, pending, wakeups>>
      BY <2>4 DEF IoStep, Poll, HandleNewConnection, HandleClose, HandleMessage, ReadLine, ReadPart,
                  AddTask, RunFunctor, ioVars, poolVars
    <3> QED
      BY <3>1 DEF RepliesSignalled
  <2>5. ASSUME NEW w \in Workers, WorkerStep(w)
        PROVE  wakeups' > 0 \/ (\E v \in Workers : worker'[v] = "wakeup") \/ io' = "swap"
    <3>1. CASE TakeTask(w) \/ Release(w)
      BY <2>0, <3>1 DEF TakeTask, Release, WorkerTo, RepliesSignalled, ioVars
    <3>2. CASE Post(w)
      BY <2>0, <3>2 DEF Post, WorkerTo
    <3>3. CASE Wakeup(w)
      BY <2>0, <3>3 DEF Wakeup
    <3> QED
      BY <2>5, <3>1, <3>2, <3>3 DEF WorkerStep
  <2> QED
    BY <2>1, <2>2, <2>3, <2>4, <2>5 DEF Next
<1> QED
  BY <1>1, <1>2, IInvHolds, PTL DEF Spec

-----------------------------------------------------------------------------
(* Where a line is.                                                        *)

\* A line that has been read is in one place, and one that has not is nowhere; a step takes what it moves
\* out of one place and puts it into another.
Once(l) == IF l[2] <= taken[l[1]] THEN \E p : Holders(l) = {p} ELSE Holders(l) = {}

OnceInv ==
    io # "crashed" => /\ \A l \in Lines : Once(l)
                      /\ io # "functors" => functors = <<>>

LEMMA HoldersAre ==
    ASSUME NEW l, NEW p
    PROVE  p \in Holders(l) <=>
              \/ \E i \in Places(queue, l) : p = <<"queue", i>>
              \/ \E i \in Places(pending, l) : p = <<"pending", i>>
              \/ \E i \in Places(functors, l) : p = <<"functors", i>>
              \/ \E w \in Workers : worker[w] = "post" /\ task[w] = l /\ p = <<"worker", w>>
              \/ io = "push" /\ l = <<cur, taken[cur]>> /\ p = <<"io", cur>>
              \/ l \in replied /\ p = <<"replied", l>>
BY DEF Holders

LEMMA HoldersAfter ==
    ASSUME NEW l, NEW p
    PROVE  p \in Holders(l)' <=>
              \/ \E i \in Places(queue', l) : p = <<"queue", i>>
              \/ \E i \in Places(pending', l) : p = <<"pending", i>>
              \/ \E i \in Places(functors', l) : p = <<"functors", i>>
              \/ \E w \in Workers : worker'[w] = "post" /\ task'[w] = l /\ p = <<"worker", w>>
              \/ io' = "push" /\ l = <<cur', taken'[cur']>> /\ p = <<"io", cur'>>
              \/ l \in replied' /\ p = <<"replied", l>>
BY DEF Holders, Places

LEMMA PlacesOfTail ==
    ASSUME NEW s \in Seq(Lines), s # <<>>, NEW l
    PROVE  /\ 1 \in Places(s, l) <=> Head(s) = l
           /\ \A i \in Places(s, l) : i \in Nat /\ (i # 1 => i - 1 \in Places(Tail(s), l))
           /\ \A i \in Places(Tail(s), l) : i \in Nat /\ i # 0 /\ i + 1 \in Places(s, l)
<1>1. /\ Len(s) \in Nat \ {0} /\ DOMAIN s = 1 .. Len(s) /\ DOMAIN Tail(s) = 1 .. Len(s) - 1
      /\ Head(s) = s[1] /\ \A i \in 1 .. Len(s) - 1 : Tail(s)[i] = s[i + 1]
  OBVIOUS
<1> QED
  BY <1>1 DEF Places

LEMMA PlacesOfAppend ==
    ASSUME NEW s \in Seq(Lines), NEW x \in Lines, NEW l
    PROVE  /\ Places(Append(s, x), l) = Places(s, l) \cup (IF x = l THEN {Len(s) + 1} ELSE {})
           /\ Len(s) + 1 \notin Places(s, l)
<1>1. /\ Len(s) \in Nat /\ DOMAIN s = 1 .. Len(s) /\ DOMAIN Append(s, x) = 1 .. Len(s) + 1
      /\ Append(s, x)[Len(s) + 1] = x /\ \A i \in 1 .. Len(s) : Append(s, x)[i] = s[i]
  OBVIOUS
<1> QED
  BY <1>1 DEF Places

LEMMA PlacesOfNone == \A l : Places(<<>>, l) = {}
BY DEF Places

\* A step in which nothing is handed over.
LEMMA HoldersStay ==
    ASSUME UNCHANGED <<queue, pending, functors, taken, replied>>,
           io # "push", io' # "push",
           \A w \in Workers : (worker'[w] = "post" <=> worker[w] = "post") /\ (worker[w] = "post" => task'[w] = task[w]),
           NEW l, Once(l)
    PROVE  Once(l)'
<1>1. \A p : p \in Holders(l)' <=> p \in Holders(l)
  BY HoldersAre, HoldersAfter
<1>2. Holders(l)' = Holders(l)
  BY <1>1 DEF Holders
<1> QED
  BY <1>2 DEF Once

LEMMA OnceInit == Init => OnceInv
<1> SUFFICES ASSUME Init PROVE OnceInv
  OBVIOUS
<1>1. ASSUME NEW l \in Lines PROVE Once(l)
  <2>1. ASSUME NEW p PROVE p \notin Holders(l)
    BY HoldersAre, PlacesOfNone DEF Init
  <2>2. l[1] \in Conns /\ l[2] \in 1 .. MaxLines /\ taken[l[1]] = 0
    BY DEF Lines, Init
  <2>3. ~(l[2] <= taken[l[1]])
    BY <2>2, ConstantsTyped
  <2> QED
    BY <2>1, <2>3 DEF Once
<1> QED
  BY <1>1 DEF OnceInv, Init

\* What was in one place is in one place when a step takes each place to a place.
LEMMA OnceMoves ==
    ASSUME NEW l, Once(l), taken'[l[1]] = taken[l[1]], NEW m,
           \A y \in Holders(l) : m[y] \in Holders(l)',
           \A x \in Holders(l)' : \E y \in Holders(l) : x = m[y]
    PROVE  Once(l)'
<1>1. CASE Holders(l) = {}
  <2>1. Holders(l)' = {}
    BY <1>1
  <2> QED
    BY <1>1, <2>1 DEF Once
<1>2. ASSUME NEW p, Holders(l) = {p} PROVE Holders(l)' = {m[p]}
  BY <1>2
<1> QED
  BY <1>1, <1>2 DEF Once

LEMMA TakeTaskMoves ==
    ASSUME IInv, NEW w \in Workers, TakeTask(w), NEW l, Once(l)
    PROVE  Once(l)'
<1> DEFINE to(y) == IF y = <<"queue", 1>> THEN <<"worker", w>>
                    ELSE IF y[1] = "queue" THEN <<"queue", y[2] - 1>> ELSE y
           m == [y \in Holders(l) |-> to(y)]
<1>1. /\ queue \in Seq(Lines) /\ queue # <<>> /\ queue' = Tail(queue) /\ worker[w] = "pop"
      /\ UNCHANGED <<pending, functors, taken, replied, io, cur>>
  BY DEF TakeTask, IInv, TypeOK, ioVars
<1>2. /\ worker'[w] = "post" /\ task'[w] = Head(queue)
      /\ \A v \in Workers \ {w} : worker'[v] = worker[v] /\ (worker[v] = "post" => task'[v] = task[v])
  BY DEF TakeTask, WorkerTo, IInv, TypeOK
<1>3. ASSUME NEW y \in Holders(l) PROVE to(y) \in Holders(l)'
  <2>1. CASE \E i \in Places(queue, l) : y = <<"queue", i>>
    <3>1. PICK i \in Places(queue, l) : y = <<"queue", i>>
      BY <2>1
    <3>2. CASE i = 1
      <4>1. Head(queue) = l
        BY <1>1, <3>1, <3>2, PlacesOfTail
      <4> QED
        BY <1>2, <3>1, <3>2, <4>1, HoldersAfter
    <3>3. CASE i # 1
      <4>1. i - 1 \in Places(queue', l)
        BY <1>1, <3>1, <3>3, PlacesOfTail
      <4>2. to(y) = <<"queue", i - 1>>
        BY <3>1, <3>3
      <4> QED
        BY <4>1, <4>2, HoldersAfter
    <3> QED
      BY <3>2, <3>3
  <2>2. CASE ~\E i \in Places(queue, l) : y = <<"queue", i>>
    <3>1. to(y) = y /\ y \in Holders(l)'
      BY <1>1, <1>2, <2>2, HoldersAre, HoldersAfter
    <3> QED
      BY <3>1
  <2> QED
    BY <2>1, <2>2
<1>4. ASSUME NEW x \in Holders(l)' PROVE \E y \in Holders(l) : x = to(y)
  <2>1. CASE \E i \in Places(queue', l) : x = <<"queue", i>>
    <3>1. PICK i \in Places(queue', l) : x = <<"queue", i>>
      BY <2>1
    <3>2. i \in Nat /\ i # 0 /\ i + 1 \in Places(queue, l)
      BY <1>1, <3>1, PlacesOfTail
    <3>3. <<"queue", i + 1>> \in Holders(l)
      BY <3>2, HoldersAre
    <3>4. to(<<"queue", i + 1>>) = x
      BY <3>1, <3>2
    <3> QED
      BY <3>3, <3>4
  <2>2. CASE x = <<"worker", w>>
    <3>1. Head(queue) = l
      BY <1>2, <2>2, HoldersAfter
    <3>2. <<"queue", 1>> \in Holders(l)
      BY <1>1, <3>1, PlacesOfTail, HoldersAre
    <3> QED
      BY <2>2, <3>2
  <2>3. CASE x # <<"worker", w>> /\ ~\E i \in Places(queue', l) : x = <<"queue", i>>
    <3>1. x \in Holders(l) /\ to(x) = x
      BY <1>1, <1>2, <2>3, HoldersAre, HoldersAfter
    <3> QED
      BY <3>1
  <2> QED
    BY <2>1, <2>2, <2>3
<1>5. /\ \A y \in Holders(l) : m[y] \in Holders(l)'
      /\ \A x \in Holders(l)' : \E y \in Holders(l) : x = m[y]
  BY <1>3, <1>4
<1> HIDE DEF m
<1> QED
  BY <1>1, <1>5, OnceMoves

LEMMA PostMoves ==
    ASSUME IInv, NEW w \in Workers, Post(w), NEW l, Once(l)
    PROVE  Once(l)'
<1> DEFINE to(y) == IF y = <<"worker", w>> THEN <<"pending", Len(pending) + 1>> ELSE y
           m == [y \in Holders(l) |-> to(y)]
<1>1. /\ pending \in Seq(Lines) /\ pending' = Append(pending, task[w]) /\ task[w] \in Lines /\ worker[w] = "post"
      /\ UNCHANGED <<queue, task, functors, taken, replied, io, cur>>
  BY DEF Post, IInv, TypeOK, ioVars
<1>2. worker'[w] = "wakeup" /\ \A v \in Workers \ {w} : worker'[v] = worker[v]
  BY DEF Post, WorkerTo, IInv, TypeOK
<1>3. /\ Places(pending', l) = Places(pending, l) \cup (IF task[w] = l THEN {Len(pending) + 1} ELSE {})
      /\ Len(pending) + 1 \notin Places(pending, l)
  BY <1>1, PlacesOfAppend
<1>4. ASSUME NEW y \in Holders(l) PROVE to(y) \in Holders(l)'
  <2>1. CASE y = <<"worker", w>>
    BY <1>3, <2>1, HoldersAre, HoldersAfter
  <2>2. CASE y # <<"worker", w>>
    <3>1. y \in Holders(l)'
      BY <1>1, <1>2, <1>3, <2>2, HoldersAre, HoldersAfter
    <3> QED
      BY <2>2, <3>1
  <2> QED
    BY <2>1, <2>2
<1>5. ASSUME NEW x \in Holders(l)' PROVE \E y \in Holders(l) : x = to(y)
  <2>1. CASE x = <<"pending", Len(pending) + 1>>
    <3>1. task[w] = l
      BY <1>3, <2>1, HoldersAfter
    <3>2. <<"worker", w>> \in Holders(l)
      BY <1>1, <3>1, HoldersAre
    <3> QED
      BY <2>1, <3>2
  <2>2. CASE x # <<"pending", Len(pending) + 1>>
    <3>1. x \in Holders(l) /\ x # <<"worker", w>>
      BY <1>1, <1>2, <1>3, <2>2, HoldersAre, HoldersAfter
    <3> QED
      BY <3>1
  <2> QED
    BY <2>1, <2>2
<1>6. /\ \A y \in Holders(l) : m[y] \in Holders(l)'
      /\ \A x \in Holders(l)' : \E y \in Holders(l) : x = m[y]
  BY <1>4, <1>5
<1> HIDE DEF m
<1> QED
  BY <1>1, <1>6, OnceMoves

LEMMA AddTaskMoves ==
    ASSUME IInv, AddTask, NEW l, Once(l)
    PROVE  Once(l)'
<1> DEFINE line == <<cur, taken[cur]>>
           to(y) == IF y = <<"io", cur>> THEN <<"queue", Len(queue) + 1>> ELSE y
           m == [y \in Holders(l) |-> to(y)]
<1>1. /\ queue \in Seq(Lines) /\ queue' = Append(queue, line) /\ io = "push" /\ io' # "push"
      /\ UNCHANGED <<pending, worker, task, functors, taken, replied>>
  BY DEF AddTask, Return, IInv, TypeOK
<1>2. line \in Lines
  <2>1. cur \in Conns /\ taken[cur] >= 1 /\ taken[cur] \in 0 .. MaxLines
    BY <1>1 DEF IInv, InHand, TypeOK
  <2> QED
    BY <2>1, ConstantsTyped DEF Lines
<1>3. /\ Places(queue', l) = Places(queue, l) \cup (IF line = l THEN {Len(queue) + 1} ELSE {})
      /\ Len(queue) + 1 \notin Places(queue, l)
  BY <1>1, <1>2, PlacesOfAppend
<1>4. ASSUME NEW y \in Holders(l) PROVE to(y) \in Holders(l)'
  <2>1. CASE y = <<"io", cur>>
    BY <1>3, <2>1, HoldersAre, HoldersAfter
  <2>2. CASE y # <<"io", cur>>
    <3>1. y \in Holders(l)'
      BY <1>1, <1>3, <2>2, HoldersAre, HoldersAfter
    <3> QED
      BY <2>2, <3>1
  <2> QED
    BY <2>1, <2>2
<1>5. ASSUME NEW x \in Holders(l)' PROVE \E y \in Holders(l) : x = to(y)
  <2>1. CASE x = <<"queue", Len(queue) + 1>>
    <3>1. line = l
      BY <1>3, <2>1, HoldersAfter
    <3>2. <<"io", cur>> \in Holders(l)
      BY <1>1, <3>1, HoldersAre
    <3> QED
      BY <2>1, <3>2
  <2>2. CASE x # <<"queue", Len(queue) + 1>>
    <3>1. x \in Holders(l) /\ x # <<"io", cur>>
      BY <1>1, <1>3, <2>2, HoldersAre, HoldersAfter, SMTT(30)
    <3> QED
      BY <3>1
  <2> QED
    BY <2>1, <2>2
<1>6. /\ \A y \in Holders(l) : m[y] \in Holders(l)'
      /\ \A x \in Holders(l)' : \E y \in Holders(l) : x = m[y]
  BY <1>4, <1>5
<1> HIDE DEF m
<1> QED
  BY <1>1, <1>6, OnceMoves

LEMMA SwapMoves ==
    ASSUME IInv, SwapFunctors, functors = <<>>, NEW l, Once(l)
    PROVE  Once(l)'
<1> DEFINE to(y) == IF y[1] = "pending" THEN <<"functors", y[2]>> ELSE y
           m == [y \in Holders(l) |-> to(y)]
<1>1. /\ functors' = pending /\ pending' = <<>> /\ io # "push" /\ io' # "push"
      /\ UNCHANGED <<queue, worker, task, taken, replied>>
  BY DEF SwapFunctors, Return, poolVars
<1>2. Places(functors, l) = {} /\ Places(pending', l) = {} /\ Places(functors', l) = Places(pending, l)
  BY <1>1, PlacesOfNone
<1>3. ASSUME NEW y \in Holders(l) PROVE to(y) \in Holders(l)'
  <2>1. CASE \E i \in Places(pending, l) : y = <<"pending", i>>
    <3>1. PICK i \in Places(pending, l) : y = <<"pending", i>>
      BY <2>1
    <3>2. to(y) = <<"functors", i>>
      BY <3>1
    <3> QED
      BY <1>2, <3>1, <3>2, HoldersAfter
  <2>2. CASE ~\E i \in Places(pending, l) : y = <<"pending", i>>
    <3>1. y \in Holders(l)' /\ to(y) = y
      BY <1>1, <1>2, <2>2, HoldersAre, HoldersAfter
    <3> QED
      BY <3>1
  <2> QED
    BY <2>1, <2>2
<1>4. ASSUME NEW x \in Holders(l)' PROVE \E y \in Holders(l) : x = to(y)
  <2>1. CASE \E i \in Places(functors', l) : x = <<"functors", i>>
    <3>1. PICK i \in Places(pending, l) : x = <<"functors", i>>
      BY <1>2, <2>1
    <3>2. <<"pending", i>> \in Holders(l)
      BY <3>1, HoldersAre
    <3> QED
      BY <3>1, <3>2
  <2>2. CASE ~\E i \in Places(functors', l) : x = <<"functors", i>>
    <3>1. x \in Holders(l) /\ to(x) = x
      BY <1>1, <1>2, <2>2, HoldersAre, HoldersAfter
    <3> QED
      BY <3>1
  <2> QED
    BY <2>1, <2>2
<1>5. /\ \A y \in Holders(l) : m[y] \in Holders(l)'
      /\ \A x \in Holders(l)' : \E y \in Holders(l) : x = m[y]
  BY <1>3, <1>4
<1> HIDE DEF m
<1> QED
  BY <1>1, <1>5, OnceMoves

\* The first functor's line has not been sent back before, as it is in one place.
LEMMA RunFunctorMoves ==
    ASSUME IInv, RunFunctor, io' # "crashed", NEW l, Once(l)
    PROVE  Once(l)'
<1> DEFINE to(y) == IF y = <<"functors", 1>> THEN <<"replied", l>>
                    ELSE IF y[1] = "functors" THEN <<"functors", y[2] - 1>> ELSE y
           m == [y \in Holders(l) |-> to(y)]
<1>1. /\ functors \in Seq(Lines) /\ functors # <<>> /\ functors' = Tail(functors) /\ io # "push" /\ io' # "push"
      /\ replied' = replied \cup {Head(functors)}
      /\ UNCHANGED <<queue, pending, worker, task, taken>>
  BY DEF RunFunctor, Writen, Return, poolVars, IInv, TypeOK, InHand
<1>2. 1 \in Places(functors, l) <=> Head(functors) = l
  BY <1>1, PlacesOfTail
<1>3. ASSUME NEW y \in Holders(l) PROVE to(y) \in Holders(l)'
  <2>1. CASE \E i \in Places(functors, l) : y = <<"functors", i>>
    <3>1. PICK i \in Places(functors, l) : y = <<"functors", i>>
      BY <2>1
    <3>2. CASE i = 1
      <4>1. l \in replied'
        BY <1>1, <1>2, <3>1, <3>2
      <4> QED
        BY <3>1, <3>2, <4>1, HoldersAfter
    <3>3. CASE i # 1
      <4>1. i - 1 \in Places(functors', l)
        BY <1>1, <3>1, <3>3, PlacesOfTail
      <4>2. to(y) = <<"functors", i - 1>>
        BY <3>1, <3>3
      <4> QED
        BY <4>1, <4>2, HoldersAfter
    <3> QED
      BY <3>2, <3>3
  <2>2. CASE ~\E i \in Places(functors, l) : y = <<"functors", i>>
    <3>1. to(y) = y /\ y \in Holders(l)'
      BY <1>1, <2>2, HoldersAre, HoldersAfter
    <3> QED
      BY <3>1
  <2> QED
    BY <2>1, <2>2
<1>4. ASSUME NEW x \in Holders(l)' PROVE \E y \in Holders(l) : x = to(y)
  <2>1. CASE \E i \in Places(functors', l) : x = <<"functors", i>>
    <3>1. PICK i \in Places(functors', l) : x = <<"functors", i>>
      BY <2>1
    <3>2. i \in Nat /\ i # 0 /\ i + 1 \in Places(functors, l)
      BY <1>1, <3>1, PlacesOfTail
    <3>3. <<"functors", i + 1>> \in Holders(l)
      BY <3>2, HoldersAre
    <3>4. to(<<"functors", i + 1>>) = x
      BY <3>1, <3>2
    <3> QED
      BY <3>3, <3>4
  <2>2. CASE x = <<"replied", l>> /\ Head(functors) = l
    <3>1. <<"functors", 1>> \in Holders(l)
      BY <1>2, <2>2, HoldersAre
    <3> QED
      BY <2>2, <3>1
  <2>3. CASE ~(x = <<"replied", l>> /\ Head(functors) = l) /\ ~\E i \in Places(functors', l) : x = <<"functors", i>>
    <3>1. x \in Holders(l) /\ to(x) = x
      BY <1>1, <2>3, HoldersAre, HoldersAfter
    <3> QED
      BY <3>1
  <2> QED
    BY <2>1, <2>2, <2>3
<1>5. /\ \A y \in Holders(l) : m[y] \in Holders(l)'
      /\ \A x \in Holders(l)' : \E y \in Holders(l) : x = m[y]
  BY <1>3, <1>4
<1> HIDE DEF m
<1> QED
  BY <1>1, <1>5, OnceMoves

\* A line that is read was nowhere.
LEMMA ReadLineTakes ==
    ASSUME IInv, ReadLine, NEW l \in Lines, Once(l)
    PROVE  Once(l)'
<1>1. /\ io = "read" /\ io' = "push" /\ cur' = cur /\ cur \in Conns
      /\ taken' = [taken EXCEPT ![cur] = @ + 1] /\ taken \in [Conns -> 0 .. MaxLines]
      /\ UNCHANGED <<queue, pending, functors, worker, task, replied>>
  BY DEF ReadLine, Readn, poolVars, IInv, InHand, TypeOK
<1>2. l[1] \in Conns /\ l[2] \in 1 .. MaxLines /\ l = <<l[1], l[2]>>
  BY DEF Lines
<1>3. taken'[cur] = taken[cur] + 1 /\ taken[cur] \in Nat /\ \A c \in Conns \ {cur} : taken'[c] = taken[c]
  BY <1>1, ConstantsTyped
<1>4. CASE l = <<cur, taken[cur] + 1>>
  <2>1. l[2] <= taken'[l[1]] /\ ~(l[2] <= taken[l[1]])
    BY <1>3, <1>4
  <2>2. Holders(l) = {}
    BY <2>1 DEF Once
  <2>3. \A p : p \in Holders(l)' <=> p = <<"io", cur>>
    BY <1>1, <1>3, <1>4, <2>2, HoldersAre, HoldersAfter
  <2>4. Holders(l)' = {<<"io", cur>>}
    BY <2>3
  <2> QED
    BY <2>1, <2>4 DEF Once
<1>5. CASE l # <<cur, taken[cur] + 1>>
  <2>1. l[2] <= taken'[l[1]] <=> l[2] <= taken[l[1]]
    <3>1. CASE l[1] = cur
      <4>1. l[2] # taken[cur] + 1 /\ l[2] \in Nat
        BY <1>2, <1>5, <3>1, ConstantsTyped
      <4> QED
        BY <1>3, <3>1, <4>1
    <3>2. CASE l[1] # cur
      BY <1>2, <1>3, <3>2
    <3> QED
      BY <3>1, <3>2
  <2>2. l # <<cur', taken'[cur']>>
    BY <1>1, <1>3, <1>5
  <2>3. \A p : p \in Holders(l)' <=> p \in Holders(l)
    BY <1>1, <2>2, HoldersAre, HoldersAfter
  <2>4. Holders(l)' = Holders(l)
    BY <2>3 DEF Holders
  <2> QED
    BY <2>1, <2>4 DEF Once
<1> QED
  BY <1>4, <1>5

LEMMA OnceStep == IInv /\ OnceInv /\ [Next]_vars => OnceInv'
<1> SUFFICES ASSUME IInv, OnceInv, [Next]_vars, io' # "crashed"
             PROVE  (\A l \in Lines : Once(l)') /\ (io' # "functors" => functors' = <<>>)
  BY DEF OnceInv
<1>0. IInv' /\ io # "crashed"
  BY IInvStep DEF Next, IoStep, WorkerStep, Connect, SendLine, SendPart, Finish, ReadReply, Poll, HandleNewConnection,
       HandleClose, HandleMessage, HandleRead, ReadLine, ReadPart, AddTask, SwapFunctors, RunFunctor, TakeTask, Post,
       Wakeup, Release, vars, ioVars
<1>1. (\A l \in Lines : Once(l)) /\ (io # "functors" => functors = <<>>)
  BY <1>0 DEF OnceInv
<1>2. io' # "functors" => functors' = <<>>
  <2>1. CASE SwapFunctors
    BY <2>1 DEF SwapFunctors, Return
  <2>2. CASE RunFunctor
    BY <2>2 DEF RunFunctor, Return
  <2>3. CASE ~SwapFunctors /\ ~RunFunctor
    <3>1. functors' = functors /\ (io = "functors" => io' = "functors")
      BY <2>3 DEF Next, IoStep, WorkerStep, Connect, SendLine, SendPart, Finish, ReadReply, Poll, HandleNewConnection,
           HandleClose, HandleMessage, HandleRead, ReadLine, ReadPart, AddTask, TakeTask, Post,
           Wakeup, Release, vars, ioVars
    <3> QED
      BY <1>1, <3>1
  <2> QED
    BY <2>1, <2>2, <2>3
<1>3. ASSUME NEW l \in Lines, Once(l) PROVE Once(l)'
  <2>1. CASE ReadLine
    BY <1>3, <2>1, ReadLineTakes
  <2>2. CASE AddTask
    BY <1>3, <2>2, AddTaskMoves
  <2>3. CASE SwapFunctors
    <3>1. functors = <<>>
      BY <1>1, <2>3 DEF SwapFunctors
    <3> QED
      BY <1>3, <2>3, <3>1, SwapMoves
  <2>4. CASE RunFunctor
    BY <1>3, <2>4, RunFunctorMoves
  <2>5. ASSUME NEW w \in Workers, TakeTask(w) \/ Post(w) PROVE Once(l)'
    BY <1>3, <2>5, TakeTaskMoves, PostMoves
  <2>6. ASSUME UNCHANGED <<io, cur, queue, pending, functors, taken, replied>>,
               \A w \in Workers :
                  (worker'[w] = "post" <=> worker[w] = "post") /\ (worker[w] = "post" => task'[w] = task[w])
        PROVE  Once(l)'
    <3>1. \A p : p \in Holders(l)' <=> p \in Holders(l)
      BY <2>6, HoldersAre, HoldersAfter
    <3>2. Holders(l)' = Holders(l)
      BY <3>1 DEF Holders
    <3> QED
      BY <1>3, <2>6, <3>2 DEF Once
  <2>7. ASSUME NEW w \in Workers, Wakeup(w) \/ Release(w) PROVE Once(l)'
    <3>1. /\ UNCHANGED <<io, cur, queue, pending, functors, taken, replied>>
          /\ worker[w] # "post" /\ worker'[w] # "post"
          /\ \A v \in Workers \ {w} : worker'[v] = worker[v] /\ (worker[v] = "post" => task'[v] = task[v])
      BY <2>7 DEF Wakeup, Release, WorkerTo, ioVars, IInv, TypeOK
    <3> QED
      BY <2>6, <3>1
  <2>8. CASE \/ Connect \/ ReadPart \/ UNCHANGED vars
             \/ \E c \in Conns : SendLine(c) \/ SendPart(c) \/ Finish(c) \/ ReadReply(c)
    <3>1. UNCHANGED <<ioVars, poolVars, pending>>
      BY <2>8 DEF Connect, ReadPart, SendLine, SendPart, Finish, ReadReply, vars
    <3> QED
      BY <2>6, <3>1 DEF ioVars, poolVars
  <2>9. CASE Poll \/ HandleNewConnection \/ HandleClose \/ HandleMessage \/ HandleRead
    <3>1. /\ UNCHANGED <<queue, pending, functors, taken, replied, worker, task>>
          /\ io # "push" /\ io' # "push"
      BY <2>9 DEF Poll, HandleNewConnection, HandleClose, HandleMessage, HandleRead, Return, poolVars
    <3> QED
      BY <1>3, <3>1, HoldersStay
  <2> QED
    BY <2>1, <2>2, <2>3, <2>4, <2>5, <2>7, <2>8, <2>9 DEF Next, IoStep, WorkerStep
<1> QED
  BY <1>1, <1>2, <1>3

\* Every line that was read is in one place until it has been sent back (onMessage(), Task, doTask(),
\* sendInLoop(), doPendingFunctors()).
THEOREM LinesAreKept == Spec => []EachLineOnce
<1>1. IInv /\ OnceInv => EachLineOnce
  <2> SUFFICES ASSUME IInv, OnceInv, io # "crashed", NEW c \in Conns, NEW n \in 1 .. taken[c]
               PROVE  Cardinality(Holders(<<c, n>>)) = 1
    BY DEF EachLineOnce
  <2>1. <<c, n>> \in Lines /\ n <= taken[c]
    <3>1. taken[c] \in 0 .. MaxLines
      BY DEF IInv, TypeOK
    <3> QED
      BY <3>1, ConstantsTyped DEF Lines
  <2>2. \E p : Holders(<<c, n>>) = {p}
    BY <2>1 DEF OnceInv, Once
  <2> QED
    BY <2>2, FS_Singleton
<1> QED
  BY <1>1, IInvInit, OnceInit, IInvStep, OnceStep, PTL DEF Spec
-----------------------------------------------------------------------------
(* The pool of the server is the one of ThreadPool.                        *)

Queued(l) == \E i \in DOMAIN queue : queue[i] = l

\* A line is at one place in the queue or in the hand of one thread, and has been handed over.
OneHolder ==
    /\ \A i, j \in DOMAIN queue : queue[i] = queue[j] => i = j
    /\ \A v, w \in DOMAIN task : task[v] = task[w] => v = w
    /\ \A w \in DOMAIN task : ~Queued(task[w])
    /\ \A l \in Lines : InPool(l) => HandedOver(l)

PoolInv == IInv /\ OneHolder

\* What the steps that move a line into, through and out of the pool do with it.
Takes(w) ==
    /\ queue # <<>> /\ queue' = Tail(queue)
    /\ DOMAIN task' = DOMAIN task \cup {w} /\ w \notin DOMAIN task
    /\ task'[w] = Head(queue) /\ \A v \in DOMAIN task : task'[v] = task[v]
    /\ \A i \in DOMAIN queue' : i \in Nat \ {0} /\ i + 1 \in DOMAIN queue /\ queue'[i] = queue[i + 1]
    /\ \A i \in DOMAIN queue : i # 1 => i - 1 \in DOMAIN queue' /\ queue'[i - 1] = queue[i]
    /\ 1 \in DOMAIN queue /\ Head(queue) = queue[1]

Releases(w) ==
    /\ queue' = queue /\ w \in DOMAIN task /\ task[w] \in Lines
    /\ DOMAIN task' = DOMAIN task \ {w} /\ \A v \in DOMAIN task' : task'[v] = task[v]

Adds(l) ==
    /\ l \in Lines /\ ~HandedOver(l)
    /\ Len(queue) < Capacity /\ queue' = Append(queue, l) /\ task' = task
    /\ Len(queue) + 1 \in DOMAIN queue' /\ queue'[Len(queue) + 1] = l
    /\ \A i \in DOMAIN queue : i \in DOMAIN queue' /\ queue'[i] = queue[i]
    /\ \A i \in DOMAIN queue' : i \in DOMAIN queue \/ i = Len(queue) + 1
    /\ \A k \in Lines : HandedOver(k)' <=> HandedOver(k) \/ k = l

SameHandedOver == \A l \in Lines : HandedOver(l)' <=> HandedOver(l)

LEMMA TakeTaskTakes ==
    ASSUME IInv, NEW w \in Workers, TakeTask(w)
    PROVE  Takes(w) /\ SameHandedOver
<1>1. queue \in Seq(Lines) /\ queue # <<>> /\ queue' = Tail(queue) /\ UNCHANGED <<taken, io, cur>>
  BY DEF TakeTask, IInv, TypeOK, ioVars
<1>2. w \notin DOMAIN task
  BY DEF TakeTask, IInv, TypeOK
<1>3. DOMAIN task' = DOMAIN task \cup {w} /\ task'[w] = Head(queue) /\ \A v \in DOMAIN task : task'[v] = task[v]
  BY <1>2 DEF TakeTask
<1>4. /\ \A i \in DOMAIN queue' : i \in Nat \ {0} /\ i + 1 \in DOMAIN queue /\ queue'[i] = queue[i + 1]
      /\ \A i \in DOMAIN queue : i # 1 => i - 1 \in DOMAIN queue' /\ queue'[i - 1] = queue[i]
      /\ 1 \in DOMAIN queue /\ Head(queue) = queue[1]
  BY <1>1
<1>5. SameHandedOver
  BY <1>1 DEF SameHandedOver, HandedOver
<1> QED
  BY <1>1, <1>2, <1>3, <1>4, <1>5 DEF Takes

LEMMA ReleaseReleases ==
    ASSUME IInv, NEW w \in Workers, Release(w)
    PROVE  Releases(w) /\ SameHandedOver
BY DEF Release, Releases, SameHandedOver, HandedOver, IInv, TypeOK, ioVars

\* The line that the I/O thread holds is the only one that counts as handed over from now on.
LEMMA AddTaskAdds ==
    ASSUME IInv, AddTask
    PROVE  Adds(<<cur, taken[cur]>>)
<1> DEFINE line == <<cur, taken[cur]>>
<1>1. /\ queue \in Seq(Lines) /\ Len(queue) < Capacity /\ queue' = Append(queue, line) /\ task' = task
      /\ io = "push" /\ io' # "push" /\ taken' = taken
  BY DEF AddTask, Return, IInv, TypeOK
<1>2. cur \in Conns /\ taken[cur] \in 1 .. MaxLines
  BY <1>1, ConstantsTyped DEF IInv, InHand, TypeOK
<1>3. line \in Lines /\ ~HandedOver(line)
  BY <1>1, <1>2 DEF Lines, HandedOver
<1>4. line[2] <= taken[line[1]]
  BY <1>2
<1>5. \A k \in Lines : HandedOver(k)' <=> HandedOver(k) \/ k = line
  BY <1>1, <1>4 DEF HandedOver
<1>6. /\ Len(queue) + 1 \in DOMAIN queue' /\ queue'[Len(queue) + 1] = line
      /\ \A i \in DOMAIN queue : i \in DOMAIN queue' /\ queue'[i] = queue[i]
      /\ \A i \in DOMAIN queue' : i \in DOMAIN queue \/ i = Len(queue) + 1
  BY <1>1
<1> QED
  BY <1>1, <1>3, <1>5, <1>6 DEF Adds

\* A line that is read is not handed over yet.
LEMMA ReadLineHandsNothingOver ==
    ASSUME IInv, ReadLine
    PROVE  SameHandedOver
<1>1. /\ io = "read" /\ io' = "push" /\ cur' = cur /\ cur \in Conns
      /\ taken' = [taken EXCEPT ![cur] = @ + 1] /\ taken \in [Conns -> 0 .. MaxLines]
  BY DEF ReadLine, Readn, IInv, InHand, TypeOK
<1>2. taken'[cur] = taken[cur] + 1 /\ taken[cur] \in Nat /\ \A c \in Conns \ {cur} : taken'[c] = taken[c]
  BY <1>1, ConstantsTyped
<1> SUFFICES ASSUME NEW l \in Lines PROVE HandedOver(l)' <=> HandedOver(l)
  BY DEF SameHandedOver
<1>3. l[1] \in Conns /\ l[2] \in Nat /\ l = <<l[1], l[2]>>
  BY ConstantsTyped DEF Lines
<1>4. CASE l[1] = cur
  <2>1. l = <<cur', taken'[cur']>> <=> l[2] = taken[cur] + 1
    BY <1>1, <1>2, <1>3, <1>4
  <2>2. l[2] <= taken[cur] + 1 /\ l[2] # taken[cur] + 1 <=> l[2] <= taken[cur]
    BY <1>2, <1>3
  <2> QED
    BY <1>1, <1>2, <1>4, <2>1, <2>2 DEF HandedOver
<1>5. CASE l[1] # cur
  <2>1. l # <<cur', taken'[cur']>>
    BY <1>1, <1>5
  <2> QED
    BY <1>1, <1>2, <1>3, <1>5, <2>1 DEF HandedOver
<1> QED
  BY <1>4, <1>5

LEMMA PoolStepKinds ==
    ASSUME IInv, [Next]_vars
    PROVE  \/ \E w \in Workers : TakeTask(w) \/ Release(w)
           \/ AddTask
           \/ UNCHANGED <<queue, task>> /\ SameHandedOver
<1>1. CASE ReadLine
  BY <1>1, ReadLineHandsNothingOver DEF ReadLine, poolVars
<1>2. ASSUME UNCHANGED <<queue, task, taken>>, io = "push" <=> io' = "push", io = "push" => cur' = cur
      PROVE UNCHANGED <<queue, task>> /\ SameHandedOver
  BY <1>2 DEF SameHandedOver, HandedOver
<1>3. CASE \/ Connect \/ ReadPart \/ UNCHANGED vars
           \/ \E c \in Conns : SendLine(c) \/ SendPart(c) \/ Finish(c) \/ ReadReply(c)
           \/ \E w \in Workers : Post(w) \/ Wakeup(w)
  BY <1>2, <1>3 DEF Connect, ReadPart, SendLine, SendPart, Finish, ReadReply, Post, Wakeup, vars, ioVars, poolVars
<1>4. CASE Poll \/ HandleNewConnection \/ HandleClose \/ HandleMessage \/ HandleRead \/ SwapFunctors \/ RunFunctor
  <2>1. UNCHANGED <<queue, task, taken>> /\ io # "push" /\ io' # "push"
    BY <1>4 DEF Poll, HandleNewConnection, HandleClose, HandleMessage, HandleRead, SwapFunctors, RunFunctor, Return, poolVars
  <2> QED
    BY <1>2, <2>1
<1> QED
  BY <1>1, <1>3, <1>4 DEF Next, IoStep, WorkerStep

LEMMA OneHolderStep ==
    ASSUME PoolInv, [Next]_vars
    PROVE  OneHolder'
<1>0. IInv /\ OneHolder
  BY DEF PoolInv
<1>1. ASSUME NEW w \in Workers, TakeTask(w) PROVE OneHolder'
  <2>0. Takes(w) /\ SameHandedOver
    BY <1>0, <1>1, TakeTaskTakes
  <2>1. \A i, j \in DOMAIN queue' : queue'[i] = queue'[j] => i = j
    BY <1>0, <2>0 DEF OneHolder, Takes
  <2>2. \A i \in DOMAIN queue' : queue'[i] # Head(queue) /\ \E j \in DOMAIN queue : queue[j] = queue'[i]
    BY <1>0, <2>0 DEF OneHolder, Takes
  <2>3. Queued(Head(queue)) /\ \A l : Queued(l)' => Queued(l) /\ l # Head(queue)
    BY <2>0, <2>2 DEF Queued, Takes
  <2>4. \A v \in DOMAIN task : task[v] # Head(queue)
    BY <1>0, <2>3 DEF OneHolder
  <2>5. \A v, u \in DOMAIN task' : task'[v] = task'[u] => v = u
    BY <1>0, <2>0, <2>4 DEF OneHolder, Takes
  <2>6. \A v \in DOMAIN task' : ~Queued(task[v])'
    BY <1>0, <2>0, <2>3 DEF OneHolder, Takes
  <2>7. \A l : InPool(l)' => InPool(l)
    BY <2>0, <2>3 DEF InPool, Queued, Takes
  <2> QED
    BY <1>0, <2>0, <2>1, <2>5, <2>6, <2>7 DEF OneHolder, SameHandedOver
<1>2. ASSUME NEW w \in Workers, Release(w) PROVE OneHolder'
  <2>0. Releases(w) /\ SameHandedOver
    BY <1>0, <1>2, ReleaseReleases
  <2>1. \A l : (Queued(l)' <=> Queued(l)) /\ (InPool(l)' => InPool(l))
    BY <2>0 DEF Queued, InPool, Releases
  <2>2. \A v \in DOMAIN task' : ~Queued(task[v])'
    BY <1>0, <2>0, <2>1 DEF OneHolder, Releases
  <2> QED
    BY <1>0, <2>0, <2>1, <2>2 DEF OneHolder, Releases, SameHandedOver
<1>3. CASE AddTask
  <2>0. PICK l \in Lines : Adds(l)
    BY <1>0, <1>3, AddTaskAdds DEF Adds
  <2>1. ~InPool(l)
    BY <1>0, <2>0 DEF OneHolder, Adds
  <2>2. \A k : Queued(k)' => Queued(k) \/ k = l
    BY <2>0 DEF Queued, Adds
  <2>3. \A i, j \in DOMAIN queue' : queue'[i] = queue'[j] => i = j
    BY <1>0, <2>0, <2>1 DEF OneHolder, InPool, Adds
  <2>4. \A v \in DOMAIN task' : ~Queued(task[v])'
    BY <1>0, <2>0, <2>1, <2>2 DEF OneHolder, InPool, Adds
  <2>5. \A k : InPool(k)' => InPool(k) \/ k = l
    BY <2>0, <2>2 DEF InPool, Queued, Adds
  <2> QED
    BY <1>0, <2>0, <2>3, <2>4, <2>5 DEF OneHolder, Adds
<1>4. ASSUME UNCHANGED <<queue, task>>, SameHandedOver PROVE OneHolder'
  BY <1>0, <1>4 DEF OneHolder, Queued, InPool, SameHandedOver
<1> QED
  BY <1>0, <1>1, <1>2, <1>3, <1>4, PoolStepKinds

LEMMA PoolSimulation ==
    ASSUME PoolInv, [Next]_vars
    PROVE  [Pool!Next]_(Pool!vars)
<1> DEFINE Hand == {task[v] : v \in DOMAIN task}
<1>0. IInv /\ OneHolder
  BY DEF PoolInv
<1>1. ASSUME NEW w \in Workers, TakeTask(w) PROVE Pool!Next
  <2>0. Takes(w) /\ SameHandedOver
    BY <1>0, <1>1, TakeTaskTakes
  <2>1. Hand' = Hand \cup {Head(queue)}
    <3>1. Hand' \subseteq Hand \cup {Head(queue)}
      BY <2>0 DEF Takes
    <3>2. Hand \subseteq Hand'
      BY <2>0 DEF Takes
    <3>3. Head(queue) \in Hand'
      BY <2>0 DEF Takes
    <3> QED
      BY <3>1, <3>2, <3>3
  <2>2. \A l : InPool(l)' <=> InPool(l)
    <3>1. ASSUME NEW l, InPool(l) PROVE InPool(l)'
      <4>1. CASE \E v \in DOMAIN task : task[v] = l
        BY <2>0, <4>1 DEF InPool, Takes
      <4>2. ASSUME NEW i \in DOMAIN queue, queue[i] = l PROVE InPool(l)'
        <5>1. CASE i = 1
          BY <2>0, <4>2, <5>1 DEF InPool, Takes
        <5>2. CASE i # 1
          BY <2>0, <4>2, <5>2 DEF InPool, Takes
        <5> QED
          BY <5>1, <5>2
      <4> QED
        BY <3>1, <4>1, <4>2 DEF InPool
    <3>2. ASSUME NEW l, InPool(l)' PROVE InPool(l)
      BY <2>0, <3>2 DEF InPool, Takes
    <3> QED
      BY <3>1, <3>2
  <2>3. Finished' = Finished
    BY <2>0, <2>2 DEF Finished, SameHandedOver
  <2>4. Pool!TakeOldest
    BY <2>0, <2>1, <2>3 DEF Pool!TakeOldest, Takes
  <2> QED
    BY <2>4 DEF Pool!Next
<1>2. ASSUME NEW w \in Workers, Release(w) PROVE Pool!Next
  <2>0. Releases(w) /\ SameHandedOver
    BY <1>0, <1>2, ReleaseReleases
  <2>1. PICK t \in Lines : t = task[w]
    BY <2>0 DEF Releases
  <2>2. Hand' = Hand \ {t} /\ t \in Hand
    <3>1. \A v \in DOMAIN task : v # w => task[v] # task[w]
      BY <1>0, <2>0 DEF OneHolder, Releases
    <3>2. Hand' = {task[v] : v \in DOMAIN task \ {w}}
      BY <2>0 DEF Releases
    <3> QED
      BY <2>0, <2>1, <3>1, <3>2 DEF Releases
  <2>3. ~Queued(t) /\ HandedOver(t) /\ InPool(t)
    BY <1>0, <2>0, <2>1 DEF OneHolder, InPool, Releases
  <2>4. \A l : InPool(l)' <=> InPool(l) /\ l # t
    <3>1. \A l : InPool(l) <=> Queued(l) \/ l \in Hand
      BY DEF InPool, Queued
    <3>2. \A l : InPool(l)' <=> Queued(l) \/ l \in Hand'
      BY <2>0 DEF InPool, Queued, Releases
    <3> QED
      BY <2>2, <2>3, <3>1, <3>2
  <2>5. Finished' = Finished \cup {t}
    BY <2>0, <2>3, <2>4 DEF Finished, SameHandedOver
  <2>6. Pool!Finish(t)
    BY <2>0, <2>2, <2>5 DEF Pool!Finish, Releases
  <2> QED
    BY <2>1, <2>6 DEF Pool!Next
<1>3. CASE AddTask
  <2>0. PICK l \in Lines : Adds(l)
    BY <1>0, <1>3, AddTaskAdds DEF Adds
  <2>1. ~InPool(l) /\ ~HandedOver(l)
    BY <1>0, <2>0 DEF OneHolder, Adds
  <2>2. \A k : InPool(k)' <=> InPool(k) \/ k = l
    BY <2>0 DEF InPool, Adds
  <2>3. Finished' = Finished
    BY <2>0, <2>1, <2>2 DEF Finished, Adds
  <2>4. l \notin Pool!Known
    BY <2>1 DEF Pool!Known, InPool, Finished
  <2>5. Hand' = Hand
    BY <2>0 DEF Adds
  <2>6. Pool!Accept(l)
    BY <2>0, <2>3, <2>4, <2>5 DEF Pool!Accept, Adds
  <2> QED
    BY <2>0, <2>6 DEF Pool!Next
<1>4. ASSUME UNCHANGED <<queue, task>>, SameHandedOver PROVE UNCHANGED Pool!vars
  <2>1. Finished' = Finished
    BY <1>4 DEF Finished, InPool, SameHandedOver
  <2> QED
    BY <1>4, <2>1 DEF Pool!vars
<1> QED
  BY <1>0, <1>1, <1>2, <1>3, <1>4, PoolStepKinds

\* The server uses its pool, and the pool serves it, as TaskPool says (addTask(), doTask()): this is what
\* ThreadPool is shown to implement.
THEOREM ServerPoolIsTaskPool == Spec => ImplementsTaskPool
<1>1. Init => OneHolder /\ Pool!Init
  <2> SUFFICES ASSUME Init PROVE OneHolder /\ Pool!Init
    OBVIOUS
  <2>1. DOMAIN queue = {} /\ DOMAIN task = {} /\ queue = <<>>
    BY DEF Init
  <2>2. \A l \in Lines : ~HandedOver(l)
    <3> SUFFICES ASSUME NEW l \in Lines PROVE ~(l[2] <= taken[l[1]])
      BY DEF HandedOver
    <3>1. l[1] \in Conns /\ l[2] \in 1 .. MaxLines
      BY DEF Lines
    <3> QED
      BY <3>1, ConstantsTyped DEF Init
  <2>3. Finished = {} /\ {task[w] : w \in DOMAIN task} = {}
    BY <2>1, <2>2 DEF Finished
  <2> QED
    BY <2>1, <2>3 DEF OneHolder, InPool, Pool!Init
<1>2. PoolInv /\ [Next]_vars => PoolInv'
  BY IInvStep, OneHolderStep DEF PoolInv
<1>3. PoolInv /\ [Next]_vars => [Pool!Next]_(Pool!vars)
  BY PoolSimulation
<1> QED
  BY <1>1, <1>2, <1>3, IInvInit, PTL DEF Spec, PoolInv, ImplementsTaskPool, Pool!Spec
======================================================================
