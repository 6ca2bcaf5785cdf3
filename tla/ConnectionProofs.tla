--------------------------- MODULE ConnectionProofs ---------------------------
(***************************************************************************)
(* Theorems about Connection, for every set of users, every number of      *)
(* bytes and calls and every capacity of the send buffer.                  *)
(***************************************************************************)
EXTENDS Connection, TLAPS

\* The interest in events: until establishConnection() has run there is none, and after it epoll has
\* what the handler has, of which reading is part. A backlog and EPOLLOUT go together.
Armed ==
    ~closed =>
        /\ "OUT" \in events <=> output # <<>>
        /\ state = "CONNECTING" => events = {} /\ epoll = {}
        /\ state # "CONNECTING" => "IN" \in events /\ epoll = events

\* A user in a call has seen the connection established, and one in send() has not been counted yet.
InCall ==
    /\ \A u \in Users : user[u] # "idle" => state # "CONNECTING"
    /\ \A u \in Users : sent[u] + (IF user[u] = "send" THEN 1 ELSE 0) <= calls[u]
    /\ sent[Peer] <= MaxBytes
    /\ loop = "tasks" => tasks # <<>>

Inv == TypeOK /\ InCall /\ Armed /\ FinAfterDrain

-----------------------------------------------------------------------------
(* Bytes.                                                                  *)

LEMMA ConstantsTyped ==
    MaxBytes \in Nat /\ MaxCalls \in Nat /\ SndCap \in Nat /\ SndCap > 0 /\ Peer \notin Users
BY PeerAssumption, BoundsAssumption

LEMMA PeerByte == ASSUME NEW n \in 1 .. MaxBytes PROVE <<Peer, n>> \in Bytes
<1>1. <<Peer, n>> \in {Peer} \X (1 .. IF Peer = Peer THEN MaxBytes ELSE MaxCalls) /\ Peer \in Sources
  BY DEF Sources
<1> QED
  BY <1>1 DEF Bytes

LEMMA UserByte == ASSUME NEW u \in Users, NEW n \in 1 .. MaxCalls PROVE <<u, n>> \in Bytes
<1>1. <<u, n>> \in {u} \X (1 .. IF u = Peer THEN MaxBytes ELSE MaxCalls) /\ u \in Sources
  BY ConstantsTyped DEF Sources
<1> QED
  BY <1>1 DEF Bytes

\* What the kernel takes fits into its buffer.
LEMMA TakenFits ==
    ASSUME TypeOK, NEW d \in Seq(Bytes), NEW n \in Taken(d)
    PROVE  /\ n \in 0 .. Len(d)
           /\ snd \o SubSeq(d, 1, n) \in Seq(Bytes)
           /\ SubSeq(d, n + 1, Len(d)) \in Seq(Bytes)
           /\ Len(snd \o SubSeq(d, 1, n)) <= SndCap
<1>1. n \in 0 .. Len(d) /\ (n = 0 \/ n <= SndCap - Len(snd))
  BY DEF Taken
<1>2. SubSeq(d, 1, n) \in Seq(Bytes) /\ Len(SubSeq(d, 1, n)) = n
  BY <1>1
<1>3. SubSeq(d, n + 1, Len(d)) \in Seq(Bytes)
  BY <1>1
<1>4. snd \in Seq(Bytes) /\ Len(snd) <= SndCap
  BY DEF TypeOK
<1>5. snd \o SubSeq(d, 1, n) \in Seq(Bytes) /\ Len(snd \o SubSeq(d, 1, n)) = Len(snd) + n
  BY <1>2, <1>4
<1> QED
  BY <1>1, <1>3, <1>4, <1>5, ConstantsTyped

-----------------------------------------------------------------------------
(* Operators that several steps share.                                     *)

\* sendInLoop() keeps what there is to keep, whatever it is called with.
LEMMA SendInLoopKeeps ==
    ASSUME Inv, NEW d \in Seq(Bytes), SendInLoop(d), UNCHANGED <<state, closed, fin>>
    PROVE  /\ events' \subseteq Interests /\ epoll' \subseteq Interests
           /\ output' \in Seq(Bytes) /\ snd' \in Seq(Bytes) /\ Len(snd') <= SndCap
           /\ sockErr' \in BOOLEAN
           /\ Armed' /\ FinAfterDrain'
<1>0. /\ events \subseteq Interests /\ epoll \subseteq Interests /\ output \in Seq(Bytes)
      /\ snd \in Seq(Bytes) /\ Len(snd) <= SndCap /\ sockErr \in BOOLEAN
  BY DEF Inv, TypeOK
<1>1. CASE UNCHANGED <<events, epoll, output, snd>>
  <2>1. sockErr' \in BOOLEAN
    BY <1>0 DEF SendInLoop
  <2> QED
    BY <1>0, <1>1, <2>1 DEF Inv, Armed, FinAfterDrain
<1>2. CASE ~UNCHANGED <<events, epoll, output, snd>>
  <2>1. /\ state = "CONNECTED" /\ ~(output = <<>> /\ (reset \/ fin))
        /\ UNCHANGED sockErr
    BY <1>2 DEF SendInLoop
  <2>2. PICK n \in DirectWrite(d) :
            /\ snd' = snd \o SubSeq(d, 1, n)
            /\ output' = output \o SubSeq(d, n + 1, Len(d))
            /\ events' = IF n < Len(d) THEN WithWriting ELSE events
            /\ IF events' # events THEN UpdateHandler ELSE UNCHANGED epoll
    BY <1>2, <2>1 DEF SendInLoop
  <2>3. n \in 0 .. Len(d) /\ snd' \in Seq(Bytes) /\ Len(snd') <= SndCap
    <3>1. CASE output = <<>>
      BY <2>2, <3>1, TakenFits DEF DirectWrite, Inv
    <3>2. CASE output # <<>>
      <4>1. n = 0
        BY <2>2, <3>2 DEF DirectWrite
      <4>2. SubSeq(d, 1, 0) = <<>> /\ snd \o <<>> = snd
        BY <1>0
      <4> QED
        BY <1>0, <2>2, <4>1, <4>2
    <3> QED
      BY <3>1, <3>2
  <2>4. /\ SubSeq(d, n + 1, Len(d)) \in Seq(Bytes)
        /\ Len(SubSeq(d, n + 1, Len(d))) = Len(d) - n
    BY <2>3
  <2>5. output' \in Seq(Bytes) /\ Len(output') = Len(output) + (Len(d) - n)
    BY <1>0, <2>2, <2>4
  <2>6. events' \subseteq Interests /\ epoll' \subseteq Interests
    BY <1>0, <2>2 DEF WithWriting, UpdateHandler, Interests
  <2>7. Armed'
    <3> SUFFICES ASSUME ~closed
                 PROVE  ("OUT" \in events' <=> output' # <<>>) /\ "IN" \in events' /\ epoll' = events'
      BY <2>1 DEF Armed
    <3>1. ("OUT" \in events <=> output # <<>>) /\ "IN" \in events /\ epoll = events
      BY <2>1 DEF Inv, Armed
    <3>2. "IN" \in events' /\ epoll' = events'
      BY <2>2, <3>1 DEF WithWriting, UpdateHandler
    <3>3. CASE n < Len(d)
      <4>1. output' # <<>>
        BY <1>0, <2>3, <2>5, <3>3
      <4> QED
        BY <2>2, <3>2, <3>3, <4>1 DEF WithWriting
    <3>4. CASE ~(n < Len(d))
      <4>0. Len(d) \in Nat /\ Len(output) \in Nat /\ n = Len(d)
        BY <1>0, <2>3, <3>4
      <4>1. Len(output') = Len(output)
        BY <2>5, <4>0
      <4>2. output' # <<>> <=> output # <<>>
        BY <1>0, <2>5, <4>1
      <4> QED
        BY <2>2, <3>1, <3>2, <3>4, <4>2
    <3> QED
      BY <3>3, <3>4
  <2>8. FinAfterDrain'
    BY <2>1 DEF Inv, FinAfterDrain
  <2> QED
    BY <1>0, <2>1, <2>3, <2>5, <2>6, <2>7, <2>8
<1> QED
  BY <1>1, <1>2

\* handleClose().
LEMMA HandleCloseKeeps ==
    ASSUME HandleClose
    PROVE  /\ state' = "DISCONNECTED" /\ events' \subseteq Interests /\ closed' \in BOOLEAN /\ removing' \in BOOLEAN
           /\ Armed' /\ FinAfterDrain'
BY DEF HandleClose, NoEvents, Armed, FinAfterDrain

\* The callbacks of an event.
LEMMA Singleton == ASSUME NEW S, NEW x \in S PROVE <<x>> \in Seq(S)
OBVIOUS

LEMMA CallbacksTyped == ASSUME NEW r PROVE Callbacks(r) \in Seq({"close", "error", "read", "write"})
<1> DEFINE K == {"close", "error", "read", "write"}
           e == IF "ERR" \in r THEN <<"error">> ELSE <<>>
           i == IF "IN" \in r THEN <<"read">> ELSE <<>>
           o == IF "OUT" \in r THEN <<"write">> ELSE <<>>
<1>1. <<"close">> \in Seq(K) /\ <<"error">> \in Seq(K) /\ <<"read">> \in Seq(K) /\ <<"write">> \in Seq(K)
  BY Singleton
<1> HIDE DEF K
<1>2. e \in Seq(K) /\ i \in Seq(K) /\ o \in Seq(K)
  BY <1>1
<1>3. Callbacks(r) = <<"close">> \/ Callbacks(r) = e \o i \o o
  BY DEF Callbacks
<1> HIDE DEF e, i, o
<1>4. Callbacks(r) \in Seq(K)
  <2>1. e \o i \in Seq(K)
    BY <1>2
  <2>2. (e \o i) \o o \in Seq(K)
    BY <1>2, <2>1
  <2> QED
    BY <1>1, <1>3, <2>2
<1> QED
  BY <1>4 DEF K

LEMMA InvInit == Init => Inv
<1> SUFFICES ASSUME Init PROVE Inv
  OBVIOUS
<1>1. TypeOK
  <2>1. <<Task("establish", <<>>)>> \in Seq([kind : Kinds, data : Seq(Bytes)])
    BY DEF Task, Kinds
  <2> QED
    <3>1. /\ sent \in [Sources -> Nat] /\ calls \in [Users -> 0 .. MaxCalls]
          /\ user \in [Users -> {"idle", "send", "shutdown", "forceClose", "postShutdown", "postForceClose"}]
      BY ConstantsTyped DEF Init
    <3>2. pending \in Seq([kind : Kinds, data : Seq(Bytes)])
      BY <2>1 DEF Init
    <3>3. <<>> \in Seq(Bytes) /\ Len(<<>>) <= SndCap
      BY ConstantsTyped
    <3>4. /\ state = "CONNECTING" /\ loop = "poll" /\ {closed, fin, eof, reset, sockErr, removing} = {FALSE}
          /\ events = {} /\ epoll = {}
      BY DEF Init
    <3>5. output \in Seq(Bytes) /\ rcv \in Seq(Bytes) /\ snd \in Seq(Bytes) /\ delivered \in Seq(Bytes) /\ Len(snd) <= SndCap
      BY <3>3 DEF Init
    <3>6. /\ batch \in Seq({"close", "error", "read", "write"})
          /\ tasks \in Seq([kind : Kinds, data : Seq(Bytes)])
      BY DEF Init
    <3> QED
      BY <3>1, <3>2, <3>4, <3>5, <3>6 DEF TypeOK
<1>2. InCall /\ Armed /\ FinAfterDrain
  BY ConstantsTyped DEF Init, InCall, Armed, FinAfterDrain, Sources
<1> QED
  BY <1>1, <1>2 DEF Inv

-----------------------------------------------------------------------------
(* The callbacks of the loop.                                              *)

LEMMA NextCallbackKeeps ==
    ASSUME TypeOK, NEW K, NextCallback(K)
    PROVE  batch' \in Seq({"close", "error", "read", "write"}) /\ loop = "dispatch" /\ UNCHANGED <<loop, tasks, pending>>
BY DEF NextCallback, TypeOK

LEMMA CallbackKeeps ==
    ASSUME Inv, HandleRead \/ HandleEof \/ HandleError \/ HandleWrite
    PROVE  Inv'
<1> USE DEF Inv
<1>0. /\ batch' \in Seq({"close", "error", "read", "write"}) /\ loop = "dispatch"
      /\ UNCHANGED <<loop, tasks, pending, delivered, sent, userVars>>
  BY NextCallbackKeeps DEF HandleRead, HandleEof, HandleError, HandleWrite
<1>1. CASE HandleRead
  <2>1. PICK n \in 1 .. Len(rcv) : rcv' = SubSeq(rcv, n + 1, Len(rcv)) /\ SendInLoop(SubSeq(rcv, 1, n))
    BY <1>1 DEF HandleRead, MessageCallback
  <2>2. rcv \in Seq(Bytes)
    BY DEF TypeOK
  <2>3. rcv' \in Seq(Bytes) /\ SubSeq(rcv, 1, n) \in Seq(Bytes)
    BY <2>1, <2>2
  <2>4. UNCHANGED <<state, closed, fin, eof, reset, removing>>
    BY <1>1 DEF HandleRead
  <2>5. /\ events' \subseteq Interests /\ epoll' \subseteq Interests
        /\ output' \in Seq(Bytes) /\ snd' \in Seq(Bytes) /\ Len(snd') <= SndCap
        /\ sockErr' \in BOOLEAN
        /\ Armed' /\ FinAfterDrain'
    BY <2>1, <2>3, <2>4, SendInLoopKeeps
  <2>6. TypeOK'
    BY <1>0, <2>3, <2>4, <2>5 DEF TypeOK, userVars
  <2>7. InCall'
    BY <1>0, <2>4 DEF InCall, userVars
  <2> QED
    BY <2>5, <2>6, <2>7
<1>2. CASE HandleEof
  <2>1. UNCHANGED <<output, kernelVars>> /\ HandleClose
    BY <1>2 DEF HandleEof
  <2>2. TypeOK' /\ InCall'
    BY <1>0, <2>1, HandleCloseKeeps DEF TypeOK, InCall, kernelVars, userVars
  <2> QED
    BY <2>1, <2>2, HandleCloseKeeps
<1>3. CASE HandleError
  <2>1. UNCHANGED <<connVars, epoll, rcv, snd, fin, eof, reset>> /\ sockErr' = FALSE /\ removing' = TRUE
    BY <1>3 DEF HandleError
  <2>2. TypeOK' /\ InCall'
    BY <1>0, <2>1 DEF TypeOK, InCall, connVars, userVars
  <2>3. Armed' /\ FinAfterDrain'
    BY <2>1 DEF Armed, FinAfterDrain, connVars
  <2> QED
    BY <2>2, <2>3
<1>4. CASE HandleWrite
  <2>0. UNCHANGED <<state, closed, rcv, eof, reset, removing>>
    BY <1>4 DEF HandleWrite
  <2>1. CASE "OUT" \notin events
    <3>1. UNCHANGED <<events, epoll, output, snd, fin, sockErr>>
      BY <1>4, <2>1 DEF HandleWrite
    <3> QED
      BY <1>0, <2>0, <3>1 DEF TypeOK, InCall, Armed, FinAfterDrain, userVars
  <2>2. CASE "OUT" \in events
    <3>1. PICK n \in Taken(output) :
              /\ snd' = snd \o SubSeq(output, 1, n)
              /\ output' = SubSeq(output, n + 1, Len(output))
              /\ sockErr' = (sockErr /\ n > 0)
              /\ IF output' = <<>> THEN Drained ELSE UNCHANGED <<events, epoll, fin>>
      BY <1>4, <2>2 DEF HandleWrite, AfterRetrieve
    <3>2. snd' \in Seq(Bytes) /\ output' \in Seq(Bytes) /\ Len(snd') <= SndCap
      BY <3>1, TakenFits DEF TypeOK
    <3>3. fin' \in BOOLEAN /\ events' \subseteq Interests /\ epoll' \subseteq Interests
      BY <3>1 DEF Drained, ShutdownInLoop, UpdateHandler, WithoutWriting, TypeOK
    <3>4. sockErr' \in BOOLEAN
      BY <3>1 DEF TypeOK
    <3>5. TypeOK' /\ InCall'
      BY <1>0, <2>0, <3>2, <3>3, <3>4 DEF TypeOK, InCall, userVars
    <3>6. ASSUME ~closed
          PROVE  output # <<>> /\ "IN" \in events /\ epoll = events /\ state # "CONNECTING" /\ ~fin
      BY <2>2, <3>6 DEF Armed, FinAfterDrain
    <3>7. Armed'
      BY <2>0, <2>2, <3>1, <3>6 DEF Armed, Drained, UpdateHandler, WithoutWriting
    <3>8. FinAfterDrain'
      BY <2>0, <3>1, <3>6 DEF FinAfterDrain
    <3> QED
      BY <3>5, <3>7, <3>8
  <2> QED
    BY <2>1, <2>2
<1> QED
  BY <1>1, <1>2, <1>3, <1>4

-----------------------------------------------------------------------------
(* The loop's turn and its tasks.                                          *)

LEMMA TurnKeeps == ASSUME Inv, Poll \/ SwapPending PROVE Inv'
<1> USE DEF Inv
<1>0. UNCHANGED <<connVars, kernelVars, delivered, sent, removing, userVars>>
  BY DEF Poll, SwapPending
<1>1. /\ batch' \in Seq({"close", "error", "read", "write"})
      /\ tasks' \in Seq([kind : Kinds, data : Seq(Bytes)])
      /\ pending' \in Seq([kind : Kinds, data : Seq(Bytes)])
      /\ loop' \in {"poll", "dispatch", "tasks"} /\ (loop' = "tasks" => tasks' # <<>>)
  <2>1. CASE Poll
    BY <2>1, CallbacksTyped DEF Poll, TypeOK
  <2>2. CASE SwapPending
    BY <2>2 DEF SwapPending, TypeOK
  <2> QED
    BY <2>1, <2>2
<1>2. TypeOK'
  BY <1>0, <1>1 DEF TypeOK, connVars, kernelVars, userVars
<1>3. InCall' /\ Armed' /\ FinAfterDrain'
  BY <1>0, <1>1 DEF InCall, Armed, FinAfterDrain, connVars, kernelVars, userVars
<1> QED
  BY <1>2, <1>3

LEMMA HeadTailTyped == ASSUME NEW S, NEW s \in Seq(S), s # <<>> PROVE Head(s) \in S /\ Tail(s) \in Seq(S)
OBVIOUS

LEMMA NextTaskKeeps ==
    ASSUME TypeOK, InCall, NEW k, NextTask(k)
    PROVE  /\ Head(tasks) \in [kind : Kinds, data : Seq(Bytes)]
           /\ tasks' \in Seq([kind : Kinds, data : Seq(Bytes)])
           /\ loop' \in {"poll", "dispatch", "tasks"} /\ (loop' = "tasks" => tasks' # <<>>)
           /\ UNCHANGED <<batch, pending>>
<1>1. tasks # <<>> /\ tasks \in Seq([kind : Kinds, data : Seq(Bytes)])
  BY DEF NextTask, TypeOK, InCall
<1>2. Head(tasks) \in [kind : Kinds, data : Seq(Bytes)] /\ Tail(tasks) \in Seq([kind : Kinds, data : Seq(Bytes)])
  BY <1>1, HeadTailTyped
<1>3. /\ tasks' = Tail(tasks) /\ loop' = IF Tail(tasks) = <<>> THEN "poll" ELSE "tasks"
      /\ UNCHANGED <<batch, pending>>
  BY DEF NextTask
<1> QED
  BY <1>2, <1>3

LEMMA TaskKeeps ==
    ASSUME Inv, Establish \/ SendTask \/ ShutdownTask \/ ForceCloseTask \/ DestroyTask
    PROVE  Inv'
<1> USE DEF Inv
<1>0. /\ Head(tasks) \in [kind : Kinds, data : Seq(Bytes)]
      /\ tasks' \in Seq([kind : Kinds, data : Seq(Bytes)])
      /\ loop' \in {"poll", "dispatch", "tasks"} /\ (loop' = "tasks" => tasks' # <<>>)
      /\ UNCHANGED <<batch, pending, delivered, sent, userVars>>
  BY NextTaskKeeps DEF Establish, SendTask, ShutdownTask, ForceCloseTask, DestroyTask
<1>1. CASE Establish
  <2>1. /\ state' = "CONNECTED" /\ events' = events \cup {"IN"} /\ epoll' = events'
        /\ UNCHANGED <<output, closed, rcv, snd, fin, eof, reset, sockErr, removing>>
    BY <1>1 DEF Establish, WithReading
  <2>2. TypeOK' /\ InCall'
    BY <1>0, <2>1 DEF TypeOK, InCall, userVars, Interests
  <2>3. Armed' /\ FinAfterDrain'
    BY <2>1 DEF Armed, FinAfterDrain
  <2> QED
    BY <2>2, <2>3
<1>2. CASE SendTask
  <2>1. SendInLoop(Head(tasks).data) /\ UNCHANGED <<state, closed, rcv, fin, eof, reset, removing>>
    BY <1>2 DEF SendTask
  <2>2. Head(tasks).data \in Seq(Bytes)
    BY <1>0
  <2>3. /\ events' \subseteq Interests /\ epoll' \subseteq Interests
        /\ output' \in Seq(Bytes) /\ snd' \in Seq(Bytes) /\ Len(snd') <= SndCap
        /\ sockErr' \in BOOLEAN
        /\ Armed' /\ FinAfterDrain'
    BY <2>1, <2>2, SendInLoopKeeps
  <2>4. TypeOK' /\ InCall'
    BY <1>0, <2>1, <2>3 DEF TypeOK, InCall, userVars
  <2> QED
    BY <2>3, <2>4
<1>3. CASE ShutdownTask
  <2>1. /\ fin' = (fin \/ ("OUT" \notin events /\ ~reset))
        /\ UNCHANGED <<connVars, epoll, rcv, snd, eof, reset, sockErr, removing>>
    BY <1>3 DEF ShutdownTask, ShutdownInLoop
  <2>2. TypeOK' /\ InCall'
    BY <1>0, <2>1 DEF TypeOK, InCall, connVars, userVars
  <2>3. Armed' /\ FinAfterDrain'
    BY <2>1 DEF Armed, FinAfterDrain, connVars
  <2> QED
    BY <2>2, <2>3
<1>4. CASE ForceCloseTask \/ DestroyTask
  <2>1. /\ UNCHANGED <<output, rcv, snd, fin, eof, reset, sockErr>>
        /\ epoll' \in {epoll, {}}
        /\ HandleClose \/ UNCHANGED <<connVars, removing, epoll>>
    BY <1>4 DEF ForceCloseTask, DestroyTask, kernelVars
  <2>2. CASE HandleClose
    <3>1. TypeOK' /\ InCall'
      BY <1>0, <2>1, <2>2, HandleCloseKeeps DEF TypeOK, InCall, userVars
    <3> QED
      BY <2>2, <3>1, HandleCloseKeeps
  <2>3. CASE UNCHANGED <<connVars, removing, epoll>>
    <3>1. TypeOK' /\ InCall'
      BY <1>0, <2>1, <2>3 DEF TypeOK, InCall, connVars, userVars
    <3>2. Armed' /\ FinAfterDrain'
      BY <2>1, <2>3 DEF Armed, FinAfterDrain, connVars
    <3> QED
      BY <3>1, <3>2
  <2> QED
    BY <2>1, <2>2, <2>3
<1> QED
  BY <1>1, <1>2, <1>3, <1>4

-----------------------------------------------------------------------------
(* The peer and the other threads.                                         *)

LEMMA PeerKeeps == ASSUME Inv, PeerStep PROVE Inv'
<1> USE DEF Inv
<1>0. UNCHANGED <<connVars, epoll, fin, loopVars, removing, userVars>>
  BY DEF PeerStep, PeerSends, PeerFinishes, PeerResets, PeerReceives
<1>1. Armed' /\ FinAfterDrain'
  BY <1>0 DEF Armed, FinAfterDrain, connVars
<1>2. CASE PeerSends
  <2>1. sent[Peer] \in Nat /\ sent[Peer] + 1 \in 1 .. MaxBytes
    BY <1>2, ConstantsTyped, SMTT(30) DEF PeerSends, TypeOK, Sources
  <2>2. <<Peer, sent[Peer] + 1>> \in Bytes
    BY <2>1, PeerByte
  <2>3. rcv' \in Seq(Bytes)
    BY <1>2, <2>2 DEF PeerSends, TypeOK
  <2>4. /\ sent' \in [Sources -> Nat] /\ sent'[Peer] <= MaxBytes
        /\ \A u \in Users : sent'[u] = sent[u]
    BY <1>2, <2>1, ConstantsTyped, SMTT(30) DEF PeerSends, TypeOK, Sources
  <2>5. TypeOK'
    BY <1>0, <1>2, <2>3, <2>4 DEF PeerSends, TypeOK, connVars, loopVars, userVars
  <2>6. InCall'
    BY <1>0, <2>4 DEF InCall, connVars, loopVars, userVars
  <2> QED
    BY <1>1, <2>5, <2>6
<1>3. CASE PeerFinishes \/ PeerResets
  <2>1. TypeOK' /\ InCall'
    BY <1>0, <1>3 DEF PeerFinishes, PeerResets, TypeOK, InCall, connVars, loopVars, userVars
  <2> QED
    BY <1>1, <2>1
<1>4. CASE PeerReceives
  <2>1. snd \in Seq(Bytes) /\ snd # <<>> /\ delivered \in Seq(Bytes) /\ Len(snd) <= SndCap
    BY <1>4 DEF PeerReceives, TypeOK
  <2>2. snd' = Tail(snd) /\ delivered' = Append(delivered, Head(snd))
    BY <1>4 DEF PeerReceives
  <2>3. snd' \in Seq(Bytes) /\ delivered' \in Seq(Bytes) /\ Len(snd') <= SndCap
    BY <2>1, <2>2, ConstantsTyped
  <2>4. TypeOK' /\ InCall'
    BY <1>0, <1>4, <2>3 DEF PeerReceives, TypeOK, InCall, connVars, loopVars, userVars
  <2> QED
    BY <1>1, <2>4
<1> QED
  BY <1>2, <1>3, <1>4 DEF PeerStep

LEMMA UserKeeps ==
    ASSUME Inv, RemoveConnection \/ \E u \in Users : Call(u) \/ UserStep(u)
    PROVE  Inv'
<1> USE DEF Inv
<1>0. UNCHANGED <<events, output, closed, kernelVars, delivered, loop, batch, tasks>>
  BY DEF RemoveConnection, Call, UserStep, PostSend, SetDisconnecting, PostDisconnect, connVars, loopVars
<1>1. CASE RemoveConnection
  <2>1. Task("destroy", <<>>) \in [kind : Kinds, data : Seq(Bytes)]
    BY DEF Task, Kinds
  <2>2. /\ pending' \in Seq([kind : Kinds, data : Seq(Bytes)]) /\ removing' = FALSE
        /\ UNCHANGED <<state, sent, userVars>>
    BY <1>1, <2>1 DEF RemoveConnection, TypeOK, connVars
  <2>3. TypeOK' /\ InCall'
    BY <1>0, <2>2 DEF TypeOK, InCall, kernelVars, userVars
  <2>4. Armed' /\ FinAfterDrain'
    BY <1>0, <2>2 DEF Armed, FinAfterDrain, kernelVars
  <2> QED
    BY <2>3, <2>4
<1>2. ASSUME NEW u \in Users, Call(u) PROVE Inv'
  <2>1. /\ calls' = [calls EXCEPT ![u] = @ + 1] /\ calls[u] < MaxCalls
        /\ UNCHANGED <<state, sent, pending, removing>> /\ user[u] = "idle"
    BY <1>2 DEF Call, connVars, loopVars
  <2>2. PICK p \in {"send", "shutdown", "forceClose", "idle"} :
            user' = [user EXCEPT ![u] = p] /\ (p # "idle" => state # "CONNECTING")
    BY <1>2 DEF Call
  <2>3. /\ calls \in [Users -> 0 .. MaxCalls] /\ sent \in [Sources -> Nat]
        /\ user \in [Users -> {"idle", "send", "shutdown", "forceClose", "postShutdown", "postForceClose"}]
    BY DEF TypeOK
  <2>4. calls[u] + 1 \in 0 .. MaxCalls /\ sent[u] + 1 <= calls[u] + 1
    <3>1. calls[u] \in 0 .. MaxCalls /\ sent[u] \in Nat
      BY <2>3 DEF Sources
    <3>2. sent[u] + 0 <= calls[u]
      BY <2>1 DEF InCall
    <3>3. calls[u] + 1 \in 0 .. MaxCalls
      BY <2>1, <3>1, ConstantsTyped
    <3> QED
      BY <3>1, <3>2, <3>3
  <2>5. TypeOK'
    <3>1. calls' \in [Users -> 0 .. MaxCalls]
      BY <2>1, <2>3, <2>4
    <3>2. user' \in [Users -> {"idle", "send", "shutdown", "forceClose", "postShutdown", "postForceClose"}]
      BY <2>2, <2>3
    <3> QED
      BY <1>0, <2>1, <3>1, <3>2 DEF TypeOK, kernelVars
  <2>6. InCall'
    <3>1. \A v \in Users : user'[v] # "idle" => state' # "CONNECTING"
      BY <2>1, <2>2, <2>3 DEF InCall
    <3>2. ASSUME NEW v \in Users PROVE sent'[v] + (IF user'[v] = "send" THEN 1 ELSE 0) <= calls'[v]
      <4>1. CASE v = u
        <5>1. calls'[u] = calls[u] + 1 /\ sent'[u] = sent[u] /\ sent[u] \in Nat /\ calls[u] \in Nat
          BY <2>1, <2>3 DEF Sources
        <5> QED
          BY <2>4, <4>1, <5>1
      <4>2. CASE v # u
        <5>1. calls'[v] = calls[v] /\ sent'[v] = sent[v] /\ user'[v] = user[v]
          BY <2>1, <2>2, <2>3, <4>2
        <5> QED
          BY <5>1 DEF InCall
      <4> QED
        BY <4>1, <4>2
    <3> QED
      BY <1>0, <2>1, <3>1, <3>2 DEF InCall
  <2>7. Armed' /\ FinAfterDrain'
    BY <1>0, <2>1 DEF Armed, FinAfterDrain, kernelVars
  <2> QED
    BY <2>5, <2>6, <2>7
<1>3. ASSUME NEW u \in Users, PostSend(u) PROVE Inv'
  <2>1. /\ sent' = [sent EXCEPT ![u] = @ + 1] /\ user[u] = "send"
        /\ pending' = Append(pending, Task("send", <<<<u, sent[u] + 1>>>>))
        /\ user' = [user EXCEPT ![u] = "idle"]
        /\ UNCHANGED <<state, removing, calls>>
    BY <1>3 DEF PostSend, connVars
  <2>2. /\ calls \in [Users -> 0 .. MaxCalls] /\ sent \in [Sources -> Nat]
        /\ user \in [Users -> {"idle", "send", "shutdown", "forceClose", "postShutdown", "postForceClose"}]
    BY DEF TypeOK
  <2>3. sent[u] \in Nat /\ calls[u] \in 0 .. MaxCalls /\ sent[u] + 1 <= calls[u]
    BY <2>1, <2>2 DEF InCall, Sources
  <2>4. <<u, sent[u] + 1>> \in Bytes
    <3>1. sent[u] + 1 \in 1 .. MaxCalls
      BY <2>3, ConstantsTyped
    <3> QED
      BY <3>1, UserByte
  <2>5. Task("send", <<<<u, sent[u] + 1>>>>) \in [kind : Kinds, data : Seq(Bytes)]
    BY <2>4, Singleton DEF Task, Kinds
  <2>6. pending' \in Seq([kind : Kinds, data : Seq(Bytes)])
    BY <2>1, <2>5 DEF TypeOK
  <2>7. sent' \in [Sources -> Nat]
    BY <2>1, <2>2, <2>3 DEF Sources
  <2>8. TypeOK'
    BY <1>0, <2>1, <2>2, <2>6, <2>7 DEF TypeOK, kernelVars
  <2>9. InCall'
    <3>1. \A v \in Users : user'[v] # "idle" => state' # "CONNECTING"
      BY <2>1, <2>2 DEF InCall
    <3>2. ASSUME NEW v \in Users PROVE sent'[v] + (IF user'[v] = "send" THEN 1 ELSE 0) <= calls'[v]
      BY <2>1, <2>2, <2>3 DEF InCall, Sources
    <3>3. sent'[Peer] = sent[Peer]
      BY <2>1, <2>2, ConstantsTyped DEF Sources
    <3> QED
      BY <1>0, <3>1, <3>2, <3>3 DEF InCall
  <2>10. Armed' /\ FinAfterDrain'
    BY <1>0, <2>1 DEF Armed, FinAfterDrain, kernelVars
  <2> QED
    BY <2>8, <2>9, <2>10
<1>4. ASSUME NEW u \in Users, SetDisconnecting(u) PROVE Inv'
  <2>1. /\ state' = "DISCONNECTING" /\ user[u] \in {"shutdown", "forceClose"}
        /\ UNCHANGED <<sent, pending, removing, calls>>
    BY <1>4 DEF SetDisconnecting, loopVars
  <2>2. PICK p \in {"postShutdown", "postForceClose"} : user' = [user EXCEPT ![u] = p]
    BY <1>4 DEF SetDisconnecting
  <2>3. TypeOK'
    BY <1>0, <2>1, <2>2 DEF TypeOK, kernelVars
  <2>4. InCall'
    BY <1>0, <2>1, <2>2 DEF TypeOK, InCall
  <2>5. Armed'
    BY <1>0, <2>1 DEF Armed, InCall, kernelVars
  <2>6. FinAfterDrain'
    BY <1>0 DEF FinAfterDrain, kernelVars
  <2> QED
    BY <2>3, <2>4, <2>5, <2>6
<1>5. ASSUME NEW u \in Users, PostDisconnect(u) PROVE Inv'
  <2>1. PICK k \in {"shutdown", "forceClose"} : pending' = Append(pending, Task(k, <<>>))
    BY <1>5 DEF PostDisconnect
  <2>2. user' = [user EXCEPT ![u] = "idle"] /\ UNCHANGED <<state, sent, removing, calls>>
    BY <1>5 DEF PostDisconnect, connVars
  <2>3. Task(k, <<>>) \in [kind : Kinds, data : Seq(Bytes)]
    BY DEF Task, Kinds
  <2>4. pending' \in Seq([kind : Kinds, data : Seq(Bytes)])
    BY <2>1, <2>3 DEF TypeOK
  <2>5. TypeOK'
    BY <1>0, <2>2, <2>4 DEF TypeOK, kernelVars
  <2>6. InCall'
    <3>1. \A v \in Users : user'[v] = "idle" \/ user'[v] = user[v]
      BY <2>2 DEF TypeOK
    <3>2. \A v \in Users : sent[v] \in Nat /\ calls[v] \in Nat
      BY DEF TypeOK, Sources
    <3> QED
      BY <1>0, <2>2, <3>1, <3>2 DEF InCall
  <2>7. Armed' /\ FinAfterDrain'
    BY <1>0, <2>2 DEF Armed, FinAfterDrain, kernelVars
  <2> QED
    BY <2>5, <2>6, <2>7
<1> QED
  BY <1>1, <1>2, <1>3, <1>4, <1>5 DEF UserStep

-----------------------------------------------------------------------------
LEMMA InvStep == Inv /\ [Next]_vars => Inv'
<1> SUFFICES ASSUME Inv, [Next]_vars PROVE Inv'
  OBVIOUS
<1>1. CASE UNCHANGED vars
  BY <1>1 DEF Inv, TypeOK, InCall, Armed, FinAfterDrain, vars, connVars, kernelVars, loopVars, userVars
<1>2. CASE LoopStep
  BY <1>2, TurnKeeps, CallbackKeeps, TaskKeeps DEF LoopStep
<1> QED
  BY <1>1, <1>2, PeerKeeps, UserKeeps DEF Next

LEMMA InvHolds == Spec => []Inv
BY InvInit, InvStep, PTL DEF Spec

\* The variables keep their types: the kernel's buffer is never overfilled, and each byte in it, in
\* output_buffer_ or in a task is one that somebody has handed over.
THEOREM ConnectionTypeCorrect == Spec => []TypeOK
BY InvHolds, PTL DEF Inv

\* As long as the connection is not closed, EPOLLOUT is asked for exactly while there is a backlog,
\* and epoll has the mask of the handler (sendInLoop(), handleWrite(), updateHandler()).
THEOREM BacklogIsArmed == Spec => []WriteArmed
<1>1. Inv => WriteArmed
  BY DEF Inv, Armed, WriteArmed
<1> QED
  BY <1>1, InvHolds, PTL

\* Our FIN goes out behind the backlog (shutdownInLoop(), handleWrite()).
THEOREM FinFollowsBacklog == Spec => []FinAfterDrain
BY InvHolds, PTL DEF Inv

-----------------------------------------------------------------------------
(* After the close.                                                        *)

Todo == tasks \o pending
TaskSet == [kind : Kinds, data : Seq(Bytes)]
NoEstablish == \A i \in DOMAIN Todo : Todo[i].kind # "establish"

\* establishConnection() is the first task of all, and until it has run nothing else can happen; so
\* nothing brings a connection up again.
EstablishedFirst ==
    /\ \A i \in DOMAIN Todo : Todo[i].kind = "establish" => i = 1
    /\ state # "CONNECTING" => NoEstablish
    /\ state = "CONNECTING" => ~closed /\ batch = <<>>

\* A closed connection asks for nothing and is not up, whatever a shutdown() or a forceClose() that was
\* under way has made of state_.
Silent == closed => events = {} /\ state # "CONNECTED"

\* The vector of tasks is empty between two turns.
VectorDone == loop # "tasks" => tasks = <<>>

SilentInv == EstablishedFirst /\ Silent /\ VectorDone

LEMMA TodoTyped == TypeOK => tasks \in Seq(TaskSet) /\ pending \in Seq(TaskSet) /\ Todo \in Seq(TaskSet)
<1> SUFFICES ASSUME TypeOK PROVE tasks \in Seq(TaskSet) /\ pending \in Seq(TaskSet) /\ Todo \in Seq(TaskSet)
  OBVIOUS
<1>1. tasks \in Seq(TaskSet) /\ pending \in Seq(TaskSet)
  BY DEF TypeOK, TaskSet
<1>2. ASSUME NEW S, NEW s \in Seq(S), NEW t \in Seq(S) PROVE s \o t \in Seq(S)
  OBVIOUS
<1> QED
  BY <1>1, <1>2 DEF Todo

\* What a step may do to Todo: nothing, or it takes the first task, or it posts one.
LEMMA TodoFirst ==
    ASSUME TypeOK, EstablishedFirst, tasks # <<>>, tasks' = Tail(tasks), pending' = pending
    PROVE  NoEstablish'
<1>1. ASSUME NEW s \in Seq(TaskSet), NEW t \in Seq(TaskSet), s # <<>>
      PROVE  \A i \in DOMAIN (Tail(s) \o t) : i + 1 \in DOMAIN (s \o t) /\ i + 1 # 1 /\ (Tail(s) \o t)[i] = (s \o t)[i + 1]
  BY <1>1
<1>2. \A i \in DOMAIN Todo' : i + 1 \in DOMAIN Todo /\ i + 1 # 1 /\ Todo'[i] = Todo[i + 1]
  BY <1>1, TodoTyped DEF Todo
<1> QED
  BY <1>2 DEF NoEstablish, EstablishedFirst

LEMMA TodoPosted ==
    ASSUME TypeOK, NEW task \in TaskSet, task.kind # "establish", pending' = Append(pending, task), tasks' = tasks
    PROVE  /\ NoEstablish => NoEstablish'
           /\ (\A i \in DOMAIN Todo : Todo[i].kind = "establish" => i = 1)
                => \A i \in DOMAIN Todo' : Todo'[i].kind = "establish" => i = 1
<1>1. ASSUME NEW s \in Seq(TaskSet), NEW t \in Seq(TaskSet)
      PROVE  \A i \in DOMAIN (s \o Append(t, task)) :
                \/ i \in DOMAIN (s \o t) /\ (s \o Append(t, task))[i] = (s \o t)[i]
                \/ (s \o Append(t, task))[i] = task
  <2>1. s \o Append(t, task) = Append(s \o t, task) /\ s \o t \in Seq(TaskSet)
    OBVIOUS
  <2> QED
    BY <2>1
<1>2. \A i \in DOMAIN Todo' : (i \in DOMAIN Todo /\ Todo'[i] = Todo[i]) \/ Todo'[i] = task
  BY <1>1, TodoTyped DEF Todo
<1> QED
  BY <1>2 DEF NoEstablish

LEMMA SwapLeavesTodo == ASSUME TypeOK, VectorDone, SwapPending PROVE Todo' = Todo
<1>1. ASSUME NEW s \in Seq(TaskSet) PROVE s \o <<>> = s /\ <<>> \o s = s
  OBVIOUS
<1>2. tasks = <<>> /\ tasks' = pending /\ pending' = <<>>
  BY DEF SwapPending, VectorDone
<1>3. pending \o <<>> = pending /\ <<>> \o pending = pending
  BY <1>1, TodoTyped
<1> QED
  BY <1>2, <1>3 DEF Todo

LEMMA SilentInit == Init => SilentInv
<1> SUFFICES ASSUME Init PROVE SilentInv
  OBVIOUS
<1>1. Todo = <<Task("establish", <<>>)>>
  BY DEF Init, Todo
<1> QED
  BY <1>1 DEF Init, SilentInv, EstablishedFirst, Silent, VectorDone, NoEstablish

\* Steps that leave the tasks alone.
LEMMA TasksAlone ==
    ASSUME SilentInv, Todo' = Todo, VectorDone',
           state = "CONNECTING" => UNCHANGED <<state, closed, batch>>,
           state' = "CONNECTING" => state = "CONNECTING",
           state' = "CONNECTED" => state = "CONNECTED",
           closed' => events' = {},
           closed' => state' # "CONNECTED"
    PROVE  SilentInv'
<1>1. NoEstablish' <=> NoEstablish
  BY DEF NoEstablish
<1> QED
  BY <1>1 DEF SilentInv, EstablishedFirst, Silent

\* sendInLoop() on a connection that is not up does nothing.
LEMMA SendRefused ==
    ASSUME NEW d, SendInLoop(d), state # "CONNECTED"
    PROVE  UNCHANGED <<events, epoll, output, snd, sockErr>>
BY DEF SendInLoop

LEMMA SilentCallback ==
    ASSUME Inv, SilentInv, HandleRead \/ HandleEof \/ HandleError \/ HandleWrite
    PROVE  SilentInv'
<1>1. /\ loop = "dispatch" /\ batch # <<>> /\ UNCHANGED <<loop, tasks, pending>>
  BY DEF HandleRead, HandleEof, HandleError, HandleWrite, NextCallback
<1>2. state # "CONNECTING" /\ Todo' = Todo /\ VectorDone'
  BY <1>1 DEF SilentInv, EstablishedFirst, VectorDone, Todo
<1>3. /\ state' \in {state, "DISCONNECTED"}
      /\ closed' => events' = {} /\ state' # "CONNECTED"
  <2>1. CASE HandleRead
    <3>1. UNCHANGED <<state, closed>>
      BY <2>1 DEF HandleRead
    <3>2. closed => UNCHANGED events
      BY <2>1, SendRefused DEF HandleRead, MessageCallback, SilentInv, Silent
    <3> QED
      BY <3>1, <3>2 DEF SilentInv, Silent
  <2>2. CASE HandleEof
    BY <2>2 DEF HandleEof, HandleClose, NoEvents
  <2>3. CASE HandleError
    BY <2>3 DEF HandleError, connVars, SilentInv, Silent
  <2>4. CASE HandleWrite
    <3>1. UNCHANGED <<state, closed>>
      BY <2>4 DEF HandleWrite
    <3>2. closed => UNCHANGED events
      BY <2>4 DEF HandleWrite, SilentInv, Silent
    <3> QED
      BY <3>1, <3>2 DEF SilentInv, Silent
  <2> QED
    BY <2>1, <2>2, <2>3, <2>4
<1> QED
  BY <1>2, <1>3, TasksAlone

LEMMA NoCallbacks == Callbacks({}) = <<>>
<1>1. Callbacks({}) = (<<>> \o <<>>) \o <<>>
  BY DEF Callbacks
<1>2. <<>> \o <<>> = <<>>
  OBVIOUS
<1> QED
  BY <1>1, <1>2

LEMMA SilentTurn == ASSUME Inv, SilentInv, Poll \/ SwapPending PROVE SilentInv'
<1>1. UNCHANGED <<state, events, closed>>
  BY DEF Poll, SwapPending, connVars
<1>2. CASE Poll
  <2>1. state = "CONNECTING" => batch' = <<>> /\ batch = <<>>
    <3> SUFFICES ASSUME state = "CONNECTING" PROVE batch' = <<>> /\ batch = <<>>
      OBVIOUS
    <3>1. epoll = {} /\ batch = <<>>
      BY DEF Inv, Armed, SilentInv, EstablishedFirst
    <3>2. Reported = {}
      BY <3>1 DEF Reported
    <3> QED
      BY <1>2, <3>1, <3>2, NoCallbacks DEF Poll
  <2>2. Todo' = Todo /\ VectorDone'
    BY <1>2 DEF Poll, Todo, SilentInv, VectorDone
  <2> QED
    BY <1>1, <2>1, <2>2, TasksAlone DEF SilentInv, Silent
<1>3. CASE SwapPending
  <2>1. Todo' = Todo
    BY <1>3, SwapLeavesTodo DEF Inv, SilentInv
  <2>2. VectorDone' /\ UNCHANGED batch
    BY <1>3 DEF SwapPending, VectorDone
  <2> QED
    BY <1>1, <2>1, <2>2, TasksAlone DEF SilentInv, Silent
<1> QED
  BY <1>2, <1>3

LEMMA SilentTask ==
    ASSUME Inv, SilentInv, Establish \/ SendTask \/ ShutdownTask \/ ForceCloseTask \/ DestroyTask
    PROVE  SilentInv'
<1>1. /\ loop = "tasks" /\ tasks # <<>> /\ tasks' = Tail(tasks) /\ UNCHANGED <<batch, pending>>
      /\ loop' = IF Tail(tasks) = <<>> THEN "poll" ELSE "tasks"
  BY DEF Establish, SendTask, ShutdownTask, ForceCloseTask, DestroyTask, NextTask, Inv, InCall
<1>2. NoEstablish' /\ VectorDone'
  BY <1>1, TodoFirst DEF Inv, SilentInv, VectorDone
<1>3. state = "CONNECTING" => ~closed /\ batch = <<>>
  BY DEF SilentInv, EstablishedFirst
<1>4. /\ state' = "CONNECTING" => UNCHANGED <<state, closed>>
      /\ closed' => events' = {} /\ state' # "CONNECTED"
  <2>1. CASE Establish
    <3>1. Head(tasks).kind = "establish" /\ state' = "CONNECTED" /\ UNCHANGED closed
      BY <2>1 DEF Establish, NextTask
    <3>2. ~NoEstablish
      <4>1. ASSUME NEW s \in Seq(TaskSet), NEW t \in Seq(TaskSet), s # <<>>
            PROVE  1 \in DOMAIN (s \o t) /\ (s \o t)[1] = Head(s)
        BY <4>1
      <4>2. 1 \in DOMAIN Todo /\ Todo[1] = Head(tasks)
        BY <1>1, <4>1, TodoTyped DEF Todo, Inv
      <4> QED
        BY <3>1, <4>2 DEF NoEstablish
    <3> QED
      BY <3>1, <3>2 DEF SilentInv, EstablishedFirst
  <2>2. CASE SendTask
    <3>1. UNCHANGED <<state, closed>>
      BY <2>2 DEF SendTask
    <3>2. closed => UNCHANGED events
      BY <2>2, SendRefused DEF SendTask, SilentInv, Silent
    <3> QED
      BY <3>1, <3>2 DEF SilentInv, Silent
  <2>3. CASE ShutdownTask
    BY <2>3 DEF ShutdownTask, connVars, SilentInv, Silent
  <2>4. CASE ForceCloseTask \/ DestroyTask
    <3>1. HandleClose \/ UNCHANGED connVars
      BY <2>4 DEF ForceCloseTask, DestroyTask
    <3> QED
      BY <3>1 DEF HandleClose, NoEvents, connVars, SilentInv, Silent
  <2> QED
    BY <2>1, <2>2, <2>3, <2>4
<1>5. EstablishedFirst'
  BY <1>1, <1>2, <1>3, <1>4 DEF EstablishedFirst, NoEstablish
<1> QED
  BY <1>2, <1>4, <1>5 DEF SilentInv, Silent

LEMMA SilentOthers ==
    ASSUME Inv, SilentInv, PeerStep \/ RemoveConnection \/ (\E u \in Users : Call(u) \/ UserStep(u)) \/ UNCHANGED vars
    PROVE  SilentInv'
<1>1. /\ UNCHANGED <<events, closed, loop, batch, tasks>>
      /\ UNCHANGED state \/ (state # "CONNECTING" /\ state' = "DISCONNECTING")
      /\ UNCHANGED pending \/ (UNCHANGED state /\ \E task \in TaskSet : task.kind # "establish" /\ pending' = Append(pending, task))
  <2>1. CASE PeerStep \/ UNCHANGED vars
    BY <2>1 DEF PeerStep, PeerSends, PeerFinishes, PeerResets, PeerReceives, vars, connVars, loopVars
  <2>2. CASE RemoveConnection
    <3>1. Task("destroy", <<>>) \in TaskSet /\ Task("destroy", <<>>).kind # "establish"
      BY DEF Task, TaskSet, Kinds
    <3>2. pending' = Append(pending, Task("destroy", <<>>)) /\ UNCHANGED <<state, events, closed, loop, batch, tasks>>
      BY <2>2 DEF RemoveConnection, connVars
    <3> QED
      BY <3>1, <3>2
  <2>3. ASSUME NEW u \in Users, Call(u) PROVE <1>1
    BY <2>3 DEF Call, connVars, loopVars
  <2>4. ASSUME NEW u \in Users, PostSend(u) PROVE <1>1
    <3> DEFINE task == Task("send", <<<<u, sent[u] + 1>>>>)
    <3>1. sent[u] + 1 \in 1 .. MaxCalls
      <4>1. sent[u] \in Nat /\ calls[u] \in 0 .. MaxCalls /\ sent[u] + 1 <= calls[u]
        BY <2>4 DEF PostSend, Inv, TypeOK, InCall, Sources
      <4> QED
        BY <4>1, ConstantsTyped
    <3>2. task \in TaskSet /\ task.kind # "establish"
      BY <3>1, UserByte, Singleton DEF Task, TaskSet, Kinds
    <3>3. pending' = Append(pending, task) /\ UNCHANGED <<state, events, closed, loop, batch, tasks>>
      BY <2>4 DEF PostSend, connVars
    <3> QED
      BY <3>2, <3>3
  <2>5. ASSUME NEW u \in Users, SetDisconnecting(u) PROVE <1>1
    <3>1. state # "CONNECTING"
      BY <2>5 DEF SetDisconnecting, Inv, InCall
    <3> QED
      BY <2>5, <3>1 DEF SetDisconnecting, loopVars
  <2>6. ASSUME NEW u \in Users, PostDisconnect(u) PROVE <1>1
    <3>1. PICK k \in {"shutdown", "forceClose"} : pending' = Append(pending, Task(k, <<>>))
      BY <2>6 DEF PostDisconnect
    <3>2. Task(k, <<>>) \in TaskSet /\ Task(k, <<>>).kind # "establish"
      BY DEF Task, TaskSet, Kinds
    <3>3. UNCHANGED <<state, events, closed, loop, batch, tasks>>
      BY <2>6 DEF PostDisconnect, connVars
    <3> QED
      BY <3>1, <3>2, <3>3
  <2> QED
    BY <2>1, <2>2, <2>3, <2>4, <2>5, <2>6 DEF UserStep
<1>2. VectorDone' /\ Silent'
  BY <1>1 DEF SilentInv, VectorDone, Silent
<1>3. CASE UNCHANGED pending
  <2>1. Todo' = Todo
    BY <1>1, <1>3 DEF Todo
  <2> QED
    BY <1>1, <1>2, <2>1 DEF SilentInv, EstablishedFirst, NoEstablish
<1>4. ASSUME NEW task \in TaskSet, task.kind # "establish", pending' = Append(pending, task), UNCHANGED state PROVE SilentInv'
  <2>1. /\ NoEstablish => NoEstablish'
        /\ (\A i \in DOMAIN Todo : Todo[i].kind = "establish" => i = 1)
                => \A i \in DOMAIN Todo' : Todo'[i].kind = "establish" => i = 1
    BY <1>1, <1>4, TodoPosted DEF Inv
  <2>2. EstablishedFirst'
    BY <1>1, <1>4, <2>1 DEF SilentInv, EstablishedFirst
  <2> QED
    BY <1>2, <2>2 DEF SilentInv
<1> QED
  BY <1>1, <1>3, <1>4

LEMMA SilentStep == Inv /\ SilentInv /\ [Next]_vars => SilentInv'
BY SilentCallback, SilentTurn, SilentTask, SilentOthers DEF Next, LoopStep

LEMMA ClosedStep ==
    ASSUME Inv, SilentInv, [Next]_vars, closed
    PROVE  Len(snd') <= Len(snd) /\ output' = output
<1>0. snd \in Seq(Bytes) /\ Len(snd) <= Len(snd)
  BY DEF Inv, TypeOK
<1>1. events = {} /\ state # "CONNECTED"
  BY DEF SilentInv, Silent
<1>2. CASE PeerReceives
  <2>1. snd # <<>> /\ snd' = Tail(snd) /\ UNCHANGED output
    BY <1>2 DEF PeerReceives, connVars
  <2>2. Len(Tail(snd)) <= Len(snd)
    BY <1>0, <2>1
  <2> QED
    BY <2>1, <2>2
<1>3. CASE HandleRead
  BY <1>0, <1>1, <1>3, SendRefused DEF HandleRead, MessageCallback
<1>4. CASE SendTask
  BY <1>0, <1>1, <1>4, SendRefused DEF SendTask
<1>5. CASE HandleWrite
  BY <1>0, <1>1, <1>5 DEF HandleWrite
<1>6. CASE UNCHANGED <<snd, output>>
  BY <1>0, <1>6
<1>7. \/ PeerReceives \/ HandleRead \/ SendTask \/ HandleWrite \/ UNCHANGED <<snd, output>>
  BY DEF Next, LoopStep, PeerStep, UserStep, Poll, HandleEof, HandleError, SwapPending, Establish, ShutdownTask, ForceCloseTask,
         DestroyTask, PeerSends, PeerFinishes, PeerResets, RemoveConnection, Call, PostSend, SetDisconnecting, PostDisconnect,
         HandleClose, vars, connVars, kernelVars
<1> QED
  BY <1>2, <1>3, <1>4, <1>5, <1>6, <1>7

\* After close_callback_ nothing more is written, although epoll goes on reporting the descriptor
\* (handleClose() does not call updateHandler()) and tasks of sendInLoop() may still be queued.
THEOREM ClosedWritesNothing == Spec => ClosedIsSilent
<1>1. Init => Inv /\ SilentInv
  BY InvInit, SilentInit
<1>2. Inv /\ SilentInv /\ [Next]_vars => Inv' /\ SilentInv'
  BY InvStep, SilentStep
<1>3. Inv /\ SilentInv /\ [Next]_vars => [closed => Len(snd') <= Len(snd) /\ output' = output]_vars
  BY ClosedStep
<1> QED
  BY <1>1, <1>2, <1>3, PTL DEF Spec, ClosedIsSilent
-----------------------------------------------------------------------------
(* A shutdown() that waits.                                                *)

Ending == {"shutdown", "forceClose"}
EndQueued == \E i \in DOMAIN Todo : Todo[i].kind \in Ending
EndComing == \E u \in Users : user[u] \in {"postShutdown", "postForceClose"}
Waits == state = "DISCONNECTING" /\ ~closed /\ ~reset /\ ~fin

LEMMA EndPosted ==
    ASSUME TypeOK, NEW task \in TaskSet, pending' = Append(pending, task), tasks' = tasks,
           EndQueued \/ task.kind \in Ending
    PROVE  EndQueued'
<1>1. ASSUME NEW s \in Seq(TaskSet), NEW t \in Seq(TaskSet)
      PROVE  /\ \A i \in DOMAIN (s \o t) : i \in DOMAIN (s \o Append(t, task)) /\ (s \o Append(t, task))[i] = (s \o t)[i]
             /\ \E i \in DOMAIN (s \o Append(t, task)) : (s \o Append(t, task))[i] = task
  <2>1. s \o Append(t, task) = Append(s \o t, task) /\ s \o t \in Seq(TaskSet)
    OBVIOUS
  <2>2. ASSUME NEW q \in Seq(TaskSet)
        PROVE  /\ \A i \in DOMAIN q : i \in DOMAIN Append(q, task) /\ Append(q, task)[i] = q[i]
               /\ Len(q) + 1 \in DOMAIN Append(q, task) /\ Append(q, task)[Len(q) + 1] = task
    OBVIOUS
  <2> QED
    BY <2>1, <2>2
<1>2. /\ \A i \in DOMAIN Todo : i \in DOMAIN Todo' /\ Todo'[i] = Todo[i]
      /\ \E i \in DOMAIN Todo' : Todo'[i] = task
  BY <1>1, TodoTyped DEF Todo
<1> QED
  BY <1>2 DEF EndQueued

LEMMA EndTaken ==
    ASSUME TypeOK, tasks # <<>>, tasks' = Tail(tasks), pending' = pending, EndQueued, Head(tasks).kind \notin Ending
    PROVE  EndQueued'
<1>1. ASSUME NEW s \in Seq(TaskSet), NEW t \in Seq(TaskSet), s # <<>>, NEW i \in DOMAIN (s \o t)
      PROVE  \/ (s \o t)[i] = Head(s)
             \/ i - 1 \in DOMAIN (Tail(s) \o t) /\ (Tail(s) \o t)[i - 1] = (s \o t)[i]
  BY <1>1
<1>2. PICK i \in DOMAIN Todo : Todo[i].kind \in Ending
  BY DEF EndQueued
<1>3. Todo[i] = Head(tasks) \/ (i - 1 \in DOMAIN Todo' /\ Todo'[i - 1] = Todo[i])
  BY <1>1, TodoTyped DEF Todo
<1> QED
  BY <1>2, <1>3 DEF EndQueued

LEMMA WaitsStep ==
    ASSUME Inv, SilentInv, ShutdownIsPending, [Next]_vars, Waits'
    PROVE  (output # <<>>)' \/ EndQueued' \/ EndComing'
<1>0. Waits => output # <<>> \/ EndQueued \/ EndComing
  BY DEF ShutdownIsPending, Waits, EndQueued, EndComing, Todo, Ending
<1>1. CASE UNCHANGED <<state, closed, fin, output, Todo, user>> /\ (reset => reset')
  BY <1>0, <1>1 DEF Waits, EndQueued, EndComing
<1>2. CASE Poll
  BY <1>1, <1>2 DEF Poll, connVars, kernelVars, userVars, Todo
<1>3. CASE SwapPending
  <2>1. Todo' = Todo
    BY <1>3, SwapLeavesTodo DEF Inv, SilentInv
  <2> QED
    BY <1>1, <1>3, <2>1 DEF SwapPending, connVars, kernelVars, userVars
<1>4. CASE HandleRead \/ HandleEof \/ HandleError
  <2>1. UNCHANGED <<user, Todo, fin, reset>>
    BY <1>4 DEF HandleRead, HandleEof, HandleError, NextCallback, Todo, kernelVars, userVars
  <2>2. state' = state /\ closed' = closed
    BY <1>4 DEF HandleRead, HandleEof, HandleError, HandleClose, connVars, Waits
  <2>3. output' = output
    BY <1>4, <2>2, SendRefused DEF HandleRead, HandleEof, HandleError, MessageCallback, connVars, Waits
  <2> QED
    BY <1>1, <2>1, <2>2, <2>3
<1>5. CASE HandleWrite
  <2>1. UNCHANGED <<user, Todo, reset, state, closed>>
    BY <1>5 DEF HandleWrite, NextCallback, Todo, userVars
  <2>2. CASE "OUT" \notin events
    BY <1>1, <1>5, <2>1, <2>2 DEF HandleWrite
  <2>3. CASE "OUT" \in events /\ output' = <<>>
    <3>1. events' = WithoutWriting /\ ShutdownInLoop(events')
      BY <1>5, <2>1, <2>3 DEF HandleWrite, Drained, Waits
    <3>2. fin'
      BY <2>1, <3>1 DEF ShutdownInLoop, WithoutWriting, Waits
    <3> QED
      BY <3>2 DEF Waits
  <2> QED
    BY <2>2, <2>3
<1>6. CASE Establish \/ SendTask \/ DestroyTask
  <2>1. /\ tasks # <<>> /\ tasks' = Tail(tasks) /\ pending' = pending
        /\ Head(tasks).kind \notin Ending /\ UNCHANGED <<user, fin, reset>>
    BY <1>6 DEF Establish, SendTask, DestroyTask, NextTask, Inv, InCall, Ending, userVars
  <2>2. state' = state /\ closed' = closed
    BY <1>6 DEF Establish, SendTask, DestroyTask, HandleClose, connVars, Waits
  <2>3. output' = output
    BY <1>6, <2>2, SendRefused DEF Establish, SendTask, DestroyTask, connVars, Waits
  <2>4. EndQueued => EndQueued'
    BY <2>1, EndTaken DEF Inv
  <2> QED
    BY <1>0, <2>1, <2>2, <2>3, <2>4 DEF Waits, EndComing
<1>7. CASE ShutdownTask
  <2>1. UNCHANGED <<state, closed, output, events, reset>> /\ ShutdownInLoop(events)
    BY <1>7 DEF ShutdownTask, connVars
  <2>2. "OUT" \in events
    BY <2>1 DEF ShutdownInLoop, Waits
  <2> QED
    BY <2>1, <2>2 DEF Inv, Armed, Waits
<1>8. CASE ForceCloseTask
  <2>1. HandleClose
    BY <1>8 DEF ForceCloseTask, connVars, Waits
  <2> QED
    BY <2>1 DEF HandleClose, Waits
<1>9. CASE PeerStep
  BY <1>1, <1>9 DEF PeerStep, PeerSends, PeerFinishes, PeerResets, PeerReceives, connVars, loopVars, userVars, Todo
<1>10. CASE RemoveConnection
  <2>1. Task("destroy", <<>>) \in TaskSet
    BY DEF Task, TaskSet, Kinds
  <2>2. EndQueued => EndQueued'
    BY <1>10, <2>1, EndPosted DEF RemoveConnection, Inv
  <2> QED
    BY <1>0, <1>10, <2>2 DEF RemoveConnection, connVars, kernelVars, userVars, Waits, EndComing
<1>11. ASSUME NEW u \in Users, Call(u) PROVE (output # <<>>)' \/ EndQueued' \/ EndComing'
  <2>1. UNCHANGED <<state, closed, fin, reset, output, Todo>>
    BY <1>11 DEF Call, connVars, kernelVars, loopVars, Todo
  <2>2. \A v \in Users : user[v] # "idle" => user'[v] = user[v]
    BY <1>11 DEF Call, Inv, TypeOK
  <2> QED
    BY <1>0, <2>1, <2>2 DEF Waits, EndQueued, EndComing
<1>12. ASSUME NEW u \in Users, PostSend(u) PROVE (output # <<>>)' \/ EndQueued' \/ EndComing'
  <2>1. UNCHANGED <<state, closed, fin, reset, output, tasks>> /\ user[u] = "send" /\ user' = [user EXCEPT ![u] = "idle"]
    BY <1>12 DEF PostSend, connVars, kernelVars
  <2>2. EndComing => EndComing'
    BY <2>1 DEF EndComing, Inv, TypeOK
  <2>3. Task("send", <<<<u, sent[u] + 1>>>>) \in TaskSet
    <3>1. sent[u] + 1 \in 1 .. MaxCalls
      <4>1. sent[u] \in Nat /\ calls[u] \in 0 .. MaxCalls /\ sent[u] + 1 <= calls[u]
        BY <2>1 DEF Inv, TypeOK, InCall, Sources
      <4> QED
        BY <4>1, ConstantsTyped
    <3> QED
      BY <3>1, UserByte, Singleton DEF Task, TaskSet, Kinds
  <2>4. EndQueued => EndQueued'
    BY <1>12, <2>1, <2>3, EndPosted DEF PostSend, Inv
  <2> QED
    BY <1>0, <2>1, <2>2, <2>4 DEF Waits
<1>13. ASSUME NEW u \in Users, SetDisconnecting(u) PROVE EndComing'
  BY <1>13 DEF SetDisconnecting, EndComing, Inv, TypeOK
<1>14. ASSUME NEW u \in Users, PostDisconnect(u) PROVE EndQueued'
  <2>1. PICK k \in Ending : pending' = Append(pending, Task(k, <<>>))
    BY <1>14 DEF PostDisconnect, Ending
  <2>2. Task(k, <<>>) \in TaskSet /\ Task(k, <<>>).kind \in Ending
    BY DEF Task, TaskSet, Kinds, Ending
  <2> QED
    BY <1>14, <2>1, <2>2, EndPosted DEF PostDisconnect, Inv
<1>15. CASE UNCHANGED vars
  BY <1>1, <1>15 DEF vars, connVars, kernelVars, loopVars, userVars, Todo
<1> QED
  BY <1>2, <1>3, <1>4, <1>5, <1>6, <1>7, <1>8, <1>9, <1>10, <1>11, <1>12, <1>13, <1>14, <1>15 DEF Next, LoopStep, UserStep

\* Until our FIN is out, a shutdown() waits for something that is there: a backlog, a queued task, or a thread
\* that is about to post one. It is the safety part of ShutdownSendsFin.
THEOREM ShutdownNotForgotten == Spec => []ShutdownIsPending
<1>1. Init => Inv /\ SilentInv /\ ShutdownIsPending
  BY InvInit, SilentInit DEF Init, ShutdownIsPending
<1>2. ASSUME Inv, SilentInv, ShutdownIsPending, [Next]_vars PROVE ShutdownIsPending'
  <2>1. Waits' => (output # <<>>)' \/ EndQueued' \/ EndComing'
    BY <1>2, WaitsStep
  <2> QED
    BY <2>1 DEF ShutdownIsPending, Waits, EndQueued, EndComing, Todo, Ending
<1>3. Inv /\ SilentInv /\ [Next]_vars => Inv' /\ SilentInv'
  BY InvStep, SilentStep
<1> QED
  BY <1>1, <1>2, <1>3, PTL DEF Spec
=============================================================================
