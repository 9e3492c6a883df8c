----------------------------- MODULE EtiTcpProofs -----------------------------
(***************************************************************************)
(* Proofs about the ETI over TCP server, for any number of clients, size   *)
(* of the queues and numbering of the packets.                             *)
(***************************************************************************)
EXTENDS EtiTcp, SequenceTheorems, TLAPS

\* Until Control-C, who works on the list holds the lock.
LockHeld ==
  Serving =>
    /\ mpc \in {"construct", "append", "release"} => lock = "main"
    /\ dpc \in {"send", "remove", "release"} => lock = "ds"
    /\ dpc # "dead"

\* A client is accepted once, so its connection is in the list once, or not
\* yet.
ListedOnce ==
  /\ \A i, j \in 1..Len(connections) : i # j => connections[i] # connections[j]
  /\ \A c \in Clients : peer[c] = "new" => hpc[c] = "none"
  /\ \A i \in 1..Len(connections) : hpc[connections[i]] # "none"
  /\ mpc \in {"acquire", "construct", "append"} =>
       mcur \in Clients /\ peer[mcur] # "new"
  /\ mpc \in {"acquire", "construct"} => hpc[mcur] = "none"
  /\ mpc = "append" =>
       hpc[mcur] # "none" /\ \A i \in 1..Len(connections) : connections[i] # mcur

\* The connections to be removed are in the list, before the place DataSender
\* has reached, each noted once.
FoundDead ==
  dpc \in {"send", "remove"} =>
    /\ \A i, j \in 1..Len(removeconns) : i # j => removeconns[i] # removeconns[j]
    /\ \A k \in 1..Len(removeconns) :
         \E i \in 1..Len(connections) :
           /\ connections[i] = removeconns[k]
           /\ dpc = "send" => i < di

TcpIndInv ==
  TypeOK /\ LockHeld /\ ListedOnce /\ FoundDead /\ NoneForgotten

LEMMA QueueSizeIsNat == QueueSize \in Nat
BY TcpAssumption DEF QueueSize

LEMMA Packets ==
  ASSUME NEW p \in 0..W
  PROVE  Successor(p) \in 1..W
<1>1. W \in Nat /\ W >= 1
  BY TcpAssumption
<1>2. p % W \in 0..(W - 1)
  BY <1>1
<1>3. QED
  BY <1>1, <1>2 DEF Successor

LEMMA InitTcp == Init => TcpIndInv
<1> SUFFICES ASSUME Init PROVE TcpIndInv
  OBVIOUS
<1>1. TypeOK
  <2>1. << >> \in Seq(Clients) /\ << >> \in Seq(0..W) /\ Len(<< >>) = 0
    BY EmptySeq
  <2>2. QueueSize \in Nat /\ 0 \in 0..W
    BY QueueSizeIsNat, TcpAssumption
  <2>3. queue \in [Clients -> Seq(0..W)] /\ \A c \in Clients : Len(queue[c]) <= QueueSize
    BY <2>1, <2>2 DEF Init
  <2>4. /\ hpc \in [Clients -> {"none", "start", "loop", "get", "sendall",
                              "sending", "done", "dead"}]
        /\ running \in [Clients -> BOOLEAN] /\ closed \in [Clients -> BOOLEAN]
        /\ sending \in [Clients -> 0..W] /\ last \in [Clients -> 0..W]
        /\ peer \in [Clients -> {"new", "reading", "stalled", "gone"}]
    BY <2>2 DEF Init
  <2>5. /\ connections \in Seq(Clients) /\ removeconns \in Seq(Clients)
        /\ mi \in Nat \ {0} /\ di \in Nat \ {0}
        /\ data \in 0..W /\ packets \in 0..W
    BY <2>1, <2>2 DEF Init
  <2>6. QED
    BY <2>3, <2>4, <2>5 DEF Init, TypeOK
<1>2. LockHeld /\ ListedOnce /\ FoundDead /\ NoneForgotten
  BY DEF Init, LockHeld, Serving, ListedOnce, FoundDead, NoneForgotten
<1>3. QED
  BY <1>1, <1>2 DEF TcpIndInv

\* A list without its element i has the others, in their order.
LEMMA WithoutOne ==
  ASSUME NEW S, NEW s \in Seq(S), NEW i \in 1..Len(s)
  PROVE  LET t == SubSeq(s, 1, i - 1) \o SubSeq(s, i + 1, Len(s))
         IN /\ t \in Seq(S)
            /\ Len(t) = Len(s) - 1
            /\ \A j \in 1..Len(t) : t[j] = IF j < i THEN s[j] ELSE s[j + 1]
<1> DEFINE a == SubSeq(s, 1, i - 1)
           b == SubSeq(s, i + 1, Len(s))
<1>1. Len(s) \in Nat /\ \A j \in 1..Len(s) : s[j] \in S
  BY LenProperties, ElementOfSeq
<1>2. /\ a \in Seq(S) /\ Len(a) = i - 1
      /\ \A j \in 1..(i - 1) : a[j] = s[j]
  <2>1. 1 \in Int /\ i - 1 \in Int /\ \A j \in 1..(i - 1) : s[j] \in S
    BY <1>1
  <2>2. /\ a \in Seq(S) /\ Len(a) = IF 1 <= i - 1 THEN i - 1 - 1 + 1 ELSE 0
        /\ \A j \in 1..(i - 1 - 1 + 1) : a[j] = s[1 + j - 1]
    BY <2>1, SubSeqProperties
  <2> HIDE DEF a
  <2>3. QED
    BY <1>1, <2>2
<1>3. /\ b \in Seq(S) /\ Len(b) = Len(s) - i
      /\ \A j \in 1..(Len(s) - i) : b[j] = s[i + j]
  <2>1. i + 1 \in Int /\ Len(s) \in Int /\ \A j \in (i + 1)..Len(s) : s[j] \in S
    BY <1>1
  <2>2. /\ b \in Seq(S)
        /\ Len(b) = IF i + 1 <= Len(s) THEN Len(s) - (i + 1) + 1 ELSE 0
        /\ \A j \in 1..(Len(s) - (i + 1) + 1) : b[j] = s[(i + 1) + j - 1]
    BY <2>1, SubSeqProperties
  <2> HIDE DEF b
  <2>3. QED
    BY <1>1, <2>2
<1> HIDE DEF a, b
<1>4. /\ a \o b \in Seq(S) /\ Len(a \o b) = Len(a) + Len(b)
      /\ \A j \in 1..(Len(a) + Len(b)) :
           (a \o b)[j] = IF j <= Len(a) THEN a[j] ELSE b[j - Len(a)]
  BY <1>2, <1>3, ConcatProperties
<1>5. Len(a \o b) = Len(s) - 1
  BY <1>1, <1>2, <1>3, <1>4
<1>6. ASSUME NEW j \in 1..(Len(s) - 1)
      PROVE  (a \o b)[j] = IF j < i THEN s[j] ELSE s[j + 1]
  <2>1. CASE j < i
    BY <2>1, <1>1, <1>2, <1>3, <1>4
  <2>2. CASE ~(j < i)
    <3>1. j - Len(a) \in 1..(Len(s) - i) /\ j - Len(a) = j - i + 1
      BY <2>2, <1>1, <1>2
    <3>2. (a \o b)[j] = b[j - Len(a)]
      BY <2>2, <1>1, <1>2, <1>3, <1>4
    <3>3. b[j - Len(a)] = s[i + (j - Len(a))]
      BY <3>1, <1>3
    <3>4. i + (j - Len(a)) = j + 1
      BY <3>1
    <3>5. QED
      BY <3>2, <3>3, <3>4, <2>2
  <2>3. QED
    BY <2>1, <2>2
<1>7. QED
  BY <1>4, <1>5, <1>6 DEF a, b

LEMMA AppendOne ==
  ASSUME NEW S, NEW s \in Seq(S), NEW e \in S
  PROVE  /\ Append(s, e) \in Seq(S)
         /\ Len(Append(s, e)) = Len(s) + 1
         /\ \A i \in 1..(Len(s) + 1) :
              Append(s, e)[i] = IF i <= Len(s) THEN s[i] ELSE e
OBVIOUS

LEMMA ListTypes ==
  ASSUME TypeOK
  PROVE  /\ Len(connections) \in Nat /\ Len(removeconns) \in Nat
         /\ \A i \in 1..Len(connections) : connections[i] \in Clients
         /\ \A i \in 1..Len(removeconns) : removeconns[i] \in Clients
BY LenProperties, ElementOfSeq DEF TypeOK

----------------------------------------------------------------------------
(* Types. *)

LEMMA TypeMain ==
  ASSUME TypeOK, ListedOnce, Main \/ Interrupt
  PROVE  TypeOK'
<1>1. CASE \E c \in Clients : Accept(c)
  BY <1>1 DEF Accept, dsVars, handlerVars, TypeOK
<1>2. CASE NewConnection
  <2>1. mcur \in Clients
    BY <1>2 DEF NewConnection, ListedOnce
  <2>2. QED
    BY <1>2, <2>1 DEF NewConnection, dsVars, peerVars, TypeOK
<1>3. CASE AppendConnection
  <2>1. mcur \in Clients
    BY <1>3 DEF AppendConnection, ListedOnce
  <2>2. connections' \in Seq(Clients)
    BY <1>3, <2>1, AppendOne DEF AppendConnection, TypeOK
  <2>3. QED
    BY <1>3, <2>2 DEF AppendConnection, dsVars, handlerVars, peerVars, TypeOK
<1>4. CASE TerminateNext
  <2>1. CASE mi <= Len(connections)
    <3>1. mi + 1 \in Nat \ {0}
      BY DEF TypeOK
    <3>2. QED
      BY <1>4, <2>1, <3>1
      DEF TerminateNext, Terminate, dsVars, handlerVars, peerVars, TypeOK
  <2>2. CASE ~(mi <= Len(connections))
    BY <1>4, <2>2
    DEF TerminateNext, dsVars, handlerVars, peerVars, TypeOK
  <2>3. QED
    BY <2>1, <2>2
<1>5. CASE JoinNext
  <2>1. CASE mi <= Len(connections)
    <3>1. connections[mi] \in Clients
      BY <2>1, ListTypes DEF TypeOK
    <3>2. QED
      BY <1>5, <2>1, <3>1 DEF JoinNext, dsVars, handlerVars, peerVars, TypeOK
  <2>2. CASE ~(mi <= Len(connections))
    BY <1>5, <2>2 DEF JoinNext, dsVars, handlerVars, peerVars, TypeOK
  <2>3. QED
    BY <2>1, <2>2
<1>6. CASE Joined
  <2>1. mi + 1 \in Nat \ {0}
    BY DEF TypeOK
  <2>2. QED
    BY <1>6, <2>1 DEF Joined, dsVars, handlerVars, peerVars, TypeOK
<1>7. CASE AcquireLock \/ ReleaseLock \/ Interrupt
  BY <1>7 DEF AcquireLock, ReleaseLock, Interrupt, dsVars, handlerVars, peerVars,
              TypeOK
<1>8. CASE Unlock \/ JoinedDataSender
  BY <1>8 DEF Unlock, JoinedDataSender, dsVars, handlerVars, peerVars, TypeOK
<1>9. QED
  BY <1>1, <1>2, <1>3, <1>4, <1>5, <1>6, <1>7, <1>8 DEF Main

LEMMA TypeSend ==
  ASSUME TypeOK, SendNext
  PROVE  TypeOK'
<1> USE DEF SendNext, mainVars, handlerVars, peerVars
<1>1. CASE ~(di <= Len(connections))
  BY <1>1 DEF TypeOK
<1>2. CASE di <= Len(connections)
  <2> DEFINE c == connections[di]
  <2>1. /\ c \in Clients /\ Send(c) /\ di' = di + 1 /\ dpc' = dpc
        /\ di + 1 \in Nat \ {0}
    BY <1>2, ListTypes DEF TypeOK
  <2> HIDE DEF c
  <2>2. CASE ~running[c]
    <3>0. removeconns' = Append(removeconns, c) /\ removeconns \in Seq(Clients)
      BY <2>1, <2>2 DEF Send, TypeOK
    <3>1. removeconns' \in Seq(Clients)
      BY <2>1, <3>0, AppendOne
    <3>2. QED
      BY <2>1, <2>2, <3>1 DEF Send, TypeOK
  <2>3. CASE running[c] /\ Len(queue[c]) < QueueSize
    <3>1. queue' = [queue EXCEPT ![c] = Append(queue[c], data)]
      BY <2>1, <2>3 DEF Send
    <3>2. queue[c] \in Seq(0..W) /\ data \in 0..W
      BY <2>1 DEF TypeOK
    <3>3. /\ Append(queue[c], data) \in Seq(0..W)
          /\ Len(Append(queue[c], data)) = Len(queue[c]) + 1
          /\ Len(queue[c]) \in Nat
      BY <3>2, AppendOne, LenProperties
    <3>4. Len(Append(queue[c], data)) <= QueueSize
      BY <2>3, <3>3, QueueSizeIsNat
    <3>5. /\ queue' \in [Clients -> Seq(0..W)]
          /\ \A x \in Clients : Len(queue'[x]) <= QueueSize
      BY <3>1, <3>3, <3>4 DEF TypeOK
    <3>6. QED
      BY <2>1, <2>3, <3>5 DEF Send, TypeOK
  <2>4. CASE running[c] /\ ~(Len(queue[c]) < QueueSize)
    BY <2>1, <2>4 DEF Send, Terminate, TypeOK
  <2>5. QED
    BY <2>2, <2>3, <2>4
<1>3. QED
  BY <1>1, <1>2

LEMMA TypeRemove ==
  ASSUME TypeOK, RemoveNext
  PROVE  TypeOK'
<1> USE DEF RemoveNext, mainVars, handlerVars, peerVars
<1>1. CASE removeconns = << >>
  BY <1>1 DEF TypeOK
<1>2. CASE removeconns # << >>
  <2> DEFINE c == Head(removeconns)
  <2>1. c \in Clients /\ Tail(removeconns) \in Seq(Clients)
    BY <1>2, HeadTailProperties DEF TypeOK
  <2>2. Terminate(c) /\ RemoveFromList(c)
    BY <1>2
  <2> HIDE DEF c
  <2>3. connections' \in Seq(Clients) /\ removeconns' \in Seq(Clients)
        /\ dpc' \in {"remove", "dead"}
    <3>1. CASE \A i \in 1..Len(connections) : connections[i] # c
      BY <1>2, <2>2, <3>1 DEF RemoveFromList, TypeOK
    <3>2. CASE ~\A i \in 1..Len(connections) : connections[i] # c
      <4>1. PICK i \in 1..Len(connections) :
                 connections' = SubSeq(connections, 1, i - 1)
                                  \o SubSeq(connections, i + 1, Len(connections))
        BY <2>2, <3>2 DEF RemoveFromList
      <4>2. connections' \in Seq(Clients)
        BY <4>1, WithoutOne DEF TypeOK
      <4>3. removeconns' = Tail(removeconns) /\ dpc' = dpc
        BY <2>2, <3>2 DEF RemoveFromList, c
      <4>4. QED
        BY <1>2, <2>1, <4>2, <4>3
    <3>3. QED
      BY <3>1, <3>2
  <2>4. running' \in [Clients -> BOOLEAN] /\ closed' \in [Clients -> BOOLEAN]
    BY <2>1, <2>2 DEF Terminate, TypeOK
  <2>5. QED
    BY <2>3, <2>4 DEF TypeOK
<1>3. QED
  BY <1>1, <1>2

LEMMA TypeDataSender ==
  ASSUME TypeOK, DataSender
  PROVE  TypeOK'
<1>1. CASE ReadStdin
  <2>1. Successor(packets) \in 0..W /\ 0 \in 0..W
    <3>1. Successor(packets) \in 1..W
      BY Packets DEF TypeOK
    <3>2. QED
      BY <3>1, TcpAssumption
  <2>2. /\ dpc' \in {"acquire", "done"} /\ eof' \in BOOLEAN
        /\ packets' \in 0..W /\ data' \in 0..W
    <3>1. CASE ds_running
      <4>1. /\ dpc' = "acquire" /\ eof' \in BOOLEAN
            /\ packets' = IF eof' THEN packets ELSE Successor(packets)
            /\ data' = IF eof' THEN 0 ELSE packets'
        BY <1>1, <3>1, TcpAssumption DEF ReadStdin, TypeOK
      <4>2. packets' \in 0..W
        BY <4>1, <2>1 DEF TypeOK
      <4>3. QED
        BY <4>1, <4>2, <2>1
    <3>2. CASE ~ds_running
      BY <1>1, <3>2 DEF ReadStdin, TypeOK
    <3>3. QED
      BY <3>1, <3>2
  <2>3. UNCHANGED <<connections, lock, mainVars, di, removeconns, ds_running,
                    handlerVars, running, closed, queue, peerVars>>
    BY <1>1 DEF ReadStdin
  <2>4. QED
    BY <2>2, <2>3 DEF mainVars, handlerVars, peerVars, TypeOK
<1>2. CASE DsAcquire
  <2>1. << >> \in Seq(Clients) /\ 1 \in Nat \ {0}
    BY EmptySeq
  <2>2. QED
    BY <1>2, <2>1 DEF DsAcquire, mainVars, handlerVars, peerVars, TypeOK
<1>3. CASE DsRelease
  BY <1>3 DEF DsRelease, mainVars, handlerVars, peerVars, TypeOK
<1>4. QED
  BY <1>1, <1>2, <1>3, TypeSend, TypeRemove DEF DataSender

LEMMA TypeHandler ==
  ASSUME TypeOK, NEW c \in Clients, Handler(c)
  PROVE  TypeOK'
<1> USE DEF mainVars, dsVars, peerVars
<1>0. CASE HandlerStart(c)
  <2>1. hpc' \in [Clients -> {"none", "start", "loop", "get", "sendall",
                              "sending", "done", "dead"}]
    BY <1>0 DEF HandlerStart, TypeOK
  <2>2. QED
    BY <1>0, <2>1 DEF HandlerStart, TypeOK
<1>1. CASE HandlerLoop(c)
  <2>1. CASE running[c]
    BY <1>1, <2>1 DEF HandlerLoop, TypeOK
  <2>2. CASE ~running[c]
    BY <1>1, <2>2 DEF HandlerLoop, TypeOK
  <2>3. QED
    BY <2>1, <2>2
<1>2. CASE HandlerGet(c)
  <2>1. queue[c] \in Seq(0..W) /\ queue[c] # << >> /\ Len(queue[c]) <= QueueSize
    BY <1>2 DEF HandlerGet, TypeOK
  <2>2. /\ Head(queue[c]) \in 0..W /\ Tail(queue[c]) \in Seq(0..W)
        /\ Len(Tail(queue[c])) = Len(queue[c]) - 1 /\ Len(queue[c]) \in Nat
    BY <2>1, HeadTailProperties, LenProperties
  <2>3. Len(Tail(queue[c])) <= QueueSize
    BY <2>1, <2>2, QueueSizeIsNat
  <2>4. /\ queue' = [queue EXCEPT ![c] = Tail(queue[c])]
        /\ sending' = [sending EXCEPT ![c] = Head(queue[c])]
        /\ hpc' = [hpc EXCEPT ![c] = "sendall"]
    BY <1>2 DEF HandlerGet
  <2>5. /\ queue' \in [Clients -> Seq(0..W)]
        /\ \A x \in Clients : Len(queue'[x]) <= QueueSize
    BY <2>2, <2>3, <2>4 DEF TypeOK
  <2>6. sending' \in [Clients -> 0..W]
    BY <2>2, <2>4 DEF TypeOK
  <2>7. QED
    BY <1>2, <2>4, <2>5, <2>6 DEF HandlerGet, TypeOK
<1>3. CASE HandlerSendAll(c)
  BY <1>3 DEF HandlerSendAll, TypeOK
<1>4. CASE HandlerSent(c)
  <2>1. last' \in [Clients -> 0..W]
    BY <1>4 DEF HandlerSent, TypeOK
  <2>2. QED
    BY <1>4, <2>1 DEF HandlerSent, TypeOK
<1>5. CASE HandlerSendFails(c)
  BY <1>5 DEF HandlerSendFails, TypeOK
<1>6. QED
  BY <1>0, <1>1, <1>2, <1>3, <1>4, <1>5 DEF Handler

LEMMA TypePeer ==
  ASSUME TypeOK, NEW c \in Clients, Stall(c) \/ ReadOn(c) \/ Leave(c)
  PROVE  TypeOK'
<1>1. /\ peer' \in [Clients -> {"new", "reading", "stalled", "gone"}]
      /\ UNCHANGED <<connections, lock, mainVars, dsVars, ds_running, handlerVars,
                     running, closed, queue, last>>
  <2>1. CASE Stall(c)
    BY <2>1 DEF Stall, PeerStep, TypeOK
  <2>2. CASE ReadOn(c)
    BY <2>2 DEF ReadOn, PeerStep, TypeOK
  <2>3. CASE Leave(c)
    BY <2>3 DEF Leave, PeerStep, TypeOK
  <2>4. QED
    BY <2>1, <2>2, <2>3
<1>2. QED
  BY <1>1 DEF mainVars, dsVars, handlerVars, TypeOK

----------------------------------------------------------------------------
(* The lock, the list, and who is in it. *)

\* The threads that serve a client, and the clients: a handler once started
\* exists for good, and they only ever stop running.
LEMMA OthersKeep ==
  ASSUME TcpIndInv, NEW c \in Clients,
         Handler(c) \/ Stall(c) \/ ReadOn(c) \/ Leave(c)
  PROVE  LockHeld' /\ ListedOnce' /\ FoundDead' /\ NoneForgotten'
<1>1. /\ UNCHANGED <<connections, lock, mpc, mcur, dpc, di, removeconns>>
      /\ \A x \in Clients : (hpc'[x] = "none" <=> hpc[x] = "none")
      /\ \A x \in Clients : (peer'[x] = "new" <=> peer[x] = "new")
      /\ \A x \in Clients : running'[x] => running[x]
  <2> TypeOK
    BY DEF TcpIndInv
  <2> USE DEF mainVars, dsVars, handlerVars, peerVars, TypeOK
  <2>1. CASE HandlerStart(c)
    BY <2>1 DEF HandlerStart
  <2>2. CASE HandlerLoop(c)
    BY <2>2 DEF HandlerLoop
  <2>3. CASE HandlerGet(c)
    BY <2>3 DEF HandlerGet
  <2>4. CASE HandlerSendAll(c)
    BY <2>4 DEF HandlerSendAll
  <2>5. CASE HandlerSent(c)
    BY <2>5 DEF HandlerSent
  <2>6. CASE HandlerSendFails(c)
    BY <2>6 DEF HandlerSendFails
  <2>7. CASE Stall(c)
    BY <2>7 DEF Stall, PeerStep
  <2>8. CASE ReadOn(c)
    BY <2>8 DEF ReadOn, PeerStep
  <2>9. CASE Leave(c)
    BY <2>9 DEF Leave, PeerStep
  <2>10. QED
    BY <2>1, <2>2, <2>3, <2>4, <2>5, <2>6, <2>7, <2>8, <2>9 DEF Handler
<1>2. LockHeld'
  BY <1>1 DEF TcpIndInv, LockHeld, Serving
<1>3. ListedOnce'
  <2>1. \A i \in 1..Len(connections) : connections[i] \in Clients
    BY ListTypes DEF TcpIndInv
  <2>2. QED
    BY <1>1, <2>1 DEF TcpIndInv, ListedOnce
<1>4. FoundDead'
  BY <1>1 DEF TcpIndInv, FoundDead
<1>5. NoneForgotten'
  BY <1>1 DEF TcpIndInv, NoneForgotten, Serving, Connected
<1>6. QED
  BY <1>2, <1>3, <1>4, <1>5

LEMMA MainKeeps ==
  ASSUME TcpIndInv, Main \/ Interrupt
  PROVE  LockHeld' /\ ListedOnce' /\ FoundDead' /\ NoneForgotten'
<1> USE DEF dsVars, handlerVars, peerVars
<1> TypeOK
  BY DEF TcpIndInv
<1>1. CASE \E c \in Clients : Accept(c)
  <2>1. PICK c \in Clients : Accept(c)
    BY <1>1
  <2>2. /\ peer[c] = "new" /\ peer' = [peer EXCEPT ![c] = "reading"]
        /\ mpc = "accept" /\ mpc' = "acquire" /\ mcur' = c
        /\ UNCHANGED <<connections, lock, dpc, di, removeconns, hpc, running>>
    BY <2>1 DEF Accept
  <2>3. LockHeld' /\ FoundDead'
    BY <2>2 DEF TcpIndInv, LockHeld, FoundDead, Serving
  <2>4. ListedOnce'
    BY <2>2 DEF TcpIndInv, ListedOnce, TypeOK
  <2>5. NoneForgotten'
    BY <2>2 DEF TcpIndInv, NoneForgotten, Serving, Connected
  <2>6. QED
    BY <2>3, <2>4, <2>5
<1>2. CASE AcquireLock \/ ReleaseLock
  <2>1. UNCHANGED <<connections, mcur, dpc, di, removeconns, hpc, running, peer>>
    BY <1>2 DEF AcquireLock, ReleaseLock
  <2>2. LockHeld'
    BY <1>2, TcpAssumption DEF AcquireLock, ReleaseLock, TcpIndInv, LockHeld, Serving
  <2>3. ListedOnce'
    BY <1>2, <2>1 DEF AcquireLock, ReleaseLock, TcpIndInv, ListedOnce
  <2>4. FoundDead'
    BY <2>1 DEF TcpIndInv, FoundDead
  <2>5. NoneForgotten'
    BY <1>2, <2>1
    DEF AcquireLock, ReleaseLock, TcpIndInv, NoneForgotten, Serving, Connected
  <2>6. QED
    BY <2>2, <2>3, <2>4, <2>5
<1>3. CASE NewConnection
  <2>1. /\ mpc = "construct" /\ mpc' = "append" /\ mcur \in Clients
        /\ hpc[mcur] = "none" /\ peer[mcur] # "new"
        /\ hpc' = [hpc EXCEPT ![mcur] = "start"]
        /\ running' = [running EXCEPT ![mcur] = TRUE]
        /\ UNCHANGED <<connections, lock, mcur, dpc, di, removeconns, peer>>
    BY <1>3 DEF NewConnection, TcpIndInv, ListedOnce
  <2>2. LockHeld' /\ FoundDead'
    BY <2>1 DEF TcpIndInv, LockHeld, FoundDead, Serving
  <2>3. \A x \in Clients \ {mcur} : hpc'[x] = hpc[x] /\ running'[x] = running[x]
    BY <2>1 DEF TypeOK
  <2>4. hpc'[mcur] = "start"
    BY <2>1 DEF TypeOK
  <2>5. \A i \in 1..Len(connections) :
          connections[i] \in Clients /\ connections[i] # mcur
    BY <2>1, ListTypes DEF TcpIndInv, ListedOnce
  <2>6. ListedOnce'
    BY <2>1, <2>3, <2>4, <2>5 DEF TcpIndInv, ListedOnce
  <2>7. NoneForgotten'
    BY <2>1, <2>3 DEF TcpIndInv, NoneForgotten, Serving, Connected
  <2>8. QED
    BY <2>2, <2>6, <2>7
<1>4. CASE AppendConnection
  <2>1. /\ mpc = "append" /\ mpc' = "release" /\ mcur \in Clients
        /\ connections' = Append(connections, mcur)
        /\ hpc[mcur] # "none" /\ peer[mcur] # "new"
        /\ \A i \in 1..Len(connections) : connections[i] # mcur
        /\ UNCHANGED <<lock, mcur, dpc, di, removeconns, hpc, running, peer>>
    BY <1>4 DEF AppendConnection, TcpIndInv, ListedOnce
  <2>2. LockHeld' /\ dpc \notin {"send", "remove"}
    BY <2>1 DEF TcpIndInv, LockHeld, Serving
  <2>3. FoundDead'
    BY <2>1, <2>2 DEF FoundDead
  <2>4. /\ Len(connections) \in Nat
        /\ Len(connections') = Len(connections) + 1
        /\ \A i \in 1..(Len(connections) + 1) :
             connections'[i] = IF i <= Len(connections) THEN connections[i] ELSE mcur
    BY <2>1, AppendOne, ListTypes DEF TypeOK
  <2>5. \A i, j \in 1..Len(connections') : i # j => connections'[i] # connections'[j]
    <3> SUFFICES ASSUME NEW i \in 1..Len(connections'),
                        NEW j \in 1..Len(connections'), i # j
                 PROVE  connections'[i] # connections'[j]
      OBVIOUS
    <3>1. CASE i <= Len(connections) /\ j <= Len(connections)
      BY <2>4, <3>1 DEF TcpIndInv, ListedOnce
    <3>2. CASE i <= Len(connections) /\ ~(j <= Len(connections))
      BY <2>1, <2>4, <3>2
    <3>3. CASE ~(i <= Len(connections)) /\ j <= Len(connections)
      BY <2>1, <2>4, <3>3
    <3>4. CASE ~(i <= Len(connections)) /\ ~(j <= Len(connections))
      BY <2>4, <3>4
    <3>5. QED
      BY <3>1, <3>2, <3>3, <3>4
  <2>6. \A i \in 1..Len(connections') : hpc[connections'[i]] # "none"
    BY <2>1, <2>4 DEF TcpIndInv, ListedOnce
  <2>7. ListedOnce'
    BY <2>1, <2>5, <2>6 DEF TcpIndInv, ListedOnce
  <2>8. NoneForgotten'
    <3> SUFFICES ASSUME NEW x \in Clients, running[x]
                 PROVE  Connected(x)'
      BY <2>1 DEF NoneForgotten
    <3>1. CASE x = mcur
      <4>1. connections'[Len(connections) + 1] = x /\ Len(connections) + 1 \in 1..Len(connections')
        BY <2>4, <3>1
      <4>2. QED
        BY <4>1 DEF Connected
    <3>2. CASE x # mcur
      <4>1. Connected(x)
        BY <2>1, <3>2 DEF TcpIndInv, NoneForgotten, Serving
      <4>2. PICK i \in 1..Len(connections) : connections[i] = x
        BY <4>1 DEF Connected
      <4>3. i \in 1..Len(connections') /\ connections'[i] = x
        BY <2>4, <4>2
      <4>4. QED
        BY <4>3 DEF Connected
    <3>3. QED
      BY <3>1, <3>2
  <2>9. QED
    BY <2>2, <2>3, <2>7, <2>8
<1>5. CASE Interrupt \/ Unlock \/ TerminateNext \/ JoinNext \/ Joined \/ JoinedDataSender
  <2>1. /\ mpc' \notin {"accept", "acquire", "construct", "append", "release"}
        /\ UNCHANGED <<connections, dpc, di, removeconns, hpc, peer>>
    BY <1>5 DEF Interrupt, Unlock, TerminateNext, JoinNext, Joined, JoinedDataSender
  <2>2. LockHeld' /\ NoneForgotten'
    BY <2>1 DEF LockHeld, NoneForgotten, Serving
  <2>3. ListedOnce'
    BY <2>1 DEF TcpIndInv, ListedOnce
  <2>4. FoundDead'
    BY <2>1 DEF TcpIndInv, FoundDead
  <2>5. QED
    BY <2>2, <2>3, <2>4
<1>6. QED
  BY <1>1, <1>2, <1>3, <1>4, <1>5 DEF Main

\* A connection found terminated has not been noted before: those noted come
\* before it in the list.
LEMMA SendKeeps ==
  ASSUME TcpIndInv, SendNext
  PROVE  LockHeld' /\ ListedOnce' /\ FoundDead' /\ NoneForgotten'
<1> USE DEF mainVars, handlerVars, peerVars
<1> TypeOK
  BY DEF TcpIndInv
<1>1. /\ dpc = "send" /\ dpc' \in {"send", "remove"}
      /\ UNCHANGED <<connections, lock, mpc, mcur, hpc, peer>>
  BY DEF SendNext
<1>2. LockHeld'
  BY <1>1 DEF TcpIndInv, LockHeld, Serving
<1>3. ListedOnce'
  BY <1>1 DEF TcpIndInv, ListedOnce
<1>4. FoundDead' /\ NoneForgotten'
  <2>1. CASE ~(di <= Len(connections))
    <3>1. UNCHANGED <<removeconns, running>> /\ dpc' = "remove"
      BY <2>1 DEF SendNext
    <3>2. QED
      BY <1>1, <3>1 DEF TcpIndInv, FoundDead, NoneForgotten, Serving, Connected
  <2>2. CASE di <= Len(connections)
    <3> DEFINE c == connections[di]
    <3>1. /\ c \in Clients /\ Send(c) /\ di' = di + 1 /\ dpc' = dpc
          /\ di \in 1..Len(connections)
      BY <2>2, ListTypes DEF SendNext, TypeOK
    <3>2. CASE running[c]
      <4>1. removeconns' = removeconns /\ \A x \in Clients : running'[x] => running[x]
        BY <3>1, <3>2 DEF Send, Terminate, TypeOK
      <4>2. FoundDead'
        BY <1>1, <3>1, <4>1 DEF TcpIndInv, FoundDead
      <4>3. QED
        BY <1>1, <4>1, <4>2 DEF TcpIndInv, NoneForgotten, Serving, Connected
    <3>3. CASE ~running[c]
      <4>1. removeconns' = Append(removeconns, c) /\ running' = running
        BY <3>1, <3>3 DEF Send
      <4>2. /\ Len(removeconns) \in Nat
            /\ Len(removeconns') = Len(removeconns) + 1
            /\ \A k \in 1..(Len(removeconns) + 1) :
                 removeconns'[k] = IF k <= Len(removeconns) THEN removeconns[k] ELSE c
        BY <3>1, <4>1, AppendOne, ListTypes DEF TypeOK
      <4>3. \A k \in 1..Len(removeconns) :
              \E i \in 1..Len(connections) : connections[i] = removeconns[k] /\ i < di
        BY <1>1 DEF TcpIndInv, FoundDead
      <4>4. \A k \in 1..Len(removeconns) : removeconns[k] # c
        <5> SUFFICES ASSUME NEW k \in 1..Len(removeconns)
                     PROVE  removeconns[k] # c
          OBVIOUS
        <5>1. PICK i \in 1..Len(connections) : connections[i] = removeconns[k] /\ i < di
          BY <4>3
        <5>2. i # di
          BY <5>1 DEF TypeOK
        <5>3. connections[i] # connections[di]
          BY <3>1, <5>2 DEF TcpIndInv, ListedOnce
        <5>4. QED
          BY <5>1, <5>3
      <4> HIDE DEF c
      <4>5. \A i, j \in 1..Len(removeconns') : i # j => removeconns'[i] # removeconns'[j]
        <5> SUFFICES ASSUME NEW i \in 1..Len(removeconns'),
                            NEW j \in 1..Len(removeconns'), i # j
                     PROVE  removeconns'[i] # removeconns'[j]
          OBVIOUS
        <5>1. CASE i <= Len(removeconns) /\ j <= Len(removeconns)
          BY <1>1, <4>2, <5>1 DEF TcpIndInv, FoundDead
        <5>2. CASE i <= Len(removeconns) /\ ~(j <= Len(removeconns))
          BY <4>2, <4>4, <5>2
        <5>3. CASE ~(i <= Len(removeconns)) /\ j <= Len(removeconns)
          BY <4>2, <4>4, <5>3
        <5>4. CASE ~(i <= Len(removeconns)) /\ ~(j <= Len(removeconns))
          BY <4>2, <5>4
        <5>5. QED
          BY <5>1, <5>2, <5>3, <5>4
      <4>6. ASSUME NEW k \in 1..Len(removeconns')
            PROVE  \E i \in 1..Len(connections) :
                     connections[i] = removeconns'[k] /\ i < di'
        <5>1. CASE k <= Len(removeconns)
          <6>1. PICK i \in 1..Len(connections) : connections[i] = removeconns[k] /\ i < di
            BY <4>2, <4>3, <5>1
          <6>2. i < di'
            BY <3>1, <6>1 DEF TypeOK
          <6>3. removeconns'[k] = removeconns[k]
            BY <4>2, <5>1
          <6>4. QED
            BY <6>1, <6>2, <6>3
        <5>2. CASE ~(k <= Len(removeconns))
          <6>1. removeconns'[k] = connections[di]
            BY <4>2, <5>2 DEF c
          <6>2. di < di'
            BY <3>1 DEF TypeOK
          <6>3. QED
            BY <3>1, <6>1, <6>2
        <5>3. QED
          BY <5>1, <5>2
      <4>7. FoundDead'
        BY <1>1, <4>5, <4>6 DEF FoundDead
      <4>8. QED
        BY <1>1, <4>1, <4>7 DEF TcpIndInv, NoneForgotten, Serving, Connected
    <3>4. QED
      BY <3>2, <3>3
  <2>3. QED
    BY <2>1, <2>2
<1>5. QED
  BY <1>2, <1>3, <1>4

LEMMA RemoveKeeps ==
  ASSUME TcpIndInv, RemoveNext
  PROVE  LockHeld' /\ ListedOnce' /\ FoundDead' /\ NoneForgotten'
<1> USE DEF mainVars, handlerVars, peerVars
<1> TypeOK
  BY DEF TcpIndInv
<1>1. dpc = "remove" /\ UNCHANGED <<lock, mpc, mcur, di, hpc, peer>>
  BY DEF RemoveNext
<1>2. CASE removeconns = << >>
  <2>1. dpc' = "release" /\ UNCHANGED <<connections, removeconns, running>>
    BY <1>2 DEF RemoveNext
  <2>2. QED
    BY <1>1, <2>1
    DEF TcpIndInv, LockHeld, ListedOnce, FoundDead, NoneForgotten, Serving, Connected
<1>3. CASE removeconns # << >>
  <2> DEFINE c == Head(removeconns)
  <2>1. /\ c \in Clients /\ c = removeconns[1] /\ Len(removeconns) \in Nat
        /\ 1 \in 1..Len(removeconns)
        /\ Tail(removeconns) \in Seq(Clients)
        /\ Len(Tail(removeconns)) = Len(removeconns) - 1
        /\ \A k \in 1..(Len(removeconns) - 1) :
             Tail(removeconns)[k] = removeconns[k + 1]
    BY <1>3, HeadTailProperties, ListTypes DEF TypeOK
  <2>2. Terminate(c) /\ RemoveFromList(c)
    BY <1>3 DEF RemoveNext
  <2>3. \E i \in 1..Len(connections) : connections[i] = c
    BY <1>1, <2>1 DEF TcpIndInv, FoundDead
  <2>4. PICK i \in 1..Len(connections) :
             /\ connections[i] = c
             /\ connections' = SubSeq(connections, 1, i - 1)
                                 \o SubSeq(connections, i + 1, Len(connections))
    BY <2>2, <2>3 DEF RemoveFromList
  <2>5. removeconns' = Tail(removeconns) /\ dpc' = "remove"
    BY <1>1, <2>2, <2>3 DEF RemoveFromList
  <2>6. running' = [running EXCEPT ![c] = FALSE]
    BY <2>2 DEF Terminate
  <2> HIDE DEF c
  <2>7. /\ Len(connections) \in Nat
        /\ Len(connections') = Len(connections) - 1
        /\ \A j \in 1..Len(connections') :
             connections'[j] = IF j < i THEN connections[j] ELSE connections[j + 1]
    BY <2>4, WithoutOne, ListTypes DEF TypeOK
  <2>8. ASSUME NEW n \in 1..Len(connections), connections[n] # c
        PROVE  \E j \in 1..Len(connections') : connections'[j] = connections[n]
    <3>1. CASE n < i
      <4>1. n \in 1..Len(connections') /\ connections'[n] = connections[n]
        BY <2>7, <3>1
      <4>2. QED
        BY <4>1
    <3>2. CASE n > i
      <4>1. n - 1 \in 1..Len(connections') /\ ~(n - 1 < i) /\ (n - 1) + 1 = n
        BY <2>7, <3>2
      <4>2. connections'[n - 1] = connections[n]
        BY <2>7, <4>1
      <4>3. QED
        BY <4>1, <4>2
    <3>3. n # i
      BY <2>4, <2>8
    <3>4. n < i \/ n > i
      BY <2>7, <3>3
    <3>5. QED
      BY <3>1, <3>2, <3>4
  <2>9. LockHeld'
    BY <1>1, <2>5 DEF TcpIndInv, LockHeld, Serving
  <2>10. \A j \in 1..Len(connections') :
           \E n \in 1..Len(connections) :
             /\ connections'[j] = connections[n]
             /\ n = IF j < i THEN j ELSE j + 1
    BY <2>7
  <2>11. \A j, k \in 1..Len(connections') : j # k => connections'[j] # connections'[k]
    <3> SUFFICES ASSUME NEW j \in 1..Len(connections'),
                        NEW k \in 1..Len(connections'), j # k
                 PROVE  connections'[j] # connections'[k]
      OBVIOUS
    <3>1. PICK n \in 1..Len(connections) :
               connections'[j] = connections[n] /\ n = IF j < i THEN j ELSE j + 1
      BY <2>10
    <3>2. PICK p \in 1..Len(connections) :
               connections'[k] = connections[p] /\ p = IF k < i THEN k ELSE k + 1
      BY <2>10
    <3>3. n # p
      BY <3>1, <3>2, <2>7
    <3>4. QED
      BY <3>1, <3>2, <3>3 DEF TcpIndInv, ListedOnce
  <2>12. ListedOnce'
    <3>1. \A j \in 1..Len(connections') : hpc[connections'[j]] # "none"
      BY <2>10 DEF TcpIndInv, ListedOnce
    <3>2. mpc = "append" => \A j \in 1..Len(connections') : connections'[j] # mcur
      BY <2>10 DEF TcpIndInv, ListedOnce
    <3>3. QED
      BY <1>1, <2>11, <3>1, <3>2 DEF TcpIndInv, ListedOnce
  <2>13. \A k \in 1..Len(removeconns') :
           /\ k + 1 \in 1..Len(removeconns) /\ k + 1 # 1
           /\ removeconns'[k] = removeconns[k + 1]
    BY <2>1, <2>5
  <2>14. \A k \in 1..Len(removeconns') :
           \E j \in 1..Len(connections') : connections'[j] = removeconns'[k]
    <3> SUFFICES ASSUME NEW k \in 1..Len(removeconns')
                 PROVE  \E j \in 1..Len(connections') : connections'[j] = removeconns'[k]
      OBVIOUS
    <3>1. removeconns[k + 1] # c
      BY <1>1, <2>1, <2>13 DEF TcpIndInv, FoundDead
    <3>2. PICK n \in 1..Len(connections) : connections[n] = removeconns[k + 1]
      BY <1>1, <2>13 DEF TcpIndInv, FoundDead
    <3>3. QED
      BY <2>8, <2>13, <3>1, <3>2
  <2>15. \A j, k \in 1..Len(removeconns') : j # k => removeconns'[j] # removeconns'[k]
    <3> SUFFICES ASSUME NEW j \in 1..Len(removeconns'),
                        NEW k \in 1..Len(removeconns'), j # k
                 PROVE  removeconns'[j] # removeconns'[k]
      OBVIOUS
    <3>1. j + 1 # k + 1
      BY <2>1, <2>5
    <3>2. removeconns[j + 1] # removeconns[k + 1]
      BY <1>1, <2>13, <3>1 DEF TcpIndInv, FoundDead
    <3>3. QED
      BY <2>13, <3>2
  <2>16. FoundDead'
    BY <2>5, <2>14, <2>15 DEF FoundDead
  <2>17. NoneForgotten'
    <3> SUFFICES ASSUME Serving, NEW x \in Clients, running'[x],
                        ~(mpc = "append" /\ x = mcur)
                 PROVE  Connected(x)'
      BY <1>1 DEF NoneForgotten, Serving
    <3>1. x # c /\ running[x]
      BY <2>1, <2>6 DEF TypeOK
    <3>2. PICK n \in 1..Len(connections) : connections[n] = x
      BY <3>1 DEF TcpIndInv, NoneForgotten, Connected
    <3>3. QED
      BY <2>8, <3>1, <3>2 DEF Connected
  <2>18. QED
    BY <2>9, <2>12, <2>16, <2>17
<1>4. QED
  BY <1>2, <1>3

LEMMA DataSenderKeeps ==
  ASSUME TcpIndInv, DataSender
  PROVE  LockHeld' /\ ListedOnce' /\ FoundDead' /\ NoneForgotten'
<1>1. CASE ReadStdin \/ DsAcquire \/ DsRelease
  <2>1. UNCHANGED <<connections, mpc, mcur, hpc, peer, running>>
    BY <1>1 DEF ReadStdin, DsAcquire, DsRelease, mainVars, handlerVars, peerVars
  <2>2. LockHeld'
    BY <1>1, <2>1, TcpAssumption
    DEF ReadStdin, DsAcquire, DsRelease, mainVars, TcpIndInv, LockHeld, Serving
  <2>3. FoundDead'
    <3>1. CASE DsAcquire
      BY <3>1 DEF DsAcquire, FoundDead
    <3>2. CASE ReadStdin \/ DsRelease
      BY <3>2 DEF ReadStdin, DsRelease, FoundDead
    <3>3. QED
      BY <1>1, <3>1, <3>2
  <2>4. ListedOnce'
    BY <2>1 DEF TcpIndInv, ListedOnce
  <2>5. NoneForgotten'
    BY <2>1 DEF TcpIndInv, NoneForgotten, Serving, Connected
  <2>6. QED
    BY <2>2, <2>3, <2>4, <2>5
<1>2. QED
  BY <1>1, SendKeeps, RemoveKeeps DEF DataSender

----------------------------------------------------------------------------
\* TcpIndInv, the inductive invariant: who works on the list holds the lock
\* until Control-C, and nobody is in the list, or noted for removal, twice
\* (listener lines 158-174, DataSender lines 122-136).
THEOREM TcpInvariant == Spec => []TcpIndInv
<1>1. TcpIndInv /\ [Next]_vars => TcpIndInv'
  <2> SUFFICES ASSUME TcpIndInv, [Next]_vars
               PROVE  TcpIndInv'
    OBVIOUS
  <2>0. TypeOK /\ ListedOnce
    BY DEF TcpIndInv
  <2>1. CASE Main \/ Interrupt
    BY <2>0, <2>1, TypeMain, MainKeeps DEF TcpIndInv
  <2>2. CASE DataSender
    BY <2>0, <2>2, TypeDataSender, DataSenderKeeps DEF TcpIndInv
  <2>3. CASE \E c \in Clients : Handler(c) \/ Stall(c) \/ ReadOn(c) \/ Leave(c)
    BY <2>0, <2>3, TypeHandler, TypePeer, OthersKeep DEF TcpIndInv
  <2>4. CASE UNCHANGED vars
    <3>1. TypeOK'
      BY <2>0, <2>4
      DEF vars, mainVars, dsVars, handlerVars, peerVars, TypeOK
    <3>2. LockHeld' /\ ListedOnce' /\ FoundDead' /\ NoneForgotten'
      BY <2>4
      DEF vars, mainVars, dsVars, handlerVars, peerVars, TcpIndInv, LockHeld,
          ListedOnce, FoundDead, NoneForgotten, Serving, Connected
    <3>3. QED
      BY <3>1, <3>2 DEF TcpIndInv
  <2>5. QED
    BY <2>1, <2>2, <2>3, <2>4 DEF Next
<1>2. QED
  BY InitTcp, <1>1, PTL DEF Spec

\* TcpInv: types, one thread at a time at the list while clients are accepted,
\* and a DataSender that no exception ends before Control-C, for any number of
\* clients (listener lines 158-174, DataSender lines 122-136).
THEOREM ListIsExclusive == Spec => []TcpInv
<1>1. TcpIndInv => TcpInv
  <2> SUFFICES ASSUME TcpIndInv PROVE TcpInv
    OBVIOUS
  <2>1. TypeOK /\ (Serving => dpc # "dead")
    BY DEF TcpIndInv, LockHeld
  <2>2. ListExclusion
    BY DEF TcpIndInv, LockHeld, Serving, ListExclusion
  <2>3. QED
    BY <2>1, <2>2 DEF TcpInv
<1>2. QED
  BY TcpInvariant, <1>1, PTL

\* NoneForgotten: whoever is being served is in the list, or the next to be put
\* there (lines 125-132, 163-165).
THEOREM ServedAreListed == Spec => []NoneForgotten
<1>1. TcpIndInv => NoneForgotten
  BY DEF TcpIndInv
<1>2. QED
  BY TcpInvariant, <1>1, PTL

----------------------------------------------------------------------------
(* The stream of a client: the packet its handler took last, its queue, and  *)
(* what DataSender is about to put there, are consecutive packets; the empty *)
(* strings at the end of stdin come last.                                    *)

InHand(c) == hpc[c] \in {"sendall", "sending"}

\* The number that is the last of those queued, 0 if there was none.
Newest(c) == IF queue[c] # << >> THEN queue[c][Len(queue[c])] ELSE sending[c]

\* q may stand behind p in a queue.
Follows(p, q) == q = 0 \/ (p # 0 /\ q = Successor(p))

Reading ==
  /\ eof => data = 0
  /\ ~eof /\ dpc \in {"acquire", "send"} => data = packets /\ packets # 0

QueuesFollow ==
  \A c \in Clients :
    /\ \A i \in 1..Len(queue[c]) :
         /\ queue[c][i] = 0 => eof
         /\ i > 1 => Follows(queue[c][i - 1], queue[c][i])
    /\ queue[c] # << >> /\ (sending[c] # 0 \/ last[c] # 0) =>
         Follows(sending[c], queue[c][1])
    /\ sending[c] = 0 /\ last[c] # 0 => eof

\* Nothing has been put into a queue before its connection is in the list.
NotYetServed ==
  /\ \A c \in Clients :
       hpc[c] \in {"none", "start"} => sending[c] = 0 /\ last[c] = 0
  /\ \A c \in Clients : hpc[c] = "none" => queue[c] = << >>
  /\ mpc = "append" =>
       queue[mcur] = << >> /\ sending[mcur] = 0

\* A client in the list has the packet read last, or in this turn the one
\* before until its turn comes.
ServedInTurn ==
  \A i \in 1..Len(connections) :
    LET c == connections[i]
    IN ~eof /\ running[c] /\ Newest(c) # 0 =>
         IF dpc = "acquire" \/ (dpc = "send" /\ i >= di)
           THEN packets = Successor(Newest(c)) ELSE packets = Newest(c)

\* What a handler that goes on has taken was received.
TakenIsReceived ==
  \A c \in Clients : peer[c] # "gone" =>
    /\ InHand(c) => last[c] = 0 \/ sending[c] \in {0, Successor(last[c])}
    /\ hpc[c] = "get" \/ (hpc[c] = "loop" /\ running[c]) =>
         sending[c] = 0 \/ last[c] = sending[c]

StreamInv ==
  Reading /\ QueuesFollow /\ NotYetServed /\ ServedInTurn /\ TakenIsReceived

LEMMA InitStream == Init => StreamInv
<1> SUFFICES ASSUME Init PROVE StreamInv
  OBVIOUS
<1>1. Reading /\ NotYetServed /\ ServedInTurn
  BY DEF Init, Reading, NotYetServed, ServedInTurn
<1>2. QueuesFollow /\ TakenIsReceived
  BY DEF Init, QueuesFollow, TakenIsReceived, InHand
<1>3. QED
  BY <1>1, <1>2 DEF StreamInv

LEMMA NotEmpty ==
  ASSUME NEW S, NEW s \in Seq(S)
  PROVE  Len(s) \in Nat /\ (s # << >> <=> Len(s) >= 1)
<1>1. Len(s) \in Nat /\ (s = << >> <=> Len(s) = 0)
  BY EmptySeq, LenProperties
<1>2. QED
  BY <1>1

\* What is known of a queue and of the numbers in it.
LEMMA QueueTypes ==
  ASSUME TypeOK, NEW c \in Clients
  PROVE  /\ queue[c] \in Seq(0..W) /\ Len(queue[c]) \in Nat
         /\ \A i \in 1..Len(queue[c]) : queue[c][i] \in 0..W
         /\ queue[c] # << >> <=> Len(queue[c]) >= 1
         /\ sending[c] \in 0..W /\ last[c] \in 0..W
<1>1. queue[c] \in Seq(0..W) /\ sending[c] \in 0..W /\ last[c] \in 0..W
  BY DEF TypeOK
<1>2. \A i \in 1..Len(queue[c]) : queue[c][i] \in 0..W
  BY <1>1, ElementOfSeq
<1>3. Len(queue[c]) \in Nat /\ (queue[c] # << >> <=> Len(queue[c]) >= 1)
  BY <1>1, NotEmpty
<1>4. QED
  BY <1>1, <1>2, <1>3

LEMMA TakeOne ==
  ASSUME NEW S, NEW s \in Seq(S), s # << >>
  PROVE  /\ Head(s) = s[1] /\ Head(s) \in S /\ Tail(s) \in Seq(S)
         /\ Len(s) \in Nat \ {0} /\ Len(Tail(s)) = Len(s) - 1
         /\ Tail(s) # << >> <=> Len(s) > 1
         /\ \A i \in 1..(Len(s) - 1) : Tail(s)[i] = s[i + 1]
<1>1. /\ Head(s) = s[1] /\ Tail(s) \in Seq(S) /\ Len(s) \in Nat \ {0}
      /\ Len(Tail(s)) = Len(s) - 1
      /\ \A i \in 1..(Len(s) - 1) : Tail(s)[i] = s[i + 1]
  <2>1. Len(s) \in Nat \ {0}
    BY NotEmpty
  <2>2. QED
    BY <2>1, HeadTailProperties
<1>2. Head(s) \in S
  BY <1>1, ElementOfSeq
<1>3. Tail(s) # << >> <=> Len(s) > 1
  <2>1. Tail(s) # << >> <=> Len(Tail(s)) >= 1
    BY <1>1, NotEmpty
  <2>2. QED
    BY <1>1, <2>1
<1>4. QED
  BY <1>1, <1>2, <1>3

\* Whatever does not touch the packets keeps their order: terminating
\* connections, accepting, clients that stall or leave.
LEMMA StreamSame ==
  ASSUME TcpIndInv, StreamInv,
         UNCHANGED <<data, packets, queue, sending, last, hpc, dpc, di, connections>>,
         eof' <=> eof,
         \A c \in Clients : running'[c] => running[c],
         \A c \in Clients : peer[c] = "gone" => peer'[c] = "gone",
         mpc' = "append" => mpc = "append" /\ mcur' = mcur
  PROVE  StreamInv'
<1>1. Reading' /\ QueuesFollow'
  BY DEF StreamInv, Reading, QueuesFollow
<1>2. NotYetServed'
  BY DEF StreamInv, NotYetServed
<1>3. ServedInTurn'
  <2>1. \A i \in 1..Len(connections) : connections[i] \in Clients
    BY ListTypes DEF TcpIndInv
  <2>2. \A c : Newest(c)' = Newest(c)
    BY DEF Newest
  <2>3. QED
    BY <2>1, <2>2 DEF StreamInv, ServedInTurn
<1>4. TakenIsReceived'
  BY DEF StreamInv, TakenIsReceived, InHand
<1>5. QED
  BY <1>1, <1>2, <1>3, <1>4 DEF StreamInv

LEMMA MainStream ==
  ASSUME TcpIndInv, StreamInv, Main \/ Interrupt
  PROVE  StreamInv'
<1> USE DEF mainVars, dsVars, handlerVars, peerVars
<1>0. TypeOK /\ ListedOnce
  BY DEF TcpIndInv
<1>1. CASE \E c \in Clients : Accept(c)
  <2>1. PICK c \in Clients : Accept(c)
    BY <1>1
  <2>2. \A d \in Clients : peer[d] = "gone" => peer'[d] = "gone"
    BY <1>0, <2>1 DEF Accept, TypeOK
  <2>3. QED
    BY <2>1, <2>2, StreamSame DEF Accept
<1>2. CASE AcquireLock
  BY <1>2, StreamSame DEF AcquireLock
<1>3. CASE ReleaseLock
  BY <1>3, StreamSame DEF ReleaseLock
<1>4. CASE Interrupt
  BY <1>4, StreamSame DEF Interrupt
<1>5. CASE Unlock
  BY <1>5, StreamSame DEF Unlock
<1>6. CASE TerminateNext
  <2>1. \A c \in Clients : running'[c] => running[c]
    BY <1>0, <1>6, ListTypes DEF TerminateNext, Terminate, TypeOK
  <2>2. mpc' # "append"
    BY <1>6 DEF TerminateNext
  <2>3. QED
    BY <1>6, <2>1, <2>2, StreamSame DEF TerminateNext
<1>7. CASE JoinNext \/ Joined \/ JoinedDataSender
  <2>1. mpc' # "append"
    BY <1>7 DEF JoinNext, Joined, JoinedDataSender
  <2>2. QED
    BY <1>7, <2>1, StreamSame DEF JoinNext, Joined, JoinedDataSender
<1>8. CASE NewConnection
  <2>1. /\ mcur \in Clients /\ hpc[mcur] = "none"
        /\ \A i \in 1..Len(connections) : hpc[connections[i]] # "none"
    BY <1>0, <1>8 DEF NewConnection, ListedOnce
  <2>2. /\ hpc' = [hpc EXCEPT ![mcur] = "start"]
        /\ running' = [running EXCEPT ![mcur] = TRUE]
        /\ mcur' = mcur /\ (eof' <=> eof)
        /\ UNCHANGED <<data, packets, queue, sending, last, peer, dpc, di, connections>>
    BY <1>8 DEF NewConnection
  <2>3. \A c \in Clients : c # mcur => hpc'[c] = hpc[c] /\ (running'[c] <=> running[c])
    BY <1>0, <2>1, <2>2 DEF TypeOK
  <2>4. hpc'[mcur] = "start"
    BY <1>0, <2>1, <2>2 DEF TypeOK
  <2>5. Reading' /\ QueuesFollow'
    BY <2>2 DEF StreamInv, Reading, QueuesFollow
  <2>6. queue[mcur] = << >> /\ sending[mcur] = 0 /\ last[mcur] = 0
    BY <2>1 DEF StreamInv, NotYetServed
  <2>7. NotYetServed'
    BY <2>1, <2>2, <2>3, <2>4, <2>6 DEF StreamInv, NotYetServed
  <2>8. ServedInTurn'
    <3>1. \A i \in 1..Len(connections) : connections[i] \in Clients /\ connections[i] # mcur
      BY <1>0, <2>1, ListTypes
    <3>2. \A c : Newest(c)' = Newest(c)
      BY <2>2 DEF Newest
    <3>3. QED
      BY <2>2, <2>3, <3>1, <3>2 DEF StreamInv, ServedInTurn
  <2>9. TakenIsReceived'
    BY <2>2, <2>3, <2>4 DEF StreamInv, TakenIsReceived, InHand
  <2>10. QED
    BY <2>5, <2>7, <2>8, <2>9 DEF StreamInv
<1>9. CASE AppendConnection
  <2>1. mcur \in Clients /\ queue[mcur] = << >> /\ sending[mcur] = 0
    BY <1>0, <1>9 DEF AppendConnection, ListedOnce, StreamInv, NotYetServed
  <2>2. /\ connections' = Append(connections, mcur) /\ mpc' = "release"
        /\ (eof' <=> eof) /\ running' = running
        /\ UNCHANGED <<data, packets, queue, sending, last, peer, hpc, dpc, di>>
    BY <1>9 DEF AppendConnection
  <2>3. Reading' /\ QueuesFollow' /\ NotYetServed' /\ TakenIsReceived'
    BY <2>2 DEF StreamInv, Reading, QueuesFollow, NotYetServed, TakenIsReceived, InHand
  <2>4. ServedInTurn'
    <3>1. /\ Len(connections) \in Nat
          /\ Len(connections') = Len(connections) + 1
          /\ \A i \in 1..(Len(connections) + 1) :
               connections'[i] = IF i <= Len(connections) THEN connections[i] ELSE mcur
      BY <1>0, <2>1, <2>2, AppendOne, ListTypes DEF TypeOK
    <3>2. \A c : Newest(c)' = Newest(c)
      BY <2>2 DEF Newest
    <3>3. Newest(mcur) = 0
      BY <2>1 DEF Newest
    <3>4. QED
      BY <2>2, <3>1, <3>2, <3>3 DEF StreamInv, ServedInTurn
  <2>5. QED
    BY <2>3, <2>4 DEF StreamInv
<1>10. QED
  BY <1>1, <1>2, <1>3, <1>4, <1>5, <1>6, <1>7, <1>8, <1>9 DEF Main

\* A turn begins with the next packet, and ends when all have it.
LEMMA TurnStream ==
  ASSUME TcpIndInv, StreamInv, ReadStdin \/ DsAcquire \/ DsRelease
  PROVE  StreamInv'
<1> USE DEF mainVars, dsVars, handlerVars, peerVars
<1>0. TypeOK
  BY DEF TcpIndInv
<1>1. /\ UNCHANGED <<queue, sending, last, peer, hpc, connections, mpc, mcur>>
      /\ running' = running
  BY DEF ReadStdin, DsAcquire, DsRelease
<1>2. NotYetServed' /\ TakenIsReceived'
  BY <1>1 DEF StreamInv, NotYetServed, TakenIsReceived, InHand
<1>3. eof => eof'
  BY DEF ReadStdin, DsAcquire, DsRelease
<1>4. QueuesFollow'
  BY <1>1, <1>3 DEF StreamInv, QueuesFollow
<1>5. \A c : Newest(c)' = Newest(c)
  BY <1>1 DEF Newest
<1>6. CASE ReadStdin
  <2>1. CASE ds_running
    <3>1. /\ dpc = "read" /\ dpc' = "acquire"
          /\ packets' = IF eof' THEN packets ELSE Successor(packets)
          /\ data' = IF eof' THEN 0 ELSE packets'
      BY <1>6, <2>1 DEF ReadStdin
    <3>2. Reading'
      <4>1. Successor(packets) # 0
        BY <1>0, Packets DEF TypeOK
      <4>2. QED
        BY <3>1, <4>1 DEF Reading
    <3>3. ServedInTurn'
      BY <1>1, <1>3, <1>5, <3>1 DEF StreamInv, ServedInTurn
    <3>4. QED
      BY <1>2, <1>4, <3>2, <3>3 DEF StreamInv
  <2>2. CASE ~ds_running
    <3>1. dpc = "read" /\ dpc' = "done" /\ data' = data /\ packets' = packets /\ (eof' <=> eof)
      BY <1>6, <2>2 DEF ReadStdin
    <3>2. Reading' /\ ServedInTurn'
      BY <1>1, <1>5, <3>1 DEF StreamInv, Reading, ServedInTurn
    <3>3. QED
      BY <1>2, <1>4, <3>2 DEF StreamInv
  <2>3. QED
    BY <2>1, <2>2
<1>7. CASE DsAcquire
  <2>1. /\ dpc = "acquire" /\ dpc' = "send" /\ di' = 1
        /\ data' = data /\ packets' = packets /\ (eof' <=> eof)
    BY <1>7 DEF DsAcquire
  <2>2. Reading' /\ ServedInTurn'
    BY <1>1, <1>5, <2>1 DEF StreamInv, Reading, ServedInTurn
  <2>3. QED
    BY <1>2, <1>4, <2>2 DEF StreamInv
<1>8. CASE DsRelease
  <2>1. /\ dpc = "release" /\ dpc' \in {"dead", "read"}
        /\ data' = data /\ packets' = packets /\ (eof' <=> eof)
    BY <1>8 DEF DsRelease
  <2>2. Reading' /\ ServedInTurn'
    BY <1>1, <1>5, <2>1 DEF StreamInv, Reading, ServedInTurn
  <2>3. QED
    BY <1>2, <1>4, <2>2 DEF StreamInv
<1>9. QED
  BY <1>6, <1>7, <1>8

\* Each connection of the list is sent the packet in its turn, if it is not
\* terminated; a full queue terminates it.
LEMMA SendStream ==
  ASSUME TcpIndInv, StreamInv, SendNext
  PROVE  StreamInv'
<1> USE DEF mainVars, dsVars, handlerVars, peerVars
<1>0. TypeOK /\ ListedOnce
  BY DEF TcpIndInv
<1>1. /\ dpc = "send" /\ (eof' <=> eof)
      /\ UNCHANGED <<connections, data, packets, sending, last, peer, hpc, mpc, mcur>>
  BY DEF SendNext
<1>2. /\ Len(connections) \in Nat /\ di \in Nat \ {0} /\ packets \in 0..W /\ data \in 0..W
      /\ \A i \in 1..Len(connections) : connections[i] \in Clients
  BY <1>0, ListTypes DEF TypeOK
<1>3. CASE ~(di <= Len(connections))
  <2>1. /\ dpc' = "remove" /\ di' = di /\ queue' = queue /\ running' = running
    BY <1>3 DEF SendNext
  <2>2. Reading' /\ QueuesFollow' /\ NotYetServed' /\ TakenIsReceived'
    BY <1>1, <2>1 DEF StreamInv, Reading, QueuesFollow, NotYetServed, TakenIsReceived, InHand
  <2>3. ServedInTurn'
    <3>1. \A i \in 1..Len(connections) : ~(i >= di)
      BY <1>2, <1>3
    <3>2. \A c : Newest(c)' = Newest(c)
      BY <1>1, <2>1 DEF Newest
    <3>3. QED
      BY <1>1, <2>1, <3>1, <3>2 DEF StreamInv, ServedInTurn
  <2>4. QED
    BY <2>2, <2>3 DEF StreamInv
<1>4. CASE di <= Len(connections)
  <2>1. PICK c \in Clients : c = connections[di]
    BY <1>2, <1>4
  <2>2. Send(c) /\ di' = di + 1 /\ dpc' = "send" /\ di \in 1..Len(connections)
    BY <1>1, <1>2, <1>4, <2>1 DEF SendNext
  <2>3. \A i \in 1..Len(connections) : i # di => connections[i] # c
    BY <1>0, <2>1, <2>2 DEF ListedOnce
  <2>4. Reading'
    BY <1>1, <2>2 DEF StreamInv, Reading
  \* Nothing more is put into the queue of a terminated connection.
  <2>5. CASE /\ queue' = queue /\ ~running'[c]
             /\ \A d \in Clients : running'[d] => running[d]
    <3>1. QueuesFollow' /\ NotYetServed' /\ TakenIsReceived'
      BY <1>1, <2>5 DEF StreamInv, QueuesFollow, NotYetServed, TakenIsReceived, InHand
    <3>2. \A d : Newest(d)' = Newest(d)
      BY <1>1, <2>5 DEF Newest
    <3>3. \A i \in 1..Len(connections) :
            (connections[i] = c \/ (i >= di' <=> i >= di)) /\ (connections[i] = c => i = di)
      BY <1>2, <2>1, <2>2, <2>3
    <3>4. ServedInTurn'
      BY <1>1, <1>2, <2>2, <2>5, <3>2, <3>3 DEF StreamInv, ServedInTurn
    <3>5. QED
      BY <2>4, <3>1, <3>4 DEF StreamInv
  <2>6. CASE running[c] /\ queue' = [queue EXCEPT ![c] = Append(@, data)] /\ running' = running
    <3>1. PICK n \in Nat : n = Len(queue[c])
      BY <1>0, QueueTypes
    <3>2. /\ Len(queue'[c]) = n + 1 /\ queue'[c] # << >>
          /\ \A i \in 1..n : queue'[c][i] = queue[c][i]
          /\ queue'[c][n + 1] = data
      <4>1. queue'[c] = Append(queue[c], data) /\ queue[c] \in Seq(0..W)
        BY <1>0, <2>6 DEF TypeOK
      <4>2. /\ Append(queue[c], data) \in Seq(0..W)
            /\ Len(Append(queue[c], data)) = n + 1
            /\ \A i \in 1..(n + 1) :
                 Append(queue[c], data)[i] = IF i <= n THEN queue[c][i] ELSE data
        BY <1>2, <3>1, <4>1, AppendOne
      <4>3. queue'[c] # << >> <=> n + 1 >= 1
        BY <4>1, <4>2, NotEmpty
      <4>4. QED
        BY <4>1, <4>2, <4>3
    <3>3. \A d \in Clients : d # c => queue'[d] = queue[d]
      BY <1>0, <2>6 DEF TypeOK
    <3>4. Newest(c)' = data /\ \A d \in Clients : d # c => Newest(d)' = Newest(d)
      BY <1>1, <3>2, <3>3 DEF Newest
    <3>5. eof => data = 0
      BY DEF StreamInv, Reading
    <3>6. ~eof => data = packets
      BY <1>1 DEF StreamInv, Reading
    <3>7. ~eof /\ Newest(c) # 0 => data = Successor(Newest(c))
      BY <1>1, <1>2, <2>1, <2>2, <2>6, <3>6 DEF StreamInv, ServedInTurn
    <3>8. hpc[c] # "none"
      BY <1>0, <2>1, <2>2 DEF ListedOnce
    <3>9. mpc = "append" => mcur # c
      BY <1>0, <2>1, <2>2 DEF ListedOnce
    <3>10. NotYetServed'
      <4>1. mpc = "append" => mcur \in Clients
        BY <1>0 DEF ListedOnce
      <4>2. QED
        BY <1>1, <3>3, <3>8, <3>9, <4>1 DEF StreamInv, NotYetServed
    <3>11. TakenIsReceived'
      BY <1>1, <2>6 DEF StreamInv, TakenIsReceived, InHand
    <3>12. ServedInTurn'
      <4>1. SUFFICES ASSUME NEW i \in 1..Len(connections), NEW d \in Clients,
                            d = connections[i], ~eof, running[d], Newest(d)' # 0
                     PROVE  IF i >= di' THEN packets = Successor(Newest(d)')
                            ELSE packets = Newest(d)'
        BY <1>1, <1>2, <2>2, <2>6 DEF ServedInTurn
      <4>2. CASE i = di
        BY <1>2, <2>1, <2>2, <3>4, <3>6, <4>1, <4>2
      <4>3. CASE i # di
        <5>1. d # c /\ Newest(d)' = Newest(d)
          BY <2>3, <3>4, <4>1, <4>3
        <5>2. IF i >= di THEN packets = Successor(Newest(d)) ELSE packets = Newest(d)
          BY <1>1, <4>1, <5>1 DEF StreamInv, ServedInTurn
        <5>3. i >= di' <=> i >= di
          BY <1>2, <2>2, <4>3
        <5>4. QED
          BY <5>1, <5>2, <5>3
      <4>4. QED
        BY <4>2, <4>3
    <3>13. QueuesFollow'
      <4>1. SUFFICES ASSUME NEW d \in Clients
                     PROVE  /\ \A i \in 1..Len(queue'[d]) :
                                 /\ queue'[d][i] = 0 => eof
                                 /\ i > 1 => Follows(queue'[d][i - 1], queue'[d][i])
                            /\ queue'[d] # << >> /\ (sending[d] # 0 \/ last[d] # 0) =>
                                 Follows(sending[d], queue'[d][1])
                            /\ sending[d] = 0 /\ last[d] # 0 => eof
        BY <1>1 DEF QueuesFollow, Follows, Successor
      <4>2. /\ \A i \in 1..Len(queue[d]) :
                 /\ queue[d][i] = 0 => eof
                 /\ i > 1 => Follows(queue[d][i - 1], queue[d][i])
            /\ queue[d] # << >> /\ (sending[d] # 0 \/ last[d] # 0) =>
                 Follows(sending[d], queue[d][1])
            /\ sending[d] = 0 /\ last[d] # 0 => eof
        BY DEF StreamInv, QueuesFollow
      <4>3. CASE d # c
        BY <3>3, <4>2, <4>3
      <4>4. CASE d = c
        <5>1. data = 0 => eof
          BY <1>1 DEF StreamInv, Reading
        <5>2. n >= 1 => Newest(c) = queue[c][n] /\ n \in 1..n
          BY <1>0, <3>1, QueueTypes DEF Newest
        <5>3. n >= 1 => Follows(queue[c][n], data)
          BY <3>1, <3>5, <3>7, <4>2, <4>4, <5>2 DEF Follows
        <5>4. ASSUME NEW i \in 1..(n + 1)
              PROVE  /\ queue'[c][i] = 0 => eof
                     /\ i > 1 => Follows(queue'[c][i - 1], queue'[c][i])
          <6>1. CASE i = n + 1
            BY <3>2, <5>1, <5>3, <6>1
          <6>2. CASE i # n + 1
            <7>1. i \in 1..n /\ (i > 1 => i - 1 \in 1..n)
              BY <6>2
            <7>2. QED
              BY <3>1, <3>2, <4>2, <4>4, <7>1
          <6>3. QED
            BY <6>1, <6>2
        <5>5. sending[c] # 0 \/ last[c] # 0 => Follows(sending[c], queue'[c][1])
          <6>1. CASE n >= 1
            <7>1. queue'[c][1] = queue[c][1] /\ queue[c] # << >>
              BY <1>0, <3>1, <3>2, <6>1, QueueTypes
            <7>2. QED
              BY <4>2, <4>4, <7>1
          <6>2. CASE n = 0
            <7>1. queue[c] = << >>
              <8>1. queue[c] # << >> <=> Len(queue[c]) >= 1
                BY <1>0, QueueTypes
              <8>2. QED
                BY <3>1, <6>2, <8>1
            <7>2. Newest(c) = sending[c] /\ queue'[c][1] = data
              BY <3>2, <6>2, <7>1 DEF Newest
            <7>3. QED
              BY <3>5, <3>7, <4>2, <4>4, <7>2 DEF Follows
          <6>3. QED
            BY <6>1, <6>2
        <5>6. QED
          BY <3>2, <4>2, <4>4, <5>4, <5>5
      <4>5. QED
        BY <4>3, <4>4
    <3>14. QED
      BY <2>4, <3>10, <3>11, <3>12, <3>13 DEF StreamInv
  <2>7. QED
    <3>1. CASE ~running[c]
      <4>1. queue' = queue /\ running' = running
        BY <2>2, <3>1 DEF Send
      <4>2. QED
        BY <2>5, <3>1, <4>1
    <3>2. CASE running[c] /\ Len(queue[c]) < QueueSize
      BY <2>2, <2>6, <3>2 DEF Send
    <3>3. CASE running[c] /\ ~(Len(queue[c]) < QueueSize)
      <4>1. queue' = queue /\ running' = [running EXCEPT ![c] = FALSE]
        BY <2>2, <3>3 DEF Send, Terminate
      <4>2. ~running'[c] /\ \A d \in Clients : running'[d] => running[d]
        BY <1>0, <4>1 DEF TypeOK
      <4>3. QED
        BY <2>5, <4>1, <4>2
    <3>4. QED
      BY <3>1, <3>2, <3>3
<1>5. QED
  BY <1>3, <1>4

\* Those that are left in the list are served as before.
LEMMA RemoveStream ==
  ASSUME TcpIndInv, StreamInv, RemoveNext
  PROVE  StreamInv'
<1> USE DEF mainVars, handlerVars, peerVars
<1>0. TypeOK
  BY DEF TcpIndInv
<1>1. /\ dpc = "remove" /\ (eof' <=> eof)
      /\ UNCHANGED <<data, packets, queue, sending, last, peer, hpc, mpc, mcur, di>>
  BY DEF RemoveNext
<1>2. /\ dpc' \in {"remove", "dead", "release"}
      /\ \A d \in Clients : running'[d] => running[d]
      /\ \A j \in 1..Len(connections') :
           \E i \in 1..Len(connections) : connections'[j] = connections[i]
  <2>1. CASE removeconns = << >>
    BY <2>1 DEF RemoveNext
  <2>2. CASE removeconns # << >>
    <3>1. PICK c \in Clients : c = Head(removeconns)
      BY <1>0, <2>2, HeadTailProperties DEF TypeOK
    <3>2. Terminate(c) /\ RemoveFromList(c)
      BY <2>2, <3>1 DEF RemoveNext
    <3>3. \A d \in Clients : running'[d] => running[d]
      BY <1>0, <3>2 DEF Terminate, TypeOK
    <3>4. CASE \A i \in 1..Len(connections) : connections[i] # c
      BY <3>2, <3>3, <3>4 DEF RemoveFromList
    <3>5. CASE ~\A i \in 1..Len(connections) : connections[i] # c
      <4>1. PICK i \in 1..Len(connections) :
                 connections' = SubSeq(connections, 1, i - 1)
                                  \o SubSeq(connections, i + 1, Len(connections))
        BY <3>2, <3>5 DEF RemoveFromList
      <4>2. /\ Len(connections) \in Nat
            /\ Len(connections') = Len(connections) - 1
            /\ \A j \in 1..Len(connections') :
                 connections'[j] = IF j < i THEN connections[j] ELSE connections[j + 1]
        BY <1>0, <4>1, WithoutOne, ListTypes DEF TypeOK
      <4>3. ASSUME NEW j \in 1..Len(connections')
            PROVE  \E k \in 1..Len(connections) : connections'[j] = connections[k]
        <5>1. j \in 1..Len(connections) /\ j + 1 \in 1..Len(connections)
          BY <4>2
        <5>2. connections'[j] = connections[j] \/ connections'[j] = connections[j + 1]
          BY <4>2
        <5>3. QED
          BY <5>1, <5>2
      <4>4. dpc' = dpc
        BY <3>2, <3>5 DEF RemoveFromList
      <4>5. QED
        BY <1>1, <3>3, <4>3, <4>4
    <3>6. QED
      BY <3>4, <3>5
  <2>3. QED
    BY <2>1, <2>2
<1>3. Reading' /\ QueuesFollow' /\ NotYetServed' /\ TakenIsReceived'
  <2>1. Reading' /\ QueuesFollow' /\ NotYetServed'
    BY <1>1, <1>2 DEF StreamInv, Reading, QueuesFollow, NotYetServed
  <2>2. TakenIsReceived'
    BY <1>1, <1>2 DEF StreamInv, TakenIsReceived, InHand
  <2>3. QED
    BY <2>1, <2>2
<1>4. ServedInTurn'
  <2>1. \A c : Newest(c)' = Newest(c)
    BY <1>1 DEF Newest
  <2>2. SUFFICES ASSUME NEW j \in 1..Len(connections'), NEW c, c = connections'[j],
                        ~eof, running'[c], Newest(c) # 0
                 PROVE  packets = Newest(c)
    BY <1>1, <1>2, <2>1 DEF ServedInTurn
  <2>3. PICK i \in 1..Len(connections) : connections[i] = c
    BY <1>2, <2>2
  <2>4. c \in Clients
    BY <1>0, <2>3, ListTypes
  <2>5. QED
    BY <1>1, <1>2, <2>2, <2>3, <2>4 DEF StreamInv, ServedInTurn
<1>5. QED
  BY <1>3, <1>4 DEF StreamInv

\* Taking the first packet leaves those behind it, and the last of all.
LEMMA GetStream ==
  ASSUME TcpIndInv, StreamInv, NEW c \in Clients, HandlerGet(c)
  PROVE  StreamInv'
<1> USE DEF mainVars, dsVars, peerVars
<1>0. TypeOK /\ ListedOnce
  BY DEF TcpIndInv
<1>1. /\ hpc[c] = "get" /\ queue[c] # << >> /\ (eof' <=> eof) /\ running' = running
      /\ sending' = [sending EXCEPT ![c] = Head(queue[c])]
      /\ queue' = [queue EXCEPT ![c] = Tail(queue[c])]
      /\ hpc' = [hpc EXCEPT ![c] = "sendall"]
      /\ UNCHANGED <<connections, data, packets, last, peer, mpc, mcur, dpc, di>>
  BY DEF HandlerGet
<1>2. /\ sending'[c] = Head(queue[c]) /\ queue'[c] = Tail(queue[c]) /\ hpc'[c] = "sendall"
      /\ \A d \in Clients : d # c =>
           sending'[d] = sending[d] /\ queue'[d] = queue[d] /\ hpc'[d] = hpc[d]
  BY <1>0, <1>1 DEF TypeOK
<1>3. PICK n \in Nat \ {0} : n = Len(queue[c])
  BY <1>0, <1>1, QueueTypes
<1>4. /\ sending'[c] = queue[c][1] /\ Len(queue'[c]) = n - 1
      /\ queue'[c] # << >> <=> n > 1
      /\ \A i \in 1..(n - 1) : queue'[c][i] = queue[c][i + 1]
  <2>1. queue[c] \in Seq(0..W)
    BY <1>0, QueueTypes
  <2>2. /\ Head(queue[c]) = queue[c][1] /\ Len(Tail(queue[c])) = n - 1
        /\ Tail(queue[c]) # << >> <=> n > 1
        /\ \A i \in 1..(n - 1) : Tail(queue[c])[i] = queue[c][i + 1]
    BY <1>1, <1>3, <2>1, TakeOne
  <2>3. QED
    BY <1>2, <2>2
<1>5. Reading'
  BY <1>1 DEF StreamInv, Reading
<1>6. NotYetServed'
  <2>1. mpc = "append" => mcur \in Clients /\ mcur # c
    BY <1>0, <1>1 DEF ListedOnce, StreamInv, NotYetServed
  <2>2. QED
    BY <1>1, <1>2, <2>1 DEF StreamInv, NotYetServed
<1>7. \A d \in Clients : Newest(d)' = Newest(d)
  <2>1. \A d \in Clients : d # c => Newest(d)' = Newest(d)
    BY <1>2 DEF Newest
  <2>2. Newest(c) = queue[c][n]
    BY <1>1, <1>3 DEF Newest
  <2>3. Newest(c)' = queue[c][n]
    <3>1. CASE n = 1
      BY <1>4, <3>1 DEF Newest
    <3>2. CASE n > 1
      <4>1. n - 1 \in 1..(n - 1) /\ (n - 1) + 1 = n
        BY <3>2
      <4>2. Newest(c)' = queue'[c][n - 1]
        BY <1>4, <3>2 DEF Newest
      <4>3. QED
        BY <1>4, <4>1, <4>2
    <3>3. QED
      BY <3>1, <3>2
  <2>4. QED
    BY <2>1, <2>2, <2>3
<1>8. ServedInTurn'
  <2>1. \A i \in 1..Len(connections) : connections[i] \in Clients
    BY <1>0, ListTypes
  <2>2. QED
    BY <1>1, <1>7, <2>1 DEF StreamInv, ServedInTurn
<1>9. /\ \A i \in 1..n : /\ queue[c][i] = 0 => eof
                         /\ i > 1 => Follows(queue[c][i - 1], queue[c][i])
      /\ sending[c] # 0 \/ last[c] # 0 => Follows(sending[c], queue[c][1])
      /\ sending[c] = 0 /\ last[c] # 0 => eof
  BY <1>1, <1>3 DEF StreamInv, QueuesFollow
<1>10. QueuesFollow'
  <2>1. SUFFICES ASSUME NEW d \in Clients
                 PROVE  /\ \A i \in 1..Len(queue'[d]) :
                             /\ queue'[d][i] = 0 => eof
                             /\ i > 1 => Follows(queue'[d][i - 1], queue'[d][i])
                        /\ queue'[d] # << >> /\ (sending'[d] # 0 \/ last[d] # 0) =>
                             Follows(sending'[d], queue'[d][1])
                        /\ sending'[d] = 0 /\ last[d] # 0 => eof
    BY <1>1 DEF QueuesFollow, Follows, Successor
  <2>2. CASE d # c
    BY <1>2, <2>2 DEF StreamInv, QueuesFollow
  <2>3. CASE d = c
    <3>1. ASSUME NEW i \in 1..(n - 1)
          PROVE  /\ queue'[c][i] = 0 => eof
                 /\ i > 1 => Follows(queue'[c][i - 1], queue'[c][i])
      <4>1. i + 1 \in 1..n /\ i + 1 > 1 /\ (i + 1) - 1 = i
        OBVIOUS
      <4>2. queue'[c][i] = queue[c][i + 1]
        BY <1>4
      <4>3. i > 1 => queue'[c][i - 1] = queue[c][i]
        <5>1. i > 1 => i - 1 \in 1..(n - 1) /\ (i - 1) + 1 = i
          OBVIOUS
        <5>2. QED
          BY <1>4, <5>1
      <4>4. /\ queue[c][i + 1] = 0 => eof
            /\ Follows(queue[c][i], queue[c][i + 1])
        BY <1>9, <4>1
      <4>5. QED
        BY <4>2, <4>3, <4>4
    <3>2. queue'[c] # << >> => Follows(sending'[c], queue'[c][1])
      <4>1. n > 1 => 1 \in 1..(n - 1) /\ 2 \in 1..n /\ 2 > 1 /\ 2 - 1 = 1
        OBVIOUS
      <4>2. n > 1 => Follows(queue[c][1], queue[c][2])
        BY <1>9, <4>1
      <4>3. n > 1 => queue'[c][1] = queue[c][2]
        BY <1>4, <4>1
      <4>4. QED
        BY <1>4, <4>2, <4>3
    <3>3. sending'[c] = 0 => eof
      <4>1. 1 \in 1..n
        OBVIOUS
      <4>2. QED
        BY <1>4, <1>9, <4>1
    <3>4. QED
      BY <1>4, <2>3, <3>1, <3>2, <3>3
  <2>4. QED
    BY <2>2, <2>3
<1>11. TakenIsReceived'
  <2>1. ASSUME peer[c] # "gone"
        PROVE  last[c] = 0 \/ sending'[c] \in {0, Successor(last[c])}
    <3>1. sending[c] = 0 \/ last[c] = sending[c]
      BY <1>1, <2>1 DEF StreamInv, TakenIsReceived
    <3>2. QED
      BY <1>4, <1>9, <3>1 DEF Follows
  <2>2. SUFFICES ASSUME NEW d \in Clients, peer[d] # "gone"
                 PROVE  /\ InHand(d)' =>
                             last[d] = 0 \/ sending'[d] \in {0, Successor(last[d])}
                        /\ hpc'[d] = "get" \/ (hpc'[d] = "loop" /\ running[d]) =>
                             sending'[d] = 0 \/ last[d] = sending'[d]
    BY <1>1 DEF TakenIsReceived, Successor
  <2>3. CASE d = c
    BY <1>2, <2>1, <2>2, <2>3
  <2>4. CASE d # c
    BY <1>2, <2>2, <2>4 DEF StreamInv, TakenIsReceived, InHand
  <2>5. QED
    BY <2>3, <2>4
<1>12. QED
  BY <1>5, <1>6, <1>8, <1>10, <1>11 DEF StreamInv

\* What a handler does before and after it takes a packet.
LEMMA HandlerStream ==
  ASSUME TcpIndInv, StreamInv, NEW c \in Clients, Handler(c)
  PROVE  StreamInv'
<1> USE DEF mainVars, dsVars, peerVars
<1>0. TypeOK
  BY DEF TcpIndInv
<1>1. CASE HandlerGet(c)
  BY <1>1, GetStream
<1>2. CASE ~HandlerGet(c)
  <2>1. /\ (eof' <=> eof)
        /\ UNCHANGED <<connections, data, packets, queue, sending, peer, mpc, mcur, dpc, di>>
    BY <1>2 DEF Handler, HandlerStart, HandlerLoop, HandlerSendAll, HandlerSent,
                HandlerSendFails
  <2>2. /\ hpc[c] \notin {"none", "done", "dead"}
        /\ hpc'[c] \in {"loop", "dead", "get", "done", "sending"}
        /\ \A d \in Clients : d # c => hpc'[d] = hpc[d] /\ last'[d] = last[d]
        /\ \A d \in Clients : running'[d] => running[d]
    <3>1. CASE HandlerStart(c) \/ HandlerLoop(c)
      BY <1>0, <3>1 DEF HandlerStart, HandlerLoop, TypeOK
    <3>2. CASE HandlerSendAll(c)
      BY <1>0, <3>2 DEF HandlerSendAll, TypeOK
    <3>3. CASE HandlerSent(c) \/ HandlerSendFails(c)
      BY <1>0, <3>3 DEF HandlerSent, HandlerSendFails, TypeOK
    <3>4. QED
      BY <1>2, <3>1, <3>2, <3>3 DEF Handler
  <2>3. \/ last'[c] = last[c]
        \/ /\ HandlerSent(c) /\ peer[c] # "gone" /\ sending[c] # 0
           /\ last'[c] = sending[c]
    BY <1>0, <1>2 DEF Handler, HandlerStart, HandlerLoop, HandlerSendAll, HandlerSent,
                      HandlerSendFails, TypeOK
  <2>4. Reading'
    BY <2>1 DEF StreamInv, Reading
  <2>5. QueuesFollow'
    BY <2>1, <2>2, <2>3 DEF StreamInv, QueuesFollow
  <2>6. NotYetServed'
    <3>1. hpc'[c] \notin {"none", "start"}
      BY <2>2
    <3>2. QED
      BY <2>1, <2>2, <3>1 DEF StreamInv, NotYetServed
  <2>7. ServedInTurn'
    <3>1. \A i \in 1..Len(connections) : connections[i] \in Clients
      BY <1>0, ListTypes
    <3>2. \A d : Newest(d)' = Newest(d)
      BY <2>1 DEF Newest
    <3>3. QED
      BY <2>1, <2>2, <3>1, <3>2 DEF StreamInv, ServedInTurn
  <2>8. TakenIsReceived'
    <3>1. ASSUME peer[c] # "gone"
          PROVE  /\ hpc'[c] = "sending" =>
                      last'[c] = 0 \/ sending[c] \in {0, Successor(last'[c])}
                 /\ hpc'[c] = "get" \/ (hpc'[c] = "loop" /\ running'[c]) =>
                      sending[c] = 0 \/ last'[c] = sending[c]
      <4>1. CASE HandlerStart(c)
        <5>1. sending[c] = 0 /\ hpc'[c] \in {"loop", "dead"}
          BY <1>0, <4>1 DEF HandlerStart, StreamInv, NotYetServed, TypeOK
        <5>2. QED
          BY <5>1
      <4>2. CASE HandlerLoop(c)
        <5>1. /\ hpc[c] = "loop" /\ last' = last
              /\ hpc'[c] = IF running[c] THEN "get" ELSE "done"
          BY <1>0, <4>2 DEF HandlerLoop, TypeOK
        <5>2. QED
          BY <3>1, <5>1 DEF StreamInv, TakenIsReceived
      <4>3. CASE HandlerSendAll(c)
        <5>1. /\ hpc[c] = "sendall" /\ last' = last
              /\ hpc'[c] = "sending" \/ (hpc'[c] = "loop" /\ ~running'[c])
          BY <1>0, <4>3 DEF HandlerSendAll, TypeOK
        <5>2. QED
          BY <3>1, <5>1 DEF StreamInv, TakenIsReceived, InHand
      <4>4. CASE HandlerSent(c)
        <5>1. /\ hpc'[c] = "loop"
              /\ sending[c] = 0 \/ last'[c] = sending[c]
          BY <1>0, <3>1, <4>4 DEF HandlerSent, TypeOK
        <5>2. QED
          BY <5>1
      <4>5. CASE HandlerSendFails(c)
        BY <3>1, <4>5 DEF HandlerSendFails
      <4>6. QED
        BY <1>2, <4>1, <4>2, <4>3, <4>4, <4>5 DEF Handler
    <3>2. SUFFICES ASSUME NEW d \in Clients, peer[d] # "gone"
                   PROVE  /\ InHand(d)' =>
                               last'[d] = 0 \/ sending[d] \in {0, Successor(last'[d])}
                          /\ hpc'[d] = "get" \/ (hpc'[d] = "loop" /\ running'[d]) =>
                               sending[d] = 0 \/ last'[d] = sending[d]
      BY <2>1 DEF TakenIsReceived, Successor
    <3>3. CASE d = c
      BY <2>2, <3>1, <3>2, <3>3 DEF InHand
    <3>4. CASE d # c
      BY <2>1, <2>2, <3>2, <3>4 DEF StreamInv, TakenIsReceived, InHand
    <3>5. QED
      BY <3>3, <3>4
  <2>9. QED
    BY <2>4, <2>5, <2>6, <2>7, <2>8 DEF StreamInv
<1>3. QED
  BY <1>1, <1>2

LEMMA PeerStream ==
  ASSUME TcpIndInv, StreamInv, NEW c \in Clients, Stall(c) \/ ReadOn(c) \/ Leave(c)
  PROVE  StreamInv'
<1> USE DEF mainVars, dsVars, handlerVars
<1>1. PICK from, to : PeerStep(c, from, to) /\ "gone" \notin from
  BY DEF Stall, ReadOn, Leave
<1>2. \A d \in Clients : peer[d] = "gone" => peer'[d] = "gone"
  BY <1>1 DEF PeerStep, TcpIndInv, TypeOK
<1>3. QED
  BY <1>1, <1>2, StreamSame DEF PeerStep

LEMMA StreamStep ==
  ASSUME TcpIndInv, StreamInv, [Next]_vars
  PROVE  StreamInv'
<1>1. CASE Main \/ Interrupt
  BY <1>1, MainStream
<1>2. CASE DataSender
  BY <1>2, TurnStream, SendStream, RemoveStream DEF DataSender
<1>3. CASE \E c \in Clients : Handler(c) \/ Stall(c) \/ ReadOn(c) \/ Leave(c)
  BY <1>3, HandlerStream, PeerStream
<1>4. CASE UNCHANGED vars
  BY <1>4, StreamSame DEF vars, mainVars, dsVars, handlerVars, peerVars
<1>5. QED
  BY <1>1, <1>2, <1>3, <1>4 DEF Next

\* What a client has received changes when its handler has sent the packet in
\* hand, which is the one behind the packet received before.
LEMMA ReceivedInTurn ==
  ASSUME TcpIndInv, StreamInv, [Next]_vars, NEW c \in Clients, last'[c] # last[c]
  PROVE  last[c] = 0 \/ last'[c] = Successor(last[c])
<1> USE DEF mainVars, dsVars, handlerVars, peerVars
<1>0. TypeOK
  BY DEF TcpIndInv
<1>1. CASE HandlerSent(c)
  <2>1. hpc[c] = "sending" /\ peer[c] # "gone" /\ sending[c] # 0 /\ last'[c] = sending[c]
    BY <1>0, <1>1 DEF HandlerSent, TypeOK
  <2>2. QED
    BY <2>1 DEF StreamInv, TakenIsReceived, InHand
<1>2. CASE \E d \in Clients : d # c /\ HandlerSent(d)
  BY <1>0, <1>2 DEF HandlerSent, TypeOK
<1>3. CASE ~\E d \in Clients : HandlerSent(d)
  <2>1. CASE Main \/ Interrupt
    BY <2>1 DEF Main, Interrupt, Accept, AcquireLock, NewConnection, AppendConnection,
                ReleaseLock, Unlock, TerminateNext, JoinNext, Joined, JoinedDataSender
  <2>2. CASE DataSender
    BY <2>2 DEF DataSender, ReadStdin, DsAcquire, SendNext, RemoveNext, DsRelease
  <2>3. CASE \E d \in Clients : Handler(d) \/ Stall(d) \/ ReadOn(d) \/ Leave(d)
    BY <1>3, <2>3 DEF Handler, HandlerStart, HandlerLoop, HandlerGet, HandlerSendAll,
                      HandlerSendFails, Stall, ReadOn, Leave, PeerStep
  <2>4. CASE UNCHANGED vars
    BY <2>4 DEF vars
  <2>5. QED
    BY <2>1, <2>2, <2>3, <2>4 DEF Next
<1>4. QED
  BY <1>1, <1>2, <1>3

\* StreamInv, the inductive invariant of the stream: what a client has received,
\* what its handler holds and its queue are consecutive packets, up to the one
\* DataSender has read, while the connection serves (lines 51-60, 76-90, 112-129).
THEOREM StreamInvariant == Spec => []StreamInv
<1>1. TcpIndInv /\ StreamInv /\ [Next]_vars => StreamInv'
  BY StreamStep
<1>2. QED
  BY InitStream, TcpInvariant, <1>1, PTL DEF Spec

\* ContiguousStream: a client receives consecutive packets until its connection
\* is cut ("Abort here, otherwise we send an incomplete stream !", line 56), for
\* any number of clients, size of the queues, Control-C or end of the input.
THEOREM StreamIsContiguous == Spec => ContiguousStream
<1>1. TcpIndInv /\ StreamInv /\ [Next]_vars =>
        [\A c \in Clients : last'[c] # last[c] =>
           last[c] = 0 \/ last'[c] = Successor(last[c])]_last
  BY ReceivedInTurn
<1>2. QED
  BY TcpInvariant, StreamInvariant, <1>1, PTL DEF Spec, ContiguousStream
===============================================================================
