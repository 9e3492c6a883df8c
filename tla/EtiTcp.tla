------------------------------- MODULE EtiTcp -------------------------------
(***************************************************************************)
(* eti_tcp.py: standard input is copied to every TCP client.               *)
(*                                                                         *)
(* The threads: the main thread (function listener) accepts clients and    *)
(* shuts down on Control-C; the DataSender reads packets from stdin and    *)
(* puts each into the queue of every connection; one ConnectionHandler per *)
(* connection sends its queue to the client.  They share the list of       *)
(* connections, protected by a lock (which Python lets any thread          *)
(* release), the queues, and the handlers' running flags (unprotected).    *)
(*                                                                         *)
(* A packet is its number in the input, modulo W; 0 is the empty string     *)
(* that read returns for ever once stdin is at its end.                    *)
(***************************************************************************)
EXTENDS Integers, Sequences

CONSTANTS
  Clients,                \* clients that may connect, once each
  PACKET_SIZE,            \* bytes per packet (6144)
  QUEUE_PACKET_CAPACITY,  \* packets a queue is meant to hold (100)
  W,                      \* packets are numbered 1..W, again and again
  InputEnds,              \* whether stdin may come to its end
  Interrupts,             \* whether Control-C may be pressed
  None

ASSUME TcpAssumption ==
  /\ PACKET_SIZE \in Nat \ {0} /\ QUEUE_PACKET_CAPACITY \in Nat \ {0}
  /\ W \in Nat \ {0}
  /\ InputEnds \in BOOLEAN /\ Interrupts \in BOOLEAN
  /\ None \notin Clients \cup {"main", "ds"}

\* The maxsize given to Queue.Queue, which counts items.
QueueSize == PACKET_SIZE * QUEUE_PACKET_CAPACITY

VARIABLES
  connections,  \* the shared list
  lock,         \* who holds connections_lock: "main", "ds" or None
  mpc,          \* where the main thread is
  mcur,         \* the client being accepted, or joined
  mi,           \* index of main's loops over connections
  dpc,          \* where the DataSender is
  ds_running,   \* DataSender.running
  data,         \* the packet DataSender read
  di,           \* index of its loop over connections
  removeconns,  \* connections it found terminated
  packets,      \* number of the last packet of stdin read; 0 at first
  eof,          \* stdin is at its end
  hpc,          \* where each handler is; "none" before it exists
  running,      \* ConnectionHandler.running
  closed,       \* the server's side of the socket is closed
  queue,        \* the handlers' queues
  sending,      \* the packet a handler is sending
  peer,         \* "new", "reading", "stalled" or "gone"
  last          \* number of the last packet each client received; 0 at first

mainVars == <<mpc, mcur, mi>>
dsVars == <<dpc, data, di, removeconns, packets, eof>>
handlerVars == <<hpc, sending>>
peerVars == <<peer, last>>
vars == <<connections, lock, mainVars, dsVars, ds_running, handlerVars, running,
          closed, queue, peerVars>>

Init ==
  /\ connections = << >> /\ lock = None
  /\ mpc = "accept" /\ mcur = None /\ mi = 1
  /\ dpc = "read" /\ ds_running = TRUE /\ data = 0 /\ di = 1
  /\ removeconns = << >> /\ packets = 0 /\ eof = FALSE
  /\ hpc = [c \in Clients |-> "none"]
  /\ running = [c \in Clients |-> FALSE]
  /\ closed = [c \in Clients |-> FALSE]
  /\ queue = [c \in Clients |-> << >>]
  /\ sending = [c \in Clients |-> 0]
  /\ peer = [c \in Clients |-> "new"]
  /\ last = [c \in Clients |-> 0]

\* Connection.terminate: the handler is told to stop and its socket object
\* is closed.  A sendall in progress keeps the descriptor and goes on.
Terminate(c) ==
  /\ running' = [running EXCEPT ![c] = FALSE]
  /\ closed' = [closed EXCEPT ![c] = TRUE]

----------------------------------------------------------------------------
(* The main thread: listener. *)

Accept(c) ==
  /\ mpc = "accept"
  /\ peer[c] = "new"
  /\ peer' = [peer EXCEPT ![c] = "reading"]
  /\ mcur' = c
  /\ mpc' = "acquire"
  /\ UNCHANGED <<connections, lock, mi, dsVars, ds_running, handlerVars, running,
                 closed, queue, last>>

AcquireLock ==
  /\ mpc = "acquire"
  /\ lock = None
  /\ lock' = "main"
  /\ mpc' = "construct"
  /\ UNCHANGED <<connections, mcur, mi, dsVars, ds_running, handlerVars, running,
                 closed, queue, peerVars>>

\* Connection(sock, addr) starts the handler thread.
NewConnection ==
  /\ mpc = "construct"
  /\ hpc' = [hpc EXCEPT ![mcur] = "start"]
  /\ running' = [running EXCEPT ![mcur] = TRUE]
  /\ mpc' = "append"
  /\ UNCHANGED <<connections, lock, mcur, mi, dsVars, ds_running, sending, closed,
                 queue, peerVars>>

AppendConnection ==
  /\ mpc = "append"
  /\ connections' = Append(connections, mcur)
  /\ mpc' = "release"
  /\ UNCHANGED <<lock, mcur, mi, dsVars, ds_running, handlerVars, running, closed,
                 queue, peerVars>>

ReleaseLock ==
  /\ mpc = "release"
  /\ lock' = None
  /\ mpc' = "accept"
  /\ UNCHANGED <<connections, mcur, mi, dsVars, ds_running, handlerVars, running,
                 closed, queue, peerVars>>

\* KeyboardInterrupt, which Python raises in the main thread only.
Interrupt ==
  /\ Interrupts
  /\ mpc \in {"accept", "acquire", "construct", "append", "release"}
  /\ mpc' = "unlock"
  /\ UNCHANGED <<connections, lock, mcur, mi, dsVars, ds_running, handlerVars,
                 running, closed, queue, peerVars>>

\* "try: connections_lock.release()": whoever holds the lock.
Unlock ==
  /\ mpc = "unlock"
  /\ lock' = None
  /\ mpc' = "terminate"
  /\ mi' = 1
  /\ UNCHANGED <<connections, mcur, dsVars, ds_running, handlerVars, running,
                 closed, queue, peerVars>>

\* "for c in connections: c.terminate()", not protected by the lock: the
\* list iterator is an index into a list DataSender may be shrinking.
TerminateNext ==
  /\ mpc = "terminate"
  /\ IF mi <= Len(connections)
     THEN /\ Terminate(connections[mi])
          /\ mi' = mi + 1
          /\ UNCHANGED mpc
     ELSE /\ mpc' = "join"
          /\ mi' = 1
          /\ UNCHANGED <<running, closed>>
  /\ UNCHANGED <<connections, lock, mcur, dsVars, ds_running, handlerVars, queue,
                 peerVars>>

\* "for c in connections: c.join()", then ds.running = False.
JoinNext ==
  /\ mpc = "join"
  /\ IF mi <= Len(connections)
     THEN /\ mcur' = connections[mi]
          /\ mpc' = "joining"
          /\ UNCHANGED ds_running
     ELSE /\ ds_running' = FALSE
          /\ mpc' = "join_ds"
          /\ UNCHANGED mcur
  /\ UNCHANGED <<connections, lock, mi, dsVars, handlerVars, running, closed,
                 queue, peerVars>>

Joined ==
  /\ mpc = "joining"
  /\ hpc[mcur] \in {"done", "dead"}
  /\ mi' = mi + 1
  /\ mpc' = "join"
  /\ UNCHANGED <<connections, lock, mcur, dsVars, ds_running, handlerVars, running,
                 closed, queue, peerVars>>

JoinedDataSender ==
  /\ mpc = "join_ds"
  /\ dpc \in {"done", "dead"}
  /\ mpc' = "done"
  /\ UNCHANGED <<connections, lock, mcur, mi, dsVars, ds_running, handlerVars,
                 running, closed, queue, peerVars>>

----------------------------------------------------------------------------
(* The DataSender thread. *)

Successor(p) == (p % W) + 1

\* A read that finds no data raises, sleeps and retries: not a step.
ReadStdin ==
  /\ dpc = "read"
  /\ IF ds_running
     THEN /\ dpc' = "acquire"
          /\ eof' \in {eof, eof \/ InputEnds}
          /\ packets' = IF eof' THEN packets ELSE Successor(packets)
          /\ data' = IF eof' THEN 0 ELSE packets'
     ELSE /\ dpc' = "done"
          /\ UNCHANGED <<data, packets, eof>>
  /\ UNCHANGED <<connections, lock, mainVars, di, removeconns, ds_running,
                 handlerVars, running, closed, queue, peerVars>>

\* Mutant: the lock is not waited for.
DsAcquireUnlocked ==
  /\ dpc = "acquire"
  /\ lock' = "ds"
  /\ dpc' = "send"
  /\ di' = 1
  /\ removeconns' = << >>
  /\ UNCHANGED <<connections, mainVars, data, packets, eof, ds_running, handlerVars,
                 running, closed, queue, peerVars>>

DsAcquire ==
  /\ dpc = "acquire"
  /\ lock = None
  /\ lock' = "ds"
  /\ dpc' = "send"
  /\ di' = 1
  /\ removeconns' = << >>
  /\ UNCHANGED <<connections, mainVars, data, packets, eof, ds_running, handlerVars,
                 running, closed, queue, peerVars>>

\* Mutant: a full queue drops the packet and keeps the connection.
SendLossy(c) ==
  IF ~running[c]
  THEN /\ removeconns' = Append(removeconns, c)
       /\ UNCHANGED <<queue, running, closed>>
  ELSE /\ queue' = IF Len(queue[c]) < QueueSize
                   THEN [queue EXCEPT ![c] = Append(@, data)] ELSE queue
       /\ UNCHANGED <<removeconns, running, closed>>

\* Mutant: True is returned for a terminated connection as well.
SendAlwaysTrue(c) ==
  IF ~running[c]
  THEN UNCHANGED <<removeconns, queue, running, closed>>
  ELSE IF Len(queue[c]) < QueueSize
  THEN /\ queue' = [queue EXCEPT ![c] = Append(@, data)]
       /\ UNCHANGED <<removeconns, running, closed>>
  ELSE /\ Terminate(c)
       /\ UNCHANGED <<removeconns, queue>>

\* Connection.send.  A full queue terminates the connection; the caller
\* notices when it finds it terminated the next time.
Send(c) ==
  IF ~running[c]
  THEN /\ removeconns' = Append(removeconns, c)
       /\ UNCHANGED <<queue, running, closed>>
  ELSE IF Len(queue[c]) < QueueSize
  THEN /\ queue' = [queue EXCEPT ![c] = Append(@, data)]
       /\ UNCHANGED <<removeconns, running, closed>>
  ELSE /\ Terminate(c)
       /\ UNCHANGED <<removeconns, queue>>

SendNext ==
  /\ dpc = "send"
  /\ IF di <= Len(connections)
     THEN Send(connections[di]) /\ di' = di + 1 /\ UNCHANGED dpc
     ELSE /\ dpc' = "remove"
          /\ UNCHANGED <<di, removeconns, queue, running, closed>>
  /\ UNCHANGED <<connections, lock, mainVars, data, packets, eof, ds_running,
                 handlerVars, peerVars>>

\* Mutant: the first connection of the list is removed.
RemoveFirst ==
  /\ dpc = "remove"
  /\ IF removeconns # << >>
     THEN /\ Terminate(Head(removeconns))
          /\ connections' = Tail(connections)
          /\ removeconns' = Tail(removeconns)
          /\ UNCHANGED dpc
     ELSE /\ dpc' = "release"
          /\ UNCHANGED <<connections, removeconns, running, closed>>
  /\ UNCHANGED <<lock, mainVars, data, di, packets, eof, ds_running, handlerVars, queue,
                 peerVars>>

\* connections.remove(c): a list without c raises and ends the thread, which
\* keeps the lock.
RemoveFromList(c) ==
  IF \A i \in 1..Len(connections) : connections[i] # c
  THEN /\ dpc' = "dead"
       /\ UNCHANGED <<connections, removeconns>>
  ELSE /\ \E i \in 1..Len(connections) :
            /\ connections[i] = c
            /\ \A j \in 1..(i - 1) : connections[j] # c
            /\ connections' = SubSeq(connections, 1, i - 1)
                                \o SubSeq(connections, i + 1, Len(connections))
       /\ removeconns' = Tail(removeconns)
       /\ UNCHANGED dpc

RemoveNext ==
  /\ dpc = "remove"
  /\ IF removeconns # << >>
     THEN Terminate(Head(removeconns)) /\ RemoveFromList(Head(removeconns))
     ELSE /\ dpc' = "release"
          /\ UNCHANGED <<connections, removeconns, running, closed>>
  /\ UNCHANGED <<lock, mainVars, data, di, packets, eof, ds_running, handlerVars, queue,
                 peerVars>>

\* Releasing a lock nobody holds raises and ends the thread.
DsRelease ==
  /\ dpc = "release"
  /\ dpc' = IF lock = None THEN "dead" ELSE "read"
  /\ lock' = None
  /\ UNCHANGED <<connections, mainVars, data, di, removeconns, packets, eof, ds_running,
                 handlerVars, running, closed, queue, peerVars>>

----------------------------------------------------------------------------
(* The ConnectionHandler threads. *)

\* getpeername and setsockopt raise if the socket is closed, and may if the
\* client has left.
HandlerStart(c) ==
  /\ hpc[c] = "start"
  /\ \E to \in {"loop", "dead"} :
       /\ to = "loop" => ~closed[c]
       /\ to = "dead" => closed[c] \/ peer[c] = "gone"
       /\ hpc' = [hpc EXCEPT ![c] = to]
  /\ UNCHANGED <<connections, lock, mainVars, dsVars, ds_running, sending, running,
                 closed, queue, peerVars>>

HandlerLoop(c) ==
  /\ hpc[c] = "loop"
  /\ IF running[c]
     THEN hpc' = [hpc EXCEPT ![c] = "get"] /\ UNCHANGED closed
     ELSE /\ hpc' = [hpc EXCEPT ![c] = "done"]
          /\ closed' = [closed EXCEPT ![c] = TRUE]
  /\ UNCHANGED <<connections, lock, mainVars, dsVars, ds_running, sending, running,
                 queue, peerVars>>

\* queue.get() waits for as long as the queue is empty.
HandlerGet(c) ==
  /\ hpc[c] = "get"
  /\ queue[c] # << >>
  /\ sending' = [sending EXCEPT ![c] = Head(queue[c])]
  /\ queue' = [queue EXCEPT ![c] = Tail(@)]
  /\ hpc' = [hpc EXCEPT ![c] = "sendall"]
  /\ UNCHANGED <<connections, lock, mainVars, dsVars, ds_running, running, closed,
                 peerVars>>

\* sendall on a closed socket object raises at once.
HandlerSendAll(c) ==
  /\ hpc[c] = "sendall"
  /\ IF closed[c]
     THEN /\ running' = [running EXCEPT ![c] = FALSE]
          /\ hpc' = [hpc EXCEPT ![c] = "loop"]
     ELSE /\ hpc' = [hpc EXCEPT ![c] = "sending"]
          /\ UNCHANGED running
  /\ UNCHANGED <<connections, lock, mainVars, dsVars, ds_running, sending, closed,
                 queue, peerVars>>

\* It ends when the client has read the packet (an empty one needs no
\* reading); it waits for as long as the client is stalled.
HandlerSent(c) ==
  /\ hpc[c] = "sending"
  /\ peer[c] # "stalled" \/ sending[c] = 0
  /\ hpc' = [hpc EXCEPT ![c] = "loop"]
  /\ last' = IF peer[c] = "gone" \/ sending[c] = 0 THEN last
             ELSE [last EXCEPT ![c] = sending[c]]
  /\ UNCHANGED <<connections, lock, mainVars, dsVars, ds_running, sending, running,
                 closed, queue, peer>>

\* The client has left: sooner or later sendall raises.
HandlerSendFails(c) ==
  /\ hpc[c] = "sending"
  /\ peer[c] = "gone" /\ sending[c] # 0
  /\ hpc' = [hpc EXCEPT ![c] = "loop"]
  /\ running' = [running EXCEPT ![c] = FALSE]
  /\ UNCHANGED <<connections, lock, mainVars, dsVars, ds_running, sending, closed,
                 queue, peerVars>>

----------------------------------------------------------------------------
(* The clients. *)

PeerStep(c, from, to) ==
  /\ peer[c] \in from
  /\ peer' = [peer EXCEPT ![c] = to]
  /\ UNCHANGED <<connections, lock, mainVars, dsVars, ds_running, handlerVars,
                 running, closed, queue, last>>

Stall(c) == PeerStep(c, {"reading"}, "stalled")
ReadOn(c) == PeerStep(c, {"stalled"}, "reading")
Leave(c) == PeerStep(c, {"reading", "stalled"}, "gone")

Main ==
  \/ \E c \in Clients : Accept(c)
  \/ AcquireLock \/ NewConnection \/ AppendConnection \/ ReleaseLock
  \/ Unlock \/ TerminateNext \/ JoinNext \/ Joined \/ JoinedDataSender

DataSender == ReadStdin \/ DsAcquire \/ SendNext \/ RemoveNext \/ DsRelease

Handler(c) ==
  \/ HandlerStart(c) \/ HandlerLoop(c) \/ HandlerGet(c)
  \/ HandlerSendAll(c) \/ HandlerSent(c) \/ HandlerSendFails(c)

Next ==
  \/ Main \/ Interrupt \/ DataSender
  \/ \E c \in Clients : Handler(c) \/ Stall(c) \/ ReadOn(c) \/ Leave(c)

Spec == Init /\ [][Next]_vars

\* Every thread that can run does, and sending to a client that has left
\* fails in the end; clients need not connect.
MainGoesOn ==
  \/ AcquireLock \/ NewConnection \/ AppendConnection \/ ReleaseLock
  \/ Unlock \/ TerminateNext \/ JoinNext \/ Joined \/ JoinedDataSender

FairSpec ==
  /\ Spec
  /\ WF_vars(MainGoesOn) /\ WF_vars(DataSender)
  /\ \A c \in Clients : WF_vars(Handler(c)) /\ SF_vars(HandlerSendFails(c))
----------------------------------------------------------------------------
Connected(c) == \E i \in 1..Len(connections) : connections[i] = c

TypeOK ==
  /\ connections \in Seq(Clients)
  /\ lock \in {None, "main", "ds"}
  /\ mpc \in {"accept", "acquire", "construct", "append", "release", "unlock",
              "terminate", "join", "joining", "join_ds", "done"}
  /\ mcur \in Clients \cup {None}
  /\ mi \in Nat \ {0}
  /\ dpc \in {"read", "acquire", "send", "remove", "release", "done", "dead"}
  /\ ds_running \in BOOLEAN
  /\ data \in 0..W /\ packets \in 0..W /\ eof \in BOOLEAN
  /\ di \in Nat \ {0}
  /\ removeconns \in Seq(Clients)
  /\ hpc \in [Clients -> {"none", "start", "loop", "get", "sendall", "sending",
                          "done", "dead"}]
  /\ running \in [Clients -> BOOLEAN] /\ closed \in [Clients -> BOOLEAN]
  /\ queue \in [Clients -> Seq(0..W)]
  /\ \A c \in Clients : Len(queue[c]) <= QueueSize
  /\ sending \in [Clients -> 0..W]
  /\ peer \in [Clients -> {"new", "reading", "stalled", "gone"}]
  /\ last \in [Clients -> 0..W]

\* A client receives consecutive packets: a stream is cut, never holed, by
\* full queues, terminations and removals ("Abort here, otherwise we send an
\* incomplete stream !", Connection.send, line 56).
ContiguousStream ==
  [][\A c \in Clients : last'[c] # last[c] =>
       last[c] = 0 \/ last'[c] = Successor(last[c])]_last

\* Main adds a connection to the list and DataSender goes through it, never
\* both at once (lines 124-136 and 163-165), even when an interrupted main
\* thread releases the lock DataSender holds (line 171).
ListExclusion ==
  ~(mpc \in {"construct", "append", "release"}
    /\ dpc \in {"send", "remove", "release"})

\* The main thread is in the loop of listener (lines 158-168).
Serving == mpc \in {"accept", "acquire", "construct", "append", "release"}

\* The invariant of the run: the types, one thread at a time at the list, and
\* until Control-C the DataSender goes on: it never removes a connection that
\* is not in the list, nor releases a lock that is not held (listener lines
\* 158-174, DataSender lines 122-136).
TcpInv ==
  /\ TypeOK
  /\ ListExclusion
  /\ Serving => dpc # "dead"

\* While the server runs, a handler that serves a client is in the list, or
\* about to be put there: no client is forgotten (lines 125-132, 163-165).
NoneForgotten ==
  Serving =>
    \A c \in Clients :
      running[c] => Connected(c) \/ (mpc = "append" /\ c = mcur)

\* A connection that was found dead or was aborted leaves the list.
TerminatedRemoved ==
  \A c \in Clients :
    (Connected(c) /\ ~running[c]) ~> ~Connected(c)

\* A client that stops reading or leaves does not stay connected for good:
\* its queue fills up, even when its handler is dead, or a send to it fails,
\* and it is dropped (lines 55-57, 87-88, 130-132), while stdin has data.
UnservedRemoved ==
  \A c \in Clients : []<>(peer[c] = "reading" \/ ~Connected(c) \/ eof)
============================================================================
