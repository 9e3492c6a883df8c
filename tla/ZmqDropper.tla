----------------------------- MODULE ZmqDropper -----------------------------
(***************************************************************************)
(* zmqtest/zmq-dropper/zmq-dropper.c: forwards messages from a subscriber  *)
(* socket to a publisher socket, and drops one for every SIGUSR1.          *)
(*                                                                         *)
(* The signal handler interrupts the main loop between any two machine     *)
(* instructions.  drop_frames is a plain int, so "drop_frames--" may be    *)
(* one instruction or a load and a store with the handler between them     *)
(* (the build decides: both are allowed).  A second SIGUSR1 that arrives    *)
(* while one is pending is merged with it by the kernel.                   *)
(*                                                                         *)
(* A message is a number and a length; the buffer holds one cell for each  *)
(* ETI frame, with the number of the message that wrote it.                *)
(***************************************************************************)
EXTENDS Integers, Sequences, FiniteSets, SequencesExt

CONSTANTS
  NUM_FRAMES_PER_ZMQ_MESSAGE,   \* 4
  Lengths,                      \* lengths of the messages, in frames
  MaxMessages,                  \* messages published upstream
  MaxSignals                    \* SIGUSR1 sent

ASSUME DropperAssumption ==
  /\ NUM_FRAMES_PER_ZMQ_MESSAGE \in Nat \ {0}
  /\ Lengths \subseteq Nat
  /\ MaxMessages \in Nat /\ MaxSignals \in Nat

Cells == 1..NUM_FRAMES_PER_ZMQ_MESSAGE

VARIABLES
  upstream,      \* messages not received yet: records [id, len]
  published,     \* messages published upstream so far
  signals,       \* signals sent
  pending,       \* SIGUSR1 is pending
  handled,       \* runs of signalHandler
  drop_frames,
  pc,            \* "recv", "check", "dec", "store" or "send"
  register,      \* drop_frames - 1, between the load and the store
  rc,            \* zmq_recv's result: the length of the message
  current,       \* number of the message received
  eti,           \* the buffer: the message each cell comes from; 0 is
                 \* uninitialised memory
  dropped,       \* numbers of the messages dropped
  forwarded      \* what was sent: records [id, len, eti]

vars == <<upstream, published, signals, pending, handled, drop_frames, pc, register,
          rc, current, eti, dropped, forwarded>>

Init ==
  /\ upstream = << >> /\ published = 0
  /\ signals = 0 /\ pending = FALSE /\ handled = 0
  /\ drop_frames = 0
  /\ pc = "recv" /\ register = 0 /\ rc = 0 /\ current = 0
  /\ eti = [i \in Cells |-> 0]
  /\ dropped = << >> /\ forwarded = << >>

Publish(len) ==
  /\ published < MaxMessages
  /\ published' = published + 1
  /\ upstream' = Append(upstream, [id |-> published + 1, len |-> len])
  /\ UNCHANGED <<signals, pending, handled, drop_frames, pc, register, rc, current,
                 eti, dropped, forwarded>>

\* kill(pid, SIGUSR1).
Signal ==
  /\ signals < MaxSignals
  /\ signals' = signals + 1
  /\ pending' = TRUE
  /\ UNCHANGED <<upstream, published, handled, drop_frames, pc, register, rc, current,
                 eti, dropped, forwarded>>

\* Wherever the main loop is; a zmq_recv it interrupts returns EINTR and is
\* called again.
signalHandler ==
  /\ pending
  /\ pending' = FALSE
  /\ handled' = handled + 1
  /\ drop_frames' = drop_frames + 1
  /\ UNCHANGED <<upstream, published, signals, pc, register, rc, current, eti, dropped,
                 forwarded>>

Smaller(a, b) == IF a < b THEN a ELSE b

\* Mutant: the length given to zmq_recv is one frame too small.
RecvShort ==
  /\ pc = "recv"
  /\ upstream # << >>
  /\ LET m == Head(upstream)
     IN /\ rc' = m.len
        /\ current' = m.id
        /\ eti' = [i \in Cells |->
             IF i <= m.len /\ i < NUM_FRAMES_PER_ZMQ_MESSAGE THEN m.id ELSE eti[i]]
        /\ pc' = IF m.len > 0 THEN "check" ELSE "recv"
  /\ upstream' = Tail(upstream)
  /\ UNCHANGED <<published, signals, pending, handled, drop_frames, register, dropped,
                 forwarded>>

\* zmq_recv writes at most framelen bytes and returns the message's length.
\* The rest of the buffer keeps what an earlier message left there.  An
\* empty message is only logged.
Recv ==
  /\ pc = "recv"
  /\ upstream # << >>
  /\ LET m == Head(upstream)
     IN /\ rc' = m.len
        /\ current' = m.id
        /\ eti' = [i \in Cells |-> IF i <= m.len THEN m.id ELSE eti[i]]
        /\ pc' = IF m.len > 0 THEN "check" ELSE "recv"
  /\ upstream' = Tail(upstream)
  /\ UNCHANGED <<published, signals, pending, handled, drop_frames, register, dropped,
                 forwarded>>

\* if (drop_frames)
Check ==
  /\ pc = "check"
  /\ pc' = IF drop_frames # 0 THEN "dec" ELSE "send"
  /\ UNCHANGED <<upstream, published, signals, pending, handled, drop_frames, register,
                 rc, current, eti, dropped, forwarded>>

\* Mutant: the counter is never decremented.
DecrementNot ==
  /\ pc = "dec"
  /\ dropped' = Append(dropped, current)
  /\ pc' = "recv"
  /\ UNCHANGED <<drop_frames, upstream, published, signals, pending, handled, register,
                 rc, current, eti, forwarded>>

\* drop_frames--, in one instruction.
Decrement ==
  /\ pc = "dec"
  /\ drop_frames' = drop_frames - 1
  /\ dropped' = Append(dropped, current)
  /\ pc' = "recv"
  /\ UNCHANGED <<upstream, published, signals, pending, handled, register, rc, current,
                 eti, forwarded>>

\* drop_frames--, in two.
Load ==
  /\ pc = "dec"
  /\ register' = drop_frames - 1
  /\ pc' = "store"
  /\ UNCHANGED <<upstream, published, signals, pending, handled, drop_frames, rc,
                 current, eti, dropped, forwarded>>

Store ==
  /\ pc = "store"
  /\ drop_frames' = register
  /\ dropped' = Append(dropped, current)
  /\ pc' = "recv"
  /\ UNCHANGED <<upstream, published, signals, pending, handled, register, rc, current,
                 eti, forwarded>>

\* Mutant: zmq_send is repeated when a signal interrupts it.
SendAgain ==
  /\ pc = "send"
  /\ forwarded' = Append(forwarded, [id |-> current, len |-> rc, eti |-> eti])
  /\ pc' = IF pending THEN "send" ELSE "recv"
  /\ UNCHANGED <<upstream, published, signals, pending, handled, drop_frames, register,
                 rc, current, eti, dropped>>

\* zmq_send sends framelen bytes, not rc.
Send ==
  /\ pc = "send"
  /\ forwarded' = Append(forwarded, [id |-> current, len |-> rc, eti |-> eti])
  /\ pc' = "recv"
  /\ UNCHANGED <<upstream, published, signals, pending, handled, drop_frames, register,
                 rc, current, eti, dropped>>

MainLoop == Recv \/ Check \/ Decrement \/ Load \/ Store \/ Send

Next ==
  \/ \E len \in Lengths : Publish(len)
  \/ Signal \/ signalHandler \/ MainLoop

Spec == Init /\ [][Next]_vars
----------------------------------------------------------------------------
Ids(s) == {s[i].id : i \in 1..Len(s)}

TypeOK ==
  /\ upstream \in Seq([id : 1..MaxMessages, len : Lengths])
  /\ published \in 0..MaxMessages
  /\ signals \in 0..MaxSignals /\ pending \in BOOLEAN /\ handled \in 0..MaxSignals
  /\ drop_frames \in 0..MaxSignals
  /\ pc \in {"recv", "check", "dec", "store", "send"}
  /\ register \in 0..MaxSignals
  /\ rc \in Lengths \cup {0}
  /\ current \in 0..MaxMessages
  /\ eti \in [Cells -> 0..MaxMessages]
  /\ dropped \in Seq(1..MaxMessages)
  /\ forwarded \in Seq([id : 1..MaxMessages, len : Lengths, eti : [Cells -> 0..MaxMessages]])

\* Messages are forwarded in the order they came, each once, unless dropped
\* (lines 101-114), whenever signals arrive.
ForwardedInOrder ==
  /\ \A i, j \in 1..Len(forwarded) : i < j => forwarded[i].id < forwarded[j].id
  /\ Ids(forwarded) \cap ToSet(dropped) = {}

\* A message is dropped for a signal, never on its own, and no drop to come
\* is made up, even when the handler interrupts the decrement (lines 23-29,
\* 103-105).
DropsNoMoreThanSignalled == drop_frames + Len(dropped) <= handled

\* The invariant of the run: the types, and no more drops than signals (main
\* lines 100-128).
DropperInv == TypeOK /\ DropsNoMoreThanSignalled

\* "Each time a SIGUSR1 is received, one message gets dropped" (line 15):
\* between two messages, every signal handled has had its message or has it
\* to come.
EachSignalDropsOne ==
  pc = "recv" => drop_frames + Len(dropped) = handled

\* A message of NUM_FRAMES_PER_ZMQ_MESSAGE frames is forwarded as it was
\* received, whatever the buffer held before (lines 101, 108).
FullMessagesIntact ==
  \A i \in 1..Len(forwarded) :
    LET m == forwarded[i]
    IN m.len = NUM_FRAMES_PER_ZMQ_MESSAGE => \A c \in Cells : m.eti[c] = m.id
=============================================================================
