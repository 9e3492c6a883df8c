---------------------------- MODULE EtiReceiver ----------------------------
(***************************************************************************)
(* The receiving end of the ETI-over-UDP transport                         *)
(* (eti-udp/eti-udp-receiver.py, function recieve_eti, and the decoder of  *)
(* eti-udp/etifec.py).                                                     *)
(*                                                                         *)
(* The sender cuts four ETI frames, a "group", into K blocks, adds M - K   *)
(* parity blocks and sends every block in a UDP packet that carries the    *)
(* group's sequence number and the block's number.  The receiver collects  *)
(* blocks per group, decodes a group when it holds K blocks of it, and     *)
(* writes decoded groups to its output in the order of their numbers.      *)
(*                                                                         *)
(* The handling of one packet (the body of "while True") is one action:    *)
(* the process is single-threaded and its state is visible to nobody else. *)
(* The one place where it stops in the middle is the debugger trap in the  *)
(* give-up branch, after which Resume runs the rest of the body.           *)
(***************************************************************************)
EXTENDS Integers, Sequences, FiniteSets, Functions

CONSTANTS
  K,                 \* blocks needed to decode a group (k = 40)
  M,                 \* blocks sent per group (m = 60)
  START_DELAY,       \* initial value of start_delay (10)
  MAX_WAIT_GROUPS,   \* etifec.py, 8
  SeqNrs,            \* sequence numbers a packet can carry
  Breakpoint         \* TRUE: with the ipdb trap of eti-udp-receiver.py;
                     \* FALSE: the same loop in etifec.py, which has no trap

\* The code's numbers satisfy this: 2 <= 10 <= 40 <= 60.
ASSUME ReceiverAssumption ==
  /\ K \in Nat \ {0} /\ M \in Nat /\ K <= M
  /\ START_DELAY \in 2..K
  /\ MAX_WAIT_GROUPS \in Nat
  /\ SeqNrs \subseteq Nat
  /\ Breakpoint \in BOOLEAN

BlockNrs == 0..(M - 1)

VARIABLES
  blocks_grouped,  \* numbers of the blocks held of each group, in arrival
                   \* order; << >> stands for "no such key in the dictionary"
  decodedeti,      \* decoded groups waiting for their turn, or Absent
  ignore_groups,   \* groups decoded or given up: their packets are dropped
  start_delay,     \* packets still to see before the output starts
  curr_seqnr,      \* the next group to write
  rx_eti_stream,   \* what has been written: records [sn, data]
  status           \* "running", "debugger", or the exception that ended it

receiverVars == <<blocks_grouped, decodedeti, ignore_groups, start_delay,
                  curr_seqnr, rx_eti_stream, status>>

Absent == "absent"
Frames == {"intact", "garbled"}
Statuses == {"running", "debugger", "zfec.Error", "ValueError", "KeyError"}

ReceiverInit ==
  /\ blocks_grouped = [g \in SeqNrs |-> << >>]
  /\ decodedeti = [g \in SeqNrs |-> Absent]
  /\ ignore_groups = {}
  /\ start_delay = START_DELAY
  /\ curr_seqnr = -1
  /\ rx_eti_stream = << >>
  /\ status = "running"

\* The keys of the dictionary blocks_grouped.
Keys(grouped) == {g \in SeqNrs : grouped[g] # << >>}

\* Mutant: "> k" for ">= k".
CompleteLate(grouped) == {g \in SeqNrs : Len(grouped[g]) > K}

\* Groups the loop over blocks_grouped decodes.
Complete(grouped) == {g \in SeqNrs : Len(grouped[g]) >= K}

\* Mutant: the block numbers are sorted, their blocks are not.
DecodeResultsSorted(blocks) ==
  IF \A i, j \in DOMAIN blocks : i < j => blocks[i] < blocks[j]
  THEN {"intact"} ELSE {"garbled"}

\* zfec reproduces the group from K different blocks.  Nothing in the
\* receiver removes a duplicated block; given two blocks with one number
\* zfec inverts a singular matrix: it returns wrong bytes or raises.
DecodeResults(blocks) ==
  IF IsInjective(blocks) THEN {"intact"} ELSE {"garbled", "raises"}

\* A packet of a group that is not ignored is filed under its group.
Register(sn, bn) == [blocks_grouped EXCEPT ![sn] = Append(@, bn)]

\* The give-up branch counts the groups in blocks_grouped, the incomplete
\* ones, stale ones included.
TooManyWaiting(grouped) == Cardinality(Keys(grouped)) > MAX_WAIT_GROUPS

\* Groups [start, next) leave decodedeti for the output stream.
Written(start, next, decoded) ==
  [i \in 1..(next - start) |->
     [sn |-> start + i - 1, data |-> decoded[start + i - 1]]]

Without(decoded, gone) ==
  [g \in SeqNrs |-> IF g \in gone THEN Absent ELSE decoded[g]]

\* Declare the current group lost and go on to the next one.
GiveUp(decoded, ignored, curr) ==
  /\ decodedeti' = Without(decoded, {curr})
  /\ ignore_groups' = ignored \cup {curr}
  /\ curr_seqnr' = curr + 1
  /\ status' = "running"

\* "while curr_seqnr in ignore_groups": next is where the loop ends, at a
\* group that is not in ignore_groups, or at one that is but that
\* decodedeti does not hold, where the lookup raises KeyError.
WriteReady(start, grouped, decoded, ignored) ==
  \E next \in start..(start + Cardinality(ignored)) :
    /\ \A g \in start..(next - 1) : g \in ignored /\ decoded[g] # Absent
    /\ next \in ignored => decoded[next] = Absent
    /\ rx_eti_stream' = rx_eti_stream \o Written(start, next, decoded)
    /\ blocks_grouped' = grouped
    /\ LET rest == Without(decoded, start..(next - 1))
       IN IF next \notin ignored /\ TooManyWaiting(grouped) /\ ~Breakpoint
          THEN GiveUp(rest, ignored, next)
          ELSE /\ decodedeti' = rest
               /\ ignore_groups' = ignored
               /\ curr_seqnr' = next
               /\ status' = IF next \in ignored THEN "KeyError"
                            ELSE IF TooManyWaiting(grouped) THEN "debugger"
                            ELSE "running"

\* Mutant: the output restarts from the oldest group held at every packet.
OrderRestarting(grouped, decoded, ignored) ==
  LET delay == IF start_delay > 0 THEN start_delay - 1 ELSE start_delay
      held == Keys(grouped) \cup {g \in SeqNrs : decoded[g] # Absent}
      starts == {g \in held : \A h \in held : g <= h}
  IN /\ start_delay' = delay
     /\ IF delay > 1 \/ starts = {}
        THEN /\ blocks_grouped' = grouped
             /\ decodedeti' = decoded
             /\ ignore_groups' = ignored
             /\ UNCHANGED <<curr_seqnr, rx_eti_stream, status>>
        ELSE \E start \in starts : WriteReady(start, grouped, decoded, ignored)

\* The output starts with the oldest group that is still incomplete when
\* start_delay reaches 1; min() of no groups raises ValueError.
Order(grouped, decoded, ignored) ==
  LET delay == IF start_delay > 0 THEN start_delay - 1 ELSE start_delay
      starts == IF delay = 1
                THEN {g \in Keys(grouped) : \A h \in Keys(grouped) : g <= h}
                ELSE {curr_seqnr}
  IN /\ start_delay' = delay
     /\ IF delay > 1 \/ starts = {}
        THEN /\ blocks_grouped' = grouped
             /\ decodedeti' = decoded
             /\ ignore_groups' = ignored
             /\ status' = IF delay > 1 THEN status ELSE "ValueError"
             /\ UNCHANGED <<curr_seqnr, rx_eti_stream>>
        ELSE \E start \in starts : WriteReady(start, grouped, decoded, ignored)

\* An exception of zfec is caught by nobody and ends the receiver.
DecoderRaises(grouped) ==
  /\ \E g \in Complete(grouped) : "raises" \in DecodeResults(grouped[g])
  /\ blocks_grouped' = grouped
  /\ status' = "zfec.Error"
  /\ UNCHANGED <<decodedeti, ignore_groups, start_delay, curr_seqnr,
                 rx_eti_stream>>

\* Mutant: no "del blocks_grouped[group_sn]".
StillGroupedAll(grouped) == grouped

\* Complete groups move from blocks_grouped to decodedeti.
StillGrouped(grouped) ==
  [g \in SeqNrs |-> IF g \in Complete(grouped) THEN << >> ELSE grouped[g]]

NowDecoded(grouped, frame) ==
  [g \in SeqNrs |->
     IF g \in Complete(grouped) THEN frame[g] ELSE decodedeti[g]]

\* Every complete group is decoded, then the output is advanced.
DecodeAndOrder(grouped) ==
  \E frame \in [Complete(grouped) -> Frames] :
    /\ \A g \in Complete(grouped) : frame[g] \in DecodeResults(grouped[g])
    /\ Order(StillGrouped(grouped), NowDecoded(grouped, frame),
             ignore_groups \cup Complete(grouped))

\* Mutant: packets of ignored groups are filed as well.
ReceiveAll(sn, bn) ==
  /\ status = "running"
  /\ \/ DecoderRaises(Register(sn, bn))
     \/ DecodeAndOrder(Register(sn, bn))

\* One packet: block bn of group sn.
Receive(sn, bn) ==
  /\ status = "running"
  /\ sn \notin ignore_groups
  /\ \/ DecoderRaises(Register(sn, bn))
     \/ DecodeAndOrder(Register(sn, bn))

\* A packet of a group already decoded or given up is dropped.
Ignore(sn) ==
  /\ status = "running"
  /\ sn \in ignore_groups
  /\ UNCHANGED receiverVars

\* Somebody types "continue" at the debugger's prompt.
Resume ==
  /\ status = "debugger"
  /\ GiveUp(decodedeti, ignore_groups, curr_seqnr)
  /\ UNCHANGED <<blocks_grouped, start_delay, rx_eti_stream>>

ReceiverNext ==
  \/ \E sn \in SeqNrs, bn \in BlockNrs : Receive(sn, bn)
  \/ \E sn \in SeqNrs : Ignore(sn)
  \/ Resume

ReceiverSpec == ReceiverInit /\ [][ReceiverNext]_receiverVars
----------------------------------------------------------------------------
\* Types of the receiver's state.
TypeOK ==
  /\ blocks_grouped \in [SeqNrs -> Seq(BlockNrs)]
  /\ decodedeti \in [SeqNrs -> Frames \cup {Absent}]
  /\ ignore_groups \subseteq Nat
  /\ start_delay \in 0..START_DELAY
  /\ curr_seqnr \in Nat \cup {-1}
  /\ rx_eti_stream \in Seq([sn : SeqNrs, data : Frames])
  /\ status \in Statuses

\* Whatever packets arrive, in whatever order, min() always has a group to
\* choose from and decodedeti always holds the group the write loop asks for
\* (recieve_eti lines 78 and 81).
NoInternalError == status \notin {"ValueError", "KeyError"}

\* Groups are written in the order of their numbers, none of them twice.
InOrder ==
  \A i, j \in 1..Len(rx_eti_stream) :
    i < j => rx_eti_stream[i].sn < rx_eti_stream[j].sn

\* A group is waiting for blocks, or waiting to be written, or written, or
\* none of these, but never two of them: no block is kept for a group that
\* is decoded, and nothing written stays in decodedeti.
OnePlace ==
  \A g \in SeqNrs :
    /\ decodedeti[g] # Absent => blocks_grouped[g] = << >>
    /\ \A i \in 1..Len(rx_eti_stream) :
         rx_eti_stream[i].sn = g => decodedeti[g] = Absent

\* What the write loop relies on: an ignored group it has not passed yet is
\* one it has the frames of.
Pending ==
  \A g \in ignore_groups :
    g >= curr_seqnr => g \in SeqNrs /\ decodedeti[g] # Absent

\* The receiver never holds K blocks of one group after it handled a packet
\* (unless the decoder raised), so the decode loop finds at most one group.
BlocksBelowK ==
  status # "zfec.Error" => \A g \in SeqNrs : Len(blocks_grouped[g]) < K

\* A group the receiver has declared decoded or lost stays so: no later
\* packet reopens it, and nothing written is taken back or changed.
NeverReopened ==
  [][/\ ignore_groups \subseteq ignore_groups'
     /\ \A g \in ignore_groups \cap SeqNrs :
          blocks_grouped[g] = << >> => blocks_grouped'[g] = << >>
     /\ Len(rx_eti_stream) <= Len(rx_eti_stream')
     /\ SubSeq(rx_eti_stream', 1, Len(rx_eti_stream)) = rx_eti_stream
    ]_receiverVars
----------------------------------------------------------------------------
(* The inductive invariant the proofs use: the parts above and what the    *)
(* write loop needs besides.                                               *)

\* A decoded group is ignored, and none of its blocks are kept.
DecodedIgnored ==
  \A g \in SeqNrs :
    decodedeti[g] # Absent => g \in ignore_groups /\ blocks_grouped[g] = << >>

\* The write loop has passed everything that is written.
WrittenPassed ==
  \A i \in 1..Len(rx_eti_stream) :
    LET g == rx_eti_stream[i].sn
    IN g < curr_seqnr /\ g \in ignore_groups /\ decodedeti[g] = Absent

\* Before the output starts fewer packets than START_DELAY have been filed:
\* no group can be complete.
Starting ==
  IF start_delay > 1
  THEN status # "zfec.Error" =>
         /\ status = "running"
         /\ ignore_groups = {}
         /\ rx_eti_stream = << >>
         /\ curr_seqnr = -1
         /\ \A g \in SeqNrs :
              Len(blocks_grouped[g]) <= START_DELAY - start_delay
  ELSE curr_seqnr \in Nat

IndInv ==
  /\ TypeOK
  /\ NoInternalError
  /\ InOrder
  /\ BlocksBelowK
  /\ DecodedIgnored
  /\ Pending
  /\ WrittenPassed
  /\ Starting
============================================================================
