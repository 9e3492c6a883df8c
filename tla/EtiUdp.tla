------------------------------- MODULE EtiUdp -------------------------------
(***************************************************************************)
(* The sender (eti-udp/eti-udp-sender.py with the encoder of               *)
(* eti-udp/etifec.py), a UDP network and the receiver of module            *)
(* EtiReceiver.                                                            *)
(*                                                                         *)
(* A packet in flight is a pair <<group, block number>>.  The network may  *)
(* lose packets, deliver one twice, and let a packet overtake others, as   *)
(* the test network of etifec.py does (25% loss, swaps within 25 packets); *)
(* MaxLoss, MaxDup and Reorder bound how badly it behaves.                 *)
(***************************************************************************)
EXTENDS EtiReceiver

CONSTANTS
  MaxGroups,   \* groups in the sender's input file
  MaxLoss,     \* packets of one group the network may lose
  MaxDup,      \* packets the network may deliver twice, in all
  Reorder      \* older packets one packet may overtake

ASSUME UdpAssumption ==
  /\ MaxGroups \in Nat /\ MaxLoss \in Nat /\ MaxDup \in Nat
  /\ Reorder \in Nat
  /\ SeqNrs = 1..MaxGroups

VARIABLES
  seqnr,     \* the sender's counter
  sending,   \* FALSE once the input file has ended
  net,       \* packets in flight
  lost,      \* packets lost so far, of each group
  dups       \* packets delivered twice so far

senderVars == <<seqnr, sending>>
networkVars == <<net, lost, dups>>
udpVars == <<receiverVars, senderVars, networkVars>>

Packets == SeqNrs \X BlockNrs

UdpInit ==
  /\ ReceiverInit
  /\ seqnr = 0
  /\ sending = TRUE
  /\ net = {}
  /\ lost = [g \in SeqNrs |-> 0]
  /\ dups = 0

\* seqnr counts a group before it is read: the last value names no group.
Sent == IF sending THEN seqnr ELSE seqnr - 1

\* Four frames read, encoded into M blocks and sent.
SendGroup ==
  /\ sending
  /\ seqnr < MaxGroups
  /\ seqnr' = seqnr + 1
  /\ net' = net \cup {<<seqnr + 1, bn>> : bn \in BlockNrs}
  /\ UNCHANGED <<receiverVars, sending, lost, dups>>

\* The reader raises EtiReaderException, the loop is left.
EndOfFile ==
  /\ sending
  /\ seqnr = MaxGroups
  /\ seqnr' = seqnr + 1
  /\ sending' = FALSE
  /\ UNCHANGED <<receiverVars, networkVars>>

\* Packets in flight that were sent before p.
Older(p) ==
  {q \in net : q[1] < p[1] \/ (q[1] = p[1] /\ q[2] < p[2])}

Arrive(p) ==
  /\ Cardinality(Older(p)) <= Reorder
  /\ \/ Receive(p[1], p[2])
     \/ Ignore(p[1])
  /\ UNCHANGED <<senderVars, lost>>

Deliver(p) == Arrive(p) /\ net' = net \ {p} /\ UNCHANGED dups

DeliverCopy(p) ==
  /\ dups < MaxDup
  /\ Arrive(p)
  /\ dups' = dups + 1
  /\ UNCHANGED net

Lose(p) ==
  /\ lost[p[1]] < MaxLoss
  /\ net' = net \ {p}
  /\ lost' = [lost EXCEPT ![p[1]] = @ + 1]
  /\ UNCHANGED <<receiverVars, senderVars, dups>>

Continue == Resume /\ UNCHANGED <<senderVars, networkVars>>

UdpNext ==
  \/ SendGroup
  \/ EndOfFile
  \/ \E p \in net : Deliver(p) \/ DeliverCopy(p) \/ Lose(p)
  \/ Continue

UdpSpec == UdpInit /\ [][UdpNext]_udpVars

\* A packet in flight reaches a receiver that reads its socket.
FairUdpSpec == UdpSpec /\ WF_udpVars(\E p \in net : Deliver(p))
----------------------------------------------------------------------------
UdpTypeOK ==
  /\ TypeOK
  /\ seqnr \in 0..(MaxGroups + 1)
  /\ sending \in BOOLEAN
  /\ net \subseteq Packets
  /\ lost \in [SeqNrs -> 0..MaxLoss]
  /\ dups \in 0..MaxDup

\* The groups on the output, as the abstract specification sees them.
WrittenGroups == [i \in 1..Len(rx_eti_stream) |-> rx_eti_stream[i].sn]

Stream == INSTANCE EtiStream WITH sent <- Sent, stream <- WrittenGroups

\* The transport does what EtiStream says: it writes groups that were sent,
\* in order, each once (recieve_eti lines 79-91).
ImplementsStream == Stream!Spec

\* If the network duplicates nothing, what is written is what was sent:
\* the receiver never decodes from the same block twice, whatever is lost,
\* reordered or given up (recieve_eti lines 55-72).
IntactWithoutDuplicates ==
  dups = 0 => /\ status # "zfec.Error"
              /\ \A i \in 1..Len(rx_eti_stream) :
                   rx_eti_stream[i].data = "intact"

\* The network duplicates nothing and loses no more than the code repairs.
FewLosses == dups = 0 /\ \A g \in SeqNrs : lost[g] <= M - K

\* On such a network, if it also reorders little, every group that is sent is
\* written in the end, whether or not the output had to wait for it: none is
\* skipped or given up (recieve_eti lines 77-91).
EveryGroupWritten ==
  []FewLosses =>
    \A g \in SeqNrs :
      seqnr >= g ~> \E i \in 1..Len(rx_eti_stream) : rx_eti_stream[i].sn = g
----------------------------------------------------------------------------
(* What the proofs need besides the receiver's invariant. *)

\* Only groups that were sent are in flight, held or decoded.
OnlySent ==
  /\ sending => seqnr <= MaxGroups
  /\ \A p \in net : p[1] <= Sent
  /\ \A g \in SeqNrs :
       blocks_grouped[g] # << >> \/ decodedeti[g] # Absent => g <= Sent

\* While nothing is duplicated, the blocks held of a group are different ones,
\* none of them is still in flight, and nothing decoded is garbled.
BlocksOnce ==
  dups = 0 =>
    \A g \in SeqNrs :
      /\ IsInjective(blocks_grouped[g])
      /\ \A i \in DOMAIN blocks_grouped[g] : <<g, blocks_grouped[g][i]>> \notin net
      /\ decodedeti[g] # "garbled"

UdpIndInv == UdpTypeOK /\ IndInv /\ OnlySent /\ BlocksOnce
============================================================================
