------------------------------- MODULE EdiSend -------------------------------
(***************************************************************************)
(* edi/edisend.py reads a file of EDI packets through its BufferedFile,    *)
(* which edidebug.py has too, and sends each as a datagram until one is    *)
(* bad.  When they are sent is the subject of Pacing.                      *)
(*                                                                         *)
(* A byte is its position in the file.                                     *)
(***************************************************************************)
EXTENDS Integers, Sequences

CONSTANTS
  PacketKinds,   \* packets of a file: sync, fec, addr, plen, crc_ok
  MaxPackets,
  MaxCut         \* bytes missing at the end of the file

ASSUME EdiSendAssumption ==
  /\ PacketKinds \subseteq [sync : {"AF", "PF", "other"}, fec : BOOLEAN,
                            addr : BOOLEAN, plen : Nat, crc_ok : BOOLEAN]
  /\ MaxPackets \in Nat /\ MaxCut \in Nat

VARIABLES
  packets,       \* the packets of the file
  starts,        \* the bytes before each
  fileSize,
  fd,            \* bytes read from the file
  buf,           \* BufferedFile.buf
  datagrams,     \* what was sent
  status         \* "written", "running", "ended", "struct.error"

edisendVars == <<packets, starts, fileSize, fd, buf, datagrams, status>>

\* The options of a PFT header: RSk and RSz, addresses.
OptionsSize(p) == (IF p.fec THEN 2 ELSE 0) + (IF p.addr THEN 4 ELSE 0)
PacketSize(p) ==
  IF p.sync = "AF" THEN 10 + p.plen + 2 ELSE 12 + OptionsSize(p) + 2 + p.plen

\* Where packet i ends, if the file is not cut.
End(i) == starts[i] + PacketSize(packets[i])
Bytes(from, to) == [i \in 1..(to - from) |-> from + i]

EdiSendInit ==
  /\ packets = << >> /\ starts = << >> /\ fileSize = 0
  /\ fd = 0 /\ buf = << >>
  /\ datagrams = << >> /\ status = "written"

WritePacket(p) ==
  /\ status = "written" /\ Len(packets) < MaxPackets
  /\ packets' = Append(packets, p)
  /\ starts' = Append(starts, fileSize)
  /\ fileSize' = fileSize + PacketSize(p)
  /\ UNCHANGED <<fd, buf, datagrams, status>>

\* The file may end within its last packet.
OpenFile(cut) ==
  /\ status = "written" /\ packets # << >>
  /\ cut < PacketSize(packets[Len(packets)])
  /\ fileSize' = fileSize - cut
  /\ status' = "running"
  /\ UNCHANGED <<packets, starts, fd, buf, datagrams>>
----------------------------------------------------------------------------
(* BufferedFile, on a state [fd, buf, data]; data is what was returned. *)

FdRead(s, n) ==
  LET to == IF s.fd + n < fileSize THEN s.fd + n ELSE fileSize
  IN Bytes(s.fd, to)

\* What is read from the file for a read of n bytes; all there is then; and how
\* many of these are returned.
More(s, n) == IF Len(s.buf) < n THEN FdRead(s, n - Len(s.buf)) ELSE << >>
Filled(s, n) == s.buf \o More(s, n)
Taken(s, n) == IF Len(Filled(s, n)) < n THEN Len(Filled(s, n)) ELSE n

\* Mutant: what was peeked stays in the buffer if the rest comes from the file.
ReadKeeping(s, n) ==
  [fd |-> s.fd + Len(More(s, n)), data |-> SubSeq(Filled(s, n), 1, Taken(s, n)),
   buf |-> IF More(s, n) # << >> THEN s.buf
           ELSE SubSeq(Filled(s, n), Taken(s, n) + 1, Len(Filled(s, n)))]

\* An empty buffer reads from the file; otherwise the buffer is filled up, and
\* the first n bytes of it are taken.
Read(s, n) ==
  [fd |-> s.fd + Len(More(s, n)), data |-> SubSeq(Filled(s, n), 1, Taken(s, n)),
   buf |-> SubSeq(Filled(s, n), Taken(s, n) + 1, Len(Filled(s, n)))]

\* The bytes behind the buffer, which are the next ones if it is empty.
Peek(s, n) ==
  LET more == FdRead(s, n)
  IN [fd |-> s.fd + Len(more), data |-> more, buf |-> s.buf \o more]
----------------------------------------------------------------------------
(* EDI.decode *)

\* The packet that begins with a byte; none if the program has lost its way.
Header(byte) == {i \in DOMAIN packets : starts[i] + 1 = byte}

Goto(s, next) == fd' = s.fd /\ buf' = s.buf /\ status' = next

\* decode_pft: header, options, CRC, and the payload if the CRC is right.
DecodePft(peeked, p) ==
  LET head == Read(peeked, 12)
      opts == Read(head, OptionsSize(p))
      crc  == Read(opts, 2)
      load == Read(crc, p.plen)
      message == head.data \o opts.data \o crc.data \o load.data
  IN IF Len(head.data \o opts.data \o crc.data) < 14 + OptionsSize(p)
       THEN Goto(crc, "struct.error") /\ UNCHANGED datagrams
     ELSE IF p.crc_ok
       THEN Goto(load, "running") /\ datagrams' = Append(datagrams, message)
     ELSE Goto(crc, "ended") /\ UNCHANGED datagrams

\* decode_af: header, payload, CRC.
DecodeAf(peeked, p) ==
  LET head == Read(peeked, 10)
      load == Read(head, p.plen)
      crc  == Read(load, 2)
  IN IF Len(head.data) < 10 \/ Len(crc.data) < 2
       THEN Goto(crc, "struct.error") /\ UNCHANGED datagrams
     ELSE IF p.crc_ok
       THEN /\ Goto(crc, "running")
            /\ datagrams' = Append(datagrams, head.data \o load.data \o crc.data)
     ELSE Goto(crc, "ended") /\ UNCHANGED datagrams

EdiDecode ==
  /\ status = "running"
  /\ LET peeked == Peek([fd |-> fd, buf |-> buf], 2)
         found  == IF Len(peeked.data) < 2 THEN {} ELSE Header(peeked.data[1])
     IN \/ /\ found = {} \/ \E i \in found : packets[i].sync = "other"
           /\ Goto(peeked, "ended") /\ UNCHANGED datagrams
        \/ \E i \in found : packets[i].sync = "PF" /\ DecodePft(peeked, packets[i])
        \/ \E i \in found : packets[i].sync = "AF" /\ DecodeAf(peeked, packets[i])
  /\ UNCHANGED <<packets, starts, fileSize>>

EdiSendNext ==
  \/ \E p \in PacketKinds : WritePacket(p)
  \/ \E cut \in 0..MaxCut : OpenFile(cut)
  \/ EdiDecode

EdiSendSpec == EdiSendInit /\ [][EdiSendNext]_edisendVars
----------------------------------------------------------------------------
\* The datagrams are the packets of the file from the first on, each as it is
\* there, whatever was read ahead of it; only a PFT fragment at the end of the
\* file may be cut off.  The program ends at the end of the file, at a packet
\* with a wrong CRC or an unknown one, and with an exception where the file
\* ends within a header or an AF packet (BufferedFile lines 39-67, EDI 84-181).
SendsTheFile ==
  LET n == Len(datagrams)
  IN /\ \A i \in 1..n :
          /\ datagrams[i] =
               Bytes(starts[i], IF End(i) < fileSize THEN End(i) ELSE fileSize)
          /\ End(i) <= fileSize \/ packets[i].sync = "PF"
          /\ packets[i].crc_ok /\ packets[i].sync # "other"
     /\ status = "ended" /\ n < Len(packets) =>
          LET p == packets[n + 1]
          IN ~p.crc_ok \/ p.sync = "other" \/ fileSize < starts[n + 1] + 2
     /\ status = "struct.error" => fileSize < End(Len(packets))
=============================================================================
