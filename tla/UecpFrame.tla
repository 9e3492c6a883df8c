------------------------------ MODULE UecpFrame ------------------------------
(***************************************************************************)
(* uecpparse/uecp_parse.py: UECP frames, byte-stuffed, arrive in pieces in  *)
(* the ancillary bytes of UDP datagrams.  One decoder object collects the   *)
(* bytes of a frame across datagrams, from STA to STO.                      *)
(*                                                                         *)
(* The source of the frames is external: it stuffs each frame and cuts the  *)
(* bytes into datagrams anywhere.  A datagram may be lost (the socket's     *)
(* buffer is full while the parser prints).                                 *)
(*                                                                         *)
(* Every exception ends the program.  An IndexError is not caught; a        *)
(* ValueError is, but its handler evaluates line_nr, which is defined       *)
(* nowhere, before it can renew the decoder (lines 221-223).                *)
(*                                                                         *)
(* The CRC is compared and the result logged (line 169, 183): no decision   *)
(* depends on it, so its two bytes are data like others here.               *)
(***************************************************************************)
EXTENDS Naturals, SequencesExt

CONSTANTS
  Frames,       \* the frames the source may send: [addr, sqc, msg, crc]
  MaxFrames,    \* bound: frames sent
  MaxChunk,     \* bound: ancillary bytes in a datagram
  MaxLosses     \* bound: datagrams lost

ESC == 253  \* 0xFD
STA == 254  \* 0xFE
STO == 255  \* 0xFF
Byte == 0..255

\* Message Element Codes whose contents are looked at.
PS == 2
RT == 10

ASSUME FramesAssumption ==
  /\ \A f \in Frames :
       /\ f.addr \in Byte \X Byte /\ f.crc \in Byte \X Byte /\ f.sqc \in Byte
       /\ f.msg \in Seq(Byte) /\ Len(f.msg) \in 1..255
  /\ MaxFrames \in Nat /\ MaxChunk \in 1..252 /\ MaxLosses \in Nat

VARIABLES
  uecp,      \* the decoder: next_untrap, message_begin_seen, data
  decoded,   \* what decode_frame has decoded, one entry per call
  status,    \* "running", "failed" (an exception), "ended" (an empty datagram)
  sent,      \* the frames sent
  outgoing,  \* stuffed bytes not in a datagram yet
  losses     \* datagrams lost

uecpVars == <<uecp, decoded, status, sent, outgoing, losses>>

------------------------------------------------------------------------------
(* The source of the frames (external)                                      *)

FrameBytes(f) ==
  <<STA>> \o f.addr \o <<f.sqc, Len(f.msg)>> \o f.msg \o f.crc \o <<STO>>

Stuff(b) == IF b \in {ESC, STA, STO} THEN <<ESC, b - ESC>> ELSE <<b>>

Stuffed(f) ==
  LET bytes == FrameBytes(f)
      body  == SubSeq(bytes, 2, Len(bytes) - 1)
      stuffed[n \in 0..Len(body)] ==
        IF n = 0 THEN <<STA>> ELSE stuffed[n - 1] \o Stuff(body[n])
  IN  stuffed[Len(body)] \o <<STO>>

\* The two ways ancillary bytes lie at the end of an MPEG audio frame: last
\* byte first, after an optional 0xFD and their number.  What precedes them in
\* the datagram is audio (here a byte).
WithAudio(anc) ==
  {<<7>> \o Reverse(head \o anc) : head \in {<<ESC, Len(anc)>>, <<Len(anc)>>}}

------------------------------------------------------------------------------
(* UECP_Message_Decoder and UECP_Frame_Decoder                               *)

NewDecoder == [next_untrap |-> FALSE, message_begin_seen |-> FALSE, data |-> <<>>]

\* UECP_Message_Decoder raises nothing.
MessageDecodes(msg) ==
  /\ msg # <<>>
  /\ msg[1] \in 1..253
  /\ msg[1] = PS => Len(msg) >= 3
  /\ msg[1] = RT => Len(msg) >= 5

\* Frames that the decoder raises nothing for.
ASSUME SourceAssumption == \A f \in Frames : MessageDecodes(f.msg)

Message(data) == SubSeq(data, 6, 5 + data[5])

\* Mutant: the bytes around the message are miscounted.
FrameDecodesMiscounted(data) ==
  /\ Len(data) >= 5
  /\ data[5] + 7 = Len(data)
  /\ MessageDecodes(Message(data))

\* decode_frame raises nothing: the header is there, MFL is the length of the
\* message, and the message can be decoded.
FrameDecodes(data) ==
  /\ Len(data) >= 5
  /\ data[5] + 8 = Len(data)
  /\ MessageDecodes(Message(data))

\* A parser in the middle of a datagram.
Parser == [uecp |-> uecp, decoded |-> decoded, status |-> status]

\* add_byte decodes the frame it has completed; parse_anc_bytes decodes it
\* again and makes a new decoder.
FrameEnded(p, data) ==
  IF FrameDecodes(data)
  THEN [p EXCEPT !.uecp = NewDecoder, !.decoded = @ \o <<data, data>>]
  ELSE [p EXCEPT !.status = "failed", !.uecp.data = data]

AddByte(p, b) ==
  LET u == p.uecp
      Added(d) == [p EXCEPT !.uecp.data = Append(@, d),
                            !.uecp.next_untrap = FALSE]
  IN IF p.status = "failed" THEN p
     ELSE IF u.next_untrap
       THEN IF b \in 0..2 THEN Added(ESC + b)
            ELSE [p EXCEPT !.status = "failed", !.uecp.next_untrap = FALSE]
     ELSE IF ~u.message_begin_seen
       THEN IF b = STA THEN [p EXCEPT !.uecp.data = Append(@, b),
                                      !.uecp.message_begin_seen = TRUE]
            ELSE p
     ELSE CASE b = ESC -> [p EXCEPT !.uecp.next_untrap = TRUE]
            [] b = STO -> FrameEnded(p, Append(u.data, b))
            [] OTHER   -> Added(b)

\* The loop over the bytes of a datagram.
ParseBytes(p, anc) ==
  LET parsed[n \in 0..Len(anc)] ==
        IF n = 0 THEN p ELSE AddByte(parsed[n - 1], anc[n])
  IN  parsed[Len(anc)]

\* Mutant: a new decoder for every datagram.
ParseAncBytesFresh(anc) == ParseBytes([Parser EXCEPT !.uecp = NewDecoder], anc)

\* parse_anc_bytes
ParseAncBytes(anc) == ParseBytes(Parser, anc)

\* The ancillary bytes of a datagram.
AncBytes(datagram) ==
  LET line == Reverse(datagram)
  IN  CASE line[1] = ESC -> SubSeq(line, 3, 2 + line[2])
        [] line[1] = 0   -> <<>>
        [] OTHER         -> SubSeq(line, 2, 1 + line[1])

------------------------------------------------------------------------------
UecpInit ==
  /\ uecp = NewDecoder
  /\ decoded = <<>>
  /\ status = "running"
  /\ sent = <<>>
  /\ outgoing = <<>>
  /\ losses = 0

SendFrame ==
  /\ Len(sent) < MaxFrames
  /\ Len(outgoing) < MaxChunk
  /\ \E f \in Frames :
       /\ sent' = Append(sent, f)
       /\ outgoing' = outgoing \o Stuffed(f)
  /\ UNCHANGED <<uecp, decoded, status, losses>>

\* The next datagram: its bytes and what stays behind.
Cut(n) ==
  /\ n <= Len(outgoing)
  /\ outgoing' = SubSeq(outgoing, n + 1, Len(outgoing))
  /\ UNCHANGED sent

\* The body of the main loop.
Receive ==
  /\ status = "running"
  /\ \E n \in 1..MaxChunk :
       /\ Cut(n)
       /\ \E datagram \in WithAudio(SubSeq(outgoing, 1, n)) :
            LET p == ParseAncBytes(AncBytes(datagram))
            IN  /\ uecp' = p.uecp
                /\ decoded' = p.decoded
                /\ status' = p.status
  /\ UNCHANGED losses

Lose ==
  /\ losses < MaxLosses
  /\ losses' = losses + 1
  /\ \E n \in 1..MaxChunk : Cut(n)
  /\ UNCHANGED <<uecp, decoded, status>>

\* An empty datagram ends the loop.
ReceiveEmpty ==
  /\ status = "running"
  /\ status' = "ended"
  /\ UNCHANGED <<uecp, decoded, sent, outgoing, losses>>

UecpNext == SendFrame \/ Receive \/ Lose \/ ReceiveEmpty

UecpSpec == UecpInit /\ [][UecpNext]_uecpVars

------------------------------------------------------------------------------
(* Properties                                                               *)

\* The decoder's fields agree: bytes are collected only after STA, which is the
\* first of them, and an escape is pending only inside a frame.
UecpTypeOK ==
  /\ uecp.next_untrap \in BOOLEAN /\ uecp.message_begin_seen \in BOOLEAN
  /\ uecp.data \in Seq(Byte)
  /\ uecp.message_begin_seen = (uecp.data # <<>>)
  /\ uecp.data # <<>> => uecp.data[1] = STA
  /\ uecp.next_untrap => uecp.message_begin_seen
  /\ status \in {"running", "failed", "ended"}
  /\ sent \in Seq(Frames) /\ losses \in 0..MaxLosses

Twice(frames) ==
  [i \in 1..(2 * Len(frames)) |-> FrameBytes(frames[(i + 1) \div 2])]

\* However the source cuts the bytes into datagrams, if none is lost the parser
\* does not fail, and decodes (twice each) exactly the frames sent, in order,
\* every one of them once its last byte is in.
RoundTrip ==
  losses = 0 =>
    /\ status # "failed"
    /\ IsPrefix(decoded, Twice(sent))
    /\ status = "running" /\ outgoing = <<>> => decoded = Twice(sent)

\* The invariant of the run: the fields agree, and the frames sent are decoded
\* (UECP_Frame_Decoder, parse_anc_bytes).
UecpInv == UecpTypeOK /\ RoundTrip

\* After any losses: a decoder that is between frames decodes the next frame
\* that comes whole, nothing of what was lost or dropped gets into it.
ReadyBetweenFrames ==
  [][\A f \in Frames :
       (/\ ~uecp.message_begin_seen
        /\ outgoing = Stuffed(f) /\ outgoing' = <<>>
        /\ losses' = losses)
       => decoded' = decoded \o Twice(<<f>>) /\ uecp' = NewDecoder]_uecpVars

==============================================================================
