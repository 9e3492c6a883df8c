-------------------------------- MODULE Crc --------------------------------
(***************************************************************************)
(* edi/crc.py and uecpparse/crc.py: the CRC of the EDI and UECP packets,   *)
(* from a table (crc16) and without one (crc_ccitt), fed with a message    *)
(* that may come in pieces, as decode_af feeds it header and payload.      *)
(***************************************************************************)
EXTENDS Integers, Sequences, FiniteSetsExt

CONSTANTS
  FirstBytes, OtherBytes,   \* bytes of a message: its first one, the others
  MaxLength            \* bytes in a message

ASSUME CrcAssumption == FirstBytes \cup OtherBytes \subseteq 0..255

VARIABLES
  fed,       \* the message so far
  pieces     \* crc16 of the pieces before, passed on as l_crc, and the piece
             \* now collected

crcVars == <<fed, pieces>>

crc16tab == <<
  \h0000, \h1021, \h2042, \h3063, \h4084, \h50a5, \h60c6, \h70e7, \h8108, \h9129,
  \ha14a, \hb16b, \hc18c, \hd1ad, \he1ce, \hf1ef, \h1231, \h0210, \h3273, \h2252,
  \h52b5, \h4294, \h72f7, \h62d6, \h9339, \h8318, \hb37b, \ha35a, \hd3bd, \hc39c,
  \hf3ff, \he3de, \h2462, \h3443, \h0420, \h1401, \h64e6, \h74c7, \h44a4, \h5485,
  \ha56a, \hb54b, \h8528, \h9509, \he5ee, \hf5cf, \hc5ac, \hd58d, \h3653, \h2672,
  \h1611, \h0630, \h76d7, \h66f6, \h5695, \h46b4, \hb75b, \ha77a, \h9719, \h8738,
  \hf7df, \he7fe, \hd79d, \hc7bc, \h48c4, \h58e5, \h6886, \h78a7, \h0840, \h1861,
  \h2802, \h3823, \hc9cc, \hd9ed, \he98e, \hf9af, \h8948, \h9969, \ha90a, \hb92b,
  \h5af5, \h4ad4, \h7ab7, \h6a96, \h1a71, \h0a50, \h3a33, \h2a12, \hdbfd, \hcbdc,
  \hfbbf, \heb9e, \h9b79, \h8b58, \hbb3b, \hab1a, \h6ca6, \h7c87, \h4ce4, \h5cc5,
  \h2c22, \h3c03, \h0c60, \h1c41, \hedae, \hfd8f, \hcdec, \hddcd, \had2a, \hbd0b,
  \h8d68, \h9d49, \h7e97, \h6eb6, \h5ed5, \h4ef4, \h3e13, \h2e32, \h1e51, \h0e70,
  \hff9f, \hefbe, \hdfdd, \hcffc, \hbf1b, \haf3a, \h9f59, \h8f78, \h9188, \h81a9,
  \hb1ca, \ha1eb, \hd10c, \hc12d, \hf14e, \he16f, \h1080, \h00a1, \h30c2, \h20e3,
  \h5004, \h4025, \h7046, \h6067, \h83b9, \h9398, \ha3fb, \hb3da, \hc33d, \hd31c,
  \he37f, \hf35e, \h02b1, \h1290, \h22f3, \h32d2, \h4235, \h5214, \h6277, \h7256,
  \hb5ea, \ha5cb, \h95a8, \h8589, \hf56e, \he54f, \hd52c, \hc50d, \h34e2, \h24c3,
  \h14a0, \h0481, \h7466, \h6447, \h5424, \h4405, \ha7db, \hb7fa, \h8799, \h97b8,
  \he75f, \hf77e, \hc71d, \hd73c, \h26d3, \h36f2, \h0691, \h16b0, \h6657, \h7676,
  \h4615, \h5634, \hd94c, \hc96d, \hf90e, \he92f, \h99c8, \h89e9, \hb98a, \ha9ab,
  \h5844, \h4865, \h7806, \h6827, \h18c0, \h08e1, \h3882, \h28a3, \hcb7d, \hdb5c,
  \heb3f, \hfb1e, \h8bf9, \h9bd8, \habbb, \hbb9a, \h4a75, \h5a54, \h6a37, \h7a16,
  \h0af1, \h1ad0, \h2ab3, \h3a92, \hfd2e, \hed0f, \hdd6c, \hcd4d, \hbdaa, \had8b,
  \h9de8, \h8dc9, \h7c26, \h6c07, \h5c64, \h4c45, \h3ca2, \h2c83, \h1ce0, \h0cc1,
  \hef1f, \hff3e, \hcf5d, \hdf7c, \haf9b, \hbfba, \h8fd9, \h9ff8, \h6e17, \h7e36,
  \h4e55, \h5e74, \h2e93, \h3eb2, \h0ed1, \h1ef0 >>

\* A word is the set of its bits that are one, so that exclusive or is SymDiff
\* and a mask an intersection.
AllOnes == 0..15     \* 0xffff, and every word is a subset of it
Bits(x) == {b \in AllOnes : (x \div 2^b) % 2 = 1}
LeftBy(n, w) == {b + n : b \in w}
RightBy(n, w) == {b - n : b \in w} \cap AllOnes
LowByte(w) == w \cap 0..7

\* The table with its index and its entries as words.
crc16row ==
  [w \in SUBSET (0..7) |->
     Bits(crc16tab[(CHOOSE index \in 0..255 : Bits(index) = w) + 1])]

\* Mutant: the table is indexed with the low byte.
crc16_step_swapped(l_crc, d) ==
  SymDiff(LeftBy(8, l_crc), crc16row[SymDiff(LowByte(l_crc), Bits(d))]) \cap AllOnes

crc16_step(l_crc, d) ==
  SymDiff(LeftBy(8, l_crc), crc16row[SymDiff(RightBy(8, l_crc), Bits(d))]) \cap AllOnes

crc16(bytes, l_crc) ==
  LET after[n \in 0..Len(bytes)] ==
        IF n = 0 THEN l_crc ELSE crc16_step(after[n - 1], bytes[n])
  IN after[Len(bytes)]

\* The four assignments of the loop; the third shifts the whole register.
crc_ccitt_step(crc0, d) ==
  LET crc1 == SymDiff((RightBy(8, crc0) \cup LeftBy(8, crc0)) \cap AllOnes, Bits(d))
      crc2 == SymDiff(crc1, RightBy(4, LowByte(crc1)))
      crc3 == SymDiff(crc2, LeftBy(12, crc2) \cap AllOnes)
  IN SymDiff(crc3, LeftBy(5, LowByte(crc3)))

crc_ccitt(bytes) ==
  LET after[n \in 0..Len(bytes)] ==
        IF n = 0 THEN AllOnes ELSE crc_ccitt_step(after[n - 1], bytes[n])
  IN SymDiff(after[Len(bytes)], AllOnes)
----------------------------------------------------------------------------
CrcInit == fed = << >> /\ pieces = [l_crc |-> AllOnes, piece |-> << >>]

Feed(byte) ==
  /\ Len(fed) < MaxLength
  /\ fed' = Append(fed, byte)
  /\ pieces' = [pieces EXCEPT !.piece = Append(@, byte)]

\* The piece is complete: crc16(piece, l_crc).
EndOfPiece ==
  /\ pieces.piece # << >>
  /\ pieces' = [l_crc |-> crc16(pieces.piece, pieces.l_crc), piece |-> << >>]
  /\ UNCHANGED fed

CrcNext ==
  \/ \E byte \in FirstBytes : fed = << >> /\ Feed(byte)
  \/ \E byte \in OtherBytes : Feed(byte)
  \/ EndOfPiece

CrcSpec == CrcInit /\ [][CrcNext]_crcVars
----------------------------------------------------------------------------
(* The definition: division of the message, bit by bit, by x^16 + x^12 +   *)
(* x^5 + 1, with a register that starts with ones.                         *)

Polynomial == {0, 5, 12}

DivideBit(register, bit) ==
  LET shifted == LeftBy(1, register) \cap AllOnes
  IN IF (15 \in register) = bit THEN shifted ELSE SymDiff(shifted, Polynomial)

DivideByte(register, byte) ==
  LET after[n \in 0..8] ==
        IF n = 0 THEN register ELSE DivideBit(after[n - 1], 8 - n \in Bits(byte))
  IN after[8]

Division(bytes) ==
  LET after[n \in 0..Len(bytes)] ==
        IF n = 0 THEN AllOnes ELSE DivideByte(after[n - 1], bytes[n])
  IN after[Len(bytes)]

\* However a message is cut into pieces, the table gives the remainder of the
\* division, and crc_ccitt its complement, which is what EDI and UECP packets
\* carry: the two modules may check each other's packets (crc16 lines 38-44,
\* crc_ccitt lines 46-56).
CrcDivides ==
  /\ crc16(pieces.piece, pieces.l_crc) = Division(fed)
  /\ crc_ccitt(fed) = AllOnes \ Division(fed)
=============================================================================
