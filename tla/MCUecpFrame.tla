---------------------------- MODULE MCUecpFrame ----------------------------
(* A RadioText, a Programme Service name and an unnamed element; the special *)
(* bytes occur as address, sequence number, contents, last byte and CRC, and  *)
(* so do the bytes that follow an escape.                                     *)
EXTENDS UecpFrame

MCFrames ==
  {[addr |-> <<0, 254>>, sqc |-> 1,   msg |-> <<RT, 0, 2, 2, 0, 253>>, crc |-> <<255, 1>>],
   [addr |-> <<1, 2>>,   sqc |-> 253, msg |-> <<PS, 254, 0>>,          crc |-> <<0, 253>>],
   [addr |-> <<2, 0>>,   sqc |-> 255, msg |-> <<253>>,                 crc |-> <<254, 255>>]}
=============================================================================
