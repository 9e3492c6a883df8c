-------------------------------- MODULE EtiNi --------------------------------
(***************************************************************************)
(* edi/edidebug.py, EtiData: the TAG items of an EDI packet (deti, and one *)
(* est item per subchannel) become an ETI(NI) frame, in which lengths are  *)
(* written in several places.                                              *)
(*                                                                         *)
(* Bytes of the FIC and of subchannels are numbers above 255 that tell     *)
(* where they come from; a CRC is what it was computed over.               *)
(***************************************************************************)
EXTENDS Integers, Sequences, SequencesExt

CONSTANTS
  Detis,      \* deti items: fcth, fctl, ficf, mid, fp, mnsc, atstf, rfudf
  Ests,       \* est items: scid, sad, tpl, stl
  MaxEsts     \* est items in a packet

\* The widths of the fields.
ASSUME EtiNiAssumption ==
  /\ MaxEsts \in Nat
  /\ \A d \in Detis :
       /\ d \in [fcth : Nat, fctl : Nat, ficf : Nat, mid : Nat, fp : Nat,
                 mnsc : Nat, atstf : BOOLEAN, rfudf : BOOLEAN]
       /\ d.fcth < 32 /\ d.fctl < 256 /\ d.ficf < 2 /\ d.mid < 4 /\ d.fp < 8
       /\ d.mnsc < 65536
  /\ \A e \in Ests :
       /\ e \in [scid : Nat, sad : Nat, tpl : Nat, stl : Nat]
       /\ e.scid < 64 /\ e.sad < 1024 /\ e.tpl < 64 /\ e.stl < 1024

VARIABLES
  deti, ests,          \* the items of the packet so far (for the properties)
  fc, stc, mnsc, fic,  \* EtiData
  frame, crcs,         \* the last frame written, what its CRCs cover
  source               \* and the items it was made from

etiniVars == <<deti, ests, fc, stc, mnsc, fic, frame, crcs, source>>

None == << >>
CrcByte == -1

FicByte(i) == 1000 + i
DataByte(est, i) == 10000 * (est.scid + 1) + i

\* Words of the FIC in transmission mode mid.
FicWords(d) == IF d.ficf = 0 THEN 0 ELSE IF d.mid = 3 THEN 32 ELSE 24

EtiNiInit ==
  /\ deti = None /\ ests = << >>
  /\ fc = None /\ stc = << >> /\ mnsc = 0 /\ fic = << >>
  /\ frame = << >> /\ crcs = << >> /\ source = None
----------------------------------------------------------------------------
(* The items.  The value of a deti item: 6 bytes, ATST, FIC, RFUD. *)

FicData(d) == [i \in 1..(4 * FicWords(d)) |-> FicByte(i)]
EstData(est) == [i \in 1..(8 * est.stl) |-> DataByte(est, i)]
Filler(n) == [i \in 1..n |-> 0]

\* The FIC is taken from the end of the value, as long as there is room for it
\* without the other fields.
FicTaken(d) ==
  LET atst == IF d.atstf THEN 8 ELSE 0
      rfud == IF d.rfudf THEN 3 ELSE 0
      value == Filler(6 + atst) \o FicData(d) \o Filler(rfud)
      len_fic == Len(value) - 6 - atst - rfud
  IN SubSeq(value, Len(value) - len_fic + 1, Len(value))

FcOf(d) ==
  [FCT |-> d.fcth * 250 + d.fctl, FICF |-> d.ficf, MID |-> d.mid, FP |-> d.fp]

decode_deti(d) ==
  /\ fc' = FcOf(d) /\ mnsc' = d.mnsc /\ fic' = FicTaken(d)
  /\ deti' = d
  /\ UNCHANGED <<ests, stc, frame, crcs, source>>

Subchannel(est) ==
  [SCID |-> est.scid, SAD |-> est.sad, TPL |-> est.tpl, STL |-> est.stl,
   data |-> EstData(est)]

decode_estn(est) ==
  /\ Len(ests) < MaxEsts
  /\ \A i \in DOMAIN ests : ests[i].scid # est.scid
  /\ stc' = Append(stc, Subchannel(est))
  /\ ests' = Append(ests, est)
  /\ UNCHANGED <<deti, fc, mnsc, fic, frame, crcs, source>>
----------------------------------------------------------------------------
(* generate_eti, of the fields of EtiData *)

EtiData == [fc |-> fc, stc |-> stc, mnsc |-> mnsc, fic |-> fic]

Low(n) == n % 256
High(n) == (n \div 256) % 4

\* The sums of the first numbers of s.
Sums(s) ==
  LET sum[i \in 0..Len(s)] == IF i = 0 THEN 0 ELSE sum[i - 1] + s[i]
  IN  sum

FICL(data) ==
  IF data.fc.FICF = 0 THEN 0 ELSE IF data.fc.MID = 3 THEN 32 ELSE 24

StreamWords(data) ==
  LET n == Len(data.stc)
  IN  Sums([i \in 1..n |-> 2 * data.stc[i].STL])[n]

\* Mutant: the header word of each subchannel is not counted.
FLWithoutSTC(data) == 1 + FICL(data) + StreamWords(data)

\* EN 300 799 5.3.6
FL(data) == Len(data.stc) + 1 + FICL(data) + StreamWords(data)

FSync(fct) ==
  IF fct % 2 = 1 THEN <<\hf8, \hc5, \h49>> ELSE <<\h07, \h3a, \hb6>>

\* The header words of the subchannels.
STC(data) ==
  FlattenSeq([i \in 1..Len(data.stc) |->
    LET s == data.stc[i]
    IN  <<s.SCID * 4 + High(s.SAD), Low(s.SAD), s.TPL * 4 + High(s.STL), Low(s.STL)>>])

HeaderData(data) ==
  <<Low(data.fc.FCT), data.fc.FICF * 128 + Len(data.stc),
    data.fc.FP * 32 + data.fc.MID * 8 + ((FL(data) \div 256) % 8), Low(FL(data))>>
  \o STC(data) \o <<Low(data.mnsc), data.mnsc \div 256>>

MstData(data) ==
  data.fic \o FlattenSeq([i \in 1..Len(data.stc) |-> data.stc[i].data])

generate_eti(data) ==
  <<255>> \o FSync(data.fc.FCT) \o HeaderData(data) \o <<CrcByte, CrcByte>>
  \o MstData(data) \o <<CrcByte, CrcByte, 255, 255, 255, 255, 255, 255>>

clear ==
  /\ fc' = None /\ stc' = << >> /\ mnsc' = 0 /\ fic' = << >>
  /\ deti' = None /\ ests' = << >>

\* The packet ends and its frame is written, filled up to 6144 bytes with
\* 0x55; without a deti item the program ends with a KeyError.
EndOfPacket ==
  /\ deti # None
  /\ frame' = generate_eti(EtiData)
  /\ crcs' = <<HeaderData(EtiData), MstData(EtiData)>>
  /\ source' = [deti |-> deti, ests |-> ests]
  /\ clear

EtiNiNext ==
  \/ \E d \in Detis : deti = None /\ decode_deti(d)
  \/ \E est \in Ests : decode_estn(est)
  \/ EndOfPacket

EtiNiSpec == EtiNiInit /\ [][EtiNiNext]_etiniVars
----------------------------------------------------------------------------
(* How a reader of ETI takes a frame apart, byte by byte. *)

Word(bytes, i) == 256 * bytes[i] + bytes[i + 1]
NST == frame[6] % 128
ReadFicf == frame[6] \div 128
ReadMid == (frame[7] \div 8) % 4
ReadFL == Word(frame, 7) % 2048
ReadStc(i) ==
  LET at == 9 + 4 * (i - 1)
  IN [scid |-> frame[at] \div 4, sad |-> Word(frame, at) % 1024,
      tpl |-> frame[at + 2] \div 4, stl |-> Word(frame, at + 2) % 1024]
MstStart == 8 + 4 * NST + 4
ReadFicBytes == IF ReadFicf = 0 THEN 0 ELSE IF ReadMid = 3 THEN 128 ELSE 96
SubchStart(i) ==
  MstStart + ReadFicBytes + Sums([j \in 1..NST |-> 8 * ReadStc(j).stl])[i - 1]

\* A reader finds in the frame just the items of its packet and none of an
\* earlier one: the FIC and each subchannel where the mode and the lengths
\* before them say, FL to match if the frame has its 6144 bytes and no more, and
\* both CRCs over what they protect.  FCT is right below 250 frames only, and
\* the FIC if there is no RFUD, for which the code makes room before the FIC
\* (EtiData lines 97-196, decode_deti 533-593, decode_estn 595-622).
FrameReadsBack ==
  frame # << >> =>
    LET d == source.deti
    IN /\ [i \in 1..NST |-> ReadStc(i)] = source.ests
       /\ \A i \in 1..NST :
            SubSeq(frame, SubchStart(i) + 1, SubchStart(i + 1)) =
              EstData(source.ests[i])
       /\ ~d.rfudf => SubSeq(frame, MstStart + 1, SubchStart(1)) = FicData(d)
       /\ d.fcth = 0 => frame[5] = d.fctl
       /\ (frame[2] = \hf8) = ((d.fcth * 250 + d.fctl) % 2 = 1)
       /\ frame[7] \div 32 = d.fp /\ ReadMid = d.mid
       /\ frame[MstStart - 3] + 256 * frame[MstStart - 2] = d.mnsc
       /\ Len(frame) <= 6144 => 4 * ReadFL = SubchStart(NST + 1) - 8
       /\ crcs = <<SubSeq(frame, 5, MstStart - 2),
                   SubSeq(frame, MstStart + 1, SubchStart(NST + 1))>>
       /\ Len(frame) = SubchStart(NST + 1) + 8
=============================================================================
