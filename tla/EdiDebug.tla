------------------------------- MODULE EdiDebug -------------------------------
(***************************************************************************)
(* edi/edidebug.py: the EDI debugger and EDI to ETI converter, reading the  *)
(* packets of one EDI stream as a network delivered them: AF packets, each  *)
(* one ETI frame, as they are or cut into PFT fragments, with or without    *)
(* Reed-Solomon protection (fec).                                           *)
(*                                                                         *)
(* An ETI frame is its number in the stream.  A PFT fragment carries its    *)
(* index, the number of fragments and the sequence number Pseq of the AF    *)
(* packet, which wraps (16 bits in the code, PseqModulus here).  Fragments  *)
(* of one Pseq are collected in a Defragmenter, which is never removed.     *)
(*                                                                         *)
(* The sender and the network are external: fragments are lost, duplicated  *)
(* and overtake each other.                                                 *)
(*                                                                         *)
(* The main loop ends at the first packet that decode() refuses, with what  *)
(* is in its read buffer, so that resynchronising never happens: a packet   *)
(* always starts at an empty buffer, and the file is a sequence of packets, *)
(* of which the end of the file may cut the last one.                       *)
(***************************************************************************)
EXTENDS Naturals, Sequences, FiniteSets

CONSTANTS
  PseqModulus,  \* 2^16 in the code
  Fcounts,      \* fragments an AF packet is cut into, 0: sent without PFT
  MaxFrames,    \* bound: frames sent
  MaxCopies,    \* bound: duplicates
  MaxLosses     \* bound: losses

ASSUME EdiAssumption ==
  /\ PseqModulus \in Nat \ {0}
  /\ Fcounts \subseteq Nat
  /\ MaxFrames \in Nat /\ MaxCopies \in Nat /\ MaxLosses \in Nat

VARIABLES
  fec,            \* the stream's PFT fragments have Reed-Solomon protection
  output,         \* option -o: write the frames
  num_eti,        \* option -n: end after so many frames, 0: do not
  sent,           \* sent[k]: the fragments of frame k, 0 without PFT
  inflight,       \* <<frame, fragment index>> on the way
  delivered,      \* those that were read
  cut,            \* the packet read last was cut off by the end of the file
  copies, losses, \* duplicates and losses so far
  defragmenters,  \* by Pseq: fragment index -> frame it came from, 0: None
  eti_data,       \* the frame being put together
  written,        \* frames written
  status          \* "running", "ended", "crashed" (an exception)

options == <<fec, output, num_eti>>
network == <<sent, inflight, delivered, cut, copies, losses>>
vars == <<options, network, defragmenters, eti_data, written, status>>

Frame == 1..MaxFrames
Pseqs == 0..(PseqModulus - 1)
Pseq(k) == k % PseqModulus

------------------------------------------------------------------------------
(* Collecting fragments                                                     *)

\* A Pseq that no fragment has had yet is not in the dictionary.
Absent == <<>>

NewDefragmenter(fcount) == [i \in 0..(fcount - 1) |-> 0]

\* Mutant: every fragment starts a new Defragmenter.
DefragmenterNew(k) == NewDefragmenter(sent[k])

\* The Defragmenter that gets a fragment of frame k.
Defragmenter(k) ==
  IF defragmenters[Pseq(k)] = Absent
  THEN NewDefragmenter(sent[k])
  ELSE defragmenters[Pseq(k)]

\* Mutant: decode once all fragments but one are there.
CompletePartial(d) == \A i, j \in DOMAIN d : d[i] = 0 /\ d[j] = 0 => i = j

\* Defragmenter.push_fragment calls its callback: all fragments are there.
Complete(d) == \A i \in DOMAIN d : d[i] # 0

\* The frames the fragments come from.
Sources(d) == {d[i] : i \in DOMAIN d}

\* The indices of the packets of a frame cut into n fragments.
Indices(n) == IF n = 0 THEN {0} ELSE 0..(n - 1)

\* The packets of frame k go through a Defragmenter.
Collected(k) == sent[k] >= 1 /\ (fec \/ sent[k] > 1)

\* These are the fragments of one AF packet, all of them.  Putting them together
\* (get_rs_decoder, decode_af_fragments) then returns that packet; if not, the
\* result is anything: pieces of several packets.
OnePacket(d) ==
  \E k \in Frame : /\ k <= Len(sent)
                   /\ d = [i \in 0..(sent[k] - 1) |-> k]

\* What decode_af may do with the result: find the TAG items of a frame, refuse
\* it, or raise (struct.error, the assertion on a TAG item's length).  If one of
\* the fragments is short, the Reed-Solomon block is cut at its end, and so is the
\* AF packet unless only parity was lost; without fec the bytes behind it move up.
AfOutcomes(d, short) ==
  IF OnePacket(d) /\ ~short THEN {"tags"}
  ELSE IF OnePacket(d) /\ fec THEN {"tags", "raises"}
  ELSE {"tags", "refused", "raises"}

\* What those TAG items are made of, 0 standing for what is not where it was.
Contents(d, short) == Sources(d) \cup (IF short /\ ~fec THEN {0} ELSE {})

------------------------------------------------------------------------------
(* The main loop's part, once decode() has returned                          *)

Cleared == [complete |-> FALSE, fc |-> {}, stc |-> <<>>]

\* decode_tag: the deti item replaces fc, the est items add subchannels.
WithTags(frames) ==
  [complete |-> TRUE, fc |-> frames, stc |-> Append(eti_data.stc, frames)]

\* Frame number -n has just been written: the loop is left.
LastFrame == num_eti # 0 /\ Len(written) + 1 >= num_eti

\* Mutant: what was written is not cleared.
AfterDecodeNotCleared(eti) ==
  IF eti.complete /\ output
  THEN /\ written' = Append(written, eti)
       /\ eti_data' = eti
       /\ status' = IF LastFrame THEN "ended" ELSE "running"
  ELSE eti_data' = eti /\ UNCHANGED <<written, status>>

AfterDecode(eti) ==
  IF eti.complete /\ output
  THEN /\ written' = Append(written, eti)
       /\ eti_data' = IF LastFrame THEN eti ELSE Cleared
       /\ status' = IF LastFrame THEN "ended" ELSE "running"
  ELSE eti_data' = eti /\ UNCHANGED <<written, status>>

\* struct.error, IndexError, ...: nothing catches it.
Raise == status' = "crashed" /\ UNCHANGED <<eti_data, written>>

\* decode_af of the packet put together from d.
DecodeAf(d, short) ==
  \/ /\ "tags" \in AfOutcomes(d, short)
     /\ AfterDecode(WithTags(Contents(d, short)))
  \/ /\ "refused" \in AfOutcomes(d, short)
     /\ status' = "ended"
     /\ UNCHANGED <<eti_data, written>>
  \/ "raises" \in AfOutcomes(d, short) /\ Raise

\* Defragmenter.push_fragment
PushFragment(k, i, short) ==
  LET d == Defragmenter(k) IN
  \/ /\ i \notin DOMAIN d  \* IndexError
     /\ Raise
     /\ defragmenters' = [defragmenters EXCEPT ![Pseq(k)] = d]
  \/ /\ i \in DOMAIN d
     /\ LET pushed == [d EXCEPT ![i] = k] IN
          /\ defragmenters' = [defragmenters EXCEPT ![Pseq(k)] = pushed]
          /\ IF Complete(pushed) THEN DecodeAf(pushed, short)
             ELSE AfterDecode(eti_data)

\* decode: an AF packet, a PFT packet that is a whole AF packet, a fragment.
\* (Without PFT, and with one fragment, the packet put together is what came.)
\* Its data may be short: the payload of a fragment is taken as it comes, an AF
\* packet that is cut off makes struct.unpack raise.
Decode(k, i, short) ==
  IF Collected(k)
  THEN PushFragment(k, i, short)
  ELSE /\ IF short THEN Raise ELSE AfterDecode(WithTags({k}))
       /\ UNCHANGED defragmenters

------------------------------------------------------------------------------
Init ==
  /\ fec \in BOOLEAN /\ output \in BOOLEAN /\ num_eti \in {0, 2}
  /\ sent = <<>>
  /\ inflight = {} /\ delivered = {} /\ cut = FALSE
  /\ copies = 0 /\ losses = 0
  /\ defragmenters = [p \in Pseqs |-> Absent]
  /\ eti_data = Cleared
  /\ written = <<>>
  /\ status = "running"

\* The sender cuts the next frame into n fragments.
SendFrame ==
  /\ Len(sent) < MaxFrames
  /\ \E n \in Fcounts :
       /\ sent' = Append(sent, n)
       /\ inflight' = inflight \cup
            {<<Len(sent) + 1, i>> : i \in Indices(n)}
  /\ UNCHANGED <<options, delivered, cut, copies, losses>>
  /\ UNCHANGED <<defragmenters, eti_data, written, status>>

Read(f, short) == delivered' = delivered \cup {f} /\ Decode(f[1], f[2], short)

\* The main loop goes on, and the file may have another packet.
Reading == status = "running" /\ ~cut

ReadPacket ==
  /\ Reading
  /\ \E f \in inflight : Read(f, FALSE) /\ inflight' = inflight \ {f}
  /\ UNCHANGED <<options, sent, cut, copies, losses>>

\* A packet that will come once more.
ReadCopy ==
  /\ Reading
  /\ copies < MaxCopies
  /\ copies' = copies + 1
  /\ \E f \in inflight : Read(f, FALSE)
  /\ UNCHANGED <<options, sent, inflight, cut, losses>>

\* The file ends within a packet: in the header of a fragment, which makes
\* struct.unpack raise, or in the data.
ReadCut ==
  /\ Reading
  /\ \E f \in inflight :
       /\ inflight' = inflight \ {f}
       /\ \/ Raise /\ UNCHANGED <<delivered, defragmenters>>
          \/ Read(f, TRUE)
  /\ cut' = TRUE
  /\ UNCHANGED <<options, sent, copies, losses>>

\* Something decode() does not accept: the end of the file (with at most one byte
\* left), an unknown sync word, a PFT header with a wrong CRC.
ReadOther ==
  /\ status = "running"
  /\ status' = "ended"
  /\ UNCHANGED <<options, network, defragmenters, eti_data, written>>

Lose ==
  /\ losses < MaxLosses
  /\ losses' = losses + 1
  /\ \E f \in inflight : inflight' = inflight \ {f}
  /\ UNCHANGED <<options, sent, delivered, cut, copies>>
  /\ UNCHANGED <<defragmenters, eti_data, written, status>>

Next == SendFrame \/ ReadPacket \/ ReadCopy \/ ReadCut \/ ReadOther \/ Lose

Spec == Init /\ [][Next]_vars

------------------------------------------------------------------------------
(* Properties                                                               *)

\* What an ETI frame is put together from: sets of frames, 0 for a missing one.
EtiData ==
  [complete : BOOLEAN, fc : SUBSET (0..MaxFrames), stc : Seq(SUBSET (0..MaxFrames))]

\* The state has its types; with -o no complete frame waits between two packets.
TypeOK ==
  /\ fec \in BOOLEAN /\ output \in BOOLEAN /\ num_eti \in Nat
  /\ sent \in Seq(Fcounts) /\ Len(sent) <= MaxFrames
  /\ inflight \subseteq Frame \X Nat /\ delivered \subseteq Frame \X Nat
  /\ cut \in BOOLEAN /\ copies \in Nat /\ losses \in Nat
  /\ defragmenters \in [Pseqs -> {Absent} \cup
                                 UNION {[0..(n - 1) -> 0..MaxFrames] : n \in Fcounts \ {0}}]
  /\ eti_data \in EtiData /\ written \in Seq(EtiData)
  /\ output /\ status = "running" => eti_data = Cleared
  /\ status \in {"running", "ended", "crashed"}

\* Packets of two frames with the same Pseq have been read.
PseqReused ==
  \E f, g \in delivered : f[1] # g[1] /\ Pseq(f[1]) = Pseq(g[1])

\* Until a sequence number comes back, whatever the network does, the converter
\* does not crash before the end of the file, and there only if a packet is cut
\* off; and each frame it writes is one frame of the stream: its header, and the
\* subchannels of that frame only.  The last one alone may be spoilt, by a fragment
\* without fec that is cut off.
IntactUnlessReused ==
  ~PseqReused =>
    /\ status = "crashed" => cut
    /\ \A n \in DOMAIN written :
         \/ \E k \in Frame : written[n] = [complete |-> TRUE, fc |-> {k}, stc |-> <<{k}>>]
         \/ n = Len(written) /\ cut /\ ~fec

\* The invariant of the run: the types, and whole frames only until a Pseq is
\* used again (decode_pft, Defragmenter).
FrameInv == TypeOK /\ IntactUnlessReused

\* Until then, a frame is written again only for a duplicate.
WrittenOnce ==
  ~PseqReused =>
    \A k \in Frame : Cardinality({n \in DOMAIN written : k \in written[n].fc}) <= 1 + copies

\* Until then, a frame of which all packets have been read whole, in whatever order
\* and between whatever others, is written.
NothingHeldBack ==
  (~PseqReused /\ output /\ Reading) =>
    \A k \in 1..Len(sent) :
      (\A i \in Indices(sent[k]) : <<k, i>> \in delivered)
      => \E n \in DOMAIN written : written[n].fc = {k}
==============================================================================
