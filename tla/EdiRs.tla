-------------------------------- MODULE EdiRs --------------------------------
(***************************************************************************)
(* edi/edidebug.py, get_rs_decoder: an AF packet, cut into chunks with     *)
(* Reed-Solomon parity and interleaved into PFT fragments, is put together *)
(* from the list of all its fragments.  The sender is external.            *)
(*                                                                         *)
(* The bytes of a packet are numbered; the parity of a chunk is that of    *)
(* the numbers in it.                                                      *)
(***************************************************************************)
EXTENDS Integers, Sequences, SequencesExt

CONSTANTS
  MaxChunkSize,   \* 207 in the standard
  ParitySize,     \* 48
  MaxAfLength,    \* bytes of an AF packet
  MaxFragments

ASSUME EdiRsAssumption ==
  /\ MaxChunkSize \in Nat \ {0} /\ ParitySize \in Nat \ {0}
  /\ MaxAfLength \in Nat /\ MaxFragments \in Nat

VARIABLES
  af,          \* the AF packet: its bytes, 1..n
  chunk_size,  \* RSk
  zeropad,     \* RSz
  fragments    \* the fragments, or << >>

edirsVars == <<af, chunk_size, zeropad, fragments>>

Zero == 0
Ceiling(a, b) == (a + b - 1) \div b
Zeros(n) == [i \in 1..n |-> Zero]

\* s[from:to] in Python, which ends with s.
Slice(s, from, to) == SubSeq(s, from + 1, IF to < Len(s) THEN to ELSE Len(s))

\* What the encoder makes of a chunk that is filled up with zeros to its full
\* size, which makes no difference to it.
Parity(chunk) ==
  LET data == SelectSeq(chunk, LAMBDA byte : byte # Zero)
  IN [j \in 1..ParitySize |-> [parity |-> j, of |-> data]]

EdiRsInit == af = << >> /\ chunk_size = 1 /\ zeropad = 0 /\ fragments = << >>

\* A sender cuts the packet into equal chunks, the last filled with zeros, and
\* deals the bytes of all of them, filled with zeros again, out to f fragments.
AfBytes(n) == [i \in 1..n |-> i]
NumChunks(n) == Ceiling(n, MaxChunkSize)
ChunkSize(n) == Ceiling(n, NumChunks(n))
ZeroPad(n) == NumChunks(n) * ChunkSize(n) - n
ChunkOf(n, c) ==
  SubSeq(AfBytes(n) \o Zeros(ZeroPad(n)),
         (c - 1) * ChunkSize(n) + 1, c * ChunkSize(n))
RsBlock(n) ==
  FlattenSeq([c \in 1..NumChunks(n) |-> ChunkOf(n, c) \o Parity(ChunkOf(n, c))])
FragmentSize(n, f) == Ceiling(Len(RsBlock(n)), f)
Dealt(n, f) ==
  RsBlock(n) \o Zeros(f * FragmentSize(n, f) - Len(RsBlock(n)))

SendProtected(n, f) ==
  LET size == FragmentSize(n, f)
      dealt == Dealt(n, f)
  IN /\ fragments = << >>
     /\ af' = AfBytes(n)
     /\ chunk_size' = ChunkSize(n)
     /\ zeropad' = ZeroPad(n)
     /\ fragments' = [i \in 1..f |-> [j \in 1..size |-> dealt[(j - 1) * f + i]]]

\* Packets whose f fragments are not empty.
EdiRsNext ==
  \E n \in 1..MaxAfLength, f \in 1..MaxFragments : SendProtected(n, f)

EdiRsSpec == EdiRsInit /\ [][EdiRsNext]_edirsVars
----------------------------------------------------------------------------
(* decode_rs *)

\* "".join of zip(*fragments)
rs_block ==
  LET f == Len(fragments)
  IN [n \in 1..(f * Len(fragments[1])) |->
        fragments[((n - 1) % f) + 1][((n - 1) \div f) + 1]]

data_size == chunk_size + ParitySize

\* Mutant: only chunks that are complete, by a formula that rounds down.
num_chunks_short == (Len(rs_block) - ParitySize) \div data_size

\* The division leaves the parity out: there may be more than were sent.
num_chunks == Len(rs_block) \div chunk_size

\* (data, protection)
rs_chunks ==
  [i \in 1..num_chunks |->
     LET start == (i - 1) * data_size
     IN << Slice(rs_block, start, start + chunk_size),
           Slice(rs_block, start + chunk_size, start + data_size) >>]

protection_ok(i) == rs_chunks[i][2] = Parity(rs_chunks[i][1])

\* afpacket[0:-zeropad], or all of it: what decode_af is given.
afpacket ==
  LET joined == FlattenSeq([i \in 1..num_chunks |-> rs_chunks[i][1]])
  IN SubSeq(joined, 1, Len(joined) - zeropad)
----------------------------------------------------------------------------
\* However long an AF packet is and into however many fragments it was cut,
\* what decode_af gets begins with the packet, whose header tells it where to
\* stop, and its chunks are found intact; PROTECTION ERROR is printed for
\* chunks only that were never sent (get_rs_decoder lines 342-415).
AfPacketRestored ==
  fragments # << >> =>
    /\ Len(afpacket) >= Len(af) /\ SubSeq(afpacket, 1, Len(af)) = af
    /\ \A i \in 1..Ceiling(Len(af), chunk_size) : protection_ok(i)
=============================================================================
