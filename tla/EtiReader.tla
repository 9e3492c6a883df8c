------------------------------ MODULE EtiReader ------------------------------
(***************************************************************************)
(* eti-udp/etireader.py: EtiReader tells what kind of ETI file it is given *)
(* by where the first synchronisation is, and reads it frame by frame.     *)
(*                                                                         *)
(* A byte is its position, from 0.  A frame begins with 4 bytes of sync;   *)
(* STREAMED and FRAMED files have 2 bytes of length before it, FRAMED ones *)
(* 4 bytes more at the beginning.                                          *)
(***************************************************************************)
EXTENDS Integers, Sequences

CONSTANTS
  RawFrame,      \* 6144: bytes of a frame in a RAW file, the longest in others
  FrameSizes,    \* lengths of the frames of other files
  Junk,          \* bytes before the first frame of a RAW file
  MaxFrames, MaxEtiCut

ASSUME EtiReaderAssumption ==
  /\ RawFrame \in Nat /\ RawFrame >= 4 /\ FrameSizes \subseteq 4..RawFrame
  /\ Junk \subseteq Nat
  /\ 2 \notin Junk /\ 6 \notin Junk   \* looks like another kind of file
  /\ MaxFrames \in Nat /\ MaxEtiCut \in 0..(RawFrame - 1)

VARIABLES
  kind,            \* what was written: "RAW", "STREAMED", "FRAMED"
  file,            \* its frames: [begin, end], end excluded
  etiSize,
  etiFd,           \* the position in the file
  fmt,             \* self.fmt
  frames,          \* what next() returned: <<from, to>>, to excluded
  etiStatus        \* "new", "written", "open", "reading",
                   \* "EtiReaderException", "struct.error"

readerVars == <<kind, file, etiSize, etiFd, fmt, frames, etiStatus>>

ReaderInit ==
  /\ kind = "RAW" /\ file = << >> /\ etiSize = 0
  /\ etiFd = 0 /\ fmt = "RAW" /\ frames = << >> /\ etiStatus = "new"

\* Bytes of a frame's length.
Prefix == IF kind = "RAW" THEN 0 ELSE 2
Frame == DOMAIN file
IsSync(i) == \E f \in Frame : i = file[f].begin + Prefix

Create(k, junk) ==
  /\ etiStatus = "new"
  /\ kind' = k
  /\ etiSize' = IF k = "FRAMED" THEN 4 ELSE IF k = "RAW" THEN junk ELSE 0
  /\ etiStatus' = "written"
  /\ UNCHANGED <<file, etiFd, fmt, frames>>

Write(length) ==
  /\ etiStatus = "written" /\ Len(file) < MaxFrames
  /\ kind = "RAW" => length = RawFrame
  /\ etiSize' = etiSize + Prefix + length
  /\ file' = Append(file, [begin |-> etiSize, end |-> etiSize'])
  /\ UNCHANGED <<kind, etiFd, fmt, frames, etiStatus>>

\* The file may end anywhere in its last frame, but not before its sync.
Close(cut) ==
  /\ etiStatus = "written" /\ file # << >>
  /\ file[Len(file)].begin + Prefix < etiSize - cut
  /\ etiSize' = etiSize - cut
  /\ etiStatus' = "open"
  /\ UNCHANGED <<kind, file, etiFd, fmt, frames>>
----------------------------------------------------------------------------
CanCheckSync(i) == i + 4 <= etiSize    \* struct.unpack of 4 bytes
check_sync(i) == IsSync(i)

\* discover_filetype: the first place with a sync, and what that means.
Discover ==
  /\ etiStatus = "open"
  /\ LET places == {i \in 0..(etiSize - 4) : check_sync(i)}
         i == CHOOSE p \in places : \A q \in places : p <= q
     IN IF places = {}
          THEN etiStatus' = "struct.error" /\ UNCHANGED <<etiFd, fmt>>
          ELSE /\ fmt' = CASE i = 2 -> "STREAMED"
                           [] i = 6 -> "FRAMED"
                           [] OTHER -> "RAW"
               /\ etiFd' = IF i = 6 THEN 4 ELSE IF i = 2 THEN 0 ELSE i
               /\ etiStatus' = "reading"
  /\ UNCHANGED <<kind, file, etiSize, frames>>

\* What a read of n bytes reaches.
Reach(n) == IF etiFd + n < etiSize THEN etiFd + n ELSE etiSize

Return(to) ==
  /\ frames' = Append(frames, <<etiFd, to>>)
  /\ etiFd' = to
  /\ UNCHANGED etiStatus

Raise(exception) == etiStatus' = exception /\ UNCHANGED <<etiFd, frames>>

NextRaw ==
  /\ etiStatus = "reading" /\ fmt = "RAW"
  /\ IF etiFd < etiSize THEN Return(Reach(RawFrame)) ELSE Raise("EtiReaderException")
  /\ UNCHANGED <<kind, file, etiSize, fmt>>

\* The 2 bytes that are read again: the length before the frame.
LengthAt(i) ==
  LET found == {f \in Frame : file[f].begin = i}
      f == CHOOSE x \in found : TRUE
  IN IF found = {} THEN 0 ELSE file[f].end - file[f].begin - 2

\* Mutant: the frame without its length, so that the position stays behind.
NextWithLengthShort ==
  /\ etiStatus = "reading" /\ fmt \in {"STREAMED", "FRAMED"}
  /\ IF Reach(2) < etiFd + 2 \/ LengthAt(etiFd) = 0 THEN Raise("EtiReaderException")
     ELSE IF ~CanCheckSync(etiFd + 2) THEN Raise("struct.error")
     ELSE IF ~check_sync(etiFd + 2) THEN Raise("EtiReaderException")
     ELSE IF Reach(LengthAt(etiFd)) - etiFd < LengthAt(etiFd)
       THEN Raise("EtiReaderException")
     ELSE Return(Reach(LengthAt(etiFd)))
  /\ UNCHANGED <<kind, file, etiSize, fmt>>

\* Up to 2 bytes may be missing of a frame that is returned.
NextWithLength ==
  /\ etiStatus = "reading" /\ fmt \in {"STREAMED", "FRAMED"}
  /\ IF Reach(2) < etiFd + 2 \/ LengthAt(etiFd) \notin 1..RawFrame
       THEN Raise("EtiReaderException")
     ELSE IF ~CanCheckSync(etiFd + 2) THEN Raise("struct.error")
     ELSE IF ~check_sync(etiFd + 2) THEN Raise("EtiReaderException")
     ELSE IF Reach(LengthAt(etiFd) + 2) - etiFd < LengthAt(etiFd)
       THEN Raise("EtiReaderException")
     ELSE Return(Reach(LengthAt(etiFd) + 2))
  /\ UNCHANGED <<kind, file, etiSize, fmt>>

ReaderNext ==
  \/ \E junk \in Junk : Create("RAW", junk)
  \/ \E k \in {"STREAMED", "FRAMED"} : Create(k, 0)
  \/ \E length \in FrameSizes \cup {RawFrame} : Write(length)
  \/ \E cut \in 0..MaxEtiCut : Close(cut)
  \/ Discover
  \/ NextRaw
  \/ NextWithLength

ReaderSpec == ReaderInit /\ [][ReaderNext]_readerVars
----------------------------------------------------------------------------
\* What is read are the frames of the file, in order, with their lengths where
\* it has them, none left out and only the last one incomplete, whatever kind
\* of file it is and wherever it begins and ends; the reader raises
\* EtiReaderException at the end, or struct.error where the file ends in the
\* sync of a frame (EtiReader lines 14-87).
FramesReadInOrder ==
  /\ \A i \in DOMAIN frames :
       LET end == file[i].end
       IN frames[i] = <<file[i].begin, IF end < etiSize THEN end ELSE etiSize>>
  /\ etiStatus = "EtiReaderException" =>
       \A f \in Frame : file[f].end <= etiSize => f \in DOMAIN frames
  /\ etiStatus = "struct.error" =>
       etiSize < file[Len(frames) + 1].begin + Prefix + 4
=============================================================================
