----------------------------- MODULE PacingProofs -----------------------------
(***************************************************************************)
(* Proofs about the programs that send a recording: when they send          *)
(* (Pacing), for every period, delay and bound on the time, and what        *)
(* edisend.py sends (EdiSend), for every file of packets.                   *)
(***************************************************************************)
EXTENDS Pacing, EdiSend, SequenceTheorems, TLAPS

\* What is known of each sender between two steps: a sender is not woken before the
\* frame is due; when no delay exceeds the period, exactly then; the system runs it
\* max_delay later at most.
DabpPaced ==
  dabp_running =>
    /\ dabp_wake >= frame_send_time
    /\ max_delay <= DabpPeriod => dabp_wake = frame_send_time
    /\ now <= dabp_wake + max_delay

\* last_send_time is not before the last frame but one; while the program sleeps, the
\* time it has read is not before the last one.
EdiPaced ==
  /\ edi_sent.before <= edi_sent.last
  /\ edi_sent.before <= last_send_time
  /\ edi_pc = "sleep" =>
       /\ edi_wake >= last_send_time + EdiPeriod
       /\ time_now >= edi_sent.last

PacingInv == TypeOK /\ DabpPaced /\ EdiPaced

LEMMA InitPaced == Init => PacingInv
  BY PacingAssumption DEF Init, PacingInv, TypeOK, DabpPaced, EdiPaced

LEMMA DabpSendKeeps == ASSUME PacingInv, DabpSend PROVE PacingInv'
<1> USE PacingAssumption DEF PacingInv, DabpSend, edi
<1>1. TypeOK'
  BY DEF TypeOK, DabpPaced, DabpWaiting, NextDeadline
<1>2. DabpPaced'
  BY DEF TypeOK, DabpPaced, DabpWaiting, NextDeadline
<1>3. EdiPaced'
  BY DEF EdiPaced
<1> QED BY <1>1, <1>2, <1>3

LEMMA EdiReadKeeps == ASSUME PacingInv, EdiRead PROVE PacingInv'
<1> USE PacingAssumption DEF PacingInv, EdiRead, EdiDue, dabp
<1>1. TypeOK'
  BY DEF TypeOK
<1>2. DabpPaced'
  BY DEF DabpPaced
<1>3. EdiPaced'
  BY DEF EdiPaced, TypeOK
<1> QED BY <1>1, <1>2, <1>3

LEMMA EdiSendKeeps == ASSUME PacingInv, EdiSend PROVE PacingInv'
<1> USE PacingAssumption DEF PacingInv, EdiSend, EdiWake, dabp
<1>1. TypeOK'
  BY DEF TypeOK
<1>2. DabpPaced'
  BY DEF DabpPaced
<1>3. EdiPaced'
  BY DEF EdiPaced, TypeOK
<1> QED BY <1>1, <1>2, <1>3

\* The steps that end a program, or refuse a packet.
LEMMA EndsKeep == ASSUME PacingInv, DabpEnd \/ EdiRefuse \/ EdiEnd PROVE PacingInv'
<1> USE PacingAssumption DEF PacingInv
<1>1. CASE DabpEnd
  BY <1>1 DEF DabpEnd, edi, TypeOK, DabpPaced, EdiPaced
<1>2. CASE EdiRefuse
  <2> USE <1>2 DEF EdiRefuse, EdiWake, dabp
  <2>1. TypeOK'
    BY DEF TypeOK
  <2>2. DabpPaced'
    BY DEF DabpPaced
  <2>3. EdiPaced'
    BY DEF EdiPaced, TypeOK
  <2> QED BY <2>1, <2>2, <2>3
<1>3. CASE EdiEnd
  BY <1>3 DEF EdiEnd, dabp, TypeOK, DabpPaced, EdiPaced
<1> QED BY <1>1, <1>2, <1>3

LEMMA TickKeeps == ASSUME PacingInv, Tick PROVE PacingInv'
<1> USE PacingAssumption DEF PacingInv, Tick, dabp, edi
<1>1. TypeOK'
  BY DEF TypeOK
<1>2. DabpPaced'
  BY DEF DabpPaced, TypeOK
<1>3. EdiPaced'
  BY DEF EdiPaced
<1> QED BY <1>1, <1>2, <1>3

LEMMA StutterKeeps == ASSUME PacingInv, UNCHANGED vars PROVE PacingInv'
  BY DEF PacingInv, vars, dabp, edi, TypeOK, DabpPaced, EdiPaced

LEMMA Paced == Spec => []PacingInv
<1>1. PacingInv /\ [Next]_vars => PacingInv'
  BY DabpSendKeeps, EdiReadKeeps, EdiSendKeeps, EndsKeep, TickKeeps, StutterKeeps
  DEF Next
<1> QED BY InitPaced, <1>1, PTL DEF Spec

\* The types hold, and no time that was read or noted is in the future.
THEOREM PacingTypeCorrect == Spec => []TypeOK
  BY Paced, PTL DEF PacingInv

\* When no delay exceeds the period, each superframe leaves at most one such delay
\* after it is due, however many there are: delays do not add up.
THEOREM DabpIsOnTime == Spec => []DabpOnTime
<1>1. PacingInv => DabpOnTime
  BY DEF PacingInv, DabpPaced, DabpOnTime
<1> QED BY Paced, <1>1, PTL

\* Both parts of the run's invariant hold for every period, delay and time.
THEOREM SendersArePaced == Spec => []PacedInTime
  BY PacingTypeCorrect, DabpIsOnTime, PTL DEF PacedInTime

\* No superframe is sent before it is due.
THEOREM DabpIsNeverEarly == Spec => DabpNeverEarly
<1>1. PacingInv /\ [Next]_vars => [frame_send_time' # frame_send_time => now >= frame_send_time]_vars
  <2> SUFFICES ASSUME PacingInv, Next, frame_send_time' # frame_send_time
               PROVE  now >= frame_send_time
    OBVIOUS
  <2>1. DabpSend
    BY DEF Next, DabpEnd, EdiRead, EdiSend, EdiRefuse, EdiWake, EdiEnd, Tick, dabp
  <2> QED BY <2>1 DEF DabpSend, PacingInv, DabpPaced, TypeOK
<1> QED BY Paced, <1>1, PTL DEF Spec, DabpNeverEarly

\* edisend.py sends at most two frames in a period.
THEOREM EdiSendsTwoPerPeriod == Spec => EdiTwoPerPeriod
<1>1. PacingInv /\ [Next]_vars
        => [edi_sent' # edi_sent => edi_sent'.last >= edi_sent.before + EdiPeriod]_vars
  <2> SUFFICES ASSUME PacingInv, Next, edi_sent' # edi_sent
               PROVE  edi_sent'.last >= edi_sent.before + EdiPeriod
    OBVIOUS
  <2>1. EdiSend
    BY DEF Next, DabpSend, DabpEnd, EdiRead, EdiRefuse, EdiEnd, Tick, edi
  <2> QED BY <2>1, PacingAssumption DEF EdiSend, EdiWake, PacingInv, EdiPaced, TypeOK
<1> QED BY Paced, <1>1, PTL DEF Spec, EdiTwoPerPeriod

----------------------------------------------------------------------------
(* What edisend.py sends                                                   *)

\* The bytes from one position to another.
LEMMA BytesBetween ==
  ASSUME NEW a \in Nat, NEW b \in Nat, a <= b
  PROVE  /\ Bytes(a, b) \in Seq(Nat) /\ Len(Bytes(a, b)) = b - a
         /\ \A i \in 1..(b - a) : Bytes(a, b)[i] = a + i
<1>1. b - a \in Nat
  OBVIOUS
<1>2. Bytes(a, b) \in [1..(b - a) -> Nat]
  BY <1>1 DEF Bytes
<1>3. Bytes(a, b) \in Seq(Nat)
  BY <1>1, <1>2, SeqDef
<1>4. Len(Bytes(a, b)) = b - a
  <2>1. DOMAIN Bytes(a, b) = 1..(b - a)
    BY DEF Bytes
  <2>2. QED
    BY <1>1, <1>3, <2>1, LenProperties
<1>5. QED
  BY <1>3, <1>4 DEF Bytes

LEMMA BytesNone ==
  ASSUME NEW a \in Nat
  PROVE  Bytes(a, a) = << >>
<1>1. Len(Bytes(a, a)) = 0 /\ Bytes(a, a) \in Seq(Nat)
  BY BytesBetween
<1>2. QED
  BY <1>1, EmptySeq

LEMMA BytesJoin ==
  ASSUME NEW a \in Nat, NEW b \in Nat, NEW c \in Nat, a <= b, b <= c
  PROVE  Bytes(a, b) \o Bytes(b, c) = Bytes(a, c)
<1> DEFINE l == Bytes(a, b)
           r == Bytes(b, c)
           s == Bytes(a, c)
<1>1. /\ l \in Seq(Nat) /\ Len(l) = b - a /\ \A i \in 1..(b - a) : l[i] = a + i
      /\ r \in Seq(Nat) /\ Len(r) = c - b /\ \A i \in 1..(c - b) : r[i] = b + i
  BY BytesBetween
<1>2. s \in Seq(Nat) /\ Len(s) = c - a /\ \A i \in 1..(c - a) : s[i] = a + i
  <2>1. a <= c
    OBVIOUS
  <2>2. QED
    BY <2>1, BytesBetween
<1> HIDE DEF l, r, s
<1>3. /\ l \o r \in Seq(Nat) /\ Len(l \o r) = c - a
      /\ \A i \in 1..(c - a) : (l \o r)[i] = IF i <= b - a THEN l[i] ELSE r[i - (b - a)]
  <2>1. /\ l \o r \in Seq(Nat) /\ Len(l \o r) = Len(l) + Len(r)
        /\ \A i \in 1..(Len(l) + Len(r)) :
             (l \o r)[i] = IF i <= Len(l) THEN l[i] ELSE r[i - Len(l)]
    BY <1>1, ConcatProperties
  <2>2. Len(l) + Len(r) = c - a
    BY <1>1
  <2>3. QED
    BY <1>1, <2>1, <2>2
<1>4. ASSUME NEW i \in 1..(c - a)
      PROVE  (l \o r)[i] = s[i]
  <2>1. s[i] = a + i
    BY <1>2
  <2>2. CASE i <= b - a
    <3>1. i \in 1..(b - a)
      BY <2>2
    <3>2. QED
      BY <1>1, <1>3, <2>1, <2>2, <3>1
  <2>3. CASE ~(i <= b - a)
    <3>1. i - (b - a) \in 1..(c - b) /\ b + (i - (b - a)) = a + i
      BY <2>3
    <3>2. r[i - (b - a)] = b + (i - (b - a))
      BY <1>1, <3>1
    <3>3. QED
      BY <1>3, <2>1, <2>3, <3>1, <3>2
  <2>4. QED
    BY <2>2, <2>3
<1>5. l \o r = s
  BY <1>2, <1>3, <1>4, SeqEqual
<1>6. QED
  BY <1>5 DEF l, r, s

LEMMA BytesPart ==
  ASSUME NEW a \in Nat, NEW b \in Nat, NEW c \in Nat, a <= b, b <= c
  PROVE  /\ SubSeq(Bytes(a, c), 1, b - a) = Bytes(a, b)
         /\ SubSeq(Bytes(a, c), b - a + 1, c - a) = Bytes(b, c)
<1> DEFINE l == Bytes(a, b)
           r == Bytes(b, c)
           s == Bytes(a, c)
<1>1. /\ l \in Seq(Nat) /\ Len(l) = b - a /\ \A i \in 1..(b - a) : l[i] = a + i
      /\ r \in Seq(Nat) /\ Len(r) = c - b /\ \A i \in 1..(c - b) : r[i] = b + i
  BY BytesBetween
<1>2. s \in Seq(Nat) /\ Len(s) = c - a /\ \A i \in 1..(c - a) : s[i] = a + i
  <2>1. a <= c
    OBVIOUS
  <2>2. QED
    BY <2>1, BytesBetween
<1> HIDE DEF l, r, s
<1>3. SubSeq(s, 1, b - a) = l
  <2> DEFINE t == SubSeq(s, 1, b - a)
  <2>1. /\ t \in Seq(Nat) /\ Len(t) = b - a
        /\ \A i \in 1..(b - a) : t[i] = s[i]
    <3>1. \A i \in 1..(b - a) : s[i] \in Nat /\ 1 + i - 1 = i
      <4>1. SUFFICES ASSUME NEW i \in 1..(b - a) PROVE s[i] \in Nat /\ 1 + i - 1 = i
        OBVIOUS
      <4>2. i \in 1..(c - a)
        OBVIOUS
      <4>3. s[i] = a + i
        BY <1>2, <4>2
      <4>4. QED
        BY <4>3
    <3>2. b - a \in Int /\ 1 \in Int
      OBVIOUS
    <3>3. /\ t \in Seq(Nat) /\ Len(t) = IF 1 <= b - a THEN (b - a) - 1 + 1 ELSE 0
          /\ \A i \in 1..((b - a) - 1 + 1) : t[i] = s[1 + i - 1]
      BY <3>1, <3>2, SubSeqProperties
    <3> HIDE DEF t
    <3>4. (b - a) - 1 + 1 = b - a
      OBVIOUS
    <3>5. QED
      BY <3>1, <3>3, <3>4
  <2>2. \A i \in 1..(b - a) : t[i] = l[i]
    <3>1. SUFFICES ASSUME NEW i \in 1..(b - a) PROVE t[i] = l[i]
      OBVIOUS
    <3>2. i \in 1..(c - a)
      OBVIOUS
    <3> HIDE DEF t
    <3>3. QED
      BY <1>1, <1>2, <2>1, <3>2
  <2> HIDE DEF t
  <2>3. t = l
    BY <1>1, <2>1, <2>2, SeqEqual
  <2>4. QED
    BY <2>3 DEF t
<1>4. SubSeq(s, b - a + 1, c - a) = r
  <2> DEFINE t == SubSeq(s, b - a + 1, c - a)
  <2>1. /\ t \in Seq(Nat) /\ Len(t) = c - b
        /\ \A i \in 1..(c - b) : t[i] = s[b - a + i]
    <3>1. \A i \in (b - a + 1)..(c - a) : s[i] \in Nat
      <4>1. SUFFICES ASSUME NEW i \in (b - a + 1)..(c - a) PROVE s[i] \in Nat
        OBVIOUS
      <4>2. i \in 1..(c - a)
        OBVIOUS
      <4>3. s[i] = a + i
        BY <1>2, <4>2
      <4>4. QED
        BY <4>2, <4>3
    <3>2. b - a + 1 \in Int /\ c - a \in Int
      OBVIOUS
    <3>3. /\ t \in Seq(Nat)
          /\ Len(t) = IF b - a + 1 <= c - a THEN (c - a) - (b - a + 1) + 1 ELSE 0
          /\ \A i \in 1..((c - a) - (b - a + 1) + 1) : t[i] = s[(b - a + 1) + i - 1]
      BY <3>1, <3>2, SubSeqProperties
    <3> HIDE DEF t
    <3>4. (c - a) - (b - a + 1) + 1 = c - b
      OBVIOUS
    <3>5. \A i \in 1..(c - b) : (b - a + 1) + i - 1 = b - a + i
      OBVIOUS
    <3>6. Len(t) = c - b
      BY <3>3, <3>4
    <3>7. QED
      BY <3>3, <3>4, <3>5, <3>6
  <2>2. \A i \in 1..(c - b) : t[i] = r[i]
    <3>1. SUFFICES ASSUME NEW i \in 1..(c - b) PROVE t[i] = r[i]
      OBVIOUS
    <3>2. b - a + i \in 1..(c - a) /\ a + (b - a + i) = b + i
      OBVIOUS
    <3> HIDE DEF t
    <3>3. t[i] = a + (b - a + i)
      BY <1>2, <2>1, <3>2
    <3>4. QED
      BY <1>1, <3>2, <3>3
  <2> HIDE DEF t
  <2>3. t = r
    BY <1>1, <2>1, <2>2, SeqEqual
  <2>4. QED
    BY <2>3 DEF t
<1>5. QED
  BY <1>3, <1>4 DEF l, r, s

\* The position n bytes further on, or the end of the file.
Upto(n) == IF n < fileSize THEN n ELSE fileSize

\* A reader of the file that is at pos: its buffer has the bytes from there on
\* that are read already.
At(s, pos) ==
  /\ pos \in Nat /\ s.fd \in Nat /\ pos <= s.fd /\ s.fd <= fileSize
  /\ s.buf = Bytes(pos, s.fd)

\* read(n) returns what there is up to a position, is at that position then, and
\* leaves nothing in the buffer that was not there before.
ReadUpto(s, pos, n, to) ==
  /\ Read(s, n).data = Bytes(pos, Upto(to)) /\ At(Read(s, n), Upto(to))
  /\ s.fd <= to => Read(s, n).fd = Upto(to)

\* Whether what it returns comes from the buffer, from the file or from both,
\* read() returns the bytes that are next (BufferedFile lines 48-62).
LEMMA ReadsOn ==
  ASSUME fileSize \in Nat, NEW s, NEW pos, At(s, pos), NEW n \in Nat,
         NEW to \in Nat, to = pos + n
  PROVE  ReadUpto(s, pos, n, to)
<1> DEFINE more == More(s, n)
           all  == Filled(s, n)
           k    == Taken(s, n)
<1> HIDE DEF more, all, k
<1>1. /\ Read(s, n).fd = s.fd + Len(more) /\ Read(s, n).data = SubSeq(all, 1, k)
      /\ Read(s, n).buf = SubSeq(all, k + 1, Len(all))
  BY DEF Read, more, all, k
<1>2. PICK f \in Nat : f = s.fd /\ pos <= f /\ f <= fileSize /\ s.buf = Bytes(pos, f)
  BY DEF At
<1>3. pos \in Nat
  BY DEF At
<1>4. PICK m \in Nat : m = Upto(pos + n) /\ pos <= m
  <2>1. Upto(pos + n) \in Nat /\ pos <= Upto(pos + n)
    BY <1>2, <1>3 DEF Upto
  <2>2. QED
    BY <2>1
<1>5. Len(s.buf) = f - pos
  BY <1>2, <1>3, BytesBetween
<1>6. PICK g \in Nat : /\ g = IF f - pos < n THEN m ELSE f
                       /\ f <= g /\ m <= g /\ more = Bytes(f, g)
  <2>1. CASE f - pos < n
    <3>1. f <= m
      BY <1>2, <1>3, <1>4, <2>1 DEF Upto
    <3>2. f + (n - (f - pos)) = pos + n
      BY <1>3
    <3>3. FdRead(s, n - (f - pos)) = Bytes(f, m)
      BY <1>2, <1>4, <3>2 DEF FdRead, Upto
    <3>4. more = Bytes(f, m)
      BY <1>5, <2>1, <3>3 DEF more, More
    <3>5. QED
      BY <2>1, <3>1, <3>4
  <2>2. CASE ~(f - pos < n)
    <3>1. m <= f
      BY <1>2, <1>3, <1>4, <2>2 DEF Upto
    <3>2. more = Bytes(f, f)
      BY <1>5, <2>2, BytesNone DEF more, More
    <3>3. QED
      BY <2>2, <3>1, <3>2
  <2>3. QED
    BY <2>1, <2>2
<1>7. all = Bytes(pos, g) /\ Len(more) = g - f
  <2>1. Bytes(pos, f) \o Bytes(f, g) = Bytes(pos, g)
    <3>1. pos \in Nat /\ pos <= f /\ f <= g
      BY <1>2, <1>3, <1>6
    <3>2. QED
      BY <3>1, BytesJoin
  <2>2. Len(Bytes(f, g)) = g - f
    BY <1>6, BytesBetween
  <2>3. QED
    BY <1>2, <1>6, <2>1, <2>2 DEF all, Filled, more
<1>8. pos <= g
  BY <1>2, <1>3, <1>6
<1>9. Len(all) = g - pos
  BY <1>3, <1>7, <1>8, BytesBetween
<1>10. k = m - pos
  <2>1. CASE f - pos < n
    BY <1>2, <1>3, <1>4, <1>6, <1>9, <2>1 DEF Upto, k, Taken, all
  <2>2. CASE ~(f - pos < n)
    <3>1. m = pos + n
      BY <1>2, <1>3, <1>4, <2>2 DEF Upto
    <3>2. QED
      BY <1>3, <1>6, <1>9, <2>2, <3>1 DEF k, Taken, all
  <2>3. QED
    BY <2>1, <2>2
<1>11. SubSeq(all, 1, k) = Bytes(pos, m) /\ SubSeq(all, k + 1, Len(all)) = Bytes(m, g)
  <2>1. pos \in Nat /\ pos <= m /\ m <= g
    BY <1>3, <1>4, <1>6
  <2>2. /\ SubSeq(Bytes(pos, g), 1, m - pos) = Bytes(pos, m)
        /\ SubSeq(Bytes(pos, g), m - pos + 1, g - pos) = Bytes(m, g)
    BY <2>1, BytesPart
  <2>3. QED
    BY <1>7, <1>9, <1>10, <2>2
<1>12. s.fd + Len(more) = g
  BY <1>2, <1>6, <1>7
<1>13. g <= fileSize
  BY <1>2, <1>4, <1>6 DEF Upto
<1>14. s.fd <= pos + n => g = m
  BY <1>2, <1>3, <1>4, <1>6 DEF Upto
<1>15. QED
  <2>1. to = pos + n
    OBVIOUS
  <2>2. QED
    BY <1>1, <1>4, <1>6, <1>11, <1>12, <1>13, <1>14, <2>1 DEF At, ReadUpto

\* What is peeked remains to be read (BufferedFile lines 64-67).
LEMMA Peeks ==
  ASSUME fileSize \in Nat, NEW f \in Nat, f <= fileSize, NEW n \in Nat
  PROVE  LET s == Peek([fd |-> f, buf |-> << >>], n)
         IN s.data = Bytes(f, Upto(f + n)) /\ At(s, f) /\ s.fd = Upto(f + n)
<1> DEFINE s == Peek([fd |-> f, buf |-> << >>], n)
<1>1. PICK m \in Nat : m = Upto(f + n) /\ f <= m /\ m <= fileSize
  <2>1. Upto(f + n) \in Nat /\ f <= Upto(f + n) /\ Upto(f + n) <= fileSize
    BY DEF Upto
  <2>2. QED
    BY <2>1
<1>2. FdRead([fd |-> f, buf |-> << >>], n) = Bytes(f, m)
  BY <1>1 DEF FdRead, Upto
<1>3. Bytes(f, m) \in Seq(Nat) /\ Len(Bytes(f, m)) = m - f
  BY <1>1, BytesBetween
<1>4. /\ s.data = Bytes(f, m) /\ s.fd = f + Len(Bytes(f, m))
      /\ s.buf = << >> \o Bytes(f, m)
  BY <1>2 DEF Peek
<1>5. << >> \o Bytes(f, m) = Bytes(f, m)
  BY <1>3, ConcatEmptySeq
<1> HIDE DEF s
<1>6. s.fd = m /\ s.buf = Bytes(f, m) /\ s.data = Bytes(f, m)
  BY <1>1, <1>3, <1>4, <1>5
<1>7. QED
  BY <1>1, <1>6 DEF At, s

SendTypes ==
  /\ packets \in Seq(PacketKinds) /\ starts \in Seq(Nat)
  /\ Len(starts) = Len(packets) /\ fileSize \in Nat
  /\ datagrams \in Seq(Seq(Nat))
  /\ status \in {"written", "running", "ended", "struct.error"}

\* The packets of the file lie one behind the other.
PacketsLaid ==
  /\ \A i \in 1..Len(packets) :
       starts[i] = IF i = 1 THEN 0 ELSE End(i - 1)
  /\ \A i, j \in 1..Len(packets) : i < j => End(i) <= starts[j]

\* The file ends with its last packet; once it is open, within it.
EndsInPacket ==
  /\ status = "written" =>
       /\ fileSize = IF packets = << >> THEN 0 ELSE End(Len(packets))
       /\ fd = 0 /\ buf = << >> /\ datagrams = << >>
  /\ status # "written" =>
       /\ packets # << >> /\ fileSize <= End(Len(packets))
       /\ starts[Len(packets)] < fileSize

\* Between two packets the buffer is empty, and the file at the packet after those
\* that were sent.
AtNextPacket ==
  status = "running" =>
    /\ buf = << >> /\ Len(datagrams) <= Len(packets)
    /\ fd = IF Len(datagrams) < Len(packets) THEN starts[Len(datagrams) + 1]
            ELSE fileSize

SendInv ==
  SendTypes /\ PacketsLaid /\ EndsInPacket /\ AtNextPacket /\ SendsTheFile

LEMMA PacketTypes ==
  ASSUME NEW p \in PacketKinds
  PROVE  /\ p.plen \in Nat /\ OptionsSize(p) \in Nat /\ PacketSize(p) \in Nat
         /\ PacketSize(p) > 0 /\ p.sync \in {"AF", "PF", "other"}
         /\ p.crc_ok \in BOOLEAN
<1>1. /\ p.plen \in Nat /\ p.sync \in {"AF", "PF", "other"} /\ p.crc_ok \in BOOLEAN
      /\ p.fec \in BOOLEAN /\ p.addr \in BOOLEAN
  BY EdiSendAssumption
<1>2. OptionsSize(p) \in Nat
  BY <1>1 DEF OptionsSize
<1>3. PacketSize(p) \in Nat /\ PacketSize(p) > 0
  BY <1>1, <1>2 DEF PacketSize
<1>4. QED
  BY <1>1, <1>2, <1>3

LEMMA FileOfPackets ==
  ASSUME SendTypes
  PROVE  /\ Len(packets) \in Nat /\ (packets = << >> <=> Len(packets) = 0)
         /\ DOMAIN packets = 1..Len(packets) /\ Len(datagrams) \in Nat
         /\ \A i \in 1..Len(packets) :
              packets[i] \in PacketKinds /\ starts[i] \in Nat /\ End(i) \in Nat
         /\ \A i \in 1..Len(packets) :
              starts[i] < End(i) /\ End(i) = starts[i] + PacketSize(packets[i])
<1>1. /\ Len(packets) \in Nat /\ DOMAIN packets = 1..Len(packets)
      /\ Len(datagrams) \in Nat /\ Len(starts) = Len(packets)
  BY LenProperties DEF SendTypes
<1>2. packets = << >> <=> Len(packets) = 0
  BY EmptySeq DEF SendTypes
<1>3. \A i \in 1..Len(packets) : packets[i] \in PacketKinds /\ starts[i] \in Nat
  BY <1>1, ElementOfSeq DEF SendTypes
<1>4. ASSUME NEW i \in 1..Len(packets)
      PROVE  /\ End(i) \in Nat /\ starts[i] < End(i)
             /\ End(i) = starts[i] + PacketSize(packets[i])
  <2>1. PacketSize(packets[i]) \in Nat /\ PacketSize(packets[i]) > 0
    BY <1>3, PacketTypes
  <2>2. End(i) = starts[i] + PacketSize(packets[i]) /\ starts[i] \in Nat
    BY <1>3 DEF End
  <2>3. QED
    BY <2>1, <2>2
<1>5. QED
  BY <1>1, <1>2, <1>3, <1>4

LEMMA SendInitial == EdiSendInit => SendInv
<1> SUFFICES ASSUME EdiSendInit PROVE SendInv
  OBVIOUS
<1>1. SendTypes
  BY EmptySeq DEF EdiSendInit, SendTypes
<1>2. Len(packets) = 0 /\ Len(datagrams) = 0
  BY EmptySeq DEF EdiSendInit
<1>3. PacketsLaid
  BY <1>2 DEF PacketsLaid
<1>4. EndsInPacket /\ AtNextPacket /\ SendsTheFile
  BY <1>2 DEF EdiSendInit, EndsInPacket, AtNextPacket, SendsTheFile
<1>5. QED
  BY <1>1, <1>3, <1>4 DEF SendInv

LEMMA Appended ==
  ASSUME NEW S, NEW s \in Seq(S), NEW e \in S
  PROVE  /\ Append(s, e) \in Seq(S) /\ Append(s, e) # << >>
         /\ Len(Append(s, e)) = Len(s) + 1
         /\ \A i \in 1..Len(s) : Append(s, e)[i] = s[i]
         /\ Append(s, e)[Len(s) + 1] = e
<1>1. /\ Append(s, e) \in Seq(S) /\ Len(Append(s, e)) = Len(s) + 1 /\ Len(s) \in Nat
      /\ \A i \in 1..Len(s) : Append(s, e)[i] = s[i]
      /\ Append(s, e)[Len(s) + 1] = e
  BY AppendProperties, LenProperties
<1>2. Append(s, e) # << >>
  BY <1>1, EmptySeq
<1>3. QED
  BY <1>1, <1>2

LEMMA WritePacketKeeps ==
  ASSUME SendInv, NEW p \in PacketKinds, WritePacket(p)
  PROVE  SendInv'
<1>1. /\ status = "written" /\ packets' = Append(packets, p)
      /\ starts' = Append(starts, fileSize) /\ fileSize' = fileSize + PacketSize(p)
      /\ UNCHANGED <<fd, buf, datagrams, status>>
  BY DEF WritePacket
<1>2. SendTypes /\ PacketsLaid /\ EndsInPacket
  BY DEF SendInv
<1>3. PICK n \in Nat, z \in Nat : n = Len(packets) /\ z = PacketSize(p) /\ z > 0
  BY <1>2, FileOfPackets, PacketTypes
<1>4. PICK s \in Nat : s = fileSize
  BY <1>2 DEF SendTypes
<1>5. /\ packets' \in Seq(PacketKinds) /\ Len(packets') = n + 1 /\ packets' # << >>
      /\ \A i \in 1..n : packets'[i] = packets[i]
      /\ packets'[n + 1] = p
  <2>1. packets \in Seq(PacketKinds)
    BY <1>2 DEF SendTypes
  <2>2. QED
    BY <1>1, <1>3, <2>1, Appended
<1>6. /\ starts' \in Seq(Nat) /\ Len(starts') = n + 1
      /\ \A i \in 1..n : starts'[i] = starts[i]
      /\ starts'[n + 1] = s
  BY <1>1, <1>2, <1>3, <1>4, Appended DEF SendTypes
<1>7. fileSize' = s + z /\ s + z \in Nat
  BY <1>1, <1>3, <1>4
<1>8. SendTypes'
  BY <1>1, <1>2, <1>5, <1>6, <1>7 DEF SendTypes
<1>9. (\A i \in 1..n : End(i)' = End(i)) /\ End(n + 1)' = s + z
  BY <1>3, <1>5, <1>6 DEF End
<1>10. s = IF n = 0 THEN 0 ELSE End(n)
  BY <1>1, <1>2, <1>3, <1>4, FileOfPackets DEF EndsInPacket
<1>11. PacketsLaid'
  <2>1. ASSUME NEW i \in 1..(n + 1)
        PROVE  starts'[i] = IF i = 1 THEN 0 ELSE End(i - 1)'
    <3>1. CASE i \in 1..n
      <4>1. i # 1 => i - 1 \in 1..n
        BY <3>1
      <4>2. starts[i] = IF i = 1 THEN 0 ELSE End(i - 1)
        BY <1>2, <1>3, <3>1 DEF PacketsLaid
      <4>3. QED
        BY <1>6, <1>9, <3>1, <4>1, <4>2
    <3>2. CASE i = n + 1
      <4>1. i # 1 => i - 1 = n /\ n \in 1..n /\ n # 0
        BY <3>2
      <4>2. i = 1 => n = 0
        BY <3>2
      <4>3. QED
        BY <1>6, <1>9, <1>10, <3>2, <4>1, <4>2
    <3>3. QED
      BY <3>1, <3>2
  <2>2. ASSUME NEW i \in 1..(n + 1), NEW j \in 1..(n + 1), i < j
        PROVE  End(i)' <= starts'[j]
    <3>1. i \in 1..n
      BY <2>2
    <3>2. CASE j \in 1..n
      <4>1. End(i) <= starts[j]
        BY <1>2, <1>3, <2>2, <3>1, <3>2 DEF PacketsLaid
      <4>2. QED
        BY <1>6, <1>9, <3>1, <3>2, <4>1
    <3>3. CASE j = n + 1
      <4>1. starts'[j] = End(n) /\ End(i)' = End(i) /\ n \in 1..n
        BY <1>6, <1>9, <1>10, <3>1, <3>3
      <4>2. CASE i = n
        <5>1. End(n) \in Nat
          BY <1>2, <1>3, <4>1, FileOfPackets
        <5>2. QED
          BY <4>1, <4>2, <5>1
      <4>3. CASE i # n
        <5>1. i < n
          BY <3>1, <4>3
        <5>2. End(i) <= starts[n]
          BY <1>2, <1>3, <3>1, <4>1, <5>1 DEF PacketsLaid
        <5>3. PICK a \in Nat, b \in Nat, c \in Nat :
                   a = End(i) /\ b = starts[n] /\ c = End(n) /\ b < c
          BY <1>2, <1>3, <3>1, <4>1, FileOfPackets
        <5>4. a <= c
          BY <5>2, <5>3
        <5>5. QED
          BY <4>1, <5>3, <5>4
      <4>4. QED
        BY <4>2, <4>3
    <3>4. QED
      BY <3>2, <3>3
  <2>3. QED
    BY <1>5, <2>1, <2>2 DEF PacketsLaid
<1>12. EndsInPacket' /\ AtNextPacket'
  BY <1>1, <1>2, <1>5, <1>7, <1>9 DEF EndsInPacket, AtNextPacket
<1>13. SendsTheFile'
  <2>1. Len(datagrams) = 0
    BY <1>1, <1>2, EmptySeq DEF EndsInPacket
  <2>2. QED
    BY <1>1, <2>1 DEF SendsTheFile
<1>14. QED
  BY <1>8, <1>11, <1>12, <1>13 DEF SendInv

LEMMA OpenFileKeeps ==
  ASSUME SendInv, NEW cut \in 0..MaxCut, OpenFile(cut)
  PROVE  SendInv'
<1>1. /\ status = "written" /\ packets # << >>
      /\ cut < PacketSize(packets[Len(packets)])
      /\ fileSize' = fileSize - cut /\ status' = "running"
      /\ UNCHANGED <<packets, starts, fd, buf, datagrams>>
  BY DEF OpenFile
<1>2. SendTypes /\ PacketsLaid /\ EndsInPacket
  BY DEF SendInv
<1>3. PICK n \in Nat : n = Len(packets) /\ n \in 1..n /\ 1 \in 1..n /\ 0 < n
  <2>1. Len(packets) \in Nat /\ Len(packets) # 0
    BY <1>1, <1>2, FileOfPackets
  <2>2. QED
    BY <2>1
<1>4. PICK b \in Nat, e \in Nat, z \in Nat :
           /\ b = starts[n] /\ e = End(n) /\ z = PacketSize(packets[n])
           /\ e = b + z
  <2>1. packets[n] \in PacketKinds
    BY <1>2, <1>3, FileOfPackets
  <2>2. PacketSize(packets[n]) \in Nat
    BY <2>1, PacketTypes
  <2>3. QED
    BY <1>2, <1>3, <2>2, FileOfPackets
<1>5. fileSize = e /\ cut < z /\ cut \in Nat /\ datagrams = << >> /\ fd = 0 /\ buf = << >>
  BY <1>1, <1>2, <1>3, <1>4, EdiSendAssumption DEF EndsInPacket
<1>6. fileSize' \in Nat /\ fileSize' <= e /\ b < fileSize'
  <2>1. fileSize' = e - cut /\ e = b + z
    BY <1>1, <1>4, <1>5
  <2>2. cut < z /\ cut \in Nat
    BY <1>5
  <2>3. QED
    BY <2>1, <2>2
<1>7. Len(datagrams) = 0
  BY <1>5, EmptySeq
<1>8. SendTypes'
  BY <1>1, <1>2, <1>6 DEF SendTypes
<1>9. (\A i : End(i)' = End(i)) /\ PacketsLaid'
  BY <1>1, <1>2 DEF PacketsLaid, End
<1>10. EndsInPacket'
  BY <1>1, <1>3, <1>4, <1>6, <1>9 DEF EndsInPacket
<1>11. AtNextPacket'
  <2>1. starts[1] = 0
    BY <1>2, <1>3 DEF PacketsLaid
  <2>2. QED
    BY <1>1, <1>3, <1>5, <1>7, <2>1 DEF AtNextPacket
<1>12. SendsTheFile'
  BY <1>1, <1>7 DEF SendsTheFile
<1>13. QED
  BY <1>8, <1>9, <1>10, <1>11, <1>12 DEF SendInv

\* Where the next packet is; only the last one may reach beyond the end of the file.
LEMMA NextPacket ==
  ASSUME SendInv, status = "running", Len(datagrams) < Len(packets)
  PROVE  LET n == Len(datagrams) + 1
         IN /\ n \in 1..Len(packets) /\ fd = starts[n] /\ buf = << >>
            /\ packets[n] \in PacketKinds
            /\ starts[n] \in Nat /\ End(n) \in Nat
            /\ End(n) = starts[n] + PacketSize(packets[n])
            /\ starts[n] < fileSize
            /\ n < Len(packets) => /\ n + 1 \in 1..Len(packets)
                                   /\ End(n) = starts[n + 1] /\ End(n) < fileSize
            /\ n = Len(packets) => fileSize <= End(n)
<1>1. SendTypes /\ PacketsLaid /\ EndsInPacket
  BY DEF SendInv
<1>2. PICK n \in Nat, l \in Nat :
           n = Len(datagrams) + 1 /\ l = Len(packets) /\ n \in 1..l /\ l \in 1..l
  <2>1. Len(datagrams) \in Nat /\ Len(packets) \in Nat
    BY <1>1, FileOfPackets
  <2>2. /\ Len(datagrams) + 1 \in Nat /\ Len(datagrams) + 1 \in 1..Len(packets)
        /\ Len(packets) \in 1..Len(packets)
    BY <2>1
  <2>3. QED
    BY <2>1, <2>2
<1>3. fd = starts[n] /\ buf = << >>
  BY <1>2 DEF SendInv, AtNextPacket
<1>4. /\ packets[n] \in PacketKinds /\ starts[n] \in Nat /\ End(n) \in Nat
      /\ End(n) = starts[n] + PacketSize(packets[n])
  BY <1>1, <1>2, FileOfPackets
<1>5. starts[l] < fileSize /\ fileSize <= End(l) /\ fileSize \in Nat /\ starts[l] \in Nat
  BY <1>1, <1>2, FileOfPackets DEF EndsInPacket, SendTypes
<1>6. CASE n = l
  BY <1>2, <1>3, <1>4, <1>5, <1>6
<1>7. CASE n # l
  <2>1. n < l /\ n + 1 \in 1..l /\ n + 1 # 1 /\ (n + 1) - 1 = n
    BY <1>2, <1>7
  <2>2. End(n) = starts[n + 1]
    BY <1>1, <1>2, <2>1 DEF PacketsLaid
  <2>3. End(n) <= starts[l] /\ starts[n] < End(n)
    BY <1>1, <1>2, <2>1, FileOfPackets DEF PacketsLaid
  <2>4. PICK b \in Nat, e \in Nat, c \in Nat, s \in Nat :
             b = starts[n] /\ e = End(n) /\ c = starts[l] /\ s = fileSize
    BY <1>4, <1>5
  <2>5. e < s /\ b < s
    BY <1>5, <2>3, <2>4
  <2>6. QED
    BY <1>2, <1>3, <1>4, <2>1, <2>2, <2>4, <2>5
<1>8. QED
  BY <1>6, <1>7

\* The packet whose first byte is at fd is the next one, and no other.
LEMMA HeaderOfNext ==
  ASSUME SendInv, status = "running", Len(datagrams) < Len(packets)
  PROVE  Header(fd + 1) = {Len(datagrams) + 1}
<1>1. SendTypes /\ PacketsLaid
  BY DEF SendInv
<1>2. PICK n \in 1..Len(packets) : n = Len(datagrams) + 1 /\ fd = starts[n]
  BY NextPacket
<1>3. ASSUME NEW i \in 1..Len(packets), starts[i] + 1 = fd + 1, i # n
      PROVE  FALSE
  <2>1. PICK b \in Nat, a \in Nat, e \in Nat, c \in Nat :
             /\ b = starts[i] /\ a = End(i) /\ e = starts[n] /\ c = End(n)
             /\ b < a /\ e < c
    BY <1>1, FileOfPackets
  <2>2. b = e
    BY <1>2, <1>3, <2>1
  <2>3. i < n \/ n < i
    <3>1. Len(packets) \in Nat
      BY <1>1, FileOfPackets
    <3>2. QED
      BY <1>3, <3>1
  <2>4. (i < n => a <= e) /\ (n < i => c <= b)
    BY <1>1, <2>1 DEF PacketsLaid
  <2>5. QED
    BY <2>1, <2>2, <2>3, <2>4
<1>4. DOMAIN packets = 1..Len(packets)
  BY <1>1, FileOfPackets
<1>5. QED
  BY <1>2, <1>3, <1>4 DEF Header

\* A packet was sent: the program is behind it, with an empty buffer.
LEMMA SentKeeps ==
  ASSUME SendInv, status = "running", Len(datagrams) < Len(packets),
         UNCHANGED <<packets, starts, fileSize>>, status' = "running", buf' = << >>,
         fd' = Upto(End(Len(datagrams) + 1)),
         datagrams' = Append(datagrams, Bytes(fd, Upto(End(Len(datagrams) + 1)))),
         packets[Len(datagrams) + 1].crc_ok,
         packets[Len(datagrams) + 1].sync # "other",
         End(Len(datagrams) + 1) <= fileSize \/ packets[Len(datagrams) + 1].sync = "PF"
  PROVE  SendInv'
<1>1. SendTypes /\ PacketsLaid /\ EndsInPacket /\ SendsTheFile /\ fileSize \in Nat
  BY DEF SendInv, SendTypes
<1>2. PICK n \in Nat, l \in Nat : n = Len(datagrams) /\ l = Len(packets) /\ n < l
  BY <1>1, FileOfPackets
<1>3. PICK b \in Nat, e \in Nat, m \in Nat :
           b = starts[n + 1] /\ e = End(n + 1) /\ m = Upto(e) /\ b <= m
  <2>1. /\ starts[n + 1] \in Nat /\ End(n + 1) \in Nat /\ starts[n + 1] < End(n + 1)
        /\ starts[n + 1] < fileSize
    <3>1. n + 1 \in 1..Len(packets)
      BY <1>2
    <3>2. starts[n + 1] < fileSize
      BY <1>2, NextPacket
    <3>3. QED
      BY <1>1, <3>1, <3>2, FileOfPackets
  <2>2. Upto(End(n + 1)) \in Nat /\ starts[n + 1] <= Upto(End(n + 1))
    BY <1>1, <2>1 DEF Upto
  <2>3. QED
    BY <2>1, <2>2
<1>4. /\ fd = b /\ fd' = m /\ datagrams' = Append(datagrams, Bytes(b, m))
      /\ n + 1 < l => e = starts[n + 2] /\ e < fileSize
      /\ n + 1 = l => fileSize <= e
  <2>1. (n + 1) + 1 = n + 2
    OBVIOUS
  <2>2. fd = b
    BY <1>2, <1>3, NextPacket
  <2>3. QED
    BY <1>2, <1>3, <2>1, <2>2, NextPacket
<1>5. /\ datagrams' \in Seq(Seq(Nat)) /\ Len(datagrams') = n + 1
      /\ \A i \in 1..n : datagrams'[i] = datagrams[i]
      /\ datagrams'[n + 1] = Bytes(b, m)
  <2>1. Bytes(b, m) \in Seq(Nat) /\ datagrams \in Seq(Seq(Nat))
    BY <1>1, <1>3, BytesBetween DEF SendTypes
  <2>2. QED
    BY <1>2, <1>4, <2>1, Appended
<1>6. SendTypes' /\ PacketsLaid' /\ EndsInPacket'
  BY <1>1, <1>5 DEF SendTypes, PacketsLaid, EndsInPacket, End
<1>7. AtNextPacket'
  <2>1. CASE n + 1 < l
    <3>1. m = e
      BY <1>3, <1>4, <2>1 DEF Upto
    <3>2. fd' = starts[n + 2] /\ (n + 1) + 1 = n + 2 /\ n + 1 <= l
      BY <1>2, <1>4, <2>1, <3>1
    <3>3. QED
      BY <1>2, <1>5, <2>1, <3>2 DEF AtNextPacket
  <2>2. CASE ~(n + 1 < l)
    <3>1. n + 1 = l
      BY <1>2, <2>2
    <3>2. fd' = fileSize
      BY <1>1, <1>3, <1>4, <3>1 DEF Upto
    <3>3. QED
      BY <1>2, <1>5, <2>2, <3>1, <3>2 DEF AtNextPacket
  <2>3. QED
    BY <2>1, <2>2
<1>8. SendsTheFile'
  <2>1. ASSUME NEW i \in 1..(n + 1)
        PROVE  /\ datagrams'[i] =
                    Bytes(starts[i], IF End(i) < fileSize THEN End(i) ELSE fileSize)
               /\ End(i) <= fileSize \/ packets[i].sync = "PF"
               /\ packets[i].crc_ok /\ packets[i].sync # "other"
    <3>1. CASE i = n + 1
      BY <1>2, <1>3, <1>5, <3>1 DEF Upto
    <3>2. CASE i # n + 1
      <4>1. i \in 1..n
        BY <3>2
      <4>2. QED
        BY <1>1, <1>2, <1>5, <4>1 DEF SendsTheFile
    <3>3. QED
      BY <3>1, <3>2
  <2>2. \A i : End(i)' = End(i)
    BY DEF End
  <2>3. QED
    BY <1>5, <2>1, <2>2 DEF SendsTheFile
<1>9. QED
  BY <1>6, <1>7, <1>8 DEF SendInv

\* The program ends, and what was sent stays.
LEMMA StopKeeps ==
  ASSUME SendInv, status = "running", NEW next \in {"ended", "struct.error"},
         status' = next, UNCHANGED <<packets, starts, fileSize, datagrams>>,
         next = "ended" /\ Len(datagrams) < Len(packets) =>
           \/ ~packets[Len(datagrams) + 1].crc_ok
           \/ packets[Len(datagrams) + 1].sync = "other"
           \/ fileSize < fd + 2,
         next = "struct.error" =>
           Len(datagrams) < Len(packets) /\ fileSize < End(Len(datagrams) + 1)
  PROVE  SendInv'
<1>1. SendTypes /\ PacketsLaid /\ EndsInPacket /\ SendsTheFile
  BY DEF SendInv
<1>2. SendTypes' /\ PacketsLaid' /\ EndsInPacket' /\ AtNextPacket'
  BY <1>1 DEF SendTypes, PacketsLaid, EndsInPacket, AtNextPacket, End
<1>3. next = "struct.error" => fileSize < End(Len(packets))
  <2>1. SUFFICES ASSUME next = "struct.error" PROVE fileSize < End(Len(packets))
    OBVIOUS
  <2>2. Len(datagrams) + 1 = Len(packets)
    <3>1. PICK n \in Nat, l \in Nat : n = Len(datagrams) /\ l = Len(packets) /\ n < l
      BY <1>1, <2>1, FileOfPackets
    <3>2. PICK e \in Nat, s \in Nat : e = End(n + 1) /\ s = fileSize
      BY <1>1, <3>1, NextPacket DEF SendTypes
    <3>3. s < e /\ (n + 1 < l => e < s)
      BY <2>1, <3>1, <3>2, NextPacket
    <3>4. QED
      BY <3>1, <3>2, <3>3
  <2>3. QED
    BY <2>1, <2>2
<1>4. next = "ended" /\ Len(datagrams) < Len(packets) =>
        \/ ~packets[Len(datagrams) + 1].crc_ok
        \/ packets[Len(datagrams) + 1].sync = "other"
        \/ fileSize < starts[Len(datagrams) + 1] + 2
  BY NextPacket
<1>5. SendsTheFile'
  <2>1. \A i : End(i)' = End(i)
    BY DEF End
  <2>2. QED
    BY <1>1, <1>3, <1>4, <2>1 DEF SendsTheFile
<1>6. QED
  BY <1>2, <1>5 DEF SendInv

LEMMA UptoGrows ==
  ASSUME fileSize \in Nat, NEW a \in Nat, NEW n \in Nat
  PROVE  /\ Upto(a) \in Nat /\ Upto(a + n) \in Nat /\ Upto(a) <= Upto(a + n)
         /\ a <= fileSize => a <= Upto(a + n)
  BY DEF Upto

\* A reader with nothing in its buffer; and a read that leaves nothing there.
Drained(s, pos) == At(s, pos) /\ s.fd = pos
Reads(s, n, from, to) ==
  Read(s, n).data = Bytes(from, to) /\ Drained(Read(s, n), to)

\* What is peeked is the beginning of what is read then.
LEMMA ReadsPeeked ==
  ASSUME fileSize \in Nat, NEW s, NEW f \in Nat, At(s, f), s.fd = Upto(f + 2),
         NEW n \in Nat, n >= 2, NEW a \in Nat, a = f + n
  PROVE  Reads(s, n, f, Upto(a))
<1>1. s.fd <= a
  <2>1. PICK m \in Nat : m = Upto(f + 2) /\ m <= f + 2
    BY DEF Upto
  <2>2. m <= a
    BY <2>1
  <2>3. QED
    BY <2>1, <2>2
<1>2. ReadUpto(s, f, n, a)
  BY ReadsOn
<1>3. QED
  BY <1>1, <1>2 DEF ReadUpto, Reads, Drained

\* One read goes on where the last one ended.
LEMMA ReadsNext ==
  ASSUME fileSize \in Nat, NEW s, NEW a \in Nat, Drained(s, Upto(a)),
         NEW n \in Nat, NEW b \in Nat, b = a + n
  PROVE  Reads(s, n, Upto(a), Upto(b))
<1>1. PICK m \in Nat, t \in Nat : m = Upto(a) /\ t = m + n /\ Upto(t) = Upto(b)
  <2>1. Upto(a) \in Nat /\ Upto(a) + n \in Nat
    BY DEF Upto
  <2>2. Upto(Upto(a) + n) = Upto(b)
    BY DEF Upto
  <2>3. QED
    BY <2>1, <2>2
<1>2. At(s, m) /\ s.fd = m /\ m <= t
  BY <1>1 DEF Drained
<1>3. ReadUpto(s, m, n, t)
  BY <1>1, <1>2, ReadsOn
<1>4. QED
  BY <1>1, <1>2, <1>3 DEF ReadUpto, Reads, Drained

LEMMA DrainedBuffer ==
  ASSUME NEW s, NEW m, Drained(s, m)
  PROVE  s.buf = << >> /\ s.fd = m
  BY BytesNone DEF At, Drained

LEMMA PftKeeps ==
  ASSUME SendInv, status = "running", Len(datagrams) < Len(packets),
         UNCHANGED <<packets, starts, fileSize>>, NEW s, At(s, fd), s.fd = Upto(fd + 2),
         packets[Len(datagrams) + 1].sync = "PF",
         DecodePft(s, packets[Len(datagrams) + 1])
  PROVE  SendInv'
<1> DEFINE n == Len(datagrams) + 1
           p == packets[n]
           head == Read(s, 12)
           opts == Read(head, OptionsSize(p))
           crc  == Read(opts, 2)
           load == Read(crc, p.plen)
           checked == head.data \o opts.data \o crc.data
<1>1. /\ Len(checked) < 14 + OptionsSize(p) =>
           Goto(crc, "struct.error") /\ UNCHANGED datagrams
      /\ ~(Len(checked) < 14 + OptionsSize(p)) /\ p.crc_ok =>
           /\ Goto(load, "running")
           /\ datagrams' = Append(datagrams, checked \o load.data)
      /\ ~(Len(checked) < 14 + OptionsSize(p)) /\ ~p.crc_ok =>
           Goto(crc, "ended") /\ UNCHANGED datagrams
  BY DEF DecodePft
<1> HIDE DEF n
<1>2. p \in PacketKinds /\ p.sync = "PF" /\ fileSize \in Nat
  BY NextPacket DEF n, SendInv, SendTypes
<1>3. /\ p.plen \in Nat /\ OptionsSize(p) \in Nat
      /\ PacketSize(p) = 12 + OptionsSize(p) + 2 + p.plen
  BY <1>2, PacketTypes DEF PacketSize
<1> HIDE DEF p
<1>4. PICK o \in Nat, l \in Nat : o = OptionsSize(p) /\ l = p.plen
  BY <1>3
<1>5. PICK f \in Nat, a \in Nat, b \in Nat, c \in Nat, e \in Nat :
           /\ f = fd /\ a = f + 12 /\ b = a + o /\ c = b + 2 /\ e = c + l
           /\ e = End(n)
  <2>1. fd = starts[n] /\ starts[n] \in Nat /\ End(n) = starts[n] + PacketSize(p)
    BY NextPacket DEF n, p
  <2>2. PICK f \in Nat : f = fd
    BY <2>1
  <2>3. f + (12 + o + 2 + l) = f + 12 + o + 2 + l
    OBVIOUS
  <2>4. End(n) = f + 12 + o + 2 + l
    BY <1>3, <1>4, <2>1, <2>2, <2>3
  <2>5. /\ f + 12 \in Nat /\ f + 12 + o \in Nat /\ f + 12 + o + 2 \in Nat
        /\ f + 12 + o + 2 + l \in Nat
    OBVIOUS
  <2>6. QED
    BY <2>2, <2>4, <2>5
<1>6. PICK m1 \in Nat, m2 \in Nat, m3 \in Nat, m4 \in Nat :
           m1 = Upto(a) /\ m2 = Upto(b) /\ m3 = Upto(c) /\ m4 = Upto(e)
  <2>1. Upto(a) \in Nat /\ Upto(b) \in Nat /\ Upto(c) \in Nat /\ Upto(e) \in Nat
    BY <1>2 DEF Upto
  <2>2. QED
    BY <2>1
<1>7. f <= fileSize
  BY <1>2, <1>5 DEF At
<1>8. f <= m1 /\ m1 <= m2 /\ m2 <= m3 /\ m3 <= m4
  <2>1. f <= m1
    BY <1>2, <1>5, <1>6, <1>7, UptoGrows
  <2>2. m1 <= m2
    BY <1>2, <1>5, <1>6, UptoGrows
  <2>3. m2 <= m3
    BY <1>2, <1>5, <1>6, UptoGrows
  <2>4. m3 <= m4
    BY <1>2, <1>5, <1>6, UptoGrows
  <2>5. QED
    BY <2>1, <2>2, <2>3, <2>4
<1>9. head.data = Bytes(f, m1) /\ Drained(head, m1)
  <2>1. At(s, f) /\ s.fd = Upto(f + 2) /\ a \in Nat /\ a = f + 12
    BY <1>5
  <2>2. Reads(s, 12, f, Upto(a))
    BY <1>2, <2>1, ReadsPeeked
  <2>3. QED
    BY <1>6, <2>2 DEF Reads
<1> HIDE DEF head
<1>10. opts.data = Bytes(m1, m2) /\ Drained(opts, m2)
  <2>1. Drained(head, Upto(a)) /\ b = a + o /\ a \in Nat /\ b \in Nat /\ o \in Nat
    BY <1>4, <1>5, <1>6, <1>9
  <2>2. Reads(head, o, Upto(a), Upto(b))
    BY <1>2, <2>1, ReadsNext
  <2>3. QED
    BY <1>4, <1>6, <2>2 DEF Reads
<1> HIDE DEF opts
<1>11. crc.data = Bytes(m2, m3) /\ Drained(crc, m3)
  <2>1. Drained(opts, Upto(b)) /\ c = b + 2 /\ b \in Nat /\ c \in Nat
    BY <1>5, <1>6, <1>10
  <2>2. Reads(opts, 2, Upto(b), Upto(c))
    BY <1>2, <2>1, ReadsNext
  <2>3. QED
    BY <1>6, <2>2 DEF Reads
<1> HIDE DEF crc
<1>12. load.data = Bytes(m3, m4) /\ Drained(load, m4)
  <2>1. Drained(crc, Upto(c)) /\ e = c + l /\ c \in Nat /\ e \in Nat /\ l \in Nat
    BY <1>4, <1>5, <1>6, <1>11
  <2>2. Reads(crc, l, Upto(c), Upto(e))
    BY <1>2, <2>1, ReadsNext
  <2>3. QED
    BY <1>4, <1>6, <2>2 DEF Reads
<1>13. load.buf = << >> /\ load.fd = m4
  BY <1>12, DrainedBuffer
<1> HIDE DEF load
<1>14. checked = Bytes(f, m3)
  <2>1. Bytes(f, m1) \o Bytes(m1, m2) = Bytes(f, m2)
    BY <1>8, BytesJoin
  <2>2. f <= m2
    BY <1>8
  <2>3. Bytes(f, m2) \o Bytes(m2, m3) = Bytes(f, m3)
    BY <1>8, <2>2, BytesJoin
  <2>4. QED
    BY <1>9, <1>10, <1>11, <2>1, <2>3
<1> HIDE DEF checked
<1>15. f <= m3
  BY <1>8
<1>16. checked \o load.data = Bytes(f, m4)
  <2>1. Bytes(f, m3) \o Bytes(m3, m4) = Bytes(f, m4)
    BY <1>8, <1>15, BytesJoin
  <2>2. QED
    BY <1>12, <1>14, <2>1
<1>17. Len(checked) = m3 - f
  BY <1>14, <1>15, BytesBetween
<1>18. CASE Len(checked) < 14 + o
  <2>1. status' = "struct.error" /\ UNCHANGED datagrams
    BY <1>1, <1>4, <1>18 DEF Goto
  <2>2. fileSize < e
    <3>1. m3 < f + 14 + o /\ c = f + 14 + o
      BY <1>5, <1>15, <1>17, <1>18
    <3>2. QED
      BY <1>2, <1>5, <1>6, <3>1 DEF Upto
  <2>3. fileSize < End(Len(datagrams) + 1)
    BY <1>5, <2>2 DEF n
  <2>4. QED
    BY <2>1, <2>3, StopKeeps
<1>19. CASE ~(Len(checked) < 14 + o) /\ p.crc_ok
  <2>1. /\ status' = "running" /\ fd' = m4 /\ buf' = << >>
        /\ datagrams' = Append(datagrams, Bytes(f, m4))
    BY <1>1, <1>4, <1>13, <1>16, <1>19 DEF Goto
  <2>2. m4 = Upto(End(Len(datagrams) + 1))
    BY <1>5, <1>6 DEF n
  <2>3. packets[Len(datagrams) + 1].crc_ok
    BY <1>19 DEF n, p
  <2>4. QED
    BY <1>5, <2>1, <2>2, <2>3, SentKeeps
<1>20. CASE ~(Len(checked) < 14 + o) /\ ~p.crc_ok
  <2>1. status' = "ended" /\ UNCHANGED datagrams
    BY <1>1, <1>4, <1>20 DEF Goto
  <2>2. ~packets[Len(datagrams) + 1].crc_ok
    BY <1>20 DEF n, p
  <2>3. QED
    BY <2>1, <2>2, StopKeeps
<1>21. QED
  BY <1>18, <1>19, <1>20

LEMMA AfKeeps ==
  ASSUME SendInv, status = "running", Len(datagrams) < Len(packets),
         UNCHANGED <<packets, starts, fileSize>>, NEW s, At(s, fd), s.fd = Upto(fd + 2),
         packets[Len(datagrams) + 1].sync = "AF",
         DecodeAf(s, packets[Len(datagrams) + 1])
  PROVE  SendInv'
<1> DEFINE n == Len(datagrams) + 1
           p == packets[n]
           head == Read(s, 10)
           load == Read(head, p.plen)
           crc  == Read(load, 2)
           short == Len(head.data) < 10 \/ Len(crc.data) < 2
<1>1. /\ short => Goto(crc, "struct.error") /\ UNCHANGED datagrams
      /\ ~short /\ p.crc_ok =>
           /\ Goto(crc, "running")
           /\ datagrams' = Append(datagrams, head.data \o load.data \o crc.data)
      /\ ~short /\ ~p.crc_ok => Goto(crc, "ended") /\ UNCHANGED datagrams
  BY DEF DecodeAf
<1> HIDE DEF n
<1>2. p \in PacketKinds /\ p.sync = "AF" /\ fileSize \in Nat
  BY NextPacket DEF n, SendInv, SendTypes
<1>3. p.plen \in Nat /\ PacketSize(p) = 10 + p.plen + 2
  BY <1>2, PacketTypes DEF PacketSize
<1> HIDE DEF p
<1>4. PICK l \in Nat : l = p.plen
  BY <1>3
<1>5. PICK f \in Nat, a \in Nat, b \in Nat, e \in Nat :
           f = fd /\ a = f + 10 /\ b = a + l /\ e = b + 2 /\ e = End(n)
  <2>1. fd = starts[n] /\ starts[n] \in Nat /\ End(n) = starts[n] + PacketSize(p)
    BY NextPacket DEF n, p
  <2>2. PICK f \in Nat : f = fd
    BY <2>1
  <2>3. f + (10 + l + 2) = f + 10 + l + 2
    OBVIOUS
  <2>4. End(n) = f + 10 + l + 2
    BY <1>3, <1>4, <2>1, <2>2, <2>3
  <2>5. f + 10 \in Nat /\ f + 10 + l \in Nat /\ f + 10 + l + 2 \in Nat
    OBVIOUS
  <2>6. QED
    BY <2>2, <2>4, <2>5
<1>6. PICK m1 \in Nat, m2 \in Nat, m3 \in Nat :
           m1 = Upto(a) /\ m2 = Upto(b) /\ m3 = Upto(e)
  <2>1. Upto(a) \in Nat /\ Upto(b) \in Nat /\ Upto(e) \in Nat
    BY <1>2 DEF Upto
  <2>2. QED
    BY <2>1
<1>7. f <= fileSize
  BY <1>2, <1>5 DEF At
<1>8. f <= m1 /\ m1 <= m2 /\ m2 <= m3
  <2>1. f <= m1
    BY <1>2, <1>5, <1>6, <1>7, UptoGrows
  <2>2. m1 <= m2
    BY <1>2, <1>5, <1>6, UptoGrows
  <2>3. m2 <= m3
    BY <1>2, <1>5, <1>6, UptoGrows
  <2>4. QED
    BY <2>1, <2>2, <2>3
<1>9. head.data = Bytes(f, m1) /\ Drained(head, m1)
  <2>1. At(s, f) /\ s.fd = Upto(f + 2) /\ a \in Nat /\ a = f + 10
    BY <1>5
  <2>2. Reads(s, 10, f, Upto(a))
    BY <1>2, <2>1, ReadsPeeked
  <2>3. QED
    BY <1>6, <2>2 DEF Reads
<1> HIDE DEF head
<1>10. load.data = Bytes(m1, m2) /\ Drained(load, m2)
  <2>1. Drained(head, Upto(a)) /\ b = a + l /\ a \in Nat /\ b \in Nat /\ l \in Nat
    BY <1>4, <1>5, <1>6, <1>9
  <2>2. Reads(head, l, Upto(a), Upto(b))
    BY <1>2, <2>1, ReadsNext
  <2>3. QED
    BY <1>4, <1>6, <2>2 DEF Reads
<1> HIDE DEF load
<1>11. crc.data = Bytes(m2, m3) /\ Drained(crc, m3)
  <2>1. Drained(load, Upto(b)) /\ e = b + 2 /\ b \in Nat /\ e \in Nat
    BY <1>5, <1>6, <1>10
  <2>2. Reads(load, 2, Upto(b), Upto(e))
    BY <1>2, <2>1, ReadsNext
  <2>3. QED
    BY <1>6, <2>2 DEF Reads
<1>12. crc.buf = << >> /\ crc.fd = m3
  BY <1>11, DrainedBuffer
<1> HIDE DEF crc
<1>13. head.data \o load.data \o crc.data = Bytes(f, m3)
  <2>1. Bytes(f, m1) \o Bytes(m1, m2) = Bytes(f, m2)
    BY <1>8, BytesJoin
  <2>2. f <= m2
    BY <1>8
  <2>3. Bytes(f, m2) \o Bytes(m2, m3) = Bytes(f, m3)
    BY <1>8, <2>2, BytesJoin
  <2>4. QED
    BY <1>9, <1>10, <1>11, <2>1, <2>3
<1>14. Len(head.data) = m1 - f /\ Len(crc.data) = m3 - m2
  BY <1>8, <1>9, <1>11, BytesBetween
<1>15. CASE short
  <2>1. status' = "struct.error" /\ UNCHANGED datagrams
    BY <1>1, <1>15 DEF Goto
  <2>2. fileSize < e
    <3>1. m1 - f < 10 \/ m3 - m2 < 2
      BY <1>14, <1>15
    <3>2. QED
      BY <1>2, <1>5, <1>6, <3>1 DEF Upto
  <2>3. fileSize < End(Len(datagrams) + 1)
    BY <1>5, <2>2 DEF n
  <2>4. QED
    BY <2>1, <2>3, StopKeeps
<1>16. CASE ~short /\ p.crc_ok
  <2>1. /\ status' = "running" /\ fd' = m3 /\ buf' = << >>
        /\ datagrams' = Append(datagrams, Bytes(f, m3))
    BY <1>1, <1>12, <1>13, <1>16 DEF Goto
  <2>2. m3 = Upto(End(Len(datagrams) + 1))
    BY <1>5, <1>6 DEF n
  <2>3. End(Len(datagrams) + 1) <= fileSize
    <3>1. ~(m3 - m2 < 2)
      BY <1>14, <1>16
    <3>2. e <= fileSize
      BY <1>2, <1>5, <1>6, <3>1 DEF Upto
    <3>3. QED
      BY <1>5, <3>2 DEF n
  <2>4. packets[Len(datagrams) + 1].crc_ok
    BY <1>16 DEF n, p
  <2>5. QED
    BY <1>5, <2>1, <2>2, <2>3, <2>4, SentKeeps
<1>17. CASE ~short /\ ~p.crc_ok
  <2>1. status' = "ended" /\ UNCHANGED datagrams
    BY <1>1, <1>17 DEF Goto
  <2>2. ~packets[Len(datagrams) + 1].crc_ok
    BY <1>17 DEF n, p
  <2>3. QED
    BY <2>1, <2>2, StopKeeps
<1>18. QED
  BY <1>15, <1>16, <1>17

LEMMA DecodeKeeps ==
  ASSUME SendInv, EdiDecode
  PROVE  SendInv'
<1> DEFINE s == Peek([fd |-> fd, buf |-> buf], 2)
           found == IF Len(s.data) < 2 THEN {} ELSE Header(s.data[1])
<1>1. status = "running" /\ UNCHANGED <<packets, starts, fileSize>>
  BY DEF EdiDecode
<1>2. \/ /\ found = {} \/ \E i \in found : packets[i].sync = "other"
         /\ status' = "ended" /\ UNCHANGED datagrams
      \/ \E i \in found : packets[i].sync = "PF" /\ DecodePft(s, packets[i])
      \/ \E i \in found : packets[i].sync = "AF" /\ DecodeAf(s, packets[i])
  BY DEF EdiDecode, Goto
<1>3. SendTypes /\ buf = << >> /\ fileSize \in Nat
  BY <1>1 DEF SendInv, AtNextPacket, SendTypes
<1>4. fd \in Nat /\ fd <= fileSize
  <2>1. CASE Len(datagrams) < Len(packets)
    BY <1>1, <1>3, <2>1, NextPacket
  <2>2. CASE ~(Len(datagrams) < Len(packets))
    BY <1>1, <1>3, <2>2 DEF SendInv, AtNextPacket
  <2>3. QED
    BY <2>1, <2>2
<1>5. s.data = Bytes(fd, Upto(fd + 2)) /\ At(s, fd) /\ s.fd = Upto(fd + 2)
  BY <1>3, <1>4, Peeks
<1> HIDE DEF s
<1>6. PICK f \in Nat, m \in Nat : f = fd /\ m = Upto(f + 2) /\ f <= m
  <2>1. Upto(fd + 2) \in Nat /\ fd <= Upto(fd + 2)
    BY <1>3, <1>4 DEF Upto
  <2>2. QED
    BY <1>4, <2>1
<1>7. Len(s.data) = m - f /\ \A i \in 1..(m - f) : s.data[i] = f + i
  <2>1. /\ Len(Bytes(f, m)) = m - f
        /\ \A i \in 1..(m - f) : Bytes(f, m)[i] = f + i
    BY <1>6, BytesBetween
  <2>2. s.data = Bytes(f, m)
    BY <1>5, <1>6
  <2>3. QED
    BY <2>1, <2>2
<1>8. CASE fileSize < fd + 2
  <2>1. found = {}
    <3>1. m - f < 2
      BY <1>3, <1>4, <1>6, <1>8 DEF Upto
    <3>2. QED
      BY <1>7, <3>1
  <2>2. status' = "ended" /\ UNCHANGED datagrams
    BY <1>2, <2>1
  <2>3. QED
    BY <1>1, <1>8, <2>2, StopKeeps
<1>9. CASE ~(fileSize < fd + 2)
  <2>1. Len(datagrams) < Len(packets)
    <3>1. ~(Len(datagrams) < Len(packets)) => fd = fileSize
      BY <1>1 DEF SendInv, AtNextPacket
    <3>2. fd # fileSize
      BY <1>3, <1>4, <1>9
    <3>3. QED
      BY <3>1, <3>2
  <2>2. found = {Len(datagrams) + 1}
    <3>1. m = f + 2
      BY <1>3, <1>4, <1>6, <1>9 DEF Upto
    <3>2. Len(s.data) = 2 /\ s.data[1] = fd + 1
      BY <1>6, <1>7, <3>1
    <3>3. QED
      BY <1>1, <2>1, <3>2, HeaderOfNext
  <2> HIDE DEF found
  <2>3. CASE packets[Len(datagrams) + 1].sync = "other"
    <3>1. status' = "ended" /\ UNCHANGED datagrams
      BY <1>2, <2>2, <2>3
    <3>2. QED
      BY <1>1, <2>3, <3>1, StopKeeps
  <2>4. CASE packets[Len(datagrams) + 1].sync = "PF"
    <3>1. DecodePft(s, packets[Len(datagrams) + 1])
      BY <1>2, <2>2, <2>4
    <3>2. QED
      BY <1>1, <1>5, <2>1, <2>4, <3>1, PftKeeps
  <2>5. CASE packets[Len(datagrams) + 1].sync = "AF"
    <3>1. DecodeAf(s, packets[Len(datagrams) + 1])
      BY <1>2, <2>2, <2>5
    <3>2. QED
      BY <1>1, <1>5, <2>1, <2>5, <3>1, AfKeeps
  <2>6. packets[Len(datagrams) + 1].sync \in {"AF", "PF", "other"}
    BY <1>1, <2>1, NextPacket, PacketTypes
  <2>7. QED
    BY <2>3, <2>4, <2>5, <2>6
<1>10. QED
  BY <1>8, <1>9

\* SendsTheFile: whatever the packets are, whether their headers come from the buffer
\* or from the file, and wherever the file ends, the datagrams are the packets of the
\* file, in order and as they are there (BufferedFile lines 39-67, EDI 84-181).
THEOREM DatagramsAreTheFile == EdiSendSpec => []SendsTheFile
<1>1. SendInv /\ [EdiSendNext]_edisendVars => SendInv'
  <2> SUFFICES ASSUME SendInv, [EdiSendNext]_edisendVars PROVE SendInv'
    OBVIOUS
  <2>1. CASE \E p \in PacketKinds : WritePacket(p)
    BY <2>1, WritePacketKeeps
  <2>2. CASE \E cut \in 0..MaxCut : OpenFile(cut)
    BY <2>2, OpenFileKeeps
  <2>3. CASE EdiDecode
    BY <2>3, DecodeKeeps
  <2>4. CASE UNCHANGED edisendVars
    BY <2>4 DEF edisendVars, SendInv, SendTypes, PacketsLaid, EndsInPacket,
                AtNextPacket, SendsTheFile, End
  <2>5. QED
    BY <2>1, <2>2, <2>3, <2>4 DEF EdiSendNext
<1>2. SendInv => SendsTheFile
  BY DEF SendInv
<1>3. QED
  BY SendInitial, <1>1, <1>2, PTL DEF EdiSendSpec
=============================================================================
