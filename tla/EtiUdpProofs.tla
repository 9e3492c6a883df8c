---------------------------- MODULE EtiUdpProofs ----------------------------
(***************************************************************************)
(* Proofs about the ETI-over-UDP transport.                                *)
(*                                                                         *)
(* First the receiver alone, for every sequence of packets it may get: its *)
(* invariant IndInv, and that nothing is reopened.  Then sender, network   *)
(* and receiver together: the composition runs that receiver, whose        *)
(* theorems therefore hold of it; it implements the ordered stream of      *)
(* module EtiStream, for every loss, duplication and reordering; and it    *)
(* writes what was sent when nothing is duplicated.  Last the reader that  *)
(* the sender has its frames from, for every file.                         *)
(***************************************************************************)
EXTENDS EtiUdp, EtiReader, SequenceTheorems, FiniteSetTheorems, TLAPS

----------------------------------------------------------------------------
(* The receiver                                                            *)

Entries == [sn : SeqNrs, data : Frames]

\* A nonempty set of naturals has a least element, so min() does not raise.
\* (The least number is the one whose initial segment of Nat is minimal for
\* strict inclusion, which is well-founded on finite sets.)
LEMMA HasMinimum ==
  ASSUME NEW S \in SUBSET Nat, S # {}
  PROVE  \E m \in S : \A x \in S : m <= x
<1> DEFINE Upto == {0..m : m \in S}
<1>1. Upto \subseteq FiniteSubsetsOf(Nat)
  <2>1. \A m \in S : IsFiniteSet(0..m)
    BY FS_Interval
  <2>2. QED
    BY <2>1 DEF FiniteSubsetsOf
<1>2. Upto # {}
  OBVIOUS
<1>3. PICK I \in Upto :
        \A J \in Upto : ~(<<J, I>> \in StrictSubsetOrdering(Nat))
  <2> HIDE DEF Upto
  <2>1. QED
    BY <1>1, <1>2, FS_StrictSubsetOrderingWellFounded, WFMin
<1>4. PICK m \in S : I = 0..m
  OBVIOUS
<1>5. ASSUME NEW x \in S PROVE m <= x
  <2>1. SUFFICES ASSUME x < m PROVE FALSE
    OBVIOUS
  <2>2. 0..x \in FiniteSubsetsOf(Nat) /\ I \in FiniteSubsetsOf(Nat)
    BY <1>1
  <2>3. (0..x) \subseteq I /\ m \in I /\ m \notin 0..x
    BY <1>4, <2>1
  <2>4. <<0..x, I>> \in StrictSubsetOrdering(Nat)
    BY <2>2, <2>3 DEF StrictSubsetOrdering
  <2>5. 0..x \in Upto
    OBVIOUS
  <2>6. QED
    BY <1>3, <2>4, <2>5
<1>6. QED
  BY <1>5

\* A run of consecutive groups start..next-1; a stream that ascends; a
\* stream of groups before curr; a stream c that is s followed by a run.
IsRun(w, start, next) ==
  /\ w \in Seq(Entries) /\ Len(w) = next - start
  /\ \A i \in 1..(next - start) : w[i].sn = start + i - 1

Ascends(s) == \A i, j \in 1..Len(s) : i < j => s[i].sn < s[j].sn

Before(s, curr) == \A i \in 1..Len(s) : s[i].sn < curr

Extends(c, s, start) ==
  \A i \in 1..Len(c) :
    c[i].sn = IF i <= Len(s) THEN s[i].sn ELSE start + (i - Len(s)) - 1

\* What Written puts out: the groups start..next-1, one entry for each.
LEMMA WrittenRun ==
  ASSUME NEW start \in Int, NEW next \in Int, start <= next,
         NEW decoded,
         \A g \in start..(next - 1) : g \in SeqNrs /\ decoded[g] \in Frames
  PROVE  IsRun(Written(start, next, decoded), start, next)
<1> DEFINE W == Written(start, next, decoded)
           n == next - start
<1>1. n \in Nat
  OBVIOUS
<1>2. W \in [1..n -> Entries]
  <2>1. \A i \in 1..n : start + i - 1 \in start..(next - 1)
    OBVIOUS
  <2>2. \A i \in 1..n :
          [sn |-> start + i - 1, data |-> decoded[start + i - 1]] \in Entries
    BY <2>1 DEF Entries
  <2>3. QED
    BY <2>2 DEF Written
<1>3. W \in Seq(Entries) /\ Len(W) = n
  BY <1>1, <1>2
<1>4. \A i \in 1..n : W[i].sn = start + i - 1
  BY DEF Written
<1>5. QED
  BY <1>3, <1>4 DEF IsRun

\* Appending a run that begins at or after curr keeps the stream in order.
LEMMA RunKeepsOrder ==
  ASSUME NEW curr \in Int, NEW start \in Int, NEW next \in Int,
         curr <= start, start <= next,
         NEW s \in Seq(Entries), NEW w,
         IsRun(w, start, next), Before(s, curr), Ascends(s)
  PROVE  Extends(s \o w, s, start) /\ Ascends(s \o w)
<1>0. /\ w \in Seq(Entries) /\ Len(w) = next - start
      /\ \A i \in 1..(next - start) : w[i].sn = start + i - 1
  BY DEF IsRun
<1>1. /\ Len(s) \in Nat /\ Len(s \o w) = Len(s) + (next - start)
      /\ \A i \in 1..Len(s \o w) :
           (s \o w)[i] = IF i <= Len(s) THEN s[i] ELSE w[i - Len(s)]
  <2>1. Len(s) \in Nat
    BY LenProperties
  <2>2. Len(s \o w) = Len(s) + Len(w)
    BY <1>0, ConcatProperties
  <2>3. \A i \in 1..(Len(s) + Len(w)) :
          (s \o w)[i] = IF i <= Len(s) THEN s[i] ELSE w[i - Len(s)]
    BY <1>0, ConcatProperties
  <2>4. QED
    BY <1>0, <2>1, <2>2, <2>3
<1>2. \A i \in 1..Len(s) : s[i].sn \in Int
  <2>1. SUFFICES ASSUME NEW i \in 1..Len(s) PROVE s[i].sn \in Int
    OBVIOUS
  <2>2. s[i] \in Entries
    BY ElementOfSeq
  <2>3. s[i].sn \in SeqNrs
    BY <2>2, Zenon DEF Entries
  <2>4. SeqNrs \subseteq Int
    BY ReceiverAssumption DEF ReceiverAssumption
  <2>5. QED
    BY <2>3, <2>4, Zenon
<1> DEFINE c == s \o w
           p == Len(s)
           n == Len(c)
<1>3. \A i \in 1..n : c[i].sn = IF i <= p THEN s[i].sn
                                 ELSE start + (i - p) - 1
  <2>1. SUFFICES ASSUME NEW i \in 1..n
                 PROVE  c[i].sn = IF i <= p THEN s[i].sn
                                  ELSE start + (i - p) - 1
    OBVIOUS
  <2>2. CASE i <= p
    BY <1>1, <2>2
  <2>3. CASE ~(i <= p)
    <3>1. i - p \in 1..(next - start) /\ c[i] = w[i - p]
      BY <1>1, <2>3
    <3>2. QED
      BY <1>0, <2>3, <3>1
  <2>4. QED
    BY <2>2, <2>3
<1>4. p \in Nat /\ n \in Nat
  BY <1>1
<1>5. \A i \in 1..p : s[i].sn < curr
  BY DEF Before
<1>6. \A i, j \in 1..p : i < j => s[i].sn < s[j].sn
  BY DEF Ascends
<1> HIDE DEF c, p, n
<1>7. ASSUME NEW i \in 1..n, NEW j \in 1..n, i < j
      PROVE  c[i].sn < c[j].sn
  <2>1. CASE j <= p
    <3>1. i \in 1..p /\ j \in 1..p
      BY <1>4, <1>7, <2>1
    <3>2. c[i].sn = s[i].sn /\ c[j].sn = s[j].sn
      BY <1>3, <1>4, <3>1
    <3>3. QED
      BY <1>6, <1>7, <3>1, <3>2
  <2>2. CASE i <= p /\ j > p
    <3>1. i \in 1..p
      BY <1>4, <2>2
    <3>2. c[i].sn = s[i].sn /\ s[i].sn \in Int /\ s[i].sn < curr
      BY <1>2, <1>3, <1>5, <2>2, <3>1 DEF p
    <3>3. c[j].sn = start + (j - p) - 1
      BY <1>3, <1>4, <2>2
    <3>4. QED
      BY <1>4, <2>2, <3>2, <3>3
  <2>3. CASE i > p
    <3>1. c[i].sn = start + (i - p) - 1 /\ c[j].sn = start + (j - p) - 1
      BY <1>3, <1>4, <1>7, <2>3
    <3>2. QED
      BY <1>4, <1>7, <3>1
  <2>4. QED
    BY <1>4, <2>1, <2>2, <2>3
<1>8. QED
  BY <1>3, <1>7 DEF c, p, n, Extends, Ascends

\* What the packet's handler knows when it comes to the output: the
\* invariant, about its dictionaries as they are then.
Filed(grouped, decoded, ignored) ==
  /\ grouped \in [SeqNrs -> Seq(BlockNrs)]
  /\ decoded \in [SeqNrs -> Frames \cup {Absent}]
  /\ ignored \subseteq Nat
  /\ \A g \in SeqNrs : Len(grouped[g]) < K
  /\ \A g \in SeqNrs :
       decoded[g] # Absent => g \in ignored /\ grouped[g] = << >>
  /\ \A g \in ignored : g >= curr_seqnr => g \in SeqNrs /\ decoded[g] # Absent
  /\ \A i \in 1..Len(rx_eti_stream) :
       LET g == rx_eti_stream[i].sn
       IN g < curr_seqnr /\ g \in ignored /\ decoded[g] = Absent

\* The write loop and the give-up branch keep the invariant.
LEMMA WriteReadyKeeps ==
  ASSUME NEW grouped, NEW decoded, NEW ignored, NEW start \in Nat,
         TypeOK, InOrder,
         Filed(grouped, decoded, ignored),
         curr_seqnr <= start,
         start_delay' \in 0..1,
         WriteReady(start, grouped, decoded, ignored)
  PROVE  IndInv'
<1> USE ReceiverAssumption DEF ReceiverAssumption
<1>1. PICK next \in start..(start + Cardinality(ignored)) :
        /\ \A g \in start..(next - 1) : g \in ignored /\ decoded[g] # Absent
        /\ next \in ignored => decoded[next] = Absent
        /\ rx_eti_stream' = rx_eti_stream \o Written(start, next, decoded)
        /\ blocks_grouped' = grouped
        /\ LET rest == Without(decoded, start..(next - 1))
           IN IF next \notin ignored /\ TooManyWaiting(grouped) /\ ~Breakpoint
              THEN GiveUp(rest, ignored, next)
              ELSE /\ decodedeti' = rest
                   /\ ignore_groups' = ignored
                   /\ curr_seqnr' = next
                   /\ status' = IF next \in ignored THEN "KeyError"
                                ELSE IF TooManyWaiting(grouped) THEN "debugger"
                                ELSE "running"
  BY DEF WriteReady
<1>2. /\ next \in Nat /\ start <= next /\ curr_seqnr \in Int
      /\ start \in Int /\ next \in Int
  BY <1>1 DEF TypeOK
<1>3. next \notin ignored
  BY <1>1, <1>2 DEF Filed
<1>4. PICK upto \in {next, next + 1} :
        /\ curr_seqnr' = upto
        /\ ignore_groups' = ignored \cup start..(upto - 1)
        /\ decodedeti' = Without(decoded, start..(upto - 1))
        /\ status' \in {"running", "debugger"}
  <2>1. start..(next - 1) \subseteq ignored
    BY <1>1
  <2>2. CASE TooManyWaiting(grouped) /\ ~Breakpoint
    <3>1. /\ curr_seqnr' = next + 1
          /\ ignore_groups' = ignored \cup {next}
          /\ decodedeti' = Without(Without(decoded, start..(next - 1)), {next})
          /\ status' = "running"
      BY <1>1, <1>3, <2>2 DEF GiveUp
    <3>2. start..next = (start..(next - 1)) \cup {next}
      BY <1>2
    <3>3. decodedeti' = Without(decoded, start..next)
      BY <3>1, <3>2 DEF Without
    <3>4. ignore_groups' = ignored \cup start..next
      BY <2>1, <3>1, <3>2
    <3>5. (next + 1) - 1 = next
      BY <1>2
    <3>6. QED
      BY <3>1, <3>3, <3>4, <3>5
  <2>3. CASE ~(TooManyWaiting(grouped) /\ ~Breakpoint)
    BY <1>1, <1>3, <2>1, <2>3
  <2>4. QED
    BY <2>2, <2>3
<1>5. upto \in Nat /\ next <= upto
  BY <1>2
<1>6. \A g \in start..(next - 1) : g \in SeqNrs /\ decoded[g] \in Frames
  BY <1>1, <1>2 DEF Filed
<1> DEFINE w == Written(start, next, decoded)
<1>7. IsRun(w, start, next)
  <2>1. start \in Int /\ next \in Int /\ start <= next
    BY <1>2
  <2>2. QED
    BY <1>6, <2>1, WrittenRun
<1>8. rx_eti_stream \in Seq(Entries)
  BY DEF TypeOK, Entries
<1>9. Before(rx_eti_stream, curr_seqnr) /\ Ascends(rx_eti_stream)
  BY DEF Filed, InOrder, Before, Ascends
<1>10. Extends(rx_eti_stream', rx_eti_stream, start) /\ Ascends(rx_eti_stream')
  <2> HIDE DEF w
  <2>1. rx_eti_stream' = rx_eti_stream \o w
    BY <1>1 DEF w
  <2>2. QED
    BY <1>2, <1>7, <1>8, <1>9, <2>1, RunKeepsOrder
<1>11. /\ rx_eti_stream' \in Seq(Entries)
       /\ Len(rx_eti_stream') = Len(rx_eti_stream) + (next - start)
       /\ Len(rx_eti_stream) \in Nat
  <2> HIDE DEF w
  <2>1. rx_eti_stream' = rx_eti_stream \o w
    BY <1>1 DEF w
  <2>2. w \in Seq(Entries) /\ Len(w) = next - start
    BY <1>7 DEF IsRun
  <2>3. /\ Len(rx_eti_stream') = Len(rx_eti_stream) + Len(w)
        /\ rx_eti_stream' \in Seq(Entries)
    BY <1>8, <2>1, <2>2, ConcatProperties, Zenon
  <2>4. Len(rx_eti_stream) \in Nat
    BY <1>8, LenProperties, Zenon
  <2>5. QED
    BY <2>2, <2>3, <2>4
<1>12. TypeOK'
  <2>1. blocks_grouped' \in [SeqNrs -> Seq(BlockNrs)]
    BY <1>1 DEF Filed
  <2>2. decodedeti' \in [SeqNrs -> Frames \cup {Absent}]
    BY <1>4 DEF Filed, Without
  <2>3. ignore_groups' \subseteq Nat
    BY <1>4, <1>5 DEF Filed
  <2>4. start_delay' \in 0..START_DELAY
    OBVIOUS
  <2>5. curr_seqnr' \in Nat \cup {-1}
    BY <1>4, <1>5
  <2>6. status' \in Statuses
    BY <1>4 DEF Statuses
  <2>7. QED
    BY <1>11, <2>1, <2>2, <2>3, <2>4, <2>5, <2>6 DEF TypeOK, Entries
<1>13. NoInternalError'
  BY <1>4 DEF NoInternalError
<1>14. InOrder'
  BY <1>10 DEF InOrder, Ascends
<1>15. BlocksBelowK'
  BY <1>1 DEF Filed, BlocksBelowK
<1>16. DecodedIgnored'
  <2>1. SUFFICES ASSUME NEW g \in SeqNrs, decodedeti'[g] # Absent
                 PROVE  g \in ignore_groups' /\ blocks_grouped'[g] = << >>
    BY DEF DecodedIgnored
  <2>2. decoded[g] # Absent
    BY <1>4, <2>1 DEF Without
  <2>3. QED
    BY <1>1, <1>4, <2>2 DEF Filed
<1>17. Pending'
  <2>1. SUFFICES ASSUME NEW g \in ignore_groups', g >= curr_seqnr'
                 PROVE  g \in SeqNrs /\ decodedeti'[g] # Absent
    BY DEF Pending
  <2>2. g \in ignored /\ g >= curr_seqnr /\ g \notin start..(upto - 1)
    BY <1>2, <1>4, <1>5, <2>1 DEF Filed
  <2>3. g \in SeqNrs /\ decoded[g] # Absent
    BY <2>2 DEF Filed
  <2>4. QED
    BY <1>4, <2>2, <2>3 DEF Without
<1>18. WrittenPassed'
  <2>1. SUFFICES ASSUME NEW i \in 1..Len(rx_eti_stream')
                 PROVE  LET g == rx_eti_stream'[i].sn
                        IN /\ g < curr_seqnr'
                           /\ g \in ignore_groups'
                           /\ decodedeti'[g] = Absent
    BY DEF WrittenPassed
  <2>2. CASE i <= Len(rx_eti_stream)
    <3> DEFINE g == rx_eti_stream[i].sn
    <3>1. rx_eti_stream'[i].sn = g
      BY <1>10, <2>2 DEF Extends
    <3>2. i \in 1..Len(rx_eti_stream)
      BY <1>11, <2>2
    <3>3. g < curr_seqnr /\ g \in ignored /\ decoded[g] = Absent
      BY <3>2 DEF Filed
    <3>4. rx_eti_stream[i] \in Entries
      BY <1>8, <3>2, ElementOfSeq
    <3>5. g \in SeqNrs
      BY <3>4, Zenon DEF Entries
    <3> HIDE DEF g
    <3>6. g \in ignore_groups' /\ decodedeti'[g] = Absent
      BY <1>4, <3>3, <3>5 DEF Without
    <3>7. g < curr_seqnr'
      BY <1>2, <1>4, <1>5, <3>3, <3>5
    <3>8. QED
      BY <3>1, <3>6, <3>7
  <2>3. CASE ~(i <= Len(rx_eti_stream))
    <3> DEFINE g == start + (i - Len(rx_eti_stream)) - 1
    <3>1. rx_eti_stream'[i].sn = g
      BY <1>10, <2>3 DEF Extends
    <3>2. g \in start..(next - 1)
      BY <1>2, <1>11, <2>3
    <3> HIDE DEF g
    <3>3. g < curr_seqnr' /\ g \in start..(upto - 1)
      BY <1>2, <1>4, <1>5, <3>2
    <3>4. g \in SeqNrs
      BY <1>6, <3>2
    <3>5. g \in ignore_groups' /\ decodedeti'[g] = Absent
      BY <1>4, <3>3, <3>4 DEF Without
    <3>6. QED
      BY <3>1, <3>3, <3>5
  <2>4. QED
    BY <2>2, <2>3
<1>19. Starting'
  BY <1>4, <1>5 DEF Starting
<1>20. QED
  BY <1>12, <1>13, <1>14, <1>15, <1>16, <1>17, <1>18, <1>19 DEF IndInv

\* Once the start-up delay is over, the write loop runs from curr_seqnr or,
\* the first time, from the oldest incomplete group, which exists.
LEMMA OrderWrites ==
  ASSUME NEW grouped, NEW decoded, NEW ignored,
         TypeOK, InOrder, Starting, status = "running",
         Filed(grouped, decoded, ignored),
         start_delay > 1 =>
           /\ ignored = {} /\ Keys(grouped) # {}
           /\ \A g \in SeqNrs :
                Len(grouped[g]) <= START_DELAY - start_delay + 1,
         Order(grouped, decoded, ignored),
         start_delay' <= 1
  PROVE  \E start \in Nat : /\ curr_seqnr <= start
                           /\ WriteReady(start, grouped, decoded, ignored)
<1> USE ReceiverAssumption DEF ReceiverAssumption
<1> DEFINE delay == IF start_delay > 0 THEN start_delay - 1 ELSE start_delay
           starts == IF delay = 1
                     THEN {g \in Keys(grouped) : \A h \in Keys(grouped) : g <= h}
                     ELSE {curr_seqnr}
<1>1. start_delay \in 0..START_DELAY /\ delay \in 0..START_DELAY
      /\ start_delay' = delay
  BY DEF TypeOK, Order
<1>2. starts # {}
  <2>1. CASE delay = 1
    <3>1. Keys(grouped) # {} /\ Keys(grouped) \in SUBSET Nat
      <4>1. start_delay > 1
        BY <1>1, <2>1
      <4>2. Keys(grouped) \in SUBSET SeqNrs
        BY DEF Keys
      <4>3. QED
        BY <4>1, <4>2
    <3>2. PICK m \in Keys(grouped) : \A h \in Keys(grouped) : m <= h
      BY <3>1, HasMinimum
    <3>3. QED
      BY <2>1, <3>2
  <2>2. QED
    BY <2>1
<1>3. ~(delay > 1)
  BY <1>1
<1>4. PICK start \in starts : WriteReady(start, grouped, decoded, ignored)
  <2> HIDE DEF starts
  <2>1. Order(grouped, decoded, ignored) =>
          \E start \in starts : WriteReady(start, grouped, decoded, ignored)
    BY <1>2, <1>3 DEF Order, starts
  <2>2. QED
    BY <2>1
<1>5. start \in Nat /\ curr_seqnr <= start
  <2>1. CASE delay = 1
    <3>1. start \in Nat
      BY <1>4, <2>1 DEF Keys
    <3>2. start_delay = 2 /\ curr_seqnr = -1
      BY <1>1, <2>1 DEF Starting
    <3>3. QED
      BY <3>1, <3>2
  <2>2. CASE delay # 1
    <3>1. start_delay <= 1 /\ start = curr_seqnr
      BY <1>1, <1>3, <1>4, <2>2
    <3>2. QED
      BY <1>1, <3>1 DEF Starting
  <2>3. QED
    BY <2>1, <2>2
<1>6. QED
  BY <1>4, <1>5

\* The last third of the handler keeps the invariant: the start-up delay,
\* the choice of the first group, and the write loop.
LEMMA OrderKeeps ==
  ASSUME NEW grouped, NEW decoded, NEW ignored,
         TypeOK, InOrder, Starting, status = "running",
         Filed(grouped, decoded, ignored),
         start_delay > 1 =>
           /\ ignored = {} /\ Keys(grouped) # {}
           /\ \A g \in SeqNrs :
                Len(grouped[g]) <= START_DELAY - start_delay + 1,
         Order(grouped, decoded, ignored)
  PROVE  IndInv'
<1> USE ReceiverAssumption DEF ReceiverAssumption
<1> DEFINE delay == IF start_delay > 0 THEN start_delay - 1 ELSE start_delay
<1>1. start_delay \in 0..START_DELAY /\ delay \in 0..START_DELAY
      /\ start_delay' = delay
  BY DEF TypeOK, Order
<1>2. CASE delay > 1
  <2>1. /\ blocks_grouped' = grouped /\ decodedeti' = decoded
        /\ ignore_groups' = ignored /\ status' = "running"
        /\ curr_seqnr' = curr_seqnr /\ rx_eti_stream' = rx_eti_stream
    BY <1>2 DEF Order
  <2>2. start_delay > 1 /\ delay = start_delay - 1
    BY <1>1, <1>2
  <2>3. ignore_groups' = {} /\ rx_eti_stream' = << >> /\ curr_seqnr' = -1
    BY <2>1, <2>2 DEF Starting
  <2>4. TypeOK'
    BY <1>1, <2>1 DEF TypeOK, Filed
  <2>5. NoInternalError' /\ InOrder'
    BY <2>1 DEF NoInternalError, InOrder
  <2>6. BlocksBelowK' /\ DecodedIgnored' /\ Pending' /\ WrittenPassed'
    <3>1. BlocksBelowK'
      BY <2>1 DEF Filed, BlocksBelowK
    <3>2. DecodedIgnored'
      BY <2>1 DEF Filed, DecodedIgnored
    <3>3. Pending'
      BY <2>3 DEF Pending
    <3>4. WrittenPassed'
      BY <2>1 DEF Filed, WrittenPassed
    <3>5. QED
      BY <3>1, <3>2, <3>3, <3>4
  <2>7. Starting'
    <3>1. start_delay' > 1
      BY <1>1, <1>2
    <3>2. \A g \in SeqNrs :
            Len(blocks_grouped'[g]) <= START_DELAY - start_delay'
      <4>1. SUFFICES ASSUME NEW g \in SeqNrs
                     PROVE  Len(grouped[g]) <= START_DELAY - delay
        BY <1>1, <2>1
      <4>2. Len(grouped[g]) <= START_DELAY - start_delay + 1
        BY <2>2
      <4>3. Len(grouped[g]) \in Nat
        BY LenProperties DEF Filed
      <4> DEFINE n == Len(grouped[g])
      <4> HIDE DEF n
      <4>4. n <= START_DELAY - start_delay + 1 /\ n \in Nat
        BY <4>2, <4>3 DEF n
      <4>5. START_DELAY \in Nat /\ start_delay \in Nat
        BY <1>1
      <4>6. n <= START_DELAY - delay
        BY <2>2, <4>4, <4>5
      <4>7. QED
        BY <4>6 DEF n
    <3>3. QED
      BY <2>1, <2>3, <3>1, <3>2 DEF Starting
  <2>8. QED
    BY <2>4, <2>5, <2>6, <2>7 DEF IndInv
<1>3. CASE ~(delay > 1)
  <2>1. start_delay' \in 0..1
    BY <1>1, <1>3
  <2>2. PICK start \in Nat : /\ curr_seqnr <= start
                             /\ WriteReady(start, grouped, decoded, ignored)
    BY <2>1, OrderWrites
  <2>3. QED
    BY <2>1, <2>2, WriteReadyKeeps
<1>4. QED
  BY <1>2, <1>3

\* The blocks after a packet of a group that is not ignored was filed: one
\* more for its group, which is the only one that can be complete.
LEMMA Registered ==
  ASSUME NEW sn \in SeqNrs, NEW bn \in BlockNrs,
         IndInv, Receive(sn, bn)
  PROVE  LET b == Register(sn, bn)
         IN /\ b \in [SeqNrs -> Seq(BlockNrs)]
            /\ \A g \in SeqNrs : g # sn => b[g] = blocks_grouped[g]
            /\ Len(b[sn]) = Len(blocks_grouped[sn]) + 1
            /\ b[sn] # << >>
            /\ \A g \in SeqNrs : /\ Len(blocks_grouped[g]) \in Nat
                                 /\ Len(blocks_grouped[g]) < K
            /\ Complete(b) \subseteq {sn}
            /\ decodedeti[sn] = Absent
<1> USE ReceiverAssumption DEF ReceiverAssumption
<1> DEFINE b == Register(sn, bn)
<1>1. /\ TypeOK /\ NoInternalError /\ InOrder /\ BlocksBelowK /\ DecodedIgnored
      /\ Pending /\ WrittenPassed /\ Starting
      /\ status = "running" /\ sn \notin ignore_groups
  BY DEF IndInv, Receive
<1>2. /\ blocks_grouped \in [SeqNrs -> Seq(BlockNrs)]
      /\ decodedeti \in [SeqNrs -> Frames \cup {Absent}]
      /\ ignore_groups \subseteq Nat
      /\ start_delay \in 0..START_DELAY
      /\ curr_seqnr \in Nat \cup {-1}
      /\ rx_eti_stream \in Seq(Entries)
  BY <1>1 DEF TypeOK, Entries
<1>3. /\ b \in [SeqNrs -> Seq(BlockNrs)]
      /\ b[sn] = Append(blocks_grouped[sn], bn)
      /\ \A g \in SeqNrs : g # sn => b[g] = blocks_grouped[g]
  BY <1>2 DEF Register
<1>4. /\ \A g \in SeqNrs : /\ Len(blocks_grouped[g]) \in Nat
                            /\ Len(blocks_grouped[g]) < K
      /\ Len(b[sn]) = Len(blocks_grouped[sn]) + 1
      /\ b[sn] # << >>
  <2>1. blocks_grouped[sn] \in Seq(BlockNrs)
    BY <1>2
  <2>2. Len(b[sn]) = Len(blocks_grouped[sn]) + 1
    BY <1>3, <2>1
  <2>3. Len(blocks_grouped[sn]) \in Nat
    BY <2>1, LenProperties
  <2>4. b[sn] # << >>
    BY <2>2, <2>3, EmptySeq
  <2>5. \A g \in SeqNrs : /\ Len(blocks_grouped[g]) \in Nat
                           /\ Len(blocks_grouped[g]) < K
    BY <1>1, <1>2, LenProperties DEF BlocksBelowK
  <2>6. QED
    BY <2>2, <2>4, <2>5
<1>5. Complete(b) \subseteq {sn}
  <2> HIDE DEF b
  <2>1. ASSUME NEW g \in SeqNrs, g # sn PROVE ~(Len(b[g]) >= K)
    <3>1. b[g] = blocks_grouped[g]
      BY <1>3, <2>1
    <3>2. Len(b[g]) \in Nat /\ Len(b[g]) < K
      BY <1>4, <3>1
    <3>3. QED
      BY <3>2
  <2>2. QED
    BY <2>1 DEF Complete
<1>6. decodedeti[sn] = Absent
  BY <1>1 DEF DecodedIgnored
<1>7. QED
  BY <1>3, <1>4, <1>5, <1>6

\* When the handler comes to the output its dictionaries satisfy Filed, and
\* no group was completed before the output starts.
LEMMA FiledAfterDecode ==
  ASSUME NEW sn \in SeqNrs, NEW bn \in BlockNrs,
         IndInv, Receive(sn, bn),
         NEW frame \in [Complete(Register(sn, bn)) -> Frames]
  PROVE  LET b == Register(sn, bn)
             G == StillGrouped(b)
             I == ignore_groups \cup Complete(b)
         IN /\ Filed(G, NowDecoded(b, frame), I)
            /\ start_delay > 1 =>
                 /\ I = {} /\ Keys(G) # {}
                 /\ \A g \in SeqNrs :
                      Len(G[g]) <= START_DELAY - start_delay + 1
<1> USE ReceiverAssumption DEF ReceiverAssumption
<1> DEFINE b == Register(sn, bn)
<1>1. /\ TypeOK /\ NoInternalError /\ InOrder /\ BlocksBelowK /\ DecodedIgnored
      /\ Pending /\ WrittenPassed /\ Starting
      /\ status = "running" /\ sn \notin ignore_groups
  BY DEF IndInv, Receive
<1>2. /\ blocks_grouped \in [SeqNrs -> Seq(BlockNrs)]
      /\ decodedeti \in [SeqNrs -> Frames \cup {Absent}]
      /\ ignore_groups \subseteq Nat
      /\ start_delay \in 0..START_DELAY
      /\ curr_seqnr \in Nat \cup {-1}
      /\ rx_eti_stream \in Seq(Entries)
  BY <1>1 DEF TypeOK, Entries
<1>3. /\ b \in [SeqNrs -> Seq(BlockNrs)]
      /\ \A g \in SeqNrs : g # sn => b[g] = blocks_grouped[g]
      /\ Len(b[sn]) = Len(blocks_grouped[sn]) + 1
      /\ b[sn] # << >>
      /\ \A g \in SeqNrs : /\ Len(blocks_grouped[g]) \in Nat
                           /\ Len(blocks_grouped[g]) < K
      /\ Complete(b) \subseteq {sn}
      /\ decodedeti[sn] = Absent
  BY Registered
<1> DEFINE G == StillGrouped(b)
           D == NowDecoded(b, frame)
           I == ignore_groups \cup Complete(b)
<1>0. frame \in [Complete(b) -> Frames]
  OBVIOUS
<1> USE DEF StillGrouped, NowDecoded
<1> HIDE DEF b
<1>4. Filed(G, D, I)
  <2>1. G \in [SeqNrs -> Seq(BlockNrs)]
    BY <1>3, EmptySeq
  <2>2. D \in [SeqNrs -> Frames \cup {Absent}]
    BY <1>0, <1>2
  <2>3. I \subseteq Nat
    BY <1>2, <1>3
  <2>4. \A g \in SeqNrs : Len(G[g]) < K
    <3>1. SUFFICES ASSUME NEW g \in SeqNrs PROVE Len(G[g]) < K
      OBVIOUS
    <3>2. CASE g \in Complete(b)
      BY <3>2, EmptySeq
    <3>3. CASE g \notin Complete(b)
      <4>1. b[g] \in Seq(BlockNrs) /\ ~(Len(b[g]) >= K)
        BY <1>3, <3>3 DEF Complete
      <4>2. Len(b[g]) \in Nat
        BY <4>1, LenProperties
      <4>3. QED
        BY <3>3, <4>1, <4>2
    <3>4. QED
      BY <3>2, <3>3
  <2>5. ASSUME NEW g \in SeqNrs, D[g] # Absent
        PROVE  g \in I /\ G[g] = << >>
    <3>1. CASE g \in Complete(b)
      BY <3>1
    <3>2. CASE g \notin Complete(b)
      <4>1. decodedeti[g] # Absent /\ g # sn
        BY <1>3, <2>5, <3>2
      <4>2. QED
        BY <1>1, <1>3, <3>2, <4>1 DEF DecodedIgnored
    <3>3. QED
      BY <3>1, <3>2
  <2>6. ASSUME NEW g \in I, g >= curr_seqnr
        PROVE  g \in SeqNrs /\ D[g] # Absent
    <3>1. CASE g \in Complete(b)
      BY <1>0, <1>3, <3>1 DEF Frames, Absent
    <3>2. CASE g \notin Complete(b)
      BY <1>1, <2>6, <3>2 DEF Pending
    <3>3. QED
      BY <3>1, <3>2
  <2>7. ASSUME NEW i \in 1..Len(rx_eti_stream)
        PROVE  LET g == rx_eti_stream[i].sn
               IN g < curr_seqnr /\ g \in I /\ D[g] = Absent
    <3> DEFINE g == rx_eti_stream[i].sn
    <3>1. g < curr_seqnr /\ g \in ignore_groups /\ decodedeti[g] = Absent
      BY <1>1 DEF WrittenPassed
    <3>2. rx_eti_stream[i] \in Entries
      BY <1>2, ElementOfSeq
    <3>3. g \in SeqNrs
      BY <3>2, Zenon DEF Entries
    <3>4. g # sn
      BY <1>1, <3>1
    <3> HIDE DEF g
    <3>5. g \notin Complete(b)
      BY <1>3, <3>4
    <3>6. g \in I /\ D[g] = Absent
      BY <3>1, <3>3, <3>5
    <3>7. QED
      BY <3>1, <3>6 DEF g
  <2> HIDE DEF G, D, I
  <2>8. QED
    BY <2>1, <2>2, <2>3, <2>4, <2>5, <2>6, <2>7 DEF Filed
<1>5. ASSUME start_delay > 1
      PROVE  /\ I = {} /\ Keys(G) # {}
             /\ \A g \in SeqNrs :
                  Len(G[g]) <= START_DELAY - start_delay + 1
  <2>1. /\ ignore_groups = {}
        /\ \A g \in SeqNrs :
             Len(blocks_grouped[g]) <= START_DELAY - start_delay
    BY <1>1, <1>5 DEF Starting
  <2>2. ASSUME NEW g \in SeqNrs
        PROVE  /\ Len(b[g]) \in Nat
               /\ Len(b[g]) <= START_DELAY - start_delay + 1
    <3> DEFINE n == Len(blocks_grouped[g])
    <3>1. n \in Nat /\ n <= START_DELAY - start_delay
      BY <1>3, <2>1
    <3>2. Len(b[g]) \in {n, n + 1}
      BY <1>3
    <3> HIDE DEF n
    <3>3. START_DELAY \in Nat /\ start_delay \in Nat
      BY <1>2
    <3>4. QED
      BY <3>1, <3>2, <3>3
  <2>3. Complete(b) = {}
    <3>1. \A g \in SeqNrs : Len(b[g]) < K
      BY <1>2, <1>5, <2>2
    <3>2. \A g \in SeqNrs : ~(Len(b[g]) >= K)
      BY <2>2, <3>1
    <3>3. QED
      BY <3>2 DEF Complete
  <2>4. \A g \in SeqNrs : G[g] = b[g]
    BY <2>3
  <2>5. sn \in Keys(G)
    BY <1>3, <2>4 DEF Keys
  <2>6. QED
    BY <2>1, <2>2, <2>3, <2>4, <2>5
<1>6. QED
  BY <1>4, <1>5 DEF b

\* Handling a packet of a group that is not ignored keeps the invariant.
LEMMA ReceiveKeeps ==
  ASSUME NEW sn \in SeqNrs, NEW bn \in BlockNrs,
         IndInv, Receive(sn, bn)
  PROVE  IndInv'
<1> USE ReceiverAssumption DEF ReceiverAssumption
<1> DEFINE b == Register(sn, bn)
<1>1. /\ TypeOK /\ NoInternalError /\ InOrder /\ BlocksBelowK /\ DecodedIgnored
      /\ Pending /\ WrittenPassed /\ Starting
      /\ status = "running" /\ sn \notin ignore_groups
  BY DEF IndInv, Receive
<1>2. /\ blocks_grouped \in [SeqNrs -> Seq(BlockNrs)]
      /\ decodedeti \in [SeqNrs -> Frames \cup {Absent}]
      /\ ignore_groups \subseteq Nat
      /\ start_delay \in 0..START_DELAY
      /\ curr_seqnr \in Nat \cup {-1}
      /\ rx_eti_stream \in Seq(Entries)
  BY <1>1 DEF TypeOK, Entries
<1>3. /\ b \in [SeqNrs -> Seq(BlockNrs)]
      /\ \A g \in SeqNrs : g # sn => b[g] = blocks_grouped[g]
      /\ Len(b[sn]) = Len(blocks_grouped[sn]) + 1
      /\ b[sn] # << >>
      /\ \A g \in SeqNrs : /\ Len(blocks_grouped[g]) \in Nat
                           /\ Len(blocks_grouped[g]) < K
      /\ Complete(b) \subseteq {sn}
      /\ decodedeti[sn] = Absent
  BY Registered
<1>4. CASE DecoderRaises(b)
  <2>1. /\ blocks_grouped' = b /\ status' = "zfec.Error"
        /\ decodedeti' = decodedeti /\ ignore_groups' = ignore_groups
        /\ start_delay' = start_delay /\ curr_seqnr' = curr_seqnr
        /\ rx_eti_stream' = rx_eti_stream
    BY <1>4 DEF DecoderRaises
  <2> HIDE DEF b
  <2>2. TypeOK'
    BY <1>2, <1>3, <2>1 DEF TypeOK, Statuses, Entries
  <2>3. NoInternalError' /\ BlocksBelowK'
    BY <2>1 DEF NoInternalError, BlocksBelowK
  <2>4. InOrder'
    BY <1>1, <2>1 DEF InOrder
  <2>5. DecodedIgnored'
    BY <1>1, <1>3, <1>3, <2>1 DEF DecodedIgnored
  <2>6. Pending' /\ WrittenPassed'
    BY <1>1, <2>1 DEF Pending, WrittenPassed
  <2>7. Starting'
    BY <1>1, <2>1 DEF Starting
  <2>8. QED
    BY <2>2, <2>3, <2>4, <2>5, <2>6, <2>7 DEF IndInv
<1>5. CASE DecodeAndOrder(b)
  <2> DEFINE I == ignore_groups \cup Complete(b)
  <2>1. PICK frame \in [Complete(b) -> Frames] :
          Order(StillGrouped(b), NowDecoded(b, frame), I)
    BY <1>5 DEF DecodeAndOrder
  <2>2. /\ Filed(StillGrouped(b), NowDecoded(b, frame), I)
        /\ start_delay > 1 =>
             /\ I = {} /\ Keys(StillGrouped(b)) # {}
             /\ \A g \in SeqNrs : Len(StillGrouped(b)[g])
                                  <= START_DELAY - start_delay + 1
    BY FiledAfterDecode
  <2> HIDE DEF b, I
  <2>3. QED
    BY <1>1, <2>1, <2>2, OrderKeeps
<1>6. QED
  BY <1>4, <1>5 DEF Receive

\* What a packet of group sn may do, as an observer of the groups sees it:
\* the output grows by a run of groups that were decoded or are sn itself,
\* ignored groups stay ignored, other groups' blocks stay, and only sn can
\* be newly decoded.
OutputGrows(sn, start, next, w) ==
  /\ curr_seqnr <= start /\ start <= next
  /\ IsRun(w, start, next)
  /\ rx_eti_stream' = rx_eti_stream \o w
  /\ \A g \in start..(next - 1) :
       g \in SeqNrs /\ (decodedeti[g] # Absent \/ g = sn)

OthersKept(sn) ==
  /\ ignore_groups \subseteq ignore_groups'
  /\ \A g \in SeqNrs :
       g # sn => /\ blocks_grouped'[g] = blocks_grouped[g]
                 /\ decodedeti'[g] \in {decodedeti[g], Absent}

EffectOf(sn) ==
  /\ OthersKept(sn)
  /\ \E start, next \in Int : \E w : OutputGrows(sn, start, next, w)

\* What a packet does to what is written and ignored: both only grow.
LEMMA ReceiveEffect ==
  ASSUME NEW sn \in SeqNrs, NEW bn \in BlockNrs,
         IndInv, Receive(sn, bn)
  PROVE  EffectOf(sn)
<1> USE ReceiverAssumption DEF ReceiverAssumption
<1> DEFINE b == Register(sn, bn)
<1>1. /\ TypeOK /\ NoInternalError /\ InOrder /\ BlocksBelowK /\ DecodedIgnored
      /\ Pending /\ WrittenPassed /\ Starting
      /\ status = "running" /\ sn \notin ignore_groups
  BY DEF IndInv, Receive
<1>2. /\ blocks_grouped \in [SeqNrs -> Seq(BlockNrs)]
      /\ decodedeti \in [SeqNrs -> Frames \cup {Absent}]
      /\ ignore_groups \subseteq Nat
      /\ start_delay \in 0..START_DELAY
      /\ curr_seqnr \in Nat \cup {-1}
      /\ rx_eti_stream \in Seq(Entries)
  BY <1>1 DEF TypeOK, Entries
<1>3. /\ b \in [SeqNrs -> Seq(BlockNrs)]
      /\ \A g \in SeqNrs : g # sn => b[g] = blocks_grouped[g]
      /\ Len(b[sn]) = Len(blocks_grouped[sn]) + 1
      /\ b[sn] # << >>
      /\ \A g \in SeqNrs : /\ Len(blocks_grouped[g]) \in Nat
                           /\ Len(blocks_grouped[g]) < K
      /\ Complete(b) \subseteq {sn}
      /\ decodedeti[sn] = Absent
  BY Registered
<1>4. ASSUME rx_eti_stream' = rx_eti_stream, OthersKept(sn)
      PROVE  EffectOf(sn)
  <2>1. << >> \in Seq(Entries) /\ Len(<< >>) = 0
    BY EmptySeq
  <2>2. rx_eti_stream \o << >> = rx_eti_stream
    BY <1>2, ConcatEmptySeq
  <2>3. IsRun(<< >>, curr_seqnr, curr_seqnr)
    BY <1>2, <2>1 DEF IsRun
  <2>4. curr_seqnr \in Int /\ OutputGrows(sn, curr_seqnr, curr_seqnr, << >>)
    BY <1>2, <1>4, <2>2, <2>3 DEF OutputGrows
  <2>5. QED
    BY <1>4, <2>4 DEF EffectOf
<1>5. CASE DecodeAndOrder(b) /\ start_delay' <= 1
  <2> DEFINE G == StillGrouped(b)
             I == ignore_groups \cup Complete(b)
  <2>1. PICK frame \in [Complete(b) -> Frames] :
          Order(G, NowDecoded(b, frame), I)
    BY <1>5 DEF DecodeAndOrder
  <2> DEFINE D == NowDecoded(b, frame)
  <2>2. /\ Filed(G, D, I)
        /\ start_delay > 1 =>
             /\ I = {} /\ Keys(G) # {}
             /\ \A g \in SeqNrs : Len(G[g]) <= START_DELAY - start_delay + 1
    BY FiledAfterDecode
  <2> HIDE DEF b, G, D, I
  <2>3. PICK start \in Nat : curr_seqnr <= start /\ WriteReady(start, G, D, I)
    BY <1>1, <1>5, <2>1, <2>2, OrderWrites DEF D
  <2>4. PICK next \in start..(start + Cardinality(I)) :
          /\ \A g \in start..(next - 1) : g \in I /\ D[g] # Absent
          /\ rx_eti_stream' = rx_eti_stream \o Written(start, next, D)
          /\ blocks_grouped' = G
          /\ \/ /\ decodedeti' = Without(D, start..(next - 1))
                /\ ignore_groups' = I
             \/ /\ decodedeti' = Without(Without(D, start..(next - 1)), {next})
                /\ ignore_groups' = I \cup {next}
    BY <2>3 DEF WriteReady, GiveUp
  <2>5. /\ start \in Int /\ next \in Int /\ start <= next
        /\ curr_seqnr \in Int
    BY <1>2, <2>4
  <2>6. \A g \in start..(next - 1) : g \in SeqNrs /\ D[g] \in Frames
    BY <2>2, <2>3, <2>4, <2>5 DEF Filed
  <2>7. IsRun(Written(start, next, D), start, next)
    BY <2>5, <2>6, WrittenRun
  <2>8. \A g \in start..(next - 1) :
          g \in SeqNrs /\ (decodedeti[g] # Absent \/ g = sn)
    BY <1>3, <2>4, <2>6 DEF D, NowDecoded
  <2>9. \A g \in SeqNrs :
          g # sn => /\ blocks_grouped'[g] = blocks_grouped[g]
                    /\ decodedeti'[g] \in {decodedeti[g], Absent}
    <3>1. \A g \in SeqNrs :
            g # sn => G[g] = blocks_grouped[g] /\ D[g] = decodedeti[g]
      BY <1>3 DEF G, D, StillGrouped, NowDecoded
    <3>2. QED
      BY <2>4, <3>1 DEF Without
  <2>10. ignore_groups \subseteq ignore_groups'
    BY <2>4 DEF I
  <2>11. OutputGrows(sn, start, next, Written(start, next, D))
    BY <2>3, <2>4, <2>5, <2>7, <2>8 DEF OutputGrows
  <2>12. QED
    BY <2>5, <2>9, <2>10, <2>11 DEF EffectOf, OthersKept
<1>6. CASE DecodeAndOrder(b) /\ ~(start_delay' <= 1)
  <2> HIDE DEF b
  <2>1. PICK frame \in [Complete(b) -> Frames] :
          Order(StillGrouped(b), NowDecoded(b, frame),
                ignore_groups \cup Complete(b))
    BY <1>6 DEF DecodeAndOrder
  <2>2. start_delay' \in Int /\ start_delay' > 1
    BY <1>2, <1>6, <2>1 DEF Order
  <2>3. /\ blocks_grouped' = StillGrouped(b)
        /\ decodedeti' = NowDecoded(b, frame)
        /\ ignore_groups' = ignore_groups \cup Complete(b)
        /\ rx_eti_stream' = rx_eti_stream
    BY <1>2, <2>1, <2>2 DEF Order
  <2>4. OthersKept(sn)
    BY <1>3, <2>3 DEF StillGrouped, NowDecoded, OthersKept
  <2>5. QED
    BY <1>4, <2>3, <2>4
<1>7. CASE DecoderRaises(b)
  <2> HIDE DEF b
  <2>1. OthersKept(sn) /\ rx_eti_stream' = rx_eti_stream
    BY <1>3, <1>7 DEF DecoderRaises, OthersKept
  <2>2. QED
    BY <1>4, <2>1
<1>8. DecoderRaises(b) \/ DecodeAndOrder(b)
  BY DEF Receive
<1> HIDE DEF b
<1>9. QED
  BY <1>5, <1>6, <1>7, <1>8

\* What a packet does to the blocks and frames, unless the decoder raises: no
\* block is kept but those there were and the packet's own, and a frame that is
\* decoded, or written, was there before or is what the blocks decode to.
LEMMA ReceiveDecodes ==
  ASSUME NEW sn \in SeqNrs, NEW bn \in BlockNrs,
         IndInv, Receive(sn, bn), ~DecoderRaises(Register(sn, bn))
  PROVE  LET b == Register(sn, bn)
             Possible(g) == {decodedeti[g]} \cup DecodeResults(b[g])
         IN /\ status' # "zfec.Error"
            /\ \A g \in SeqNrs : blocks_grouped'[g] \in {<< >>, b[g]}
            /\ \A g \in SeqNrs : decodedeti'[g] \in {Absent} \cup Possible(g)
            /\ \E w \in Seq(Entries) :
                 /\ rx_eti_stream' = rx_eti_stream \o w
                 /\ \A i \in 1..Len(w) : w[i].data \in Possible(w[i].sn)
<1> USE ReceiverAssumption DEF ReceiverAssumption
<1> DEFINE b == Register(sn, bn)
           Possible(g) == {decodedeti[g]} \cup DecodeResults(b[g])
<1>1. /\ TypeOK /\ InOrder /\ Starting /\ status = "running"
      /\ rx_eti_stream \in Seq(Entries) /\ curr_seqnr \in Nat \cup {-1}
      /\ start_delay \in 0..START_DELAY
  BY DEF IndInv, Receive, TypeOK, Entries
<1>2. PICK frame \in [Complete(b) -> Frames] :
        /\ \A g \in Complete(b) : frame[g] \in DecodeResults(b[g])
        /\ Order(StillGrouped(b), NowDecoded(b, frame),
                 ignore_groups \cup Complete(b))
  BY DEF Receive, DecodeAndOrder
<1> DEFINE G == StillGrouped(b)
           D == NowDecoded(b, frame)
           I == ignore_groups \cup Complete(b)
<1>3. /\ Filed(G, D, I)
      /\ start_delay > 1 =>
           /\ I = {} /\ Keys(G) # {}
           /\ \A g \in SeqNrs : Len(G[g]) <= START_DELAY - start_delay + 1
  BY FiledAfterDecode
<1>4. \A g \in SeqNrs : G[g] \in {<< >>, b[g]} /\ D[g] \in Possible(g)
  BY <1>2 DEF StillGrouped, NowDecoded
<1> HIDE DEF b, G, D, I, Possible
<1>5. CASE start_delay' <= 1
  <2>1. PICK start \in Nat : curr_seqnr <= start /\ WriteReady(start, G, D, I)
    BY <1>1, <1>2, <1>3, <1>5, OrderWrites DEF G, D, I
  <2>2. PICK next \in start..(start + Cardinality(I)) :
          /\ \A g \in start..(next - 1) : g \in I /\ D[g] # Absent
          /\ rx_eti_stream' = rx_eti_stream \o Written(start, next, D)
          /\ blocks_grouped' = G
          /\ status' # "zfec.Error"
          /\ \/ decodedeti' = Without(D, start..(next - 1))
             \/ decodedeti' = Without(Without(D, start..(next - 1)), {next})
    BY <2>1 DEF WriteReady, GiveUp
  <2> DEFINE w == Written(start, next, D)
  <2>3. start \in Int /\ next \in Int /\ start <= next /\ curr_seqnr \in Int
    BY <1>1, <2>2
  <2>4. \A g \in start..(next - 1) : g \in SeqNrs /\ D[g] \in Frames
    BY <1>3, <2>1, <2>2, <2>3 DEF Filed
  <2>5. w \in Seq(Entries) /\ Len(w) = next - start
    BY <2>3, <2>4, WrittenRun DEF IsRun
  <2>6. ASSUME NEW i \in 1..Len(w) PROVE w[i].data \in Possible(w[i].sn)
    <3>1. i \in 1..(next - start) /\ start + i - 1 \in start..(next - 1)
      BY <2>3, <2>5
    <3>2. w[i].sn = start + i - 1 /\ w[i].data = D[start + i - 1]
      BY <3>1 DEF Written
    <3>3. QED
      BY <1>4, <2>4, <3>1, <3>2
  <2>7. \A g \in SeqNrs : decodedeti'[g] \in {Absent, D[g]}
    BY <2>2 DEF Without
  <2> HIDE DEF w
  <2>8. QED
    BY <1>4, <2>2, <2>5, <2>6, <2>7 DEF b, Possible, w
<1>6. CASE ~(start_delay' <= 1)
  <2>1. start_delay' \in Int /\ start_delay' > 1
    BY <1>1, <1>2, <1>6 DEF Order
  <2>2. /\ blocks_grouped' = G /\ decodedeti' = D
        /\ rx_eti_stream' = rx_eti_stream /\ status' = "running"
    BY <1>1, <1>2, <2>1 DEF Order, G, D, I
  <2>3. << >> \in Seq(Entries) /\ rx_eti_stream' = rx_eti_stream \o << >>
        /\ \A i \in 1..Len(<< >>) : FALSE
    BY <1>1, <2>2, EmptySeq, ConcatEmptySeq
  <2>4. \E w \in Seq(Entries) :
          /\ rx_eti_stream' = rx_eti_stream \o w
          /\ \A i \in 1..Len(w) : w[i].data \in Possible(w[i].sn)
    BY <2>3
  <2>5. QED
    BY <1>4, <2>2, <2>4 DEF b, Possible
<1>7. QED
  BY <1>5, <1>6

\* Leaving the debugger keeps the invariant: the group it stopped at is not
\* ignored, so giving it up loses no decoded group.
LEMMA ResumeKeeps ==
  ASSUME IndInv, Resume
  PROVE  IndInv'
<1> USE ReceiverAssumption DEF ReceiverAssumption
<1>1. /\ TypeOK /\ InOrder /\ BlocksBelowK /\ DecodedIgnored /\ Pending
      /\ WrittenPassed /\ Starting /\ status = "debugger"
  BY DEF IndInv, Resume
<1>2. /\ decodedeti' = Without(decodedeti, {curr_seqnr})
      /\ ignore_groups' = ignore_groups \cup {curr_seqnr}
      /\ curr_seqnr' = curr_seqnr + 1
      /\ status' = "running"
      /\ blocks_grouped' = blocks_grouped /\ start_delay' = start_delay
      /\ rx_eti_stream' = rx_eti_stream
  BY DEF Resume, GiveUp
<1>3. start_delay \in 0..START_DELAY /\ ~(start_delay > 1) /\ curr_seqnr \in Nat
  BY <1>1 DEF TypeOK, Starting
<1>4. TypeOK'
  <2>1. decodedeti' \in [SeqNrs -> Frames \cup {Absent}]
    BY <1>1, <1>2 DEF TypeOK, Without
  <2>2. ignore_groups' \subseteq Nat /\ curr_seqnr' \in Nat \cup {-1}
    BY <1>1, <1>2, <1>3 DEF TypeOK
  <2>3. QED
    BY <1>1, <1>2, <2>1, <2>2 DEF TypeOK, Statuses
<1>5. NoInternalError' /\ InOrder' /\ BlocksBelowK'
  BY <1>1, <1>2 DEF NoInternalError, InOrder, BlocksBelowK
<1>6. DecodedIgnored'
  BY <1>1, <1>2 DEF DecodedIgnored, Without
<1>7. Pending'
  <2>1. SUFFICES ASSUME NEW g \in ignore_groups', g >= curr_seqnr'
                 PROVE  g \in SeqNrs /\ decodedeti'[g] # Absent
    BY DEF Pending
  <2>2. g \in ignore_groups /\ g >= curr_seqnr /\ g # curr_seqnr
    BY <1>1, <1>2, <1>3, <2>1 DEF TypeOK
  <2>3. QED
    BY <1>1, <1>2, <2>2 DEF Pending, Without
<1>8. WrittenPassed'
  <2>1. SUFFICES ASSUME NEW i \in 1..Len(rx_eti_stream)
                 PROVE  LET g == rx_eti_stream[i].sn
                        IN /\ g < curr_seqnr' /\ g \in ignore_groups'
                           /\ decodedeti'[g] = Absent
    BY <1>2 DEF WrittenPassed
  <2> DEFINE g == rx_eti_stream[i].sn
  <2>2. g < curr_seqnr /\ g \in ignore_groups /\ decodedeti[g] = Absent
    BY <1>1 DEF WrittenPassed
  <2>3. rx_eti_stream[i] \in Entries
    BY <1>1, ElementOfSeq DEF TypeOK, Entries
  <2>4. g \in SeqNrs
    BY <2>3, Zenon DEF Entries
  <2> HIDE DEF g
  <2>5. g < curr_seqnr'
    BY <1>2, <1>3, <2>2, <2>4
  <2>6. g \in ignore_groups' /\ decodedeti'[g] = Absent
    BY <1>2, <2>2, <2>4 DEF Without
  <2>7. QED
    BY <2>5, <2>6 DEF g
<1>9. Starting'
  BY <1>2, <1>3 DEF Starting
<1>10. QED
  BY <1>4, <1>5, <1>6, <1>7, <1>8, <1>9 DEF IndInv

\* The receiver starts in the invariant.
LEMMA InitIndInv == ReceiverInit => IndInv
<1> USE ReceiverAssumption DEF ReceiverAssumption
<1>1. SUFFICES ASSUME ReceiverInit PROVE IndInv
  OBVIOUS
<1>2. Len(<< >>) = 0 /\ << >> \in Seq(BlockNrs)
      /\ << >> \in Seq([sn : SeqNrs, data : Frames])
  BY EmptySeq
<1>3. TypeOK
  BY <1>1, <1>2 DEF ReceiverInit, TypeOK, Statuses
<1>4. NoInternalError /\ InOrder /\ BlocksBelowK
  BY <1>1, <1>2 DEF ReceiverInit, NoInternalError, InOrder, BlocksBelowK
<1>5. DecodedIgnored /\ Pending /\ WrittenPassed
  BY <1>1, <1>2 DEF ReceiverInit, DecodedIgnored, Pending, WrittenPassed
<1>6. Starting
  BY <1>1, <1>2 DEF ReceiverInit, Starting
<1>7. QED
  BY <1>3, <1>4, <1>5, <1>6 DEF IndInv

\* Every step of the receiver, and every stuttering step, keeps the invariant.
LEMMA NextIndInv == IndInv /\ [ReceiverNext]_receiverVars => IndInv'
<1>1. SUFFICES ASSUME IndInv, [ReceiverNext]_receiverVars PROVE IndInv'
  OBVIOUS
<1>2. ASSUME NEW sn \in SeqNrs, NEW bn \in BlockNrs, Receive(sn, bn)
      PROVE  IndInv'
  BY <1>1, <1>2, ReceiveKeeps
<1>3. CASE Resume
  BY <1>1, <1>3, ResumeKeeps
<1>4. CASE UNCHANGED receiverVars
  BY <1>1, <1>4
     DEF receiverVars, IndInv, TypeOK, NoInternalError, InOrder, BlocksBelowK,
         DecodedIgnored, Pending, WrittenPassed, Starting
<1>5. ASSUME NEW sn \in SeqNrs, Ignore(sn)
      PROVE  IndInv'
  BY <1>4, <1>5 DEF Ignore
<1>6. QED
  BY <1>1, <1>2, <1>3, <1>4, <1>5 DEF ReceiverNext

\* The inductive invariant holds of the receiver.
THEOREM ReceiverInvariant == ReceiverSpec => []IndInv
<1>1. ReceiverInit => IndInv
  BY InitIndInv
<1>2. IndInv /\ [ReceiverNext]_receiverVars => IndInv'
  BY NextIndInv
<1>3. QED
  BY <1>1, <1>2, PTL DEF ReceiverSpec

\* Type correctness of the receiver.
THEOREM ReceiverTypeCorrect == ReceiverSpec => []TypeOK
<1>1. IndInv => TypeOK
  BY DEF IndInv
<1>2. QED
  BY <1>1, ReceiverInvariant, PTL

\* Whatever packets arrive, the receiver neither takes the minimum of no
\* groups nor asks decodedeti for a group it does not hold.
THEOREM ReceiverNeverFails == ReceiverSpec => []NoInternalError
<1>1. IndInv => NoInternalError
  BY DEF IndInv
<1>2. QED
  BY <1>1, ReceiverInvariant, PTL

\* Whatever packets arrive, groups are written in order, each at most once.
THEOREM ReceiverInOrder == ReceiverSpec => []InOrder
<1>1. IndInv => InOrder
  BY DEF IndInv
<1>2. QED
  BY <1>1, ReceiverInvariant, PTL

\* A group is never in two places at once.
THEOREM ReceiverOnePlace == ReceiverSpec => []OnePlace
<1>1. IndInv => OnePlace
  BY DEF IndInv, DecodedIgnored, WrittenPassed, OnePlace
<1>2. QED
  BY <1>1, ReceiverInvariant, PTL

\* What the receiver has declared decoded or lost stays so, and what it has
\* written is never taken back or changed.
THEOREM ReceiverNeverReopens == ReceiverSpec => NeverReopened
<1> DEFINE A == /\ ignore_groups \subseteq ignore_groups'
                /\ \A g \in ignore_groups \cap SeqNrs :
                     blocks_grouped[g] = << >> => blocks_grouped'[g] = << >>
                /\ Len(rx_eti_stream) <= Len(rx_eti_stream')
                /\ SubSeq(rx_eti_stream', 1, Len(rx_eti_stream))
                     = rx_eti_stream
<1>1. ASSUME NEW w \in Seq(Entries), rx_eti_stream \in Seq(Entries),
             rx_eti_stream' = rx_eti_stream \o w
      PROVE  /\ Len(rx_eti_stream) <= Len(rx_eti_stream')
             /\ SubSeq(rx_eti_stream', 1, Len(rx_eti_stream)) = rx_eti_stream
  <2> DEFINE s == rx_eti_stream
             p == Len(s)
  <2>1. s \in Seq(Entries) /\ p \in Nat /\ Len(w) \in Nat
    BY <1>1, LenProperties
  <2>2. /\ Len(s \o w) = p + Len(w)
        /\ \A i \in 1..(p + Len(w)) :
             (s \o w)[i] = IF i <= p THEN s[i] ELSE w[i - p]
    BY <1>1, <2>1, ConcatProperties
  <2>3. \A i \in 1..p : (s \o w)[i] = s[i] /\ s[i] \in Entries
    BY <2>1, <2>2, ElementOfSeq
  <2>4. /\ SubSeq(s \o w, 1, p) \in Seq(Entries)
        /\ Len(SubSeq(s \o w, 1, p)) = p
        /\ \A i \in 1..p : SubSeq(s \o w, 1, p)[i] = s[i]
    <3> DEFINE c == s \o w
    <3>1. \A i \in 1..p : c[i] \in Entries
      BY <2>3
    <3> HIDE DEF c, s, p
    <3>2. /\ SubSeq(c, 1, p) \in Seq(Entries)
          /\ Len(SubSeq(c, 1, p)) = IF 1 <= p THEN p - 1 + 1 ELSE 0
          /\ \A i \in 1..(p - 1 + 1) : SubSeq(c, 1, p)[i] = c[1 + i - 1]
      BY <2>1, <3>1, SubSeqProperties
    <3>3. \A i \in 1..p : c[i] = s[i]
      BY <2>3 DEF c
    <3>4. /\ Len(SubSeq(c, 1, p)) = p
          /\ \A i \in 1..p : SubSeq(c, 1, p)[i] = s[i]
      BY <2>1, <3>2, <3>3
    <3>5. QED
      BY <3>2, <3>4 DEF c
  <2>5. SubSeq(s \o w, 1, p) = s
    BY <2>1, <2>4, SeqEqual
  <2>6. QED
    BY <1>1, <2>1, <2>2, <2>5
<1>2. ASSUME TypeOK PROVE rx_eti_stream \in Seq(Entries)
  BY <1>2 DEF TypeOK, Entries
<1>3. ASSUME IndInv, NEW sn \in SeqNrs, NEW bn \in BlockNrs, Receive(sn, bn)
      PROVE  A
  <2>1. OthersKept(sn) /\ sn \notin ignore_groups
    BY <1>3, ReceiveEffect DEF EffectOf, Receive
  <2>2. PICK w \in Seq(Entries) : rx_eti_stream' = rx_eti_stream \o w
    BY <1>3, ReceiveEffect DEF EffectOf, OutputGrows, IsRun
  <2>3. rx_eti_stream \in Seq(Entries)
    BY <1>2, <1>3 DEF IndInv
  <2>4. QED
    BY <1>1, <2>1, <2>2, <2>3 DEF OthersKept
<1>4. ASSUME IndInv, rx_eti_stream' = rx_eti_stream,
             blocks_grouped' = blocks_grouped,
             ignore_groups \subseteq ignore_groups'
      PROVE  A
  <2>1. rx_eti_stream \in Seq(Entries) /\ << >> \in Seq(Entries)
    BY <1>2, <1>4, EmptySeq DEF IndInv
  <2>2. rx_eti_stream' = rx_eti_stream \o << >>
    BY <1>4, <2>1, ConcatEmptySeq
  <2>3. QED
    BY <1>1, <1>4, <2>1, <2>2
<1>5. ASSUME IndInv, Resume PROVE A
  BY <1>4, <1>5 DEF Resume, GiveUp
<1>6. ASSUME IndInv, ReceiverNext PROVE A \/ UNCHANGED receiverVars
  BY <1>3, <1>5, <1>6 DEF ReceiverNext, Ignore
<1>7. IndInv /\ [ReceiverNext]_receiverVars => [A]_receiverVars
  BY <1>6
<1>8. QED
  BY <1>7, ReceiverInvariant, PTL DEF ReceiverSpec, NeverReopened
----------------------------------------------------------------------------
(* Sender, network and receiver                                            *)

\* Every step of the composition is a step of the receiver or leaves it.
LEMMA StepIsReceiverStep ==
  ASSUME UdpTypeOK, [UdpNext]_udpVars
  PROVE  [ReceiverNext]_receiverVars
<1>1. ASSUME NEW p \in net, Arrive(p)
      PROVE  ReceiverNext
  <2>1. p[1] \in SeqNrs /\ p[2] \in BlockNrs
    BY DEF UdpTypeOK, Packets
  <2>2. QED
    BY <1>1, <2>1 DEF Arrive, ReceiverNext
<1>2. ASSUME NEW p \in net, Deliver(p) \/ DeliverCopy(p) \/ Lose(p)
      PROVE  [ReceiverNext]_receiverVars
  BY <1>1, <1>2 DEF Deliver, DeliverCopy, Lose
<1>3. CASE SendGroup \/ EndOfFile \/ UNCHANGED udpVars
  BY <1>3 DEF SendGroup, EndOfFile, udpVars
<1>4. CASE Continue
  BY <1>4 DEF Continue, ReceiverNext
<1>5. QED
  BY <1>2, <1>3, <1>4 DEF UdpNext

\* What a packet in flight does to the bounds OnlySent speaks of.
LEMMA ArriveKeepsOnlySent ==
  ASSUME UdpIndInv, NEW p \in net, Arrive(p), net' \subseteq net
  PROVE  OnlySent'
<1>1. p[1] \in SeqNrs /\ p[2] \in BlockNrs /\ p[1] <= Sent
  BY DEF UdpIndInv, UdpTypeOK, OnlySent, Packets
<1>2. sending' = sending /\ seqnr' = seqnr /\ Sent' = Sent
  BY DEF Arrive, senderVars, Sent
<1>3. \A q \in net' : q[1] <= Sent'
  BY <1>2 DEF UdpIndInv, OnlySent
<1>4. ASSUME NEW g \in SeqNrs,
             blocks_grouped'[g] # << >> \/ decodedeti'[g] # Absent
      PROVE  g <= Sent'
  <2>1. CASE g = p[1]
    BY <1>1, <1>2, <2>1
  <2>2. CASE g # p[1]
    <3>1. blocks_grouped[g] # << >> \/ decodedeti[g] # Absent
      <4>1. CASE Receive(p[1], p[2])
        <5>1. OthersKept(p[1])
          BY <1>1, <4>1, ReceiveEffect DEF UdpIndInv, EffectOf
        <5>2. QED
          BY <1>4, <2>2, <5>1 DEF OthersKept
      <4>2. CASE Ignore(p[1])
        BY <1>4, <4>2 DEF Ignore, receiverVars
      <4>3. QED
        BY <4>1, <4>2 DEF Arrive
    <3>2. QED
      BY <1>2, <3>1 DEF UdpIndInv, OnlySent
  <2>3. QED
    BY <2>1, <2>2
<1>5. QED
  BY <1>2, <1>3, <1>4 DEF UdpIndInv, OnlySent

\* A group whose blocks are different ones decodes to what was sent.
LEMMA OnceIsIntact ==
  ASSUME NEW blocks, IsInjective(blocks)
  PROVE  DecodeResults(blocks) = {"intact"}
BY DEF DecodeResults

\* A packet that arrives for the first time leaves different blocks, and only
\* intact frames.
LEMMA FirstArrival ==
  ASSUME UdpIndInv, dups = 0, NEW p \in net, Receive(p[1], p[2]),
         net' = net \ {p}
  PROVE  /\ \A g \in SeqNrs :
              /\ IsInjective(blocks_grouped'[g])
              /\ \A i \in DOMAIN blocks_grouped'[g] :
                   <<g, blocks_grouped'[g][i]>> \notin net'
              /\ decodedeti'[g] # "garbled"
         /\ status' # "zfec.Error"
         /\ \E w \in Seq(Entries) :
              /\ rx_eti_stream' = rx_eti_stream \o w
              /\ \A i \in 1..Len(w) : w[i].data = "intact"
<1> DEFINE sn == p[1]
           bn == p[2]
           b == Register(sn, bn)
<1>1. sn \in SeqNrs /\ bn \in BlockNrs /\ p = <<sn, bn>>
  BY DEF UdpIndInv, UdpTypeOK, Packets
<1>2. /\ blocks_grouped \in [SeqNrs -> Seq(BlockNrs)]
      /\ decodedeti \in [SeqNrs -> Frames \cup {Absent}] /\ BlocksOnce /\ IndInv
  BY DEF UdpIndInv, UdpTypeOK, TypeOK
<1>3. ASSUME NEW g \in SeqNrs
      PROVE  /\ IsInjective(b[g])
             /\ \A i \in DOMAIN b[g] : <<g, b[g][i]>> \notin net'
  <2>1. CASE g = sn
    <3> DEFINE old == blocks_grouped[sn]
    <3>1. old \in Seq(BlockNrs) /\ b[g] = Append(old, bn)
      BY <1>1, <1>2, <2>1 DEF Register
    <3>2. /\ IsInjective(old) /\ \A i \in DOMAIN old : <<sn, old[i]>> \notin net
      BY <1>1, <1>2 DEF BlocksOnce
    <3>3. \A i \in DOMAIN old : old[i] # bn
      BY <1>1, <3>2
    <3> HIDE DEF old, sn, bn, b
    <3>4. /\ DOMAIN b[g] = (DOMAIN old) \cup {Len(old) + 1}
          /\ Len(old) + 1 \notin DOMAIN old
          /\ b[g][Len(old) + 1] = bn
          /\ \A i \in DOMAIN old : b[g][i] = old[i]
      BY <1>1, <3>1
    <3>5. IsInjective(b[g])
      BY <3>2, <3>3, <3>4 DEF IsInjective
    <3>6. \A i \in DOMAIN b[g] : <<g, b[g][i]>> \notin net'
      BY <1>1, <2>1, <3>2, <3>4
    <3>7. QED
      BY <3>5, <3>6
  <2>2. CASE g # sn
    <3>1. b[g] = blocks_grouped[g]
      BY <1>2, <2>2 DEF Register
    <3>2. QED
      BY <1>2, <3>1 DEF BlocksOnce
  <2>3. QED
    BY <2>1, <2>2
<1>4. \A g \in SeqNrs : DecodeResults(b[g]) = {"intact"}
  BY <1>3, OnceIsIntact
<1>5. ~DecoderRaises(b)
  <2> HIDE DEF b
  <2>1. ASSUME NEW g \in Complete(b) PROVE "raises" \notin DecodeResults(b[g])
    BY <1>4 DEF Complete
  <2>2. QED
    BY <2>1 DEF DecoderRaises
<1> DEFINE Possible(g) == {decodedeti[g]} \cup DecodeResults(b[g])
<1>6. /\ status' # "zfec.Error"
      /\ \A g \in SeqNrs : blocks_grouped'[g] \in {<< >>, b[g]}
      /\ \A g \in SeqNrs : decodedeti'[g] \in {Absent} \cup Possible(g)
      /\ \E w \in Seq(Entries) :
           /\ rx_eti_stream' = rx_eti_stream \o w
           /\ \A i \in 1..Len(w) : w[i].data \in Possible(w[i].sn)
  BY <1>1, <1>2, <1>5, ReceiveDecodes
<1> HIDE DEF b
<1>7. \A g \in SeqNrs : Possible(g) \subseteq {Absent, "intact"}
  BY <1>2, <1>4 DEF BlocksOnce, Frames
<1>8. ASSUME NEW g \in SeqNrs
      PROVE  /\ IsInjective(blocks_grouped'[g])
             /\ \A i \in DOMAIN blocks_grouped'[g] :
                  <<g, blocks_grouped'[g][i]>> \notin net'
             /\ decodedeti'[g] # "garbled"
  <2>1. IsInjective(<< >>) /\ DOMAIN << >> = {}
    BY DEF IsInjective
  <2>2. decodedeti'[g] \in {Absent, "intact"}
    BY <1>6, <1>7
  <2>3. QED
    BY <1>3, <1>6, <2>1, <2>2 DEF Absent
<1>9. PICK w \in Seq(Entries) :
        /\ rx_eti_stream' = rx_eti_stream \o w
        /\ \A i \in 1..Len(w) : w[i].data \in Possible(w[i].sn)
  BY <1>6
<1> HIDE DEF Possible
<1>10. ASSUME NEW i \in 1..Len(w) PROVE w[i].data = "intact"
  <2>1. w[i] \in Entries
    BY ElementOfSeq
  <2>2. w[i].sn \in SeqNrs /\ w[i].data \in Frames
    BY <2>1, Zenon DEF Entries
  <2>3. w[i].data \in {Absent, "intact"}
    BY <1>7, <1>9, <2>2
  <2>4. QED
    BY <2>2, <2>3 DEF Frames, Absent
<1>11. QED
  BY <1>6, <1>8, <1>9, <1>10

\* Blocks stay different ones as long as nothing is duplicated.
LEMMA BlocksStayOnce ==
  ASSUME UdpIndInv, [UdpNext]_udpVars
  PROVE  BlocksOnce'
<1> USE UdpAssumption DEF UdpAssumption
<1>1. /\ BlocksOnce /\ dups \in Nat /\ seqnr \in Int
      /\ net \subseteq Packets /\ blocks_grouped \in [SeqNrs -> Seq(BlockNrs)]
      /\ decodedeti \in [SeqNrs -> Frames \cup {Absent}]
  BY DEF UdpIndInv, UdpTypeOK, TypeOK
<1>2. ASSUME net' \subseteq net, dups' = dups, blocks_grouped' = blocks_grouped,
             \A g \in SeqNrs : decodedeti'[g] \in {decodedeti[g], Absent}
      PROVE  BlocksOnce'
  BY <1>1, <1>2 DEF BlocksOnce, Absent
<1>3. CASE SendGroup
  <2>1. /\ net' = net \cup {<<seqnr + 1, bn>> : bn \in BlockNrs}
        /\ sending /\ dups' = dups
        /\ blocks_grouped' = blocks_grouped /\ decodedeti' = decodedeti
    BY <1>3 DEF SendGroup, receiverVars
  <2>2. ASSUME NEW g \in SeqNrs, blocks_grouped[g] # << >> PROVE g # seqnr + 1
    <3>1. g <= seqnr
      BY <2>1, <2>2 DEF UdpIndInv, OnlySent, Sent
    <3>2. QED
      BY <1>1, <3>1
  <2>3. ASSUME NEW g \in SeqNrs, NEW i \in DOMAIN blocks_grouped[g],
               <<g, blocks_grouped[g][i]>> \notin net
        PROVE  <<g, blocks_grouped[g][i]>> \notin net'
    <3>1. DOMAIN << >> = {}
      OBVIOUS
    <3>2. g # seqnr + 1
      BY <2>2, <2>3, <3>1
    <3>3. QED
      BY <2>1, <2>3, <3>2
  <2>4. QED
    BY <1>1, <2>1, <2>3 DEF BlocksOnce
<1>4. CASE EndOfFile \/ UNCHANGED udpVars
  BY <1>2, <1>4 DEF EndOfFile, udpVars, receiverVars, networkVars
<1>5. ASSUME NEW p \in net, Lose(p) PROVE BlocksOnce'
  BY <1>2, <1>5 DEF Lose, receiverVars
<1>6. ASSUME NEW p \in net, DeliverCopy(p) PROVE BlocksOnce'
  BY <1>1, <1>6 DEF DeliverCopy, BlocksOnce
<1>7. ASSUME NEW p \in net, Deliver(p) PROVE BlocksOnce'
  <2>1. net' = net \ {p} /\ dups' = dups /\ Arrive(p)
    BY <1>7 DEF Deliver
  <2>2. CASE Ignore(p[1])
    BY <1>2, <2>1, <2>2 DEF Ignore, receiverVars
  <2>3. CASE Receive(p[1], p[2])
    BY <2>1, <2>3, FirstArrival DEF BlocksOnce
  <2>4. QED
    BY <2>1, <2>2, <2>3 DEF Arrive
<1>8. CASE Continue
  <2>1. \A g \in SeqNrs : decodedeti'[g] \in {decodedeti[g], Absent}
    BY <1>8 DEF Continue, Resume, GiveUp, Without
  <2>2. QED
    BY <1>2, <1>8, <2>1 DEF Continue, Resume, networkVars
<1>9. QED
  BY <1>3, <1>4, <1>5, <1>6, <1>7, <1>8 DEF UdpNext

\* Every step of the composition keeps its invariant.
LEMMA UdpNextIndInv == UdpIndInv /\ [UdpNext]_udpVars => UdpIndInv'
<1> USE UdpAssumption DEF UdpAssumption
<1>1. SUFFICES ASSUME UdpIndInv, [UdpNext]_udpVars PROVE UdpIndInv'
  OBVIOUS
<1>2. IndInv' /\ BlocksOnce'
  BY <1>1, StepIsReceiverStep, NextIndInv, BlocksStayOnce DEF UdpIndInv
<1>3. TypeOK'
  BY <1>2 DEF IndInv
<1>4. /\ seqnr \in 0..(MaxGroups + 1) /\ sending \in BOOLEAN
      /\ net \subseteq Packets /\ lost \in [SeqNrs -> 0..MaxLoss]
      /\ dups \in 0..MaxDup /\ (sending => seqnr <= MaxGroups)
      /\ MaxGroups \in Nat /\ MaxLoss \in Nat /\ MaxDup \in Nat
  BY <1>1 DEF UdpIndInv, UdpTypeOK, OnlySent
<1>5. CASE SendGroup
  <2>1. /\ seqnr' = seqnr + 1 /\ seqnr < MaxGroups
        /\ net' = net \cup {<<seqnr + 1, bn>> : bn \in BlockNrs}
        /\ sending /\ sending' = sending /\ lost' = lost /\ dups' = dups
        /\ blocks_grouped' = blocks_grouped /\ decodedeti' = decodedeti
    BY <1>5 DEF SendGroup, receiverVars
  <2>2. Sent' = seqnr + 1 /\ Sent = seqnr
    BY <2>1 DEF Sent
  <2>3. UdpTypeOK'
    <3>1. net' \subseteq Packets
      BY <1>4, <2>1 DEF Packets
    <3>2. QED
      BY <1>3, <1>4, <2>1, <3>1 DEF UdpTypeOK
  <2>4. OnlySent'
    <3>1. \A q \in net' : q[1] <= Sent'
      <4>1. ASSUME NEW q \in net PROVE q[1] <= Sent'
        <5>1. q[1] \in SeqNrs /\ q[1] <= seqnr
          BY <1>1, <1>4, <2>2 DEF UdpIndInv, OnlySent, Packets
        <5>2. QED
          BY <1>4, <2>2, <5>1
      <4>2. QED
        BY <1>4, <2>1, <2>2, <4>1
    <3>2. ASSUME NEW g \in SeqNrs,
                 blocks_grouped'[g] # << >> \/ decodedeti'[g] # Absent
          PROVE  g <= Sent'
      <4>1. g <= seqnr
        BY <1>1, <2>1, <2>2, <3>2 DEF UdpIndInv, OnlySent
      <4>2. QED
        BY <1>4, <2>2, <4>1
    <3>3. QED
      BY <1>4, <2>1, <3>1, <3>2 DEF OnlySent
  <2>5. QED
    BY <1>2, <2>3, <2>4 DEF UdpIndInv
<1>6. CASE EndOfFile
  <2>1. /\ seqnr' = seqnr + 1 /\ seqnr = MaxGroups /\ sending /\ sending' = FALSE
        /\ net' = net /\ lost' = lost /\ dups' = dups
        /\ blocks_grouped' = blocks_grouped /\ decodedeti' = decodedeti
    BY <1>6 DEF EndOfFile, receiverVars, networkVars
  <2>2. Sent' = Sent
    BY <1>4, <2>1 DEF Sent
  <2>3. UdpTypeOK'
    <3>1. seqnr' \in 0..(MaxGroups + 1) /\ sending' \in BOOLEAN
      <4>1. seqnr' = MaxGroups + 1 /\ MaxGroups \in Nat
        BY <2>1
      <4>2. seqnr' \in 0..(MaxGroups + 1)
        BY <4>1
      <4>3. sending' \in BOOLEAN
        BY <2>1, Zenon
      <4>4. QED
        BY <4>2, <4>3, Zenon
    <3>2. /\ net' \subseteq Packets /\ lost' \in [SeqNrs -> 0..MaxLoss]
          /\ dups' \in 0..MaxDup
      BY <1>4, <2>1, Zenon
    <3>3. QED
      BY <1>3, <3>1, <3>2 DEF UdpTypeOK
  <2>4. OnlySent'
    BY <1>1, <2>1, <2>2 DEF UdpIndInv, OnlySent
  <2>5. QED
    BY <1>2, <2>3, <2>4 DEF UdpIndInv
<1>7. ASSUME NEW p \in net, Deliver(p)
      PROVE  UdpIndInv'
  <2>1. Arrive(p) /\ net' = net \ {p} /\ dups' = dups
    BY <1>7 DEF Deliver
  <2>2. OnlySent'
    BY <1>1, <2>1, ArriveKeepsOnlySent
  <2>3. QED
    BY <1>2, <1>3, <1>4, <2>1, <2>2
       DEF UdpIndInv, UdpTypeOK, Arrive, senderVars
<1>8. ASSUME NEW p \in net, DeliverCopy(p)
      PROVE  UdpIndInv'
  <2>1. Arrive(p) /\ net' = net /\ dups' = dups + 1 /\ dups < MaxDup
    BY <1>8 DEF DeliverCopy
  <2>2. OnlySent'
    BY <1>1, <2>1, ArriveKeepsOnlySent
  <2>3. QED
    BY <1>2, <1>3, <1>4, <2>1, <2>2
       DEF UdpIndInv, UdpTypeOK, Arrive, senderVars
<1>9. ASSUME NEW p \in net, Lose(p)
      PROVE  UdpIndInv'
  <2>1. /\ lost[p[1]] < MaxLoss /\ net' = net \ {p}
        /\ lost' = [lost EXCEPT ![p[1]] = @ + 1]
        /\ seqnr' = seqnr /\ sending' = sending /\ dups' = dups
        /\ blocks_grouped' = blocks_grouped /\ decodedeti' = decodedeti
    BY <1>9 DEF Lose, receiverVars, senderVars
  <2>2. p[1] \in SeqNrs
    BY <1>4 DEF Packets
  <2>3. lost' \in [SeqNrs -> 0..MaxLoss]
    BY <1>4, <2>1, <2>2
  <2>4. UdpTypeOK'
    BY <1>3, <1>4, <2>1, <2>3 DEF UdpTypeOK
  <2>5. OnlySent'
    BY <1>1, <2>1 DEF UdpIndInv, OnlySent, Sent
  <2>6. QED
    BY <1>2, <2>4, <2>5 DEF UdpIndInv
<1>10. CASE Continue
  <2>1. /\ seqnr' = seqnr /\ sending' = sending /\ net' = net /\ lost' = lost
        /\ dups' = dups /\ blocks_grouped' = blocks_grouped
        /\ decodedeti' = Without(decodedeti, {curr_seqnr})
    BY <1>10 DEF Continue, Resume, GiveUp, senderVars, networkVars
  <2>2. OnlySent'
    <3>1. Sent' = Sent
      BY <2>1 DEF Sent
    <3>2. \A g \in SeqNrs : decodedeti'[g] # Absent => decodedeti[g] # Absent
      BY <2>1 DEF Without
    <3>3. QED
      BY <1>1, <2>1, <3>1, <3>2 DEF UdpIndInv, OnlySent
  <2>3. UdpTypeOK'
    BY <1>3, <1>4, <2>1 DEF UdpTypeOK
  <2>4. QED
    BY <1>2, <2>2, <2>3 DEF UdpIndInv
<1>11. CASE UNCHANGED udpVars
  <2>1. OnlySent' /\ UdpTypeOK'
    BY <1>1, <1>3, <1>11
       DEF udpVars, receiverVars, senderVars, networkVars, UdpIndInv,
           UdpTypeOK, OnlySent, Sent
  <2>2. QED
    BY <1>2, <2>1 DEF UdpIndInv
<1>12. QED
  BY <1>1, <1>5, <1>6, <1>7, <1>8, <1>9, <1>10, <1>11 DEF UdpNext

\* The composition starts in its invariant.
LEMMA UdpInitIndInv == UdpInit => UdpIndInv
<1> USE UdpAssumption DEF UdpAssumption
<1>1. SUFFICES ASSUME UdpInit PROVE UdpIndInv
  OBVIOUS
<1>2. IndInv
  BY <1>1, InitIndInv DEF UdpInit
<1>3. UdpTypeOK
  BY <1>1, <1>2 DEF UdpInit, UdpTypeOK, IndInv
<1>4. OnlySent
  BY <1>1 DEF UdpInit, ReceiverInit, OnlySent
<1>5. BlocksOnce
  <2>1. IsInjective(<< >>) /\ DOMAIN << >> = {}
    BY DEF IsInjective
  <2>2. QED
    BY <1>1, <2>1 DEF UdpInit, ReceiverInit, BlocksOnce, Absent
<1>6. QED
  BY <1>2, <1>3, <1>4, <1>5 DEF UdpIndInv

\* The inductive invariant of the composition.
THEOREM UdpInvariant == UdpSpec => []UdpIndInv
<1>1. QED
  BY UdpInitIndInv, UdpNextIndInv, PTL DEF UdpSpec

\* If nothing is duplicated, the receiver never decodes a group from one block
\* twice: the decoder does not raise, and what is written is what was sent,
\* whatever is lost, reordered or given up.
THEOREM UdpIntact == UdpSpec => []IntactWithoutDuplicates
<1> USE UdpAssumption DEF UdpAssumption
<1>1. UdpInit => IntactWithoutDuplicates
  BY EmptySeq DEF UdpInit, ReceiverInit, IntactWithoutDuplicates
<1>2. ASSUME UdpIndInv, IntactWithoutDuplicates, [UdpNext]_udpVars
      PROVE  IntactWithoutDuplicates'
  <2>1. dups \in Nat /\ rx_eti_stream \in Seq(Entries)
    BY <1>2 DEF UdpIndInv, UdpTypeOK, TypeOK, Entries
  <2>2. ASSUME dups' = dups, rx_eti_stream' = rx_eti_stream,
               status' \in {status, "running"}
        PROVE  IntactWithoutDuplicates'
    BY <1>2, <2>2 DEF IntactWithoutDuplicates
  <2>3. ASSUME NEW p \in net, Deliver(p) PROVE IntactWithoutDuplicates'
    <3>1. net' = net \ {p} /\ dups' = dups /\ Arrive(p)
      BY <2>3 DEF Deliver
    <3>2. CASE Ignore(p[1])
      BY <2>2, <3>1, <3>2 DEF Ignore, receiverVars
    <3>3. CASE Receive(p[1], p[2]) /\ dups = 0
      <4>1. PICK w \in Seq(Entries) :
              /\ rx_eti_stream' = rx_eti_stream \o w
              /\ \A i \in 1..Len(w) : w[i].data = "intact"
        BY <1>2, <3>1, <3>3, FirstArrival
      <4>2. status' # "zfec.Error"
        BY <1>2, <3>1, <3>3, FirstArrival
      <4> DEFINE s == rx_eti_stream
      <4>3. /\ Len(s) \in Nat /\ Len(w) \in Nat /\ Len(s \o w) = Len(s) + Len(w)
            /\ \A i \in 1..(Len(s) + Len(w)) :
                 (s \o w)[i] = IF i <= Len(s) THEN s[i] ELSE w[i - Len(s)]
        BY <2>1, LenProperties, ConcatProperties
      <4>4. \A i \in 1..Len(s) : s[i].data = "intact"
        BY <1>2, <3>3 DEF IntactWithoutDuplicates
      <4>5. ASSUME NEW i \in 1..Len(s \o w) PROVE (s \o w)[i].data = "intact"
        <5>1. CASE i <= Len(s)
          BY <4>3, <4>4, <5>1
        <5>2. CASE ~(i <= Len(s))
          <6>1. i - Len(s) \in 1..Len(w)
            BY <4>3, <5>2
          <6>2. QED
            BY <4>1, <4>3, <5>2, <6>1
        <5>3. QED
          BY <5>1, <5>2
      <4>6. QED
        BY <4>1, <4>2, <4>5 DEF IntactWithoutDuplicates
    <3>4. CASE dups # 0
      BY <3>1, <3>4 DEF IntactWithoutDuplicates
    <3>5. QED
      BY <3>1, <3>2, <3>3, <3>4 DEF Arrive
  <2>4. ASSUME NEW p \in net, DeliverCopy(p) PROVE IntactWithoutDuplicates'
    BY <2>1, <2>4 DEF DeliverCopy, IntactWithoutDuplicates
  <2>5. ASSUME NEW p \in net, Lose(p) PROVE IntactWithoutDuplicates'
    BY <2>2, <2>5 DEF Lose, receiverVars
  <2>6. CASE SendGroup \/ EndOfFile \/ UNCHANGED udpVars
    BY <2>2, <2>6 DEF SendGroup, EndOfFile, udpVars, receiverVars, networkVars
  <2>7. CASE Continue
    BY <2>2, <2>7 DEF Continue, Resume, GiveUp, networkVars
  <2>8. QED
    BY <1>2, <2>3, <2>4, <2>5, <2>6, <2>7 DEF UdpNext
<1>3. QED
  BY <1>1, <1>2, UdpInvariant, PTL DEF UdpSpec

\* The composition runs the receiver of module EtiReceiver.
THEOREM UdpRunsReceiver == UdpSpec => ReceiverSpec
<1>1. UdpInit => ReceiverInit
  BY DEF UdpInit
<1>2. UdpIndInv /\ [UdpNext]_udpVars => [ReceiverNext]_receiverVars
  BY StepIsReceiverStep DEF UdpIndInv
<1>3. QED
  BY <1>1, <1>2, UdpInvariant, PTL DEF UdpSpec, ReceiverSpec

\* What an arriving packet adds to the output is a Write of EtiStream.
LEMMA ArriveRefines ==
  ASSUME UdpIndInv, NEW p \in net, Arrive(p)
  PROVE  [Stream!Next]_<<Sent, WrittenGroups>>
<1>1. p[1] \in SeqNrs /\ p[2] \in BlockNrs /\ p[1] <= Sent
  BY DEF UdpIndInv, UdpTypeOK, OnlySent, Packets
<1>2. Sent' = Sent
  BY DEF Arrive, senderVars, Sent
<1>3. CASE Ignore(p[1])
  BY <1>2, <1>3 DEF Ignore, receiverVars, WrittenGroups
<1>4. CASE Receive(p[1], p[2])
  <2>1. PICK start \in Int, next \in Int : \E w : OutputGrows(p[1], start, next, w)
    BY <1>1, <1>4, ReceiveEffect DEF UdpIndInv, EffectOf
  <2>. PICK w : OutputGrows(p[1], start, next, w)
    BY <2>1
  <2>2. /\ curr_seqnr \in Nat \cup {-1} /\ rx_eti_stream \in Seq(Entries)
        /\ WrittenPassed
    BY DEF UdpIndInv, IndInv, TypeOK, Entries
  <2>3. /\ curr_seqnr <= start /\ start <= next
        /\ w \in Seq(Entries) /\ Len(w) = next - start
        /\ \A i \in 1..(next - start) : w[i].sn = start + i - 1
        /\ rx_eti_stream' = rx_eti_stream \o w
        /\ \A g \in start..(next - 1) :
             g \in SeqNrs /\ (decodedeti[g] # Absent \/ g = p[1])
    BY <2>1 DEF OutputGrows, IsRun
  <2> DEFINE s == rx_eti_stream
             n == next - start
             run == [i \in 1..n |-> start + i - 1]
  <2>4. n \in Nat /\ Len(s) \in Nat
    BY <2>2, <2>3, LenProperties
  <2>5. /\ Len(s \o w) = Len(s) + n
        /\ \A i \in 1..(Len(s) + n) :
             (s \o w)[i] = IF i <= Len(s) THEN s[i] ELSE w[i - Len(s)]
    <3>1. s \in Seq(Entries) /\ w \in Seq(Entries) /\ Len(w) = n
      BY <2>2, <2>3
    <3> HIDE DEF s, n
    <3>2. /\ Len(s \o w) = Len(s) + Len(w)
          /\ \A i \in 1..(Len(s) + Len(w)) :
               (s \o w)[i] = IF i <= Len(s) THEN s[i] ELSE w[i - Len(s)]
      BY <3>1, ConcatProperties
    <3>3. QED
      BY <3>1, <3>2
  <2>6. \A i \in 1..Len(s) : s[i].sn \in SeqNrs /\ s[i].sn < curr_seqnr
    <3>1. SUFFICES ASSUME NEW i \in 1..Len(s)
                   PROVE  s[i].sn \in SeqNrs /\ s[i].sn < curr_seqnr
      OBVIOUS
    <3>2. s[i] \in Entries
      BY <2>2, ElementOfSeq
    <3>3. s[i].sn \in SeqNrs
      BY <3>2, Zenon DEF Entries
    <3>4. QED
      BY <2>2, <3>3 DEF WrittenPassed
  <2>7. WrittenGroups \in Seq(Int) /\ Len(WrittenGroups) = Len(s)
    <3>1. SeqNrs \subseteq Int
      BY ReceiverAssumption DEF ReceiverAssumption
    <3>2. WrittenGroups \in [1..Len(s) -> Int]
      BY <2>6, <3>1 DEF WrittenGroups
    <3>3. QED
      BY <2>4, <3>2 DEF WrittenGroups
  <2>8. run \in Seq(Int) /\ Len(run) = n
    BY <2>4
  <2>9. WrittenGroups' = WrittenGroups \o run
    <3> DEFINE c == s \o w
               r == WrittenGroups \o run
    <3>1. WrittenGroups' = [i \in 1..Len(c) |-> c[i].sn]
      BY <2>3 DEF WrittenGroups
    <3>2. /\ r \in Seq(Int) /\ Len(r) = Len(s) + n
          /\ \A i \in 1..(Len(s) + n) :
               r[i] = IF i <= Len(s) THEN WrittenGroups[i] ELSE run[i - Len(s)]
      <4> HIDE DEF run, n, s
      <4>1. /\ r \in Seq(Int) /\ Len(r) = Len(WrittenGroups) + Len(run)
            /\ \A i \in 1..(Len(WrittenGroups) + Len(run)) :
                 r[i] = IF i <= Len(WrittenGroups) THEN WrittenGroups[i]
                        ELSE run[i - Len(WrittenGroups)]
        BY <2>7, <2>8, ConcatProperties
      <4>2. QED
        BY <2>7, <2>8, <4>1
    <3>3. ASSUME NEW i \in 1..(Len(s) + n)
          PROVE  c[i].sn = r[i]
      <4>1. CASE i <= Len(s)
        BY <2>4, <2>5, <3>2, <4>1 DEF WrittenGroups
      <4>2. CASE ~(i <= Len(s))
        <5>1. i - Len(s) \in 1..n
          BY <2>4, <4>2
        <5>2. c[i].sn = w[i - Len(s)].sn /\ r[i] = run[i - Len(s)]
          BY <2>5, <3>2, <4>2
        <5>3. QED
          BY <2>3, <5>1, <5>2
      <4>3. QED
        BY <4>1, <4>2
    <3>4. /\ WrittenGroups' = [i \in 1..(Len(s) + n) |-> r[i]]
      BY <2>5, <3>1, <3>3
    <3> HIDE DEF r, c
    <3>5. r = [i \in 1..(Len(s) + n) |-> r[i]]
      <4>1. r \in [1..Len(r) -> Int]
        BY <3>2, LenProperties
      <4>2. QED
        BY <3>2, <4>1
    <3>6. QED
      BY <3>4, <3>5 DEF r
  <2>10. CASE n = 0
    <3>1. run = << >>
      BY <2>8, <2>10, EmptySeq
    <3>2. WrittenGroups' = WrittenGroups
      BY <2>7, <2>9, <3>1, ConcatEmptySeq
    <3>3. QED
      BY <1>2, <3>2
  <2>11. CASE n # 0
    <3> DEFINE last == next - 1
    <3>1. start \in start..last /\ last \in start..last
      BY <2>3, <2>11
    <3>2. start \in SeqNrs /\ last \in SeqNrs /\ start <= last
      BY <2>3, <3>1
    <3>3. last <= Sent
      BY <1>1, <2>3, <3>1 DEF UdpIndInv, OnlySent
    <3>4. Sent \in Int
      BY UdpAssumption DEF UdpAssumption, UdpIndInv, UdpTypeOK, Sent
    <3>5. start \in 1..Sent /\ last \in start..Sent
      BY <3>2, <3>3, <3>4, UdpAssumption DEF UdpAssumption
    <3>6. WrittenGroups # << >> =>
            WrittenGroups[Len(WrittenGroups)] < start
      <4>1. SUFFICES ASSUME WrittenGroups # << >>
                     PROVE  WrittenGroups[Len(WrittenGroups)] < start
        OBVIOUS
      <4>2. Len(s) \in 1..Len(s)
        BY <2>4, <2>7, <4>1, EmptySeq
      <4>3. WrittenGroups[Len(s)] = s[Len(s)].sn
        BY <4>2 DEF WrittenGroups
      <4>4. s[Len(s)].sn \in SeqNrs /\ s[Len(s)].sn < curr_seqnr
        BY <2>6, <4>2
      <4> DEFINE x == s[Len(s)].sn
      <4>5. x \in Int /\ x < curr_seqnr
        BY <4>4, UdpAssumption DEF UdpAssumption
      <4> HIDE DEF x
      <4>6. x < start
        BY <2>2, <2>3, <4>5
      <4>7. QED
        BY <2>7, <4>3, <4>6 DEF x
    <3>7. last - start + 1 = n
      BY <2>3
    <3>8. WrittenGroups' =
            WrittenGroups \o [i \in 1..(last - start + 1) |-> start + i - 1]
      BY <2>9, <3>7
    <3> HIDE DEF last
    <3>9. Stream!Write
      BY <1>2, <3>5, <3>6, <3>8 DEF Stream!Write
    <3>10. QED
      BY <3>9 DEF Stream!Next
  <2>12. QED
    BY <2>10, <2>11
<1>5. QED
  BY <1>3, <1>4 DEF Arrive

\* The transport implements the ordered stream of EtiStream.
THEOREM UdpImplementsStream == UdpSpec => ImplementsStream
<1>1. UdpInit => Stream!Init
  BY EmptySeq DEF UdpInit, ReceiverInit, Stream!Init, Sent, WrittenGroups
<1>2. ASSUME UdpIndInv, [UdpNext]_udpVars
      PROVE  [Stream!Next]_<<Sent, WrittenGroups>>
  <2>1. ASSUME NEW p \in net, Deliver(p) \/ DeliverCopy(p)
        PROVE  [Stream!Next]_<<Sent, WrittenGroups>>
    BY <1>2, <2>1, ArriveRefines DEF Deliver, DeliverCopy
  <2>2. ASSUME rx_eti_stream' = rx_eti_stream, Sent' = Sent
        PROVE  [Stream!Next]_<<Sent, WrittenGroups>>
    BY <2>2 DEF WrittenGroups
  <2>3. ASSUME NEW p \in net, Lose(p)
        PROVE  [Stream!Next]_<<Sent, WrittenGroups>>
    BY <2>2, <2>3 DEF Lose, receiverVars, senderVars, Sent
  <2>4. CASE Continue
    BY <2>2, <2>4 DEF Continue, Resume, senderVars, Sent
  <2>5. CASE UNCHANGED udpVars
    BY <2>2, <2>5 DEF udpVars, receiverVars, senderVars, Sent
  <2>6. CASE EndOfFile
    <3>1. seqnr \in Int
      BY <1>2, UdpAssumption DEF UdpAssumption, UdpIndInv, UdpTypeOK
    <3>2. QED
      BY <2>2, <2>6, <3>1 DEF EndOfFile, receiverVars, Sent
  <2>7. CASE SendGroup
    <3>1. Sent' = Sent + 1 /\ WrittenGroups' = WrittenGroups
      BY <2>7 DEF SendGroup, receiverVars, Sent, WrittenGroups
    <3>2. QED
      BY <3>1 DEF Stream!Send, Stream!Next
  <2>8. QED
    BY <1>2, <2>1, <2>3, <2>4, <2>5, <2>6, <2>7 DEF UdpNext
<1>3. QED
  BY <1>1, <1>2, UdpInvariant, PTL
     DEF UdpSpec, ImplementsStream, Stream!Spec, Stream!streamVars

----------------------------------------------------------------------------
(* The reader of the sender's input file                                   *)

\* Where the first frame of a file may begin.
FirstBegin(n) ==
  \/ kind = "STREAMED" /\ n = 0
  \/ kind = "FRAMED" /\ n = 4
  \/ kind = "RAW" /\ n \in Junk

ReaderTypes ==
  /\ kind \in {"RAW", "STREAMED", "FRAMED"}
  /\ file \in Seq([begin : Nat, end : Nat])
  /\ etiSize \in Nat /\ etiFd \in Nat
  /\ frames \in Seq(Nat \X Nat)
  /\ etiStatus \in {"new", "written", "open", "reading", "EtiReaderException",
                    "struct.error"}

\* The frames of the file lie one behind the other.
Laid ==
  /\ \A i \in 1..Len(file) :
       /\ file[i].end - file[i].begin - Prefix \in 4..RawFrame
       /\ kind = "RAW" => file[i].end - file[i].begin = RawFrame
       /\ i > 1 => file[i].begin = file[i - 1].end
       /\ i = 1 => FirstBegin(file[i].begin)
  /\ \A i, j \in 1..Len(file) : i < j => file[i].end <= file[j].begin

\* The file ends with its last frame; once closed, within it and not before its
\* sync.
EndsInLast ==
  /\ etiStatus = "new" => file = << >>
  /\ etiStatus = "written" =>
       IF file = << >> THEN FirstBegin(etiSize) ELSE etiSize = file[Len(file)].end
  /\ etiStatus \notin {"new", "written"} =>
       /\ file # << >> /\ etiSize <= file[Len(file)].end
       /\ file[Len(file)].begin + Prefix < etiSize
  /\ etiStatus \in {"new", "written", "open"} => frames = << >>

\* The reader is at the frame after those it has returned.
AtNextFrame ==
  etiStatus = "reading" =>
    /\ fmt = kind /\ Len(frames) <= Len(file)
    /\ etiFd = IF Len(frames) < Len(file) THEN file[Len(frames) + 1].begin
               ELSE etiSize

ReaderInv ==
  ReaderTypes /\ Laid /\ EndsInLast /\ AtNextFrame /\ FramesReadInOrder

LEMMA FileTypes ==
  ASSUME ReaderTypes
  PROVE  /\ Len(file) \in Nat /\ (file = << >> <=> Len(file) = 0)
         /\ \A i \in 1..Len(file) : file[i].begin \in Nat /\ file[i].end \in Nat
         /\ Len(frames) \in Nat /\ DOMAIN file = 1..Len(file)
         /\ DOMAIN frames = 1..Len(frames)
         /\ Prefix = IF kind = "RAW" THEN 0 ELSE 2
<1>1. file \in Seq([begin : Nat, end : Nat]) /\ frames \in Seq(Nat \X Nat)
  BY DEF ReaderTypes
<1>2. /\ Len(file) \in Nat /\ DOMAIN file = 1..Len(file)
      /\ Len(frames) \in Nat /\ DOMAIN frames = 1..Len(frames)
  BY <1>1, LenProperties
<1>3. file = << >> <=> Len(file) = 0
  BY <1>1, EmptySeq
<1>4. \A i \in 1..Len(file) : file[i] \in [begin : Nat, end : Nat]
  BY <1>1, ElementOfSeq
<1>5. QED
  BY <1>2, <1>3, <1>4 DEF Prefix

LEMMA AppendLast ==
  ASSUME NEW S, NEW s \in Seq(S), NEW e \in S
  PROVE  /\ Append(s, e) \in Seq(S) /\ Append(s, e) # << >>
         /\ Len(Append(s, e)) = Len(s) + 1 /\ Len(s) \in Nat
         /\ \A i \in 1..Len(s) : Append(s, e)[i] = s[i]
         /\ Append(s, e)[Len(s) + 1] = e
<1>1. /\ Append(s, e) \in Seq(S) /\ Len(Append(s, e)) = Len(s) + 1 /\ Len(s) \in Nat
      /\ \A i \in 1..Len(s) : Append(s, e)[i] = s[i]
      /\ Append(s, e)[Len(s) + 1] = e
  BY AppendProperties, LenProperties
<1>2. Append(s, e) # << >>
  BY <1>1, EmptySeq
<1>3. QED
  BY <1>1, <1>2

LEMMA ReaderInitial == ReaderInit => ReaderInv
<1> SUFFICES ASSUME ReaderInit PROVE ReaderInv
  OBVIOUS
<1>1. ReaderTypes
  BY EmptySeq DEF ReaderInit, ReaderTypes
<1>2. Len(file) = 0 /\ Len(frames) = 0 /\ DOMAIN frames = {}
  BY EmptySeq DEF ReaderInit
<1>3. Laid
  BY <1>2 DEF Laid
<1>4. EndsInLast /\ AtNextFrame /\ FramesReadInOrder
  BY <1>2 DEF ReaderInit, EndsInLast, AtNextFrame, FramesReadInOrder
<1>5. QED
  BY <1>1, <1>3, <1>4 DEF ReaderInv

\* The writer.
LEMMA CreateKeeps ==
  ASSUME ReaderInv, NEW junk, NEW k,
         (k = "RAW" /\ junk \in Junk) \/ k \in {"STREAMED", "FRAMED"}, Create(k, junk)
  PROVE  ReaderInv'
<1>1. /\ etiStatus = "new" /\ etiStatus' = "written" /\ kind' = k
      /\ etiSize' = IF k = "FRAMED" THEN 4 ELSE IF k = "RAW" THEN junk ELSE 0
      /\ UNCHANGED <<file, etiFd, fmt, frames>>
  BY DEF Create
<1>2. file = << >> /\ frames = << >> /\ Len(file) = 0 /\ DOMAIN frames = {}
  BY <1>1, FileTypes, EmptySeq DEF ReaderInv, EndsInLast
<1>3. etiSize' \in Nat
  BY <1>1, EtiReaderAssumption
<1>4. ReaderTypes'
  BY <1>1, <1>3 DEF ReaderInv, ReaderTypes
<1>5. Laid'
  BY <1>1, <1>2 DEF Laid
<1>6. EndsInLast' /\ AtNextFrame' /\ FramesReadInOrder'
  BY <1>1, <1>2 DEF EndsInLast, FirstBegin, AtNextFrame, FramesReadInOrder
<1>7. QED
  BY <1>4, <1>5, <1>6 DEF ReaderInv

LEMMA WriteKeeps ==
  ASSUME ReaderInv, NEW length \in FrameSizes \cup {RawFrame}, Write(length)
  PROVE  ReaderInv'
<1> DEFINE new == [begin |-> etiSize, end |-> etiSize']
<1>1. /\ etiStatus = "written"
      /\ kind = "RAW" => length = RawFrame
      /\ etiSize' = etiSize + Prefix + length
      /\ file' = Append(file, new)
      /\ UNCHANGED <<kind, etiFd, fmt, frames, etiStatus>>
  BY DEF Write
<1>2. ReaderTypes /\ Laid /\ EndsInLast
  BY DEF ReaderInv
<1>3. length \in 4..RawFrame /\ length \in Nat /\ RawFrame \in Nat
  BY EtiReaderAssumption
<1>4. PICK p \in {0, 2} : p = Prefix /\ p = Prefix'
  BY <1>1, <1>2, FileTypes DEF Prefix
<1>5. etiSize \in Nat /\ etiSize' \in Nat /\ new \in [begin : Nat, end : Nat]
  <2>1. etiSize \in Nat
    BY <1>2 DEF ReaderTypes
  <2>2. etiSize' = etiSize + p + length /\ p \in Nat
    BY <1>1, <1>4
  <2>3. etiSize' \in Nat
    BY <1>3, <2>1, <2>2
  <2>4. QED
    BY <2>1, <2>3
<1>6. PICK n \in Nat : n = Len(file)
  BY <1>2, FileTypes
<1>7. /\ file' \in Seq([begin : Nat, end : Nat]) /\ file' # << >>
      /\ Len(file') = n + 1 /\ file'[n + 1] = new
      /\ \A i \in 1..n : file'[i] = file[i]
  <2> HIDE DEF new
  <2>1. file \in Seq([begin : Nat, end : Nat])
    BY <1>2 DEF ReaderTypes
  <2>2. QED
    BY <1>1, <1>5, <1>6, <2>1, AppendLast
<1> HIDE DEF new
<1>8. new.begin = etiSize /\ new.end = etiSize + p + length
  BY <1>1, <1>4 DEF new
<1>9. ReaderTypes'
  BY <1>1, <1>2, <1>5, <1>7 DEF ReaderTypes
<1>10. n > 0 => etiSize = file[n].end
  BY <1>1, <1>2, <1>6, FileTypes DEF EndsInLast
<1>11. n = 0 => FirstBegin(etiSize)
  BY <1>1, <1>2, <1>6, FileTypes DEF EndsInLast
<1>12. \A i \in 1..n :
         /\ file[i].begin \in Nat /\ file[i].end \in Nat
         /\ file[i].end - file[i].begin - p \in 4..RawFrame
  BY <1>2, <1>4, <1>6, FileTypes DEF Laid
<1>13. \A i, j \in 1..n : i < j => file[i].end <= file[j].begin
  BY <1>2, <1>6 DEF Laid
<1>14. Laid'
  <2>1. ASSUME NEW i \in 1..(n + 1)
        PROVE  /\ file'[i].end - file'[i].begin - p \in 4..RawFrame
               /\ kind = "RAW" => file'[i].end - file'[i].begin = RawFrame
               /\ i > 1 => file'[i].begin = file'[i - 1].end
               /\ i = 1 => FirstBegin(file'[i].begin)
    <3>1. CASE i \in 1..n
      <4>1. file'[i] = file[i] /\ (i > 1 => i - 1 \in 1..n /\ file'[i - 1] = file[i - 1])
        BY <1>7, <3>1
      <4>2. QED
        BY <1>2, <1>4, <1>6, <3>1, <4>1 DEF Laid
    <3>2. CASE i = n + 1
      <4>1. file'[i] = new /\ (i > 1 => n \in 1..n /\ file'[i - 1] = file[n])
        BY <1>7, <3>2
      <4>2. kind = "RAW" => p = 0 /\ length = RawFrame
        BY <1>1, <1>4 DEF Prefix
      <4>3. QED
        BY <1>3, <1>5, <1>8, <1>10, <1>11, <3>2, <4>1, <4>2
    <3>3. QED
      BY <3>1, <3>2
  <2>2. ASSUME NEW i \in 1..(n + 1), NEW j \in 1..(n + 1), i < j
        PROVE  file'[i].end <= file'[j].begin
    <3>1. CASE j \in 1..n
      <4>1. i \in 1..n
        BY <2>2, <3>1
      <4>2. QED
        BY <1>7, <1>13, <2>2, <3>1, <4>1
    <3>2. CASE j = n + 1
      <4>1. i \in 1..n /\ n \in 1..n
        BY <2>2, <3>2
      <4>2. file'[i] = file[i] /\ file'[j].begin = etiSize /\ etiSize = file[n].end
        BY <1>7, <1>8, <1>10, <3>2, <4>1
      <4>3. CASE i = n
        BY <1>5, <4>2, <4>3
      <4>4. CASE i # n
        <5>1. i < n
          BY <4>1, <4>4
        <5>2. file[i].end <= file[n].begin
          BY <1>13, <4>1, <5>1
        <5>3. file[n].begin <= file[n].end
          BY <1>4, <1>12, <4>1, EtiReaderAssumption
        <5>4. QED
          BY <1>12, <4>1, <4>2, <5>2, <5>3
      <4>5. QED
        BY <4>3, <4>4
    <3>3. QED
      BY <3>1, <3>2
  <2>3. \A m : FirstBegin(m)' <=> FirstBegin(m)
    BY <1>1 DEF FirstBegin
  <2>4. QED
    BY <1>1, <1>4, <1>7, <2>1, <2>2, <2>3 DEF Laid
<1>15. EndsInLast' /\ AtNextFrame'
  BY <1>1, <1>2, <1>7, <1>8, <1>4, <1>6 DEF EndsInLast, AtNextFrame
<1>16. FramesReadInOrder'
  <2>1. DOMAIN frames' = {}
    BY <1>1, <1>2, EmptySeq DEF EndsInLast
  <2>2. QED
    BY <1>1, <2>1 DEF FramesReadInOrder
<1>17. QED
  BY <1>9, <1>14, <1>15, <1>16 DEF ReaderInv

LEMMA CloseKeeps ==
  ASSUME ReaderInv, NEW cut \in 0..MaxEtiCut, Close(cut)
  PROVE  ReaderInv'
<1>1. /\ etiStatus = "written" /\ etiStatus' = "open" /\ file # << >>
      /\ file[Len(file)].begin + Prefix < etiSize - cut
      /\ etiSize' = etiSize - cut
      /\ UNCHANGED <<kind, file, etiFd, fmt, frames>>
  BY DEF Close
<1>2. ReaderTypes /\ Laid /\ EndsInLast
  BY DEF ReaderInv
<1>3. PICK p \in {0, 2} : p = Prefix /\ p = Prefix'
  BY <1>1, <1>2, FileTypes DEF Prefix
<1>4. PICK n \in Nat : n = Len(file) /\ n \in 1..Len(file)
  <2>1. Len(file) \in Nat /\ Len(file) # 0
    BY <1>1, <1>2, FileTypes
  <2>2. QED
    BY <2>1
<1>5. /\ file[n].begin \in Nat /\ file[n].end \in Nat /\ etiSize \in Nat
      /\ etiSize = file[n].end /\ cut \in Nat
  BY <1>1, <1>2, <1>4, FileTypes, EtiReaderAssumption DEF EndsInLast, ReaderTypes
<1>6. etiSize' \in Nat /\ etiSize' <= file[n].end /\ file[n].begin + p < etiSize'
  BY <1>1, <1>3, <1>4, <1>5
<1>7. ReaderTypes'
  BY <1>1, <1>2, <1>6 DEF ReaderTypes
<1>8. Laid'
  BY <1>1, <1>2, <1>3 DEF Laid, FirstBegin
<1>9. EndsInLast' /\ AtNextFrame'
  BY <1>1, <1>2, <1>3, <1>4, <1>6 DEF EndsInLast, AtNextFrame
<1>10. FramesReadInOrder'
  <2>1. DOMAIN frames' = {}
    BY <1>1, <1>2, EmptySeq DEF EndsInLast
  <2>2. QED
    BY <1>1, <2>1 DEF FramesReadInOrder
<1>11. QED
  BY <1>7, <1>8, <1>9, <1>10 DEF ReaderInv

\* The first sync is that of the first frame, and its place tells the kind.
LEMMA DiscoverKeeps ==
  ASSUME ReaderInv, Discover
  PROVE  ReaderInv'
<1> DEFINE places == {i \in 0..(etiSize - 4) : check_sync(i)}
           first == CHOOSE p \in places : \A q \in places : p <= q
<1>1. /\ etiStatus = "open" /\ UNCHANGED <<kind, file, etiSize, frames>>
      /\ IF places = {}
           THEN etiStatus' = "struct.error" /\ UNCHANGED <<etiFd, fmt>>
           ELSE /\ fmt' = CASE first = 2 -> "STREAMED"
                            [] first = 6 -> "FRAMED"
                            [] OTHER -> "RAW"
                /\ etiFd' = IF first = 6 THEN 4 ELSE IF first = 2 THEN 0 ELSE first
                /\ etiStatus' = "reading"
  BY DEF Discover
<1>2. ReaderTypes /\ Laid /\ EndsInLast
  BY DEF ReaderInv
<1>3. /\ Len(frames) = 0 /\ DOMAIN frames = {} /\ 1 \in 1..Len(file) /\ 0 < Len(file)
      /\ etiSize \in Nat /\ Len(file) \in Nat
  BY <1>1, <1>2, FileTypes, EmptySeq DEF EndsInLast, ReaderTypes
<1>4. PICK p \in {0, 2} : p = Prefix /\ p = Prefix'
  BY <1>1, <1>2, FileTypes DEF Prefix
<1>5. PICK b \in Nat : b = file[1].begin
  BY <1>2, <1>3, FileTypes
<1>6. \A f \in 1..Len(file) : file[f].begin \in Nat /\ b <= file[f].begin
  <2>1. SUFFICES ASSUME NEW f \in 1..Len(file), f # 1
                 PROVE  b <= file[f].begin
    BY <1>2, <1>5, FileTypes
  <2>2. file[1].end <= file[f].begin /\ file[1].end - file[1].begin - p \in 4..RawFrame
    BY <1>2, <1>3, <1>4, <2>1 DEF Laid
  <2>3. PICK e \in Nat, c \in Nat : e = file[1].end /\ c = file[f].begin
    BY <1>2, <1>3, FileTypes
  <2>4. e <= c /\ e - b - p \in 4..RawFrame /\ RawFrame \in Nat
    BY <1>5, <2>2, <2>3, EtiReaderAssumption
  <2>5. p \in Nat /\ b \in Nat
    BY <1>4, <1>5
  <2>6. 4 <= e - b - p
    BY <2>3, <2>4, <2>5
  <2>7. e <= c
    BY <2>4
  <2>8. b <= c
    BY <2>3, <2>5, <2>6, <2>7
  <2>9. QED
    BY <2>3, <2>8
<1>7. \A q \in places : q \in Nat /\ b + p <= q /\ q + 4 <= etiSize
  <2>1. SUFFICES ASSUME NEW q \in places PROVE q \in Nat /\ b + p <= q /\ q + 4 <= etiSize
    OBVIOUS
  <2>2. PICK f \in 1..Len(file) : q = file[f].begin + p
    BY <1>2, <1>4, FileTypes DEF check_sync, IsSync, Frame
  <2>3. q \in 0..(etiSize - 4)
    BY <2>1
  <2>4. PICK c \in Nat : c = file[f].begin /\ b <= c
    BY <1>6
  <2>5. q = c + p
    BY <2>2, <2>4
  <2>6. etiSize \in Nat /\ p \in Nat
    BY <1>3
  <2>7. q \in Nat /\ q + 4 <= etiSize
    BY <2>3, <2>6
  <2>8. b + p <= q
    BY <2>4, <2>5, <2>6
  <2>9. QED
    BY <2>7, <2>8
<1>8. b + p + 4 <= etiSize => b + p \in places
  <2>1. check_sync(b + p)
    BY <1>2, <1>3, <1>4, <1>5, FileTypes DEF check_sync, IsSync, Frame
  <2>2. QED
    BY <1>3, <1>4, <1>5, <2>1
<1>9. FirstBegin(b)
  BY <1>2, <1>3, <1>5 DEF Laid
<1> HIDE DEF places, first
<1>10. ReaderTypes' /\ Laid'
  <2>1. etiFd' \in Nat
    <3>1. places # {} => b + p + 4 <= etiSize
      BY <1>3, <1>4, <1>5, <1>7
    <3>2. places # {} => first \in Nat
      <4>1. SUFFICES ASSUME places # {} PROVE first \in Nat
        OBVIOUS
      <4>2. \A q \in places : b + p <= q
        BY <1>7
      <4>3. b + p \in places
        BY <1>8, <3>1, <4>1
      <4>4. first \in places
        BY <4>2, <4>3 DEF first
      <4>5. QED
        BY <1>7, <4>4
    <3>3. QED
      BY <1>1, <1>2, <3>2 DEF ReaderTypes
  <2>2. QED
    BY <1>1, <1>2, <1>4, <2>1 DEF ReaderTypes, Laid, FirstBegin
<1>11. CASE places = {}
  <2>1. etiStatus' = "struct.error"
    BY <1>1, <1>11
  <2>2. etiSize < b + p + 4
    BY <1>3, <1>4, <1>5, <1>8, <1>11
  <2>3. EndsInLast' /\ AtNextFrame' /\ FramesReadInOrder'
    BY <1>1, <1>2, <1>3, <1>4, <1>5, <2>1, <2>2
    DEF EndsInLast, AtNextFrame, FramesReadInOrder
  <2>4. QED
    BY <1>10, <2>3 DEF ReaderInv
<1>12. CASE places # {}
  <2>1. b + p + 4 <= etiSize /\ b + p \in places
    BY <1>3, <1>4, <1>5, <1>7, <1>8, <1>12
  <2>2. first \in places /\ \A q \in places : first <= q
    <3>1. \A q \in places : b + p <= q
      BY <1>7
    <3>2. QED
      BY <2>1, <3>1 DEF first
  <2>3. first = b + p
    <3>1. first <= b + p /\ b + p <= first /\ first \in Nat
      BY <1>7, <2>1, <2>2
    <3>2. QED
      BY <1>4, <1>5, <3>1
  <2>4. fmt' = kind /\ etiFd' = b
    <3>1. CASE kind = "RAW"
      <4>1. p = 0 /\ b \in Junk
        BY <1>4, <1>9, <3>1 DEF Prefix, FirstBegin
      <4>2. b # 2 /\ b # 6
        BY <4>1, EtiReaderAssumption
      <4>3. QED
        BY <1>1, <1>5, <1>12, <2>3, <3>1, <4>1, <4>2
    <3>2. CASE kind # "RAW"
      <4>1. p = 2
        BY <1>4, <3>2 DEF Prefix
      <4>2. CASE kind = "STREAMED" /\ b = 0
        BY <1>1, <1>12, <2>3, <4>1, <4>2
      <4>3. CASE kind = "FRAMED" /\ b = 4
        BY <1>1, <1>12, <2>3, <4>1, <4>3
      <4>4. QED
        BY <1>9, <3>2, <4>2, <4>3 DEF FirstBegin
    <3>3. QED
      BY <3>1, <3>2
  <2>5. etiStatus' = "reading"
    BY <1>1, <1>12
  <2>6. EndsInLast' /\ AtNextFrame' /\ FramesReadInOrder'
    BY <1>1, <1>2, <1>3, <1>4, <1>5, <2>4, <2>5
    DEF EndsInLast, AtNextFrame, FramesReadInOrder
  <2>7. QED
    BY <1>10, <2>6 DEF ReaderInv
<1>13. QED
  BY <1>11, <1>12

\* Reading.  Only the last frame may reach beyond the end of the file.
LEMMA NextFrame ==
  ASSUME ReaderInv, etiStatus = "reading", Len(frames) < Len(file)
  PROVE  LET n == Len(frames) + 1
         IN /\ n \in 1..Len(file) /\ etiFd = file[n].begin
            /\ file[n].begin \in Nat /\ file[n].end \in Nat
            /\ file[n].begin + Prefix < etiSize
            /\ file[n].end - file[n].begin - Prefix \in 4..RawFrame
            /\ n < Len(file) => file[n].end = file[n + 1].begin /\ file[n].end < etiSize
            /\ n = Len(file) => etiSize <= file[n].end
<1>1. ReaderTypes /\ Laid /\ EndsInLast
  BY DEF ReaderInv
<1>2. PICK n \in Nat, l \in Nat : n = Len(frames) + 1 /\ l = Len(file) /\ n \in 1..l
  <2>1. Len(frames) \in Nat /\ Len(file) \in Nat
    BY <1>1, FileTypes
  <2>2. Len(frames) + 1 \in Nat /\ Len(frames) + 1 \in 1..Len(file)
    BY <2>1
  <2>3. QED
    BY <2>1, <2>2
<1>3. PICK p \in {0, 2} : p = Prefix
  BY <1>1, FileTypes
<1>4. /\ etiFd = file[n].begin
      /\ file[l].begin + p < etiSize /\ etiSize <= file[l].end /\ etiSize \in Nat
  BY <1>1, <1>2, <1>3 DEF ReaderInv, AtNextFrame, EndsInLast, ReaderTypes
<1>5. /\ file[n].begin \in Nat /\ file[n].end \in Nat /\ file[l].begin \in Nat
      /\ file[n].end - file[n].begin - p \in 4..RawFrame /\ RawFrame \in Nat
  BY <1>1, <1>2, <1>3, FileTypes, EtiReaderAssumption DEF Laid
<1>6. CASE n = l
  BY <1>2, <1>3, <1>4, <1>5, <1>6
<1>7. CASE n # l
  <2>1. n < l /\ n + 1 \in 1..l /\ n + 1 > 1 /\ (n + 1) - 1 = n
    BY <1>2, <1>7
  <2>2. file[n].end = file[n + 1].begin
    BY <1>1, <1>2, <2>1 DEF Laid
  <2>3. file[n].end <= file[l].begin
    BY <1>1, <1>2, <2>1 DEF Laid
  <2>4. file[n].end < etiSize /\ file[n].begin + p < etiSize
    <3>1. PICK b \in Nat, e \in Nat, c \in Nat, s \in Nat :
               /\ b = file[n].begin /\ e = file[n].end /\ c = file[l].begin
               /\ s = etiSize
      BY <1>4, <1>5
    <3>2. e - b - p \in 4..RawFrame /\ c + p < s /\ e <= c
      BY <1>4, <1>5, <2>3, <3>1
    <3>3. e < s /\ b + p < s
      BY <1>3, <1>5, <3>2
    <3>4. QED
      BY <3>1, <3>3
  <2>5. QED
    BY <1>2, <1>3, <1>4, <1>5, <2>1, <2>2, <2>4
<1>8. QED
  BY <1>6, <1>7

\* Returning the frame that is next, up to the end of the file.
LEMMA ReturnKeeps ==
  ASSUME ReaderInv, etiStatus = "reading", Len(frames) < Len(file), NEW to,
         LET end == file[Len(frames) + 1].end
         IN to = IF end < etiSize THEN end ELSE etiSize,
         Return(to), UNCHANGED <<kind, file, etiSize, fmt>>
  PROVE  ReaderInv'
<1>1. /\ frames' = Append(frames, <<etiFd, to>>) /\ etiFd' = to
      /\ etiStatus' = "reading" /\ UNCHANGED <<kind, file, etiSize, fmt>>
  BY DEF Return
<1>2. ReaderTypes /\ Laid /\ EndsInLast /\ AtNextFrame /\ FramesReadInOrder
  BY DEF ReaderInv
<1>3. PICK n \in Nat, l \in Nat : n = Len(frames) /\ l = Len(file) /\ n < l
  BY <1>2, FileTypes
<1>4. /\ etiFd = file[n + 1].begin /\ etiFd \in Nat
      /\ file[n + 1].end \in Nat /\ etiSize \in Nat
      /\ n + 1 < l => file[n + 1].end = file[n + 2].begin /\ file[n + 1].end < etiSize
      /\ n + 1 = l => etiSize <= file[n + 1].end
  <2>1. n + 2 = (n + 1) + 1
    OBVIOUS
  <2>2. QED
    BY <1>2, <1>3, <2>1, NextFrame DEF ReaderTypes
<1>5. to = (IF file[n + 1].end < etiSize THEN file[n + 1].end ELSE etiSize) /\ to \in Nat
  BY <1>3, <1>4
<1>6. /\ frames' \in Seq(Nat \X Nat) /\ Len(frames') = n + 1
      /\ DOMAIN frames' = 1..(n + 1) /\ frames'[n + 1] = <<etiFd, to>>
      /\ \A i \in 1..n : frames'[i] = frames[i]
  <2>1. <<etiFd, to>> \in Nat \X Nat /\ frames \in Seq(Nat \X Nat)
    BY <1>2, <1>4, <1>5 DEF ReaderTypes
  <2>2. /\ frames' \in Seq(Nat \X Nat) /\ Len(frames') = n + 1
        /\ frames'[n + 1] = <<etiFd, to>>
        /\ \A i \in 1..n : frames'[i] = frames[i]
    BY <1>1, <1>3, <2>1, AppendLast
  <2>3. DOMAIN frames' = 1..Len(frames')
    BY <2>2, LenProperties
  <2>4. QED
    BY <2>2, <2>3
<1>7. ReaderTypes' /\ Laid' /\ EndsInLast'
  BY <1>1, <1>2, <1>5, <1>6 DEF ReaderTypes, Laid, Prefix, FirstBegin, EndsInLast
<1>8. AtNextFrame'
  <2>1. CASE n + 1 < l
    <3>1. file[n + 1].end < etiSize /\ file[n + 1].end = file[n + 2].begin
      BY <1>4, <2>1
    <3>2. etiFd' = file[n + 2].begin
      BY <1>1, <1>5, <3>1
    <3>3. (n + 1) + 1 = n + 2 /\ n + 1 <= l
      BY <1>3
    <3>4. QED
      BY <1>1, <1>2, <1>3, <1>6, <2>1, <3>2, <3>3 DEF AtNextFrame
  <2>2. CASE ~(n + 1 < l)
    <3>1. n + 1 = l
      BY <1>3, <2>2
    <3>2. etiFd' = etiSize
      BY <1>1, <1>4, <1>5, <3>1
    <3>3. QED
      BY <1>1, <1>2, <1>3, <1>6, <3>1, <3>2 DEF AtNextFrame
  <2>3. QED
    BY <2>1, <2>2
<1>9. FramesReadInOrder'
  <2>1. ASSUME NEW i \in 1..(n + 1)
        PROVE  frames'[i] =
                 <<file[i].begin, IF file[i].end < etiSize THEN file[i].end ELSE etiSize>>
    <3>1. CASE i = n + 1
      BY <1>4, <1>5, <1>6, <3>1
    <3>2. CASE i # n + 1
      <4>1. i \in 1..n /\ i \in DOMAIN frames
        BY <1>2, <1>3, <3>2, FileTypes
      <4>2. QED
        BY <1>2, <1>6, <4>1 DEF FramesReadInOrder
    <3>3. QED
      BY <3>1, <3>2
  <2>2. QED
    BY <1>1, <1>6, <2>1 DEF FramesReadInOrder
<1>10. QED
  BY <1>7, <1>8, <1>9 DEF ReaderInv

\* EtiReaderException, when every whole frame has been returned.
LEMMA RaiseKeeps ==
  ASSUME ReaderInv, etiStatus = "reading", Raise("EtiReaderException"),
         UNCHANGED <<kind, file, etiSize, fmt>>,
         Len(frames) < Len(file) => etiSize < file[Len(frames) + 1].end
  PROVE  ReaderInv'
<1>1. /\ etiStatus' = "EtiReaderException"
      /\ UNCHANGED <<kind, file, etiSize, etiFd, fmt, frames>>
  BY DEF Raise
<1>2. ReaderTypes /\ Laid /\ EndsInLast /\ AtNextFrame /\ FramesReadInOrder
  BY DEF ReaderInv
<1>3. PICK n \in Nat, l \in Nat : n = Len(frames) /\ l = Len(file) /\ n <= l
  BY <1>2, FileTypes DEF AtNextFrame
<1>4. \A f \in 1..l : file[f].end <= etiSize => f \in 1..n
  <2>1. SUFFICES ASSUME NEW f \in 1..l, file[f].end <= etiSize, n < f
                 PROVE  FALSE
    BY <1>3
  <2>2. n < l
    BY <1>3, <2>1
  <2>3. /\ file[n + 1].end \in Nat /\ etiSize < file[n + 1].end /\ etiSize \in Nat
        /\ n + 1 < l => file[n + 1].end < etiSize
    BY <1>2, <1>3, <2>2, NextFrame DEF ReaderTypes
  <2>4. n + 1 = l /\ f = l
    BY <1>3, <2>1, <2>2, <2>3
  <2>5. QED
    BY <2>1, <2>3, <2>4
<1>5. ReaderTypes' /\ Laid' /\ EndsInLast' /\ AtNextFrame'
  BY <1>1, <1>2 DEF ReaderTypes, Laid, Prefix, FirstBegin, EndsInLast, AtNextFrame
<1>6. FramesReadInOrder'
  BY <1>1, <1>2, <1>3, <1>4, FileTypes DEF FramesReadInOrder, Frame
<1>7. QED
  BY <1>5, <1>6 DEF ReaderInv

LEMMA NextRawKeeps ==
  ASSUME ReaderInv, NextRaw
  PROVE  ReaderInv'
<1>1. /\ etiStatus = "reading" /\ fmt = "RAW" /\ UNCHANGED <<kind, file, etiSize, fmt>>
      /\ IF etiFd < etiSize THEN Return(Reach(RawFrame)) ELSE Raise("EtiReaderException")
  BY DEF NextRaw
<1>2. ReaderTypes /\ Laid /\ AtNextFrame
  BY DEF ReaderInv
<1>3. kind = "RAW" /\ Prefix = 0 /\ etiSize \in Nat
  BY <1>1, <1>2 DEF AtNextFrame, Prefix, ReaderTypes
<1>4. CASE Len(frames) < Len(file)
  <2>1. PICK n \in 1..Len(file) :
             /\ n = Len(frames) + 1 /\ etiFd = file[n].begin
             /\ file[n].begin \in Nat /\ file[n].end \in Nat
             /\ file[n].begin + Prefix < etiSize
    BY <1>1, <1>4, NextFrame
  <2>2. file[n].end - file[n].begin = RawFrame /\ RawFrame \in Nat
    BY <1>2, <1>3, EtiReaderAssumption DEF Laid
  <2>3. Return(Reach(RawFrame)) /\ etiFd + RawFrame = file[n].end
    BY <1>1, <1>3, <2>1, <2>2
  <2>4. QED
    BY <1>1, <1>4, <2>1, <2>3, ReturnKeeps DEF Reach
<1>5. CASE ~(Len(frames) < Len(file))
  <2>1. etiFd = etiSize
    BY <1>1, <1>2, <1>5 DEF AtNextFrame
  <2>2. Raise("EtiReaderException")
    BY <1>1, <1>3, <2>1
  <2>3. QED
    BY <1>1, <1>5, <2>2, RaiseKeeps
<1>6. QED
  BY <1>4, <1>5

LEMMA NextWithLengthKeeps ==
  ASSUME ReaderInv, NextWithLength
  PROVE  ReaderInv'
<1> DEFINE len == LengthAt(etiFd)
<1>1. /\ etiStatus = "reading" /\ fmt \in {"STREAMED", "FRAMED"}
      /\ UNCHANGED <<kind, file, etiSize, fmt>>
      /\ IF Reach(2) < etiFd + 2 \/ len \notin 1..RawFrame
           THEN Raise("EtiReaderException")
         ELSE IF ~CanCheckSync(etiFd + 2) THEN Raise("struct.error")
         ELSE IF ~check_sync(etiFd + 2) THEN Raise("EtiReaderException")
         ELSE IF Reach(len + 2) - etiFd < len THEN Raise("EtiReaderException")
         ELSE Return(Reach(len + 2))
  BY DEF NextWithLength
<1> HIDE DEF len
<1>2. ReaderTypes /\ Laid /\ EndsInLast /\ AtNextFrame /\ FramesReadInOrder
  BY DEF ReaderInv
<1>3. Prefix = 2 /\ etiSize \in Nat /\ Frame = 1..Len(file)
  BY <1>1, <1>2, FileTypes DEF AtNextFrame, Prefix, ReaderTypes, Frame
<1>4. CASE Len(frames) < Len(file)
  <2>1. PICK n \in 1..Len(file) :
             /\ n = Len(frames) + 1 /\ etiFd = file[n].begin
             /\ file[n].begin \in Nat /\ file[n].end \in Nat
             /\ file[n].begin + Prefix < etiSize
             /\ file[n].end - file[n].begin - Prefix \in 4..RawFrame
             /\ n < Len(file) => file[n].end < etiSize
    BY <1>1, <1>4, NextFrame
  <2>2. \A f \in 1..Len(file) : file[f].begin = etiFd => f = n
    <3>1. SUFFICES ASSUME NEW f \in 1..Len(file), f # n, file[f].begin = file[n].begin
                   PROVE  FALSE
      BY <2>1
    <3>2. PICK b \in Nat, e \in Nat, c \in Nat :
               b = file[n].begin /\ e = file[n].end /\ c = file[f].end
      BY <1>2, <2>1, FileTypes
    <3>3. /\ f < n => c <= b
          /\ n < f => e <= b
      BY <1>2, <3>1, <3>2 DEF Laid
    <3>4. /\ c - b - 2 \in 4..RawFrame
          /\ e - b - 2 \in 4..RawFrame
          /\ RawFrame \in Nat
      BY <1>2, <1>3, <3>1, <3>2, EtiReaderAssumption DEF Laid
    <3>5. f < n \/ n < f
      <4>1. Len(file) \in Nat
        BY <1>2, FileTypes
      <4>2. QED
        BY <3>1, <4>1
    <3>6. QED
      BY <3>3, <3>4, <3>5
  <2>3. len = file[n].end - file[n].begin - 2
    <3> DEFINE found == {f \in Frame : file[f].begin = etiFd}
    <3>1. found = {n}
      BY <1>3, <2>1, <2>2
    <3>2. (CHOOSE x \in found : TRUE) = n
      BY <3>1
    <3>3. QED
      BY <3>1, <3>2 DEF len, LengthAt
  <2>4. PICK b \in Nat, e \in Nat : b = file[n].begin /\ e = file[n].end
    BY <2>1
  <2>5. /\ len = e - b - 2 /\ len \in 4..RawFrame /\ RawFrame \in Nat
        /\ etiFd = b /\ b + 2 < etiSize
    BY <1>3, <2>1, <2>3, <2>4, EtiReaderAssumption
  <2>6. ~(Reach(2) < etiFd + 2) /\ len \in 1..RawFrame
    BY <1>3, <2>5 DEF Reach
  <2>7. check_sync(etiFd + 2)
    BY <1>3, <2>1 DEF check_sync, IsSync
  <2>8. CASE ~CanCheckSync(etiFd + 2)
    <3>1. Raise("struct.error")
      BY <1>1, <2>6, <2>8
    <3>2. /\ etiStatus' = "struct.error"
          /\ UNCHANGED <<kind, file, etiSize, etiFd, fmt, frames>>
      BY <1>1, <3>1 DEF Raise
    <3>3. etiSize < file[Len(frames) + 1].begin + Prefix + 4
      <4>1. etiSize < b + 2 + 4
        BY <1>3, <2>5, <2>8 DEF CanCheckSync
      <4>2. file[Len(frames) + 1].begin = b
        BY <2>1, <2>4
      <4>3. QED
        BY <1>3, <4>1, <4>2
    <3>4. ReaderTypes' /\ Laid' /\ EndsInLast' /\ AtNextFrame'
      BY <1>1, <1>2, <3>2
      DEF ReaderTypes, Laid, Prefix, FirstBegin, EndsInLast, AtNextFrame
    <3>5. FramesReadInOrder'
      <4>1. Prefix' = Prefix
        BY <3>2 DEF Prefix
      <4>2. QED
        BY <1>2, <3>2, <3>3, <4>1 DEF FramesReadInOrder
    <3>6. QED
      BY <3>4, <3>5 DEF ReaderInv
  <2>9. CASE CanCheckSync(etiFd + 2) /\ Reach(len + 2) - etiFd < len
    <3>1. Raise("EtiReaderException")
      BY <1>1, <2>6, <2>7, <2>9
    <3>2. etiSize < e
      BY <1>3, <2>5, <2>9 DEF Reach
    <3>3. QED
      BY <1>1, <2>1, <2>4, <3>1, <3>2, RaiseKeeps
  <2>10. CASE CanCheckSync(etiFd + 2) /\ ~(Reach(len + 2) - etiFd < len)
    <3>1. Return(Reach(len + 2))
      BY <1>1, <2>6, <2>7, <2>10
    <3>2. Reach(len + 2) = IF e < etiSize THEN e ELSE etiSize
      BY <1>3, <2>5 DEF Reach
    <3>3. QED
      BY <1>1, <1>4, <2>1, <2>4, <3>1, <3>2, ReturnKeeps
  <2>11. QED
    BY <2>8, <2>9, <2>10
<1>5. CASE ~(Len(frames) < Len(file))
  <2>1. etiFd = etiSize
    BY <1>1, <1>2, <1>5 DEF AtNextFrame
  <2>2. Reach(2) < etiFd + 2
    BY <1>3, <2>1 DEF Reach
  <2>3. Raise("EtiReaderException")
    BY <1>1, <2>2
  <2>4. QED
    BY <1>1, <1>5, <2>3, RaiseKeeps
<1>6. QED
  BY <1>4, <1>5

\* FramesReadInOrder: whatever kind of file, wherever its frames begin and how
\* long they are and wherever it ends, next() returns its frames in order and
\* leaves none out (EtiReader lines 14-87).
THEOREM ReaderReadsFrames == ReaderSpec => []FramesReadInOrder
<1>1. ReaderInv /\ [ReaderNext]_readerVars => ReaderInv'
  <2> SUFFICES ASSUME ReaderInv, [ReaderNext]_readerVars PROVE ReaderInv'
    OBVIOUS
  <2>1. CASE \/ \E junk \in Junk : Create("RAW", junk)
             \/ \E k \in {"STREAMED", "FRAMED"} : Create(k, 0)
    BY <2>1, CreateKeeps
  <2>2. CASE \E length \in FrameSizes \cup {RawFrame} : Write(length)
    BY <2>2, WriteKeeps
  <2>3. CASE \E cut \in 0..MaxEtiCut : Close(cut)
    BY <2>3, CloseKeeps
  <2>4. CASE Discover \/ NextRaw \/ NextWithLength
    BY <2>4, DiscoverKeeps, NextRawKeeps, NextWithLengthKeeps
  <2>5. CASE UNCHANGED readerVars
    BY <2>5 DEF readerVars, ReaderInv, ReaderTypes, Laid, Prefix, FirstBegin,
                EndsInLast, AtNextFrame, FramesReadInOrder, Frame
  <2>6. QED
    BY <2>1, <2>2, <2>3, <2>4, <2>5 DEF ReaderNext
<1>2. ReaderInv => FramesReadInOrder
  BY DEF ReaderInv
<1>3. QED
  BY ReaderInitial, <1>1, <1>2, PTL DEF ReaderSpec
=============================================================================
