---------------------------- MODULE EdiDebugProofs ----------------------------
(* Theorems about EdiDebug for every modulus, fragmentation, number of frames, *)
(* of duplicates and of losses.                                               *)
EXTENDS EdiDebug, FiniteSetTheorems, TLAPS

USE EdiAssumption

(* The inductive invariant.                                                   *)

\* A packet on the way or read is one the sender made.
PacketsSent ==
  \A f \in inflight \cup delivered :
    f[1] \in 1..Len(sent) /\ f[2] \in Indices(sent[f[1]])

\* A Defragmenter was made for a fragment that was read, with as many places as
\* that one says, and what is in a place was read and has the Pseq.
Slots ==
  \A p \in Pseqs :
    defragmenters[p] # Absent =>
      /\ \E f \in delivered :
           /\ Pseq(f[1]) = p /\ Collected(f[1])
           /\ DOMAIN defragmenters[p] = 0..(sent[f[1]] - 1)
      /\ \A i \in DOMAIN defragmenters[p] :
           defragmenters[p][i] # 0 =>
             /\ <<defragmenters[p][i], i>> \in delivered
             /\ Pseq(defragmenters[p][i]) = p

EdiInv == TypeOK /\ PacketsSent /\ Slots /\ IntactUnlessReused

Reused(packets) ==
  \E f, g \in packets : f[1] # g[1] /\ Pseq(f[1]) = Pseq(g[1])

-------------------------------------------------------------------------------
(* Helpers                                                                    *)

LEMMA PseqType == \A k \in Nat : Pseq(k) \in Pseqs
  BY DEF Pseq, Pseqs

LEMMA NewIsNotAbsent ==
  ASSUME NEW n \in Nat \ {0}, NEW S, NEW d \in [0..(n - 1) -> S]
  PROVE  d # Absent
<1>1. DOMAIN d = 0..(n - 1)  OBVIOUS
<1>2. 0 \in DOMAIN d  BY <1>1
<1>3. DOMAIN Absent = {}  BY DEF Absent
<1> QED  BY <1>2, <1>3

\* The Defragmenter that gets a fragment of a frame that was sent is a function
\* from a nonempty range of indices.
LEMMA DefragmenterType ==
  ASSUME TypeOK, NEW k \in 1..Len(sent), Collected(k)
  PROVE  \E n \in Fcounts \ {0} : Defragmenter(k) \in [0..(n - 1) -> 0..MaxFrames]
<1>1. k \in Nat /\ Pseq(k) \in Pseqs  BY PseqType DEF TypeOK
<1>2. sent[k] \in Fcounts \ {0}  BY DEF TypeOK, Collected
<1>3. CASE defragmenters[Pseq(k)] = Absent
  <2>1. Defragmenter(k) = NewDefragmenter(sent[k])  BY <1>3 DEF Defragmenter
  <2>2. NewDefragmenter(sent[k]) \in [0..(sent[k] - 1) -> 0..MaxFrames]
    BY DEF NewDefragmenter
  <2> QED  BY <2>1, <2>2, <1>2
<1>4. CASE defragmenters[Pseq(k)] # Absent
  <2>1. Defragmenter(k) = defragmenters[Pseq(k)]  BY <1>4 DEF Defragmenter
  <2>2. defragmenters[Pseq(k)] \in {Absent} \cup
           UNION {[0..(n - 1) -> 0..MaxFrames] : n \in Fcounts \ {0}}
    BY <1>1 DEF TypeOK
  <2> QED  BY <2>1, <2>2, <1>4
<1> QED  BY <1>3, <1>4

\* As long as no Pseq is reused, the Defragmenter of frame k has the places of
\* frame k, and holds nothing but read fragments of frame k.
LEMMA OwnDefragmenter ==
  ASSUME TypeOK, PacketsSent, Slots,
         NEW k \in 1..Len(sent), NEW i \in Indices(sent[k]), Collected(k),
         ~Reused(delivered \cup {<<k, i>>})
  PROVE  /\ Defragmenter(k) \in [0..(sent[k] - 1) -> {0, k}]
         /\ \A j \in 0..(sent[k] - 1) :
              Defragmenter(k)[j] = k => <<k, j>> \in delivered
<1>1. k \in Frame /\ Pseq(k) \in Pseqs /\ sent[k] \in Fcounts \ {0}
  BY PseqType DEF TypeOK, Frame, Collected
<1>2. CASE defragmenters[Pseq(k)] = Absent
  <2>1. Defragmenter(k) = [j \in 0..(sent[k] - 1) |-> 0]
    BY <1>2 DEF Defragmenter, NewDefragmenter
  <2>2. k # 0  OBVIOUS
  <2> QED  BY <2>1, <2>2
<1>3. CASE defragmenters[Pseq(k)] # Absent
  <2> DEFINE d == defragmenters[Pseq(k)]
  <2>1. Defragmenter(k) = d  BY <1>3 DEF Defragmenter
  <2>2. PICK f \in delivered : Pseq(f[1]) = Pseq(k) /\ DOMAIN d = 0..(sent[f[1]] - 1)
    BY <1>1, <1>3 DEF Slots
  <2>3. \A g \in delivered : Pseq(g[1]) = Pseq(k) => g[1] = k
    <3>1. <<k, i>>[1] = k  OBVIOUS
    <3> QED  BY <3>1 DEF Reused
  <2>4. DOMAIN d = 0..(sent[k] - 1)  BY <2>2, <2>3
  <2>5. \A j \in DOMAIN d : d[j] # 0 => <<d[j], j>> \in delivered /\ d[j] = k
    <3> SUFFICES ASSUME NEW j \in DOMAIN d, d[j] # 0
                 PROVE  <<d[j], j>> \in delivered /\ d[j] = k
      OBVIOUS
    <3>1. <<d[j], j>> \in delivered /\ Pseq(d[j]) = Pseq(k)
      BY <1>1, <1>3 DEF Slots
    <3> QED  BY <3>1, <2>3
  <2>6. d \in [DOMAIN d -> {0, k}]
    <3>1. d \in {Absent} \cup UNION {[0..(n - 1) -> 0..MaxFrames] : n \in Fcounts \ {0}}
      BY <1>1 DEF TypeOK
    <3>2. PICK n \in Fcounts \ {0} : d \in [0..(n - 1) -> 0..MaxFrames]
      BY <3>1, <1>3
    <3> QED  BY <3>2, <2>5
  <2>7. \A j \in DOMAIN d : d[j] = k => <<k, j>> \in delivered
    BY <2>5
  <2> HIDE DEF d
  <2> QED  BY <2>1, <2>4, <2>6, <2>7
<1> QED  BY <1>2, <1>3

-------------------------------------------------------------------------------
(* One action at a time                                                       *)

\* The main loop's part keeps the types, when it gets the tags of a packet or
\* what there was before.
LEMMA AfterDecodeTypes ==
  ASSUME TypeOK, status = "running", NEW eti \in EtiData, AfterDecode(eti),
         output /\ ~eti.complete => eti = Cleared
  PROVE  /\ written' \in Seq(EtiData) /\ eti_data' \in EtiData
         /\ output /\ status' = "running" => eti_data' = Cleared
         /\ status' \in {"running", "ended"}
<1>1. Cleared \in EtiData  BY DEF Cleared, EtiData
<1>2. CASE eti.complete /\ output
  <2>1. /\ written' = Append(written, eti)
        /\ eti_data' = IF LastFrame THEN eti ELSE Cleared
        /\ status' = IF LastFrame THEN "ended" ELSE "running"
    BY <1>2 DEF AfterDecode
  <2>2. written' \in Seq(EtiData)
    BY <2>1 DEF TypeOK
  <2>3. QED
    BY <1>1, <2>1, <2>2
<1>3. CASE ~(eti.complete /\ output)
  BY <1>3 DEF AfterDecode, TypeOK
<1> QED  BY <1>2, <1>3

LEMMA WithTagsType ==
  ASSUME TypeOK, NEW frames \in SUBSET (0..MaxFrames)
  PROVE  WithTags(frames) \in EtiData /\ WithTags(frames).complete
BY DEF TypeOK, EtiData, WithTags

\* The part of TypeOK that reading a packet can disturb.
ReadTypes ==
  /\ defragmenters \in [Pseqs -> {Absent} \cup
                                 UNION {[0..(n - 1) -> 0..MaxFrames] : n \in Fcounts \ {0}}]
  /\ eti_data \in EtiData /\ written \in Seq(EtiData)
  /\ output /\ status = "running" => eti_data = Cleared
  /\ status \in {"running", "ended", "crashed"}

LEMMA DecodeTypes ==
  ASSUME TypeOK, status = "running",
         NEW k \in 1..Len(sent), NEW i \in Indices(sent[k]),
         NEW short \in BOOLEAN, Decode(k, i, short), output' = output
  PROVE  ReadTypes'
<1>1. k \in 1..MaxFrames /\ Pseq(k) \in Pseqs  BY PseqType DEF TypeOK
<1>2. CASE ~Collected(k)
  <2>1. /\ Raise \/ AfterDecode(WithTags({k}))
        /\ UNCHANGED defragmenters
    BY <1>2 DEF Decode
  <2>2. WithTags({k}) \in EtiData /\ WithTags({k}).complete
    BY <1>1, WithTagsType
  <2> SUFFICES ASSUME ~Raise
               PROVE  ReadTypes'
    BY <2>1 DEF Raise, ReadTypes, TypeOK
  <2>3. /\ written' \in Seq(EtiData) /\ eti_data' \in EtiData
        /\ output /\ status' = "running" => eti_data' = Cleared
        /\ status' \in {"running", "ended"}
    BY <2>1, <2>2, AfterDecodeTypes
  <2> QED  BY <2>1, <2>3 DEF ReadTypes, TypeOK
<1>3. CASE Collected(k)
  <2> DEFINE d == Defragmenter(k)
             pushed == [d EXCEPT ![i] = k]
  <2>1. PushFragment(k, i, short)  BY <1>3 DEF Decode
  <2>2. PICK n \in Fcounts \ {0} : d \in [0..(n - 1) -> 0..MaxFrames]
    BY <1>3, DefragmenterType
  <2>3. pushed \in [0..(n - 1) -> 0..MaxFrames]
    <3> HIDE DEF d
    <3>1. k \in 0..MaxFrames  BY <1>1
    <3> QED  BY <3>1, <2>2
  <2>4. Contents(pushed, short) \in SUBSET (0..MaxFrames)
    <3>1. Sources(pushed) \in SUBSET (0..MaxFrames)  BY <2>3 DEF Sources
    <3>2. 0 \in 0..MaxFrames  BY <1>1
    <3> HIDE DEF pushed
    <3> QED  BY <3>1, <3>2 DEF Contents
  <2>5. /\ defragmenters' \in [Pseqs -> {Absent} \cup
                     UNION {[0..(m - 1) -> 0..MaxFrames] : m \in Fcounts \ {0}}]
    <3>1. \/ defragmenters' = [defragmenters EXCEPT ![Pseq(k)] = d]
          \/ defragmenters' = [defragmenters EXCEPT ![Pseq(k)] = pushed]
      BY <2>1 DEF PushFragment
    <3> DEFINE Some == UNION {[0..(m - 1) -> 0..MaxFrames] : m \in Fcounts \ {0}}
    <3>2. d \in Some /\ pushed \in Some  BY <2>2, <2>3
    <3>3. defragmenters \in [Pseqs -> {Absent} \cup Some]  BY DEF TypeOK
    <3> HIDE DEF d, pushed, Some
    <3>4. defragmenters' \in [Pseqs -> {Absent} \cup Some]  BY <3>1, <3>2, <3>3
    <3> QED  BY <3>4 DEF Some
  <2>6. \/ status' = "crashed" /\ UNCHANGED <<eti_data, written>>
        \/ status' = "ended" /\ UNCHANGED <<eti_data, written>>
        \/ AfterDecode(WithTags(Contents(pushed, short)))
        \/ AfterDecode(eti_data)
    BY <2>1 DEF PushFragment, DecodeAf, Raise
  <2> DEFINE new == WithTags(Contents(pushed, short))
  <2>7. new \in EtiData /\ new.complete
    BY <2>4, WithTagsType
  <2>8. eti_data \in EtiData /\ (output => eti_data = Cleared)  BY DEF TypeOK
  <2> HIDE DEF d, pushed, new
  <2>9. CASE status' \in {"crashed", "ended"} /\ UNCHANGED <<eti_data, written>>
    BY <2>5, <2>9 DEF ReadTypes, TypeOK
  <2>10. CASE AfterDecode(new)
    <3>1. /\ written' \in Seq(EtiData) /\ eti_data' \in EtiData
          /\ output /\ status' = "running" => eti_data' = Cleared
          /\ status' \in {"running", "ended"}
      BY <2>7, <2>10, AfterDecodeTypes
    <3> QED  BY <2>5, <3>1 DEF ReadTypes
  <2>11. CASE AfterDecode(eti_data)
    <3>1. /\ written' \in Seq(EtiData) /\ eti_data' \in EtiData
          /\ output /\ status' = "running" => eti_data' = Cleared
          /\ status' \in {"running", "ended"}
      BY <2>8, <2>11, AfterDecodeTypes
    <3> QED  BY <2>5, <3>1 DEF ReadTypes
  <2> QED  BY <2>6, <2>9, <2>10, <2>11 DEF new
<1> QED  BY <1>2, <1>3

\* Reading a packet keeps the Defragmenters made of what was read.
LEMMA DecodeSlots ==
  ASSUME TypeOK, Slots, TypeOK',
         NEW k \in 1..Len(sent), NEW i \in Indices(sent[k]),
         NEW short \in BOOLEAN, Decode(k, i, short),
         delivered' = delivered \cup {<<k, i>>}, UNCHANGED <<sent, fec>>
  PROVE  Slots'
<1>1. k \in Nat \ {0} /\ Pseq(k) \in Pseqs  BY PseqType DEF TypeOK
<1>2. \A n : Collected(n)' = Collected(n)  BY DEF Collected
<1>3. CASE ~Collected(k)
  <2>1. defragmenters' = defragmenters  BY <1>3 DEF Decode
  <2> QED  BY <2>1, <1>2 DEF Slots
<1>4. CASE Collected(k)
  <2> DEFINE d == Defragmenter(k)
             pushed == [d EXCEPT ![i] = k]
  <2>1. PushFragment(k, i, short)  BY <1>4 DEF Decode
  <2>2. PICK new \in {d, pushed} :
          defragmenters' = [defragmenters EXCEPT ![Pseq(k)] = new]
    BY <2>1 DEF PushFragment
  <2>3. PICK n \in Fcounts \ {0} : d \in [0..(n - 1) -> 0..MaxFrames]
    BY <1>4, DefragmenterType
  <2>4. /\ \E f \in delivered' : /\ Pseq(f[1]) = Pseq(k) /\ Collected(f[1])
                                 /\ DOMAIN d = 0..(sent[f[1]] - 1)
        /\ \A j \in DOMAIN d : d[j] # 0 =>
              <<d[j], j>> \in delivered /\ Pseq(d[j]) = Pseq(k)
    <3>1. CASE defragmenters[Pseq(k)] = Absent
      <4>1. d = [j \in 0..(sent[k] - 1) |-> 0]
        BY <3>1 DEF Defragmenter, NewDefragmenter
      <4>2. <<k, i>> \in delivered' /\ <<k, i>>[1] = k  OBVIOUS
      <4> HIDE DEF d
      <4> QED  BY <4>1, <4>2, <1>4
    <3>2. CASE defragmenters[Pseq(k)] # Absent
      <4>1. d = defragmenters[Pseq(k)]  BY <3>2 DEF Defragmenter
      <4> HIDE DEF d
      <4> QED  BY <4>1, <3>2, <1>1 DEF Slots
    <3> QED  BY <3>1, <3>2
  <2>5. /\ DOMAIN new = DOMAIN d
        /\ \A j \in DOMAIN d : new[j] # d[j] => j = i /\ new[j] = k
    BY <2>2, <2>3
  <2> HIDE DEF d, pushed
  <2>6. \A j \in DOMAIN new : new[j] # 0 =>
          <<new[j], j>> \in delivered' /\ Pseq(new[j]) = Pseq(k)
    BY <2>4, <2>5
  <2>7. SUFFICES ASSUME NEW p \in Pseqs, defragmenters'[p] # Absent
                 PROVE  /\ \E f \in delivered' :
                             /\ Pseq(f[1]) = p /\ Collected(f[1])'
                             /\ DOMAIN defragmenters'[p] = 0..(sent'[f[1]] - 1)
                        /\ \A j \in DOMAIN defragmenters'[p] :
                             defragmenters'[p][j] # 0 =>
                               /\ <<defragmenters'[p][j], j>> \in delivered'
                               /\ Pseq(defragmenters'[p][j]) = p
    BY DEF Slots, Pseqs, Pseq, Absent
  <2>8. CASE p = Pseq(k)
    <3>1. defragmenters'[p] = new  BY <2>2, <2>8, <1>1 DEF TypeOK
    <3> QED  BY <3>1, <2>4, <2>5, <2>6, <2>8, <1>2
  <2>9. CASE p # Pseq(k)
    <3>1. defragmenters'[p] = defragmenters[p]  BY <2>2, <2>9 DEF TypeOK
    <3> QED  BY <3>1, <2>7, <1>2 DEF Slots
  <2> QED  BY <2>8, <2>9
<1> QED  BY <1>3, <1>4

Intact(frame) ==
  \E k \in Frame : frame = [complete |-> TRUE, fc |-> {k}, stc |-> <<{k}>>]

\* The main loop's part writes nothing, or one frame at the end, and a frame given
\* the tags of one packet, or given no complete frame, only if it is an intact one.
LEMMA AfterDecodeIntact ==
  ASSUME TypeOK, status = "running", NEW k \in Frame, NEW eti \in EtiData,
         AfterDecode(eti), \A n \in DOMAIN written : Intact(written[n])
  PROVE  /\ status' # "crashed"
         /\ \A n \in DOMAIN written' : Intact(written'[n]) \/ n = Len(written')
         /\ eti = WithTags({k}) \/ eti = eti_data =>
              \A n \in DOMAIN written' : Intact(written'[n])
<1>1. CASE eti.complete /\ output
  <2>1. eti_data = Cleared  BY <1>1 DEF TypeOK
  <2>2. eti = WithTags({k}) \/ eti = eti_data => eti = WithTags({k})
    BY <1>1, <2>1 DEF Cleared
  <2>3. WithTags({k}) = [complete |-> TRUE, fc |-> {k}, stc |-> <<{k}>>]
    BY <2>1 DEF WithTags, Cleared
  <2>4. eti = WithTags({k}) => Intact(eti)  BY <2>3 DEF Intact
  <2>5. written' = Append(written, eti) /\ status' # "crashed"
    BY <1>1 DEF AfterDecode
  <2>6. /\ DOMAIN written' = 1..(Len(written) + 1) /\ Len(written') = Len(written) + 1
        /\ \A n \in DOMAIN written' :
             \/ n = Len(written') /\ written'[n] = eti
             \/ n \in DOMAIN written /\ written'[n] = written[n]
    BY <2>5 DEF TypeOK
  <2> QED  BY <2>2, <2>4, <2>5, <2>6
<1>2. CASE ~(eti.complete /\ output)
  BY <1>2 DEF AfterDecode
<1> QED  BY <1>1, <1>2

\* Reading a packet whose Pseq no other frame has had: no exception unless it is
\* cut off, and only an intact frame is written, unless bytes of it are missing.
LEMMA DecodeIntact ==
  ASSUME TypeOK, PacketsSent, Slots, status = "running",
         NEW k \in 1..Len(sent), NEW i \in Indices(sent[k]),
         NEW short \in BOOLEAN, Decode(k, i, short),
         ~Reused(delivered \cup {<<k, i>>}),
         \A n \in DOMAIN written : Intact(written[n])
  PROVE  /\ status' = "crashed" => short
         /\ \A n \in DOMAIN written' :
              Intact(written'[n]) \/ (n = Len(written') /\ short /\ ~fec)
<1>1. k \in Frame /\ eti_data \in EtiData  BY DEF TypeOK, Frame
<1>2. WithTags({k}) \in EtiData
  <2>1. {k} \in SUBSET (0..MaxFrames)  BY <1>1 DEF Frame
  <2> QED  BY <2>1, WithTagsType
<1>3. CASE ~Collected(k)
  <2>1. \/ short /\ Raise
        \/ AfterDecode(WithTags({k}))
    BY <1>3 DEF Decode
  <2>2. CASE short /\ Raise
    BY <2>2 DEF Raise
  <2>3. CASE AfterDecode(WithTags({k}))
    BY <1>1, <1>2, <2>3, AfterDecodeIntact
  <2> QED  BY <2>1, <2>2, <2>3
<1>4. CASE Collected(k)
  <2> DEFINE d == Defragmenter(k)
             pushed == [d EXCEPT ![i] = k]
  <2>1. PushFragment(k, i, short)  BY <1>4 DEF Decode
  <2>2. d \in [0..(sent[k] - 1) -> {0, k}]  BY <1>4, OwnDefragmenter
  <2>3. sent[k] \in Nat \ {0} /\ i \in 0..(sent[k] - 1)
    <3>1. sent[k] \in Fcounts \ {0}  BY <1>4 DEF TypeOK, Collected
    <3>2. sent[k] \in Nat \ {0}  BY <3>1
    <3> QED  BY <3>2 DEF Indices
  <2>4. i \in DOMAIN d /\ pushed \in [0..(sent[k] - 1) -> {0, k}]
    <3> HIDE DEF d
    <3> QED  BY <2>2, <2>3
  <2>5. \/ Complete(pushed) /\ DecodeAf(pushed, short)
        \/ AfterDecode(eti_data)
    BY <2>1, <2>4 DEF PushFragment
  <2> HIDE DEF d, pushed
  <2>6. CASE AfterDecode(eti_data)
    BY <1>1, <2>6, AfterDecodeIntact
  <2>7. CASE Complete(pushed) /\ DecodeAf(pushed, short)
    <3>1. \A j \in 0..(sent[k] - 1) : pushed[j] = k
      BY <2>4, <2>7 DEF Complete
    <3>2. pushed = [j \in 0..(sent[k] - 1) |-> k]  BY <2>4, <3>1
    <3>3. OnePacket(pushed)  BY <1>1, <3>2 DEF OnePacket
    <3>4. Sources(pushed) = {k}
      <4>1. 0 \in 0..(sent[k] - 1)  BY <2>3
      <4>2. DOMAIN pushed = 0..(sent[k] - 1)  BY <3>2
      <4> QED  BY <3>1, <4>1, <4>2 DEF Sources
    <3>5. /\ ~short \/ fec => Contents(pushed, short) = {k}
          /\ Contents(pushed, short) \in SUBSET (0..MaxFrames)
      BY <3>4, <1>1 DEF Contents, Frame
    <3>6. WithTags(Contents(pushed, short)) \in EtiData  BY <3>5, WithTagsType
    <3>7. \/ AfterDecode(WithTags(Contents(pushed, short)))
          \/ short /\ ~fec /\ status' = "ended" /\ written' = written
          \/ short /\ Raise
      BY <2>7, <3>3 DEF DecodeAf, AfOutcomes, Raise
    <3>8. CASE AfterDecode(WithTags(Contents(pushed, short)))
      <4>1. CASE ~short \/ fec
        BY <1>1, <1>2, <3>5, <3>8, <4>1, AfterDecodeIntact
      <4>2. CASE short /\ ~fec
        BY <1>1, <3>6, <3>8, <4>2, AfterDecodeIntact
      <4> QED  BY <4>1, <4>2
    <3>9. CASE short /\ status' = "ended" /\ written' = written
      BY <3>9
    <3>10. CASE short /\ Raise
      BY <3>10 DEF Raise
    <3> QED  BY <3>7, <3>8, <3>9, <3>10
  <2> QED  BY <2>5, <2>6, <2>7
<1> QED  BY <1>3, <1>4

\* Reading a packet, from what is on the way.
LEMMA ReadKeeps ==
  ASSUME EdiInv, Reading, NEW f \in inflight, NEW short \in BOOLEAN, Read(f, short),
         UNCHANGED <<options, sent, losses>>, inflight' \subseteq inflight,
         cut' = short, copies' \in Nat
  PROVE  EdiInv'
<1> DEFINE k == f[1]
           i == f[2]
<1>1. f = <<k, i>> /\ k \in Frame /\ i \in Nat  BY DEF EdiInv, TypeOK
<1>2. k \in 1..Len(sent) /\ i \in Indices(sent[k])  BY DEF EdiInv, PacketsSent
<1>3. delivered' = delivered \cup {<<k, i>>} /\ Decode(k, i, short)  BY <1>1 DEF Read
<1> HIDE DEF k, i
<1>4. TypeOK'
  <2>1. ReadTypes'  BY <1>2, <1>3, DecodeTypes DEF EdiInv, options, Reading
  <2>2. delivered' \subseteq Frame \X Nat  BY <1>1, <1>3 DEF EdiInv, TypeOK
  <2> QED  BY <2>1, <2>2 DEF ReadTypes, EdiInv, TypeOK, options
<1>5. PacketsSent'
  BY <1>1, <1>2, <1>3 DEF EdiInv, PacketsSent
<1>6. Slots'
  BY <1>2, <1>3, <1>4, DecodeSlots DEF EdiInv, options
<1>7. IntactUnlessReused'
  <2>1. SUFFICES ASSUME ~PseqReused'
                 PROVE  IntactUnlessReused'
    BY DEF IntactUnlessReused
  <2>2. ~Reused(delivered \cup {<<k, i>>})
    BY <2>1, <1>3 DEF PseqReused, Reused
  <2>3. ~PseqReused  BY <2>1, <1>3 DEF PseqReused
  <2>4. \A n \in DOMAIN written : Intact(written[n])
    BY <2>3 DEF EdiInv, IntactUnlessReused, Intact, Reading
  <2>5. /\ status' = "crashed" => short
        /\ \A n \in DOMAIN written' :
             Intact(written'[n]) \/ (n = Len(written') /\ short /\ ~fec)
    BY <1>2, <1>3, <2>2, <2>4, DecodeIntact DEF EdiInv, Reading
  <2>6. fec' = fec  BY DEF options
  <2> QED  BY <2>5, <2>6 DEF IntactUnlessReused, Intact
<1> QED  BY <1>4, <1>5, <1>6, <1>7 DEF EdiInv

LEMMA SendFrameKeeps == EdiInv /\ SendFrame => EdiInv'
<1> SUFFICES ASSUME EdiInv, SendFrame
             PROVE  EdiInv'
  OBVIOUS
<1>1. PICK n \in Fcounts :
        /\ sent' = Append(sent, n)
        /\ inflight' = inflight \cup {<<Len(sent) + 1, i>> : i \in Indices(n)}
  BY DEF SendFrame, Indices
<1>2. /\ UNCHANGED <<fec, output, num_eti, delivered, cut, copies, losses>>
      /\ UNCHANGED <<defragmenters, eti_data, written, status>>
      /\ Len(sent) < MaxFrames
  BY DEF SendFrame, options
<1>3. /\ sent' \in Seq(Fcounts) /\ Len(sent') = Len(sent) + 1
      /\ sent'[Len(sent) + 1] = n
      /\ \A k \in 1..Len(sent) : sent'[k] = sent[k]
      /\ Len(sent) \in Nat
  BY <1>1 DEF EdiInv, TypeOK
<1>4. Indices(n) \subseteq Nat  BY DEF Indices
<1>5. TypeOK'
  <2>1. Len(sent) + 1 \in Frame  BY <1>2, <1>3 DEF Frame
  <2>2. inflight' \subseteq Frame \X Nat
    BY <1>1, <1>4, <2>1 DEF EdiInv, TypeOK
  <2>3. Len(sent') <= MaxFrames  BY <1>2, <1>3
  <2> QED  BY <1>2, <1>3, <2>2, <2>3 DEF EdiInv, TypeOK
<1>6. PacketsSent'
  <2>1. SUFFICES ASSUME NEW f \in inflight' \cup delivered'
                 PROVE  f[1] \in 1..Len(sent') /\ f[2] \in Indices(sent'[f[1]])
    BY DEF PacketsSent, Indices
  <2>2. CASE f \in inflight \cup delivered
    BY <1>3, <2>2 DEF EdiInv, PacketsSent
  <2>3. CASE f \notin inflight \cup delivered
    <3>1. PICK i \in Indices(n) : f = <<Len(sent) + 1, i>>
      BY <1>1, <1>2, <2>1, <2>3
    <3>2. f[1] = Len(sent) + 1 /\ f[2] = i  BY <3>1
    <3> QED  BY <1>3, <3>2
  <2> QED  BY <2>2, <2>3
<1>7. Slots'
  <2>1. \A f \in delivered : f[1] \in 1..Len(sent) /\ sent'[f[1]] = sent[f[1]]
    BY <1>3 DEF EdiInv, PacketsSent
  <2>2. \A f \in delivered : Collected(f[1])' = Collected(f[1])
    BY <2>1, <1>2 DEF Collected
  <2> QED  BY <1>2, <2>1, <2>2 DEF EdiInv, Slots
<1>8. IntactUnlessReused'
  BY <1>2 DEF EdiInv, IntactUnlessReused, PseqReused
<1> QED  BY <1>5, <1>6, <1>7, <1>8 DEF EdiInv

\* The other actions leave the Defragmenters and the frames written alone, also
\* when the end of the file is in the header of a fragment.
LEMMA OthersKeep ==
  ASSUME EdiInv, UNCHANGED <<options, sent, delivered, copies>>,
         UNCHANGED <<defragmenters, eti_data, written>>,
         inflight' \subseteq inflight, losses' \in Nat, cut' \in BOOLEAN, cut => cut',
         status' \in {status, "ended"} \/ (status' = "crashed" /\ cut')
  PROVE  EdiInv'
<1>1. TypeOK'  BY DEF EdiInv, TypeOK, options
<1>2. PacketsSent'  BY DEF EdiInv, PacketsSent
<1>3. Slots'  BY DEF EdiInv, Slots, Collected, options
<1>4. IntactUnlessReused'  BY DEF EdiInv, IntactUnlessReused, PseqReused, options
<1> QED  BY <1>1, <1>2, <1>3, <1>4 DEF EdiInv

LEMMA EdiInit == Init => EdiInv
<1> SUFFICES ASSUME Init
             PROVE  EdiInv
  OBVIOUS
<1>1. TypeOK
  <2>1. Cleared \in EtiData  BY DEF Cleared, EtiData
  <2>2. cut \in BOOLEAN /\ fec \in BOOLEAN /\ output \in BOOLEAN  BY DEF Init
  <2> QED  BY <2>1, <2>2 DEF Init, TypeOK
<1>2. PacketsSent /\ Slots  BY DEF Init, PacketsSent, Slots
<1>3. IntactUnlessReused  BY DEF Init, IntactUnlessReused
<1> QED  BY <1>1, <1>2, <1>3 DEF EdiInv

LEMMA EdiStep == EdiInv /\ [Next]_vars => EdiInv'
<1> SUFFICES ASSUME EdiInv, [Next]_vars
             PROVE  EdiInv'
  OBVIOUS
<1>1. CASE SendFrame  BY <1>1, SendFrameKeeps
<1>2. CASE ReadPacket
  <2>1. PICK f \in inflight : Read(f, FALSE) /\ inflight' = inflight \ {f}
    BY <1>2 DEF ReadPacket
  <2>2. copies' \in Nat /\ cut' = FALSE /\ FALSE \in BOOLEAN
    BY <1>2 DEF ReadPacket, Reading, EdiInv, TypeOK
  <2> QED  BY <1>2, <2>1, <2>2, ReadKeeps DEF ReadPacket
<1>3. CASE ReadCopy
  <2>1. PICK f \in inflight : Read(f, FALSE)  BY <1>3 DEF ReadCopy
  <2>2. copies' \in Nat /\ cut' = FALSE /\ FALSE \in BOOLEAN
    BY <1>3 DEF ReadCopy, Reading, EdiInv, TypeOK
  <2> QED  BY <1>3, <2>1, <2>2, ReadKeeps DEF ReadCopy
<1>4. CASE ReadCut
  <2>1. PICK f \in inflight :
          /\ inflight' = inflight \ {f}
          /\ (Raise /\ UNCHANGED <<delivered, defragmenters>>) \/ Read(f, TRUE)
    BY <1>4 DEF ReadCut
  <2>2. /\ copies' \in Nat /\ losses' \in Nat /\ cut' = TRUE /\ TRUE \in BOOLEAN
        /\ UNCHANGED <<options, sent, copies, losses>>
    BY <1>4 DEF ReadCut, EdiInv, TypeOK
  <2>3. CASE Raise /\ UNCHANGED <<delivered, defragmenters>>
    BY <2>1, <2>2, <2>3, OthersKeep DEF Raise
  <2>4. CASE Read(f, TRUE)
    BY <1>4, <2>1, <2>2, <2>4, ReadKeeps DEF ReadCut
  <2> QED  BY <2>1, <2>3, <2>4
<1>5. CASE ReadOther
  <2>1. losses' \in Nat /\ cut' \in BOOLEAN /\ cut' = cut
    BY <1>5 DEF ReadOther, network, EdiInv, TypeOK
  <2> QED  BY <1>5, <2>1, OthersKeep DEF ReadOther, network
<1>6. CASE Lose
  <2>1. losses' \in Nat /\ cut' \in BOOLEAN /\ cut' = cut
    BY <1>6 DEF Lose, EdiInv, TypeOK
  <2> QED  BY <1>6, <2>1, OthersKeep DEF Lose
<1>7. CASE UNCHANGED vars
  <2>1. losses' \in Nat /\ cut' \in BOOLEAN /\ cut' = cut
    BY <1>7 DEF vars, network, EdiInv, TypeOK
  <2> QED  BY <1>7, <2>1, OthersKeep DEF vars, network
<1> QED  BY <1>1, <1>2, <1>3, <1>4, <1>5, <1>6, <1>7 DEF Next

-------------------------------------------------------------------------------
(* Theorems                                                                   *)

\* Every state of the converter satisfies the inductive invariant.
THEOREM EdiInvariant == Spec => []EdiInv
<1>1. Init => EdiInv  BY EdiInit
<1>2. EdiInv /\ [Next]_vars => EdiInv'  BY EdiStep
<1> QED  BY <1>1, <1>2, PTL DEF Spec

\* The state has its types; with -o no complete frame waits between two packets.
THEOREM EdiTypeCorrect == Spec => []TypeOK
<1>1. EdiInv => TypeOK  BY DEF EdiInv
<1> QED  BY <1>1, EdiInvariant, PTL

\* Until a Pseq comes back, the converter does not crash but at a packet cut off by
\* the end of the file, and writes only whole frames of the stream, the last one
\* perhaps not if it was cut off without fec, whatever is lost, duplicated and
\* reordered.
THEOREM EdiIntact == Spec => []IntactUnlessReused
<1>1. EdiInv => IntactUnlessReused  BY DEF EdiInv
<1> QED  BY <1>1, EdiInvariant, PTL

-------------------------------------------------------------------------------
(* Nothing is held back                                                       *)

Wrote(list, frames) == \E n \in DOMAIN list : list[n].fc = frames

\* While no Pseq is reused, a fragment that was read is in its place, a packet that
\* needs no Defragmenter was written, and so was what fills a Defragmenter.
Kept ==
  (~PseqReused /\ output /\ Reading) =>
    /\ \A f \in delivered :
         IF Collected(f[1])
         THEN /\ f[2] \in DOMAIN defragmenters[Pseq(f[1])]
              /\ defragmenters[Pseq(f[1])][f[2]] = f[1]
         ELSE Wrote(written, {f[1]})
    /\ \A p \in Pseqs :
         defragmenters[p] # Absent /\ Complete(defragmenters[p])
         => Wrote(written, Sources(defragmenters[p]))

\* With -o, the main loop writes a frame whose tags it gets, and what was written stays.
LEMMA AfterDecodeWrites ==
  ASSUME TypeOK, output, NEW eti \in EtiData, AfterDecode(eti), NEW frames
  PROVE  /\ eti.complete /\ eti.fc = frames => Wrote(written', frames)
         /\ Wrote(written, frames) => Wrote(written', frames)
<1>1. CASE eti.complete
  <2>1. written' = Append(written, eti)  BY <1>1 DEF AfterDecode
  <2>2. /\ DOMAIN written' = 1..(Len(written) + 1)
        /\ written'[Len(written) + 1] = eti /\ Len(written) \in Nat
        /\ \A n \in DOMAIN written : n \in DOMAIN written' /\ written'[n] = written[n]
    BY <2>1 DEF TypeOK
  <2> QED  BY <2>2 DEF Wrote
<1>2. CASE ~eti.complete
  BY <1>2 DEF AfterDecode, Wrote
<1> QED  BY <1>1, <1>2

\* Reading a packet puts its fragment in its place, or writes the frame.
LEMMA ReadKeepsKept ==
  ASSUME EdiInv, EdiInv', Kept, Reading, NEW f \in inflight, Read(f, FALSE),
         UNCHANGED <<options, sent>>
  PROVE  Kept'
<1> DEFINE k == f[1]
           i == f[2]
<1>1. f = <<k, i>> /\ k \in Frame /\ i \in Nat  BY DEF EdiInv, TypeOK
<1>2. k \in 1..Len(sent) /\ i \in Indices(sent[k])  BY DEF EdiInv, PacketsSent
<1>3. delivered' = delivered \cup {<<k, i>>} /\ Decode(k, i, FALSE)  BY <1>1 DEF Read
<1>4. <<k, i>>[1] = k /\ <<k, i>>[2] = i  OBVIOUS
<1> HIDE DEF k, i
<1>5. Pseq(k) \in Pseqs  BY <1>1, PseqType DEF Frame
<1> SUFFICES ASSUME ~PseqReused', output, status' = "running"
             PROVE  /\ \A g \in delivered' :
                         IF Collected(g[1])
                         THEN /\ g[2] \in DOMAIN defragmenters'[Pseq(g[1])]
                              /\ defragmenters'[Pseq(g[1])][g[2]] = g[1]
                         ELSE Wrote(written', {g[1]})
                    /\ \A p \in Pseqs :
                         defragmenters'[p] # Absent /\ Complete(defragmenters'[p])
                         => Wrote(written', Sources(defragmenters'[p]))
  <2>1. \A n : Collected(n)' = Collected(n)  BY DEF Collected, options
  <2>2. output' = output  BY DEF options
  <2> QED  BY <2>1, <2>2 DEF Kept, Reading, Pseq, Pseqs, Absent, Complete, Sources
<1>6. ~Reused(delivered \cup {<<k, i>>})  BY <1>3 DEF PseqReused, Reused
<1>7. ~PseqReused  BY <1>3 DEF PseqReused
<1>8. /\ \A g \in delivered :
           IF Collected(g[1])
           THEN /\ g[2] \in DOMAIN defragmenters[Pseq(g[1])]
                /\ defragmenters[Pseq(g[1])][g[2]] = g[1]
           ELSE Wrote(written, {g[1]})
      /\ \A p \in Pseqs :
           defragmenters[p] # Absent /\ Complete(defragmenters[p])
           => Wrote(written, Sources(defragmenters[p]))
  BY <1>7 DEF Kept
<1>9. WithTags({k}) \in EtiData /\ WithTags({k}).complete /\ WithTags({k}).fc = {k}
  <2>1. {k} \in SUBSET (0..MaxFrames)  BY <1>1 DEF Frame
  <2> QED  BY <2>1, WithTagsType DEF EdiInv, WithTags
<1>10. CASE ~Collected(k)
  <2>1. AfterDecode(WithTags({k})) /\ defragmenters' = defragmenters
    BY <1>3, <1>10 DEF Decode
  <2>2. \A frames : Wrote(written, frames) => Wrote(written', frames)
    BY <2>1, <1>9, AfterDecodeWrites DEF EdiInv
  <2>3. Wrote(written', {k})  BY <2>1, <1>9, AfterDecodeWrites DEF EdiInv
  <2> QED  BY <1>3, <1>4, <1>8, <1>10, <2>1, <2>2, <2>3
<1>11. CASE Collected(k)
  <2> DEFINE d == Defragmenter(k)
             pushed == [d EXCEPT ![i] = k]
  <2>1. PushFragment(k, i, FALSE)  BY <1>3, <1>11 DEF Decode
  <2>2. d \in [0..(sent[k] - 1) -> {0, k}]
    BY <1>2, <1>6, <1>11, OwnDefragmenter DEF EdiInv
  <2>3. sent[k] \in Nat \ {0} /\ i \in 0..(sent[k] - 1)
    <3>1. sent[k] \in Fcounts \ {0}  BY <1>2, <1>11 DEF EdiInv, TypeOK, Collected
    <3> QED  BY <1>2, <3>1 DEF Indices
  <2>4. /\ i \in DOMAIN d /\ pushed \in [0..(sent[k] - 1) -> {0, k}] /\ pushed[i] = k
        /\ \A j \in DOMAIN d : d[j] = k => pushed[j] = k
    <3> HIDE DEF d
    <3> QED  BY <2>2, <2>3
  <2>5. /\ defragmenters' = [defragmenters EXCEPT ![Pseq(k)] = pushed]
        /\ IF Complete(pushed) THEN DecodeAf(pushed, FALSE) ELSE AfterDecode(eti_data)
    BY <2>1, <2>4 DEF PushFragment
  <2>6. defragmenters[Pseq(k)] # Absent => d = defragmenters[Pseq(k)]
    BY DEF Defragmenter
  <2> HIDE DEF d, pushed
  <2>7. /\ defragmenters'[Pseq(k)] = pushed
        /\ \A p \in Pseqs \ {Pseq(k)} : defragmenters'[p] = defragmenters[p]
    BY <2>5, <1>5 DEF EdiInv, TypeOK
  <2>8. Complete(pushed) => Sources(pushed) = {k} /\ AfterDecode(WithTags({k}))
    <3> SUFFICES ASSUME Complete(pushed)
                 PROVE  Sources(pushed) = {k} /\ AfterDecode(WithTags({k}))
      OBVIOUS
    <3>1. pushed = [j \in 0..(sent[k] - 1) |-> k]  BY <2>4 DEF Complete
    <3>2. OnePacket(pushed)  BY <1>1, <1>2, <3>1 DEF OnePacket
    <3>3. Sources(pushed) = {k}
      <4>1. DOMAIN pushed = 0..(sent[k] - 1) /\ \A j \in DOMAIN pushed : pushed[j] = k
        BY <3>1
      <4> QED  BY <2>3, <4>1 DEF Sources
    <3>4. Contents(pushed, FALSE) = {k}  BY <3>3 DEF Contents
    <3> QED  BY <2>5, <3>2, <3>3, <3>4 DEF DecodeAf, AfOutcomes
  <2>9. /\ \A frames : Wrote(written, frames) => Wrote(written', frames)
        /\ Complete(pushed) => Wrote(written', {k})
    <3>1. CASE Complete(pushed)
      BY <3>1, <2>8, <1>9, AfterDecodeWrites DEF EdiInv
    <3>2. CASE ~Complete(pushed)
      BY <3>2, <2>5, AfterDecodeWrites DEF EdiInv, TypeOK
    <3> QED  BY <3>1, <3>2
  <2>10. ASSUME NEW g \in delivered'
         PROVE  IF Collected(g[1])
                THEN /\ g[2] \in DOMAIN defragmenters'[Pseq(g[1])]
                     /\ defragmenters'[Pseq(g[1])][g[2]] = g[1]
                ELSE Wrote(written', {g[1]})
    <3>1. CASE g = <<k, i>>
      <4>1. g[1] = k /\ g[2] = i  BY <3>1, <1>4
      <4> QED  BY <4>1, <1>11, <2>2, <2>4, <2>7
    <3>2. CASE g \in delivered /\ Pseq(g[1]) = Pseq(k)
      <4>1. g[1] = k  BY <3>2, <1>4, <1>6 DEF Reused
      <4>2. g[2] \in DOMAIN defragmenters[Pseq(k)] /\ defragmenters[Pseq(k)][g[2]] = k
        BY <1>8, <1>11, <3>2, <4>1
      <4>3. defragmenters[Pseq(k)] # Absent  BY <4>2 DEF Absent
      <4> QED  BY <4>1, <4>2, <4>3, <2>2, <2>4, <2>6, <2>7, <1>11
    <3>3. CASE g \in delivered /\ Pseq(g[1]) # Pseq(k)
      <4>1. g[1] \in Nat  BY <3>3 DEF EdiInv, TypeOK, Frame
      <4>2. Pseq(g[1]) \in Pseqs  BY <4>1, PseqType
      <4> QED  BY <3>3, <4>2, <1>8, <2>7, <2>9
    <3> QED  BY <1>3, <3>1, <3>2, <3>3
  <2>11. ASSUME NEW p \in Pseqs, defragmenters'[p] # Absent, Complete(defragmenters'[p])
         PROVE  Wrote(written', Sources(defragmenters'[p]))
    <3>1. CASE p = Pseq(k)
      BY <3>1, <2>7, <2>8, <2>9, <2>11
    <3>2. CASE p # Pseq(k)
      BY <3>2, <2>7, <2>9, <2>11, <1>8
    <3> QED  BY <3>1, <3>2
  <2> QED  BY <2>10, <2>11
<1> QED  BY <1>10, <1>11

LEMMA KeptStep == EdiInv /\ EdiInv' /\ Kept /\ [Next]_vars => Kept'
<1> SUFFICES ASSUME EdiInv, EdiInv', Kept, [Next]_vars
             PROVE  Kept'
  OBVIOUS
<1>1. CASE SendFrame
  <2>1. PICK n : sent' = Append(sent, n) /\ n \in Fcounts  BY <1>1 DEF SendFrame
  <2>2. \A f \in delivered : f[1] \in 1..Len(sent)  BY DEF EdiInv, PacketsSent
  <2>3. \A k \in 1..Len(sent) : sent'[k] = sent[k]  BY <2>1 DEF EdiInv, TypeOK
  <2>4. UNCHANGED <<fec, output, delivered, cut, defragmenters, written, status>>
    BY <1>1 DEF SendFrame, options
  <2>5. \A f \in delivered : Collected(f[1])' = Collected(f[1])
    BY <2>2, <2>3, <2>4 DEF Collected
  <2> QED  BY <2>4, <2>5 DEF Kept, PseqReused, Wrote, Reading
<1>2. CASE ReadPacket
  <2>1. PICK f \in inflight : Read(f, FALSE)  BY <1>2 DEF ReadPacket
  <2> QED  BY <1>2, <2>1, ReadKeepsKept DEF ReadPacket
<1>3. CASE ReadCopy
  <2>1. PICK f \in inflight : Read(f, FALSE)  BY <1>3 DEF ReadCopy
  <2> QED  BY <1>3, <2>1, ReadKeepsKept DEF ReadCopy
<1>4. CASE ReadCut \/ ReadOther
  <2>1. ~Reading'  BY <1>4 DEF ReadCut, ReadOther, Reading
  <2> QED  BY <2>1 DEF Kept
<1>5. CASE Lose \/ UNCHANGED vars
  <2>1. UNCHANGED <<fec, output, sent, delivered, cut, defragmenters, written, status>>
    BY <1>5 DEF Lose, vars, options, network
  <2> QED  BY <2>1 DEF Kept, PseqReused, Wrote, Collected, Reading
<1> QED  BY <1>1, <1>2, <1>3, <1>4, <1>5 DEF Next

LEMMA KeptImpliesNothingHeldBack == EdiInv /\ Kept => NothingHeldBack
<1> SUFFICES ASSUME EdiInv, Kept, ~PseqReused, output, Reading,
                    NEW k \in 1..Len(sent),
                    \A i \in Indices(sent[k]) : <<k, i>> \in delivered
             PROVE  Wrote(written, {k})
  BY DEF NothingHeldBack, Wrote
<1>1. 0 \in Indices(sent[k]) /\ <<k, 0>> \in delivered
  <2>1. sent[k] \in Fcounts  BY DEF EdiInv, TypeOK
  <2>2. sent[k] \in Nat  BY <2>1
  <2> QED  BY <2>2 DEF Indices
<1>2. <<k, 0>>[1] = k  OBVIOUS
<1>3. CASE ~Collected(k)
  BY <1>1, <1>2, <1>3 DEF Kept
<1>4. CASE Collected(k)
  <2> DEFINE d == defragmenters[Pseq(k)]
  <2>1. \A i \in Indices(sent[k]) : i \in DOMAIN d /\ d[i] = k
    <3>1. \A i : <<k, i>>[1] = k /\ <<k, i>>[2] = i  OBVIOUS
    <3> QED  BY <1>4, <3>1 DEF Kept
  <2>2. Pseq(k) \in Pseqs /\ d # Absent
    BY <1>1, <2>1, PseqType DEF EdiInv, TypeOK, Absent
  <2>3. PICK f \in delivered : Pseq(f[1]) = Pseq(k) /\ DOMAIN d = 0..(sent[f[1]] - 1)
    BY <2>2 DEF EdiInv, Slots
  <2>4. f[1] = k  BY <2>3, <1>1, <1>2 DEF PseqReused
  <2>5. DOMAIN d = Indices(sent[k])  BY <2>3, <2>4, <1>4 DEF Indices, Collected
  <2>6. k # 0  OBVIOUS
  <2> HIDE DEF d
  <2>7. Complete(d)  BY <2>1, <2>5, <2>6 DEF Complete
  <2>8. Sources(d) = {k}  BY <1>1, <2>1, <2>5 DEF Sources
  <2>9. Wrote(written, Sources(d))  BY <2>2, <2>7 DEF Kept, d
  <2> QED  BY <2>8, <2>9
<1> QED  BY <1>3, <1>4

\* Until a Pseq comes back, a frame all of whose packets have been read whole is
\* written.
THEOREM EdiNothingHeldBack == Spec => []NothingHeldBack
<1>1. Init => Kept
  BY DEF Init, Kept
<1>2. Spec => [](EdiInv /\ Kept)
  BY <1>1, EdiInit, EdiStep, KeptStep, PTL DEF Spec
<1> QED  BY <1>2, KeptImpliesNothingHeldBack, PTL

-------------------------------------------------------------------------------
(* A frame is written again only for a duplicate                              *)

\* Where frame k was written; its packets that were read and will come again.
Times(k) == {n \in DOMAIN written : k \in written[n].fc}
Again(k) == {i \in Indices(sent[k]) : <<k, i>> \in inflight /\ <<k, i>> \in delivered}

\* While no Pseq is reused, each packet that will come again was duplicated, and a
\* frame is written once all its packets were read, and then once for each of
\* those that come again.
Repeats ==
  ~PseqReused =>
    /\ \A k \in Frame \ (1..Len(sent)) : Times(k) = {}
    /\ \A k \in 1..Len(sent) :
         /\ Cardinality(Again(k)) <= copies
         /\ Times(k) # {} =>
              /\ \A i \in Indices(sent[k]) : <<k, i>> \in delivered
              /\ Cardinality(Times(k)) + Cardinality(Again(k)) <= 1 + copies

LEMMA TimesFinite ==
  ASSUME TypeOK, NEW k
  PROVE  IsFiniteSet(Times(k)) /\ Cardinality(Times(k)) \in Nat
<1>1. DOMAIN written = 1..Len(written) /\ Len(written) \in Nat  BY DEF TypeOK
<1>2. IsFiniteSet(1..Len(written))  BY <1>1, FS_Interval
<1>3. Times(k) \in SUBSET (1..Len(written))  BY <1>1 DEF Times
<1> QED  BY <1>2, <1>3, FS_Subset, FS_CardinalityType

LEMMA IndicesFinite ==
  ASSUME TypeOK, NEW k \in 1..Len(sent), NEW T \in SUBSET Indices(sent[k])
  PROVE  IsFiniteSet(T) /\ Cardinality(T) \in Nat
<1>1. sent[k] \in Nat
  <2>1. sent[k] \in Fcounts  BY DEF TypeOK
  <2> QED  BY <2>1
<1>2. IsFiniteSet(Indices(sent[k]))
  <2>1. IsFiniteSet({0})  BY FS_Singleton
  <2>2. sent[k] - 1 \in Int /\ 0 \in Int  BY <1>1
  <2>3. IsFiniteSet(0..(sent[k] - 1))  BY <2>2, FS_Interval
  <2> QED  BY <2>1, <2>3 DEF Indices
<1> QED  BY <1>2, FS_Subset, FS_CardinalityType

\* One more frame, of the tags of frame k, though some of its bytes may be missing.
WritesOf(k) ==
  \E eti \in EtiData : eti.fc \in {{k}, {0, k}} /\ written' = Append(written, eti)

\* Reading a packet of frame k, while no Pseq is reused, writes that frame or
\* nothing, and the frame only when all its packets have been read.
LEMMA DecodeWrites ==
  ASSUME EdiInv, status = "running",
         NEW k \in 1..Len(sent), NEW i \in Indices(sent[k]),
         NEW short \in BOOLEAN, Decode(k, i, short),
         ~Reused(delivered \cup {<<k, i>>})
  PROVE  \/ written' = written
         \/ /\ WritesOf(k)
            /\ \A j \in Indices(sent[k]) : <<k, j>> \in delivered \cup {<<k, i>>}
<1>1. k \in Frame /\ TypeOK  BY DEF EdiInv, TypeOK, Frame
<1>2. ASSUME NEW frames \in {{k}, {0, k}}
      PROVE  WithTags(frames) \in EtiData /\ WithTags(frames).fc = frames
  <2>1. frames \in SUBSET (0..MaxFrames)  BY <1>1 DEF Frame
  <2> QED  BY <1>1, <2>1, WithTagsType DEF WithTags
<1>3. ASSUME NEW frames \in {{k}, {0, k}}, AfterDecode(WithTags(frames))
      PROVE  written' = written \/ WritesOf(k)
  BY <1>2, <1>3 DEF AfterDecode, WritesOf
<1>4. sent[k] \in Nat
  <2>1. sent[k] \in Fcounts  BY <1>1 DEF TypeOK
  <2> QED  BY <2>1
<1>5. CASE ~Collected(k)
  <2>1. Raise \/ AfterDecode(WithTags({k}))  BY <1>5 DEF Decode
  <2>2. CASE sent[k] \in {0, 1}
    <3>1. Indices(sent[k]) = {0}  BY <2>2 DEF Indices
    <3> QED  BY <1>3, <2>1, <3>1 DEF Raise
  <2>3. sent[k] \in {0, 1}  BY <1>4, <1>5 DEF Collected
  <2> QED  BY <2>2, <2>3
<1>6. CASE Collected(k)
  <2> DEFINE d == Defragmenter(k)
             pushed == [d EXCEPT ![i] = k]
  <2>1. PushFragment(k, i, short)  BY <1>6 DEF Decode
  <2>2. /\ d \in [0..(sent[k] - 1) -> {0, k}]
        /\ \A j \in 0..(sent[k] - 1) : d[j] = k => <<k, j>> \in delivered
    BY <1>6, OwnDefragmenter DEF EdiInv
  <2>3. sent[k] \in Nat \ {0} /\ i \in 0..(sent[k] - 1) /\ Indices(sent[k]) = 0..(sent[k] - 1)
    BY <1>4, <1>6 DEF Indices, Collected
  <2>4. /\ i \in DOMAIN d /\ pushed \in [0..(sent[k] - 1) -> {0, k}]
        /\ \A j \in 0..(sent[k] - 1) : j # i => pushed[j] = d[j]
    <3> HIDE DEF d
    <3> QED  BY <2>2, <2>3
  <2>5. \/ Complete(pushed) /\ DecodeAf(pushed, short)
        \/ AfterDecode(eti_data)
    BY <2>1, <2>4 DEF PushFragment
  <2> HIDE DEF d, pushed
  <2>6. CASE AfterDecode(eti_data)
    <3>1. ~(eti_data.complete /\ output)  BY <1>1 DEF TypeOK, Cleared
    <3> QED  BY <2>6, <3>1 DEF AfterDecode
  <2>7. CASE Complete(pushed) /\ DecodeAf(pushed, short)
    <3>1. \A j \in 0..(sent[k] - 1) : pushed[j] = k
      BY <2>4, <2>7 DEF Complete
    <3>2. pushed = [j \in 0..(sent[k] - 1) |-> k]  BY <2>4, <3>1
    <3>4. Sources(pushed) = {k}
      <4>1. 0 \in 0..(sent[k] - 1)  BY <2>3
      <4>2. DOMAIN pushed = 0..(sent[k] - 1)  BY <3>2
      <4> QED  BY <3>1, <4>1, <4>2 DEF Sources
    <3>5. Contents(pushed, short) \in {{k}, {0, k}}  BY <3>4 DEF Contents
    <3>6. \/ AfterDecode(WithTags(Contents(pushed, short)))
          \/ written' = written
      BY <2>7 DEF DecodeAf, Raise
    <3>7. \A j \in 0..(sent[k] - 1) : <<k, j>> \in delivered \cup {<<k, i>>}
      BY <2>2, <2>4, <3>1
    <3> QED  BY <1>3, <2>3, <3>5, <3>6, <3>7
  <2> QED  BY <2>5, <2>6, <2>7
<1> QED  BY <1>5, <1>6

\* One more place, for frame k only.
LEMMA TimesAppend ==
  ASSUME TypeOK, NEW k \in Frame, WritesOf(k)
  PROVE  /\ \A m \in Frame : m # k => Times(m)' = Times(m)
         /\ Times(k)' # {} /\ IsFiniteSet(Times(k)')
         /\ Cardinality(Times(k)') = Cardinality(Times(k)) + 1
<1> PICK eti \in EtiData : eti.fc \in {{k}, {0, k}} /\ written' = Append(written, eti)
  BY DEF WritesOf
<1>1. /\ DOMAIN written' = 1..(Len(written) + 1) /\ DOMAIN written = 1..Len(written)
      /\ written'[Len(written) + 1] = eti /\ Len(written) \in Nat
      /\ \A n \in DOMAIN written : n \in DOMAIN written' /\ written'[n] = written[n]
  BY DEF TypeOK
<1>2. \A m \in Frame : m # k => Times(m)' = Times(m)
  <2>1. \A m \in Frame : m # k => m \notin eti.fc  BY DEF Frame
  <2> QED  BY <1>1, <2>1 DEF Times
<1>3. Times(k)' = Times(k) \cup {Len(written) + 1} /\ Len(written) + 1 \notin Times(k)
  BY <1>1 DEF Times
<1> QED  BY <1>2, <1>3, TimesFinite, FS_AddElement

\* A packet of frame k leaves the way, or was duplicated.
LEMMA ReadRepeats ==
  ASSUME EdiInv, Repeats, Reading, NEW f \in inflight,
         NEW short \in BOOLEAN, Read(f, short), UNCHANGED <<options, sent>>,
         \/ inflight' = inflight \ {f} /\ copies' = copies
         \/ inflight' = inflight /\ copies' = copies + 1
  PROVE  Repeats'
<1> DEFINE k == f[1]
           i == f[2]
<1>1. f = <<k, i>> /\ k \in Frame /\ i \in Nat /\ TypeOK /\ copies \in Nat
  BY DEF EdiInv, TypeOK
<1>2. k \in 1..Len(sent) /\ i \in Indices(sent[k])  BY DEF EdiInv, PacketsSent
<1>3. delivered' = delivered \cup {<<k, i>>} /\ Decode(k, i, short)  BY <1>1 DEF Read
<1>4. \A m, j : <<m, j>> = f <=> m = k /\ j = i  BY <1>1
<1> HIDE DEF k, i
<1> SUFFICES ASSUME ~PseqReused'
             PROVE  /\ \A m \in Frame \ (1..Len(sent)) : Times(m)' = {}
                    /\ \A m \in 1..Len(sent) :
                         /\ Cardinality(Again(m)') <= copies'
                         /\ Times(m)' # {} =>
                              /\ \A j \in Indices(sent[m]) : <<m, j>> \in delivered'
                              /\ Cardinality(Times(m)') + Cardinality(Again(m)') <= 1 + copies'
  BY DEF Repeats
<1>5. ~Reused(delivered \cup {<<k, i>>}) /\ ~PseqReused
  BY <1>3 DEF PseqReused, Reused
<1>6. /\ \A m \in Frame \ (1..Len(sent)) : Times(m) = {}
      /\ \A m \in 1..Len(sent) :
           /\ Cardinality(Again(m)) <= copies
           /\ Times(m) # {} =>
                /\ \A j \in Indices(sent[m]) : <<m, j>> \in delivered
                /\ Cardinality(Times(m)) + Cardinality(Again(m)) <= 1 + copies
  BY <1>5 DEF Repeats
<1>7. \/ \A m \in Frame : Times(m)' = Times(m)
      \/ /\ \A m \in Frame : m # k => Times(m)' = Times(m)
         /\ Times(k)' # {} /\ Cardinality(Times(k)') = Cardinality(Times(k)) + 1
         /\ \A j \in Indices(sent[k]) : <<k, j>> \in delivered'
  <2>1. CASE written' = written
    BY <2>1 DEF Times
  <2>2. CASE written' # written
    <3>1. /\ WritesOf(k)
          /\ \A j \in Indices(sent[k]) : <<k, j>> \in delivered'
      BY <1>2, <1>3, <1>5, <2>2, DecodeWrites DEF Reading
    <3> QED  BY <1>1, <3>1, TimesAppend
  <2> QED  BY <2>1, <2>2
<1>8. copies' >= copies /\ copies' \in Nat  BY <1>1
<1>9. \A m : m # k => Again(m)' = Again(m)
  BY <1>3, <1>4 DEF Again
<1>10. /\ Cardinality(Again(k)) \in Nat /\ Cardinality(Again(k)') \in Nat
       /\ \/ Cardinality(Again(k)') <= Cardinality(Again(k)) /\ copies' = copies
             /\ (<<k, i>> \in delivered =>
                   Cardinality(Again(k)') = Cardinality(Again(k)) - 1)
          \/ Cardinality(Again(k)') <= Cardinality(Again(k)) + 1 /\ copies' = copies + 1
             /\ (<<k, i>> \in delivered =>
                   Cardinality(Again(k)') = Cardinality(Again(k)))
  <2>1. IsFiniteSet(Again(k)) /\ Cardinality(Again(k)) \in Nat
    <3>1. Again(k) \in SUBSET Indices(sent[k])  BY DEF Again
    <3> QED  BY <1>1, <1>2, <3>1, IndicesFinite
  <2>2. CASE inflight' = inflight \ {f} /\ copies' = copies
    <3>1. Again(k)' = Again(k) \ {i}
      BY <1>3, <1>4, <2>2 DEF Again
    <3>2. <<k, i>> \in delivered => i \in Again(k)
      BY <1>1, <1>2 DEF Again
    <3>3. /\ Cardinality(Again(k) \ {i}) =
               IF i \in Again(k) THEN Cardinality(Again(k)) - 1 ELSE Cardinality(Again(k))
          /\ IsFiniteSet(Again(k) \ {i})
      BY <2>1, FS_RemoveElement
    <3>4. Cardinality(Again(k) \ {i}) \in Nat  BY <3>3, FS_CardinalityType
    <3> QED  BY <2>1, <2>2, <3>1, <3>2, <3>3, <3>4
  <2>3. CASE inflight' = inflight /\ copies' = copies + 1
    <3>1. Again(k)' = Again(k) \cup {i}
      BY <1>1, <1>2, <1>3, <1>4, <2>3 DEF Again
    <3>2. <<k, i>> \in delivered => i \in Again(k)
      BY <1>1, <1>2 DEF Again
    <3>3. /\ Cardinality(Again(k) \cup {i}) =
               IF i \in Again(k) THEN Cardinality(Again(k)) ELSE Cardinality(Again(k)) + 1
          /\ IsFiniteSet(Again(k) \cup {i})
      BY <2>1, FS_AddElement
    <3> QED  BY <2>1, <2>3, <3>1, <3>2, <3>3
  <2> QED  BY <2>2, <2>3
<1>11. ASSUME NEW m \in Frame \ (1..Len(sent)) PROVE Times(m)' = {}
  BY <1>2, <1>6, <1>7
<1>12. ASSUME NEW m \in 1..Len(sent), m # k
       PROVE  /\ Cardinality(Again(m)') <= copies'
              /\ Times(m)' # {} =>
                   /\ \A j \in Indices(sent[m]) : <<m, j>> \in delivered'
                   /\ Cardinality(Times(m)') + Cardinality(Again(m)') <= 1 + copies'
  <2>1. Times(m)' = Times(m) /\ Again(m)' = Again(m)
    <3>1. m \in Frame  BY <1>1 DEF TypeOK, Frame
    <3> QED  BY <3>1, <1>7, <1>9, <1>12
  <2>2. Cardinality(Times(m)) \in Nat  BY <1>1, TimesFinite
  <2>3. Cardinality(Again(m)) \in Nat
    <3>1. Again(m) \in SUBSET Indices(sent[m])  BY DEF Again
    <3> QED  BY <1>1, <3>1, IndicesFinite
  <2> QED  BY <1>1, <1>3, <1>6, <1>8, <2>1, <2>2, <2>3
<1>13. /\ Cardinality(Again(k)') <= copies'
       /\ Times(k)' # {} =>
            /\ \A j \in Indices(sent[k]) : <<k, j>> \in delivered'
            /\ Cardinality(Times(k)') + Cardinality(Again(k)') <= 1 + copies'
  <2>1. Cardinality(Times(k)) \in Nat /\ Cardinality(Again(k)) <= copies
    BY <1>1, <1>2, <1>6, TimesFinite
  <2>2. Cardinality(Again(k)') <= copies'  BY <1>1, <1>10, <2>1
  <2>3. CASE Times(k) = {}
    <3>1. Cardinality(Times(k)) = 0  BY <2>3, FS_EmptySet
    <3> QED  BY <1>1, <1>7, <1>10, <2>1, <2>2, <2>3, <3>1
  <2>4. CASE Times(k) # {}
    <3>1. /\ \A j \in Indices(sent[k]) : <<k, j>> \in delivered
          /\ Cardinality(Times(k)) + Cardinality(Again(k)) <= 1 + copies
      BY <1>2, <1>6, <2>4
    <3>2. Cardinality(Times(k)') <= Cardinality(Times(k)) + 1
          /\ Cardinality(Times(k)') \in Nat
      BY <1>1, <1>7, <2>1
    <3>3. \/ Cardinality(Again(k)') <= Cardinality(Again(k)) - 1 /\ copies' = copies
          \/ Cardinality(Again(k)') <= Cardinality(Again(k)) /\ copies' = copies + 1
      <4>1. <<k, i>> \in delivered  BY <1>2, <3>1
      <4> QED  BY <1>10, <4>1
    <3>4. Cardinality(Times(k)') + Cardinality(Again(k)') <= 1 + copies'
      BY <1>1, <1>10, <2>1, <3>1, <3>2, <3>3
    <3> QED  BY <1>3, <2>2, <3>1, <3>4
  <2> QED  BY <2>3, <2>4
<1> QED  BY <1>2, <1>11, <1>12, <1>13

\* What was read is left as it is, and no packet read comes back.
LEMMA OthersRepeat ==
  ASSUME EdiInv, Repeats, UNCHANGED <<delivered, copies, written, sent>>,
         inflight' \subseteq inflight
  PROVE  Repeats'
<1> SUFFICES ASSUME ~PseqReused'
             PROVE  /\ \A m \in Frame \ (1..Len(sent)) : Times(m)' = {}
                    /\ \A m \in 1..Len(sent) :
                         /\ Cardinality(Again(m)') <= copies
                         /\ Times(m)' # {} =>
                              /\ \A j \in Indices(sent[m]) : <<m, j>> \in delivered
                              /\ Cardinality(Times(m)') + Cardinality(Again(m)') <= 1 + copies
  BY DEF Repeats
<1>1. /\ \A m \in Frame \ (1..Len(sent)) : Times(m) = {}
      /\ \A m \in 1..Len(sent) :
           /\ Cardinality(Again(m)) <= copies
           /\ Times(m) # {} =>
                /\ \A j \in Indices(sent[m]) : <<m, j>> \in delivered
                /\ Cardinality(Times(m)) + Cardinality(Again(m)) <= 1 + copies
  BY DEF Repeats, PseqReused
<1>2. TypeOK /\ copies \in Nat  BY DEF EdiInv, TypeOK
<1>3. \A m : Times(m)' = Times(m)  BY DEF Times
<1>4. ASSUME NEW m \in 1..Len(sent)
      PROVE  /\ Cardinality(Again(m)') <= Cardinality(Again(m))
             /\ Cardinality(Again(m)) \in Nat /\ Cardinality(Again(m)') \in Nat
             /\ Cardinality(Times(m)) \in Nat
  <2>1. Again(m) \in SUBSET Indices(sent[m]) /\ Again(m)' \in SUBSET Again(m)
    BY DEF Again
  <2>2. IsFiniteSet(Again(m)) /\ Cardinality(Again(m)) \in Nat
    BY <1>2, <2>1, IndicesFinite
  <2>3. /\ IsFiniteSet(Again(m)') /\ Cardinality(Again(m)') <= Cardinality(Again(m))
    BY <2>1, <2>2, FS_Subset
  <2> QED  BY <1>2, <2>2, <2>3, TimesFinite, FS_CardinalityType
<1>5. ASSUME NEW m \in 1..Len(sent), Times(m)' # {}
      PROVE  /\ \A j \in Indices(sent[m]) : <<m, j>> \in delivered
             /\ Cardinality(Times(m)') + Cardinality(Again(m)') <= 1 + copies
  <2>1. Times(m)' = Times(m)  BY <1>3
  <2>2. /\ \A j \in Indices(sent[m]) : <<m, j>> \in delivered
        /\ Cardinality(Times(m)) + Cardinality(Again(m)) <= 1 + copies
    BY <1>1, <1>5, <2>1
  <2> QED  BY <1>2, <1>4, <2>1, <2>2
<1>6. \A m \in 1..Len(sent) : Cardinality(Again(m)') <= copies
  BY <1>1, <1>2, <1>4
<1>7. \A m \in Frame \ (1..Len(sent)) : Times(m)' = {}
  BY <1>1, <1>3
<1> QED  BY <1>5, <1>6, <1>7

LEMMA SendFrameRepeats ==
  ASSUME EdiInv, Repeats, SendFrame PROVE Repeats'
<1>1. PICK n \in Fcounts :
        /\ sent' = Append(sent, n)
        /\ inflight' = inflight \cup {<<Len(sent) + 1, i>> : i \in Indices(n)}
  BY DEF SendFrame
<1>2. UNCHANGED <<delivered, copies, written>> /\ TypeOK /\ copies \in Nat
  BY DEF SendFrame, EdiInv, TypeOK
<1>3. /\ Len(sent') = Len(sent) + 1 /\ Len(sent) \in Nat
      /\ \A k \in 1..Len(sent) : sent'[k] = sent[k]
  BY <1>1, <1>2 DEF TypeOK
<1>4. \A m : Times(m)' = Times(m)  BY <1>2 DEF Times
<1>5. \A m \in 1..Len(sent) : Again(m)' = Again(m)
  BY <1>1, <1>2, <1>3 DEF Again
<1>6. PICK k \in Nat : k = Len(sent) + 1  BY <1>3
<1>7. Again(k)' = {}
  <2>1. \A f \in delivered : f[1] \in 1..Len(sent)  BY DEF EdiInv, PacketsSent
  <2>2. \A i : <<k, i>> \notin delivered  BY <1>3, <1>6, <2>1
  <2> QED  BY <1>2, <2>2 DEF Again
<1>8. SUFFICES ASSUME ~PseqReused'
               PROVE  /\ \A m \in Frame \ (1..Len(sent')) : Times(m)' = {}
                      /\ \A m \in 1..Len(sent') :
                           /\ Cardinality(Again(m)') <= copies
                           /\ Times(m)' # {} =>
                                /\ \A j \in Indices(sent'[m]) : <<m, j>> \in delivered
                                /\ Cardinality(Times(m)') + Cardinality(Again(m)')
                                     <= 1 + copies
  BY <1>2 DEF Repeats, Indices
<1>9. /\ \A m \in Frame \ (1..Len(sent)) : Times(m) = {}
      /\ \A m \in 1..Len(sent) :
           /\ Cardinality(Again(m)) <= copies
           /\ Times(m) # {} =>
                /\ \A j \in Indices(sent[m]) : <<m, j>> \in delivered
                /\ Cardinality(Times(m)) + Cardinality(Again(m)) <= 1 + copies
  BY <1>2, <1>8 DEF Repeats, PseqReused
<1>10. k \in Frame \ (1..Len(sent))
  BY <1>3, <1>6 DEF SendFrame, Frame
<1>11. Times(k)' = {}  BY <1>4, <1>9, <1>10
<1>12. Cardinality({}) = 0  BY FS_EmptySet
<1>13. ASSUME NEW m \in 1..Len(sent')
       PROVE  /\ Cardinality(Again(m)') <= copies
              /\ Times(m)' # {} =>
                   /\ \A j \in Indices(sent'[m]) : <<m, j>> \in delivered
                   /\ Cardinality(Times(m)') + Cardinality(Again(m)') <= 1 + copies
  <2>1. CASE m = k
    <3>1. Again(m)' = {}  BY <1>7, <2>1 DEF Again
    <3>2. Times(m)' = {}  BY <1>11, <2>1 DEF Times
    <3> QED  BY <1>2, <1>12, <3>1, <3>2
  <2>2. CASE m \in 1..Len(sent)
    BY <1>3, <1>4, <1>5, <1>9, <2>2
  <2> QED  BY <1>3, <1>6, <2>1, <2>2
<1> QED  BY <1>3, <1>4, <1>9, <1>13

LEMMA RepeatsStep == EdiInv /\ Repeats /\ [Next]_vars => Repeats'
<1> SUFFICES ASSUME EdiInv, Repeats, [Next]_vars
             PROVE  Repeats'
  OBVIOUS
<1> TRUE \in BOOLEAN /\ FALSE \in BOOLEAN  OBVIOUS
<1>1. CASE SendFrame  BY <1>1, SendFrameRepeats
<1>2. CASE ReadPacket
  <2>1. PICK f \in inflight : Read(f, FALSE) /\ inflight' = inflight \ {f}
    BY <1>2 DEF ReadPacket
  <2> QED  BY <1>2, <2>1, ReadRepeats DEF ReadPacket
<1>3. CASE ReadCopy
  <2>1. PICK f \in inflight : Read(f, FALSE)  BY <1>3 DEF ReadCopy
  <2> QED  BY <1>3, <2>1, ReadRepeats DEF ReadCopy
<1>4. CASE ReadCut
  <2>1. PICK f \in inflight :
          /\ inflight' = inflight \ {f}
          /\ (Raise /\ UNCHANGED <<delivered, defragmenters>>) \/ Read(f, TRUE)
    BY <1>4 DEF ReadCut
  <2>2. CASE Raise /\ UNCHANGED <<delivered, defragmenters>>
    BY <1>4, <2>1, <2>2, OthersRepeat DEF ReadCut, Raise
  <2>3. CASE Read(f, TRUE)
    BY <1>4, <2>1, <2>3, ReadRepeats DEF ReadCut
  <2> QED  BY <2>1, <2>2, <2>3
<1>5. CASE ReadOther \/ UNCHANGED vars
  BY <1>5, OthersRepeat DEF ReadOther, vars, network
<1>6. CASE Lose
  BY <1>6, OthersRepeat DEF Lose
<1> QED  BY <1>1, <1>2, <1>3, <1>4, <1>5, <1>6 DEF Next

LEMMA RepeatsImpliesWrittenOnce == EdiInv /\ Repeats => WrittenOnce
<1> SUFFICES ASSUME EdiInv, Repeats, ~PseqReused, NEW k \in Frame
             PROVE  Cardinality(Times(k)) <= 1 + copies
  BY DEF WrittenOnce, Times
<1>1. TypeOK /\ copies \in Nat  BY DEF EdiInv, TypeOK
<1>2. CASE Times(k) = {}
  BY <1>1, <1>2, FS_EmptySet
<1>3. CASE Times(k) # {}
  <2>1. k \in 1..Len(sent)  BY <1>3 DEF Repeats
  <2>2. Cardinality(Times(k)) + Cardinality(Again(k)) <= 1 + copies
    BY <1>3, <2>1 DEF Repeats
  <2>3. Again(k) \in SUBSET Indices(sent[k])  BY DEF Again
  <2> QED  BY <1>1, <2>1, <2>2, <2>3, TimesFinite, IndicesFinite
<1> QED  BY <1>2, <1>3

\* Until a Pseq comes back, a frame is written again only for a duplicate: at most
\* once, and once more for each, however the packets of the frames are mixed
\* (Defragmenter.push_fragment calls back at every fragment of a complete frame).
THEOREM EdiWrittenOnce == Spec => []WrittenOnce
<1>1. Init => Repeats
  BY DEF Init, Repeats, Times
<1>2. Spec => [](EdiInv /\ Repeats)
  BY <1>1, EdiInit, EdiStep, RepeatsStep, PTL DEF Spec
<1> QED  BY <1>2, RepeatsImpliesWrittenOnce, PTL

\* Both parts of the run's invariant: the types, and whole frames until a Pseq
\* comes back.
THEOREM EdiFrames == Spec => []FrameInv
  BY EdiTypeCorrect, EdiIntact, PTL DEF FrameInv
===============================================================================
