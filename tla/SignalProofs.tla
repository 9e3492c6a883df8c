---------------------------- MODULE SignalProofs ----------------------------
(***************************************************************************)
(* Proofs about the two programs that look at a signal.                    *)
(*                                                                         *)
(* The subscriber of module ZmqSub, for every number of frames in a        *)
(* second, from three messages on, and any losses: the time it shows is    *)
(* right, and it recovers.                                                 *)
(*                                                                         *)
(* The TII decoder of module Tii, for all transmitters, any fading and all *)
(* sizes of symbols and files: a transmitter is told from its carriers,    *)
(* because a carrier belongs to one comb and one of the eight places in a  *)
(* pattern; the NULL symbol is found, because the first loud sample after  *)
(* half a NULL symbol of silence follows its end.                          *)
(***************************************************************************)
EXTENDS ZmqSub, Tii, FiniteSetTheorems, TLAPS

\* A number is put together again from the two parts of a time.
LEMMA TimeParts ==
  ASSUME NEW x \in Nat
  PROVE  /\ x % LowBase \in Nat /\ x \div LowBase \in Nat
         /\ (x \div LowBase) * LowBase + (x % LowBase) = x
<1>1. \A b \in Nat \ {0} : x % b \in Nat /\ x \div b \in Nat
  OBVIOUS
<1>2. \A b \in Nat \ {0} : b * (x \div b) + (x % b) = x
  OBVIOUS
<1>3. \A a, b \in Nat : a * b = b * a
  OBVIOUS
<1>4. LowBase \in Nat \ {0}
  BY ZmqSubAssumption DEF ZmqSubAssumption
<1>5. QED
  BY <1>1, <1>2, <1>3, <1>4

LEMMA TimesAreNat ==
  ASSUME NEW fields \in [low : Nat, high : Nat]
  PROVE  Mktime(fields) \in Nat
<1>1. \A a, b \in Nat : a * b \in Nat
  OBVIOUS
<1>2. fields.low \in Nat /\ fields.high \in Nat /\ LowBase \in Nat
  BY ZmqSubAssumption DEF ZmqSubAssumption
<1>3. fields.high * LowBase \in Nat
  BY <1>1, <1>2
<1>4. QED
  BY <1>2, <1>3 DEF Mktime

\* The frame phase and the place in the second go round.
LEMMA Round ==
  ASSUME TypeOK, NextFrame
  PROVE  /\ dlfc' = IF dlfc = 3 THEN 0 ELSE dlfc + 1
         /\ tist' = IF tist = FramesPerSecond - 1 THEN 0 ELSE tist + 1
         /\ second' = IF tist = FramesPerSecond - 1 THEN second + 1 ELSE second
<1> USE ZmqSubAssumption DEF ZmqSubAssumption, NUM_FRAMES_PER_ZMQ_MESSAGE
<1>1. FramesPerSecond \in Nat /\ FramesPerSecond >= 12
  OBVIOUS
<1>2. \A f \in Nat : \A t \in 0..(f - 1) :
        (t + 1) % f = IF t = f - 1 THEN 0 ELSE t + 1
  OBVIOUS
<1>3. tist' = IF tist = FramesPerSecond - 1 THEN 0 ELSE tist + 1
  BY <1>1, <1>2 DEF TypeOK, NextFrame
<1>4. dlfc' = IF dlfc = 3 THEN 0 ELSE dlfc + 1
  BY DEF TypeOK, NextFrame
<1>5. QED
  BY <1>1, <1>3, <1>4 DEF TypeOK, NextFrame

\* The next frame is in the same message, or begins one received or one lost.
LEMMA Messages ==
  ASSUME dropped \in BOOLEAN, NextMessage
  PROVE
    \/ left > 0 /\ left' = left - 1 /\ (dropped' <=> dropped) /\ in_a_row' = in_a_row
    \/ ~(left > 0) /\ left' = NUM_FRAMES_PER_ZMQ_MESSAGE - 1 /\ ~dropped' /\ in_a_row' = 0
    \/ ~(left > 0) /\ left' = NUM_FRAMES_PER_ZMQ_MESSAGE - 1 /\ dropped'
       /\ in_a_row' = in_a_row + 1
BY Zenon DEF NextMessage

-----------------------------------------------------------------------------
(* Types                                                                   *)

LEMMA FrameTypes == ASSUME TypeOK, Frame PROVE TypeOK'
<1> USE ZmqSubAssumption DEF ZmqSubAssumption, NUM_FRAMES_PER_ZMQ_MESSAGE
<1>1. NextFrame /\ NextMessage /\ History /\ second < MaxSecond
  BY DEF Frame
<1>2. /\ dlfc' \in 0..3 /\ tist' \in 0..(FramesPerSecond - 1)
      /\ second' \in 0..MaxSecond
  BY <1>1, Round DEF TypeOK
<1>3. mnsc_kind' \in Kinds /\ latched' \in 0..MaxSecond
  <2>1. CASE dlfc' = 0
    BY <1>1, <1>2, <2>1 DEF NextFrame
  <2>2. CASE dlfc' # 0
    BY <1>1, <2>2 DEF NextFrame, TypeOK
  <2>3. QED
    BY <2>1, <2>2
<1>4. /\ left' \in 0..3 /\ dropped' \in BOOLEAN
      /\ in_a_row' \in 0..MaxLostInARow /\ outages' \in 0..MaxOutages
  <2>1. dropped' \in BOOLEAN
    BY <1>1, Zenon DEF TypeOK, NextMessage
  <2>2. left' \in 0..3 /\ in_a_row' \in 0..MaxLostInARow
    BY <1>1 DEF TypeOK, NextMessage
  <2>3. outages' \in 0..MaxOutages
    BY <1>1 DEF TypeOK, NextMessage
  <2>4. QED
    BY <2>1, <2>2, <2>3
<1>5. clean' \in 0..MaxClean /\ gap' \in BOOLEAN
  BY <1>1 DEF History, TypeOK, MaxClean
<1>6. CASE dropped'
  BY <1>2, <1>3, <1>4, <1>5, <1>6 DEF Frame, TypeOK, decoder
<1>7. CASE ~dropped'
  <2>1. GetTist
    BY <1>7 DEF Frame
  <2>2. Enable \in BOOLEAN
    BY <1>2, <1>3 DEF TypeOK, Enable
  <2>3. Fields \in [low : Nat, high : Nat]
    <3>1. latched' % LowBase \in Nat /\ latched' \div LowBase \in Nat
      <4>1. latched' \in Nat
        BY <1>3
      <4>2. QED
        BY <4>1, TimeParts, Zenon
    <3>2. QED
      BY <1>2, <3>1 DEF TypeOK, Fields
  <2>4. InhibitAfter \in 0..SkippedTimes
    BY DEF TypeOK, InhibitAfter, InhibitNow, SkippedTimes
  <2>5. Mktime(Fields) \in Nat
    BY <2>3, TimesAreNat
  <2>6. time_secs' \in Nat /\ full_timestamp_received' \in BOOLEAN
    <3>1. full_timestamp_received' \in BOOLEAN
      BY <2>1, Zenon DEF TypeOK, GetTist
    <3>2. SecondsNow \in Nat
      BY DEF TypeOK, SecondsNow
    <3>3. time_secs' \in {Mktime(Fields), SecondsNow}
      BY <2>1 DEF GetTist
    <3>4. QED
      BY <2>5, <3>1, <3>2, <3>3
  <2>7. QED
    BY <1>2, <1>3, <1>4, <1>5, <2>1, <2>2, <2>3, <2>4, <2>6 DEF TypeOK, GetTist
<1>8. QED
  BY <1>6, <1>7

\* The numbers of a frame and of the next one.
LEMMA Numbers ==
  ASSUME ZmqSubInv, Frame
  PROVE  /\ FramesPerSecond \in Nat /\ FramesPerSecond >= 12
         /\ dlfc \in 0..3 /\ tist \in Nat /\ tist < FramesPerSecond /\ second \in Nat
         /\ dlfc' \in 0..3 /\ tist' \in Nat /\ tist' < FramesPerSecond /\ second' \in Nat
         /\ dlfc' = IF dlfc = 3 THEN 0 ELSE dlfc + 1
         /\ tist' = IF tist = FramesPerSecond - 1 THEN 0 ELSE tist + 1
         /\ second' = IF tist = FramesPerSecond - 1 THEN second + 1 ELSE second
<1>1. FramesPerSecond \in Nat /\ FramesPerSecond >= 12
  BY ZmqSubAssumption DEF ZmqSubAssumption, NUM_FRAMES_PER_ZMQ_MESSAGE
<1>2. TypeOK /\ NextFrame
  BY DEF ZmqSubInv, Frame
<1>3. dlfc \in 0..3 /\ tist \in Nat /\ tist < FramesPerSecond /\ second \in Nat
  BY <1>1, <1>2, ZmqSubAssumption DEF TypeOK, ZmqSubAssumption
<1>4. /\ dlfc' = IF dlfc = 3 THEN 0 ELSE dlfc + 1
      /\ tist' = IF tist = FramesPerSecond - 1 THEN 0 ELSE tist + 1
      /\ second' = IF tist = FramesPerSecond - 1 THEN second + 1 ELSE second
  BY <1>2, Round
<1>5. QED
  BY <1>1, <1>3, <1>4

-----------------------------------------------------------------------------
(* What the decoder sees                                                   *)

\* Phases of lost frames are skipped by whole messages; without a gap the last
\* second the decoder saw stays the one to count from.
LEMMA Skipped ==
  ASSUME ZmqSubInv, Frame, dropped'
  PROVE  /\ UNCHANGED decoder /\ clean' = 0 /\ in_a_row' > 0
         /\ Lost' = Lost + 1 /\ LastPhase' = LastPhase /\ Lost \in Nat
         /\ ~gap' => /\ ~gap /\ mnsc_kind' = "time"
                     /\ in_a_row' * NUM_FRAMES_PER_ZMQ_MESSAGE + 1 < FramesPerSecond
                     /\ Lost' < FramesPerSecond /\ LastSecond' = LastSecond
<1> USE ZmqSubAssumption DEF ZmqSubAssumption, NUM_FRAMES_PER_ZMQ_MESSAGE
<1>1. /\ TypeOK /\ MuxLatched /\ TypeOK' /\ NextFrame /\ NextMessage /\ History
      /\ UNCHANGED decoder
  BY FrameTypes DEF ZmqSubInv, Frame
<1>2. /\ dlfc' = IF dlfc = 3 THEN 0 ELSE dlfc + 1
      /\ tist' = IF tist = FramesPerSecond - 1 THEN 0 ELSE tist + 1
      /\ second' = IF tist = FramesPerSecond - 1 THEN second + 1 ELSE second
  BY <1>1, Round
<1>3. clean' = 0
  BY <1>1 DEF History
<1>4. \/ /\ dropped /\ left > 0 /\ left' = left - 1 /\ in_a_row' = in_a_row
      \/ /\ dropped /\ left = 0 /\ left' = 3 /\ in_a_row' = in_a_row + 1
      \/ /\ ~dropped /\ left = 0 /\ left' = 3 /\ in_a_row' = 1 /\ in_a_row = 0
  BY <1>1, Messages DEF TypeOK, MuxLatched
<1>5. /\ dropped => Lost = in_a_row * 4 - left
      /\ ~dropped => Lost = 0
      /\ Lost' = in_a_row' * 4 - left'
  BY DEF Lost
<1>6. /\ in_a_row \in Nat /\ left \in 0..3 /\ in_a_row' \in Nat /\ left' \in 0..3
      /\ dropped => in_a_row > 0
  BY <1>1 DEF TypeOK, MuxLatched
<1>7. Lost' = Lost + 1 /\ in_a_row' > 0
  BY <1>4, <1>5, <1>6
<1>8. LastPhase' = LastPhase
  BY <1>1, <1>2, <1>4 DEF LastPhase, TypeOK
<1>9. ASSUME ~gap'
      PROVE  /\ ~gap /\ mnsc_kind' = "time"
             /\ in_a_row' * 4 + 1 < FramesPerSecond
             /\ Lost' < FramesPerSecond - 1 /\ LastSecond' = LastSecond
  <2>1. /\ ~gap /\ mnsc_kind' = "time" /\ in_a_row' * 4 + 1 < FramesPerSecond
    <3>1. clean' # MaxClean
      BY <1>3 DEF MaxClean
    <3>2. /\ ~(gap \/ (dropped' /\ mnsc_kind' # "time"))
          /\ ~(in_a_row' * NUM_FRAMES_PER_ZMQ_MESSAGE + 1 >= FramesPerSecond)
      BY <1>1, <1>9, <3>1, Zenon DEF History
    <3>3. ~gap /\ mnsc_kind' = "time"
      BY <3>2, Zenon
    <3>4. in_a_row' * 4 + 1 < FramesPerSecond
      <4>1. \A r, f \in Nat : ~(r * 4 + 1 >= f) => r * 4 + 1 < f
        OBVIOUS
      <4>2. QED
        BY <1>6, <3>2, <4>1
    <3>5. QED
      BY <3>3, <3>4
  <2>2. Lost' < FramesPerSecond - 1 /\ Lost \in Nat /\ Lost' \in Nat
    <3>1. in_a_row' * 4 + 1 < FramesPerSecond
      BY <2>1
    <3>2. Lost \in Nat
      BY <1>5, <1>6
    <3>3. \A r, l, f \in Nat : r * 4 + 1 < f => r * 4 - l < f - 1
      OBVIOUS
    <3>4. in_a_row' * 4 - left' < FramesPerSecond - 1
      <4>1. in_a_row' \in Nat /\ left' \in Nat /\ FramesPerSecond \in Nat
        BY <1>6
      <4>2. QED
        BY <3>1, <3>3, <4>1, Zenon
    <3>5. QED
      BY <1>7, <1>5, <3>2, <3>4
  <2>3. LastSecond' = LastSecond
    BY <1>1, <1>2, <1>7, <2>2 DEF LastSecond, TypeOK
  <2>4. QED
    BY <2>1, <2>2, <2>3
<1>10. Lost \in Nat
  BY <1>5, <1>6
<1>11. QED
  BY <1>1, <1>3, <1>7, <1>8, <1>9, <1>10

\* The next frame received has the next phase, and the decoder notices whether a
\* second has begun since the one before.
LEMMA ReceivedIs ==
  ASSUME ZmqSubInv, Frame, ~dropped'
  PROVE  /\ GetTist /\ Lost' = 0 /\ LastSecond' = second' /\ LastPhase' = dlfc'
         /\ in_a_row' = 0
         /\ dlfc' = IF LastPhase = 3 THEN 0 ELSE LastPhase + 1
         /\ (enableDecode \/ full_timestamp_received) /\ Tracked =>
              /\ second' = IF SecondCrossed THEN LastSecond + 1 ELSE LastSecond
              /\ ~SecondCrossed => tist' > Lost
              /\ ~dropped => (SecondCrossed <=> tist' = 0)
<1> USE ZmqSubAssumption DEF ZmqSubAssumption, NUM_FRAMES_PER_ZMQ_MESSAGE
<1>1. /\ TypeOK /\ MuxLatched /\ TypeOK' /\ NextFrame /\ NextMessage /\ History
      /\ GetTist /\ PpsFollows /\ EnabledForTimes
  BY FrameTypes DEF ZmqSubInv, Frame
<1>2. /\ dlfc' = IF dlfc = 3 THEN 0 ELSE dlfc + 1
      /\ tist' = IF tist = FramesPerSecond - 1 THEN 0 ELSE tist + 1
      /\ second' = IF tist = FramesPerSecond - 1 THEN second + 1 ELSE second
  BY <1>1, Round
<1>3. Lost' = 0 /\ LastPhase' = dlfc'
  BY DEF Lost, LastPhase
<1>4. LastSecond' = second'
  BY <1>1, <1>2, <1>3 DEF LastSecond, TypeOK
<1>5. in_a_row' = 0
  BY <1>1, Messages DEF MuxLatched, TypeOK
<1>6. dropped => left = 0
  BY <1>1, Messages DEF TypeOK
<1>7. dlfc' = IF LastPhase = 3 THEN 0 ELSE LastPhase + 1
  BY <1>1, <1>2, <1>6 DEF LastPhase, TypeOK
<1>8. ASSUME enableDecode \/ full_timestamp_received, Tracked
      PROVE  /\ second' = IF SecondCrossed THEN LastSecond + 1 ELSE LastSecond
             /\ ~SecondCrossed => tist' > Lost
             /\ ~dropped => (SecondCrossed <=> tist' = 0)
  <2>1. time_pps = IF tist < Lost THEN tist - Lost + FramesPerSecond ELSE tist - Lost
    BY <1>1, <1>8 DEF PpsFollows
  <2>2. Lost \in Nat /\ Lost + 1 < FramesPerSecond /\ (~dropped => Lost = 0)
    BY <1>1, <1>6, <1>8 DEF Lost, TypeOK, EnabledForTimes, Tracked
  <2>3. QED
    BY <1>1, <1>2, <2>1, <2>2 DEF SecondCrossed, LastSecond, TypeOK
<1>9. QED
  BY <1>1, <1>3, <1>4, <1>5, <1>7, <1>8

LEMMA LastPhaseType == ASSUME ZmqSubInv PROVE LastPhase \in 0..3
BY DEF ZmqSubInv, TypeOK, LastPhase, NUM_FRAMES_PER_ZMQ_MESSAGE

\* When a message is received, those lost before it were lost to their end.
LEMMA ReceivedLost ==
  ASSUME ZmqSubInv, Frame, ~dropped'
  PROVE  Lost \in Nat /\ (dropped => Lost > 0) /\ (~dropped => Lost = 0)
<1>1. TypeOK /\ MuxLatched /\ NextMessage
  BY DEF ZmqSubInv, Frame
<1>2. dropped => left = 0 /\ in_a_row > 0
  BY <1>1, Messages DEF TypeOK, MuxLatched
<1>3. in_a_row \in Nat
  BY <1>1, ZmqSubAssumption DEF TypeOK, ZmqSubAssumption
<1>4. \A r \in Nat : r > 0 => r * 4 - 0 \in Nat /\ r * 4 - 0 > 0
  OBVIOUS
<1>5. dropped => Lost = in_a_row * 4 - 0
  BY <1>2 DEF Lost, NUM_FRAMES_PER_ZMQ_MESSAGE
<1>6. ~dropped => Lost = 0
  BY DEF Lost
<1>7. QED
  BY <1>2, <1>3, <1>4, <1>5, <1>6

-----------------------------------------------------------------------------
(* Each part of the invariant is kept                                      *)

LEMMA MuxStays == ASSUME ZmqSubInv, Frame PROVE MuxLatched'
<1> USE ZmqSubAssumption DEF ZmqSubAssumption, NUM_FRAMES_PER_ZMQ_MESSAGE
<1>1. TypeOK /\ MuxLatched /\ TypeOK' /\ NextFrame /\ NextMessage
  BY FrameTypes DEF ZmqSubInv, Frame
<1>2. ASSUME mnsc_kind' = "time"
      PROVE  latched' = IF tist' < dlfc' THEN second' - 1 ELSE second'
  <2>1. CASE dlfc' = 0
    <3>1. latched' = second'
      BY <1>1, <1>2, <2>1 DEF NextFrame
    <3>2. QED
      BY <2>1, <3>1, Numbers
  <2>2. CASE dlfc' # 0
    <3>1. latched' = latched /\ mnsc_kind = "time"
      BY <1>1, <1>2, <2>2 DEF NextFrame
    <3>2. QED
      BY <1>1, <2>2, <3>1, Numbers DEF MuxLatched
  <2>3. QED
    BY <2>1, <2>2
<1>3. dropped' <=> in_a_row' > 0
  BY <1>1, Messages DEF MuxLatched, TypeOK
<1>4. QED
  BY <1>2, <1>3 DEF MuxLatched

LEMMA PpsStays == ASSUME ZmqSubInv, Frame PROVE PpsFollows'
<1> USE ZmqSubAssumption DEF ZmqSubAssumption, NUM_FRAMES_PER_ZMQ_MESSAGE
<1>1. TypeOK /\ TypeOK' /\ NextFrame /\ PpsFollows
  BY FrameTypes DEF ZmqSubInv, Frame
<1>2. CASE dropped'
  <2>1. SUFFICES ASSUME (enableDecode \/ full_timestamp_received)', Tracked'
                 PROVE  time_pps' = IF tist' < Lost' THEN tist' - Lost' + FramesPerSecond
                                    ELSE tist' - Lost'
    BY DEF PpsFollows
  <2>2. ~gap' /\ UNCHANGED decoder
    BY <1>2, <2>1, Skipped DEF Tracked
  <2>3. ~gap /\ (enableDecode \/ full_timestamp_received) /\ time_pps' = time_pps
    BY <1>2, <2>1, <2>2, Skipped DEF decoder
  <2>4. time_pps = IF tist < Lost THEN tist - Lost + FramesPerSecond ELSE tist - Lost
    BY <1>1, <2>3 DEF PpsFollows, Tracked
  <2>5. Lost \in Nat /\ Lost' = Lost + 1 /\ Lost' < FramesPerSecond
    BY <1>2, <2>2, Skipped
  <2>6. QED
    BY <2>3, <2>4, <2>5, Numbers
<1>3. CASE ~dropped'
  <2>1. time_pps' = tist' /\ Lost' = 0
    BY <1>3, ReceivedIs DEF GetTist
  <2>2. QED
    BY <2>1, Numbers DEF PpsFollows
<1>4. QED
  BY <1>2, <1>3

\* When the decoder begins to follow, after a gap, a time has just been read.
LEMMA TrackedSince ==
  ASSUME ZmqSubInv, Frame, ~dropped', Tracked'
  PROVE  Tracked \/ (dlfc' = 3 /\ clean' = 1 /\ mnsc_kind' = "time")
<1>1. TypeOK /\ History
  BY DEF ZmqSubInv, Frame
<1>2. CASE clean > 0
  BY <1>2 DEF Tracked
<1>3. CASE clean = 0
  <2>1. clean' = 0 \/ (dlfc' = 3 /\ clean' = 1 /\ mnsc_kind' = "time")
    BY <1>1, <1>3 DEF History, MaxClean
  <2>2. gap => gap' \/ clean' = MaxClean
    BY <1>1, Zenon DEF History
  <2>3. clean' = 0 => Tracked
    BY <2>2 DEF Tracked, MaxClean
  <2>4. QED
    BY <2>1, <2>3
<1>4. QED
  BY <1>1, <1>2, <1>3 DEF TypeOK

LEMMA EnableByPhase ==
  /\ dlfc' = 0 => (Enable <=> mnsc_kind' # "other")
  /\ dlfc' = 1 => (Enable <=> enableDecode /\ mnsc_kind' # "unsynchronised")
  /\ dlfc' \notin {0, 1} => (Enable <=> enableDecode)
BY DEF Enable

LEMMA EnabledStays == ASSUME ZmqSubInv, Frame PROVE EnabledForTimes'
<1>1. /\ TypeOK /\ TypeOK' /\ NextFrame /\ EnabledForTimes /\ History
  BY FrameTypes DEF ZmqSubInv, Frame
<1>2. CASE dropped'
  <2>1. UNCHANGED decoder /\ clean' = 0
    BY <1>2, Skipped
  <2>2. Tracked' => ~gap'
    BY <2>1 DEF Tracked
  <2>3. ~gap' => /\ mnsc_kind' = "time"
                 /\ in_a_row' * NUM_FRAMES_PER_ZMQ_MESSAGE + 1 < FramesPerSecond
    BY <1>2, Skipped
  <2>4. QED
    BY <2>1, <2>2, <2>3 DEF EnabledForTimes
<1>3. CASE ~dropped'
  <2>1. (enableDecode' <=> Enable) /\ dlfc' = IF dlfc = 3 THEN 0 ELSE dlfc + 1
    BY <1>1, <1>3, ReceivedIs, Round DEF GetTist
  <2>2. dlfc' # 0 => mnsc_kind' = mnsc_kind
    BY <1>1 DEF NextFrame
  <2>3. ASSUME enableDecode', Tracked'
        PROVE  mnsc_kind' # "other" /\ (dlfc' # 0 => mnsc_kind' = "time")
    <3>1. CASE dlfc' = 0
      BY <2>1, <2>3, <3>1, EnableByPhase
    <3>2. CASE dlfc' # 0 /\ Tracked
      <4>1. enableDecode /\ (dlfc' = 1 => mnsc_kind' # "unsynchronised")
        BY <1>1, <2>1, <2>3, <3>2, EnableByPhase DEF TypeOK
      <4>2. mnsc_kind # "other" /\ (dlfc # 0 => mnsc_kind = "time")
        BY <1>1, <3>2, <4>1 DEF EnabledForTimes
      <4>3. mnsc_kind' = mnsc_kind /\ mnsc_kind' \in Kinds
        BY <1>1, <2>2, <3>2 DEF TypeOK
      <4>4. dlfc' = 1 \/ dlfc # 0
        BY <1>1, <2>1, <3>2 DEF TypeOK
      <4>5. QED
        BY <4>1, <4>2, <4>3, <4>4 DEF Kinds
    <3>3. CASE mnsc_kind' = "time"
      BY <3>3
    <3>4. QED
      BY <1>3, <2>3, <3>1, <3>2, <3>3, TrackedSince
  <2>4. clean' > 0 => mnsc_kind' = "time"
    BY <1>1 DEF History
  <2>5. ASSUME clean' > 1 \/ (clean' = 1 /\ dlfc' # 3)
        PROVE  enableDecode'
    <3>1. mnsc_kind' = "time" /\ clean' = IF dlfc' = 3 /\ clean < MaxClean
                                           THEN clean + 1 ELSE clean
      BY <1>1, <1>3, <2>5 DEF History
    <3>2. dlfc = 3 \/ enableDecode
      BY <1>1, <2>1, <2>5, <3>1 DEF EnabledForTimes, TypeOK, MaxClean
    <3>3. dlfc = 3 => dlfc' = 0
      BY <2>1
    <3>4. QED
      BY <2>1, <3>1, <3>2, <3>3, EnableByPhase
  <2>6. QED
    BY <1>3, <2>3, <2>4, <2>5 DEF EnabledForTimes
<1>4. QED
  BY <1>2, <1>3

\* Where the fields are current the second has not begun since phase 0.
LEMMA FieldsStay == ASSUME ZmqSubInv, Frame PROVE FieldsCurrent'
<1>1. /\ TypeOK /\ TypeOK' /\ FieldsCurrent /\ EnabledForTimes' /\ MuxLatched'
  BY FrameTypes, EnabledStays, MuxStays DEF ZmqSubInv
<1>2. SUFFICES ASSUME enableDecode', Tracked', inhibit_second_update' < SkippedTimes
      PROVE  /\ (LastPhase \in {1, 2} => temp_time.low = LastSecond % LowBase)'
             /\ (LastPhase = 2 => temp_time.high = LastSecond \div LowBase)'
             /\ (~dropped /\ dlfc = 1 => tist # 0)'
  BY DEF FieldsCurrent
<1>3. CASE dropped'
  <2>1. UNCHANGED decoder /\ ~gap'
    BY <1>2, <1>3, Skipped DEF Tracked
  <2>2. /\ LastPhase' = LastPhase /\ LastSecond' = LastSecond /\ ~gap
        /\ temp_time' = temp_time /\ enableDecode
        /\ inhibit_second_update < SkippedTimes
    BY <1>2, <1>3, <2>1, Skipped DEF decoder
  <2>3. /\ LastPhase \in {1, 2} => temp_time.low = LastSecond % LowBase
        /\ LastPhase = 2 => temp_time.high = LastSecond \div LowBase
    BY <1>1, <2>2 DEF FieldsCurrent, Tracked
  <2>4. QED
    BY <1>3, <2>2, <2>3
<1>4. CASE ~dropped' /\ dlfc' \in {1, 2}
  <2>1. /\ GetTist /\ LastSecond' = second' /\ LastPhase' = dlfc'
        /\ dlfc' = IF LastPhase = 3 THEN 0 ELSE LastPhase + 1
    BY <1>4, ReceivedIs
  <2>2. enableDecode /\ mnsc_kind' = "time"
    <3>1. enableDecode' <=> Enable
      BY <2>1 DEF GetTist
    <3>2. enableDecode
      BY <1>2, <1>4, <3>1, EnableByPhase
    <3>3. mnsc_kind' = "time"
      BY <1>1, <1>2, <1>4 DEF EnabledForTimes
    <3>4. QED
      BY <3>2, <3>3
  <2>3. Tracked
    BY <1>2, <1>4, TrackedSince
  <2>4. ~SecondCrossed /\ inhibit_second_update < SkippedTimes
    <3>1. inhibit_second_update' = InhibitNow
      BY <1>4, <2>1 DEF GetTist, InhibitAfter, TimeComplete
    <3>2. QED
      BY <1>2, <3>1 DEF InhibitNow, SkippedTimes
  <2>5. second' = LastSecond /\ tist' > Lost /\ (~dropped => tist' # 0)
    BY <1>4, <2>2, <2>3, <2>4, ReceivedIs
  <2>6. Lost \in Nat /\ (dropped => Lost > 0) /\ (~dropped => Lost = 0)
    BY <1>4, ReceivedLost
  <2>7. CASE dlfc' = 1
    <3>1. tist' # 0
      BY <2>5, <2>6
    <3>2. latched' = second'
      BY <1>1, <2>2, <2>7, <3>1, Numbers DEF MuxLatched
    <3>3. temp_time'.low = latched' % LowBase
      BY <1>1, <2>1, <2>7 DEF GetTist, Fields, TypeOK
    <3>4. QED
      BY <2>1, <2>7, <3>1, <3>2, <3>3
  <2>8. CASE dlfc' = 2
    <3>1. LastPhase = 1
      BY <2>1, <2>8, LastPhaseType
    <3>2. temp_time.low = LastSecond % LowBase /\ (~dropped /\ dlfc = 1 => tist # 0)
      BY <1>1, <2>2, <2>3, <2>4, <3>1 DEF FieldsCurrent
    <3>3. tist' >= 2
      <4>1. dlfc = 1
        BY <2>8, Numbers
      <4>2. CASE dropped
        BY <2>5, <2>6, <4>2, Numbers
      <4>3. CASE ~dropped
        BY <2>5, <3>2, <4>1, <4>3, Numbers
      <4>4. QED
        BY <4>2, <4>3
    <3>4. latched' = second'
      BY <1>1, <2>2, <2>8, <3>3, Numbers DEF MuxLatched
    <3>5. temp_time'.high = latched' \div LowBase /\ temp_time'.low = temp_time.low
      BY <1>1, <2>1, <2>8 DEF GetTist, Fields, TypeOK
    <3>6. QED
      BY <2>1, <2>5, <2>8, <3>2, <3>4, <3>5
  <2>9. QED
    BY <1>4, <2>7, <2>8
<1>5. CASE ~dropped' /\ dlfc' \notin {1, 2}
  <2>1. LastPhase' = dlfc'
    BY <1>5, ReceivedIs
  <2>2. QED
    BY <1>5, <2>1
<1>6. QED
  BY <1>3, <1>4, <1>5

\* A time accepted is that of the frame that completes it.
LEMMA AcceptedIsRight ==
  ASSUME ZmqSubInv, Frame, ~dropped', enableDecode, Tracked, TimeComplete, InhibitNow = 0
  PROVE  time_secs' = second' /\ full_timestamp_received'
<1>1. /\ GetTist /\ dlfc' = 3 /\ LastPhase = 2
  <2>1. GetTist /\ dlfc' = 3
    BY ReceivedIs DEF TimeComplete
  <2>2. dlfc' = IF LastPhase = 3 THEN 0 ELSE LastPhase + 1
    BY ReceivedIs
  <2>3. QED
    BY <2>1, <2>2, LastPhaseType
<1>2. ~SecondCrossed /\ inhibit_second_update < SkippedTimes
  BY DEF InhibitNow, SkippedTimes
<1>3. second' = LastSecond /\ LastSecond \in Nat
  <2>1. second' = LastSecond
    BY <1>2, ReceivedIs
  <2>2. QED
    BY <2>1, Numbers
<1>4. temp_time.low = LastSecond % LowBase /\ temp_time.high = LastSecond \div LowBase
  BY <1>1, <1>2 DEF ZmqSubInv, FieldsCurrent
<1>5. Fields = temp_time
  BY <1>1 DEF Fields
<1>6. time_secs' = Mktime(temp_time) /\ full_timestamp_received'
  BY <1>1, <1>5 DEF GetTist
<1>7. QED
  BY <1>3, <1>4, <1>6, TimeParts DEF Mktime

\* A time shown follows the second whether it counts or accepts.
LEMMA ShownFollows ==
  ASSUME ZmqSubInv, Frame, ~dropped', Tracked,
         full_timestamp_received, time_secs = LastSecond
  PROVE  time_secs' = second' /\ full_timestamp_received'
<1>1. GetTist /\ (second' = IF SecondCrossed THEN LastSecond + 1 ELSE LastSecond)
  BY ReceivedIs
<1>2. CASE TimeComplete /\ InhibitNow = 0
  <2>1. enableDecode
    BY <1>2, EnableByPhase DEF TimeComplete
  <2>2. QED
    BY <1>2, <2>1, AcceptedIsRight
<1>3. CASE ~(TimeComplete /\ InhibitNow = 0)
  <2>1. time_secs' = SecondsNow /\ full_timestamp_received'
    BY <1>1, <1>3, Zenon DEF GetTist
  <2>2. QED
    BY <1>1, <2>1 DEF SecondsNow
<1>4. QED
  BY <1>2, <1>3

\* With each time read without a loss there is one less to skip.
LEMMA RecoveringStays == ASSUME ZmqSubInv, Frame PROVE Recovering'
<1>1. /\ TypeOK /\ TypeOK' /\ Recovering /\ EnabledForTimes /\ History
  BY FrameTypes DEF ZmqSubInv, Frame
<1>2. CASE clean' \in {0, 1}
  BY <1>2 DEF Recovering
<1>3. CASE clean' \notin {0, 1}
  <2>1. /\ ~dropped' /\ mnsc_kind' = "time"
        /\ clean' = IF dlfc' = 3 /\ clean < MaxClean THEN clean + 1 ELSE clean
    BY <1>1, <1>3 DEF History
  <2>2. clean \in 1..6 /\ (clean = 1 => dlfc' = 3)
    BY <1>1, <1>3, <2>1 DEF TypeOK, MaxClean
  <2>3. Tracked /\ ~dropped /\ enableDecode
    <3>1. Tracked /\ ~dropped
      BY <1>1, <2>2 DEF Tracked, EnabledForTimes
    <3>2. clean > 1 \/ (clean = 1 /\ dlfc # 3)
      BY <2>2, Numbers
    <3>3. QED
      BY <1>1, <3>1, <3>2 DEF EnabledForTimes
  <2>4. GetTist /\ (SecondCrossed <=> tist' = 0)
    BY <2>1, <2>3, ReceivedIs
  <2>5. LastSecond = second
    BY <2>3, Numbers DEF LastSecond, Lost
  <2>6. CASE full_timestamp_received /\ time_secs = second
    BY <2>1, <2>3, <2>5, <2>6, ShownFollows DEF Recovering
  <2>7. CASE TimeComplete /\ InhibitNow = 0
    BY <2>1, <2>3, <2>7, AcceptedIsRight DEF Recovering
  <2>8. CASE /\ ~(TimeComplete /\ InhibitNow = 0)
             /\ ~(full_timestamp_received /\ time_secs = second)
    <3>1. /\ inhibit_second_update \in 0..2 /\ InhibitNow \in 0..2
          /\ InhibitNow = IF tist' = 0 THEN 2 ELSE inhibit_second_update
      BY <1>1, <2>4 DEF TypeOK, InhibitNow, SkippedTimes
    <3>2. TimeComplete <=> dlfc' = 3
      BY <2>3, EnableByPhase DEF TimeComplete
    <3>3. /\ dlfc' = 3 => InhibitNow > 0 /\ inhibit_second_update' = InhibitNow - 1
          /\ dlfc' # 3 => inhibit_second_update' = InhibitNow
      <4>1. inhibit_second_update' = InhibitAfter
        BY <2>4 DEF GetTist
      <4>2. QED
        BY <2>8, <3>1, <3>2, <4>1 DEF InhibitAfter
    <3>4. PICK k \in 0..3 : k = (dlfc + 1) % 4
      BY Numbers
    <3>5. \/ dlfc' = 3 /\ k = 3 /\ (dlfc' + 1) % 4 = 0
          \/ dlfc' # 3 /\ k < 3 /\ (dlfc' + 1) % 4 = k + 1
      BY <3>4, Numbers
    <3>6. \/ clean = 1
          \/ clean = 2 /\ (inhibit_second_update = 2 => tist < k)
          \/ clean = 3 /\ (inhibit_second_update = 2 => tist < k)
                       /\ (inhibit_second_update = 1 => tist <= 3 + k)
          \/ clean = 4 /\ ~(inhibit_second_update = 2) /\ tist <= 7 + k
                       /\ (inhibit_second_update = 1 => tist <= 3 + k)
          \/ clean = 5 /\ inhibit_second_update = 0 /\ tist <= 7 + k
      BY <1>1, <2>2, <2>8, <3>4 DEF Recovering
    <3>7. /\ tist' = IF tist = FramesPerSecond - 1 THEN 0 ELSE tist + 1
          /\ tist \in Nat /\ FramesPerSecond \in Nat /\ FramesPerSecond >= 12
      BY Numbers
    <3>8. CASE dlfc' = 3
      <4>1. k = 3 /\ (dlfc' + 1) % 4 = 0 /\ clean' = clean + 1
        BY <2>1, <3>5, <3>6, <3>8 DEF MaxClean
      <4>2. \/ clean' = 2 /\ ~(inhibit_second_update' = 2)
            \/ clean' = 3 /\ ~(inhibit_second_update' = 2)
                          /\ (inhibit_second_update' = 1 => tist' <= 3)
            \/ clean' = 4 /\ ~(inhibit_second_update' = 2) /\ tist' <= 7
                          /\ (inhibit_second_update' = 1 => tist' <= 3)
            \/ clean' = 5 /\ inhibit_second_update' = 0 /\ tist' <= 7
        BY <3>1, <3>3, <3>6, <3>7, <3>8, <4>1
      <4>3. QED
        BY <4>1, <4>2 DEF Recovering
    <3>9. CASE dlfc' # 3
      <4>1. k < 3 /\ (dlfc' + 1) % 4 = k + 1 /\ clean' = clean /\ clean # 1
        BY <2>1, <2>2, <3>5, <3>9
      <4>2. \/ clean' = 2 /\ (inhibit_second_update' = 2 => tist' < k + 1)
            \/ clean' = 3 /\ (inhibit_second_update' = 2 => tist' < k + 1)
                          /\ (inhibit_second_update' = 1 => tist' <= 3 + (k + 1))
            \/ clean' = 4 /\ ~(inhibit_second_update' = 2) /\ tist' <= 7 + (k + 1)
                          /\ (inhibit_second_update' = 1 => tist' <= 3 + (k + 1))
            \/ clean' = 5 /\ inhibit_second_update' = 0 /\ tist' <= 7 + (k + 1)
        BY <3>1, <3>3, <3>6, <3>7, <3>9, <4>1
      <4>3. QED
        BY <4>1, <4>2 DEF Recovering
    <3>10. QED
      BY <3>8, <3>9
  <2>9. QED
    BY <2>6, <2>7, <2>8
<1>4. QED
  BY <1>2, <1>3

LEMMA SixTimesRead == ASSUME TypeOK, Recovering PROVE Recovers
BY DEF TypeOK, Recovering, Recovers, MaxClean

LEMMA SecondsStay == ASSUME ZmqSubInv, Frame PROVE SecondsFollow'
<1>1. SUFFICES ASSUME full_timestamp_received', ~gap'
               PROVE  time_secs' = LastSecond'
  BY DEF SecondsFollow
<1>2. CASE dropped'
  <2>1. UNCHANGED decoder /\ ~gap /\ LastSecond' = LastSecond
    BY <1>1, <1>2, Skipped
  <2>2. full_timestamp_received /\ time_secs' = time_secs
    BY <1>1, <2>1 DEF decoder
  <2>3. QED
    BY <2>1, <2>2 DEF ZmqSubInv, SecondsFollow
<1>3. CASE ~dropped'
  <2>1. GetTist /\ LastSecond' = second'
    BY <1>3, ReceivedIs
  <2>2. CASE clean' = MaxClean
    <3>1. TypeOK' /\ Recovering'
      BY FrameTypes, RecoveringStays DEF ZmqSubInv
    <3>2. time_secs' = second'
      BY <2>2, <3>1 DEF TypeOK, Recovering, MaxClean
    <3>3. QED
      BY <2>1, <3>2
  <2>3. CASE clean' # MaxClean
    <3>1. ~gap
      BY <1>1, <2>3, Zenon DEF Frame, History
    <3>2. Tracked
      BY <3>1 DEF Tracked
    <3>3. CASE TimeComplete /\ InhibitNow = 0
      <4>1. enableDecode
        BY <3>3, EnableByPhase DEF TimeComplete
      <4>2. QED
        BY <1>3, <2>1, <3>2, <3>3, <4>1, AcceptedIsRight
    <3>4. CASE ~(TimeComplete /\ InhibitNow = 0)
      <4>1. full_timestamp_received
        BY <1>1, <2>1, <3>4, Zenon DEF GetTist
      <4>2. time_secs = LastSecond
        BY <3>1, <4>1 DEF ZmqSubInv, SecondsFollow
      <4>3. QED
        BY <1>3, <2>1, <3>2, <4>1, <4>2, ShownFollows
    <3>5. QED
      BY <3>3, <3>4
  <2>4. QED
    BY <2>2, <2>3
<1>4. QED
  BY <1>2, <1>3

LEMMA FrameInv == ASSUME ZmqSubInv, Frame PROVE ZmqSubInv'
<1>1. TypeOK' /\ SecondsFollow'
  BY FrameTypes, SecondsStay DEF ZmqSubInv
<1>2. SecondsRight'
  <2>1. CASE dropped'
    BY <2>1 DEF SecondsRight
  <2>2. CASE ~dropped'
    BY <1>1, <2>2, ReceivedIs DEF SecondsRight, SecondsFollow
  <2>3. QED
    BY <2>1, <2>2
<1>3. QED
  BY <1>1, <1>2, MuxStays, PpsStays, EnabledStays, FieldsStay, RecoveringStays
     DEF ZmqSubInv

LEMMA InitInv == ASSUME Init PROVE ZmqSubInv
<1> USE ZmqSubAssumption DEF ZmqSubAssumption, NUM_FRAMES_PER_ZMQ_MESSAGE
<1>1. TypeOK
  <2>1. /\ dropped \in BOOLEAN /\ enableDecode \in BOOLEAN
        /\ full_timestamp_received \in BOOLEAN /\ gap \in BOOLEAN
    BY Zenon DEF Init
  <2>2. /\ dlfc \in 0..3 /\ tist \in 0..(FramesPerSecond - 1) /\ second \in 0..MaxSecond
        /\ latched \in 0..MaxSecond /\ mnsc_kind \in Kinds
    BY DEF Init, Kinds
  <2>3. /\ left \in 0..3 /\ in_a_row \in 0..MaxLostInARow /\ outages \in 0..MaxOutages
        /\ temp_time \in [low : Nat, high : Nat]
    BY DEF Init
  <2>4. /\ inhibit_second_update \in 0..SkippedTimes
        /\ time_secs \in Nat /\ time_pps \in 0..(FramesPerSecond - 1)
        /\ clean \in 0..MaxClean
    BY DEF Init, SkippedTimes, MaxClean
  <2>5. QED
    BY <2>1, <2>2, <2>3, <2>4 DEF TypeOK
<1>2. SecondsRight /\ MuxLatched /\ PpsFollows /\ EnabledForTimes
  BY DEF Init, SecondsRight, MuxLatched, PpsFollows, EnabledForTimes
<1>3. FieldsCurrent /\ SecondsFollow /\ Recovering
  BY DEF Init, FieldsCurrent, SecondsFollow, Recovering
<1>4. QED
  BY <1>1, <1>2, <1>3 DEF ZmqSubInv

-----------------------------------------------------------------------------
(* Theorems                                                                *)

\* The invariant, for every length of a second and any losses: the time shown after
\* a frame is that frame's (zmq-sub.cpp lines 102-176), and why.
THEOREM SubscriberInvariant == Spec => []ZmqSubInv
<1>1. Init => ZmqSubInv
  BY InitInv
<1>2. ZmqSubInv /\ [Next]_vars => ZmqSubInv'
  <2>1. ASSUME ZmqSubInv, Next PROVE ZmqSubInv'
    BY <2>1, FrameInv DEF Next
  <2>2. ASSUME ZmqSubInv, UNCHANGED vars PROVE ZmqSubInv'
    BY <2>2 DEF ZmqSubInv, vars, mux, connection, decoder, TypeOK, SecondsRight,
         MuxLatched, PpsFollows, EnabledForTimes, FieldsCurrent, SecondsFollow,
         Recovering, Lost, LastSecond, LastPhase, Tracked
  <2>3. QED
    BY <2>1, <2>2
<1>3. QED
  BY <1>1, <1>2, PTL DEF Spec

\* After six times read in a row there is a time and it is right, whatever was lost
\* before (inhibit_second_update, zmq-sub.cpp lines 149-176).
THEOREM SubscriberRecovers == Spec => []Recovers
<1>1. ZmqSubInv => Recovers
  BY SixTimesRead DEF ZmqSubInv
<1>2. QED
  BY <1>1, SubscriberInvariant, PTL

-----------------------------------------------------------------------------
(* Patterns *)

Quarters == {-768, -384, 1, 385}

LEMMA BitsOfPattern ==
  ASSUME NEW p \in TiiPatterns, NEW w, w = TII_PATTERN[p + 1]
  PROVE  /\ w \in Nat /\ w < 256
         /\ \A b \in 0..7 : Bit(w, b) \in {0, 1}
         /\ Bit(w, 0) + Bit(w, 1) + Bit(w, 2) + Bit(w, 3) + Bit(w, 4) + Bit(w, 5)
              + Bit(w, 6) + Bit(w, 7) = 4
<1>1. p + 1 \in 1..70
  BY DEF TiiPatterns
<1>2. \A i \in 1..70 : TII_PATTERN[i] \in Nat /\ TII_PATTERN[i] < 256
  BY DEF TII_PATTERN
<1>3. w \in Nat /\ w < 256
  BY <1>1, <1>2
<1>4. \A i \in 1..70 :
        LET v == TII_PATTERN[i]
        IN  ((v \div 128) % 2) + ((v \div 64) % 2) + ((v \div 32) % 2) + ((v \div 16) % 2)
              + ((v \div 8) % 2) + ((v \div 4) % 2) + ((v \div 2) % 2) + ((v \div 1) % 2) = 4
  BY DEF TII_PATTERN
<1>5. /\ Bit(w, 0) = (w \div 128) % 2 /\ Bit(w, 1) = (w \div 64) % 2
      /\ Bit(w, 2) = (w \div 32) % 2 /\ Bit(w, 3) = (w \div 16) % 2
      /\ Bit(w, 4) = (w \div 8) % 2 /\ Bit(w, 5) = (w \div 4) % 2
      /\ Bit(w, 6) = (w \div 2) % 2 /\ Bit(w, 7) = (w \div 1) % 2
  BY <1>3 DEF Bit
<1>6. \A b \in 0..7 : Bit(w, b) \in {0, 1}
  <2>1. \A x \in Nat : x % 2 \in {0, 1}
    OBVIOUS
  <2>2. /\ w \div 128 \in Nat /\ w \div 64 \in Nat /\ w \div 32 \in Nat /\ w \div 16 \in Nat
        /\ w \div 8 \in Nat /\ w \div 4 \in Nat /\ w \div 2 \in Nat /\ w \div 1 \in Nat
    BY <1>3
  <2>3. /\ Bit(w, 0) \in {0, 1} /\ Bit(w, 1) \in {0, 1} /\ Bit(w, 2) \in {0, 1}
        /\ Bit(w, 3) \in {0, 1} /\ Bit(w, 4) \in {0, 1} /\ Bit(w, 5) \in {0, 1}
        /\ Bit(w, 6) \in {0, 1} /\ Bit(w, 7) \in {0, 1}
    BY <1>5, <2>1, <2>2
  <2> QED BY <2>3
<1>7. ((w \div 128) % 2) + ((w \div 64) % 2) + ((w \div 32) % 2) + ((w \div 16) % 2)
        + ((w \div 8) % 2) + ((w \div 4) % 2) + ((w \div 2) % 2) + ((w \div 1) % 2) = 4
  <2> HIDE DEF Bit
  <2> QED BY <1>1, <1>4
<1> QED BY <1>3, <1>5, <1>6, <1>7

\* The bits of w below n that are one.
Ones(w, n) == {b \in 0..7 : b < n /\ Bit(w, b) = 1}

LEMMA OneMoreBit ==
  ASSUME NEW w, NEW n \in 0..7, Bit(w, n) \in {0, 1}, IsFiniteSet(Ones(w, n))
  PROVE  /\ IsFiniteSet(Ones(w, n + 1))
         /\ Cardinality(Ones(w, n + 1)) = Cardinality(Ones(w, n)) + Bit(w, n)
<1> DEFINE S == Ones(w, n)
<1>1. n \notin S /\ Cardinality(S) \in Nat
  BY FS_CardinalityType DEF Ones
<1>2. CASE Bit(w, n) = 1
  <2>1. Ones(w, n + 1) = S \cup {n}
    BY <1>2 DEF Ones
  <2> HIDE DEF S
  <2>2. IsFiniteSet(S \cup {n}) /\ Cardinality(S \cup {n}) = Cardinality(S) + 1
    BY <1>1, FS_AddElement DEF S
  <2> QED BY <1>2, <2>1, <2>2 DEF S
<1>3. CASE Bit(w, n) = 0
  <2>1. Ones(w, n + 1) = S
    BY <1>3 DEF Ones
  <2> HIDE DEF S
  <2> QED BY <1>1, <1>3, <2>1 DEF S
<1> QED BY <1>2, <1>3

\* Every pattern has four ones.
LEMMA FourOnes ==
  ASSUME NEW p \in TiiPatterns
  PROVE  Enabled(p) \subseteq 0..7 /\ IsFiniteSet(Enabled(p)) /\ Cardinality(Enabled(p)) = 4
<1> DEFINE w == TII_PATTERN[p + 1]
           c(n) == Cardinality(Ones(w, n))
<1>1. \A b \in 0..7 : Bit(w, b) \in {0, 1}
  BY BitsOfPattern
<1>2. Bit(w, 0) + Bit(w, 1) + Bit(w, 2) + Bit(w, 3) + Bit(w, 4) + Bit(w, 5)
        + Bit(w, 6) + Bit(w, 7) = 4
  BY BitsOfPattern
<1> HIDE DEF w
<1>3. IsFiniteSet(Ones(w, 0)) /\ c(0) = 0
  <2>1. Ones(w, 0) = {}
    BY DEF Ones
  <2> QED BY <2>1, FS_EmptySet
<1> DEFINE F(n) == IsFiniteSet(Ones(w, n))
<1>4. \A n \in 0..7 : F(n) => F(n + 1) /\ c(n + 1) = c(n) + Bit(w, n)
  BY <1>1, OneMoreBit
<1>5. F(0 + 1) /\ c(0 + 1) = c(0) + Bit(w, 0)
  BY <1>3, <1>4
<1>6. F(1 + 1) /\ c(1 + 1) = c(1) + Bit(w, 1)
  BY <1>4, <1>5
<1>7. F(2 + 1) /\ c(2 + 1) = c(2) + Bit(w, 2)
  BY <1>4, <1>6
<1>8. F(3 + 1) /\ c(3 + 1) = c(3) + Bit(w, 3)
  BY <1>4, <1>7
<1>9. F(4 + 1) /\ c(4 + 1) = c(4) + Bit(w, 4)
  BY <1>4, <1>8
<1>10. F(5 + 1) /\ c(5 + 1) = c(5) + Bit(w, 5)
  BY <1>4, <1>9
<1>11. F(6 + 1) /\ c(6 + 1) = c(6) + Bit(w, 6)
  BY <1>4, <1>10
<1>12. F(7 + 1) /\ c(7 + 1) = c(7) + Bit(w, 7)
  BY <1>4, <1>11
<1>13. Enabled(p) = Ones(w, 8)
  BY DEF Enabled, Ones, w
<1> HIDE DEF F, c
<1>14. c(8) = 4
  BY <1>1, <1>2, <1>3, <1>5, <1>6, <1>7, <1>8, <1>9, <1>10, <1>11, <1>12
<1>15. F(8)
  BY <1>12
<1>16. Enabled(p) \subseteq 0..7
  BY DEF Enabled
<1> QED BY <1>13, <1>14, <1>15, <1>16 DEF F, c

InBits(w) ==
  128 * ((w \div 128) % 2) + 64 * ((w \div 64) % 2) + 32 * ((w \div 32) % 2)
    + 16 * ((w \div 16) % 2) + 8 * ((w \div 8) % 2) + 4 * ((w \div 4) % 2)
    + 2 * ((w \div 2) % 2) + ((w \div 1) % 2)

LEMMA WordIsItsBits == \A w \in 0..255 : w = InBits(w)
BY DEF InBits

\* A pattern is told by its ones.
LEMMA PatternIs ==
  ASSUME NEW p \in TiiPatterns, NEW q \in TiiPatterns, Enabled(p) = Enabled(q)
  PROVE  p = q
<1> DEFINE v == TII_PATTERN[p + 1]
           w == TII_PATTERN[q + 1]
<1>1. v \in Nat /\ v < 256 /\ \A b \in 0..7 : Bit(v, b) \in {0, 1}
  BY BitsOfPattern
<1>2. w \in Nat /\ w < 256 /\ \A b \in 0..7 : Bit(w, b) \in {0, 1}
  BY BitsOfPattern
<1>3. \A b \in 0..7 : Bit(v, b) = 1 <=> Bit(w, b) = 1
  BY DEF Enabled
<1> HIDE DEF v, w
<1>4. \A b \in 0..7 : Bit(v, b) = Bit(w, b)
  BY <1>1, <1>2, <1>3
<1>5. v = w
  <2>1. /\ Bit(v, 0) = Bit(w, 0) /\ Bit(v, 1) = Bit(w, 1) /\ Bit(v, 2) = Bit(w, 2)
        /\ Bit(v, 3) = Bit(w, 3) /\ Bit(v, 4) = Bit(w, 4) /\ Bit(v, 5) = Bit(w, 5)
        /\ Bit(v, 6) = Bit(w, 6) /\ Bit(v, 7) = Bit(w, 7)
    BY <1>4
  <2>2. /\ (v \div 128) % 2 = (w \div 128) % 2 /\ (v \div 64) % 2 = (w \div 64) % 2
        /\ (v \div 32) % 2 = (w \div 32) % 2 /\ (v \div 16) % 2 = (w \div 16) % 2
        /\ (v \div 8) % 2 = (w \div 8) % 2 /\ (v \div 4) % 2 = (w \div 4) % 2
        /\ (v \div 2) % 2 = (w \div 2) % 2 /\ (v \div 1) % 2 = (w \div 1) % 2
    BY <2>1 DEF Bit
  <2>3. v = InBits(v) /\ w = InBits(w)
    BY <1>1, <1>2, WordIsItsBits
  <2>4. InBits(v) = InBits(w)
    BY <2>2 DEF InBits
  <2> QED BY <2>3, <2>4
<1>6. \A i, j \in 1..70 : TII_PATTERN[i] = TII_PATTERN[j] => i = j
  BY DEF TII_PATTERN
<1>7. p + 1 \in 1..70 /\ q + 1 \in 1..70
  BY DEF TiiPatterns
<1>8. p + 1 = q + 1
  BY <1>5, <1>6, <1>7 DEF v, w
<1> QED BY <1>8 DEF TiiPatterns

LEMMA SameOnes ==
  ASSUME NEW p \in TiiPatterns, NEW q \in TiiPatterns, Enabled(p) \subseteq Enabled(q)
  PROVE  Enabled(p) = Enabled(q)
BY FourOnes, FS_Subset

-----------------------------------------------------------------------------
(* Carriers *)

\* The carriers of a transmitter: q the quarter, b the one, i first or second.
LEMMA ReducedIs ==
  ASSUME NEW c \in Combs, NEW p \in TiiPatterns
  PROVE  Reduced[<<c, p>>] = {1 + 2 * c + 48 * b : b \in Enabled(p)}
<1>1. <<c, p>> \in Combs \X TiiPatterns
  OBVIOUS
<1>2. Reduced[<<c, p>>] = calculate_reduced_carrier_indices(c, p)
  BY <1>1 DEF Reduced
<1>3. \A b \in Enabled(p) : 1 + 2 * c + 48 * b \in 0..383
  <2> SUFFICES ASSUME NEW b \in Enabled(p) PROVE 1 + 2 * c + 48 * b \in 0..383
    OBVIOUS
  <2>1. b \in 0..7
    BY FourOnes
  <2> QED BY <2>1 DEF Combs
<1>4. calculate_reduced_carrier_indices(c, p) = {1 + 2 * c + 48 * b : b \in Enabled(p)}
  BY <1>3 DEF calculate_reduced_carrier_indices
<1> QED BY <1>2, <1>4

LEMMA CarriersAre ==
  ASSUME NEW c \in Combs, NEW p \in TiiPatterns
  PROVE  \A k : k \in all_tii_patterns[<<c, p>>] <=>
                  \E q \in Quarters, b \in Enabled(p), i \in {0, 1} :
                    k = q + 2 * c + 48 * b + i
<1> DEFINE R == {1 + 2 * c + 48 * b : b \in Enabled(p)}
           pairs == R \cup {k + 1 : k \in R}
           all == pairs \cup {k - 769 : k \in pairs} \cup {k - 385 : k \in pairs}
                        \cup {k + 384 : k \in pairs}
<1>1. <<c, p>> \in Combs \X TiiPatterns
  OBVIOUS
<1>2. all_tii_patterns[<<c, p>>] = calculate_carrier_indices(c, p)
  BY <1>1 DEF all_tii_patterns
<1>3. calculate_carrier_indices(c, p) = all
  BY ReducedIs DEF calculate_carrier_indices
<1>4. Enabled(p) \subseteq 0..7 /\ c \in 0..23
  BY FourOnes DEF Combs
<1> SUFFICES ASSUME NEW k
             PROVE  k \in all <=> \E q \in Quarters, b \in Enabled(p), i \in {0, 1} :
                                    k = q + 2 * c + 48 * b + i
  BY <1>2, <1>3
<1>5. \A x : x \in pairs <=>
               \E b \in Enabled(p), i \in {0, 1} : x = 1 + 2 * c + 48 * b + i
  BY <1>4
<1>6. k \in all <=> \E x \in pairs : k = x \/ k = x - 769 \/ k = x - 385 \/ k = x + 384
  <2> HIDE DEF pairs
  <2> QED OBVIOUS
<1> HIDE DEF pairs, all
<1>7. ASSUME k \in all
      PROVE  \E q \in Quarters, b \in Enabled(p), i \in {0, 1} :
               k = q + 2 * c + 48 * b + i
  <2>1. PICK x \in pairs : k = x \/ k = x - 769 \/ k = x - 385 \/ k = x + 384
    BY <1>6, <1>7
  <2>2. PICK b \in Enabled(p), i \in {0, 1} : x = 1 + 2 * c + 48 * b + i
    BY <1>5, <2>1
  <2>3. b \in 0..7
    BY <1>4
  <2>4. PICK q \in Quarters : k = x - 1 + q
    BY <1>4, <2>1, <2>2, <2>3 DEF Quarters
  <2>5. k = q + 2 * c + 48 * b + i
    BY <1>4, <2>2, <2>3, <2>4 DEF Quarters
  <2> QED BY <2>5
<1>8. ASSUME NEW q \in Quarters, NEW b \in Enabled(p), NEW i \in {0, 1},
             k = q + 2 * c + 48 * b + i
      PROVE  k \in all
  <2> DEFINE x == 1 + 2 * c + 48 * b + i
  <2>1. x \in pairs
    BY <1>5
  <2>2. b \in 0..7
    BY <1>4
  <2>3. k = x \/ k = x - 769 \/ k = x - 385 \/ k = x + 384
    BY <1>4, <1>8, <2>2 DEF Quarters
  <2> HIDE DEF x
  <2> QED BY <1>6, <2>1, <2>3
<1> QED BY <1>7, <1>8

CarrierAt(q, c, b, i) == q + 2 * c + 48 * b + i

\* A carrier tells its quarter, its place in the pair, the comb and the one.
LEMMA CarrierTells ==
  ASSUME NEW q \in Quarters, NEW r \in Quarters, NEW c \in Combs, NEW d \in Combs,
         NEW a \in 0..7, NEW b \in 0..7, NEW i \in {0, 1}, NEW j \in {0, 1},
         CarrierAt(q, c, a, i) = CarrierAt(r, d, b, j)
  PROVE  q = r /\ c = d /\ a = b /\ i = j
<1>1. c \in Nat /\ c < 24 /\ d \in Nat /\ d < 24
  BY DEF Combs
<1> DEFINE x == c + 24 * a
           y == d + 24 * b
<1>2. /\ x \in Nat /\ x < 192 /\ y \in Nat /\ y < 192
      /\ q + 2 * x + i = r + 2 * y + j
  BY <1>1 DEF Quarters, CarrierAt
<1> HIDE DEF x, y
<1>3. q = r
  BY <1>2 DEF Quarters
<1>4. x = y /\ i = j
  BY <1>2, <1>3 DEF Quarters
<1>5. c = d /\ a = b
  BY <1>1, <1>4 DEF x, y
<1> QED BY <1>3, <1>4, <1>5

-----------------------------------------------------------------------------
(* The standard's formula *)

LEMMA FormulaIs ==
  ASSUME NEW cp \in Transmitters, NEW c \in Combs, NEW p \in TiiPatterns, cp = <<c, p>>
  PROVE  /\ \A k \in Formula[cp] : \E q \in Quarters, b \in Enabled(p) :
                                     k = q + 2 * c + 48 * b /\ Base(k) = q
         /\ \A q \in Quarters, b \in Enabled(p) :
              /\ q + 2 * c + 48 * b \in Formula[cp]
              /\ Base(q + 2 * c + 48 * b) = q
<1> DEFINE S(k) == {b \in Enabled(p) : k = Base(k) + 2 * c + 48 * b}
<1>1. Formula[cp] = {k \in -768..768 : calculate_A_c_p(c, p, k) = 1}
  BY DEF Formula
<1>2. Enabled(p) \subseteq 0..7 /\ c \in Nat /\ c < 24
  BY FourOnes DEF Combs
<1>3. ASSUME NEW k \in Formula[cp]
      PROVE  \E q \in Quarters, b \in Enabled(p) : k = q + 2 * c + 48 * b /\ Base(k) = q
  <2>1. k \in -768..768 /\ calculate_A_c_p(c, p, k) = 1
    BY <1>1
  <2>2. calculate_A_c_p(c, p, k) = IF k \in {0, -769} THEN 0 ELSE Cardinality(S(k))
    BY DEF calculate_A_c_p
  <2>3. k # 0 /\ Cardinality(S(k)) = 1
    <3> HIDE DEF S
    <3> QED BY <2>1, <2>2
  <2>4. S(k) # {}
    BY <2>3, FS_EmptySet
  <2>5. Base(k) \in Quarters
    <3>1. k \in Int /\ -768 <= k /\ k <= 768
      BY <2>1, SMTT(30)
    <3>2. -768 \in Quarters /\ -384 \in Quarters /\ 1 \in Quarters /\ 385 \in Quarters
      BY DEF Quarters
    <3> QED BY <2>3, <3>1, <3>2 DEF Base
  <2> QED BY <2>4, <2>5
<1>4. ASSUME NEW q \in Quarters, NEW b \in Enabled(p)
      PROVE  /\ q + 2 * c + 48 * b \in Formula[cp]
             /\ Base(q + 2 * c + 48 * b) = q
  <2> DEFINE n == 2 * c + 48 * b
             k == q + 2 * c + 48 * b
  <2>1. n \in 0..382 /\ k = q + n /\ q \in Int
    BY <1>2 DEF Quarters
  <2>2. k \in -768..768 /\ k # 0
    <3> HIDE DEF n, k
    <3> QED BY <2>1 DEF Quarters
  <2>3. Base(k) = q
    <3> HIDE DEF n, k
    <3>1. CASE q = -768
      BY <2>1, <3>1 DEF Base
    <3>2. CASE q = -384
      BY <2>1, <3>2 DEF Base
    <3>3. CASE q = 1
      BY <2>1, <3>3 DEF Base
    <3>4. CASE q = 385
      BY <2>1, <3>4 DEF Base
    <3> QED BY <3>1, <3>2, <3>3, <3>4 DEF Quarters
  <2>4. S(k) = {b}
    <3>1. b \in S(k)
      BY <2>3
    <3>2. ASSUME NEW a \in S(k) PROVE a = b
      <4>1. a \in 0..7 /\ b \in 0..7 /\ k = q + 2 * c + 48 * a
        BY <1>2, <2>3
      <4>2. q + 2 * c + 48 * b = q + 2 * c + 48 * a
        BY <4>1
      <4> QED BY <1>2, <2>1, <4>1, <4>2
    <3> HIDE DEF S, k
    <3> QED BY <3>1, <3>2
  <2>5. Cardinality(S(k)) = 1
    BY <2>4, FS_Singleton
  <2>6. calculate_A_c_p(c, p, k) = 1
    <3>1. k \notin {0, -769}
      <4> HIDE DEF k
      <4> QED BY <2>2
    <3> QED BY <2>5, <3>1 DEF calculate_A_c_p
  <2> HIDE DEF k, S
  <2>7. k \in Formula[cp]
    BY <1>1, <2>2, <2>6
  <2> QED BY <2>3, <2>7 DEF k
<1> QED BY <1>3, <1>4

\* The carriers that are set are those of the formula.
LEMMA AsTheStandard ==
  ASSUME NEW cp \in Transmitters
  PROVE  all_tii_patterns[cp] = Formula[cp] \cup {k + 1 : k \in Formula[cp]}
<1>1. PICK c \in Combs, p \in TiiPatterns : cp = <<c, p>>
  BY TiiAssumption
<1> DEFINE A == all_tii_patterns[cp]
           B == Formula[cp]
<1>2. \A k : k \in A <=> \E q \in Quarters, b \in Enabled(p), i \in {0, 1} :
                           k = q + 2 * c + 48 * b + i
  BY <1>1, CarriersAre
<1>3. /\ \A k \in B : \E q \in Quarters, b \in Enabled(p) : k = q + 2 * c + 48 * b
      /\ \A q \in Quarters, b \in Enabled(p) : q + 2 * c + 48 * b \in B
  BY <1>1, FormulaIs
<1>4. c \in Nat /\ Enabled(p) \subseteq 0..7 /\ Quarters \subseteq Int
  BY FourOnes DEF Combs, Quarters
<1> HIDE DEF A, B
<1>5. ASSUME NEW k \in A PROVE k \in B \cup {x + 1 : x \in B}
  <2>1. PICK q \in Quarters, b \in Enabled(p), i \in {0, 1} : k = q + 2 * c + 48 * b + i
    BY <1>2, <1>5
  <2> DEFINE x == q + 2 * c + 48 * b
  <2>2. x \in B
    BY <1>3
  <2>4. x \in Int
    <3>1. b \in 0..7 /\ q \in Int
      BY <1>4
    <3> QED BY <1>4, <3>1
  <2>3. k = x + i
    BY <2>1
  <2> HIDE DEF x
  <2> QED BY <2>2, <2>3, <2>4
<1>6. ASSUME NEW k \in B PROVE k \in A /\ k + 1 \in A
  <2>1. PICK q \in Quarters, b \in Enabled(p) : k = q + 2 * c + 48 * b
    BY <1>3, <1>6
  <2>2. k \in Int
    BY <1>4, <2>1
  <2>3. k = q + 2 * c + 48 * b + 0 /\ k + 1 = q + 2 * c + 48 * b + 1
    BY <1>4, <2>1, <2>2
  <2> QED BY <1>2, <2>3
<1>7. A = B \cup {x + 1 : x \in B}
  BY <1>5, <1>6
<1> QED BY <1>7 DEF A, B

-----------------------------------------------------------------------------
(* One transmitter *)

LEMMA TwoElements ==
  ASSUME NEW a, NEW b, a # b
  PROVE  IsFiniteSet({a, b}) /\ Cardinality({a, b}) = 2
<1>1. IsFiniteSet({a}) /\ Cardinality({a}) = 1
  BY FS_Singleton
<1>2. IsFiniteSet({a} \cup {b}) /\ Cardinality({a} \cup {b}) = 2
  BY <1>1, FS_AddElement
<1>3. {a} \cup {b} = {a, b}
  OBVIOUS
<1> QED BY <1>2, <1>3

LEMMA FourElements ==
  ASSUME NEW Q, NEW a, NEW b, NEW c, NEW d, Q = {a, b, c, d},
         a # b, c # d, c \notin {a, b}, d \notin {a, b}
  PROVE  IsFiniteSet(Q) /\ Cardinality(Q) = 4
<1> DEFINE S == {a, b}
           T == S \cup {c}
<1>1. c \notin S /\ d \notin T /\ T \cup {d} = Q
  OBVIOUS
<1>2. IsFiniteSet(S) /\ Cardinality(S) = 2
  BY TwoElements
<1> HIDE DEF S
<1>3. IsFiniteSet(T) /\ Cardinality(T) = 3
  BY <1>1, <1>2, FS_AddElement
<1> HIDE DEF T
<1>4. IsFiniteSet(T \cup {d}) /\ Cardinality(T \cup {d}) = 4
  BY <1>1, <1>3, FS_AddElement
<1> QED BY <1>1, <1>4

LEMMA ThirtyTwo ==
  ASSUME NEW cp \in Combs \X TiiPatterns
  PROVE  Cardinality(all_tii_patterns[cp]) = 32
<1>1. PICK c \in Combs, p \in TiiPatterns : cp = <<c, p>>
  OBVIOUS
<1> DEFINE A == all_tii_patterns[cp]
           E == Enabled(p)
           D == Quarters \X (E \X {0, 1})
           f == [t \in D |-> t[1] + 2 * c + 48 * t[2][1] + t[2][2]]
<1>2. \A k : k \in A <=> \E q \in Quarters, b \in E, i \in {0, 1} :
                           k = q + 2 * c + 48 * b + i
  BY <1>1, CarriersAre
<1>3. E \subseteq 0..7 /\ IsFiniteSet(E) /\ Cardinality(E) = 4
  BY FourOnes
<1> HIDE DEF A, E
<1>4. IsFiniteSet({0, 1}) /\ Cardinality({0, 1}) = 2
  <2>1. 0 # 1
    OBVIOUS
  <2> QED BY <2>1, TwoElements, Zenon
<1>5. IsFiniteSet(Quarters) /\ Cardinality(Quarters) = 4
  <2> DEFINE m == -768
             n == -384
             t == 1
             u == 385
  <2>1. m # n /\ t # u /\ t \notin {m, n} /\ u \notin {m, n}
    OBVIOUS
  <2>2. Quarters = {m, n, t, u}
    BY DEF Quarters
  <2> HIDE DEF m, n, t, u
  <2> QED BY <2>1, <2>2, FourElements
<1>6. IsFiniteSet(E \X {0, 1}) /\ Cardinality(E \X {0, 1}) = 8
  BY <1>3, <1>4, FS_Product
<1>7. IsFiniteSet(D) /\ Cardinality(D) = 32
  BY <1>5, <1>6, FS_Product
<1>8. f \in [D -> A]
  <2> SUFFICES ASSUME NEW t \in D PROVE t[1] + 2 * c + 48 * t[2][1] + t[2][2] \in A
    OBVIOUS
  <2>1. PICK q \in Quarters, b \in E, i \in {0, 1} : t = <<q, <<b, i>>>>
    OBVIOUS
  <2> QED BY <1>2, <2>1
<1>9. \A t, u \in D : f[t] = f[u] => t = u
  <2> SUFFICES ASSUME NEW t \in D, NEW u \in D, f[t] = f[u] PROVE t = u
    OBVIOUS
  <2>1. PICK q \in Quarters, b \in E, i \in {0, 1} : t = <<q, <<b, i>>>>
    OBVIOUS
  <2>2. PICK r \in Quarters, a \in E, j \in {0, 1} : u = <<r, <<a, j>>>>
    OBVIOUS
  <2>3. CarrierAt(q, c, b, i) = CarrierAt(r, c, a, j)
    BY <2>1, <2>2 DEF CarrierAt
  <2>4. b \in 0..7 /\ a \in 0..7
    BY <1>3
  <2>5. q = r /\ b = a /\ i = j
    BY <2>3, <2>4, CarrierTells
  <2> QED BY <2>1, <2>2, <2>5
<1>10. \A k \in A : \E t \in D : f[t] = k
  <2> SUFFICES ASSUME NEW k \in A PROVE \E t \in D : f[t] = k
    OBVIOUS
  <2>1. PICK q \in Quarters, b \in E, i \in {0, 1} : k = q + 2 * c + 48 * b + i
    BY <1>2
  <2>2. <<q, <<b, i>>>> \in D /\ f[<<q, <<b, i>>>>] = k
    BY <2>1
  <2> QED BY <2>2
<1> HIDE DEF D, f
<1>11. f \in Bijection(D, A)
  BY <1>8, <1>9, <1>10 DEF Bijection, Injection, Surjection, IsInjective
<1>12. ExistsBijection(D, A)
  BY <1>11 DEF ExistsBijection
<1> QED BY <1>7, <1>12, FS_Bijection DEF A

\* A transmitter is told by all its carriers.
LEMMA CarriersTell ==
  ASSUME NEW cp \in Combs \X TiiPatterns, NEW dq \in Combs \X TiiPatterns,
         all_tii_patterns[cp] = all_tii_patterns[dq]
  PROVE  cp = dq
<1>1. PICK c \in Combs, p \in TiiPatterns : cp = <<c, p>>
  OBVIOUS
<1>2. PICK d \in Combs, q \in TiiPatterns : dq = <<d, q>>
  OBVIOUS
<1>3. /\ \A k : k \in all_tii_patterns[cp] <=>
                  \E r \in Quarters, b \in Enabled(p), i \in {0, 1} :
                    k = r + 2 * c + 48 * b + i
      /\ \A k : k \in all_tii_patterns[dq] <=>
                  \E r \in Quarters, b \in Enabled(q), i \in {0, 1} :
                    k = r + 2 * d + 48 * b + i
  BY <1>1, <1>2, CarriersAre
<1>4. /\ Enabled(p) \subseteq 0..7 /\ IsFiniteSet(Enabled(p)) /\ Cardinality(Enabled(p)) = 4
      /\ Enabled(q) \subseteq 0..7
  BY FourOnes
<1>5. \A b \in Enabled(p) : b \in Enabled(q) /\ c = d
  <2> SUFFICES ASSUME NEW b \in Enabled(p) PROVE b \in Enabled(q) /\ c = d
    OBVIOUS
  <2>1. 1 \in Quarters
    BY DEF Quarters
  <2>2. 1 + 2 * c + 48 * b + 0 \in all_tii_patterns[dq]
    BY <1>3, <2>1
  <2>3. PICK r \in Quarters, a \in Enabled(q), i \in {0, 1} :
          CarrierAt(1, c, b, 0) = CarrierAt(r, d, a, i)
    BY <1>3, <2>2 DEF CarrierAt
  <2>4. a \in 0..7 /\ b \in 0..7
    BY <1>4
  <2>5. c = d /\ b = a
    BY <2>1, <2>3, <2>4, CarrierTells
  <2> QED BY <2>5
<1>6. Enabled(p) # {}
  BY <1>4, FS_EmptySet
<1>7. Enabled(p) = Enabled(q)
  BY <1>5, SameOnes
<1>8. p = q
  BY <1>7, PatternIs
<1> QED BY <1>1, <1>2, <1>5, <1>6, <1>8


\* Nobody but one transmitter is on air.
LEMMA AloneIsTold ==
  ASSUME onAir \subseteq Transmitters, faded = {}, NEW cp \in onAir, onAir = {cp}
  PROVE  plot_tii_once = cp
<1> DEFINE found == {dq \in Combs \X TiiPatterns : all_tii_patterns[dq] = Received}
<1>1. cp \in Combs \X TiiPatterns
  BY TiiAssumption
<1>2. Received = all_tii_patterns[cp]
  BY DEF Received, Sent
<1>3. found = {cp}
  BY <1>1, <1>2, CarriersTell
<1>4. Cardinality(Received) = 32
  BY <1>1, <1>2, ThirtyTwo
<1>5. plot_tii_once = IF found = {} THEN Unknown ELSE CHOOSE dq \in found : TRUE
  BY <1>4 DEF plot_tii_once
<1> HIDE DEF found
<1>6. plot_tii_once \in found
  BY <1>3, <1>5
<1> QED BY <1>3, <1>6

-----------------------------------------------------------------------------
(* Several transmitters *)

\* What algo1 has left of the carriers.
Laid == {2 * j + 1 : j \in PairsDetected}

LEMMA LaidIs ==
  /\ IsFiniteSet(Laid)
  /\ \A x \in 0..191 : 2 * x + 1 \in Laid <=> x \in PairsDetected
<1>1. PairsDetected \subseteq 0..191
  BY DEF PairsDetected
<1> HIDE DEF PairsDetected
<1> DEFINE last == 383
<1>2. last \in Nat /\ Laid \subseteq 0..last
  BY <1>1 DEF Laid
<1> HIDE DEF last
<1>3. IsFiniteSet(0..last)
  BY <1>2, FS_Interval
<1>4. IsFiniteSet(Laid)
  BY <1>2, <1>3, FS_Subset
<1>5. \A x \in 0..191 : 2 * x + 1 \in Laid <=> x \in PairsDetected
  BY <1>1 DEF Laid
<1> QED BY <1>4, <1>5

LEMMA DetectedIs ==
  ASSUME NEW x \in 0..191
  PROVE  x \in PairsDetected <=> \E q \in Quarters : {q + 2 * x, q + 2 * x + 1} \subseteq Received
BY DEF PairsDetected, Quarters, Pair

\* The reduced carriers of a pattern: four places.
LEMMA ReducedFour ==
  ASSUME NEW c \in Combs, NEW p \in TiiPatterns
  PROVE  /\ IsFiniteSet(Reduced[<<c, p>>]) /\ Cardinality(Reduced[<<c, p>>]) = 4
         /\ \A b \in Enabled(p) : c + 24 * b \in 0..191
         /\ \A b \in Enabled(p) : 2 * (c + 24 * b) + 1 \in Reduced[<<c, p>>]
         /\ \A k \in Reduced[<<c, p>>] : \E b \in Enabled(p) : k = 2 * (c + 24 * b) + 1
<1> DEFINE E == Enabled(p)
           R == Reduced[<<c, p>>]
           f == [b \in E |-> 1 + 2 * c + 48 * b]
<1>1. R = {1 + 2 * c + 48 * b : b \in E}
  BY ReducedIs
<1>2. E \subseteq 0..7 /\ IsFiniteSet(E) /\ Cardinality(E) = 4
  BY FourOnes
<1>3. c \in Nat /\ c < 24
  BY DEF Combs
<1> HIDE DEF R, E
<1>4. \A b \in E : 1 + 2 * c + 48 * b = 2 * (c + 24 * b) + 1 /\ c + 24 * b \in 0..191
  <2> SUFFICES ASSUME NEW b \in E
               PROVE  1 + 2 * c + 48 * b = 2 * (c + 24 * b) + 1 /\ c + 24 * b \in 0..191
    OBVIOUS
  <2>1. b \in 0..7
    BY <1>2
  <2> QED BY <1>3, <2>1
<1>5. f \in [E -> R] /\ \A k \in R : \E b \in E : f[b] = k
  BY <1>1
<1>6. \A a, b \in E : f[a] = f[b] => a = b
  <2> SUFFICES ASSUME NEW a \in E, NEW b \in E, 1 + 2 * c + 48 * a = 1 + 2 * c + 48 * b
               PROVE  a = b
    OBVIOUS
  <2>1. a \in 0..7 /\ b \in 0..7
    BY <1>2
  <2> QED BY <1>3, <2>1
<1> HIDE DEF f
<1>7. ExistsBijection(E, R)
  BY <1>5, <1>6 DEF ExistsBijection, Bijection, Injection, Surjection, IsInjective
<1>8. IsFiniteSet(R) /\ Cardinality(R) = 4
  BY <1>2, <1>7, FS_Bijection
<1>9. (\A b \in E : 2 * (c + 24 * b) + 1 \in R) /\ \A k \in R : \E b \in E : k = 2 * (c + 24 * b) + 1
  BY <1>1, <1>4
<1> QED BY <1>4, <1>8, <1>9 DEF E, R

\* algo1 reports those all of whose places are occupied.
LEMMA ReportedIs ==
  ASSUME NEW c \in Combs, NEW p \in TiiPatterns
  PROVE  <<c, p>> \in algo1 <=> \A b \in Enabled(p) : c + 24 * b \in PairsDetected
<1> DEFINE cp == <<c, p>>
           R == Reduced[cp]
           counts == [dq \in Combs \X TiiPatterns |-> Cardinality(Laid \cap Reduced[dq])]
<1>1. /\ IsFiniteSet(R) /\ Cardinality(R) = 4
      /\ \A b \in Enabled(p) : c + 24 * b \in 0..191
      /\ \A b \in Enabled(p) : 2 * (c + 24 * b) + 1 \in R
      /\ \A k \in R : \E b \in Enabled(p) : k = 2 * (c + 24 * b) + 1
  BY ReducedFour
<1>2. algo1 = IF Cardinality(Laid) < 4 THEN {}
              ELSE {dq \in Combs \X TiiPatterns : counts[dq] >= 4}
  BY DEF algo1, Laid
<1>3. counts[cp] = Cardinality(Laid \cap R)
  OBVIOUS
<1>4. /\ IsFiniteSet(Laid \cap R) /\ Cardinality(Laid \cap R) \in Nat
      /\ Cardinality(Laid \cap R) <= Cardinality(Laid) /\ Cardinality(Laid) \in Nat
      /\ Cardinality(Laid \cap R) <= 4
      /\ Cardinality(Laid \cap R) = 4 => Laid \cap R = R
  <2>1. Laid \cap R \in SUBSET Laid /\ Laid \cap R \in SUBSET R
    OBVIOUS
  <2> HIDE DEF R
  <2> QED BY <1>1, <2>1, LaidIs, FS_Subset, FS_CardinalityType
<1>5. cp \in algo1 <=> Laid \cap R = R
  <2> HIDE DEF R, counts
  <2>1. Laid \cap R = R => Cardinality(Laid \cap R) = 4
    BY <1>1
  <2>2. cp \in Combs \X TiiPatterns
    OBVIOUS
  <2> HIDE DEF cp
  <2> QED BY <1>2, <1>3, <1>4, <2>1, <2>2
<1>6. Laid \cap R = R <=> \A b \in Enabled(p) : 2 * (c + 24 * b) + 1 \in Laid
  <2> HIDE DEF R
  <2> QED BY <1>1
<1>7. \A b \in Enabled(p) : 2 * (c + 24 * b) + 1 \in Laid <=> c + 24 * b \in PairsDetected
  BY <1>1, LaidIs
<1> QED BY <1>5, <1>6, <1>7

LEMMA ArrivedIsReported ==
  ASSUME onAir \subseteq Transmitters, NEW cp \in onAir, Arrived(cp)
  PROVE  cp \in algo1
<1>1. cp \in Transmitters
  OBVIOUS
<1>2. PICK c \in Combs, p \in TiiPatterns : cp = <<c, p>>
  BY <1>1, TiiAssumption
<1>3. \A b \in Enabled(p) : c + 24 * b \in PairsDetected
  <2> SUFFICES ASSUME NEW b \in Enabled(p) PROVE c + 24 * b \in PairsDetected
    OBVIOUS
  <2>1. PICK k \in Formula[cp] : k - Base(k) = 2 * c + 48 * b /\ {k, k + 1} \subseteq Received
    BY <1>2 DEF Arrived
  <2>2. PICK q \in Quarters, a \in Enabled(p) : k = q + 2 * c + 48 * a /\ Base(k) = q
    BY <1>1, <1>2, FormulaIs
  <2>3. b \in 0..7 /\ a \in 0..7 /\ c \in Nat /\ q \in Int
    BY FourOnes DEF Combs, Quarters
  <2>4. k = q + 2 * (c + 24 * b) /\ k + 1 = q + 2 * (c + 24 * b) + 1
    BY <2>1, <2>2, <2>3
  <2>5. c + 24 * b \in 0..191
    BY ReducedFour
  <2> DEFINE x == c + 24 * b
  <2>6. {q + 2 * x, q + 2 * x + 1} \subseteq Received
    BY <2>1, <2>4
  <2> HIDE DEF x
  <2>7. x \in PairsDetected
    BY <2>5, <2>6, DetectedIs DEF x
  <2> QED BY <2>7 DEF x
<1> QED BY <1>2, <1>3, ReportedIs

LEMMA OnlyThoseOnAir ==
  ASSUME onAir \subseteq Transmitters, DifferentCombs
  PROVE  algo1 \subseteq onAir
<1> SUFFICES ASSUME NEW cp \in algo1 PROVE cp \in onAir
  OBVIOUS
<1>1. cp \in Combs \X TiiPatterns
  BY DEF algo1
<1>2. PICK c \in Combs, p \in TiiPatterns : cp = <<c, p>>
  BY <1>1
<1>3. \A b \in Enabled(p) : c + 24 * b \in PairsDetected
  BY <1>2, ReportedIs
<1>4. \A b \in Enabled(p) : \E q \in TiiPatterns : <<c, q>> \in onAir /\ b \in Enabled(q)
  <2> SUFFICES ASSUME NEW b \in Enabled(p)
               PROVE  \E q \in TiiPatterns : <<c, q>> \in onAir /\ b \in Enabled(q)
    OBVIOUS
  <2> DEFINE x == c + 24 * b
  <2>1. x \in 0..191 /\ x \in PairsDetected
    BY <1>3, ReducedFour
  <2>2. PICK r \in Quarters : r + 2 * x \in Received
    <3> HIDE DEF x
    <3> QED BY <2>1, DetectedIs
  <2>3. PICK dq \in onAir : r + 2 * x \in all_tii_patterns[dq]
    BY <2>2 DEF Received, Sent
  <2>4. PICK d \in Combs, q \in TiiPatterns : dq = <<d, q>>
    BY <2>3, TiiAssumption
  <2>5. PICK s \in Quarters, a \in Enabled(q), i \in {0, 1} : r + 2 * x = s + 2 * d + 48 * a + i
    BY <2>3, <2>4, CarriersAre
  <2>6. b \in 0..7 /\ a \in 0..7 /\ c \in Nat /\ r \in Int
    BY FourOnes DEF Combs, Quarters
  <2>7. CarrierAt(r, c, b, 0) = CarrierAt(s, d, a, i)
    BY <2>5, <2>6 DEF CarrierAt
  <2>8. c = d /\ b = a
    BY <2>6, <2>7, CarrierTells
  <2> QED BY <2>3, <2>4, <2>8
<1>5. \A q, r \in TiiPatterns : <<c, q>> \in onAir /\ <<c, r>> \in onAir => q = r
  BY DEF DifferentCombs
<1>6. Enabled(p) # {}
  BY FourOnes, FS_EmptySet
<1>7. PICK q \in TiiPatterns : <<c, q>> \in onAir
  BY <1>4, <1>6
<1>8. Enabled(p) \subseteq Enabled(q)
  BY <1>4, <1>5, <1>7
<1>9. p = q
  BY <1>8, SameOnes, PatternIs
<1> QED BY <1>2, <1>7, <1>9

-----------------------------------------------------------------------------
(* The NULL symbol *)

\* The least of a nonempty set of numbers is what Min says: its initial segment
\* has no other below it, and strict inclusion of finite sets is well-founded.
LEMMA Smallest ==
  ASSUME NEW S \in SUBSET Nat, S # {}
  PROVE  Min(S) \in S /\ \A y \in S : Min(S) <= y
<1> DEFINE Below == {0..m : m \in S}
<1>1. \A m \in S : 0..m \in FiniteSubsetsOf(Nat)
  BY FS_Interval DEF FiniteSubsetsOf
<1>2. Below \subseteq FiniteSubsetsOf(Nat) /\ Below # {}
  BY <1>1
<1>3. PICK I \in Below : \A J \in Below : ~(<<J, I>> \in StrictSubsetOrdering(Nat))
  <2> HIDE DEF Below
  <2> QED BY <1>2, FS_StrictSubsetOrderingWellFounded, WFMin
<1>4. PICK m \in S : I = 0..m
  OBVIOUS
<1>5. ASSUME NEW x \in S PROVE m <= x
  <2>1. SUFFICES ASSUME x < m PROVE FALSE
    OBVIOUS
  <2>2. m \in 0..m /\ m \notin 0..x
    BY <2>1
  <2>3. 0..x \subseteq 0..m /\ 0..x # 0..m
    BY <2>1, <2>2
  <2>4. <<0..x, I>> \in StrictSubsetOrdering(Nat)
    BY <1>1, <1>4, <2>3 DEF StrictSubsetOrdering
  <2> QED BY <1>3, <2>4
<1>6. \E x \in S : \A y \in S : x <= y
  BY <1>5
<1> QED BY <1>6 DEF Min

LEMMA Sizes ==
  /\ NullSize \in Nat /\ NullSize > 0 /\ FrameSize \in Nat /\ NullSize < FrameSize
  /\ NullSize \div 2 \in Nat /\ 2 * (NullSize \div 2) = NullSize /\ NullSize \div 2 > 0
<1>1. /\ NullSize \in Nat /\ NullSize > 0 /\ NullSize % 2 = 0 /\ SymbolsSize \in Nat
      /\ SymbolsSize >= NullSize
  BY TiiAssumption
<1>2. NullSize \div 2 \in Nat /\ 2 * (NullSize \div 2) = NullSize
  BY <1>1
<1> QED BY <1>1, <1>2 DEF FrameSize

\* Remainders by a number that is not a literal.
LEMMA Remainder ==
  ASSUME NEW d \in Nat, d > 0, NEW x \in Nat
  PROVE  /\ x % d \in 0..(d - 1) /\ x \div d \in Nat /\ x = d * (x \div d) + (x % d)
         /\ \A n \in Nat, y \in 0..(d - 1) : x = d * n + y => x % d = y
<1>1. x \div d \in Nat /\ x % d \in 0..(d - 1) /\ x = d * (x \div d) + (x % d)
  OBVIOUS
<1>2. ASSUME NEW n \in Nat, NEW y \in 0..(d - 1), x = d * n + y
      PROVE  x % d = y
  <2> DEFINE m == x \div d
             z == x % d
  <2>1. m \in Nat /\ z \in 0..(d - 1) /\ d * m + z = d * n + y
    BY <1>1, <1>2
  <2> HIDE DEF m, z
  <2>2. ASSUME m < n PROVE FALSE
    <3>1. n >= m + 1 => d * n >= d * (m + 1)
      BY <2>1
    <3>2. d * (m + 1) = d * m + d
      BY <2>1
    <3> QED BY <2>1, <2>2, <3>1, <3>2
  <2>3. ASSUME n < m PROVE FALSE
    <3>1. m >= n + 1 => d * m >= d * (n + 1)
      BY <2>1
    <3>2. d * (n + 1) = d * n + d
      BY <2>1
    <3> QED BY <2>1, <2>3, <3>1, <3>2
  <2>4. m = n
    BY <2>1, <2>2, <2>3
  <2>5. z = y
    BY <2>1, <2>4
  <2> QED BY <2>5 DEF z
<1> QED BY <1>1, <1>2

LEMMA Multiple ==
  ASSUME NEW d \in Nat, d > 0, NEW n \in Nat
  PROVE  (d * n) % d = 0
<1> DEFINE x == d * n
<1>1. x \in Nat /\ x = d * n + 0 /\ 0 \in 0..(d - 1)
  OBVIOUS
<1> HIDE DEF x
<1>2. x % d = 0
  BY <1>1, Remainder
<1> QED BY <1>2 DEF x

\* The sample after the last silent one begins the rest of the frame.
LEMMA FirstLoud ==
  ASSUME offset \in 0..(FrameSize - 1), offset = 0 \/ offset >= NullSize,
         NEW j \in Nat, j > 0, Loud(j), ~Loud(j - 1)
  PROVE  /\ j - NullSize \in Nat
         /\ (offset + (j - NullSize)) % FrameSize = 0
<1> DEFINE x == offset + j - 1
           n == x \div FrameSize
           y == x % FrameSize
<1>1. /\ NullSize \in Nat /\ NullSize > 0 /\ FrameSize \in Nat /\ NullSize < FrameSize
  BY Sizes
<1>2. x \in Nat /\ x = offset + (j - 1) /\ x + 1 = offset + j /\ offset \in Nat
  BY <1>1
<1>3. y < NullSize /\ (x + 1) % FrameSize >= NullSize
  <2>1. x % FrameSize \in Int /\ (x + 1) % FrameSize \in Int
    BY <1>1, <1>2, Remainder
  <2>2. ~(x % FrameSize >= NullSize) /\ (x + 1) % FrameSize >= NullSize
    BY <1>2 DEF Loud
  <2> QED BY <1>1, <2>1, <2>2
<1>4. n \in Nat /\ y \in 0..(FrameSize - 1) /\ x = FrameSize * n + y
  BY <1>1, <1>2, Remainder
<1>5. FrameSize * n \in Nat
  BY <1>1, <1>4
<1> DEFINE Fn == FrameSize * n
<1> HIDE DEF x, n, y
<1>6. (x + 1) % FrameSize = y + 1
  <2>1. y + 1 \in 0..(FrameSize - 1) /\ x + 1 \in Nat /\ x + 1 = FrameSize * n + (y + 1)
    BY <1>1, <1>2, <1>3, <1>4, <1>5
  <2> QED BY <1>1, <1>4, <2>1, Remainder
<1>7. y = NullSize - 1
  BY <1>1, <1>3, <1>4, <1>6
<1>8. offset + (j - NullSize) = FrameSize * n
  BY <1>1, <1>2, <1>4, <1>5, <1>7
<1>9. (offset + (j - NullSize)) % FrameSize = 0
  <2>1. (FrameSize * n) % FrameSize = 0
    BY <1>1, <1>4, Multiple
  <2> QED BY <1>8, <2>1
<1>10. j - NullSize >= 0
  <2>1. CASE n = 0
    <3>1. FrameSize * n = 0
      BY <1>1, <2>1
    <3> QED BY <1>1, <1>2, <1>8, <3>1
  <2>2. CASE n # 0
    <3>1. n >= 1 => FrameSize * n >= FrameSize * 1
      BY <1>1, <1>4
    <3>2. FrameSize * n >= FrameSize
      BY <1>1, <1>4, <2>2, <3>1
    <3> QED BY <1>1, <1>2, <1>8, <1>5, <3>2
  <2> QED BY <2>1, <2>2
<1> QED BY <1>1, <1>9, <1>10

LEMMA NullFound ==
  ASSUME size \in Nat, offset \in 0..(FrameSize - 1), size > 0
  PROVE  AlignedToNull
<1> DEFINE half == NullSize \div 2
           Silent(i) == \A j \in i..(i + half - 1) : j < size => ~Loud(j)
           LoudAfter(i) == {j \in i..(i + NullSize - 1) : Loud(j)}
           starts == {i \in 0..(size - 1) :
                        /\ i % half = 0 /\ Silent(i)
                        /\ LoudAfter(i) # {} \/ i + NullSize > size}
           m == Min(starts)
           first == Min(LoudAfter(m))
           begin == first - NullSize
<1>1. advance_to_null =
        IF starts = {} \/ LoudAfter(m) = {} \/ first >= size THEN NotFound
        ELSE IF begin < 0 THEN size + begin ELSE begin
  BY DEF advance_to_null
<1>2. /\ NullSize \in Nat /\ NullSize > 0 /\ FrameSize \in Nat /\ NullSize < FrameSize
      /\ half \in Nat /\ 2 * half = NullSize /\ half > 0
  BY Sizes
<1>3. ASSUME starts # {}
      PROVE  /\ m \in 0..(size - 1) /\ Silent(m)
             /\ LoudAfter(m) # {} \/ m + NullSize > size
             /\ \A i \in starts : m <= i
  <2>1. starts \in SUBSET Nat
    OBVIOUS
  <2>2. m \in starts /\ \A i \in starts : m <= i
    <3> HIDE DEF starts
    <3> QED BY <1>3, <2>1, Smallest
  <2> HIDE DEF m
  <2> QED BY <2>2
<1>4. ASSUME starts # {}, LoudAfter(m) # {}
      PROVE  first \in LoudAfter(m) /\ \A j \in LoudAfter(m) : first <= j
  <2>1. LoudAfter(m) \in SUBSET Nat
    <3>1. m \in Nat
      BY <1>3, <1>4
    <3> HIDE DEF m
    <3> QED BY <3>1
  <2> HIDE DEF LoudAfter, m
  <2> QED BY <1>4, <2>1, Smallest
<1>5. ASSUME offset = 0 \/ offset >= NullSize, advance_to_null # NotFound
      PROVE  (offset + advance_to_null) % FrameSize = 0
  <2>1. starts # {} /\ LoudAfter(m) # {} /\ ~(first >= size)
    BY <1>1, <1>5
  <2>2. /\ m \in 0..(size - 1) /\ Silent(m)
        /\ first \in LoudAfter(m) /\ \A j \in LoudAfter(m) : first <= j
    BY <1>3, <1>4, <2>1
  <2>3. advance_to_null = IF begin < 0 THEN size + begin ELSE begin
    BY <1>1, <2>1
  <2> HIDE DEF m, first, starts
  <2>4. first \in Nat /\ m <= first /\ first < size /\ first <= m + NullSize - 1 /\ Loud(first)
    BY <1>2, <2>1, <2>2
  <2>5. first > m + half - 1
    <3>1. SUFFICES ASSUME first \in m..(m + half - 1) PROVE FALSE
      BY <1>2, <2>2, <2>4
    <3> QED BY <2>2, <2>4, <3>1
  <2>6. ~Loud(first - 1)
    <3>1. first - 1 \notin LoudAfter(m)
      <4> HIDE DEF LoudAfter
      <4> QED BY <2>2, <2>4
    <3>2. first - 1 \in m..(m + NullSize - 1)
      BY <1>2, <2>2, <2>4, <2>5
    <3> QED BY <3>1, <3>2
  <2>7. first > 0
    BY <1>2, <2>2, <2>4, <2>5
  <2>8. begin \in Nat /\ (offset + begin) % FrameSize = 0
    BY <1>5, <2>4, <2>6, <2>7, FirstLoud
  <2> HIDE DEF begin
  <2>9. advance_to_null = begin
    BY <2>3, <2>8
  <2> QED BY <2>8, <2>9
<1>6. ASSUME size > FrameSize + NullSize
      PROVE  advance_to_null # NotFound
  <2>1. PICK s \in 0..(FrameSize - 1), t \in {0, 1} : offset + s = FrameSize * t
    <3>1. CASE offset = 0
      BY <1>2, <3>1
    <3>2. CASE offset # 0
      <4>1. FrameSize - offset \in 0..(FrameSize - 1) /\ offset + (FrameSize - offset) = FrameSize * 1
        BY <1>2, <3>2
      <4> QED BY <4>1
    <3> QED BY <3>1, <3>2
  <2>2. \A i \in 0..NullSize : (offset + (s + i)) % FrameSize = i
    <3> SUFFICES ASSUME NEW i \in 0..NullSize PROVE (offset + (s + i)) % FrameSize = i
      OBVIOUS
    <3> DEFINE x == offset + (s + i)
    <3>1. FrameSize * t \in Nat /\ t \in Nat
      BY <1>2
    <3>2. x \in Nat /\ x = FrameSize * t + i /\ i \in 0..(FrameSize - 1)
      BY <1>2, <2>1, <3>1
    <3> HIDE DEF x
    <3>3. x % FrameSize = i
      BY <1>2, <3>1, <3>2, Remainder
    <3> QED BY <3>3 DEF x
  <2>3. /\ \A j \in s..(s + NullSize - 1) : ~Loud(j)
        /\ Loud(s + NullSize)
    <3>1. ASSUME NEW j \in s..(s + NullSize - 1) PROVE ~Loud(j)
      <4>1. j - s \in 0..NullSize /\ s + (j - s) = j /\ j - s < NullSize
        BY <1>2
      <4>2. (offset + j) % FrameSize = j - s
        BY <2>2, <4>1
      <4> QED BY <1>2, <4>1, <4>2 DEF Loud
    <3>2. Loud(s + NullSize)
      BY <1>2, <2>2 DEF Loud
    <3> QED BY <3>1, <3>2
  <2> DEFINE i == half * (s \div half + 1)
  <2>4. i \in Nat /\ s < i /\ i <= s + half /\ i % half = 0
    <3> DEFINE n == s \div half
    <3>1. n \in Nat /\ s % half \in 0..(half - 1) /\ s = half * n + (s % half)
      BY <1>2, Remainder
    <3> HIDE DEF n
    <3>2. half * n \in Nat /\ half * (n + 1) = half * n + half
      BY <1>2, <3>1
    <3>3. i = half * n + half /\ i \in Nat /\ n + 1 \in Nat /\ i = half * (n + 1)
      BY <1>2, <3>2 DEF n
    <3> DEFINE up == n + 1
    <3>4. up \in Nat /\ i = half * up
      BY <3>3
    <3> HIDE DEF i, up, half
    <3>5. i % half = 0
      <4>1. (half * up) % half = 0
        BY <1>2, <3>4, Multiple
      <4> QED BY <3>4, <4>1
    <3> QED BY <1>2, <3>1, <3>2, <3>3, <3>5
  <2> HIDE DEF i
  <2>5. i \in starts
    <3>1. i \in 0..(size - 1)
      BY <1>2, <1>6, <2>4
    <3>2. Silent(i)
      <4> SUFFICES ASSUME NEW j \in i..(i + half - 1) PROVE ~Loud(j)
        OBVIOUS
      <4>1. j \in s..(s + NullSize - 1)
        BY <1>2, <2>4
      <4> QED BY <2>3, <4>1
    <3>3. LoudAfter(i) # {}
      <4>1. s + NullSize \in i..(i + NullSize - 1)
        BY <1>2, <2>4
      <4> QED BY <2>3, <4>1
    <3> HIDE DEF Silent, LoudAfter
    <3> QED BY <2>4, <3>1, <3>2, <3>3
  <2>6. /\ m \in 0..(size - 1) /\ m <= i
        /\ LoudAfter(m) # {} \/ m + NullSize > size
    BY <1>3, <2>5
  <2>7. starts # {}
    BY <2>5
  <2> HIDE DEF m, starts
  <2>8. m > s => s + NullSize \in LoudAfter(m)
    <3>1. m > s => s + NullSize \in m..(m + NullSize - 1)
      BY <1>2, <2>4, <2>6
    <3> QED BY <2>3, <3>1
  <2>9. LoudAfter(m) # {}
    <3> HIDE DEF LoudAfter
    <3> QED BY <1>2, <1>6, <2>4, <2>6, <2>8
  <2>10. first \in LoudAfter(m) /\ \A j \in LoudAfter(m) : first <= j
    BY <1>4, <2>7, <2>9
  <2> HIDE DEF first
  <2>11. first \in Nat /\ first <= m + NullSize - 1
    BY <1>2, <2>6, <2>10
  <2>12. first < size
    <3> HIDE DEF LoudAfter
    <3> QED BY <1>2, <1>6, <2>6, <2>8, <2>10, <2>11
  <2>13. advance_to_null = IF begin < 0 THEN size + begin ELSE begin
    <3> HIDE DEF LoudAfter, begin
    <3> QED BY <1>1, <2>7, <2>9, <2>11, <2>12
  <2> QED BY <1>2, <2>11, <2>12, <2>13 DEF NotFound
<1> QED BY <1>5, <1>6 DEF AlignedToNull

-----------------------------------------------------------------------------
(* Every behaviour *)

TiiInv ==
  /\ onAir \subseteq Transmitters
  /\ size \in Nat /\ offset \in 0..(FrameSize - 1)

LEMMA TiiInductive ==
  /\ TiiInit => TiiInv
  /\ TiiInv /\ [TiiNext]_tiiVars => TiiInv'
<1>1. FrameSize \in Nat /\ FrameSize > 0 /\ FrameSize' = FrameSize
  BY Sizes DEF FrameSize
<1>2. TiiInit => TiiInv
  BY <1>1 DEF TiiInit, TiiInv
<1>3. ASSUME TiiInv, [TiiNext]_tiiVars PROVE TiiInv'
  <2>1. CASE \E cp \in Transmitters : SwitchOn(cp)
    BY <1>1, <1>3, <2>1 DEF TiiInv, SwitchOn
  <2>2. CASE \E k \in Fading \cap Received : Fade(k)
    BY <1>1, <1>3, <2>2 DEF TiiInv, Fade
  <2>3. CASE \E first \in 0..(FrameSize - 1), length \in FileSizes : Record(first, length)
    BY <1>1, <1>3, <2>3, TiiAssumption DEF TiiInv, Record
  <2>4. CASE UNCHANGED tiiVars
    BY <1>1, <1>3, <2>4 DEF TiiInv, tiiVars
  <2> QED BY <1>3, <2>1, <2>2, <2>3, <2>4 DEF TiiNext
<1> QED BY <1>2, <1>3

LEMMA TiiImplied == TiiInv => TiiIdentifies
<1> SUFFICES ASSUME TiiInv PROVE TiiIdentifies
  OBVIOUS
<1>1. onAir \subseteq Transmitters
  BY DEF TiiInv
<1>2. \A cp \in onAir :
        all_tii_patterns[cp] = Formula[cp] \cup {k + 1 : k \in Formula[cp]}
  BY <1>1, AsTheStandard
<1>3. faded = {} => \A cp \in onAir : onAir = {cp} => plot_tii_once = cp
  BY <1>1, AloneIsTold
<1>4. \A cp \in onAir : Arrived(cp) => cp \in algo1
  BY <1>1, ArrivedIsReported
<1>5. DifferentCombs => algo1 \subseteq onAir
  BY <1>1, OnlyThoseOnAir
<1>6. size > 0 => AlignedToNull
  BY NullFound DEF TiiInv
<1> QED BY <1>2, <1>3, <1>4, <1>5, <1>6 DEF TiiIdentifies, Identified

-----------------------------------------------------------------------------
(* Theorem                                                                 *)

\* Whatever transmitters there are, whatever carriers fade and wherever a file
\* begins in a frame: the short computation of the carriers is the standard's,
\* one transmitter is told by plot_tii_once, algo1 reports those of whom each pair
\* arrives and, among different combs, nobody else (tii.py lines 85-132,
\* analyse_tii_from_file.py 253-306 and 360-410); advance_to_null (lines 202-212)
\* finds the NULL symbol.
THEOREM TransmittersTold == TiiSpec => []TiiIdentifies
BY TiiInductive, TiiImplied, PTL DEF TiiSpec
=============================================================================
