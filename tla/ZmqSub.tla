-------------------------------- MODULE ZmqSub --------------------------------
(***************************************************************************)
(* zmqtest/zmq-sub/zmq-sub.cpp: the subscriber of a multiplexer's ETI       *)
(* output, with the option -t: it follows the time the frames carry.        *)
(*                                                                         *)
(* A frame's TIST is its place in the current second.  Which second that is *)
(* comes in pieces, in the MNSC fields of four frames (frame phases 0..3);  *)
(* between two such times the decoder counts TIST wrap-arounds.             *)
(*                                                                         *)
(* The multiplexer is external.  It takes the second it sends at phase 0,   *)
(* so that the four fields may belong to the second before the one their    *)
(* frames are in; it may send other MNSC data, or a time that is not        *)
(* synchronised.  ZeroMQ drops whole messages of four frames.               *)
(*                                                                         *)
(* A time is a number of seconds: its low part is in the field of phase 1   *)
(* (second and minute), the rest in those of phases 2 and 3, which are one  *)
(* part here.  mktime() takes the broken-down time for UTC.                 *)
(***************************************************************************)
EXTENDS Integers

CONSTANTS
  FramesPerSecond,  \* 41 or 42 in the code: frames of 24 ms
  LowBase,          \* seconds in the low part of a time
  MaxSecond,        \* bound: seconds
  MaxLostInARow,    \* bound: consecutive messages lost
  MaxOutages        \* bound: times that messages are lost

NUM_FRAMES_PER_ZMQ_MESSAGE == 4

\* A second is longer than three messages (Recovers needs it).
ASSUME ZmqSubAssumption ==
  /\ FramesPerSecond \in Nat /\ FramesPerSecond >= 3 * NUM_FRAMES_PER_ZMQ_MESSAGE
  /\ LowBase \in Nat \ {0}
  /\ MaxSecond \in Nat /\ MaxLostInARow \in Nat /\ MaxOutages \in Nat

VARIABLES
  \* The multiplexer: the last frame it made.
  dlfc,       \* its frame phase (the code takes dlfc % 4)
  second,     \* the second it is in, from 0
  tist,       \* its place in that second
  latched,    \* the second sent in the current four MNSC fields
  mnsc_kind,  \* what the four fields are: "time", "unsynchronised", "other"
  \* The connection.
  left,       \* frames left in the current message
  dropped,    \* the current message is lost
  in_a_row,   \* messages lost in a row
  outages,    \* times that messages were lost
  \* The decoder, with the code's names.
  enableDecode, temp_time, inhibit_second_update, time_secs, time_pps,
  full_timestamp_received,
  \* History: times read in a row, without a loss or another kind; since they were
  \* so many that the time must be right, a second or more has been lost, or
  \* fields that are not a time.
  clean, gap

mux == <<dlfc, second, tist, latched, mnsc_kind>>
connection == <<left, dropped, in_a_row, outages>>
decoder == <<enableDecode, temp_time, inhibit_second_update, time_secs,
             time_pps, full_timestamp_received>>
vars == <<mux, connection, decoder, clean, gap>>

Kinds == {"time", "unsynchronised", "other"}
MaxClean == 6

-------------------------------------------------------------------------------
(* The multiplexer and the connection (external)                             *)

\* The next frame; the time is taken, and the kind chosen, at phase 0.
NextFrame ==
  /\ dlfc' = (dlfc + 1) % 4
  /\ tist' = (tist + 1) % FramesPerSecond
  /\ second' = IF tist' = 0 THEN second + 1 ELSE second
  /\ IF dlfc' = 0
     THEN /\ mnsc_kind' \in Kinds
          /\ latched' \in IF mnsc_kind' = "time" THEN {second'} ELSE {0, MaxSecond}
     ELSE UNCHANGED <<latched, mnsc_kind>>

\* A message begins: it is lost or it is not.
NextMessage ==
  IF left > 0
  THEN left' = left - 1 /\ UNCHANGED <<dropped, in_a_row, outages>>
  ELSE /\ left' = NUM_FRAMES_PER_ZMQ_MESSAGE - 1
       /\ \/ dropped' = FALSE /\ in_a_row' = 0 /\ UNCHANGED outages
          \/ /\ dropped' = TRUE
             /\ in_a_row < MaxLostInARow
             /\ in_a_row' = in_a_row + 1
             /\ outages' = IF in_a_row = 0 THEN outages + 1 ELSE outages
             /\ outages' <= MaxOutages

-------------------------------------------------------------------------------
(* The decoder                                                               *)

\* Mutant: four times are skipped.
SkippedTimesFour == 4

\* "The second for the next eight frames will not be defined by the MNSC":
\* two times.
SkippedTimes == 2

\* updateTimestampPPS notices a new second.
SecondCrossed == time_pps > tist'

SecondsNow == IF SecondCrossed THEN time_secs + 1 ELSE time_secs
InhibitNow == IF SecondCrossed THEN SkippedTimes ELSE inhibit_second_update

\* Mutant: the first field enables, nothing disables.
EnableSticky == enableDecode \/ (dlfc' = 0 /\ mnsc_kind' # "other")

\* pushMNSCData, phases 0 and 1: are the four fields a time?
Enable ==
  CASE dlfc' = 0 -> mnsc_kind' # "other"
    [] dlfc' = 1 -> enableDecode /\ mnsc_kind' # "unsynchronised"
    [] OTHER     -> enableDecode

\* pushMNSCData: the fields, and mktime of them.
Fields ==
  CASE dlfc' = 0 -> [low |-> 0, high |-> 0]
    [] dlfc' = 1 -> [temp_time EXCEPT !.low = latched' % LowBase]
    [] dlfc' = 2 -> [temp_time EXCEPT !.high = latched' \div LowBase]
    [] OTHER     -> temp_time

Mktime(fields) == fields.high * LowBase + fields.low

\* updateTimestampSeconds
TimeComplete == dlfc' = 3 /\ Enable

InhibitAfter ==
  IF TimeComplete /\ InhibitNow > 0 THEN InhibitNow - 1 ELSE InhibitNow

\* get_tist_ms: updateTimestampPPS, then pushMNSCData.
GetTist ==
  /\ time_pps' = tist'
  /\ enableDecode' = Enable
  /\ temp_time' = Fields
  /\ inhibit_second_update' = InhibitAfter
  /\ IF TimeComplete /\ InhibitNow = 0
     THEN time_secs' = Mktime(Fields) /\ full_timestamp_received' = TRUE
     ELSE time_secs' = SecondsNow /\ UNCHANGED full_timestamp_received

-------------------------------------------------------------------------------
\* The subscriber connects at any moment.
Init ==
  /\ dlfc \in 0..3 /\ second = 0 /\ tist \in 0..(FramesPerSecond - 1)
  /\ latched = 0 /\ mnsc_kind = "other"
  /\ left = 0 /\ dropped = FALSE /\ in_a_row = 0 /\ outages = 0
  /\ enableDecode = FALSE /\ temp_time = [low |-> 0, high |-> 0]
  /\ inhibit_second_update = 0 /\ time_secs = 0 /\ time_pps = 0
  /\ full_timestamp_received = FALSE
  /\ clean = 0 /\ gap = FALSE

\* One more time read, or the count starts again.
History ==
  /\ clean' = IF dropped' \/ mnsc_kind' # "time" THEN 0
              ELSE IF dlfc' = 3 /\ clean < MaxClean THEN clean + 1 ELSE clean
  /\ gap' = /\ clean' # MaxClean
            /\ \/ gap
               \/ in_a_row' * NUM_FRAMES_PER_ZMQ_MESSAGE + 1 >= FramesPerSecond
               \/ dropped' /\ mnsc_kind' # "time"

Frame ==
  /\ second < MaxSecond
  /\ NextFrame
  /\ NextMessage
  /\ IF dropped' THEN UNCHANGED decoder ELSE GetTist
  /\ History

Next == Frame

Spec == Init /\ [][Next]_vars

-------------------------------------------------------------------------------
(* Properties                                                                *)

TypeOK ==
  /\ dlfc \in 0..3 /\ tist \in 0..(FramesPerSecond - 1) /\ second \in 0..MaxSecond
  /\ latched \in 0..MaxSecond /\ mnsc_kind \in Kinds
  /\ left \in 0..(NUM_FRAMES_PER_ZMQ_MESSAGE - 1) /\ dropped \in BOOLEAN
  /\ in_a_row \in 0..MaxLostInARow /\ outages \in 0..MaxOutages
  /\ enableDecode \in BOOLEAN /\ temp_time \in [low : Nat, high : Nat]
  /\ inhibit_second_update \in 0..SkippedTimes
  /\ time_secs \in Nat /\ time_pps \in 0..(FramesPerSecond - 1)
  /\ full_timestamp_received \in BOOLEAN
  /\ clean \in 0..MaxClean /\ gap \in BOOLEAN

\* After a frame has been decoded, the time shown (once there is one) is that
\* frame's, wherever the second changes in the four fields, and whichever
\* messages are lost, if from one frame received to the next it is less than a
\* second, and the fields lost are a time (enableDecode, left over from the
\* last time, would accept the rest of other fields).
SecondsRight ==
  ~dropped /\ full_timestamp_received /\ ~gap => time_secs = second

\* Whatever was lost before, after six times read in a row (the first of which may
\* have begun during the loss) there is a time and it is right.
Recovers ==
  clean = MaxClean => full_timestamp_received /\ time_secs = second
-------------------------------------------------------------------------------
(* Why: the inductive invariant                                              *)

\* Frames lost since the last one received; its second and its phase.  (Whole
\* messages are lost, so that the decoder sees the phases in turn.)
Lost == IF dropped THEN in_a_row * NUM_FRAMES_PER_ZMQ_MESSAGE - left ELSE 0
LastSecond == IF tist < Lost THEN second - 1 ELSE second
LastPhase == IF dropped THEN (dlfc + left) % 4 ELSE dlfc

\* The decoder can tell when the second changes: not for losses of a second.
Tracked == ~gap \/ clean > 0

\* What is latched is the second of phase 0; messages are lost in a row or not.
MuxLatched ==
  /\ mnsc_kind = "time" => latched = IF tist < dlfc THEN second - 1 ELSE second
  /\ dropped <=> in_a_row > 0

\* time_pps is that of the last frame received.
PpsFollows ==
  (enableDecode \/ full_timestamp_received) /\ Tracked =>
    time_pps = IF tist < Lost THEN tist - Lost + FramesPerSecond ELSE tist - Lost

\* While decoding is enabled, the fields are those of a time; what is lost is less
\* than a second, and of a time.
EnabledForTimes ==
  /\ enableDecode /\ Tracked =>
       mnsc_kind # "other" /\ (dlfc # 0 => mnsc_kind = "time")
  /\ dropped /\ ~gap =>
       /\ mnsc_kind = "time"
       /\ in_a_row * NUM_FRAMES_PER_ZMQ_MESSAGE + 1 < FramesPerSecond
  /\ clean > 0 => mnsc_kind = "time" /\ ~dropped
  /\ clean > 1 \/ (clean = 1 /\ dlfc # 3) => enableDecode

\* If no new second was noticed since the last time was complete, the fields are
\* those of the current one.
FieldsCurrent ==
  enableDecode /\ Tracked /\ inhibit_second_update < SkippedTimes =>
    /\ LastPhase \in {1, 2} => temp_time.low = LastSecond % LowBase
    /\ LastPhase = 2 => temp_time.high = LastSecond \div LowBase
    /\ ~dropped /\ dlfc = 1 => tist # 0

SecondsFollow == full_timestamp_received /\ ~gap => time_secs = LastSecond

\* Towards Recovers: with each time read there is one less to skip, unless a second
\* has begun since, which does not happen twice in three messages.
Recovering ==
  LET k == (dlfc + 1) % 4    \* frames since the last time was complete
      Skip(n) == inhibit_second_update = n
  IN \/ full_timestamp_received /\ time_secs = second
     \/ clean \in {0, 1}
     \/ clean = 2 /\ (Skip(2) => tist < k)
     \/ clean = 3 /\ (Skip(2) => tist < k) /\ (Skip(1) => tist <= 3 + k)
     \/ clean = 4 /\ ~Skip(2) /\ tist <= 7 + k /\ (Skip(1) => tist <= 3 + k)
     \/ clean = 5 /\ Skip(0) /\ tist <= 7 + k

\* The invariant of the run: the types, the time shown is right (zmq-sub.cpp
\* lines 102-176), and what keeps it so.
ZmqSubInv ==
  /\ TypeOK
  /\ SecondsRight
  /\ MuxLatched
  /\ PpsFollows
  /\ EnabledForTimes
  /\ FieldsCurrent
  /\ SecondsFollow
  /\ Recovering
===============================================================================
